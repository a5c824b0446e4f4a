----------------------------- MODULE CommandLine -------------------------------
(***************************************************************************)
(* The client's input (stdin_handling.cpp, Command_parser.cpp): reads of   *)
(* stdin cut the text anywhere, _handle_stdin puts the lines together      *)
(* again, and _parse_line makes a command of each.  Characters are named,  *)
(* and only those the parser tells apart; "letter" is all the others.      *)
(***************************************************************************)
EXTENDS Integers, SequencesExt

CONSTANTS
  MaxTyped,  \* bound: characters that are typed, or in the script piped in
  ReadSize   \* bytes that one read() takes at most

ASSUME SizesArePositive == MaxTyped \in Nat /\ ReadSize \in Nat \ {0}

Chars == {"slash", "space", "quote", "letter", "feed"}

Text == UNION {[1 .. n -> Chars] : n \in 0 .. MaxTyped}

VARIABLES
  typed,       \* the whole text, for the properties
  unread,      \* what is left of it in the terminal or the pipe
  _stdin_buf,  \* read, and not a whole line yet
  handled,     \* the lines handled, each with what was made of it
  _running

inputVars == <<typed, unread, _stdin_buf, handled, _running>>

InputInit ==
  /\ typed \in Text
  /\ unread = typed
  /\ _stdin_buf = <<>>
  /\ handled = <<>>
  /\ _running = TRUE

-----------------------------------------------------------------------------
(* _parse_line *)

\* The first position from i on where line has one of chars, else the one after its end.
Find(line, i, chars) ==
  Min({j \in i .. Len(line) : line[j] \in chars} \cup {Len(line) + 1})

Invalid == [valid |-> FALSE, name |-> <<>>, args |-> <<>>]

WithArg(arg, rest) == [rest EXCEPT !.args = <<arg>> \o @]

\* What line says from a position after its name on.  Mutant: the scan goes on
\* at the closing quote.
AfterQuote_On(e) == e
AfterQuote(e) == e + 1

Arguments(line, name) ==
  LET n == Len(line)
      from[i \in 1 .. n + 2] ==
        LET b == Find(line, i, Chars \ {"space"})
            quoted == Find(line, b + 1, {"quote"})
            word == Find(line, b, {"space"})
        IN IF b > n THEN [valid |-> TRUE, name |-> name, args |-> <<>>]
           ELSE IF line[b] # "quote" THEN WithArg(SubSeq(line, b, word - 1), from[word])
           ELSE IF quoted > n THEN Invalid
           ELSE LET rest == from[AfterQuote(quoted)]
                IN IF rest.valid THEN WithArg(SubSeq(line, b + 1, quoted - 1), rest) ELSE Invalid
  IN from[Find(line, 1, {"space"})]

_parse_line(line) ==
  IF line = <<>> \/ Head(line) # "slash" THEN Invalid
  ELSE Arguments(line, SubSeq(line, 2, Find(line, 1, {"space"}) - 1))

-----------------------------------------------------------------------------
(* _handle_stdin *)

\* Where what stays in the buffer begins, after its line that ends before position
\* p.  Mutant: nothing stays, the lines read with it are lost.
Remaining_Cleared(buffer, p) == Len(buffer) + 1
Remaining(buffer, p) == p + 1

\* Every whole line of buffer in turn: those that are not empty, parsed, and
\* what is left.
Lines(buffer) ==
  LET from[i \in 1 .. Len(buffer) + 1] ==
        LET p == Find(buffer, i, {"feed"})
            line == SubSeq(buffer, i, p - 1)
            more == from[Remaining(buffer, p)]
            this == IF line = <<>> THEN <<>> ELSE <<[line |-> line, cmd |-> _parse_line(line)]>>
        IN IF p > Len(buffer) THEN [done |-> <<>>, left |-> SubSeq(buffer, i, Len(buffer))]
           ELSE [done |-> this \o more.done, left |-> more.left]
  IN from[1]

\* read() takes what has arrived so far, at most ReadSize bytes.
_handle_stdin ==
  /\ _running
  /\ \E n \in 1 .. Min({ReadSize, Len(unread)}) :
       LET lines == Lines(_stdin_buf \o SubSeq(unread, 1, n)) IN
       /\ unread' = SubSeq(unread, n + 1, Len(unread))
       /\ _stdin_buf' = lines.left
       /\ handled' = handled \o lines.done
       /\ UNCHANGED <<typed, _running>>

\* read() returns 0 at the end of the input.
EndOfInput ==
  /\ _running
  /\ unread = <<>>
  /\ _running' = FALSE
  /\ UNCHANGED <<typed, unread, _stdin_buf, handled>>

InputNext == _handle_stdin \/ EndOfInput

InputSpec == InputInit /\ [][InputNext]_inputVars

-----------------------------------------------------------------------------
(* Properties *)

\* Where the line that position p of a text is on begins, from the line feeds
\* before p alone.
LineStart(text, p) == Max({0} \cup {q \in 1 .. p - 1 : text[q] = "feed"}) + 1

\* The line feeds among the first n characters that end a line with something on it.
Ended(text, n) == {p \in 1 .. n : text[p] = "feed" /\ LineStart(text, p) < p}

\* Wherever the reads cut the text, every line that has been read to its end is
\* handled, once and in order, and what follows the last one is kept
\* (_handle_stdin loops over the lines it has; a script piped in arrives in
\* blocks of 4096 bytes).
LinesAsTyped ==
  LET read == Len(typed) - Len(unread)
      ended == Ended(typed, read)
  IN /\ Len(handled) = Cardinality(ended)
     /\ \A p \in ended :
          handled[Cardinality({q \in ended : q <= p})].line = SubSeq(typed, LineStart(typed, p), p - 1)
     /\ _stdin_buf = SubSeq(typed, LineStart(typed, read + 1), read)

\* A command as the README writes it: each value in double quotes.
Quoted(args) ==
  FlattenSeq([i \in DOMAIN args |-> <<"space", "quote">> \o args[i] \o <<"quote">>])

\* A command that was accepted, written the documented way, is the same command:
\* values keep their spaces, empty values stay values, and none is split or run
\* into the next (_parse_line; a value with a quote in it cannot be written so).
QuotingKeepsCommands ==
  \A i \in DOMAIN handled :
    LET cmd == handled[i].cmd
        plain(arg) == \A p \in DOMAIN arg : arg[p] # "quote"
    IN cmd.valid /\ (\A k \in DOMAIN cmd.args : plain(cmd.args[k]))
       => _parse_line(<<"slash">> \o cmd.name \o Quoted(cmd.args)) = cmd

\* README.md:112: "All values must be wrapped in double quotes."  The parser takes
\* words without quotes as well.
ValuesAreQuoted ==
  \A i \in DOMAIN handled :
    LET quotes == {p \in DOMAIN handled[i].line : handled[i].line[p] = "quote"}
    IN handled[i].cmd.valid => 2 * Len(handled[i].cmd.args) <= Cardinality(quotes)
================================================================================
