-------------------------- MODULE CommandLine_proofs --------------------------
(***************************************************************************)
(* Proofs about CommandLine, for texts, reads and lines of every length.   *)
(* Both loops scan a text from a position on; what they compute from a     *)
(* position is known once it is known from all later ones (FromTheEnd),    *)
(* and that they compute something has to be proved first (ScanExists).    *)
(***************************************************************************)
EXTENDS CommandLine, FiniteSetTheorems, SequenceTheorems, WellFoundedInduction, TLAPS

-----------------------------------------------------------------------------
(* Scans from the end of a text to its beginning *)

\* A set of numbers that is not empty has a least one.
LEMMA LeastNatural ==
  ASSUME NEW T \in SUBSET Nat, T # {}
  PROVE  \E n \in T : \A m \in T : n <= m
<1> DEFINE R == OpToRel(<, Nat)
<1>1. IsWellFoundedOn(R, Nat)
  BY NatLessThanWellFounded
<1> HIDE DEF R
<1>2. PICK n \in T : \A m \in T : ~ (<<m, n>> \in R)
  BY <1>1, WFMin
<1>3. \A m \in Nat : m < n => <<m, n>> \in R
  BY DEF R, OpToRel
<1>4. \A m \in T : ~ (m < n)
  BY <1>2, <1>3
<1>5. \A m \in T : m \in Nat /\ n \in Nat
  OBVIOUS
<1>6. \A m \in T : n <= m
  BY <1>4, <1>5
<1> QED BY <1>6

\* What holds of a position as soon as it holds of all later ones holds of all.
LEMMA FromTheEnd ==
  ASSUME NEW N \in Nat, NEW S,
         \A i \in 1 .. N : (\A j \in i + 1 .. N : j \in S) => i \in S
  PROVE  \A i \in 1 .. N : i \in S
<1> DEFINE T == {k \in Nat : N - k \in 1 .. N /\ N - k \notin S}
<1> SUFFICES ASSUME NEW i \in 1 .. N, i \notin S PROVE FALSE
  OBVIOUS
<1>1. N - i \in T
  <2>1. N - i \in Nat /\ N - (N - i) = i
    OBVIOUS
  <2> QED BY <2>1
<1>2. PICK k \in T : \A m \in T : k <= m
  <2> HIDE DEF T
  <2>1. T \subseteq Nat
    BY DEF T
  <2> QED BY <1>1, <2>1, LeastNatural
<1>3. PICK j \in (N - k) + 1 .. N : j \notin S
  BY <1>2
<1>4. N - j \in Nat /\ N - (N - j) = j /\ j \in 1 .. N /\ N - j < k
  BY <1>2, <1>3
<1>5. N - j \in T
  BY <1>3, <1>4
<1> QED BY <1>2, <1>4, <1>5

\* f goes on from each position at next, if that is one, and ends otherwise.
IsScan(f, N, next, base, step) ==
  \A i \in 1 .. N : f[i] = IF next[i] <= N THEN step[i][f[next[i]]] ELSE base[i]

\* A scan that goes on at a later position, or ends, computes something.
LEMMA ScanExists ==
  ASSUME NEW N \in Nat, NEW R, NEW next \in [1 .. N -> Nat], NEW base \in [1 .. N -> R],
         NEW step \in [1 .. N -> [R -> R]], \A i \in 1 .. N : next[i] > i
  PROVE  \E f \in [1 .. N -> R] : IsScan(f, N, next, base, step)
<1> USE DEF IsScan
<1> DEFINE Fits(f, i) == f[i] = IF next[i] <= N THEN step[i][f[next[i]]] ELSE base[i]
           S == {i \in 1 .. N : \E f \in [1 .. N -> R] : \A j \in i .. N : Fits(f, j)}
<1>1. ASSUME NEW i \in 1 .. N, \A j \in i + 1 .. N : j \in S
      PROVE  i \in S
  <2>1. PICK f \in [1 .. N -> R] : \A j \in i + 1 .. N : Fits(f, j)
    <3>1. CASE i = N
      <4>1. \A j \in i + 1 .. N : FALSE
        BY <3>1
      <4> QED BY <4>1
    <3>2. CASE i # N
      <4>1. i + 1 \in i + 1 .. N
        BY <3>2
      <4>2. i + 1 \in S
        BY <1>1, <4>1
      <4> QED BY <4>2
    <3> QED BY <3>1, <3>2
  <2> DEFINE value == IF next[i] <= N THEN step[i][f[next[i]]] ELSE base[i]
             g == [f EXCEPT ![i] = value]
  <2>2. next[i] \in Nat /\ next[i] > i
    OBVIOUS
  <2>3. value \in R
    <3>1. CASE next[i] <= N
      <4>1. next[i] \in 1 .. N
        BY <2>2, <3>1
      <4>2. f[next[i]] \in R
        BY <4>1
      <4>3. step[i] \in [R -> R]
        OBVIOUS
      <4>4. step[i][f[next[i]]] \in R
        BY <4>2, <4>3
      <4> QED BY <3>1, <4>4
    <3>2. CASE ~ (next[i] <= N)
      BY <3>2
    <3> QED BY <3>1, <3>2
  <2> HIDE DEF value
  <2>4. g \in [1 .. N -> R] /\ g[i] = value /\ \A j \in i + 1 .. N : g[j] = f[j]
    BY <2>3
  <2>5. \A j \in i .. N : next[j] <= N => g[next[j]] = f[next[j]]
    <3>1. \A j \in i .. N : next[j] \in Nat /\ next[j] > j
      OBVIOUS
    <3>2. \A j \in i .. N : next[j] <= N => next[j] \in i + 1 .. N
      BY <3>1
    <3> QED BY <2>4, <3>2
  <2> HIDE DEF g
  <2>6. Fits(g, i)
    <3>1. i \in i .. N
      OBVIOUS
    <3>2. next[i] <= N => g[next[i]] = f[next[i]]
      BY <2>5, <3>1
    <3>3. CASE next[i] <= N
      BY <2>4, <3>2, <3>3 DEF value
    <3>4. CASE ~ (next[i] <= N)
      BY <2>4, <3>4 DEF value
    <3> QED BY <3>3, <3>4
  <2>7. ASSUME NEW j \in i + 1 .. N PROVE Fits(g, j)
    <3>1. g[j] = f[j] /\ (next[j] <= N => g[next[j]] = f[next[j]])
      BY <2>4, <2>5
    <3>2. Fits(f, j)
      BY <2>1
    <3> QED BY <3>1, <3>2
  <2>8. \A j \in i .. N : j = i \/ j \in i + 1 .. N
    OBVIOUS
  <2> HIDE DEF Fits
  <2>9. \A j \in i .. N : Fits(g, j)
    BY <2>6, <2>7, <2>8
  <2> QED BY <2>4, <2>9
<1> HIDE DEF Fits
<1>2. \A i \in 1 .. N : i \in S
  <2> HIDE DEF S
  <2> QED BY <1>1, FromTheEnd
<1>3. CASE N = 0
  <2>1. base \in [1 .. N -> R] /\ \A i \in 1 .. N : FALSE
    BY <1>3
  <2> QED BY <2>1
<1>4. CASE N # 0
  <2>1. 1 \in 1 .. N
    BY <1>4
  <2>2. 1 \in S
    <3> HIDE DEF S
    <3> QED BY <1>2, <2>1
  <2> QED BY <2>2 DEF Fits
<1> QED BY <1>3, <1>4

-----------------------------------------------------------------------------
(* Finding a character *)

\* std::string::find, and find_first_not_of, return the first place there is, or the
\* end (Find).
LEMMA FindFinds ==
  ASSUME NEW line \in Seq(Chars), NEW i \in 1 .. Len(line) + 1, NEW chars
  PROVE  /\ Find(line, i, chars) \in i .. Len(line) + 1
         /\ \A j \in i .. Find(line, i, chars) - 1 : line[j] \notin chars
         /\ Find(line, i, chars) <= Len(line) => line[Find(line, i, chars)] \in chars
<1> DEFINE T == {j \in i .. Len(line) : line[j] \in chars} \cup {Len(line) + 1}
<1>1. Len(line) \in Nat
  OBVIOUS
<1>2. T \in SUBSET Nat /\ T # {}
  BY <1>1
<1>3. \E p \in T : \A q \in T : p <= q
  <2> HIDE DEF T
  <2> QED BY <1>2, LeastNatural
<1>4. Min(T) \in T /\ \A q \in T : Min(T) <= q
  <2> HIDE DEF T
  <2> QED BY <1>3 DEF Min
<1>5. Find(line, i, chars) = Min(T)
  BY DEF Find
<1> DEFINE p == Min(T)
<1>6. p \in i .. Len(line) + 1 /\ (p <= Len(line) => line[p] \in chars)
  <2> HIDE DEF p
  <2>1. p \in T
    BY <1>4 DEF p
  <2> QED BY <1>1, <2>1
<1>7. ASSUME NEW j \in i .. p - 1 PROVE line[j] \notin chars
  <2> HIDE DEF p
  <2>1. j \in i .. Len(line) /\ j < p
    BY <1>1, <1>6
  <2>2. j \notin T
    <3>1. \A q \in T : p <= q
      BY <1>4 DEF p
    <3> HIDE DEF T
    <3>2. p \in Int /\ j \in Int
      BY <1>1, <1>6
    <3> QED BY <2>1, <3>1, <3>2
  <2> QED BY <2>1, <2>2
<1> QED BY <1>5, <1>6, <1>7

\* What is found is known by where it is.
LEMMA FindIs ==
  ASSUME NEW line \in Seq(Chars), NEW i \in 1 .. Len(line) + 1, NEW chars,
         NEW p \in i .. Len(line) + 1, \A j \in i .. p - 1 : line[j] \notin chars,
         p <= Len(line) => line[p] \in chars
  PROVE  Find(line, i, chars) = p
<1> DEFINE q == Find(line, i, chars)
<1>1. /\ q \in i .. Len(line) + 1 /\ \A j \in i .. q - 1 : line[j] \notin chars
      /\ q <= Len(line) => line[q] \in chars
  BY FindFinds
<1> HIDE DEF q
<1>2. Len(line) \in Nat
  OBVIOUS
<1>3. ~ (q < p)
  <2> SUFFICES ASSUME q < p PROVE FALSE
    OBVIOUS
  <2>1. q \in i .. p - 1 /\ q <= Len(line)
    BY <1>1, <1>2
  <2> QED BY <1>1, <2>1
<1>4. ~ (p < q)
  <2> SUFFICES ASSUME p < q PROVE FALSE
    OBVIOUS
  <2>1. p \in i .. q - 1 /\ p <= Len(line)
    BY <1>1, <1>2
  <2> QED BY <1>1, <2>1
<1> QED BY <1>1, <1>2, <1>3, <1>4 DEF q
-----------------------------------------------------------------------------
(* Where lines begin *)

Texts == Seq(Chars)

\* Where a line begins: after a line feed or at the start, with no line feed after it.
LEMMA LineBegins ==
  ASSUME NEW text \in Texts, NEW p \in 1 .. Len(text) + 1
  PROVE  /\ LineStart(text, p) \in 1 .. p
         /\ LineStart(text, p) = 1 \/ text[LineStart(text, p) - 1] = "feed"
         /\ \A q \in LineStart(text, p) .. p - 1 : text[q] # "feed"
<1> DEFINE F == {0} \cup {q \in 1 .. p - 1 : text[q] = "feed"}
           T == {k \in Nat : p - 1 - k \in F}
<1>1. p \in Nat \ {0}
  BY DEF Texts
<1>2. F \subseteq 0 .. p - 1 /\ 0 \in F
  BY <1>1
<1>3. T \in SUBSET Nat /\ T # {}
  <2>1. p - 1 \in Nat /\ p - 1 - (p - 1) = 0
    BY <1>1
  <2> QED BY <1>2, <2>1
<1>4. PICK k \in T : \A m \in T : k <= m
  <2> HIDE DEF T
  <2> QED BY <1>3, LeastNatural
<1>5. ASSUME NEW q \in F PROVE q <= p - 1 - k
  <2>1. q \in 0 .. p - 1
    BY <1>2
  <2>2. p - 1 - q \in Nat /\ p - 1 - (p - 1 - q) = q
    BY <1>1, <2>1
  <2>3. p - 1 - q \in T
    BY <2>2
  <2> HIDE DEF T, F
  <2>4. k <= p - 1 - q /\ k \in Nat
    BY <1>3, <1>4, <2>3
  <2> QED BY <1>1, <2>1, <2>4
<1>6. p - 1 - k \in F
  BY <1>4
<1>7. Max(F) \in F /\ \A q \in F : q <= Max(F)
  <2> HIDE DEF F
  <2> QED BY <1>5, <1>6 DEF Max
<1> DEFINE m == Max(F)
<1>8. LineStart(text, p) = m + 1
  BY DEF LineStart
<1>9. m \in 0 .. p - 1 /\ (m = 0 \/ text[m] = "feed") /\ \A q \in 1 .. p - 1 : text[q] = "feed" => q <= m
  <2> HIDE DEF m
  <2> QED BY <1>2, <1>7 DEF m
<1> HIDE DEF m
<1> QED BY <1>1, <1>8, <1>9

\* Where a line begins is known by what is before it and in it.
LEMMA LineBeginsAt ==
  ASSUME NEW text \in Texts, NEW p \in 1 .. Len(text) + 1, NEW s \in 1 .. p,
         s = 1 \/ text[s - 1] = "feed", \A q \in s .. p - 1 : text[q] # "feed"
  PROVE  LineStart(text, p) = s
<1> DEFINE t == LineStart(text, p)
<1>1. /\ t \in 1 .. p /\ (t = 1 \/ text[t - 1] = "feed")
      /\ \A q \in t .. p - 1 : text[q] # "feed"
  BY LineBegins
<1>2. p \in Nat
  BY DEF Texts
<1> HIDE DEF t
<1>3. ~ (t < s)
  <2> SUFFICES ASSUME t < s PROVE FALSE
    OBVIOUS
  <2>1. s - 1 \in t .. p - 1 /\ s # 1
    BY <1>1, <1>2
  <2> QED BY <1>1, <2>1
<1>4. ~ (s < t)
  <2> SUFFICES ASSUME s < t PROVE FALSE
    OBVIOUS
  <2>1. t - 1 \in s .. p - 1 /\ t # 1
    BY <1>1, <1>2
  <2> QED BY <1>1, <2>1
<1> QED BY <1>1, <1>2, <1>3, <1>4 DEF t

-----------------------------------------------------------------------------
(* Lines that stand in the order of their line feeds *)

HandledLines == {[line |-> line, cmd |-> _parse_line(line)] : line \in Texts}

\* lines are those that the line feeds of ended end in text.
InOrder(lines, ended, text) ==
  /\ lines \in Seq(HandledLines)
  /\ IsFiniteSet(ended)
  /\ Len(lines) = Cardinality(ended)
  /\ \A p \in ended :
       lines[Cardinality({q \in ended : q <= p})].line = SubSeq(text, LineStart(text, p), p - 1)

\* No line stands for no line feed.
LEMMA NothingInOrder == ASSUME NEW text PROVE InOrder(<<>>, {}, text)
BY FS_EmptySet DEF InOrder

\* One line stands for its line feed.
LEMMA OneInOrder ==
  ASSUME NEW text, NEW x \in HandledLines, NEW p \in Nat,
         x.line = SubSeq(text, LineStart(text, p), p - 1)
  PROVE  InOrder(<<x>>, {p}, text)
<1>1. {q \in {p} : q <= p} = {p}
  OBVIOUS
<1>2. IsFiniteSet({p}) /\ Cardinality({p}) = 1
  BY FS_Singleton
<1>3. <<x>> \in Seq(HandledLines) /\ Len(<<x>>) = 1 /\ <<x>>[1] = x
  OBVIOUS
<1>4. Cardinality({q \in {p} : q <= p}) = 1
  BY <1>1, <1>2
<1> QED BY <1>2, <1>3, <1>4 DEF InOrder

\* The rank of a number in a finite set is between one and the set's size.
LEMMA RankOf ==
  ASSUME NEW A \in SUBSET Nat, IsFiniteSet(A), NEW p \in A
  PROVE  /\ IsFiniteSet({q \in A : q <= p})
         /\ Cardinality({q \in A : q <= p}) \in 1 .. Cardinality(A)
<1> DEFINE B == {q \in A : q <= p}
<1>1. B \in SUBSET A /\ p \in B /\ B # {}
  OBVIOUS
<1> HIDE DEF B
<1>2. IsFiniteSet(B) /\ Cardinality(B) <= Cardinality(A)
  BY <1>1, FS_Subset
<1>3. Cardinality(B) \in Nat /\ Cardinality(A) \in Nat /\ Cardinality(B) # 0
  BY <1>1, <1>2, FS_CardinalityType, FS_EmptySet
<1>4. Cardinality(B) \in 1 .. Cardinality(A)
  BY <1>2, <1>3
<1> QED BY <1>2, <1>4 DEF B

\* Lines in order, and more lines in order that end later, are in order one after the
\* other.
LEMMA JoinInOrder ==
  ASSUME NEW text, NEW A \in SUBSET Nat, NEW B \in SUBSET Nat,
         \A a \in A, b \in B : a < b,
         NEW s, NEW t, InOrder(s, A, text), InOrder(t, B, text)
  PROVE  InOrder(s \o t, A \cup B, text)
<1>1. /\ s \in Seq(HandledLines) /\ t \in Seq(HandledLines) /\ IsFiniteSet(A) /\ IsFiniteSet(B)
      /\ Len(s) = Cardinality(A) /\ Len(t) = Cardinality(B)
  BY DEF InOrder
<1>2. Cardinality(A) \in Nat /\ Cardinality(B) \in Nat
  BY <1>1, FS_CardinalityType
<1>3. /\ s \o t \in Seq(HandledLines) /\ Len(s \o t) = Len(s) + Len(t)
      /\ \A i \in 1 .. Len(s) : (s \o t)[i] = s[i]
      /\ \A i \in 1 .. Len(t) : (s \o t)[Len(s) + i] = t[i]
  BY <1>1
<1>4. ASSUME NEW C \in SUBSET B, IsFiniteSet(C)
      PROVE  IsFiniteSet(A \cup C) /\ Cardinality(A \cup C) = Cardinality(A) + Cardinality(C)
  <2>1. A \cap C = {}
    <3>1. \A a \in A : a \notin C /\ a \in Nat
      OBVIOUS
    <3> QED BY <3>1
  <2>2. Cardinality(C) \in Nat
    BY <1>4, FS_CardinalityType
  <2>3. /\ IsFiniteSet(A \cup C)
        /\ Cardinality(A \cup C) = Cardinality(A) + Cardinality(C) - Cardinality(A \cap C)
    BY <1>1, <1>4, FS_Union
  <2>4. Cardinality(A \cap C) = 0
    BY <2>1, FS_EmptySet
  <2> QED BY <1>2, <2>2, <2>3, <2>4
<1>5. IsFiniteSet(A \cup B) /\ Len(s \o t) = Cardinality(A \cup B)
  BY <1>1, <1>3, <1>4
<1>6. ASSUME NEW p \in A
      PROVE  (s \o t)[Cardinality({q \in A \cup B : q <= p})].line
               = SubSeq(text, LineStart(text, p), p - 1)
  <2>1. {q \in A \cup B : q <= p} = {q \in A : q <= p}
    <3>1. \A q \in B : ~ (q <= p)
      OBVIOUS
    <3> QED BY <3>1
  <2>2. Cardinality({q \in A : q <= p}) \in 1 .. Len(s)
    BY <1>1, RankOf
  <2>3. s[Cardinality({q \in A : q <= p})].line = SubSeq(text, LineStart(text, p), p - 1)
    BY DEF InOrder
  <2> QED BY <1>3, <2>1, <2>2, <2>3
<1>7. ASSUME NEW p \in B
      PROVE  (s \o t)[Cardinality({q \in A \cup B : q <= p})].line
               = SubSeq(text, LineStart(text, p), p - 1)
  <2> DEFINE C == {q \in B : q <= p}
  <2>1. {q \in A \cup B : q <= p} = A \cup C
    <3>1. \A q \in A : q <= p
      OBVIOUS
    <3> QED BY <3>1
  <2>2. IsFiniteSet(C) /\ Cardinality(C) \in 1 .. Len(t)
    BY <1>1, RankOf
  <2>3. t[Cardinality(C)].line = SubSeq(text, LineStart(text, p), p - 1)
    BY DEF InOrder
  <2>4. C \in SUBSET B
    OBVIOUS
  <2> HIDE DEF C
  <2>5. Cardinality(A \cup C) = Len(s) + Cardinality(C)
    BY <1>1, <1>4, <2>2, <2>4
  <2> QED BY <1>3, <2>1, <2>2, <2>3, <2>5
<1> QED BY <1>3, <1>5, <1>6, <1>7 DEF InOrder

-----------------------------------------------------------------------------
(* What the loop of _handle_stdin computes *)

Scanned == [done : Seq(HandledLines), left : Texts]

LineEnd(buffer, i) == Find(buffer, i, {"feed"})
LineAt(buffer, i) == SubSeq(buffer, i, LineEnd(buffer, i) - 1)

\* What is handled of the line that starts at position i.
LineHandled(buffer, i) ==
  IF LineAt(buffer, i) = <<>> THEN <<>>
  ELSE <<[line |-> LineAt(buffer, i), cmd |-> _parse_line(LineAt(buffer, i))]>>

\* How the scan for lines goes on from position i.
LinesFrom(buffer, from, i) ==
  IF LineEnd(buffer, i) > Len(buffer)
  THEN [done |-> <<>>, left |-> SubSeq(buffer, i, Len(buffer))]
  ELSE [done |-> LineHandled(buffer, i) \o from[Remaining(buffer, LineEnd(buffer, i))].done,
        left |-> from[Remaining(buffer, LineEnd(buffer, i))].left]

LinesScan(buffer) ==
  CHOOSE f : f = [i \in 1 .. Len(buffer) + 1 |-> LinesFrom(buffer, f, i)]

\* What _handle_stdin computes is its scan from the first position.
LEMMA LinesAreScan == ASSUME NEW buffer PROVE Lines(buffer) = LinesScan(buffer)[1]
BY DEF Lines, LinesScan, LinesFrom, LineHandled, LineAt, LineEnd

\* A part of a text is a text.
LEMMA SubTextIsText ==
  ASSUME NEW line \in Texts, NEW i \in Nat \ {0}, NEW j \in Nat, j <= Len(line)
  PROVE  SubSeq(line, i, j) \in Texts
<1>1. \A k \in i .. j : line[k] \in Chars
  BY DEF Texts
<1> QED BY <1>1, SubSeqProperties DEF Texts

\* The line at a position ends at the first line feed from there on.
LEMMA LineFound ==
  ASSUME NEW buffer \in Texts, NEW i \in 1 .. Len(buffer) + 1
  PROVE  /\ LineEnd(buffer, i) \in i .. Len(buffer) + 1
         /\ \A j \in i .. LineEnd(buffer, i) - 1 : buffer[j] # "feed"
         /\ LineEnd(buffer, i) <= Len(buffer) => buffer[LineEnd(buffer, i)] = "feed"
         /\ LineAt(buffer, i) \in Texts
         /\ LineHandled(buffer, i) \in Seq(HandledLines)
<1>1. Len(buffer) \in Nat /\ buffer \in Seq(Chars)
  BY DEF Texts
<1>2. /\ LineEnd(buffer, i) \in i .. Len(buffer) + 1
      /\ \A j \in i .. LineEnd(buffer, i) - 1 : buffer[j] # "feed"
      /\ LineEnd(buffer, i) <= Len(buffer) => buffer[LineEnd(buffer, i)] = "feed"
  BY <1>1, FindFinds DEF LineEnd
<1>3. LineAt(buffer, i) \in Texts
  <2>1. i \in Nat \ {0} /\ LineEnd(buffer, i) - 1 \in Nat /\ LineEnd(buffer, i) - 1 <= Len(buffer)
    BY <1>1, <1>2
  <2> QED BY <2>1, SubTextIsText DEF LineAt
<1>4. [line |-> LineAt(buffer, i), cmd |-> _parse_line(LineAt(buffer, i))] \in HandledLines
  BY <1>3 DEF HandledLines
<1>5. LineHandled(buffer, i) \in Seq(HandledLines)
  <2> HIDE DEF HandledLines
  <2> QED BY <1>4 DEF LineHandled
<1> QED BY <1>2, <1>3, <1>5

\* The scan for lines goes on as the loop does, at every position.
LEMMA LinesScanned ==
  ASSUME NEW buffer \in Texts
  PROVE  \A i \in 1 .. Len(buffer) + 1 :
           LinesScan(buffer)[i] = LinesFrom(buffer, LinesScan(buffer), i)
<1> DEFINE N == Len(buffer) + 1
           next == [i \in 1 .. N |-> LineEnd(buffer, i) + 1]
           base == [i \in 1 .. N |-> [done |-> <<>>, left |-> SubSeq(buffer, i, Len(buffer))]]
           after(i, rest) == [done |-> LineHandled(buffer, i) \o rest.done, left |-> rest.left]
           step == [i \in 1 .. N |-> [rest \in Scanned |-> after(i, rest)]]
<1>1. Len(buffer) \in Nat /\ N \in Nat
  BY DEF Texts
<1>2. \A i \in 1 .. N : LineEnd(buffer, i) \in i .. N /\ LineHandled(buffer, i) \in Seq(HandledLines)
  BY LineFound
<1>3. next \in [1 .. N -> Nat] /\ \A i \in 1 .. N : next[i] > i
  BY <1>1, <1>2
<1>4. base \in [1 .. N -> Scanned]
  <2>1. ASSUME NEW i \in 1 .. N PROVE SubSeq(buffer, i, Len(buffer)) \in Texts
    BY <1>1, SubTextIsText
  <2>2. <<>> \in Seq(HandledLines)
    OBVIOUS
  <2> QED BY <2>1, <2>2 DEF Scanned
<1>5. \A i \in 1 .. N, rest \in Scanned : after(i, rest) \in Scanned
  <2> HIDE DEF N
  <2> QED BY <1>2 DEF Scanned
<1>6. step \in [1 .. N -> [Scanned -> Scanned]]
  BY <1>5
<1>7. \A i \in 1 .. N, rest \in Scanned : step[i][rest] = after(i, rest)
  OBVIOUS
<1>8. \A i \in 1 .. N : /\ next[i] = LineEnd(buffer, i) + 1
                        /\ base[i] = [done |-> <<>>, left |-> SubSeq(buffer, i, Len(buffer))]
  OBVIOUS
<1> HIDE DEF next, base, step
<1>9. PICK f \in [1 .. N -> Scanned] : IsScan(f, N, next, base, step)
  <2> HIDE DEF N
  <2> QED BY <1>1, <1>3, <1>4, <1>6, ScanExists
<1>10. ASSUME NEW i \in 1 .. N PROVE f[i] = LinesFrom(buffer, f, i)
  <2>1. LineEnd(buffer, i) \in Nat /\ next[i] = LineEnd(buffer, i) + 1
    <3>1. i \in Nat /\ LineEnd(buffer, i) \in i .. N
      BY <1>1, <1>2
    <3>2. LineEnd(buffer, i) \in Nat
      BY <1>1, <3>1
    <3> QED BY <1>8, <3>2
  <2>2. f[i] = IF next[i] <= N THEN step[i][f[next[i]]] ELSE base[i]
    BY <1>9 DEF IsScan
  <2>3. CASE LineEnd(buffer, i) > Len(buffer)
    <3>1. ~ (next[i] <= N)
      BY <1>1, <2>1, <2>3
    <3> QED BY <1>8, <2>2, <2>3, <3>1 DEF LinesFrom
  <2>4. CASE ~ (LineEnd(buffer, i) > Len(buffer))
    <3>1. next[i] \in 1 .. N
      BY <1>1, <2>1, <2>4
    <3>2. f[next[i]] \in Scanned
      BY <3>1
    <3>3. next[i] <= N
      BY <3>1
    <3>4. f[i] = after(i, f[next[i]])
      BY <1>7, <2>2, <3>2, <3>3
    <3> QED BY <2>1, <2>4, <3>4 DEF LinesFrom, Remaining
  <2> QED BY <2>3, <2>4
<1>11. f = [i \in 1 .. Len(buffer) + 1 |-> LinesFrom(buffer, f, i)]
  <2>1. f = [i \in 1 .. N |-> f[i]]
    OBVIOUS
  <2> QED BY <1>10, <2>1
<1>12. LinesScan(buffer) = [i \in 1 .. Len(buffer) + 1 |-> LinesFrom(buffer, LinesScan(buffer), i)]
  BY <1>11 DEF LinesScan
<1> DEFINE scan == LinesScan(buffer)
<1>13. scan = [i \in 1 .. Len(buffer) + 1 |-> LinesFrom(buffer, scan, i)]
  BY <1>12
<1> HIDE DEF scan
<1>14. \A i \in 1 .. Len(buffer) + 1 : scan[i] = LinesFrom(buffer, scan, i)
  BY <1>13
<1> QED BY <1>14 DEF scan

\* A piece of a piece of a text.
LEMMA PieceOfPiece ==
  ASSUME NEW text \in Texts, NEW r \in 0 .. Len(text), NEW o \in 0 .. r,
         NEW i \in Nat \ {0}, NEW j \in Int, j <= r - o
  PROVE  SubSeq(SubSeq(text, o + 1, r), i, j) = SubSeq(text, o + i, o + j)
<1>1. text \in Seq(Chars) /\ Len(text) \in Nat /\ r \in Nat /\ o \in Nat
  BY DEF Texts
<1>2. CASE i > j
  BY <1>1, <1>2, SubSeqEmpty
<1>3. CASE ~ (i > j)
  <2>1. /\ o + 1 \in 1 .. Len(text) /\ r \in 1 .. Len(text)
        /\ i \in 1 .. r - (o + 1) + 1 /\ j \in 1 .. r - (o + 1) + 1
    BY <1>1, <1>3
  <2>2. SubSeq(SubSeq(text, o + 1, r), i, j) = SubSeq(text, (o + 1) + i - 1, (o + 1) + j - 1)
    BY <1>1, <2>1, SubSeqOfSubSeq
  <2>3. (o + 1) + i - 1 = o + i /\ (o + 1) + j - 1 = o + j
    BY <1>1
  <2> QED BY <2>2, <2>3
<1> QED BY <1>2, <1>3

\* The line at position i of buffer is the one at o + i of text.
StandsIn(buffer, i, text, r, o) ==
  LET p == o + LineEnd(buffer, i)
  IN /\ p \in o + i .. r + 1 /\ (p <= r => text[p] = "feed")
     /\ \A q \in o + i .. p - 1 : text[q] # "feed"
     /\ LineStart(text, p) = o + i
     /\ LineAt(buffer, i) = SubSeq(text, o + i, p - 1)

\* The line at a position of the buffer is the one at that place of the text.
LEMMA LineInText ==
  ASSUME NEW text \in Texts, NEW r \in 0 .. Len(text), NEW o \in 0 .. r,
         NEW buffer, buffer = SubSeq(text, o + 1, r),
         NEW i \in 1 .. Len(buffer) + 1, o + i = 1 \/ text[o + i - 1] = "feed"
  PROVE  StandsIn(buffer, i, text, r, o)
<1>1. text \in Seq(Chars) /\ Len(text) \in Nat /\ r \in Nat /\ o \in Nat
  BY DEF Texts
<1>2. \A k \in o + 1 .. r : text[k] \in Chars
  BY <1>1
<1>3. /\ buffer \in Texts /\ Len(buffer) = r - o
      /\ \A k \in 1 .. r - o : buffer[k] = text[o + k]
  <2>1. o + 1 \in Int /\ r \in Int
    BY <1>1
  <2>2. /\ buffer \in Seq(Chars) /\ Len(buffer) = (IF o + 1 <= r THEN r - (o + 1) + 1 ELSE 0)
        /\ \A k \in 1 .. r - (o + 1) + 1 : buffer[k] = text[(o + 1) + k - 1]
    BY <1>2, <2>1, SubSeqProperties
  <2>3. r - (o + 1) + 1 = r - o /\ \A k \in Int : (o + 1) + k - 1 = o + k
    BY <1>1
  <2> QED BY <1>1, <2>2, <2>3 DEF Texts
<1> DEFINE e == LineEnd(buffer, i)
           p == o + e
<1>4. /\ e \in i .. Len(buffer) + 1 /\ (e <= Len(buffer) => buffer[e] = "feed")
      /\ \A j \in i .. e - 1 : buffer[j] # "feed"
  BY <1>3, LineFound
<1>5. LineAt(buffer, i) = SubSeq(buffer, i, e - 1)
  BY DEF LineAt
<1> HIDE DEF e
<1>6. i \in Nat \ {0} /\ e \in Nat
  BY <1>1, <1>3, <1>4
<1>7. p \in o + i .. r + 1
  BY <1>1, <1>3, <1>4, <1>6
<1>8. p <= r => text[p] = "feed"
  <2>1. p <= r => e \in 1 .. r - o
    BY <1>1, <1>3, <1>4, <1>6
  <2> QED BY <1>1, <1>3, <1>4, <2>1
<1>9. ASSUME NEW q \in o + i .. p - 1 PROVE text[q] # "feed"
  <2>1. q - o \in i .. e - 1 /\ q - o \in 1 .. r - o /\ o + (q - o) = q
    BY <1>1, <1>3, <1>4, <1>6
  <2> QED BY <1>3, <1>4, <2>1
<1>10. LineStart(text, p) = o + i
  <2>1. p \in 1 .. Len(text) + 1 /\ o + i \in 1 .. p
    BY <1>1, <1>6, <1>7
  <2> HIDE DEF p
  <2> QED BY <1>9, <2>1, LineBeginsAt
<1>11. LineAt(buffer, i) = SubSeq(text, o + i, p - 1)
  <2>1. e - 1 \in Int /\ e - 1 <= r - o /\ o + (e - 1) = p - 1
    BY <1>1, <1>3, <1>4, <1>6
  <2>2. SubSeq(buffer, i, e - 1) = SubSeq(text, o + i, o + (e - 1))
    BY <1>6, <2>1, PieceOfPiece
  <2> QED BY <1>5, <2>1, <2>2
<1> QED BY <1>7, <1>8, <1>9, <1>10, <1>11 DEF e, StandsIn

EndedFrom(text, r, a) == {p \in Ended(text, r) : p >= a}

\* got is what there is to handle and to keep of the text from a up to r.
Describes(text, r, a, got) ==
  /\ InOrder(got.done, EndedFrom(text, r, a), text)
  /\ got.left = SubSeq(text, LineStart(text, r + 1), r)

\* The line feeds from a on that end a line: the first one if something stands before
\* it, and those that follow.
LEMMA EndedHere ==
  ASSUME NEW text \in Texts, NEW r \in 0 .. Len(text), NEW a \in 1 .. r + 1,
         NEW p \in a .. r + 1, \A q \in a .. p - 1 : text[q] # "feed",
         p <= r => text[p] = "feed", LineStart(text, p) = a
  PROVE  /\ p > r => EndedFrom(text, r, a) = {}
         /\ p <= r /\ p = a => EndedFrom(text, r, a) = EndedFrom(text, r, p + 1)
         /\ p <= r /\ p # a => EndedFrom(text, r, a) = {p} \cup EndedFrom(text, r, p + 1)
<1>1. Len(text) \in Nat /\ r \in Nat /\ a \in Nat /\ p \in Nat
  BY DEF Texts
<1>2. ASSUME NEW q \in EndedFrom(text, r, a)
      PROVE  q \in 1 .. r /\ q >= p /\ (q = p => p # a)
  <2>1. q \in 1 .. r /\ q >= a /\ text[q] = "feed" /\ LineStart(text, q) < q
    BY DEF EndedFrom, Ended
  <2>2. ~ (q \in a .. p - 1)
    BY <2>1
  <2>3. q = p => p # a
    BY <1>1, <2>1
  <2> QED BY <1>1, <2>1, <2>2, <2>3
<1>3. ASSUME p > r PROVE EndedFrom(text, r, a) = {}
  <2>1. \A q \in EndedFrom(text, r, a) : FALSE
    BY <1>1, <1>2, <1>3
  <2> QED BY <2>1
<1>4. EndedFrom(text, r, p + 1) \subseteq EndedFrom(text, r, a)
  BY <1>1 DEF EndedFrom, Ended
<1>5. \A q \in EndedFrom(text, r, a) : q # p => q \in EndedFrom(text, r, p + 1)
  <2>1. \A q \in EndedFrom(text, r, a) : q \in Ended(text, r) /\ (q # p => q >= p + 1)
    BY <1>1, <1>2 DEF EndedFrom
  <2> QED BY <2>1 DEF EndedFrom
<1>6. p <= r /\ p # a => p \in EndedFrom(text, r, a)
  BY <1>1 DEF EndedFrom, Ended
<1>7. ASSUME p = a PROVE \A q \in EndedFrom(text, r, a) : q # p
  BY <1>2, <1>7
<1> QED BY <1>3, <1>4, <1>5, <1>6, <1>7

\* What _handle_stdin makes of a piece of text that starts a line: its lines, in
\* order, and what follows the last line feed.
LEMMA LinesDescribed ==
  ASSUME NEW text \in Texts, NEW r \in 0 .. Len(text), NEW o \in 0 .. r,
         o = 0 \/ text[o] = "feed"
  PROVE  Describes(text, r, o + 1, Lines(SubSeq(text, o + 1, r)))
<1> DEFINE buffer == SubSeq(text, o + 1, r)
           scan == LinesScan(buffer)
           N == Len(buffer) + 1
           Begins(i) == o + i = 1 \/ text[o + i - 1] = "feed"
           S == {i \in 1 .. N : Begins(i) => Describes(text, r, o + i, scan[i])}
<1>1. Len(text) \in Nat /\ r \in Nat /\ o \in Nat
  BY DEF Texts
<1>2. buffer \in Texts
  BY <1>1, SubTextIsText
<1>3. Len(buffer) \in Nat /\ Len(buffer) = r - o
  <2>1. \A k \in o + 1 .. r : text[k] \in Chars
    BY <1>1 DEF Texts
  <2>2. Len(buffer) = IF o + 1 <= r THEN r - (o + 1) + 1 ELSE 0
    BY <1>1, <2>1, SubSeqProperties
  <2> HIDE DEF buffer
  <2> QED BY <1>1, <2>2
<1>4. \A i \in 1 .. N : scan[i] = LinesFrom(buffer, scan, i)
  BY <1>2, LinesScanned
<1> HIDE DEF scan
<1>5. ASSUME NEW i \in 1 .. N, \A j \in i + 1 .. N : j \in S
      PROVE  i \in S
  <2> SUFFICES ASSUME Begins(i) PROVE Describes(text, r, o + i, scan[i])
    OBVIOUS
  <2> DEFINE e == LineEnd(buffer, i)
             p == o + e
             a == o + i
  <2>1. /\ e \in i .. N /\ LineHandled(buffer, i) \in Seq(HandledLines)
        /\ LineAt(buffer, i) \in Texts
    BY <1>2, LineFound
  <2>2. /\ p \in a .. r + 1 /\ (p <= r => text[p] = "feed")
        /\ \A q \in a .. p - 1 : text[q] # "feed"
        /\ LineStart(text, p) = a
        /\ LineAt(buffer, i) = SubSeq(text, a, p - 1)
    <3> DEFINE b == buffer
    <3>1. b = SubSeq(text, o + 1, r) /\ i \in 1 .. Len(b) + 1
      OBVIOUS
    <3> HIDE DEF b
    <3>2. StandsIn(b, i, text, r, o)
      BY <3>1, LineInText
    <3> QED BY <3>2 DEF b, StandsIn
  <2> HIDE DEF buffer
  <2>3. scan[i] = LinesFrom(buffer, scan, i)
    BY <1>4
  <2>4. i \in Nat /\ e \in Nat /\ p \in Nat /\ a \in 1 .. r + 1 /\ N \in Nat
    BY <1>1, <1>3, <2>1
  <2>5. /\ p > r => EndedFrom(text, r, a) = {}
        /\ p <= r /\ p = a => EndedFrom(text, r, a) = EndedFrom(text, r, p + 1)
        /\ p <= r /\ p # a => EndedFrom(text, r, a) = {p} \cup EndedFrom(text, r, p + 1)
    <3> HIDE DEF p, a
    <3> QED BY <2>2, <2>4, EndedHere
  <2>6. CASE e > Len(buffer)
    <3>1. scan[i].done = <<>> /\ scan[i].left = SubSeq(buffer, i, Len(buffer))
      BY <2>3, <2>6 DEF LinesFrom
    <3>2. p = r + 1
      BY <1>1, <1>3, <2>1, <2>4, <2>6
    <3>3. InOrder(scan[i].done, EndedFrom(text, r, a), text)
      <4>1. p > r
        BY <1>1, <3>2
      <4> QED BY <2>5, <3>1, <4>1, NothingInOrder
    <3>4. SubSeq(buffer, i, Len(buffer)) = SubSeq(text, a, r)
      <4>1. Len(buffer) <= r - o /\ Len(buffer) \in Int /\ i \in Nat \ {0} /\ o + Len(buffer) = r
        BY <1>1, <1>3
      <4> QED BY <4>1, PieceOfPiece DEF buffer
    <3> QED BY <2>2, <3>1, <3>2, <3>3, <3>4 DEF Describes
  <2>7. CASE ~ (e > Len(buffer))
    <3>1. e + 1 \in i + 1 .. N /\ p <= r
      BY <1>1, <1>3, <2>1, <2>4, <2>7
    <3>2. Describes(text, r, p + 1, scan[e + 1])
      <4>1. e + 1 \in S
        BY <1>5, <3>1
      <4>2. o + (e + 1) - 1 = p /\ o + (e + 1) = p + 1
        BY <1>1, <2>4
      <4> QED BY <2>2, <3>1, <4>1, <4>2
    <3>3. /\ scan[i].done = LineHandled(buffer, i) \o scan[e + 1].done
          /\ scan[i].left = scan[e + 1].left
      BY <2>3, <2>7 DEF LinesFrom, Remaining
    <3> DEFINE this == IF p = a THEN {} ELSE {p}
    <3>4. InOrder(LineHandled(buffer, i), this, text)
      <4>1. CASE p = a
        <5>1. LineAt(buffer, i) = <<>>
          <6>1. p - 1 < a /\ a \in Int /\ p - 1 \in Int
            BY <2>4, <4>1
          <6> HIDE DEF p, a
          <6> QED BY <2>2, <6>1, SubSeqEmpty
        <5> QED BY <4>1, <5>1, NothingInOrder DEF LineHandled
      <4>2. CASE p # a
        <5>1. LineAt(buffer, i) # <<>>
          <6> HIDE DEF p, a
          <6>1. a <= p - 1 /\ a \in Int /\ p - 1 \in Int /\ a \in 1 .. Len(text) /\ p - 1 <= Len(text)
            BY <1>1, <2>2, <2>4, <3>1, <4>2
          <6>2. \A k \in a .. p - 1 : text[k] \in Chars
            BY <1>1, <6>1 DEF Texts
          <6>3. Len(SubSeq(text, a, p - 1)) = p - 1 - a + 1
            BY <6>1, <6>2, SubSeqProperties
          <6>4. p - 1 - a + 1 # 0
            BY <6>1
          <6>5. SubSeq(text, a, p - 1) # <<>>
            BY <6>3, <6>4
          <6> QED BY <2>2, <6>5
        <5> DEFINE x == [line |-> LineAt(buffer, i), cmd |-> _parse_line(LineAt(buffer, i))]
        <5>2. LineHandled(buffer, i) = <<x>>
          BY <5>1 DEF LineHandled
        <5>3. x \in HandledLines
          BY <2>1 DEF HandledLines
        <5>4. x.line = SubSeq(text, LineStart(text, p), p - 1)
          BY <2>2
        <5> HIDE DEF x, p
        <5>5. InOrder(<<x>>, {p}, text)
          BY <2>4, <5>3, <5>4, OneInOrder
        <5> QED BY <4>2, <5>2, <5>5
      <4> QED BY <4>1, <4>2
    <3>5. EndedFrom(text, r, a) = this \cup EndedFrom(text, r, p + 1)
      <4> HIDE DEF p, a
      <4> QED BY <2>5, <3>1
    <3>6. InOrder(scan[e + 1].done, EndedFrom(text, r, p + 1), text)
      BY <3>2 DEF Describes
    <3>7. this \subseteq Nat /\ EndedFrom(text, r, p + 1) \subseteq Nat
      BY <2>4 DEF EndedFrom, Ended
    <3>8. \A q \in this, s \in EndedFrom(text, r, p + 1) : q < s
      <4>1. \A s \in EndedFrom(text, r, p + 1) : s \in Nat /\ s >= p + 1
        BY <3>7 DEF EndedFrom
      <4> HIDE DEF p, a
      <4> QED BY <2>4, <4>1
    <3> HIDE DEF this, p, a, e
    <3>9. InOrder(LineHandled(buffer, i) \o scan[e + 1].done, this \cup EndedFrom(text, r, p + 1), text)
      BY <3>4, <3>6, <3>7, <3>8, JoinInOrder
    <3> QED BY <3>2, <3>3, <3>5, <3>9 DEF Describes, a
  <2> QED BY <2>6, <2>7
<1>6. \A i \in 1 .. N : i \in S
  <2> HIDE DEF S, N
  <2>1. N \in Nat
    BY <1>3 DEF N
  <2> QED BY <1>5, <2>1, FromTheEnd
<1>7. 1 \in S
  BY <1>3, <1>6
<1>8. Begins(1)
  BY <1>1
<1>9. Lines(buffer) = scan[1]
  BY LinesAreScan DEF scan
<1> HIDE DEF buffer
<1>10. Describes(text, r, o + 1, scan[1])
  BY <1>7, <1>8
<1> QED BY <1>9, <1>10 DEF buffer

-----------------------------------------------------------------------------
(* Lines are handled as they were typed *)

\* r characters have been read: the rest is unread, the lines that ended among them
\* are handled, and the buffer has what follows the last line feed.
HasRead(r) ==
  /\ unread = SubSeq(typed, r + 1, Len(typed))
  /\ InOrder(handled, Ended(typed, r), typed)
  /\ _stdin_buf = SubSeq(typed, LineStart(typed, r + 1), r)

LinesInv ==
  /\ typed \in Texts
  /\ \E r \in 0 .. Len(typed) : HasRead(r)

\* What is unread has the length of the text without what has been read.
LEMMA UnreadIsRest ==
  ASSUME typed \in Texts, NEW r \in 0 .. Len(typed), HasRead(r)
  PROVE  Len(unread) = Len(typed) - r
<1>1. Len(typed) \in Nat /\ r \in Nat /\ \A k \in r + 1 .. Len(typed) : typed[k] \in Chars
  BY DEF Texts
<1>2. Len(unread) = IF r + 1 <= Len(typed) THEN Len(typed) - (r + 1) + 1 ELSE 0
  BY <1>1, SubSeqProperties DEF HasRead
<1> QED BY <1>1, <1>2

\* Nothing has been read at first.
LEMMA InputStarts == InputInit => LinesInv
<1> SUFFICES ASSUME InputInit PROVE LinesInv
  OBVIOUS
<1>1. typed \in Texts
  BY DEF InputInit, Text, Texts
<1>2. Len(typed) \in Nat /\ typed \in Seq(Chars)
  BY <1>1 DEF Texts
<1>3. unread = SubSeq(typed, 1, Len(typed))
  BY <1>2, SubSeqFull DEF InputInit
<1>4. Ended(typed, 0) = {}
  BY DEF Ended
<1>5. SubSeq(typed, LineStart(typed, 1), 0) = <<>>
  <2>1. LineStart(typed, 1) = 1
    BY <1>1, <1>2, LineBegins
  <2> QED BY <2>1, SubSeqEmpty
<1>6. HasRead(0)
  <2>1. 0 + 1 = 1
    OBVIOUS
  <2>2. InOrder(handled, Ended(typed, 0), typed)
    BY <1>4, NothingInOrder DEF InputInit
  <2>3. unread = SubSeq(typed, 0 + 1, Len(typed)) /\ _stdin_buf = SubSeq(typed, LineStart(typed, 0 + 1), 0)
    BY <1>3, <1>5, <2>1 DEF InputInit
  <2> QED BY <2>2, <2>3 DEF HasRead
<1> QED BY <1>1, <1>2, <1>6 DEF LinesInv

\* A read of n more characters handles the lines that end among them.
LEMMA ReadHandlesLines ==
  ASSUME NEW text \in Texts, NEW r \in 0 .. Len(text), NEW n \in Nat, r + n <= Len(text),
         NEW lines, InOrder(lines, Ended(text, r), text)
  PROVE  LET got == Lines(SubSeq(text, LineStart(text, r + 1), r) \o SubSeq(text, r + 1, r + n))
         IN /\ InOrder(lines \o got.done, Ended(text, r + n), text)
            /\ got.left = SubSeq(text, LineStart(text, r + n + 1), r + n)
<1>1. Len(text) \in Nat /\ r \in Nat /\ text \in Seq(Chars)
  BY DEF Texts
<1> DEFINE o == LineStart(text, r + 1) - 1
           t == r + n
           got == Lines(SubSeq(text, o + 1, t))
<1>2. /\ o \in 0 .. r /\ (o = 0 \/ text[o] = "feed")
      /\ \A q \in o + 1 .. r : text[q] # "feed"
  <2> DEFINE s == LineStart(text, r + 1)
  <2>1. r + 1 \in 1 .. Len(text) + 1
    BY <1>1
  <2>2. /\ s \in 1 .. r + 1 /\ (s = 1 \/ text[s - 1] = "feed")
        /\ \A q \in s .. r + 1 - 1 : text[q] # "feed"
    BY <2>1, LineBegins
  <2> HIDE DEF s
  <2>3. s - 1 \in 0 .. r /\ (s - 1 = 0 \/ text[s - 1] = "feed") /\ s - 1 + 1 = s /\ r + 1 - 1 = r
    BY <1>1, <2>2
  <2> QED BY <2>2, <2>3 DEF s
<1>3. o + 1 = LineStart(text, r + 1)
  <2>1. LineStart(text, r + 1) \in 1 .. r + 1
    <3>1. r + 1 \in 1 .. Len(text) + 1
      BY <1>1
    <3> QED BY <3>1, LineBegins
  <2> QED BY <1>1, <2>1
<1> HIDE DEF o
<1>4. t \in 0 .. Len(text) /\ o \in 0 .. t /\ t \in Nat /\ o \in Nat
  BY <1>1, <1>2
<1>5. SubSeq(text, o + 1, r) \o SubSeq(text, r + 1, t) = SubSeq(text, o + 1, t)
  <2>1. o + 1 \in 1 .. Len(text) + 1 /\ r \in (o + 1) - 1 .. Len(text) /\ t \in r .. Len(text)
    BY <1>1, <1>2, <1>4
  <2> HIDE DEF t
  <2> QED BY <1>1, <2>1, ConcatAdjacentSubSeq
<1>6. Describes(text, t, o + 1, got)
  <2> HIDE DEF t
  <2> QED BY <1>2, <1>4, LinesDescribed DEF got
<1> HIDE DEF got
<1> DEFINE before == Ended(text, r)
           more == EndedFrom(text, t, o + 1)
<1>7. \A q \in before : q \in Nat /\ q <= o
  <2> SUFFICES ASSUME NEW q \in before PROVE q \in Nat /\ q <= o
    OBVIOUS
  <2>1. q \in 1 .. r /\ text[q] = "feed"
    BY DEF Ended
  <2>2. ~ (q \in o + 1 .. r)
    BY <1>2, <2>1
  <2> QED BY <1>1, <1>4, <2>1, <2>2
<1>8. \A q \in more : q \in Nat /\ q >= o + 1
  BY DEF EndedFrom, Ended
<1>9. Ended(text, t) = before \cup more
  <2>1. \A q \in Ended(text, t) : q <= r => q \in before
    BY <1>1, <1>4 DEF Ended
  <2>2. \A q \in Ended(text, t) : ~ (q <= r) => q >= o + 1
    BY <1>1, <1>2, <1>4 DEF Ended
  <2>3. before \subseteq Ended(text, t)
    BY <1>1, <1>4 DEF Ended
  <2> QED BY <2>1, <2>2, <2>3 DEF EndedFrom
<1>10. InOrder(lines \o got.done, before \cup more, text)
  <2>1. before \in SUBSET Nat /\ more \in SUBSET Nat
    BY <1>7, <1>8
  <2>2. \A a \in before, b \in more : a < b
    BY <1>4, <1>7, <1>8
  <2>3. InOrder(got.done, more, text)
    BY <1>6 DEF Describes
  <2> HIDE DEF before, more
  <2>4. InOrder(lines, before, text)
    BY DEF before
  <2> QED BY <2>1, <2>2, <2>3, <2>4, JoinInOrder
<1>11. got.left = SubSeq(text, LineStart(text, t + 1), t)
  BY <1>6 DEF Describes
<1> QED BY <1>3, <1>5, <1>9, <1>10, <1>11 DEF got

\* read() takes no more than there is.
LEMMA ReadAtMostWhatIsThere ==
  ASSUME NEW a \in Nat, NEW b \in Nat, NEW n \in 1 .. Min({a, b})
  PROVE  n \in Nat /\ n <= b
<1>1. \E x \in {a, b} : \A y \in {a, b} : x <= y
  <2>1. CASE a <= b
    BY <2>1
  <2>2. CASE ~ (a <= b)
    <3>1. b <= a
      BY <2>2
    <3> QED BY <3>1
  <2> QED BY <2>1, <2>2
<1>2. Min({a, b}) \in {a, b} /\ \A y \in {a, b} : Min({a, b}) <= y
  BY <1>1 DEF Min
<1> QED BY <1>2

\* Every step keeps the lines as typed.
LEMMA InputStep == LinesInv /\ [InputNext]_inputVars => LinesInv'
<1> SUFFICES ASSUME LinesInv, [InputNext]_inputVars PROVE LinesInv'
  OBVIOUS
<1>1. typed \in Texts /\ Len(typed) \in Nat /\ typed \in Seq(Chars)
  BY DEF LinesInv, Texts
<1>2. PICK r \in 0 .. Len(typed) : HasRead(r)
  BY DEF LinesInv
<1>3. Len(unread) = Len(typed) - r /\ Len(unread) \in Nat
  BY <1>1, <1>2, UnreadIsRest
<1>4. CASE _handle_stdin
  <2>1. PICK n \in 1 .. Min({ReadSize, Len(unread)}) :
          LET lines == Lines(_stdin_buf \o SubSeq(unread, 1, n)) IN
          /\ unread' = SubSeq(unread, n + 1, Len(unread))
          /\ _stdin_buf' = lines.left
          /\ handled' = handled \o lines.done
          /\ UNCHANGED <<typed, _running>>
    BY <1>4 DEF _handle_stdin
  <2>2. n \in Nat /\ n <= Len(unread)
    <3>1. ReadSize \in Nat
      BY SizesArePositive
    <3> QED BY <1>3, <3>1, ReadAtMostWhatIsThere
  <2>3. r \in Nat /\ r + n <= Len(typed) /\ r + n \in 0 .. Len(typed)
    BY <1>1, <1>3, <2>2
  <2>4. SubSeq(unread, 1, n) = SubSeq(typed, r + 1, r + n)
    <3>1. n \in Int /\ n <= Len(typed) - r /\ Len(typed) \in 0 .. Len(typed) /\ r \in 0 .. Len(typed)
      BY <1>1, <1>3, <2>2
    <3> QED BY <1>1, <1>2, <3>1, PieceOfPiece DEF HasRead
  <2>5. SubSeq(unread, n + 1, Len(unread)) = SubSeq(typed, (r + n) + 1, Len(typed))
    <3>1. /\ n + 1 \in Nat \ {0} /\ Len(unread) \in Int /\ Len(unread) <= Len(typed) - r
          /\ Len(typed) \in 0 .. Len(typed) /\ r \in 0 .. Len(typed)
      BY <1>1, <1>3, <2>2
    <3>2. SubSeq(SubSeq(typed, r + 1, Len(typed)), n + 1, Len(unread))
            = SubSeq(typed, r + (n + 1), r + Len(unread))
      BY <1>1, <3>1, PieceOfPiece
    <3>3. r + (n + 1) = (r + n) + 1 /\ r + Len(unread) = Len(typed)
      BY <1>1, <1>3, <2>2
    <3> QED BY <1>2, <3>2, <3>3 DEF HasRead
  <2> DEFINE got == Lines(SubSeq(typed, LineStart(typed, r + 1), r) \o SubSeq(typed, r + 1, r + n))
  <2>6. Lines(_stdin_buf \o SubSeq(unread, 1, n)) = got
    BY <1>2, <2>4 DEF HasRead
  <2>7. /\ InOrder(handled \o got.done, Ended(typed, r + n), typed)
        /\ got.left = SubSeq(typed, LineStart(typed, r + n + 1), r + n)
    BY <1>1, <1>2, <2>2, <2>3, ReadHandlesLines DEF HasRead
  <2> HIDE DEF got
  <2>8. /\ typed' = typed /\ unread' = SubSeq(typed, (r + n) + 1, Len(typed))
        /\ _stdin_buf' = got.left /\ handled' = handled \o got.done
    BY <2>1, <2>5, <2>6
  <2>9. HasRead(r + n)'
    BY <2>7, <2>8 DEF HasRead
  <2> QED BY <1>1, <2>3, <2>8, <2>9 DEF LinesInv
<1>5. CASE EndOfInput
  BY <1>5 DEF EndOfInput, LinesInv, HasRead
<1>6. CASE UNCHANGED inputVars
  BY <1>6 DEF inputVars, LinesInv, HasRead
<1> QED BY <1>4, <1>5, <1>6 DEF InputNext

\* Wherever the reads cut the text, the lines handled are those that were typed, in
\* order, and the buffer keeps the unfinished one (_handle_stdin), for texts and
\* reads of every length.
THEOREM LinesStayAsTyped == InputSpec => []LinesAsTyped
<1>1. LinesInv => LinesAsTyped
  <2> SUFFICES ASSUME LinesInv PROVE LinesAsTyped
    OBVIOUS
  <2>1. typed \in Texts /\ Len(typed) \in Nat
    BY DEF LinesInv, Texts
  <2>2. PICK r \in 0 .. Len(typed) : HasRead(r)
    BY DEF LinesInv
  <2>3. Len(typed) - Len(unread) = r
    BY <2>1, <2>2, UnreadIsRest
  <2> QED BY <2>2, <2>3 DEF LinesAsTyped, HasRead, InOrder
<1> QED BY <1>1, InputStarts, InputStep, PTL DEF InputSpec

-----------------------------------------------------------------------------
(* What the loop of _parse_line computes *)

Commands == [valid : BOOLEAN, name : Texts, args : Seq(Texts)]

\* The value that follows position i of line: where it starts, where it ends if it is
\* in quotes and if it is a word, and what it is then.
Value(line, i) == Find(line, i, Chars \ {"space"})
CloseQuote(line, i) == Find(line, Value(line, i) + 1, {"quote"})
WordEnd(line, i) == Find(line, Value(line, i), {"space"})
Word(line, i) == SubSeq(line, Value(line, i), WordEnd(line, i) - 1)
QuotedText(line, i) == SubSeq(line, Value(line, i) + 1, CloseQuote(line, i) - 1)

NoMore(line, i) == Value(line, i) > Len(line)
IsWord(line, i) == Value(line, i) <= Len(line) /\ line[Value(line, i)] # "quote"
IsQuoted(line, i) ==
  /\ Value(line, i) <= Len(line) /\ line[Value(line, i)] = "quote"
  /\ CloseQuote(line, i) <= Len(line)

Bare(name) == [valid |-> TRUE, name |-> name, args |-> <<>>]

\* A value is put before the others, and changes nothing else.
LEMMA WithArgIsCommand ==
  ASSUME NEW arg \in Texts, NEW rest \in Commands
  PROVE  /\ WithArg(arg, rest) \in Commands
         /\ WithArg(arg, rest).valid = rest.valid /\ WithArg(arg, rest).name = rest.name
         /\ WithArg(arg, rest).args = <<arg>> \o rest.args
<1>1. <<arg>> \o rest.args \in Seq(Texts)
  BY DEF Commands
<1> QED BY <1>1 DEF WithArg, Commands

\* Commands that agree in every field are the same.
LEMMA SameCommand ==
  ASSUME NEW a \in Commands, NEW b \in Commands,
         a.valid = b.valid, a.name = b.name, a.args = b.args
  PROVE  a = b
BY DEF Commands

\* Nothing is found from beyond the end.
LEMMA FindBeyond ==
  ASSUME NEW line \in Texts, NEW i \in Nat, i > Len(line), NEW chars
  PROVE  Find(line, i, chars) = Len(line) + 1
<1>1. Len(line) \in Nat
  BY DEF Texts
<1>2. {j \in i .. Len(line) : line[j] \in chars} \cup {Len(line) + 1} = {Len(line) + 1}
  BY <1>1
<1>3. Min({Len(line) + 1}) = Len(line) + 1
  BY <1>1 DEF Min
<1> QED BY <1>2, <1>3 DEF Find

\* A value is found at or after the position, and ends after where it begins.
LEMMA ValueFound ==
  ASSUME NEW line \in Texts, NEW i \in Nat \ {0}
  PROVE  /\ Value(line, i) \in Nat /\ Value(line, i) <= Len(line) + 1
         /\ Value(line, i) <= Len(line) =>
              /\ Value(line, i) \in i .. Len(line)
              /\ CloseQuote(line, i) \in Value(line, i) + 1 .. Len(line) + 1
              /\ WordEnd(line, i) \in Value(line, i) + 1 .. Len(line) + 1
              /\ Word(line, i) \in Texts /\ QuotedText(line, i) \in Texts
<1> DEFINE b == Value(line, i)
           quoted == CloseQuote(line, i)
           word == WordEnd(line, i)
<1>1. line \in Seq(Chars) /\ Len(line) \in Nat
  BY DEF Texts
<1>2. CASE i > Len(line)
  BY <1>1, <1>2, FindBeyond DEF Value
<1>3. CASE ~ (i > Len(line))
  <2>1. i \in 1 .. Len(line) + 1
    BY <1>1, <1>3
  <2>2. b \in i .. Len(line) + 1 /\ (b <= Len(line) => line[b] \in Chars \ {"space"})
    BY <1>1, <2>1, FindFinds DEF Value
  <2> SUFFICES ASSUME b <= Len(line)
               PROVE  /\ quoted \in b + 1 .. Len(line) + 1 /\ word \in b + 1 .. Len(line) + 1
                      /\ Word(line, i) \in Texts /\ QuotedText(line, i) \in Texts
    BY <1>1, <2>1, <2>2
  <2> HIDE DEF b
  <2>3. b \in 1 .. Len(line) + 1 /\ b + 1 \in 1 .. Len(line) + 1
    BY <1>1, <2>1, <2>2
  <2>4. word = Find(line, b, {"space"}) /\ quoted = Find(line, b + 1, {"quote"})
    BY DEF b, WordEnd, CloseQuote
  <2> HIDE DEF word, quoted
  <2>5. word \in b .. Len(line) + 1 /\ (word <= Len(line) => line[word] = "space")
    BY <1>1, <2>3, <2>4, FindFinds
  <2>6. quoted \in b + 1 .. Len(line) + 1
    BY <1>1, <2>3, <2>4, FindFinds
  <2>7. word # b
    BY <1>1, <2>2, <2>5
  <2>8. word \in b + 1 .. Len(line) + 1
    BY <1>1, <2>1, <2>2, <2>5, <2>7
  <2>9. Word(line, i) \in Texts
    <3>1. Word(line, i) = SubSeq(line, b, word - 1)
      BY DEF Word, b, word
    <3> QED BY <1>1, <2>3, <2>8, <3>1, SubTextIsText
  <2>10. QuotedText(line, i) \in Texts
    <3>1. QuotedText(line, i) = SubSeq(line, b + 1, quoted - 1)
      BY DEF QuotedText, b, quoted
    <3> QED BY <1>1, <2>3, <2>6, <3>1, SubTextIsText
  <2> QED BY <2>6, <2>8, <2>9, <2>10
<1> QED BY <1>2, <1>3

\* How the scan for arguments goes on from position i.
ArgumentsFrom(line, name, from, i) ==
  IF NoMore(line, i) THEN Bare(name)
  ELSE IF line[Value(line, i)] # "quote" THEN WithArg(Word(line, i), from[WordEnd(line, i)])
  ELSE IF CloseQuote(line, i) > Len(line) THEN Invalid
  ELSE IF from[AfterQuote(CloseQuote(line, i))].valid
       THEN WithArg(QuotedText(line, i), from[AfterQuote(CloseQuote(line, i))])
       ELSE Invalid

ArgumentsScan(line, name) ==
  CHOOSE f : f = [i \in 1 .. Len(line) + 2 |-> ArgumentsFrom(line, name, f, i)]

\* What _parse_line computes is its scan from the end of the name.
LEMMA ArgumentsAreScan ==
  ASSUME NEW line, NEW name
  PROVE  Arguments(line, name) = ArgumentsScan(line, name)[Find(line, 1, {"space"})]
BY DEF Arguments, ArgumentsScan, ArgumentsFrom, NoMore, Bare, Word, QuotedText, WordEnd, CloseQuote,
       Value

\* The three ways the scan goes on, as numbers.
LEMMA ScanGoesOn ==
  ASSUME NEW line \in Texts, NEW i \in Nat \ {0}
  PROVE  /\ IsWord(line, i) =>
              WordEnd(line, i) \in i + 1 .. Len(line) + 1 /\ Word(line, i) \in Texts
         /\ IsQuoted(line, i) =>
              CloseQuote(line, i) + 1 \in i + 1 .. Len(line) + 1 /\ QuotedText(line, i) \in Texts
<1>1. Len(line) \in Nat
  BY DEF Texts
<1> DEFINE b == Value(line, i)
<1>2. ASSUME b <= Len(line)
      PROVE  /\ b \in i .. Len(line) /\ CloseQuote(line, i) \in b + 1 .. Len(line) + 1
             /\ WordEnd(line, i) \in b + 1 .. Len(line) + 1
             /\ Word(line, i) \in Texts /\ QuotedText(line, i) \in Texts
  BY <1>2, ValueFound
<1>3. (IsWord(line, i) \/ IsQuoted(line, i) => b <= Len(line))
      /\ (IsQuoted(line, i) => CloseQuote(line, i) <= Len(line))
  BY DEF IsWord, IsQuoted
<1> HIDE DEF b
<1>4. IsWord(line, i) => WordEnd(line, i) \in i + 1 .. Len(line) + 1
  BY <1>1, <1>2, <1>3
<1>5. IsQuoted(line, i) => CloseQuote(line, i) + 1 \in i + 1 .. Len(line) + 1
  BY <1>1, <1>2, <1>3
<1> QED BY <1>2, <1>3, <1>4, <1>5

\* How the scan goes on at a word, at a value in quotes, and elsewhere.
LEMMA ArgumentsByCase ==
  ASSUME NEW line \in Texts, NEW name, NEW from, NEW i \in Nat \ {0}
  PROVE  /\ IsWord(line, i) =>
              ArgumentsFrom(line, name, from, i) = WithArg(Word(line, i), from[WordEnd(line, i)])
         /\ IsQuoted(line, i) =>
              ArgumentsFrom(line, name, from, i) =
                IF from[CloseQuote(line, i) + 1].valid
                THEN WithArg(QuotedText(line, i), from[CloseQuote(line, i) + 1]) ELSE Invalid
         /\ ~IsWord(line, i) /\ ~IsQuoted(line, i) =>
              ArgumentsFrom(line, name, from, i) = IF NoMore(line, i) THEN Bare(name) ELSE Invalid
<1>1. Len(line) \in Nat /\ Value(line, i) \in Nat
  BY ValueFound DEF Texts
<1>2. Value(line, i) <= Len(line) => CloseQuote(line, i) \in Nat
  BY <1>1, ValueFound
<1> QED BY <1>1, <1>2 DEF ArgumentsFrom, NoMore, IsWord, IsQuoted, AfterQuote

\* The scan for values goes on as the loop does, and makes commands.
LEMMA ArgumentsScanned ==
  ASSUME NEW line \in Texts, NEW name \in Texts
  PROVE  /\ ArgumentsScan(line, name) \in [1 .. Len(line) + 2 -> Commands]
         /\ \A i \in 1 .. Len(line) + 2 :
              ArgumentsScan(line, name)[i] = ArgumentsFrom(line, name, ArgumentsScan(line, name), i)
<1> DEFINE N == Len(line) + 2
           next == [i \in 1 .. N |-> IF IsWord(line, i) THEN WordEnd(line, i)
                                     ELSE IF IsQuoted(line, i) THEN CloseQuote(line, i) + 1
                                     ELSE N + 1]
           base == [i \in 1 .. N |-> IF NoMore(line, i) THEN Bare(name) ELSE Invalid]
           after(i, rest) == IF IsWord(line, i) THEN WithArg(Word(line, i), rest)
                             ELSE IF IsQuoted(line, i) /\ rest.valid
                                  THEN WithArg(QuotedText(line, i), rest)
                             ELSE Invalid
           step == [i \in 1 .. N |-> [rest \in Commands |-> after(i, rest)]]
<1>1. Len(line) \in Nat /\ N \in Nat
  BY DEF Texts
<1>2. \A i \in 1 .. N : i \in Nat \ {0}
  BY <1>1
<1>3. \A i \in 1 .. N :
         next[i] = IF IsWord(line, i) THEN WordEnd(line, i)
                   ELSE IF IsQuoted(line, i) THEN CloseQuote(line, i) + 1 ELSE N + 1
  OBVIOUS
<1>4. \A i \in 1 .. N : next[i] \in Nat /\ next[i] > i
  <2> HIDE DEF next
  <2> SUFFICES ASSUME NEW i \in 1 .. N PROVE next[i] \in Nat /\ next[i] > i
    OBVIOUS
  <2>1. CASE IsWord(line, i)
    BY <1>1, <1>2, <1>3, <2>1, ScanGoesOn
  <2>2. CASE ~IsWord(line, i) /\ IsQuoted(line, i)
    BY <1>1, <1>2, <1>3, <2>2, ScanGoesOn
  <2>3. CASE ~IsWord(line, i) /\ ~IsQuoted(line, i)
    BY <1>1, <1>3, <2>3
  <2> QED BY <2>1, <2>2, <2>3
<1>5. next \in [1 .. N -> Nat]
  <2>1. next = [i \in 1 .. N |-> next[i]]
    OBVIOUS
  <2> HIDE DEF next
  <2> QED BY <1>4, <2>1
<1>6. Invalid \in Commands /\ Bare(name) \in Commands
  BY DEF Invalid, Bare, Commands, Texts
<1>7. base \in [1 .. N -> Commands]
  BY <1>6
<1>8. \A i \in 1 .. N, rest \in Commands : after(i, rest) \in Commands
  BY <1>2, <1>6, ScanGoesOn, WithArgIsCommand
<1> HIDE DEF after
<1>9. step \in [1 .. N -> [Commands -> Commands]]
  BY <1>8
<1>10. \A i \in 1 .. N, rest \in Commands : step[i][rest] = after(i, rest)
  OBVIOUS
<1>11. \A i \in 1 .. N : base[i] = IF NoMore(line, i) THEN Bare(name) ELSE Invalid
  OBVIOUS
<1> HIDE DEF next, base, step
<1>12. PICK f \in [1 .. N -> Commands] : IsScan(f, N, next, base, step)
  <2>1. \A i \in 1 .. N : next[i] > i
    BY <1>4
  <2> HIDE DEF N
  <2> QED BY <1>1, <1>5, <1>7, <1>9, <2>1, ScanExists
<1>13. ASSUME NEW i \in 1 .. N
       PROVE  f[i] = ArgumentsFrom(line, name, f, i)
  <2>0. i \in Nat \ {0}
    BY <1>2
  <2>1. next[i] <= N => f[i] = after(i, f[next[i]])
    <3>1. next[i] <= N => next[i] \in 1 .. N
      BY <1>1, <1>4
    <3>2. next[i] <= N => f[next[i]] \in Commands
      BY <3>1
    <3> QED BY <1>10, <1>12, <3>2 DEF IsScan
  <2>2. CASE IsWord(line, i)
    <3>1. next[i] = WordEnd(line, i) /\ next[i] <= N
      BY <1>1, <1>3, <2>0, <2>2, ScanGoesOn
    <3>2. f[i] = WithArg(Word(line, i), f[WordEnd(line, i)])
      BY <2>1, <2>2, <3>1 DEF after
    <3> QED BY <2>0, <2>2, <3>2, ArgumentsByCase
  <2>3. CASE ~IsWord(line, i) /\ IsQuoted(line, i)
    <3>1. next[i] = CloseQuote(line, i) + 1 /\ next[i] <= N
      BY <1>1, <1>3, <2>0, <2>3, ScanGoesOn
    <3>2. f[i] = IF f[CloseQuote(line, i) + 1].valid
                 THEN WithArg(QuotedText(line, i), f[CloseQuote(line, i) + 1]) ELSE Invalid
      BY <2>1, <2>3, <3>1 DEF after
    <3> QED BY <2>0, <2>3, <3>2, ArgumentsByCase
  <2>4. CASE ~IsWord(line, i) /\ ~IsQuoted(line, i)
    <3>1. next[i] = N + 1 /\ ~ (next[i] <= N)
      BY <1>1, <1>3, <2>4
    <3>2. f[i] = IF NoMore(line, i) THEN Bare(name) ELSE Invalid
      BY <1>11, <1>12, <3>1 DEF IsScan
    <3> QED BY <2>0, <2>4, <3>2, ArgumentsByCase
  <2> QED BY <2>2, <2>3, <2>4
<1>14. f = [i \in 1 .. Len(line) + 2 |-> ArgumentsFrom(line, name, f, i)]
  <2>1. f = [i \in 1 .. N |-> f[i]]
    OBVIOUS
  <2> QED BY <1>13, <2>1
<1>15. ArgumentsScan(line, name)
         = [i \in 1 .. Len(line) + 2 |-> ArgumentsFrom(line, name, ArgumentsScan(line, name), i)]
  BY <1>14 DEF ArgumentsScan
<1> DEFINE scan == ArgumentsScan(line, name)
           S == {i \in 1 .. N : scan[i] \in Commands}
<1>16. \A i \in 1 .. N : scan[i] = ArgumentsFrom(line, name, scan, i)
  <2> HIDE DEF scan
  <2> QED BY <1>15 DEF scan
<1> HIDE DEF scan
<1>17. ASSUME NEW i \in 1 .. N, \A j \in i + 1 .. N : j \in S
       PROVE  i \in S
  <2>0. i \in Nat \ {0}
    BY <1>2
  <2>1. CASE IsWord(line, i)
    <3>1. WordEnd(line, i) \in i + 1 .. N /\ Word(line, i) \in Texts
      BY <1>1, <2>0, <2>1, ScanGoesOn
    <3>2. scan[WordEnd(line, i)] \in Commands
      BY <1>17, <3>1
    <3>3. scan[i] = WithArg(Word(line, i), scan[WordEnd(line, i)])
      BY <1>16, <2>0, <2>1, ArgumentsByCase
    <3> QED BY <3>1, <3>2, <3>3, WithArgIsCommand
  <2>2. CASE IsQuoted(line, i)
    <3>1. CloseQuote(line, i) + 1 \in i + 1 .. N /\ QuotedText(line, i) \in Texts
      BY <1>1, <2>0, <2>2, ScanGoesOn
    <3>2. scan[CloseQuote(line, i) + 1] \in Commands
      BY <1>17, <3>1
    <3>3. scan[i] = IF scan[CloseQuote(line, i) + 1].valid
                    THEN WithArg(QuotedText(line, i), scan[CloseQuote(line, i) + 1]) ELSE Invalid
      BY <1>16, <2>0, <2>2, ArgumentsByCase
    <3>4. WithArg(QuotedText(line, i), scan[CloseQuote(line, i) + 1]) \in Commands
      BY <3>1, <3>2, WithArgIsCommand
    <3> QED BY <1>6, <3>3, <3>4
  <2>3. CASE ~IsWord(line, i) /\ ~IsQuoted(line, i)
    <3>1. scan[i] = IF NoMore(line, i) THEN Bare(name) ELSE Invalid
      BY <1>16, <2>0, <2>3, ArgumentsByCase
    <3> QED BY <1>6, <3>1
  <2> QED BY <2>1, <2>2, <2>3
<1>18. \A i \in 1 .. N : i \in S
  <2> HIDE DEF S
  <2> QED BY <1>1, <1>17, FromTheEnd
<1>19. \A i \in 1 .. N : scan[i] \in Commands
  BY <1>18
<1>20. scan = [i \in 1 .. N |-> scan[i]]
  BY <1>15, <1>16 DEF scan
<1>21. scan \in [1 .. N -> Commands]
  BY <1>19, <1>20
<1> QED BY <1>16, <1>21 DEF scan

\* A command that is accepted has the name it was parsed with.
LEMMA ArgumentsKeepName ==
  ASSUME NEW line \in Texts, NEW name \in Texts, NEW i \in 1 .. Len(line) + 2
  PROVE  /\ ArgumentsScan(line, name)[i] \in Commands
         /\ ArgumentsScan(line, name)[i].valid => ArgumentsScan(line, name)[i].name = name
<1> DEFINE scan == ArgumentsScan(line, name)
           N == Len(line) + 2
           S == {j \in 1 .. N : scan[j].valid => scan[j].name = name}
<1>1. Len(line) \in Nat
  BY DEF Texts
<1>2. /\ scan \in [1 .. N -> Commands]
      /\ \A j \in 1 .. N : scan[j] = ArgumentsFrom(line, name, scan, j)
  BY ArgumentsScanned
<1> HIDE DEF scan
<1>3. ASSUME NEW j \in 1 .. N, \A k \in j + 1 .. N : k \in S
      PROVE  j \in S
  <2>0. j \in Nat \ {0} /\ \A k \in 1 .. N : scan[k] \in Commands
    BY <1>1, <1>2
  <2>1. CASE IsWord(line, j)
    <3>1. WordEnd(line, j) \in j + 1 .. N /\ WordEnd(line, j) \in 1 .. N /\ Word(line, j) \in Texts
      BY <1>1, <2>0, <2>1, ScanGoesOn
    <3>2. scan[j] = WithArg(Word(line, j), scan[WordEnd(line, j)])
      BY <1>2, <2>0, <2>1, ArgumentsByCase
    <3> DEFINE rest == scan[WordEnd(line, j)]
    <3>3. rest \in Commands /\ (rest.valid => rest.name = name)
      <4>1. WordEnd(line, j) \in S
        BY <1>3, <3>1
      <4> QED BY <2>0, <3>1, <4>1
    <3> HIDE DEF rest
    <3>4. /\ WithArg(Word(line, j), rest).valid = rest.valid
          /\ WithArg(Word(line, j), rest).name = rest.name
      BY <3>1, <3>3, WithArgIsCommand
    <3>5. scan[j].valid = rest.valid /\ scan[j].name = rest.name
      BY <3>2, <3>4 DEF rest
    <3> QED BY <3>3, <3>5
  <2>2. CASE IsQuoted(line, j)
    <3> DEFINE e == CloseQuote(line, j) + 1
    <3>1. e \in j + 1 .. N /\ e \in 1 .. N /\ QuotedText(line, j) \in Texts
      BY <1>1, <2>0, <2>2, ScanGoesOn
    <3>2. scan[j] = IF scan[e].valid THEN WithArg(QuotedText(line, j), scan[e]) ELSE Invalid
      BY <1>2, <2>0, <2>2, ArgumentsByCase
    <3> HIDE DEF e
    <3>3. scan[e] \in Commands /\ (scan[e].valid => scan[e].name = name)
      <4>1. e \in S
        BY <1>3, <3>1
      <4> QED BY <2>0, <3>1, <4>1
    <3>4. CASE scan[e].valid
      <4>1. /\ WithArg(QuotedText(line, j), scan[e]).name = scan[e].name
            /\ scan[j] = WithArg(QuotedText(line, j), scan[e])
        BY <3>1, <3>2, <3>3, <3>4, WithArgIsCommand
      <4>2. scan[j].name = name
        BY <3>3, <3>4, <4>1
      <4> QED BY <4>2
    <3>5. CASE ~ scan[e].valid
      <4>1. scan[j] = Invalid
        BY <3>2, <3>5
      <4>2. ~ scan[j].valid
        BY <4>1 DEF Invalid
      <4> QED BY <4>2
    <3> QED BY <3>4, <3>5
  <2>3. CASE ~IsWord(line, j) /\ ~IsQuoted(line, j)
    <3>1. scan[j] = IF NoMore(line, j) THEN Bare(name) ELSE Invalid
      BY <1>2, <2>0, <2>3, ArgumentsByCase
    <3> QED BY <3>1 DEF Bare, Invalid
  <2> QED BY <2>1, <2>2, <2>3
<1>4. \A j \in 1 .. N : j \in S
  <2> HIDE DEF S, N
  <2>1. N \in Nat
    BY <1>1 DEF N
  <2> QED BY <1>3, <2>1, FromTheEnd
<1> QED BY <1>2, <1>4 DEF scan

\* What _parse_line makes of a line is a command, whose name has no space if it is
\* accepted.
LEMMA ParsedLine ==
  ASSUME NEW line \in Texts
  PROVE  /\ _parse_line(line) \in Commands
         /\ _parse_line(line).valid =>
              \A p \in DOMAIN _parse_line(line).name : _parse_line(line).name[p] # "space"
<1>1. Len(line) \in Nat /\ line \in Seq(Chars)
  BY DEF Texts
<1>2. CASE line = <<>> \/ Head(line) # "slash"
  <2>1. _parse_line(line) = Invalid
    BY <1>2 DEF _parse_line
  <2> QED BY <2>1 DEF Invalid, Commands, Texts
<1>3. CASE ~ (line = <<>> \/ Head(line) # "slash")
  <2> DEFINE e == Find(line, 1, {"space"})
             name == SubSeq(line, 2, e - 1)
  <2>1. e \in 1 .. Len(line) + 1 /\ \A j \in 1 .. e - 1 : line[j] \notin {"space"}
    BY <1>1, FindFinds
  <2>2. _parse_line(line) = Arguments(line, name)
    BY <1>3 DEF _parse_line
  <2>3. Arguments(line, name) = ArgumentsScan(line, name)[e]
    BY ArgumentsAreScan
  <2> HIDE DEF e
  <2>4. 2 \in Nat \ {0} /\ e - 1 \in Nat /\ e - 1 <= Len(line) /\ e \in 1 .. Len(line) + 2
    BY <1>1, <2>1
  <2>5. name \in Texts
    BY <2>4, SubTextIsText
  <2>6. \A p \in DOMAIN name : name[p] # "space"
    <3>1. \A k \in 2 .. e - 1 : line[k] \in Chars
      BY <1>1, <2>4
    <3>2. /\ Len(name) = (IF 2 <= e - 1 THEN e - 1 - 2 + 1 ELSE 0)
          /\ \A k \in 1 .. e - 1 - 2 + 1 : name[k] = line[2 + k - 1]
      BY <2>4, <3>1, SubSeqProperties
    <3> HIDE DEF name
    <3>3. DOMAIN name = 1 .. Len(name)
      BY <2>5 DEF Texts
    <3>4. ASSUME NEW p \in 1 .. Len(name) PROVE name[p] # "space"
      <4>1. e \in Int /\ p \in Nat /\ p >= 1 /\ p <= (IF 2 <= e - 1 THEN e - 1 - 2 + 1 ELSE 0)
        BY <1>1, <2>4, <3>2
      <4>2. p \in 1 .. e - 1 - 2 + 1 /\ 2 + p - 1 \in 1 .. e - 1
        BY <4>1
      <4> QED BY <2>1, <3>2, <4>2
    <3> QED BY <3>3, <3>4
  <2> HIDE DEF name
  <2>7. /\ ArgumentsScan(line, name)[e] \in Commands
        /\ ArgumentsScan(line, name)[e].valid => ArgumentsScan(line, name)[e].name = name
    BY <2>4, <2>5, ArgumentsKeepName
  <2> QED BY <2>2, <2>3, <2>6, <2>7
<1> QED BY <1>2, <1>3

-----------------------------------------------------------------------------
(* A command as it is written *)

\* What holds of a position as soon as it holds of all earlier ones holds of all.
LEMMA FromTheStart ==
  ASSUME NEW N \in Nat, NEW S,
         \A i \in 1 .. N : (\A j \in 1 .. i - 1 : j \in S) => i \in S
  PROVE  \A i \in 1 .. N : i \in S
<1> DEFINE T == {i \in 1 .. N : i \notin S}
<1> SUFFICES ASSUME T # {} PROVE FALSE
  OBVIOUS
<1>1. PICK k \in T : \A m \in T : k <= m
  <2>1. T \in SUBSET Nat
    OBVIOUS
  <2> HIDE DEF T
  <2> QED BY <2>1, LeastNatural
<1>2. PICK j \in 1 .. k - 1 : j \notin S
  BY <1>1
<1>3. j \in 1 .. N /\ j < k /\ k \in Int /\ j \in Int
  BY <1>1, <1>2
<1>4. j \in T
  BY <1>2, <1>3
<1>5. k <= j
  <2> HIDE DEF T
  <2> QED BY <1>1, <1>4
<1> QED BY <1>3, <1>5

FlattenFrom(seqs, flatten, i) == IF i = 1 THEN seqs[i] ELSE flatten[i - 1] \o seqs[i]

FlattenScan(seqs) ==
  CHOOSE f : f = [i \in 1 .. Len(seqs) |-> FlattenFrom(seqs, f, i)]

\* FlattenSeq joins sequences from the first one on.
LEMMA FlattenIsScan ==
  ASSUME NEW seqs
  PROVE  FlattenSeq(seqs) = IF Len(seqs) = 0 THEN seqs ELSE FlattenScan(seqs)[Len(seqs)]
BY DEF FlattenSeq, FlattenScan, FlattenFrom

\* Each sequence is joined to those before it.
LEMMA Flattened ==
  ASSUME NEW seqs \in Seq(Texts)
  PROVE  /\ FlattenScan(seqs) \in [1 .. Len(seqs) -> Texts]
         /\ \A i \in 1 .. Len(seqs) :
              FlattenScan(seqs)[i] = FlattenFrom(seqs, FlattenScan(seqs), i)
<1> DEFINE N == Len(seqs)
           Fits(f, i) == f[i] = FlattenFrom(seqs, f, i)
           S == {i \in 1 .. N : \E f \in [1 .. N -> Texts] : \A j \in 1 .. i : Fits(f, j)}
<1>1. N \in Nat /\ \A i \in 1 .. N : seqs[i] \in Texts
  OBVIOUS
<1> HIDE DEF N
<1>2. \A s \in Texts, t \in Texts : s \o t \in Texts
  BY DEF Texts
<1>3. ASSUME NEW i \in 1 .. N, \A j \in 1 .. i - 1 : j \in S
      PROVE  i \in S
  <2>1. PICK f \in [1 .. N -> Texts] : \A j \in 1 .. i - 1 : Fits(f, j)
    <3>1. CASE i = 1
      <4>1. \A j \in 1 .. i - 1 : FALSE
        BY <3>1
      <4>2. [j \in 1 .. N |-> seqs[j]] \in [1 .. N -> Texts]
        BY <1>1
      <4> QED BY <4>1, <4>2
    <3>2. CASE i # 1
      <4>1. i - 1 \in 1 .. i - 1
        BY <1>1, <3>2
      <4>2. i - 1 \in S
        BY <1>3, <4>1
      <4> QED BY <4>2
    <3> QED BY <3>1, <3>2
  <2> DEFINE g == [f EXCEPT ![i] = FlattenFrom(seqs, f, i)]
  <2>2. FlattenFrom(seqs, f, i) \in Texts
    <3>1. CASE i = 1
      BY <1>1, <3>1 DEF FlattenFrom
    <3>2. CASE i # 1
      <4>1. i - 1 \in 1 .. N
        BY <1>1, <3>2
      <4>2. f[i - 1] \in Texts /\ seqs[i] \in Texts
        BY <1>1, <4>1
      <4> QED BY <1>2, <3>2, <4>2 DEF FlattenFrom
    <3> QED BY <3>1, <3>2
  <2>3. /\ g \in [1 .. N -> Texts] /\ g[i] = FlattenFrom(seqs, f, i)
        /\ \A j \in 1 .. i - 1 : g[j] = f[j]
    BY <1>1, <2>2
  <2> HIDE DEF g
  <2>4. ASSUME NEW j \in 1 .. i PROVE FlattenFrom(seqs, g, j) = FlattenFrom(seqs, f, j)
    <3>1. CASE j = 1
      BY <3>1 DEF FlattenFrom
    <3>2. CASE j # 1
      <4>1. j - 1 \in 1 .. i - 1
        BY <1>1, <3>2
      <4> QED BY <2>3, <3>2, <4>1 DEF FlattenFrom
    <3> QED BY <3>1, <3>2
  <2>5. ASSUME NEW j \in 1 .. i PROVE Fits(g, j)
    <3>1. CASE j = i
      BY <2>3, <2>4, <3>1
    <3>2. CASE j # i
      <4>1. j \in 1 .. i - 1
        BY <1>1, <3>2
      <4> QED BY <2>1, <2>3, <2>4, <4>1
    <3> QED BY <3>1, <3>2
  <2> HIDE DEF Fits
  <2> QED BY <2>3, <2>5
<1>4. \A i \in 1 .. N : i \in S
  <2> HIDE DEF S
  <2> QED BY <1>1, <1>3, FromTheStart
<1>5. PICK f \in [1 .. N -> Texts] : \A i \in 1 .. N : f[i] = FlattenFrom(seqs, f, i)
  <2>1. CASE N = 0
    <3>1. [j \in 1 .. N |-> seqs[j]] \in [1 .. N -> Texts] /\ \A i \in 1 .. N : FALSE
      BY <1>1, <2>1
    <3> QED BY <3>1
  <2>2. CASE N # 0
    <3>1. N \in S
      <4>1. N \in 1 .. N
        BY <1>1, <2>2
      <4> HIDE DEF S
      <4> QED BY <1>4, <4>1
    <3> QED BY <3>1
  <2> QED BY <2>1, <2>2
<1>6. f = [i \in 1 .. Len(seqs) |-> FlattenFrom(seqs, f, i)]
  <2>1. f = [i \in 1 .. N |-> f[i]]
    OBVIOUS
  <2> QED BY <1>5, <2>1 DEF N
<1> DEFINE scan == FlattenScan(seqs)
<1>7. scan = [i \in 1 .. Len(seqs) |-> FlattenFrom(seqs, scan, i)]
  BY <1>6 DEF FlattenScan
<1> HIDE DEF scan
<1> DEFINE R == {i \in 1 .. N : scan[i] \in Texts}
<1>8. \A i \in 1 .. N : scan[i] = FlattenFrom(seqs, scan, i)
  BY <1>7 DEF N
<1>9. ASSUME NEW i \in 1 .. N, \A j \in 1 .. i - 1 : j \in R
      PROVE  i \in R
  <2>1. CASE i = 1
    BY <1>1, <1>8, <2>1 DEF FlattenFrom
  <2>2. CASE i # 1
    <3>1. i - 1 \in 1 .. i - 1
      BY <1>1, <2>2
    <3>2. scan[i - 1] \in Texts /\ seqs[i] \in Texts
      BY <1>1, <1>9, <3>1
    <3>3. scan[i] = scan[i - 1] \o seqs[i]
      BY <1>8, <2>2 DEF FlattenFrom
    <3> QED BY <1>2, <3>2, <3>3
  <2> QED BY <2>1, <2>2
<1>10. \A i \in 1 .. N : i \in R
  <2> HIDE DEF R
  <2> QED BY <1>1, <1>9, FromTheStart
<1>11. scan \in [1 .. N -> Texts]
  <2>1. scan = [i \in 1 .. N |-> scan[i]]
    BY <1>7, <1>8 DEF N
  <2> QED BY <1>10, <2>1
<1> QED BY <1>8, <1>11 DEF N, scan

\* What Quoted writes for one value, and that text has it after its first o characters.
Piece(arg) == <<"space", "quote">> \o arg \o <<"quote">>

PieceAt(text, o, arg) ==
  /\ text[o + 1] = "space" /\ text[o + 2] = "quote"
  /\ \A j \in 1 .. Len(arg) : text[o + 2 + j] = arg[j]
  /\ text[o + 3 + Len(arg)] = "quote"

\* One text after another: both are in it, at their places.
LEMMA TextsJoin ==
  ASSUME NEW s \in Texts, NEW t \in Texts
  PROVE  /\ s \o t \in Texts /\ Len(s \o t) = Len(s) + Len(t)
         /\ \A j \in 1 .. Len(s) : (s \o t)[j] = s[j]
         /\ \A j \in 1 .. Len(t) : (s \o t)[Len(s) + j] = t[j]
BY DEF Texts

\* What is written for a value: a space, and the value between quotes.
LEMMA PieceIs ==
  ASSUME NEW arg \in Texts
  PROVE  Piece(arg) \in Texts /\ Len(Piece(arg)) = Len(arg) + 3 /\ PieceAt(Piece(arg), 0, arg)
<1> DEFINE open == <<"space", "quote">>
           s == open \o arg
<1>1. /\ open \in Seq(Chars) /\ Len(open) = 2 /\ open[1] = "space" /\ open[2] = "quote"
      /\ <<"quote">> \in Seq(Chars) /\ Len(<<"quote">>) = 1 /\ <<"quote">>[1] = "quote"
      /\ arg \in Seq(Chars) /\ Len(arg) \in Nat
  BY DEF Chars, Texts
<1> HIDE DEF open
<1>2. /\ s \in Seq(Chars) /\ Len(s) = Len(arg) + 2
      /\ s[1] = "space" /\ s[2] = "quote" /\ \A j \in 1 .. Len(arg) : s[2 + j] = arg[j]
  <2>0. open \in Texts
    BY <1>1 DEF Texts
  <2>1. s \in Texts /\ Len(s) = Len(arg) + 2
    <3>1. s \in Texts /\ Len(s) = Len(open) + Len(arg)
      BY <2>0, TextsJoin
    <3>2. Len(open) + Len(arg) = Len(arg) + 2
      BY <1>1
    <3> QED BY <3>1, <3>2
  <2>2. s[1] = open[1] /\ s[2] = open[2]
    <3>1. \A j \in 1 .. Len(open) : s[j] = open[j]
      BY <2>0, TextsJoin
    <3>2. 1 \in 1 .. Len(open) /\ 2 \in 1 .. Len(open)
      BY <1>1
    <3> QED BY <3>1, <3>2
  <2>3. \A j \in 1 .. Len(arg) : s[2 + j] = arg[j]
    <3>1. \A j \in 1 .. Len(arg) : s[Len(open) + j] = arg[j]
      BY <2>0, TextsJoin
    <3> HIDE DEF s
    <3> QED BY <1>1, <3>1
  <2> QED BY <1>1, <2>1, <2>2, <2>3 DEF Texts
<1> HIDE DEF s
<1> DEFINE t == s \o <<"quote">>
<1>3. /\ t \in Seq(Chars) /\ Len(t) = Len(arg) + 3
      /\ \A j \in 1 .. Len(arg) + 2 : t[j] = s[j]
      /\ t[Len(arg) + 3] = "quote"
  <2>1. t \in Seq(Chars) /\ Len(t) = Len(s) + 1 /\ t[Len(s) + 1] = <<"quote">>[1]
    BY <1>1, <1>2
  <2>2. \A j \in 1 .. Len(s) : t[j] = s[j]
    BY <1>1, <1>2
  <2> QED BY <1>1, <1>2, <2>1, <2>2
<1>4. Piece(arg) = t
  BY DEF Piece, t, s, open
<1> HIDE DEF t
<1>5. t[1] = "space" /\ t[2] = "quote" /\ \A j \in 1 .. Len(arg) : t[2 + j] = arg[j]
  <2>1. 1 \in 1 .. Len(arg) + 2 /\ 2 \in 1 .. Len(arg) + 2
    BY <1>1
  <2>2. \A j \in 1 .. Len(arg) : 2 + j \in 1 .. Len(arg) + 2
    BY <1>1
  <2> QED BY <1>2, <1>3, <2>1, <2>2
<1>6. PieceAt(t, 0, arg)
  <2>1. 0 + 1 = 1 /\ 0 + 2 = 2 /\ 0 + 3 + Len(arg) = Len(arg) + 3 /\ \A j \in Int : 0 + 2 + j = 2 + j
    BY <1>1
  <2> QED BY <1>3, <1>5, <2>1 DEF PieceAt
<1> QED BY <1>3, <1>4, <1>6 DEF Texts

\* A piece of a piece, as a piece of the text that has them.
LEMMA PieceShifted ==
  ASSUME NEW s \in Texts, NEW t \in Texts, NEW arg \in Texts, NEW a \in Nat, NEW o \in Nat,
         PieceAt(s, a, arg), a + Len(arg) + 3 <= Len(s),
         \A j \in 1 .. Len(s) : t[o + j] = s[j]
  PROVE  PieceAt(t, o + a, arg)
<1>1. Len(s) \in Nat /\ Len(arg) \in Nat
  BY DEF Texts
<1>2. t[o + (a + 1)] = s[a + 1] /\ t[o + (a + 2)] = s[a + 2] /\ t[o + (a + 3 + Len(arg))] = s[a + 3 + Len(arg)]
  <2>1. a + 1 \in 1 .. Len(s) /\ a + 2 \in 1 .. Len(s) /\ a + 3 + Len(arg) \in 1 .. Len(s)
    BY <1>1
  <2> QED BY <2>1
<1>3. ASSUME NEW j \in 1 .. Len(arg) PROVE t[o + (a + 2 + j)] = s[a + 2 + j]
  <2>1. a + 2 + j \in 1 .. Len(s)
    BY <1>1
  <2> QED BY <2>1
<1>4. /\ o + a + 1 = o + (a + 1) /\ o + a + 2 = o + (a + 2)
      /\ o + a + 3 + Len(arg) = o + (a + 3 + Len(arg))
      /\ \A j \in 1 .. Len(arg) : o + a + 2 + j = o + (a + 2 + j)
  BY <1>1
<1> QED BY <1>2, <1>3, <1>4 DEF PieceAt

\* at says where in text the values of args are written, one after the other.
WrittenAt(text, args, at) ==
  /\ at \in [1 .. Len(args) + 1 -> Nat]
  /\ at[1] = 0 /\ at[Len(args) + 1] = Len(text)
  /\ \A k \in 1 .. Len(args) :
       at[k + 1] = at[k] + Len(args[k]) + 3 /\ PieceAt(text, at[k], args[k])

\* Quoted writes the values one after the other, and nothing else.
LEMMA QuotedWritten ==
  ASSUME NEW args \in Seq(Texts)
  PROVE  Quoted(args) \in Texts /\ \E at : WrittenAt(Quoted(args), args, at)
<1> DEFINE n == Len(args)
           seqs == [i \in 1 .. n |-> Piece(args[i])]
           flat == FlattenScan(seqs)
           at == [k \in 1 .. n + 1 |-> IF k = 1 THEN 0 ELSE Len(flat[k - 1])]
           text == Quoted(args)
<1>1. n \in Nat /\ \A k \in 1 .. n : args[k] \in Texts /\ Len(args[k]) \in Nat
  BY DEF Texts
<1>2. seqs \in Seq(Texts) /\ Len(seqs) = n /\ \A k \in 1 .. n : seqs[k] = Piece(args[k])
  <2>1. \A k \in 1 .. n : Piece(args[k]) \in Texts
    BY <1>1, PieceIs
  <2> HIDE DEF n
  <2> QED BY <1>1, <2>1
<1>3. text = IF n = 0 THEN seqs ELSE flat[n]
  <2>1. Quoted(args) = FlattenSeq(seqs)
    <3>1. DOMAIN args = 1 .. n
      OBVIOUS
    <3> QED BY <3>1 DEF Quoted, Piece
  <2>2. FlattenSeq(seqs) = IF Len(seqs) = 0 THEN seqs ELSE flat[Len(seqs)]
    BY FlattenIsScan
  <2> QED BY <1>2, <2>1, <2>2
<1> HIDE DEF seqs
<1>4. flat \in [1 .. n -> Texts] /\ \A k \in 1 .. n : flat[k] = FlattenFrom(seqs, flat, k)
  BY <1>2, Flattened
<1> HIDE DEF flat, n, text
<1>5. \A k \in 1 .. n : flat[k] \in Texts /\ Len(flat[k]) \in Nat /\ seqs[k] \in Texts
  BY <1>1, <1>2, <1>4 DEF Texts
<1>6. at[1] = 0 /\ \A k \in 1 .. n : at[k + 1] = Len(flat[k])
  BY <1>1
<1>7. at \in [1 .. n + 1 -> Nat]
  <2>1. \A k \in 1 .. n + 1 : k # 1 => k - 1 \in 1 .. n
    BY <1>1
  <2> QED BY <1>5, <2>1
<1>8. \A k \in 1 .. n : k # 1 => k - 1 \in 1 .. n /\ at[k] = Len(flat[k - 1])
  BY <1>1
<1> HIDE DEF at
<1>9. ASSUME NEW k \in 1 .. n
      PROVE  /\ Len(flat[k]) = at[k] + Len(args[k]) + 3
             /\ \A j \in 1 .. Len(seqs[k]) : flat[k][at[k] + j] = seqs[k][j]
  <2>1. Len(seqs[k]) = Len(args[k]) + 3 /\ Len(args[k]) \in Nat
    BY <1>1, <1>2, PieceIs
  <2>2. CASE k = 1
    <3>1. flat[k] = seqs[k] /\ at[k] = 0
      BY <1>4, <1>6, <2>2 DEF FlattenFrom
    <3>2. \A j \in 1 .. Len(seqs[k]) : 0 + j = j
      OBVIOUS
    <3> QED BY <2>1, <3>1, <3>2
  <2>3. CASE k # 1
    <3>1. flat[k] = flat[k - 1] \o seqs[k] /\ k - 1 \in 1 .. n /\ at[k] = Len(flat[k - 1])
      BY <1>4, <1>8, <2>3 DEF FlattenFrom
    <3>2. flat[k - 1] \in Texts /\ seqs[k] \in Texts /\ Len(flat[k - 1]) \in Nat
      BY <1>5, <3>1
    <3> DEFINE before == flat[k - 1]
               piece == seqs[k]
    <3> HIDE DEF before, piece
    <3>3. flat[k] = before \o piece /\ at[k] = Len(before) /\ before \in Texts /\ piece \in Texts
      BY <3>1, <3>2 DEF before, piece
    <3>4. /\ Len(before \o piece) = Len(before) + Len(piece)
          /\ \A j \in 1 .. Len(piece) : (before \o piece)[Len(before) + j] = piece[j]
      BY <3>3, TextsJoin
    <3>5. Len(before) + Len(piece) = Len(before) + Len(args[k]) + 3
      <4>1. Len(piece) = Len(args[k]) + 3 /\ Len(args[k]) \in Nat
        BY <2>1 DEF piece
      <4>2. Len(before) \in Nat
        BY <3>2 DEF before
      <4> QED BY <4>1, <4>2
    <3>6. Len(flat[k]) = at[k] + Len(args[k]) + 3
      BY <3>3, <3>4, <3>5
    <3>7. \A j \in 1 .. Len(piece) : flat[k][at[k] + j] = piece[j]
      BY <3>3, <3>4
    <3> QED BY <3>6, <3>7 DEF piece
  <2> QED BY <2>2, <2>3
<1> DEFINE S == {k \in 1 .. n : /\ Len(flat[k]) <= Len(flat[n])
                                /\ \A j \in 1 .. Len(flat[k]) : flat[n][j] = flat[k][j]}
<1>10. ASSUME NEW k \in 1 .. n, \A i \in k + 1 .. n : i \in S
       PROVE  k \in S
  <2>1. CASE k = n
    BY <1>5, <2>1
  <2>2. CASE k # n
    <3>1. k + 1 \in 1 .. n /\ k + 1 \in k + 1 .. n /\ k + 1 # 1 /\ (k + 1) - 1 = k
      BY <1>1, <2>2
    <3>2. k + 1 \in S
      BY <1>10, <3>1
    <3>3. flat[k + 1] = flat[k] \o seqs[k + 1]
      BY <1>4, <3>1 DEF FlattenFrom
    <3>4. /\ flat[k] \in Texts /\ seqs[k + 1] \in Texts /\ Len(flat[k]) \in Nat
          /\ Len(flat[n]) \in Nat /\ Len(seqs[k + 1]) \in Nat
      <4>1. n \in 1 .. n
        BY <1>1
      <4> QED BY <1>5, <3>1, <4>1 DEF Texts
    <3> DEFINE before == flat[k]
               piece == seqs[k + 1]
               after == flat[k + 1]
    <3> HIDE DEF before, piece, after
    <3>5. /\ after = before \o piece /\ before \in Texts /\ piece \in Texts
          /\ Len(before) \in Nat /\ Len(piece) \in Nat
      BY <3>3, <3>4 DEF before, piece, after
    <3>6. Len(after) = Len(before) + Len(piece) /\ \A j \in 1 .. Len(before) : after[j] = before[j]
      BY <3>5, TextsJoin
    <3>7. Len(after) <= Len(flat[n]) /\ \A j \in 1 .. Len(after) : flat[n][j] = after[j]
      BY <3>2 DEF after
    <3>8. Len(before) <= Len(flat[n])
      BY <3>4, <3>5, <3>6, <3>7
    <3>9. \A j \in 1 .. Len(before) : flat[n][j] = before[j]
      <4>1. \A j \in 1 .. Len(before) : j \in 1 .. Len(after)
        BY <3>5, <3>6
      <4> QED BY <3>6, <3>7, <4>1
    <3> QED BY <3>8, <3>9 DEF before
  <2> QED BY <2>1, <2>2
<1>11. \A k \in 1 .. n : k \in S
  <2> HIDE DEF S
  <2> QED BY <1>1, <1>10, FromTheEnd
<1>12. CASE n = 0
  <2>1. text = <<>>
    BY <1>2, <1>3, <1>12
  <2>2. text \in Texts /\ Len(text) = 0
    BY <2>1 DEF Texts
  <2>3. n + 1 = 1 /\ \A k \in 1 .. n : FALSE
    BY <1>12
  <2>4. WrittenAt(text, args, at)
    BY <1>6, <1>7, <2>2, <2>3 DEF WrittenAt, n
  <2> QED BY <2>2, <2>4 DEF text
<1>13. CASE n # 0
  <2>1. text = flat[n] /\ n \in 1 .. n
    BY <1>1, <1>3, <1>13
  <2>2. text \in Texts /\ at[n + 1] = Len(text)
    BY <1>5, <1>6, <2>1
  <2>3. ASSUME NEW k \in 1 .. n
        PROVE  at[k + 1] = at[k] + Len(args[k]) + 3 /\ PieceAt(text, at[k], args[k])
    <3>1. at[k + 1] = at[k] + Len(args[k]) + 3
      BY <1>6, <1>9
    <3>2. /\ args[k] \in Texts /\ at[k] \in Nat /\ Len(args[k]) \in Nat
          /\ seqs[k] \in Texts /\ seqs[k] = Piece(args[k])
      <4>1. k \in 1 .. n + 1
        BY <1>1
      <4> QED BY <1>1, <1>2, <1>5, <1>7, <4>1
    <3>3. PieceAt(seqs[k], 0, args[k]) /\ Len(seqs[k]) = Len(args[k]) + 3
      BY <3>2, PieceIs
    <3>4. \A j \in 1 .. Len(seqs[k]) : text[at[k] + j] = seqs[k][j]
      <4>1. \A j \in 1 .. Len(seqs[k]) : at[k] + j \in 1 .. Len(flat[k])
        BY <1>9, <3>2, <3>3
      <4>2. k \in S
        BY <1>11
      <4> QED BY <1>9, <2>1, <4>1, <4>2
    <3>5. PieceAt(text, at[k] + 0, args[k])
      <4>1. 0 + Len(args[k]) + 3 <= Len(seqs[k])
        BY <3>2, <3>3
      <4> QED BY <2>2, <3>2, <3>3, <3>4, <4>1, PieceShifted
    <3>6. at[k] + 0 = at[k]
      BY <3>2
    <3> QED BY <3>1, <3>5, <3>6
  <2>4. WrittenAt(text, args, at)
    BY <1>6, <1>7, <2>2, <2>3 DEF WrittenAt, n
  <2> QED BY <2>2, <2>4 DEF text
<1> QED BY <1>12, <1>13

Plain(arg) == \A p \in DOMAIN arg : arg[p] # "quote"

\* The parser reads back a value that is written after the first o characters.
LEMMA PieceReadBack ==
  ASSUME NEW text \in Texts, NEW arg \in Texts, Plain(arg), NEW o \in Nat,
         o + Len(arg) + 3 <= Len(text), PieceAt(text, o, arg)
  PROVE  /\ IsQuoted(text, o + 1) /\ CloseQuote(text, o + 1) = o + Len(arg) + 3
         /\ QuotedText(text, o + 1) = arg
<1>1. /\ text \in Seq(Chars) /\ Len(text) \in Nat /\ Len(arg) \in Nat
      /\ arg \in Seq(Chars) /\ DOMAIN arg = 1 .. Len(arg)
  BY DEF Texts
<1>2. Value(text, o + 1) = o + 2
  <2>1. o + 1 \in 1 .. Len(text) + 1 /\ o + 2 \in o + 1 .. Len(text) + 1
    BY <1>1
  <2>2. \A j \in o + 1 .. (o + 2) - 1 : text[j] \notin Chars \ {"space"}
    <3>1. \A j \in o + 1 .. (o + 2) - 1 : j = o + 1
      OBVIOUS
    <3> QED BY <3>1 DEF PieceAt
  <2>3. text[o + 2] \in Chars \ {"space"}
    BY DEF PieceAt, Chars
  <2> QED BY <1>1, <2>1, <2>2, <2>3, FindIs DEF Value
<1>3. CloseQuote(text, o + 1) = o + Len(arg) + 3
  <2> DEFINE p == o + Len(arg) + 3
             i == o + 3
  <2>1. i \in 1 .. Len(text) + 1 /\ p \in i .. Len(text) + 1
    BY <1>1
  <2>2. \A j \in i .. p - 1 : text[j] \notin {"quote"}
    <3> SUFFICES ASSUME NEW j \in i .. p - 1 PROVE text[j] # "quote"
      OBVIOUS
    <3>1. j - (o + 2) \in 1 .. Len(arg) /\ o + 2 + (j - (o + 2)) = j
      BY <1>1
    <3>2. text[o + 2 + (j - (o + 2))] = arg[j - (o + 2)]
      BY <3>1 DEF PieceAt
    <3> QED BY <1>1, <3>1, <3>2 DEF Plain
  <2>3. text[p] \in {"quote"}
    <3>1. p = o + 3 + Len(arg)
      BY <1>1
    <3> QED BY <3>1 DEF PieceAt
  <2>4. CloseQuote(text, o + 1) = Find(text, i, {"quote"})
    <3>1. Value(text, o + 1) + 1 = i
      BY <1>2
    <3> QED BY <3>1 DEF CloseQuote
  <2> HIDE DEF p, i
  <2>5. Find(text, i, {"quote"}) = p
    BY <1>1, <2>1, <2>2, <2>3, FindIs
  <2> QED BY <2>4, <2>5 DEF p
<1>4. IsQuoted(text, o + 1)
  BY <1>1, <1>2, <1>3 DEF IsQuoted, PieceAt
<1>5. QuotedText(text, o + 1) = SubSeq(text, o + 3, o + 2 + Len(arg))
  <2>1. Value(text, o + 1) + 1 = o + 3 /\ CloseQuote(text, o + 1) - 1 = o + 2 + Len(arg)
    BY <1>1, <1>2, <1>3
  <2> QED BY <2>1 DEF QuotedText
<1>6. SubSeq(text, o + 3, o + 2 + Len(arg)) = arg
  <2> DEFINE sub == SubSeq(text, o + 3, o + 2 + Len(arg))
  <2>1. \A k \in o + 3 .. o + 2 + Len(arg) : text[k] \in Chars
    BY <1>1
  <2>2. o + 3 \in Int /\ o + 2 + Len(arg) \in Int
    BY <1>1
  <2>3. /\ sub \in Seq(Chars)
        /\ Len(sub) = IF o + 3 <= o + 2 + Len(arg) THEN (o + 2 + Len(arg)) - (o + 3) + 1 ELSE 0
        /\ \A i \in 1 .. (o + 2 + Len(arg)) - (o + 3) + 1 : sub[i] = text[(o + 3) + i - 1]
    BY <2>1, <2>2, SubSeqProperties
  <2> HIDE DEF sub
  <2>4. Len(sub) = Len(arg) /\ (o + 2 + Len(arg)) - (o + 3) + 1 = Len(arg)
    BY <1>1, <2>3
  <2>5. ASSUME NEW i \in 1 .. Len(arg) PROVE sub[i] = arg[i]
    <3>1. (o + 3) + i - 1 = o + 2 + i /\ i \in 1 .. (o + 2 + Len(arg)) - (o + 3) + 1
      BY <1>1
    <3>2. text[o + 2 + i] = arg[i]
      BY DEF PieceAt
    <3> QED BY <2>3, <3>1, <3>2
  <2>6. sub = arg
    BY <1>1, <2>3, <2>4, <2>5
  <2> QED BY <2>6 DEF sub
<1> QED BY <1>3, <1>4, <1>5, <1>6

AllPlain(args) == \A k \in 1 .. Len(args) : Plain(args[k])

\* After its first m characters, text has written and no more.
EndsWith(text, m, written) ==
  Len(text) = m + Len(written) /\ \A j \in 1 .. Len(written) : text[m + j] = written[j]

\* The scan over values that are written one after the other gives them back.
LEMMA ArgumentsReadBack ==
  ASSUME NEW args \in Seq(Texts), AllPlain(args), NEW name \in Texts,
         NEW written \in Texts, NEW at, WrittenAt(written, args, at),
         NEW text \in Texts, NEW m \in Nat, EndsWith(text, m, written)
  PROVE  ArgumentsScan(text, name)[m + 1] = [valid |-> TRUE, name |-> name, args |-> args]
<1> USE DEF AllPlain, EndsWith
<1> DEFINE n == Len(args)
           scan == ArgumentsScan(text, name)
           left(k) == [valid |-> TRUE, name |-> name, args |-> SubSeq(args, k, n)]
           S == {k \in 1 .. n + 1 : scan[m + at[k] + 1] = left(k)}
<1>1. /\ n \in Nat /\ Len(text) \in Nat /\ Len(written) \in Nat
      /\ \A k \in 1 .. n : args[k] \in Texts /\ Len(args[k]) \in Nat
  BY DEF Texts
<1>2. /\ at \in [1 .. n + 1 -> Nat] /\ at[1] = 0 /\ at[n + 1] = Len(written)
      /\ \A k \in 1 .. n :
           at[k + 1] = at[k] + Len(args[k]) + 3 /\ PieceAt(written, at[k], args[k])
  BY DEF WrittenAt
<1>3. \A i \in 1 .. Len(text) + 2 : scan[i] = ArgumentsFrom(text, name, scan, i) /\ scan[i] \in Commands
  BY ArgumentsScanned, ArgumentsKeepName
<1> HIDE DEF scan, n
<1> DEFINE T == {k \in 1 .. n + 1 : at[k] <= Len(written)}
<1>4. ASSUME NEW k \in 1 .. n + 1, \A i \in k + 1 .. n + 1 : i \in T
      PROVE  k \in T
  <2>1. CASE k = n + 1
    BY <1>1, <1>2, <2>1
  <2>2. CASE k # n + 1
    <3>1. k \in 1 .. n /\ k + 1 \in k + 1 .. n + 1
      BY <1>1, <2>2
    <3>2. at[k + 1] <= Len(written) /\ at[k + 1] = at[k] + Len(args[k]) + 3
      BY <1>2, <1>4, <3>1
    <3>3. at[k] \in Nat /\ Len(args[k]) \in Nat
      BY <1>1, <1>2, <3>1
    <3>4. at[k] <= Len(written)
      BY <1>1, <3>2, <3>3
    <3> QED BY <3>4
  <2> QED BY <2>1, <2>2
<1>5. \A k \in 1 .. n + 1 : k \in T
  <2> HIDE DEF T
  <2>1. n + 1 \in Nat
    BY <1>1
  <2> QED BY <1>4, <2>1, FromTheEnd
<1>6. ASSUME NEW k \in 1 .. n + 1, \A i \in k + 1 .. n + 1 : i \in S
      PROVE  k \in S
  <2>1. CASE k = n + 1
    <3>1. m + at[k] + 1 = Len(text) + 1
      BY <1>1, <1>2, <2>1
    <3>2. Value(text, Len(text) + 1) = Len(text) + 1
      BY <1>1, FindBeyond DEF Value
    <3>3. scan[Len(text) + 1] = Bare(name)
      <4>1. Len(text) + 1 \in 1 .. Len(text) + 2 /\ Len(text) + 1 > Len(text)
        BY <1>1
      <4> QED BY <1>3, <3>2, <4>1 DEF ArgumentsFrom, NoMore
    <3>4. SubSeq(args, k, n) = <<>>
      BY <1>1, <2>1, SubSeqEmpty
    <3> QED BY <3>1, <3>3, <3>4 DEF Bare
  <2>2. CASE k # n + 1
    <3> DEFINE o == m + at[k]
               arg == args[k]
    <3>1. k \in 1 .. n /\ k + 1 \in k + 1 .. n + 1 /\ k + 1 \in 1 .. n + 1
      BY <1>1, <2>2
    <3>2. at[k] \in Nat /\ at[k + 1] \in Nat /\ arg \in Texts /\ Len(arg) \in Nat
      BY <1>1, <1>2, <3>1
    <3>3. at[k + 1] = at[k] + Len(arg) + 3 /\ at[k + 1] <= Len(written) /\ PieceAt(written, at[k], arg)
      BY <1>2, <1>5, <3>1
    <3>4. o \in Nat /\ o + Len(arg) + 3 = m + at[k + 1] /\ o + Len(arg) + 3 <= Len(text)
      <4> DEFINE a == at[k]
                 b == at[k + 1]
                 l == Len(arg)
      <4>1. a \in Nat /\ b \in Nat /\ l \in Nat /\ b = a + l + 3 /\ b <= Len(written)
        BY <3>2, <3>3
      <4> HIDE DEF a, b, l
      <4>2. m + a \in Nat /\ m + a + l + 3 = m + b /\ m + a + l + 3 <= Len(text)
        BY <1>1, <4>1
      <4> QED BY <4>2 DEF a, b, l
    <3>5. PieceAt(text, o, arg)
      BY <3>2, <3>3, PieceShifted
    <3>6. Plain(arg)
      BY <3>1 DEF n
    <3> HIDE DEF o, arg
    <3>7. /\ IsQuoted(text, o + 1) /\ CloseQuote(text, o + 1) = o + Len(arg) + 3
          /\ QuotedText(text, o + 1) = arg
      BY <3>2, <3>4, <3>5, <3>6, PieceReadBack
    <3> DEFINE next == CloseQuote(text, o + 1) + 1
    <3>8. next = m + at[k + 1] + 1
      BY <3>4, <3>7
    <3>9. scan[next] = left(k + 1)
      BY <1>6, <3>1, <3>8
    <3>10. scan[o + 1] = IF scan[next].valid THEN WithArg(arg, scan[next]) ELSE Invalid
      <4>1. o + 1 \in Nat \ {0} /\ o + 1 \in 1 .. Len(text) + 2
        BY <1>1, <3>2, <3>4
      <4>2. scan[o + 1] = ArgumentsFrom(text, name, scan, o + 1)
        BY <1>3, <4>1
      <4> QED BY <3>7, <4>1, <4>2, ArgumentsByCase
    <3>11. <<arg>> \o SubSeq(args, k + 1, n) = SubSeq(args, k, n)
      <4>1. k \in 1 .. Len(args) /\ n \in k .. Len(args)
        BY <1>1, <3>1 DEF n
      <4> QED BY <4>1, SubSeqRecursiveFirst DEF arg
    <3> HIDE DEF next
    <3>12. WithArg(arg, left(k + 1)) = left(k)
      <4> DEFINE rest == left(k + 1)
                 with == WithArg(arg, rest)
      <4>1. rest \in Commands /\ left(k) \in Commands
        <5>1. SubSeq(args, k + 1, n) \in Seq(Texts) /\ SubSeq(args, k, n) \in Seq(Texts)
          <6>1. \A i \in k .. n : args[i] \in Texts
            BY <1>1
          <6>2. \A i \in k + 1 .. n : args[i] \in Texts
            BY <1>1
          <6>3. k \in Int /\ k + 1 \in Int /\ n \in Int
            BY <1>1
          <6> QED BY <6>1, <6>2, <6>3, SubSeqProperties
        <5> QED BY <5>1 DEF Commands
      <4>2. rest.valid /\ rest.name = name /\ rest.args = SubSeq(args, k + 1, n)
        OBVIOUS
      <4>3. /\ left(k).valid = TRUE /\ left(k).name = name
            /\ left(k).args = SubSeq(args, k, n)
        OBVIOUS
      <4> DEFINE this == left(k)
      <4> HIDE DEF rest, this
      <4>4. with \in Commands /\ with.valid = rest.valid /\ with.name = rest.name
            /\ with.args = <<arg>> \o rest.args
        BY <3>2, <4>1, WithArgIsCommand
      <4> HIDE DEF with
      <4>5. this \in Commands /\ this.valid = TRUE /\ this.name = name
            /\ this.args = <<arg>> \o SubSeq(args, k + 1, n)
        BY <3>11, <4>1, <4>3 DEF this
      <4>6. rest.valid = TRUE /\ with.valid = this.valid
        BY <4>1, <4>2, <4>4, <4>5 DEF Commands
      <4>7. with = this
        <5>1. with.name = this.name /\ with.args = this.args
          BY <4>2, <4>4, <4>5
        <5> HIDE DEF Commands
        <5> QED BY <4>4, <4>5, <4>6, <5>1, SameCommand
      <4> QED BY <4>7 DEF with, rest, this
    <3>13. scan[o + 1] = left(k)
      BY <3>9, <3>10, <3>12
    <3> QED BY <3>13 DEF o
  <2> QED BY <2>1, <2>2
<1>7. \A k \in 1 .. n + 1 : k \in S
  <2> HIDE DEF S
  <2>1. n + 1 \in Nat
    BY <1>1
  <2> QED BY <1>6, <2>1, FromTheEnd
<1>8. 1 \in 1 .. n + 1 /\ m + 0 + 1 = m + 1
  BY <1>1
<1>9. SubSeq(args, 1, n) = args
  BY SubSeqFull DEF n
<1>10. scan[m + 1] = [valid |-> TRUE, name |-> name, args |-> args]
  BY <1>2, <1>7, <1>8, <1>9
<1> QED BY <1>10 DEF scan

\* An accepted command without quotes in its values is read back from its quoted form.
LEMMA CommandReadBack ==
  ASSUME NEW cmd \in Commands, cmd.valid, \A p \in DOMAIN cmd.name : cmd.name[p] # "space",
         \A k \in 1 .. Len(cmd.args) : Plain(cmd.args[k])
  PROVE  _parse_line(<<"slash">> \o cmd.name \o Quoted(cmd.args)) = cmd
<1> DEFINE name == cmd.name
           args == cmd.args
           slash == <<"slash">>
           head == slash \o name
           written == Quoted(args)
           text == head \o written
           m == Len(name) + 1
<1>1. /\ name \in Texts /\ Len(name) \in Nat /\ DOMAIN name = 1 .. Len(name)
      /\ args \in Seq(Texts) /\ Len(args) \in Nat
  BY DEF Commands, Texts
<1>2. slash \in Texts /\ Len(slash) = 1 /\ slash[1] = "slash"
  BY DEF Texts, Chars
<1>3. PICK at : WrittenAt(written, args, at)
  BY <1>1, QuotedWritten
<1>4. written \in Texts
  BY <1>1, QuotedWritten
<1>5. /\ \A p \in 1 .. Len(name) : name[p] # "space"
      /\ \A k \in 1 .. Len(args) : Plain(args[k])
  BY <1>1
<1> HIDE DEF name, args, slash, written
<1>6. head \in Texts /\ Len(head) = m /\ head[1] = "slash" /\ \A j \in 1 .. Len(name) : head[1 + j] = name[j]
  <2>1. /\ head \in Texts /\ Len(head) = Len(slash) + Len(name)
        /\ \A j \in 1 .. Len(slash) : head[j] = slash[j]
        /\ \A j \in 1 .. Len(name) : head[Len(slash) + j] = name[j]
    BY <1>1, <1>2, TextsJoin
  <2> HIDE DEF head
  <2>2. Len(head) = m
    BY <1>1, <1>2, <2>1
  <2>3. head[1] = "slash"
    <3>1. 1 \in 1 .. Len(slash)
      BY <1>2
    <3> QED BY <1>2, <2>1, <3>1
  <2> QED BY <1>2, <2>1, <2>2, <2>3
<1> HIDE DEF head
<1>7. /\ text \in Texts /\ Len(text) = m + Len(written)
      /\ \A j \in 1 .. m : text[j] = head[j]
      /\ \A j \in 1 .. Len(written) : text[m + j] = written[j]
  <2>1. /\ text \in Texts /\ Len(text) = Len(head) + Len(written)
        /\ \A j \in 1 .. Len(head) : text[j] = head[j]
        /\ \A j \in 1 .. Len(written) : text[Len(head) + j] = written[j]
    BY <1>4, <1>6, TextsJoin
  <2> HIDE DEF text, m
  <2> QED BY <1>6, <2>1
<1> HIDE DEF text
<1>8. m \in Nat \ {0} /\ Len(written) \in Nat /\ Len(text) \in Nat /\ text \in Seq(Chars)
  BY <1>1, <1>4, <1>7 DEF Texts
<1>9. text[1] = "slash" /\ \A j \in 1 .. Len(name) : text[1 + j] = name[j]
  <2>1. 1 \in 1 .. m /\ \A j \in 1 .. Len(name) : 1 + j \in 1 .. m
    BY <1>1
  <2> QED BY <1>6, <1>7, <2>1
<1> HIDE DEF m
<1>10. m = Len(name) + 1
  BY DEF m
<1>11. Find(text, 1, {"space"}) = m + 1
  <2>1. 1 \in 1 .. Len(text) + 1 /\ m + 1 \in 1 .. Len(text) + 1
    BY <1>7, <1>8
  <2>2. \A j \in 1 .. (m + 1) - 1 : text[j] \notin {"space"}
    <3> SUFFICES ASSUME NEW j \in 1 .. (m + 1) - 1 PROVE text[j] # "space"
      OBVIOUS
    <3>1. CASE j = 1
      BY <1>9, <3>1
    <3>2. CASE j # 1
      <4>1. j - 1 \in 1 .. Len(name) /\ 1 + (j - 1) = j
        BY <1>1, <1>8, <1>10, <3>2
      <4> QED BY <1>5, <1>9, <4>1
    <3> QED BY <3>1, <3>2
  <2>3. m + 1 <= Len(text) => text[m + 1] \in {"space"}
    <3> SUFFICES ASSUME m + 1 <= Len(text) PROVE text[m + 1] = "space"
      OBVIOUS
    <3>1. Len(written) # 0 /\ 1 \in 1 .. Len(written)
      BY <1>7, <1>8
    <3>2. at[1] = 0 /\ at[Len(args) + 1] = Len(written)
      BY <1>3 DEF WrittenAt
    <3>3. 1 \in 1 .. Len(args)
      <4>1. Len(args) # 0
        BY <3>1, <3>2
      <4> QED BY <1>1, <4>1
    <3>4. PieceAt(written, at[1], args[1])
      BY <1>3, <3>3 DEF WrittenAt
    <3>5. written[1] = "space"
      BY <3>2, <3>4 DEF PieceAt
    <3> QED BY <1>7, <3>1, <3>5
  <2> HIDE DEF m
  <2> QED BY <1>8, <2>1, <2>2, <2>3, FindIs
<1>12. SubSeq(text, 2, m) = name
  <2> DEFINE sub == SubSeq(text, 2, m)
  <2>1. \A k \in 2 .. m : text[k] \in Chars
    BY <1>7, <1>8
  <2>2. /\ sub \in Seq(Chars) /\ Len(sub) = (IF 2 <= m THEN m - 2 + 1 ELSE 0)
        /\ \A i \in 1 .. m - 2 + 1 : sub[i] = text[2 + i - 1]
    BY <1>8, <2>1, SubSeqProperties
  <2> HIDE DEF sub
  <2>3. Len(sub) = Len(name) /\ m - 2 + 1 = Len(name)
    BY <1>1, <1>10, <2>2
  <2>4. ASSUME NEW i \in 1 .. Len(name) PROVE sub[i] = name[i]
    <3>1. 2 + i - 1 = 1 + i
      OBVIOUS
    <3> QED BY <1>9, <2>2, <2>3, <3>1
  <2>5. sub \in Seq(Chars) /\ name \in Seq(Chars)
    BY <1>1, <2>2 DEF Texts
  <2>6. sub = name
    BY <2>3, <2>4, <2>5
  <2> QED BY <2>6 DEF sub
<1>13. _parse_line(text) = Arguments(text, name)
  <2>1. text # <<>> /\ Head(text) = "slash"
    <3>1. Len(text) # 0
      BY <1>7, <1>8
    <3> QED BY <1>8, <1>9, <3>1
  <2>2. (m + 1) - 1 = m
    BY <1>8
  <2> QED BY <1>11, <1>12, <2>1, <2>2 DEF _parse_line
<1>14. Arguments(text, name) = ArgumentsScan(text, name)[m + 1]
  BY <1>11, ArgumentsAreScan
<1>15. ArgumentsScan(text, name)[m + 1] = [valid |-> TRUE, name |-> name, args |-> args]
  <2>1. AllPlain(args)
    BY <1>5 DEF AllPlain
  <2>2. EndsWith(text, m, written)
    BY <1>7 DEF EndsWith
  <2>3. args \in Seq(Texts) /\ name \in Texts /\ text \in Texts /\ m \in Nat
    BY <1>1, <1>7, <1>8
  <2> QED BY <1>3, <1>4, <2>1, <2>2, <2>3, ArgumentsReadBack
<1>16. [valid |-> TRUE, name |-> name, args |-> args] = cmd
  <2> DEFINE same == [valid |-> TRUE, name |-> name, args |-> args]
  <2>1. /\ same \in Commands /\ same.valid = TRUE /\ same.name = cmd.name /\ same.args = cmd.args
    BY <1>1 DEF Commands, name, args
  <2>2. cmd.valid = TRUE
    BY DEF Commands
  <2> HIDE DEF same
  <2>3. same = cmd
    BY <2>1, <2>2, SameCommand
  <2> QED BY <2>3 DEF same
<1>17. text = <<"slash">> \o cmd.name \o Quoted(cmd.args)
  BY DEF text, head, slash, name, written, args
<1>18. _parse_line(text) = cmd
  BY <1>13, <1>14, <1>15, <1>16
<1> QED BY <1>17, <1>18

\* A command that was accepted is parsed from its documented form as the same
\* command (_parse_line), for lines of every length and any number of values.
THEOREM QuotedCommandsAreKept == InputSpec => []QuotingKeepsCommands
<1>1. LinesInv => QuotingKeepsCommands
  <2> SUFFICES ASSUME LinesInv, NEW i \in DOMAIN handled, handled[i].cmd.valid,
                      \A k \in DOMAIN handled[i].cmd.args :
                        \A p \in DOMAIN handled[i].cmd.args[k] : handled[i].cmd.args[k][p] # "quote"
               PROVE  _parse_line(<<"slash">> \o handled[i].cmd.name \o Quoted(handled[i].cmd.args))
                        = handled[i].cmd
    BY DEF QuotingKeepsCommands
  <2> DEFINE cmd == handled[i].cmd
  <2>1. handled[i] \in HandledLines
    <3>1. handled \in Seq(HandledLines)
      BY DEF LinesInv, HasRead, InOrder
    <3> HIDE DEF HandledLines
    <3> QED BY <3>1
  <2>2. PICK line \in Texts : handled[i] = [line |-> line, cmd |-> _parse_line(line)]
    BY <2>1 DEF HandledLines
  <2>3. cmd = _parse_line(line)
    BY <2>2
  <2>4. cmd \in Commands /\ \A p \in DOMAIN cmd.name : cmd.name[p] # "space"
    <3> HIDE DEF cmd
    <3>1. cmd.valid
      BY DEF cmd
    <3> QED BY <2>3, <3>1, ParsedLine
  <2>5. \A k \in 1 .. Len(cmd.args) : Plain(cmd.args[k])
    <3>1. DOMAIN cmd.args = 1 .. Len(cmd.args)
      <4>1. cmd.args \in Seq(Texts)
        <5> HIDE DEF cmd
        <5> QED BY <2>4 DEF Commands
      <4> HIDE DEF cmd
      <4> QED BY <4>1
    <3> QED BY <3>1 DEF Plain
  <2>6. cmd.valid
    OBVIOUS
  <2> HIDE DEF cmd
  <2>7. _parse_line(<<"slash">> \o cmd.name \o Quoted(cmd.args)) = cmd
    BY <2>4, <2>5, <2>6, CommandReadBack
  <2> QED BY <2>7 DEF cmd
<1> QED BY <1>1, InputStarts, InputStep, PTL DEF InputSpec
==============================================================================
