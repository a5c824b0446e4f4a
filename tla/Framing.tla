------------------------------- MODULE Framing --------------------------------
(***************************************************************************)
(* Server::_handle_client_read and _process_recv_buffer                    *)
(* (src/server/Server.cpp): from the bytes of one connection, which TCP    *)
(* delivers and read() returns in pieces of any length, to the frames      *)
(* that _dispatch is given.                                                *)
(*                                                                         *)
(* Bytes are counted, not kept: byte n of the stream is the n-th the peer  *)
(* sent, and recv_buffer holds the bytes erased + 1 .. taken.  A header    *)
(* means something only where the sender put one.                          *)
(***************************************************************************)
EXTENDS Integers, Sequences

CONSTANTS
  HEADER_SIZE,  \* 6
  MaxPayload,   \* 65535
  ReadSize,     \* 4096, what one read() returns at most
  Word,         \* 2^32: payload_size and its sum with HEADER_SIZE are uint32_t
  Sizes,        \* payload sizes a header may declare
  MaxFrames     \* bound: frames the peer sends

ASSUME SizesFitTheHeader == Sizes \subseteq 0 .. Word - 1

\* 6 + 65535 < 2^32: the sum wraps around only for sizes that are refused before.
ASSUME FramesFitTheWord ==
  /\ HEADER_SIZE \in Nat \ {0} /\ MaxPayload \in Nat /\ ReadSize \in Nat \ {0} /\ Word \in Nat
  /\ HEADER_SIZE + MaxPayload < Word

VARIABLES
  sent,        \* frames the peer has sent, in order: bytes before it, payload size
  arrived,     \* bytes of them that TCP has delivered
  taken,       \* bytes read() has returned
  erased,      \* bytes erased from the front of recv_buffer
  dispatched,  \* extents in the stream of the payloads given to _dispatch
  pc           \* "poll", "parse" or "closed"

framingVars == <<sent, arrived, taken, erased, dispatched, pc>>

-----------------------------------------------------------------------------
Start(i) == sent[i].start
Size(i) == sent[i].size

\* Where the last frame ends, and the next one starts.
StreamLength ==
  IF sent = <<>> THEN 0 ELSE Start(Len(sent)) + HEADER_SIZE + Size(Len(sent))

FrameExtent(i) == [first |-> Start(i) + HEADER_SIZE + 1,
                   last |-> Start(i) + HEADER_SIZE + Size(i)]

\* The payload_size read where recv_buffer begins: what the sender put there, or,
\* out of step with the frames, whatever the bytes happen to be.
DeclaredSizes ==
  LET here == {i \in 1 .. Len(sent) : Start(i) = erased}
  IN IF here # {} THEN {Size(i) : i \in here} ELSE Sizes

Buffered == taken - erased

FramingInit ==
  /\ sent = <<>>
  /\ arrived = 0
  /\ taken = 0
  /\ erased = 0
  /\ dispatched = <<>>
  /\ pc = "poll"

\* The peer writes a frame.
SendFrame ==
  /\ Len(sent) < MaxFrames
  /\ \E size \in Sizes : sent' = Append(sent, [start |-> StreamLength, size |-> size])
  /\ UNCHANGED <<arrived, taken, erased, dispatched, pc>>

\* TCP delivers some more of the stream.
Deliver ==
  /\ \E n \in arrived + 1 .. StreamLength : arrived' = n
  /\ UNCHANGED <<sent, taken, erased, dispatched, pc>>

_handle_client_read ==
  /\ pc = "poll"
  /\ \E n \in 1 .. ReadSize : taken + n <= arrived /\ taken' = taken + n
  /\ pc' = "parse"
  /\ UNCHANGED <<sent, arrived, erased, dispatched>>

-----------------------------------------------------------------------------
(* One turn of the loop of _process_recv_buffer *)

\* Mutants: no limit; a frame of the largest size is refused.
TooLong_Never(size) == FALSE
TooLong_AtLimit(size) == size >= MaxPayload
TooLong(size) == size > MaxPayload

\* HEADER_SIZE + payload_size, in 32 bits.
FrameSize(size) == (HEADER_SIZE + size) % Word

\* Mutant: the header is not counted.
Complete_Payload(size) == Buffered >= size
Complete(size) == Buffered >= FrameSize(size)

\* Mutant: only one frame is dispatched each time something was read.
AfterDispatch_Poll == pc' = "poll"
AfterDispatch == UNCHANGED pc

DispatchFrame(size) ==
  /\ ~TooLong(size) /\ Complete(size)
  /\ dispatched' = Append(dispatched,
                          [first |-> erased + HEADER_SIZE + 1, last |-> erased + FrameSize(size)])
  /\ erased' = erased + FrameSize(size)
  /\ AfterDispatch

Disconnect(size) ==
  /\ TooLong(size)
  /\ pc' = "closed"
  /\ UNCHANGED <<erased, dispatched>>

WaitForMore(size) ==
  /\ ~TooLong(size) /\ ~Complete(size)
  /\ pc' = "poll"
  /\ UNCHANGED <<erased, dispatched>>

_process_recv_buffer ==
  /\ pc = "parse"
  /\ \/ /\ Buffered < HEADER_SIZE
        /\ pc' = "poll"
        /\ UNCHANGED <<erased, dispatched>>
     \/ /\ Buffered >= HEADER_SIZE
        /\ \E size \in DeclaredSizes : DispatchFrame(size) \/ Disconnect(size) \/ WaitForMore(size)
  /\ UNCHANGED <<sent, arrived, taken>>

FramingNext == SendFrame \/ Deliver \/ _handle_client_read \/ _process_recv_buffer

\* TCP delivers what was sent, and the server reads what has arrived.
FramingSpec ==
  /\ FramingInit /\ [][FramingNext]_framingVars
  /\ WF_framingVars(Deliver)
  /\ WF_framingVars(_handle_client_read)
  /\ WF_framingVars(_process_recv_buffer)

-----------------------------------------------------------------------------
(* Properties *)

\* _dispatch gets every frame once, in the order sent, with exactly the bytes of
\* its payload, all of them read, however the stream was cut up and joined together.
FramesInOrder ==
  /\ Len(dispatched) <= Len(sent)
  /\ \A i \in 1 .. Len(dispatched) : dispatched[i] = FrameExtent(i) /\ dispatched[i].last <= taken

\* When the server goes back to poll(), no complete frame waits in recv_buffer:
\* poll() would not report it before the peer sends something more.
NothingLeftBehind ==
  pc = "poll" =>
    \A i \in 1 .. Len(sent) : FrameExtent(i).last <= taken => i <= Len(dispatched)

\* A connection cannot make the server keep more than a frame and a read().
BufferBounded == Buffered < HEADER_SIZE + MaxPayload + ReadSize

\* Every frame is dispatched in the end, unless one before it or the frame
\* itself is too long: then the connection is closed.
EveryFrameHandled ==
  \A i \in 1 .. MaxFrames :
    Len(sent) >= i ~> Len(dispatched) >= i \/ pc = "closed"

\* A frame that is too long is not dispatched, nor anything after it, and nothing
\* but such a frame closes the connection.
ClosedByLongFrame ==
  pc = "closed" => /\ Len(dispatched) < Len(sent)
                   /\ Size(Len(dispatched) + 1) > MaxPayload
===============================================================================
