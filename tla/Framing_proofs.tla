---------------------------- MODULE Framing_proofs ----------------------------
(***************************************************************************)
(* For any sizes, and however TCP and read() cut the stream: the server    *)
(* keeps little of what a connection sends, and dispatches its frames      *)
(* in order, none left behind and none after one that is too long.  A size *)
(* for which HEADER_SIZE + payload_size wraps around is refused before     *)
(* the sum is used.                                                        *)
(***************************************************************************)
EXTENDS Framing, SequenceTheorems, TLAPS

Frames == [start : Nat, size : Sizes]

LEMMA SizesAreNat == Sizes \subseteq Nat
BY SizesFitTheHeader, FramesFitTheWord

LEMMA FrameTypes ==
  ASSUME sent \in Seq(Frames)
  PROVE  /\ Len(sent) \in Nat
         /\ \A i \in 1 .. Len(sent) : Start(i) \in Nat /\ Size(i) \in Sizes /\ Size(i) \in Nat
         /\ StreamLength \in Nat
<1>1. \A i \in 1 .. Len(sent) : sent[i] \in Frames
  OBVIOUS
<1>2. \A i \in 1 .. Len(sent) : Start(i) \in Nat /\ Size(i) \in Sizes /\ Size(i) \in Nat
  BY <1>1, SizesAreNat DEF Frames, Start, Size
<1>3. sent # <<>> => Len(sent) \in 1 .. Len(sent)
  OBVIOUS
<1> QED BY <1>2, <1>3, FramesFitTheWord DEF StreamLength

\* A frame sent goes where the stream ended, and moves none of the others.
LEMMA FrameSent ==
  ASSUME sent \in Seq(Frames), SendFrame
  PROVE  \E n \in Nat :
           /\ n = Len(sent) + 1
           /\ sent' \in Seq(Frames) /\ Len(sent') = n
           /\ \A i \in 1 .. Len(sent) : Start(i)' = Start(i) /\ Size(i)' = Size(i)
           /\ Start(n)' = StreamLength
           /\ Size(n)' \in Nat
           /\ StreamLength' = StreamLength + HEADER_SIZE + Size(n)'
<1>1. PICK size \in Sizes : sent' = Append(sent, [start |-> StreamLength, size |-> size])
  BY DEF SendFrame
<1>2. PICK n : n = Len(sent) + 1
  OBVIOUS
<1> DEFINE frame == [start |-> StreamLength, size |-> size]
<1>3. frame \in Frames
  BY FrameTypes DEF Frames
<1>4. /\ sent' \in Seq(Frames) /\ n \in Nat /\ Len(sent') = n
      /\ \A i \in 1 .. Len(sent) : sent'[i] = sent[i]
      /\ sent'[n] = frame
  BY <1>1, <1>2, <1>3, AppendProperties
<1>5. sent' # <<>>
  BY <1>2, <1>4
<1>6. sent'[n].start = StreamLength /\ sent'[n].size = size /\ size \in Nat
  BY <1>4, SizesAreNat
<1>7. StreamLength' = sent'[n].start + HEADER_SIZE + sent'[n].size
  BY <1>4, <1>5 DEF StreamLength, Start, Size
<1> QED BY <1>2, <1>4, <1>6, <1>7 DEF Start, Size

LEMMA DeclaredAreSizes ==
  ASSUME sent \in Seq(Frames)
  PROVE  DeclaredSizes \subseteq Sizes
BY FrameTypes DEF DeclaredSizes

LEMMA AcceptedFits ==
  ASSUME NEW size \in Sizes, ~TooLong(size)
  PROVE  size \in Nat /\ size <= MaxPayload /\ FrameSize(size) = HEADER_SIZE + size
<1>1. size \in Nat /\ size <= MaxPayload
  BY SizesAreNat, FramesFitTheWord DEF TooLong
<1> QED BY <1>1, FramesFitTheWord DEF FrameSize

-----------------------------------------------------------------------------
(* How much is kept *)

\* BufferBounded, with what is left when the loop of _process_recv_buffer ends:
\* less than a frame of the largest size.
BufferInv ==
  /\ sent \in Seq(Frames)
  /\ taken \in Nat /\ erased \in Nat /\ erased <= taken
  /\ pc = "poll" => Buffered < HEADER_SIZE + MaxPayload
  /\ BufferBounded

LEMMA BufferInit == FramingInit => BufferInv
BY FramesFitTheWord DEF FramingInit, BufferInv, Buffered, BufferBounded

LEMMA BufferStep == BufferInv /\ [FramingNext]_framingVars => BufferInv'
<1> SUFFICES ASSUME BufferInv, [FramingNext]_framingVars PROVE BufferInv'
  OBVIOUS
<1> USE FramesFitTheWord DEF BufferInv, Buffered, BufferBounded
<1>1. CASE SendFrame
  <2>1. sent' \in Seq(Frames)
    BY <1>1, FrameSent
  <2> QED BY <1>1, <2>1 DEF SendFrame
<1>2. CASE Deliver
  BY <1>2 DEF Deliver
<1>3. CASE _handle_client_read
  BY <1>3 DEF _handle_client_read
<1>4. CASE _process_recv_buffer
  <2>1. UNCHANGED <<sent, arrived, taken>> /\ pc = "parse"
    BY <1>4 DEF _process_recv_buffer
  <2>2. CASE Buffered < HEADER_SIZE /\ UNCHANGED <<erased, dispatched>>
    BY <2>1, <2>2
  <2>3. ASSUME NEW size \in DeclaredSizes, DispatchFrame(size)
        PROVE  BufferInv'
    <3>1. size \in Nat /\ size <= MaxPayload /\ FrameSize(size) = HEADER_SIZE + size
      BY <2>3, DeclaredAreSizes, AcceptedFits DEF DispatchFrame
    <3>2. erased' = erased + (HEADER_SIZE + size) /\ Buffered >= HEADER_SIZE + size /\ pc' = pc
      BY <2>3, <3>1 DEF DispatchFrame, Complete, AfterDispatch
    <3> QED BY <2>1, <3>1, <3>2
  <2>4. ASSUME NEW size \in DeclaredSizes, Disconnect(size)
        PROVE  BufferInv'
    BY <2>1, <2>4 DEF Disconnect
  <2>5. ASSUME NEW size \in DeclaredSizes, WaitForMore(size)
        PROVE  BufferInv'
    <3>1. size \in Nat /\ size <= MaxPayload /\ FrameSize(size) = HEADER_SIZE + size
      BY <2>5, DeclaredAreSizes, AcceptedFits DEF WaitForMore
    <3>2. erased' = erased /\ Buffered < HEADER_SIZE + size
      BY <2>5, <3>1 DEF WaitForMore, Complete
    <3> QED BY <2>1, <3>1, <3>2
  <2> QED BY <1>4, <2>2, <2>3, <2>4, <2>5 DEF _process_recv_buffer
<1>5. CASE UNCHANGED framingVars
  BY <1>5 DEF framingVars
<1> QED BY <1>1, <1>2, <1>3, <1>4, <1>5 DEF FramingNext

\* recv_buffer never holds more than a frame of the largest size and what one
\* read() adds, whatever sizes the headers declare and however TCP cuts the stream
\* (_handle_client_read, _process_recv_buffer).
THEOREM BufferStaysBounded == FramingSpec => []BufferBounded
<1>1. BufferInv => BufferBounded
  BY DEF BufferInv
<1> QED BY <1>1, BufferInit, BufferStep, PTL DEF FramingSpec

-----------------------------------------------------------------------------
(* What is dispatched *)

EndOf(i) == Start(i) + HEADER_SIZE + Size(i)

\* Where the frame after the first k ends begins, sent already or not.
NextStart(k) == IF k < Len(sent) THEN Start(k + 1) ELSE StreamLength

\* Frames follow one another without a gap.
Chained ==
  /\ NextStart(0) = 0
  /\ \A i \in 1 .. Len(sent) : EndOf(i) = NextStart(i)
  /\ \A i, j \in 1 .. Len(sent) : i < j => EndOf(i) <= Start(j)
  /\ \A i \in 1 .. Len(sent) : EndOf(i) <= StreamLength

\* The parser is where a frame begins, after those it has dispatched.
InStep == Len(dispatched) <= Len(sent) /\ erased = NextStart(Len(dispatched))

OrderInv ==
  /\ sent \in Seq(Frames)
  /\ dispatched \in Seq([first : Nat, last : Nat])
  /\ arrived \in Nat /\ taken \in Nat /\ erased \in Nat
  /\ erased <= taken /\ taken <= arrived /\ arrived <= StreamLength
  /\ Chained
  /\ InStep
  /\ FramesInOrder
  /\ NothingLeftBehind
  /\ ClosedByLongFrame

LEMMA OrderInit == FramingInit => OrderInv
<1> SUFFICES ASSUME FramingInit PROVE OrderInv
  OBVIOUS
<1>1. /\ sent = <<>> /\ Len(sent) = 0 /\ dispatched = <<>> /\ Len(dispatched) = 0
      /\ arrived = 0 /\ taken = 0 /\ erased = 0 /\ pc = "poll"
  BY DEF FramingInit
<1>2. StreamLength = 0 /\ NextStart(0) = 0
  BY <1>1 DEF StreamLength, NextStart
<1>3. Chained /\ InStep
  BY <1>1, <1>2 DEF Chained, InStep
<1>4. FramesInOrder /\ NothingLeftBehind /\ ClosedByLongFrame
  BY <1>1 DEF FramesInOrder, NothingLeftBehind, ClosedByLongFrame
<1> QED BY <1>1, <1>2, <1>3, <1>4 DEF OrderInv

LEMMA OrderSent ==
  ASSUME OrderInv, SendFrame
  PROVE  OrderInv'
<1>1. PICK n \in Nat :
        /\ n = Len(sent) + 1
        /\ sent' \in Seq(Frames) /\ Len(sent') = n
        /\ \A i \in 1 .. Len(sent) : Start(i)' = Start(i) /\ Size(i)' = Size(i)
        /\ Start(n)' = StreamLength
        /\ Size(n)' \in Nat
        /\ StreamLength' = StreamLength + HEADER_SIZE + Size(n)'
  BY FrameSent DEF OrderInv
<1>2. /\ Len(sent) \in Nat /\ Len(sent) = n - 1 /\ StreamLength \in Nat
      /\ \A i \in 1 .. Len(sent) : Start(i) \in Nat /\ Size(i) \in Nat
  BY <1>1, FrameTypes DEF OrderInv
<1>3. /\ UNCHANGED <<arrived, taken, erased, dispatched, pc>>
      /\ dispatched \in Seq([first : Nat, last : Nat]) /\ Len(dispatched) \in Nat
      /\ arrived \in Nat /\ taken \in Nat /\ erased \in Nat
      /\ erased <= taken /\ taken <= arrived /\ arrived <= StreamLength
  BY DEF SendFrame, OrderInv
<1> USE FramesFitTheWord
<1>4. /\ \A i \in 1 .. Len(sent) : EndOf(i)' = EndOf(i)
      /\ EndOf(n)' = StreamLength' /\ StreamLength' > StreamLength
  BY <1>1, <1>2 DEF EndOf
<1>5. \A k \in 0 .. Len(sent) : NextStart(k)' = NextStart(k)
  BY <1>1, <1>2 DEF NextStart
<1>6. NextStart(n)' = StreamLength'
  BY <1>1 DEF NextStart
<1>7. Chained'
  <2>1. NextStart(0)' = 0
    BY <1>2, <1>5 DEF OrderInv, Chained
  <2>2. ASSUME NEW i \in 1 .. n
        PROVE  EndOf(i)' = NextStart(i)' /\ EndOf(i)' <= StreamLength'
    <3>1. CASE i = n
      BY <1>1, <1>2, <1>4, <1>6, <3>1
    <3>2. CASE i # n
      <4>1. i \in 1 .. Len(sent) /\ EndOf(i) \in Nat
        BY <1>2, <3>2 DEF EndOf
      <4> QED BY <1>1, <1>2, <1>4, <1>5, <4>1 DEF OrderInv, Chained
    <3> QED BY <3>1, <3>2
  <2>3. ASSUME NEW i \in 1 .. n, NEW j \in 1 .. n, i < j
        PROVE  EndOf(i)' <= Start(j)'
    <3>1. i \in 1 .. Len(sent) /\ EndOf(i)' = EndOf(i)
      BY <1>2, <1>4, <2>3
    <3>2. CASE j = n
      BY <1>1, <3>1, <3>2 DEF OrderInv, Chained
    <3>3. CASE j # n
      <4>1. j \in 1 .. Len(sent) /\ Start(j)' = Start(j)
        BY <1>1, <1>2, <3>3
      <4>2. EndOf(i) <= Start(j)
        BY <2>3, <3>1, <4>1 DEF OrderInv, Chained
      <4> QED BY <3>1, <4>1, <4>2
    <3> QED BY <3>2, <3>3
  <2> QED BY <1>1, <2>1, <2>2, <2>3 DEF Chained
<1>8. InStep'
  BY <1>1, <1>2, <1>3, <1>5 DEF OrderInv, InStep
<1>9. FramesInOrder'
  <2>1. ASSUME NEW i \in 1 .. Len(dispatched)
        PROVE  dispatched[i] = FrameExtent(i)' /\ dispatched[i].last <= taken
    <3>1. /\ Len(dispatched) <= Len(sent)
          /\ dispatched[i] = FrameExtent(i) /\ dispatched[i].last <= taken
      BY DEF OrderInv, FramesInOrder
    <3>2. i \in 1 .. Len(sent)
      BY <1>2, <1>3, <3>1
    <3> QED BY <1>1, <3>1, <3>2 DEF FrameExtent
  <2>2. Len(dispatched) <= n
    BY <1>2, <1>3 DEF OrderInv, FramesInOrder
  <2> QED BY <1>1, <1>3, <2>1, <2>2 DEF FramesInOrder
<1>10. NothingLeftBehind'
  <2> SUFFICES ASSUME pc = "poll", NEW i \in 1 .. n, FrameExtent(i)'.last <= taken
               PROVE  i <= Len(dispatched)
    BY <1>1, <1>3 DEF NothingLeftBehind
  <2>1. CASE i = n
    <3>1. FrameExtent(n)'.last = StreamLength + HEADER_SIZE + Size(n)'
      BY <1>1 DEF FrameExtent
    <3> QED BY <1>1, <1>2, <1>3, <2>1, <3>1
  <2>2. CASE i # n
    <3>1. i \in 1 .. Len(sent)
      BY <1>2, <2>2
    <3>2. FrameExtent(i)'.last = FrameExtent(i).last
      BY <1>1, <3>1 DEF FrameExtent
    <3> QED BY <3>1, <3>2 DEF OrderInv, NothingLeftBehind
  <2> QED BY <2>1, <2>2
<1>11. ClosedByLongFrame'
  <2> SUFFICES ASSUME pc = "closed"
               PROVE  Len(dispatched) < n /\ sent'[Len(dispatched) + 1].size > MaxPayload
    BY <1>1, <1>3 DEF ClosedByLongFrame, Size
  <2>1. Len(dispatched) < Len(sent) /\ Size(Len(dispatched) + 1) > MaxPayload
    BY DEF OrderInv, ClosedByLongFrame
  <2>2. PICK k : k = Len(dispatched) + 1
    OBVIOUS
  <2>3. k \in 1 .. Len(sent)
    BY <1>2, <1>3, <2>1, <2>2
  <2>4. Size(k)' = Size(k)
    BY <1>1, <2>3
  <2> QED BY <1>2, <1>3, <2>1, <2>2, <2>4 DEF Size
<1> QED BY <1>1, <1>3, <1>4, <1>7, <1>8, <1>9, <1>10, <1>11, <1>2 DEF OrderInv

\* What the parser reads in front of the buffer is the size its sender put there.
LEMMA DeclaredIsNext ==
  ASSUME OrderInv, Buffered >= HEADER_SIZE
  PROVE  /\ Len(dispatched) < Len(sent)
         /\ erased = Start(Len(dispatched) + 1)
         /\ DeclaredSizes = {Size(Len(dispatched) + 1)}
<1> DEFINE k == Len(dispatched)
<1>1. /\ Len(sent) \in Nat /\ StreamLength \in Nat /\ k \in Nat /\ k <= Len(sent)
      /\ erased \in Nat /\ taken \in Nat /\ arrived \in Nat
      /\ \A i \in 1 .. Len(sent) : Start(i) \in Nat /\ Size(i) \in Nat
  BY FrameTypes DEF OrderInv, InStep
<1>2. erased < StreamLength
  BY <1>1, FramesFitTheWord DEF OrderInv, Buffered
<1>3. k < Len(sent) /\ erased = Start(k + 1)
  BY <1>1, <1>2 DEF OrderInv, InStep, NextStart
<1>4. \A i, j \in 1 .. Len(sent) : i < j => Start(i) < Start(j)
  <2> SUFFICES ASSUME NEW i \in 1 .. Len(sent), NEW j \in 1 .. Len(sent), i < j
               PROVE  Start(i) < Start(j)
    OBVIOUS
  <2>1. EndOf(i) <= Start(j)
    BY DEF OrderInv, Chained
  <2> QED BY <1>1, <2>1, FramesFitTheWord DEF EndOf
<1>5. ASSUME NEW i \in 1 .. Len(sent), Start(i) = erased
      PROVE  i = k + 1
  <2>1. k + 1 \in 1 .. Len(sent) /\ Start(i) = Start(k + 1)
    BY <1>1, <1>3, <1>5
  <2>2. ~(i < k + 1) /\ ~(k + 1 < i)
    BY <1>1, <1>4, <2>1
  <2> QED BY <1>1, <2>2
<1>6. {i \in 1 .. Len(sent) : Start(i) = erased} = {k + 1}
  BY <1>1, <1>3, <1>5
<1>7. DeclaredSizes = {Size(k + 1)}
  BY <1>6 DEF DeclaredSizes
<1> QED BY <1>3, <1>7

LEMMA OrderParsed ==
  ASSUME OrderInv, _process_recv_buffer
  PROVE  OrderInv'
<1> DEFINE k == Len(dispatched)
<1>1. UNCHANGED <<sent, arrived, taken>> /\ pc = "parse"
  BY DEF _process_recv_buffer
<1>2. /\ Len(sent) \in Nat /\ StreamLength \in Nat /\ k \in Nat /\ k <= Len(sent)
      /\ erased \in Nat /\ taken \in Nat /\ arrived \in Nat
      /\ \A i \in 1 .. Len(sent) : Start(i) \in Nat /\ Size(i) \in Nat /\ Size(i) \in Sizes
      /\ dispatched \in Seq([first : Nat, last : Nat])
      /\ sent \in Seq(Frames)
  BY FrameTypes DEF OrderInv, InStep
<1>3. StreamLength' = StreamLength /\ Chained'
  BY <1>1 DEF OrderInv, Chained, StreamLength, NextStart, EndOf, Start, Size
<1>4. \A i \in 1 .. Len(sent) : FrameExtent(i)' = FrameExtent(i)
  BY <1>1 DEF FrameExtent, Start, Size
<1>5. ASSUME UNCHANGED <<erased, dispatched>>,
             pc' = "poll" => NothingLeftBehind',
             pc' = "closed" => ClosedByLongFrame',
             pc' \in {"poll", "closed"}
      PROVE  OrderInv'
  <2>1. InStep'
    BY <1>1, <1>3, <1>5 DEF OrderInv, InStep, NextStart, Start
  <2>2. FramesInOrder'
    BY <1>1, <1>5 DEF OrderInv, FramesInOrder, FrameExtent, Start, Size
  <2>3. NothingLeftBehind' /\ ClosedByLongFrame'
    BY <1>5 DEF NothingLeftBehind, ClosedByLongFrame
  <2> QED BY <1>1, <1>3, <1>5, <2>1, <2>2, <2>3 DEF OrderInv
\* Nothing that waits is complete if the next frame is not.
<1>6. ASSUME UNCHANGED <<erased, dispatched>>,
             k < Len(sent) => taken < EndOf(k + 1)
      PROVE  NothingLeftBehind'
  <2> SUFFICES ASSUME NEW i \in 1 .. Len(sent), FrameExtent(i).last <= taken
               PROVE  i <= k
    BY <1>1, <1>4, <1>6 DEF NothingLeftBehind
  <2>1. SUFFICES ASSUME k < i
                 PROVE  FALSE
    BY <1>2
  <2>2. k + 1 \in 1 .. Len(sent) /\ EndOf(k + 1) \in Nat /\ EndOf(i) \in Nat
    BY <1>2, <2>1, FramesFitTheWord DEF EndOf
  <2>3. EndOf(k + 1) <= EndOf(i)
    <3>1. CASE i = k + 1
      BY <2>2, <3>1
    <3>2. CASE i # k + 1
      <4>1. k + 1 < i
        BY <1>2, <2>1, <3>2
      <4>2. EndOf(k + 1) <= Start(i)
        BY <2>2, <4>1 DEF OrderInv, Chained
      <4> QED BY <1>2, <2>2, <4>2, FramesFitTheWord DEF EndOf
    <3> QED BY <3>1, <3>2
  <2>4. FrameExtent(i).last = EndOf(i)
    BY DEF FrameExtent, EndOf
  <2> QED BY <1>2, <1>6, <2>1, <2>2, <2>3, <2>4
<1>7. CASE Buffered < HEADER_SIZE /\ pc' = "poll" /\ UNCHANGED <<erased, dispatched>>
  <2>1. ASSUME k < Len(sent) PROVE taken < EndOf(k + 1)
    <3>1. erased = Start(k + 1)
      BY <2>1 DEF OrderInv, InStep, NextStart
    <3>2. k + 1 \in 1 .. Len(sent)
      BY <1>2, <2>1
    <3> QED BY <1>2, <1>7, <3>1, <3>2, FramesFitTheWord DEF EndOf, Buffered
  <2> QED BY <1>5, <1>6, <1>7, <2>1
<1>8. ASSUME Buffered >= HEADER_SIZE, NEW size \in DeclaredSizes
      PROVE  /\ k < Len(sent) /\ erased = Start(k + 1) /\ size = Size(k + 1)
             /\ k + 1 \in 1 .. Len(sent) /\ size \in Nat
             /\ ~TooLong(size) => FrameSize(size) = HEADER_SIZE + size
  <2>1. k < Len(sent) /\ erased = Start(k + 1) /\ size = Size(k + 1)
    BY <1>8, DeclaredIsNext
  <2>2. k + 1 \in 1 .. Len(sent)
    BY <1>2, <2>1
  <2>3. size \in Sizes /\ size \in Nat
    BY <1>2, <2>1, <2>2
  <2> QED BY <2>1, <2>2, <2>3, AcceptedFits
<1>9. ASSUME Buffered >= HEADER_SIZE, NEW size \in DeclaredSizes, WaitForMore(size)
      PROVE  OrderInv'
  <2>1. taken < EndOf(k + 1)
    BY <1>2, <1>8, <1>9, FramesFitTheWord DEF WaitForMore, Complete, Buffered, EndOf
  <2> QED BY <1>5, <1>6, <1>9, <2>1 DEF WaitForMore
<1>10. ASSUME Buffered >= HEADER_SIZE, NEW size \in DeclaredSizes, Disconnect(size)
       PROVE  OrderInv'
  <2>1. k < Len(sent) /\ Size(k + 1) > MaxPayload
    BY <1>8, <1>10 DEF Disconnect, TooLong
  <2>2. ClosedByLongFrame'
    BY <1>1, <1>10, <2>1 DEF ClosedByLongFrame, Disconnect, Size
  <2> QED BY <1>5, <1>10, <2>2 DEF Disconnect
<1>11. ASSUME Buffered >= HEADER_SIZE, NEW size \in DeclaredSizes, DispatchFrame(size)
       PROVE  OrderInv'
  <2> DEFINE extent == [first |-> erased + HEADER_SIZE + 1, last |-> erased + HEADER_SIZE + size]
  <2>1. /\ k < Len(sent) /\ k + 1 \in 1 .. Len(sent) /\ size \in Nat
        /\ erased = Start(k + 1) /\ size = Size(k + 1)
        /\ FrameSize(size) = HEADER_SIZE + size
    BY <1>8, <1>11 DEF DispatchFrame
  <2>2. /\ erased' = erased + (HEADER_SIZE + size)
        /\ Buffered >= HEADER_SIZE + size
        /\ pc' = "parse"
        /\ dispatched' = Append(dispatched, [first |-> erased + HEADER_SIZE + 1,
                                             last |-> erased + (HEADER_SIZE + size)])
    BY <1>1, <1>11, <2>1 DEF DispatchFrame, Complete, AfterDispatch
  <2>3. extent = FrameExtent(k + 1) /\ extent.last = erased' /\ extent \in [first : Nat, last : Nat]
    BY <1>2, <2>1, <2>2, FramesFitTheWord DEF FrameExtent
  <2>4. dispatched' = Append(dispatched, extent)
    BY <1>2, <2>1, <2>2, FramesFitTheWord
  <2> HIDE DEF extent
  <2>5. /\ dispatched' \in Seq([first : Nat, last : Nat]) /\ Len(dispatched') = k + 1
        /\ dispatched'[k + 1] = extent
        /\ \A i \in 1 .. k : dispatched'[i] = dispatched[i]
    BY <1>2, <2>3, <2>4, AppendProperties
  <2>6. erased' \in Nat /\ erased' <= taken
    BY <1>2, <2>1, <2>2, FramesFitTheWord DEF Buffered
  <2>7. InStep'
    <3>1. erased' = EndOf(k + 1)
      BY <1>2, <2>1, <2>2, FramesFitTheWord DEF EndOf
    <3>2. EndOf(k + 1) = NextStart(k + 1)
      BY <2>1 DEF OrderInv, Chained
    <3>3. \A i \in 0 .. Len(sent) : NextStart(i)' = NextStart(i)
      BY <1>1, <1>3 DEF NextStart, Start
    <3>4. PICK m : m = k + 1
      OBVIOUS
    <3>5. Len(dispatched') = m /\ NextStart(m)' = NextStart(m) /\ m <= Len(sent)
      BY <1>2, <2>1, <2>5, <3>3, <3>4
    <3>6. erased' = NextStart(m)'
      BY <3>1, <3>2, <3>4, <3>5
    <3> QED BY <1>1, <3>5, <3>6 DEF InStep, NextStart
  <2>8. FramesInOrder'
    <3>1. ASSUME NEW i \in 1 .. k + 1
          PROVE  dispatched'[i] = FrameExtent(i)' /\ dispatched'[i].last <= taken
      <4>1. i \in 1 .. Len(sent) /\ FrameExtent(i)' = FrameExtent(i)
        BY <1>2, <1>4, <2>1
      <4>2. CASE i = k + 1
        BY <2>3, <2>5, <2>6, <4>1, <4>2
      <4>3. CASE i # k + 1
        <5>1. i \in 1 .. k
          BY <1>2, <4>3
        <5>2. dispatched[i] = FrameExtent(i) /\ dispatched[i].last <= taken
          BY <5>1 DEF OrderInv, FramesInOrder
        <5> QED BY <2>5, <4>1, <5>1, <5>2
      <4> QED BY <4>2, <4>3
    <3>2. k + 1 <= Len(sent)
      BY <2>1
    <3> QED BY <1>1, <2>5, <3>1, <3>2 DEF FramesInOrder
  <2>9. NothingLeftBehind' /\ ClosedByLongFrame'
    BY <2>2 DEF NothingLeftBehind, ClosedByLongFrame
  <2> QED BY <1>1, <1>2, <1>3, <2>5, <2>6, <2>7, <2>8, <2>9 DEF OrderInv
<1> QED BY <1>7, <1>9, <1>10, <1>11 DEF _process_recv_buffer

LEMMA OrderStep == OrderInv /\ [FramingNext]_framingVars => OrderInv'
<1> SUFFICES ASSUME OrderInv, [FramingNext]_framingVars PROVE OrderInv'
  OBVIOUS
<1> USE DEF OrderInv
<1>1. ASSUME UNCHANGED <<sent, erased, dispatched>>
      PROVE  /\ StreamLength' = StreamLength /\ Chained' /\ InStep'
             /\ Len(dispatched) <= Len(sent)
             /\ \A i \in 1 .. Len(dispatched) : dispatched[i] = FrameExtent(i)'
  BY <1>1 DEF Chained, InStep, StreamLength, NextStart, EndOf, Start, Size,
     FramesInOrder, FrameExtent
<1>2. CASE SendFrame
  BY <1>2, OrderSent
<1>3. CASE Deliver
  <2>1. arrived' \in arrived + 1 .. StreamLength /\ UNCHANGED <<sent, taken, erased, dispatched, pc>>
    BY <1>3 DEF Deliver
  <2>2. FramesInOrder' /\ NothingLeftBehind' /\ ClosedByLongFrame'
    BY <2>1 DEF FramesInOrder, NothingLeftBehind, ClosedByLongFrame, FrameExtent, Start, Size
  <2>3. arrived' \in Nat /\ taken <= arrived' /\ arrived' <= StreamLength
    BY <2>1, FrameTypes
  <2> QED BY <1>1, <2>1, <2>2, <2>3
<1>4. CASE _handle_client_read
  <2>1. PICK n \in 1 .. ReadSize : taken + n <= arrived /\ taken' = taken + n
    BY <1>4 DEF _handle_client_read
  <2>2. pc' = "parse" /\ UNCHANGED <<sent, arrived, erased, dispatched>>
    BY <1>4 DEF _handle_client_read
  <2>3. taken' \in Nat /\ taken < taken' /\ taken' <= arrived /\ erased <= taken'
    BY <2>1, FramesFitTheWord
  <2>4. NothingLeftBehind' /\ ClosedByLongFrame'
    BY <2>2 DEF NothingLeftBehind, ClosedByLongFrame
  <2>5. FramesInOrder'
    <3>1. ASSUME NEW i \in 1 .. Len(dispatched) PROVE dispatched[i].last <= taken'
      <4>1. dispatched[i] \in [first : Nat, last : Nat]
        BY ElementOfSeq
      <4>2. dispatched[i].last <= taken
        BY DEF FramesInOrder
      <4> QED BY <2>3, <4>1, <4>2
    <3> QED BY <1>1, <2>2, <3>1 DEF FramesInOrder
  <2> QED BY <1>1, <2>2, <2>3, <2>4, <2>5
<1>5. CASE _process_recv_buffer
  BY <1>5, OrderParsed
<1>6. CASE UNCHANGED framingVars
  <2>1. FramesInOrder' /\ NothingLeftBehind' /\ ClosedByLongFrame'
    BY <1>6 DEF framingVars, FramesInOrder, NothingLeftBehind, ClosedByLongFrame, FrameExtent,
       Start, Size
  <2> QED BY <1>1, <1>6, <2>1 DEF framingVars
<1> QED BY <1>2, <1>3, <1>4, <1>5, <1>6 DEF FramingNext

\* Every frame reaches _dispatch once, in the order sent and with exactly its bytes,
\* however TCP and read() cut the stream (_process_recv_buffer).
THEOREM FramesStayInOrder == FramingSpec => []FramesInOrder
<1>1. OrderInv => FramesInOrder
  BY DEF OrderInv
<1> QED BY <1>1, OrderInit, OrderStep, PTL DEF FramingSpec

\* No complete frame is in recv_buffer when the server goes back to poll(), where
\* nothing would tell it of one (the loop of _process_recv_buffer).
THEOREM NothingStaysBehind == FramingSpec => []NothingLeftBehind
<1>1. OrderInv => NothingLeftBehind
  BY DEF OrderInv
<1> QED BY <1>1, OrderInit, OrderStep, PTL DEF FramingSpec

\* A connection is closed for a frame that is too long, which is the next one, and
\* for nothing else (the limit of 65535 in _process_recv_buffer).
THEOREM OnlyLongFramesClose == FramingSpec => []ClosedByLongFrame
<1>1. OrderInv => ClosedByLongFrame
  BY DEF OrderInv
<1> QED BY <1>1, OrderInit, OrderStep, PTL DEF FramingSpec
===============================================================================
