---------------------------- MODULE NetlibProofs ----------------------------
(***************************************************************************)
(* The parts of netlib under the connections.                              *)
(*                                                                         *)
(* The buffer for every size of reserve, array and second block and any    *)
(* number of bytes: what each operation does to the bytes that wait, and   *)
(* from it that the indices stay in order, that the buffer is a pipe, and  *)
(* that its array grows with the most that ever waited and no further.     *)
(*                                                                         *)
(* The loop's timers for any timers, functions and threads: a one-shot     *)
(* timer fires at most once, and no timer after it was cancelled.          *)
(***************************************************************************)
EXTENDS Buffer, EventLoop, SequenceTheorems, TLAPS

(* b holds the bytes s.                                                    *)
Holds(b, s) ==
    /\ WellFormed(b)
    /\ readableBytes(b) = Len(s)
    /\ \A i \in 1..Len(s) : b.mem[b.readIdx + i] = s[i]

LEMMA MapIsSeq ==
    ASSUME NEW S, NEW n \in Nat, NEW f \in [1..n -> S]
    PROVE  f \in Seq(S) /\ Len(f) = n
<1>1. f \in Seq(S) BY IsASeq
<1> QED BY <1>1, LenProperties

LEMMA SplitSeq ==
    ASSUME NEW S, NEW s \in Seq(S), NEW n \in 0..Len(s)
    PROVE  SubSeq(s, 1, n) \o SubSeq(s, n + 1, Len(s)) = s
<1>1. /\ Len(s) \in Nat /\ 1 \in 1..(Len(s) + 1) /\ n \in (1 - 1)..Len(s)
      /\ Len(s) \in n..Len(s)
  BY LenProperties
<1>2. SubSeq(s, 1, n) \o SubSeq(s, n + 1, Len(s)) = SubSeq(s, 1, Len(s))
  BY <1>1, ConcatAdjacentSubSeq
<1> QED BY <1>2, SubSeqFull

LEMMA WellFormedFacts ==
    ASSUME NEW b, WellFormed(b)
    PROVE  /\ b.mem \in Seq(Byte) /\ Len(b.mem) \in Nat
           /\ b.readIdx \in Nat /\ b.writeIdx \in Nat
           /\ readableBytes(b) \in Nat /\ writableBytes(b) \in Nat
           /\ \A i \in 1..Len(b.mem) : b.mem[i] \in Byte
BY BufferAssumption, LenProperties, ElementOfSeq DEF WellFormed, readableBytes, writableBytes

(* peek and Content are sequences, and Holds says what Content is.         *)
LEMMA PeekIsSeq ==
    ASSUME NEW b, WellFormed(b), NEW n \in 0..readableBytes(b)
    PROVE  /\ peek(b, n) \in Seq(Byte) /\ Len(peek(b, n)) = n
           /\ \A i \in 1..n : peek(b, n)[i] = b.mem[b.readIdx + i]
<1>1. n \in Nat /\ \A i \in 1..n : b.mem[b.readIdx + i] \in Byte
  BY WellFormedFacts, BufferAssumption DEF WellFormed, readableBytes
<1>2. peek(b, n) \in Seq(Byte)
  BY <1>1, IsASeq DEF peek
<1> QED BY <1>1, <1>2, LenProperties DEF peek

LEMMA HoldsContent ==
    ASSUME NEW b
    PROVE  /\ WellFormed(b) => Holds(b, Content(b)) /\ Content(b) \in Seq(Byte)
           /\ \A s \in Seq(Byte) : Holds(b, s) => Content(b) = s
<1>1. ASSUME WellFormed(b) PROVE Holds(b, Content(b)) /\ Content(b) \in Seq(Byte)
  BY <1>1, PeekIsSeq, WellFormedFacts DEF Holds, Content
<1>2. ASSUME NEW s \in Seq(Byte), Holds(b, s) PROVE Content(b) = s
  <2>1. WellFormed(b) /\ readableBytes(b) \in Nat BY <1>2, WellFormedFacts DEF Holds
  <2>2. Content(b) \in Seq(Byte) /\ Len(Content(b)) = Len(s)
    BY <1>2, <2>1, PeekIsSeq DEF Holds, Content
  <2>3. \A i \in 1..Len(s) : Content(b)[i] = s[i]
    BY <1>2, <2>1, PeekIsSeq DEF Holds, Content
  <2> QED BY <2>2, <2>3, SeqEqual
<1> QED BY <1>1, <1>2
-----------------------------------------------------------------------------
(* What the operations do to the bytes that wait.                          *)

LEMMA RetrieveAllHolds ==
    ASSUME NEW b, WellFormed(b)
    PROVE  Holds(retrieveAll(b), <<>>)
<1>1. /\ retrieveAll(b).mem = b.mem /\ retrieveAll(b).readIdx = kBufferPrepend
      /\ retrieveAll(b).writeIdx = kBufferPrepend
      /\ retrieveAll(b) \in [mem : Seq(Byte), readIdx : Nat, writeIdx : Nat]
  BY BufferAssumption DEF retrieveAll, WellFormed
<1> QED BY <1>1, WellFormedFacts, BufferAssumption DEF Holds, WellFormed, readableBytes

LEMMA RetrieveHolds ==
    ASSUME NEW b, NEW s \in Seq(Byte), Holds(b, s), NEW n \in 0..Len(s)
    PROVE  Holds(retrieve(b, n), SubSeq(s, n + 1, Len(s)))
<1> DEFINE rest == SubSeq(s, n + 1, Len(s))
<1>0. WellFormed(b) /\ readableBytes(b) = Len(s) /\ Len(s) \in Nat BY DEF Holds
<1>1. /\ rest \in Seq(Byte) /\ Len(rest) = Len(s) - n
      /\ \A i \in 1..Len(rest) : rest[i] = s[n + i]
  BY <1>0
<1>2. CASE n < Len(s)
  <2>1. /\ retrieve(b, n).mem = b.mem /\ retrieve(b, n).readIdx = b.readIdx + n
        /\ retrieve(b, n).writeIdx = b.writeIdx
        /\ retrieve(b, n) \in [mem : Seq(Byte), readIdx : Nat, writeIdx : Nat]
    BY <1>0, <1>2 DEF retrieve, WellFormed
  <2>2. WellFormed(retrieve(b, n)) /\ readableBytes(retrieve(b, n)) = Len(rest)
    BY <1>0, <1>1, <1>2, <2>1, WellFormedFacts, BufferAssumption DEF WellFormed, readableBytes
  <2>3. ASSUME NEW i \in 1..Len(rest) PROVE b.mem[b.readIdx + n + i] = rest[i]
    <3>1. n + i \in 1..Len(s) BY <1>0, <1>1
    <3>2. b.mem[b.readIdx + (n + i)] = s[n + i] BY <3>1 DEF Holds
    <3>3. b.readIdx + n + i = b.readIdx + (n + i) BY <1>0, WellFormedFacts
    <3> HIDE DEF rest
    <3> QED BY <1>1, <3>2, <3>3
  <2> QED BY <2>1, <2>2, <2>3 DEF Holds
<1>3. CASE n = Len(s)
  <2>1. retrieve(b, n) = retrieveAll(b) BY <1>0, <1>3 DEF retrieve
  <2>2. rest = <<>> BY <1>0, <1>1, <1>3, EmptySeq
  <2> QED BY <1>0, <2>1, <2>2, RetrieveAllHolds
<1> QED BY <1>0, <1>2, <1>3

LEMMA ResizeHolds ==
    ASSUME NEW b, NEW s \in Seq(Byte), Holds(b, s), NEW k \in Nat, k >= b.writeIdx
    PROVE  Holds(resize(b, k), s) /\ Len(resize(b, k).mem) = k
                                 /\ resize(b, k).writeIdx = b.writeIdx
<1> DEFINE m == [i \in 1..k |-> IF i <= Len(b.mem) THEN b.mem[i] ELSE Zero]
<1>0. WellFormed(b) /\ readableBytes(b) = Len(s) /\ Len(s) \in Nat BY DEF Holds
<1>1. \A i \in 1..k : m[i] \in Byte BY <1>0, WellFormedFacts, BufferAssumption
<1>2. m \in Seq(Byte) /\ Len(m) = k
  <2>1. m \in [1..k -> Byte] BY <1>1
  <2> HIDE DEF m
  <2> QED BY <2>1, MapIsSeq
<1>3. /\ resize(b, k).mem = m /\ resize(b, k).readIdx = b.readIdx
      /\ resize(b, k).writeIdx = b.writeIdx
      /\ resize(b, k) \in [mem : Seq(Byte), readIdx : Nat, writeIdx : Nat]
  BY <1>0, <1>2 DEF resize, WellFormed
<1>4. WellFormed(resize(b, k)) /\ readableBytes(resize(b, k)) = Len(s)
  BY <1>0, <1>2, <1>3 DEF WellFormed, readableBytes
<1>5. ASSUME NEW i \in 1..Len(s) PROVE m[b.readIdx + i] = s[i]
  <2>1. b.readIdx + i \in 1..k /\ b.readIdx + i <= Len(b.mem)
    BY <1>0, WellFormedFacts DEF WellFormed, readableBytes
  <2>2. m[b.readIdx + i] = b.mem[b.readIdx + i] BY <2>1
  <2> QED BY <2>2 DEF Holds
<1> QED BY <1>2, <1>3, <1>4, <1>5 DEF Holds

LEMMA MoveDownHolds ==
    ASSUME NEW b, NEW s \in Seq(Byte), Holds(b, s)
    PROVE  Holds(moveDown(b), s) /\ Len(moveDown(b).mem) = Len(b.mem)
                                /\ moveDown(b).writeIdx = kBufferPrepend + Len(s)
<1> DEFINE p == kBufferPrepend
           m == [i \in 1..Len(b.mem) |-> IF i > p /\ i <= p + readableBytes(b)
                                         THEN b.mem[b.readIdx + i - p] ELSE b.mem[i]]
<1>0. /\ WellFormed(b) /\ readableBytes(b) = Len(s) /\ Len(s) \in Nat /\ p \in Nat
      /\ Len(b.mem) \in Nat
  BY WellFormedFacts, BufferAssumption DEF Holds
<1>1. ASSUME NEW i \in 1..Len(b.mem) PROVE m[i] \in Byte
  <2>1. i > p /\ i <= p + readableBytes(b) => b.readIdx + i - p \in 1..Len(b.mem)
    BY <1>0, WellFormedFacts DEF WellFormed, readableBytes
  <2> QED BY <1>0, <2>1, WellFormedFacts
<1>2. m \in Seq(Byte) /\ Len(m) = Len(b.mem)
  <2>1. m \in [1..Len(b.mem) -> Byte] BY <1>1
  <2> HIDE DEF m
  <2> QED BY <1>0, <2>1, MapIsSeq
<1>3. /\ moveDown(b).mem = m /\ moveDown(b).readIdx = p
      /\ moveDown(b).writeIdx = p + Len(s)
      /\ moveDown(b) \in [mem : Seq(Byte), readIdx : Nat, writeIdx : Nat]
  BY <1>0, <1>2 DEF moveDown
<1>4. WellFormed(moveDown(b)) /\ readableBytes(moveDown(b)) = Len(s)
  BY <1>0, <1>2, <1>3, WellFormedFacts DEF WellFormed, readableBytes
<1>5. ASSUME NEW i \in 1..Len(s) PROVE m[p + i] = s[i]
  <2>1. /\ p + i \in 1..Len(b.mem) /\ p + i > p /\ p + i <= p + readableBytes(b)
        /\ b.readIdx + (p + i) - p = b.readIdx + i
    BY <1>0, WellFormedFacts DEF WellFormed, readableBytes
  <2>2. m[p + i] = b.mem[b.readIdx + (p + i) - p] BY <2>1
  <2> QED BY <2>1, <2>2 DEF Holds
<1> QED BY <1>2, <1>3, <1>4, <1>5 DEF Holds

(* makeSpace keeps the bytes and makes room; an array that grows ends      *)
(* where the bytes to come will end.                                       *)
LEMMA MakeSpaceHolds ==
    ASSUME NEW b, NEW s \in Seq(Byte), Holds(b, s), NEW len \in Nat, writableBytes(b) < len
    PROVE  /\ Holds(makeSpace(b, len), s)
           /\ writableBytes(makeSpace(b, len)) >= len
           /\ \/ Len(makeSpace(b, len).mem) = Len(b.mem)
              \/ Len(makeSpace(b, len).mem) < 2 * (Len(s) + len) + kBufferPrepend
<1>0. /\ WellFormed(b) /\ readableBytes(b) = Len(s) /\ Len(s) \in Nat
      /\ Len(b.mem) \in Nat /\ b.writeIdx \in Nat /\ b.readIdx \in Nat
  BY WellFormedFacts DEF Holds
<1>1. CASE writableBytes(b) + prependableBytes(b) < len + kBufferPrepend
  <2>1. makeSpace(b, len) = resize(b, b.writeIdx + len) BY <1>1 DEF makeSpace
  <2>2. /\ Holds(resize(b, b.writeIdx + len), s)
        /\ Len(resize(b, b.writeIdx + len).mem) = b.writeIdx + len
        /\ resize(b, b.writeIdx + len).writeIdx = b.writeIdx
    <3>1. b.writeIdx + len \in Nat /\ b.writeIdx + len >= b.writeIdx BY <1>0
    <3> QED BY <3>1, ResizeHolds
  <2>3. b.writeIdx + len < 2 * (Len(s) + len) + kBufferPrepend
    BY <1>0, <1>1, BufferAssumption
       DEF WellFormed, readableBytes, writableBytes, prependableBytes
  <2> QED BY <1>0, <2>1, <2>2, <2>3 DEF writableBytes
<1>2. CASE ~(writableBytes(b) + prependableBytes(b) < len + kBufferPrepend)
  <2>1. makeSpace(b, len) = moveDown(b) BY <1>2 DEF makeSpace
  <2>2. Len(b.mem) - (kBufferPrepend + Len(s)) >= len
    BY <1>0, <1>2, BufferAssumption
       DEF WellFormed, readableBytes, writableBytes, prependableBytes
  <2> QED BY <2>1, <2>2, MoveDownHolds DEF writableBytes
<1> QED BY <1>1, <1>2

LEMMA CopyInHolds ==
    ASSUME NEW b, NEW s \in Seq(Byte), Holds(b, s),
           NEW t \in Seq(Byte), Len(t) <= writableBytes(b)
    PROVE  Holds(copyIn(b, t), s \o t) /\ Len(copyIn(b, t).mem) = Len(b.mem)
                                       /\ copyIn(b, t).writeIdx = b.writeIdx + Len(t)
<1> DEFINE w == b.writeIdx
           m == [i \in 1..Len(b.mem) |-> IF i > w /\ i <= w + Len(t)
                                         THEN t[i - w] ELSE b.mem[i]]
<1>0. /\ WellFormed(b) /\ readableBytes(b) = Len(s) /\ Len(s) \in Nat /\ Len(t) \in Nat
      /\ Len(b.mem) \in Nat /\ w \in Nat /\ b.readIdx \in Nat
  BY WellFormedFacts DEF Holds
<1>1. ASSUME NEW i \in 1..Len(b.mem) PROVE m[i] \in Byte
  <2>1. i > w /\ i <= w + Len(t) => i - w \in 1..Len(t) BY <1>0
  <2> QED BY <1>0, <2>1, WellFormedFacts, ElementOfSeq
<1>2. m \in Seq(Byte) /\ Len(m) = Len(b.mem)
  <2>1. m \in [1..Len(b.mem) -> Byte] BY <1>1
  <2> HIDE DEF m
  <2> QED BY <1>0, <2>1, MapIsSeq
<1>3. /\ copyIn(b, t).mem = m /\ copyIn(b, t).readIdx = b.readIdx
      /\ copyIn(b, t).writeIdx = w + Len(t)
      /\ copyIn(b, t) \in [mem : Seq(Byte), readIdx : Nat, writeIdx : Nat]
  BY <1>0, <1>2 DEF copyIn
<1>4. Len(s \o t) = Len(s) + Len(t) BY ConcatProperties
<1>5. WellFormed(copyIn(b, t)) /\ readableBytes(copyIn(b, t)) = Len(s \o t)
  BY <1>0, <1>2, <1>3, <1>4 DEF WellFormed, readableBytes, writableBytes
<1>6. ASSUME NEW i \in 1..Len(s \o t) PROVE m[b.readIdx + i] = (s \o t)[i]
  <2>1. /\ b.readIdx + i \in 1..Len(b.mem) /\ w = b.readIdx + Len(s)
    BY <1>0, <1>4 DEF WellFormed, readableBytes, writableBytes
  <2>2. CASE i <= Len(s)
    <3>1. m[b.readIdx + i] = b.mem[b.readIdx + i] BY <1>0, <2>1, <2>2
    <3>2. b.mem[b.readIdx + i] = s[i] BY <1>0, <2>2 DEF Holds
    <3>3. (s \o t)[i] = s[i] BY <1>4, <2>2, ConcatProperties
    <3> QED BY <3>1, <3>2, <3>3
  <2>3. CASE i > Len(s)
    <3>2. \A j \in 1..Len(b.mem) : j > w /\ j <= w + Len(t) => m[j] = t[j - w] OBVIOUS
    <3> HIDE DEF m
    <3>4. ASSUME NEW j \in 1..Len(b.mem), j = b.readIdx + i PROVE m[j] = t[i - Len(s)]
      <4>1. j > w /\ j <= w + Len(t) /\ j - w = i - Len(s) BY <1>0, <1>4, <2>1, <2>3, <3>4
      <4>2. m[j] = t[j - w]
        <5> HIDE DEF w
        <5> QED BY <3>2, <4>1
      <4> QED BY <4>1, <4>2
    <3>5. m[b.readIdx + i] = t[i - Len(s)] BY <2>1, <3>4
    <3>3. (s \o t)[i] = t[i - Len(s)] BY <1>4, <2>3, ConcatProperties
    <3> QED BY <3>3, <3>5
  <2> QED BY <1>0, <1>4, <2>2, <2>3
<1> QED BY <1>2, <1>3, <1>5, <1>6 DEF Holds

LEMMA AppendHolds ==
    ASSUME NEW b, NEW s \in Seq(Byte), Holds(b, s), NEW t \in Seq(Byte)
    PROVE  /\ Holds(append(b, t), s \o t)
           /\ \/ Len(append(b, t).mem) = Len(b.mem)
              \/ Len(append(b, t).mem) < 2 * Len(s \o t) + kBufferPrepend
<1>1. Len(s \o t) = Len(s) + Len(t) /\ Len(t) \in Nat BY ConcatProperties
<1>2. CASE writableBytes(b) < Len(t)
  <2> DEFINE c == makeSpace(b, Len(t))
  <2>1. append(b, t) = copyIn(c, t) BY <1>2 DEF append
  <2>2. /\ Holds(c, s) /\ writableBytes(c) >= Len(t)
        /\ \/ Len(c.mem) = Len(b.mem)
           \/ Len(c.mem) < 2 * Len(s \o t) + kBufferPrepend
    BY <1>1, <1>2, MakeSpaceHolds
  <2> HIDE DEF c
  <2>3. Len(t) <= writableBytes(c) BY <1>1, <2>2, WellFormedFacts DEF Holds
  <2>4. Holds(copyIn(c, t), s \o t) /\ Len(copyIn(c, t).mem) = Len(c.mem)
    BY <2>2, <2>3, CopyInHolds
  <2> QED BY <2>1, <2>2, <2>4
<1>3. CASE ~(writableBytes(b) < Len(t))
  <2>1. append(b, t) = copyIn(b, t) BY <1>3 DEF append
  <2>2. Len(t) <= writableBytes(b) BY <1>1, <1>3, WellFormedFacts DEF Holds
  <2> QED BY <2>1, <2>2, CopyInHolds
<1> QED BY <1>2, <1>3

LEMMA ReadFdHolds ==
    ASSUME NEW b, NEW s \in Seq(Byte), Holds(b, s), NEW t \in Seq(Byte)
    PROVE  /\ Holds(readFd(b, t), s \o t)
           /\ \/ Len(readFd(b, t).mem) = Len(b.mem)
              \/ Len(readFd(b, t).mem) < 2 * Len(s \o t) + kBufferPrepend
<1> DEFINE k == writableBytes(b)
           t1 == SubSeq(t, 1, k)
           t2 == SubSeq(t, k + 1, Len(t))
<1>1. k \in Nat /\ Len(t) \in Nat BY WellFormedFacts DEF Holds
<1>2. CASE Len(t) <= k
  <2>1. readFd(b, t) = copyIn(b, t) BY <1>2 DEF readFd
  <2> QED BY <1>2, <2>1, CopyInHolds
<1>3. CASE ~(Len(t) <= k)
  <2>1. readFd(b, t) = append(copyIn(b, t1), t2) BY <1>3 DEF readFd
  <2>2. /\ t1 \in Seq(Byte) /\ Len(t1) = k /\ t2 \in Seq(Byte)
    BY <1>1, <1>3
  <2>3. t1 \o t2 = t
    <3>1. k \in 0..Len(t) BY <1>1, <1>3
    <3> QED BY <3>1, SplitSeq
  <2> HIDE DEF t1, t2
  <2>4. (s \o t1) \o t2 = s \o t
    <3>1. t1 \in Seq(Byte) /\ t2 \in Seq(Byte) BY <2>2
    <3>2. (s \o t1) \o t2 = s \o (t1 \o t2) BY <3>1, ConcatAssociative
    <3> QED BY <2>3, <3>2
  <2>5. Holds(copyIn(b, t1), s \o t1) /\ Len(copyIn(b, t1).mem) = Len(b.mem)
    BY <1>1, <2>2, CopyInHolds
  <2>6. s \o t1 \in Seq(Byte) BY <2>2, ConcatProperties
  <2> DEFINE c == copyIn(b, t1)
             u == s \o t1
  <2>7. Holds(c, u) /\ u \in Seq(Byte) BY <2>5, <2>6
  <2>8. /\ Holds(append(c, t2), u \o t2)
        /\ \/ Len(append(c, t2).mem) = Len(c.mem)
           \/ Len(append(c, t2).mem) < 2 * Len(u \o t2) + kBufferPrepend
    <3> HIDE DEF c, u
    <3> QED BY <2>2, <2>7, AppendHolds
  <2> QED BY <2>1, <2>4, <2>5, <2>8
<1> QED BY <1>2, <1>3
-----------------------------------------------------------------------------
(* The inductive invariant: the buffer holds what was put in and not yet   *)
(* taken out, and the most that ever waited is known.                      *)
BufInv ==
    /\ BufferOK /\ Fifo /\ GrowthBounded
    /\ sent \in Seq(Byte) /\ taken \in Seq(Byte)
    /\ peak \in Nat /\ readableBytes(buffer) <= peak

LEMMA InvInit == BufferInit => BufInv
<1> SUFFICES ASSUME BufferInit PROVE BufInv OBVIOUS
<1> DEFINE m == [i \in 1..(kBufferPrepend + kBufferInit) |-> Zero]
<1>1. m \in Seq(Byte) /\ Len(m) = kBufferPrepend + kBufferInit
  <2>1. m \in [1..(kBufferPrepend + kBufferInit) -> Byte] BY BufferAssumption
  <2> HIDE DEF m
  <2> QED BY <2>1, MapIsSeq, BufferAssumption
<1>2. /\ buffer.mem = m /\ buffer.readIdx = kBufferPrepend
      /\ buffer.writeIdx = kBufferPrepend
      /\ buffer \in [mem : Seq(Byte), readIdx : Nat, writeIdx : Nat]
  BY <1>1, BufferAssumption DEF BufferInit, NewBuffer
<1>3. WellFormed(buffer) /\ readableBytes(buffer) = 0
  BY <1>1, <1>2, BufferAssumption DEF WellFormed, readableBytes
<1>4. Holds(buffer, <<>>) BY <1>3 DEF Holds
<1>5. Content(buffer) = <<>> BY <1>4, HoldsContent, EmptySeq
<1>6. Fifo BY <1>5 DEF Fifo, BufferInit
<1>7. GrowthBounded BY <1>1, <1>2 DEF GrowthBounded
<1>8. sent \in Seq(Byte) /\ taken \in Seq(Byte) /\ peak = 0 BY EmptySeq DEF BufferInit
<1> QED BY <1>3, <1>6, <1>7, <1>8 DEF BufInv, BufferOK

(* Any way of putting t in that keeps what waits and obeys the bound on    *)
(* the array.                                                              *)
LEMMA PutsKeeps ==
    ASSUME BufInv, NEW c, NEW t \in Seq(Byte), puts(c, t),
           Holds(c, Content(buffer) \o t),
           \/ Len(c.mem) = Len(buffer.mem)
           \/ Len(c.mem) < 2 * Len(Content(buffer) \o t) + kBufferPrepend
    PROVE  BufInv' /\ Pipe!Put
<1> DEFINE s == Content(buffer)
<1>1. s \in Seq(Byte) /\ s \o t \in Seq(Byte) BY HoldsContent, ConcatProperties DEF BufInv, BufferOK
<1>2. /\ buffer' = c /\ WellFormed(c) /\ readableBytes(c) = Len(s \o t)
      /\ readableBytes(c) \in Nat /\ Len(c.mem) \in Nat
  BY WellFormedFacts DEF puts, Holds
<1>3. Content(c) = s \o t BY <1>1, HoldsContent
<1>4. /\ sent = taken \o s /\ sent' = sent \o t /\ taken' = taken
      /\ sent \in Seq(Byte) /\ taken \in Seq(Byte)
  BY DEF BufInv, Fifo, puts
<1>5. sent' \in Seq(Byte) /\ Len(sent') = Len(sent) + Len(t) BY <1>4, ConcatProperties
<1>6. sent' = taken' \o Content(c)
  <2>1. (taken \o s) \o t = taken \o (s \o t) BY <1>1, <1>4, ConcatAssociative
  <2> QED BY <1>3, <1>4, <2>1
<1>7. /\ peak' \in Nat /\ readableBytes(c) <= peak' /\ peak <= peak'
  BY <1>2 DEF BufInv, puts
<1>8. GrowthBounded'
  <2>1. /\ peak \in Nat /\ Len(buffer.mem) \in Nat
        /\ \/ Len(buffer.mem) = kBufferPrepend + kBufferInit
           \/ Len(buffer.mem) < 2 * peak + kBufferPrepend
    BY WellFormedFacts DEF BufInv, GrowthBounded, BufferOK
  <2>2. \/ Len(c.mem) = kBufferPrepend + kBufferInit
        \/ Len(c.mem) < 2 * peak' + kBufferPrepend
    BY <1>2, <1>7, <2>1, BufferAssumption
  <2> QED BY <1>2, <2>2 DEF GrowthBounded
<1>9. BufInv'
  BY <1>2, <1>4, <1>5, <1>6, <1>7, <1>8 DEF BufInv, BufferOK, Fifo
<1>10. Pipe!Put
  <2>1. SubSeq(sent \o t, 1, Len(sent)) = sent BY <1>4, ConcatSimplifications, SubSeqOfConcat1, SubSeqFull
  <2> QED BY <1>4, <1>5, <2>1 DEF Pipe!Put, Pipe!Prefix
<1> QED BY <1>9, <1>10

LEMMA RetrieveKeeps ==
    ASSUME BufInv, Retrieve
    PROVE  BufInv' /\ Pipe!Take
<1> DEFINE s == Content(buffer)
<1>1. WellFormed(buffer) /\ s \in Seq(Byte) /\ Holds(buffer, s) /\ Len(s) \in Nat
  BY HoldsContent DEF BufInv, BufferOK
<1>2. readableBytes(buffer) = Len(s) BY <1>1 DEF Holds
<1>3. PICK n \in 0..Len(s) :
        /\ buffer' = retrieve(buffer, n)
        /\ taken' = taken \o peek(buffer, n)
        /\ UNCHANGED <<sent, peak>>
  BY <1>2 DEF Retrieve
<1> DEFINE t == SubSeq(s, 1, n)
           u == SubSeq(s, n + 1, Len(s))
<1>4. t \in Seq(Byte) /\ Len(t) = n /\ \A i \in 1..n : t[i] = s[i] BY <1>1
<1>5. u \in Seq(Byte) /\ Len(u) = Len(s) - n BY <1>1
<1>6. t \o u = s BY <1>1, SplitSeq
<1>7. peek(buffer, n) = t
  <2>1. /\ peek(buffer, n) \in Seq(Byte) /\ Len(peek(buffer, n)) = n
        /\ \A i \in 1..n : peek(buffer, n)[i] = buffer.mem[buffer.readIdx + i]
    BY <1>1, <1>2, PeekIsSeq
  <2>2. \A i \in 1..n : peek(buffer, n)[i] = t[i] BY <1>1, <1>4, <2>1 DEF Holds
  <2> HIDE DEF t
  <2> QED BY <1>4, <2>1, <2>2, SeqEqual
<1>8. Holds(buffer', u) BY <1>1, <1>3, RetrieveHolds
<1>9. Content(buffer') = u BY <1>5, <1>8, HoldsContent
<1> HIDE DEF t, u
<1>10. /\ sent = taken \o s /\ taken \in Seq(Byte) /\ sent \in Seq(Byte) /\ peak \in Nat
       /\ Len(s) <= peak
  BY <1>2 DEF BufInv, Fifo
<1>11. /\ taken' = taken \o t /\ taken' \in Seq(Byte) /\ Len(taken') = Len(taken) + n
  BY <1>3, <1>4, <1>7, <1>10, ConcatProperties
<1>12. sent = taken' \o u
  <2>0. taken \in Seq(Byte) /\ t \in Seq(Byte) /\ u \in Seq(Byte) BY <1>4, <1>5, <1>10
  <2>1. (taken \o t) \o u = taken \o (t \o u) BY <2>0, ConcatAssociative
  <2> QED BY <1>6, <1>10, <1>11, <2>1
<1>13. Len(buffer'.mem) = Len(buffer.mem) BY <1>1, <1>3 DEF retrieve, retrieveAll, WellFormed
<1>14. GrowthBounded' BY <1>3, <1>13 DEF BufInv, GrowthBounded
<1>15. /\ WellFormed(buffer') /\ readableBytes(buffer') = Len(s) - n
  BY <1>5, <1>8 DEF Holds
<1>16. BufInv'
  BY <1>1, <1>3, <1>9, <1>10, <1>11, <1>12, <1>14, <1>15 DEF BufInv, BufferOK, Fifo
<1>17. Pipe!Take
  <2>1. SubSeq(taken \o t, 1, Len(taken)) = taken BY <1>4, <1>10
  <2>2. SubSeq(taken' \o u, 1, Len(taken')) = taken' BY <1>5, <1>11
  <2>3. Len(taken) <= Len(taken') /\ Len(taken') <= Len(sent)
    BY <1>1, <1>5, <1>10, <1>11, <1>12, ConcatProperties
  <2> QED BY <1>3, <1>11, <1>12, <2>1, <2>2, <2>3 DEF Pipe!Take, Pipe!Prefix
<1> QED BY <1>16, <1>17

LEMMA StepKeeps ==
    ASSUME BufInv, BufferNext
    PROVE  BufInv' /\ (Pipe!Put \/ Pipe!Take)
<1> DEFINE s == Content(buffer)
<1>1. s \in Seq(Byte) /\ Holds(buffer, s) BY HoldsContent DEF BufInv, BufferOK
<1>2. CASE AppendBytes
  <2>0. PICK n \in 0..Room : \E t \in [1..n -> Byte] : puts(append(buffer, t), t)
    BY <1>2 DEF AppendBytes
  <2>1. PICK t \in [1..n -> Byte] : puts(append(buffer, t), t) BY <2>0
  <2>2. t \in Seq(Byte)
    <3>1. n \in Nat BY BufferAssumption, LenProperties DEF Room, BufInv
    <3> QED BY <3>1, MapIsSeq
  <2>3. /\ Holds(append(buffer, t), s \o t)
        /\ \/ Len(append(buffer, t).mem) = Len(buffer.mem)
           \/ Len(append(buffer, t).mem) < 2 * Len(s \o t) + kBufferPrepend
    BY <1>1, <2>2, AppendHolds
  <2> QED BY <2>1, <2>2, <2>3, PutsKeeps
<1>3. CASE ReadFd
  <2>0. PICK n \in 1..Room : \E t \in [1..n -> Byte] : puts(readFd(buffer, t), t)
    BY <1>3 DEF ReadFd
  <2>1. PICK t \in [1..n -> Byte] : puts(readFd(buffer, t), t) BY <2>0
  <2>2. t \in Seq(Byte)
    <3>1. n \in Nat BY BufferAssumption, LenProperties DEF Room, BufInv
    <3> QED BY <3>1, MapIsSeq
  <2>3. /\ Holds(readFd(buffer, t), s \o t)
        /\ \/ Len(readFd(buffer, t).mem) = Len(buffer.mem)
           \/ Len(readFd(buffer, t).mem) < 2 * Len(s \o t) + kBufferPrepend
    BY <1>1, <2>2, ReadFdHolds
  <2> QED BY <2>1, <2>2, <2>3, PutsKeeps
<1>4. CASE Retrieve BY <1>4, RetrieveKeeps
<1> QED BY <1>2, <1>3, <1>4 DEF BufferNext

(* The buffer's indices, contents and size stay consistent with what was   *)
(* put into it and taken from it.                                          *)
THEOREM InvHolds == BufferSpec => []BufInv
<1>1. BufInv /\ UNCHANGED bvars => BufInv'
  BY DEF BufInv, BufferOK, Fifo, GrowthBounded, bvars
<1>2. BufInv /\ [BufferNext]_bvars => BufInv' BY <1>1, StepKeeps
<1> QED BY <1>2, InvInit, PTL DEF BufferSpec
-----------------------------------------------------------------------------
(* No index of the buffer ever leaves its array, whatever its sizes and    *)
(* whatever is read, appended and retrieved.                               *)
THEOREM BufferStaysInBounds == BufferSpec => []BufferOK
<1>1. BufInv => BufferOK BY DEF BufInv
<1> QED BY <1>1, InvHolds, PTL

(* The array of a connection's buffer is bounded by the most that ever     *)
(* waited in it, not by what went through it.                              *)
THEOREM BufferGrowthIsBounded == BufferSpec => []GrowthBounded
<1>1. BufInv => GrowthBounded BY DEF BufInv
<1> QED BY <1>1, InvHolds, PTL

(* The buffer implements the pipe: bytes come out as they went in.         *)
THEOREM BufferImplementsPipe == BufferSpec => IsPipe
<1>1. BufferInit => Pipe!PipeInit BY DEF BufferInit, Pipe!PipeInit
<1>2. BufInv /\ [BufferNext]_bvars => [Pipe!Put \/ Pipe!Take]_(Pipe!pipeVars)
  <2>1. UNCHANGED bvars => UNCHANGED Pipe!pipeVars BY DEF bvars, Pipe!pipeVars
  <2> QED BY <2>1, StepKeeps
<1> QED BY <1>1, <1>2, InvHolds, PTL DEF BufferSpec, IsPipe, Pipe!PipeSpec
-----------------------------------------------------------------------------
(* The event loop.  Waiting are the functions not yet run, in their order; *)
(* Spent are the timers whose insertion lies behind them: those the loop   *)
(* keeps, those that fired, and those it has finished with after a cancel. *)
Waiting == fns \o pending
Kept == heap \cup expired \cup {running}
Spent == Kept \cup {t \in Timers : fired[t] > 0} \cup (dead \ canceled)

(* What waits was asked for, and a timer has one insertion, or none if it  *)
(* is one of out.                                                          *)
QueueOK(q, m, a, out) ==
    /\ q \in Seq(Closures)
    /\ \A i \in 1..Len(q) :
          /\ q[i].op = "run" => q[i].id \in a
          /\ q[i].op # "run" => q[i].id \in m
          /\ q[i].op = "insert" => q[i].id \notin out
          /\ \A j \in 1..Len(q) :
                q[i].op = "insert" /\ q[j].op = "insert" /\ q[i].id = q[j].id => i = j

SetsInv ==
    /\ made \subseteq Timers /\ asked \subseteq Functions
    /\ heap \subseteq made /\ expired \subseteq made /\ running \in made \cup {Nobody}
    /\ cbs \subseteq made /\ canceled \subseteq made /\ dead \subseteq made
    /\ ran \subseteq asked

ClockInv ==
    /\ now \in Nat /\ since \in 0..now /\ when \in [Timers -> Nat]

PlaceInv ==
    /\ pc \in Places /\ after \in Handling \cup {"poll"}
    /\ pc \notin {"timers", "timerCb"} => expired = {}
    /\ running \in Timers \cup {Nobody}
    /\ running = Nobody <=> pc # "timerCb"
    /\ pc \notin {"fns", "fn"} => fns = <<>>

TimerInv ==
    /\ fired \in [Timers -> 0..2]
    /\ expired \cap heap = {} /\ running \notin heap \cup expired
    /\ \A t \in Timers : fired[t] > 0 => t \in made
    /\ \A t \in Timers : fired[t] > 0 /\ Interval[t] = 0 =>
          fired[t] = 1 /\ t \notin heap \cup expired
    /\ \A t \in dead \ canceled : t \notin Kept

QueueInv ==
    /\ fns \in Seq(Closures) /\ pending \in Seq(Closures)
    /\ QueueOK(Waiting, made, asked, Spent)

LoopInv == SetsInv /\ ClockInv /\ PlaceInv /\ TimerInv /\ QueueInv

LEMMA ClosureFacts ==
    ASSUME NEW c \in Closures
    PROVE  /\ c.op \in {"insert", "cancel", "run"}
           /\ c.op = "run" => c.id \in Functions
           /\ c.op # "run" => c.id \in Timers
BY DEF Closures

LEMMA QueueStands ==
    ASSUME NEW q, NEW m, NEW a, NEW out, QueueOK(q, m, a, out),
           NEW m2, m \subseteq m2, NEW a2, a \subseteq a2,
           NEW out2, \A x \in out2 : x \in out \/ x \notin m
    PROVE  QueueOK(q, m2, a2, out2)
BY DEF QueueOK

LEMMA QueueRun ==
    ASSUME NEW q, NEW m, NEW a, NEW out, QueueOK(q, m, a, out), q # <<>>,
           NEW out2,
           \A x \in out2 : x \in out \/ (Head(q).op = "insert" /\ x = Head(q).id)
    PROVE  QueueOK(Tail(q), m, a, out2)
<1>1. /\ q \in Seq(Closures) /\ Tail(q) \in Seq(Closures) /\ Len(Tail(q)) = Len(q) - 1
      /\ Len(q) \in Nat /\ Len(q) > 0 /\ Head(q) = q[1]
      /\ \A i \in 1..Len(Tail(q)) : Tail(q)[i] = q[i + 1]
  BY HeadTailProperties, LenProperties, EmptySeq DEF QueueOK
<1>2. ASSUME NEW i \in 1..Len(Tail(q))
      PROVE  i + 1 \in 1..Len(q) /\ i + 1 # 1 /\ Tail(q)[i] = q[i + 1]
  BY <1>1
<1>3. 1 \in 1..Len(q) BY <1>1
<1>4. ASSUME NEW i \in 1..Len(Tail(q)), Tail(q)[i].op = "insert"
      PROVE  Tail(q)[i].id \notin out2
  BY <1>1, <1>2, <1>3, <1>4 DEF QueueOK
<1>5. ASSUME NEW i \in 1..Len(Tail(q)), NEW j \in 1..Len(Tail(q)),
             Tail(q)[i].op = "insert", Tail(q)[j].op = "insert", Tail(q)[i].id = Tail(q)[j].id
      PROVE  i = j
  <2>1. i + 1 = j + 1 BY <1>2, <1>5 DEF QueueOK
  <2> QED BY <2>1
<1>6. ASSUME NEW i \in 1..Len(Tail(q))
      PROVE  /\ Tail(q)[i].op = "run" => Tail(q)[i].id \in a
             /\ Tail(q)[i].op # "run" => Tail(q)[i].id \in m
  BY <1>2 DEF QueueOK
<1> QED BY <1>1, <1>4, <1>5, <1>6 DEF QueueOK

LEMMA QueuePush ==
    ASSUME NEW q, NEW m, NEW a, NEW out, QueueOK(q, m, a, out),
           NEW m2, m \subseteq m2, NEW a2, a \subseteq a2, NEW out2, out2 \subseteq out,
           NEW c \in Closures, c.op = "run" => c.id \in a2, c.op # "run" => c.id \in m2,
           c.op = "insert" => c.id \notin m /\ c.id \notin out2
    PROVE  QueueOK(Append(q, c), m2, a2, out2)
<1> DEFINE p == Append(q, c)
<1>1. /\ q \in Seq(Closures) /\ p \in Seq(Closures) /\ Len(p) = Len(q) + 1 /\ Len(q) \in Nat
      /\ \A i \in 1..Len(q) : p[i] = q[i]
      /\ p[Len(q) + 1] = c
  BY AppendProperties, LenProperties DEF QueueOK
<1> HIDE DEF p
<1>2. ASSUME NEW i \in 1..Len(p)
      PROVE  (i \in 1..Len(q) /\ p[i] = q[i]) \/ (i = Len(q) + 1 /\ p[i] = c)
  BY <1>1
<1>3. ASSUME NEW i \in 1..Len(p)
      PROVE  /\ p[i].op = "run" => p[i].id \in a2
             /\ p[i].op # "run" => p[i].id \in m2
             /\ p[i].op = "insert" => p[i].id \notin out2
  BY <1>2 DEF QueueOK
<1>4. ASSUME NEW i \in 1..Len(p), NEW j \in 1..Len(p),
             p[i].op = "insert", p[j].op = "insert", p[i].id = p[j].id
      PROVE  i = j
  BY <1>2, <1>4 DEF QueueOK
<1>5. QueueOK(p, m2, a2, out2) BY <1>1, <1>3, <1>4 DEF QueueOK
<1> QED BY <1>5 DEF p

LEMMA WaitingRun ==
    ASSUME fns \in Seq(Closures), pending \in Seq(Closures), fns # <<>>
    PROVE  /\ Waiting # <<>> /\ Head(Waiting) = Head(fns)
           /\ Tail(fns) \o pending = Tail(Waiting)
<1>1. /\ Waiting \in Seq(Closures) /\ Len(Waiting) = Len(fns) + Len(pending)
      /\ \A i \in 1..Len(fns) + Len(pending) :
            Waiting[i] = IF i <= Len(fns) THEN fns[i] ELSE pending[i - Len(fns)]
  BY ConcatProperties DEF Waiting
<1>2. /\ Len(fns) \in Nat /\ Len(fns) > 0 /\ Len(pending) \in Nat
      /\ Tail(fns) \in Seq(Closures) /\ Len(Tail(fns)) = Len(fns) - 1
      /\ \A i \in 1..Len(Tail(fns)) : Tail(fns)[i] = fns[i + 1]
  BY LenProperties, EmptySeq, HeadTailProperties
<1>3. Waiting # <<>> BY <1>1, <1>2, EmptySeq
<1>4. Head(Waiting) = Waiting[1] /\ Head(fns) = fns[1] /\ Waiting[1] = fns[1]
  BY <1>1, <1>2
<1>5. /\ Tail(Waiting) \in Seq(Closures) /\ Len(Tail(Waiting)) = Len(Waiting) - 1
      /\ \A i \in 1..Len(Tail(Waiting)) : Tail(Waiting)[i] = Waiting[i + 1]
  BY <1>1, <1>3, HeadTailProperties
<1> DEFINE w == Tail(fns) \o pending
<1>6. /\ w \in Seq(Closures) /\ Len(w) = Len(Tail(fns)) + Len(pending)
      /\ \A i \in 1..Len(Tail(fns)) + Len(pending) :
            w[i] = IF i <= Len(Tail(fns)) THEN Tail(fns)[i] ELSE pending[i - Len(Tail(fns))]
  BY <1>2, ConcatProperties
<1> HIDE DEF w
<1>7. Len(w) = Len(Tail(Waiting)) BY <1>1, <1>2, <1>5, <1>6
<1>8. ASSUME NEW i \in 1..Len(w) PROVE w[i] = Tail(Waiting)[i]
  <2>1. Tail(Waiting)[i] = Waiting[i + 1] /\ i + 1 \in 1..Len(Waiting)
    BY <1>1, <1>2, <1>5, <1>6, <1>7
  <2>2. CASE i <= Len(Tail(fns))
    <3>1. w[i] = fns[i + 1] BY <1>2, <1>6, <2>2
    <3>2. Waiting[i + 1] = fns[i + 1] BY <1>1, <1>2, <2>1, <2>2
    <3> QED BY <2>1, <3>1, <3>2
  <2>3. CASE i > Len(Tail(fns))
    <3>1. w[i] = pending[i - Len(Tail(fns))] BY <1>2, <1>6, <2>3
    <3>2. Waiting[i + 1] = pending[i + 1 - Len(fns)] BY <1>1, <1>2, <2>1, <2>3
    <3>3. i + 1 - Len(fns) = i - Len(Tail(fns)) BY <1>2
    <3> QED BY <2>1, <3>1, <3>2, <3>3
  <2>4. Len(Tail(fns)) \in Nat /\ i \in Int BY <1>2
  <2>5. i <= Len(Tail(fns)) \/ i > Len(Tail(fns)) BY <2>4
  <2> QED BY <2>2, <2>3, <2>5
<1>9. w = Tail(Waiting) BY <1>5, <1>6, <1>7, <1>8, SeqEqual
<1> QED BY <1>3, <1>4, <1>9 DEF w

LEMMA WaitingPush ==
    ASSUME fns \in Seq(Closures), pending \in Seq(Closures), NEW c \in Closures
    PROVE  fns \o Append(pending, c) = Append(Waiting, c)
<1>1. <<c>> \in Seq(Closures) OBVIOUS
<1>2. Append(pending, c) = pending \o <<c>> BY AppendIsConcat
<1>3. Waiting \in Seq(Closures) BY ConcatProperties DEF Waiting
<1>4. Append(Waiting, c) = Waiting \o <<c>> BY <1>3, AppendIsConcat
<1> QED BY <1>1, <1>2, <1>4, ConcatAssociative DEF Waiting

LEMMA LoopInvInit == EInit => LoopInv
<1> SUFFICES ASSUME EInit PROVE LoopInv OBVIOUS
<1> USE DEF EInit
<1>1. SetsInv BY DEF SetsInv
<1>2. ClockInv BY DEF ClockInv
<1>3. PlaceInv BY DEF PlaceInv, Places, Handling
<1>4. TimerInv BY LoopAssumption DEF TimerInv, Kept
<1>5. QueueInv
  <2>1. Waiting = <<>> BY EmptySeq, ConcatEmptySeq DEF Waiting
  <2> QED BY <2>1, EmptySeq DEF QueueInv, QueueOK
<1> QED BY <1>1, <1>2, <1>3, <1>4, <1>5 DEF LoopInv

(* The steps, by what they do to the timers.                               *)
LEMMA LoopCases ==
    ASSUME [ENext]_evars, NEW ACTION P,
           top => P, pollReturns \/ handleWakeup => P, handleTimerExpired => P, doPending => P,
           runFn => P, endFn => P, fnsDone => P, timersDone => P, endTimerCb => P, callQuit => P, tick => P,
           \A t \in Timers : skipCancelled(t) \/ fire(t) \/ cancel(t) \/ runAfter(t) => P,
           \A f \in Functions : queueInLoop(f) => P,
           \A th \in Threads : wakeUp(th) => P,
           \A th \in Threads, t \in Timers : remoteCancel(th, t) \/ remoteRunAfter(th, t) => P,
           \A th \in Threads, f \in Functions : remoteQueue(th, f) => P,
           UNCHANGED evars => P
    PROVE  P
BY DEF ENext, LoopStep, UserStep, ThreadStep, pollWakes

LEMMA SetsStep ==
    ASSUME LoopInv, [ENext]_evars
    PROVE  SetsInv'
<1> USE DEF SetsInv
<1>0. SetsInv /\ Nobody \notin Timers /\ (running = Nobody <=> pc # "timerCb")
  BY LoopAssumption DEF LoopInv, PlaceInv
<1>1. top => SetsInv' BY <1>0 DEF top, collect, Due, timerVars, batchVars, queueVars
<1>2. pollReturns \/ handleWakeup => SetsInv'
  BY <1>0 DEF pollReturns, handleWakeup, timerVars, batchVars, queueVars
<1>3. handleTimerExpired => SetsInv' BY <1>0 DEF handleTimerExpired, collect, Due
<1>4. doPending => SetsInv' BY <1>0 DEF doPending, timerVars, batchVars
<1>5. ASSUME runFn PROVE SetsInv'
  <2> DEFINE f == Head(fns)
  <2>1. fns \in Seq(Closures) /\ fns # <<>> /\ pending \in Seq(Closures)
        /\ QueueOK(Waiting, made, asked, Spent)
    BY <1>5 DEF LoopInv, QueueInv, runFn
  <2>2. Waiting \in Seq(Closures) /\ Waiting # <<>> /\ Head(Waiting) = f
    BY <2>1, WaitingRun DEF QueueOK
  <2>3. Len(Waiting) \in Nat /\ Len(Waiting) > 0 /\ f = Waiting[1]
    BY <2>2, EmptySeq
  <2>4. f.op = "run" => f.id \in asked BY <2>1, <2>3 DEF QueueOK
  <2>5. f.op # "run" => f.id \in made BY <2>1, <2>3 DEF QueueOK
  <2> HIDE DEF f
  <2>6. CASE f.op = "insert" /\ insertTimer(f.id) /\ UNCHANGED <<pc, ran>>
    BY <1>0, <1>5, <2>5, <2>6 DEF runFn, insertTimer, batchVars, queueVars
  <2>7. CASE f.op = "cancel" /\ cancelInLoop(f.id) /\ UNCHANGED <<pc, ran>>
    BY <1>0, <1>5, <2>5, <2>7 DEF runFn, cancelInLoop, batchVars, queueVars
  <2>8. CASE f.op = "run" /\ ran' = ran \cup {f.id} /\ UNCHANGED timerVars
    BY <1>0, <1>5, <2>4, <2>8 DEF runFn, timerVars, batchVars, queueVars
  <2> QED BY <1>5, <2>6, <2>7, <2>8 DEF runFn, f
<1>6. endFn => SetsInv' BY <1>0 DEF endFn, timerVars, batchVars, queueVars
<1>7. fnsDone => SetsInv' BY <1>0 DEF fnsDone, timerVars, batchVars, queueVars
<1>8. timersDone => SetsInv' BY <1>0 DEF timersDone, timerVars, batchVars, queueVars
<1>9. endTimerCb => SetsInv' BY <1>0 DEF endTimerCb, queueVars
<1>10. callQuit => SetsInv' BY <1>0 DEF callQuit, timerVars, batchVars
<1>11. tick => SetsInv' BY <1>0 DEF tick, timerVars, batchVars, queueVars
<1>12. \A t \in Timers : skipCancelled(t) \/ fire(t) \/ cancel(t) \/ runAfter(t) => SetsInv'
  BY <1>0 DEF skipCancelled, fire, cancel, runAfter, cancelInLoop, First, batchVars, queueVars
<1>13. \A f \in Functions : queueInLoop(f) => SetsInv'
  BY <1>0 DEF queueInLoop, timerVars, batchVars
<1>14. \A th \in Threads : wakeUp(th) => SetsInv'
  BY <1>0 DEF wakeUp, timerVars, batchVars
<1>15. \A th \in Threads, t \in Timers : remoteCancel(th, t) \/ remoteRunAfter(th, t) => SetsInv'
  BY <1>0 DEF remoteCancel, remoteRunAfter, push, batchVars
<1>16. \A th \in Threads, f \in Functions : remoteQueue(th, f) => SetsInv'
  BY <1>0 DEF remoteQueue, push, batchVars
<1>17. UNCHANGED evars => SetsInv' BY <1>0 DEF evars
<1> HIDE DEF SetsInv
<1> QED
  BY <1>1, <1>2, <1>3, <1>4, <1>5, <1>6, <1>7, <1>8, <1>9, <1>10, <1>11, <1>12, <1>13, <1>14,
     <1>15, <1>16, <1>17, LoopCases

LEMMA ClockStep ==
    ASSUME LoopInv, [ENext]_evars
    PROVE  ClockInv'
<1> USE DEF ClockInv
<1>0. /\ ClockInv /\ Interval \in [Timers -> Nat] /\ Delay \in [Timers -> Nat]
      /\ running \in Timers \cup {Nobody} /\ (running = Nobody <=> pc # "timerCb")
  BY LoopAssumption DEF LoopInv, PlaceInv
<1>1. top => ClockInv' BY <1>0 DEF top, collect, timerVars, batchVars
<1>2. pollReturns \/ handleWakeup => ClockInv'
  BY <1>0 DEF pollReturns, handleWakeup, timerVars, batchVars, queueVars
<1>3. handleTimerExpired => ClockInv' BY <1>0 DEF handleTimerExpired, collect
<1>4. doPending => ClockInv' BY <1>0 DEF doPending, timerVars, batchVars
<1>5. runFn => ClockInv' BY <1>0 DEF runFn, insertTimer, cancelInLoop, timerVars, batchVars
<1>6. endFn => ClockInv' BY <1>0 DEF endFn, timerVars, batchVars
<1>7. fnsDone => ClockInv' BY <1>0 DEF fnsDone, timerVars, batchVars
<1>8. timersDone => ClockInv' BY <1>0 DEF timersDone, timerVars, batchVars
<1>9. endTimerCb => ClockInv' BY <1>0 DEF endTimerCb
<1>10. callQuit => ClockInv' BY <1>0 DEF callQuit, timerVars, batchVars
<1>11. tick => ClockInv' BY <1>0 DEF tick, timerVars, batchVars
<1>12. \A t \in Timers : skipCancelled(t) \/ fire(t) \/ cancel(t) \/ runAfter(t) => ClockInv'
  BY <1>0 DEF skipCancelled, fire, cancel, runAfter, cancelInLoop, batchVars
<1>13. \A f \in Functions : queueInLoop(f) => ClockInv'
  BY <1>0 DEF queueInLoop, timerVars, batchVars
<1>14. \A th \in Threads : wakeUp(th) => ClockInv'
  BY <1>0 DEF wakeUp, timerVars, batchVars
<1>15. \A th \in Threads, t \in Timers : remoteCancel(th, t) \/ remoteRunAfter(th, t) => ClockInv'
  BY <1>0 DEF remoteCancel, remoteRunAfter, push, batchVars
<1>16. \A th \in Threads, f \in Functions : remoteQueue(th, f) => ClockInv'
  BY <1>0 DEF remoteQueue, push, batchVars
<1>17. UNCHANGED evars => ClockInv' BY <1>0 DEF evars
<1> HIDE DEF ClockInv
<1> QED
  BY <1>1, <1>2, <1>3, <1>4, <1>5, <1>6, <1>7, <1>8, <1>9, <1>10, <1>11, <1>12, <1>13, <1>14,
     <1>15, <1>16, <1>17, LoopCases

LEMMA PlaceStep ==
    ASSUME LoopInv, [ENext]_evars
    PROVE  PlaceInv'
<1> USE DEF PlaceInv, Handling
<1>0. PlaceInv /\ Nobody \notin Timers
  BY LoopAssumption DEF LoopInv
<1>1. top => PlaceInv' BY <1>0 DEF top, collect, Places, timerVars, batchVars, queueVars
<1>2. pollReturns \/ handleWakeup => PlaceInv'
  BY <1>0 DEF pollReturns, handleWakeup, Places, timerVars, batchVars
<1>3. handleTimerExpired => PlaceInv' BY <1>0 DEF handleTimerExpired, collect, Places
<1>4. doPending => PlaceInv' BY <1>0 DEF doPending, Places, timerVars, batchVars
<1>5. runFn => PlaceInv' BY <1>0 DEF runFn, Places, batchVars
<1>6. endFn => PlaceInv' BY <1>0 DEF endFn, Places, timerVars, batchVars
<1>7. fnsDone => PlaceInv' BY <1>0 DEF fnsDone, Places, timerVars, batchVars
<1>8. timersDone => PlaceInv' BY <1>0 DEF timersDone, Places, timerVars, batchVars
<1>9. endTimerCb => PlaceInv' BY <1>0 DEF endTimerCb, Places
<1>10. callQuit => PlaceInv' BY <1>0 DEF callQuit, timerVars, batchVars
<1>11. tick => PlaceInv' BY <1>0 DEF tick, timerVars, batchVars
<1>12. \A t \in Timers : skipCancelled(t) \/ fire(t) \/ cancel(t) \/ runAfter(t) => PlaceInv'
  BY <1>0 DEF skipCancelled, fire, cancel, runAfter, cancelInLoop, First, Places, batchVars
<1>13. \A f \in Functions : queueInLoop(f) => PlaceInv'
  BY <1>0 DEF queueInLoop, timerVars, batchVars
<1>14. \A th \in Threads : wakeUp(th) => PlaceInv'
  BY <1>0 DEF wakeUp, timerVars, batchVars
<1>15. \A th \in Threads, t \in Timers : remoteCancel(th, t) \/ remoteRunAfter(th, t) => PlaceInv'
  BY <1>0 DEF remoteCancel, remoteRunAfter, push, batchVars
<1>16. \A th \in Threads, f \in Functions : remoteQueue(th, f) => PlaceInv'
  BY <1>0 DEF remoteQueue, push, batchVars
<1>17. UNCHANGED evars => PlaceInv' BY <1>0 DEF evars
<1> HIDE DEF PlaceInv
<1> QED
  BY <1>1, <1>2, <1>3, <1>4, <1>5, <1>6, <1>7, <1>8, <1>9, <1>10, <1>11, <1>12, <1>13, <1>14,
     <1>15, <1>16, <1>17, LoopCases

(* What runFn takes from the queue: a timer it inserts is not spent.       *)
LEMMA NextFn ==
    ASSUME LoopInv, runFn
    PROVE  /\ Head(fns) \in Closures
           /\ Head(fns).op # "run" => Head(fns).id \in made
           /\ Head(fns).op = "insert" => Head(fns).id \notin Spent
<1>1. /\ fns \in Seq(Closures) /\ fns # <<>> /\ pending \in Seq(Closures)
      /\ QueueOK(Waiting, made, asked, Spent)
  BY DEF LoopInv, QueueInv, runFn
<1>2. Waiting \in Seq(Closures) /\ Waiting # <<>> /\ Head(Waiting) = Head(fns)
  BY <1>1, WaitingRun DEF QueueOK
<1>3. Len(Waiting) \in Nat /\ Len(Waiting) > 0 /\ Head(fns) = Waiting[1]
  BY <1>2, EmptySeq
<1>4. 1 \in 1..Len(Waiting) BY <1>3
<1>5. Head(fns) \in Closures BY <1>1, HeadTailProperties
<1> QED BY <1>1, <1>3, <1>4, <1>5 DEF QueueOK

LEMMA TimerStep ==
    ASSUME LoopInv, [ENext]_evars
    PROVE  TimerInv'
<1> USE DEF TimerInv, Kept
<1>0. /\ TimerInv /\ Interval \in [Timers -> Nat] /\ Nobody \notin Timers
      /\ made \subseteq Timers /\ heap \subseteq Timers /\ expired \subseteq Timers
      /\ running \in Timers \cup {Nobody} /\ dead \subseteq made
  BY LoopAssumption DEF LoopInv, SetsInv, PlaceInv
<1>p. /\ pc \notin {"timers", "timerCb"} => expired = {}
      /\ running = Nobody <=> pc # "timerCb"
      /\ heap \subseteq made /\ expired \subseteq made
  BY LoopAssumption DEF LoopInv, SetsInv, PlaceInv
<1>1. top => TimerInv' BY <1>0, <1>p DEF top, collect, Due, timerVars, batchVars
<1>2. pollReturns \/ handleWakeup => TimerInv'
  BY <1>0 DEF pollReturns, handleWakeup, timerVars, batchVars, queueVars
<1>3. handleTimerExpired => TimerInv' BY <1>0, <1>p DEF handleTimerExpired, collect, Due
<1>4. doPending => TimerInv' BY <1>0 DEF doPending, timerVars, batchVars
<1>5. ASSUME runFn PROVE TimerInv'
  <2> DEFINE f == Head(fns)
  <2>1. f.op = "insert" => f.id \notin Spent BY <1>5, NextFn
  <2>2. f.op # "run" => f.id \in Timers BY <1>5, <1>0, NextFn
  <2>3. expired = {} /\ running = Nobody BY <1>5, <1>p DEF runFn
  <2> HIDE DEF f
  <2>6. CASE f.op = "insert" /\ insertTimer(f.id)
    <3>1. f.id \notin heap /\ f.id \notin dead \ canceled /\ ~(fired[f.id] > 0) /\ f.id \in Timers
      BY <2>1, <2>2, <2>6 DEF Spent
    <3>2. f.id # Nobody BY <1>0, <3>1
    <3> QED BY <1>0, <1>5, <2>3, <2>6, <3>1, <3>2 DEF runFn, insertTimer, batchVars
  <2>7. CASE f.op = "cancel" /\ cancelInLoop(f.id)
    BY <1>0, <1>5, <2>7, NextFn DEF runFn, cancelInLoop, batchVars, f
  <2>8. CASE UNCHANGED timerVars
    BY <1>0, <1>5, <2>8 DEF runFn, timerVars, batchVars, queueVars
  <2> QED BY <1>5, <2>6, <2>7, <2>8 DEF runFn, f
<1>6. endFn => TimerInv' BY <1>0 DEF endFn, timerVars, batchVars
<1>7. fnsDone => TimerInv' BY <1>0 DEF fnsDone, timerVars, batchVars
<1>8. timersDone => TimerInv' BY <1>0 DEF timersDone, timerVars, batchVars
<1>9. ASSUME endTimerCb PROVE TimerInv'
  <2>1. running \in Timers /\ running' = Nobody BY <1>0, <1>p, <1>9 DEF endTimerCb
  <2>2. UNCHANGED <<canceled, fired, dead, expired, made>> BY <1>9 DEF endTimerCb
  <2>3. CASE heap' = heap \cup {running} /\ Interval[running] > 0
    BY <1>0, <2>1, <2>2, <2>3
  <2>4. CASE heap' = heap BY <1>0, <2>1, <2>2, <2>4
  <2> QED BY <1>9, <2>3, <2>4 DEF endTimerCb, rearms
<1>10. callQuit => TimerInv' BY <1>0 DEF callQuit, timerVars, batchVars
<1>11. tick => TimerInv' BY <1>0 DEF tick, timerVars, batchVars
<1>12. ASSUME NEW t \in Timers PROVE skipCancelled(t) \/ fire(t) \/ cancel(t) \/ runAfter(t) => TimerInv'
  <2>1. CASE skipCancelled(t) BY <1>0, <1>p, <2>1 DEF skipCancelled, First
  <2>2. ASSUME fire(t) PROVE TimerInv'
    <3>1. /\ fired' = [fired EXCEPT ![t] = IF t \in cbs /\ @ < 2 THEN @ + 1 ELSE @]
          /\ expired' = expired \ {t} /\ running' = t /\ t \in expired /\ t \notin canceled
          /\ UNCHANGED <<heap, canceled, dead, made>> /\ running = Nobody
      BY <1>p, <2>2 DEF fire, First
    <3>2. fired[t] \in 0..2 /\ fired'[t] \in 0..2 /\ fired' \in [Timers -> 0..2] BY <1>0, <3>1
    <3>3. \A u \in Timers \ {t} : fired'[u] = fired[u] BY <1>0, <3>1
    <3>4. fired'[t] = fired[t] \/ fired'[t] = fired[t] + 1 BY <1>0, <3>1
    <3>5. Interval[t] = 0 => fired[t] = 0 BY <1>0, <3>1, <3>2
    <3>6. t \notin dead /\ t \in made BY <1>0, <1>p, <3>1
    <3>7. \A u \in Timers : fired'[u] > 0 => u \in made' BY <1>0, <3>1, <3>3, <3>6
    <3>8. \A u \in Timers : fired'[u] > 0 /\ Interval[u] = 0 =>
            fired'[u] = 1 /\ u \notin heap' \cup expired'
      BY <1>0, <3>1, <3>2, <3>3, <3>4, <3>5
    <3>9. \A u \in dead' \ canceled' : u \notin heap' \cup expired' \cup {running'}
      BY <1>0, <3>1, <3>6
    <3>10. expired' \cap heap' = {} /\ running' \notin heap' \cup expired' BY <1>0, <3>1
    <3> QED BY <3>2, <3>7, <3>8, <3>9, <3>10
  <2>3. CASE cancel(t) BY <1>0, <2>3 DEF cancel, cancelInLoop, batchVars
  <2>4. CASE runAfter(t)
    <3>1. t \notin made /\ made' = made \cup {t} /\ heap' = heap \cup {t}
      BY <2>4 DEF runAfter
    <3>2. UNCHANGED <<expired, running, fired, dead, canceled>> BY <2>4 DEF runAfter, batchVars
    <3>3. ~(fired[t] > 0) /\ t \notin expired /\ t \notin dead BY <1>0, <1>p, <3>1
    <3>4. t # running BY <3>1, <1>0 DEF LoopInv, SetsInv
    <3> QED BY <1>0, <3>1, <3>2, <3>3, <3>4
  <2> QED BY <2>1, <2>2, <2>3, <2>4
<1>13. \A f \in Functions : queueInLoop(f) => TimerInv'
  BY <1>0 DEF queueInLoop, timerVars, batchVars
<1>14. \A th \in Threads : wakeUp(th) => TimerInv'
  BY <1>0 DEF wakeUp, timerVars, batchVars
<1>15. \A th \in Threads, t \in Timers : remoteCancel(th, t) \/ remoteRunAfter(th, t) => TimerInv'
  BY <1>0 DEF remoteCancel, remoteRunAfter, push, batchVars
<1>16. \A th \in Threads, f \in Functions : remoteQueue(th, f) => TimerInv'
  BY <1>0 DEF remoteQueue, push, batchVars
<1>17. UNCHANGED evars => TimerInv' BY <1>0 DEF evars
<1> HIDE DEF TimerInv
<1> QED
  BY <1>1, <1>2, <1>3, <1>4, <1>5, <1>6, <1>7, <1>8, <1>9, <1>10, <1>11, <1>12, <1>13, <1>14,
     <1>15, <1>16, <1>17, LoopCases

(* A step that leaves the queue alone keeps what is said of it, if the     *)
(* timers it makes spent were spent, or not made.                          *)
LEMMA QueueAlone ==
    ASSUME LoopInv, fns' = fns, pending' = pending,
           made \subseteq made', asked \subseteq asked',
           \A t \in Spent' : t \in Spent \/ t \notin made
    PROVE  QueueInv'
<1>1. QueueOK(Waiting, made, asked, Spent) BY DEF LoopInv, QueueInv
<1>2. QueueOK(Waiting, made', asked', Spent') BY <1>1, QueueStands
<1>3. Waiting' = Waiting BY DEF Waiting
<1> QED BY <1>2, <1>3 DEF LoopInv, QueueInv

(* So does one that adds a function to it.                                 *)
LEMMA QueueGrows ==
    ASSUME LoopInv, NEW c \in Closures, fns' = fns, pending' = Append(pending, c),
           made \subseteq made', asked \subseteq asked', Spent' = Spent,
           c.op = "run" => c.id \in asked', c.op # "run" => c.id \in made',
           c.op = "insert" => c.id \notin made /\ c.id \notin Spent'
    PROVE  QueueInv'
<1>1. QueueOK(Waiting, made, asked, Spent) /\ fns \in Seq(Closures) /\ pending \in Seq(Closures)
  BY DEF LoopInv, QueueInv
<1>2. QueueOK(Append(Waiting, c), made', asked', Spent') BY <1>1, QueuePush
<1>3. Waiting' = Append(Waiting, c) BY <1>1, WaitingPush DEF Waiting
<1>4. fns' \in Seq(Closures) /\ pending' \in Seq(Closures) BY <1>1, AppendProperties
<1> QED BY <1>2, <1>3, <1>4 DEF QueueInv

LEMMA QueueStep ==
    ASSUME LoopInv, [ENext]_evars
    PROVE  QueueInv'
<1> USE DEF Spent, Kept
<1>0. /\ Nobody \notin Timers /\ TimerInv /\ SetsInv /\ PlaceInv /\ QueueInv
      /\ running = Nobody <=> pc # "timerCb"
  BY LoopAssumption DEF LoopInv, PlaceInv
<1>1. ASSUME top PROVE QueueInv'
  <2>1. UNCHANGED <<fns, pending, made, asked, fired, dead, canceled, running>>
    BY <1>1 DEF top, collect, timerVars, batchVars, queueVars
  <2>2. heap' \cup expired' \subseteq heap \cup expired
    BY <1>1 DEF top, collect, Due, timerVars, batchVars
  <2> QED BY <2>1, <2>2, QueueAlone
<1>2. pollReturns \/ handleWakeup => QueueInv'
  BY QueueAlone DEF pollReturns, handleWakeup, timerVars, batchVars, queueVars
<1>3. ASSUME handleTimerExpired PROVE QueueInv'
  <2>1. UNCHANGED <<fns, pending, made, asked, fired, dead, canceled, running>>
    BY <1>3 DEF handleTimerExpired, collect
  <2>2. heap' \cup expired' \subseteq heap \cup expired
    BY <1>3 DEF handleTimerExpired, collect, Due
  <2> QED BY <2>1, <2>2, QueueAlone
<1>4. ASSUME doPending PROVE QueueInv'
  <2>1. UNCHANGED <<made, asked, Spent>> BY <1>4 DEF doPending, timerVars, batchVars
  <2>2. fns = <<>> /\ fns' = pending /\ pending' = <<>> BY <1>0, <1>4 DEF doPending, PlaceInv
  <2>3. pending \in Seq(Closures) BY <1>0 DEF QueueInv
  <2>4. Waiting = pending /\ Waiting' = pending BY <2>2, <2>3, ConcatEmptySeq DEF Waiting
  <2>5. pending' \in Seq(Closures) BY <2>2
  <2>6. QueueOK(Waiting, made, asked, Spent) BY <1>0 DEF QueueInv
  <2> QED BY <2>1, <2>2, <2>3, <2>4, <2>5, <2>6 DEF QueueInv
<1>5. ASSUME runFn PROVE QueueInv'
  <2> DEFINE f == Head(fns)
  <2>1. fns # <<>> /\ fns' = Tail(fns) BY <1>5 DEF runFn
  <2>2. UNCHANGED <<pending, made, asked, expired, running>>
    BY <1>5 DEF runFn, batchVars, queueVars
  <2>3. fns \in Seq(Closures) /\ pending \in Seq(Closures) /\ QueueOK(Waiting, made, asked, Spent)
    BY <1>0 DEF QueueInv
  <2>4. Waiting # <<>> /\ Head(Waiting) = f /\ Waiting' = Tail(Waiting)
    BY <2>1, <2>2, <2>3, WaitingRun DEF Waiting
  <2>5. fired' = fired BY <1>5 DEF runFn, insertTimer, cancelInLoop, timerVars
  <2> HIDE DEF f
  <2>6. \A x \in Spent' : x \in Spent \/ (f.op = "insert" /\ x = f.id)
    <3>1. CASE f.op = "insert" /\ insertTimer(f.id)
      BY <2>2, <2>5, <3>1 DEF insertTimer
    <3>2. CASE f.op = "cancel" /\ cancelInLoop(f.id)
      BY <2>2, <2>5, <3>2 DEF cancelInLoop
    <3>3. CASE UNCHANGED timerVars BY <2>2, <3>3 DEF timerVars
    <3> QED BY <1>5, <3>1, <3>2, <3>3 DEF runFn, f
  <2>7. QueueOK(Tail(Waiting), made, asked, Spent')
    <3> HIDE DEF Spent
    <3> QED BY <2>3, <2>4, <2>6, QueueRun
  <2>8. fns' \in Seq(Closures) BY <2>1, <2>3, HeadTailProperties
  <2> QED BY <2>2, <2>3, <2>4, <2>7, <2>8 DEF QueueInv
<1>6. endFn => QueueInv' BY QueueAlone DEF endFn, timerVars, batchVars, queueVars
<1>7. fnsDone => QueueInv' BY QueueAlone DEF fnsDone, timerVars, batchVars, queueVars
<1>8. timersDone => QueueInv' BY QueueAlone DEF timersDone, timerVars, batchVars, queueVars
<1>9. ASSUME endTimerCb PROVE QueueInv'
  <2>1. /\ UNCHANGED <<fns, pending, made, asked, fired, dead, canceled, expired>>
        /\ heap' \subseteq heap \cup {running} /\ running' = Nobody
    BY <1>9 DEF endTimerCb, queueVars
  <2>2. Nobody \notin made BY <1>0 DEF SetsInv
  <2> QED BY <2>1, <2>2, QueueAlone
<1>10. callQuit => QueueInv' BY QueueAlone DEF callQuit, timerVars, batchVars
<1>11. tick => QueueInv' BY QueueAlone DEF tick, timerVars, batchVars, queueVars
<1>12. ASSUME NEW t \in Timers
       PROVE  skipCancelled(t) \/ fire(t) \/ cancel(t) \/ runAfter(t) => QueueInv'
  <2>1. CASE skipCancelled(t)
    BY <2>1, QueueAlone DEF skipCancelled, First, queueVars
  <2>2. ASSUME fire(t) PROVE QueueInv'
    <3>1. /\ UNCHANGED <<fns, pending, made, asked, heap, dead, canceled>>
          /\ expired' = expired \ {t} /\ running' = t /\ t \in expired
          /\ fired' = [fired EXCEPT ![t] = IF t \in cbs /\ @ < 2 THEN @ + 1 ELSE @]
      BY <2>2 DEF fire, First, queueVars
    <3>2. \A u \in Timers \ {t} : fired'[u] = fired[u] BY <1>0, <3>1 DEF TimerInv
    <3>3. \A u \in Spent' : u \in Spent BY <3>1, <3>2
    <3> HIDE DEF Spent
    <3> QED BY <3>1, <3>3, QueueAlone
  <2>3. CASE cancel(t)
    BY <2>3, QueueAlone DEF cancel, cancelInLoop, batchVars, queueVars
  <2>4. CASE runAfter(t)
    BY <2>4, QueueAlone DEF runAfter, batchVars, queueVars
  <2> QED BY <2>1, <2>2, <2>3, <2>4
<1>13. ASSUME NEW f \in Functions PROVE queueInLoop(f) => QueueInv'
  <2> SUFFICES ASSUME queueInLoop(f) PROVE QueueInv' OBVIOUS
  <2> DEFINE c == [op |-> "run", id |-> f]
  <2>1. c \in Closures /\ c.op = "run" /\ c.id = f BY DEF Closures
  <2>2. /\ pending' = Append(pending, c) /\ fns' = fns /\ made' = made
        /\ asked' = asked \cup {f} /\ Spent' = Spent
    BY DEF queueInLoop, timerVars, batchVars
  <2> HIDE DEF c, Spent, Kept
  <2> QED BY <2>1, <2>2, QueueGrows
<1>14. \A th \in Threads : wakeUp(th) => QueueInv'
  BY QueueAlone DEF wakeUp, timerVars, batchVars
<1>15. ASSUME NEW th \in Threads, NEW t \in Timers
       PROVE  remoteCancel(th, t) \/ remoteRunAfter(th, t) => QueueInv'
  <2>1. ASSUME remoteCancel(th, t) PROVE QueueInv'
    <3> DEFINE c == [op |-> "cancel", id |-> t]
    <3>1. c \in Closures /\ c.op = "cancel" /\ c.id = t BY DEF Closures
    <3>2. /\ pending' = Append(pending, c) /\ fns' = fns /\ made' = made /\ t \in made
          /\ asked' = asked /\ Spent' = Spent
      BY <2>1 DEF remoteCancel, push, batchVars
    <3> HIDE DEF c, Spent, Kept
    <3> QED BY <3>1, <3>2, QueueGrows
  <2>2. ASSUME remoteRunAfter(th, t) PROVE QueueInv'
    <3> DEFINE c == [op |-> "insert", id |-> t]
    <3>1. c \in Closures /\ c.op = "insert" /\ c.id = t BY DEF Closures
    <3>2. /\ pending' = Append(pending, c) /\ fns' = fns /\ made' = made \cup {t}
          /\ t \notin made /\ asked' = asked /\ Spent' = Spent
      BY <2>2 DEF remoteRunAfter, push, batchVars
    <3>3. t \notin Spent BY <1>0, <3>2 DEF SetsInv, TimerInv
    <3> HIDE DEF c, Spent, Kept
    <3> QED BY <3>1, <3>2, <3>3, QueueGrows
  <2> QED BY <2>1, <2>2
<1>16. ASSUME NEW th \in Threads, NEW f \in Functions PROVE remoteQueue(th, f) => QueueInv'
  <2> SUFFICES ASSUME remoteQueue(th, f) PROVE QueueInv' OBVIOUS
  <2> DEFINE c == [op |-> "run", id |-> f]
  <2>1. c \in Closures /\ c.op = "run" /\ c.id = f BY DEF Closures
  <2>2. /\ pending' = Append(pending, c) /\ fns' = fns /\ made' = made
        /\ asked' = asked \cup {f} /\ Spent' = Spent
    BY DEF remoteQueue, push, batchVars
  <2> HIDE DEF c, Spent, Kept
  <2> QED BY <2>1, <2>2, QueueGrows
<1>17. UNCHANGED evars => QueueInv' BY QueueAlone DEF evars
<1> HIDE DEF QueueInv
<1> QED
  BY <1>1, <1>2, <1>3, <1>4, <1>5, <1>6, <1>7, <1>8, <1>9, <1>10, <1>11, <1>12, <1>13, <1>14,
     <1>15, <1>16, <1>17, LoopCases

(* The loop's heap, its batch of expired timers, canceled_ and the queued  *)
(* insertions stay consistent, in whatever order threads and callbacks act.*)
THEOREM LoopInvHolds == ESpec => []LoopInv
<1>1. ASSUME LoopInv, [ENext]_evars PROVE LoopInv'
  BY <1>1, SetsStep, ClockStep, PlaceStep, TimerStep, QueueStep DEF LoopInv
<1> QED BY <1>1, LoopInvInit, PTL DEF ESpec

(* The loop keeps its types, its heap and the batch it works on have no    *)
(* timer in common, and a timer of runAfter fires at most once, whichever  *)
(* thread made it and whatever callbacks do to it.                         *)
THEOREM LoopTypes == ESpec => []ETypeOK
<1>1. ASSUME LoopInv PROVE ETypeOK
  <2>1. \A t \in Timers : fired[t] \in 0..IF Interval[t] = 0 THEN 1 ELSE 2
    BY <1>1 DEF LoopInv, TimerInv
  <2>2. pending \in Seq(Closures) /\ fns \in Seq(Closures) BY <1>1 DEF LoopInv, QueueInv
  <2> QED
    BY <1>1, <2>1, <2>2 DEF LoopInv, ETypeOK, SetsInv, ClockInv, PlaceInv, TimerInv
<1> QED BY <1>1, LoopInvHolds, PTL

(* A callback is never started after its timer's cancelInLoop: a timer     *)
(* that is cancelled stays in canceled_ for as long as the heap, the batch *)
(* or a queued insertion can bring it back.                                *)
THEOREM LoopCancelIsFinal == ESpec => NoFireAfterCancel
<1>1. ASSUME LoopInv, [ENext]_evars
      PROVE  [\A t \in Timers : fired'[t] > fired[t] => t \notin dead]_evars
  <2> SUFFICES ASSUME NEW t \in Timers, fired'[t] > fired[t] PROVE t \notin dead OBVIOUS
  <2>0. fired \in [Timers -> 0..2] BY <1>1 DEF LoopInv, TimerInv
  <2>1. ~(fired[t] > fired[t]) BY <2>0
  <2>2. fired' # fired BY <2>1
  <2>3. PICK u \in Timers : fire(u)
    BY <1>1, <2>2, LoopCases DEF top, pollReturns, handleWakeup, handleTimerExpired, doPending,
       runFn, endFn, fnsDone, timersDone, endTimerCb, callQuit, tick, skipCancelled, cancel, runAfter,
       queueInLoop, wakeUp, remoteCancel, remoteRunAfter, remoteQueue, push, collect,
       insertTimer, cancelInLoop, timerVars, evars
  <2>4. t = u BY <2>0, <2>1, <2>3 DEF fire
  <2> QED BY <1>1, <2>3, <2>4 DEF fire, First, LoopInv, TimerInv, Kept
<1> QED BY <1>1, LoopInvHolds, PTL DEF ESpec, NoFireAfterCancel
-----------------------------------------------------------------------------
(* The loop is past epoll_wait and will swap the queue in this turn.       *)
WillSwap == pc \in Handling \/ (pc \in {"timers", "timerCb"} /\ after \in Handling)

(* No lost wake-up, the safety part of EveryFunctionRuns: while functions  *)
(* are queued the loop is on its way to them, or the eventfd is readable,  *)
(* or a thread that has pushed one has yet to write to the eventfd.        *)
NoLostWakeup == pending # <<>> => WillSwap \/ wake \/ writing # {}

(* queueInLoop's push and its write are two steps, handleWakeup and        *)
(* doPending two others: in no order of them, and for any number of        *)
(* threads, does the loop go to sleep on a queue nobody will announce.     *)
THEOREM LoopLosesNoWakeup == ESpec => []NoLostWakeup
<1>1. EInit => NoLostWakeup BY DEF EInit, NoLostWakeup
<1>2. ASSUME NoLostWakeup, [ENext]_evars PROVE NoLostWakeup'
  <2> USE <1>2 DEF NoLostWakeup, WillSwap, Handling
  <2>1. top => NoLostWakeup' BY DEF top, collect, batchVars, queueVars
  <2>2. pollReturns \/ handleWakeup => NoLostWakeup'
    BY DEF pollReturns, handleWakeup, queueVars
  <2>3. handleTimerExpired => NoLostWakeup' BY DEF handleTimerExpired, collect
  <2>4. doPending => NoLostWakeup' BY DEF doPending
  <2>5. runFn => NoLostWakeup' BY DEF runFn, batchVars, queueVars
  <2>6. endFn => NoLostWakeup' BY DEF endFn, batchVars, queueVars
  <2>7. fnsDone => NoLostWakeup' BY DEF fnsDone, batchVars, queueVars
  <2>8. timersDone => NoLostWakeup' BY DEF timersDone, batchVars, queueVars
  <2>9. endTimerCb => NoLostWakeup' BY DEF endTimerCb, queueVars
  <2>10. callQuit => NoLostWakeup' BY DEF callQuit
  <2>11. tick => NoLostWakeup' BY DEF tick, batchVars, queueVars
  <2>12. \A t \in Timers : skipCancelled(t) \/ fire(t) \/ cancel(t) \/ runAfter(t) => NoLostWakeup'
    BY DEF skipCancelled, fire, cancel, runAfter, batchVars, queueVars
  <2>13. \A f \in Functions : queueInLoop(f) => NoLostWakeup' BY DEF queueInLoop
  <2>14. \A th \in Threads : wakeUp(th) => NoLostWakeup' BY DEF wakeUp
  <2>15. \A th \in Threads, t \in Timers :
            remoteCancel(th, t) \/ remoteRunAfter(th, t) => NoLostWakeup'
    BY DEF remoteCancel, remoteRunAfter, push
  <2>16. \A th \in Threads, f \in Functions : remoteQueue(th, f) => NoLostWakeup'
    BY DEF remoteQueue, push
  <2>17. UNCHANGED evars => NoLostWakeup' BY DEF evars
  <2> HIDE DEF NoLostWakeup
  <2> QED
    BY <1>2, <2>1, <2>2, <2>3, <2>4, <2>5, <2>6, <2>7, <2>8, <2>9, <2>10, <2>11, <2>12, <2>13,
       <2>14, <2>15, <2>16, <2>17, LoopCases
<1> QED BY <1>1, <1>2, PTL DEF ESpec
=============================================================================
