------------------------------- MODULE Buffer -------------------------------
(***************************************************************************)
(* netlib::Buffer: the bytes read from a socket and not yet parsed, or     *)
(* accepted for sending and not yet written, between two indices into one  *)
(* array.  Consumed space in front is reused by moving the bytes down, and *)
(* the array grows only when that would not do.                            *)
(*                                                                         *)
(* Sequences count from 1, so byte i of the array is mem[i + 1].  What one *)
(* call of readv brings goes to the array first and then to a second       *)
(* block on the stack.                                                     *)
(***************************************************************************)
EXTENDS Naturals, Sequences

CONSTANTS Byte, Zero,       \* the bytes, and the one a grown array is filled with
          kBufferPrepend, kBufferInit, kBufferExtra,
          MaxSent           \* bound on the bytes put in

ASSUME BufferAssumption ==
    /\ Zero \in Byte
    /\ kBufferPrepend \in Nat /\ kBufferInit \in Nat /\ kBufferExtra \in Nat
    /\ MaxSent \in Nat

VARIABLES buffer,    \* [mem: the array, readIdx, writeIdx]
          sent,      \* history: what was put in, what was taken out, and
          taken,     \* the most that ever waited
          peak

bvars == <<buffer, sent, taken, peak>>

readableBytes(b) == b.writeIdx - b.readIdx
writableBytes(b) == Len(b.mem) - b.writeIdx
prependableBytes(b) == b.readIdx

(* The n bytes from peek() on.                                             *)
peek(b, n) == [i \in 1..n |-> b.mem[b.readIdx + i]]

Content(b) == peek(b, readableBytes(b))
-----------------------------------------------------------------------------
NewBuffer ==
    [mem |-> [i \in 1..(kBufferPrepend + kBufferInit) |-> Zero],
     readIdx |-> kBufferPrepend, writeIdx |-> kBufferPrepend]

retrieveAll(b) == [b EXCEPT !.readIdx = kBufferPrepend, !.writeIdx = kBufferPrepend]

retrieve(b, n) ==
    IF n < readableBytes(b) THEN [b EXCEPT !.readIdx = @ + n] ELSE retrieveAll(b)

resize(b, size) ==
    [b EXCEPT !.mem = [i \in 1..size |-> IF i <= Len(b.mem) THEN b.mem[i] ELSE Zero]]

moveDown(b) ==
    [mem |-> [i \in 1..Len(b.mem) |->
                IF i > kBufferPrepend /\ i <= kBufferPrepend + readableBytes(b)
                THEN b.mem[b.readIdx + i - kBufferPrepend] ELSE b.mem[i]],
     readIdx |-> kBufferPrepend, writeIdx |-> kBufferPrepend + readableBytes(b)]

\* Mutant: the array always grows.
makeSpace_Grows(b, len) == resize(b, b.writeIdx + len)

makeSpace(b, len) ==
    IF writableBytes(b) + prependableBytes(b) < len + kBufferPrepend
    THEN resize(b, b.writeIdx + len)
    ELSE moveDown(b)

(* memcpy or the kernel's copy to begin() + writeIdx_.                     *)
copyIn(b, s) ==
    [mem |-> [i \in 1..Len(b.mem) |->
                IF i > b.writeIdx /\ i <= b.writeIdx + Len(s)
                THEN s[i - b.writeIdx] ELSE b.mem[i]],
     readIdx |-> b.readIdx, writeIdx |-> b.writeIdx + Len(s)]

append(b, s) ==
    copyIn(IF writableBytes(b) < Len(s) THEN makeSpace(b, Len(s)) ELSE b, s)

(* The space offered to readv: the second block only when it is larger     *)
(* than what is left of the array.                                         *)
readSpace(b) ==
    writableBytes(b) + (IF writableBytes(b) < kBufferExtra THEN kBufferExtra ELSE 0)

\* Mutant: what went to the second block is forgotten.
readFd_Half(b, s) ==
    LET writable == writableBytes(b)
    IN  copyIn(b, IF Len(s) <= writable THEN s ELSE SubSeq(s, 1, writable))

readFd(b, s) ==
    LET writable == writableBytes(b)
    IN  IF Len(s) <= writable
        THEN copyIn(b, s)
        ELSE append(copyIn(b, SubSeq(s, 1, writable)), SubSeq(s, writable + 1, Len(s)))
-----------------------------------------------------------------------------
puts(b, s) ==
    /\ buffer' = b
    /\ sent' = sent \o s
    /\ peak' = IF readableBytes(b) > peak THEN readableBytes(b) ELSE peak
    /\ UNCHANGED taken

Room == MaxSent - Len(sent)

(* Bytes for the peer, and bytes of the peer.                              *)
AppendBytes == \E n \in 0..Room : \E s \in [1..n -> Byte] : puts(append(buffer, s), s)

ReadFd == \E n \in 1..Room : \E s \in [1..n -> Byte] :
    n <= readSpace(buffer) /\ puts(readFd(buffer, s), s)

(* The parser consumes, or the socket accepts, the first n bytes.          *)
Retrieve == \E n \in 0..readableBytes(buffer) :
    /\ buffer' = retrieve(buffer, n)
    /\ taken' = taken \o peek(buffer, n)
    /\ UNCHANGED <<sent, peak>>

BufferInit == buffer = NewBuffer /\ sent = <<>> /\ taken = <<>> /\ peak = 0

BufferNext == AppendBytes \/ ReadFd \/ Retrieve

BufferSpec == BufferInit /\ [][BufferNext]_bvars
-----------------------------------------------------------------------------
WellFormed(b) ==
    /\ b \in [mem : Seq(Byte), readIdx : Nat, writeIdx : Nat]
    /\ kBufferPrepend <= b.readIdx /\ b.readIdx <= b.writeIdx
    /\ b.writeIdx <= Len(b.mem)

(* The indices are in order, behind the reserve and inside the array: no   *)
(* copy writes past its end.                                               *)
BufferOK == WellFormed(buffer)

(* No byte is lost, doubled or overtaken by a move, a growth or a read     *)
(* split over two blocks: what was taken and what waits is what was put.   *)
Fifo == sent = taken \o Content(buffer)

(* The array never grows past twice the most that ever waited: consumed    *)
(* space is reused, however long the connection lives.                     *)
GrowthBounded ==
    \/ Len(buffer.mem) = kBufferPrepend + kBufferInit
    \/ Len(buffer.mem) < 2 * peak + kBufferPrepend

(* The buffer is a pipe.                                                   *)
Pipe == INSTANCE BytePipe
IsPipe == Pipe!PipeSpec
=============================================================================
