------------------------- MODULE HttpSessionProofs -------------------------
(***************************************************************************)
(* The frontend for any connections, descriptors and numbers of requests:  *)
(* its table owns what is connected, no pipelined request is left in a     *)
(* buffer, and the answers come in the order of the requests, once each    *)
(* until one is refused.                                                   *)
(*                                                                         *)
(* The last needs the position of the session in what its client wrote.    *)
(* The pieces of a connection are one stream: those the session is done    *)
(* with, those in its buffer, those in the kernel.  Every answer lies      *)
(* before that position; and while all requests up to it are good, it      *)
(* fixes what llhttp holds and what the pipeline works on.                 *)
(***************************************************************************)
EXTENDS HttpSession, SequenceTheorems, TLAPS

Pieces == [req : Nat, last : BOOLEAN]
Answers == [req : Nat, ok : BOOLEAN]
Fns == [fn : {"remove", "onMessage"}, conn : Conns]

FramesInv ==
    /\ kinds \in [Conns -> Seq(Kinds)] /\ pieces \in [Conns -> Nat]
    /\ gone \subseteq Conns /\ edge \in [Conns -> BOOLEAN] /\ stopping \in BOOLEAN
    /\ wire \in [Conns -> Seq(Pieces)] /\ input \in [Conns -> Seq(Pieces)]
    /\ parsing \in [Conns -> Nat] /\ asked \in [Conns -> Nat] /\ busy \in [Conns -> BOOLEAN]
    /\ output \in [Conns -> Seq(Answers)] /\ written \in [Conns -> Seq(Answers)]
    /\ pending \in Seq(Fns)

(* The requests written, and the pieces of them.                           *)
WritesInv ==
    \A c \in Conns :
        /\ Len(kinds[c]) <= MaxRequests[c]
        /\ pieces[c] <= 2 * Len(kinds[c])

(* Who is in the table has that descriptor, who is connected is in it, and *)
(* who is to be removed is not connected.                                  *)
TableInv ==
    /\ st \in [Conns -> {"new", "connected", "disconnected"}]
    /\ fd \in [Conns -> Fds] /\ table \in [Fds -> Conns \cup {Nobody}]
    /\ reading \in Conns \cup {Nobody}
    /\ reading # Nobody => st[reading] = "connected"
    /\ \A f \in Fds : table[f] # Nobody => fd[table[f]] = f /\ st[table[f]] # "new"
    /\ \A p \in Elements(pending) : p.fn = "remove" => st[p.conn] = "disconnected"
    /\ TableOwnsConnected

(* s is the part of a client's stream behind its piece n.                  *)
Segment(s, n) == \A i \in 1..Len(s) : s[i] = Piece(n + i)

(* The session of c after n pieces, with in in its buffer and w in the     *)
(* kernel.                                                                 *)
SessionOK(c, n, in, w) ==
    /\ n \in Nat /\ pieces[c] = n + Len(in) + Len(w)
    /\ Segment(in, n) /\ Segment(w, n + Len(in))
    /\ busy[c] <=> asked[c] # 0
    /\ 2 * parsing[c] <= n + 1
    /\ asked[c] # 0 => 2 * asked[c] = n \/ 2 * asked[c] = n + 1

(* The answers s of c were given for the first n pieces, in order.         *)
AnswersOK(c, s, n) ==
    \A k \in 1..Len(s) :
        /\ 2 * s[k].req <= n + 1
        /\ \A j \in 1..(k - 1) :
              s[j].req < s[k].req \/ (s[j].req = s[k].req /\ ~AllGood(c, s[k].req))

AllBelow(s, i) == \A k \in 1..Len(s) : s[k].req < i

(* While the requests that the first n pieces belong to are good, llhttp   *)
(* holds a first piece exactly at an odd n, the pipeline works on a        *)
(* request only behind its last piece, and answers were given to requests  *)
(* that n includes.                                                        *)
Straight(c, n) ==
    \A i \in Nat : (2 * i = n \/ 2 * i = n + 1) /\ AllGood(c, i) =>
        /\ parsing[c] = 0 => 2 * i = n
        /\ parsing[c] # 0 => parsing[c] = i /\ 2 * i = n + 1
        /\ asked[c] # 0 => 2 * asked[c] = n /\ AllBelow(Replies(c), asked[c])
        /\ \A k \in 1..Len(Replies(c)) : 2 * Replies(c)[k].req <= n

OrderOK(c, n) == AnswersOK(c, Replies(c), n) /\ Straight(c, n)

StreamInv ==
    \A c \in Conns : \E n \in Nat : SessionOK(c, n, input[c], wire[c]) /\ OrderOK(c, n)

HInv == FramesInv /\ WritesInv /\ TableInv /\ StreamInv /\ NothingStranded
-----------------------------------------------------------------------------
(* Pieces: the last of request i is the (2i)th of the stream, the first    *)
(* the one before it.                                                      *)
LEMMA PieceFacts ==
    ASSUME NEW n \in Nat, n # 0
    PROVE  /\ Piece(n) \in Pieces /\ Piece(n).req \in Nat /\ Piece(n).req # 0
           /\ Piece(n).last \in BOOLEAN
           /\ Piece(n).last => 2 * Piece(n).req = n
           /\ ~Piece(n).last => 2 * Piece(n).req = n + 1
<1>1. /\ (n + 1) \div 2 \in Nat /\ (n + 1) \div 2 # 0
      /\ n % 2 = 0 => 2 * ((n + 1) \div 2) = n
      /\ n % 2 # 0 => 2 * ((n + 1) \div 2) = n + 1
  OBVIOUS
<1> QED BY <1>1 DEF Piece, Pieces

LEMMA LenSum == \A n, k, l \in Nat : n <= n + k + l
OBVIOUS

(* readFd takes k pieces from the kernel: the session's position stands.   *)
LEMMA ReadMore ==
    ASSUME NEW c, NEW n, NEW in \in Seq(Pieces), NEW w \in Seq(Pieces), SessionOK(c, n, in, w),
           NEW k \in 1..Len(w)
    PROVE  /\ in \o SubSeq(w, 1, k) \in Seq(Pieces)
           /\ SubSeq(w, k + 1, Len(w)) \in Seq(Pieces)
           /\ SessionOK(c, n, in \o SubSeq(w, 1, k), SubSeq(w, k + 1, Len(w)))
<1> DEFINE a == SubSeq(w, 1, k)
           b == SubSeq(w, k + 1, Len(w))
           x == in \o a
<1>1. Len(w) \in Nat /\ Len(in) \in Nat /\ k \in Nat /\ k <= Len(w)
  BY LenProperties
<1>2. \A i \in 1..Len(w) : w[i] \in Pieces BY ElementOfSeq
<1>3. \A i \in 1..k : w[i] \in Pieces BY <1>1, <1>2
<1>4. \A i \in (k + 1)..Len(w) : w[i] \in Pieces BY <1>1, <1>2
<1>5. a \in Seq(Pieces) /\ Len(a) = k /\ \A i \in 1..k : a[i] = w[i]
  BY <1>1, <1>3, SubSeqProperties
<1>6. /\ b \in Seq(Pieces) /\ Len(b) = Len(w) - k
      /\ \A i \in 1..Len(w) - k : b[i] = w[k + i]
  <2>1. /\ b \in Seq(Pieces)
        /\ Len(b) = IF k + 1 <= Len(w) THEN Len(w) - (k + 1) + 1 ELSE 0
        /\ \A i \in 1..Len(w) - (k + 1) + 1 : b[i] = w[(k + 1) + i - 1]
    BY <1>1, <1>4, SubSeqProperties
  <2>2. Len(b) = Len(w) - k BY <1>1, <2>1
  <2>3. ASSUME NEW i \in 1..Len(w) - k PROVE b[i] = w[k + i]
    <3>1. i \in 1..Len(w) - (k + 1) + 1 /\ (k + 1) + i - 1 = k + i BY <1>1
    <3> QED BY <2>1, <3>1
  <2> QED BY <2>1, <2>2, <2>3
<1>7. /\ x \in Seq(Pieces) /\ Len(x) = Len(in) + k
      /\ \A i \in 1..Len(in) + k : x[i] = IF i <= Len(in) THEN in[i] ELSE a[i - Len(in)]
  BY <1>5, ConcatProperties
<1> HIDE DEF a, b, x
<1>8. /\ n \in Nat /\ \A i \in 1..Len(in) : in[i] = Piece(n + i)
      /\ \A i \in 1..Len(w) : w[i] = Piece(n + Len(in) + i)
  BY DEF SessionOK, Segment
<1>9. ASSUME NEW i \in 1..Len(x) PROVE x[i] = Piece(n + i)
  <2>1. CASE i <= Len(in) BY <1>1, <1>7, <1>8, <2>1
  <2>2. CASE i > Len(in)
    <3>1. i - Len(in) \in 1..k /\ i - Len(in) \in 1..Len(w) BY <1>1, <1>7, <2>2
    <3>2. x[i] = w[i - Len(in)] BY <1>1, <1>5, <1>7, <2>2, <3>1
    <3>3. n + Len(in) + (i - Len(in)) = n + i BY <1>1, <1>7, <1>8
    <3> QED BY <1>8, <3>1, <3>2, <3>3
  <2> QED BY <1>1, <1>7, <2>1, <2>2
<1>10. ASSUME NEW i \in 1..Len(b) PROVE b[i] = Piece(n + Len(x) + i)
  <2>1. i \in 1..Len(w) - k /\ k + i \in 1..Len(w) BY <1>1, <1>6
  <2>2. b[i] = Piece(n + Len(in) + (k + i)) BY <1>6, <1>8, <2>1
  <2>3. n + Len(in) + (k + i) = n + Len(x) + i BY <1>1, <1>7, <1>8, <2>1
  <2> QED BY <2>2, <2>3
<1>11. pieces[c] = n + Len(x) + Len(b)
  <2>1. pieces[c] = n + Len(in) + Len(w) BY DEF SessionOK
  <2> QED BY <1>1, <1>6, <1>7, <1>8, <2>1
<1>12. SessionOK(c, n, x, b) BY <1>8, <1>9, <1>10, <1>11 DEF SessionOK, Segment
<1> QED BY <1>5, <1>6, <1>7, <1>12 DEF a, b, x

(* Taking j pieces from the front of a buffer leaves the stream behind     *)
(* them.                                                                   *)
LEMMA SegmentRest ==
    ASSUME NEW n \in Nat, NEW in \in Seq(Pieces), Segment(in, n), NEW j \in 0..Len(in)
    PROVE  /\ SubSeq(in, j + 1, Len(in)) \in Seq(Pieces)
           /\ Len(SubSeq(in, j + 1, Len(in))) = Len(in) - j
           /\ Segment(SubSeq(in, j + 1, Len(in)), n + j)
<1> DEFINE b == SubSeq(in, j + 1, Len(in))
<1>1. Len(in) \in Nat /\ j \in Nat /\ j <= Len(in) BY LenProperties
<1>2. \A i \in (j + 1)..Len(in) : in[i] \in Pieces BY <1>1, ElementOfSeq
<1>3. /\ b \in Seq(Pieces)
      /\ Len(b) = IF j + 1 <= Len(in) THEN Len(in) - (j + 1) + 1 ELSE 0
      /\ \A i \in 1..Len(in) - (j + 1) + 1 : b[i] = in[(j + 1) + i - 1]
  BY <1>1, <1>2, SubSeqProperties
<1>4. Len(b) = Len(in) - j BY <1>1, <1>3
<1> HIDE DEF b
<1>5. ASSUME NEW i \in 1..Len(b) PROVE b[i] = Piece(n + j + i)
  <2>1. /\ i \in 1..Len(in) - (j + 1) + 1 /\ (j + 1) + i - 1 = j + i
        /\ j + i \in 1..Len(in) /\ n + (j + i) = n + j + i
    BY <1>1, <1>4
  <2>2. b[i] = in[j + i] BY <1>3, <2>1
  <2> QED BY <2>1, <2>2 DEF Segment
<1> QED BY <1>3, <1>4, <1>5 DEF b, Segment
-----------------------------------------------------------------------------
(* Answers.                                                                *)
LEMMA AnswersLater ==
    ASSUME NEW c, NEW s \in Seq(Answers), NEW n \in Nat, NEW m \in Nat, n <= m, AnswersOK(c, s, n)
    PROVE  AnswersOK(c, s, m)
<1>1. ASSUME NEW k \in 1..Len(s)
      PROVE  2 * s[k].req <= m + 1
  <2>1. s[k] \in Answers BY ElementOfSeq
  <2>2. s[k].req \in Nat BY <2>1 DEF Answers
  <2>3. 2 * s[k].req <= n + 1 BY DEF AnswersOK
  <2> QED BY <2>2, <2>3
<1> QED BY <1>1 DEF AnswersOK

LEMMA AnswersAppend ==
    ASSUME NEW c, NEW s \in Seq(Answers), NEW n \in Nat, AnswersOK(c, s, n), NEW r \in Answers,
           2 * r.req <= n + 1,
           \A k \in 1..Len(s) : s[k].req < r.req \/ (s[k].req = r.req /\ ~AllGood(c, r.req))
    PROVE  Append(s, r) \in Seq(Answers) /\ AnswersOK(c, Append(s, r), n)
<1> DEFINE t == Append(s, r)
<1>1. /\ t \in Seq(Answers) /\ Len(t) = Len(s) + 1 /\ Len(s) \in Nat
      /\ \A i \in 1..Len(s) : t[i] = s[i]
      /\ t[Len(s) + 1] = r
  BY AppendProperties, LenProperties
<1> HIDE DEF t
<1>2. ASSUME NEW k \in 1..Len(t)
      PROVE  /\ 2 * t[k].req <= n + 1
             /\ \A j \in 1..(k - 1) :
                   t[j].req < t[k].req \/ (t[j].req = t[k].req /\ ~AllGood(c, t[k].req))
  <2>1. CASE k \in 1..Len(s)
    <3>1. t[k] = s[k] /\ \A j \in 1..(k - 1) : j \in 1..Len(s) /\ t[j] = s[j] BY <1>1, <2>1
    <3> QED BY <2>1, <3>1 DEF AnswersOK
  <2>2. CASE k = Len(s) + 1
    <3>1. t[k] = r /\ \A j \in 1..(k - 1) : j \in 1..Len(s) /\ t[j] = s[j] BY <1>1, <2>2
    <3> QED BY <3>1
  <2> QED BY <1>1, <2>1, <2>2
<1>3. AnswersOK(c, t, n) BY <1>2 DEF AnswersOK
<1> QED BY <1>1, <1>3 DEF t

LEMMA AppendAtEnd ==
    ASSUME NEW S, NEW s \in Seq(S), NEW t \in Seq(S), NEW r \in S
    PROVE  s \o Append(t, r) = Append(s \o t, r)
<1>1. <<r>> \in Seq(S) OBVIOUS
<1>2. Append(t, r) = t \o <<r>> BY AppendIsConcat
<1>3. s \o t \in Seq(S) BY ConcatProperties
<1>4. Append(s \o t, r) = (s \o t) \o <<r>> BY <1>3, AppendIsConcat
<1> QED BY <1>1, <1>2, <1>4, ConcatAssociative

(* An answer is the last of its connection's, or is dropped.               *)
LEMMA SendEffect ==
    ASSUME FramesInv, NEW c \in Conns, NEW r \in Answers, send(c, r)
    PROVE  /\ output' \in [Conns -> Seq(Answers)] /\ written' \in [Conns -> Seq(Answers)]
           /\ Replies(c)' = Replies(c) \/ Replies(c)' = Append(Replies(c), r)
           /\ \A d \in Conns \ {c} : Replies(d)' = Replies(d)
<1>1. output \in [Conns -> Seq(Answers)] /\ written \in [Conns -> Seq(Answers)]
  BY DEF FramesInv
<1>2. output[c] \in Seq(Answers) /\ written[c] \in Seq(Answers) BY <1>1
<1>3. CASE UNCHANGED replyVars BY <1>1, <1>3 DEF replyVars, Replies
<1>4. CASE /\ output[c] = <<>> /\ written' = [written EXCEPT ![c] = Append(@, r)]
           /\ UNCHANGED output
  <2>1. Append(written[c], r) \in Seq(Answers) BY <1>2, AppendProperties
  <2>2. written' \in [Conns -> Seq(Answers)] /\ written'[c] = Append(written[c], r)
    BY <1>1, <1>4, <2>1
  <2>3. Replies(c) = written[c] BY <1>2, <1>4, ConcatEmptySeq DEF Replies
  <2>4. Replies(c)' = Append(written[c], r)
    <3>1. output'[c] = <<>> BY <1>4
    <3> QED BY <2>1, <2>2, <3>1, ConcatEmptySeq DEF Replies
  <2>5. \A d \in Conns \ {c} : Replies(d)' = Replies(d) BY <1>1, <1>4 DEF Replies
  <2> QED BY <1>1, <1>4, <2>2, <2>3, <2>4, <2>5
<1>5. CASE output' = [output EXCEPT ![c] = Append(@, r)] /\ UNCHANGED written
  <2>1. Append(output[c], r) \in Seq(Answers) BY <1>2, AppendProperties
  <2>2. output' \in [Conns -> Seq(Answers)] /\ output'[c] = Append(output[c], r)
    BY <1>1, <1>5, <2>1
  <2>3. written[c] \o Append(output[c], r) = Append(written[c] \o output[c], r)
    <3>1. \A s, t \in Seq(Answers) : s \o Append(t, r) = Append(s \o t, r) BY AppendAtEnd
    <3> QED BY <1>2, <3>1
  <2>7. Replies(c)' = Append(Replies(c), r) BY <1>5, <2>2, <2>3 DEF Replies
  <2>8. \A d \in Conns \ {c} : Replies(d)' = Replies(d) BY <1>1, <1>5 DEF Replies
  <2> QED BY <1>1, <1>5, <2>2, <2>7, <2>8
<1> QED BY <1>3, <1>4, <1>5 DEF send

LEMMA RepliesType ==
    ASSUME FramesInv, NEW c \in Conns
    PROVE  Replies(c) \in Seq(Answers)
<1>1. output[c] \in Seq(Answers) /\ written[c] \in Seq(Answers) BY DEF FramesInv
<1> QED BY <1>1, ConcatProperties DEF Replies
-----------------------------------------------------------------------------
(* What onMessage does besides: whom it leaves alone, and that it leaves   *)
(* nothing in the buffer of an idle session without having queued itself.  *)
MessageFrame(c, pq) ==
    /\ input' \in [Conns -> Seq(Pieces)] /\ parsing' \in [Conns -> Nat]
    /\ asked' \in [Conns -> Nat] /\ busy' \in [Conns -> BOOLEAN]
    /\ output' \in [Conns -> Seq(Answers)] /\ written' \in [Conns -> Seq(Answers)]
    /\ pending' \in {pq, Append(pq, Fn("onMessage", c))}
    /\ busy'[c] \/ input'[c] = <<>> \/ pending' = Append(pq, Fn("onMessage", c))
    /\ \A d \in Conns \ {c} :
          /\ input'[d] = input[d] /\ parsing'[d] = parsing[d]
          /\ asked'[d] = asked[d] /\ busy'[d] = busy[d] /\ Replies(d)' = Replies(d)

(* The kth piece of a buffer behind the nth of the stream.                 *)
LEMMA PieceAt ==
    ASSUME NEW n \in Nat, NEW in \in Seq(Pieces), Segment(in, n), NEW k \in 1..Len(in)
    PROVE  /\ in[k].req \in Nat /\ in[k].req # 0 /\ in[k].last \in BOOLEAN
           /\ in[k].last => 2 * in[k].req = n + k
           /\ ~in[k].last => 2 * in[k].req = n + k + 1
           /\ k \in Nat /\ k # 0 /\ Len(in) \in Nat /\ Head(in) = in[1] /\ 1 \in 1..Len(in)
<1>1. k \in Nat /\ k # 0 /\ Len(in) \in Nat /\ 1 \in 1..Len(in) BY LenProperties
<1>2. Head(in) = in[1] BY <1>1
<1>3. n + k \in Nat /\ n + k # 0 BY <1>1
<1>4. in[k] = Piece(n + k) BY DEF Segment
<1> QED BY <1>1, <1>2, <1>3, <1>4, PieceFacts

(* What is good up to a request is good up to an earlier one.              *)
LEMMA GoodBefore ==
    ASSUME NEW c, NEW i \in Nat, NEW x \in Nat, i <= x, AllGood(c, x)
    PROVE  AllGood(c, i)
<1>1. \A j \in 1..i : j \in 1..x OBVIOUS
<1> QED BY <1>1 DEF AllGood

(* A good piece in its place does what it was written for.                 *)
LEMMA FeedsGood ==
    ASSUME NEW c, NEW h, NEW p, aligned(h, p), kinds[c][p.req] \in Good
    PROVE  feeds(c, h, p) = {IF p.last THEN "done" ELSE "on"}
BY DEF feeds, Good

(* Where llhttp may be in the buffer when the requests so far are good: in *)
(* a first piece, which it has begun, or at the end of a last one.         *)
LEMMA GoodRun ==
    ASSUME FramesInv, NEW c \in Conns, NEW n, NEW in \in Seq(Pieces), NEW w,
           SessionOK(c, n, in, w), OrderOK(c, n),
           NEW k \in 1..Len(in), NEW o, executes(c, in, k, o), AllGood(c, in[k].req)
    PROVE  /\ o # "error"
           /\ o = "done" => 2 * in[k].req = n + k
           /\ o = "on" => k = 1 /\ parsing[c] = 0 /\ 2 * in[k].req = n + 2
           /\ \A j \in 1..Len(Replies(c)) : 2 * Replies(c)[j].req <= n
<1>1. n \in Nat /\ Segment(in, n) BY DEF SessionOK
<1>2. PICK x \in Nat : x = in[k].req BY <1>1, PieceAt
<1>3. /\ x # 0 /\ in[k].last \in BOOLEAN /\ (in[k].last => 2 * x = n + k)
      /\ (~in[k].last => 2 * x = n + k + 1)
      /\ k \in Nat /\ k # 0 /\ Len(in) \in Nat /\ k <= Len(in)
      /\ Head(in) = in[1] /\ 1 \in 1..Len(in)
  BY <1>1, <1>2, PieceAt
<1>4. PICK y \in Nat : y = in[1].req BY <1>1, <1>3, PieceAt
<1>5. /\ y # 0 /\ in[1].last \in BOOLEAN /\ (in[1].last => 2 * y = n + 1)
      /\ (~in[1].last => 2 * y = n + 2) /\ n + 1 + 1 = n + 2
  <2>1. /\ y # 0 /\ in[1].last \in BOOLEAN /\ (in[1].last => 2 * y = n + 1)
        /\ (~in[1].last => 2 * y = n + 1 + 1)
    BY <1>1, <1>3, <1>4, PieceAt
  <2> QED BY <1>1, <2>1
<1>6. /\ y <= x /\ AllGood(c, x) /\ kinds[c][y] \in Good /\ kinds[c][x] \in Good
  <2>1. y <= x BY <1>1, <1>3, <1>5
  <2> QED BY <1>2, <1>3, <1>5, <2>1 DEF AllGood
<1>7. /\ executes(c, in, k, o) /\ o \in feeds(c, holds(c, in, k), in[k])
      /\ k # 1 => "on" \in feeds(c, parsing[c], in[1])
      /\ k = 1 => holds(c, in, k) = parsing[c]
  <2>1. holds(c, in, 1) = parsing[c] BY DEF holds
  <2>2. k # 1 => 1 \in 1..(k - 1) BY <1>3
  <2> QED BY <2>1, <2>2 DEF executes
<1>p. parsing[c] \in Nat BY DEF FramesInv
<1>8. CASE in[1].last
  <2>1. 2 * y = n + 1 BY <1>5, <1>8
  <2>2. AllGood(c, y) BY <1>6, GoodBefore
  <2>3. /\ parsing[c] = 0 => 2 * y = n
        /\ parsing[c] # 0 => parsing[c] = y
        /\ \A j \in 1..Len(Replies(c)) : 2 * Replies(c)[j].req <= n
    BY <2>1, <2>2 DEF OrderOK, Straight
  <2>4. parsing[c] = y BY <1>1, <2>1, <2>3
  <2>5. aligned(parsing[c], in[1]) BY <1>4, <1>8, <2>4 DEF aligned
  <2>6. feeds(c, parsing[c], in[1]) = {"done"} BY <1>4, <1>6, <1>8, <2>5, FeedsGood
  <2>7. k = 1 BY <1>7, <2>6
  <2>8. o = "done" BY <1>7, <2>6, <2>7
  <2>9. x = y BY <1>2, <1>4, <2>7
  <2> QED BY <1>2, <2>1, <2>3, <2>7, <2>8, <2>9
<1>9. CASE ~in[1].last
  <2>1. 2 * y = n + 2 BY <1>5, <1>9
  <2>2. PICK i \in Nat : y = i + 1 /\ 2 * i = n
    <3>1. y - 1 \in Nat /\ y = (y - 1) + 1 /\ 2 * (y - 1) = n BY <1>1, <1>5, <2>1
    <3> QED BY <3>1
  <2>3. AllGood(c, i)
    <3>1. i <= x BY <1>6, <2>2
    <3> QED BY <1>6, <3>1, GoodBefore
  <2>4. /\ parsing[c] # 0 => 2 * i = n + 1
        /\ \A j \in 1..Len(Replies(c)) : 2 * Replies(c)[j].req <= n
    BY <2>2, <2>3 DEF OrderOK, Straight
  <2>5. parsing[c] = 0 BY <1>1, <2>2, <2>4
  <2>6. aligned(parsing[c], in[1]) BY <1>9, <2>5 DEF aligned
  <2>7. feeds(c, parsing[c], in[1]) = {"on"} BY <1>4, <1>6, <1>9, <2>6, FeedsGood
  <2>8. CASE k = 1
    <3>1. o = "on" /\ x = y BY <1>2, <1>4, <1>7, <2>7, <2>8
    <3> QED BY <1>2, <2>1, <2>4, <2>5, <2>8, <3>1
  <2>9. CASE k # 1
    <3>1. 2 \in 1..Len(in) /\ 2 <= k BY <1>3, <2>9
    <3>2. holds(c, in, 2) = y BY <1>3, <1>4, <2>5 DEF holds
    <3>3. in[2].req = y /\ in[2].last
      <4>1. PICK z \in Nat : z = in[2].req BY <1>1, <3>1, PieceAt
      <4>2. /\ in[2].last \in BOOLEAN /\ (in[2].last => 2 * z = n + 2)
            /\ (~in[2].last => 2 * z = n + 2 + 1)
        BY <1>1, <3>1, <4>1, PieceAt
      <4>3. in[2].last BY <1>1, <2>1, <4>2
      <4>4. z = y BY <1>1, <2>1, <4>2, <4>3
      <4> QED BY <4>1, <4>3, <4>4
    <3>4. aligned(y, in[2]) BY <3>3 DEF aligned
    <3>5. feeds(c, y, in[2]) = {"done"} BY <1>6, <3>3, <3>4, FeedsGood
    <3>6. k = 2
      <4>1. SUFFICES ASSUME k # 2 PROVE FALSE OBVIOUS
      <4>2. 2 \in 1..(k - 1) BY <1>3, <3>1, <4>1
      <4>3. "on" \in feeds(c, holds(c, in, 2), in[2]) BY <4>2 DEF executes
      <4> QED BY <3>2, <3>5, <4>3
    <3>7. o = "done" /\ x = y BY <1>2, <1>7, <3>2, <3>3, <3>5, <3>6
    <3> QED BY <1>2, <2>1, <2>4, <3>6, <3>7
  <2> QED BY <2>8, <2>9
<1> QED BY <1>5, <1>8, <1>9

(* The steps of onMessage, each with the position it leaves behind.        *)
LEMMA SkipKeeps ==
    ASSUME FramesInv, NEW c \in Conns, NEW n, NEW in \in Seq(Pieces), NEW pq, NEW w,
           SessionOK(c, n, in, w), OrderOK(c, n), skip(c, in, pq),
           UNCHANGED <<kinds, pieces>>, wire'[c] = w
    PROVE  /\ MessageFrame(c, pq)
           /\ SessionOK(c, n, input[c], wire[c])' /\ OrderOK(c, n)'
<1>1. /\ input' = [input EXCEPT ![c] = in] /\ pending' = pq
      /\ UNCHANGED <<parsing, busy, asked, output, written>> /\ (busy[c] \/ in = <<>>)
  BY DEF skip, replyVars
<1>2. input'[c] = in /\ input' \in [Conns -> Seq(Pieces)]
      /\ \A d \in Conns \ {c} : input'[d] = input[d]
  BY <1>1 DEF FramesInv
<1>3. \A d \in Conns : Replies(d)' = Replies(d) BY <1>1 DEF Replies
<1>4. MessageFrame(c, pq) BY <1>1, <1>2, <1>3 DEF FramesInv, MessageFrame
<1>5. SessionOK(c, n, input[c], wire[c])' BY <1>1, <1>2 DEF SessionOK
<1>6. OrderOK(c, n)' BY <1>1, <1>3 DEF OrderOK, AnswersOK, Straight, AllGood, AllBelow
<1> QED BY <1>4, <1>5, <1>6

LEMMA RefuseKeeps ==
    ASSUME FramesInv, NEW c \in Conns, NEW n, NEW in \in Seq(Pieces), NEW pq, NEW w \in Seq(Pieces),
           SessionOK(c, n, in, w), OrderOK(c, n), refuse(c, in, pq),
           UNCHANGED <<kinds, pieces>>, wire'[c] = w
    PROVE  /\ MessageFrame(c, pq)
           /\ \E m \in Nat : SessionOK(c, m, input[c], wire[c])' /\ OrderOK(c, m)'
<1>k. PICK k \in 1..Len(in) : executes(c, in, k, "error") /\ send(c, Reply(in[k].req, FALSE))
  BY DEF refuse
<1> DEFINE x == in[k].req
           r == Reply(x, FALSE)
           m == n + Len(in)
<1>1. /\ ~busy[c] /\ send(c, r)
      /\ input' = [input EXCEPT ![c] = <<>>] /\ parsing' = [parsing EXCEPT ![c] = 0]
      /\ pending' = pq /\ UNCHANGED <<busy, asked>>
  BY <1>k DEF refuse
<1>2. n \in Nat /\ Segment(in, n) /\ Segment(w, m) /\ (busy[c] <=> asked[c] # 0)
      /\ pieces[c] = m + Len(w)
  BY DEF SessionOK
<1>3. Len(in) \in Nat /\ m \in Nat /\ n <= m BY <1>2, LenProperties
<1>4. x \in Nat /\ n + 1 <= 2 * x /\ 2 * x <= m + 1
  <2>1. /\ x \in Nat /\ in[k].last \in BOOLEAN /\ (in[k].last => 2 * x = n + k)
        /\ (~in[k].last => 2 * x = n + k + 1) /\ k \in Nat /\ k # 0
    BY <1>2, PieceAt
  <2>2. k <= Len(in) BY <1>3
  <2> HIDE DEF x
  <2> QED BY <1>2, <1>3, <2>1, <2>2
<1>5. r \in Answers /\ r.req = x BY <1>4 DEF Reply, Answers
<1>g. ~AllGood(c, x) BY <1>k, GoodRun
<1> HIDE DEF x, r
<1>6. /\ output' \in [Conns -> Seq(Answers)] /\ written' \in [Conns -> Seq(Answers)]
      /\ Replies(c)' = Replies(c) \/ Replies(c)' = Append(Replies(c), r)
      /\ \A d \in Conns \ {c} : Replies(d)' = Replies(d)
  BY <1>1, <1>5, SendEffect
<1>7. /\ input'[c] = <<>> /\ input' \in [Conns -> Seq(Pieces)]
      /\ parsing'[c] = 0 /\ parsing' \in [Conns -> Nat]
      /\ \A d \in Conns \ {c} : input'[d] = input[d] /\ parsing'[d] = parsing[d]
  BY <1>1 DEF FramesInv
<1>8. MessageFrame(c, pq) BY <1>1, <1>6, <1>7 DEF FramesInv, MessageFrame
<1>9. asked'[c] = 0 /\ busy'[c] = busy[c] BY <1>1, <1>2
<1>10. SessionOK(c, m, input[c], wire[c])'
  <2> HIDE DEF m
  <2>1. Len(<<>>) = 0 /\ m + 0 = m BY <1>3
  <2>2. Segment(<<>>, m) BY <2>1 DEF Segment
  <2>3. 2 * parsing'[c] <= m + 1 BY <1>3, <1>7
  <2> QED BY <1>1, <1>2, <1>3, <1>7, <1>9, <2>1, <2>2, <2>3 DEF SessionOK
<1>11. Replies(c) \in Seq(Answers) /\ AnswersOK(c, Replies(c), n) BY RepliesType DEF OrderOK
<1>12. AnswersOK(c, Replies(c), m) BY <1>2, <1>3, <1>11, AnswersLater
<1>13. ASSUME NEW j \in 1..Len(Replies(c))
       PROVE  Replies(c)[j].req < r.req \/ (Replies(c)[j].req = r.req /\ ~AllGood(c, r.req))
  <2>1. PICK y \in Nat : y = Replies(c)[j].req
    <3>1. Replies(c)[j] \in Answers BY <1>11, ElementOfSeq
    <3> QED BY <3>1 DEF Answers
  <2>2. 2 * y <= n + 1 BY <1>11, <2>1 DEF AnswersOK
  <2>3. y < x \/ y = x BY <1>2, <1>4, <2>2
  <2> QED BY <1>5, <1>g, <2>1, <2>3
<1>14. AnswersOK(c, Append(Replies(c), r), m)
  <2> HIDE DEF m
  <2> QED BY <1>3, <1>4, <1>5, <1>11, <1>12, <1>13, AnswersAppend
<1>15. AnswersOK(c, Replies(c)', m) BY <1>6, <1>12, <1>14
<1>16. AnswersOK(c, Replies(c), m)' BY <1>15 DEF AnswersOK, AllGood
<1>17. Straight(c, m)'
  <2> HIDE DEF m
  <2>1. ASSUME NEW i \in Nat, 2 * i = m \/ 2 * i = m + 1, AllGood(c, i) PROVE FALSE
    <3>1. x <= i BY <1>3, <1>4, <2>1
    <3> QED BY <1>4, <1>g, <2>1, <3>1, GoodBefore
  <2>2. \A i \in Nat : AllGood(c, i)' = AllGood(c, i) BY DEF AllGood
  <2> QED BY <2>1, <2>2 DEF Straight
<1> QED BY <1>3, <1>8, <1>10, <1>16, <1>17 DEF OrderOK

LEMMA ParseOnKeeps ==
    ASSUME FramesInv, NEW c \in Conns, NEW n, NEW in \in Seq(Pieces), NEW pq, NEW w \in Seq(Pieces),
           SessionOK(c, n, in, w), OrderOK(c, n), parseOn(c, in, pq),
           UNCHANGED <<kinds, pieces>>, wire'[c] = w
    PROVE  /\ MessageFrame(c, pq)
           /\ \E m \in Nat : SessionOK(c, m, input[c], wire[c])' /\ OrderOK(c, m)'
<1> DEFINE k == Len(in)
           x == in[k].req
           h == holds(c, in, k + 1)
           m == n + Len(in)
<1>1. /\ ~busy[c] /\ in # <<>> /\ executes(c, in, k, "on")
      /\ input' = [input EXCEPT ![c] = <<>>] /\ parsing' = [parsing EXCEPT ![c] = h]
      /\ pending' = pq /\ UNCHANGED <<busy, asked, output, written>>
  BY DEF parseOn, replyVars
<1>2. n \in Nat /\ Segment(in, n) /\ Segment(w, m) /\ (busy[c] <=> asked[c] # 0)
      /\ pieces[c] = m + Len(w) /\ 2 * parsing[c] <= n + 1
  BY DEF SessionOK
<1>3. k \in Nat /\ k # 0 /\ k \in 1..Len(in) /\ m \in Nat /\ n + 1 <= m
  BY <1>1, <1>2, EmptySeq, LenProperties
<1>4. /\ x \in Nat /\ in[k].last \in BOOLEAN /\ (in[k].last => 2 * x = m)
      /\ (~in[k].last => 2 * x = m + 1) /\ Head(in) = in[1] /\ 1 \in 1..Len(in)
  BY <1>2, <1>3, PieceAt
<1>5. /\ h = IF parsing[c] = 0 THEN in[1].req ELSE parsing[c]
      /\ in[1].req \in Nat /\ 2 * in[1].req <= n + 2
  <2>1. h = IF parsing[c] = 0 THEN in[1].req ELSE parsing[c] BY <1>3, <1>4 DEF holds
  <2>2. PICK y \in Nat : y = in[1].req BY <1>2, <1>4, PieceAt
  <2>3. /\ in[1].last \in BOOLEAN /\ (in[1].last => 2 * y = n + 1)
        /\ (~in[1].last => 2 * y = n + 1 + 1)
    BY <1>2, <1>4, <2>2, PieceAt
  <2>4. 2 * y <= n + 2 BY <1>2, <2>3
  <2> QED BY <2>1, <2>2, <2>4
<1>6. h \in Nat /\ 2 * h <= m + 1
  <2>1. parsing[c] \in Nat BY DEF FramesInv
  <2> HIDE DEF h, m
  <2>2. CASE parsing[c] = 0 BY <1>2, <1>3, <1>5, <2>2
  <2>3. CASE parsing[c] # 0 BY <1>2, <1>3, <1>5, <2>1, <2>3
  <2> QED BY <2>2, <2>3
<1>g. AllGood(c, x) => /\ k = 1 /\ parsing[c] = 0 /\ 2 * x = n + 2
                       /\ \A j \in 1..Len(Replies(c)) : 2 * Replies(c)[j].req <= n
  <2>1. k \in 1..Len(in) /\ executes(c, in, k, "on") BY <1>1, <1>3
  <2> HIDE DEF k
  <2> QED BY <2>1, GoodRun
<1> HIDE DEF h
<1>a. \A d \in Conns : Replies(d)' = Replies(d) BY <1>1 DEF Replies
<1>7. /\ input'[c] = <<>> /\ input' \in [Conns -> Seq(Pieces)]
      /\ parsing'[c] = h /\ parsing' \in [Conns -> Nat]
      /\ \A d \in Conns \ {c} : input'[d] = input[d] /\ parsing'[d] = parsing[d]
  BY <1>1, <1>6 DEF FramesInv
<1>8. MessageFrame(c, pq) BY <1>1, <1>a, <1>7 DEF FramesInv, MessageFrame
<1>9. asked'[c] = 0 /\ busy'[c] = busy[c] BY <1>1, <1>2
<1>10. SessionOK(c, m, input[c], wire[c])'
  <2> HIDE DEF m
  <2>1. Len(<<>>) = 0 /\ m + 0 = m BY <1>3
  <2>2. Segment(<<>>, m) BY <2>1 DEF Segment
  <2>3. 2 * parsing'[c] <= m + 1 BY <1>6, <1>7
  <2> QED BY <1>1, <1>2, <1>3, <1>7, <1>9, <2>1, <2>2, <2>3 DEF SessionOK
<1>11. Replies(c) \in Seq(Answers) /\ AnswersOK(c, Replies(c), n) BY RepliesType DEF OrderOK
<1>12. AnswersOK(c, Replies(c), m)
  <2>1. n <= m BY <1>2, <1>3
  <2> QED BY <1>2, <1>3, <1>11, <2>1, AnswersLater
<1>13. AnswersOK(c, Replies(c), m)' BY <1>a, <1>12 DEF AnswersOK, AllGood
<1>14. Straight(c, m)'
  <2>1. ASSUME NEW i \in Nat, 2 * i = m \/ 2 * i = m + 1, AllGood(c, i)
        PROVE  /\ h = i /\ i # 0 /\ 2 * i = m + 1
               /\ \A j \in 1..Len(Replies(c)) : 2 * Replies(c)[j].req <= m
    <3>1. i = x
      <4> HIDE DEF m, x
      <4> QED BY <1>3, <1>4, <2>1
    <3>2. /\ k = 1 /\ parsing[c] = 0 /\ 2 * x = n + 2
          /\ \A j \in 1..Len(Replies(c)) : 2 * Replies(c)[j].req <= n
      BY <1>g, <2>1, <3>1
    <3>3. h = i /\ m = n + 1 BY <1>5, <3>1, <3>2
    <3>4. 2 * i = m + 1 /\ i # 0 BY <1>2, <3>1, <3>2, <3>3
    <3>5. ASSUME NEW j \in 1..Len(Replies(c)) PROVE 2 * Replies(c)[j].req <= m
      <4>1. Replies(c)[j] \in Answers BY <1>11, ElementOfSeq
      <4>2. Replies(c)[j].req \in Nat BY <4>1 DEF Answers
      <4>3. 2 * Replies(c)[j].req <= n BY <3>2
      <4> QED BY <1>2, <3>3, <4>2, <4>3
    <3> QED BY <3>3, <3>4, <3>5
  <2>2. \A i \in Nat : AllGood(c, i)' = AllGood(c, i) BY DEF AllGood
  <2>3. parsing'[c] = h /\ asked'[c] = 0 /\ Replies(c)' = Replies(c) BY <1>a, <1>7, <1>9
  <2> HIDE DEF m
  <2> QED BY <2>1, <2>2, <2>3 DEF Straight
<1> QED BY <1>3, <1>8, <1>10, <1>13, <1>14 DEF OrderOK

(* An answer to the request x that the mth piece belongs to keeps order.   *)
LEMMA AnswerInOrder ==
    ASSUME FramesInv, NEW c \in Conns, NEW x \in Nat, NEW m \in Nat, 2 * x = m \/ 2 * x = m + 1,
           AnswersOK(c, Replies(c), m), AllGood(c, x) => 2 * x = m /\ AllBelow(Replies(c), x),
           send(c, Reply(x, TRUE)), parsing'[c] = 0, asked'[c] = 0, UNCHANGED kinds
    PROVE  /\ output' \in [Conns -> Seq(Answers)] /\ written' \in [Conns -> Seq(Answers)]
           /\ \A d \in Conns \ {c} : Replies(d)' = Replies(d)
           /\ OrderOK(c, m)'
<1> DEFINE r == Reply(x, TRUE)
<1>1. r \in Answers /\ r.req = x BY DEF Reply, Answers
<1>2. Replies(c) \in Seq(Answers) BY RepliesType
<1>3. send(c, r) OBVIOUS
<1> HIDE DEF r
<1>4. /\ output' \in [Conns -> Seq(Answers)] /\ written' \in [Conns -> Seq(Answers)]
      /\ Replies(c)' = Replies(c) \/ Replies(c)' = Append(Replies(c), r)
      /\ \A d \in Conns \ {c} : Replies(d)' = Replies(d)
  BY <1>1, <1>3, SendEffect
<1>5. 2 * r.req <= m + 1 BY <1>1
<1>6. ASSUME NEW j \in 1..Len(Replies(c))
      PROVE  /\ Replies(c)[j].req \in Nat /\ 2 * Replies(c)[j].req <= m + 1
             /\ Replies(c)[j].req < r.req \/ (Replies(c)[j].req = r.req /\ ~AllGood(c, r.req))
  <2>1. PICK y \in Nat : y = Replies(c)[j].req
    <3>1. Replies(c)[j] \in Answers BY <1>2, ElementOfSeq
    <3> QED BY <3>1 DEF Answers
  <2>2. 2 * y <= m + 1 BY <2>1 DEF AnswersOK
  <2>3. y < x \/ y = x BY <2>2
  <2>4. AllGood(c, x) => y < x BY <2>1 DEF AllBelow
  <2> QED BY <1>1, <2>1, <2>2, <2>3, <2>4
<1>7. AnswersOK(c, Append(Replies(c), r), m)
  BY <1>1, <1>2, <1>5, <1>6, AnswersAppend
<1>8. AnswersOK(c, Replies(c)', m) BY <1>4, <1>7
<1>9. AnswersOK(c, Replies(c), m)' BY <1>8 DEF AnswersOK, AllGood
<1>10. Straight(c, m)'
  <2>1. ASSUME NEW i \in Nat, 2 * i = m \/ 2 * i = m + 1, AllGood(c, i)
        PROVE  2 * i = m /\ \A j \in 1..Len(Replies(c)') : 2 * Replies(c)'[j].req <= m
    <3>1. i = x BY <2>1
    <3>2. 2 * x = m /\ AllBelow(Replies(c), x) BY <2>1, <3>1
    <3>3. \A j \in 1..Len(Replies(c)) : 2 * Replies(c)[j].req <= m
      BY <1>6, <3>2 DEF AllBelow
    <3>4. CASE Replies(c)' = Replies(c) BY <3>1, <3>2, <3>3, <3>4
    <3>5. CASE Replies(c)' = Append(Replies(c), r)
      <4>1. /\ Len(Replies(c)') = Len(Replies(c)) + 1 /\ Len(Replies(c)) \in Nat
            /\ \A j \in 1..Len(Replies(c)) : Replies(c)'[j] = Replies(c)[j]
            /\ Replies(c)'[Len(Replies(c)) + 1] = r
        BY <1>1, <1>2, <3>5, AppendProperties, LenProperties
      <4>2. ASSUME NEW j \in 1..Len(Replies(c)') PROVE 2 * Replies(c)'[j].req <= m
        <5>1. CASE j \in 1..Len(Replies(c)) BY <3>3, <4>1, <5>1
        <5>2. CASE j = Len(Replies(c)) + 1 BY <1>1, <3>2, <4>1, <5>2
        <5> QED BY <4>1, <5>1, <5>2
      <4> QED BY <3>1, <3>2, <4>2
    <3> QED BY <1>4, <3>4, <3>5
  <2>2. \A i \in Nat : AllGood(c, i)' = AllGood(c, i) BY DEF AllGood
  <2> QED BY <2>1, <2>2 DEF Straight
<1> QED BY <1>4, <1>9, <1>10 DEF OrderOK

LEMMA ServeKeeps ==
    ASSUME FramesInv, NEW c \in Conns, NEW n, NEW in \in Seq(Pieces), NEW pq, NEW w \in Seq(Pieces),
           SessionOK(c, n, in, w), OrderOK(c, n), serve(c, in, pq),
           UNCHANGED <<kinds, pieces>>, wire'[c] = w
    PROVE  /\ MessageFrame(c, pq)
           /\ \E m \in Nat : SessionOK(c, m, input[c], wire[c])' /\ OrderOK(c, m)'
<1>k. PICK k \in 1..Len(in) :
         /\ executes(c, in, k, "done")
         /\ input' = [input EXCEPT ![c] = SubSeq(in, k + 1, Len(in))]
         /\ answerNow(c, in[k].req, pq) \/ handOver(c, in[k].req, pq)
  BY DEF serve
<1> DEFINE x == in[k].req
           m == n + k
           rest == SubSeq(in, k + 1, Len(in))
<1>1. /\ input' = [input EXCEPT ![c] = rest]
      /\ answerNow(c, x, pq) \/ handOver(c, x, pq)
  BY <1>k
<1>2. n \in Nat /\ Segment(in, n) /\ Segment(w, n + Len(in)) /\ pieces[c] = n + Len(in) + Len(w)
  BY DEF SessionOK
<1>3. /\ x \in Nat /\ x # 0 /\ (2 * x = m \/ 2 * x = m + 1)
      /\ k \in Nat /\ k # 0 /\ Len(in) \in Nat /\ k <= Len(in) /\ m \in Nat /\ n <= m
  <2>1. /\ x \in Nat /\ x # 0 /\ (2 * x = m \/ 2 * x = m + 1)
        /\ k \in Nat /\ k # 0 /\ Len(in) \in Nat
    BY <1>2, PieceAt
  <2> QED BY <1>2, <2>1
<1>4. rest \in Seq(Pieces) /\ Len(rest) = Len(in) - k /\ Segment(rest, m)
  <2>1. k \in 0..Len(in) BY <1>3
  <2> QED BY <1>2, <2>1, SegmentRest
<1>5. Segment(w, m + Len(rest)) /\ pieces[c] = m + Len(rest) + Len(w)
  <2> HIDE DEF rest
  <2>1. n + Len(in) = m + Len(rest) BY <1>2, <1>3, <1>4
  <2> QED BY <1>2, <2>1
<1>6. Replies(c) \in Seq(Answers) /\ AnswersOK(c, Replies(c), n) BY RepliesType DEF OrderOK
<1>7. AnswersOK(c, Replies(c), m) BY <1>2, <1>3, <1>6, AnswersLater
<1>8. ASSUME AllGood(c, x)
      PROVE  2 * x = m /\ AllBelow(Replies(c), x)
             /\ \A j \in 1..Len(Replies(c)) : 2 * Replies(c)[j].req <= m
  <2>1. 2 * x = m /\ \A j \in 1..Len(Replies(c)) : 2 * Replies(c)[j].req <= n
    BY <1>k, <1>8, GoodRun
  <2>2. ASSUME NEW j \in 1..Len(Replies(c))
        PROVE  Replies(c)[j].req < x /\ 2 * Replies(c)[j].req <= m
    <3>1. Replies(c)[j] \in Answers BY <1>6, ElementOfSeq
    <3>2. PICK y \in Nat : y = Replies(c)[j].req BY <3>1 DEF Answers
    <3>3. 2 * y <= n BY <2>1, <3>2
    <3> HIDE DEF x
    <3>4. y < x /\ 2 * y <= m BY <1>2, <1>3, <2>1, <3>3
    <3> QED BY <3>2, <3>4
  <2> QED BY <2>1, <2>2 DEF AllBelow
<1> HIDE DEF x, rest, m
<1>9. /\ input'[c] = rest /\ input' \in [Conns -> Seq(Pieces)]
      /\ \A d \in Conns \ {c} : input'[d] = input[d]
  BY <1>1, <1>4 DEF FramesInv
<1>10. CASE answerNow(c, x, pq)
  <2>1. /\ send(c, Reply(x, TRUE)) /\ parsing' = [parsing EXCEPT ![c] = 0]
        /\ busy' = [busy EXCEPT ![c] = FALSE] /\ asked' = [asked EXCEPT ![c] = 0]
        /\ pending' = Append(pq, Fn("onMessage", c))
    BY <1>10 DEF answerNow, doneWrite
  <2>2. /\ parsing'[c] = 0 /\ busy'[c] = FALSE /\ asked'[c] = 0
        /\ parsing' \in [Conns -> Nat] /\ busy' \in [Conns -> BOOLEAN] /\ asked' \in [Conns -> Nat]
        /\ \A d \in Conns \ {c} :
              parsing'[d] = parsing[d] /\ busy'[d] = busy[d] /\ asked'[d] = asked[d]
    BY <2>1 DEF FramesInv
  <2>3. /\ output' \in [Conns -> Seq(Answers)] /\ written' \in [Conns -> Seq(Answers)]
        /\ \A d \in Conns \ {c} : Replies(d)' = Replies(d)
        /\ OrderOK(c, m)'
    BY <1>3, <1>7, <1>8, <2>1, <2>2, AnswerInOrder
  <2>4. MessageFrame(c, pq) BY <1>9, <2>1, <2>2, <2>3 DEF MessageFrame
  <2>5. 2 * parsing'[c] <= m + 1 BY <1>3, <2>2
  <2>6. SessionOK(c, m, input[c], wire[c])' BY <1>3, <1>4, <1>5, <1>9, <2>2, <2>5 DEF SessionOK
  <2> QED BY <1>3, <2>3, <2>4, <2>6
<1>11. CASE handOver(c, x, pq)
  <2>1. /\ busy' = [busy EXCEPT ![c] = TRUE] /\ asked' = [asked EXCEPT ![c] = x]
        /\ parsing' = [parsing EXCEPT ![c] = 0] /\ pending' = pq /\ UNCHANGED <<output, written>>
    BY <1>11 DEF handOver, replyVars
  <2>2. /\ parsing'[c] = 0 /\ busy'[c] = TRUE /\ asked'[c] = x
        /\ parsing' \in [Conns -> Nat] /\ busy' \in [Conns -> BOOLEAN] /\ asked' \in [Conns -> Nat]
        /\ \A d \in Conns \ {c} :
              parsing'[d] = parsing[d] /\ busy'[d] = busy[d] /\ asked'[d] = asked[d]
    BY <1>3, <2>1 DEF FramesInv
  <2>3. \A d \in Conns : Replies(d)' = Replies(d) BY <2>1 DEF Replies
  <2>4. MessageFrame(c, pq) BY <1>9, <2>1, <2>2, <2>3 DEF MessageFrame, FramesInv
  <2>5. 2 * parsing'[c] <= m + 1 BY <1>3, <2>2
  <2>6. SessionOK(c, m, input[c], wire[c])' BY <1>3, <1>4, <1>5, <1>9, <2>2, <2>5 DEF SessionOK
  <2>7. AnswersOK(c, Replies(c), m)' BY <1>7, <2>3 DEF AnswersOK, AllGood
  <2>8. Straight(c, m)'
    <3>1. \A i \in Nat : AllGood(c, i)' = AllGood(c, i) BY DEF AllGood
    <3>2. \A i \in Nat : 2 * i = m \/ 2 * i = m + 1 => i = x BY <1>3
    <3>3. Replies(c)' = Replies(c) BY <2>3
    <3> QED BY <1>8, <2>2, <3>1, <3>2, <3>3 DEF Straight, AllBelow
  <2> QED BY <1>3, <2>4, <2>6, <2>7, <2>8 DEF OrderOK
<1> QED BY <1>1, <1>10, <1>11

(* So onMessage, on whatever buffer.                                       *)
LEMMA MessageKeeps ==
    ASSUME FramesInv, NEW c \in Conns, NEW n, NEW in \in Seq(Pieces), NEW pq, NEW w \in Seq(Pieces),
           SessionOK(c, n, in, w), OrderOK(c, n), onMessage(c, in, pq),
           UNCHANGED <<kinds, pieces>>, wire'[c] = w
    PROVE  /\ MessageFrame(c, pq)
           /\ \E m \in Nat : SessionOK(c, m, input[c], wire[c])' /\ OrderOK(c, m)'
<1>1. n \in Nat BY DEF SessionOK
<1> QED BY <1>1, SkipKeeps, RefuseKeeps, ParseOnKeeps, ServeKeeps DEF onMessage
-----------------------------------------------------------------------------
(* The queue of pending functions.                                         *)
LEMMA QueueEnd ==
    ASSUME NEW s \in Seq(Fns), NEW x \in Fns
    PROVE  Append(s, x) \in Seq(Fns) /\ Elements(Append(s, x)) = Elements(s) \cup {x}
<1> DEFINE t == Append(s, x)
<1>1. /\ t \in Seq(Fns) /\ Len(t) = Len(s) + 1 /\ Len(s) \in Nat
      /\ \A i \in 1..Len(s) : t[i] = s[i]
      /\ t[Len(s) + 1] = x /\ DOMAIN s = 1..Len(s) /\ DOMAIN t = 1..Len(t)
  BY AppendProperties, LenProperties
<1> HIDE DEF t
<1>2. \A i \in DOMAIN t : t[i] \in Elements(s) \cup {x} BY <1>1 DEF Elements
<1>3. \A i \in DOMAIN s : s[i] \in Elements(t) BY <1>1 DEF Elements
<1>4. x \in Elements(t)
  <2>1. Len(s) + 1 \in DOMAIN t BY <1>1
  <2> QED BY <1>1, <2>1 DEF Elements
<1>5. Elements(t) = Elements(s) \cup {x} BY <1>2, <1>3, <1>4 DEF Elements
<1> QED BY <1>1, <1>5 DEF t

LEMMA QueueFront ==
    ASSUME NEW s \in Seq(Fns), s # <<>>
    PROVE  /\ Tail(s) \in Seq(Fns) /\ Head(s) \in Fns /\ Head(s) \in Elements(s)
           /\ Elements(Tail(s)) \subseteq Elements(s)
           /\ Elements(s) \subseteq Elements(Tail(s)) \cup {Head(s)}
<1> DEFINE t == Tail(s)
<1>1. /\ t \in Seq(Fns) /\ Head(s) \in Fns /\ Len(t) = Len(s) - 1
      /\ Len(s) \in Nat /\ Len(s) # 0 /\ Head(s) = s[1]
      /\ \A i \in 1..Len(t) : t[i] = s[i + 1]
      /\ DOMAIN s = 1..Len(s) /\ DOMAIN t = 1..Len(t)
  BY HeadTailProperties, LenProperties, EmptySeq
<1> HIDE DEF t
<1>2. 1 \in DOMAIN s BY <1>1
<1>3. \A i \in DOMAIN t : t[i] \in Elements(s)
  <2>1. \A i \in DOMAIN t : i + 1 \in DOMAIN s /\ t[i] = s[i + 1] BY <1>1
  <2> QED BY <2>1 DEF Elements
<1>4. \A i \in DOMAIN s : s[i] \in Elements(t) \cup {Head(s)}
  <2>1. ASSUME NEW i \in DOMAIN s, i # 1 PROVE s[i] \in Elements(t)
    <3>1. i - 1 \in DOMAIN t /\ (i - 1) + 1 = i BY <1>1, <2>1
    <3>2. t[i - 1] = s[i] BY <1>1, <3>1
    <3> QED BY <3>1, <3>2 DEF Elements
  <2> QED BY <1>1, <2>1
<1>5. Head(s) \in Elements(s) BY <1>1, <1>2 DEF Elements
<1>6. Elements(t) \subseteq Elements(s) BY <1>3 DEF Elements
<1>7. Elements(s) \subseteq Elements(t) \cup {Head(s)} BY <1>4 DEF Elements
<1> QED BY <1>1, <1>5, <1>6, <1>7 DEF t

LEMMA FnFacts ==
    ASSUME NEW c \in Conns
    PROVE  /\ Fn("remove", c) \in Fns /\ Fn("remove", c).fn = "remove" /\ Fn("remove", c).conn = c
           /\ Fn("onMessage", c) \in Fns /\ Fn("onMessage", c).fn = "onMessage"
           /\ Fn("onMessage", c).conn = c
           /\ \A d : Fn("onMessage", d) # Fn("remove", c)
BY DEF Fn, Fns
-----------------------------------------------------------------------------
LEMMA HInvInit == HInit => HInv
<1> SUFFICES ASSUME HInit PROVE HInv OBVIOUS
<1> USE DEF HInit
<1>0. <<>> \in Seq(Kinds) /\ <<>> \in Seq(Pieces) /\ <<>> \in Seq(Answers) /\ <<>> \in Seq(Fns)
      /\ Len(<<>>) = 0 /\ Elements(<<>>) = {}
  BY EmptySeq DEF Elements
<1>1. FramesInv BY <1>0 DEF FramesInv
<1>2. WritesInv
  <2>1. ASSUME NEW c \in Conns PROVE Len(kinds[c]) = 0 /\ pieces[c] = 0 /\ MaxRequests[c] \in Nat
    <3>1. kinds[c] = <<>> OBVIOUS
    <3> QED BY <1>0, <3>1, HttpAssumption
  <2> HIDE DEF HInit
  <2>2. ASSUME NEW c \in Conns PROVE Len(kinds[c]) <= MaxRequests[c] /\ pieces[c] <= 2 * Len(kinds[c])
    BY <2>1
  <2> QED BY <2>2 DEF WritesInv
<1>3. TableInv
  <2>1. (CHOOSE f \in Fds : TRUE) \in Fds BY HttpAssumption
  <2> QED BY <1>0, <2>1, HttpAssumption DEF TableInv, TableOwnsConnected
<1>4. ASSUME NEW c \in Conns PROVE SessionOK(c, 0, input[c], wire[c]) /\ OrderOK(c, 0)
  <2>1. Replies(c) = <<>> BY <1>0, ConcatEmptySeq DEF Replies
  <2>2. pieces[c] = 0 /\ input[c] = <<>> /\ wire[c] = <<>> /\ busy[c] = FALSE
        /\ parsing[c] = 0 /\ asked[c] = 0
    OBVIOUS
  <2>3. SessionOK(c, 0, input[c], wire[c]) BY <1>0, <2>2 DEF SessionOK, Segment
  <2>4. OrderOK(c, 0) BY <1>0, <2>1, <2>2 DEF OrderOK, AnswersOK, Straight
  <2> QED BY <2>3, <2>4
<1>5. StreamInv BY <1>4 DEF StreamInv
<1>6. NothingStranded BY DEF NothingStranded
<1> QED BY <1>1, <1>2, <1>3, <1>5, <1>6 DEF HInv

(* A session whose requests, answers and state are as they were.           *)
LEMMA OrderStands ==
    ASSUME NEW c, NEW n, OrderOK(c, n), kinds'[c] = kinds[c], parsing'[c] = parsing[c],
           asked'[c] = asked[c], Replies(c)' = Replies(c)
    PROVE  OrderOK(c, n)'
BY DEF OrderOK, AnswersOK, Straight, AllGood, AllBelow

(* The steps that run onMessage on the buffer in of c, when w is left in   *)
(* the kernel and the queue was pq.                                        *)
LEMMA MessageStep ==
    ASSUME HInv, NEW c \in Conns, NEW in \in Seq(Pieces), NEW w \in Seq(Pieces),
           NEW pq \in Seq(Fns), onMessage(c, in, pq),
           NEW n, SessionOK(c, n, in, w), OrderOK(c, n),
           wire' = [wire EXCEPT ![c] = w], UNCHANGED <<clientVars, edge, st, fd, table, stopping>>,
           reading' = reading,
           Elements(pq) \subseteq Elements(pending),
           \A d \in Conns \ {c} : Fn("onMessage", d) \in Elements(pending) =>
                                     Fn("onMessage", d) \in Elements(pq)
    PROVE  HInv'
<1>0. FramesInv /\ WritesInv /\ TableInv /\ StreamInv /\ NothingStranded BY DEF HInv
<1>1. UNCHANGED <<kinds, pieces, gone>> BY DEF clientVars
<1>2. /\ wire'[c] = w /\ wire' \in [Conns -> Seq(Pieces)]
      /\ \A d \in Conns \ {c} : wire'[d] = wire[d]
  BY <1>0 DEF FramesInv
<1>3. PICK m \in Nat : SessionOK(c, m, input[c], wire[c])' /\ OrderOK(c, m)'
  BY <1>0, <1>1, <1>2, MessageKeeps
<1>4. MessageFrame(c, pq) BY <1>0, <1>1, <1>2, MessageKeeps
<1>5. /\ pending' \in Seq(Fns) /\ Elements(pq) \subseteq Elements(pending')
      /\ Elements(pending') \subseteq Elements(pq) \cup {Fn("onMessage", c)}
      /\ busy'[c] \/ input'[c] = <<>> \/ Fn("onMessage", c) \in Elements(pending')
  <2> DEFINE x == Fn("onMessage", c)
  <2>1. x \in Fns BY FnFacts
  <2>2. /\ pending' = pq \/ pending' = Append(pq, x)
        /\ busy'[c] \/ input'[c] = <<>> \/ pending' = Append(pq, x)
    BY <1>4 DEF MessageFrame
  <2> HIDE DEF x
  <2>3. CASE pending' = Append(pq, x)
    <3>1. Append(pq, x) \in Seq(Fns) /\ Elements(Append(pq, x)) = Elements(pq) \cup {x}
      BY <2>1, QueueEnd
    <3> QED BY <2>3, <3>1 DEF x
  <2>4. CASE pending' # Append(pq, x) BY <2>2, <2>4
  <2> QED BY <2>3, <2>4
<1>6. FramesInv' BY <1>0, <1>1, <1>2, <1>4, <1>5 DEF FramesInv, MessageFrame
<1>7. WritesInv' BY <1>0, <1>1 DEF WritesInv
<1>8. TableInv'
  <2>1. \A p \in Elements(pending') : p.fn = "remove" => p \in Elements(pending)
    BY <1>5, FnFacts
  <2> QED BY <1>0, <2>1 DEF TableInv, TableOwnsConnected
<1>9. ASSUME NEW d \in Conns \ {c}
      PROVE  \E k \in Nat : SessionOK(d, k, input[d], wire[d])' /\ OrderOK(d, k)'
  <2>1. PICK k \in Nat : SessionOK(d, k, input[d], wire[d]) /\ OrderOK(d, k)
    BY <1>0 DEF StreamInv
  <2>2. SessionOK(d, k, input[d], wire[d])'
    BY <1>1, <1>2, <1>4, <2>1 DEF SessionOK, MessageFrame
  <2>3. OrderOK(d, k)' BY <1>1, <1>4, <2>1, OrderStands DEF MessageFrame
  <2> QED BY <2>2, <2>3
<1>10. StreamInv' BY <1>3, <1>9 DEF StreamInv
<1>11. NothingStranded'
  <2>1. ASSUME NEW d \in Conns, ~busy'[d], input'[d] # <<>>
        PROVE  Fn("onMessage", d) \in Elements(pending')
    <3>1. CASE d = c BY <1>5, <2>1, <3>1
    <3>2. CASE d # c
      <4>1. ~busy[d] /\ input[d] # <<>> BY <1>4, <2>1, <3>2 DEF MessageFrame
      <4>2. Fn("onMessage", d) \in Elements(pending) BY <1>0, <4>1 DEF NothingStranded
      <4> QED BY <1>5, <3>2, <4>2
    <3> QED BY <3>1, <3>2
  <2> QED BY <2>1 DEF NothingStranded
<1> QED BY <1>6, <1>7, <1>8, <1>10, <1>11 DEF HInv

(* Steps that run no part of a session leave its position alone.           *)
LEMMA StreamStands ==
    ASSUME StreamInv,
           UNCHANGED <<kinds, pieces, wire, input, parsing, busy, asked, output, written>>
    PROVE  StreamInv'
<1>1. ASSUME NEW c \in Conns
      PROVE  \E n \in Nat : SessionOK(c, n, input[c], wire[c])' /\ OrderOK(c, n)'
  <2>1. PICK n \in Nat : SessionOK(c, n, input[c], wire[c]) /\ OrderOK(c, n) BY DEF StreamInv
  <2>2. SessionOK(c, n, input[c], wire[c])' BY <2>1 DEF SessionOK
  <2>3. OrderOK(c, n)'
    <3>1. Replies(c)' = Replies(c) BY DEF Replies
    <3> QED BY <2>1, <3>1, OrderStands
  <2> QED BY <2>2, <2>3
<1> QED BY <1>1 DEF StreamInv

LEMMA ReadSomeKeeps ==
    ASSUME HInv, NEW c \in Conns, readSome(c)
    PROVE  HInv'
<1>1. PICK k \in 1..Len(wire[c]) :
         /\ wire' = [wire EXCEPT ![c] = SubSeq(@, k + 1, Len(@))]
         /\ onMessage(c, input[c] \o SubSeq(wire[c], 1, k), pending)
  BY DEF readSome
<1>2. PICK n \in Nat : SessionOK(c, n, input[c], wire[c]) /\ OrderOK(c, n)
  BY DEF HInv, StreamInv
<1>3. input[c] \in Seq(Pieces) /\ wire[c] \in Seq(Pieces) /\ pending \in Seq(Fns)
  BY DEF HInv, FramesInv
<1> DEFINE in == input[c] \o SubSeq(wire[c], 1, k)
           w == SubSeq(wire[c], k + 1, Len(wire[c]))
<1>4. in \in Seq(Pieces) /\ w \in Seq(Pieces) /\ SessionOK(c, n, in, w)
  BY <1>2, <1>3, ReadMore
<1>5. wire' = [wire EXCEPT ![c] = w] /\ onMessage(c, in, pending) BY <1>1
<1>6. UNCHANGED <<clientVars, edge, st, fd, table, stopping>> /\ reading' = reading
  BY DEF readSome
<1> HIDE DEF in, w
<1> QED BY <1>2, <1>3, <1>4, <1>5, <1>6, MessageStep

LEMMA DoPendingKeeps ==
    ASSUME HInv, doPending
    PROVE  HInv'
<1> DEFINE p == Head(pending)
<1>0. FramesInv /\ WritesInv /\ TableInv /\ StreamInv /\ NothingStranded BY DEF HInv
<1>1. pending \in Seq(Fns) /\ pending # <<>> BY <1>0 DEF FramesInv, doPending
<1>2. /\ Tail(pending) \in Seq(Fns) /\ p \in Fns /\ p \in Elements(pending)
      /\ Elements(Tail(pending)) \subseteq Elements(pending)
      /\ Elements(pending) \subseteq Elements(Tail(pending)) \cup {p}
  BY <1>1, QueueFront
<1>3. PICK c \in Conns : c = p.conn /\ p.fn \in {"remove", "onMessage"} /\ p = Fn(p.fn, c)
  BY <1>2 DEF Fns, Fn
<1>4. UNCHANGED <<clientVars, wire, edge, st, fd, reading, stopping>> BY DEF doPending
<1>5. ASSUME p.fn = "remove", removeConnection(c) PROVE HInv'
  <2>1. /\ table' = [table EXCEPT ![fd[c]] = IF @ = c THEN Nobody ELSE @]
        /\ pending' = Tail(pending)
        /\ UNCHANGED <<input, parsing, busy, asked, output, written>>
    BY <1>5 DEF removeConnection, sessionVars, replyVars
  <2>2. st[c] = "disconnected" BY <1>0, <1>2, <1>3, <1>5 DEF TableInv
  <2>3. UNCHANGED <<kinds, pieces, gone, wire, edge, st, fd, reading, stopping>>
    BY <1>4 DEF clientVars
  <2>4. FramesInv' BY <1>0, <1>2, <2>1, <2>3 DEF FramesInv
  <2>5. WritesInv' BY <1>0, <2>3 DEF WritesInv
  <2>6. TableInv'
    <3>1. table' \in [Fds -> Conns \cup {Nobody}] BY <1>0, <1>3, <2>1 DEF TableInv
    <3>2. \A f \in Fds : table'[f] = table[f] \/ (table[f] = c /\ table'[f] = Nobody)
      BY <1>0, <1>3, <2>1 DEF TableInv
    <3>3. \A f \in Fds : table'[f] # Nobody => fd[table'[f]] = f /\ st[table'[f]] # "new"
      BY <1>0, <3>2 DEF TableInv
    <3>4. \A d \in Conns : st[d] = "connected" => table'[fd[d]] = d
      <4>1. ASSUME NEW d \in Conns, st[d] = "connected" PROVE table'[fd[d]] = d
        <5>1. fd[d] \in Fds /\ table[fd[d]] = d BY <1>0, <4>1 DEF TableInv, TableOwnsConnected
        <5>2. d # c BY <2>2, <4>1
        <5> QED BY <3>2, <5>1, <5>2
      <4> QED BY <4>1
    <3>5. \A x \in Elements(pending') : x.fn = "remove" => st[x.conn] = "disconnected"
      BY <1>0, <1>2, <2>1 DEF TableInv
    <3> QED BY <1>0, <2>3, <3>1, <3>3, <3>4, <3>5 DEF TableInv, TableOwnsConnected
  <2>7. StreamInv' BY <1>0, <2>1, <2>3, StreamStands
  <2>8. NothingStranded'
    <3>1. \A d \in Conns : Fn("onMessage", d) # p BY <1>3, <1>5, FnFacts
    <3>2. \A d \in Conns : Fn("onMessage", d) \in Elements(pending)
                              => Fn("onMessage", d) \in Elements(pending')
      BY <1>2, <2>1, <3>1
    <3> QED BY <1>0, <2>1, <3>2 DEF NothingStranded
  <2> QED BY <2>4, <2>5, <2>6, <2>7, <2>8 DEF HInv
<1>6. ASSUME p.fn = "onMessage", onMessage(c, input[c], Tail(pending)), UNCHANGED table PROVE HInv'
  <2>1. PICK n \in Nat : SessionOK(c, n, input[c], wire[c]) /\ OrderOK(c, n)
    BY <1>0, <1>3 DEF StreamInv
  <2>2. input[c] \in Seq(Pieces) /\ wire[c] \in Seq(Pieces) BY <1>0, <1>3 DEF FramesInv
  <2>3. wire' = [wire EXCEPT ![c] = wire[c]] BY <1>0, <1>3, <1>4 DEF FramesInv
  <2>4. p = Fn("onMessage", c) BY <1>3, <1>6
  <2>5. \A d \in Conns \ {c} : Fn("onMessage", d) # p
    BY <1>3, <2>4, FnFacts
  <2>6. \A d \in Conns \ {c} : Fn("onMessage", d) \in Elements(pending) =>
                                  Fn("onMessage", d) \in Elements(Tail(pending))
    BY <1>2, <2>5
  <2> QED BY <1>2, <1>3, <1>4, <1>6, <2>1, <2>2, <2>3, <2>6, MessageStep
<1> QED BY <1>3, <1>5, <1>6 DEF doPending

LEMMA AnswerKeeps ==
    ASSUME HInv, NEW c \in Conns, answer(c)
    PROVE  HInv'
<1> DEFINE x == Fn("onMessage", c)
<1>0. FramesInv /\ WritesInv /\ TableInv /\ StreamInv /\ NothingStranded BY DEF HInv
<1>i. PICK i \in Nat : i = asked[c] BY <1>0 DEF FramesInv
<1>1. /\ i # 0 /\ send(c, Reply(i, TRUE))
      /\ parsing' = [parsing EXCEPT ![c] = 0] /\ busy' = [busy EXCEPT ![c] = FALSE]
      /\ asked' = [asked EXCEPT ![c] = 0] /\ pending' = Append(pending, x)
      /\ UNCHANGED <<kinds, pieces, gone, wire, edge, st, fd, table, input, reading, stopping>>
  BY <1>i DEF answer, doneWrite, clientVars
<1>2. x \in Fns /\ pending \in Seq(Fns) /\ x.fn = "onMessage"
  BY <1>0, FnFacts DEF FramesInv
<1>3. /\ parsing'[c] = 0 /\ busy'[c] = FALSE /\ asked'[c] = 0
      /\ parsing' \in [Conns -> Nat] /\ busy' \in [Conns -> BOOLEAN] /\ asked' \in [Conns -> Nat]
      /\ \A d \in Conns \ {c} :
            parsing'[d] = parsing[d] /\ busy'[d] = busy[d] /\ asked'[d] = asked[d]
  BY <1>0, <1>1 DEF FramesInv
<1> HIDE DEF x
<1>4. pending' \in Seq(Fns) /\ Elements(pending') = Elements(pending) \cup {x}
  BY <1>1, <1>2, QueueEnd
<1>5. PICK n \in Nat : SessionOK(c, n, input[c], wire[c]) /\ OrderOK(c, n) BY <1>0 DEF StreamInv
<1>6. /\ 2 * i = n \/ 2 * i = n + 1
      /\ AnswersOK(c, Replies(c), n)
      /\ AllGood(c, i) => 2 * i = n /\ AllBelow(Replies(c), i)
  BY <1>i, <1>1, <1>5 DEF SessionOK, OrderOK, Straight
<1>8. /\ output' \in [Conns -> Seq(Answers)] /\ written' \in [Conns -> Seq(Answers)]
      /\ \A d \in Conns \ {c} : Replies(d)' = Replies(d)
      /\ OrderOK(c, n)'
  BY <1>0, <1>1, <1>3, <1>6, AnswerInOrder
<1>9. FramesInv' BY <1>0, <1>1, <1>3, <1>4, <1>8 DEF FramesInv
<1>10. WritesInv' BY <1>0, <1>1 DEF WritesInv
<1>11. TableInv'
  <2>1. \A p \in Elements(pending') : p.fn = "remove" => p \in Elements(pending)
    BY <1>2, <1>4
  <2> QED BY <1>0, <1>1, <2>1 DEF TableInv, TableOwnsConnected
<1>12. SessionOK(c, n, input[c], wire[c])'
  <2>1. 2 * parsing'[c] <= n + 1 BY <1>3
  <2> QED BY <1>1, <1>3, <1>5, <2>1 DEF SessionOK
<1>13. OrderOK(c, n)' BY <1>8
<1>14. ASSUME NEW d \in Conns \ {c}
       PROVE  \E k \in Nat : SessionOK(d, k, input[d], wire[d])' /\ OrderOK(d, k)'
  <2>1. PICK k \in Nat : SessionOK(d, k, input[d], wire[d]) /\ OrderOK(d, k)
    BY <1>0 DEF StreamInv
  <2>2. SessionOK(d, k, input[d], wire[d])' BY <1>1, <1>3, <2>1 DEF SessionOK
  <2>3. OrderOK(d, k)' BY <1>1, <1>3, <1>8, <2>1, OrderStands
  <2> QED BY <2>2, <2>3
<1>15. StreamInv' BY <1>12, <1>13, <1>14 DEF StreamInv
<1>16. NothingStranded'
  <2>1. ASSUME NEW d \in Conns, ~busy'[d], input'[d] # <<>>
        PROVE  Fn("onMessage", d) \in Elements(pending')
    <3>1. CASE d = c BY <1>4, <3>1 DEF x
    <3>2. CASE d # c BY <1>0, <1>1, <1>3, <1>4, <2>1, <3>2 DEF NothingStranded
    <3> QED BY <3>1, <3>2
  <2> QED BY <2>1 DEF NothingStranded
<1> QED BY <1>9, <1>10, <1>11, <1>15, <1>16 DEF HInv

(* handleWrite moves answers from the buffer to the kernel: their order    *)
(* stays as it is.                                                         *)
LEMMA HandleWriteKeeps ==
    ASSUME HInv, NEW c \in Conns, handleWrite(c)
    PROVE  HInv'
<1>0. FramesInv /\ WritesInv /\ TableInv /\ StreamInv /\ NothingStranded BY DEF HInv
<1>1. UNCHANGED <<kinds, pieces, gone, wire, edge, st, fd, table, input, parsing, busy, asked,
                  reading, pending, stopping>>
  BY DEF handleWrite, clientVars, sessionVars
<1>2. PICK k \in 1..Len(output[c]) :
         /\ written' = [written EXCEPT ![c] = @ \o SubSeq(output[c], 1, k)]
         /\ output' = [output EXCEPT ![c] = SubSeq(@, k + 1, Len(@))]
  BY DEF handleWrite
<1> DEFINE o == output[c]
           a == SubSeq(o, 1, k)
           b == SubSeq(o, k + 1, Len(o))
<1>3. o \in Seq(Answers) /\ written[c] \in Seq(Answers) BY <1>0 DEF FramesInv
<1>4. Len(o) \in Nat /\ k \in Nat /\ k <= Len(o) /\ k \in Int /\ k + 1 \in Int /\ Len(o) \in Int
  BY <1>3, LenProperties
<1>5. \A i \in 1..Len(o) : o[i] \in Answers BY <1>3, ElementOfSeq
<1>6. (\A i \in 1..k : o[i] \in Answers) /\ (\A i \in (k + 1)..Len(o) : o[i] \in Answers)
  BY <1>4, <1>5
<1>7. a \in Seq(Answers) /\ b \in Seq(Answers) BY <1>4, <1>6, SubSeqProperties
<1>8. a \o b = o
  <2>1. /\ 1 \in 1..(Len(o) + 1) /\ k \in (1 - 1)..Len(o) /\ Len(o) \in k..Len(o)
    BY <1>4
  <2>2. a \o b = SubSeq(o, 1, Len(o)) BY <1>3, <2>1, ConcatAdjacentSubSeq
  <2> QED BY <1>3, <2>2, SubSeqFull
<1>9. written' = [written EXCEPT ![c] = written[c] \o a] /\ output' = [output EXCEPT ![c] = b]
  BY <1>2
<1> HIDE DEF a, b
<1>10. written[c] \o a \in Seq(Answers) BY <1>3, <1>7, ConcatProperties
<1>11. /\ written' \in [Conns -> Seq(Answers)] /\ output' \in [Conns -> Seq(Answers)]
       /\ written'[c] = written[c] \o a /\ output'[c] = b
       /\ \A d \in Conns \ {c} : written'[d] = written[d] /\ output'[d] = output[d]
  BY <1>0, <1>7, <1>9, <1>10 DEF FramesInv
<1>12. Replies(c)' = Replies(c)
  <2>1. \A x, y, z \in Seq(Answers) : (x \o y) \o z = x \o (y \o z) BY ConcatAssociative
  <2>2. (written[c] \o a) \o b = written[c] \o (a \o b) BY <1>3, <1>7, <2>1
  <2> QED BY <1>8, <1>11, <2>2 DEF Replies
<1>13. \A d \in Conns : Replies(d)' = Replies(d) BY <1>11, <1>12 DEF Replies
<1>14. FramesInv' BY <1>0, <1>1, <1>11 DEF FramesInv
<1>15. WritesInv' /\ TableInv' /\ NothingStranded'
  BY <1>0, <1>1 DEF WritesInv, TableInv, TableOwnsConnected, NothingStranded
<1>16. StreamInv'
  <2>1. ASSUME NEW d \in Conns
        PROVE  \E n \in Nat : SessionOK(d, n, input[d], wire[d])' /\ OrderOK(d, n)'
    <3>1. PICK n \in Nat : SessionOK(d, n, input[d], wire[d]) /\ OrderOK(d, n)
      BY <1>0 DEF StreamInv
    <3>2. SessionOK(d, n, input[d], wire[d])' BY <1>1, <3>1 DEF SessionOK
    <3>3. OrderOK(d, n)' BY <1>1, <1>13, <3>1, OrderStands
    <3> QED BY <3>2, <3>3
  <2> QED BY <2>1 DEF StreamInv
<1> QED BY <1>14, <1>15, <1>16 DEF HInv

(* The client writes the next piece of its stream.                         *)
LEMMA ClientWritesKeeps ==
    ASSUME HInv, NEW c \in Conns, clientWrites(c)
    PROVE  HInv'
<1>0. FramesInv /\ WritesInv /\ TableInv /\ StreamInv /\ NothingStranded BY DEF HInv
<1>1. /\ pieces' = [pieces EXCEPT ![c] = @ + 1]
      /\ wire' = [wire EXCEPT ![c] = Append(@, Piece(pieces[c] + 1))]
      /\ edge' = [edge EXCEPT ![c] = TRUE]
      /\ UNCHANGED <<gone, st, fd, table, input, parsing, busy, asked, output, written, reading,
                     pending, stopping>>
  BY DEF clientWrites, sessionVars, replyVars
<1>2. PICK n \in Nat : SessionOK(c, n, input[c], wire[c]) /\ OrderOK(c, n) BY <1>0 DEF StreamInv
<1>p. PICK p \in Nat : p = pieces[c] BY <1>0 DEF FramesInv
<1>3. PICK x : x = Piece(p + 1) OBVIOUS
<1>4. x \in Pieces BY <1>3, PieceFacts
<1>w. PICK w \in Seq(Pieces) : w = wire[c] BY <1>0 DEF FramesInv
<1> DEFINE v == Append(w, x)
<1>5. /\ v \in Seq(Pieces) /\ Len(v) = Len(w) + 1 /\ Len(w) \in Nat
      /\ \A i \in 1..Len(w) : v[i] = w[i]
      /\ v[Len(w) + 1] = x
  BY <1>4, AppendProperties, LenProperties
<1>6. wire' = [wire EXCEPT ![c] = v] BY <1>1, <1>p, <1>3, <1>w
<1> HIDE DEF v
<1>7. /\ wire' \in [Conns -> Seq(Pieces)] /\ wire'[c] = v
      /\ pieces' \in [Conns -> Nat] /\ pieces'[c] = p + 1
      /\ \A d \in Conns \ {c} : wire'[d] = wire[d] /\ pieces'[d] = pieces[d]
  BY <1>0, <1>1, <1>p, <1>5, <1>6 DEF FramesInv
<1>8. /\ kinds' \in [Conns -> Seq(Kinds)] /\ Len(kinds'[c]) <= MaxRequests[c]
      /\ p + 1 <= 2 * Len(kinds'[c]) /\ \A d \in Conns \ {c} : kinds'[d] = kinds[d]
      /\ \A j \in 1..Len(kinds[c]) : kinds'[c][j] = kinds[c][j]
  <2>1. PICK q \in Seq(Kinds) : q = kinds[c] BY <1>0 DEF FramesInv
  <2>2. Len(q) \in Nat /\ Len(q) <= MaxRequests[c] /\ p <= 2 * Len(q) /\ MaxRequests[c] \in Nat
    BY <1>0, <1>p, <2>1, LenProperties, HttpAssumption DEF WritesInv
  <2>3. CASE p % 2 = 1 /\ UNCHANGED kinds
    <3>1. \A l \in Nat : p <= 2 * l => p + 1 <= 2 * l BY <2>3
    <3>2. p + 1 <= 2 * Len(q) BY <2>2, <3>1
    <3> QED BY <1>0, <2>1, <2>2, <2>3, <3>2 DEF FramesInv
  <2>4. ASSUME Len(q) < MaxRequests[c],
               NEW k \in Kinds, kinds' = [kinds EXCEPT ![c] = Append(@, k)]
        PROVE  /\ kinds' \in [Conns -> Seq(Kinds)] /\ Len(kinds'[c]) <= MaxRequests[c]
               /\ p + 1 <= 2 * Len(kinds'[c]) /\ \A d \in Conns \ {c} : kinds'[d] = kinds[d]
               /\ \A j \in 1..Len(q) : kinds'[c][j] = q[j]
    <3>1. /\ Append(q, k) \in Seq(Kinds) /\ Len(Append(q, k)) = Len(q) + 1
          /\ \A j \in 1..Len(q) : Append(q, k)[j] = q[j]
      BY AppendProperties
    <3>2. kinds' \in [Conns -> Seq(Kinds)] /\ kinds'[c] = Append(q, k)
          /\ \A d \in Conns \ {c} : kinds'[d] = kinds[d]
      BY <1>0, <2>1, <2>4, <3>1 DEF FramesInv
    <3>3. Len(q) + 1 <= MaxRequests[c] /\ p + 1 <= 2 * (Len(q) + 1) BY <2>2, <2>4
    <3> QED BY <3>1, <3>2, <3>3
  <2> QED BY <1>p, <2>1, <2>3, <2>4 DEF clientWrites
<1>9. FramesInv' BY <1>0, <1>1, <1>7, <1>8 DEF FramesInv
<1>10. WritesInv'
  <2>1. ASSUME NEW d \in Conns
        PROVE  Len(kinds'[d]) <= MaxRequests[d] /\ pieces'[d] <= 2 * Len(kinds'[d])
    <3>1. CASE d = c BY <1>7, <1>8, <3>1
    <3>2. CASE d # c BY <1>0, <1>7, <1>8, <3>2 DEF WritesInv
    <3> QED BY <3>1, <3>2
  <2> QED BY <2>1 DEF WritesInv
<1>11. TableInv' /\ NothingStranded'
  BY <1>0, <1>1 DEF TableInv, TableOwnsConnected, NothingStranded
<1>12. SessionOK(c, n, input[c], wire[c])'
  <2>1. /\ p = n + Len(input[c]) + Len(w) /\ Segment(input[c], n)
        /\ Segment(w, n + Len(input[c]))
    BY <1>2, <1>p, <1>w DEF SessionOK
  <2>2. PICK l \in Nat : l = Len(input[c])
    <3>1. input[c] \in Seq(Pieces) BY <1>0 DEF FramesInv
    <3> QED BY <3>1, LenProperties
  <2>a. p = n + l + Len(w) /\ Segment(w, n + l) BY <2>1, <2>2
  <2>3. p + 1 = n + l + Len(v) BY <1>5, <2>a
  <2>4. ASSUME NEW i \in 1..Len(v) PROVE v[i] = Piece(n + l + i)
    <3>1. CASE i \in 1..Len(w) BY <1>5, <2>a, <3>1 DEF Segment
    <3>2. CASE i = Len(w) + 1
      <4>1. n + l + i = p + 1 BY <1>5, <2>a, <3>2
      <4> QED BY <1>3, <1>5, <3>2, <4>1
    <3> QED BY <1>5, <3>1, <3>2
  <2>5. Segment(v, n + l) BY <2>4 DEF Segment
  <2> QED BY <1>1, <1>2, <1>7, <2>1, <2>2, <2>3, <2>5 DEF SessionOK
<1>13. \A d \in Conns : Replies(d)' = Replies(d) BY <1>1 DEF Replies
<1>14. OrderOK(c, n)'
  <2>1. PICK q \in Seq(Kinds) : q = kinds[c] BY <1>0 DEF FramesInv
  <2>2. /\ Len(q) \in Nat /\ n + 1 <= 2 * Len(q) + 1
        /\ \A j \in 1..Len(q) : kinds'[c][j] = kinds[c][j]
    <3>1. Len(input[c]) \in Nat /\ Len(wire[c]) \in Nat /\ Len(q) \in Nat
      BY <1>0, LenProperties DEF FramesInv
    <3>2. p = n + Len(input[c]) + Len(wire[c]) /\ p <= 2 * Len(q)
      BY <1>0, <1>2, <1>p, <2>1 DEF SessionOK, WritesInv
    <3>3. n <= p BY <3>1, <3>2, LenSum
    <3>4. n + 1 <= 2 * Len(q) + 1
      <4>1. PICK l \in Nat : l = Len(q) BY <3>1
      <4>2. p <= 2 * l BY <3>2, <4>1
      <4>3. n + 1 <= 2 * l + 1 BY <3>3, <4>2
      <4> QED BY <4>1, <4>3
    <3> QED BY <1>8, <2>1, <3>1, <3>4
  <2>3. ASSUME NEW i \in Nat, 2 * i <= n + 1 PROVE AllGood(c, i)' = AllGood(c, i)
    <3>1. i <= Len(q) BY <2>2, <2>3
    <3>2. \A j \in 1..i : j \in 1..Len(q) BY <2>2, <3>1
    <3> QED BY <2>2, <3>2 DEF AllGood
  <2>4. Replies(c) \in Seq(Answers) BY <1>0, RepliesType
  <2>5. \A k \in 1..Len(Replies(c)) : Replies(c)[k].req \in Nat
    <3>1. \A k \in 1..Len(Replies(c)) : Replies(c)[k] \in Answers BY <2>4, ElementOfSeq
    <3> QED BY <3>1 DEF Answers
  <2>6. AnswersOK(c, Replies(c), n)'
    BY <1>2, <1>13, <2>3, <2>5 DEF OrderOK, AnswersOK
  <2>7. \A i \in Nat : 2 * i = n \/ 2 * i = n + 1 => 2 * i <= n + 1 OBVIOUS
  <2>8. Straight(c, n)'
    BY <1>1, <1>2, <1>13, <2>3, <2>7 DEF OrderOK, Straight, AllBelow
  <2> QED BY <2>6, <2>8 DEF OrderOK
<1>15. ASSUME NEW d \in Conns \ {c}
       PROVE  \E k \in Nat : SessionOK(d, k, input[d], wire[d])' /\ OrderOK(d, k)'
  <2>1. PICK k \in Nat : SessionOK(d, k, input[d], wire[d]) /\ OrderOK(d, k)
    BY <1>0 DEF StreamInv
  <2>2. SessionOK(d, k, input[d], wire[d])' BY <1>1, <1>7, <2>1 DEF SessionOK
  <2>3. OrderOK(d, k)' BY <1>1, <1>8, <1>13, <2>1, OrderStands
  <2> QED BY <2>2, <2>3
<1>16. StreamInv' BY <1>12, <1>14, <1>15 DEF StreamInv
<1> QED BY <1>9, <1>10, <1>11, <1>16 DEF HInv

(* The server and the other events.                                        *)
LEMMA NewConnectionKeeps ==
    ASSUME HInv, NEW c \in Conns, NEW f \in Fds, newConnection(c, f)
    PROVE  HInv'
<1>0. FramesInv /\ WritesInv /\ TableInv /\ StreamInv /\ NothingStranded BY DEF HInv
<1>1. /\ st[c] = "new" /\ ~open(f) /\ reading = Nobody
      /\ fd' = [fd EXCEPT ![c] = f]
      /\ table' = [table EXCEPT ![f] = IF @ = Nobody THEN c ELSE @]
      /\ st' = [st EXCEPT ![c] = "connected"]
      /\ UNCHANGED <<kinds, pieces, gone, wire, edge, input, parsing, busy, asked, output, written,
                     reading, pending, stopping>>
  BY DEF newConnection, clientVars, sessionVars, replyVars
<1>2. FramesInv' /\ WritesInv' /\ NothingStranded'
  BY <1>0, <1>1 DEF FramesInv, WritesInv, NothingStranded
<1>3. StreamInv' BY <1>0, <1>1, StreamStands
<1>4. table[f] = Nobody
  <2>1. SUFFICES ASSUME table[f] # Nobody PROVE FALSE OBVIOUS
  <2>2. table[f] \in Conns /\ fd[table[f]] = f BY <1>0, <2>1 DEF TableInv
  <2>3. held(table[f]) BY DEF held
  <2> QED BY <1>1, <2>2, <2>3 DEF open
<1>5. /\ table' \in [Fds -> Conns \cup {Nobody}] /\ table'[f] = c
      /\ \A g \in Fds \ {f} : table'[g] = table[g]
  BY <1>0, <1>1, <1>4 DEF TableInv
<1>6. /\ fd' \in [Conns -> Fds] /\ fd'[c] = f /\ st'[c] = "connected"
      /\ st' \in [Conns -> {"new", "connected", "disconnected"}]
      /\ \A d \in Conns \ {c} : fd'[d] = fd[d] /\ st'[d] = st[d]
  BY <1>0, <1>1 DEF TableInv
<1>7. ASSUME NEW g \in Fds, table'[g] # Nobody
      PROVE  fd'[table'[g]] = g /\ st'[table'[g]] # "new"
  <2>1. CASE g = f BY <1>5, <1>6, <2>1
  <2>2. CASE g # f
    <3>1. table'[g] = table[g] /\ table[g] \in Conns /\ fd[table[g]] = g /\ st[table[g]] # "new"
      BY <1>0, <1>5, <1>7, <2>2 DEF TableInv
    <3> QED BY <1>1, <1>6, <3>1
  <2> QED BY <2>1, <2>2
<1>8. ASSUME NEW d \in Conns, st'[d] = "connected" PROVE table'[fd'[d]] = d
  <2>1. CASE d = c BY <1>5, <1>6, <2>1
  <2>2. CASE d # c
    <3>1. fd[d] \in Fds /\ table[fd[d]] = d /\ fd'[d] = fd[d]
      BY <1>0, <1>6, <1>8, <2>2 DEF TableInv, TableOwnsConnected
    <3>2. fd[d] # f BY <1>4, <3>1, HttpAssumption
    <3> QED BY <1>5, <3>1, <3>2
  <2> QED BY <2>1, <2>2
<1>9. ASSUME NEW p \in Elements(pending), p.fn = "remove" PROVE st'[p.conn] = "disconnected"
  <2>1. st[p.conn] = "disconnected" BY <1>0, <1>9 DEF TableInv
  <2>2. p \in Fns
    <3>1. pending \in Seq(Fns) BY <1>0 DEF FramesInv
    <3> QED BY <3>1, LenProperties DEF Elements
  <2>3. p.conn \in Conns BY <2>2 DEF Fns
  <2> QED BY <1>1, <1>6, <2>1, <2>3
<1>10. TableInv'
  BY <1>0, <1>1, <1>5, <1>6, <1>7, <1>8, <1>9 DEF TableInv, TableOwnsConnected
<1> QED BY <1>2, <1>3, <1>10 DEF HInv

LEMMA CloseKeeps ==
    ASSUME HInv, NEW c \in Conns, st[c] = "connected", handleClose(c)
    PROVE  HInv'
<1> DEFINE x == Fn("remove", c)
<1>0. FramesInv /\ WritesInv /\ TableInv /\ StreamInv /\ NothingStranded BY DEF HInv
<1>1. /\ st' = [st EXCEPT ![c] = "disconnected"] /\ reading' = Nobody
      /\ pending' = Append(pending, x)
      /\ UNCHANGED <<kinds, pieces, gone, wire, edge, fd, table, input, parsing, busy, asked,
                     output, written, stopping>>
  BY DEF handleClose, clientVars, sessionVars, replyVars
<1>2. x \in Fns /\ x.conn = c /\ pending \in Seq(Fns) BY <1>0, FnFacts DEF FramesInv
<1> HIDE DEF x
<1>3. pending' \in Seq(Fns) /\ Elements(pending') = Elements(pending) \cup {x}
  BY <1>1, <1>2, QueueEnd
<1>4. FramesInv' /\ WritesInv' BY <1>0, <1>1, <1>3 DEF FramesInv, WritesInv
<1>5. StreamInv' BY <1>0, <1>1, StreamStands
<1>6. NothingStranded' BY <1>0, <1>1, <1>3 DEF NothingStranded
<1>7. /\ st' \in [Conns -> {"new", "connected", "disconnected"}] /\ st'[c] = "disconnected"
      /\ \A d \in Conns : st'[d] = "connected" => st[d] = "connected"
      /\ \A d \in Conns : st[d] # "new" => st'[d] # "new"
      /\ \A d \in Conns : st[d] = "disconnected" => st'[d] = "disconnected"
  BY <1>0, <1>1 DEF TableInv
<1>8. \A p \in Elements(pending) : p.conn \in Conns
  <2>1. \A p \in Elements(pending) : p \in Fns BY <1>2, LenProperties DEF Elements
  <2> QED BY <2>1 DEF Fns
<1>9. \A p \in Elements(pending') : p.fn = "remove" => st'[p.conn] = "disconnected"
  BY <1>0, <1>2, <1>3, <1>7, <1>8 DEF TableInv
<1>10. TableInv'
  BY <1>0, <1>1, <1>7, <1>9 DEF TableInv, TableOwnsConnected
<1> QED BY <1>4, <1>5, <1>6, <1>10 DEF HInv

LEMMA HInvStep == HInv /\ [HNext]_hvars => HInv'
<1> SUFFICES ASSUME HInv, [HNext]_hvars PROVE HInv' OBVIOUS
<1>0. FramesInv /\ WritesInv /\ TableInv /\ StreamInv /\ NothingStranded BY DEF HInv
<1> USE DEF FramesInv, WritesInv, TableInv, TableOwnsConnected, NothingStranded
<1>1. ASSUME NEW c \in Conns, readEvent(c) \/ readAgain(c) PROVE HInv'
  <2>1. UNCHANGED <<kinds, pieces, gone, wire, st, fd, table, input, parsing, busy, asked,
                    output, written, pending, stopping>>
    BY <1>1 DEF readEvent, readAgain, clientVars, sessionVars, replyVars
  <2>2. /\ edge' \in [Conns -> BOOLEAN] /\ reading' \in Conns \cup {Nobody}
        /\ reading' # Nobody => st[reading'] = "connected"
    BY <1>0, <1>1 DEF readEvent, readAgain
  <2>3. StreamInv' BY <1>0, <2>1, StreamStands
  <2> QED BY <1>0, <2>1, <2>2, <2>3 DEF HInv
<1>2. ASSUME NEW c \in Conns, clientCloses(c) PROVE HInv'
  <2>1. UNCHANGED <<kinds, pieces, wire, st, fd, table, input, parsing, busy, asked, reading,
                    output, written, pending, stopping>>
    BY <1>2 DEF clientCloses, sessionVars, replyVars
  <2>2. edge' \in [Conns -> BOOLEAN] /\ gone' \subseteq Conns BY <1>0, <1>2 DEF clientCloses
  <2>3. StreamInv' BY <1>0, <2>1, StreamStands
  <2> QED BY <1>0, <2>1, <2>2, <2>3 DEF HInv
<1>3. ASSUME setStopping PROVE HInv'
  <2>1. UNCHANGED <<kinds, pieces, gone, wire, edge, st, fd, table, input, parsing, busy, asked,
                    reading, output, written, pending>> /\ stopping' \in BOOLEAN
    BY <1>3 DEF setStopping, clientVars, sessionVars, replyVars
  <2>3. StreamInv' BY <1>0, <2>1, StreamStands
  <2> QED BY <1>0, <2>1, <2>3 DEF HInv
<1>4. ASSUME UNCHANGED hvars PROVE HInv'
  <2>3. StreamInv' BY <1>0, <1>4, StreamStands DEF hvars
  <2> QED BY <1>0, <1>4, <2>3 DEF HInv, hvars
<1>5. ASSUME NEW c \in Conns, readEof(c) \/ readError(c) \/ handleError(c) PROVE HInv'
  <2>1. st[c] = "connected" /\ handleClose(c)
    BY <1>0, <1>5, HttpAssumption DEF readEof, readError, handleError
  <2> QED BY <2>1, CloseKeeps
<1> HIDE DEF FramesInv, WritesInv, TableInv, TableOwnsConnected, NothingStranded
<1> QED
  BY <1>1, <1>2, <1>3, <1>4, <1>5, ReadSomeKeeps, DoPendingKeeps, AnswerKeeps, HandleWriteKeeps,
     ClientWritesKeeps, NewConnectionKeeps DEF HNext, handleRead

(* The stream of each connection, the place of its session in it, the      *)
(* connection table and the pending functions stay consistent.             *)
THEOREM HInvHolds == HSpec => []HInv
BY HInvInit, HInvStep, PTL DEF HSpec

(* The frontend keeps its types: in particular a session is busy exactly   *)
(* while the pipeline works for it, and the loop is inside handleRead only *)
(* of a connection that has not been closed.                               *)
THEOREM SessionTypes == HSpec => []HTypeOK
<1>1. ASSUME HInv PROVE HTypeOK
  <2>0. FramesInv /\ WritesInv /\ TableInv /\ StreamInv BY <1>1 DEF HInv
  <2>1. ASSUME NEW c \in Conns
        PROVE  /\ kinds[c] \in Seq(Kinds) /\ Len(kinds[c]) <= MaxRequests[c]
               /\ pieces[c] \in 0..(2 * Len(kinds[c]))
               /\ Elements(wire[c]) \cup Elements(input[c]) \subseteq {Piece(n) : n \in 1..pieces[c]}
               /\ parsing[c] \in 0..Len(kinds[c]) /\ asked[c] \in 0..Len(kinds[c])
               /\ busy[c] = (asked[c] # 0)
               /\ st[c] \in {"new", "connected", "disconnected"} /\ fd[c] \in Fds
    <3>1. PICK n \in Nat : SessionOK(c, n, input[c], wire[c]) BY <2>0 DEF StreamInv
    <3>2. kinds[c] \in Seq(Kinds) /\ wire[c] \in Seq(Pieces) /\ input[c] \in Seq(Pieces)
      BY <2>0 DEF FramesInv
    <3>3. /\ Len(wire[c]) \in Nat /\ Len(input[c]) \in Nat /\ Len(kinds[c]) \in Nat
          /\ DOMAIN wire[c] = 1..Len(wire[c]) /\ DOMAIN input[c] = 1..Len(input[c])
      BY <3>2, LenProperties
    <3>4. /\ pieces[c] \in Nat /\ pieces[c] <= 2 * Len(kinds[c]) /\ Len(kinds[c]) <= MaxRequests[c]
          /\ parsing[c] \in Nat /\ asked[c] \in Nat /\ busy[c] \in BOOLEAN
      BY <2>0 DEF FramesInv, WritesInv
    <3>5. /\ pieces[c] = n + Len(input[c]) + Len(wire[c])
          /\ 2 * parsing[c] <= n + 1
          /\ asked[c] # 0 => 2 * asked[c] = n \/ 2 * asked[c] = n + 1
          /\ busy[c] <=> asked[c] # 0
      BY <3>1 DEF SessionOK
    <3>6. n <= 2 * Len(kinds[c])
      <4>1. n <= pieces[c] BY <3>3, <3>5, LenSum
      <4> QED BY <3>3, <3>4, <4>1
    <3>7. parsing[c] \in 0..Len(kinds[c]) /\ asked[c] \in 0..Len(kinds[c])
      BY <3>3, <3>4, <3>5, <3>6
    <3>a. \A l, m, q \in Nat : q = n + l + m =>
             /\ \A i \in 1..m : n + l + i \in 1..q
             /\ \A i \in 1..l : n + i \in 1..q
      OBVIOUS
    <3>b. /\ \A i \in 1..Len(wire[c]) : n + Len(input[c]) + i \in 1..pieces[c]
          /\ \A i \in 1..Len(input[c]) : n + i \in 1..pieces[c]
      BY <3>3, <3>4, <3>5, <3>a
    <3>8. \A i \in 1..Len(wire[c]) : /\ n + Len(input[c]) + i \in 1..pieces[c]
                                     /\ wire[c][i] = Piece(n + Len(input[c]) + i)
      BY <3>1, <3>b DEF SessionOK, Segment
    <3>9. \A i \in 1..Len(input[c]) : n + i \in 1..pieces[c] /\ input[c][i] = Piece(n + i)
      BY <3>1, <3>b DEF SessionOK, Segment
    <3>10. Elements(wire[c]) \subseteq {Piece(k) : k \in 1..pieces[c]}
      BY <3>3, <3>8 DEF Elements
    <3>11. Elements(input[c]) \subseteq {Piece(k) : k \in 1..pieces[c]}
      BY <3>3, <3>9 DEF Elements
    <3>12. busy[c] = (asked[c] # 0) BY <3>4, <3>5
    <3>13. pieces[c] \in 0..(2 * Len(kinds[c])) BY <3>3, <3>4
    <3> QED BY <2>0, <3>2, <3>4, <3>7, <3>10, <3>11, <3>12, <3>13 DEF TableInv
  <2> QED BY <2>0, <2>1 DEF HTypeOK, FramesInv, TableInv
<1> QED BY <1>1, HInvHolds, PTL

(* However the pieces of pipelined requests arrive, the answers of a       *)
(* connection are written in the order of its requests, and once each      *)
(* until one of them is refused.                                           *)
THEOREM SessionAnswersInOrder == HSpec => []RepliesInOrder
<1>1. ASSUME HInv PROVE RepliesInOrder
  <2> SUFFICES ASSUME NEW c \in Conns, NEW k \in DOMAIN Replies(c), NEW j \in 1..(k - 1)
               PROVE  LET a == Replies(c)[j]
                          b == Replies(c)[k] IN
                      a.req < b.req \/ (a.req = b.req /\ ~AllGood(c, b.req))
    BY DEF RepliesInOrder
  <2>1. PICK n \in Nat : AnswersOK(c, Replies(c), n) BY <1>1 DEF HInv, StreamInv, OrderOK
  <2>2. Replies(c) \in Seq(Answers) BY <1>1, RepliesType DEF HInv
  <2>3. k \in 1..Len(Replies(c)) BY <2>2, LenProperties
  <2> QED BY <2>1, <2>3 DEF AnswersOK
<1> QED BY <1>1, HInvHolds, PTL

(* No pipelined request is left behind in the buffer of an idle session.   *)
THEOREM SessionStrandsNothing == HSpec => []NothingStranded
<1>1. HInv => NothingStranded BY DEF HInv
<1> QED BY <1>1, HInvHolds, PTL

(* A connected connection is in the table under its descriptor, although   *)
(* descriptors are used again while removals are pending.                  *)
THEOREM ServerOwnsConnected == HSpec => []TableOwnsConnected
<1>1. HInv => TableOwnsConnected BY DEF HInv, TableInv
<1> QED BY <1>1, HInvHolds, PTL
-----------------------------------------------------------------------------
(* No lost edge, the safety part of GoodRequestAnswered: unread bytes of a *)
(* connection are announced by epoll or handleRead is at them.             *)
NoLostEdge ==
    \A c \in Conns : st[c] = "connected" /\ wire[c] # <<>> => edge[c] \/ reading = c

(* A client writes only to a connection that was accepted.                 *)
SilentBefore == \A c \in Conns : st[c] = "new" => wire[c] = <<>>

EdgeInv == NoLostEdge /\ SilentBefore

(* Epoll announces bytes once; handleRead reads to EAGAIN, so none that    *)
(* arrived before or during it stay in the kernel unannounced, for any     *)
(* connections.                                                            *)
THEOREM SessionMissesNoEdge == HSpec => []NoLostEdge
<1>1. HInit => EdgeInv BY DEF HInit, EdgeInv, NoLostEdge, SilentBefore
<1>2. ASSUME HInv, EdgeInv, [HNext]_hvars PROVE EdgeInv'
  <2> USE DEF EdgeInv, NoLostEdge, SilentBefore
  <2>0. /\ wire \in [Conns -> Seq(Pieces)] /\ edge \in [Conns -> BOOLEAN]
        /\ st \in [Conns -> {"new", "connected", "disconnected"}] /\ Nobody \notin Conns
        /\ reading # Nobody => st[reading] = "connected"
        /\ EdgeInv
    BY <1>2, HttpAssumption DEF HInv, FramesInv, TableInv
  <2>1. ASSUME NEW c \in Conns, readEvent(c) PROVE EdgeInv' BY <2>0, <2>1 DEF readEvent
  <2>2. ASSUME NEW c \in Conns, readSome(c) PROVE EdgeInv' BY <2>0, <2>2 DEF readSome
  <2>3. ASSUME NEW c \in Conns, readAgain(c) PROVE EdgeInv' BY <2>0, <2>3 DEF readAgain
  <2>4. ASSUME NEW c \in Conns, readEof(c) \/ readError(c) \/ handleError(c) PROVE EdgeInv'
    BY <2>0, <2>4 DEF readEof, readError, handleError, handleClose
  <2>5. ASSUME NEW c \in Conns, handleWrite(c) \/ answer(c) PROVE EdgeInv'
    BY <2>0, <2>5 DEF handleWrite, answer
  <2>6. ASSUME NEW c \in Conns, clientWrites(c) \/ clientCloses(c) PROVE EdgeInv'
    BY <2>0, <2>6 DEF clientWrites, clientCloses
  <2>7. ASSUME NEW c \in Conns, NEW f \in Fds, newConnection(c, f) PROVE EdgeInv'
    BY <2>0, <2>7 DEF newConnection
  <2>8. ASSUME doPending \/ setStopping PROVE EdgeInv' BY <2>0, <2>8 DEF doPending, setStopping
  <2>9. ASSUME UNCHANGED hvars PROVE EdgeInv' BY <2>0, <2>9 DEF hvars
  <2> HIDE DEF EdgeInv
  <2> QED
    BY <1>2, <2>1, <2>2, <2>3, <2>4, <2>5, <2>6, <2>7, <2>8, <2>9 DEF HNext, handleRead
<1>3. EdgeInv => NoLostEdge BY DEF EdgeInv
<1> QED BY <1>1, <1>2, <1>3, HInvHolds, PTL DEF HSpec
=============================================================================
