----------------------------- MODULE HttpSession -----------------------------
(***************************************************************************)
(* The HTTP frontend: frontend/HttpMcp's per-connection Session on         *)
(* netlib/TcpConnection and the connection table of netlib/TcpServer, all  *)
(* on the loop thread.                                                     *)
(*                                                                         *)
(* A client writes requests one behind the other without waiting for the   *)
(* answers.  Bytes are abstracted to pieces, two to a request: the kernel  *)
(* and readFd may deliver any number of them at once.  Edge-triggered      *)
(* epoll announces new bytes once, so handleRead reads until EAGAIN.  The  *)
(* session gives at most one request at a time to the pipeline (busy) and, *)
(* when the answer is written, queues itself to look at its buffer again.  *)
(***************************************************************************)
EXTENDS Naturals, Sequences

CONSTANTS Conns,       \* connections
          Fds,         \* file descriptors
          Nobody,      \* no connection
          MaxRequests  \* bound on the requests each client writes

ASSUME HttpAssumption ==
    Nobody \notin Conns /\ Fds # {} /\ MaxRequests \in [Conns -> Nat]

Kinds == {"local",   \* answered by the frontend: healthz, 4xx, upstreams
          "call",    \* handed to the pipeline
          "bad",     \* not HTTP: llhttp refuses its first piece
          "over"}    \* the body passes http_max_body_bytes in the last piece
Good == {"local", "call"}

VARIABLES
    kinds,     \* the requests each client has begun to write
    pieces,    \* how many pieces of them it has written
    gone,      \* the clients that have closed or reset their end
    wire,      \* pieces in the kernel's receive buffer
    edge,      \* epoll has something to report for the connection
    st,        \* TcpConnection::state_
    fd,        \* Socket's descriptor
    table,     \* TcpServer::connsByLoop_[0]
    input,     \* TcpConnection::input_
    parsing,   \* the request in which the message that llhttp holds began, or 0
    busy,      \* Session::busy
    asked,     \* the request the pipeline works on for the session, or 0
    output,    \* replies in TcpConnection::output_
    written,   \* replies the kernel has taken
    reading,   \* the connection whose handleRead is under way
    pending,   \* EventLoop's pending functions
    stopping   \* HttpMcp::stopping_, with the acceptor paused

clientVars == <<kinds, pieces, gone>>
replyVars == <<output, written>>
sessionVars == <<input, parsing, busy, asked>>
hvars == <<kinds, pieces, gone, wire, edge, st, fd, table, input, parsing, busy,
           asked, output, written, reading, pending, stopping>>

Piece(n) == [req |-> (n + 1) \div 2, last |-> n % 2 = 0]
Reply(i, ok) == [req |-> i, ok |-> ok]
Fn(f, c) == [fn |-> f, conn |-> c]
Elements(s) == {s[i] : i \in DOMAIN s}
-----------------------------------------------------------------------------
(* TcpConnection::send and sendBufferInLoop.  A reply is written directly  *)
(* when nothing waits in front of it and the kernel takes it; the kernel   *)
(* may refuse it when the peer is gone.                                    *)

\* Mutant: a reply is written directly although others wait.
send_Overtakes(c, r) ==
    \/ st[c] # "connected" /\ UNCHANGED replyVars
    \/ /\ st[c] = "connected"
       /\ \/ /\ written' = [written EXCEPT ![c] = Append(@, r)]
             /\ UNCHANGED output
          \/ /\ output' = [output EXCEPT ![c] = Append(@, r)]
             /\ UNCHANGED written

send(c, r) ==
    \/ st[c] # "connected" /\ UNCHANGED replyVars
    \/ /\ st[c] = "connected"
       /\ \/ /\ output[c] = <<>>
             /\ written' = [written EXCEPT ![c] = Append(@, r)]
             /\ UNCHANGED output
          \/ /\ output' = [output EXCEPT ![c] = Append(@, r)]
             /\ UNCHANGED written
          \/ output[c] = <<>> /\ c \in gone /\ UNCHANGED replyVars

(* The doneWrite of onMessage: reply, reset the session, look again later. *)

\* Mutant: the session does not look at its buffer again.
doneWrite_NoLookAgain(c, i, pq) ==
    /\ send(c, Reply(i, TRUE))
    /\ parsing' = [parsing EXCEPT ![c] = 0]
    /\ busy' = [busy EXCEPT ![c] = FALSE]
    /\ asked' = [asked EXCEPT ![c] = 0]
    /\ pending' = pq

doneWrite(c, i, pq) ==
    /\ send(c, Reply(i, TRUE))
    /\ parsing' = [parsing EXCEPT ![c] = 0]
    /\ busy' = [busy EXCEPT ![c] = FALSE]
    /\ asked' = [asked EXCEPT ![c] = 0]
    /\ pending' = Append(pq, Fn("onMessage", c))
-----------------------------------------------------------------------------
(* llhttp, with the body limit of onBody.  It holds the beginning of a     *)
(* message, begun in request h, or nothing (0); piece p is where it should *)
(* be if it goes on with that request or begins its own.                   *)
aligned(h, p) == h = IF p.last THEN p.req ELSE 0

(* What feeding it p may do.  A refusal drops what was buffered, keeps the *)
(* connection and resets llhttp, which may find itself inside a request:   *)
(* the rest may then pass for a request, be refused, or swallow what       *)
(* follows.                                                                *)
feeds(c, h, p) ==
    CASE ~aligned(h, p) -> {"on", "done", "error"}
      [] aligned(h, p) /\ kinds[c][p.req] = "bad" -> {"error"}
      [] aligned(h, p) /\ kinds[c][p.req] = "over" -> {IF p.last THEN "error" ELSE "on"}
      [] aligned(h, p) /\ kinds[c][p.req] \in Good -> {IF p.last THEN "done" ELSE "on"}

(* What it holds before the kth piece of in.                               *)
holds(c, in, k) == IF k > 1 /\ parsing[c] = 0 THEN Head(in).req ELSE parsing[c]

(* llhttp_execute on in goes on to its kth piece, and there does o.        *)
executes(c, in, k, o) ==
    /\ \A i \in 1..(k - 1) : "on" \in feeds(c, holds(c, in, i), in[i])
    /\ o \in feeds(c, holds(c, in, k), in[k])

(* HttpMcp::onMessage on the buffer in; pq is the queue of pending         *)
(* functions it adds to.                                                   *)
skip(c, in, pq) ==
    /\ busy[c] \/ in = <<>>
    /\ input' = [input EXCEPT ![c] = in]
    /\ pending' = pq
    /\ UNCHANGED <<parsing, busy, asked, replyVars>>

refuse(c, in, pq) ==
    /\ ~busy[c]
    /\ \E k \in 1..Len(in) : executes(c, in, k, "error") /\ send(c, Reply(in[k].req, FALSE))
    /\ input' = [input EXCEPT ![c] = <<>>]
    /\ parsing' = [parsing EXCEPT ![c] = 0]
    /\ pending' = pq
    /\ UNCHANGED <<busy, asked>>

parseOn(c, in, pq) ==
    /\ ~busy[c] /\ in # <<>> /\ executes(c, in, Len(in), "on")
    /\ input' = [input EXCEPT ![c] = <<>>]
    /\ parsing' = [parsing EXCEPT ![c] = holds(c, in, Len(in) + 1)]
    /\ pending' = pq
    /\ UNCHANGED <<busy, asked, replyVars>>

(* A complete request is answered at once, by the frontend (a health       *)
(* check, a failed validation, 503 while it drains) or inside              *)
(* Pipeline::handle, or, past all validations, the pipeline keeps it.      *)
answerNow(c, i, pq) == doneWrite(c, i, pq)

handOver(c, i, pq) ==
    /\ ~stopping
    /\ busy' = [busy EXCEPT ![c] = TRUE]
    /\ asked' = [asked EXCEPT ![c] = i]
    /\ parsing' = [parsing EXCEPT ![c] = 0]
    /\ pending' = pq
    /\ UNCHANGED replyVars

(* onMsgComplete pauses llhttp at the end of a message; what is behind it  *)
(* stays in the buffer.                                                    *)
serve(c, in, pq) ==
    /\ ~busy[c]
    /\ \E k \in 1..Len(in) :
          /\ executes(c, in, k, "done")
          /\ input' = [input EXCEPT ![c] = SubSeq(in, k + 1, Len(in))]
          /\ \/ answerNow(c, in[k].req, pq)
             \/ /\ aligned(holds(c, in, k), in[k]) => kinds[c][in[k].req] = "call"
                /\ handOver(c, in[k].req, pq)

onMessage(c, in, pq) ==
    skip(c, in, pq) \/ refuse(c, in, pq) \/ parseOn(c, in, pq) \/ serve(c, in, pq)
-----------------------------------------------------------------------------
(* TcpConnection on the loop.                                              *)

\* Mutant: handleRead goes on after the close.
handleClose_ReadsOn(c) ==
    /\ st' = [st EXCEPT ![c] = "disconnected"]
    /\ reading' = c
    /\ pending' = Append(pending, Fn("remove", c))
    /\ UNCHANGED <<clientVars, wire, edge, fd, table, sessionVars, replyVars, stopping>>

\* Mutant: the server is not told of the close.
handleClose_Untold(c) ==
    /\ st' = [st EXCEPT ![c] = "disconnected"]
    /\ reading' = Nobody
    /\ UNCHANGED <<clientVars, wire, edge, fd, table, sessionVars, replyVars, pending, stopping>>

handleClose(c) ==
    /\ st' = [st EXCEPT ![c] = "disconnected"]
    /\ reading' = Nobody
    /\ pending' = Append(pending, Fn("remove", c))
    /\ UNCHANGED <<clientVars, wire, edge, fd, table, sessionVars, replyVars, stopping>>

readEvent(c) ==
    /\ reading = Nobody /\ st[c] = "connected" /\ edge[c]
    /\ edge' = [edge EXCEPT ![c] = FALSE]
    /\ reading' = c
    /\ UNCHANGED <<clientVars, wire, st, fd, table, sessionVars, replyVars, pending, stopping>>

\* Mutant: one read per event.
readSome_Once(c) ==
    /\ reading = c /\ wire[c] # <<>>
    /\ \E k \in 1..Len(wire[c]) :
          /\ wire' = [wire EXCEPT ![c] = SubSeq(@, k + 1, Len(@))]
          /\ onMessage(c, input[c] \o SubSeq(wire[c], 1, k), pending)
    /\ reading' = Nobody
    /\ UNCHANGED <<clientVars, edge, st, fd, table, stopping>>

readSome(c) ==
    /\ reading = c /\ wire[c] # <<>>
    /\ \E k \in 1..Len(wire[c]) :
          /\ wire' = [wire EXCEPT ![c] = SubSeq(@, k + 1, Len(@))]
          /\ onMessage(c, input[c] \o SubSeq(wire[c], 1, k), pending)
    /\ UNCHANGED <<clientVars, edge, st, fd, table, reading, stopping>>

readAgain(c) ==
    /\ reading = c /\ wire[c] = <<>> /\ c \notin gone
    /\ reading' = Nobody
    /\ UNCHANGED <<clientVars, wire, edge, st, fd, table, sessionVars, replyVars, pending, stopping>>

readEof(c) == reading = c /\ wire[c] = <<>> /\ c \in gone /\ handleClose(c)

(* The read fails after a reset, with bytes unread.                        *)
readError(c) == reading = c /\ wire[c] # <<>> /\ c \in gone /\ handleClose(c)

(* EPOLLERR or EPOLLHUP: closed with what is unread.                       *)
handleError(c) ==
    reading = Nobody /\ st[c] = "connected" /\ c \in gone /\ handleClose(c)

handleWrite(c) ==
    /\ reading = Nobody /\ st[c] = "connected" /\ output[c] # <<>> /\ c \notin gone
    /\ \E k \in 1..Len(output[c]) :
          /\ written' = [written EXCEPT ![c] = @ \o SubSeq(output[c], 1, k)]
          /\ output' = [output EXCEPT ![c] = SubSeq(@, k + 1, Len(@))]
    /\ UNCHANGED <<clientVars, wire, edge, st, fd, table, sessionVars, reading, pending, stopping>>
-----------------------------------------------------------------------------
(* TcpServer.  A descriptor is closed by ~Socket, with the last reference  *)
(* to its connection: the table's, a pending function's, the answer        *)
(* callback's that the pipeline holds, or handleEvent's.                   *)
held(c) ==
    \/ c \in {table[f] : f \in Fds} \/ asked[c] # 0 \/ reading = c
    \/ \E p \in Elements(pending) : p.conn = c

\* Mutant: the descriptor is closed with the connection, not with its object.
open_UntilClose(f) == \E c \in Conns : st[c] = "connected" /\ fd[c] = f

open(f) == \E c \in Conns : held(c) /\ fd[c] = f

newConnection(c, f) ==
    /\ reading = Nobody /\ ~stopping
    /\ st[c] = "new" /\ ~open(f)
    /\ fd' = [fd EXCEPT ![c] = f]
    /\ table' = [table EXCEPT ![f] = IF @ = Nobody THEN c ELSE @]
    /\ st' = [st EXCEPT ![c] = "connected"]
    /\ UNCHANGED <<clientVars, wire, edge, sessionVars, replyVars, reading, pending, stopping>>

removeConnection(c) ==
    /\ table' = [table EXCEPT ![fd[c]] = IF @ = c THEN Nobody ELSE @]
    /\ pending' = Tail(pending)
    /\ UNCHANGED <<sessionVars, replyVars>>

(* EventLoop::doPending, one function at a time.                           *)
doPending ==
    /\ reading = Nobody /\ pending # <<>>
    /\ LET p == Head(pending) IN
       \/ p.fn = "remove" /\ removeConnection(p.conn)
       \/ /\ p.fn = "onMessage" /\ onMessage(p.conn, input[p.conn], Tail(pending))
          /\ UNCHANGED table
    /\ UNCHANGED <<clientVars, wire, edge, st, fd, reading, stopping>>

(* The pipeline answers, through the callback that holds the connection.   *)
answer(c) ==
    /\ reading = Nobody /\ asked[c] # 0
    /\ doneWrite(c, asked[c], pending)
    /\ UNCHANGED <<clientVars, wire, edge, st, fd, table, input, reading, stopping>>

(* Gateway::requestStop, as far as the frontend goes.                      *)
setStopping ==
    /\ reading = Nobody /\ ~stopping
    /\ stopping' = TRUE
    /\ UNCHANGED <<clientVars, wire, edge, st, fd, table, sessionVars, replyVars, reading, pending>>
-----------------------------------------------------------------------------
(* The clients.                                                            *)
clientWrites(c) ==
    /\ st[c] = "connected" /\ c \notin gone
    /\ \/ /\ pieces[c] % 2 = 1 /\ UNCHANGED kinds
       \/ /\ pieces[c] % 2 = 0 /\ Len(kinds[c]) < MaxRequests[c]
          /\ \E k \in Kinds : kinds' = [kinds EXCEPT ![c] = Append(@, k)]
    /\ pieces' = [pieces EXCEPT ![c] = @ + 1]
    /\ wire' = [wire EXCEPT ![c] = Append(@, Piece(pieces[c] + 1))]
    /\ edge' = [edge EXCEPT ![c] = TRUE]
    /\ UNCHANGED <<gone, st, fd, table, sessionVars, replyVars, reading, pending, stopping>>

clientCloses(c) ==
    /\ st[c] = "connected" /\ c \notin gone
    /\ gone' = gone \cup {c}
    /\ edge' = [edge EXCEPT ![c] = TRUE]
    /\ UNCHANGED <<kinds, pieces, wire, st, fd, table, sessionVars, replyVars, reading, pending, stopping>>
-----------------------------------------------------------------------------
HInit ==
    /\ kinds = [c \in Conns |-> <<>>] /\ pieces = [c \in Conns |-> 0] /\ gone = {}
    /\ wire = [c \in Conns |-> <<>>] /\ edge = [c \in Conns |-> FALSE]
    /\ st = [c \in Conns |-> "new"]
    /\ fd = [c \in Conns |-> CHOOSE f \in Fds : TRUE]
    /\ table = [f \in Fds |-> Nobody]
    /\ input = [c \in Conns |-> <<>>] /\ parsing = [c \in Conns |-> 0]
    /\ busy = [c \in Conns |-> FALSE] /\ asked = [c \in Conns |-> 0]
    /\ output = [c \in Conns |-> <<>>] /\ written = [c \in Conns |-> <<>>]
    /\ reading = Nobody /\ pending = <<>> /\ stopping = FALSE

handleRead(c) == readEvent(c) \/ readSome(c) \/ readAgain(c) \/ readEof(c) \/ readError(c)

HNext ==
    \/ \E c \in Conns :
          \/ handleRead(c) \/ handleError(c) \/ handleWrite(c) \/ answer(c)
          \/ clientWrites(c) \/ clientCloses(c)
          \/ \E f \in Fds : newConnection(c, f)
    \/ doPending \/ setStopping

(* The loop thread takes up every event epoll reports and every pending    *)
(* function; the pipeline answers every request it is given.               *)
HFairness ==
    /\ WF_hvars(doPending)
    /\ \A c \in Conns : WF_hvars(handleRead(c)) /\ WF_hvars(answer(c))

HSpec == HInit /\ [][HNext]_hvars /\ HFairness
-----------------------------------------------------------------------------
Replies(c) == written[c] \o output[c]

(* The type invariant; the loop is inside handleRead only of a connection  *)
(* that is connected, and a session is busy exactly while the pipeline     *)
(* works for it.                                                           *)
HTypeOK ==
    /\ \A c \in Conns :
          /\ kinds[c] \in Seq(Kinds) /\ Len(kinds[c]) <= MaxRequests[c]
          /\ pieces[c] \in 0..(2 * Len(kinds[c]))
          /\ Elements(wire[c]) \cup Elements(input[c]) \subseteq {Piece(n) : n \in 1..pieces[c]}
          /\ parsing[c] \in 0..Len(kinds[c]) /\ asked[c] \in 0..Len(kinds[c])
          /\ busy[c] = (asked[c] # 0)
          /\ st[c] \in {"new", "connected", "disconnected"} /\ fd[c] \in Fds
    /\ \A f \in Fds : table[f] \in Conns \cup {Nobody}
    /\ gone \subseteq Conns /\ edge \in [Conns -> BOOLEAN] /\ stopping \in BOOLEAN
    /\ reading = Nobody \/ (reading \in Conns /\ st[reading] = "connected")

(* The first i requests of c are such as the frontend accepts.             *)
AllGood(c, i) == \A j \in 1..i : kinds[c][j] \in Good

(* Answers come in the order of the requests, however the pieces arrive    *)
(* and although the pipeline takes its time; and each request is answered  *)
(* once, unless one up to it was refused: then its first and its last      *)
(* piece may have been taken for two messages.                             *)
RepliesInOrder ==
    \A c \in Conns : \A k \in DOMAIN Replies(c) : \A j \in 1..(k - 1) :
        LET a == Replies(c)[j]
            b == Replies(c)[k] IN
        a.req < b.req \/ (a.req = b.req /\ ~AllGood(c, b.req))

(* Bytes in the buffer of an idle session are about to be looked at: no    *)
(* pipelined request is left behind an answer.                             *)
NothingStranded ==
    \A c \in Conns :
        ~busy[c] /\ input[c] # <<>> => Fn("onMessage", c) \in Elements(pending)

(* The table owns every connection that is connected, although entries of  *)
(* closed ones stay in it until a pending function removes them and their  *)
(* descriptors are used again.                                             *)
TableOwnsConnected ==
    \A c \in Conns : st[c] = "connected" => table[fd[c]] = c

(* A request written behind good ones is answered, or its connection ends. *)
GoodRequestAnswered ==
    \A c \in Conns : \A i \in 1..MaxRequests[c] :
        (pieces[c] >= 2 * i /\ AllGood(c, i))
            ~> (Reply(i, TRUE) \in Elements(Replies(c)) \/ c \in gone)

(* The object of a closed connection is freed, with its descriptor.        *)
ClosedIsFreed == \A c \in Conns : st[c] = "disconnected" ~> ~held(c)
=============================================================================
