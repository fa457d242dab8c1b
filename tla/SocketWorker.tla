---------------------------- MODULE SocketWorker ----------------------------
(* One worker thread serving connection after connection: socketaa_worker    *)
(* (socket/socketaa_worker.h) with the callbacks of HttpWorker, against a    *)
(* client that may send in any pieces, shut its side down, reset the         *)
(* connection or stop reading.  The work struct is the worker's own here;    *)
(* WorkerPool says when that is so.                                          *)
EXTENDS HttpWorker, FiniteSets

CONSTANTS
  MaxConns,   \* bound: connections the worker serves in a behaviour
  ClientMax   \* bound: bytes a client sends on a connection

ASSUME BoundsAssumption == MaxConns \in Nat /\ ClientMax \in Nat

Conns == 1..MaxConns

VARIABLES
  pc,      \* "idle" in workeraa_get_work, "loop" at the while, "select" in select(),
           \* "killed" once SIGPIPE has ended the process
  cur,     \* the connection being served, or served last
  flags,   \* work->flags
  fds,     \* what s_conn is in: sock_set_recv, sock_set_send or neither
  http,    \* the worker's workeraa_http struct
  client,  \* the other end of the connection
  closes,  \* number of closesocket() calls on each connection
  orderly, \* history: connections closed because the response was sent
  failed,  \* history: connections given up on a failure of malloc or select
  sent     \* history: bytes of a response sent on each connection

vars == <<pc, cur, flags, fds, http, client, closes, orderly, failed, sent>>

Flags == {"select", "recv", "send", "recv_shutdown"}

Clients == [kind : Kinds, sends : 0..ClientMax, inflight : 0..ClientMax,
            eof : BOOLEAN, reset : BOOLEAN]

TypeOK ==
  /\ pc \in {"idle", "loop", "select", "killed"}
  /\ cur \in 0..MaxConns
  /\ flags \in SUBSET Flags
  /\ fds \in {"none", "recv", "send"}
  /\ http \in HttpType(Conns)
  /\ http.req_write <= http.req_size
  /\ http.resp_read <= http.resp_write
  /\ client \in Clients
  /\ closes \in [Conns -> Nat]
  /\ orderly \in SUBSET Conns
  /\ failed \in SUBSET Conns
  /\ sent \in [Conns -> 0..ResponseLen]

Init ==
  /\ pc = "idle"
  /\ cur = 0
  /\ flags = {}
  /\ fds = "none"
  /\ http = HttpNone
  /\ client = [kind |-> "bad", sends |-> 0, inflight |-> 0, eof |-> FALSE, reset |-> FALSE]
  /\ closes = [c \in Conns |-> 0]
  /\ orderly = {}
  /\ failed = {}
  /\ sent = [c \in Conns |-> 0]
-----------------------------------------------------------------------------
(* The client *)

\* Some bytes of the request, or of a body, arrive.
ClientSend ==
  /\ pc # "idle" /\ ~client.eof /\ ~client.reset
  /\ client.sends < ClientMax
  /\ \E n \in 1..ClientMax - client.sends :
       client' = [client EXCEPT !.sends = @ + n, !.inflight = @ + n]
  /\ UNCHANGED <<pc, cur, flags, fds, http, closes, orderly, failed, sent>>

\* The client shuts its sending side down (recv returns 0 after the data).
ClientShutdown ==
  /\ pc # "idle" /\ ~client.eof
  /\ client' = [client EXCEPT !.eof = TRUE]
  /\ UNCHANGED <<pc, cur, flags, fds, http, closes, orderly, failed, sent>>

\* The connection is reset: recv and send return -1.
ClientReset ==
  /\ pc # "idle" /\ ~client.reset
  /\ client' = [client EXCEPT !.reset = TRUE]
  /\ UNCHANGED <<pc, cur, flags, fds, http, closes, orderly, failed, sent>>

Client == ClientSend \/ ClientShutdown \/ ClientReset
-----------------------------------------------------------------------------
(* The worker thread *)

\* workeraa_get_work hands the worker its next connection, WORKERAA_FUNC_INIT
\* and the start of socketaa_worker follow.  Without the workeraa_http struct
\* socketaa_worker returns at once and nobody closes the socket.
Start ==
  /\ pc = "idle"
  /\ cur < MaxConns
  /\ cur' = cur + 1
  /\ flags' = {"select", "recv"}
  /\ http' \in HttpInit(http)
  /\ \E k \in Kinds : client' = [kind |-> k, sends |-> 0, inflight |-> 0,
                                 eof |-> FALSE, reset |-> FALSE]
  /\ IF http'.alloc
       THEN pc' = "loop" /\ UNCHANGED failed
       ELSE pc' = "idle" /\ failed' = failed \cup {cur'}
  /\ UNCHANGED <<fds, closes, orderly, sent>>

\* The top of the while loop: is_send goes before is_recv; the flag acted on
\* is cleared.
LoopTop ==
  /\ pc = "loop"
  /\ IF "select" \notin flags
       THEN /\ pc' = "idle"
            /\ UNCHANGED <<flags, fds>>
       ELSE /\ pc' = "select"
            /\ fds' = CASE "send" \in flags -> "send"
                        [] "send" \notin flags /\ "recv" \in flags -> "recv"
                        [] OTHER -> "none"
            /\ flags' = flags \ {fds'}
  /\ UNCHANGED <<cur, http, client, closes, orderly, failed, sent>>

\* closesocket(s_conn); work->is_select = 0
CloseSocket == closes' = [closes EXCEPT ![cur] = @ + 1]

InSelect(set) == pc = "select" /\ fds = set

Readable == client.inflight > 0 \/ client.eof \/ client.reset

Room == http.req_size - http.req_write

\* Mutant of RecvData: is_recv = 1 after the recv() is missing.
RecvData_NoRearm ==
  /\ InSelect("recv") /\ client.inflight > 0 /\ Room > 0
  /\ \E n \in 1..client.inflight :
       /\ n <= Room
       /\ client' = [client EXCEPT !.inflight = @ - n]
       /\ http' = HttpHeader([http EXCEPT !.req_write = @ + n], client.kind)
  /\ flags' = IF WantsSend(http') THEN {"send", "select"} ELSE flags
  /\ pc' = "loop"
  /\ UNCHANGED <<cur, fds, closes, orderly, failed, sent>>

\* recv() returns a positive number of bytes: is_recv is set, then the
\* RECV_DATA callback may replace all the flags.
RecvData ==
  /\ InSelect("recv") /\ client.inflight > 0 /\ Room > 0
  /\ \E n \in 1..client.inflight :
       /\ n <= Room
       /\ client' = [client EXCEPT !.inflight = @ - n]
       /\ http' = HttpHeader([http EXCEPT !.req_write = @ + n], client.kind)
  /\ flags' = IF WantsSend(http') THEN {"send", "select"} ELSE flags \cup {"recv"}
  /\ pc' = "loop"
  /\ UNCHANGED <<cur, fds, closes, orderly, failed, sent>>

\* The request buffer is full (or was never allocated): recv() is not called.
RecvFull ==
  /\ InSelect("recv") /\ Readable /\ Room = 0
  /\ CloseSocket
  /\ flags' = flags \ {"select"}
  /\ pc' = "loop"
  /\ UNCHANGED <<cur, fds, http, client, orderly, failed, sent>>

\* recv() returns -1.
RecvError ==
  /\ InSelect("recv") /\ client.reset /\ Room > 0
  /\ CloseSocket
  /\ flags' = flags \ {"select"}
  /\ pc' = "loop"
  /\ UNCHANGED <<cur, fds, http, client, orderly, failed, sent>>

\* Mutant of RecvShutdown: the loop ends and the socket is forgotten.
RecvShutdown_Leaks ==
  /\ InSelect("recv") /\ client.eof /\ client.inflight = 0 /\ Room > 0
  /\ flags' = (flags \ {"select"}) \cup {"recv_shutdown"}
  /\ pc' = "loop"
  /\ UNCHANGED <<cur, fds, http, client, closes, orderly, failed, sent>>

\* recv() returns 0, turned into SOCKETAA_ERROR_RECV_SHUTDOWN: the loop goes on.
RecvShutdown ==
  /\ InSelect("recv") /\ client.eof /\ client.inflight = 0 /\ Room > 0
  /\ flags' = flags \cup {"recv_shutdown"}
  /\ pc' = "loop"
  /\ UNCHANGED <<cur, fds, http, client, closes, orderly, failed, sent>>

\* The socket is writable: the SEND_DATA callback, then send() takes some of
\* what is left of the response.
SendData ==
  /\ InSelect("send") /\ ~client.reset
  /\ LET h == HttpSend(http, cur)
     IN  \E n \in 1..ResponseLen :
           /\ h.resp_read + n <= h.resp_write
           /\ http' = [h EXCEPT !.resp_read = @ + n]
           /\ sent' = [sent EXCEPT ![cur] = @ + n]
  /\ flags' = flags \cup {"send"}
  /\ pc' = "loop"
  /\ UNCHANGED <<cur, fds, client, closes, orderly, failed>>

\* Nothing is left to send: shutdown and close; is_send is set all the same.
SendDone ==
  /\ InSelect("send")
  /\ http' = HttpSend(http, cur)
  /\ http'.resp_read = http'.resp_write
  /\ CloseSocket
  /\ orderly' = orderly \cup {cur}
  /\ flags' = (flags \ {"select"}) \cup {"send"}
  /\ pc' = "loop"
  /\ UNCHANGED <<cur, fds, client, failed, sent>>

\* send() returns -1: close, is_select = 0, then a shutdown of the closed
\* socket and is_recv = 1.
SendError ==
  /\ InSelect("send") /\ client.reset
  /\ http' = HttpSend(http, cur)
  /\ http'.resp_read < http'.resp_write
  /\ CloseSocket
  /\ flags' = (flags \ {"select"}) \cup {"recv"}
  /\ pc' = "loop"
  /\ UNCHANGED <<cur, fds, client, orderly, failed, sent>>

\* A send() without MSG_NOSIGNAL on a connection that the client has shut down
\* and then reset raises SIGPIPE, which nothing handles: the process ends.
SendKilled ==
  /\ InSelect("send") /\ client.eof /\ client.reset
  /\ HttpSend(http, cur).resp_read < HttpSend(http, cur).resp_write
  /\ pc' = "killed"
  /\ UNCHANGED <<cur, flags, fds, http, client, closes, orderly, failed, sent>>

\* Mutant of Timeout: is_select = 0 is missing.
Timeout_KeepsSelect ==
  /\ \/ InSelect("recv") /\ ~Readable
     \/ InSelect("send") /\ ~client.reset
     \/ InSelect("none")
  /\ CloseSocket
  /\ pc' = "loop"
  /\ UNCHANGED <<cur, flags, fds, http, client, orderly, failed, sent>>

\* select() returns 0: nothing to read came, or the client stopped reading, or
\* nothing was selected at all.
Timeout ==
  /\ \/ InSelect("recv") /\ ~Readable
     \/ InSelect("send") /\ ~client.reset
     \/ InSelect("none")
  /\ CloseSocket
  /\ flags' = flags \ {"select"}
  /\ pc' = "loop"
  /\ UNCHANGED <<cur, fds, http, client, orderly, failed, sent>>

\* Mutant of SelectError: is_select = 0 is missing.
SelectError_KeepsSelect ==
  /\ pc = "select"
  /\ failed' = failed \cup {cur}
  /\ pc' = "loop"
  /\ UNCHANGED <<cur, flags, fds, http, client, closes, orderly, sent>>

\* select() returns -1: the loop ends and the socket stays open.
SelectError ==
  /\ pc = "select"
  /\ failed' = failed \cup {cur}
  /\ flags' = flags \ {"select"}
  /\ pc' = "loop"
  /\ UNCHANGED <<cur, fds, http, client, closes, orderly, sent>>

SelectReturns ==
  \/ RecvData \/ RecvFull \/ RecvError \/ RecvShutdown
  \/ SendData \/ SendDone \/ SendError \/ SendKilled \/ Timeout \/ SelectError
-----------------------------------------------------------------------------
Next == Client \/ Start \/ LoopTop \/ SelectReturns

Spec == Init /\ [][Next]_vars

\* The thread runs, and select() returns at the latest after its timeout; which
\* of its outcomes comes is up to the client and the system.
LiveSpec == Spec /\ WF_vars(LoopTop) /\ WF_vars(SelectReturns)
-----------------------------------------------------------------------------
\* A connection that the worker has left was closed exactly once, unless the
\* system refused memory or select(); while it is served it is open.
ClosedOnce ==
  \A c \in 1..cur :
    /\ c = cur /\ "select" \in flags /\ pc # "idle" => closes[c] = 0
    /\ c < cur \/ pc = "idle" => closes[c] = (IF c \in failed THEN 0 ELSE 1)

\* A byte sent to a client belongs to a response built on its own connection,
\* whatever is left in the reused response buffer.
OwnResponse ==
  [][\A c \in Conns : sent'[c] # sent[c] => http'.resp_for = c]_vars

\* On the first connection of a worker: response bytes are sent only to a GET
\* whose header is complete, and the orderly close comes after all of them.
FirstAnswered ==
  /\ cur = 1 /\ sent[1] > 0 =>
       client.kind = "get" /\ Parses(client.kind, http.req_write)
  /\ 1 \in orderly => sent[1] = ResponseLen

\* The worker sits in a select() that waits for nothing (until the timeout)
\* only after the client has shut its side down.
BlindWait ==
  InSelect("none") => client.eof /\ "recv_shutdown" \in flags

\* What was sent on the connection is what has been read from the response
\* buffer, which holds a response to this connection or nothing.
SentAgrees ==
  /\ \A c \in Conns : c > cur => sent[c] = 0
  /\ ~http.is_header_send => http.resp_write = 0
  /\ pc # "idle" => /\ sent[cur] = http.resp_read
                    /\ http.resp_write > 0 => http.resp_for = cur

\* The inductive strengthening of ClosedOnce, BlindWait and OwnResponse: is_select says
\* whether the socket is still open, and a flag is left to act on unless the
\* client has shut its side down.
SocketInv ==
  /\ TypeOK
  /\ SentAgrees
  /\ client.inflight <= client.sends
  /\ pc # "idle" => cur \in Conns
  /\ pc = "select" => "select" \in flags
  /\ \A c \in Conns :
       closes[c] = IF c < cur \/ (c = cur /\ (pc = "idle" \/ "select" \notin flags))
                     THEN IF c \in failed THEN 0 ELSE 1
                     ELSE 0
  /\ \A c \in failed : c < cur \/ (c = cur /\ (pc = "idle" \/ "select" \notin flags))
  /\ pc = "loop" /\ "select" \in flags =>
       {"send", "recv", "recv_shutdown"} \cap flags # {}
  /\ pc = "select" /\ fds = "none" => "recv_shutdown" \in flags
  /\ pc # "idle" /\ "recv_shutdown" \in flags => client.eof

\* The worker thread always comes back to workeraa_get_work, whatever the client
\* does, unless the process was killed.
WorkerReturns == pc # "idle" ~> pc \in {"idle", "killed"}
-----------------------------------------------------------------------------
(* What comments and the README say and the code does not do *)

\* README: "A Socket worker will call workeraa_http_send() function and send data
\* over connection socket."  A connection closed as answered got its response.
AnsweredInFull == \A c \in orderly : sent[c] = ResponseLen
=============================================================================
