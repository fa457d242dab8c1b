------------------------ MODULE SocketWorker_proofs ------------------------
(* Proofs about the socket worker for every number of connections, every   *)
(* buffer size and every length of request and response.                   *)
EXTENDS SocketWorker, TLAPS

\* The callbacks keep the workeraa_http struct well formed.
LEMMA HttpSendType ==
  ASSUME NEW h \in HttpType(Conns), NEW c \in Conns, h.resp_read <= h.resp_write
  PROVE  /\ HttpSend(h, c) \in HttpType(Conns)
         /\ HttpSend(h, c).resp_read <= HttpSend(h, c).resp_write
         /\ HttpSend(h, c).req_write = h.req_write
         /\ HttpSend(h, c).req_size = h.req_size
         /\ HttpSend(h, c).is_header_send
         /\ IF h.is_header_send
              THEN HttpSend(h, c) = h
              ELSE HttpSend(h, c).resp_read = 0 /\ HttpSend(h, c).resp_for = c
<1>1. CASE h.is_header_send
  BY <1>1 DEF HttpSend
<1>2. CASE ~h.is_header_send
  <2> DEFINE g == [h EXCEPT !.is_header_send = TRUE, !.resp_write = ResponseLen,
                            !.resp_read = 0, !.resp_for = c]
  <2>1. HttpSend(h, c) = g
    BY <1>2 DEF HttpSend, CreateResponse
  <2>2. 0 \in 0..ResponseLen /\ 0 <= ResponseLen
    BY LengthsAssumption
  <2>3. g \in HttpType(Conns)
    BY <2>2 DEF HttpType
  <2>4. g.resp_read = 0 /\ g.resp_write = ResponseLen
        /\ g.req_write = h.req_write /\ g.req_size = h.req_size
        /\ g.is_header_send = TRUE /\ g.resp_for = c
    BY DEF HttpType
  <2> QED
    BY <1>2, <2>1, <2>2, <2>3, <2>4
<1> QED
  BY <1>1, <1>2

\* workeraa_http_header keeps the types and touches neither buffer.
LEMMA HttpHeaderType ==
  ASSUME NEW h \in HttpType(Conns), NEW k \in Kinds
  PROVE  /\ HttpHeader(h, k) \in HttpType(Conns)
         /\ HttpHeader(h, k).resp_read = h.resp_read
         /\ HttpHeader(h, k).resp_write = h.resp_write
         /\ HttpHeader(h, k).req_write = h.req_write
         /\ HttpHeader(h, k).req_size = h.req_size
         /\ HttpHeader(h, k).is_header_send = h.is_header_send
         /\ HttpHeader(h, k).resp_for = h.resp_for
  BY DEF HttpHeader, HttpType, Parses, Kinds

\* Every outcome of workeraa_http_init has the type and empty buffers.
LEMMA HttpInitType ==
  ASSUME NEW h \in HttpType(Conns), h.resp_read <= h.resp_write,
         h.req_write <= h.req_size, NEW i \in HttpInit(h)
  PROVE  /\ i \in HttpType(Conns)
         /\ i.resp_read <= i.resp_write
         /\ i.req_write <= i.req_size
         /\ i.is_header_send = h.is_header_send
         /\ i.is_header_recv = h.is_header_recv
         /\ i = h \/ (i.resp_read = 0 /\ i.resp_write = 0)
         /\ i = h => ~h.alloc \/ (i.resp_read = 0 /\ i.resp_write = 0)
<1> DEFINE Cleaned(s) == [[h EXCEPT !.alloc = TRUE, !.req_write = 0, !.resp_write = 0,
                                    !.resp_read = 0] EXCEPT !.req_size = s]
<1>1. \/ i = h /\ ~h.alloc
      \/ \E s \in {0, RequestSize} : i = Cleaned(s)
  BY DEF HttpInit, HttpType
<1>2. ASSUME NEW s \in {0, RequestSize}
      PROVE  /\ Cleaned(s) \in HttpType(Conns)
             /\ Cleaned(s).resp_read <= Cleaned(s).resp_write
             /\ Cleaned(s).req_write <= Cleaned(s).req_size
             /\ Cleaned(s).resp_read = 0 /\ Cleaned(s).resp_write = 0
             /\ Cleaned(s).is_header_send = h.is_header_send
             /\ Cleaned(s).is_header_recv = h.is_header_recv
  <2>1. 0 \in 0..ResponseLen /\ 0 \in 0..RequestSize /\ 0 <= s
    BY LengthsAssumption
  <2>2. Cleaned(s) \in HttpType(Conns)
    BY <2>1 DEF HttpType
  <2>3. /\ Cleaned(s).resp_read = 0 /\ Cleaned(s).resp_write = 0
        /\ Cleaned(s).req_write = 0 /\ Cleaned(s).req_size = s
        /\ Cleaned(s).is_header_send = h.is_header_send
        /\ Cleaned(s).is_header_recv = h.is_header_recv
    BY DEF HttpType
  <2> QED
    BY <2>1, <2>2, <2>3
<1> QED
  BY <1>1, <1>2

\* A worker that has served nothing satisfies the invariant.
LEMMA InitSocketInv == Init => SocketInv
  BY LengthsAssumption, BoundsAssumption
  DEF Init, SocketInv, SentAgrees, TypeOK, HttpType, HttpNone, Conns, Flags, Clients, Kinds, Methods

\* Nothing a client does disturbs the invariant.
LEMMA ClientSocketInv == SocketInv /\ Client => SocketInv'
<1> SUFFICES ASSUME SocketInv, Client PROVE SocketInv'
  OBVIOUS
<1>1. /\ UNCHANGED <<pc, cur, flags, fds, http, closes, orderly, failed, sent>>
      /\ client' \in Clients /\ client'.inflight <= client'.sends
      /\ client.eof => client'.eof
  <2>1. CASE ClientSend
    <3>1. PICK n \in 1..ClientMax - client.sends :
            client' = [client EXCEPT !.sends = @ + n, !.inflight = @ + n]
      BY <2>1 DEF ClientSend
    <3>2. /\ client.sends + n \in 0..ClientMax
          /\ client.inflight + n \in 0..ClientMax
          /\ client.inflight + n <= client.sends + n
      BY BoundsAssumption DEF SocketInv, TypeOK, Clients
    <3> QED
      BY <2>1, <3>1, <3>2 DEF ClientSend, SocketInv, TypeOK, Clients
  <2>2. CASE ClientShutdown \/ ClientReset
    BY <2>2 DEF ClientShutdown, ClientReset, SocketInv, TypeOK, Clients
  <2> QED
    BY <2>1, <2>2 DEF Client
<1> QED
  BY <1>1 DEF SocketInv, SentAgrees, TypeOK

\* The start of a connection: the one before it has been closed or given up.
LEMMA StartSocketInv == SocketInv /\ Start => SocketInv'
<1> SUFFICES ASSUME SocketInv, Start PROVE SocketInv'
  OBVIOUS
<1> USE BoundsAssumption
<1>1. /\ pc = "idle" /\ cur' = cur + 1 /\ cur' \in Conns
      /\ flags' = {"select", "recv"} /\ flags' \in SUBSET Flags
      /\ UNCHANGED <<fds, closes, orderly, sent>>
      /\ \/ pc' = "loop" /\ failed' = failed
         \/ pc' = "idle" /\ failed' = failed \cup {cur'}
  BY DEF Start, SocketInv, TypeOK, Conns, Flags
<1>2. /\ client' \in Clients /\ client'.inflight <= client'.sends
  BY DEF Start, Clients
<1>3. /\ http' \in HttpType(Conns)
      /\ http'.req_write <= http'.req_size
      /\ http'.resp_read <= http'.resp_write
  BY HttpInitType DEF Start, SocketInv, TypeOK
<1>4. /\ cur \in Nat /\ cur' \in 0..MaxConns
      /\ pc' \in {"idle", "loop", "select"}
      /\ failed' \in SUBSET Conns
  <2>1. cur \in Nat /\ cur' \in 0..MaxConns
    BY <1>1 DEF SocketInv, TypeOK, Conns
  <2>2. failed \in SUBSET Conns
    BY DEF SocketInv, TypeOK
  <2> QED
    BY <1>1, <2>1, <2>2
<1>5. TypeOK'
  BY <1>1, <1>2, <1>3, <1>4 DEF SocketInv, TypeOK
<1>6. /\ \A c \in Conns : closes[c] = IF c <= cur /\ c \notin failed THEN 1 ELSE 0
      /\ \A c \in failed : c \in Nat /\ c <= cur
  BY <1>1, <1>4 DEF SocketInv, TypeOK, Conns
<1>7. \A c \in Conns : c \in Nat
  BY DEF Conns
<1>a. SentAgrees'
  <2>1. /\ \A c \in Conns : c > cur => sent[c] = 0
        /\ ~http.is_header_send => http.resp_write = 0
    BY DEF SocketInv, SentAgrees
  <2>2. /\ http'.is_header_send = http.is_header_send
        /\ http' = http \/ http'.resp_write = 0
        /\ http'.alloc => http'.resp_read = 0 /\ http'.resp_write = 0
    BY HttpInitType DEF Start, SocketInv, TypeOK
  <2>3. pc' # "idle" => http'.alloc
    BY DEF Start
  <2> QED
    BY <1>1, <1>4, <1>7, <2>1, <2>2, <2>3 DEF SentAgrees
<1>8. CASE pc' = "loop" /\ failed' = failed
  BY <1>1, <1>2, <1>4, <1>5, <1>6, <1>7, <1>8, <1>a DEF SocketInv
<1>9. CASE pc' = "idle" /\ failed' = failed \cup {cur'}
  BY <1>1, <1>2, <1>4, <1>5, <1>6, <1>7, <1>9, <1>a DEF SocketInv
<1> QED
  BY <1>1, <1>8, <1>9

\* The top of the while loop keeps the invariant: a set is selected unless the
\* client has shut down.
LEMMA LoopTopSocketInv == SocketInv /\ LoopTop => SocketInv'
<1> SUFFICES ASSUME SocketInv, LoopTop PROVE SocketInv'
  OBVIOUS
<1>0. /\ pc = "loop" /\ UNCHANGED <<cur, http, client, closes, orderly, failed, sent>>
  BY DEF LoopTop
<1>1. CASE "select" \notin flags
  <2>1. pc' = "idle" /\ UNCHANGED <<flags, fds>>
    BY <1>1 DEF LoopTop
  <2> QED
    BY <1>0, <1>1, <2>1 DEF SocketInv, SentAgrees, TypeOK
<1>2. CASE "select" \in flags
  <2>1. /\ pc' = "select" /\ fds' \in {"none", "recv", "send"}
        /\ flags' = flags \ {fds'}
        /\ fds' = "none" => "send" \notin flags /\ "recv" \notin flags
    BY <1>2 DEF LoopTop
  <2>2. /\ "select" \in flags'
        /\ "recv_shutdown" \in flags' <=> "recv_shutdown" \in flags
        /\ flags' \in SUBSET Flags
    BY <1>2, <2>1 DEF SocketInv, TypeOK
  <2>3. fds' = "none" => "recv_shutdown" \in flags
    BY <1>0, <1>2, <2>1 DEF SocketInv
  <2>4. TypeOK'
    BY <1>0, <2>1, <2>2 DEF SocketInv, TypeOK
  <2> QED
    BY <1>0, <1>2, <2>1, <2>2, <2>3, <2>4 DEF SocketInv, SentAgrees
<1> QED
  BY <1>1, <1>2

\* What select() may bring about: the part of TypeOK that the branches share.
StepTyped ==
  /\ pc = "select" /\ pc' = "loop" /\ UNCHANGED <<cur, fds>>
  /\ flags' \in SUBSET Flags
  /\ http' \in HttpType(Conns)
  /\ http'.req_write <= http'.req_size
  /\ http'.resp_read <= http'.resp_write
  /\ client' \in Clients /\ client'.inflight <= client'.sends /\ client'.eof = client.eof
  /\ orderly' \in SUBSET Conns
  /\ sent' \in [Conns -> 0..ResponseLen]
  /\ SentAgrees'

\* A branch that clears is_select closes the socket once, or gives it up.
LEMMA EndSocketInv ==
  ASSUME SocketInv, StepTyped, "select" \notin flags',
         "recv_shutdown" \in flags' => "recv_shutdown" \in flags,
         \/ CloseSocket /\ failed' = failed
         \/ closes' = closes /\ failed' = failed \cup {cur}
  PROVE  SocketInv'
<1>1. /\ cur \in Conns /\ cur \notin failed /\ closes[cur] = 0
      /\ "select" \in flags /\ closes \in [Conns -> Nat] /\ failed \in SUBSET Conns
  BY DEF SocketInv, StepTyped, TypeOK
<1>2. /\ closes' \in [Conns -> Nat] /\ failed' \in SUBSET Conns
      /\ \A c \in Conns : c # cur => closes'[c] = closes[c] /\ (c \in failed' <=> c \in failed)
      /\ closes'[cur] = IF cur \in failed' THEN 0 ELSE 1
  BY <1>1 DEF CloseSocket
<1>3. TypeOK'
  BY <1>2 DEF SocketInv, TypeOK, StepTyped
<1>4. \A c \in Conns : c \in Nat
  BY DEF Conns
<1>5. cur \in Nat
  BY <1>1, <1>4
<1>6. \A c \in Conns : closes[c] = IF c < cur THEN IF c \in failed THEN 0 ELSE 1 ELSE 0
  BY <1>1, <1>4, <1>5 DEF SocketInv, StepTyped
<1>7. \A c \in failed : c < cur
  BY <1>1 DEF SocketInv, StepTyped
<1>8. \A c \in Conns : closes'[c] = IF c < cur \/ c = cur
                                     THEN IF c \in failed' THEN 0 ELSE 1
                                     ELSE 0
  BY <1>2, <1>4, <1>5, <1>6
<1>9. \A c \in failed' : c < cur \/ c = cur
  BY <1>2, <1>7
<1> QED
  BY <1>1, <1>3, <1>8, <1>9 DEF SocketInv, StepTyped

\* A branch that goes on leaves a flag to act on.
LEMMA GoOnSocketInv ==
  ASSUME SocketInv, StepTyped, UNCHANGED <<closes, failed>>,
         "select" \in flags', {"send", "recv", "recv_shutdown"} \cap flags' # {},
         "recv_shutdown" \in flags' => client.eof
  PROVE  SocketInv'
<1>1. cur \in Conns /\ "select" \in flags
  BY DEF SocketInv, StepTyped
<1>2. TypeOK'
  BY DEF SocketInv, TypeOK, StepTyped
<1> QED
  BY <1>1, <1>2 DEF SocketInv, StepTyped

\* Every outcome of select(), recv() and send() keeps the invariant.
LEMMA SelectSocketInv == SocketInv /\ SelectReturns => SocketInv'
<1> SUFFICES ASSUME SocketInv, SelectReturns PROVE SocketInv'
  OBVIOUS
<1> USE LengthsAssumption, BoundsAssumption
<1>0. /\ TypeOK /\ client.inflight <= client.sends
      /\ pc = "select" => "select" \in flags /\ cur \in Conns
  BY DEF SocketInv
<1>1. CASE RecvData
  <2>1. PICK n \in 1..client.inflight :
          /\ n <= Room
          /\ client' = [client EXCEPT !.inflight = @ - n]
          /\ http' = HttpHeader([http EXCEPT !.req_write = @ + n], client.kind)
    BY <1>1 DEF RecvData
  <2>2. /\ client' \in Clients /\ client'.inflight <= client'.sends
        /\ client'.eof = client.eof
    BY <1>0, <2>1 DEF TypeOK, Clients
  <2> DEFINE g == [http EXCEPT !.req_write = @ + n]
  <2>3. /\ http.req_write \in Nat /\ http.req_size \in Nat /\ n \in Nat
        /\ http.req_write + n <= http.req_size
        /\ http.req_write + n \in 0..RequestSize
    BY <1>0, <2>1 DEF TypeOK, HttpType, Room, Clients
  <2>4. /\ g \in HttpType(Conns)
        /\ g.req_write = http.req_write + n /\ g.req_size = http.req_size
        /\ g.resp_read = http.resp_read /\ g.resp_write = http.resp_write
    BY <1>0, <2>3 DEF TypeOK, HttpType
  <2>5. /\ http' \in HttpType(Conns)
        /\ http'.req_write <= http'.req_size
        /\ http'.resp_read <= http'.resp_write
    <3>1. client.kind \in Kinds
      BY <1>0 DEF TypeOK, Clients
    <3> QED
      BY <1>0, <2>1, <2>3, <2>4, <3>1, HttpHeaderType DEF TypeOK
  <2>6. /\ flags' \in SUBSET Flags
        /\ "select" \in flags' /\ {"send", "recv", "recv_shutdown"} \cap flags' # {}
        /\ "recv_shutdown" \in flags' => "recv_shutdown" \in flags
    BY <1>0, <1>1 DEF RecvData, InSelect, TypeOK, Flags
  <2>8. SentAgrees'
    <3>1. /\ http'.resp_read = http.resp_read /\ http'.resp_write = http.resp_write
          /\ http'.is_header_send = http.is_header_send /\ http'.resp_for = http.resp_for
      <4>1. client.kind \in Kinds
        BY <1>0 DEF TypeOK, Clients
      <4>2. g.is_header_send = http.is_header_send /\ g.resp_for = http.resp_for
        BY <1>0 DEF TypeOK, HttpType
      <4> QED
        BY <2>1, <2>4, <4>1, <4>2, HttpHeaderType
    <3> QED
      BY <1>1, <3>1 DEF RecvData, InSelect, SocketInv, SentAgrees
  <2>7. StepTyped
    BY <1>0, <1>1, <2>2, <2>5, <2>6, <2>8 DEF RecvData, InSelect, StepTyped, TypeOK
  <2> QED
    BY <1>1, <2>6, <2>7, GoOnSocketInv DEF RecvData, InSelect, SocketInv
<1>2. CASE RecvFull \/ RecvError \/ Timeout
  <2>1. /\ pc = "select" /\ pc' = "loop" /\ flags' = flags \ {"select"}
        /\ CloseSocket /\ UNCHANGED <<cur, fds, http, client, orderly, failed, sent>>
    BY <1>2 DEF RecvFull, RecvError, Timeout, InSelect
  <2>2. StepTyped /\ "select" \notin flags'
    BY <1>0, <2>1 DEF StepTyped, TypeOK, SocketInv, SentAgrees
  <2> QED
    BY <2>1, <2>2, EndSocketInv
<1>3. CASE SelectError
  <2>1. StepTyped /\ "select" \notin flags'
    BY <1>0, <1>3 DEF SelectError, StepTyped, TypeOK, SocketInv, SentAgrees
  <2> QED
    BY <1>3, <2>1, EndSocketInv DEF SelectError
<1>4. CASE RecvShutdown
  <2>1. /\ flags' \in SUBSET Flags
        /\ "select" \in flags' /\ "recv_shutdown" \in flags' /\ client.eof
    BY <1>0, <1>4 DEF RecvShutdown, InSelect, TypeOK, Flags
  <2>2. StepTyped
    BY <1>0, <1>4, <2>1 DEF RecvShutdown, InSelect, StepTyped, TypeOK, SocketInv, SentAgrees
  <2> QED
    BY <1>4, <2>1, <2>2, GoOnSocketInv DEF RecvShutdown
<1>5. ASSUME pc = "select"
      PROVE  /\ HttpSend(http, cur) \in HttpType(Conns)
             /\ HttpSend(http, cur).req_write <= HttpSend(http, cur).req_size
             /\ HttpSend(http, cur).resp_read <= HttpSend(http, cur).resp_write
             /\ HttpSend(http, cur).is_header_send
             /\ HttpSend(http, cur).resp_read = sent[cur]
             /\ HttpSend(http, cur).resp_write > 0 => HttpSend(http, cur).resp_for = cur
  <2>1. sent[cur] = http.resp_read /\ (http.resp_write > 0 => http.resp_for = cur)
    BY <1>5 DEF SocketInv, SentAgrees
  <2>2. ~http.is_header_send => http.resp_read = 0
    BY <1>0 DEF SocketInv, SentAgrees, TypeOK, HttpType
  <2> QED
    BY <1>0, <1>5, <2>1, <2>2, HttpSendType DEF TypeOK
<1>6. CASE SendData
  <2> DEFINE h == HttpSend(http, cur)
  <2>1. PICK n \in 1..ResponseLen :
          /\ h.resp_read + n <= h.resp_write
          /\ http' = [h EXCEPT !.resp_read = @ + n]
          /\ sent' = [sent EXCEPT ![cur] = @ + n]
    BY <1>6 DEF SendData
  <2>0. pc = "select" /\ cur \in Conns
    BY <1>0, <1>6 DEF SendData, InSelect
  <2>2. /\ h.resp_read \in Nat /\ h.resp_write \in 0..ResponseLen /\ n \in Nat
        /\ h.resp_read + n \in 0..ResponseLen
    BY <1>5, <2>0, <2>1 DEF HttpType
  <2>3. /\ http' \in HttpType(Conns)
        /\ http'.resp_read = h.resp_read + n /\ http'.resp_write = h.resp_write
        /\ http'.req_write = h.req_write /\ http'.req_size = h.req_size
        /\ http'.is_header_send = h.is_header_send /\ http'.resp_for = h.resp_for
    BY <1>5, <2>0, <2>1, <2>2 DEF HttpType
  <2>4. /\ sent' \in [Conns -> 0..ResponseLen]
        /\ sent'[cur] = http'.resp_read
        /\ \A c \in Conns : c # cur => sent'[c] = sent[c]
    BY <1>0, <1>5, <2>0, <2>1, <2>2, <2>3 DEF TypeOK
  <2>5. SentAgrees'
    <3>1. cur' = cur /\ cur \in Nat
      BY <1>6, <2>0 DEF SendData, Conns
    <3> QED
      BY <1>5, <2>0, <2>3, <2>4, <3>1 DEF SocketInv, SentAgrees, Conns
  <2>6. /\ flags' \in SUBSET Flags /\ "select" \in flags' /\ "send" \in flags'
        /\ "recv_shutdown" \in flags' => "recv_shutdown" \in flags
    BY <1>0, <1>6, <2>0 DEF SendData, TypeOK, Flags
  <2>7. StepTyped
    BY <1>0, <1>5, <1>6, <2>0, <2>1, <2>3, <2>4, <2>5, <2>6 DEF SendData, StepTyped, TypeOK
  <2> QED
    BY <1>6, <2>0, <2>6, <2>7, GoOnSocketInv DEF SendData, SocketInv
<1>7. CASE SendDone \/ SendError
  <2>1. /\ pc = "select" /\ pc' = "loop" /\ CloseSocket
        /\ http' = HttpSend(http, cur)
        /\ \/ flags' = (flags \ {"select"}) \cup {"send"}
           \/ flags' = (flags \ {"select"}) \cup {"recv"}
        /\ orderly' = orderly \/ orderly' = orderly \cup {cur}
        /\ UNCHANGED <<cur, fds, client, failed, sent>>
    BY <1>7 DEF SendDone, SendError, InSelect
  <2>2. /\ flags' \in SUBSET Flags /\ "select" \notin flags'
        /\ "recv_shutdown" \in flags' => "recv_shutdown" \in flags
    BY <1>0, <2>1 DEF TypeOK, Flags
  <2>3. StepTyped
    BY <1>0, <1>5, <2>1, <2>2 DEF StepTyped, TypeOK, SocketInv, SentAgrees
  <2> QED
    BY <2>1, <2>2, <2>3, EndSocketInv
<1>8. CASE SendKilled
  BY <1>8 DEF SendKilled, InSelect, SocketInv, SentAgrees, TypeOK
<1> QED
  BY <1>1, <1>2, <1>3, <1>4, <1>6, <1>7, <1>8 DEF SelectReturns

\* SocketInv holds throughout the life of the worker.
THEOREM SocketInvariant == Spec => []SocketInv
<1>1. SocketInv /\ [Next]_vars => SocketInv'
  <2>1. SocketInv /\ UNCHANGED vars => SocketInv'
    BY DEF vars, SocketInv, SentAgrees, TypeOK
  <2> QED
    BY <2>1, ClientSocketInv, StartSocketInv, LoopTopSocketInv, SelectSocketInv DEF Next
<1> QED
  BY <1>1, InitSocketInv, PTL DEF Spec

\* Positions stay inside the request and response buffers, and every variable
\* keeps its type.
THEOREM SocketTypeCorrect == Spec => []TypeOK
<1>1. SocketInv => TypeOK
  BY DEF SocketInv
<1> QED
  BY <1>1, SocketInvariant, PTL

\* Every connection the worker has left was closed exactly once, unless malloc
\* or select() failed on it.
THEOREM EveryConnectionClosedOnce == Spec => []ClosedOnce
<1>1. SocketInv => ClosedOnce
  <2> SUFFICES ASSUME SocketInv, NEW c \in 1..cur
               PROVE  /\ c = cur /\ "select" \in flags /\ pc # "idle" => closes[c] = 0
                      /\ c < cur \/ pc = "idle" => closes[c] = (IF c \in failed THEN 0 ELSE 1)
    BY DEF ClosedOnce
  <2>1. c \in Conns /\ c \in Nat /\ cur \in Nat /\ c <= cur
    BY BoundsAssumption DEF SocketInv, TypeOK, Conns
  <2> QED
    BY <2>1 DEF SocketInv
<1> QED
  BY <1>1, SocketInvariant, PTL

\* The worker waits in select() for nothing only after the client has shut down
\* its sending side.
THEOREM BlindWaitOnlyAfterShutdown == Spec => []BlindWait
<1>1. SocketInv => BlindWait
  BY DEF SocketInv, BlindWait, InSelect
<1> QED
  BY <1>1, SocketInvariant, PTL

\* Bytes sent on a connection are of a response built on that connection.
THEOREM OnlyOwnResponse == Spec => OwnResponse
<1>1. SocketInv /\ SocketInv' /\ [Next]_vars =>
        [\A c \in Conns : sent'[c] # sent[c] => http'.resp_for = c]_vars
  <2> SUFFICES ASSUME SocketInv, SocketInv', Next, NEW c \in Conns, sent'[c] # sent[c]
               PROVE  http'.resp_for = c
    OBVIOUS
  <2>1. SendData
    BY DEF Next, Client, ClientSend, ClientShutdown, ClientReset, Start, LoopTop, SelectReturns,
       RecvData, RecvFull, RecvError, RecvShutdown, SendDone, SendError, SendKilled, Timeout, SelectError
  <2>2. c = cur /\ cur' = cur /\ pc' = "loop"
    BY <2>1 DEF SendData, SocketInv, TypeOK
  <2>3. http'.resp_read > 0
    BY <2>2, BoundsAssumption, LengthsAssumption, <2>1 DEF SocketInv, SentAgrees, TypeOK, SendData
  <2> QED
    BY <2>2, <2>3, LengthsAssumption DEF SocketInv, SentAgrees, TypeOK, HttpType
<1> QED
  BY <1>1, SocketInvariant, PTL DEF Spec, OwnResponse
-----------------------------------------------------------------------------
(* The first connection of a worker *)

\* The inductive strengthening of FirstAnswered.  Before the first connection
\* the struct is not allocated; during it is_header_recv and the method were
\* set by a parse of this connection's own bytes, is_send only on account of
\* them, and the response buffer is filled once is_header_send is set.  None of
\* this is so later, because workeraa_http_init keeps the flags.
FirstInv ==
  /\ cur = 0 => pc = "idle" /\ http = HttpNone
  /\ cur = 1 =>
       /\ http.is_header_recv => /\ http.method = client.kind
                                 /\ Parses(client.kind, http.req_write)
       /\ (pc # "idle" /\ "send" \in flags) \/ InSelect("send") => WantsSend(http)
       /\ http.is_header_send => WantsSend(http) /\ http.resp_write = ResponseLen
       /\ sent[1] > 0 => http.is_header_send
  /\ 1 \in orderly => cur > 0 /\ sent[1] = ResponseLen

\* A header that has been received stays received, and one that is received by
\* workeraa_http_header is a parsed one.
LEMMA HttpHeaderParses ==
  ASSUME NEW h \in HttpType(Conns), NEW k \in Kinds,
         h.is_header_recv => h.method = k /\ Parses(k, h.req_write)
  PROVE  /\ HttpHeader(h, k).is_header_recv =>
              HttpHeader(h, k).method = k /\ Parses(k, HttpHeader(h, k).req_write)
         /\ WantsSend(h) => WantsSend(HttpHeader(h, k))
<1>1. CASE ~h.is_header_recv /\ Parses(k, h.req_write)
  BY <1>1 DEF HttpHeader, HttpType, WantsSend
<1>2. CASE ~(~h.is_header_recv /\ Parses(k, h.req_write))
  BY <1>2 DEF HttpHeader
<1> QED
  BY <1>1, <1>2

\* workeraa_http_send fills the response buffer, or leaves the struct alone.
LEMMA HttpSendFills ==
  ASSUME NEW h \in HttpType(Conns), NEW c \in Conns,
         h.is_header_send => h.resp_write = ResponseLen
  PROVE  /\ HttpSend(h, c).resp_write = ResponseLen
         /\ HttpSend(h, c).is_header_recv = h.is_header_recv
         /\ HttpSend(h, c).method = h.method
         /\ HttpSend(h, c).req_write = h.req_write
<1>1. CASE h.is_header_send
  BY <1>1 DEF HttpSend
<1>2. CASE ~h.is_header_send
  BY <1>2 DEF HttpSend, CreateResponse, HttpType
<1> QED
  BY <1>1, <1>2

\* A worker that has served nothing.
LEMMA InitFirstInv == Init => FirstInv
  BY DEF Init, FirstInv

\* The client may send, shut down and reset; what kind of request it makes is
\* settled when it connects.
LEMMA ClientFirstInv == SocketInv /\ FirstInv /\ Client => FirstInv'
<1> SUFFICES ASSUME SocketInv, FirstInv, Client PROVE FirstInv'
  OBVIOUS
<1>1. UNCHANGED <<pc, cur, flags, fds, http, closes, orderly, failed, sent>>
  BY DEF Client, ClientSend, ClientShutdown, ClientReset
<1>2. client'.kind = client.kind
  BY DEF Client, ClientSend, ClientShutdown, ClientReset, SocketInv, TypeOK, Clients
<1> QED
  BY <1>1, <1>2 DEF FirstInv, InSelect

\* The first connection starts with a struct that has seen no request.
LEMMA StartFirstInv == SocketInv /\ FirstInv /\ Start => FirstInv'
<1> SUFFICES ASSUME SocketInv, FirstInv, Start PROVE FirstInv'
  OBVIOUS
<1>1. /\ cur \in Nat /\ cur' = cur + 1 /\ flags' = {"select", "recv"}
      /\ UNCHANGED <<fds, closes, orderly, sent>>
      /\ http' \in HttpInit(http) /\ pc' \in {"loop", "idle"}
      /\ 1 \in Conns
  BY BoundsAssumption DEF Start, SocketInv, TypeOK, Conns
<1>2. CASE cur = 0
  <2>1. http = HttpNone /\ sent[1] = 0 /\ 1 \notin orderly
    BY <1>1, <1>2 DEF FirstInv, SocketInv, SentAgrees
  <2>2. ~http'.is_header_recv /\ ~http'.is_header_send
    <3>1. ~http.is_header_recv /\ ~http.is_header_send
      BY <2>1 DEF HttpNone
    <3> QED
      BY <1>1, <3>1, HttpInitType DEF SocketInv, TypeOK
  <2> QED
    BY <1>1, <1>2, <2>1, <2>2 DEF FirstInv, InSelect
<1>3. CASE cur > 0
  BY <1>1, <1>3 DEF FirstInv
<1> QED
  BY <1>1, <1>2, <1>3

\* The top of the while loop selects for sending only if is_send asks for it.
LEMMA LoopTopFirstInv == SocketInv /\ FirstInv /\ LoopTop => FirstInv'
<1> SUFFICES ASSUME SocketInv, FirstInv, LoopTop PROVE FirstInv'
  OBVIOUS
<1>1. /\ pc = "loop" /\ UNCHANGED <<cur, http, client, closes, orderly, failed, sent>>
      /\ cur # 0
  BY DEF LoopTop, FirstInv
<1>2. \/ pc' = "idle"
      \/ pc' = "select" /\ (fds' = "send" => "send" \in flags)
                        /\ ("send" \in flags' => "send" \in flags)
  BY DEF LoopTop
<1> QED
  BY <1>1, <1>2 DEF FirstInv, InSelect

\* Every outcome of select(), recv() and send() on the first connection.
LEMMA SelectFirstInv == SocketInv /\ FirstInv /\ SelectReturns => FirstInv'
<1> SUFFICES ASSUME SocketInv, FirstInv, SelectReturns PROVE FirstInv'
  OBVIOUS
<1>0. /\ pc = "select" /\ cur \in Conns /\ cur \in Nat /\ cur # 0 /\ cur' = cur
      /\ http \in HttpType(Conns) /\ client \in Clients /\ client.kind \in Kinds
      /\ pc' # "select"
  BY DEF SelectReturns, RecvData, RecvFull, RecvError, RecvShutdown, SendData, SendDone,
         SendError, SendKilled, Timeout, SelectError, InSelect, SocketInv, TypeOK, Conns, Clients
<1>1. CASE RecvData
  <2>1. PICK n \in 1..client.inflight :
          /\ n <= Room
          /\ client' = [client EXCEPT !.inflight = @ - n]
          /\ http' = HttpHeader([http EXCEPT !.req_write = @ + n], client.kind)
    BY <1>1 DEF RecvData
  <2> DEFINE g == [http EXCEPT !.req_write = @ + n]
  <2>2. /\ n \in Nat /\ http.req_write \in Nat
        /\ http.req_write + n \in 0..RequestSize
    BY <1>0, <2>1, LengthsAssumption DEF HttpType, Room, Clients, SocketInv, TypeOK
  <2>3. /\ g \in HttpType(Conns) /\ g.req_write = http.req_write + n
        /\ g.is_header_recv = http.is_header_recv /\ g.method = http.method
        /\ g.is_header_send = http.is_header_send /\ g.resp_write = http.resp_write
    BY <1>0, <2>2 DEF HttpType
  <2>4. /\ client'.kind = client.kind /\ UNCHANGED <<sent, orderly>> /\ pc' = "loop"
        /\ http' = HttpHeader(g, client.kind)
        /\ flags' = IF WantsSend(http') THEN {"send", "select"} ELSE flags \cup {"recv"}
    BY <1>0, <1>1, <2>1 DEF RecvData, Clients
  <2>5. http'.is_header_send = http.is_header_send /\ http'.resp_write = http.resp_write
    BY <1>0, <2>3, <2>4, HttpHeaderType
  <2>6. CASE cur = 1
    <3>1. g.is_header_recv => g.method = client.kind /\ Parses(client.kind, g.req_write)
      BY <2>2, <2>3, <2>6, LengthsAssumption DEF FirstInv, Parses
    <3>2. /\ http'.is_header_recv =>
               http'.method = client.kind /\ Parses(client.kind, http'.req_write)
          /\ WantsSend(g) => WantsSend(http')
      BY <1>0, <2>3, <2>4, <3>1, HttpHeaderParses
    <3>3. WantsSend(g) <=> WantsSend(http)
      BY <2>3 DEF WantsSend
    <3>4. "send" \in flags' => WantsSend(http')
      BY <1>0, <2>4, <2>6, <3>2, <3>3 DEF FirstInv
    <3>5. http'.is_header_send => WantsSend(http') /\ http'.resp_write = ResponseLen
      BY <2>5, <2>6, <3>2, <3>3 DEF FirstInv
    <3>6. /\ sent'[1] > 0 => http'.is_header_send
          /\ 1 \in orderly' => cur' > 0 /\ sent'[1] = ResponseLen
      BY <1>0, <2>4, <2>5, <2>6 DEF FirstInv
    <3> QED
      BY <1>0, <2>4, <3>2, <3>4, <3>5, <3>6 DEF FirstInv, InSelect
  <2>7. CASE cur # 1
    BY <1>0, <2>4, <2>7 DEF FirstInv
  <2> QED
    BY <2>6, <2>7
<1>2. CASE RecvFull \/ RecvError \/ RecvShutdown \/ Timeout \/ SelectError
  <2>1. /\ UNCHANGED <<http, client, sent, orderly>>
        /\ "send" \in flags' => "send" \in flags
    BY <1>2 DEF RecvFull, RecvError, RecvShutdown, Timeout, SelectError
  <2> QED
    BY <1>0, <2>1 DEF FirstInv, InSelect
<1>3. CASE SendKilled
  BY <1>0, <1>3 DEF SendKilled, FirstInv, InSelect
<1>4. ASSUME InSelect("send"), cur = 1
      PROVE  LET h == HttpSend(http, cur)
             IN  /\ h \in HttpType(Conns) /\ h.resp_write = ResponseLen
                 /\ h.is_header_send /\ WantsSend(h)
                 /\ h.method = client.kind /\ Parses(client.kind, h.req_write)
                 /\ h.resp_read = sent[1] /\ sent[1] \in Nat
  <2>1. /\ WantsSend(http) /\ (http.is_header_send => http.resp_write = ResponseLen)
        /\ http.method = client.kind /\ Parses(client.kind, http.req_write)
    BY <1>4 DEF FirstInv, WantsSend
  <2>2. sent[1] = http.resp_read /\ (~http.is_header_send => http.resp_read = 0)
    BY <1>0, <1>4 DEF SocketInv, SentAgrees, TypeOK, HttpType
  <2>3. /\ HttpSend(http, cur).resp_write = ResponseLen
        /\ HttpSend(http, cur).is_header_recv = http.is_header_recv
        /\ HttpSend(http, cur).method = http.method
        /\ HttpSend(http, cur).req_write = http.req_write
    BY <1>0, <2>1, HttpSendFills
  <2>4. /\ HttpSend(http, cur) \in HttpType(Conns)
        /\ HttpSend(http, cur).is_header_send
        /\ HttpSend(http, cur).resp_read = sent[1]
    BY <1>0, <2>2, HttpSendType DEF SocketInv, TypeOK
  <2> QED
    BY <1>0, <2>1, <2>2, <2>3, <2>4 DEF WantsSend, HttpType
<1>5. CASE SendData
  <2>1. PICK n \in 1..ResponseLen :
          /\ HttpSend(http, cur).resp_read + n <= HttpSend(http, cur).resp_write
          /\ http' = [HttpSend(http, cur) EXCEPT !.resp_read = @ + n]
          /\ sent' = [sent EXCEPT ![cur] = @ + n]
    BY <1>5 DEF SendData
  <2>2. UNCHANGED <<client, orderly>> /\ sent \in [Conns -> 0..ResponseLen]
    BY <1>5 DEF SendData, SocketInv, TypeOK
  <2>3. CASE cur = 1
    <3> DEFINE h == HttpSend(http, cur)
    <3>1. /\ h \in HttpType(Conns) /\ h.resp_write = ResponseLen
          /\ h.is_header_send /\ WantsSend(h)
          /\ h.method = client.kind /\ Parses(client.kind, h.req_write)
          /\ h.resp_read = sent[1] /\ sent[1] \in Nat
      BY <1>4, <1>5, <2>3 DEF SendData
    <3>2. /\ http'.resp_write = h.resp_write /\ http'.is_header_send
          /\ http'.is_header_recv = h.is_header_recv /\ http'.method = h.method
          /\ http'.req_write = h.req_write
      BY <2>1, <3>1 DEF HttpType
    <3>3. WantsSend(http')
      BY <3>1, <3>2 DEF WantsSend
    <3>4. 1 \notin orderly
      BY <2>1, <3>1, LengthsAssumption DEF FirstInv
    <3> QED
      BY <1>0, <2>2, <3>1, <3>2, <3>3, <3>4 DEF FirstInv, InSelect
  <2>4. CASE cur # 1
    <3>1. 1 \in orderly => sent'[1] = sent[1]
      <4>1. 1 \in orderly => 1 \in Conns
        BY DEF SocketInv, TypeOK
      <4> QED
        BY <2>1, <2>2, <2>4, <4>1
    <3> QED
      BY <1>0, <2>2, <2>4, <3>1 DEF FirstInv
  <2> QED
    BY <2>3, <2>4
<1>6. CASE SendDone \/ SendError
  <2>1. /\ InSelect("send") /\ http' = HttpSend(http, cur)
        /\ UNCHANGED <<client, sent>>
        /\ \/ orderly' = orderly
           \/ orderly' = orderly \cup {cur} /\ http'.resp_read = http'.resp_write
    BY <1>6 DEF SendDone, SendError
  <2>2. CASE cur = 1
    <3>1. /\ http'.resp_write = ResponseLen /\ http'.is_header_send /\ WantsSend(http')
          /\ http'.method = client.kind /\ Parses(client.kind, http'.req_write)
          /\ http'.resp_read = sent[1]
      BY <1>4, <2>1, <2>2
    <3> QED
      BY <1>0, <2>1, <2>2, <3>1 DEF FirstInv, InSelect
  <2>3. CASE cur # 1
    BY <1>0, <2>1, <2>3 DEF FirstInv
  <2> QED
    BY <2>2, <2>3
<1> QED
  BY <1>1, <1>2, <1>3, <1>5, <1>6 DEF SelectReturns

\* On a worker's first connection only a GET whose header is complete is
\* answered, and the orderly close comes after the whole response.
THEOREM FirstConnectionAnswered == Spec => []FirstAnswered
<1>1. SocketInv /\ FirstInv /\ [Next]_vars => FirstInv'
  <2>1. FirstInv /\ UNCHANGED vars => FirstInv'
    BY DEF vars, FirstInv, InSelect
  <2> QED
    BY <2>1, ClientFirstInv, StartFirstInv, LoopTopFirstInv, SelectFirstInv DEF Next
<1>2. FirstInv => FirstAnswered
  BY DEF FirstInv, FirstAnswered, WantsSend
<1> QED
  BY <1>1, <1>2, InitFirstInv, SocketInvariant, PTL DEF Spec
=============================================================================
