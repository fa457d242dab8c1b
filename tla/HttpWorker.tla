----------------------------- MODULE HttpWorker -----------------------------
(* The worker for HTTP (worker/workeraa_http.h): the callbacks through       *)
(* which socketaa_worker has received bytes parsed and a response made.      *)
(* They work on the workeraa_http struct of the worker thread, which is      *)
(* allocated for the thread's first connection and reused for all others.    *)
(*                                                                           *)
(* Bytes are counted, not kept: of a request the callbacks tell apart only   *)
(* whether its header is complete (HeaderLen bytes have arrived) and what    *)
(* httpaa_parse_request_headers then makes of it, the request's kind.        *)
EXTENDS Naturals

CONSTANTS
  HeaderLen,    \* bytes of a request up to the empty line
  RequestSize,  \* size of the request buffer
  ResponseLen   \* bytes of the response workeraa_http_create_response builds

ASSUME LengthsAssumption ==
  /\ HeaderLen \in Nat \ {0}
  /\ RequestSize \in Nat \ {0}
  /\ ResponseLen \in Nat \ {0}

\* http11_method_get, any other method, or a request that does not parse.
Methods == {"get", "other"}
Kinds == Methods \cup {"bad"}

\* workeraa_http: buf_size and write_pos of request; write_pos and read_pos of
\* response; the flags and the parsed method.  resp_for is a history: the
\* connection the content of response was built for.
HttpType(Conns) ==
  [alloc : BOOLEAN, req_size : {0, RequestSize}, req_write : 0..RequestSize,
   resp_write : {0, ResponseLen}, resp_read : 0..ResponseLen,
   is_header_recv : BOOLEAN, is_header_send : BOOLEAN,
   method : Methods \cup {"none"}, resp_for : Conns \cup {0}]

\* worker->work.p_struct is NULL.
HttpNone ==
  [alloc |-> FALSE, req_size |-> 0, req_write |-> 0, resp_write |-> 0,
   resp_read |-> 0, is_header_recv |-> FALSE, is_header_send |-> FALSE,
   method |-> "none", resp_for |-> 0]

\* Mutant of HttpInit: stringaa_clean of the response is missing.
HttpInit_KeepsResponse(h) ==
  LET cleaned == [h EXCEPT !.alloc = TRUE, !.req_write = 0]
  IN  IF h.alloc
        THEN {[cleaned EXCEPT !.req_size = s] :
                s \in IF h.req_size > 0 THEN {h.req_size} ELSE {0, RequestSize}}
        ELSE {h} \cup {[cleaned EXCEPT !.req_size = s] : s \in {0, RequestSize}}

\* workeraa_http_init: the possible outcomes.  The struct or the request
\* buffer may fail to be allocated, and is tried again on the next
\* connection; what exists already is cleaned.  is_header_recv,
\* is_header_send and the parsed request are left as they are.
HttpInit(h) ==
  LET cleaned == [h EXCEPT !.alloc = TRUE, !.req_write = 0,
                           !.resp_write = 0, !.resp_read = 0]
  IN  IF h.alloc
        THEN {[cleaned EXCEPT !.req_size = s] :
                s \in IF h.req_size > 0 THEN {h.req_size} ELSE {0, RequestSize}}
        ELSE {h} \cup {[cleaned EXCEPT !.req_size = s] : s \in {0, RequestSize}}

\* httpaa_parse_request_headers on what has been received of a request.
Parses(kind, received) == kind \in Methods /\ received >= HeaderLen

\* Mutant of HttpHeader: the result of the parser is not looked at.
HttpHeader_ResultIgnored(h, kind) ==
  IF ~h.is_header_recv
    THEN [h EXCEPT !.is_header_recv = TRUE, !.method = "get"]
    ELSE h

\* workeraa_http_header: parse unless a header was parsed before.
HttpHeader(h, kind) ==
  IF ~h.is_header_recv /\ Parses(kind, h.req_write)
    THEN [h EXCEPT !.is_header_recv = TRUE, !.method = kind]
    ELSE h

\* workeraa_http_recv asks for SEND, instead of further RECV, when the header
\* counts as received and its method is GET.
WantsSend(h) == h.is_header_recv /\ h.method = "get"

\* workeraa_http_create_response: the response buffer is cleaned and filled.
CreateResponse(h, c) ==
  [h EXCEPT !.resp_write = ResponseLen, !.resp_read = 0, !.resp_for = c]

\* workeraa_http_send: build the response unless one was built before.
HttpSend(h, c) ==
  IF h.is_header_send THEN h
  ELSE [CreateResponse(h, c) EXCEPT !.is_header_send = TRUE]
=============================================================================
