------------------------------ MODULE Exchange ------------------------------
(***************************************************************************)
(* One connection of lotos: the client, the socket, the edge-triggered     *)
(* epoll item, and request.c driven by the event loop of main.c.           *)
(*                                                                         *)
(* A token is one line of a request (or a unit of its body) and a unit is  *)
(* the head or a piece of the body of a response.  How a line is split     *)
(* over several recv calls is the business of http_parser.c, not of this   *)
(* module.  The clock is reduced to what the code asks of it: whether the  *)
(* time since the last activity is below, at or above the timeout.         *)
(*                                                                         *)
(* The other connections of the worker appear only as the passing of time  *)
(* between two steps; EventLoop is about them.                             *)
(***************************************************************************)
EXTENDS Integers, Sequences, SequencesExt, FiniteSetsExt

CONSTANTS
  RequestLines,  \* request lines the client may send
  Headers,       \* header lines the client may send
  FileLen,       \* units in a file that is served, when it is opened
  FileSizes,     \* units it may have by the time it is sent
  DirLen,        \* st_size of a directory, in units
  ErrLen,        \* units in the error page
  BodyLen,       \* tokens announced by Content-Length
  RcvCap,        \* tokens the receive queue of the socket holds
  SndCap,        \* units the send queue of the socket holds
  MaxHeaders,    \* bound: headers in a request
  MaxOwed,       \* bound: requests without a response
  Pipelining,    \* may the client send a request before the last response?
  ClientQuits,   \* may the client shut down or reset the connection?
  Timeouts       \* does time pass?

\* Request lines that lead to the headers, and those that are answered with
\* an error: no such file, HTTP/2.0, not a request line.
GoodLines == {"get11", "get10", "noindex"}
BadLines  == {"missing", "ver2", "bad"}

\* Header lines the parser accepts.
HeaderLines == {"plain", "keepalive", "close", "badconn", "clen", "clen0",
                "clenwrap", "chunked", "identity", "badte"}

\* What atoi makes of the Content-Length the client means: one of 2^32 + n is
\* taken for n, which one token more than BodyLen stands for.
MeantLen(h) == CASE h = "clen" -> BodyLen [] h = "clenwrap" -> BodyLen + 1 [] OTHER -> 0
atoi(h) == IF h \in {"clen", "clenwrap"} THEN BodyLen ELSE 0

ASSUME ExchangeAssumption ==
  /\ RequestLines \subseteq GoodLines \cup BadLines
  /\ Headers \subseteq HeaderLines \cup {"bad"}
  /\ {DirLen, ErrLen} \cup FileSizes \subseteq Nat
  /\ {FileLen, BodyLen, RcvCap, SndCap, MaxOwed} \subseteq Nat \ {0}
  /\ MaxHeaders \in Nat
  /\ {Pipelining, ClientQuits, Timeouts} \subseteq BOOLEAN

VARIABLES
  \* the client: what it sends next and what it has understood so far
  sending, hsent, bodyLeft, owed, left, last, garbled,
  \* the socket
  inq, fin, rst, outq,
  \* the epoll item: interest, on the ready list, owed a wakeup for space
  events, ready, nospace,
  \* the worker and the connection_t
  pc, mask, open, age, r, leaked

clientVars == <<sending, hsent, bodyLeft, owed, left, last, garbled>>
socketVars == <<inq, fin, rst, outq>>
epollVars  == <<events, ready, nospace>>
vars == <<clientVars, socketVars, epollVars, pc, mask, open, age, r, leaked>>

HeadUnit(len, keep) == [kind |-> "head", len |-> len, keep |-> keep]
BodyUnit == [kind |-> "body", len |-> 0, keep |-> TRUE]
Units(n) == [i \in 1 .. n |-> BodyUnit]

\* request_init and request_reset.
FreshRequest ==
  [ib |-> <<>>, ob |-> <<>>, buffer_sent |-> 0,
   req_handler |-> "request_line", res_handler |-> "send_buffer",
   keep_alive |-> FALSE, content_length |-> -1, transfer_encoding |-> "identity",
   body_received |-> 0, err_req |-> FALSE, response_done |-> FALSE,
   resource_fd |-> "none", resource_size |-> 0, file_left |-> 0]

\* A connection that connection_accept has just set up.
Init ==
  /\ sending = "line" /\ hsent = 0 /\ bodyLeft = 0
  /\ owed = 0 /\ left = 0 /\ last = FALSE /\ garbled = FALSE
  /\ inq = <<>> /\ fin = FALSE /\ rst = FALSE /\ outq = <<>> /\ nospace = FALSE
  /\ events = {"IN"} /\ ready = FALSE
  /\ open = TRUE /\ age = "young" /\ r = FreshRequest
  /\ pc = "wait"
  /\ mask = {}
  /\ leaked = FALSE

-----------------------------------------------------------------------------
(* The kernel: poll, the ready list of an EPOLLET item, epoll_ctl.         *)

Poll ==
  (IF inq # <<>> \/ fin \/ rst THEN {"IN"} ELSE {})
    \cup (IF Len(outq) < SndCap \/ rst THEN {"OUT"} ELSE {})

Room == SndCap - Len(outq)

\* Something happened that an EPOLLET item interested in S is told once.
Edge(S) ==
  /\ ready' = (ready \/ S \cap events # {})
  /\ UNCHANGED events

\* connection_enable_in/out and connection_disable_in/out leave the interest
\* at S: EPOLL_CTL_MOD looks at the socket again, but only if S is a change.
\* Finding the send queue full, as send and poll do, asks for a wakeup.
epoll_mod(S) ==
  /\ events' = S
  /\ ready' = (ready \/ (S # events /\ Poll \cap S # {}))
  /\ nospace' = (nospace \/ Room = 0)

-----------------------------------------------------------------------------
(* The client.                                                             *)

MaySend == open /\ ~fin /\ ~rst /\ Len(inq) < RcvCap

Sends(token) ==
  /\ MaySend
  /\ inq' = Append(inq, token)
  /\ Edge({"IN"})
  /\ UNCHANGED <<left, last, garbled, fin, rst, outq, nospace,
                 pc, mask, open, age, r, leaked>>

client_sends_line(t) ==
  /\ sending = "line"
  /\ Pipelining \/ (owed = 0 /\ left = 0)
  /\ owed < MaxOwed
  /\ ~last
  /\ Sends(t)
  /\ sending' = "headers"
  /\ owed' = owed + 1
  /\ hsent' = 0
  /\ bodyLeft' = 0

client_sends_header(h) ==
  /\ sending = "headers"
  /\ hsent < MaxHeaders
  /\ Sends(h)
  /\ hsent' = hsent + 1
  /\ bodyLeft' = IF h \in {"clen", "clenwrap"} THEN MeantLen(h) ELSE bodyLeft
  /\ UNCHANGED <<sending, owed>>

client_sends_crlf ==
  /\ sending = "headers"
  /\ Sends("crlf")
  /\ sending' = IF bodyLeft > 0 THEN "body" ELSE "line"
  /\ UNCHANGED <<owed, hsent, bodyLeft>>

client_sends_body ==
  /\ sending = "body"
  /\ Sends("body")
  /\ bodyLeft' = bodyLeft - 1
  /\ sending' = IF bodyLeft = 1 THEN "line" ELSE "body"
  /\ UNCHANGED <<owed, hsent>>

\* The client takes the next unit: the body it expects or, between two
\* responses, the head of a response it is owed.
client_reads ==
  /\ outq # <<>>
  /\ LET u == Head(outq)
         inBody == left > 0 /\ u.kind = "body"
         starts == left = 0 /\ u.kind = "head" /\ owed > 0 /\ ~last
     IN /\ left' = IF inBody THEN left - 1 ELSE IF starts THEN u.len ELSE left
        /\ owed' = IF starts THEN owed - 1 ELSE owed
        /\ last' = IF starts THEN ~u.keep ELSE last
        /\ garbled' = (garbled \/ ~(inBody \/ starts))
  /\ outq' = Tail(outq)
  /\ nospace' = FALSE
  /\ Edge(IF nospace /\ open THEN {"OUT"} ELSE {})
  /\ UNCHANGED <<sending, hsent, bodyLeft, inq, fin, rst,
                 pc, mask, open, age, r, leaked>>

client_shuts_down ==
  /\ ClientQuits /\ open /\ ~fin /\ ~rst
  /\ fin' = TRUE
  /\ Edge({"IN"})
  /\ UNCHANGED <<clientVars, inq, rst, outq, nospace, pc, mask, open, age, r, leaked>>

\* EPOLLERR and EPOLLHUP are reported whatever the interest.
client_resets ==
  /\ ClientQuits /\ open /\ ~rst
  /\ rst' = TRUE
  /\ inq' = <<>> /\ outq' = <<>>
  /\ ready' = TRUE
  /\ UNCHANGED <<clientVars, fin, nospace, events, pc, mask, open, age, r, leaked>>

\* The server has closed the connection and the client has read what was sent.
client_reconnects ==
  /\ ~open /\ outq = <<>> /\ pc = "wait"
  /\ sending' = "line" /\ hsent' = 0 /\ bodyLeft' = 0
  /\ owed' = 0 /\ left' = 0 /\ last' = FALSE /\ garbled' = FALSE
  /\ inq' = <<>> /\ fin' = FALSE /\ rst' = FALSE /\ outq' = <<>> /\ nospace' = FALSE
  /\ events' = {"IN"} /\ ready' = FALSE
  /\ open' = TRUE /\ age' = "young" /\ r' = FreshRequest
  /\ UNCHANGED <<pc, mask, leaked>>

-----------------------------------------------------------------------------
(* The event loop of main.c.                                               *)

\* Mutated forms, here and below, are plausible mistakes in the definition that
\* follows them.  No specification uses them: they show that the properties
\* notice the mistake.

\* One connection per event: lotos_epoll_wait returns it if it still has
\* something to report, and times out otherwise.
lotos_epoll_wait ==
  /\ pc = "wait"
  /\ open
  /\ mask' = IF ready THEN Poll \cap events ELSE {}
  /\ ready' = FALSE
  /\ nospace' = (nospace \/ (ready /\ Room = 0))
  /\ pc' = IF mask' = {} THEN "prune" ELSE "dispatch"
  /\ UNCHANGED <<clientVars, socketVars, events, open, age, r, leaked>>

connecion_is_expired == age \in {"above", "failed"}

dispatch ==
  /\ pc = "dispatch"
  /\ pc' = IF connecion_is_expired THEN "prune" ELSE IF "IN" \in mask THEN "recv" ELSE "res"
  /\ UNCHANGED <<clientVars, socketVars, epollVars, mask, open, age, r, leaked>>

\* Back from request_handle or response_handle: connecion_set_expired gives
\* the connection a time long past, connecion_set_reactivated the current one.
\* An event with EPOLLIN and EPOLLOUT is handled twice.
Handled(status) ==
  /\ age' = IF status = "ERROR" THEN "failed" ELSE "young"
  /\ pc' = IF pc # "res" /\ "OUT" \in mask THEN "res" ELSE "prune"
  /\ UNCHANGED mask

\* The time since active_time: below, at or above the timeout ("failed": the
\* active_time 0 of connecion_set_expired, as much above as any).
time_passes ==
  /\ Timeouts /\ open
  /\ age \in {"young", "at"}
  /\ age' = IF age = "young" THEN "at" ELSE "above"
  /\ UNCHANGED <<clientVars, socketVars, epollVars, pc, mask, open, r, leaked>>

\* Mutant: only connections that failed are closed.
TimeIsUp_failed == age = "failed"

\* The test of connection_prune, which is >= where connecion_is_expired has >.
TimeIsUp == age # "young"

\* connection_prune, connection_close and connection_free: the socket and the
\* two buffers go, resource_fd is forgotten.
connection_prune ==
  /\ pc = "prune"
  /\ pc' = "wait"
  /\ open' = ~TimeIsUp
  /\ IF TimeIsUp
       THEN /\ leaked' = (leaked \/ r.resource_fd = "open")
            /\ events' = {} /\ ready' = FALSE
            /\ r' = FreshRequest
       ELSE UNCHANGED <<events, ready, leaked, r>>
  /\ UNCHANGED <<clientVars, socketVars, nospace, mask, age>>

-----------------------------------------------------------------------------
(* request.c: receiving.                                                   *)

\* Mutant: one call of recv instead of a loop until EAGAIN.
request_recv_once ==
  /\ pc = "recv"
  /\ inq' = IF inq = <<>> THEN inq ELSE Tail(inq)
  /\ r' = [r EXCEPT !.ib = @ \o (IF inq = <<>> THEN <<>> ELSE <<Head(inq)>>)]
  /\ IF rst \/ fin
       THEN Handled("ERROR")
       ELSE /\ pc' = "req"
            /\ UNCHANGED <<age, mask>>
  /\ UNCHANGED <<clientVars, fin, rst, outq, epollVars, open, leaked>>

\* The loop of recv until EAGAIN, end of file or an error.
request_recv ==
  /\ pc = "recv"
  /\ inq' = <<>>
  /\ r' = [r EXCEPT !.ib = @ \o inq]
  /\ IF rst \/ fin
       THEN Handled("ERROR")
       ELSE /\ pc' = "req"
            /\ UNCHANGED <<age, mask>>
  /\ UNCHANGED <<clientVars, fin, rst, outq, epollVars, open, leaked>>

\* Mutants: EPOLLIN stays enabled, or EPOLLOUT is never enabled.
connection_turn_out_keeps_in == epoll_mod({"IN", "OUT"})
connection_turn_out_half == epoll_mod({})

\* connection_disable_in and connection_enable_out: the response is next.
connection_turn_out == epoll_mod({"OUT"})

\* response_assemble_err_buffer without its epoll_ctl calls.
assemble_err(q) ==
  [q EXCEPT !.req_handler = "null", !.err_req = TRUE, !.keep_alive = FALSE,
            !.ob = @ \o <<HeadUnit(ErrLen, FALSE)>> \o Units(ErrLen),
            !.response_done = TRUE]

\* Mutant: the response counts as done when it is assembled, as an error does.
response_assemble_buffer_done(q) ==
  [q EXCEPT !.ob = Append(@, HeadUnit(IF q.err_req THEN ErrLen ELSE q.resource_size,
                                      q.keep_alive)),
            !.response_done = TRUE]

response_assemble_buffer(q) ==
  [q EXCEPT !.ob = Append(@, HeadUnit(IF q.err_req THEN ErrLen ELSE q.resource_size,
                                      q.keep_alive))]

\* A handler returns to the loop of request_handle with request q.
ReqReturns(q, status) ==
  /\ r' = q
  /\ IF q.req_handler # "null" /\ status = "OK"
       THEN pc' = "req" /\ UNCHANGED <<age, mask>>
       ELSE Handled(status)

reqUnchanged == <<clientVars, socketVars, open, leaked>>

\* The size announced is the one at the time of fstat; the size the file will
\* have when sendfile reads it is chosen here.
request_handle_request_line ==
  /\ pc = "req" /\ r.req_handler = "request_line"
  /\ IF r.ib = <<>>
       THEN ReqReturns(r, "AGAIN") /\ UNCHANGED epollVars
       ELSE LET t == Head(r.ib)
                q == [r EXCEPT !.ib = Tail(@)]
                isDir == t = "noindex"
            IN IF t \in GoodLines
                 THEN /\ \E size \in IF isDir THEN {0} ELSE FileSizes :
                           ReqReturns([q EXCEPT
                             !.keep_alive = t # "get10",
                             !.resource_fd = IF isDir THEN "none" ELSE "open",
                             !.resource_size = IF isDir THEN DirLen ELSE FileLen,
                             !.file_left = size,
                             !.req_handler = "headers"], "OK")
                      /\ UNCHANGED epollVars
                 ELSE /\ ReqReturns(assemble_err(q), "OK")
                      /\ connection_turn_out
  /\ UNCHANGED reqUnchanged

request_handle_headers ==
  /\ pc = "req" /\ r.req_handler = "headers"
  /\ pc' = "headers"
  /\ UNCHANGED <<reqUnchanged, epollVars, age, mask, r>>

\* Mutant: Content-Length is stored as a string only, like most headers.
handle_header_no_length(q, h) ==
  CASE h = "keepalive" -> [q EXCEPT !.keep_alive = TRUE]
    [] h = "close"     -> [q EXCEPT !.keep_alive = FALSE]
    [] h = "chunked"   -> assemble_err([q EXCEPT !.transfer_encoding = "chunked"])
    [] h \in {"badconn", "clen0", "identity", "badte"} -> assemble_err(q)
    [] OTHER           -> q

\* The handlers of hf_list: the request after header h.
handle_header(q, h) ==
  CASE h = "keepalive" -> [q EXCEPT !.keep_alive = TRUE]
    [] h = "close"     -> [q EXCEPT !.keep_alive = FALSE]
    [] h \in {"clen", "clenwrap", "clen0"} ->
         IF atoi(h) =< 0 THEN assemble_err(q) ELSE [q EXCEPT !.content_length = atoi(h)]
    [] h = "chunked"   -> assemble_err([q EXCEPT !.transfer_encoding = "chunked"])
    [] h \in {"badconn", "identity", "badte"} -> assemble_err(q)
    [] OTHER           -> q

\* One iteration of the loop of request_handle_headers over the header lines.
\* A handler that assembled an error response has returned OK like any other.
parse_header_line ==
  /\ pc = "headers"
  /\ LET h == Head(r.ib)
         q == [r EXCEPT !.ib = Tail(@)]
         isHeader == h \in HeaderLines
     IN \/ /\ r.ib = <<>>
           /\ Handled("AGAIN")
           /\ UNCHANGED <<r, epollVars>>
        \/ /\ r.ib # <<>> /\ h = "crlf"
           /\ ReqReturns([q EXCEPT !.req_handler = "body"], "OK")
           /\ UNCHANGED epollVars
        \/ /\ r.ib # <<>> /\ isHeader
           /\ r' = handle_header(q, h)
           /\ IF r'.err_req THEN connection_turn_out ELSE UNCHANGED epollVars
           /\ UNCHANGED <<pc, age, mask>>
        \/ /\ r.ib # <<>> /\ h # "crlf" /\ ~isHeader
           /\ ReqReturns(assemble_err(q), "OK")
           /\ connection_turn_out
  /\ UNCHANGED reqUnchanged

\* parse_header_body_identity takes all that is in the buffer for the body.
request_handle_body ==
  /\ pc = "req" /\ r.req_handler = "body"
  /\ LET q == IF r.content_length =< 0 THEN r
              ELSE [r EXCEPT !.body_received = @ + Len(r.ib), !.ib = <<>>]
         complete == q.content_length =< 0 \/ q.body_received >= q.content_length
         identity == r.transfer_encoding = "identity"
     IN \/ /\ ~identity
           /\ ReqReturns(assemble_err(r), "OK")
           /\ connection_turn_out
        \/ /\ identity /\ ~complete
           /\ ReqReturns(q, "AGAIN")
           /\ UNCHANGED epollVars
        \/ /\ identity /\ complete
           /\ ReqReturns(response_assemble_buffer([q EXCEPT !.req_handler = "null"]),
                         "OK")
           /\ connection_turn_out
  /\ UNCHANGED reqUnchanged

-----------------------------------------------------------------------------
(* request.c: sending.                                                     *)

\* Mutants: the handlers are not set again; the buffer is cleared, its read
\* position is not; the file is not closed.
request_reset_keeps_handlers(q) ==
  [FreshRequest EXCEPT !.req_handler = q.req_handler, !.res_handler = q.res_handler]
ob_sent_keeps_position(q) == [q EXCEPT !.ob = <<>>]
file_sent_keeps_open(q) == [q EXCEPT !.response_done = TRUE]

\* request_reset, and what the two response handlers do at the end: the
\* buffer is empty, the file is closed.
request_reset(q) == FreshRequest
ob_sent(q) == [q EXCEPT !.ob = <<>>, !.buffer_sent = 0]
file_sent(q) == [q EXCEPT !.response_done = TRUE, !.resource_fd = "closed"]

\* The response handler returns status with request q and interest S: the
\* loop of response_handle goes on, or its second half runs.
ResReturns(q, S, status) ==
  IF status = "OK" /\ ~q.response_done
    THEN /\ r' = q
         /\ epoll_mod(S)
         /\ UNCHANGED <<pc, age, mask, leaked>>
    ELSE IF q.response_done /\ q.keep_alive
    THEN /\ r' = request_reset(q)
         /\ leaked' = (leaked \/ q.resource_fd = "open")
         /\ epoll_mod({"IN"})
         /\ Handled(status)
    ELSE /\ r' = q
         /\ epoll_mod(S)
         /\ Handled(IF q.response_done THEN "ERROR" ELSE status)
         /\ UNCHANGED leaked

resUnchanged == <<clientVars, inq, fin, rst, open>>

\* One call of send in the loop of response_send, and what
\* response_handle_send_buffer makes of the result.
response_handle_send_buffer ==
  /\ pc = "res" /\ r.res_handler = "send_buffer"
  /\ LET unsent == Len(r.ob) - r.buffer_sent
         n == Min({unsent, Room})
         q == ob_sent(r)
     IN \/ /\ rst
           /\ ResReturns(r, events, "ERROR")
           /\ UNCHANGED outq
        \/ /\ ~rst /\ unsent > 0 /\ Room > 0
           /\ outq' = outq \o SubSeq(r.ob, r.buffer_sent + 1, r.buffer_sent + n)
           /\ r' = [r EXCEPT !.buffer_sent = @ + n]
           /\ UNCHANGED <<epollVars, pc, age, mask, leaked>>
        \/ /\ ~rst /\ unsent > 0 /\ Room = 0
           /\ ResReturns(r, events, "AGAIN")
           /\ UNCHANGED outq
        \/ /\ ~rst /\ unsent = 0
           /\ IF r.resource_fd # "none"
                THEN ResReturns([q EXCEPT !.res_handler = "send_file"], events, "OK")
                ELSE ResReturns([q EXCEPT !.response_done = TRUE],
                                events \ {"OUT"}, "OK")
           /\ UNCHANGED outq
  /\ UNCHANGED resUnchanged

\* One call of sendfile in the loop of response_handle_send_file.  At the end
\* of the file it returns 0 whatever the state of the socket.
response_handle_send_file ==
  /\ pc = "res" /\ r.res_handler = "send_file"
  /\ LET n == Min({r.file_left, Room})
     IN \/ /\ rst /\ r.file_left > 0
           /\ ResReturns(r, events, "ERROR")
           /\ UNCHANGED outq
        \/ /\ ~rst /\ r.file_left > 0 /\ Room > 0
           /\ outq' = outq \o Units(n)
           /\ r' = [r EXCEPT !.file_left = @ - n]
           /\ UNCHANGED <<epollVars, pc, age, mask, leaked>>
        \/ /\ ~rst /\ r.file_left > 0 /\ Room = 0
           /\ ResReturns(r, events, "AGAIN")
           /\ UNCHANGED outq
        \/ /\ r.file_left = 0
           /\ ResReturns(file_sent(r), events, "OK")
           /\ UNCHANGED outq
  /\ UNCHANGED resUnchanged

-----------------------------------------------------------------------------
ClientNext ==
  \/ \E t \in RequestLines : client_sends_line(t)
  \/ \E h \in Headers : client_sends_header(h)
  \/ client_sends_crlf
  \/ client_sends_body
  \/ client_reads
  \/ client_shuts_down
  \/ client_resets
  \/ client_reconnects

WorkerNext ==
  \/ lotos_epoll_wait
  \/ dispatch
  \/ request_recv
  \/ request_handle_request_line
  \/ request_handle_headers
  \/ parse_header_line
  \/ request_handle_body
  \/ response_handle_send_buffer
  \/ response_handle_send_file
  \/ connection_prune

Next == ClientNext \/ WorkerNext \/ time_passes

Spec == Init /\ [][Next]_vars

\* The worker runs; a client that has begun a request finishes it and reads.
FairSpec ==
  /\ Spec
  /\ WF_vars(WorkerNext)
  /\ WF_vars(client_sends_crlf)
  /\ WF_vars(client_sends_body)
  /\ WF_vars(client_reads)

\* As above for a client that may go away or fall silent: time passes too.
TimedSpec ==
  /\ Spec
  /\ WF_vars(WorkerNext)
  /\ WF_vars(time_passes)

-----------------------------------------------------------------------------
Tokens == GoodLines \cup BadLines \cup HeaderLines \cup {"crlf", "body"}
AllUnits == {BodyUnit} \cup {HeadUnit(n, k) : n \in {FileLen, DirLen, ErrLen},
                                              k \in BOOLEAN}

TypeOK ==
  /\ sending \in {"line", "headers", "body"}
  /\ hsent \in 0 .. MaxHeaders /\ bodyLeft \in 0 .. BodyLen + 1
  /\ owed \in 0 .. MaxOwed /\ left \in Nat
  /\ {last, garbled, fin, rst, nospace, ready, open, leaked} \subseteq BOOLEAN
  /\ inq \in Seq(Tokens) /\ Len(inq) =< RcvCap
  /\ outq \in Seq(AllUnits) /\ Len(outq) =< SndCap
  /\ events \subseteq {"IN", "OUT"} /\ mask \subseteq {"IN", "OUT"}
  /\ pc \in {"wait", "dispatch", "recv", "req", "headers", "res", "prune"}
  /\ age \in {"young", "at", "above", "failed"}
  /\ r.ib \in Seq(Tokens) /\ r.ob \in Seq(AllUnits)
  /\ r.buffer_sent \in 0 .. Len(r.ob)
  /\ r.req_handler \in {"request_line", "headers", "body", "null"}
  /\ r.res_handler \in {"send_buffer", "send_file"}
  /\ {r.keep_alive, r.err_req, r.response_done} \subseteq BOOLEAN
  /\ r.content_length \in {-1, BodyLen} /\ r.body_received \in Nat
  /\ r.transfer_encoding \in {"identity", "chunked"}
  /\ r.resource_fd \in {"none", "open", "closed"}
  /\ r.resource_size \in {0, FileLen, DirLen} /\ r.file_left \in Nat

\* Between two events a connection waits either for EPOLLIN, and then has a
\* handler to call (request_handle calls r->req_handler without a test), or
\* for EPOLLOUT, and then has something to send.
OneDirection ==
  pc \in {"wait", "dispatch"} /\ open =>
    \/ events = {"IN"} /\ r.req_handler # "null" /\ ~r.response_done
    \/ events = {"OUT"} /\ (r.ob # <<>> \/ r.res_handler = "send_file")

\* The loops of request_recv and response_send and the order of the epoll_ctl
\* calls leave no edge behind: when the worker waits and the socket is ready
\* for what the connection waits for, epoll_wait will report it.
NoLostWakeup == pc = "wait" /\ open /\ Poll \cap events # {} => ready

\* The client can tell the responses apart: every head comes where one is due,
\* answers a request that has none yet, and is followed by as many units as
\* it announced.
WellFramed == ~garbled

\* A connection that failed (connecion_set_expired) is not revived, by a second
\* handler or a later event, before connection_prune closes it.
FailedIsClosed == [][open /\ open' /\ age = "failed" => age' = "failed"]_vars

\* No connection is closed, and no request reset, with resource_fd open.
NoFdLeak == ~leaked

\* DESIGN.md on response_send: after AGAIN the rest is sent the next time.  Of
\* a file's response this is so; only an error response, which is marked done
\* before it is sent, is given up with a part unsent while the client is there.
CutShortOnlyErrors ==
  /\ pc = "prune" /\ age = "failed" /\ ~fin /\ ~rst
  /\ r.buffer_sent < Len(r.ob) \/ r.resource_fd = "open"
  => r.err_req

\* A client that sends one request at a time and reads gets, for each, its
\* complete response.
Answered == (owed > 0) ~> (owed = 0 /\ left = 0)

\* A client that went away is eventually disconnected, whatever the state its
\* request or its response was in.
QuitterIsClosed == (open /\ (fin \/ rst)) ~> ~open

\* Nobody waits for ever: a client that waits for a response or for the rest of
\* one gets it or is disconnected, also when the file became shorter than
\* announced, atoi understood another length than the client meant, or the
\* client itself is silent.
WaitEnds == (owed > 0 \/ left > 0) ~> ((owed = 0 /\ left = 0) \/ ~open)
=============================================================================
