--------------------------- MODULE ExchangeProofs ---------------------------
(***************************************************************************)
(* Exchange for every length of file, page, body and queue, every set of   *)
(* request and header lines, and whatever the client does.                 *)
(*                                                                         *)
(* The argument rests on what each place of the event loop knows of the    *)
(* epoll item: a connection waits for one direction at a time, so that an  *)
(* event is handled by one of the two halves of request.c only, and that   *)
(* half leaves the loop having seen EAGAIN or having changed the interest. *)
(***************************************************************************)
EXTENDS Exchange, TLAPS

Request ==
  [ib : Seq(Tokens), ob : Seq(AllUnits), buffer_sent : Nat,
   req_handler : {"request_line", "headers", "body", "null"},
   res_handler : {"send_buffer", "send_file"},
   keep_alive : BOOLEAN, content_length : {-1, BodyLen},
   transfer_encoding : {"identity", "chunked"},
   body_received : Nat, err_req : BOOLEAN, response_done : BOOLEAN,
   resource_fd : {"none", "open", "closed"},
   resource_size : {0, FileLen, DirLen}, file_left : Nat]

ClientOK ==
  /\ sending \in {"line", "headers", "body"}
  /\ hsent \in 0 .. MaxHeaders /\ bodyLeft \in 0 .. BodyLen + 1
  /\ sending = "body" => bodyLeft > 0
  /\ owed \in 0 .. MaxOwed /\ left \in Nat
  /\ last \in BOOLEAN /\ garbled \in BOOLEAN

SocketOK ==
  /\ inq \in Seq(Tokens) /\ Len(inq) =< RcvCap
  /\ outq \in Seq(AllUnits) /\ Len(outq) =< SndCap
  /\ fin \in BOOLEAN /\ rst \in BOOLEAN /\ nospace \in BOOLEAN /\ ready \in BOOLEAN

\* A head that is put together announces the size of what was opened.
RequestOK ==
  /\ r \in Request /\ r.buffer_sent =< Len(r.ob)
  /\ pc = "headers" \/ r.req_handler \in {"headers", "body"} =>
       r.resource_size \in {FileLen, DirLen}

\* Which interest and which event each place of the loop has.
LoopOK ==
  /\ pc \in {"wait", "dispatch", "recv", "req", "headers", "res", "prune"}
  /\ age \in {"young", "at", "above", "failed"}
  /\ open \in BOOLEAN /\ leaked \in BOOLEAN
  /\ events \in {{}, {"IN"}, {"OUT"}} /\ mask \in {{}, {"IN"}, {"OUT"}}
  /\ pc = "dispatch" => mask = events /\ mask # {}
  /\ pc = "recv" => mask = {"IN"} /\ events = {"IN"}
  /\ pc \in {"req", "headers"} => mask = {"IN"}
  /\ pc = "res" => mask = {"OUT"} /\ events = {"OUT"}
  /\ ~open => pc = "wait"
  /\ open /\ age = "failed" => pc = "prune"

\* connection_prune will close the connection: its time is up, or it has failed.
Doomed == pc = "prune" /\ age # "young"
Closing == pc = "prune" /\ age = "failed"

\* What the interest says of the request.
InterestOK ==
  /\ pc = "req" => r.req_handler # "null"
  /\ open /\ events = {} => Closing
  /\ events = {"IN"} => /\ r.req_handler # "null" /\ ~r.response_done /\ ~r.err_req
                        /\ r.res_handler = "send_buffer"
  /\ events = {"OUT"} => Closing \/ r.ob # <<>> \/ r.res_handler = "send_file"
  /\ r.res_handler = "send_file" =>
       /\ r.ob = <<>> /\ r.buffer_sent = 0
       /\ pc \notin {"recv", "req", "headers"}
  /\ r.response_done => r.err_req \/ (Closing /\ r.ob = <<>> /\ r.resource_fd # "open")

\* An edge that the worker has not been told of is on the ready list, or the
\* handler that is about to run will find what it is about.
WakeupOK ==
  /\ open /\ events = {"IN"} /\ (inq # <<>> \/ fin \/ rst) =>
       ready \/ pc \in {"dispatch", "recv"} \/ Doomed
  /\ open /\ events = {"OUT"} /\ (Len(outq) < SndCap \/ rst) =>
       ready \/ pc \in {"dispatch", "res"} \/ Doomed
  /\ open /\ events = {"OUT"} /\ Len(outq) = SndCap =>
       nospace \/ pc \in {"dispatch", "res"} \/ Doomed

TypesOK == ClientOK /\ SocketOK /\ RequestOK /\ LoopOK
ExchangeInv == TypesOK /\ InterestOK /\ WakeupOK /\ CutShortOnlyErrors

\* The constants, one by one.
LEMMA Constants ==
  /\ DirLen \in Nat /\ ErrLen \in Nat /\ FileSizes \subseteq Nat
  /\ FileLen \in Nat \ {0} /\ BodyLen \in Nat \ {0}
  /\ RcvCap \in Nat \ {0} /\ SndCap \in Nat \ {0} /\ MaxOwed \in Nat \ {0}
  /\ MaxHeaders \in Nat
  /\ RequestLines \subseteq Tokens /\ Headers \subseteq Tokens
BY ExchangeAssumption DEF Tokens, HeaderLines, BadLines

-----------------------------------------------------------------------------
(***************************************************************************)
(* Requests and units.                                                     *)
(***************************************************************************)

LEMMA UnitsTyped ==
  /\ BodyUnit \in AllUnits
  /\ \A n \in {FileLen, DirLen, ErrLen}, k \in BOOLEAN : HeadUnit(n, k) \in AllUnits
  /\ \A n \in Nat : Units(n) \in Seq(AllUnits) /\ Len(Units(n)) = n
  /\ \A u \in AllUnits : u.len \in Nat /\ u.keep \in BOOLEAN /\ u.kind \in {"head", "body"}
<1>1. BodyUnit \in AllUnits
  BY DEF AllUnits
<1>2. \A n \in {FileLen, DirLen, ErrLen}, k \in BOOLEAN : HeadUnit(n, k) \in AllUnits
  BY DEF AllUnits
<1>3. \A n \in Nat : Units(n) \in Seq(AllUnits) /\ Len(Units(n)) = n
  BY <1>1 DEF Units
<1>4. ASSUME NEW u \in AllUnits
      PROVE  u.len \in Nat /\ u.keep \in BOOLEAN /\ u.kind \in {"head", "body"}
  <2>1. CASE u = BodyUnit
    BY <2>1 DEF BodyUnit
  <2>2. ASSUME NEW n \in {FileLen, DirLen, ErrLen}, NEW k \in BOOLEAN, u = HeadUnit(n, k)
        PROVE  u.len \in Nat /\ u.keep \in BOOLEAN /\ u.kind \in {"head", "body"}
    BY <2>2, Constants DEF HeadUnit
  <2> QED BY <2>1, <2>2 DEF AllUnits
<1> QED BY <1>1, <1>2, <1>3, <1>4

LEMMA FreshTyped ==
  /\ FreshRequest \in Request
  /\ FreshRequest.ib = <<>> /\ FreshRequest.ob = <<>> /\ FreshRequest.buffer_sent = 0
  /\ FreshRequest.req_handler = "request_line" /\ FreshRequest.res_handler = "send_buffer"
  /\ ~FreshRequest.err_req /\ ~FreshRequest.response_done
  /\ FreshRequest.resource_fd = "none"
  /\ FreshRequest.buffer_sent =< Len(FreshRequest.ob)
BY DEF FreshRequest, Request

\* A request stays one when a field gets another value of its kind.
LEMMA Updates ==
  ASSUME NEW q \in Request
  PROVE  /\ \A v \in Seq(Tokens) : [q EXCEPT !.ib = v] \in Request
         /\ \A v \in Seq(AllUnits) : [q EXCEPT !.ob = v] \in Request
         /\ \A v \in Nat : [q EXCEPT !.buffer_sent = v] \in Request
         /\ \A v \in {"request_line", "headers", "body", "null"} :
              [q EXCEPT !.req_handler = v] \in Request
         /\ \A v \in {"send_buffer", "send_file"} : [q EXCEPT !.res_handler = v] \in Request
         /\ \A v \in BOOLEAN : [q EXCEPT !.keep_alive = v] \in Request
         /\ \A v \in {-1, BodyLen} : [q EXCEPT !.content_length = v] \in Request
         /\ \A v \in {"identity", "chunked"} :
              [q EXCEPT !.transfer_encoding = v] \in Request
         /\ \A v \in Nat : [q EXCEPT !.body_received = v] \in Request
         /\ \A v \in BOOLEAN : [q EXCEPT !.err_req = v] \in Request
         /\ \A v \in BOOLEAN : [q EXCEPT !.response_done = v] \in Request
         /\ \A v \in {"none", "open", "closed"} : [q EXCEPT !.resource_fd = v] \in Request
         /\ \A v \in {0, FileLen, DirLen} : [q EXCEPT !.resource_size = v] \in Request
         /\ \A v \in Nat : [q EXCEPT !.file_left = v] \in Request
BY Zenon DEF Request

-----------------------------------------------------------------------------
(***************************************************************************)
(* The client.                                                             *)
(***************************************************************************)

LEMMA ExchangeInit == Init => ExchangeInv
<1> SUFFICES ASSUME Init PROVE ExchangeInv
  OBVIOUS
<1>1. ClientOK
  <2>1. last \in BOOLEAN /\ garbled \in BOOLEAN /\ sending = "line"
    BY DEF Init
  <2>2. hsent = 0 /\ bodyLeft = 0 /\ owed = 0 /\ left = 0
    BY DEF Init
  <2> QED BY <2>1, <2>2, Constants DEF ClientOK
<1>2. SocketOK
  <2>1. /\ fin \in BOOLEAN /\ rst \in BOOLEAN
        /\ nospace \in BOOLEAN /\ ready \in BOOLEAN
    BY DEF Init
  <2>2. inq = <<>> /\ outq = <<>>
    BY DEF Init
  <2> QED BY <2>1, <2>2, Constants DEF SocketOK
<1>3. RequestOK /\ LoopOK
  BY FreshTyped DEF Init, RequestOK, LoopOK
<1>4. InterestOK /\ WakeupOK /\ CutShortOnlyErrors
  BY FreshTyped DEF Init, InterestOK, WakeupOK, CutShortOnlyErrors
<1> QED BY <1>1, <1>2, <1>3, <1>4 DEF ExchangeInv, TypesOK

\* What the client does leaves the worker and its request alone.
LEMMA ClientKeeps ==
  ASSUME ExchangeInv, UNCHANGED <<events, pc, mask, open, age, r, leaked>>,
         fin => fin', rst => rst'
  PROVE  RequestOK' /\ LoopOK' /\ InterestOK' /\ CutShortOnlyErrors'
<1>1. RequestOK' /\ LoopOK'
  BY DEF ExchangeInv, TypesOK, RequestOK, LoopOK
<1>2. InterestOK' /\ CutShortOnlyErrors'
  BY DEF ExchangeInv, InterestOK, Closing, CutShortOnlyErrors
<1> QED BY <1>1, <1>2

\* A token that arrives is an edge for a connection that waits for EPOLLIN.
LEMMA SendKeeps ==
  ASSUME ExchangeInv, NEW t \in Tokens, Sends(t)
  PROVE  SocketOK' /\ RequestOK' /\ LoopOK' /\ InterestOK' /\ WakeupOK' /\ CutShortOnlyErrors'
<1>1. /\ UNCHANGED <<events, pc, mask, open, age, r, leaked, fin, rst, outq, nospace>>
      /\ inq' = Append(inq, t) /\ Len(inq) < RcvCap
      /\ ready' = (ready \/ {"IN"} \cap events # {})
  BY DEF Sends, MaySend, Edge
<1>2. inq' \in Seq(Tokens) /\ Len(inq') =< RcvCap
  BY <1>1, Constants DEF ExchangeInv, TypesOK, SocketOK
<1>3. ready' \in BOOLEAN /\ (ready => ready') /\ (events = {"IN"} => ready')
  BY <1>1
<1>4. SocketOK'
  BY <1>1, <1>2, <1>3 DEF ExchangeInv, TypesOK, SocketOK
<1>5. WakeupOK'
  BY <1>1, <1>3 DEF ExchangeInv, WakeupOK, Doomed
<1> QED BY <1>1, <1>4, <1>5, ClientKeeps

LEMMA ClientSends ==
  ASSUME ExchangeInv,
         \/ \E t \in RequestLines : client_sends_line(t)
         \/ \E h \in Headers : client_sends_header(h)
         \/ client_sends_crlf
         \/ client_sends_body
  PROVE  ExchangeInv'
<1>1. ASSUME NEW t \in RequestLines, client_sends_line(t) PROVE ExchangeInv'
  <2>1. Sends(t) /\ t \in Tokens
    BY <1>1, Constants DEF client_sends_line
  <2>2. ClientOK'
    BY <1>1, Constants DEF client_sends_line, Sends, ExchangeInv, TypesOK, ClientOK
  <2> QED BY <2>1, <2>2, SendKeeps DEF ExchangeInv, TypesOK
<1>2. ASSUME NEW h \in Headers, client_sends_header(h) PROVE ExchangeInv'
  <2>1. Sends(h) /\ h \in Tokens
    BY <1>2, Constants DEF client_sends_header
  <2>2. h \in {"clen", "clenwrap"} => MeantLen(h) \in {BodyLen, BodyLen + 1}
    <3>1. h = "clen" => MeantLen(h) = BodyLen
      BY DEF MeantLen
    <3>2. h = "clenwrap" => MeantLen(h) = BodyLen + 1
      BY DEF MeantLen
    <3> QED BY <3>1, <3>2
  <2>3. bodyLeft' \in 0 .. BodyLen + 1
    BY <1>2, <2>2, Constants DEF client_sends_header, ExchangeInv, TypesOK, ClientOK
  <2>4. ClientOK'
    BY <1>2, <2>3, Constants
       DEF client_sends_header, Sends, ExchangeInv, TypesOK, ClientOK
  <2> QED BY <2>1, <2>4, SendKeeps DEF ExchangeInv, TypesOK
<1>3. CASE client_sends_crlf \/ client_sends_body
  <2>1. \E t \in {"crlf", "body"} : Sends(t)
    BY <1>3 DEF client_sends_crlf, client_sends_body
  <2>2. {"crlf", "body"} \subseteq Tokens
    BY DEF Tokens
  <2>3. ClientOK'
    BY <1>3, Constants
       DEF client_sends_crlf, client_sends_body, Sends, ExchangeInv, TypesOK, ClientOK
  <2> QED BY <2>1, <2>2, <2>3, SendKeeps DEF ExchangeInv, TypesOK
<1> QED BY <1>1, <1>2, <1>3

\* Space in the send queue is an edge if the queue was found full before.
LEMMA ClientReads ==
  ASSUME ExchangeInv, client_reads
  PROVE  ExchangeInv'
<1> DEFINE u == Head(outq)
<1>1. /\ UNCHANGED <<sending, hsent, bodyLeft, inq, fin, rst, pc, mask, open, age, r, leaked>>
      /\ events' = events /\ outq' = Tail(outq) /\ outq # <<>> /\ nospace' = FALSE
      /\ ready' = (ready \/ (IF nospace /\ open THEN {"OUT"} ELSE {}) \cap events # {})
  BY DEF client_reads, Edge
<1>2. outq \in Seq(AllUnits) /\ Len(outq) =< SndCap
  BY DEF ExchangeInv, TypesOK, SocketOK
<1>3. u \in AllUnits /\ outq' \in Seq(AllUnits) /\ Len(outq') = Len(outq) - 1
      /\ Len(outq) \in Nat
  BY <1>1, <1>2
<1>4. ready' \in BOOLEAN /\ (ready => ready')
      /\ (nospace /\ open /\ events = {"OUT"} => ready')
  BY <1>1
<1>5. ClientOK'
  <2>1. u.len \in Nat /\ u.keep \in BOOLEAN
    BY <1>3, UnitsTyped
  <2>2. left' \in {left - 1, u.len, left} /\ (left' = left - 1 => left > 0 \/ left' \in Nat)
    BY <2>1 DEF client_reads, ExchangeInv, TypesOK, ClientOK
  <2>3. left' \in Nat
    BY <2>1, <2>2 DEF ExchangeInv, TypesOK, ClientOK
  <2>4. owed' \in 0 .. MaxOwed
    BY Constants DEF client_reads, ExchangeInv, TypesOK, ClientOK
  <2>5. last' \in BOOLEAN /\ garbled' \in BOOLEAN
    BY <2>1 DEF client_reads, ExchangeInv, TypesOK, ClientOK
  <2> QED BY <1>1, <2>3, <2>4, <2>5 DEF ExchangeInv, TypesOK, ClientOK
<1>6. SocketOK'
  <2>1. Len(outq') =< SndCap
    BY <1>2, <1>3, Constants
  <2> QED BY <1>1, <1>3, <1>4, <2>1 DEF ExchangeInv, TypesOK, SocketOK
<1>7. WakeupOK'
  <2>1. Len(outq) < SndCap \/ Len(outq) = SndCap
    BY <1>2, <1>3, Constants
  <2>2. Len(outq') # SndCap
    BY <1>2, <1>3, Constants
  <2> QED BY <1>1, <1>4, <2>1, <2>2 DEF ExchangeInv, WakeupOK, Doomed
<1> QED BY <1>1, <1>5, <1>6, <1>7, ClientKeeps DEF ExchangeInv, TypesOK

LEMMA ClientQuitsKeeps ==
  ASSUME ExchangeInv, client_shuts_down \/ client_resets
  PROVE  ExchangeInv'
<1>1. CASE client_shuts_down
  <2>1. /\ UNCHANGED <<clientVars, inq, rst, outq, nospace, events,
                       pc, mask, open, age, r, leaked>>
        /\ fin' = TRUE
        /\ ready' = (ready \/ {"IN"} \cap events # {})
    BY <1>1 DEF client_shuts_down, Edge
  <2>2. ready' \in BOOLEAN /\ (ready => ready') /\ (events = {"IN"} => ready')
    BY <2>1
  <2>3. ClientOK' /\ SocketOK'
    BY <2>1, <2>2 DEF ExchangeInv, TypesOK, ClientOK, SocketOK, clientVars
  <2>4. WakeupOK'
    BY <2>1, <2>2 DEF ExchangeInv, WakeupOK, Doomed
  <2> QED BY <2>1, <2>3, <2>4, ClientKeeps DEF ExchangeInv, TypesOK
<1>2. CASE client_resets
  <2>1. /\ UNCHANGED <<clientVars, fin, nospace, events, pc, mask, open, age, r, leaked>>
        /\ rst' = TRUE /\ inq' = <<>> /\ outq' = <<>> /\ ready' = TRUE
    BY <1>2 DEF client_resets
  <2>2. ClientOK' /\ SocketOK'
    BY <2>1, Constants DEF ExchangeInv, TypesOK, ClientOK, SocketOK, clientVars
  <2>3. WakeupOK'
    BY <2>1, Constants DEF WakeupOK
  <2> QED BY <2>1, <2>2, <2>3, ClientKeeps DEF ExchangeInv, TypesOK
<1> QED BY <1>1, <1>2

LEMMA ClientReconnects ==
  ASSUME ExchangeInv, client_reconnects
  PROVE  ExchangeInv'
<1> USE DEF client_reconnects
<1>1. ClientOK'
  <2>1. last' \in BOOLEAN /\ garbled' \in BOOLEAN /\ sending' = "line"
    OBVIOUS
  <2>2. hsent' = 0 /\ bodyLeft' = 0 /\ owed' = 0 /\ left' = 0
    OBVIOUS
  <2> QED BY <2>1, <2>2, Constants DEF ClientOK
<1>2. SocketOK'
  <2>1. /\ fin' \in BOOLEAN /\ rst' \in BOOLEAN
        /\ nospace' \in BOOLEAN /\ ready' \in BOOLEAN
    OBVIOUS
  <2>2. inq' = <<>> /\ outq' = <<>>
    OBVIOUS
  <2> QED BY <2>1, <2>2, Constants DEF SocketOK
<1>3. RequestOK' /\ LoopOK'
  BY FreshTyped DEF RequestOK, LoopOK, ExchangeInv, TypesOK
<1>4. InterestOK' /\ WakeupOK' /\ CutShortOnlyErrors'
  BY FreshTyped DEF InterestOK, WakeupOK, CutShortOnlyErrors
<1> QED BY <1>1, <1>2, <1>3, <1>4 DEF ExchangeInv, TypesOK

-----------------------------------------------------------------------------
(***************************************************************************)
(* epoll and the event loop.                                               *)
(***************************************************************************)

LEMMA PollIs ==
  /\ "IN" \in Poll <=> inq # <<>> \/ fin \/ rst
  /\ "OUT" \in Poll <=> Len(outq) < SndCap \/ rst
BY DEF Poll

\* A change of interest looks at the socket again.
LEMMA EpollMod ==
  ASSUME SocketOK, NEW S \in {{}, {"IN"}, {"OUT"}}, epoll_mod(S)
  PROVE  /\ events' = S
         /\ ready' \in BOOLEAN /\ nospace' \in BOOLEAN
         /\ (ready => ready') /\ (nospace => nospace')
         /\ Len(outq) = SndCap => nospace'
         /\ S = {"IN"} /\ events # S /\ (inq # <<>> \/ fin \/ rst) => ready'
         /\ S = {"OUT"} /\ events # S /\ (Len(outq) < SndCap \/ rst) => ready'
<1>1. Len(outq) = SndCap => Room = 0
  BY Constants DEF Room, SocketOK
<1>2. S = {"IN"} /\ (inq # <<>> \/ fin \/ rst) => Poll \cap S # {}
  BY PollIs
<1>3. S = {"OUT"} /\ (Len(outq) < SndCap \/ rst) => Poll \cap S # {}
  BY PollIs
<1>4. events' = S /\ ready' = (ready \/ (S # events /\ Poll \cap S # {}))
      /\ nospace' = (nospace \/ Room = 0)
  BY DEF epoll_mod
<1> QED BY <1>1, <1>2, <1>3, <1>4

\* An event is handled by one half of request.c, and connection_prune is next.
LEMMA HandledOnce ==
  ASSUME LoopOK, pc \in {"recv", "req", "headers", "res"}, NEW status, Handled(status)
  PROVE  /\ pc' = "prune" /\ mask' = mask
         /\ age' = IF status = "ERROR" THEN "failed" ELSE "young"
BY DEF LoopOK, Handled

\* Where the worker is busy the connection is open and has not failed.
LEMMA BusyIsOpen ==
  ASSUME LoopOK
  PROVE  pc \in {"dispatch", "recv", "req", "headers", "res"} => open /\ age # "failed"
BY DEF LoopOK

LEMMA WaitKeeps ==
  ASSUME ExchangeInv, lotos_epoll_wait
  PROVE  ExchangeInv'
<1>1. /\ UNCHANGED <<clientVars, socketVars, events, open, age, r, leaked>>
      /\ pc = "wait" /\ open
      /\ mask' = IF ready THEN Poll \cap events ELSE {}
      /\ ready' = FALSE /\ nospace' = (nospace \/ (ready /\ Room = 0))
      /\ pc' = IF mask' = {} THEN "prune" ELSE "dispatch"
  BY DEF lotos_epoll_wait
<1>2. events \in {{"IN"}, {"OUT"}} /\ age # "failed"
  BY <1>1 DEF ExchangeInv, TypesOK, LoopOK, InterestOK, Closing
<1>3. /\ mask' \in {{}, events}
      /\ mask' = {} /\ ready => Poll \cap events = {}
  BY <1>1, <1>2
<1>4. ClientOK'
  BY <1>1 DEF ExchangeInv, TypesOK, ClientOK, clientVars
<1>5. nospace' \in BOOLEAN /\ (nospace => nospace') /\ ready' \in BOOLEAN
  BY <1>1
<1>6. SocketOK'
  BY <1>1, <1>5 DEF ExchangeInv, TypesOK, SocketOK, socketVars
<1>7. RequestOK' /\ LoopOK'
  BY <1>1, <1>2, <1>3 DEF ExchangeInv, TypesOK, RequestOK, LoopOK
<1>8. InterestOK' /\ CutShortOnlyErrors'
  BY <1>1, <1>2 DEF ExchangeInv, TypesOK, LoopOK, InterestOK, Closing, CutShortOnlyErrors
<1>9. WakeupOK'
  <2>1. CASE mask' = {}
    <3>1. events = {"IN"} => ~(inq # <<>> \/ fin \/ rst)
      BY <1>1, <1>3, <2>1, PollIs DEF ExchangeInv, WakeupOK, Doomed
    <3>2. events = {"OUT"} => ~(Len(outq) < SndCap \/ rst)
      BY <1>1, <1>3, <2>1, PollIs DEF ExchangeInv, WakeupOK, Doomed
    <3>3. events = {"OUT"} /\ Len(outq) = SndCap => nospace'
      BY <1>1, <1>5 DEF ExchangeInv, WakeupOK, Doomed
    <3> QED BY <1>1, <3>1, <3>2, <3>3 DEF WakeupOK, socketVars
  <2>2. CASE mask' # {}
    BY <1>1, <2>2 DEF WakeupOK
  <2> QED BY <2>1, <2>2
<1> QED BY <1>4, <1>6, <1>7, <1>8, <1>9 DEF ExchangeInv, TypesOK

LEMMA DispatchKeeps ==
  ASSUME ExchangeInv, dispatch
  PROVE  ExchangeInv'
<1>1. /\ UNCHANGED <<clientVars, socketVars, epollVars, mask, open, age, r, leaked>>
      /\ pc = "dispatch"
      /\ pc' = IF age \in {"above", "failed"} THEN "prune"
               ELSE IF "IN" \in mask THEN "recv" ELSE "res"
  BY DEF dispatch, connecion_is_expired
<1>2. mask \in {{"IN"}, {"OUT"}} /\ events = mask /\ age # "failed" /\ open
  BY <1>1 DEF ExchangeInv, TypesOK, LoopOK
<1>3. ClientOK' /\ SocketOK'
  BY <1>1 DEF ExchangeInv, TypesOK, ClientOK, SocketOK, clientVars, socketVars, epollVars
<1>4. RequestOK' /\ LoopOK'
  BY <1>1, <1>2 DEF ExchangeInv, TypesOK, RequestOK, LoopOK, epollVars
<1>5. InterestOK' /\ CutShortOnlyErrors'
  BY <1>1, <1>2 DEF ExchangeInv, TypesOK, LoopOK, InterestOK, Closing, CutShortOnlyErrors,
                    epollVars
<1>6. WakeupOK'
  BY <1>1, <1>2 DEF WakeupOK, Doomed, epollVars
<1> QED BY <1>3, <1>4, <1>5, <1>6 DEF ExchangeInv, TypesOK

LEMMA TimeKeeps ==
  ASSUME ExchangeInv, time_passes
  PROVE  ExchangeInv'
<1>1. /\ UNCHANGED <<clientVars, socketVars, epollVars, pc, mask, open, r, leaked>>
      /\ age \in {"young", "at"} /\ age' \in {"at", "above"}
  BY DEF time_passes
<1>2. ClientOK' /\ SocketOK'
  BY <1>1 DEF ExchangeInv, TypesOK, ClientOK, SocketOK, clientVars, socketVars, epollVars
<1>3. RequestOK' /\ LoopOK'
  BY <1>1 DEF ExchangeInv, TypesOK, RequestOK, LoopOK, epollVars
<1>4. InterestOK' /\ CutShortOnlyErrors'
  BY <1>1 DEF ExchangeInv, TypesOK, LoopOK, InterestOK, Closing, CutShortOnlyErrors,
                    epollVars, socketVars
<1>5. WakeupOK'
  BY <1>1 DEF ExchangeInv, WakeupOK, Doomed, epollVars, socketVars
<1> QED BY <1>2, <1>3, <1>4, <1>5 DEF ExchangeInv, TypesOK

LEMMA PruneKeeps ==
  ASSUME ExchangeInv, connection_prune
  PROVE  ExchangeInv'
<1>1. /\ UNCHANGED <<clientVars, socketVars, nospace, mask, age>>
      /\ pc = "prune" /\ pc' = "wait" /\ open' = (age = "young")
  BY DEF connection_prune, TimeIsUp
<1>2. CASE age # "young"
  <2>1. /\ events' = {} /\ ready' = FALSE /\ r' = FreshRequest
        /\ leaked' = (leaked \/ r.resource_fd = "open")
    BY <1>2 DEF connection_prune, TimeIsUp
  <2>2. ClientOK' /\ SocketOK'
    BY <1>1, <2>1 DEF ExchangeInv, TypesOK, ClientOK, SocketOK, clientVars, socketVars
  <2>3. open' = FALSE /\ leaked' \in BOOLEAN
    BY <1>1, <1>2, <2>1
  <2>4. RequestOK' /\ LoopOK'
    BY <1>1, <2>1, <2>3, FreshTyped DEF ExchangeInv, TypesOK, RequestOK, LoopOK
  <2>5. InterestOK' /\ WakeupOK' /\ CutShortOnlyErrors'
    BY <1>1, <2>1, <2>3, FreshTyped DEF InterestOK, WakeupOK, CutShortOnlyErrors
  <2> QED BY <2>2, <2>4, <2>5 DEF ExchangeInv, TypesOK
<1>3. CASE age = "young"
  <2>1. UNCHANGED <<events, ready, leaked, r>> /\ open' = TRUE
    BY <1>1, <1>3 DEF connection_prune, TimeIsUp
  <2>2. open = TRUE
    BY <1>1 DEF ExchangeInv, TypesOK, LoopOK
  <2>3. ClientOK' /\ SocketOK'
    BY <1>1, <2>1 DEF ExchangeInv, TypesOK, ClientOK, SocketOK, clientVars, socketVars
  <2>4. RequestOK' /\ LoopOK'
    BY <1>1, <1>3, <2>1 DEF ExchangeInv, TypesOK, RequestOK, LoopOK
  <2>5. InterestOK' /\ CutShortOnlyErrors'
    BY <1>1, <1>3, <2>1, <2>2
       DEF ExchangeInv, InterestOK, Closing, CutShortOnlyErrors
  <2>6. WakeupOK'
    BY <1>1, <1>3, <2>1, <2>2 DEF ExchangeInv, WakeupOK, Doomed, socketVars
  <2> QED BY <2>3, <2>4, <2>5, <2>6 DEF ExchangeInv, TypesOK
<1> QED BY <1>2, <1>3

-----------------------------------------------------------------------------
(***************************************************************************)
(* request.c: receiving.                                                   *)
(***************************************************************************)

\* z has the response of q.
SameResponse(q, z) ==
  /\ z.ob = q.ob /\ z.buffer_sent = q.buffer_sent /\ z.res_handler = q.res_handler
  /\ z.err_req = q.err_req /\ z.response_done = q.response_done
  /\ z.resource_fd = q.resource_fd /\ z.resource_size = q.resource_size

\* z is q after response_assemble_err_buffer.
Refused(q, z) ==
  /\ z.ob # <<>> /\ Len(z.ob) >= Len(q.ob)
  /\ z.buffer_sent = q.buffer_sent /\ z.res_handler = q.res_handler
  /\ z.err_req = TRUE /\ z.response_done = TRUE /\ z.req_handler = "null"
  /\ z.resource_fd = q.resource_fd /\ z.resource_size = q.resource_size

LEMMA RecvKeeps ==
  ASSUME ExchangeInv, request_recv
  PROVE  ExchangeInv'
<1>1. /\ UNCHANGED <<clientVars, fin, rst, outq, epollVars, open, leaked>>
      /\ pc = "recv" /\ inq' = <<>> /\ r' = [r EXCEPT !.ib = r.ib \o inq]
      /\ IF rst \/ fin THEN Handled("ERROR") ELSE pc' = "req" /\ UNCHANGED <<age, mask>>
  BY DEF request_recv
<1>2. /\ r \in Request /\ inq \in Seq(Tokens) /\ mask = {"IN"} /\ events = {"IN"}
      /\ open /\ age # "failed" /\ r.req_handler # "null"
  BY <1>1 DEF ExchangeInv, TypesOK, RequestOK, SocketOK, LoopOK, InterestOK
<1>3. r' \in Request /\ SameResponse(r, r') /\ r'.req_handler = r.req_handler
  <2>1. r.ib \o inq \in Seq(Tokens)
    BY <1>2 DEF Request
  <2> DEFINE v == r.ib \o inq
  <2>2. r' = [r EXCEPT !.ib = v] /\ v \in Seq(Tokens)
    BY <1>1, <2>1
  <2> HIDE DEF v
  <2>3. r' \in Request
    BY <1>2, <2>2, Updates, Zenon
  <2>4. SameResponse(r, r') /\ r'.req_handler = r.req_handler
    BY <1>2, <2>2, Zenon DEF SameResponse, Request
  <2> QED BY <2>3, <2>4
<1>4. \/ (rst \/ fin) /\ pc' = "prune" /\ age' = "failed" /\ mask' = mask
      \/ ~rst /\ ~fin /\ pc' = "req" /\ age' = age /\ mask' = mask
  BY <1>1, HandledOnce DEF ExchangeInv, TypesOK
<1>5. ClientOK' /\ SocketOK'
  BY <1>1, Constants DEF ExchangeInv, TypesOK, ClientOK, SocketOK, clientVars, epollVars
<1>6. RequestOK' /\ LoopOK'
  BY <1>1, <1>2, <1>3, <1>4
     DEF ExchangeInv, TypesOK, RequestOK, LoopOK, epollVars, SameResponse
<1>7. InterestOK' /\ CutShortOnlyErrors'
  BY <1>1, <1>2, <1>3, <1>4
     DEF ExchangeInv, InterestOK, Closing, CutShortOnlyErrors, epollVars, SameResponse
<1>8. WakeupOK'
  BY <1>1, <1>2, <1>4 DEF WakeupOK, Doomed, epollVars
<1> QED BY <1>5, <1>6, <1>7, <1>8 DEF ExchangeInv, TypesOK

LEMMA AssembleErr ==
  ASSUME NEW q \in Request, NEW z, z = assemble_err(q)
  PROVE  z \in Request /\ Refused(q, z)
<1> DEFINE o == q.ob \o <<HeadUnit(ErrLen, FALSE)>> \o Units(ErrLen)
<1>1. o \in Seq(AllUnits) /\ o # <<>> /\ Len(o) >= Len(q.ob)
  <2> DEFINE h == HeadUnit(ErrLen, FALSE)
             us == Units(ErrLen)
             oh == q.ob \o <<h>>
  <2>1. h \in AllUnits /\ us \in Seq(AllUnits) /\ q.ob \in Seq(AllUnits)
    BY UnitsTyped, Constants DEF Request
  <2> HIDE DEF h, us
  <2>2. oh \in Seq(AllUnits) /\ Len(oh) = Len(q.ob) + 1 /\ Len(q.ob) \in Nat
    BY <2>1
  <2> HIDE DEF oh
  <2>3. oh \o us \in Seq(AllUnits) /\ Len(oh \o us) = Len(oh) + Len(us) /\ Len(us) \in Nat
    BY <2>1, <2>2
  <2>4. Len(oh \o us) > 0 /\ Len(oh \o us) >= Len(q.ob)
    BY <2>2, <2>3
  <2>5. oh \o us # <<>>
    BY <2>3, <2>4
  <2>6. o = oh \o us
    BY DEF oh, us, h
  <2> QED BY <2>3, <2>4, <2>5, <2>6
<1>2. z = [q EXCEPT !.req_handler = "null", !.err_req = TRUE, !.keep_alive = FALSE,
                    !.ob = o, !.response_done = TRUE]
  BY DEF assemble_err
<1> HIDE DEF o
<1>3. z \in Request
  BY <1>1, <1>2, Updates, Zenon
<1>4. /\ z.ob = o /\ z.buffer_sent = q.buffer_sent /\ z.res_handler = q.res_handler
      /\ z.err_req = TRUE /\ z.response_done = TRUE /\ z.req_handler = "null"
      /\ z.resource_fd = q.resource_fd /\ z.resource_size = q.resource_size
  BY <1>2, Zenon DEF Request
<1> QED BY <1>1, <1>3, <1>4 DEF Refused

LEMMA Taken ==
  ASSUME NEW q \in Request, q.ib # <<>>, NEW z, z = [q EXCEPT !.ib = Tail(@)]
  PROVE  /\ z \in Request /\ SameResponse(q, z)
         /\ z.req_handler = q.req_handler /\ z.ib = Tail(q.ib)
         /\ Head(q.ib) \in Tokens
<1> DEFINE v == Tail(q.ib)
<1>1. v \in Seq(Tokens) /\ Head(q.ib) \in Tokens
  <2>1. q.ib \in Seq(Tokens)
    BY DEF Request
  <2> QED BY <2>1
<1>2. z = [q EXCEPT !.ib = v]
  OBVIOUS
<1> HIDE DEF v
<1>3. z \in Request
  BY <1>1, <1>2, Updates, Zenon
<1>4. SameResponse(q, z) /\ z.req_handler = q.req_handler /\ z.ib = v
  BY <1>2, Zenon DEF SameResponse, Request
<1> QED BY <1>1, <1>3, <1>4 DEF v

\* A handler of request_handle that leaves a sound request, and the interest as
\* it is or at EPOLLOUT with a response to send, keeps the invariant.
LEMMA RequestStep ==
  ASSUME ExchangeInv, pc \in {"req", "headers"}, UNCHANGED reqUnchanged,
         r' \in Request, r'.buffer_sent =< Len(r'.ob),
         r'.res_handler = r.res_handler,
         r'.response_done => r'.err_req,
         \/ pc' \in {"req", "headers"} /\ UNCHANGED <<age, mask>>
         \/ pc' = "prune" /\ age' = "young" /\ mask' = mask,
         pc' = "req" => r'.req_handler # "null",
         pc' = "headers" \/ r'.req_handler \in {"headers", "body"} =>
           r'.resource_size \in {FileLen, DirLen},
         \/ /\ UNCHANGED epollVars
            /\ events = {"IN"} => r'.req_handler # "null" /\ ~r'.response_done /\ ~r'.err_req
            /\ events = {"OUT"} => r'.ob # <<>>
         \/ connection_turn_out /\ r'.ob # <<>>
  PROVE  ExchangeInv'
<1>1. /\ open /\ age # "failed" /\ mask = {"IN"} /\ events \in {{"IN"}, {"OUT"}}
      /\ r.res_handler = "send_buffer"
  BY DEF ExchangeInv, TypesOK, LoopOK, RequestOK, Request, InterestOK, Closing
<1>2. UNCHANGED <<clientVars, inq, fin, rst, outq, open, leaked>>
  BY DEF reqUnchanged, socketVars
<1>3. /\ events' \in {events, {"OUT"}}
      /\ ready' \in BOOLEAN /\ nospace' \in BOOLEAN
      /\ (ready => ready') /\ (nospace => nospace')
      /\ events' # events =>
           /\ Len(outq) = SndCap => nospace'
           /\ Len(outq) < SndCap \/ rst => ready'
  <2>1. CASE UNCHANGED epollVars
    BY <2>1 DEF epollVars, ExchangeInv, TypesOK, SocketOK
  <2>2. CASE connection_turn_out
    BY <2>2, EpollMod DEF connection_turn_out, ExchangeInv, TypesOK
  <2> QED BY <2>1, <2>2
<1>4. events' = {"OUT"} => r'.ob # <<>>
  BY <1>1, EpollMod DEF epollVars
<1>5. events' = {"IN"} => r'.req_handler # "null" /\ ~r'.response_done /\ ~r'.err_req
  <2>1. CASE UNCHANGED epollVars /\ (events = {"IN"} => r'.req_handler # "null" /\ ~r'.response_done /\ ~r'.err_req)
    BY <2>1 DEF epollVars
  <2>2. CASE connection_turn_out
    <3>1. events' = {"OUT"}
      BY <2>2 DEF connection_turn_out, epoll_mod
    <3> QED BY <3>1
  <2> QED BY <2>1, <2>2
<1>6. ClientOK' /\ SocketOK'
  BY <1>2, <1>3 DEF ExchangeInv, TypesOK, ClientOK, SocketOK, clientVars
<1>7. RequestOK'
  BY DEF RequestOK
<1>8. LoopOK'
  BY <1>1, <1>2, <1>3 DEF ExchangeInv, TypesOK, LoopOK
<1>9. InterestOK' /\ CutShortOnlyErrors'
  BY <1>1, <1>2, <1>3, <1>4, <1>5 DEF InterestOK, Closing, CutShortOnlyErrors
<1>10. WakeupOK'
  BY <1>1, <1>2, <1>3 DEF ExchangeInv, WakeupOK, Doomed
<1> QED BY <1>6, <1>7, <1>8, <1>9, <1>10 DEF ExchangeInv, TypesOK

\* The outcomes of a handler that has returned to the loop of request_handle.
LEMMA Returns ==
  ASSUME LoopOK, pc \in {"req", "headers"}, NEW q, NEW status \in {"OK", "AGAIN"},
         ReqReturns(q, status)
  PROVE  /\ r' = q
         /\ \/ pc' = "req" /\ q.req_handler # "null" /\ UNCHANGED <<age, mask>>
            \/ pc' = "prune" /\ age' = "young" /\ mask' = mask
BY HandledOnce DEF ReqReturns

LEMMA RequestLineKeeps ==
  ASSUME ExchangeInv, request_handle_request_line
  PROVE  ExchangeInv'
<1>1. pc = "req" /\ r.req_handler = "request_line" /\ UNCHANGED reqUnchanged
  BY DEF request_handle_request_line
<1>2. /\ r \in Request /\ r.buffer_sent =< Len(r.ob) /\ open /\ LoopOK
      /\ r.response_done => r.err_req
      /\ r.buffer_sent \in Nat /\ r.ob \in Seq(AllUnits)
      /\ events = {"IN"} => ~r.response_done /\ ~r.err_req
      /\ events = {"OUT"} => r.ob # <<>>
  BY <1>1 DEF ExchangeInv, TypesOK, RequestOK, Request, LoopOK, InterestOK, Closing
<1>3. CASE r.ib = <<>>
  <2>1. ReqReturns(r, "AGAIN") /\ UNCHANGED epollVars
    BY <1>3 DEF request_handle_request_line
  <2>2. r' = r /\ (pc' = "req" => r'.req_handler # "null")
        /\ (\/ pc' \in {"req", "headers"} /\ UNCHANGED <<age, mask>>
            \/ pc' = "prune" /\ age' = "young" /\ mask' = mask) /\ pc' # "headers"
    BY <1>1, <1>2, <2>1, Returns
  <2> QED BY <1>1, <1>2, <2>1, <2>2, RequestStep
<1>4. CASE r.ib # <<>>
  <2> DEFINE t == Head(r.ib)
             q == [r EXCEPT !.ib = Tail(@)]
             isDir == t = "noindex"
             fd == IF isDir THEN "none" ELSE "open"
             len == IF isDir THEN DirLen ELSE FileLen
             keep == t # "get10"
             Opened(size) == [q EXCEPT !.keep_alive = keep, !.resource_fd = fd,
                                !.resource_size = len, !.file_left = size,
                                !.req_handler = "headers"]
  <2>1. q \in Request /\ SameResponse(r, q)
    BY <1>2, <1>4, Taken
  <2>2. CASE t \in GoodLines
    <3>1. PICK size \in (IF isDir THEN {0} ELSE FileSizes) : ReqReturns(Opened(size), "OK")
      BY <1>4, <2>2 DEF request_handle_request_line
    <3>2. UNCHANGED epollVars
      BY <1>4, <2>2 DEF request_handle_request_line
    <3>3. size \in Nat /\ keep \in BOOLEAN /\ fd \in {"none", "open", "closed"}
          /\ len \in {0, FileLen, DirLen}
      BY Constants
    <3> DEFINE z == Opened(size)
    <3>4. z = [q EXCEPT !.keep_alive = keep, !.resource_fd = fd,
                        !.resource_size = len, !.file_left = size,
                        !.req_handler = "headers"]
      OBVIOUS
    <3> HIDE DEF z, q, fd, len, keep
    <3>5. z \in Request
      BY <2>1, <3>3, <3>4, Updates, Zenon
    <3>6. /\ z.ob = q.ob /\ z.buffer_sent = q.buffer_sent /\ z.res_handler = q.res_handler
          /\ z.err_req = q.err_req /\ z.response_done = q.response_done
          /\ z.req_handler = "headers" /\ z.resource_size = len
      BY <2>1, <3>4, Zenon DEF Request
    <3>7. r' = z /\ (\/ pc' = "req" /\ UNCHANGED <<age, mask>>
                     \/ pc' = "prune" /\ age' = "young" /\ mask' = mask)
      BY <1>1, <1>2, <3>1, Returns DEF z
    <3>8. len \in {FileLen, DirLen}
      BY DEF len
    <3> QED BY <1>1, <1>2, <2>1, <3>2, <3>5, <3>6, <3>7, <3>8, RequestStep
            DEF SameResponse
  <2>3. CASE t \notin GoodLines
    <3>1. ReqReturns(assemble_err(q), "OK") /\ connection_turn_out
      BY <1>4, <2>3 DEF request_handle_request_line
    <3> HIDE DEF q
    <3>2. r' = assemble_err(q)
          /\ (\/ pc' = "req" /\ r'.req_handler # "null" /\ UNCHANGED <<age, mask>>
              \/ pc' = "prune" /\ age' = "young" /\ mask' = mask)
      BY <1>1, <1>2, <3>1, Returns
    <3>3. r' \in Request /\ Refused(q, r')
      BY <2>1, <3>2, AssembleErr
    <3>4. r'.buffer_sent =< Len(r'.ob)
      BY <1>2, <2>1, <3>3 DEF SameResponse, Refused, Request
    <3> QED BY <1>1, <2>1, <3>1, <3>2, <3>3, <3>4, RequestStep DEF SameResponse, Refused
  <2> QED BY <2>2, <2>3
<1> QED BY <1>3, <1>4

\* A header either changes no more than what the response will say, or is
\* refused.
LEMMA HandleHeader ==
  ASSUME NEW q \in Request, NEW h \in HeaderLines, NEW z, z = handle_header(q, h)
  PROVE  /\ z \in Request
         /\ \/ SameResponse(q, z) /\ z.req_handler = q.req_handler
            \/ Refused(q, z)
<1>1. CASE h \in {"keepalive", "close"}
  <2>1. PICK k \in BOOLEAN : z = [q EXCEPT !.keep_alive = k]
    <3>1. h = "keepalive" => z = [q EXCEPT !.keep_alive = TRUE]
      BY DEF handle_header
    <3>2. h = "close" => z = [q EXCEPT !.keep_alive = FALSE]
      BY DEF handle_header
    <3> QED BY <1>1, <3>1, <3>2, Zenon
  <2>2. z \in Request
    BY <2>1, Zenon DEF Request
  <2>3. SameResponse(q, z) /\ z.req_handler = q.req_handler
    BY <2>1, Zenon DEF SameResponse, Request
  <2> QED BY <2>2, <2>3
<1>2. CASE h \in {"clen", "clenwrap"}
  <2>1. atoi(h) = BodyLen /\ BodyLen > 0
    BY <1>2, Constants DEF atoi
  <2>2. z = IF atoi(h) =< 0 THEN assemble_err(q) ELSE [q EXCEPT !.content_length = atoi(h)]
    BY <1>2 DEF handle_header
  <2>3. ~(atoi(h) =< 0)
    BY <2>1, Constants
  <2>4. z = [q EXCEPT !.content_length = BodyLen]
    BY <2>1, <2>2, <2>3, Zenon
  <2>5. z \in Request
    BY <2>4, Updates, Zenon
  <2>6. SameResponse(q, z) /\ z.req_handler = q.req_handler
    BY <2>4, Zenon DEF SameResponse, Request
  <2> QED BY <2>5, <2>6
<1>3. CASE h = "clen0"
  <2>1. atoi(h) = 0
    BY <1>3 DEF atoi
  <2>2. z = IF atoi(h) =< 0 THEN assemble_err(q) ELSE [q EXCEPT !.content_length = atoi(h)]
    BY <1>3 DEF handle_header
  <2>3. atoi(h) =< 0
    BY <2>1
  <2>4. z = assemble_err(q)
    BY <2>2, <2>3, Zenon
  <2> QED BY <2>4, AssembleErr
<1>4. CASE h = "chunked"
  <2> DEFINE c == [q EXCEPT !.transfer_encoding = "chunked"]
  <2>1. z = assemble_err(c)
    BY <1>4 DEF handle_header
  <2>2. c \in Request
    BY Updates, Zenon
  <2>3. SameResponse(q, c)
    BY Zenon DEF SameResponse, Request
  <2> HIDE DEF c
  <2>4. z \in Request /\ Refused(c, z)
    BY <2>1, <2>2, AssembleErr
  <2> QED BY <2>3, <2>4 DEF SameResponse, Refused
<1>5. CASE h \in {"badconn", "identity", "badte"}
  <2>1. z = assemble_err(q)
    <3>1. h = "badconn" => z = assemble_err(q)
      BY DEF handle_header
    <3>2. h = "identity" => z = assemble_err(q)
      BY DEF handle_header
    <3>3. h = "badte" => z = assemble_err(q)
      BY DEF handle_header
    <3> QED BY <1>5, <3>1, <3>2, <3>3
  <2> QED BY <2>1, AssembleErr
<1>6. CASE h = "plain"
  <2>1. z = q
    BY <1>6 DEF handle_header
  <2> QED BY <2>1 DEF SameResponse
<1> QED BY <1>1, <1>2, <1>3, <1>4, <1>5, <1>6 DEF HeaderLines

\* The facts about the request that every handler of request_handle starts from.
LEMMA ReceivingFacts ==
  ASSUME ExchangeInv, pc \in {"req", "headers"}
  PROVE  /\ r \in Request /\ r.buffer_sent =< Len(r.ob) /\ LoopOK
         /\ r.response_done => r.err_req
         /\ r.buffer_sent \in Nat /\ r.ob \in Seq(AllUnits) /\ r.ib \in Seq(Tokens)
         /\ r.resource_size \in {0, FileLen, DirLen}
         /\ r.err_req \in BOOLEAN /\ r.keep_alive \in BOOLEAN
         /\ r.body_received \in Nat /\ r.res_handler = "send_buffer"
         /\ pc = "headers" \/ r.req_handler \in {"headers", "body"} =>
              r.resource_size \in {FileLen, DirLen}
         /\ events \in {{"IN"}, {"OUT"}}
         /\ events = {"IN"} => r.req_handler # "null" /\ ~r.response_done /\ ~r.err_req
         /\ events = {"OUT"} => r.ob # <<>>
BY DEF ExchangeInv, TypesOK, RequestOK, Request, LoopOK, InterestOK, Closing

LEMMA HeadersKeeps ==
  ASSUME ExchangeInv, request_handle_headers
  PROVE  ExchangeInv'
<1>1. /\ pc = "req" /\ r.req_handler = "headers" /\ pc' = "headers"
      /\ UNCHANGED <<epollVars, age, mask, r>> /\ UNCHANGED reqUnchanged
  BY DEF request_handle_headers
<1> QED BY <1>1, ReceivingFacts, RequestStep

LEMMA HeaderLineKeeps ==
  ASSUME ExchangeInv, parse_header_line
  PROVE  ExchangeInv'
<1> DEFINE h == Head(r.ib)
           q == [r EXCEPT !.ib = Tail(@)]
<1>1. pc = "headers" /\ UNCHANGED reqUnchanged
  BY DEF parse_header_line
<1>2. CASE r.ib = <<>> /\ Handled("AGAIN") /\ UNCHANGED <<r, epollVars>>
  <2>1. pc' = "prune" /\ age' = "young" /\ mask' = mask
    BY <1>1, <1>2, ReceivingFacts, HandledOnce
  <2> QED BY <1>1, <1>2, <2>1, ReceivingFacts, RequestStep
<1>3. ASSUME r.ib # <<>>
      PROVE  q \in Request /\ SameResponse(r, q) /\ q.req_handler = r.req_handler
  BY <1>1, <1>3, ReceivingFacts, Taken
<1>4. CASE /\ r.ib # <<>> /\ h = "crlf"
           /\ ReqReturns([q EXCEPT !.req_handler = "body"], "OK")
           /\ UNCHANGED epollVars
  <2> DEFINE z == [q EXCEPT !.req_handler = "body"]
  <2>1. q \in Request /\ SameResponse(r, q)
    BY <1>3, <1>4
  <2>2. r' = z /\ (\/ pc' = "req" /\ UNCHANGED <<age, mask>>
                   \/ pc' = "prune" /\ age' = "young" /\ mask' = mask)
    BY <1>1, <1>4, ReceivingFacts, Returns
  <2> HIDE DEF q
  <2>3. z \in Request
    BY <2>1, Updates, Zenon
  <2>4. SameResponse(q, z) /\ z.req_handler = "body"
    BY <2>1, Zenon DEF SameResponse, Request
  <2> HIDE DEF z
  <2> QED BY <1>1, <1>4, <2>1, <2>2, <2>3, <2>4, ReceivingFacts, RequestStep DEF SameResponse
<1>5. CASE /\ r.ib # <<>> /\ h \in HeaderLines
           /\ r' = handle_header(q, h)
           /\ IF r'.err_req THEN connection_turn_out ELSE UNCHANGED epollVars
           /\ UNCHANGED <<pc, age, mask>>
  <2>1. q \in Request /\ SameResponse(r, q) /\ q.req_handler = r.req_handler
    BY <1>3, <1>5
  <2> HIDE DEF q, h
  <2>2. /\ r' \in Request
        /\ \/ SameResponse(q, r') /\ r'.req_handler = q.req_handler
           \/ Refused(q, r')
    BY <1>5, <2>1, HandleHeader
  <2>3. CASE SameResponse(q, r') /\ r'.req_handler = q.req_handler
    <3>1. SameResponse(r, r') /\ r'.req_handler = r.req_handler
      BY <2>1, <2>3 DEF SameResponse
    <3>2. r.err_req => r.ob # <<>>
      BY <1>1, ReceivingFacts
    <3>3. \/ UNCHANGED epollVars
          \/ connection_turn_out /\ r'.ob # <<>>
      BY <1>5, <3>1, <3>2 DEF SameResponse
    <3> QED BY <1>1, <1>5, <2>2, <3>1, <3>3, ReceivingFacts, RequestStep DEF SameResponse
  <2>4. CASE Refused(q, r')
    <3>1. connection_turn_out
      BY <1>5, <2>4 DEF Refused
    <3>2. r'.buffer_sent =< Len(r'.ob)
      BY <1>1, <2>1, <2>2, <2>4, ReceivingFacts DEF SameResponse, Refused, Request
    <3> QED BY <1>1, <1>5, <2>1, <2>2, <2>4, <3>1, <3>2, ReceivingFacts, RequestStep
            DEF SameResponse, Refused
  <2> QED BY <2>2, <2>3, <2>4
<1>6. CASE /\ r.ib # <<>>
           /\ ReqReturns(assemble_err(q), "OK")
           /\ connection_turn_out
  <2>1. q \in Request /\ SameResponse(r, q)
    BY <1>3, <1>6
  <2> HIDE DEF q
  <2>2. r' = assemble_err(q)
        /\ (\/ pc' = "req" /\ r'.req_handler # "null" /\ UNCHANGED <<age, mask>>
            \/ pc' = "prune" /\ age' = "young" /\ mask' = mask)
    BY <1>1, <1>6, ReceivingFacts, Returns
  <2>3. r' \in Request /\ Refused(q, r')
    BY <2>1, <2>2, AssembleErr
  <2>4. r'.buffer_sent =< Len(r'.ob)
    BY <1>1, <2>1, <2>3, ReceivingFacts DEF SameResponse, Refused, Request
  <2> QED BY <1>1, <1>6, <2>1, <2>2, <2>3, <2>4, RequestStep DEF SameResponse, Refused
<1> QED BY <1>2, <1>4, <1>5, <1>6 DEF parse_header_line

LEMMA AssembleBuffer ==
  ASSUME NEW q \in Request, q.resource_size \in {FileLen, DirLen},
         NEW z, z = response_assemble_buffer(q)
  PROVE  /\ z \in Request /\ z.ob # <<>> /\ Len(z.ob) = Len(q.ob) + 1
         /\ z.buffer_sent = q.buffer_sent /\ z.res_handler = q.res_handler
         /\ z.err_req = q.err_req /\ z.response_done = q.response_done
         /\ z.req_handler = q.req_handler
<1> DEFINE len == IF q.err_req THEN ErrLen ELSE q.resource_size
           u == HeadUnit(len, q.keep_alive)
           o == Append(q.ob, u)
<1>1. u \in AllUnits
  <2>1. len \in {FileLen, DirLen, ErrLen} /\ q.keep_alive \in BOOLEAN
    BY DEF Request
  <2> HIDE DEF len
  <2> QED BY <2>1, UnitsTyped
<1>2. o \in Seq(AllUnits) /\ o # <<>> /\ Len(o) = Len(q.ob) + 1
  <2>1. q.ob \in Seq(AllUnits)
    BY DEF Request
  <2> HIDE DEF u
  <2>2. o \in Seq(AllUnits) /\ Len(o) = Len(q.ob) + 1 /\ Len(q.ob) \in Nat
    BY <1>1, <2>1
  <2>3. o # <<>>
    BY <2>2
  <2> QED BY <2>2, <2>3
<1>3. z = [q EXCEPT !.ob = o]
  BY DEF response_assemble_buffer
<1> HIDE DEF o
<1>4. z \in Request
  <2>1. o \in Seq(AllUnits)
    BY <1>2
  <2>2. [q EXCEPT !.ob = o] \in Request
    BY <2>1, Updates, Zenon
  <2> QED BY <1>3, <2>2, Zenon
<1>5. /\ z.ob = o /\ z.buffer_sent = q.buffer_sent /\ z.res_handler = q.res_handler
      /\ z.err_req = q.err_req /\ z.response_done = q.response_done
      /\ z.req_handler = q.req_handler
  BY <1>3, Zenon DEF Request
<1> QED BY <1>2, <1>4, <1>5

LEMMA BodyKeeps ==
  ASSUME ExchangeInv, request_handle_body
  PROVE  ExchangeInv'
<1> DEFINE taken == [r EXCEPT !.body_received = @ + Len(r.ib), !.ib = <<>>]
           q == IF r.content_length =< 0 THEN r ELSE taken
           n == [q EXCEPT !.req_handler = "null"]
<1>1. pc = "req" /\ r.req_handler = "body" /\ UNCHANGED reqUnchanged
  BY DEF request_handle_body
<1>2. r.resource_size \in {FileLen, DirLen} /\ r \in Request
  BY <1>1, ReceivingFacts
<1>3. q \in Request /\ SameResponse(r, q) /\ q.req_handler = "body"
  <2> DEFINE m == r.body_received + Len(r.ib)
  <2>1. m \in Nat
    BY <1>1, ReceivingFacts
  <2>2. <<>> \in Seq(Tokens)
    OBVIOUS
  <2>3. taken = [r EXCEPT !.body_received = m, !.ib = <<>>]
    OBVIOUS
  <2> HIDE DEF m
  <2>4. taken \in Request
    BY <1>2, <2>1, <2>2, <2>3, Updates, Zenon
  <2>5. SameResponse(r, taken) /\ taken.req_handler = r.req_handler
    BY <1>2, <2>3, Zenon DEF SameResponse, Request
  <2>6. SameResponse(r, r)
    BY DEF SameResponse
  <2> QED BY <1>1, <1>2, <2>4, <2>5, <2>6
<1> HIDE DEF q
<1>4. CASE ReqReturns(assemble_err(r), "OK") /\ connection_turn_out
  <2>1. r' = assemble_err(r)
        /\ (\/ pc' = "req" /\ r'.req_handler # "null" /\ UNCHANGED <<age, mask>>
            \/ pc' = "prune" /\ age' = "young" /\ mask' = mask)
    BY <1>1, <1>4, ReceivingFacts, Returns
  <2>2. r' \in Request /\ Refused(r, r')
    BY <1>2, <2>1, AssembleErr
  <2>3. r'.buffer_sent =< Len(r'.ob)
    BY <1>1, <2>2, ReceivingFacts DEF Refused, Request
  <2> QED BY <1>1, <1>4, <2>1, <2>2, <2>3, RequestStep DEF Refused
<1>5. CASE ReqReturns(q, "AGAIN") /\ UNCHANGED epollVars
  <2>1. r' = q
        /\ (\/ pc' = "req" /\ r'.req_handler # "null" /\ UNCHANGED <<age, mask>>
            \/ pc' = "prune" /\ age' = "young" /\ mask' = mask)
    BY <1>1, <1>5, ReceivingFacts, Returns
  <2> QED BY <1>1, <1>2, <1>3, <1>5, <2>1, ReceivingFacts, RequestStep DEF SameResponse
<1>6. CASE ReqReturns(response_assemble_buffer(n), "OK") /\ connection_turn_out
  <2>1. n \in Request
    BY <1>3, Updates, Zenon
  <2>2. SameResponse(q, n) /\ n.req_handler = "null"
    BY <1>3, Zenon DEF SameResponse, Request
  <2> HIDE DEF n
  <2>3. r' = response_assemble_buffer(n)
        /\ (\/ pc' = "req" /\ r'.req_handler # "null" /\ UNCHANGED <<age, mask>>
            \/ pc' = "prune" /\ age' = "young" /\ mask' = mask)
    BY <1>1, <1>6, ReceivingFacts, Returns
  <2>4. n.resource_size \in {FileLen, DirLen}
    BY <1>2, <1>3, <2>2 DEF SameResponse
  <2>5. /\ r' \in Request /\ r'.ob # <<>> /\ Len(r'.ob) = Len(n.ob) + 1
        /\ r'.buffer_sent = n.buffer_sent /\ r'.res_handler = n.res_handler
        /\ r'.err_req = n.err_req /\ r'.response_done = n.response_done
        /\ r'.req_handler = "null"
    BY <2>1, <2>2, <2>3, <2>4, AssembleBuffer
  <2>6. r'.buffer_sent =< Len(r'.ob)
    BY <1>1, <1>3, <2>2, <2>5, ReceivingFacts DEF SameResponse
  <2> QED BY <1>1, <1>3, <1>6, <2>2, <2>3, <2>5, <2>6, ReceivingFacts, RequestStep
          DEF SameResponse
<1> QED BY <1>4, <1>5, <1>6 DEF request_handle_body, q, n

-----------------------------------------------------------------------------
(***************************************************************************)
(* request.c: sending.                                                     *)
(***************************************************************************)

\* The smaller of what is left and what the queue takes.
LEMMA MinOfTwo ==
  ASSUME NEW a \in Int, NEW b \in Int
  PROVE  Min({a, b}) \in {a, b} /\ Min({a, b}) =< a /\ Min({a, b}) =< b
<1>1. \E x \in {a, b} : \A y \in {a, b} : x =< y
  OBVIOUS
<1> QED BY <1>1 DEF Min

LEMMA SendingFacts ==
  ASSUME ExchangeInv, pc = "res"
  PROVE  /\ r \in Request /\ r.buffer_sent =< Len(r.ob) /\ LoopOK /\ SocketOK /\ ClientOK
         /\ r.buffer_sent \in Nat /\ r.ob \in Seq(AllUnits) /\ r.file_left \in Nat
         /\ open /\ age # "failed" /\ events = {"OUT"} /\ mask = {"OUT"}
         /\ r.ob # <<>> \/ r.res_handler = "send_file"
         /\ r.res_handler = "send_file" => r.ob = <<>> /\ r.buffer_sent = 0
         /\ r.response_done => r.err_req
         /\ r.response_done \in BOOLEAN /\ r.err_req \in BOOLEAN
         /\ r.req_handler \in {"headers", "body"} => r.resource_size \in {FileLen, DirLen}
         /\ outq \in Seq(AllUnits) /\ Len(outq) =< SndCap
         /\ Room \in Nat /\ Room = SndCap - Len(outq)
<1>1. outq \in Seq(AllUnits) /\ Len(outq) =< SndCap /\ Len(outq) \in Nat
  BY DEF ExchangeInv, TypesOK, SocketOK
<1>2. Room \in Nat /\ Room = SndCap - Len(outq)
  BY <1>1, Constants DEF Room
<1> QED BY <1>1, <1>2 DEF ExchangeInv, TypesOK, RequestOK, Request, LoopOK, InterestOK, Closing

\* A response handler that returns with request q and interest S.
LEMMA ResponseStep ==
  ASSUME ExchangeInv, pc = "res", UNCHANGED <<resUnchanged, outq>>,
         NEW q \in Request, NEW S \in {{}, {"OUT"}}, NEW status \in {"OK", "AGAIN", "ERROR"},
         ResReturns(q, S, status),
         q.buffer_sent =< Len(q.ob),
         q.req_handler \in {"headers", "body"} => q.resource_size \in {FileLen, DirLen},
         ~q.response_done => S = {"OUT"} /\ (q.ob # <<>> \/ q.res_handler = "send_file"),
         q.res_handler = "send_file" => q.ob = <<>> /\ q.buffer_sent = 0,
         q.response_done => q.err_req \/ (q.ob = <<>> /\ q.resource_fd # "open"),
         status = "AGAIN" => ~rst /\ Len(outq) = SndCap,
         status = "ERROR" => rst
  PROVE  ExchangeInv'
<1>1. UNCHANGED <<clientVars, inq, fin, rst, open, outq>>
  BY DEF resUnchanged
<1>2. ClientOK'
  BY <1>1, SendingFacts DEF ClientOK, clientVars
<1>3. q.buffer_sent \in Nat /\ q.ob \in Seq(AllUnits)
  BY DEF Request
<1>4. CASE status = "OK" /\ ~q.response_done
  <2>1. r' = q /\ epoll_mod(S) /\ UNCHANGED <<pc, age, mask, leaked>> /\ S = {"OUT"}
    BY <1>4 DEF ResReturns
  <2>2. events' = {"OUT"} /\ ready' \in BOOLEAN /\ nospace' \in BOOLEAN
    BY <2>1, EpollMod, SendingFacts
  <2>3. SocketOK'
    BY <1>1, <2>2, SendingFacts DEF SocketOK
  <2>4. RequestOK' /\ LoopOK'
    BY <1>1, <2>1, <2>2, SendingFacts DEF RequestOK, LoopOK
  <2>5. InterestOK' /\ CutShortOnlyErrors'
    BY <1>1, <1>4, <2>1, <2>2, SendingFacts DEF InterestOK, Closing, CutShortOnlyErrors
  <2>6. WakeupOK'
    BY <2>1, <2>2 DEF WakeupOK
  <2> QED BY <1>2, <2>3, <2>4, <2>5, <2>6 DEF ExchangeInv, TypesOK
<1>5. CASE ~(status = "OK" /\ ~q.response_done) /\ q.response_done /\ q.keep_alive
  <2>1. r' = FreshRequest /\ epoll_mod({"IN"}) /\ Handled(status)
        /\ leaked' = (leaked \/ q.resource_fd = "open")
    BY <1>5 DEF ResReturns, request_reset
  <2>2. pc' = "prune" /\ mask' = mask /\ age' = IF status = "ERROR" THEN "failed" ELSE "young"
    BY <2>1, HandledOnce, SendingFacts
  <2>3. /\ events' = {"IN"} /\ ready' \in BOOLEAN /\ nospace' \in BOOLEAN
        /\ (inq # <<>> \/ fin \/ rst) => ready'
    BY <2>1, EpollMod, SendingFacts
  <2>4. leaked' \in BOOLEAN
    BY <2>1
  <2>5. SocketOK'
    BY <1>1, <2>3, SendingFacts DEF SocketOK
  <2>6. RequestOK' /\ LoopOK'
    BY <1>1, <2>1, <2>2, <2>3, <2>4, FreshTyped, SendingFacts DEF RequestOK, LoopOK
  <2>7. InterestOK' /\ CutShortOnlyErrors'
    BY <1>1, <2>1, <2>2, <2>3, FreshTyped DEF InterestOK, CutShortOnlyErrors
  <2>8. WakeupOK'
    BY <1>1, <2>2, <2>3 DEF WakeupOK
  <2> QED BY <1>2, <2>5, <2>6, <2>7, <2>8 DEF ExchangeInv, TypesOK
<1>6. CASE ~(status = "OK" /\ ~q.response_done) /\ ~(q.response_done /\ q.keep_alive)
  <2> DEFINE st == IF q.response_done THEN "ERROR" ELSE status
  <2>1. r' = q /\ epoll_mod(S) /\ Handled(st) /\ UNCHANGED leaked
    BY <1>6 DEF ResReturns
  <2>2. pc' = "prune" /\ mask' = mask /\ age' = IF st = "ERROR" THEN "failed" ELSE "young"
    BY <2>1, HandledOnce, SendingFacts
  <2>3. /\ events' = S /\ ready' \in BOOLEAN /\ nospace' \in BOOLEAN
        /\ Len(outq) = SndCap => nospace'
    BY <2>1, EpollMod, SendingFacts
  <2>4. age' # "failed" => ~q.response_done /\ status = "AGAIN" /\ age' = "young"
    BY <1>6, <2>2
  <2>5. SocketOK'
    BY <1>1, <2>3, SendingFacts DEF SocketOK
  <2>6. age' \in {"young", "failed"}
    BY <2>2
  <2>7. RequestOK' /\ LoopOK'
    BY <1>1, <2>1, <2>2, <2>3, <2>6, SendingFacts DEF RequestOK, LoopOK
  <2>8. InterestOK'
    BY <1>1, <2>1, <2>2, <2>3, <2>4 DEF InterestOK, Closing
  <2>9. CutShortOnlyErrors'
    <3>1. age' = "failed" => q.response_done \/ rst
      BY <1>6, <2>2
    <3>2. q.response_done => q.err_req \/ (q.buffer_sent >= Len(q.ob) /\ q.resource_fd # "open")
      BY <1>3
    <3> QED BY <1>1, <1>3, <2>1, <3>1, <3>2 DEF CutShortOnlyErrors
  <2>10. WakeupOK'
    BY <1>1, <2>2, <2>3, <2>4, Constants DEF WakeupOK, Doomed
  <2> QED BY <1>2, <2>5, <2>7, <2>8, <2>9, <2>10 DEF ExchangeInv, TypesOK
<1> QED BY <1>4, <1>5, <1>6

\* One call of send or sendfile that the queue has room for.
LEMMA SomeSent ==
  ASSUME ExchangeInv, pc = "res", UNCHANGED resUnchanged,
         UNCHANGED <<epollVars, pc, age, mask, leaked>>,
         r' \in Request, r'.buffer_sent =< Len(r'.ob),
         r'.ob = r.ob, r'.req_handler = r.req_handler, r'.res_handler = r.res_handler,
         r'.err_req = r.err_req, r'.response_done = r.response_done,
         r'.resource_size = r.resource_size,
         r'.res_handler = "send_file" => r'.buffer_sent = 0,
         outq' \in Seq(AllUnits), Len(outq') =< SndCap
  PROVE  ExchangeInv'
<1>1. UNCHANGED <<clientVars, inq, fin, rst, open>>
  BY DEF resUnchanged
<1>2. ClientOK' /\ SocketOK'
  BY <1>1, SendingFacts DEF ClientOK, SocketOK, clientVars, epollVars
<1>3. RequestOK' /\ LoopOK'
  BY <1>1, SendingFacts DEF RequestOK, LoopOK, epollVars
<1>4. InterestOK' /\ CutShortOnlyErrors'
  BY <1>1, SendingFacts DEF InterestOK, Closing, CutShortOnlyErrors, epollVars
<1>5. WakeupOK'
  <2>1. events' = {"OUT"} /\ pc' = "res"
    BY SendingFacts DEF epollVars
  <2> QED BY <2>1 DEF WakeupOK
<1> QED BY <1>2, <1>3, <1>4, <1>5 DEF ExchangeInv, TypesOK

\* A piece of a sequence, and a sequence with a piece appended.
LEMMA Pieces ==
  ASSUME NEW S, NEW s \in Seq(S), NEW f \in Nat \ {0}, NEW m \in Nat, NEW n \in Nat,
         m =< Len(s), n = m - f + 1
  PROVE  SubSeq(s, f, m) \in Seq(S) /\ Len(SubSeq(s, f, m)) = n
<1>1. \A i \in 1 .. Len(SubSeq(s, f, m)) : SubSeq(s, f, m)[i] \in S
  OBVIOUS
<1> QED BY <1>1

LEMMA Longer ==
  ASSUME NEW S, NEW s \in Seq(S), NEW t \in Seq(S)
  PROVE  s \o t \in Seq(S) /\ Len(s \o t) = Len(s) + Len(t)
OBVIOUS

LEMMA SendBufferKeeps ==
  ASSUME ExchangeInv, response_handle_send_buffer
  PROVE  ExchangeInv'
<1> DEFINE unsent == Len(r.ob) - r.buffer_sent
           n == Min({unsent, Room})
           q == ob_sent(r)
<1>1. pc = "res" /\ r.res_handler = "send_buffer" /\ UNCHANGED resUnchanged
  BY DEF response_handle_send_buffer
<1>2. r \in Request /\ events = {"OUT"}
  BY <1>1, SendingFacts
<1>3. CASE rst /\ ResReturns(r, events, "ERROR") /\ UNCHANGED outq
  BY <1>1, <1>3, SendingFacts, ResponseStep
<1>4. CASE /\ ~rst /\ unsent > 0 /\ Room > 0
           /\ outq' = outq \o SubSeq(r.ob, r.buffer_sent + 1, r.buffer_sent + n)
           /\ r' = [r EXCEPT !.buffer_sent = @ + n]
           /\ UNCHANGED <<epollVars, pc, age, mask, leaked>>
  <2>1. unsent \in Nat /\ Room \in Nat /\ r.buffer_sent \in Nat /\ Len(r.ob) \in Nat
    BY <1>1, SendingFacts
  <2>2. n \in Nat /\ n =< unsent /\ n =< Room
    <3>1. unsent \in Int /\ Room \in Int
      BY <2>1
    <3> HIDE DEF unsent
    <3>2. n \in {unsent, Room} /\ n =< unsent /\ n =< Room
      BY <3>1, MinOfTwo, Zenon
    <3> QED BY <2>1, <3>2
  <2> DEFINE m == r.buffer_sent + n
             piece == SubSeq(r.ob, r.buffer_sent + 1, m)
  <2>3. m \in Nat /\ m =< Len(r.ob)
    BY <2>1, <2>2
  <2>4. piece \in Seq(AllUnits) /\ Len(piece) = n
    <3>1. r.ob \in Seq(AllUnits)
      BY <1>1, SendingFacts
    <3> HIDE DEF n
    <3> DEFINE f == r.buffer_sent + 1
    <3>2. f \in Nat \ {0} /\ n = m - f + 1
      BY <2>1, <2>2
    <3> HIDE DEF f, m
    <3>3. SubSeq(r.ob, f, m) \in Seq(AllUnits) /\ Len(SubSeq(r.ob, f, m)) = n
      BY <2>2, <2>3, <3>1, <3>2, Pieces, Zenon
    <3> QED BY <3>3, Zenon DEF f
  <2>5. r' = [r EXCEPT !.buffer_sent = m]
    BY <1>4
  <2> HIDE DEF m
  <2>6. r' \in Request
    BY <1>2, <2>3, <2>5, Updates, Zenon
  <2>7. /\ r'.buffer_sent = m
        /\ r'.ob = r.ob /\ r'.req_handler = r.req_handler /\ r'.res_handler = r.res_handler
        /\ r'.err_req = r.err_req /\ r'.response_done = r.response_done
        /\ r'.resource_size = r.resource_size
    BY <1>2, <2>5, Zenon DEF Request
  <2>8. outq' \in Seq(AllUnits) /\ Len(outq') =< SndCap
    <3>1. outq' = outq \o piece
      BY <1>4 DEF m
    <3> HIDE DEF piece, n
    <3>2. outq \in Seq(AllUnits) /\ Len(outq) \in Nat /\ Room = SndCap - Len(outq)
      BY <1>1, SendingFacts
    <3>3. outq' \in Seq(AllUnits) /\ Len(outq') = Len(outq) + n
      BY <2>4, <3>1, <3>2, Longer, Zenon
    <3> QED BY <2>2, <3>2, <3>3, Constants
  <2> QED BY <1>1, <1>4, <2>3, <2>6, <2>7, <2>8, SomeSent
<1>5. CASE ~rst /\ unsent > 0 /\ Room = 0 /\ ResReturns(r, events, "AGAIN") /\ UNCHANGED outq
  <2>1. Len(outq) = SndCap
    BY <1>1, <1>5, SendingFacts, Constants
  <2> QED BY <1>1, <1>5, <2>1, SendingFacts, ResponseStep
<1>6. CASE /\ unsent = 0 /\ UNCHANGED outq
           /\ IF r.resource_fd # "none"
                THEN ResReturns([q EXCEPT !.res_handler = "send_file"], events, "OK")
                ELSE ResReturns([q EXCEPT !.response_done = TRUE],
                                events \ {"OUT"}, "OK")
  <2>1. q = [r EXCEPT !.ob = <<>>, !.buffer_sent = 0]
    BY DEF ob_sent
  <2>2. <<>> \in Seq(AllUnits) /\ 0 \in Nat /\ Len(<<>>) = 0
    OBVIOUS
  <2> HIDE DEF q
  <2>3. q \in Request
    BY <1>2, <2>1, <2>2, Updates, Zenon
  <2>4. /\ q.ob = <<>> /\ q.buffer_sent = 0 /\ q.response_done = r.response_done
        /\ q.err_req = r.err_req /\ q.resource_fd = r.resource_fd
        /\ q.resource_size = r.resource_size /\ q.req_handler = r.req_handler
    BY <1>2, <2>1, Zenon DEF Request
  <2>5. CASE r.resource_fd # "none"
    <3> DEFINE z == [q EXCEPT !.res_handler = "send_file"]
    <3>1. ResReturns(z, events, "OK")
      BY <1>6, <2>5
    <3>2. z \in Request
      BY <2>3, Updates, Zenon
    <3>3. /\ z.ob = q.ob /\ z.buffer_sent = q.buffer_sent /\ z.res_handler = "send_file"
          /\ z.response_done = q.response_done /\ z.err_req = q.err_req
          /\ z.resource_size = q.resource_size /\ z.req_handler = q.req_handler
      BY <2>3, Zenon DEF Request
    <3> HIDE DEF z
    <3>4. z.buffer_sent =< Len(z.ob)
      BY <2>2, <2>4, <3>3
    <3> QED BY <1>1, <1>6, <2>4, <3>1, <3>2, <3>3, <3>4, SendingFacts, ResponseStep
  <2>6. CASE r.resource_fd = "none"
    <3> DEFINE z == [q EXCEPT !.response_done = TRUE]
    <3>1. ResReturns(z, {}, "OK")
      <4>1. events \ {"OUT"} = {}
        BY <1>2
      <4> QED BY <1>6, <2>6, <4>1
    <3>2. z \in Request
      BY <2>3, Updates, Zenon
    <3>3. /\ z.ob = q.ob /\ z.buffer_sent = q.buffer_sent /\ z.res_handler = q.res_handler
          /\ z.response_done = TRUE /\ z.resource_fd = q.resource_fd
          /\ z.resource_size = q.resource_size /\ z.req_handler = q.req_handler
      BY <2>3, Zenon DEF Request
    <3> HIDE DEF z
    <3>4. z.buffer_sent =< Len(z.ob)
      BY <2>2, <2>4, <3>3
    <3> QED BY <1>1, <1>6, <2>4, <2>6, <3>1, <3>2, <3>3, <3>4, SendingFacts, ResponseStep
  <2> QED BY <2>5, <2>6
<1> QED BY <1>1, <1>3, <1>4, <1>5, <1>6 DEF response_handle_send_buffer

LEMMA SendFileKeeps ==
  ASSUME ExchangeInv, response_handle_send_file
  PROVE  ExchangeInv'
<1> DEFINE n == Min({r.file_left, Room})
<1>1. pc = "res" /\ r.res_handler = "send_file" /\ UNCHANGED resUnchanged
  BY DEF response_handle_send_file
<1>2. r \in Request /\ events = {"OUT"} /\ r.file_left \in Nat /\ Room \in Nat
  BY <1>1, SendingFacts
<1>3. CASE rst /\ ResReturns(r, events, "ERROR") /\ UNCHANGED outq
  BY <1>1, <1>3, SendingFacts, ResponseStep
<1>4. CASE /\ ~rst /\ r.file_left > 0 /\ Room > 0
           /\ outq' = outq \o Units(n)
           /\ r' = [r EXCEPT !.file_left = @ - n]
           /\ UNCHANGED <<epollVars, pc, age, mask, leaked>>
  <2>1. n \in Nat /\ n =< r.file_left /\ n =< Room
    <3>1. r.file_left \in Int /\ Room \in Int
      BY <1>2
    <3>2. n \in {r.file_left, Room} /\ n =< r.file_left /\ n =< Room
      BY <3>1, MinOfTwo, Zenon
    <3> QED BY <1>2, <3>2
  <2> HIDE DEF n
  <2> DEFINE m == r.file_left - n
             us == Units(n)
  <2>2. m \in Nat
    BY <1>2, <2>1
  <2>3. us \in Seq(AllUnits) /\ Len(us) = n
    BY <2>1, UnitsTyped
  <2>4. r' = [r EXCEPT !.file_left = m]
    BY <1>4
  <2> HIDE DEF m
  <2>5. r' \in Request
    BY <1>2, <2>2, <2>4, Updates, Zenon
  <2>6. /\ r'.buffer_sent = r.buffer_sent
        /\ r'.ob = r.ob /\ r'.req_handler = r.req_handler /\ r'.res_handler = r.res_handler
        /\ r'.err_req = r.err_req /\ r'.response_done = r.response_done
        /\ r'.resource_size = r.resource_size
    BY <1>2, <2>4, Zenon DEF Request
  <2>7. outq' \in Seq(AllUnits) /\ Len(outq') =< SndCap
    <3>1. outq' = outq \o us
      BY <1>4
    <3> HIDE DEF us
    <3>2. outq' \in Seq(AllUnits) /\ Len(outq') = Len(outq) + n
      BY <1>1, <2>3, <3>1, SendingFacts
    <3> QED BY <1>1, <2>1, <3>2, SendingFacts, Constants
  <2> QED BY <1>1, <1>4, <2>5, <2>6, <2>7, SendingFacts, SomeSent
<1>5. CASE ~rst /\ Room = 0 /\ ResReturns(r, events, "AGAIN") /\ UNCHANGED outq
  <2>1. Len(outq) = SndCap
    BY <1>1, <1>5, SendingFacts, Constants
  <2> QED BY <1>1, <1>5, <2>1, SendingFacts, ResponseStep
<1>6. CASE ResReturns(file_sent(r), events, "OK") /\ UNCHANGED outq
  <2> DEFINE z == file_sent(r)
  <2>1. z = [r EXCEPT !.response_done = TRUE, !.resource_fd = "closed"]
    BY DEF file_sent
  <2>2. z \in Request
    BY <1>2, <2>1, Updates, Zenon
  <2>3. /\ z.ob = r.ob /\ z.buffer_sent = r.buffer_sent /\ z.res_handler = r.res_handler
        /\ z.response_done = TRUE /\ z.resource_fd = "closed"
        /\ z.resource_size = r.resource_size /\ z.req_handler = r.req_handler
    BY <1>2, <2>1, Zenon DEF Request
  <2> HIDE DEF z
  <2> QED BY <1>1, <1>6, <2>2, <2>3, SendingFacts, ResponseStep DEF z
<1> QED BY <1>1, <1>3, <1>4, <1>5, <1>6 DEF response_handle_send_file

-----------------------------------------------------------------------------
LEMMA ExchangeNext == ExchangeInv /\ [Next]_vars => ExchangeInv'
<1> SUFFICES ASSUME ExchangeInv, [Next]_vars PROVE ExchangeInv'
  OBVIOUS
<1>1. CASE ClientNext
  BY <1>1, ClientSends, ClientReads, ClientQuitsKeeps, ClientReconnects DEF ClientNext
<1>2. CASE WorkerNext
  BY <1>2, WaitKeeps, DispatchKeeps, RecvKeeps, RequestLineKeeps, HeadersKeeps,
     HeaderLineKeeps, BodyKeeps, SendBufferKeeps, SendFileKeeps, PruneKeeps
     DEF WorkerNext
<1>3. CASE time_passes
  BY <1>3, TimeKeeps
<1>4. CASE UNCHANGED vars
  <2>1. UNCHANGED <<clientVars, inq, fin, rst, outq, events, ready, nospace,
                    pc, mask, open, age, r, leaked>>
    BY <1>4 DEF vars, socketVars, epollVars
  <2>2. ClientOK' /\ SocketOK'
    BY <2>1 DEF ExchangeInv, TypesOK, ClientOK, SocketOK, clientVars
  <2>3. WakeupOK'
    BY <2>1 DEF ExchangeInv, WakeupOK, Doomed
  <2> QED BY <2>1, <2>2, <2>3, ClientKeeps DEF ExchangeInv, TypesOK
<1> QED BY <1>1, <1>2, <1>3, <1>4 DEF Next

LEMMA ExchangeAlways == Spec => []ExchangeInv
BY ExchangeInit, ExchangeNext, PTL DEF Spec

-----------------------------------------------------------------------------
\* The connection stays well typed: the queues keep their bounds, buffer_sent
\* never passes the end of ob, and a head announces a length there is.
THEOREM ExchangeTypeCorrect == Spec => []TypeOK
<1>1. ExchangeInv => TypeOK
  <2> SUFFICES ASSUME ExchangeInv PROVE TypeOK
    OBVIOUS
  <2> USE DEF ExchangeInv, TypesOK
  <2>1. /\ r.ib \in Seq(Tokens) /\ r.ob \in Seq(AllUnits)
        /\ r.req_handler \in {"request_line", "headers", "body", "null"}
        /\ r.res_handler \in {"send_buffer", "send_file"}
        /\ r.content_length \in {-1, BodyLen} /\ r.body_received \in Nat
        /\ r.transfer_encoding \in {"identity", "chunked"}
        /\ r.resource_fd \in {"none", "open", "closed"}
        /\ r.resource_size \in {0, FileLen, DirLen} /\ r.file_left \in Nat
    BY DEF RequestOK, Request
  <2>2. {r.keep_alive, r.err_req, r.response_done} \subseteq BOOLEAN
    BY DEF RequestOK, Request
  <2>3. r.buffer_sent \in 0 .. Len(r.ob)
    BY DEF RequestOK, Request
  <2>4. {last, garbled, fin, rst, nospace, ready, open, leaked} \subseteq BOOLEAN
    BY DEF ClientOK, SocketOK, LoopOK
  <2>5. events \subseteq {"IN", "OUT"} /\ mask \subseteq {"IN", "OUT"}
    BY DEF LoopOK
  <2>6. /\ sending \in {"line", "headers", "body"}
        /\ hsent \in 0 .. MaxHeaders /\ bodyLeft \in 0 .. BodyLen + 1
        /\ owed \in 0 .. MaxOwed /\ left \in Nat
        /\ inq \in Seq(Tokens) /\ Len(inq) =< RcvCap
        /\ outq \in Seq(AllUnits) /\ Len(outq) =< SndCap
        /\ pc \in {"wait", "dispatch", "recv", "req", "headers", "res", "prune"}
        /\ age \in {"young", "at", "above", "failed"}
    BY DEF ClientOK, SocketOK, LoopOK
  <2> QED BY <2>1, <2>2, <2>3, <2>4, <2>5, <2>6 DEF TypeOK
<1> QED BY <1>1, ExchangeAlways, PTL

\* Whatever the client sends, a connection between two events waits for one
\* direction and has the handler or the data for it, also after an error in the
\* middle of the headers and after request_reset.
THEOREM ExchangeOneDirection == Spec => []OneDirection
<1>1. ExchangeInv => OneDirection
  BY DEF ExchangeInv, TypesOK, LoopOK, InterestOK, Closing, OneDirection
<1> QED BY <1>1, ExchangeAlways, PTL

\* No edge is lost, for any size of the queues and any interleaving of the
\* client with the loop: the worker never waits for an event that it has already
\* been told of.
THEOREM ExchangeNoLostWakeup == Spec => []NoLostWakeup
<1>1. ExchangeInv => NoLostWakeup
  <2> SUFFICES ASSUME ExchangeInv, pc = "wait", open, Poll \cap events # {}
               PROVE  ready
    BY DEF NoLostWakeup
  <2>1. events \in {{"IN"}, {"OUT"}}
    BY DEF ExchangeInv, TypesOK, LoopOK
  <2> QED BY <2>1, PollIs DEF ExchangeInv, WakeupOK, Doomed
<1> QED BY <1>1, ExchangeAlways, PTL

\* Of a response to a file, all is sent before the connection is given up while
\* the client is there.
THEOREM ExchangeCutsShortOnlyErrors == Spec => []CutShortOnlyErrors
<1>1. ExchangeInv => CutShortOnlyErrors
  BY DEF ExchangeInv
<1> QED BY <1>1, ExchangeAlways, PTL

\* No step revives a connection that connecion_set_expired has marked.
THEOREM ExchangeFailedIsClosed == Spec => FailedIsClosed
<1>1. ExchangeInv /\ [Next]_vars => [open /\ open' /\ age = "failed" => age' = "failed"]_vars
  <2> SUFFICES ASSUME ExchangeInv, [Next]_vars, open, open', age = "failed"
               PROVE  age' = "failed"
    OBVIOUS
  <2>1. pc = "prune"
    BY DEF ExchangeInv, TypesOK, LoopOK
  <2>2. CASE ClientNext
    BY <2>2 DEF ClientNext, client_sends_line, client_sends_header, client_sends_crlf,
                client_sends_body, Sends, client_reads, client_shuts_down, client_resets,
                client_reconnects
  <2>3. CASE WorkerNext
    BY <2>1, <2>3 DEF WorkerNext, lotos_epoll_wait, dispatch, request_recv,
       request_handle_request_line, request_handle_headers, parse_header_line,
       request_handle_body, response_handle_send_buffer, response_handle_send_file,
       connection_prune
  <2>4. CASE time_passes \/ UNCHANGED vars
    BY <2>4 DEF time_passes, vars
  <2> QED BY <2>2, <2>3, <2>4 DEF Next
<1> QED BY <1>1, ExchangeAlways, PTL DEF Spec, FailedIsClosed

-----------------------------------------------------------------------------
(***************************************************************************)
(* resource_fd.  A file stays open where a response handler is still to    *)
(* close it.  That the header handler never refuses what a client with     *)
(* accepted headers sends needs the order of what is under way: a request  *)
(* line or a header is followed by a header or by the empty line, also in  *)
(* what is left when the body handler has taken the whole buffer.          *)
(***************************************************************************)

\* Headers that no handler refuses.
Accepted == {"plain", "keepalive", "close", "clen", "clenwrap"}

\* A client that stays, is in time and sends headers that are not refused.
Steady == ~ClientQuits /\ ~Timeouts /\ Headers \subseteq Accepted

\* What follows a request line or a header, and what is one.
InHeaders == Accepted \cup {"crlf"}
Opens == GoodLines \cup BadLines \cup HeaderLines

Chained(s) == \A i \in 1 .. Len(s) - 1 : s[i] \in Opens => s[i + 1] \in InHeaders
Unfinished(s) == s # <<>> /\ s[Len(s)] \in Opens

\* What the client has sent and no handler has taken.
Input == r.ib \o inq

\* The handler for headers never meets anything else: requests are whole, and
\* the body, which may take too much, leaves a tail that is still chained.
InputOK ==
  /\ Chained(Input)
  /\ Unfinished(Input) => sending = "headers"
  /\ r.req_handler = "headers" =>
       IF Input = <<>> THEN sending = "headers" ELSE Input[1] \in InHeaders

\* Where resource_fd may be open: never when the response is done, and never
\* when the request line is still to come.
FdOK ==
  /\ ~fin /\ ~rst /\ age \in {"young", "failed"} /\ ~leaked
  /\ pc = "headers" => r.req_handler = "headers"
  /\ events = {"OUT"} => r.req_handler = "null"
  /\ r.transfer_encoding = "identity"
  /\ r.req_handler = "request_line" => r.resource_fd = "none"
  /\ r.response_done => r.resource_fd # "open" /\ r.req_handler = "null"
  /\ age = "failed" => r.resource_fd # "open"

FdInv == Steady /\ FdOK /\ InputOK

\* How the untaken input changes: a token is sent, a token is taken, recv moves
\* it into the buffer, the body takes the buffer.
LEMMA InputGrows ==
  ASSUME NEW s \in Seq(Tokens), NEW t \in Seq(Tokens), NEW x \in Tokens
  PROVE  s \o Append(t, x) = Append(s \o t, x)
OBVIOUS

LEMMA InputShrinks ==
  ASSUME NEW s \in Seq(Tokens), NEW t \in Seq(Tokens), s # <<>>
  PROVE  /\ s \o t # <<>> /\ (s \o t)[1] = Head(s)
         /\ Tail(s) \o t = Tail(s \o t)
<1>1. /\ s \o t \in Seq(Tokens) /\ Len(s \o t) = Len(s) + Len(t)
      /\ Len(s) \in Nat /\ Len(s) > 0 /\ Len(t) \in Nat
  OBVIOUS
<1>2. s \o t # <<>> /\ (s \o t)[1] = Head(s)
  BY <1>1
<1>3. Tail(s) \o t = Tail(s \o t)
  OBVIOUS
<1> QED BY <1>2, <1>3

LEMMA ChainGrows ==
  ASSUME NEW s \in Seq(Tokens), NEW x \in Tokens, Chained(s),
         Unfinished(s) => x \in InHeaders
  PROVE  LET a == Append(s, x) IN
           /\ Chained(a) /\ a # <<>> /\ (Unfinished(a) <=> x \in Opens)
           /\ a[1] = IF s = <<>> THEN x ELSE s[1]
<1> DEFINE a == Append(s, x)
<1>1. /\ a \in Seq(Tokens) /\ Len(a) = Len(s) + 1 /\ Len(s) \in Nat
      /\ a[Len(s) + 1] = x /\ \A i \in 1 .. Len(s) : a[i] = s[i]
  OBVIOUS
<1>2. s # <<>> <=> Len(s) > 0
  OBVIOUS
<1>3. a # <<>>
  BY <1>1
<1> HIDE DEF a
<1>4. Chained(a)
  <2> SUFFICES ASSUME NEW i \in 1 .. Len(a) - 1, a[i] \in Opens PROVE a[i + 1] \in InHeaders
    BY DEF Chained
  <2>1. CASE i < Len(s)
    <3>1. i \in 1 .. Len(s) - 1 /\ i + 1 \in 1 .. Len(s) /\ i \in 1 .. Len(s)
      BY <1>1, <2>1
    <3> QED BY <1>1, <3>1 DEF Chained
  <2>2. CASE i = Len(s)
    BY <1>1, <1>2, <2>2 DEF Unfinished
  <2> QED BY <1>1, <2>1, <2>2
<1>5. Unfinished(a) <=> x \in Opens
  BY <1>1, <1>3 DEF Unfinished
<1>6. a[1] = IF s = <<>> THEN x ELSE s[1]
  BY <1>1, <1>2
<1> QED BY <1>3, <1>4, <1>5, <1>6 DEF a

LEMMA ChainShrinks ==
  ASSUME NEW s \in Seq(Tokens), s # <<>>, Chained(s)
  PROVE  LET z == Tail(s) IN
           /\ Chained(z) /\ (Unfinished(z) => Unfinished(s))
           /\ s[1] \in Opens => IF z = <<>> THEN Unfinished(s) ELSE z[1] \in InHeaders
<1> DEFINE z == Tail(s)
<1>1. /\ z \in Seq(Tokens) /\ Len(z) = Len(s) - 1 /\ Len(s) \in Nat /\ Len(s) > 0
      /\ \A i \in 1 .. Len(s) - 1 : z[i] = s[i + 1]
  <2>1. Len(s) \in Nat /\ Len(s) > 0
    OBVIOUS
  <2>2. z \in Seq(Tokens) /\ Len(z) = Len(s) - 1
    BY <2>1
  <2>3. \A i \in 1 .. Len(s) - 1 : z[i] = s[i + 1]
    BY <2>1
  <2> QED BY <2>1, <2>2, <2>3
<1> HIDE DEF z
<1>2. z # <<>> <=> Len(z) > 0
  BY <1>1
<1>3. Chained(z)
  <2> SUFFICES ASSUME NEW i \in 1 .. Len(z) - 1, z[i] \in Opens PROVE z[i + 1] \in InHeaders
    BY DEF Chained
  <2>1. i \in 1 .. Len(s) - 1 /\ i + 1 \in 1 .. Len(s) - 1
    BY <1>1
  <2>2. z[i] = s[i + 1] /\ z[i + 1] = s[(i + 1) + 1]
    BY <1>1, <2>1
  <2> QED BY <2>1, <2>2 DEF Chained
<1>4. Unfinished(z) => Unfinished(s)
  <2>1. z # <<>> => Len(z) \in 1 .. Len(s) - 1 /\ Len(z) + 1 = Len(s)
    BY <1>1, <1>2
  <2>2. z # <<>> => z[Len(z)] = s[Len(s)]
    BY <1>1, <2>1
  <2> QED BY <2>2 DEF Unfinished
<1>5. s[1] \in Opens => IF z = <<>> THEN Unfinished(s) ELSE z[1] \in InHeaders
  <2>1. CASE z = <<>>
    <3>1. Len(s) = 1
      BY <1>1, <1>2, <2>1
    <3> QED BY <2>1, <3>1 DEF Unfinished
  <2>2. CASE z # <<>>
    <3>1. 1 \in 1 .. Len(s) - 1
      BY <1>1, <1>2, <2>2
    <3>2. s[1] \in Opens => s[1 + 1] \in InHeaders
      BY <3>1 DEF Chained
    <3> QED BY <1>1, <2>2, <3>1, <3>2
  <2> QED BY <2>1, <2>2
<1> QED BY <1>3, <1>4, <1>5 DEF z

LEMMA ChainCut ==
  ASSUME NEW s \in Seq(Tokens), NEW t \in Seq(Tokens), Chained(s \o t)
  PROVE  Chained(t) /\ (Unfinished(t) => Unfinished(s \o t))
<1> DEFINE z == s \o t
           n == Len(s)
<1>1. /\ z \in Seq(Tokens) /\ Len(z) = n + Len(t) /\ n \in Nat /\ Len(t) \in Nat
      /\ \A i \in 1 .. Len(t) : z[n + i] = t[i]
  OBVIOUS
<1>2. t # <<>> <=> Len(t) > 0
  OBVIOUS
<1>3. z # <<>> <=> Len(z) > 0
  BY <1>1
<1> HIDE DEF z, n
<1>4. Chained(t)
  <2> SUFFICES ASSUME NEW i \in 1 .. Len(t) - 1, t[i] \in Opens PROVE t[i + 1] \in InHeaders
    BY DEF Chained
  <2>1. i \in 1 .. Len(t) /\ i + 1 \in 1 .. Len(t) /\ n + i \in 1 .. Len(z) - 1
        /\ (n + i) + 1 = n + (i + 1)
    BY <1>1
  <2>2. z[n + i] = t[i] /\ z[n + (i + 1)] = t[i + 1]
    BY <1>1, <2>1
  <2>3. z[n + i] \in Opens => z[(n + i) + 1] \in InHeaders
    BY <2>1 DEF Chained, z
  <2> QED BY <2>1, <2>2, <2>3
<1>5. Unfinished(t) => Unfinished(z)
  <2>1. t # <<>> => z[n + Len(t)] = t[Len(t)] /\ z # <<>>
    BY <1>1, <1>2, <1>3
  <2> QED BY <1>1, <2>1 DEF Unfinished
<1> QED BY <1>4, <1>5 DEF z

LEMMA InputFacts ==
  ASSUME ExchangeInv
  PROVE  /\ r \in Request /\ r.ib \in Seq(Tokens) /\ inq \in Seq(Tokens)
         /\ Input \in Seq(Tokens) /\ LoopOK /\ SocketOK
<1>1. r \in Request /\ r.ib \in Seq(Tokens) /\ inq \in Seq(Tokens) /\ LoopOK /\ SocketOK
  BY DEF ExchangeInv, TypesOK, RequestOK, SocketOK, Request
<1> QED BY <1>1 DEF Input

LEMMA FdInit == Steady /\ Init => FdInv
<1> SUFFICES ASSUME Steady, Init PROVE FdInv
  OBVIOUS
<1>1. /\ r = FreshRequest /\ inq = <<>> /\ fin = FALSE /\ rst = FALSE /\ age = "young"
      /\ leaked = FALSE /\ pc = "wait" /\ events = {"IN"}
  BY DEF Init
<1>2. /\ r.ib = <<>> /\ r.req_handler = "request_line" /\ r.resource_fd = "none"
      /\ r.transfer_encoding = "identity" /\ ~r.response_done
  BY <1>1 DEF FreshRequest
<1>3. Input = <<>>
  BY <1>1, <1>2 DEF Input
<1>4. InputOK
  BY <1>2, <1>3 DEF InputOK, Chained, Unfinished
<1> QED BY <1>1, <1>2, <1>4 DEF FdInv, FdOK

\* The client sends one token more of a request.
LEMMA FdSends ==
  ASSUME ExchangeInv, FdInv, NEW x \in Tokens, Sends(x),
         sending = "headers" => x \in InHeaders,
         x \in Opens => sending' = "headers"
  PROVE  FdInv'
<1>1. /\ inq' = Append(inq, x)
      /\ UNCHANGED <<events, fin, rst, pc, age, r, leaked>>
  BY DEF Sends, Edge
<1>2. Input' = Append(Input, x)
  <2>1. r.ib \in Seq(Tokens) /\ inq \in Seq(Tokens)
    BY InputFacts
  <2>2. r.ib \o Append(inq, x) = Append(r.ib \o inq, x)
    BY <2>1, InputGrows
  <2> QED BY <1>1, <2>2, Zenon DEF Input
<1>3. Unfinished(Input) => x \in InHeaders
  BY DEF FdInv, InputOK
<1>4. /\ Chained(Input') /\ Input' # <<>> /\ (Unfinished(Input') <=> x \in Opens)
      /\ Input'[1] = IF Input = <<>> THEN x ELSE Input[1]
  BY <1>2, <1>3, InputFacts, ChainGrows DEF FdInv, InputOK
<1>5. InputOK'
  <2>1. Chained(Input)' /\ (Unfinished(Input)' <=> x \in Opens)
    BY <1>4 DEF Chained, Unfinished
  <2>2. r'.req_handler = "headers" => Input'[1] \in InHeaders
    BY <1>1, <1>4 DEF FdInv, InputOK
  <2> QED BY <1>4, <2>1, <2>2 DEF InputOK
<1>6. FdOK'
  BY <1>1 DEF FdInv, FdOK
<1> QED BY <1>5, <1>6 DEF FdInv, Steady

LEMMA FdClientSends ==
  ASSUME ExchangeInv, FdInv,
         \/ \E t \in RequestLines : client_sends_line(t)
         \/ \E h \in Headers : client_sends_header(h)
         \/ client_sends_crlf
         \/ client_sends_body
  PROVE  FdInv'
<1>1. ASSUME NEW t \in RequestLines, client_sends_line(t) PROVE FdInv'
  <2>1. Sends(t) /\ t \in Tokens /\ sending # "headers" /\ sending' = "headers"
    BY <1>1, Constants DEF client_sends_line
  <2> QED BY <2>1, FdSends
<1>2. ASSUME NEW h \in Headers, client_sends_header(h) PROVE FdInv'
  <2>1. Sends(h) /\ h \in Tokens /\ sending' = "headers"
    BY <1>2, Constants DEF client_sends_header
  <2>2. h \in InHeaders
    BY DEF FdInv, Steady, InHeaders
  <2> QED BY <2>1, <2>2, FdSends
<1>3. CASE client_sends_crlf
  <2>1. Sends("crlf") /\ "crlf" \in Tokens /\ "crlf" \in InHeaders /\ "crlf" \notin Opens
    BY <1>3 DEF client_sends_crlf, Tokens, InHeaders, Opens, GoodLines, BadLines, HeaderLines
  <2> QED BY <2>1, FdSends
<1>4. CASE client_sends_body
  <2>1. Sends("body") /\ "body" \in Tokens /\ sending # "headers" /\ "body" \notin Opens
    BY <1>4 DEF client_sends_body, Tokens, Opens, GoodLines, BadLines, HeaderLines
  <2> QED BY <2>1, FdSends
<1> QED BY <1>1, <1>2, <1>3, <1>4

\* Steps that leave the request and the input alone.
LEMMA FdSame ==
  ASSUME FdInv, UNCHANGED <<sending, inq, fin, rst, age, r, leaked, events>>,
         pc' = "headers" => r.req_handler = "headers"
  PROVE  FdInv'
<1>1. Input' = Input
  BY DEF Input
<1>2. InputOK'
  BY <1>1 DEF FdInv, InputOK, Chained, Unfinished
<1>3. FdOK'
  BY DEF FdInv, FdOK
<1> QED BY <1>2, <1>3 DEF FdInv, Steady

\* A fresh request: what its buffer held is forgotten.
LEMMA FdFresh ==
  ASSUME ExchangeInv, FdInv, r' = FreshRequest, inq' \in {inq, <<>>},
         inq' = inq => sending' = sending,
         fin' = FALSE, rst' = FALSE, age' \in {"young", "failed"}, leaked' = FALSE,
         events' # {"OUT"}, pc' # "headers"
  PROVE  FdInv'
<1>1. /\ r'.ib = <<>> /\ r'.req_handler = "request_line" /\ r'.resource_fd = "none"
      /\ r'.transfer_encoding = "identity" /\ ~r'.response_done
  BY DEF FreshRequest
<1>2. r.ib \in Seq(Tokens) /\ inq \in Seq(Tokens) /\ Chained(r.ib \o inq)
      /\ (Unfinished(r.ib \o inq) => sending = "headers")
  BY InputFacts DEF FdInv, InputOK, Input
<1>3. Input' = inq'
  <2>1. inq' \in Seq(Tokens)
    <3>1. <<>> \in Seq(Tokens)
      OBVIOUS
    <3> QED BY <1>2, <3>1, Zenon
  <2>2. \A s \in Seq(Tokens) : <<>> \o s = s
    OBVIOUS
  <2> QED BY <1>1, <2>1, <2>2, Zenon DEF Input
<1>4. Chained(inq) /\ (Unfinished(inq) => sending = "headers")
  BY <1>2, ChainCut
<1>5. Chained(inq') /\ (Unfinished(inq') => sending' = "headers")
  <2>1. CASE inq' = inq
    BY <1>4, <2>1
  <2>2. CASE inq' = <<>>
    BY <2>2 DEF Chained, Unfinished
  <2> QED BY <2>1, <2>2
<1>6. Chained(Input)' /\ (Unfinished(Input)' => sending' = "headers")
  BY <1>3, <1>5 DEF Chained, Unfinished
<1>7. InputOK'
  BY <1>1, <1>6 DEF InputOK
<1>8. FdOK'
  BY <1>1 DEF FdOK
<1> QED BY <1>7, <1>8 DEF FdInv, Steady

LEMMA FdClient ==
  ASSUME ExchangeInv, FdInv, ClientNext
  PROVE  FdInv'
<1>1. CASE client_reads
  <2>1. UNCHANGED <<sending, inq, fin, rst, age, r, leaked, events, pc>>
    BY <1>1 DEF client_reads, Edge
  <2> QED BY <2>1, FdSame DEF FdInv, FdOK
<1>2. CASE client_shuts_down \/ client_resets
  BY <1>2 DEF client_shuts_down, client_resets, FdInv, Steady
<1>3. CASE client_reconnects
  <2>1. /\ r' = FreshRequest /\ inq' = <<>> /\ sending' = "line" /\ fin' = FALSE
        /\ rst' = FALSE /\ age' = "young" /\ leaked' = leaked /\ events' = {"IN"}
        /\ pc' = pc /\ pc = "wait"
    BY <1>3 DEF client_reconnects
  <2>2. leaked' = FALSE
    BY <2>1, InputFacts DEF FdInv, FdOK, LoopOK
  <2>3. CASE inq = <<>>
    <3>1. FdOK'
      BY <2>1, <2>2 DEF FdOK, FreshRequest
    <3>2. Input' = <<>>
      BY <2>1 DEF Input, FreshRequest
    <3>3. InputOK'
      BY <2>1, <3>2 DEF InputOK, Chained, Unfinished, FreshRequest
    <3> QED BY <3>1, <3>3 DEF FdInv, Steady
  <2>4. CASE inq # <<>>
    BY <2>1, <2>2, <2>4, FdFresh
  <2> QED BY <2>3, <2>4
<1> QED BY <1>1, <1>2, <1>3, FdClientSends DEF ClientNext

LEMMA FdLoop ==
  ASSUME ExchangeInv, FdInv,
         lotos_epoll_wait \/ dispatch \/ request_handle_headers \/ connection_prune
  PROVE  FdInv'
<1>1. CASE lotos_epoll_wait
  BY <1>1, FdSame DEF lotos_epoll_wait, clientVars, socketVars
<1>2. CASE dispatch
  BY <1>2, FdSame DEF dispatch, clientVars, socketVars, epollVars
<1>3. CASE request_handle_headers
  BY <1>3, FdSame DEF request_handle_headers, reqUnchanged, clientVars, socketVars, epollVars
<1>4. CASE connection_prune
  <2>1. /\ UNCHANGED <<sending, inq, fin, rst, age>> /\ pc' = "wait"
        /\ fin = FALSE /\ rst = FALSE /\ age \in {"young", "failed"} /\ leaked = FALSE
    BY <1>4, InputFacts DEF connection_prune, clientVars, socketVars, FdInv, FdOK, SocketOK, LoopOK
  <2>2. CASE age = "young"
    BY <1>4, <2>1, <2>2, FdSame DEF connection_prune, TimeIsUp
  <2>3. CASE age # "young"
    <3>1. r' = FreshRequest /\ events' = {} /\ leaked' = (leaked \/ r.resource_fd = "open")
      BY <1>4, <2>3 DEF connection_prune, TimeIsUp
    <3>2. r.resource_fd # "open"
      BY <2>1, <2>3 DEF FdInv, FdOK
    <3>3. leaked' = FALSE
      BY <2>1, <3>1, <3>2
    <3> QED BY <2>1, <3>1, <3>3, FdFresh
  <2> QED BY <2>2, <2>3
<1> QED BY <1>1, <1>2, <1>3, <1>4

LEMMA FdRecv ==
  ASSUME ExchangeInv, FdInv, request_recv
  PROVE  FdInv'
<1>1. /\ pc = "recv" /\ inq' = <<>> /\ r' = [r EXCEPT !.ib = r.ib \o inq] /\ pc' = "req"
      /\ UNCHANGED <<sending, fin, rst, events, leaked, age>>
  BY DEF request_recv, FdInv, FdOK, clientVars, epollVars
<1> DEFINE v == r.ib \o inq
<1>2. v \in Seq(Tokens) /\ r' = [r EXCEPT !.ib = v]
  BY <1>1, InputFacts
<1> HIDE DEF v
<1>3. /\ r'.ib = v /\ r'.req_handler = r.req_handler /\ r'.resource_fd = r.resource_fd
      /\ r'.transfer_encoding = r.transfer_encoding /\ r'.response_done = r.response_done
  BY <1>2, InputFacts, Zenon DEF Request
<1>4. Input' = Input
  <2>1. v \o <<>> = v
    BY <1>2
  <2> QED BY <1>1, <1>3, <2>1 DEF Input, v
<1>5. InputOK'
  BY <1>1, <1>3, <1>4 DEF FdInv, InputOK, Chained, Unfinished
<1>6. FdOK'
  BY <1>1, <1>3 DEF FdInv, FdOK
<1> QED BY <1>5, <1>6 DEF FdInv, Steady

\* A handler of request_handle that leaves the input chained.
LEMMA FdRequestStep ==
  ASSUME ExchangeInv, FdInv, pc \in {"req", "headers"}, UNCHANGED reqUnchanged,
         age' \in {age, "young"}, InputOK',
         UNCHANGED epollVars \/ connection_turn_out,
         pc' = "headers" => r'.req_handler = "headers",
         events' = {"OUT"} => r'.req_handler = "null",
         r'.transfer_encoding = "identity",
         r'.req_handler # "request_line" \/ r'.resource_fd = "none",
         r'.response_done => r'.resource_fd # "open" /\ r'.req_handler = "null"
  PROVE  FdInv'
<1>1. UNCHANGED <<fin, rst, leaked>>
  BY DEF reqUnchanged, socketVars
<1>2. age' = "young"
  <2>1. age # "failed" /\ age \in {"young", "failed"}
    BY InputFacts, BusyIsOpen DEF FdInv, FdOK
  <2> QED BY <2>1
<1>3. FdOK'
  BY <1>1, <1>2 DEF FdInv, FdOK
<1> QED BY <1>3 DEF FdInv, Steady

\* Where the handler is, nothing has been refused yet.
LEMMA FdReceiving ==
  ASSUME ExchangeInv, FdInv, pc \in {"req", "headers"}
  PROVE  /\ r \in Request /\ r.ib \in Seq(Tokens) /\ inq \in Seq(Tokens) /\ LoopOK
         /\ Input \in Seq(Tokens) /\ r.req_handler # "null"
         /\ r.transfer_encoding = "identity" /\ ~r.response_done /\ events # {"OUT"}
         /\ r.req_handler = "request_line" => r.resource_fd = "none"
<1>1. r.req_handler # "null"
  BY DEF ExchangeInv, InterestOK, FdInv, FdOK
<1>2. r.response_done \in BOOLEAN
  BY InputFacts DEF Request
<1> QED BY <1>1, <1>2, InputFacts DEF FdInv, FdOK

\* A token has been taken from the buffer.
LEMMA FdTaken ==
  ASSUME ExchangeInv, FdInv, r.ib # <<>>, r'.ib = Tail(r.ib), inq' = inq, sending' = sending
  PROVE  /\ Chained(Input)' /\ (Unfinished(Input)' => sending' = "headers")
         /\ Head(r.ib) = Input[1] /\ Input # <<>>
         /\ Input[1] \in Opens =>
              IF Input' = <<>> THEN sending' = "headers" ELSE Input'[1] \in InHeaders
<1>1. r.ib \in Seq(Tokens) /\ inq \in Seq(Tokens) /\ Input \in Seq(Tokens)
  BY InputFacts
<1>2. Input # <<>> /\ Input[1] = Head(r.ib) /\ Input' = Tail(Input)
  <2>1. /\ r.ib \o inq # <<>> /\ (r.ib \o inq)[1] = Head(r.ib)
        /\ Tail(r.ib) \o inq = Tail(r.ib \o inq)
    BY <1>1, InputShrinks
  <2> QED BY <2>1, Zenon DEF Input
<1>3. Chained(Input) /\ (Unfinished(Input) => sending = "headers")
  BY DEF FdInv, InputOK
<1>4. /\ Chained(Input') /\ (Unfinished(Input') => Unfinished(Input))
      /\ Input[1] \in Opens => IF Input' = <<>> THEN Unfinished(Input) ELSE Input'[1] \in InHeaders
  BY <1>1, <1>2, <1>3, ChainShrinks
<1>5. Chained(Input)' /\ (Unfinished(Input)' <=> Unfinished(Input'))
  BY <1>4 DEF Chained, Unfinished
<1> QED BY <1>2, <1>3, <1>4, <1>5

LEMMA FdRequestLine ==
  ASSUME ExchangeInv, FdInv, request_handle_request_line
  PROVE  FdInv'
<1>1. /\ pc = "req" /\ r.req_handler = "request_line" /\ UNCHANGED reqUnchanged
      /\ UNCHANGED <<sending, inq>>
  BY DEF request_handle_request_line, reqUnchanged, clientVars, socketVars
<1>2. CASE r.ib = <<>>
  <2>1. ReqReturns(r, "AGAIN") /\ UNCHANGED epollVars
    BY <1>2 DEF request_handle_request_line
  <2>2. r' = r /\ pc' # "headers" /\ age' \in {age, "young"} /\ events' = events
    BY <1>1, <2>1, FdReceiving, Returns DEF epollVars
  <2>3. Input' = Input
    BY <1>1, <2>2 DEF Input
  <2>4. InputOK'
    BY <1>1, <2>2, <2>3 DEF FdInv, InputOK, Chained, Unfinished
  <2> QED BY <1>1, <2>1, <2>2, <2>4, FdReceiving, FdRequestStep
<1>3. CASE r.ib # <<>>
  <2> DEFINE t == Head(r.ib)
             q == [r EXCEPT !.ib = Tail(@)]
             isDir == t = "noindex"
             fd == IF isDir THEN "none" ELSE "open"
             len == IF isDir THEN DirLen ELSE FileLen
             keep == t # "get10"
             Opened(size) == [q EXCEPT !.keep_alive = keep, !.resource_fd = fd,
                                !.resource_size = len, !.file_left = size,
                                !.req_handler = "headers"]
  <2>1. q \in Request /\ SameResponse(r, q) /\ q.ib = Tail(r.ib)
    BY <1>1, <1>3, FdReceiving, Taken
  <2>2. q.transfer_encoding = r.transfer_encoding
    BY <1>1, FdReceiving, Zenon DEF Request
  <2>3. CASE t \in GoodLines
    <3>1. PICK size \in (IF isDir THEN {0} ELSE FileSizes) : ReqReturns(Opened(size), "OK")
      BY <1>3, <2>3 DEF request_handle_request_line
    <3>2. UNCHANGED epollVars
      BY <1>3, <2>3 DEF request_handle_request_line
    <3> DEFINE z == Opened(size)
    <3>3. z = [q EXCEPT !.keep_alive = keep, !.resource_fd = fd,
                        !.resource_size = len, !.file_left = size,
                        !.req_handler = "headers"]
      OBVIOUS
    <3>4. r' = z /\ pc' # "headers" /\ age' \in {age, "young"}
      BY <1>1, <3>1, FdReceiving, Returns
    <3>5. t \in Opens
      BY <2>3 DEF Opens
    <3> HIDE DEF z, q, fd, len, keep
    <3>6. /\ z.ib = q.ib /\ z.transfer_encoding = q.transfer_encoding
          /\ z.response_done = q.response_done /\ z.req_handler = "headers"
      BY <2>1, <3>3, Zenon DEF Request
    <3>7. r'.ib = Tail(r.ib)
      BY <2>1, <3>4, <3>6
    <3>8. InputOK'
      <4>1. /\ Chained(Input)' /\ (Unfinished(Input)' => sending' = "headers")
            /\ IF Input' = <<>> THEN sending' = "headers" ELSE Input'[1] \in InHeaders
        BY <1>1, <1>3, <3>5, <3>7, FdTaken
      <4> QED BY <4>1 DEF InputOK
    <3>9. events' # {"OUT"}
      BY <1>1, <3>2, FdReceiving DEF epollVars
    <3>10. /\ r'.req_handler = "headers" /\ r'.transfer_encoding = "identity"
           /\ ~r'.response_done
      BY <1>1, <2>1, <2>2, <3>4, <3>6, FdReceiving DEF SameResponse
    <3> QED BY <1>1, <3>2, <3>4, <3>8, <3>9, <3>10, FdRequestStep
  <2>4. CASE t \notin GoodLines
    <3>1. ReqReturns(assemble_err(q), "OK") /\ connection_turn_out
      BY <1>3, <2>4 DEF request_handle_request_line
    <3> HIDE DEF q
    <3>2. r' = assemble_err(q) /\ pc' # "headers" /\ age' \in {age, "young"}
      BY <1>1, <3>1, FdReceiving, Returns
    <3>3. Refused(q, r') /\ r'.ib = q.ib /\ r'.transfer_encoding = q.transfer_encoding
      <4>1. Refused(q, r')
        BY <2>1, <3>2, AssembleErr
      <4>2. r'.ib = q.ib /\ r'.transfer_encoding = q.transfer_encoding
        BY <2>1, <3>2, Zenon DEF assemble_err, Request
      <4> QED BY <4>1, <4>2
    <3>4. InputOK'
      <4>1. Chained(Input)' /\ (Unfinished(Input)' => sending' = "headers")
        BY <1>1, <1>3, <2>1, <3>3, FdTaken
      <4> QED BY <3>3, <4>1 DEF InputOK, Refused
    <3> QED BY <1>1, <2>1, <2>2, <3>1, <3>2, <3>3, <3>4, FdReceiving, FdRequestStep
            DEF SameResponse, Refused
  <2> QED BY <2>3, <2>4
<1> QED BY <1>2, <1>3

\* A header that is accepted changes neither the buffer nor the file.
LEMMA FdAccepted ==
  ASSUME NEW q \in Request, NEW h \in Accepted, NEW z, z = handle_header(q, h)
  PROVE  /\ z.ib = q.ib /\ z.req_handler = q.req_handler /\ z.err_req = q.err_req
         /\ z.transfer_encoding = q.transfer_encoding
         /\ z.response_done = q.response_done /\ z.resource_fd = q.resource_fd
<1>1. CASE h \in {"keepalive", "close"}
  <2>1. PICK k \in BOOLEAN : z = [q EXCEPT !.keep_alive = k]
    <3>1. h = "keepalive" => z = [q EXCEPT !.keep_alive = TRUE]
      BY DEF handle_header
    <3>2. h = "close" => z = [q EXCEPT !.keep_alive = FALSE]
      BY DEF handle_header
    <3> QED BY <1>1, <3>1, <3>2, Zenon
  <2> QED BY <2>1, Zenon DEF Request
<1>2. CASE h \in {"clen", "clenwrap"}
  <2>1. atoi(h) = BodyLen /\ BodyLen > 0
    BY <1>2, Constants DEF atoi
  <2>2. z = IF atoi(h) =< 0 THEN assemble_err(q) ELSE [q EXCEPT !.content_length = atoi(h)]
    BY <1>2 DEF handle_header
  <2>3. ~(atoi(h) =< 0)
    BY <2>1, Constants
  <2>4. z = [q EXCEPT !.content_length = BodyLen]
    BY <2>1, <2>2, <2>3, Zenon
  <2> QED BY <2>4, Zenon DEF Request
<1>3. CASE h = "plain"
  <2>1. z = q
    BY <1>3 DEF handle_header
  <2> QED BY <2>1
<1> QED BY <1>1, <1>2, <1>3 DEF Accepted

LEMMA FdHeaderLine ==
  ASSUME ExchangeInv, FdInv, parse_header_line
  PROVE  FdInv'
<1> DEFINE h == Head(r.ib)
           q == [r EXCEPT !.ib = Tail(@)]
<1>1. /\ pc = "headers" /\ r.req_handler = "headers" /\ UNCHANGED reqUnchanged
      /\ UNCHANGED <<sending, inq>>
  BY DEF parse_header_line, reqUnchanged, clientVars, socketVars, FdInv, FdOK
<1>2. CASE r.ib = <<>> /\ Handled("AGAIN") /\ UNCHANGED <<r, epollVars>>
  <2>1. pc' = "prune" /\ age' = "young" /\ r' = r
    BY <1>1, <1>2, FdReceiving, HandledOnce
  <2>2. Input' = Input
    BY <1>1, <2>1 DEF Input
  <2>3. InputOK'
    BY <1>1, <2>1, <2>2 DEF FdInv, InputOK, Chained, Unfinished
  <2>4. events' # {"OUT"}
    BY <1>1, <1>2, FdReceiving DEF epollVars
  <2> QED BY <1>1, <1>2, <2>1, <2>3, <2>4, FdReceiving, FdRequestStep
<1>3. CASE r.ib # <<>>
  <2>1. /\ q \in Request /\ SameResponse(r, q) /\ q.ib = Tail(r.ib)
        /\ q.req_handler = r.req_handler
    BY <1>1, <1>3, FdReceiving, Taken
  <2>2. q.transfer_encoding = r.transfer_encoding
    BY <1>1, FdReceiving, Zenon DEF Request
  <2>3. h \in InHeaders
    <3>1. r.ib \o inq # <<>> /\ (r.ib \o inq)[1] = h
      BY <1>1, <1>3, FdReceiving, InputShrinks
    <3> QED BY <1>1, <3>1 DEF FdInv, InputOK, Input
  <2> HIDE DEF q, h
  <2>4. CASE /\ h = "crlf"
             /\ ReqReturns([q EXCEPT !.req_handler = "body"], "OK")
             /\ UNCHANGED epollVars
    <3> DEFINE z == [q EXCEPT !.req_handler = "body"]
    <3>1. r' = z /\ pc' # "headers" /\ age' \in {age, "young"}
      BY <1>1, <2>4, FdReceiving, Returns
    <3>2. /\ z.ib = q.ib /\ z.req_handler = "body"
          /\ z.transfer_encoding = q.transfer_encoding /\ z.response_done = q.response_done
      BY <2>1, Zenon DEF Request
    <3> HIDE DEF z
    <3>3. InputOK'
      <4>1. Chained(Input)' /\ (Unfinished(Input)' => sending' = "headers")
        BY <1>1, <1>3, <2>1, <3>1, <3>2, FdTaken
      <4> QED BY <3>1, <3>2, <4>1 DEF InputOK
    <3>4. events' # {"OUT"}
      BY <1>1, <2>4, FdReceiving DEF epollVars
    <3>5. r'.req_handler = "body" /\ r'.transfer_encoding = "identity" /\ ~r'.response_done
      BY <1>1, <2>1, <2>2, <3>1, <3>2, FdReceiving DEF SameResponse
    <3> QED BY <1>1, <2>4, <3>1, <3>3, <3>4, <3>5, FdRequestStep
  <2>5. CASE /\ h \in HeaderLines
             /\ r' = handle_header(q, h)
             /\ IF r'.err_req THEN connection_turn_out ELSE UNCHANGED epollVars
             /\ UNCHANGED <<pc, age, mask>>
    <3>1. h \in Accepted /\ h \in Opens
      BY <2>3, <2>5 DEF InHeaders, Opens, HeaderLines
    <3>2. /\ r'.ib = q.ib /\ r'.req_handler = q.req_handler /\ r'.err_req = q.err_req
          /\ r'.transfer_encoding = q.transfer_encoding
          /\ r'.response_done = q.response_done /\ r'.resource_fd = q.resource_fd
      BY <2>1, <2>5, <3>1, FdAccepted
    <3>3. InputOK'
      <4>1. /\ Chained(Input)' /\ (Unfinished(Input)' => sending' = "headers")
            /\ IF Input' = <<>> THEN sending' = "headers" ELSE Input'[1] \in InHeaders
        BY <1>1, <1>3, <2>1, <3>1, <3>2, FdTaken DEF h
      <4> QED BY <4>1 DEF InputOK
    <3>4. ~r'.err_req
      <4>1. events = {"IN"} /\ ~r.err_req
        BY <1>1, ReceivingFacts, FdReceiving
      <4> QED BY <2>1, <3>2, <4>1 DEF SameResponse
    <3>5. UNCHANGED epollVars /\ events' # {"OUT"}
      BY <1>1, <2>5, <3>4, FdReceiving DEF epollVars
    <3>6. r'.req_handler = "headers" /\ r'.transfer_encoding = "identity" /\ ~r'.response_done
      BY <1>1, <2>1, <2>2, <3>2, FdReceiving DEF SameResponse
    <3> QED BY <1>1, <2>5, <3>3, <3>5, <3>6, FdRequestStep
  <2>6. h # "crlf" => h \in HeaderLines
    BY <2>3 DEF InHeaders, Accepted, HeaderLines
  <2> QED BY <1>3, <2>4, <2>5, <2>6 DEF parse_header_line, q, h
<1> QED BY <1>2, <1>3 DEF parse_header_line

LEMMA FdBody ==
  ASSUME ExchangeInv, FdInv, request_handle_body
  PROVE  FdInv'
<1> DEFINE taken == [r EXCEPT !.body_received = @ + Len(r.ib), !.ib = <<>>]
           q == IF r.content_length =< 0 THEN r ELSE taken
           n == [q EXCEPT !.req_handler = "null"]
<1>1. /\ pc = "req" /\ r.req_handler = "body" /\ UNCHANGED reqUnchanged
      /\ UNCHANGED <<sending, inq>>
  BY DEF request_handle_body, reqUnchanged, clientVars, socketVars
<1>2. /\ r \in Request /\ r.transfer_encoding = "identity" /\ ~r.response_done
      /\ events # {"OUT"} /\ LoopOK
  BY <1>1, FdReceiving
<1>3. /\ q \in Request /\ q.ib \in {r.ib, <<>>} /\ q.transfer_encoding = "identity"
      /\ q.req_handler = "body" /\ ~q.response_done /\ q.resource_fd = r.resource_fd
  <2> DEFINE m == r.body_received + Len(r.ib)
  <2>1. m \in Nat
    BY <1>1, ReceivingFacts
  <2>2. <<>> \in Seq(Tokens)
    OBVIOUS
  <2>3. taken = [r EXCEPT !.body_received = m, !.ib = <<>>]
    OBVIOUS
  <2> HIDE DEF m
  <2>4. taken \in Request
    BY <1>2, <2>1, <2>2, <2>3, Updates, Zenon
  <2>5. /\ taken.ib = <<>> /\ taken.transfer_encoding = r.transfer_encoding
        /\ taken.req_handler = r.req_handler /\ taken.response_done = r.response_done
        /\ taken.resource_fd = r.resource_fd
    BY <1>2, <2>3, Zenon DEF Request
  <2> QED BY <1>1, <1>2, <2>4, <2>5
<1> HIDE DEF q
<1>4. ASSUME r'.ib = q.ib, r'.req_handler # "headers" PROVE InputOK'
  <2>1. Chained(Input)' /\ (Unfinished(Input)' => sending' = "headers")
    <3>1. Chained(Input) /\ (Unfinished(Input) => sending = "headers")
      BY DEF FdInv, InputOK
    <3>2. CASE q.ib = r.ib
      <4>1. Input' = Input
        BY <1>1, <1>4, <3>2 DEF Input
      <4> QED BY <1>1, <3>1, <4>1 DEF Chained, Unfinished
    <3>3. CASE q.ib = <<>>
      <4>1. r.ib \in Seq(Tokens) /\ inq \in Seq(Tokens)
        BY InputFacts
      <4>2. Chained(inq) /\ (Unfinished(inq) => sending = "headers")
        BY <3>1, <4>1, ChainCut DEF Input
      <4>3. \A s \in Seq(Tokens) : <<>> \o s = s
        OBVIOUS
      <4>4. Input' = inq
        BY <1>1, <1>4, <3>3, <4>1, <4>3, Zenon DEF Input
      <4> QED BY <1>1, <4>2, <4>4 DEF Chained, Unfinished
    <3> QED BY <1>3, <3>2, <3>3
  <2> QED BY <1>4, <2>1 DEF InputOK
<1>5. CASE ReqReturns(q, "AGAIN") /\ UNCHANGED epollVars
  <2>1. r' = q /\ pc' # "headers" /\ age' \in {age, "young"}
    BY <1>1, <1>2, <1>5, Returns
  <2>2. events' # {"OUT"}
    BY <1>2, <1>5 DEF epollVars
  <2> QED BY <1>1, <1>3, <1>4, <1>5, <2>1, <2>2, FdRequestStep
<1>6. CASE ReqReturns(response_assemble_buffer(n), "OK") /\ connection_turn_out
  <2>1. r' = response_assemble_buffer(n) /\ pc' # "headers" /\ age' \in {age, "young"}
    BY <1>1, <1>2, <1>6, Returns
  <2>2. n \in Request
    BY <1>3, Updates, Zenon
  <2>3. /\ n.ib = q.ib /\ n.transfer_encoding = q.transfer_encoding
        /\ n.response_done = q.response_done /\ n.req_handler = "null"
    BY <1>3, Zenon DEF Request
  <2> HIDE DEF n
  <2>4. /\ r'.ib = n.ib /\ r'.transfer_encoding = n.transfer_encoding
        /\ r'.response_done = n.response_done /\ r'.req_handler = n.req_handler
    BY <2>1, <2>2, Zenon DEF response_assemble_buffer, Request
  <2> QED BY <1>1, <1>3, <1>4, <1>6, <2>1, <2>3, <2>4, FdRequestStep
<1> QED BY <1>2, <1>5, <1>6 DEF request_handle_body, q, n

\* Where a response is sent, nothing is being received.
LEMMA FdSending ==
  ASSUME ExchangeInv, FdInv, pc = "res"
  PROVE  /\ r \in Request /\ LoopOK /\ SocketOK /\ events = {"OUT"}
         /\ fin = FALSE /\ rst = FALSE /\ leaked = FALSE
         /\ r.req_handler = "null" /\ r.transfer_encoding = "identity"
         /\ r.response_done => r.resource_fd # "open"
BY SendingFacts DEF FdInv, FdOK, SocketOK, LoopOK

\* A request of which neither the input nor the handler has changed.
LEMMA FdKept ==
  ASSUME ExchangeInv, FdInv, pc = "res", UNCHANGED <<sending, inq, fin, rst, leaked>>,
         r'.ib = r.ib, r'.req_handler = "null", r'.transfer_encoding = "identity",
         r'.response_done => r'.resource_fd # "open",
         age' \in {"young", "failed"}, age' = "failed" => r'.resource_fd # "open",
         pc' # "headers"
  PROVE  FdInv'
<1>1. Input' = Input
  BY DEF Input
<1>2. InputOK'
  BY <1>1 DEF FdInv, InputOK, Chained, Unfinished
<1>3. FdOK'
  BY DEF FdInv, FdOK
<1> QED BY <1>2, <1>3 DEF FdInv, Steady

\* A response handler that returns with request q: a response that is done has
\* closed its file.
LEMMA FdResponse ==
  ASSUME ExchangeInv, FdInv, pc = "res", UNCHANGED resUnchanged,
         NEW q, NEW S, NEW status \in {"OK", "AGAIN"}, ResReturns(q, S, status),
         q.ib = r.ib, q.req_handler = "null", q.transfer_encoding = "identity",
         q.response_done \in BOOLEAN, q.response_done => q.resource_fd # "open"
  PROVE  FdInv'
<1>1. UNCHANGED <<sending, inq, fin, rst>>
  BY DEF resUnchanged, clientVars
<1>2. age \in {"young", "failed"} /\ age # "failed"
  BY SendingFacts DEF FdInv, FdOK
<1>3. CASE status = "OK" /\ ~q.response_done
  <2>1. r' = q /\ UNCHANGED <<pc, age, leaked>>
    BY <1>3 DEF ResReturns
  <2> QED BY <1>1, <1>2, <2>1, FdKept
<1>4. CASE q.response_done /\ q.keep_alive
  <2>1. /\ r' = FreshRequest /\ leaked' = (leaked \/ q.resource_fd = "open")
        /\ events' = {"IN"} /\ Handled(status)
    BY <1>4 DEF ResReturns, request_reset, epoll_mod
  <2>2. pc' = "prune" /\ age' \in {"young", "failed"}
    BY <2>1, HandledOnce, FdSending
  <2>3. leaked' = FALSE
    BY <1>4, <2>1, FdSending
  <2>4. fin' = FALSE /\ rst' = FALSE
    BY <1>1, FdSending
  <2> QED BY <1>1, <2>1, <2>2, <2>3, <2>4, FdFresh
<1>5. CASE ~(status = "OK" /\ ~q.response_done) /\ ~(q.response_done /\ q.keep_alive)
  <2> DEFINE st == IF q.response_done THEN "ERROR" ELSE status
  <2>1. r' = q /\ Handled(st) /\ UNCHANGED leaked
    BY <1>5 DEF ResReturns
  <2>2. pc' = "prune" /\ age' = IF st = "ERROR" THEN "failed" ELSE "young"
    BY <2>1, HandledOnce, FdSending
  <2>3. age' \in {"young", "failed"} /\ (age' = "failed" => q.response_done)
    BY <2>2
  <2> QED BY <1>1, <2>1, <2>2, <2>3, FdKept
<1> QED BY <1>3, <1>4, <1>5

LEMMA FdSendBuffer ==
  ASSUME ExchangeInv, FdInv, response_handle_send_buffer
  PROVE  FdInv'
<1> DEFINE unsent == Len(r.ob) - r.buffer_sent
           n == Min({unsent, Room})
           q == ob_sent(r)
<1>1. pc = "res" /\ UNCHANGED resUnchanged
  BY DEF response_handle_send_buffer
<1>2. r \in Request /\ r.response_done \in BOOLEAN
  BY <1>1, FdSending DEF Request
<1>3. CASE r' = [r EXCEPT !.buffer_sent = @ + n] /\ UNCHANGED <<epollVars, pc, age, mask, leaked>>
  <2> DEFINE m == r.buffer_sent + n
  <2>1. r' = [r EXCEPT !.buffer_sent = m]
    BY <1>3
  <2> HIDE DEF m
  <2>2. /\ r'.ib = r.ib /\ r'.req_handler = r.req_handler
        /\ r'.transfer_encoding = r.transfer_encoding
        /\ r'.response_done = r.response_done /\ r'.resource_fd = r.resource_fd
    BY <1>2, <2>1, Zenon DEF Request
  <2>3. age \in {"young", "failed"} /\ age # "failed"
    BY <1>1, SendingFacts DEF FdInv, FdOK
  <2>4. UNCHANGED <<sending, inq, fin, rst, leaked, pc, age>>
    BY <1>1, <1>3 DEF resUnchanged, clientVars
  <2> QED BY <1>1, <2>2, <2>3, <2>4, FdSending, FdKept
<1>4. CASE ResReturns(r, events, "AGAIN")
  BY <1>1, <1>2, <1>4, FdSending, FdResponse
<1>5. CASE IF r.resource_fd # "none"
             THEN ResReturns([q EXCEPT !.res_handler = "send_file"], events, "OK")
             ELSE ResReturns([q EXCEPT !.response_done = TRUE], events \ {"OUT"}, "OK")
  <2>1. q = [r EXCEPT !.ob = <<>>, !.buffer_sent = 0]
    BY DEF ob_sent
  <2>2. <<>> \in Seq(AllUnits) /\ 0 \in Nat
    OBVIOUS
  <2> HIDE DEF q
  <2>3. q \in Request
    BY <1>2, <2>1, <2>2, Updates, Zenon
  <2>4. /\ q.ib = r.ib /\ q.req_handler = r.req_handler
        /\ q.transfer_encoding = r.transfer_encoding
        /\ q.response_done = r.response_done /\ q.resource_fd = r.resource_fd
    BY <1>2, <2>1, Zenon DEF Request
  <2>5. CASE r.resource_fd # "none"
    <3> DEFINE z == [q EXCEPT !.res_handler = "send_file"]
    <3>1. ResReturns(z, events, "OK")
      BY <1>5, <2>5
    <3>2. /\ z.ib = q.ib /\ z.req_handler = q.req_handler
          /\ z.transfer_encoding = q.transfer_encoding
          /\ z.response_done = q.response_done /\ z.resource_fd = q.resource_fd
      BY <2>3, Zenon DEF Request
    <3> HIDE DEF z
    <3> QED BY <1>1, <1>2, <2>4, <3>1, <3>2, FdSending, FdResponse
  <2>6. CASE r.resource_fd = "none"
    <3> DEFINE z == [q EXCEPT !.response_done = TRUE]
    <3>1. ResReturns(z, events \ {"OUT"}, "OK")
      BY <1>5, <2>6
    <3>2. /\ z.ib = q.ib /\ z.req_handler = q.req_handler
          /\ z.transfer_encoding = q.transfer_encoding
          /\ z.response_done = TRUE /\ z.resource_fd = q.resource_fd
      BY <2>3, Zenon DEF Request
    <3> HIDE DEF z
    <3> QED BY <1>1, <2>4, <2>6, <3>1, <3>2, FdSending, FdResponse
  <2> QED BY <2>5, <2>6
<1> QED BY <1>1, <1>3, <1>4, <1>5, FdSending DEF response_handle_send_buffer

LEMMA FdSendFile ==
  ASSUME ExchangeInv, FdInv, response_handle_send_file
  PROVE  FdInv'
<1> DEFINE n == Min({r.file_left, Room})
<1>1. pc = "res" /\ UNCHANGED resUnchanged
  BY DEF response_handle_send_file
<1>2. r \in Request /\ r.response_done \in BOOLEAN
  BY <1>1, FdSending DEF Request
<1>3. CASE r' = [r EXCEPT !.file_left = @ - n] /\ UNCHANGED <<epollVars, pc, age, mask, leaked>>
  <2> DEFINE m == r.file_left - n
  <2>1. r' = [r EXCEPT !.file_left = m]
    BY <1>3
  <2> HIDE DEF m
  <2>2. /\ r'.ib = r.ib /\ r'.req_handler = r.req_handler
        /\ r'.transfer_encoding = r.transfer_encoding
        /\ r'.response_done = r.response_done /\ r'.resource_fd = r.resource_fd
    BY <1>2, <2>1, Zenon DEF Request
  <2>3. age \in {"young", "failed"} /\ age # "failed"
    BY <1>1, SendingFacts DEF FdInv, FdOK
  <2>4. UNCHANGED <<sending, inq, fin, rst, leaked, pc, age>>
    BY <1>1, <1>3 DEF resUnchanged, clientVars
  <2> QED BY <1>1, <2>2, <2>3, <2>4, FdSending, FdKept
<1>4. CASE ResReturns(r, events, "AGAIN")
  BY <1>1, <1>2, <1>4, FdSending, FdResponse
<1>5. CASE ResReturns(file_sent(r), events, "OK")
  <2> DEFINE z == file_sent(r)
  <2>1. z = [r EXCEPT !.response_done = TRUE, !.resource_fd = "closed"]
    BY DEF file_sent
  <2>2. ResReturns(z, events, "OK")
    BY <1>5
  <2> HIDE DEF z
  <2>3. /\ z.ib = r.ib /\ z.req_handler = r.req_handler
        /\ z.transfer_encoding = r.transfer_encoding
        /\ z.response_done = TRUE /\ z.resource_fd = "closed"
    BY <1>2, <2>1, Zenon DEF Request
  <2> QED BY <1>1, <2>2, <2>3, FdSending, FdResponse
<1> QED BY <1>1, <1>3, <1>4, <1>5, FdSending DEF response_handle_send_file

LEMMA FdNext == ExchangeInv /\ FdInv /\ [Next]_vars => FdInv'
<1> SUFFICES ASSUME ExchangeInv, FdInv, [Next]_vars PROVE FdInv'
  OBVIOUS
<1>1. CASE WorkerNext
  BY <1>1, FdLoop, FdRecv, FdRequestLine, FdHeaderLine, FdBody, FdSendBuffer, FdSendFile
     DEF WorkerNext
<1>2. CASE time_passes
  BY <1>2 DEF time_passes, FdInv, Steady
<1>3. CASE UNCHANGED vars
  <2>1. UNCHANGED <<sending, inq, fin, rst, age, r, leaked, events, pc>>
    BY <1>3 DEF vars, clientVars, socketVars, epollVars
  <2> QED BY <2>1, FdSame DEF FdInv, FdOK
<1> QED BY <1>1, <1>2, <1>3, FdClient DEF Next

\* Only a client that goes away, is late or sends a header that is refused can
\* make lotos forget an open file: for all others, however they pipeline and
\* whatever files they ask for, each file that a request line opens is closed
\* before request_reset or connection_free drops resource_fd.
THEOREM ExchangeNoFdLeak == Steady /\ Spec => []NoFdLeak
<1>1. FdInv => NoFdLeak
  BY DEF FdInv, FdOK, NoFdLeak
<1> QED BY <1>1, FdInit, FdNext, ExchangeAlways, PTL DEF Spec
=============================================================================
