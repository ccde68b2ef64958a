------------------------------ MODULE Buffers -------------------------------
(***************************************************************************)
(* buffer.c and the code that appends to the two buffers of a connection:  *)
(* request_recv fills ib, response.c assembles a response in ob piece by   *)
(* piece.  buffer_cat may move a buffer; the pointer r->ib or r->ob and    *)
(* the local copy b of the response_append functions must follow it.       *)
(*                                                                         *)
(* A byte of a request is its number in the request; a byte of a response  *)
(* names the piece it comes from.  An address names a block of memory, and *)
(* realloc may leave a block where it is or move it to an unused address.  *)
(* What the parser makes of the bytes, and when the socket takes them, is  *)
(* the subject of HttpParser and Exchange.  malloc and realloc succeed.    *)
(***************************************************************************)
EXTENDS Integers, Sequences, SequencesExt, FiniteSetsExt

CONSTANTS
  Addrs,       \* addresses
  BUFSIZ,      \* the size a buffer is created with
  BufferLimit, \* BUFFER_LIMIT
  PageSizes,   \* sizes of the error page for the various status codes
  MaxRequest,  \* bound: bytes of a request
  MaxResponses \* bound: responses to one request

ASSUME BuffersAssumption ==
  /\ {BUFSIZ, BufferLimit} \subseteq Nat \ {0}
  /\ PageSizes \subseteq Nat
  /\ {MaxRequest, MaxResponses} \subseteq Nat

VARIABLES
  live,      \* addresses of allocated blocks
  mem,       \* the buffer_t at each address
  ib, ob,    \* r->ib and r->ob
  parsing,   \* the buffer that the pointers of parse_archive point into
  b,         \* the local copy of r->ob
  pc,        \* what the worker does with the connection
  todo,      \* the appends that the response still needs
  received,  \* bytes of the request so far
  page_size, \* err_page.rendered_page_size
  promised,  \* bytes that Content-Length has announced
  responses  \* the responses to the request so far: "file" or "error"

ptrVars == <<ib, ob, parsing, b>>
vars == <<live, mem, ptrVars, pc, todo, received, page_size, promised, responses>>

Block(size) == [size |-> size, free |-> size, data |-> <<>>]

\* A step of the assembly: a piece of n bytes is appended to r->ob, of which the
\* response_append function makes its copy b, or to b.
Piece(id, n, to) == [id |-> id, n |-> n, to |-> to]
Bytes(id, n) == [i \in 1 .. n |-> id]

HeadSteps == <<
  Piece("status", 1, "ob"), Piece("status", 1, "b"), Piece("status", 1, "b"),
  Piece("date", 2, "ob"),
  Piece("server", 1, "ob"), Piece("server", 1, "b"),
  Piece("type", 1, "ob"), Piece("type", 1, "b"), Piece("type", 1, "b"),
  Piece("length", 1, "ob"),
  Piece("connection", 1, "ob"), Piece("connection", 1, "b"),
  Piece("crlf", 1, "ob")>>

\* Mutated forms, here and below, are plausible mistakes in the definition that
\* follows them.  No specification uses them: they show that the properties
\* notice the mistake.

\* Mutant: a line end follows the page in the same function.
ErrorSteps_page_line ==
  HeadSteps \o <<Piece("page", 0, "ob"), Piece("crlf", 1, "b")>>

\* The page is appended to r->ob itself; its size is that of the rendered page.
ErrorSteps == Append(HeadSteps, Piece("page", 0, "ob"))

Init ==
  /\ live = {}
  /\ mem = [a \in Addrs |-> Block(0)]
  /\ \E a \in Addrs : ib = a /\ ob = a /\ parsing = a /\ b = a
  /\ pc = "closed"
  /\ todo = <<>>
  /\ received = 0
  /\ page_size = 0
  /\ promised = 0
  /\ responses = <<>>

-----------------------------------------------------------------------------
(* buffer.c.                                                               *)

\* Mutant: the strategy to grow is applied to what is already there.
GrownSize_of_old(len, n) == IF len < BufferLimit THEN len * 2 ELSE len + BufferLimit

GrownSize(len, n) ==
  IF len + n < BufferLimit THEN (len + n) * 2 ELSE len + n + BufferLimit

\* Mutant: free is left as it is.
Cleared_still_full(p) == [size |-> p.size, free |-> p.free, data |-> <<>>]

\* buffer_clear
Cleared(p) == [size |-> p.size, free |-> p.free + Len(p.data), data |-> <<>>]

\* buffer_cat(p, bytes, n) returns q.
buffer_cat(p, bytes, q) ==
  LET n == Len(bytes)
      size == GrownSize(Len(mem[p].data), n)
      data == mem[p].data \o bytes
  IN \/ /\ n =< mem[p].free
        /\ q = p
        /\ mem' = [mem EXCEPT ![p] = [size |-> mem[p].size, free |-> mem[p].free - n,
                                      data |-> data]]
        /\ UNCHANGED live
     \/ /\ n > mem[p].free
        /\ q = p \/ q \notin live
        /\ mem' = [mem EXCEPT ![q] = [size |-> size, free |-> size - Len(data),
                                      data |-> data]]
        /\ live' = (live \ {p}) \cup {q}

-----------------------------------------------------------------------------
\* request_init for a new connection.
request_init(i, o) ==
  /\ pc = "closed"
  /\ {i, o} \cap live = {} /\ i # o
  /\ live' = live \cup {i, o}
  /\ mem' = [mem EXCEPT ![i] = Block(BUFSIZ), ![o] = Block(BUFSIZ)]
  /\ ib' = i /\ ob' = o /\ parsing' = i
  /\ pc' = "recv"
  /\ received' = 0 /\ responses' = <<>> /\ promised' = 0
  /\ UNCHANGED <<b, todo, page_size>>

\* One call of recv in the loop of request_recv: n bytes are appended, the
\* result of buffer_cat is dropped.
request_recv(n) ==
  /\ pc = "recv"
  /\ received + n =< MaxRequest
  /\ \E q \in Addrs : buffer_cat(ib, [i \in 1 .. n |-> received + i], q)
  /\ received' = received + n
  /\ UNCHANGED <<ptrVars, pc, todo, page_size, promised, responses>>

\* A response of a kind begins: the first one, or one more after an error, as
\* request_handle_headers goes on after a header it has refused.
Assemble(kind, steps) ==
  /\ pc = "recv" \/ (pc = "send" /\ Last(responses) = "error")
  /\ received > 0
  /\ Len(responses) < MaxResponses
  /\ responses' = Append(responses, kind)
  /\ todo' = steps
  /\ pc' = "assemble"
  /\ UNCHANGED <<live, mem, ptrVars, received, page_size, promised>>

response_assemble_buffer == Assemble("file", HeadSteps)
response_assemble_err_buffer == Assemble("error", ErrorSteps)

\* r->par.err_req, which the response to a file also looks at.
err_req == "error" \in Range(responses)

\* Mutant: the size given to snprintf leaves out the terminating NUL.
err_page_render_buf_cut == IF page_size < BUFSIZ THEN page_size - 1 ELSE BUFSIZ - 1

\* What snprintf left in the buffer of the page, which buffer_init created with
\* BUFSIZ bytes whatever size it was asked for.
err_page_render_buf == Min({page_size, BUFSIZ - 1})

\* The appended bytes of a step; strftime writes the date only if it and the
\* terminating NUL fit into what is free.
StepBytes(step, p) ==
  CASE step.id = "page" -> Bytes("page", err_page_render_buf)
    [] step.id = "date" /\ step.n + 1 > mem[p].free -> <<>>
    [] OTHER -> Bytes(step.id, step.n)

\* The next append of a response_append function.
response_append ==
  /\ pc = "assemble"
  /\ LET step == Head(todo)
         p == IF step.to = "ob" THEN ob ELSE b
     IN /\ b' = p
        /\ \E q \in Addrs : buffer_cat(p, StepBytes(step, p), q) /\ ob' = q
        /\ IF step.id = "length" /\ err_req
             THEN \E n \in PageSizes : page_size' = n /\ promised' = promised + n
             ELSE UNCHANGED <<page_size, promised>>
  /\ todo' = Tail(todo)
  /\ pc' = IF Len(todo) = 1 THEN "send" ELSE "assemble"
  /\ UNCHANGED <<ib, parsing, received, responses>>

\* Mutant: only ob is cleared.
request_reset_keeps_input ==
  /\ mem' = [mem EXCEPT ![ob] = Cleared(@)]
  /\ parsing' = ib
  /\ received' = 0

\* The two buffers are kept and cleared.
request_reset ==
  /\ mem' = [mem EXCEPT ![ib] = Cleared(@), ![ob] = Cleared(@)]
  /\ parsing' = ib
  /\ received' = 0

\* response_send has sent all of ob, and the connection is kept.
response_handle ==
  /\ pc = "send"
  /\ request_reset
  /\ pc' = "recv"
  /\ responses' = <<>> /\ promised' = 0
  /\ UNCHANGED <<live, ib, ob, b, todo, page_size>>

\* Mutant: ob is not freed.
connection_free_keeps_ob == live' = live \ {ib}

connection_free == live' = live \ {ib, ob}

\* After the response, or before it if time runs out or the client goes away.
connection_close ==
  /\ pc \in {"recv", "send"}
  /\ connection_free
  /\ pc' = "closed"
  /\ UNCHANGED <<mem, ptrVars, todo, received, page_size, promised, responses>>

Next ==
  \/ \E i, o \in Addrs : request_init(i, o)
  \/ \E n \in 1 .. BUFSIZ : request_recv(n)
  \/ response_assemble_buffer
  \/ response_assemble_err_buffer
  \/ response_append
  \/ response_handle
  \/ connection_close

Spec == Init /\ [][Next]_vars

-----------------------------------------------------------------------------
TypeOK ==
  /\ live \subseteq Addrs
  /\ \A a \in live : mem[a].size \in Nat /\ mem[a].free \in Nat
  /\ {ib, ob, parsing, b} \subseteq Addrs
  /\ pc \in {"closed", "recv", "assemble", "send"}
  /\ \A i \in DOMAIN todo : todo[i].n \in Nat
  /\ received \in 0 .. MaxRequest
  /\ page_size \in Nat /\ promised \in Nat
  /\ responses \in Seq({"file", "error"}) /\ Len(responses) =< MaxResponses

\* r->ib and r->ob own all the memory there is, and the parser's pointers stay
\* inside r->ib: no buffer is lost, freed twice or used after it moved.
BuffersOwned ==
  IF pc = "closed" THEN live = {}
  ELSE live = {ib, ob} /\ ib # ob /\ parsing = ib

\* A response_append function that goes on with its copy b of r->ob has the
\* buffer as it is now, not the one before the last append.
LocalCurrent == todo # <<>> /\ Head(todo).to = "b" => b = ob

\* The comment on buffer_cat: after the call the old pointer is not valid and
\* must be replaced by the new one.
NoStalePointer == BuffersOwned /\ LocalCurrent

\* len and free add up to the memory the block has, through appends, growth and
\* any number of buffer_clear: no append writes behind the end.
SizesAgree ==
  pc # "closed" => \A a \in {ib, ob} : Len(mem[a].data) + mem[a].free = mem[a].size

\* The parser sees the bytes of this request, all of them, in order, and none
\* that an earlier request on the connection left.
InputWhole == pc # "closed" => mem[ib].data = [i \in 1 .. received |-> i]

\* The bytes of a head, and where the output has it and the error pages.
HeadBytes == <<
  "status", "status", "status", "date", "date", "server", "server",
  "type", "type", "type", "length", "connection", "connection", "crlf">>
OutputHead == SubSeq(mem[ob].data, 1, Len(HeadBytes))
PageBytes == {i \in DOMAIN mem[ob].data : mem[ob].data[i] = "page"}

\* A response that is ready to be sent has its complete head, and behind it as
\* many bytes of error page as Content-Length has announced.  (A file's response
\* after an error announces a page and has none: see WellFramed in Exchange.)
ResponseWhole ==
  pc = "send" =>
    /\ OutputHead = HeadBytes
    /\ "file" \notin Range(Tail(responses)) => Cardinality(PageBytes) = promised
    /\ Len(responses) = 1 => Len(mem[ob].data) = Len(HeadBytes) + promised
=============================================================================
