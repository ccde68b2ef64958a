--------------------------- MODULE BuffersProofs ----------------------------
(***************************************************************************)
(* Buffers, for all sizes of buffers, pages and requests.                  *)
(*                                                                         *)
(* First, len and free describe the block they belong to, however often a  *)
(* buffer grows, moves and is cleared.  The pointers play no part in it:   *)
(* the invariant is about every address, also the stale ones.              *)
(*                                                                         *)
(* Then the pointers and the contents.  They are right only where buffers  *)
(* are large enough (a buffer that moves too early is a finding), which    *)
(* is what Roomy says; the invariant counts how much of ob is used.        *)
(***************************************************************************)
EXTENDS Buffers, TLAPS, FiniteSetTheorems

Ids == {"status", "date", "server", "type", "length", "connection", "crlf", "page"}
Byte == Int \cup Ids
Step == [id : Ids, n : Nat, to : {"ob", "b"}]
Buffer == [size : Nat, free : Nat, data : Seq(Byte)]

\* The block at every address has the size that len and free add up to.
MemoryOK ==
  /\ mem \in [Addrs -> Buffer]
  /\ \A a \in Addrs : Len(mem[a].data) + mem[a].free = mem[a].size

\* The rest of the state; a response that is assembled has a step to do.
ControlOK ==
  /\ live \subseteq Addrs
  /\ {ib, ob, parsing, b} \subseteq Addrs
  /\ pc \in {"closed", "recv", "assemble", "send"}
  /\ todo \in Seq(Step)
  /\ pc = "assemble" => todo # <<>>
  /\ received \in 0 .. MaxRequest
  /\ page_size \in Nat /\ promised \in Nat
  /\ responses \in Seq({"file", "error"}) /\ Len(responses) =< MaxResponses

Inv == MemoryOK /\ ControlOK

-----------------------------------------------------------------------------
\* A block that realloc has made larger has room for what is to be appended.
LEMMA GrowthIsEnough ==
  ASSUME NEW len \in Nat, NEW n \in Nat
  PROVE  GrownSize(len, n) \in Nat /\ GrownSize(len, n) >= len + n
BY BuffersAssumption DEF GrownSize

\* buffer_new makes an empty buffer of the size it was asked for.
LEMMA BlockIsBuffer ==
  ASSUME NEW n \in Nat
  PROVE  /\ Block(n) \in Buffer
         /\ Len(Block(n).data) + Block(n).free = Block(n).size
BY DEF Block, Buffer

\* buffer_clear makes the whole block free.
LEMMA ClearKeepsSize ==
  ASSUME NEW p \in Buffer, Len(p.data) + p.free = p.size
  PROVE  /\ Cleared(p) \in Buffer
         /\ Len(Cleared(p).data) + Cleared(p).free = Cleared(p).size
BY DEF Cleared, Buffer

\* buffer_cat in place and with growth: the sizes stay right at every address.
LEMMA CatKeepsSizes ==
  ASSUME MemoryOK, live \subseteq Addrs,
         NEW p \in Addrs, NEW q \in Addrs, NEW bytes \in Seq(Byte),
         buffer_cat(p, bytes, q)
  PROVE  MemoryOK' /\ live' \subseteq Addrs
<1> DEFINE n == Len(bytes)
           data == mem[p].data \o bytes
           size == GrownSize(Len(mem[p].data), n)
<1>1. /\ mem[p] \in Buffer /\ mem \in [Addrs -> Buffer]
      /\ Len(mem[p].data) + mem[p].free = mem[p].size
  BY DEF MemoryOK
<1>2. n \in Nat /\ mem[p].data \in Seq(Byte) /\ Len(mem[p].data) \in Nat
      /\ mem[p].free \in Nat /\ mem[p].size \in Nat
  BY <1>1 DEF Buffer
<1>3. data \in Seq(Byte) /\ Len(data) = Len(mem[p].data) + n
  BY <1>2
<1>4. CASE n =< mem[p].free /\ q = p
                /\ mem' = [mem EXCEPT ![p] = [size |-> mem[p].size, free |-> mem[p].free - n,
                                              data |-> data]]
                /\ UNCHANGED live
  <2> DEFINE new == [size |-> mem[p].size, free |-> mem[p].free - n, data |-> data]
  <2>1. mem' = [mem EXCEPT ![p] = new]
    BY <1>4, <1>1
  <2>2. new \in Buffer /\ Len(new.data) + new.free = new.size
    BY <1>1, <1>2, <1>3, <1>4 DEF Buffer
  <2> HIDE DEF new
  <2>3. QED
    BY <2>1, <2>2, <1>1, <1>4 DEF MemoryOK
<1>5. CASE n > mem[p].free
                /\ mem' = [mem EXCEPT ![q] = [size |-> size, free |-> size - Len(data),
                                              data |-> data]]
                /\ live' = (live \ {p}) \cup {q}
  <2> DEFINE new == [size |-> size, free |-> size - Len(data), data |-> data]
  <2>1. size \in Nat /\ size >= Len(data)
    BY <1>2, <1>3, GrowthIsEnough
  <2>2. new \in Buffer /\ Len(new.data) + new.free = new.size
    BY <2>1, <1>3 DEF Buffer
  <2>3. mem' = [mem EXCEPT ![q] = new]
    BY <1>5
  <2> HIDE DEF new
  <2>4. QED
    BY <2>2, <2>3, <1>1, <1>5 DEF MemoryOK
<1>6. QED
  BY <1>4, <1>5 DEF buffer_cat

\* The steps of both kinds of response.
LEMMA StepsAreSteps ==
  /\ HeadSteps \in Seq(Step) /\ HeadSteps # <<>>
  /\ ErrorSteps \in Seq(Step) /\ ErrorSteps # <<>>
<1>1. ASSUME NEW id \in Ids, NEW n \in Nat, NEW to \in {"ob", "b"}
      PROVE  Piece(id, n, to) \in Step
  BY DEF Piece, Step
<1> HIDE DEF Piece, Step
<1>2. HeadSteps \in Seq(Step) /\ HeadSteps # <<>>
  <2>1. /\ Piece("status", 1, "ob") \in Step /\ Piece("status", 1, "b") \in Step
        /\ Piece("date", 2, "ob") \in Step
        /\ Piece("server", 1, "ob") \in Step /\ Piece("server", 1, "b") \in Step
        /\ Piece("type", 1, "ob") \in Step /\ Piece("type", 1, "b") \in Step
        /\ Piece("length", 1, "ob") \in Step
        /\ Piece("connection", 1, "ob") \in Step /\ Piece("connection", 1, "b") \in Step
        /\ Piece("crlf", 1, "ob") \in Step
    BY <1>1 DEF Ids
  <2>2. QED
    BY <2>1 DEF HeadSteps
<1>3. Piece("page", 0, "ob") \in Step
  BY <1>1 DEF Ids
<1>4. QED
  BY <1>2, <1>3 DEF ErrorSteps

\* What a step appends, the rendered page included, is a sequence of bytes.
LEMMA StepBytesAreBytes ==
  ASSUME NEW step \in Step, NEW p, page_size \in Nat
  PROVE  StepBytes(step, p) \in Seq(Byte)
<1>1. BUFSIZ - 1 \in Nat
  BY BuffersAssumption
<1>2. err_page_render_buf \in Nat
  <2>1. \E x \in {page_size, BUFSIZ - 1} : \A y \in {page_size, BUFSIZ - 1} : x =< y
    BY <1>1
  <2>2. Min({page_size, BUFSIZ - 1}) \in {page_size, BUFSIZ - 1}
    BY <2>1 DEF Min
  <2>3. QED
    BY <1>1, <2>2 DEF err_page_render_buf
<1>3. ASSUME NEW id \in Ids, NEW k \in Nat PROVE Bytes(id, k) \in Seq(Byte)
  BY DEF Bytes, Byte
<1>4. <<>> \in Seq(Byte) /\ step.id \in Ids /\ step.n \in Nat
  BY DEF Step
<1>5. Bytes("page", err_page_render_buf) \in Seq(Byte)
  BY <1>2, <1>3 DEF Ids
<1>6. Bytes(step.id, step.n) \in Seq(Byte)
  BY <1>3, <1>4
<1>7. CASE step.id = "page"
  BY <1>5, <1>7 DEF StepBytes
<1>8. CASE step.id # "page" /\ step.id = "date" /\ step.n + 1 > mem[p].free
  BY <1>4, <1>8 DEF StepBytes
<1>9. CASE step.id # "page" /\ ~(step.id = "date" /\ step.n + 1 > mem[p].free)
  BY <1>6, <1>9 DEF StepBytes
<1>10. QED
  BY <1>7, <1>8, <1>9

-----------------------------------------------------------------------------
LEMMA InvInit == Init => Inv
<1> SUFFICES ASSUME Init PROVE Inv
  OBVIOUS
<1>1. MemoryOK
  BY BlockIsBuffer DEF Init, MemoryOK
<1>2. ControlOK
  BY BuffersAssumption DEF Init, ControlOK
<1>3. QED
  BY <1>1, <1>2 DEF Inv

LEMMA InvNext == Inv /\ [Next]_vars => Inv'
<1> SUFFICES ASSUME Inv, [Next]_vars PROVE Inv'
  OBVIOUS
<1> USE DEF Inv
<1>1. ASSUME NEW i \in Addrs, NEW o \in Addrs, request_init(i, o) PROVE Inv'
  <2>1. Block(BUFSIZ) \in Buffer
        /\ Len(Block(BUFSIZ).data) + Block(BUFSIZ).free = Block(BUFSIZ).size
    BY BlockIsBuffer, BuffersAssumption
  <2>2. MemoryOK'
    BY <1>1, <2>1 DEF request_init, MemoryOK
  <2>3. ControlOK'
    BY <1>1, BuffersAssumption DEF request_init, ControlOK
  <2>4. QED
    BY <2>2, <2>3
<1>2. ASSUME NEW n \in 1 .. BUFSIZ, request_recv(n) PROVE Inv'
  <2>1. PICK q \in Addrs : buffer_cat(ib, [i \in 1 .. n |-> received + i], q)
    BY <1>2 DEF request_recv
  <2>2. n \in Nat /\ received \in Nat
    BY BuffersAssumption DEF ControlOK
  <2>3. [i \in 1 .. n |-> received + i] \in Seq(Byte)
    BY <2>2 DEF Byte
  <2>4. MemoryOK' /\ live' \subseteq Addrs
    BY <2>1, <2>3, CatKeepsSizes DEF ControlOK
  <2>5. ControlOK'
    BY <1>2, <2>2, <2>4, BuffersAssumption DEF request_recv, ControlOK, ptrVars
  <2>6. QED
    BY <2>4, <2>5
<1>3. ASSUME NEW kind \in {"file", "error"}, NEW steps \in Seq(Step), steps # <<>>,
             Assemble(kind, steps)
      PROVE  Inv'
  <2>1. MemoryOK'
    BY <1>3 DEF Assemble, MemoryOK
  <2>2. responses' \in Seq({"file", "error"}) /\ Len(responses') =< MaxResponses
    BY <1>3, BuffersAssumption DEF Assemble, ControlOK
  <2>3. ControlOK'
    BY <1>3, <2>2 DEF Assemble, ControlOK, ptrVars
  <2>4. QED
    BY <2>1, <2>3
<1>4. CASE response_append
  <2> DEFINE step == Head(todo)
             p == IF step.to = "ob" THEN ob ELSE b
  <2>1. /\ step \in Step /\ p \in Addrs
        /\ Tail(todo) \in Seq(Step)
        /\ Len(todo) # 1 => Tail(todo) # <<>>
    <3>1. pc = "assemble"
      BY <1>4 DEF response_append
    <3>2. todo \in Seq(Step) /\ todo # <<>> /\ ob \in Addrs /\ b \in Addrs
      BY <3>1 DEF ControlOK
    <3>3. Len(todo) \in Nat /\ Len(todo) # 0 /\ step \in Step
      BY <3>2
    <3>4. Tail(todo) \in Seq(Step) /\ Len(Tail(todo)) = Len(todo) - 1
      BY <3>2
    <3>5. Len(todo) # 1 => Tail(todo) # <<>>
      BY <3>3, <3>4
    <3>6. QED
      BY <3>2, <3>3, <3>4, <3>5
  <2>2. PICK q \in Addrs : buffer_cat(p, StepBytes(step, p), q) /\ ob' = q
    BY <1>4 DEF response_append
  <2>3. StepBytes(step, p) \in Seq(Byte)
    BY <2>1, StepBytesAreBytes DEF ControlOK
  <2>4. MemoryOK' /\ live' \subseteq Addrs
    BY <2>1, <2>2, <2>3, CatKeepsSizes DEF ControlOK
  <2>5. page_size' \in Nat /\ promised' \in Nat
    BY <1>4, BuffersAssumption DEF response_append, ControlOK
  <2>6. b' \in Addrs /\ ob' \in Addrs
    BY <1>4, <2>1, <2>2 DEF response_append
  <2>7. todo' \in Seq(Step) /\ pc' \in {"assemble", "send"}
        /\ (pc' = "assemble" => todo' # <<>>)
    BY <1>4, <2>1 DEF response_append
  <2>8. ControlOK'
    BY <1>4, <2>4, <2>5, <2>6, <2>7 DEF response_append, ControlOK
  <2>9. QED
    BY <2>4, <2>8
<1>5. CASE response_handle
  <2>1. ib \in Addrs /\ ob \in Addrs
    BY DEF ControlOK
  <2>2. \A a \in Addrs : /\ Cleared(mem[a]) \in Buffer
                         /\ Len(Cleared(mem[a]).data) + Cleared(mem[a]).free
                              = Cleared(mem[a]).size
    BY ClearKeepsSize DEF MemoryOK
  <2>3. mem' = [mem EXCEPT ![ib] = Cleared(@), ![ob] = Cleared(@)]
    BY <1>5 DEF response_handle, request_reset
  <2>4. mem' \in [Addrs -> Buffer]
        /\ \A a \in Addrs : mem'[a] = mem[a] \/ mem'[a] = Cleared(mem[a])
                              \/ mem'[a] = Cleared(Cleared(mem[a]))
    BY <2>1, <2>2, <2>3, ClearKeepsSize DEF MemoryOK
  <2>5. MemoryOK'
    BY <2>2, <2>4, ClearKeepsSize DEF MemoryOK
  <2>6. ControlOK'
    BY <1>5, BuffersAssumption DEF response_handle, request_reset, ControlOK
  <2>7. QED
    BY <2>5, <2>6
<1>6. CASE connection_close
  <2>1. MemoryOK'
    BY <1>6 DEF connection_close, MemoryOK
  <2>2. ControlOK'
    BY <1>6 DEF connection_close, connection_free, ControlOK, ptrVars
  <2>3. QED
    BY <2>1, <2>2
<1>7. CASE UNCHANGED vars
  <2>1. MemoryOK'
    BY <1>7 DEF vars, MemoryOK
  <2>2. ControlOK'
    BY <1>7 DEF vars, ptrVars, ControlOK
  <2>3. QED
    BY <2>1, <2>2
<1>8. CASE response_assemble_buffer
  BY <1>3, <1>8, StepsAreSteps DEF response_assemble_buffer
<1>9. CASE response_assemble_err_buffer
  BY <1>3, <1>9, StepsAreSteps DEF response_assemble_err_buffer
<1>10. QED
  BY <1>1, <1>2, <1>4, <1>5, <1>6, <1>7, <1>8, <1>9 DEF Next

LEMMA InvAlways == Spec => []Inv
BY InvInit, InvNext, PTL DEF Spec

-----------------------------------------------------------------------------
\* The state stays well typed: in particular no buffer has a negative amount of
\* free space, whatever buffer_cat, strftime and buffer_clear do to it.
THEOREM BuffersTypeCorrect == Spec => []TypeOK
<1>1. Inv => TypeOK
  <2> SUFFICES ASSUME Inv PROVE TypeOK
    OBVIOUS
  <2>1. \A a \in live : mem[a].size \in Nat /\ mem[a].free \in Nat
    BY DEF Inv, MemoryOK, ControlOK, Buffer
  <2>2. \A i \in DOMAIN todo : todo[i].n \in Nat
    <3>1. todo \in Seq(Step)
      BY DEF Inv, ControlOK
    <3>2. \A i \in DOMAIN todo : todo[i] \in Step
      BY <3>1
    <3>3. QED
      BY <3>2 DEF Step
  <2>3. QED
    BY <2>1, <2>2 DEF Inv, ControlOK, TypeOK
<1>2. QED
  BY <1>1, InvAlways, PTL

\* len and free always add up to the block that buffer_new or the realloc of
\* buffer_cat allocated, so that an append that is allowed stays inside it.
THEOREM SizesStayRight == Spec => []SizesAgree
<1>1. Inv => SizesAgree
  BY DEF Inv, MemoryOK, ControlOK, SizesAgree
<1>2. QED
  BY <1>1, InvAlways, PTL

-----------------------------------------------------------------------------
(***************************************************************************)
(* The pointers and the contents of the buffers, where no buffer has to    *)
(* grow before the page of the last response: a request fits a new buffer, *)
(* and so do all the responses to it up to the head of the last one.       *)
(***************************************************************************)

Roomy(P) ==
  /\ MaxRequest =< BUFSIZ /\ P < BUFSIZ
  /\ \A n \in PageSizes : n =< P
  /\ (MaxResponses - 1) * (P + 14) + 14 =< BUFSIZ

\* The steps of the response that is assembled, how many are done, and how many
\* bytes of the head are before each of them.
Steps == IF responses[Len(responses)] = "error" THEN ErrorSteps ELSE HeadSteps
Done == Len(Steps) - Len(todo)
Before == <<0, 1, 2, 3, 5, 6, 7, 8, 9, 10, 11, 12, 13, 14>>

\* r->ib and r->ob never become smaller than they were created.
BlocksOK ==
  /\ BuffersOwned /\ InputWhole
  /\ pc # "closed" => mem[ib].size >= BUFSIZ /\ mem[ob].size >= BUFSIZ
  /\ pc = "recv" => responses = <<>> /\ mem[ob].data = <<>> /\ promised = 0

\* The steps still to do are the last ones of the response, and b follows ob.
StepsOK ==
  /\ pc # "assemble" => todo = <<>>
  /\ pc \in {"assemble", "send"} => responses # <<>>
  /\ pc = "assemble" =>
       /\ Len(todo) =< Len(Steps)
       /\ \A i \in 1 .. Len(todo) : todo[i] = Steps[Done + i]
       /\ Done > 0 => b = ob

\* How much of ob the responses have used.
UsedOK(P) ==
  /\ page_size =< P
  /\ pc = "assemble" =>
       Len(mem[ob].data) =< (Len(responses) - 1) * (P + 14) + Before[Done + 1]
  /\ pc = "send" => Len(mem[ob].data) =< Len(responses) * (P + 14)

\* What is in ob: a head, and the pages of the responses so far.
AllErrors == \A i \in 1 .. Len(responses) : responses[i] = "error"

OutputOK ==
  /\ \A i \in 1 .. Len(responses) - 1 : responses[i] = "error"
  /\ pc \in {"assemble", "send"} =>
       \A i \in 1 .. 14 : i =< Len(mem[ob].data) => mem[ob].data[i] = HeadBytes[i]
  /\ pc = "assemble" =>
       LET due == IF Done >= 10 THEN page_size ELSE 0
           n == Len(mem[ob].data)
       IN /\ IF Len(responses) = 1 THEN n = Before[Done + 1] ELSE n >= 14
          /\ AllErrors => Cardinality(PageBytes) + due = promised
          /\ Len(responses) = 1 => promised = IF AllErrors THEN due ELSE 0
  /\ pc = "send" =>
       /\ Len(mem[ob].data) >= 14
       /\ AllErrors => Cardinality(PageBytes) = promised
       /\ Len(responses) = 1 =>
            /\ Len(mem[ob].data) = 14 + promised
            /\ ~AllErrors => promised = 0

RoomInv(P) == Roomy(P) /\ BlocksOK /\ StepsOK /\ UsedOK(P) /\ OutputOK

\* The pieces of a head, in their order: nothing but its bytes, and no step goes
\* on with b before one has taken r->ob.
LEMMA HeadStepsAre ==
  /\ Len(HeadSteps) = 13 /\ Len(ErrorSteps) = 14
  /\ HeadSteps \in Seq(Step) /\ ErrorSteps \in Seq(Step)
  /\ HeadSteps[1].to = "ob" /\ ErrorSteps[14] = Piece("page", 0, "ob")
  /\ \A k \in 1 .. 13 : ErrorSteps[k] = HeadSteps[k]
<1>1. HeadSteps \in Seq(Step) /\ ErrorSteps \in Seq(Step)
  BY StepsAreSteps
<1>2. Len(HeadSteps) = 13 /\ HeadSteps[1] = Piece("status", 1, "ob")
  BY DEF HeadSteps
<1>3. Piece("page", 0, "ob") \in Step
  BY DEF Piece, Step, Ids
<1> HIDE DEF HeadSteps
<1>4. Len(ErrorSteps) = 14 /\ ErrorSteps[14] = Piece("page", 0, "ob")
      /\ \A k \in 1 .. 13 : ErrorSteps[k] = HeadSteps[k]
  <2>1. ASSUME NEW s \in Seq(Step), NEW e \in Step, Len(s) = 13
        PROVE  /\ Len(Append(s, e)) = 14 /\ Append(s, e)[14] = e
               /\ \A k \in 1 .. 13 : Append(s, e)[k] = s[k]
    <3>1. /\ Len(Append(s, e)) = Len(s) + 1 /\ Append(s, e)[Len(s) + 1] = e
          /\ \A k \in 1 .. Len(s) : Append(s, e)[k] = s[k]
      OBVIOUS
    <3> QED BY <2>1, <3>1
  <2> QED BY <1>1, <1>2, <1>3, <2>1, Zenon DEF ErrorSteps
<1>5. HeadSteps[1].to = "ob"
  BY <1>2 DEF Piece
<1> QED BY <1>1, <1>2, <1>4, <1>5

LEMMA HeadPieces ==
  ASSUME NEW k \in 1 .. 13
  PROVE  LET s == HeadSteps[k] IN
           /\ s.id \in Ids \ {"page"} /\ s.n \in 1 .. 2
           /\ s.id = "length" <=> k = 10
           /\ s.id = "date" <=> k = 4
           /\ Before[k] \in 0 .. 13 /\ Before[k + 1] = Before[k] + s.n
           /\ Before[k + 1] =< 14
           /\ \A j \in 1 .. s.n : HeadBytes[Before[k] + j] = s.id
<1>1. k \in {1, 2, 3, 4, 5, 6, 7, 8, 9, 10, 11, 12, 13}
  OBVIOUS
<1> QED BY <1>1 DEF HeadSteps, Piece, Before, HeadBytes, Ids

\* What buffer_cat does to the memory: the bytes are behind what was there, at
\* the same address if they fit, and no other block changes.
LEMMA CatAppends ==
  ASSUME MemoryOK, NEW p \in live, live \subseteq Addrs,
         NEW q \in Addrs, NEW bytes \in Seq(Byte), buffer_cat(p, bytes, q)
  PROVE  /\ mem'[q].data = mem[p].data \o bytes /\ mem'[q].size >= mem[p].size
         /\ \A a \in Addrs : a # q => mem'[a] = mem[a]
         /\ q = p \/ q \notin live
         /\ live' = (live \ {p}) \cup {q}
         /\ Len(mem[p].data) + Len(bytes) =< mem[p].size => q = p
<1> DEFINE n == Len(bytes)
           data == mem[p].data \o bytes
           size == GrownSize(Len(mem[p].data), n)
<1>1. /\ mem[p] \in Buffer /\ mem \in [Addrs -> Buffer]
      /\ Len(mem[p].data) + mem[p].free = mem[p].size
  BY DEF MemoryOK
<1>2. n \in Nat /\ Len(mem[p].data) \in Nat /\ mem[p].free \in Nat /\ mem[p].size \in Nat
  BY <1>1 DEF Buffer
<1>3. CASE n =< mem[p].free /\ q = p
                /\ mem' = [mem EXCEPT ![p] = [size |-> mem[p].size, free |-> mem[p].free - n,
                                              data |-> data]]
                /\ UNCHANGED live
  <2> DEFINE new == [size |-> mem[p].size, free |-> mem[p].free - n, data |-> data]
  <2>1. mem' = [mem EXCEPT ![p] = new]
    BY <1>3
  <2>2. new.data = data /\ new.size = mem[p].size
    OBVIOUS
  <2> HIDE DEF new, data
  <2>3. mem'[q] = new /\ \A a \in Addrs : a # q => mem'[a] = mem[a]
    BY <1>1, <1>3, <2>1
  <2>4. mem'[q].data = data /\ mem'[q].size >= mem[p].size
    BY <1>2, <2>2, <2>3
  <2> QED BY <1>3, <2>3, <2>4 DEF data
<1>4. CASE n > mem[p].free /\ (q = p \/ q \notin live)
                /\ mem' = [mem EXCEPT ![q] = [size |-> size, free |-> size - Len(data),
                                              data |-> data]]
                /\ live' = (live \ {p}) \cup {q}
  <2> DEFINE new == [size |-> size, free |-> size - Len(data), data |-> data]
  <2>1. mem' = [mem EXCEPT ![q] = new]
    BY <1>4
  <2>2. new.data = data /\ new.size = size
    OBVIOUS
  <2>3. size \in Nat /\ size >= Len(mem[p].data) + n
    BY <1>2, GrowthIsEnough
  <2> HIDE DEF new, data, size
  <2>4. mem'[q] = new /\ \A a \in Addrs : a # q => mem'[a] = mem[a]
    BY <1>1, <2>1
  <2>5. mem'[q].data = data /\ mem'[q].size >= mem[p].size
    BY <1>1, <1>2, <1>4, <2>2, <2>3, <2>4
  <2>6. ~(Len(mem[p].data) + n =< mem[p].size)
    BY <1>1, <1>2, <1>4
  <2> QED BY <1>4, <2>4, <2>5, <2>6 DEF data
<1> QED BY <1>3, <1>4 DEF buffer_cat

\* How many bytes of page there are.
Pages(s) == Cardinality({i \in DOMAIN s : s[i] = "page"})

LEMMA BytesAre ==
  ASSUME NEW id \in Ids, NEW n \in Nat
  PROVE  /\ Bytes(id, n) \in Seq(Byte) /\ Len(Bytes(id, n)) = n
         /\ \A i \in 1 .. n : Bytes(id, n)[i] = id
BY DEF Bytes, Byte

LEMMA PagesGrow ==
  ASSUME NEW s \in Seq(Byte), NEW id \in Ids, NEW n \in Nat
  PROVE  /\ Pages(s) \in Nat
         /\ Pages(s \o Bytes(id, n)) = Pages(s) + IF id = "page" THEN n ELSE 0
<1> DEFINE t == Bytes(id, n)
           A == {i \in DOMAIN s : s[i] = "page"}
           B == {i \in DOMAIN (s \o t) : (s \o t)[i] = "page"}
           C == (Len(s) + 1) .. (Len(s) + n)
<1>1. t \in Seq(Byte) /\ Len(t) = n /\ \A i \in 1 .. n : t[i] = id
  BY BytesAre
<1> HIDE DEF t
<1>2. /\ s \o t \in Seq(Byte) /\ Len(s \o t) = Len(s) + n
      /\ \A i \in 1 .. Len(s) : (s \o t)[i] = s[i]
      /\ \A i \in 1 .. n : (s \o t)[Len(s) + i] = id
  <2>1. /\ s \o t \in Seq(Byte) /\ Len(s \o t) = Len(s) + Len(t)
        /\ \A i \in 1 .. Len(s) : (s \o t)[i] = s[i]
        /\ \A i \in 1 .. Len(t) : (s \o t)[Len(s) + i] = t[i]
    BY <1>1
  <2> QED BY <1>1, <2>1, Zenon
<1>3. Len(s) \in Nat /\ DOMAIN s = 1 .. Len(s) /\ DOMAIN (s \o t) = 1 .. Len(s) + n
  BY <1>2
<1>4. IsFiniteSet(A) /\ Cardinality(A) \in Nat
  <2>1. IsFiniteSet(1 .. Len(s))
    BY <1>3, FS_Interval
  <2>2. A \subseteq 1 .. Len(s)
    BY <1>3
  <2> QED BY <2>1, <2>2, FS_Subset, FS_CardinalityType
<1>5. \A i \in C : (s \o t)[i] = id
  <2> SUFFICES ASSUME NEW i \in C PROVE (s \o t)[i] = id
    OBVIOUS
  <2>1. i - Len(s) \in 1 .. n /\ Len(s) + (i - Len(s)) = i
    BY <1>3
  <2> QED BY <1>2, <2>1
<1>6. \A i \in 1 .. Len(s) + n : i \in 1 .. Len(s) \/ i \in C
  BY <1>3
<1>7. CASE id = "page"
  <2>1. B = A \cup C
    BY <1>2, <1>3, <1>5, <1>6, <1>7
  <2>2. A \cap C = {}
    BY <1>3
  <2>3. IsFiniteSet(C) /\ Cardinality(C) = n
    <3>1. Len(s) + 1 \in Int /\ Len(s) + n \in Int
      BY <1>3
    <3>2. IsFiniteSet(C) /\ Cardinality(C) = IF Len(s) + 1 > Len(s) + n THEN 0
                                             ELSE (Len(s) + n) - (Len(s) + 1) + 1
      BY <3>1, FS_Interval
    <3> QED BY <1>3, <3>2
  <2> HIDE DEF A, B, C
  <2>4. Cardinality(B) = Cardinality(A) + n
    <3>1. Cardinality(A \cup C) = Cardinality(A) + Cardinality(C) - Cardinality(A \cap C)
      BY <1>4, <2>3, FS_Union
    <3>2. Cardinality(A \cap C) = 0
      BY <2>2, FS_EmptySet
    <3> QED BY <1>4, <2>1, <2>3, <3>1, <3>2
  <2> QED BY <1>1, <1>4, <1>7, <2>4 DEF Pages, t, A, B
<1>8. CASE id # "page"
  <2>1. B = A
    BY <1>2, <1>3, <1>5, <1>6, <1>8
  <2> HIDE DEF A, B
  <2>2. Cardinality(B) = Cardinality(A) + 0
    BY <1>4, <2>1
  <2> QED BY <1>1, <1>4, <1>8, <2>2 DEF Pages, t, A, B
<1> QED BY <1>7, <1>8

LEMMA RoomInit ==
  ASSUME NEW P \in Nat
  PROVE  Roomy(P) /\ Init => RoomInv(P)
<1> SUFFICES ASSUME Roomy(P), Init PROVE RoomInv(P)
  OBVIOUS
<1>1. /\ live = {} /\ pc = "closed" /\ todo = <<>> /\ page_size = 0 /\ responses = <<>>
  BY DEF Init
<1>2. BlocksOK
  BY <1>1 DEF BlocksOK, BuffersOwned, InputWhole
<1>3. StepsOK /\ UsedOK(P) /\ OutputOK
  BY <1>1 DEF StepsOK, UsedOK, OutputOK
<1> QED BY <1>2, <1>3 DEF RoomInv

\* What an open connection has.
LEMMA OpenFacts ==
  ASSUME Inv, BlocksOK, pc # "closed"
  PROVE  /\ ib \in Addrs /\ ob \in Addrs /\ live \subseteq Addrs
         /\ live = {ib, ob} /\ ib # ob /\ parsing = ib
         /\ mem[ib] \in Buffer /\ mem[ob] \in Buffer /\ mem \in [Addrs -> Buffer]
         /\ mem[ib].data \in Seq(Byte) /\ mem[ob].data \in Seq(Byte)
         /\ Len(mem[ib].data) \in Nat /\ Len(mem[ob].data) \in Nat
         /\ mem[ib].size >= BUFSIZ /\ mem[ob].size >= BUFSIZ
         /\ mem[ib].size \in Nat /\ mem[ob].size \in Nat
         /\ received \in Nat /\ mem[ib].data = [i \in 1 .. received |-> i]
         /\ Len(mem[ib].data) = received
         /\ responses \in Seq({"file", "error"}) /\ Len(responses) \in Nat
         /\ page_size \in Nat /\ promised \in Nat
<1>1. /\ ib \in Addrs /\ ob \in Addrs /\ live \subseteq Addrs
      /\ mem \in [Addrs -> Buffer]
      /\ live = {ib, ob} /\ ib # ob /\ parsing = ib
      /\ mem[ib].size >= BUFSIZ /\ mem[ob].size >= BUFSIZ
      /\ mem[ib].data = [i \in 1 .. received |-> i]
      /\ responses \in Seq({"file", "error"})
      /\ page_size \in Nat /\ promised \in Nat
  BY DEF Inv, ControlOK, MemoryOK, BlocksOK, BuffersOwned, InputWhole
<1>2. mem[ib] \in Buffer /\ mem[ob] \in Buffer
  BY <1>1
<1>3. /\ mem[ib].data \in Seq(Byte) /\ mem[ob].data \in Seq(Byte)
      /\ mem[ib].size \in Nat /\ mem[ob].size \in Nat
  BY <1>2 DEF Buffer
<1>4. Len(mem[ib].data) \in Nat /\ Len(mem[ob].data) \in Nat /\ Len(responses) \in Nat
  <2>1. responses \in Seq({"file", "error"})
    BY <1>1
  <2>2. Len(responses) \in Nat
    BY <2>1
  <2> QED BY <1>3, <2>2
<1>5. received \in Nat
  BY BuffersAssumption DEF Inv, ControlOK
<1>6. Len(mem[ib].data) = received
  BY <1>1, <1>5
<1> QED BY <1>1, <1>2, <1>3, <1>4, <1>5, <1>6

LEMMA RoomOpens ==
  ASSUME NEW P \in Nat, Inv, RoomInv(P), NEW i \in Addrs, NEW o \in Addrs, request_init(i, o)
  PROVE  RoomInv(P)'
<1>1. /\ pc = "closed" /\ live' = live \cup {i, o} /\ i # o /\ ib' = i /\ ob' = o
      /\ parsing' = i /\ pc' = "recv" /\ received' = 0 /\ responses' = <<>> /\ promised' = 0
      /\ UNCHANGED <<b, todo, page_size>>
      /\ mem' = [mem EXCEPT ![i] = Block(BUFSIZ), ![o] = Block(BUFSIZ)]
  BY DEF request_init
<1>2. mem'[i] = Block(BUFSIZ) /\ mem'[o] = Block(BUFSIZ)
  BY <1>1 DEF Inv, MemoryOK
<1>3. Block(BUFSIZ).data = <<>> /\ Block(BUFSIZ).size = BUFSIZ /\ BUFSIZ >= BUFSIZ
  BY BuffersAssumption DEF Block
<1>4. live = {} /\ todo = <<>> /\ page_size =< P /\ Roomy(P)
  BY <1>1 DEF RoomInv, BlocksOK, StepsOK, UsedOK, BuffersOwned
<1>5. BuffersOwned'
  BY <1>1, <1>4 DEF BuffersOwned
<1>6. InputWhole'
  <2>1. [x \in 1 .. 0 |-> x] = <<>>
    OBVIOUS
  <2> QED BY <1>1, <1>2, <1>3, <2>1 DEF InputWhole
<1>7. BlocksOK'
  BY <1>1, <1>2, <1>3, <1>5, <1>6 DEF BlocksOK
<1>8. StepsOK' /\ UsedOK(P)' /\ OutputOK'
  BY <1>1, <1>4 DEF StepsOK, UsedOK, OutputOK
<1> QED BY <1>4, <1>7, <1>8 DEF RoomInv, Roomy

\* A request that fits a new buffer never makes r->ib move.
LEMMA RoomReceives ==
  ASSUME NEW P \in Nat, Inv, RoomInv(P), NEW n \in 1 .. BUFSIZ, request_recv(n)
  PROVE  RoomInv(P)'
<1> DEFINE bytes == [i \in 1 .. n |-> received + i]
<1>1. /\ pc = "recv" /\ received + n =< MaxRequest /\ received' = received + n
      /\ UNCHANGED <<ib, ob, parsing, b, pc, todo, page_size, promised, responses>>
  BY DEF request_recv, ptrVars
<1>2. PICK q \in Addrs : buffer_cat(ib, bytes, q)
  BY DEF request_recv
<1>3. n \in Nat /\ n > 0 /\ BUFSIZ \in Nat /\ MaxRequest \in Nat
  BY BuffersAssumption
<1>4. Roomy(P) /\ BlocksOK /\ StepsOK /\ UsedOK(P) /\ OutputOK
  BY DEF RoomInv
<1>5. bytes \in Seq(Byte) /\ Len(bytes) = n
  <2>1. received \in Nat
    BY <1>1, <1>4, OpenFacts
  <2> QED BY <1>3, <2>1 DEF Byte
<1> HIDE DEF bytes
<1>6. /\ ib \in live /\ live \subseteq Addrs /\ MemoryOK
      /\ Len(mem[ib].data) + Len(bytes) =< mem[ib].size
  BY <1>1, <1>3, <1>4, <1>5, OpenFacts DEF Roomy, Inv
<1>7. /\ q = ib /\ mem'[q].data = mem[ib].data \o bytes /\ mem'[q].size >= mem[ib].size
      /\ \A a \in Addrs : a # q => mem'[a] = mem[a]
      /\ live' = (live \ {ib}) \cup {q}
  BY <1>2, <1>5, <1>6, CatAppends
<1>8. mem'[ob] = mem[ob] /\ live' = live
  BY <1>1, <1>4, <1>6, <1>7, OpenFacts
<1>9. mem'[ib].data = [i \in 1 .. received + n |-> i]
  <2>1. ASSUME NEW m \in Nat
        PROVE  [i \in 1 .. m |-> i] \o [i \in 1 .. n |-> m + i] = [i \in 1 .. m + n |-> i]
    BY <1>3
  <2>2. received \in Nat /\ mem[ib].data = [i \in 1 .. received |-> i]
    BY <1>1, <1>4, OpenFacts
  <2> QED BY <1>7, <2>1, <2>2 DEF bytes
<1>10. mem'[ib].size \in Nat
  <2>1. MemoryOK'
    BY <1>2, <1>5, <1>6, CatKeepsSizes
  <2> QED BY <1>6, <2>1 DEF MemoryOK, Buffer
<1>11. BlocksOK'
  <2>1. BuffersOwned'
    BY <1>1, <1>4, <1>8 DEF BlocksOK, BuffersOwned
  <2>2. InputWhole'
    BY <1>1, <1>9 DEF InputWhole
  <2>3. mem'[ib].size >= BUFSIZ
    BY <1>1, <1>3, <1>4, <1>7, <1>10, OpenFacts
  <2>4. mem'[ob].size >= BUFSIZ
    BY <1>1, <1>4, <1>8, OpenFacts
  <2> QED BY <1>1, <1>4, <1>8, <2>1, <2>2, <2>3, <2>4 DEF BlocksOK
<1>12. StepsOK' /\ UsedOK(P)' /\ OutputOK'
  BY <1>1, <1>4 DEF StepsOK, UsedOK, OutputOK
<1> QED BY <1>4, <1>11, <1>12 DEF RoomInv, Roomy

LEMMA RoomResets ==
  ASSUME NEW P \in Nat, Inv, RoomInv(P), response_handle
  PROVE  RoomInv(P)'
<1>1. /\ pc = "send" /\ pc' = "recv" /\ responses' = <<>> /\ promised' = 0
      /\ parsing' = ib /\ received' = 0
      /\ UNCHANGED <<live, ib, ob, b, todo, page_size>>
      /\ mem' = [mem EXCEPT ![ib] = Cleared(@), ![ob] = Cleared(@)]
  BY DEF response_handle, request_reset
<1>2. Roomy(P) /\ BlocksOK /\ StepsOK /\ UsedOK(P) /\ OutputOK
  BY DEF RoomInv
<1>3. mem'[ib] = Cleared(mem[ib]) /\ mem'[ob] = Cleared(mem[ob])
  BY <1>1, <1>2, OpenFacts
<1>4. /\ mem'[ib].data = <<>> /\ mem'[ob].data = <<>>
      /\ mem'[ib].size = mem[ib].size /\ mem'[ob].size = mem[ob].size
  BY <1>3 DEF Cleared
<1>5. BuffersOwned'
  BY <1>1, <1>2 DEF BlocksOK, BuffersOwned
<1>6. InputWhole'
  <2>1. [x \in 1 .. 0 |-> x] = <<>>
    OBVIOUS
  <2> QED BY <1>1, <1>4, <2>1 DEF InputWhole
<1>7. BlocksOK'
  BY <1>1, <1>2, <1>4, <1>5, <1>6 DEF BlocksOK
<1>8. StepsOK' /\ UsedOK(P)' /\ OutputOK'
  BY <1>1, <1>2 DEF StepsOK, UsedOK, OutputOK
<1> QED BY <1>2, <1>7, <1>8 DEF RoomInv, Roomy

LEMMA RoomCloses ==
  ASSUME NEW P \in Nat, Inv, RoomInv(P), connection_close
  PROVE  RoomInv(P)'
<1>1. /\ pc \in {"recv", "send"} /\ pc' = "closed" /\ live' = live \ {ib, ob}
      /\ UNCHANGED <<mem, ib, ob, parsing, b, todo, received, page_size, promised, responses>>
  BY DEF connection_close, connection_free, ptrVars
<1>2. Roomy(P) /\ BlocksOK /\ StepsOK /\ UsedOK(P) /\ OutputOK
  BY DEF RoomInv
<1>3. BlocksOK'
  BY <1>1, <1>2, OpenFacts DEF BlocksOK, BuffersOwned, InputWhole
<1>4. StepsOK' /\ UsedOK(P)' /\ OutputOK'
  BY <1>1, <1>2 DEF StepsOK, UsedOK, OutputOK
<1> QED BY <1>2, <1>3, <1>4 DEF RoomInv, Roomy

LEMMA RoomStutters ==
  ASSUME NEW P \in Nat, RoomInv(P), UNCHANGED vars
  PROVE  RoomInv(P)'
<1>1. UNCHANGED <<live, mem, ib, ob, parsing, b, pc, todo, received, page_size, promised,
                  responses>>
  BY DEF vars, ptrVars
<1>2. UNCHANGED Steps /\ UNCHANGED AllErrors /\ UNCHANGED PageBytes
  BY <1>1 DEF Steps, AllErrors, PageBytes
<1>3. UNCHANGED Done
  BY <1>1, <1>2 DEF Done
<1>4. BlocksOK'
  BY <1>1 DEF RoomInv, BlocksOK, BuffersOwned, InputWhole
<1>5. StepsOK' /\ UsedOK(P)'
  BY <1>1, <1>2, <1>3 DEF RoomInv, StepsOK, UsedOK
<1>6. OutputOK'
  BY <1>1, <1>2, <1>3 DEF RoomInv, OutputOK
<1> QED BY <1>4, <1>5, <1>6 DEF RoomInv, Roomy

LEMMA Products ==
  ASSUME NEW R \in Nat, NEW M \in Nat, NEW C \in Nat, R > 0, R =< M
  PROVE  /\ (R - 1) * C \in Nat /\ R * C = (R - 1) * C + C
         /\ (R - 1) * C =< (M - 1) * C
<1>1. R - 1 \in Nat /\ M - R \in Nat
  OBVIOUS
<1>2. ASSUME NEW a \in Nat PROVE a * C \in Nat /\ (a + 1) * C = a * C + C
  OBVIOUS
<1>3. ASSUME NEW a \in Nat, NEW d \in Nat PROVE (a + d) * C = a * C + d * C
  OBVIOUS
<1>4. R * C = (R - 1) * C + C
  BY <1>1, <1>2
<1>5. (M - 1) * C = (R - 1) * C + (M - R) * C
  <2>1. M - 1 = (R - 1) + (M - R)
    OBVIOUS
  <2> QED BY <1>1, <1>3, <2>1
<1>6. (R - 1) * C \in Nat /\ (M - R) * C \in Nat
  BY <1>1, <1>2
<1> QED BY <1>4, <1>5, <1>6

LEMMA RoomAssembles ==
  ASSUME NEW P \in Nat, Inv, RoomInv(P),
         NEW kind \in {"file", "error"}, NEW steps, Assemble(kind, steps),
         steps = IF kind = "error" THEN ErrorSteps ELSE HeadSteps
  PROVE  RoomInv(P)'
<1> DEFINE R == Len(responses)
<1>1. /\ pc = "recv" \/ (pc = "send" /\ responses[Len(responses)] = "error")
      /\ responses' = Append(responses, kind) /\ todo' = steps /\ pc' = "assemble"
      /\ UNCHANGED <<live, mem, ib, ob, parsing, b, received, page_size, promised>>
  BY DEF Assemble, ptrVars, Last
<1>2. Roomy(P) /\ BlocksOK /\ StepsOK /\ UsedOK(P) /\ OutputOK
  BY DEF RoomInv
<1>3. /\ responses \in Seq({"file", "error"}) /\ R \in Nat
      /\ Len(mem[ob].data) \in Nat /\ promised \in Nat
  BY <1>1, <1>2, OpenFacts
<1>4. /\ Len(responses') = R + 1 /\ responses'[R + 1] = kind
      /\ \A i \in 1 .. R : responses'[i] = responses[i]
      /\ responses' # <<>>
  <2>1. ASSUME NEW s \in Seq({"file", "error"})
        PROVE  /\ Len(Append(s, kind)) = Len(s) + 1 /\ Append(s, kind)[Len(s) + 1] = kind
               /\ \A i \in 1 .. Len(s) : Append(s, kind)[i] = s[i]
               /\ Append(s, kind) # <<>>
    OBVIOUS
  <2> QED BY <1>1, <1>3, <2>1
<1>5. Steps' = steps /\ Len(steps) \in {13, 14} /\ Done' = 0
  <2>1. Steps' = steps
    BY <1>4 DEF Steps
  <2>2. Len(steps) \in {13, 14}
    BY HeadStepsAre
  <2> QED BY <1>1, <2>1, <2>2 DEF Done
<1>6. BlocksOK'
  BY <1>1, <1>2 DEF BlocksOK, BuffersOwned, InputWhole
<1>7. StepsOK'
  BY <1>1, <1>4, <1>5 DEF StepsOK
<1>8. \A i \in 1 .. Len(responses') - 1 : responses[i] = "error" /\ i \in 1 .. R
  <2>1. pc = "send" => R > 0
    BY <1>2, <1>3 DEF StepsOK
  <2> QED BY <1>1, <1>2, <1>3, <1>4, <2>1 DEF BlocksOK, OutputOK
<1>9. AllErrors' => AllErrors
  BY <1>3, <1>8, <1>4 DEF AllErrors
<1>10. Before[1] = 0 /\ (Done' + 1 = 1)
  BY <1>5 DEF Before
<1>11. CASE pc = "recv"
  <2>1. R = 0 /\ mem[ob].data = <<>> /\ promised = 0
    BY <1>2, <1>11 DEF BlocksOK
  <2>2. PageBytes' = {}
    BY <1>1, <2>1 DEF PageBytes
  <2>3. Cardinality(PageBytes') = 0
    BY <2>2, FS_EmptySet
  <2>4. UsedOK(P)'
    <3>1. (Len(responses') - 1) * (P + 14) = 0
      BY <1>4, <2>1
    <3> QED BY <1>1, <1>2, <1>10, <2>1, <3>1 DEF UsedOK
  <2>5. OutputOK'
    BY <1>1, <1>4, <1>8, <1>5, <1>10, <2>1, <2>3 DEF OutputOK
  <2> QED BY <1>2, <1>6, <1>7, <2>4, <2>5 DEF RoomInv, Roomy
<1>12. CASE pc = "send"
  <2>1. R > 0 /\ Len(mem[ob].data) =< R * (P + 14) /\ Len(mem[ob].data) >= 14
    BY <1>2, <1>3, <1>12 DEF StepsOK, UsedOK, OutputOK
  <2>2. UsedOK(P)'
    <3>1. (Len(responses') - 1) * (P + 14) = R * (P + 14) /\ R * (P + 14) \in Nat
      <4>1. Len(responses') - 1 = R
        BY <1>3, <1>4
      <4> QED BY <1>3, <4>1
    <3> QED BY <1>1, <1>2, <1>10, <2>1, <3>1 DEF UsedOK
  <2>3. UNCHANGED PageBytes
    BY <1>1 DEF PageBytes
  <2>4. AllErrors' => Cardinality(PageBytes)' + 0 = promised'
    BY <1>1, <1>2, <1>3, <1>9, <1>12, <2>3 DEF OutputOK
  <2>5. Len(responses') # 1 /\ ~(Done' >= 10)
    BY <1>3, <1>4, <1>5, <2>1
  <2>6. \A i \in 1 .. 14 : i =< Len(mem'[ob'].data) => mem'[ob'].data[i] = HeadBytes[i]
    BY <1>1, <1>2, <1>12 DEF OutputOK
  <2>7. \A i \in 1 .. Len(responses') - 1 : responses'[i] = "error"
    BY <1>4, <1>8
  <2>8. OutputOK'
    BY <1>1, <2>1, <2>4, <2>5, <2>6, <2>7 DEF OutputOK
  <2> QED BY <1>2, <1>6, <1>7, <2>2, <2>8 DEF RoomInv, Roomy
<1> QED BY <1>1, <1>11, <1>12

\* Where the assembly is, and what it does next.
LEMMA NextStep ==
  ASSUME Inv, BlocksOK, StepsOK, pc = "assemble"
  PROVE  LET k == Done + 1
             step == Head(todo)
         IN /\ Len(responses) \in Nat /\ Len(responses) > 0
            /\ Done \in 0 .. 13 /\ Len(Steps) \in {13, 14} /\ Done < Len(Steps)
            /\ Len(Steps) = 14 <=> responses[Len(responses)] = "error"
            /\ Len(todo) = Len(Steps) - Done
            /\ k =< 13 => step = HeadSteps[k]
            /\ k = 14 => step = Piece("page", 0, "ob")
            /\ step.to # "ob" => b = ob
<1> DEFINE R == Len(responses)
           k == Done + 1
           step == Head(todo)
<1>1. R \in Nat /\ R > 0
  BY OpenFacts DEF StepsOK
<1>2. Len(Steps) \in {13, 14} /\ (Len(Steps) = 14 <=> responses[R] = "error")
  <2>1. CASE responses[R] = "error"
    <3>1. Steps = ErrorSteps
      BY <2>1 DEF Steps
    <3> QED BY <2>1, <3>1, HeadStepsAre
  <2>2. CASE responses[R] # "error"
    <3>1. Steps = HeadSteps
      BY <2>2 DEF Steps
    <3> QED BY <2>2, <3>1, HeadStepsAre
  <2> QED BY <2>1, <2>2
<1>3. todo \in Seq(Step) /\ todo # <<>> /\ Len(todo) \in Nat /\ Len(todo) > 0 /\ step = todo[1]
  <2>1. todo \in Seq(Step) /\ todo # <<>>
    BY DEF Inv, ControlOK
  <2> QED BY <2>1
<1>4. Done \in 0 .. 13 /\ Done < Len(Steps) /\ Len(todo) = Len(Steps) - Done
  <2>1. Len(todo) =< Len(Steps)
    BY DEF StepsOK
  <2>2. Len(Steps) \in Nat /\ 13 =< Len(Steps) /\ Len(Steps) =< 14
    <3>1. \A x \in {13, 14} : x \in Nat /\ 13 =< x /\ x =< 14
      OBVIOUS
    <3> QED BY <1>2, <3>1, Zenon
  <2> QED BY <1>3, <2>1, <2>2 DEF Done
<1>5. step = Steps[k]
  <2>1. 1 \in 1 .. Len(todo)
    BY <1>3
  <2> QED BY <1>3, <2>1 DEF StepsOK
<1>6. k =< 13 => step = HeadSteps[k]
  <2>1. k \in Nat /\ k > 0
    BY <1>4
  <2>2. Steps \in {HeadSteps, ErrorSteps}
    BY DEF Steps
  <2> QED BY <1>5, <2>1, <2>2, HeadStepsAre
<1>7. k = 14 => step = Piece("page", 0, "ob")
  <2>1. k = 14 => Steps = ErrorSteps
    <3>1. k = 14 => Len(Steps) = 14
      BY <1>2, <1>4
    <3> QED BY <1>2, <3>1 DEF Steps
  <2> QED BY <1>5, <2>1, HeadStepsAre
<1>8. step.to # "ob" => b = ob
  <2>1. Done = 0 => k = 1 /\ k =< 13
    BY <1>4
  <2>2. Done = 0 => step.to = "ob"
    BY <1>6, <2>1, HeadStepsAre
  <2>3. Done # 0 => Done > 0
    BY <1>4
  <2> QED BY <2>2, <2>3 DEF StepsOK
<1> QED BY <1>1, <1>2, <1>4, <1>6, <1>7, <1>8

\* The responses before this one, and the room they leave.
Base(P) == (Len(responses) - 1) * (P + 14)

LEMMA NextRoom ==
  ASSUME NEW P \in Nat, Inv, RoomInv(P), pc = "assemble"
  PROVE  /\ Base(P) \in Nat /\ Base(P) + (P + 14) = Len(responses) * (P + 14)
         /\ Base(P) + 14 =< mem[ob].size
         /\ Len(mem[ob].data) =< Base(P) + Before[Done + 1]
         /\ Len(mem[ob].data) \in Nat /\ mem[ob].size \in Nat
         /\ Len(responses) = 1 => Base(P) = 0
<1> DEFINE R == Len(responses)
           top == (MaxResponses - 1) * (P + 14)
<1>1. Roomy(P) /\ BlocksOK /\ StepsOK /\ UsedOK(P)
  BY DEF RoomInv
<1>2. R \in Nat /\ R > 0 /\ R =< MaxResponses /\ MaxResponses \in Nat
  BY <1>1, OpenFacts, BuffersAssumption DEF StepsOK, Inv, ControlOK
<1>3. /\ Base(P) \in Nat /\ Base(P) + (P + 14) = R * (P + 14) /\ Base(P) =< top
  <2>1. P + 14 \in Nat
    OBVIOUS
  <2> HIDE DEF R
  <2>2. (R - 1) * (P + 14) \in Nat /\ R * (P + 14) = (R - 1) * (P + 14) + (P + 14)
        /\ (R - 1) * (P + 14) =< (MaxResponses - 1) * (P + 14)
    BY <1>2, <2>1, Products
  <2> QED BY <2>2 DEF Base, R
<1>4. Base(P) + 14 =< mem[ob].size
  <2>1. top + 14 =< BUFSIZ /\ BUFSIZ =< mem[ob].size /\ mem[ob].size \in Nat /\ BUFSIZ \in Nat
    BY <1>1, OpenFacts, BuffersAssumption DEF Roomy
  <2>2. top \in Int
    BY <1>2
  <2> HIDE DEF top
  <2> QED BY <1>3, <2>1, <2>2
<1>5. Len(mem[ob].data) =< Base(P) + Before[Done + 1]
  BY <1>1 DEF UsedOK, Base
<1>6. Len(mem[ob].data) \in Nat /\ mem[ob].size \in Nat
  BY <1>1, OpenFacts
<1>7. R = 1 => Base(P) = 0
  BY DEF Base
<1> QED BY <1>3, <1>4, <1>5, <1>6, <1>7

\* What the step appends, where it fits: strftime has its room too, and the page
\* is not cut.
LEMMA StepBytesAre ==
  ASSUME NEW P \in Nat, Inv, RoomInv(P), pc = "assemble"
  PROVE  LET k == Done + 1
             step == Head(todo)
         IN StepBytes(step, ob) = IF k =< 13 THEN Bytes(HeadSteps[k].id, HeadSteps[k].n)
                                  ELSE Bytes("page", page_size)
<1> DEFINE k == Done + 1
           step == Head(todo)
<1>1. BlocksOK /\ StepsOK /\ UsedOK(P) /\ Roomy(P)
  BY DEF RoomInv
<1>2. k \in 1 .. 14
  BY <1>1, NextStep
<1>3. CASE k =< 13
  <2>1. step = HeadSteps[k] /\ k \in 1 .. 13
    BY <1>1, <1>2, <1>3, NextStep
  <2>2. step.id # "page" /\ (step.id = "date" => k = 4) /\ step.n \in 1 .. 2
    BY <2>1, HeadPieces
  <2>3. ~(step.id = "date" /\ step.n + 1 > mem[ob].free)
    <3> SUFFICES ASSUME k = 4 PROVE step.n + 1 =< mem[ob].free
      BY <1>1, <2>2, OpenFacts DEF Buffer
    <3>1. Before[4] = 3
      BY DEF Before
    <3>2. Len(mem[ob].data) + mem[ob].free = mem[ob].size /\ mem[ob].free \in Nat
      BY <1>1, OpenFacts DEF Inv, MemoryOK, Buffer
    <3>3. /\ Base(P) \in Nat /\ Len(mem[ob].data) =< Base(P) + 3
          /\ Base(P) + 14 =< mem[ob].size
          /\ Len(mem[ob].data) \in Nat /\ mem[ob].size \in Nat
      BY <3>1, NextRoom
    <3>4. mem[ob].free >= 11
      BY <3>2, <3>3
    <3> QED BY <2>2, <3>2, <3>4
  <2>4. StepBytes(step, ob) = Bytes(step.id, step.n)
    BY <2>2, <2>3, Zenon DEF StepBytes
  <2> QED BY <1>3, <2>1, <2>4
<1>4. CASE k = 14
  <2>1. step.id = "page"
    BY <1>1, <1>4, NextStep DEF Piece
  <2>2. page_size \in Nat /\ page_size =< BUFSIZ - 1 /\ BUFSIZ - 1 \in Nat
    <3>1. page_size \in Nat /\ page_size =< P /\ P < BUFSIZ /\ BUFSIZ \in Nat
      BY <1>1, OpenFacts, BuffersAssumption DEF Roomy, UsedOK
    <3> QED BY <3>1
  <2>3. err_page_render_buf = page_size
    <3>1. page_size \in {page_size, BUFSIZ - 1} /\ \A y \in {page_size, BUFSIZ - 1} : page_size =< y
      BY <2>2
    <3>2. \A x \in {page_size, BUFSIZ - 1} :
            (\A y \in {page_size, BUFSIZ - 1} : x =< y) => x = page_size
      BY <2>2
    <3> QED BY <3>1, <3>2 DEF err_page_render_buf, Min
  <2>4. StepBytes(step, ob) = Bytes("page", page_size)
    BY <2>1, <2>3 DEF StepBytes
  <2> QED BY <1>2, <1>4, <2>4
<1> QED BY <1>2, <1>3, <1>4

\* A step of the assembly, with its bytes.
LEMMA AppendStep ==
  ASSUME NEW P \in Nat, Inv, RoomInv(P), response_append
  PROVE  LET k == Done + 1
             bytes == IF k =< 13 THEN Bytes(HeadSteps[k].id, HeadSteps[k].n)
                      ELSE Bytes("page", page_size)
         IN /\ pc = "assemble" /\ b' = ob
            /\ UNCHANGED <<ib, parsing, received, responses, Steps, AllErrors>>
            /\ Done' = k /\ pc' = (IF k = Len(Steps) THEN "send" ELSE "assemble")
            /\ mem'[ob'].data = mem[ob].data \o bytes
            /\ BlocksOK'
            /\ k =< 13 => ob' = ob
            /\ IF k = 10 /\ err_req
                 THEN page_size' \in PageSizes /\ promised' = promised + page_size'
                 ELSE UNCHANGED <<page_size, promised>>
            /\ StepsOK'
<1> DEFINE k == Done + 1
           bytes == IF k =< 13 THEN Bytes(HeadSteps[k].id, HeadSteps[k].n)
                    ELSE Bytes("page", page_size)
           step == Head(todo)
           p == IF step.to = "ob" THEN ob ELSE b
<1>1. /\ pc = "assemble" /\ b' = p /\ todo' = Tail(todo)
      /\ pc' = (IF Len(todo) = 1 THEN "send" ELSE "assemble")
      /\ UNCHANGED <<ib, parsing, received, responses>>
      /\ IF step.id = "length" /\ err_req
           THEN \E n \in PageSizes : page_size' = n /\ promised' = promised + n
           ELSE UNCHANGED <<page_size, promised>>
  BY DEF response_append
<1>2. PICK q \in Addrs : buffer_cat(p, StepBytes(step, p), q) /\ ob' = q
  BY DEF response_append
<1>3. Roomy(P) /\ BlocksOK /\ StepsOK /\ UsedOK(P) /\ OutputOK
  BY DEF RoomInv
<1>4. p = ob
  BY <1>1, <1>3, NextStep
<1>5. StepBytes(step, p) = bytes
  BY <1>1, <1>4, StepBytesAre
<1>6. Done \in 0 .. 13 /\ k \in 1 .. 14 /\ Len(todo) = Len(Steps) - Done /\ Len(Steps) \in {13, 14}
      /\ k =< Len(Steps)
  <2>1. /\ Done \in 0 .. 13 /\ Len(Steps) \in {13, 14} /\ Done < Len(Steps)
        /\ Len(todo) = Len(Steps) - Done
    BY <1>1, <1>3, NextStep
  <2> QED BY <2>1
<1>7. k =< 13 => step = HeadSteps[k]
  BY <1>1, <1>3, NextStep
<1>8. bytes \in Seq(Byte) /\ (k =< 13 => Len(bytes) = HeadSteps[k].n)
  <2>2. CASE k =< 13
    <3>0. k \in 1 .. 13
      BY <1>6, <2>2
    <3>1. HeadSteps[k].id \in Ids /\ HeadSteps[k].n \in Nat
      BY <3>0, HeadPieces
    <3>2. bytes = Bytes(HeadSteps[k].id, HeadSteps[k].n)
      BY <2>2
    <3>3. Bytes(HeadSteps[k].id, HeadSteps[k].n) \in Seq(Byte)
          /\ Len(Bytes(HeadSteps[k].id, HeadSteps[k].n)) = HeadSteps[k].n
      BY <3>1, BytesAre
    <3> QED BY <3>2, <3>3
  <2>3. CASE ~(k =< 13)
    <3>1. page_size \in Nat /\ "page" \in Ids
      BY <1>1, <1>3, OpenFacts DEF Ids
    <3>2. bytes = Bytes("page", page_size)
      BY <2>3
    <3> QED BY <2>3, <3>1, <3>2, BytesAre
  <2> QED BY <2>2, <2>3
<1> HIDE DEF bytes, p
<1>9. /\ ob \in live /\ live \subseteq Addrs /\ MemoryOK /\ live = {ib, ob} /\ ib # ob
      /\ ib \in Addrs /\ parsing = ib
  BY <1>1, <1>3, OpenFacts DEF Inv
<1>10. buffer_cat(ob, bytes, q)
  BY <1>2, <1>4, <1>5
<1>11. /\ mem'[q].data = mem[ob].data \o bytes /\ mem'[q].size >= mem[ob].size
       /\ \A a \in Addrs : a # q => mem'[a] = mem[a]
       /\ q = ob \/ q \notin live
       /\ live' = (live \ {ob}) \cup {q}
       /\ Len(mem[ob].data) + Len(bytes) =< mem[ob].size => q = ob
  BY <1>8, <1>9, <1>10, CatAppends
<1>12. k =< 13 => ob' = ob
  <2> SUFFICES ASSUME k =< 13 PROVE Len(mem[ob].data) + Len(bytes) =< mem[ob].size
    BY <1>2, <1>11
  <2> DEFINE n == HeadSteps[k].n
  <2>1. /\ Base(P) \in Nat /\ Len(mem[ob].data) =< Base(P) + Before[k]
        /\ Base(P) + 14 =< mem[ob].size
        /\ Len(mem[ob].data) \in Nat /\ mem[ob].size \in Nat
    BY <1>1, NextRoom
  <2>2. /\ n \in Nat /\ Before[k] \in Nat /\ Before[k] + n =< 14 /\ Len(bytes) = n
    <3>1. k \in 1 .. 13
      BY <1>6
    <3>2. /\ n \in 1 .. 2 /\ Before[k] \in 0 .. 13 /\ Before[k + 1] = Before[k] + n
          /\ Before[k + 1] =< 14
      BY <3>1, HeadPieces
    <3> QED BY <1>8, <3>2
  <2> HIDE DEF n
  <2> QED BY <2>1, <2>2
<1>13. BlocksOK'
  <2>1. BuffersOwned'
    BY <1>1, <1>2, <1>9, <1>11 DEF BuffersOwned
  <2>2. mem'[ib] = mem[ib]
    BY <1>9, <1>11
  <2>3. InputWhole'
    BY <1>1, <1>3, <2>2 DEF BlocksOK, InputWhole
  <2>4. mem'[ob'].size >= BUFSIZ
    <3>1. MemoryOK'
      BY <1>8, <1>9, <1>10, CatKeepsSizes
    <3>2. mem'[q].size \in Nat
      BY <3>1 DEF MemoryOK, Buffer
    <3>3. mem[ob].size >= BUFSIZ /\ mem[ob].size \in Nat /\ BUFSIZ \in Nat
      BY <1>1, <1>3, OpenFacts, BuffersAssumption
    <3> QED BY <1>2, <1>11, <3>2, <3>3
  <2>5. mem'[ib'].size >= BUFSIZ /\ pc' # "recv"
    BY <1>1, <1>3, <2>2, OpenFacts
  <2> QED BY <2>1, <2>3, <2>4, <2>5 DEF BlocksOK
<1>14. UNCHANGED <<Steps, AllErrors>>
  BY <1>1 DEF Steps, AllErrors
<1>15. /\ todo \in Seq(Step) /\ Len(todo) \in Nat /\ Len(todo) > 0
       /\ todo' \in Seq(Step) /\ Len(todo') = Len(todo) - 1
       /\ \A i \in 1 .. Len(todo) - 1 : todo'[i] = todo[i + 1]
  <2>1. todo \in Seq(Step) /\ todo # <<>>
    BY <1>1 DEF Inv, ControlOK
  <2>2. ASSUME NEW s \in Seq(Step), s # <<>>
        PROVE  /\ Len(s) \in Nat /\ Len(s) > 0 /\ Tail(s) \in Seq(Step)
               /\ Len(Tail(s)) = Len(s) - 1
               /\ \A i \in 1 .. Len(s) - 1 : Tail(s)[i] = s[i + 1]
    <3>1. Len(s) \in Nat /\ Len(s) > 0
      BY <2>2
    <3> QED BY <2>2, <3>1
  <2> QED BY <1>1, <2>1, <2>2
<1>16. Done' = k
  BY <1>6, <1>14, <1>15 DEF Done
<1>17. pc' = (IF k = Len(Steps) THEN "send" ELSE "assemble")
  BY <1>1, <1>6
<1>18. b' = ob
  BY <1>1, <1>4
<1>19. StepsOK'
  <2>1. pc' # "assemble" => todo' = <<>>
    BY <1>1, <1>15
  <2>2. responses' # <<>>
    BY <1>1, <1>3 DEF StepsOK
  <2>3. pc' = "assemble" => k =< 13
    <3>1. \A x \in {13, 14} : \A y \in 1 .. 14 : y =< x /\ y # x => y =< 13
      OBVIOUS
    <3>2. k \in 1 .. 14 /\ k =< Len(Steps) /\ Len(Steps) \in {13, 14}
      BY <1>6
    <3>3. k # Len(Steps) => k =< 13
      BY <3>1, <3>2, Zenon
    <3> QED BY <1>17, <3>3
  <2>4. \A i \in 1 .. Len(todo') : todo'[i] = Steps'[Done' + i]
    <3> SUFFICES ASSUME NEW i \in 1 .. Len(todo') PROVE todo'[i] = Steps[k + i]
      BY <1>14, <1>16
    <3>1. i \in 1 .. Len(todo) - 1 /\ i + 1 \in 1 .. Len(todo) /\ Done + (i + 1) = k + i
      BY <1>6, <1>15
    <3> QED BY <1>1, <1>3, <1>15, <3>1 DEF StepsOK
  <2>5. Len(todo') =< Len(Steps')
    BY <1>1, <1>3, <1>6, <1>14, <1>15 DEF StepsOK
  <2> QED BY <1>12, <1>18, <2>1, <2>2, <2>3, <2>4, <2>5 DEF StepsOK
<1>20. IF k = 10 /\ err_req
         THEN page_size' \in PageSizes /\ promised' = promised + page_size'
         ELSE UNCHANGED <<page_size, promised>>
  <2>1. step.id = "length" <=> k = 10
    <3>1. CASE k =< 13
      <4>1. k \in 1 .. 13
        BY <1>6, <3>1
      <4> QED BY <1>7, <4>1, HeadPieces
    <3>2. CASE k = 14
      BY <1>1, <1>3, <3>2, NextStep DEF Piece
    <3> QED BY <1>6, <3>1, <3>2
  <2> QED BY <1>1, <2>1
<1>21. mem'[ob'].data = mem[ob].data \o bytes
  BY <1>2, <1>11
<1> QED BY <1>1, <1>12, <1>13, <1>14, <1>16, <1>17, <1>18, <1>19, <1>20, <1>21 DEF bytes

\* A step of the head.
LEMMA RoomHeadStep ==
  ASSUME NEW P \in Nat, Inv, RoomInv(P), response_append, Done < 13
  PROVE  UsedOK(P)' /\ OutputOK'
<1> DEFINE k == Done + 1
           id == HeadSteps[k].id
           n == HeadSteps[k].n
           data == mem[ob].data
           R == Len(responses)
<1>1. pc = "assemble" /\ BlocksOK /\ StepsOK /\ UsedOK(P) /\ OutputOK /\ Roomy(P)
  BY DEF RoomInv, response_append
<1>2. /\ R \in Nat /\ R > 0 /\ Done \in 0 .. 13 /\ Len(Steps) \in {13, 14}
      /\ Len(Steps) = 14 <=> responses[R] = "error"
  BY <1>1, NextStep
<1>3. k \in 1 .. 13
  BY <1>2
<1>4. /\ id \in Ids \ {"page"} /\ n \in 1 .. 2
      /\ Before[k] \in 0 .. 13 /\ Before[k + 1] = Before[k] + n /\ Before[k + 1] =< 14
      /\ \A j \in 1 .. n : HeadBytes[Before[k] + j] = id
  BY <1>3, HeadPieces
<1> DEFINE bk == Before[k]
           bn == Before[k + 1]
<1>5. n \in Nat /\ bk \in Nat /\ bn \in Nat /\ bn = bk + n /\ bn =< 14
  BY <1>4
<1>6. /\ UNCHANGED <<responses, AllErrors, Steps, ob>> /\ Done' = k
      /\ pc' = (IF k = Len(Steps) THEN "send" ELSE "assemble")
      /\ mem'[ob].data = data \o Bytes(id, n)
      /\ IF k = 10 /\ err_req
           THEN page_size' \in PageSizes /\ promised' = promised + page_size'
           ELSE UNCHANGED <<page_size, promised>>
  <2>1. k =< 13
    BY <1>3
  <2>2. /\ UNCHANGED <<responses, AllErrors, Steps>> /\ Done' = k
        /\ pc' = (IF k = Len(Steps) THEN "send" ELSE "assemble")
        /\ IF k = 10 /\ err_req
             THEN page_size' \in PageSizes /\ promised' = promised + page_size'
             ELSE UNCHANGED <<page_size, promised>>
    BY AppendStep
  <2>3. ob' = ob /\ mem'[ob'].data = data \o Bytes(id, n)
    BY <2>1, AppendStep
  <2> QED BY <2>2, <2>3
<1>7. /\ data \in Seq(Byte) /\ Len(data) \in Nat /\ page_size \in Nat /\ promised \in Nat
  BY <1>1, OpenFacts
<1>8. Bytes(id, n) \in Seq(Byte) /\ Len(Bytes(id, n)) = n
      /\ \A i \in 1 .. n : Bytes(id, n)[i] = id
  <2>1. id \in Ids /\ n \in Nat
    BY <1>4
  <2> HIDE DEF id, n
  <2> QED BY <2>1, BytesAre
<1> DEFINE new == data \o Bytes(id, n)
<1>9. /\ new \in Seq(Byte) /\ Len(new) = Len(data) + n
      /\ \A i \in 1 .. Len(data) : new[i] = data[i]
      /\ \A i \in 1 .. n : new[Len(data) + i] = id
  <2> DEFINE t == Bytes(id, n)
  <2>1. t \in Seq(Byte) /\ Len(t) = n /\ \A i \in 1 .. n : t[i] = id
    BY <1>8
  <2> HIDE DEF t, data
  <2>2. /\ data \o t \in Seq(Byte) /\ Len(data \o t) = Len(data) + Len(t)
        /\ \A i \in 1 .. Len(data) : (data \o t)[i] = data[i]
        /\ \A i \in 1 .. Len(t) : (data \o t)[Len(data) + i] = t[i]
    BY <1>7, <2>1
  <2> QED BY <2>1, <2>2, Zenon DEF t
<1>10. Pages(new) = Pages(data) /\ Pages(data) \in Nat
  <2>1. id \in Ids /\ id # "page" /\ n \in Nat
    BY <1>4, <1>5
  <2> HIDE DEF id, n, data
  <2>2. Pages(data) \in Nat /\ Pages(data \o Bytes(id, n)) = Pages(data) + 0
    BY <1>7, <2>1, PagesGrow
  <2> QED BY <2>2
<1>11. /\ Base(P) \in Nat /\ Base(P) + (P + 14) = R * (P + 14)
       /\ Len(data) =< Base(P) + Before[k]
  BY <1>1, NextRoom
<1>12. mem'[ob'].data = new /\ Cardinality(PageBytes) = Pages(data)
       /\ Cardinality(PageBytes)' = Pages(new)
  BY <1>6 DEF PageBytes, Pages
<1>13. page_size' \in Nat /\ page_size' =< P
  BY <1>1, <1>6, <1>7, BuffersAssumption DEF UsedOK, Roomy
<1> HIDE DEF new
<1>14. pc' = "send" => k = 13 /\ responses[R] # "error"
  <2>1. \A x \in {13, 14} : \A y \in 1 .. 13 : y = x => y = 13 /\ x # 14
    OBVIOUS
  <2>2. k = Len(Steps) => k = 13 /\ Len(Steps) # 14
    BY <1>2, <1>3, <2>1, Zenon
  <2> QED BY <1>2, <1>6, <2>2
<1>15. Len(new) =< Base(P) + Before[k + 1]
  <2>1. Len(new) = Len(data) + n /\ Len(data) =< Base(P) + bk /\ Base(P) \in Nat
    BY <1>9, <1>11
  <2> HIDE DEF n, data, bk, bn
  <2>2. Len(new) =< Base(P) + bn
    BY <1>5, <1>7, <2>1
  <2> QED BY <2>2 DEF bn
<1>16. UsedOK(P)'
  <2>1. Base(P)' = Base(P)
    BY <1>6 DEF Base
  <2>2. pc' = "send" => Len(new) =< R * (P + 14)
    <3>1. Len(new) \in Nat
      BY <1>9
    <3>2. Len(new) =< Base(P) + bn /\ Base(P) + (P + 14) = R * (P + 14) /\ Base(P) \in Nat
      BY <1>11, <1>15
    <3> HIDE DEF bn, R
    <3>3. Base(P) + bn =< Base(P) + (P + 14)
      BY <1>5, <3>2
    <3> QED BY <1>5, <3>1, <3>2, <3>3
  <2>3. pc' = "assemble" => Len(new) =< Base(P) + Before[Done' + 1]
    BY <1>6, <1>15
  <2> QED BY <1>6, <1>12, <1>13, <2>1, <2>2, <2>3 DEF UsedOK, Base
<1>17. \A i \in 1 .. R - 1 : responses[i] = "error"
  BY <1>1 DEF OutputOK
<1>18. IF R = 1 THEN Len(data) = Before[k] ELSE Len(data) >= 14
  BY <1>1 DEF OutputOK
<1>19. \A i \in 1 .. 14 : i =< Len(new) => new[i] = HeadBytes[i]
  <2> SUFFICES ASSUME NEW i \in 1 .. 14, i =< Len(new) PROVE new[i] = HeadBytes[i]
    OBVIOUS
  <2>1. CASE i =< Len(data)
    <3>1. data[i] = HeadBytes[i]
      BY <1>1, <2>1 DEF OutputOK
    <3>2. i \in 1 .. Len(data)
      BY <1>7, <2>1
    <3> QED BY <1>9, <3>1, <3>2
  <2>2. CASE i > Len(data)
    <3>1. R = 1 /\ Len(data) = Before[k]
      BY <1>7, <1>18, <2>2
    <3> DEFINE j == i - Len(data)
    <3>2. j \in 1 .. n /\ Len(data) + j = i /\ Before[k] + j = i
      BY <1>4, <1>7, <1>9, <2>2, <3>1
    <3> QED BY <1>4, <1>9, <3>2
  <2> QED BY <1>7, <2>1, <2>2
<1>20. AllErrors => err_req
  BY <1>2 DEF AllErrors, err_req, Range
<1>21. R = 1 /\ ~AllErrors => ~err_req
  <2> SUFFICES ASSUME R = 1, err_req PROVE AllErrors
    OBVIOUS
  <2>1. PICK i \in DOMAIN responses : responses[i] = "error"
    BY DEF err_req, Range
  <2>2. DOMAIN responses = 1 .. R
    BY <1>1, OpenFacts
  <2>3. i = 1
    BY <2>1, <2>2
  <2> QED BY <2>1, <2>3 DEF AllErrors
<1> DEFINE due == IF Done >= 10 THEN page_size ELSE 0
           due2 == IF k >= 10 THEN page_size' ELSE 0
<1>22. /\ AllErrors => Pages(data) + due = promised
       /\ R = 1 => promised = IF AllErrors THEN due ELSE 0
  BY <1>1, <1>12 DEF OutputOK
<1>23. /\ AllErrors => Pages(new) + due2 = promised'
       /\ R = 1 => promised' = IF AllErrors THEN due2 ELSE 0
  <2>1. CASE k = 10
    <3>1. due = 0 /\ due2 = page_size'
      BY <1>2, <2>1
    <3>2. AllErrors => promised' = promised + page_size'
      BY <1>6, <1>20, <2>1
    <3>3. R = 1 /\ ~AllErrors => promised' = promised
      BY <1>6, <1>21, <2>1
    <3> HIDE DEF due, due2
    <3> QED BY <1>7, <1>10, <1>13, <1>22, <3>1, <3>2, <3>3
  <2>2. CASE k # 10
    <3>1. page_size' = page_size /\ promised' = promised
      BY <1>6, <2>2
    <3>2. Done >= 10 <=> k >= 10
      BY <1>2, <2>2
    <3>3. due = due2
      BY <3>1, <3>2
    <3> HIDE DEF due, due2
    <3> QED BY <1>10, <1>22, <3>1, <3>3
  <2> QED BY <2>1, <2>2
<1>24. CASE pc' = "assemble"
  <2>1. IF R = 1 THEN Len(new) = Before[Done' + 1] ELSE Len(new) >= 14
    BY <1>4, <1>6, <1>7, <1>9, <1>18
  <2>2. (IF Done' >= 10 THEN page_size' ELSE 0) = due2
    BY <1>6
  <2>3. AllErrors' = AllErrors /\ Len(responses') = R /\ responses' = responses
        /\ Len(mem'[ob'].data) = Len(new)
    BY <1>6, <1>12
  <2>4. \A i \in 1 .. 14 : i =< Len(mem'[ob'].data) => mem'[ob'].data[i] = HeadBytes[i]
    BY <1>12, <1>19
  <2>5. \A i \in 1 .. Len(responses') - 1 : responses'[i] = "error"
    BY <1>17, <2>3
  <2>6. /\ IF Len(responses') = 1 THEN Len(mem'[ob'].data) = Before[Done' + 1]
           ELSE Len(mem'[ob'].data) >= 14
        /\ AllErrors' => Cardinality(PageBytes)' + (IF Done' >= 10 THEN page_size' ELSE 0) = promised'
        /\ Len(responses') = 1 =>
             promised' = IF AllErrors' THEN (IF Done' >= 10 THEN page_size' ELSE 0) ELSE 0
    <3> HIDE DEF due, due2, data, R
    <3> QED BY <1>12, <1>23, <2>1, <2>2, <2>3
  <2>7. pc' # "send"
    BY <1>24
  <2> QED BY <1>16, <1>24, <2>4, <2>5, <2>6, <2>7, Zenon DEF OutputOK
<1>25. CASE pc' = "send"
  <2>1. ~AllErrors
    BY <1>2, <1>14, <1>25 DEF AllErrors
  <2>2. Len(new) >= 14 /\ (R = 1 => Len(new) = 14 + promised' /\ promised' = 0)
    <3>1. Before[k + 1] = 14
      BY <1>14, <1>25 DEF Before
    <3> QED BY <1>4, <1>7, <1>9, <1>18, <1>23, <2>1, <3>1
  <2>3. ~AllErrors'
    BY <1>6, <2>1
  <2>4. Len(responses') = R /\ responses' = responses /\ Len(mem'[ob'].data) = Len(new)
    BY <1>6, <1>12
  <2>5. \A i \in 1 .. 14 : i =< Len(mem'[ob'].data) => mem'[ob'].data[i] = HeadBytes[i]
    BY <1>12, <1>19
  <2>6. \A i \in 1 .. Len(responses') - 1 : responses'[i] = "error"
    BY <1>17, <2>4
  <2>7. pc' # "assemble"
    BY <1>25
  <2>8. /\ Len(mem'[ob'].data) >= 14
        /\ Len(responses') = 1 => Len(mem'[ob'].data) = 14 + promised' /\ promised' = 0
    BY <2>2, <2>4
  <2> QED BY <1>16, <1>25, <2>3, <2>5, <2>6, <2>7, <2>8, Zenon DEF OutputOK
<1> QED BY <1>6, <1>16, <1>24, <1>25

\* The page, the last step of an error response.
LEMMA RoomPageStep ==
  ASSUME NEW P \in Nat, Inv, RoomInv(P), response_append, Done = 13
  PROVE  UsedOK(P)' /\ OutputOK'
<1> DEFINE data == mem[ob].data
           R == Len(responses)
           t == Bytes("page", page_size)
           new == data \o t
<1>1. pc = "assemble" /\ BlocksOK /\ StepsOK /\ UsedOK(P) /\ OutputOK /\ Roomy(P)
  BY DEF RoomInv, response_append
<1>2. /\ R \in Nat /\ R > 0 /\ Len(Steps) \in {13, 14} /\ Done < Len(Steps)
      /\ Len(Steps) = 14 <=> responses[R] = "error"
  BY <1>1, NextStep
<1>3. Len(Steps) = 14 /\ responses[R] = "error"
  <2>1. \A x \in {13, 14} : 13 < x => x = 14
    OBVIOUS
  <2>2. 13 < Len(Steps) /\ Len(Steps) \in {13, 14}
    BY <1>2
  <2>3. Len(Steps) = 14
    BY <2>1, <2>2, Zenon
  <2> QED BY <1>2, <2>3
<1>4. AllErrors
  <2>1. \A i \in 1 .. R - 1 : responses[i] = "error"
    BY <1>1 DEF OutputOK
  <2>2. \A i \in 1 .. R : i \in 1 .. R - 1 \/ i = R
    BY <1>2
  <2> QED BY <1>3, <2>1, <2>2 DEF AllErrors
<1>5. /\ UNCHANGED <<responses, AllErrors, page_size, promised>>
      /\ pc' = "send" /\ mem'[ob'].data = new
  <2>1. ~(Done + 1 =< 13) /\ Done + 1 # 10 /\ Done + 1 = Len(Steps)
    BY <1>3
  <2> QED BY <2>1, AppendStep
<1>6. data \in Seq(Byte) /\ Len(data) \in Nat /\ page_size \in Nat /\ promised \in Nat
  BY <1>1, OpenFacts
<1>7. t \in Seq(Byte) /\ Len(t) = page_size
  BY <1>6, BytesAre DEF Ids
<1>8. Pages(new) = Pages(data) + page_size /\ Pages(data) \in Nat
  <2>1. "page" \in Ids
    BY DEF Ids
  <2> HIDE DEF data
  <2> QED BY <1>6, <2>1, PagesGrow
<1> HIDE DEF t
<1>9. Len(new) = Len(data) + page_size /\ \A i \in 1 .. Len(data) : new[i] = data[i]
  <2> HIDE DEF data
  <2>1. /\ Len(data \o t) = Len(data) + Len(t)
        /\ \A i \in 1 .. Len(data) : (data \o t)[i] = data[i]
    BY <1>6, <1>7
  <2> QED BY <1>7, <2>1, Zenon
<1>10. Cardinality(PageBytes) = Pages(data) /\ Cardinality(PageBytes)' = Pages(new)
  BY <1>5 DEF PageBytes, Pages
<1>11. Before[Done + 1] = 14
  BY DEF Before
<1>12. /\ Base(P) \in Nat /\ Base(P) + (P + 14) = R * (P + 14)
       /\ Len(data) =< Base(P) + 14 /\ page_size =< P
  BY <1>1, <1>11, NextRoom DEF UsedOK
<1> HIDE DEF new
<1>13. UsedOK(P)'
  <2>1. Len(new) =< R * (P + 14)
    <3> HIDE DEF R, data
    <3> QED BY <1>6, <1>9, <1>12
  <2>2. pc' # "assemble" /\ Len(mem'[ob'].data) = Len(new) /\ Len(responses') = R
        /\ page_size' = page_size
    BY <1>5
  <2> QED BY <1>12, <2>1, <2>2 DEF UsedOK
<1>14. /\ IF R = 1 THEN Len(data) = 14 ELSE Len(data) >= 14
       /\ Pages(data) + page_size = promised
       /\ R = 1 => promised = page_size
  <2>1. Done >= 10
    OBVIOUS
  <2> QED BY <1>1, <1>4, <1>10, <1>11, <2>1 DEF OutputOK
<1>15. Len(data) >= 14
  <2>1. Len(data) = 14 \/ Len(data) >= 14
    BY <1>14
  <2>2. 14 >= 14
    OBVIOUS
  <2> QED BY <2>1, <2>2, Zenon
<1>16. \A i \in 1 .. 14 : i =< Len(new) => new[i] = HeadBytes[i]
  <2> SUFFICES ASSUME NEW i \in 1 .. 14 PROVE new[i] = HeadBytes[i]
    OBVIOUS
  <2>1. i \in 1 .. Len(data) /\ i =< Len(data)
    BY <1>6, <1>15
  <2> QED BY <1>1, <1>9, <2>1 DEF OutputOK
<1>17. \A i \in 1 .. Len(responses') - 1 : responses'[i] = "error"
  BY <1>1, <1>5 DEF OutputOK
<1>18. /\ Len(mem'[ob'].data) >= 14 /\ Cardinality(PageBytes)' = promised'
       /\ Len(responses') = 1 => Len(mem'[ob'].data) = 14 + promised'
       /\ AllErrors' /\ pc' = "send" /\ pc' # "assemble"
  <2> HIDE DEF data, R
  <2>1. Len(new) >= 14 /\ Pages(new) = promised /\ (R = 1 => Len(new) = 14 + promised)
    BY <1>6, <1>8, <1>9, <1>14, <1>15
  <2> QED BY <1>4, <1>5, <1>10, <2>1 DEF R
<1>19. \A i \in 1 .. 14 : i =< Len(mem'[ob'].data) => mem'[ob'].data[i] = HeadBytes[i]
  BY <1>5, <1>16
<1>20. OutputOK'
  BY <1>17, <1>18, <1>19, Zenon DEF OutputOK
<1> QED BY <1>13, <1>20

LEMMA RoomNext ==
  ASSUME NEW P \in Nat
  PROVE  Inv /\ RoomInv(P) /\ [Next]_vars => RoomInv(P)'
<1> SUFFICES ASSUME Inv, RoomInv(P), [Next]_vars PROVE RoomInv(P)'
  OBVIOUS
<1>1. CASE response_assemble_buffer
  BY <1>1, RoomAssembles DEF response_assemble_buffer
<1>2. CASE response_assemble_err_buffer
  BY <1>2, RoomAssembles DEF response_assemble_err_buffer
<1>3. CASE response_append
  <2>1. BlocksOK' /\ StepsOK' /\ Roomy(P)
    BY <1>3, AppendStep DEF RoomInv
  <2>2. Done < 13 \/ Done = 13
    <3>1. Done \in 0 .. 13
      BY <1>3, NextStep DEF RoomInv, response_append
    <3> QED BY <3>1
  <2>3. UsedOK(P)' /\ OutputOK'
    BY <1>3, <2>2, RoomHeadStep, RoomPageStep
  <2> QED BY <2>1, <2>3 DEF RoomInv, Roomy
<1> QED BY <1>1, <1>2, <1>3, RoomOpens, RoomReceives, RoomResets, RoomCloses, RoomStutters
        DEF Next

LEMMA RoomAlways ==
  ASSUME NEW P \in Nat, Roomy(P)
  PROVE  Spec => []RoomInv(P)
BY RoomInit, RoomNext, InvAlways, PTL DEF Spec

\* Where the requests and the responses are of the size BUFSIZ was chosen for,
\* every block is owned by r->ib or r->ob, none is lost when connection_free
\* runs, and the pointers of the parser stay inside r->ib.
THEOREM BuffersStayOwned ==
  ASSUME NEW P \in Nat, Roomy(P)
  PROVE  Spec => []BuffersOwned
<1>1. RoomInv(P) => BuffersOwned
  BY DEF RoomInv, BlocksOK
<1> QED BY <1>1, RoomAlways, PTL

\* Under the same condition no response_append function goes on with a copy of
\* r->ob that buffer_cat has made stale, also when the last page makes it move.
THEOREM LocalCopyIsCurrent ==
  ASSUME NEW P \in Nat, Roomy(P)
  PROVE  Spec => []LocalCurrent
<1>1. Inv /\ RoomInv(P) => LocalCurrent
  <2> SUFFICES ASSUME Inv, RoomInv(P), todo # <<>>, Head(todo).to = "b" PROVE b = ob
    BY DEF LocalCurrent
  <2>1. BlocksOK /\ StepsOK
    BY DEF RoomInv
  <2>2. pc = "assemble"
    BY <2>1 DEF StepsOK
  <2> QED BY <2>1, <2>2, NextStep
<1> QED BY <1>1, RoomAlways, InvAlways, PTL

\* Under the same condition the parser sees all bytes of the current request, in
\* order, and nothing of the one before it.
THEOREM InputStaysWhole ==
  ASSUME NEW P \in Nat, Roomy(P)
  PROVE  Spec => []InputWhole
<1>1. RoomInv(P) => InputWhole
  BY DEF RoomInv, BlocksOK
<1> QED BY <1>1, RoomAlways, PTL

\* Under the same condition a response is sent with its whole head, and with as
\* many bytes of error page as its Content-Length announces: strftime always has
\* room for the date, and no page is cut.
THEOREM ResponsesAreWhole ==
  ASSUME NEW P \in Nat, Roomy(P)
  PROVE  Spec => []ResponseWhole
<1>1. Inv /\ RoomInv(P) => ResponseWhole
  <2> SUFFICES ASSUME Inv, RoomInv(P), pc = "send"
               PROVE  /\ OutputHead = HeadBytes
                      /\ "file" \notin Range(Tail(responses)) => Cardinality(PageBytes) = promised
                      /\ Len(responses) = 1 => Len(mem[ob].data) = Len(HeadBytes) + promised
    BY DEF ResponseWhole
  <2> DEFINE data == mem[ob].data
  <2>1. BlocksOK /\ StepsOK /\ OutputOK
    BY DEF RoomInv
  <2>2. /\ data \in Seq(Byte) /\ Len(data) \in Nat /\ Len(data) >= 14
        /\ responses \in Seq({"file", "error"}) /\ responses # <<>>
    BY <2>1, OpenFacts DEF OutputOK, StepsOK
  <2>3. Len(HeadBytes) = 14 /\ HeadBytes \in Seq(Byte)
    BY DEF HeadBytes, Byte, Ids
  <2>4. \A i \in 1 .. 14 : data[i] = HeadBytes[i]
    <3> SUFFICES ASSUME NEW i \in 1 .. 14 PROVE data[i] = HeadBytes[i]
      OBVIOUS
    <3>1. i =< Len(data)
      BY <2>2
    <3> QED BY <2>1, <3>1 DEF OutputOK
  <2> HIDE DEF data
  <2>5. SubSeq(data, 1, 14) = HeadBytes
    <3> DEFINE s == SubSeq(data, 1, 14)
               h == HeadBytes
    <3>1. s \in Seq(Byte) /\ Len(s) = 14 /\ \A i \in 1 .. 14 : s[i] = data[i]
      BY <2>2
    <3>2. h \in Seq(Byte) /\ Len(h) = 14 /\ \A i \in 1 .. 14 : s[i] = h[i]
      BY <2>3, <2>4, <3>1
    <3> HIDE DEF s, h
    <3>3. s = h
      BY <3>1, <3>2
    <3> QED BY <3>3 DEF s, h
  <2>6. OutputHead = HeadBytes
    BY <2>3, <2>5 DEF OutputHead, data
  <2>7. "file" \notin Range(Tail(responses)) => Cardinality(PageBytes) = promised
    <3> SUFFICES ASSUME "file" \notin Range(Tail(responses))
                 PROVE  Cardinality(PageBytes) = promised
      OBVIOUS
    <3>1. CASE AllErrors
      BY <2>1, <3>1 DEF OutputOK
    <3>2. CASE ~AllErrors
      <4>1. Len(responses) \in Nat /\ Len(responses) > 0
        BY <2>2
      <4>2. PICK i \in 1 .. Len(responses) : responses[i] # "error"
        BY <3>2 DEF AllErrors
      <4>3. responses[i] = "file"
        BY <2>2, <4>2
      <4>4. i = Len(responses)
        BY <2>1, <4>1, <4>2 DEF OutputOK
      <4>5. i = 1
        <5> SUFFICES ASSUME i > 1 PROVE FALSE
          BY <4>1
        <5>1. /\ Tail(responses) \in Seq({"file", "error"})
              /\ Len(Tail(responses)) = Len(responses) - 1
              /\ i - 1 \in 1 .. Len(responses) - 1
              /\ \A j \in 1 .. Len(responses) - 1 : Tail(responses)[j] = responses[j + 1]
          BY <2>2, <4>1
        <5>2. i - 1 \in DOMAIN Tail(responses) /\ Tail(responses)[i - 1] = "file"
          BY <4>3, <5>1
        <5> QED BY <5>2 DEF Range
      <4>6. Len(responses) = 1 /\ promised = 0 /\ Len(data) = 14
        BY <2>1, <3>2, <4>4, <4>5 DEF OutputOK, data
      <4>7. \A j \in 1 .. 14 : HeadBytes[j] # "page"
        <5> SUFFICES ASSUME NEW j \in 1 .. 14 PROVE HeadBytes[j] # "page"
          OBVIOUS
        <5>1. j \in {1, 2, 3, 4, 5, 6, 7, 8, 9, 10, 11, 12, 13, 14}
          OBVIOUS
        <5> QED BY <5>1 DEF HeadBytes
      <4>8. PageBytes = {}
        <5>1. DOMAIN data = 1 .. 14
          BY <2>2, <4>6
        <5> QED BY <2>4, <4>7, <5>1 DEF PageBytes, data
      <4> QED BY <4>6, <4>8, FS_EmptySet
    <3> QED BY <3>1, <3>2
  <2>8. Len(responses) = 1 => Len(mem[ob].data) = Len(HeadBytes) + promised
    BY <2>1, <2>3 DEF OutputOK
  <2> QED BY <2>6, <2>7, <2>8
<1> QED BY <1>1, RoomAlways, InvAlways, PTL
=============================================================================
