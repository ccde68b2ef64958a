----------------------------- MODULE HttpParser -----------------------------
(***************************************************************************)
(* http_parser.c under the loop of request_handle: the bytes of one        *)
(* request arrive in pieces, and after each piece the parser runs to the   *)
(* end of the buffer, returns AGAIN and goes on later from the state kept  *)
(* in parse_archive.                                                       *)
(*                                                                         *)
(* The two switch statements over state and character are the transition   *)
(* tables RequestLineFSM and HeaderFSM; an action takes one character.     *)
(* Pointers into the buffer are positions in the stream of bytes, NULL is  *)
(* 0, and a string is the pair of its first position and the one after its *)
(* last.  A byte is a one-character string; Chars has a few of each class. *)
(*                                                                         *)
(* The buffer never moves: the request fits the BUFSIZ bytes it starts     *)
(* with.                                                                   *)
(***************************************************************************)
EXTENDS Integers, Sequences, SequencesExt

CONSTANT Inputs  \* the byte streams clients may send

SP == " "
TAB == "\t"
CR == "\r"
LF == "\n"
Alpha == {"A", "D", "E", "G", "H", "L", "O", "P", "S", "T", "U", "X",
          "a", "d", "e", "g", "h", "l", "o", "p", "s", "t", "u", "x"}
Digit == {"0", "1", "2"}
Blank == {SP, TAB}
Name  == Alpha \cup Digit \cup {"-"}
Chars == Name \cup Blank \cup {CR, LF, "/", "?", ".", ":"}
Text  == Chars \ {CR, LF}

DigitValue(ch) == CASE ch = "0" -> 0 [] ch = "1" -> 1 [] OTHER -> 2

Methods == { <<"G", "E", "T">>, <<"P", "U", "T">>, <<"P", "O", "S", "T">>,
             <<"H", "E", "A", "D">>, <<"D", "E", "L", "E", "T", "E">> }

ASSUME InputsAssumption == Inputs \subseteq Seq(Chars)

VARIABLES
  stream,          \* what the client sends
  received,        \* how much of it request_recv has put into the buffer
  next_parse_pos,  \* p: the next byte to look at
  state,           \* ar->state
  rl,              \* parse_archive: what is known of the request line
  hd,              \* parse_archive: what is known of the header line
  line_begin,      \* where the line being parsed begins
  phase,           \* "line", "headers", "done" or "rejected"
  running,         \* a parse function is executing
  result           \* what it returned last

vars == <<stream, received, next_parse_pos, state, rl, hd, line_begin, phase,
          running, result>>

Unset == <<0, 0>>

parse_archive_init ==
  /\ rl = [method_begin |-> 0, url_begin |-> 0, http_major |-> 0, http_minor |-> 0,
           abs_path |-> Unset, query_string |-> Unset, mime_extension |-> Unset]
  /\ hd = [line_begin |-> 0, colon_pos |-> 0, val_begin |-> 0, val_end |-> 0,
           isCRLF_LINE |-> TRUE, name |-> Unset, value |-> Unset]
  /\ state = "RL_BEGIN"
  /\ next_parse_pos = 1

Init ==
  /\ stream \in Inputs
  /\ received = 0
  /\ parse_archive_init
  /\ line_begin = 1
  /\ phase = "line"
  /\ running = FALSE
  /\ result = "AGAIN"

-----------------------------------------------------------------------------
\* Mutated forms, here and below, are plausible mistakes in the definition that
\* follows them.  No specification uses them: they show that the properties
\* notice the mistake.

\* Mutant: the terminating NUL of the buffer is counted.
request_recv_counts_nul(n) ==
  /\ ~running
  /\ phase \in {"line", "headers"}
  /\ received + n =< Len(stream)
  /\ received' = received + n + 1
  /\ running' = TRUE
  /\ UNCHANGED <<stream, next_parse_pos, state, rl, hd, line_begin, phase, result>>

\* request_recv: any number of bytes, at least one.
request_recv(n) ==
  /\ ~running
  /\ phase \in {"line", "headers"}
  /\ received' = received + n
  /\ received' =< Len(stream)
  /\ running' = TRUE
  /\ UNCHANGED <<stream, next_parse_pos, state, rl, hd, line_begin, phase, result>>

ch == stream[next_parse_pos]

Edges(fsm) == {e \in fsm : e.from = state /\ ch \in e.on}

Edge(from, on, to) == [from |-> from, on |-> on, to |-> to]

\* Mutant: isCRLF_LINE is a local variable of parse_header_line.
Again_forgets_line_kind == [hd EXCEPT !.isCRLF_LINE = TRUE]

\* What a call that returns AGAIN leaves for the next: everything.
Again == hd

parse_again ==
  /\ running
  /\ phase \in {"line", "headers"}
  /\ next_parse_pos = received + 1
  /\ running' = FALSE
  /\ result' = "AGAIN"
  /\ hd' = Again
  /\ UNCHANGED <<stream, received, next_parse_pos, state, rl, line_begin, phase>>

\* A parse function returns INVALID_REQUEST.
Reject ==
  /\ phase' = "rejected"
  /\ running' = FALSE
  /\ result' = "INVALID_REQUEST"
  /\ UNCHANGED <<stream, received, next_parse_pos, state, line_begin>>

\* The for loop goes on in state s.
Continue(s) ==
  /\ state' = s
  /\ next_parse_pos' = next_parse_pos + 1
  /\ UNCHANGED <<stream, received, line_begin, phase, running, result>>

\* A line is complete: the parse function returns status.
Complete(status) ==
  /\ state' = "HD_BEGIN"
  /\ next_parse_pos' = next_parse_pos + 1
  /\ line_begin' = next_parse_pos + 1
  /\ phase' = IF status = "CRLF_LINE" THEN "done" ELSE "headers"
  /\ running' = (status # "CRLF_LINE")
  /\ result' = status
  /\ UNCHANGED <<stream, received>>

-----------------------------------------------------------------------------
(* parse_request_line.                                                     *)

RequestLineFSM == {
  Edge("RL_BEGIN", Alpha, "RL_METHOD"),
  Edge("RL_METHOD", Alpha, "RL_METHOD"),
  Edge("RL_METHOD", {SP}, "RL_SP_BEFORE_URL"),
  Edge("RL_SP_BEFORE_URL", Blank, "RL_SP_BEFORE_URL"),
  Edge("RL_SP_BEFORE_URL", Text \ Blank, "RL_URL"),
  Edge("RL_URL", Blank, "RL_SP_BEFORE_VERSION"),
  Edge("RL_URL", Text \ Blank, "RL_URL"),
  Edge("RL_SP_BEFORE_VERSION", Blank, "RL_SP_BEFORE_VERSION"),
  Edge("RL_SP_BEFORE_VERSION", {"H", "h"}, "RL_VERSION_H"),
  Edge("RL_VERSION_H", {"T", "t"}, "RL_VERSION_HT"),
  Edge("RL_VERSION_HT", {"T", "t"}, "RL_VERSION_HTT"),
  Edge("RL_VERSION_HTT", {"P", "p"}, "RL_VERSION_HTTP"),
  Edge("RL_VERSION_HTTP", {"/"}, "RL_VERSION_HTTP_SLASH"),
  Edge("RL_VERSION_HTTP_SLASH", Digit, "RL_VERSION_MAJOR"),
  Edge("RL_VERSION_MAJOR", Digit, "RL_VERSION_MAJOR"),
  Edge("RL_VERSION_MAJOR", {"."}, "RL_VERSION_DOT"),
  Edge("RL_VERSION_DOT", Digit, "RL_VERSION_MINOR"),
  Edge("RL_VERSION_MINOR", Digit, "RL_VERSION_MINOR"),
  Edge("RL_VERSION_MINOR", {CR}, "RL_CR_AFTER_VERSION"),
  Edge("RL_CR_AFTER_VERSION", {LF}, "RL_LF_AFTER_VERSION") }

\* Mutant: a method is compared as far as it goes.
parse_method_prefix(begin, end) ==
  \E m \in Methods : IsPrefix(SubSeq(stream, begin, end - 1), m)

parse_method(begin, end) == SubSeq(stream, begin, end - 1) \in Methods

\* Mutant: the query begins at the question mark.
parse_url_keeps_mark(begin, end) ==
  LET q == SelectInSubSeq(stream, begin, end - 1, LAMBDA c : c = "?")
      path_end == IF q # 0 THEN q ELSE end
  IN [rl EXCEPT !.abs_path = <<begin, path_end>>, !.query_string = <<path_end, end>>]

\* The part of the URL before "?" and the part behind it.  Only a space ends
\* them; the extension is what follows the last dot of the last component.
parse_url(begin, end) ==
  LET q == SelectInSubSeq(stream, begin, end - 1, LAMBDA c : c = "?")
      closed == stream[end] = SP
      path == IF q # 0 THEN <<begin, q>>
              ELSE IF closed THEN <<begin, end>> ELSE rl.abs_path
      query == IF ~closed THEN rl.query_string
               ELSE IF q # 0 THEN <<q + 1, end>> ELSE <<end, end>>
      dot == SelectLastInSubSeq(stream, path[1] + 1, path[2] - 1,
                                LAMBDA c : c \in {".", "/"})
  IN [rl EXCEPT !.abs_path = path, !.query_string = query,
                !.mime_extension = IF dot # 0 /\ stream[dot] = "."
                                     THEN <<dot + 1, path[2]>> ELSE @]

EndsMethod(e) == e.from = "RL_METHOD" /\ e.to = "RL_SP_BEFORE_URL"
EndsUrl(e) == e.from = "RL_URL" /\ e.to = "RL_SP_BEFORE_VERSION"
UrlIsAbsolute == stream[rl.url_begin] = "/"

\* What the code does on edge e besides moving to e.to.
OnRequestLine(e) ==
  CASE e.from = "RL_BEGIN" -> [rl EXCEPT !.method_begin = next_parse_pos]
    [] e.from = "RL_SP_BEFORE_URL" /\ e.to = "RL_URL" ->
         [rl EXCEPT !.url_begin = next_parse_pos]
    [] EndsUrl(e) /\ UrlIsAbsolute -> parse_url(rl.url_begin, next_parse_pos)
    [] e.to = "RL_VERSION_MAJOR" ->
         [rl EXCEPT !.http_major = @ * 10 + DigitValue(ch)]
    [] e.to = "RL_VERSION_MINOR" ->
         [rl EXCEPT !.http_minor = @ * 10 + DigitValue(ch)]
    [] OTHER -> rl

\* Edges the code refuses after looking further: an unknown method, a URL that
\* is not an absolute path, a version above 1 once it has two digits.
Refuses(e) ==
  \/ EndsMethod(e) /\ ~parse_method(rl.method_begin, next_parse_pos)
  \/ EndsUrl(e) /\ ~UrlIsAbsolute
  \/ e.from = "RL_VERSION_MAJOR" /\ ch \in Digit /\ OnRequestLine(e).http_major > 1
  \/ e.from = "RL_VERSION_MINOR" /\ ch \in Digit /\ OnRequestLine(e).http_minor > 1

parse_request_line ==
  /\ running
  /\ phase = "line"
  /\ next_parse_pos =< received
  /\ \/ /\ Edges(RequestLineFSM) = {}
        /\ Reject
        /\ UNCHANGED rl
     \/ \E e \in Edges(RequestLineFSM) :
          /\ rl' = OnRequestLine(e)
          /\ \/ Refuses(e) /\ Reject
             \/ ~Refuses(e) /\ e.to # "RL_LF_AFTER_VERSION" /\ Continue(e.to)
             \/ e.to = "RL_LF_AFTER_VERSION" /\ Complete("OK")
  /\ UNCHANGED hd

-----------------------------------------------------------------------------
(* parse_header_line.                                                      *)

\* The state HD_LF_AFTER_VAL, reached by a line feed inside a value, has no case
\* in the switch: the rest of the buffer is skipped.
HeaderFSM == {
  Edge("HD_BEGIN", Name, "HD_NAME"),
  Edge("HD_BEGIN", {CR}, "HD_CR_AFTER_VAL"),
  Edge("HD_BEGIN", Blank, "HD_BEGIN"),
  Edge("HD_NAME", Name, "HD_NAME"),
  Edge("HD_NAME", {":"}, "HD_COLON"),
  Edge("HD_COLON", Blank, "HD_SP_BEFORE_VAL"),
  Edge("HD_COLON", Text \ Blank, "HD_VAL"),
  Edge("HD_SP_BEFORE_VAL", Blank, "HD_SP_BEFORE_VAL"),
  Edge("HD_SP_BEFORE_VAL", Text \ Blank, "HD_VAL"),
  Edge("HD_VAL", {CR}, "HD_CR_AFTER_VAL"),
  Edge("HD_VAL", {LF}, "HD_LF_AFTER_VAL"),
  Edge("HD_VAL", Text, "HD_VAL"),
  Edge("HD_CR_AFTER_VAL", {LF}, "HD_LF_AFTER_VAL"),
  Edge("HD_LF_AFTER_VAL", Chars, "HD_LF_AFTER_VAL") }

\* Mutant: the end of the value is not recorded.
OnHeader_no_val_end(e) ==
  CASE e.from = "HD_BEGIN" /\ e.to = "HD_NAME" ->
         [hd EXCEPT !.line_begin = next_parse_pos, !.isCRLF_LINE = FALSE]
    [] e.from = "HD_BEGIN" /\ e.to = "HD_CR_AFTER_VAL" ->
         [hd EXCEPT !.isCRLF_LINE = TRUE]
    [] e.to = "HD_COLON" -> [hd EXCEPT !.colon_pos = next_parse_pos]
    [] e.from # "HD_VAL" /\ e.to = "HD_VAL" ->
         [hd EXCEPT !.val_begin = next_parse_pos]
    [] OTHER -> hd

\* What the code does on edge e besides moving to e.to.
OnHeader(e) ==
  CASE e.from = "HD_BEGIN" /\ e.to = "HD_NAME" ->
         [hd EXCEPT !.line_begin = next_parse_pos, !.isCRLF_LINE = FALSE]
    [] e.from = "HD_BEGIN" /\ e.to = "HD_CR_AFTER_VAL" ->
         [hd EXCEPT !.isCRLF_LINE = TRUE]
    [] e.to = "HD_COLON" -> [hd EXCEPT !.colon_pos = next_parse_pos]
    [] e.from # "HD_VAL" /\ e.to = "HD_VAL" ->
         [hd EXCEPT !.val_begin = next_parse_pos]
    [] e.from = "HD_VAL" /\ e.to = "HD_CR_AFTER_VAL" ->
         [hd EXCEPT !.val_end = next_parse_pos]
    [] OTHER -> hd

\* The two HEADER_SET at the end of a line: header[0] and header[1].
HEADER_SET == [hd EXCEPT !.name = <<hd.line_begin, hd.colon_pos>>,
                         !.value = <<hd.val_begin, hd.val_end>>]

parse_header_line ==
  /\ running
  /\ phase = "headers"
  /\ next_parse_pos =< received
  /\ \/ /\ Edges(HeaderFSM) = {}
        /\ Reject
        /\ UNCHANGED hd
     \/ \E e \in Edges(HeaderFSM) :
          \/ /\ e.from # "HD_CR_AFTER_VAL"
             /\ hd' = OnHeader(e)
             /\ Continue(e.to)
          \/ /\ e.from = "HD_CR_AFTER_VAL"
             /\ hd' = HEADER_SET
             /\ Complete(IF hd.isCRLF_LINE THEN "CRLF_LINE" ELSE "OK")
  /\ UNCHANGED rl

-----------------------------------------------------------------------------
Next ==
  \/ \E n \in 1 .. Len(stream) : request_recv(n)
  \/ parse_again
  \/ parse_request_line
  \/ parse_header_line

Spec == Init /\ [][Next]_vars

-----------------------------------------------------------------------------
Strings == Nat \X Nat
States == {e.from : e \in RequestLineFSM \cup HeaderFSM}

TypeOK ==
  /\ stream \in Seq(Chars)
  /\ received \in 0 .. Len(stream)
  /\ next_parse_pos \in 1 .. received + 1
  /\ state \in States
  /\ {rl.method_begin, rl.url_begin} \subseteq Nat
  /\ {rl.http_major, rl.http_minor} \subseteq 0 .. 99
  /\ {rl.abs_path, rl.query_string, rl.mime_extension} \subseteq Strings
  /\ hd \in [line_begin : Nat, colon_pos : Nat, val_begin : Nat, val_end : Nat,
             isCRLF_LINE : BOOLEAN, name : Strings, value : Strings]
  /\ line_begin \in 1 .. next_parse_pos
  /\ phase \in {"line", "headers", "done", "rejected"}
  /\ running \in BOOLEAN
  /\ result \in {"OK", "AGAIN", "INVALID_REQUEST", "CRLF_LINE"}

\* The parser gave up on the current line, or has seen all of the input and
\* waits for the rest of the line.
GaveUp == phase = "rejected" \/ (phase # "done" /\ ~running /\ received = Len(stream))

\* All positions from i up to (not including) j hold characters of S.
AllIn(S, i, j) == \A k \in i .. j - 1 : stream[k] \in S

\* A version number: one digit, or zeros before a 0 or 1.
Number(i, j) ==
  /\ i < j
  /\ AllIn(Digit, i, j)
  /\ j - i > 1 => AllIn({"0"}, i, j - 1) /\ stream[j - 1] \in {"0", "1"}

\* The grammar of a request line: stream[1 .. end] is a method, a space, a URL,
\* blanks and a version.
ValidVersion(v, end) ==
  /\ end - v >= 9
  /\ AllIn({"H", "h"}, v, v + 1) /\ AllIn({"T", "t"}, v + 1, v + 3)
  /\ AllIn({"P", "p"}, v + 3, v + 4) /\ stream[v + 4] = "/"
  /\ stream[end - 1] = CR /\ stream[end] = LF
  /\ \E dot \in v + 5 .. end - 2 :
       stream[dot] = "." /\ Number(v + 5, dot) /\ Number(dot + 1, end - 1)

ValidRequestLine(end) ==
  \E m \in Methods :
    /\ IsPrefix(Append(m, SP), stream)
    /\ \E u \in Len(m) + 2 .. end :
         /\ stream[u] = "/" /\ AllIn(Blank, Len(m) + 2, u)
         /\ \E e \in u + 1 .. end :
              /\ stream[e] \in Blank /\ AllIn(Text \ Blank, u, e)
              /\ \E v \in e + 1 .. end : AllIn(Blank, e, v) /\ ValidVersion(v, end)

\* The request line is accepted if and only if it is one, however the bytes
\* were cut into pieces.
LineExact ==
  /\ phase = "headers" /\ hd.name = Unset => ValidRequestLine(line_begin - 1)
  /\ GaveUp /\ state \in {e.from : e \in RequestLineFSM} =>
       \A end \in 1 .. Len(stream) : ~ValidRequestLine(end)

\* abs_path and query_string divide a URL that a space ended, and the extension
\* is the end of the path.
UrlExact ==
  phase # "line" /\ state = "HD_BEGIN" /\ rl.query_string # Unset =>
    LET p == rl.abs_path
        q == rl.query_string
        x == rl.mime_extension
    IN /\ p[1] = rl.url_begin /\ stream[q[2]] = SP
       /\ p[1] < p[2] /\ AllIn(Text \ (Blank \cup {"?"}), p[1], p[2])
       /\ \/ q[1] = q[2] /\ q[1] = p[2]
          \/ q[1] = p[2] + 1 /\ stream[p[2]] = "?" /\ AllIn(Text \ Blank, q[1], q[2])
       /\ IF x = Unset
            THEN \E i \in p[1] .. p[2] - 1 :
                   stream[i] = "/" /\ AllIn(Text \ {".", "/"}, i + 1, p[2])
            ELSE /\ p[1] + 1 < x[1] /\ stream[x[1] - 1] = "." /\ x[2] = p[2]
                 /\ AllIn(Text \ {".", "/"}, x[1], x[2])

\* The grammar of a header line in stream[begin .. end], with name n and value w.
ValidHeader(begin, end, n, w) ==
  /\ AllIn(Blank, begin, n[1])
  /\ n[1] < n[2] /\ AllIn(Name, n[1], n[2]) /\ stream[n[2]] = ":"
  /\ AllIn(Blank, n[2] + 1, w[1])
  /\ w[1] < w[2] /\ AllIn(Text, w[1], w[2]) /\ stream[w[1]] \notin Blank
  /\ w[2] = end - 1 /\ stream[end - 1] = CR /\ stream[end] = LF

\* The line that ends the headers.
ValidEnd(begin, end) ==
  AllIn(Blank, begin, end - 1) /\ stream[end - 1] = CR /\ stream[end] = LF

\* The input goes on with a header or with the line that ends the headers.
SomeHeader ==
  \E end \in line_begin + 1 .. Len(stream) :
    \/ ValidEnd(line_begin, end)
    \/ \E c \in line_begin + 1 .. end : \E i \in line_begin .. c - 1 :
         \E j \in c + 1 .. end - 2 : ValidHeader(line_begin, end, <<i, c>>, <<j, end - 1>>)

\* Where the line that has just been completed begins.
LastLine == SelectLastInSubSeq(stream, 1, line_begin - 2, LAMBDA c : c = LF) + 1

\* parse_header_line returns the name and the value of each header line, and
\* CRLF_LINE for the empty line only, however the bytes were cut into pieces;
\* it rejects, or waits at the end of the input, only where neither follows.
HeadersExact ==
  /\ phase = "headers" /\ state = "HD_BEGIN" /\ next_parse_pos = line_begin
       /\ hd.name # Unset =>
       ValidHeader(LastLine, line_begin - 1, hd.name, hd.value)
  /\ phase = "done" => ValidEnd(LastLine, line_begin - 1)
  /\ GaveUp /\ state \in {e.from : e \in HeaderFSM} => ~SomeHeader

\* The assertion of HEADER_SET (compiled out): neither string has a negative
\* length, also at the empty line, where the positions are those of the header
\* before it; and neither reaches past what has been parsed.
HeaderSetInOrder ==
  /\ hd.name[1] =< hd.name[2] /\ hd.name[2] < next_parse_pos
  /\ hd.value[1] =< hd.value[2] /\ hd.value[2] < next_parse_pos
=============================================================================
