-------------------------- MODULE HttpParserProofs --------------------------
(***************************************************************************)
(* Proofs about HttpParser for every set of inputs and every way to cut    *)
(* them into pieces: the strings of HEADER_SET are in order, and the parser*)
(* accepts exactly the request lines and header lines of the grammar.      *)
(*                                                                         *)
(* SeenLine and SeenHeader say what a state of the automaton knows of the  *)
(* bytes behind it (soundness); Aligned, EndAligned and HeaderAligned say  *)
(* where in the automaton the parser is while it reads a line of the       *)
(* grammar (completeness).  LineIs is the grammar with the positions of its*)
(* parts, the marks, as parameters.                                        *)
(***************************************************************************)
EXTENDS HttpParser, TLAPS, WellFoundedInduction

\* The types of parse_archive's request line part, and the states of the automata.
LineArchive ==
  [method_begin : Nat, url_begin : Nat, http_major : Nat, http_minor : Nat,
   abs_path : Nat \X Nat, query_string : Nat \X Nat, mime_extension : Nat \X Nat]

LineStates == {"RL_BEGIN", "RL_METHOD", "RL_SP_BEFORE_URL", "RL_URL",
  "RL_SP_BEFORE_VERSION", "RL_VERSION_H", "RL_VERSION_HT", "RL_VERSION_HTT",
  "RL_VERSION_HTTP", "RL_VERSION_HTTP_SLASH", "RL_VERSION_MAJOR", "RL_VERSION_DOT",
  "RL_VERSION_MINOR", "RL_CR_AFTER_VERSION"}
HeaderStates == {"HD_BEGIN", "HD_NAME", "HD_COLON", "HD_SP_BEFORE_VAL", "HD_VAL",
  "HD_CR_AFTER_VAL", "HD_LF_AFTER_VAL"}

\* The states of the two automata.
LEMMA Froms ==
  /\ {e.from : e \in RequestLineFSM} = LineStates
  /\ {e.from : e \in HeaderFSM} = HeaderStates
<1>1. {e.from : e \in RequestLineFSM} = LineStates
  BY DEF RequestLineFSM, Edge, LineStates
<1>2. {e.from : e \in HeaderFSM} = HeaderStates
  BY DEF HeaderFSM, Edge, HeaderStates
<1> QED BY <1>1, <1>2

\* A method is a word of letters.
LEMMA MethodWords ==
  \A m \in Methods : m \in Seq(Alpha) /\ Len(m) \in Nat /\ Len(m) >= 1
<1>1. <<"G", "E", "T">> \in Seq(Alpha) BY DEF Alpha
<1>2. <<"P", "U", "T">> \in Seq(Alpha) BY DEF Alpha
<1>3. <<"P", "O", "S", "T">> \in Seq(Alpha) BY DEF Alpha
<1>4. <<"H", "E", "A", "D">> \in Seq(Alpha) BY DEF Alpha
<1>5. <<"D", "E", "L", "E", "T", "E">> \in Seq(Alpha) BY DEF Alpha
<1>6. \A m \in Methods : Len(m) \in Nat /\ Len(m) >= 1 BY DEF Methods
<1> QED BY <1>1, <1>2, <1>3, <1>4, <1>5, <1>6 DEF Methods

\* The edges of the request line's automaton.
LEMMA LineEdges ==
  ASSUME NEW e \in RequestLineFSM
  PROVE  \/ e.from = "RL_BEGIN" /\ e.on = Alpha /\ e.to = "RL_METHOD"
         \/ e.from = "RL_METHOD" /\ e.on = Alpha /\ e.to = "RL_METHOD"
         \/ e.from = "RL_METHOD" /\ e.on = {SP} /\ e.to = "RL_SP_BEFORE_URL"
         \/ e.from = "RL_SP_BEFORE_URL" /\ e.on = Blank /\ e.to = "RL_SP_BEFORE_URL"
         \/ e.from = "RL_SP_BEFORE_URL" /\ e.on = Text \ Blank /\ e.to = "RL_URL"
         \/ e.from = "RL_URL" /\ e.on = Blank /\ e.to = "RL_SP_BEFORE_VERSION"
         \/ e.from = "RL_URL" /\ e.on = Text \ Blank /\ e.to = "RL_URL"
         \/ e.from = "RL_SP_BEFORE_VERSION" /\ e.on = Blank
            /\ e.to = "RL_SP_BEFORE_VERSION"
         \/ e.from = "RL_SP_BEFORE_VERSION" /\ e.on = {"H", "h"} /\ e.to = "RL_VERSION_H"
         \/ e.from = "RL_VERSION_H" /\ e.on = {"T", "t"} /\ e.to = "RL_VERSION_HT"
         \/ e.from = "RL_VERSION_HT" /\ e.on = {"T", "t"} /\ e.to = "RL_VERSION_HTT"
         \/ e.from = "RL_VERSION_HTT" /\ e.on = {"P", "p"} /\ e.to = "RL_VERSION_HTTP"
         \/ e.from = "RL_VERSION_HTTP" /\ e.on = {"/"} /\ e.to = "RL_VERSION_HTTP_SLASH"
         \/ e.from = "RL_VERSION_HTTP_SLASH" /\ e.on = Digit /\ e.to = "RL_VERSION_MAJOR"
         \/ e.from = "RL_VERSION_MAJOR" /\ e.on = Digit /\ e.to = "RL_VERSION_MAJOR"
         \/ e.from = "RL_VERSION_MAJOR" /\ e.on = {"."} /\ e.to = "RL_VERSION_DOT"
         \/ e.from = "RL_VERSION_DOT" /\ e.on = Digit /\ e.to = "RL_VERSION_MINOR"
         \/ e.from = "RL_VERSION_MINOR" /\ e.on = Digit /\ e.to = "RL_VERSION_MINOR"
         \/ e.from = "RL_VERSION_MINOR" /\ e.on = {CR} /\ e.to = "RL_CR_AFTER_VERSION"
         \/ e.from = "RL_CR_AFTER_VERSION" /\ e.on = {LF} /\ e.to = "RL_LF_AFTER_VERSION"
BY DEF RequestLineFSM, Edge

\* What an edge does to the record, field by field (the parts of the URL aside).
LEMMA LineEffect ==
  ASSUME rl \in LineArchive, next_parse_pos \in Nat, NEW e \in RequestLineFSM, e.from = state
  PROVE  LET f == OnRequestLine(e) IN
    /\ f.method_begin = IF e.from = "RL_BEGIN" THEN next_parse_pos ELSE rl.method_begin
    /\ f.url_begin = IF e.from = "RL_SP_BEFORE_URL" /\ e.to = "RL_URL"
                       THEN next_parse_pos ELSE rl.url_begin
    /\ f.http_major = IF e.to = "RL_VERSION_MAJOR" THEN rl.http_major * 10 + DigitValue(ch)
                      ELSE rl.http_major
    /\ f.http_minor = IF e.to = "RL_VERSION_MINOR" THEN rl.http_minor * 10 + DigitValue(ch)
                      ELSE rl.http_minor
<1>1. CASE e.from = "RL_BEGIN"
  <2>0. e.to = "RL_METHOD"
    BY <1>1, LineEdges
  <2>1. OnRequestLine(e) = [rl EXCEPT !.method_begin = next_parse_pos]
    BY <1>1, <2>0 DEF OnRequestLine, EndsUrl
  <2> QED BY <1>1, <2>0, <2>1 DEF LineArchive
<1>2. CASE e.from = "RL_SP_BEFORE_URL" /\ e.to = "RL_URL"
  <2>1. OnRequestLine(e) = [rl EXCEPT !.url_begin = next_parse_pos]
    BY <1>2 DEF OnRequestLine, EndsUrl
  <2> QED BY <1>2, <2>1 DEF LineArchive
<1>3. CASE EndsUrl(e) /\ UrlIsAbsolute
  <2>1. OnRequestLine(e) = parse_url(rl.url_begin, next_parse_pos)
    BY <1>3 DEF OnRequestLine, EndsUrl
  <2>2. LET f == parse_url(rl.url_begin, next_parse_pos) IN
          /\ f.method_begin = rl.method_begin /\ f.url_begin = rl.url_begin
          /\ f.http_major = rl.http_major /\ f.http_minor = rl.http_minor
    BY Zenon DEF parse_url, LineArchive
  <2> QED BY <1>3, <2>1, <2>2 DEF EndsUrl
<1>4. CASE e.to = "RL_VERSION_MAJOR"
  <2>1. OnRequestLine(e) = [rl EXCEPT !.http_major = @ * 10 + DigitValue(ch)]
    BY <1>4, LineEdges DEF OnRequestLine, EndsUrl
  <2>2. e.from # "RL_BEGIN"
    BY <1>4, LineEdges
  <2> QED BY <1>4, <2>1, <2>2 DEF LineArchive
<1>5. CASE e.to = "RL_VERSION_MINOR"
  <2>1. OnRequestLine(e) = [rl EXCEPT !.http_minor = @ * 10 + DigitValue(ch)]
    BY <1>5, LineEdges DEF OnRequestLine, EndsUrl
  <2>2. e.from # "RL_BEGIN"
    BY <1>5, LineEdges
  <2> QED BY <1>5, <2>1, <2>2 DEF LineArchive
<1>6. CASE /\ e.from # "RL_BEGIN" /\ ~(e.from = "RL_SP_BEFORE_URL" /\ e.to = "RL_URL")
           /\ ~(EndsUrl(e) /\ UrlIsAbsolute)
           /\ e.to \notin {"RL_VERSION_MAJOR", "RL_VERSION_MINOR"}
  <2>1. OnRequestLine(e) = rl
    BY <1>6 DEF OnRequestLine
  <2> QED BY <1>6, <2>1
<1> QED BY <1>1, <1>2, <1>3, <1>4, <1>5, <1>6

\* Before the version's first digit.
EarlyStates ==
  LineStates \ {"RL_VERSION_MAJOR", "RL_VERSION_DOT", "RL_VERSION_MINOR",
                "RL_CR_AFTER_VERSION"}

-----------------------------------------------------------------------------
(* The grammar of the request line, with its marks as parameters.          *)

MethodIs(m) == m \in Methods /\ IsPrefix(Append(m, SP), stream)

UrlIs(m, u, e) ==
  /\ u \in Nat /\ e \in Nat /\ Len(m) + 2 =< u /\ u < e
  /\ AllIn(Blank, Len(m) + 2, u) /\ stream[u] = "/"
  /\ AllIn(Text \ Blank, u, e) /\ stream[e] \in Blank

\* A method, a URL and blanks end before v.
UpTo(v) ==
  \E m \in Methods : \E u \in Nat, e \in Nat :
    /\ MethodIs(m) /\ UrlIs(m, u, e)
    /\ e < v /\ AllIn(Blank, e, v)

\* The first n characters of "HTTP/", at v.
Spelled(n, v) ==
  /\ n >= 1 => stream[v] \in {"H", "h"}
  /\ n >= 2 => stream[v + 1] \in {"T", "t"}
  /\ n >= 3 => stream[v + 2] \in {"T", "t"}
  /\ n >= 4 => stream[v + 3] \in {"P", "p"}
  /\ n >= 5 => stream[v + 4] = "/"

UpToDot(dot) ==
  \E v \in Nat : /\ UpTo(v) /\ Spelled(5, v) /\ v + 6 =< dot
                 /\ Number(v + 5, dot) /\ stream[dot] = "."

\* What parse_request_line knows in state s at position p, with f what it has
\* recorded.
SeenLine(s, p, f) ==
  /\ s = "RL_BEGIN" => p = 1
  /\ s = "RL_METHOD" => p > 1 /\ f.method_begin = 1
  /\ s = "RL_SP_BEFORE_URL" =>
       \E m \in Methods : MethodIs(m) /\ Len(m) + 2 =< p /\ AllIn(Blank, Len(m) + 2, p)
  /\ s = "RL_URL" =>
       \E m \in Methods : /\ MethodIs(m) /\ Len(m) + 2 =< f.url_begin /\ f.url_begin < p
                          /\ AllIn(Blank, Len(m) + 2, f.url_begin)
                          /\ AllIn(Text \ Blank, f.url_begin, p)
  /\ s = "RL_SP_BEFORE_VERSION" => UpTo(p)
  /\ s = "RL_VERSION_H" => UpTo(p - 1) /\ Spelled(1, p - 1)
  /\ s = "RL_VERSION_HT" => UpTo(p - 2) /\ Spelled(2, p - 2)
  /\ s = "RL_VERSION_HTT" => UpTo(p - 3) /\ Spelled(3, p - 3)
  /\ s = "RL_VERSION_HTTP" => UpTo(p - 4) /\ Spelled(4, p - 4)
  /\ s = "RL_VERSION_HTTP_SLASH" => UpTo(p - 5) /\ Spelled(5, p - 5)
  /\ s = "RL_VERSION_MAJOR" =>
       \E v \in Nat : /\ UpTo(v) /\ Spelled(5, v) /\ v + 6 =< p /\ Number(v + 5, p)
                      /\ f.http_major = DigitValue(stream[p - 1])
  /\ s = "RL_VERSION_DOT" => UpToDot(p - 1)
  /\ s = "RL_VERSION_MINOR" =>
       \E dot \in Nat : /\ UpToDot(dot) /\ dot + 2 =< p /\ Number(dot + 1, p)
                        /\ f.http_minor = DigitValue(stream[p - 1])
  /\ s = "RL_CR_AFTER_VERSION" =>
       \E dot \in Nat : /\ UpToDot(dot) /\ dot + 3 =< p /\ Number(dot + 1, p - 1)
                        /\ stream[p - 1] = CR
  /\ s \in EarlyStates => f.http_major = 0
  /\ s \in EarlyStates \cup {"RL_VERSION_MAJOR", "RL_VERSION_DOT"} => f.http_minor = 0

\* What IsPrefix says of a method and the space behind it.
LEMMA PrefixMeans ==
  ASSUME stream \in Seq(Chars), NEW m \in Methods
  PROVE  MethodIs(m) <=> /\ Len(m) + 1 =< Len(stream) /\ stream[Len(m) + 1] = SP
                         /\ SubSeq(stream, 1, Len(m)) = m
<1>1. m \in Seq(Alpha) /\ Len(m) \in Nat
  BY MethodWords
<1> DEFINE w == Append(m, SP)
<1>2. Len(w) = Len(m) + 1 /\ w[Len(m) + 1] = SP /\ (\A i \in 1 .. Len(m) : w[i] = m[i])
      /\ SubSeq(w, 1, Len(w)) = w
  BY <1>1
<1>3. ASSUME MethodIs(m)
      PROVE  Len(m) + 1 =< Len(stream) /\ stream[Len(m) + 1] = SP
             /\ SubSeq(stream, 1, Len(m)) = m
  <2>1. Len(m) + 1 =< Len(stream) /\ w = SubSeq(stream, 1, Len(m) + 1)
    BY <1>2, <1>3 DEF MethodIs, IsPrefix
  <2>2. stream[Len(m) + 1] = SP /\ \A i \in 1 .. Len(m) : stream[i] = m[i]
    BY <1>1, <1>2, <2>1
  <2> QED BY <1>1, <2>1, <2>2
<1>4. ASSUME Len(m) + 1 =< Len(stream), stream[Len(m) + 1] = SP,
             SubSeq(stream, 1, Len(m)) = m
      PROVE  MethodIs(m)
  <2>1. \A i \in 1 .. Len(m) : stream[i] = m[i]
    BY <1>1, <1>4
  <2>2. w = SubSeq(stream, 1, Len(m) + 1)
    BY <1>1, <1>2, <1>4, <2>1
  <2> QED BY <1>2, <1>4, <2>2 DEF MethodIs, IsPrefix
<1> QED BY <1>3, <1>4

\* A run of characters of a class goes on with one more.
LEMMA RunGrows ==
  ASSUME NEW S, NEW i \in Nat, NEW p \in Nat, AllIn(S, i, p), stream[p] \in S
  PROVE  AllIn(S, i, p + 1)
BY DEF AllIn

\* A run is empty at first, or has one character.
LEMMA RunStarts ==
  ASSUME NEW S, NEW p \in Nat
  PROVE  AllIn(S, p, p) /\ (stream[p] \in S => AllIn(S, p, p + 1))
BY DEF AllIn

\* ch - '0' of the digits.
LEMMA DigitValues ==
  \A c \in Digit : DigitValue(c) \in 0 .. 2 /\ (DigitValue(c) = 0 <=> c = "0")
                   /\ (DigitValue(c) = 1 <=> c = "1")
BY DEF Digit, DigitValue

\* One more digit of a version: refused, or all before it are zeros.
LEMMA NumberGrows ==
  ASSUME NEW i \in Nat, NEW p \in Nat, i < p, Number(i, p), stream[p] \in Digit,
         DigitValue(stream[p - 1]) * 10 + DigitValue(stream[p]) =< 1
  PROVE  Number(i, p + 1) /\ DigitValue(stream[p - 1]) = 0
<1>1. stream[p - 1] \in Digit
  BY DEF Number, AllIn
<1>2. DigitValue(stream[p - 1]) = 0 /\ DigitValue(stream[p]) \in {0, 1}
  BY <1>1, DigitValues
<1>3. stream[p - 1] = "0" /\ stream[p] \in {"0", "1"}
  BY <1>1, <1>2, DigitValues
<1>4. AllIn({"0"}, i, p)
  BY <1>3 DEF Number, AllIn
<1> QED BY <1>2, <1>3, <1>4 DEF Number, AllIn

\* One digit is a version number.
LEMMA NumberStarts ==
  ASSUME NEW p \in Nat, stream[p] \in Digit
  PROVE  Number(p, p + 1)
BY DEF Number, AllIn

\* A transition of parse_request_line that the code does not refuse.
LEMMA SeenStep ==
  ASSUME stream \in Seq(Chars), rl \in LineArchive, next_parse_pos \in 1 .. Len(stream),
         SeenLine(state, next_parse_pos, rl),
         NEW e \in RequestLineFSM, e.from = state, ch \in e.on, ~Refuses(e),
         e.to # "RL_LF_AFTER_VERSION"
  PROVE  SeenLine(e.to, next_parse_pos + 1, OnRequestLine(e))
<1> DEFINE p == next_parse_pos
           f == OnRequestLine(e)
<1>1. /\ f.method_begin = IF e.from = "RL_BEGIN" THEN p ELSE rl.method_begin
      /\ f.url_begin = IF e.from = "RL_SP_BEFORE_URL" /\ e.to = "RL_URL"
                         THEN p ELSE rl.url_begin
      /\ f.http_major = IF e.to = "RL_VERSION_MAJOR" THEN rl.http_major * 10 + DigitValue(ch)
                        ELSE rl.http_major
      /\ f.http_minor = IF e.to = "RL_VERSION_MINOR" THEN rl.http_minor * 10 + DigitValue(ch)
                        ELSE rl.http_minor
  BY LineEffect
<1>2. /\ p \in Nat /\ p > 0 /\ p =< Len(stream) /\ ch = stream[p] /\ p + 1 - 1 = p
      /\ p - 1 \in Nat /\ rl.url_begin \in Nat /\ rl.http_major \in Nat
      /\ rl.http_minor \in Nat
  BY DEF ch, LineArchive
<1>3. /\ e.from = "RL_METHOD" /\ e.to = "RL_SP_BEFORE_URL" =>
           parse_method(rl.method_begin, p)
      /\ e.from = "RL_URL" /\ e.to = "RL_SP_BEFORE_VERSION" => stream[rl.url_begin] = "/"
      /\ e.from = "RL_VERSION_MAJOR" /\ ch \in Digit => ~(f.http_major > 1)
      /\ e.from = "RL_VERSION_MINOR" /\ ch \in Digit => ~(f.http_minor > 1)
  BY DEF Refuses, EndsMethod, EndsUrl, UrlIsAbsolute
<1> HIDE DEF f, p
<1>4. /\ e.to \in EarlyStates => f.http_major = 0
      /\ e.to \in EarlyStates \cup {"RL_VERSION_MAJOR", "RL_VERSION_DOT"} =>
           f.http_minor = 0
  BY <1>1, <1>2, LineEdges DEF SeenLine, EarlyStates, LineStates, p
<1>5. e.to # "RL_BEGIN"
  BY LineEdges
<1>6. e.to = "RL_METHOD" => p + 1 > 1 /\ f.method_begin = 1
  BY <1>1, <1>2, LineEdges DEF SeenLine, p
<1>7. ASSUME e.to = "RL_SP_BEFORE_URL"
      PROVE  \E m \in Methods : /\ MethodIs(m) /\ Len(m) + 2 =< p + 1
                                /\ AllIn(Blank, Len(m) + 2, p + 1)
  <2>1. CASE e.from = "RL_METHOD"
    <3>1. ch = SP
      BY <1>7, <2>1, LineEdges
    <3>2. rl.method_begin = 1 /\ p > 1
      BY <2>1 DEF SeenLine, p
    <3> DEFINE m == SubSeq(stream, 1, p - 1)
    <3>3. m \in Methods
      BY <1>3, <1>7, <2>1, <3>2 DEF parse_method
    <3>4. Len(m) = p - 1
      BY <1>2
    <3>5. SubSeq(stream, 1, Len(m)) = m
      BY <3>4
    <3> HIDE DEF m
    <3>6. MethodIs(m)
      <4>1. Len(m) + 1 = p
        BY <1>2, <3>4
      <4> QED BY <1>2, <3>1, <3>3, <3>5, <4>1, PrefixMeans
    <3>7. AllIn(Blank, Len(m) + 2, p + 1)
      BY <1>2, <3>4, RunStarts
    <3> QED BY <1>2, <3>3, <3>4, <3>6, <3>7
  <2>2. CASE e.from = "RL_SP_BEFORE_URL"
    <3>1. ch \in Blank
      BY <1>7, <2>2, LineEdges
    <3>2. PICK m \in Methods : /\ MethodIs(m) /\ Len(m) + 2 =< p
                               /\ AllIn(Blank, Len(m) + 2, p)
      BY <2>2 DEF SeenLine, p
    <3>3. Len(m) \in Nat
      BY MethodWords
    <3> QED BY <1>2, <3>1, <3>2, <3>3, RunGrows
  <2> QED BY <1>7, <2>1, <2>2, LineEdges
<1>8. ASSUME e.to = "RL_URL"
      PROVE  \E m \in Methods : /\ MethodIs(m) /\ Len(m) + 2 =< f.url_begin
                                /\ f.url_begin < p + 1
                                /\ AllIn(Blank, Len(m) + 2, f.url_begin)
                                /\ AllIn(Text \ Blank, f.url_begin, p + 1)
  <2>1. CASE e.from = "RL_SP_BEFORE_URL"
    <3>1. ch \in Text \ Blank /\ f.url_begin = p
      BY <1>1, <1>8, <2>1, LineEdges
    <3>2. PICK m \in Methods : /\ MethodIs(m) /\ Len(m) + 2 =< p
                               /\ AllIn(Blank, Len(m) + 2, p)
      BY <2>1 DEF SeenLine, p
    <3>3. AllIn(Text \ Blank, p, p + 1)
      BY <1>2, <3>1, RunStarts
    <3> QED BY <1>2, <3>1, <3>2, <3>3
  <2>2. CASE e.from = "RL_URL"
    <3>1. ch \in Text \ Blank /\ f.url_begin = rl.url_begin
      BY <1>1, <1>8, <2>2, LineEdges
    <3>2. PICK m \in Methods : /\ MethodIs(m) /\ Len(m) + 2 =< rl.url_begin
                               /\ rl.url_begin < p /\ AllIn(Blank, Len(m) + 2, rl.url_begin)
                               /\ AllIn(Text \ Blank, rl.url_begin, p)
      BY <2>2 DEF SeenLine, p
    <3> QED BY <1>2, <3>1, <3>2, RunGrows
  <2> QED BY <1>8, <2>1, <2>2, LineEdges
<1>9. ASSUME e.to = "RL_SP_BEFORE_VERSION" PROVE UpTo(p + 1)
  <2>1. ch \in Blank
    BY <1>9, LineEdges
  <2>2. CASE e.from = "RL_URL"
    <3>1. PICK m \in Methods : /\ MethodIs(m) /\ Len(m) + 2 =< rl.url_begin
                               /\ rl.url_begin < p /\ AllIn(Blank, Len(m) + 2, rl.url_begin)
                               /\ AllIn(Text \ Blank, rl.url_begin, p)
      BY <2>2 DEF SeenLine, p
    <3>2. UrlIs(m, rl.url_begin, p)
      BY <1>2, <1>3, <1>9, <2>1, <2>2, <3>1 DEF UrlIs
    <3>3. p < p + 1 /\ AllIn(Blank, p, p + 1)
      BY <1>2, <2>1, RunStarts
    <3> QED BY <1>2, <3>1, <3>2, <3>3 DEF UpTo
  <2>3. CASE e.from = "RL_SP_BEFORE_VERSION"
    <3>1. UpTo(p)
      BY <2>3 DEF SeenLine, p
    <3>2. PICK m \in Methods, u \in Nat, x \in Nat :
            MethodIs(m) /\ UrlIs(m, u, x) /\ x < p /\ AllIn(Blank, x, p)
      BY <3>1 DEF UpTo
    <3>3. x < p + 1 /\ AllIn(Blank, x, p + 1)
      BY <1>2, <2>1, <3>2, RunGrows
    <3> QED BY <3>2, <3>3 DEF UpTo
  <2> QED BY <1>9, <2>2, <2>3, LineEdges
<1>10. /\ e.to = "RL_VERSION_H" => UpTo(p) /\ Spelled(1, p)
       /\ e.to = "RL_VERSION_HT" => UpTo(p - 1) /\ Spelled(2, p - 1)
       /\ e.to = "RL_VERSION_HTT" => UpTo(p - 2) /\ Spelled(3, p - 2)
       /\ e.to = "RL_VERSION_HTTP" => UpTo(p - 3) /\ Spelled(4, p - 3)
       /\ e.to = "RL_VERSION_HTTP_SLASH" => UpTo(p - 4) /\ Spelled(5, p - 4)
  <2>1. CASE e.to = "RL_VERSION_H"
    <3>1. e.from = "RL_SP_BEFORE_VERSION" /\ ch \in {"H", "h"}
      BY <2>1, LineEdges
    <3> QED BY <1>2, <2>1, <3>1 DEF SeenLine, Spelled, p
  <2>2. CASE e.to = "RL_VERSION_HT"
    <3>1. e.from = "RL_VERSION_H" /\ ch \in {"T", "t"}
      BY <2>2, LineEdges
    <3> QED BY <1>2, <2>2, <3>1 DEF SeenLine, Spelled, p
  <2>3. CASE e.to = "RL_VERSION_HTT"
    <3>1. e.from = "RL_VERSION_HT" /\ ch \in {"T", "t"}
      BY <2>3, LineEdges
    <3> QED BY <1>2, <2>3, <3>1 DEF SeenLine, Spelled, p
  <2>4. CASE e.to = "RL_VERSION_HTTP"
    <3>1. e.from = "RL_VERSION_HTT" /\ ch \in {"P", "p"}
      BY <2>4, LineEdges
    <3> QED BY <1>2, <2>4, <3>1 DEF SeenLine, Spelled, p
  <2>5. CASE e.to = "RL_VERSION_HTTP_SLASH"
    <3>1. e.from = "RL_VERSION_HTTP" /\ ch = "/"
      BY <2>5, LineEdges
    <3>2. UpTo(p - 4) /\ Spelled(4, p - 4)
      BY <3>1 DEF SeenLine, p
    <3>3. p - 4 + 4 = p
      BY <1>2
    <3>4. stream[p - 4 + 4] = "/"
      BY <1>2, <3>1, <3>3
    <3>5. Spelled(5, p - 4)
      BY <3>2, <3>4 DEF Spelled
    <3> QED BY <2>5, <3>2, <3>5
  <2> QED BY <2>1, <2>2, <2>3, <2>4, <2>5
<1>11. ASSUME e.to = "RL_VERSION_MAJOR"
       PROVE  \E v \in Nat : /\ UpTo(v) /\ Spelled(5, v) /\ v + 6 =< p + 1
                             /\ Number(v + 5, p + 1) /\ f.http_major = DigitValue(stream[p])
  <2>1. ch \in Digit /\ f.http_major = rl.http_major * 10 + DigitValue(stream[p])
        /\ DigitValue(stream[p]) \in Nat
    BY <1>1, <1>2, <1>11, LineEdges, DigitValues
  <2>2. CASE e.from = "RL_VERSION_HTTP_SLASH"
    <3>1. UpTo(p - 5) /\ Spelled(5, p - 5) /\ rl.http_major = 0
      BY <2>2 DEF SeenLine, EarlyStates, LineStates, p
    <3>2. p - 5 \in Nat
      BY <1>2, <3>1 DEF UpTo
    <3>3. Number(p, p + 1) /\ p - 5 + 5 = p /\ p - 5 + 6 =< p + 1
      BY <1>2, <2>1, NumberStarts
    <3>4. f.http_major = DigitValue(stream[p])
      BY <2>1, <3>1
    <3> QED BY <3>1, <3>2, <3>3, <3>4
  <2>3. CASE e.from = "RL_VERSION_MAJOR"
    <3>1. PICK v \in Nat : /\ UpTo(v) /\ Spelled(5, v) /\ v + 6 =< p /\ Number(v + 5, p)
                           /\ rl.http_major = DigitValue(stream[p - 1])
      BY <2>3 DEF SeenLine, p
    <3>2. DigitValue(stream[p - 1]) * 10 + DigitValue(stream[p]) =< 1
      BY <1>2, <1>3, <2>1, <2>3, <3>1
    <3>3. Number(v + 5, p + 1) /\ DigitValue(stream[p - 1]) = 0
      BY <1>2, <2>1, <3>1, <3>2, NumberGrows
    <3>4. f.http_major = DigitValue(stream[p]) /\ v + 6 =< p + 1
      BY <1>2, <2>1, <3>1, <3>3
    <3> QED BY <3>1, <3>3, <3>4
  <2> QED BY <1>11, <2>2, <2>3, LineEdges
<1>12. ASSUME e.to = "RL_VERSION_DOT" PROVE UpToDot(p)
  <2>1. e.from = "RL_VERSION_MAJOR" /\ ch = "."
    BY <1>12, LineEdges
  <2>2. PICK v \in Nat : UpTo(v) /\ Spelled(5, v) /\ v + 6 =< p /\ Number(v + 5, p)
    BY <2>1 DEF SeenLine, p
  <2> QED BY <1>2, <2>1, <2>2 DEF UpToDot
<1>13. ASSUME e.to = "RL_VERSION_MINOR"
       PROVE  \E dot \in Nat : /\ UpToDot(dot) /\ dot + 2 =< p + 1 /\ Number(dot + 1, p + 1)
                               /\ f.http_minor = DigitValue(stream[p])
  <2>1. ch \in Digit /\ f.http_minor = rl.http_minor * 10 + DigitValue(stream[p])
        /\ DigitValue(stream[p]) \in Nat
    BY <1>1, <1>2, <1>13, LineEdges, DigitValues
  <2>2. CASE e.from = "RL_VERSION_DOT"
    <3>1. UpToDot(p - 1) /\ rl.http_minor = 0
      BY <2>2 DEF SeenLine, p
    <3>2. Number(p, p + 1) /\ p - 1 + 1 = p /\ p - 1 + 2 =< p + 1
      BY <1>2, <2>1, NumberStarts
    <3>3. f.http_minor = DigitValue(stream[p])
      BY <2>1, <3>1
    <3> QED BY <1>2, <3>1, <3>2, <3>3
  <2>3. CASE e.from = "RL_VERSION_MINOR"
    <3>1. PICK dot \in Nat : /\ UpToDot(dot) /\ dot + 2 =< p /\ Number(dot + 1, p)
                             /\ rl.http_minor = DigitValue(stream[p - 1])
      BY <2>3 DEF SeenLine, p
    <3>2. DigitValue(stream[p - 1]) * 10 + DigitValue(stream[p]) =< 1
      BY <1>2, <1>3, <2>1, <2>3, <3>1
    <3>3. Number(dot + 1, p + 1) /\ DigitValue(stream[p - 1]) = 0
      <4>1. dot + 1 \in Nat /\ dot + 1 < p
        BY <1>2, <3>1
      <4> QED BY <1>2, <2>1, <3>1, <3>2, <4>1, NumberGrows
    <3>4. f.http_minor = DigitValue(stream[p]) /\ dot + 2 =< p + 1
      BY <1>2, <2>1, <3>1, <3>3
    <3> QED BY <3>1, <3>3, <3>4
  <2> QED BY <1>13, <2>2, <2>3, LineEdges
<1>14. ASSUME e.to = "RL_CR_AFTER_VERSION"
       PROVE  \E dot \in Nat : /\ UpToDot(dot) /\ dot + 3 =< p + 1 /\ Number(dot + 1, p)
                               /\ stream[p] = CR
  <2>1. e.from = "RL_VERSION_MINOR" /\ ch = CR
    BY <1>14, LineEdges
  <2>2. PICK dot \in Nat : UpToDot(dot) /\ dot + 2 =< p /\ Number(dot + 1, p)
    BY <2>1 DEF SeenLine, p
  <2> QED BY <1>2, <2>1, <2>2
<1>15. /\ (p + 1) - 1 = p /\ (p + 1) - 2 = p - 1 /\ (p + 1) - 3 = p - 2
       /\ (p + 1) - 4 = p - 3 /\ (p + 1) - 5 = p - 4
  BY <1>2
<1>16. SeenLine(e.to, p + 1, f)
  BY <1>4, <1>5, <1>6, <1>7, <1>8, <1>9, <1>10, <1>11, <1>12, <1>13, <1>14, <1>15
     DEF SeenLine
<1> QED BY <1>16 DEF p, f

\* A request line with all its marks.
LineIs(m, u, e, v, dot, end) ==
  /\ m \in Methods /\ MethodIs(m) /\ UrlIs(m, u, e)
  /\ v \in Nat /\ e < v /\ AllIn(Blank, e, v) /\ Spelled(5, v)
  /\ dot \in Nat /\ v + 6 =< dot /\ Number(v + 5, dot) /\ stream[dot] = "."
  /\ end \in Nat /\ dot + 3 =< end /\ Number(dot + 1, end - 1)
  /\ stream[end - 1] = CR /\ stream[end] = LF

\* The five characters of "HTTP/" are what ValidVersion asks for.
LEMMA Spelling ==
  ASSUME NEW v \in Nat
  PROVE  Spelled(5, v) <=> /\ AllIn({"H", "h"}, v, v + 1) /\ AllIn({"T", "t"}, v + 1, v + 3)
                           /\ AllIn({"P", "p"}, v + 3, v + 4) /\ stream[v + 4] = "/"
<1>1. AllIn({"H", "h"}, v, v + 1) <=> stream[v] \in {"H", "h"}
  BY DEF AllIn
<1>2. AllIn({"T", "t"}, v + 1, v + 3)
        <=> stream[v + 1] \in {"T", "t"} /\ stream[v + 2] \in {"T", "t"}
  BY DEF AllIn
<1>3. AllIn({"P", "p"}, v + 3, v + 4) <=> stream[v + 3] \in {"P", "p"}
  BY DEF AllIn
<1> QED BY <1>1, <1>2, <1>3 DEF Spelled

\* A request line is one for some choice of its marks.
LEMMA LineGrammar ==
  ASSUME stream \in Seq(Chars), NEW end \in Nat
  PROVE  ValidRequestLine(end) <=>
           \E m \in Methods : \E u \in Nat, e \in Nat, v \in Nat, dot \in Nat :
             LineIs(m, u, e, v, dot, end)
<1>1. ASSUME ValidRequestLine(end)
      PROVE  \E m \in Methods : \E u \in Nat, e \in Nat, v \in Nat, dot \in Nat :
               LineIs(m, u, e, v, dot, end)
  <2>1. PICK m \in Methods :
          /\ IsPrefix(Append(m, SP), stream)
          /\ \E u \in Len(m) + 2 .. end :
               /\ stream[u] = "/" /\ AllIn(Blank, Len(m) + 2, u)
               /\ \E e \in u + 1 .. end :
                    /\ stream[e] \in Blank /\ AllIn(Text \ Blank, u, e)
                    /\ \E v \in e + 1 .. end : AllIn(Blank, e, v) /\ ValidVersion(v, end)
    BY <1>1 DEF ValidRequestLine
  <2>2. PICK u \in Len(m) + 2 .. end :
          /\ stream[u] = "/" /\ AllIn(Blank, Len(m) + 2, u)
          /\ \E e \in u + 1 .. end :
               /\ stream[e] \in Blank /\ AllIn(Text \ Blank, u, e)
               /\ \E v \in e + 1 .. end : AllIn(Blank, e, v) /\ ValidVersion(v, end)
    BY <2>1
  <2>3. PICK e \in u + 1 .. end :
          /\ stream[e] \in Blank /\ AllIn(Text \ Blank, u, e)
          /\ \E v \in e + 1 .. end : AllIn(Blank, e, v) /\ ValidVersion(v, end)
    BY <2>2
  <2>4. PICK v \in e + 1 .. end : AllIn(Blank, e, v) /\ ValidVersion(v, end)
    BY <2>3
  <2>5. PICK dot \in v + 5 .. end - 2 :
          stream[dot] = "." /\ Number(v + 5, dot) /\ Number(dot + 1, end - 1)
    BY <2>4 DEF ValidVersion
  <2>6. Len(m) \in Nat
    BY MethodWords
  <2>7. u \in Nat /\ e \in Nat /\ v \in Nat /\ dot \in Nat
    BY <2>6
  <2>8. MethodIs(m) /\ UrlIs(m, u, e)
    BY <2>1, <2>2, <2>3, <2>6, <2>7 DEF MethodIs, UrlIs
  <2>9. Spelled(5, v) /\ stream[end - 1] = CR /\ stream[end] = LF
    BY <2>4, <2>7, Spelling DEF ValidVersion
  <2>10. v + 6 =< dot /\ dot + 3 =< end
    BY <2>5, <2>7 DEF Number
  <2>11. e < v
    BY <2>7
  <2> QED BY <2>4, <2>5, <2>7, <2>8, <2>9, <2>10, <2>11 DEF LineIs
<1>2. ASSUME NEW m \in Methods, NEW u \in Nat, NEW e \in Nat, NEW v \in Nat, NEW dot \in Nat,
             LineIs(m, u, e, v, dot, end)
      PROVE  ValidRequestLine(end)
  <2>1. Len(m) \in Nat
    BY MethodWords
  <2>2. Len(m) + 2 =< u /\ u < e /\ e < v /\ v + 6 =< dot /\ dot + 3 =< end
    BY <1>2 DEF LineIs, UrlIs
  <2>3. /\ u \in Len(m) + 2 .. end /\ e \in u + 1 .. end /\ v \in e + 1 .. end
        /\ dot \in v + 5 .. end - 2 /\ end - v >= 9
    BY <2>1, <2>2
  <2>4. ValidVersion(v, end)
    BY <1>2, <2>3, Spelling DEF LineIs, ValidVersion
  <2> QED BY <1>2, <2>3, <2>4 DEF LineIs, MethodIs, UrlIs, ValidRequestLine
<1> QED BY <1>1, <1>2

\* The line feed that completes the line.
LEMMA LineAccepted ==
  ASSUME stream \in Seq(Chars), next_parse_pos \in 1 .. Len(stream),
         state = "RL_CR_AFTER_VERSION", SeenLine(state, next_parse_pos, rl), ch = LF
  PROVE  ValidRequestLine(next_parse_pos)
<1> DEFINE p == next_parse_pos
<1>1. PICK dot \in Nat : /\ UpToDot(dot) /\ dot + 3 =< p /\ Number(dot + 1, p - 1)
                         /\ stream[p - 1] = CR
  BY DEF SeenLine
<1>2. PICK v \in Nat : /\ UpTo(v) /\ Spelled(5, v) /\ v + 6 =< dot
                       /\ Number(v + 5, dot) /\ stream[dot] = "."
  BY <1>1 DEF UpToDot
<1>3. PICK m \in Methods, u \in Nat, e \in Nat :
        MethodIs(m) /\ UrlIs(m, u, e) /\ e < v /\ AllIn(Blank, e, v)
  BY <1>2 DEF UpTo
<1>4. p \in Nat /\ stream[p] = LF
  BY DEF ch
<1>5. LineIs(m, u, e, v, dot, p)
  BY <1>1, <1>2, <1>3, <1>4 DEF LineIs
<1> QED BY <1>3, <1>4, <1>5, LineGrammar

\* Where the parser is in a request line with these marks.
Aligned(s, p, f, m, u, e, v, dot, end) ==
  /\ s = "RL_BEGIN" => p = 1
  /\ s = "RL_METHOD" => 2 =< p /\ p =< Len(m) + 1
  /\ s = "RL_SP_BEFORE_URL" => Len(m) + 2 =< p /\ p =< u
  /\ s = "RL_URL" => u < p /\ p =< e /\ f.url_begin = u
  /\ s = "RL_SP_BEFORE_VERSION" => e < p /\ p =< v
  /\ s = "RL_VERSION_H" => p = v + 1
  /\ s = "RL_VERSION_HT" => p = v + 2
  /\ s = "RL_VERSION_HTT" => p = v + 3
  /\ s = "RL_VERSION_HTTP" => p = v + 4
  /\ s = "RL_VERSION_HTTP_SLASH" => p = v + 5
  /\ s = "RL_VERSION_MAJOR" => v + 6 =< p /\ p =< dot
  /\ s = "RL_VERSION_DOT" => p = dot + 1
  /\ s = "RL_VERSION_MINOR" => dot + 2 =< p /\ p =< end - 1
  /\ s = "RL_CR_AFTER_VERSION" => p = end

\* The character such a line has there.
Expected(s, p, m, u, e, v, dot, end) ==
  /\ s = "RL_BEGIN" => stream[p] \in Alpha
  /\ s = "RL_METHOD" => \/ p =< Len(m) /\ stream[p] \in Alpha
                        \/ p = Len(m) + 1 /\ stream[p] = SP
  /\ s = "RL_SP_BEFORE_URL" => (p < u /\ stream[p] \in Blank) \/ (p = u /\ stream[p] = "/")
  /\ s = "RL_URL" => \/ p < e /\ stream[p] \in Text \ Blank
                     \/ p = e /\ stream[p] \in Blank
  /\ s = "RL_SP_BEFORE_VERSION" => \/ p < v /\ stream[p] \in Blank
                                   \/ p = v /\ stream[p] \in {"H", "h"}
  /\ s \in {"RL_VERSION_H", "RL_VERSION_HT"} => stream[p] \in {"T", "t"}
  /\ s = "RL_VERSION_HTT" => stream[p] \in {"P", "p"}
  /\ s = "RL_VERSION_HTTP" => stream[p] = "/"
  /\ s = "RL_VERSION_HTTP_SLASH" => stream[p] \in Digit
  /\ s = "RL_VERSION_MAJOR" => (p < dot /\ stream[p] \in Digit) \/ (p = dot /\ stream[p] = ".")
  /\ s = "RL_VERSION_DOT" => stream[p] \in Digit
  /\ s = "RL_VERSION_MINOR" => \/ p < end - 1 /\ stream[p] \in Digit
                               \/ p = end - 1 /\ stream[p] = CR
  /\ s = "RL_CR_AFTER_VERSION" => stream[p] = LF

\* While the parser is aligned with a line, the next character is the line's
\* and the line has not ended.
LEMMA LineCharacters ==
  ASSUME stream \in Seq(Chars), NEW m \in Methods, NEW u, NEW e, NEW v, NEW dot, NEW end,
         LineIs(m, u, e, v, dot, end), NEW p \in Nat, NEW f, NEW s,
         Aligned(s, p, f, m, u, e, v, dot, end)
  PROVE  Expected(s, p, m, u, e, v, dot, end) /\ (s \in LineStates => p =< end)
<1>1. m \in Seq(Alpha) /\ Len(m) \in Nat /\ Len(m) >= 1
  BY MethodWords
<1>2. /\ u \in Nat /\ e \in Nat /\ v \in Nat /\ dot \in Nat /\ end \in Nat
      /\ Len(m) + 2 =< u /\ u < e /\ e < v /\ v + 6 =< dot /\ dot + 3 =< end
  BY DEF LineIs, UrlIs
<1>3. stream[Len(m) + 1] = SP /\ SubSeq(stream, 1, Len(m)) = m /\ Len(m) + 1 =< Len(stream)
  BY PrefixMeans DEF LineIs
<1>4. \A i \in 1 .. Len(m) : stream[i] \in Alpha
  BY <1>1, <1>3
<1>5. /\ \A i \in Len(m) + 2 .. u - 1 : stream[i] \in Blank
      /\ stream[u] = "/" /\ (\A i \in u .. e - 1 : stream[i] \in Text \ Blank)
      /\ stream[e] \in Blank /\ (\A i \in e .. v - 1 : stream[i] \in Blank)
  BY DEF LineIs, UrlIs, AllIn
<1>6. /\ stream[v] \in {"H", "h"} /\ stream[v + 1] \in {"T", "t"}
      /\ stream[v + 2] \in {"T", "t"} /\ stream[v + 3] \in {"P", "p"} /\ stream[v + 4] = "/"
  BY DEF LineIs, Spelled
<1>7. /\ \A i \in v + 5 .. dot - 1 : stream[i] \in Digit
      /\ stream[dot] = "." /\ (\A i \in dot + 1 .. end - 2 : stream[i] \in Digit)
      /\ stream[end - 1] = CR /\ stream[end] = LF
  <2>1. AllIn(Digit, v + 5, dot) /\ AllIn(Digit, dot + 1, end - 1)
    BY DEF LineIs, Number
  <2>2. end - 1 - 1 = end - 2
    BY <1>2
  <2> QED BY <2>1, <2>2 DEF LineIs, AllIn
<1>8. /\ s = "RL_BEGIN" => stream[p] \in Alpha
      /\ s = "RL_METHOD" => \/ p =< Len(m) /\ stream[p] \in Alpha
                            \/ p = Len(m) + 1 /\ stream[p] = SP
  BY <1>1, <1>3, <1>4 DEF Aligned
<1>9. /\ s = "RL_SP_BEFORE_URL" => \/ p < u /\ stream[p] \in Blank
                                   \/ p = u /\ stream[p] = "/"
      /\ s = "RL_URL" => \/ p < e /\ stream[p] \in Text \ Blank
                         \/ p = e /\ stream[p] \in Blank
  BY <1>1, <1>2, <1>5 DEF Aligned
<1>10. s = "RL_SP_BEFORE_VERSION" => \/ p < v /\ stream[p] \in Blank
                                     \/ p = v /\ stream[p] \in {"H", "h"}
  BY <1>2, <1>5, <1>6 DEF Aligned
<1>11. /\ s \in {"RL_VERSION_H", "RL_VERSION_HT"} => stream[p] \in {"T", "t"}
       /\ s = "RL_VERSION_HTT" => stream[p] \in {"P", "p"}
       /\ s = "RL_VERSION_HTTP" => stream[p] = "/"
  BY <1>6 DEF Aligned
<1>12. /\ s = "RL_VERSION_HTTP_SLASH" => stream[p] \in Digit
       /\ s = "RL_VERSION_MAJOR" => \/ p < dot /\ stream[p] \in Digit
                                    \/ p = dot /\ stream[p] = "."
       /\ s = "RL_VERSION_DOT" => stream[p] \in Digit
       /\ s = "RL_VERSION_MINOR" => \/ p < end - 1 /\ stream[p] \in Digit
                                    \/ p = end - 1 /\ stream[p] = CR
       /\ s = "RL_CR_AFTER_VERSION" => stream[p] = LF
  BY <1>2, <1>7 DEF Aligned
<1>13. s \in LineStates => p =< end
  BY <1>1, <1>2 DEF Aligned, LineStates
<1> QED BY <1>8, <1>9, <1>10, <1>11, <1>12, <1>13 DEF Expected

\* The classes that must not overlap.
LEMMA CharacterClasses ==
  /\ SP \notin Alpha /\ SP \in Blank /\ "/" \in Text \ Blank
  /\ Blank \cap {"H", "h"} = {} /\ Blank \cap {"/"} = {}
  /\ {".", CR} \cap Digit = {}
BY DEF SP, TAB, CR, LF, Alpha, Text, Blank, Chars, Digit

\* A request line with these marks is not refused, and the parser stays with it.
LEMMA AlignedStep ==
  ASSUME stream \in Seq(Chars), rl \in LineArchive, next_parse_pos \in 1 .. Len(stream),
         SeenLine(state, next_parse_pos, rl),
         NEW m \in Methods, NEW u, NEW x, NEW v, NEW dot, NEW end,
         LineIs(m, u, x, v, dot, end),
         Aligned(state, next_parse_pos, rl, m, u, x, v, dot, end),
         NEW e \in RequestLineFSM, e.from = state, ch \in e.on
  PROVE  /\ ~Refuses(e)
         /\ Aligned(e.to, next_parse_pos + 1, OnRequestLine(e), m, u, x, v, dot, end)
<1> DEFINE p == next_parse_pos
           f == OnRequestLine(e)
<1>1. /\ f.method_begin = IF e.from = "RL_BEGIN" THEN p ELSE rl.method_begin
      /\ f.url_begin = IF e.from = "RL_SP_BEFORE_URL" /\ e.to = "RL_URL"
                         THEN p ELSE rl.url_begin
      /\ f.http_major = IF e.to = "RL_VERSION_MAJOR" THEN rl.http_major * 10 + DigitValue(ch)
                        ELSE rl.http_major
      /\ f.http_minor = IF e.to = "RL_VERSION_MINOR" THEN rl.http_minor * 10 + DigitValue(ch)
                        ELSE rl.http_minor
  BY LineEffect
<1>2. p \in Nat /\ p > 0 /\ ch = stream[p]
  BY DEF ch
<1>3. Expected(state, p, m, u, x, v, dot, end) /\ Aligned(state, p, rl, m, u, x, v, dot, end)
  BY <1>2, LineCharacters
<1>4. /\ u \in Nat /\ x \in Nat /\ v \in Nat /\ dot \in Nat /\ end \in Nat
      /\ m \in Methods /\ Len(m) \in Nat /\ Len(m) >= 1
      /\ Len(m) + 2 =< u /\ u < x /\ x < v /\ v + 6 =< dot /\ dot + 3 =< end
  <2>1. Len(m) \in Nat /\ Len(m) >= 1
    BY MethodWords
  <2> QED BY <2>1 DEF LineIs, UrlIs
<1>5. SeenLine(state, p, rl)
  OBVIOUS
<1> HIDE DEF p, f
<1>6. Aligned(e.to, p + 1, f, m, u, x, v, dot, end)
  <2>1. CASE e.from \in {"RL_BEGIN", "RL_METHOD"}
    BY <1>2, <1>3, <1>4, <2>1, LineEdges, CharacterClasses DEF Aligned, Expected
  <2>2. CASE e.from = "RL_SP_BEFORE_URL"
    <3>1. \/ p < u /\ e.to = "RL_SP_BEFORE_URL" /\ Len(m) + 2 =< p
          \/ p = u /\ e.to = "RL_URL" /\ f.url_begin = p
      BY <1>1, <1>2, <1>3, <2>2, LineEdges, CharacterClasses DEF Aligned, Expected
    <3> QED BY <1>2, <1>4, <3>1 DEF Aligned
  <2>7. CASE e.from = "RL_URL"
    <3>1. /\ u < p /\ f.url_begin = u
          /\ \/ p < x /\ e.to = "RL_URL"
             \/ p = x /\ e.to = "RL_SP_BEFORE_VERSION"
      BY <1>1, <1>2, <1>3, <2>7, LineEdges DEF Aligned, Expected
    <3>2. u \in Nat /\ x \in Nat /\ v \in Nat /\ x < v
      BY <1>4
    <3>3. CASE e.to = "RL_URL"
      BY <1>2, <3>1, <3>2, <3>3 DEF Aligned
    <3>4. CASE e.to = "RL_SP_BEFORE_VERSION"
      BY <1>2, <3>1, <3>2, <3>4 DEF Aligned
    <3> QED BY <3>1, <3>3, <3>4
  <2>3. CASE e.from = "RL_SP_BEFORE_VERSION"
    <3>1. /\ x < p
          /\ \/ p < v /\ e.to = "RL_SP_BEFORE_VERSION"
             \/ p = v /\ e.to = "RL_VERSION_H"
      BY <1>2, <1>3, <2>3, LineEdges, CharacterClasses DEF Aligned, Expected
    <3> QED BY <1>2, <1>4, <3>1 DEF Aligned
  <2>4. CASE e.from \in {"RL_VERSION_H", "RL_VERSION_HT", "RL_VERSION_HTT",
                         "RL_VERSION_HTTP"}
    BY <1>2, <1>3, <1>4, <2>4, LineEdges DEF Aligned
  <2>5. CASE e.from \in {"RL_VERSION_HTTP_SLASH", "RL_VERSION_MAJOR"}
    BY <1>2, <1>3, <1>4, <2>5, LineEdges, CharacterClasses DEF Aligned, Expected
  <2>6. CASE e.from \in {"RL_VERSION_DOT", "RL_VERSION_MINOR", "RL_CR_AFTER_VERSION"}
    BY <1>2, <1>3, <1>4, <2>6, LineEdges, CharacterClasses DEF Aligned, Expected
  <2> QED BY <2>1, <2>2, <2>3, <2>4, <2>5, <2>6, <2>7, LineEdges
<1>7. EndsMethod(e) => parse_method(rl.method_begin, p)
  <2> SUFFICES ASSUME EndsMethod(e) PROVE parse_method(rl.method_begin, p)
    OBVIOUS
  <2>1. state = "RL_METHOD" /\ ch = SP
    BY LineEdges DEF EndsMethod
  <2>2. p = Len(m) + 1 /\ rl.method_begin = 1
    BY <1>2, <1>3, <1>5, <2>1, CharacterClasses DEF Expected, SeenLine
  <2>3. SubSeq(stream, 1, Len(m)) = m /\ p - 1 = Len(m)
    BY <1>4, <2>2, PrefixMeans DEF LineIs
  <2> QED BY <1>4, <2>2, <2>3 DEF parse_method
<1>8. EndsUrl(e) => UrlIsAbsolute
  <2> SUFFICES ASSUME EndsUrl(e) PROVE UrlIsAbsolute
    OBVIOUS
  <2>1. rl.url_begin = u
    BY <1>3 DEF EndsUrl, Aligned
  <2> QED BY <2>1 DEF UrlIsAbsolute, LineIs, UrlIs
<1>9. e.from = "RL_VERSION_MAJOR" /\ ch \in Digit => ~(f.http_major > 1)
  <2> SUFFICES ASSUME e.from = "RL_VERSION_MAJOR", ch \in Digit PROVE ~(f.http_major > 1)
    OBVIOUS
  <2>1. e.to = "RL_VERSION_MAJOR"
    BY LineEdges, CharacterClasses
  <2>2. v + 6 =< p /\ p < dot
    BY <1>2, <1>3, CharacterClasses DEF Aligned, Expected
  <2>3. rl.http_major = DigitValue(stream[p - 1])
    BY <1>5 DEF SeenLine
  <2>4. stream[p - 1] = "0" /\ stream[p] \in {"0", "1"}
    <3>1. AllIn({"0"}, v + 5, dot - 1) /\ stream[dot - 1] \in {"0", "1"}
      BY <1>2, <1>4, <2>2 DEF LineIs, Number
    <3>2. \/ p - 1 \in v + 5 .. dot - 1 - 1 /\ p \in v + 5 .. dot - 1 - 1
          \/ p - 1 \in v + 5 .. dot - 1 - 1 /\ p = dot - 1
      <4>1. dot \in Nat /\ v \in Nat /\ p \in Nat
        BY <1>2, <1>4
      <4> QED BY <2>2, <4>1
    <3> QED BY <3>1, <3>2 DEF AllIn
  <2>5. DigitValue(stream[p - 1]) = 0 /\ DigitValue(ch) \in {0, 1}
    BY <1>2, <2>4 DEF DigitValue
  <2> QED BY <1>1, <2>1, <2>3, <2>5
<1>10. e.from = "RL_VERSION_MINOR" /\ ch \in Digit => ~(f.http_minor > 1)
  <2> SUFFICES ASSUME e.from = "RL_VERSION_MINOR", ch \in Digit PROVE ~(f.http_minor > 1)
    OBVIOUS
  <2>1. e.to = "RL_VERSION_MINOR"
    BY LineEdges, CharacterClasses
  <2>2. dot + 2 =< p /\ p < end - 1
    BY <1>2, <1>3, CharacterClasses DEF Aligned, Expected
  <2>3. rl.http_minor = DigitValue(stream[p - 1])
    BY <1>5 DEF SeenLine
  <2>4. stream[p - 1] = "0" /\ stream[p] \in {"0", "1"}
    <3>1. AllIn({"0"}, dot + 1, end - 1 - 1) /\ stream[end - 1 - 1] \in {"0", "1"}
      <4>1. Number(dot + 1, end - 1) /\ end - 1 - (dot + 1) > 1
        BY <1>2, <1>4, <2>2 DEF LineIs
      <4> QED BY <4>1 DEF Number
    <3>2. \/ p - 1 \in dot + 1 .. end - 1 - 1 - 1 /\ p \in dot + 1 .. end - 1 - 1 - 1
          \/ p - 1 \in dot + 1 .. end - 1 - 1 - 1 /\ p = end - 1 - 1
      <4>1. dot \in Nat /\ end \in Nat /\ p \in Nat
        BY <1>2, <1>4
      <4> QED BY <2>2, <4>1
    <3> QED BY <3>1, <3>2 DEF AllIn
  <2>5. DigitValue(stream[p - 1]) = 0 /\ DigitValue(ch) \in {0, 1}
    BY <1>2, <2>4 DEF DigitValue
  <2> QED BY <1>1, <2>1, <2>3, <2>5
<1>11. ~Refuses(e)
  BY <1>7, <1>8, <1>9, <1>10 DEF Refuses, p, f
<1> QED BY <1>6, <1>11 DEF p, f

\* What is known of the input stays known: the stream does not change.
LEMMA SameStream ==
  ASSUME stream' = stream
  PROVE  /\ \A S, i, j : AllIn(S, i, j)' <=> AllIn(S, i, j)
         /\ \A i, j : Number(i, j)' <=> Number(i, j)
         /\ \A m : MethodIs(m)' <=> MethodIs(m)
         /\ \A m, u, e : UrlIs(m, u, e)' <=> UrlIs(m, u, e)
         /\ \A v : UpTo(v)' <=> UpTo(v)
         /\ \A n, v : Spelled(n, v)' <=> Spelled(n, v)
         /\ \A d : UpToDot(d)' <=> UpToDot(d)
         /\ \A m, u, e, v, dot, end :
              LineIs(m, u, e, v, dot, end)' <=> LineIs(m, u, e, v, dot, end)
<1>1. \A S, i, j : AllIn(S, i, j)' <=> AllIn(S, i, j)
  BY DEF AllIn
<1>2. \A i, j : Number(i, j)' <=> Number(i, j)
  BY <1>1 DEF Number
<1>3. \A m : MethodIs(m)' <=> MethodIs(m)
  BY DEF MethodIs
<1>4. \A m, u, e : UrlIs(m, u, e)' <=> UrlIs(m, u, e)
  BY <1>1 DEF UrlIs
<1>5. \A v : UpTo(v)' <=> UpTo(v)
  BY <1>1, <1>3, <1>4 DEF UpTo
<1>6. \A n, v : Spelled(n, v)' <=> Spelled(n, v)
  BY DEF Spelled
<1>7. \A d : UpToDot(d)' <=> UpToDot(d)
  BY <1>2, <1>5, <1>6 DEF UpToDot
<1>8. \A m, u, e, v, dot, end :
        LineIs(m, u, e, v, dot, end)' <=> LineIs(m, u, e, v, dot, end)
  BY <1>1, <1>2, <1>3, <1>4, <1>6 DEF LineIs
<1> QED BY <1>1, <1>2, <1>3, <1>4, <1>5, <1>6, <1>7, <1>8

\* What has been seen depends on the stream, the position and the record only.
LEMMA SeenSame ==
  ASSUME stream' = stream, SeenLine(state', next_parse_pos', rl')
  PROVE  SeenLine(state, next_parse_pos, rl)'
<1>1. /\ state' = "RL_BEGIN" => next_parse_pos' = 1
      /\ state' = "RL_METHOD" => next_parse_pos' > 1 /\ rl'.method_begin = 1
      /\ state' \in EarlyStates => rl'.http_major = 0
      /\ state' \in EarlyStates \cup {"RL_VERSION_MAJOR", "RL_VERSION_DOT"} =>
           rl'.http_minor = 0
  BY DEF SeenLine
<1>2. state' = "RL_SP_BEFORE_URL" =>
        (\E m \in Methods : /\ MethodIs(m) /\ Len(m) + 2 =< next_parse_pos
                            /\ AllIn(Blank, Len(m) + 2, next_parse_pos))'
  BY SameStream DEF SeenLine
<1>3. state' = "RL_URL" =>
        (\E m \in Methods : /\ MethodIs(m) /\ Len(m) + 2 =< rl.url_begin
                            /\ rl.url_begin < next_parse_pos
                            /\ AllIn(Blank, Len(m) + 2, rl.url_begin)
                            /\ AllIn(Text \ Blank, rl.url_begin, next_parse_pos))'
  BY SameStream DEF SeenLine
<1>4. /\ state' = "RL_SP_BEFORE_VERSION" => UpTo(next_parse_pos)'
      /\ state' = "RL_VERSION_H" => (UpTo(next_parse_pos - 1) /\ Spelled(1, next_parse_pos - 1))'
      /\ state' = "RL_VERSION_HT" => (UpTo(next_parse_pos - 2) /\ Spelled(2, next_parse_pos - 2))'
      /\ state' = "RL_VERSION_HTT" => (UpTo(next_parse_pos - 3) /\ Spelled(3, next_parse_pos - 3))'
      /\ state' = "RL_VERSION_HTTP" => (UpTo(next_parse_pos - 4) /\ Spelled(4, next_parse_pos - 4))'
      /\ state' = "RL_VERSION_HTTP_SLASH" =>
           (UpTo(next_parse_pos - 5) /\ Spelled(5, next_parse_pos - 5))'
      /\ state' = "RL_VERSION_DOT" => UpToDot(next_parse_pos - 1)'
  BY SameStream DEF SeenLine
<1>5. state' = "RL_VERSION_MAJOR" =>
       (\E v \in Nat : /\ UpTo(v) /\ Spelled(5, v) /\ v + 6 =< next_parse_pos
                       /\ Number(v + 5, next_parse_pos)
                       /\ rl.http_major = DigitValue(stream[next_parse_pos - 1]))'
  BY SameStream DEF SeenLine
<1>6. state' = "RL_VERSION_MINOR" =>
       (\E dot \in Nat : /\ UpToDot(dot) /\ dot + 2 =< next_parse_pos
                         /\ Number(dot + 1, next_parse_pos)
                         /\ rl.http_minor = DigitValue(stream[next_parse_pos - 1]))'
  BY SameStream DEF SeenLine
<1>7. state' = "RL_CR_AFTER_VERSION" =>
       (\E dot \in Nat : /\ UpToDot(dot) /\ dot + 3 =< next_parse_pos
                         /\ Number(dot + 1, next_parse_pos - 1)
                         /\ stream[next_parse_pos - 1] = CR)'
  BY SameStream DEF SeenLine
<1> QED BY <1>1, <1>2, <1>3, <1>4, <1>5, <1>6, <1>7 DEF SeenLine

\* There is a transition for the character that the line has there.
LEMMA LineGoesOn ==
  ASSUME NEW m, NEW u, NEW x, NEW v, NEW dot, NEW end, state \in LineStates,
         Expected(state, next_parse_pos, m, u, x, v, dot, end)
  PROVE  Edges(RequestLineFSM) # {}
<1>1. ASSUME NEW S, NEW t, Edge(state, S, t) \in RequestLineFSM, ch \in S
      PROVE  Edges(RequestLineFSM) # {}
  <2>1. Edge(state, S, t).from = state /\ Edge(state, S, t).on = S
    BY DEF Edge
  <2> QED BY <1>1, <2>1 DEF Edges
<1>2. "/" \in Text \ Blank
  BY CharacterClasses
<1>3. CASE state \in {"RL_BEGIN", "RL_METHOD"}
  <2>1. /\ Edge("RL_BEGIN", Alpha, "RL_METHOD") \in RequestLineFSM
        /\ Edge("RL_METHOD", Alpha, "RL_METHOD") \in RequestLineFSM
        /\ Edge("RL_METHOD", {SP}, "RL_SP_BEFORE_URL") \in RequestLineFSM
    BY DEF RequestLineFSM
  <2>2. ch \in Alpha \/ (state = "RL_METHOD" /\ ch \in {SP})
    BY <1>3 DEF Expected, ch
  <2> QED BY <1>1, <1>3, <2>1, <2>2
<1>4. CASE state = "RL_SP_BEFORE_URL"
  <2>1. /\ Edge("RL_SP_BEFORE_URL", Blank, "RL_SP_BEFORE_URL") \in RequestLineFSM
        /\ Edge("RL_SP_BEFORE_URL", Text \ Blank, "RL_URL") \in RequestLineFSM
    BY DEF RequestLineFSM
  <2>2. ch \in Blank \/ ch \in Text \ Blank
    BY <1>2, <1>4 DEF Expected, ch
  <2> QED BY <1>1, <1>4, <2>1, <2>2
<1>5. CASE state = "RL_URL"
  <2>1. /\ Edge("RL_URL", Blank, "RL_SP_BEFORE_VERSION") \in RequestLineFSM
        /\ Edge("RL_URL", Text \ Blank, "RL_URL") \in RequestLineFSM
    BY DEF RequestLineFSM
  <2>2. ch \in Blank \/ ch \in Text \ Blank
    BY <1>5 DEF Expected, ch
  <2> QED BY <1>1, <1>5, <2>1, <2>2
<1>6. CASE state = "RL_SP_BEFORE_VERSION"
  <2>1. /\ Edge("RL_SP_BEFORE_VERSION", Blank, "RL_SP_BEFORE_VERSION") \in RequestLineFSM
        /\ Edge("RL_SP_BEFORE_VERSION", {"H", "h"}, "RL_VERSION_H") \in RequestLineFSM
    BY DEF RequestLineFSM
  <2>2. ch \in Blank \/ ch \in {"H", "h"}
    BY <1>6 DEF Expected, ch
  <2> QED BY <1>1, <1>6, <2>1, <2>2
<1>7. CASE state \in {"RL_VERSION_H", "RL_VERSION_HT", "RL_VERSION_HTT", "RL_VERSION_HTTP",
                      "RL_VERSION_HTTP_SLASH"}
  <2>1. /\ Edge("RL_VERSION_H", {"T", "t"}, "RL_VERSION_HT") \in RequestLineFSM
        /\ Edge("RL_VERSION_HT", {"T", "t"}, "RL_VERSION_HTT") \in RequestLineFSM
        /\ Edge("RL_VERSION_HTT", {"P", "p"}, "RL_VERSION_HTTP") \in RequestLineFSM
        /\ Edge("RL_VERSION_HTTP", {"/"}, "RL_VERSION_HTTP_SLASH") \in RequestLineFSM
        /\ Edge("RL_VERSION_HTTP_SLASH", Digit, "RL_VERSION_MAJOR") \in RequestLineFSM
    BY DEF RequestLineFSM
  <2>2. /\ state \in {"RL_VERSION_H", "RL_VERSION_HT"} => ch \in {"T", "t"}
        /\ state = "RL_VERSION_HTT" => ch \in {"P", "p"}
        /\ state = "RL_VERSION_HTTP" => ch \in {"/"}
        /\ state = "RL_VERSION_HTTP_SLASH" => ch \in Digit
    BY DEF Expected, ch
  <2> QED BY <1>1, <1>7, <2>1, <2>2
<1>8. CASE state \in {"RL_VERSION_MAJOR", "RL_VERSION_DOT"}
  <2>1. /\ Edge("RL_VERSION_MAJOR", Digit, "RL_VERSION_MAJOR") \in RequestLineFSM
        /\ Edge("RL_VERSION_MAJOR", {"."}, "RL_VERSION_DOT") \in RequestLineFSM
        /\ Edge("RL_VERSION_DOT", Digit, "RL_VERSION_MINOR") \in RequestLineFSM
    BY DEF RequestLineFSM
  <2>2. ch \in Digit \/ (state = "RL_VERSION_MAJOR" /\ ch \in {"."})
    BY <1>8 DEF Expected, ch
  <2> QED BY <1>1, <1>8, <2>1, <2>2
<1>9. CASE state \in {"RL_VERSION_MINOR", "RL_CR_AFTER_VERSION"}
  <2>1. /\ Edge("RL_VERSION_MINOR", Digit, "RL_VERSION_MINOR") \in RequestLineFSM
        /\ Edge("RL_VERSION_MINOR", {CR}, "RL_CR_AFTER_VERSION") \in RequestLineFSM
        /\ Edge("RL_CR_AFTER_VERSION", {LF}, "RL_LF_AFTER_VERSION") \in RequestLineFSM
    BY DEF RequestLineFSM
  <2>2. /\ state = "RL_VERSION_MINOR" => ch \in Digit \/ ch \in {CR}
        /\ state = "RL_CR_AFTER_VERSION" => ch \in {LF}
    BY <1>9 DEF Expected, ch
  <2> QED BY <1>1, <1>9, <2>1, <2>2
<1> QED BY <1>3, <1>4, <1>5, <1>6, <1>7, <1>8, <1>9 DEF LineStates

-----------------------------------------------------------------------------
(* parse_url.                                                              *)

\* A set of numbers has a smallest one.
LEMMA Smallest ==
  ASSUME NEW S, S \subseteq Nat, S # {}
  PROVE  Min(S) \in S /\ \A y \in S : Min(S) =< y
<1>1. PICK x \in S : \A y \in S : <<y, x>> \notin OpToRel(<, Nat)
  BY NatLessThanWellFounded, WFMin
<1>2. ASSUME NEW y \in S PROVE x =< y
  <2>1. <<y, x>> \in Nat \X Nat /\ <<y, x>>[1] = y /\ <<y, x>>[2] = x
    OBVIOUS
  <2>2. ~(y < x)
    BY <1>1, <2>1, Zenon DEF OpToRel
  <2> QED BY <2>2
<1> QED BY <1>2 DEF Min

\* A bounded set of numbers has a largest one.
LEMMA Largest ==
  ASSUME NEW S, NEW b \in Nat, S \subseteq Nat, S # {}, \A y \in S : y =< b
  PROVE  Max(S) \in S /\ \A y \in S : y =< Max(S)
<1> DEFINE T == {b - y : y \in S}
<1>1. T \subseteq Nat /\ T # {}
  <2>1. PICK x \in S : TRUE
    OBVIOUS
  <2>2. b - x \in T
    OBVIOUS
  <2>3. \A y \in S : b - y \in Nat
    OBVIOUS
  <2> QED BY <2>2, <2>3
<1>2. PICK t \in T : \A y \in T : t =< y
  BY <1>1, Smallest
<1>3. PICK x \in S : t = b - x
  OBVIOUS
<1>4. \A y \in S : x >= y
  BY <1>2, <1>3
<1>5. Max(S) \in S /\ \A y \in S : Max(S) >= y
  BY <1>4 DEF Max
<1> QED BY <1>5

\* The loop of parse_url that looks for "?" finds the first one.
LEMMA FirstMark ==
  ASSUME NEW a \in Nat, NEW z \in Nat
  PROVE  LET q == SelectInSubSeq(stream, a, z - 1, LAMBDA c : c = "?") IN
    \/ q = 0 /\ \A k \in a .. z - 1 : stream[k] # "?"
    \/ /\ q \in a .. z - 1 /\ stream[q] = "?"
       /\ \A k \in a .. q - 1 : stream[k] # "?"
<1> DEFINE I == {i \in a .. z - 1 : stream[i] = "?"}
           q == SelectInSubSeq(stream, a, z - 1, LAMBDA c : c = "?")
<1>1. q = IF I # {} THEN Min(I) ELSE 0
  BY DEF SelectInSubSeq
<1>2. I \subseteq Nat
  OBVIOUS
<1>3. CASE I = {}
  BY <1>1, <1>3
<1>4. CASE I # {}
  <2>1. q \in I /\ \A y \in I : q =< y
    <3> HIDE DEF I
    <3> QED BY <1>1, <1>2, <1>4, Smallest
  <2> HIDE DEF q
  <2>2. \A k \in a .. q - 1 : stream[k] # "?"
    BY <2>1
  <2> QED BY <2>1, <2>2 DEF q
<1> QED BY <1>3, <1>4

\* The loop over the path ends with the last "." or "/".
LEMMA LastDot ==
  ASSUME NEW a \in Nat, NEW z \in Nat
  PROVE  LET d == SelectLastInSubSeq(stream, a, z - 1, LAMBDA c : c \in {".", "/"}) IN
    \/ d = 0 /\ \A k \in a .. z - 1 : stream[k] \notin {".", "/"}
    \/ /\ d \in a .. z - 1 /\ stream[d] \in {".", "/"}
       /\ \A k \in d + 1 .. z - 1 : stream[k] \notin {".", "/"}
<1> DEFINE I == {i \in a .. z - 1 : stream[i] \in {".", "/"}}
           d == SelectLastInSubSeq(stream, a, z - 1, LAMBDA c : c \in {".", "/"})
<1>1. d = IF I # {} THEN Max(I) ELSE 0
  BY DEF SelectLastInSubSeq
<1>2. I \subseteq Nat /\ \A y \in I : y =< z
  OBVIOUS
<1>3. CASE I = {}
  BY <1>1, <1>3
<1>4. CASE I # {}
  <2>1. d \in I /\ \A y \in I : y =< d
    <3> HIDE DEF I
    <3> QED BY <1>1, <1>2, <1>4, Largest
  <2> HIDE DEF d
  <2>2. \A k \in d + 1 .. z - 1 : stream[k] \notin {".", "/"}
    BY <2>1
  <2> QED BY <2>1, <2>2 DEF d
<1> QED BY <1>3, <1>4

\* The parts of a URL that a space ended (the right-hand side of UrlExact).
UrlDivided(p, q, x, begin) ==
  /\ p[1] = begin /\ stream[q[2]] = SP
  /\ p[1] < p[2] /\ AllIn(Text \ (Blank \cup {"?"}), p[1], p[2])
  /\ \/ q[1] = q[2] /\ q[1] = p[2]
     \/ q[1] = p[2] + 1 /\ stream[p[2]] = "?" /\ AllIn(Text \ Blank, q[1], q[2])
  /\ IF x = Unset
       THEN \E i \in p[1] .. p[2] - 1 :
              stream[i] = "/" /\ AllIn(Text \ {".", "/"}, i + 1, p[2])
       ELSE /\ p[1] + 1 < x[1] /\ stream[x[1] - 1] = "." /\ x[2] = p[2]
            /\ AllIn(Text \ {".", "/"}, x[1], x[2])

\* parse_url divides a URL that a space ended as UrlExact says.
LEMMA UrlParts ==
  ASSUME NEW begin \in Nat, NEW end \in Nat, begin < end, begin > 0, stream[begin] = "/",
         AllIn(Text \ Blank, begin, end), rl \in LineArchive,
         rl.abs_path = Unset, rl.query_string = Unset, rl.mime_extension = Unset
  PROVE  LET f == parse_url(begin, end) IN
           /\ f \in LineArchive
           /\ f.query_string # Unset =>
                UrlDivided(f.abs_path, f.query_string, f.mime_extension, begin)
<1> DEFINE q == SelectInSubSeq(stream, begin, end - 1, LAMBDA c : c = "?")
           closed == stream[end] = SP
           path == IF q # 0 THEN <<begin, q>>
                   ELSE IF closed THEN <<begin, end>> ELSE rl.abs_path
           query == IF ~closed THEN rl.query_string
                    ELSE IF q # 0 THEN <<q + 1, end>> ELSE <<end, end>>
           dot == SelectLastInSubSeq(stream, path[1] + 1, path[2] - 1,
                                     LAMBDA c : c \in {".", "/"})
           ext == IF dot # 0 /\ stream[dot] = "." THEN <<dot + 1, path[2]>>
                  ELSE rl.mime_extension
           f == parse_url(begin, end)
<1>1. f = [rl EXCEPT !.abs_path = path, !.query_string = query, !.mime_extension = ext]
  BY Zenon DEF parse_url
<1>2. \/ q = 0 /\ \A k \in begin .. end - 1 : stream[k] # "?"
      \/ /\ q \in begin .. end - 1 /\ stream[q] = "?"
         /\ \A k \in begin .. q - 1 : stream[k] # "?"
  BY FirstMark
<1> HIDE DEF q
<1>3. q \in Nat /\ (q # 0 => begin < q /\ q < end)
  <2>1. "?" # "/"
    OBVIOUS
  <2> QED BY <1>2, <2>1
<1>4. path \in Nat \X Nat /\ query \in Nat \X Nat
  BY <1>3 DEF LineArchive
<1> DEFINE p1 == path[1]
           p2 == path[2]
<1>5. p1 \in Nat /\ p2 \in Nat /\ path = <<p1, p2>>
  <2> HIDE DEF path
  <2> QED BY <1>4
<1>6. \/ dot = 0 /\ \A k \in p1 + 1 .. p2 - 1 : stream[k] \notin {".", "/"}
      \/ /\ dot \in p1 + 1 .. p2 - 1 /\ stream[dot] \in {".", "/"}
         /\ \A k \in dot + 1 .. p2 - 1 : stream[k] \notin {".", "/"}
  <2>1. p1 + 1 \in Nat
    BY <1>5
  <2> HIDE DEF path
  <2> QED BY <1>5, <2>1, LastDot
<1> HIDE DEF path, dot
<1>7. dot \in Nat
  BY <1>5, <1>6
<1>8. ext \in Nat \X Nat
  BY <1>5, <1>7 DEF LineArchive
<1> HIDE DEF query, ext, f
<1>9. f \in LineArchive
  BY <1>1, <1>4, <1>8, Zenon DEF LineArchive
<1>10. f.abs_path = path /\ f.query_string = query /\ f.mime_extension = ext
  BY <1>1, Zenon DEF LineArchive
<1>11. ASSUME query # Unset PROVE UrlDivided(path, query, ext, begin)
  <2>1. closed
    BY <1>11 DEF query
  <2>2. p1 = begin /\ p2 = (IF q # 0 THEN q ELSE end)
    BY <2>1 DEF path
  <2>3. query[2] = end /\ query[1] = (IF q # 0 THEN q + 1 ELSE end)
    BY <2>1 DEF query
  <2>4. p1 < p2 /\ AllIn(Text \ (Blank \cup {"?"}), p1, p2)
    <3>1. \A k \in begin .. end - 1 : stream[k] \in Text \ Blank
      BY DEF AllIn
    <3>2. CASE q = 0
      BY <1>2, <2>2, <3>1, <3>2 DEF AllIn
    <3>3. CASE q # 0
      BY <1>2, <1>3, <2>2, <3>1, <3>3 DEF AllIn
    <3> QED BY <3>2, <3>3
  <2>5. \/ query[1] = query[2] /\ query[1] = p2
        \/ query[1] = p2 + 1 /\ stream[p2] = "?" /\ AllIn(Text \ Blank, query[1], query[2])
    <3>1. CASE q = 0
      BY <2>2, <2>3, <3>1
    <3>2. CASE q # 0
      <4>1. AllIn(Text \ Blank, q + 1, end)
        BY <1>3, <3>2 DEF AllIn
      <4>2. stream[q] = "?"
        BY <1>2, <3>2
      <4> QED BY <2>2, <2>3, <3>2, <4>1, <4>2
    <3> QED BY <3>1, <3>2
  <2>6. \A k \in p1 .. p2 - 1 : stream[k] \in Text
    BY <2>4 DEF AllIn
  <2>7. CASE dot # 0 /\ stream[dot] = "."
    <3>1. ext = <<dot + 1, p2>>
      BY <2>7 DEF ext
    <3>2. ext[1] = dot + 1 /\ ext[2] = p2 /\ ext # Unset
      BY <1>7, <3>1 DEF Unset
    <3>3. dot \in p1 + 1 .. p2 - 1 /\ \A k \in dot + 1 .. p2 - 1 : stream[k] \notin {".", "/"}
      BY <1>6, <2>7
    <3>4. p1 + 1 < dot + 1 /\ dot + 1 - 1 = dot
      BY <1>5, <1>7, <3>3
    <3>5. AllIn(Text \ {".", "/"}, dot + 1, p2)
      BY <1>5, <1>7, <2>6, <3>3 DEF AllIn
    <3>6. stream[ext[1] - 1] = "."
      <4>1. ext[1] - 1 = dot
        BY <1>7, <3>2
      <4> QED BY <2>7, <4>1
    <3> QED BY <2>1, <2>2, <2>3, <2>4, <2>5, <3>2, <3>4, <3>5, <3>6 DEF UrlDivided
  <2>8. CASE ~(dot # 0 /\ stream[dot] = ".")
    <3>1. ext = Unset
      BY <2>8 DEF ext
    <3>2. \E i \in p1 .. p2 - 1 : stream[i] = "/" /\ AllIn(Text \ {".", "/"}, i + 1, p2)
      <4>1. CASE dot = 0 /\ \A k \in p1 + 1 .. p2 - 1 : stream[k] \notin {".", "/"}
        <5>1. AllIn(Text \ {".", "/"}, p1 + 1, p2)
          BY <1>5, <2>6, <4>1 DEF AllIn
        <5> QED BY <1>5, <2>2, <2>4, <5>1
      <4>2. CASE /\ dot \in p1 + 1 .. p2 - 1 /\ stream[dot] \in {".", "/"}
                 /\ \A k \in dot + 1 .. p2 - 1 : stream[k] \notin {".", "/"}
        <5>1. AllIn(Text \ {".", "/"}, dot + 1, p2)
          BY <1>5, <1>7, <2>6, <4>2 DEF AllIn
        <5>2. dot # 0
          BY <1>5, <4>2
        <5>3. stream[dot] = "/"
          BY <2>8, <4>2, <5>2
        <5>4. dot \in p1 .. p2 - 1
          BY <1>5, <4>2
        <5> QED BY <5>1, <5>3, <5>4
      <4> QED BY <1>6, <4>1, <4>2
    <3> QED BY <2>1, <2>2, <2>3, <2>4, <2>5, <3>1, <3>2 DEF UrlDivided
  <2> QED BY <2>7, <2>8
<1> QED BY <1>9, <1>10, <1>11 DEF f

-----------------------------------------------------------------------------
(* Header lines.                                                           *)

HeaderArchive ==
  [line_begin : Nat, colon_pos : Nat, val_begin : Nat, val_end : Nat,
   isCRLF_LINE : BOOLEAN, name : Nat \X Nat, value : Nat \X Nat]

\* The edges of the header automaton.
LEMMA HeaderEdges ==
  ASSUME NEW e \in HeaderFSM
  PROVE  \/ e.from = "HD_BEGIN" /\ e.on = Name /\ e.to = "HD_NAME"
         \/ e.from = "HD_BEGIN" /\ e.on = {CR} /\ e.to = "HD_CR_AFTER_VAL"
         \/ e.from = "HD_BEGIN" /\ e.on = Blank /\ e.to = "HD_BEGIN"
         \/ e.from = "HD_NAME" /\ e.on = Name /\ e.to = "HD_NAME"
         \/ e.from = "HD_NAME" /\ e.on = {":"} /\ e.to = "HD_COLON"
         \/ e.from = "HD_COLON" /\ e.on = Blank /\ e.to = "HD_SP_BEFORE_VAL"
         \/ e.from = "HD_COLON" /\ e.on = Text \ Blank /\ e.to = "HD_VAL"
         \/ e.from = "HD_SP_BEFORE_VAL" /\ e.on = Blank /\ e.to = "HD_SP_BEFORE_VAL"
         \/ e.from = "HD_SP_BEFORE_VAL" /\ e.on = Text \ Blank /\ e.to = "HD_VAL"
         \/ e.from = "HD_VAL" /\ e.on = {CR} /\ e.to = "HD_CR_AFTER_VAL"
         \/ e.from = "HD_VAL" /\ e.on = {LF} /\ e.to = "HD_LF_AFTER_VAL"
         \/ e.from = "HD_VAL" /\ e.on = Text /\ e.to = "HD_VAL"
         \/ e.from = "HD_CR_AFTER_VAL" /\ e.on = {LF} /\ e.to = "HD_LF_AFTER_VAL"
         \/ e.from = "HD_LF_AFTER_VAL" /\ e.on = Chars /\ e.to = "HD_LF_AFTER_VAL"
BY DEF HeaderFSM, Edge

-----------------------------------------------------------------------------
(* The strings of HEADER_SET.                                              *)

NameInOrder == hd.line_begin =< hd.colon_pos
ValueInOrder == hd.val_begin =< hd.val_end

\* How far into the line each state of parse_header_line has set the positions
\* that HEADER_SET reads.
MarksInOrder ==
  /\ next_parse_pos \in Nat \ {0}
  /\ hd \in HeaderArchive
  /\ \A m \in {hd.line_begin, hd.colon_pos, hd.val_begin, hd.val_end} :
       m < next_parse_pos
  /\ phase = "line" => NameInOrder /\ ValueInOrder
  /\ phase = "headers" /\ state # "HD_NAME" => NameInOrder
  /\ phase = "headers" /\ state \in {"HD_BEGIN", "HD_CR_AFTER_VAL"} => ValueInOrder

ParserInv == MarksInOrder /\ HeaderSetInOrder

\* The marks are 0 when the connection is accepted.
LEMMA ParserInit == Init => ParserInv
BY DEF Init, parse_archive_init, Unset, ParserInv, MarksInOrder, HeaderArchive,
   NameInOrder, ValueInOrder, HeaderSetInOrder

\* A transition of the header automaton keeps the positions in order.
LEMMA HeaderStep ==
  ASSUME ParserInv, phase = "headers", phase' = "headers",
         NEW e \in HeaderFSM, e.from = state, e.from # "HD_CR_AFTER_VAL",
         state' = e.to, hd' = OnHeader(e), next_parse_pos' = next_parse_pos + 1
  PROVE  ParserInv'
<1> USE DEF ParserInv, MarksInOrder, HeaderArchive, NameInOrder, ValueInOrder,
            HeaderSetInOrder
<1>1. CASE e.from = "HD_BEGIN" /\ e.to = "HD_NAME"
  <2>1. hd' = [hd EXCEPT !.line_begin = next_parse_pos, !.isCRLF_LINE = FALSE]
    BY <1>1 DEF OnHeader
  <2>2. hd' \in HeaderArchive
    BY <2>1, Zenon
  <2>3. /\ hd'.line_begin = next_parse_pos /\ hd'.colon_pos = hd.colon_pos
        /\ hd'.val_begin = hd.val_begin /\ hd'.val_end = hd.val_end
        /\ hd'.name = hd.name /\ hd'.value = hd.value
    BY <2>1
  <2> QED BY <1>1, <2>2, <2>3
<1>2. CASE e.from = "HD_BEGIN" /\ e.to = "HD_CR_AFTER_VAL"
  <2>1. hd' = [hd EXCEPT !.isCRLF_LINE = TRUE]
    BY <1>2 DEF OnHeader
  <2>2. hd' \in HeaderArchive
    BY <2>1, Zenon
  <2>3. /\ hd'.line_begin = hd.line_begin /\ hd'.colon_pos = hd.colon_pos
        /\ hd'.val_begin = hd.val_begin /\ hd'.val_end = hd.val_end
        /\ hd'.name = hd.name /\ hd'.value = hd.value
    BY <2>1
  <2> QED BY <1>2, <2>2, <2>3
<1>3. CASE e.from = "HD_NAME" /\ e.to = "HD_COLON"
  <2>1. hd' = [hd EXCEPT !.colon_pos = next_parse_pos]
    BY <1>3 DEF OnHeader
  <2> QED BY <1>3, <2>1
<1>4. CASE e.from \in {"HD_COLON", "HD_SP_BEFORE_VAL"} /\ e.to = "HD_VAL"
  <2>1. hd' = [hd EXCEPT !.val_begin = next_parse_pos]
    BY <1>4 DEF OnHeader
  <2> QED BY <1>4, <2>1
<1>5. CASE e.from = "HD_VAL" /\ e.to = "HD_CR_AFTER_VAL"
  <2>1. hd' = [hd EXCEPT !.val_end = next_parse_pos]
    BY <1>5 DEF OnHeader
  <2> QED BY <1>5, <2>1
<1>6. CASE \/ e.from = "HD_BEGIN" /\ e.to = "HD_BEGIN"
           \/ e.from = "HD_NAME" /\ e.to = "HD_NAME"
           \/ e.from \in {"HD_COLON", "HD_SP_BEFORE_VAL"} /\ e.to = "HD_SP_BEFORE_VAL"
           \/ e.from = "HD_VAL" /\ e.to \in {"HD_LF_AFTER_VAL", "HD_VAL"}
           \/ e.from = "HD_LF_AFTER_VAL" /\ e.to = "HD_LF_AFTER_VAL"
  <2>1. hd' = hd
    BY <1>6 DEF OnHeader
  <2> QED BY <1>6, <2>1
<1> QED BY <1>1, <1>2, <1>3, <1>4, <1>5, <1>6, HeaderEdges

\* Nor does the end of a line: HEADER_SET finds the positions in order.
LEMMA HeaderEnds ==
  ASSUME ParserInv, phase = "headers", state = "HD_CR_AFTER_VAL",
         hd' = HEADER_SET, next_parse_pos' = next_parse_pos + 1
  PROVE  ParserInv'
<1> USE DEF ParserInv, MarksInOrder, HeaderArchive, NameInOrder, ValueInOrder,
            HeaderSetInOrder
<1>1. /\ hd'.name = <<hd.line_begin, hd.colon_pos>>
      /\ hd'.value = <<hd.val_begin, hd.val_end>>
      /\ hd'.line_begin = hd.line_begin /\ hd'.colon_pos = hd.colon_pos
      /\ hd'.val_begin = hd.val_begin /\ hd'.val_end = hd.val_end
  BY DEF HEADER_SET
<1>2. hd' \in HeaderArchive
  BY DEF HEADER_SET
<1> QED BY <1>1, <1>2

\* Every step keeps the marks in order.
LEMMA ParserNext == ParserInv /\ [Next]_vars => ParserInv'
<1> SUFFICES ASSUME ParserInv, [Next]_vars PROVE ParserInv'
  OBVIOUS
<1>1. CASE UNCHANGED vars
  BY <1>1 DEF vars, ParserInv, MarksInOrder, HeaderArchive, NameInOrder, ValueInOrder,
              HeaderSetInOrder
<1>2. ASSUME NEW n \in 1 .. Len(stream), request_recv(n) PROVE ParserInv'
  BY <1>2 DEF request_recv, ParserInv, MarksInOrder, HeaderArchive, NameInOrder,
              ValueInOrder, HeaderSetInOrder
<1>3. CASE parse_again
  BY <1>3 DEF parse_again, Again, ParserInv, MarksInOrder, HeaderArchive, NameInOrder,
              ValueInOrder, HeaderSetInOrder
<1>4. CASE parse_request_line
  <2>1. phase = "line" /\ hd' = hd
    BY <1>4 DEF parse_request_line
  <2>2. next_parse_pos' \in {next_parse_pos, next_parse_pos + 1}
    BY <1>4 DEF parse_request_line, Reject, Continue, Complete
  <2> QED BY <2>1, <2>2 DEF ParserInv, MarksInOrder, HeaderArchive, NameInOrder,
                            ValueInOrder, HeaderSetInOrder
<1>5. CASE parse_header_line
  <2>1. CASE Reject /\ UNCHANGED hd
    BY <2>1 DEF Reject, ParserInv, MarksInOrder, HeaderArchive, NameInOrder,
                ValueInOrder, HeaderSetInOrder
  <2>2. ASSUME NEW e \in Edges(HeaderFSM), e.from # "HD_CR_AFTER_VAL",
               hd' = OnHeader(e), Continue(e.to)
        PROVE  ParserInv'
    <3>1. phase = "headers" /\ e \in HeaderFSM /\ e.from = state
      BY <1>5, <2>2 DEF parse_header_line, Edges
    <3>2. phase' = "headers" /\ state' = e.to /\ next_parse_pos' = next_parse_pos + 1
      BY <2>2, <3>1 DEF Continue
    <3> QED BY <2>2, <3>1, <3>2, HeaderStep
  <2>3. ASSUME NEW e \in Edges(HeaderFSM), e.from = "HD_CR_AFTER_VAL",
               hd' = HEADER_SET, next_parse_pos' = next_parse_pos + 1
        PROVE  ParserInv'
    <3>1. phase = "headers" /\ state = "HD_CR_AFTER_VAL"
      BY <1>5, <2>3 DEF parse_header_line, Edges
    <3> QED BY <2>3, <3>1, HeaderEnds
  <2> QED BY <1>5, <2>1, <2>2, <2>3 DEF parse_header_line, Complete
<1> QED BY <1>1, <1>2, <1>3, <1>4, <1>5 DEF Next

\* Whatever the bytes and however they are cut, the strings that HEADER_SET makes
\* have no negative length and lie in what has been parsed.
THEOREM HeaderStringsAreSound == Spec => []HeaderSetInOrder
<1>1. ParserInv => HeaderSetInOrder
  BY DEF ParserInv
<1> QED BY <1>1, ParserInit, ParserNext, PTL DEF Spec

-----------------------------------------------------------------------------
(* Header lines: what has been seen.                                       *)

\* What a transition records of the header line.
LEMMA HeaderEffect ==
  ASSUME hd \in HeaderArchive, next_parse_pos \in Nat, NEW e \in HeaderFSM
  PROVE  LET f == OnHeader(e) IN
    /\ f \in HeaderArchive
    /\ f.line_begin = IF e.from = "HD_BEGIN" /\ e.to = "HD_NAME" THEN next_parse_pos
                      ELSE hd.line_begin
    /\ f.isCRLF_LINE = IF e.from = "HD_BEGIN" /\ e.to # "HD_BEGIN"
                       THEN e.to = "HD_CR_AFTER_VAL" ELSE hd.isCRLF_LINE
    /\ f.colon_pos = IF e.to = "HD_COLON" THEN next_parse_pos ELSE hd.colon_pos
    /\ f.val_begin = IF e.from # "HD_VAL" /\ e.to = "HD_VAL" THEN next_parse_pos
                     ELSE hd.val_begin
    /\ f.val_end = IF e.from = "HD_VAL" /\ e.to = "HD_CR_AFTER_VAL" THEN next_parse_pos
                   ELSE hd.val_end
    /\ f.name = hd.name /\ f.value = hd.value
<1> DEFINE f == OnHeader(e)
<1>1. CASE e.from = "HD_BEGIN" /\ e.to = "HD_NAME"
  <2>1. f = [hd EXCEPT !.line_begin = next_parse_pos, !.isCRLF_LINE = FALSE]
    BY <1>1 DEF OnHeader
  <2> HIDE DEF f
  <2>2. f \in HeaderArchive
    BY <2>1, Zenon DEF HeaderArchive
  <2>3. /\ f.line_begin = next_parse_pos /\ f.isCRLF_LINE = FALSE /\ f.colon_pos = hd.colon_pos
        /\ f.val_begin = hd.val_begin /\ f.val_end = hd.val_end
        /\ f.name = hd.name /\ f.value = hd.value
    BY <2>1, Zenon DEF HeaderArchive
  <2>4. f.isCRLF_LINE = (e.to = "HD_CR_AFTER_VAL")
    BY <1>1, <2>3
  <2> QED BY <1>1, <2>2, <2>3, <2>4 DEF f
<1>2. CASE e.from = "HD_BEGIN" /\ e.to = "HD_CR_AFTER_VAL"
  <2>1. f = [hd EXCEPT !.isCRLF_LINE = TRUE]
    BY <1>2 DEF OnHeader
  <2> HIDE DEF f
  <2>2. f \in HeaderArchive
    BY <2>1, Zenon DEF HeaderArchive
  <2>3. /\ f.line_begin = hd.line_begin /\ f.isCRLF_LINE = TRUE /\ f.colon_pos = hd.colon_pos
        /\ f.val_begin = hd.val_begin /\ f.val_end = hd.val_end
        /\ f.name = hd.name /\ f.value = hd.value
    BY <2>1, Zenon DEF HeaderArchive
  <2>4. f.isCRLF_LINE = (e.to = "HD_CR_AFTER_VAL")
    BY <1>2, <2>3
  <2> QED BY <1>2, <2>2, <2>3, <2>4 DEF f
<1>3. CASE e.from = "HD_NAME" /\ e.to = "HD_COLON"
  <2>1. f = [hd EXCEPT !.colon_pos = next_parse_pos]
    BY <1>3 DEF OnHeader
  <2>2. f \in HeaderArchive
    BY <2>1, Zenon DEF HeaderArchive
  <2> QED BY <1>3, <2>1, <2>2 DEF HeaderArchive
<1>4. CASE e.from \in {"HD_COLON", "HD_SP_BEFORE_VAL"} /\ e.to = "HD_VAL"
  <2>1. f = [hd EXCEPT !.val_begin = next_parse_pos]
    BY <1>4 DEF OnHeader
  <2>2. f \in HeaderArchive
    BY <2>1, Zenon DEF HeaderArchive
  <2> QED BY <1>4, <2>1, <2>2 DEF HeaderArchive
<1>5. CASE e.from = "HD_VAL" /\ e.to = "HD_CR_AFTER_VAL"
  <2>1. f = [hd EXCEPT !.val_end = next_parse_pos]
    BY <1>5 DEF OnHeader
  <2>2. f \in HeaderArchive
    BY <2>1, Zenon DEF HeaderArchive
  <2> QED BY <1>5, <2>1, <2>2 DEF HeaderArchive
<1>6. CASE \/ e.from = "HD_BEGIN" /\ e.to = "HD_BEGIN"
           \/ e.from = "HD_NAME" /\ e.to = "HD_NAME"
           \/ e.from \in {"HD_COLON", "HD_SP_BEFORE_VAL"} /\ e.to = "HD_SP_BEFORE_VAL"
           \/ e.from = "HD_VAL" /\ e.to \in {"HD_LF_AFTER_VAL", "HD_VAL"}
           \/ e.from \in {"HD_CR_AFTER_VAL", "HD_LF_AFTER_VAL"} /\ e.to = "HD_LF_AFTER_VAL"
  <2>1. f = hd
    BY <1>6 DEF OnHeader
  <2> HIDE DEF f
  <2> QED BY <1>6, <2>1 DEF f
<1> QED BY <1>1, <1>2, <1>3, <1>4, <1>5, <1>6, HeaderEdges

\* The name of the header that begins at b: it starts at i and ends before c.
NameIs(b, i, c) == b =< i /\ i < c /\ AllIn(Blank, b, i) /\ AllIn(Name, i, c)

\* The value that starts at j, behind the colon at c, as far as p.
ValueIs(c, j, p) ==
  /\ stream[c] = ":" /\ c < j /\ j < p
  /\ AllIn(Blank, c + 1, j) /\ AllIn(Text, j, p) /\ stream[j] \notin Blank

\* A header line, or the empty line, as far as its carriage return.
SeenCR(p, f, b) ==
  /\ b < p /\ stream[p - 1] = CR
  /\ f.isCRLF_LINE => AllIn(Blank, b, p - 1)
  /\ ~f.isCRLF_LINE => /\ NameIs(b, f.line_begin, f.colon_pos)
                       /\ ValueIs(f.colon_pos, f.val_begin, p - 1)
                       /\ f.val_end = p - 1

\* What parse_header_line knows in state s at position p of the line at b.
SeenHeader(s, p, f, b) ==
  /\ s = "HD_BEGIN" => AllIn(Blank, b, p)
  /\ s = "HD_NAME" => NameIs(b, f.line_begin, p)
  /\ s \in {"HD_COLON", "HD_SP_BEFORE_VAL", "HD_VAL"} => NameIs(b, f.line_begin, f.colon_pos)
  /\ s = "HD_COLON" => p = f.colon_pos + 1 /\ stream[f.colon_pos] = ":"
  /\ s = "HD_SP_BEFORE_VAL" => /\ f.colon_pos < p /\ stream[f.colon_pos] = ":"
                               /\ AllIn(Blank, f.colon_pos + 1, p)
  /\ s = "HD_VAL" => ValueIs(f.colon_pos, f.val_begin, p)
  /\ s \in {"HD_NAME", "HD_COLON", "HD_SP_BEFORE_VAL", "HD_VAL"} => ~f.isCRLF_LINE
  /\ s = "HD_CR_AFTER_VAL" => SeenCR(p, f, b)

\* A transition of parse_header_line keeps what is known of the line.
LEMMA SeenHeaderStep ==
  ASSUME hd \in HeaderArchive, next_parse_pos \in Nat, line_begin \in Nat,
         line_begin =< next_parse_pos,
         SeenHeader(state, next_parse_pos, hd, line_begin),
         NEW e \in HeaderFSM, e.from = state, ch \in e.on
  PROVE  e.from # "HD_CR_AFTER_VAL" =>
           SeenHeader(e.to, next_parse_pos + 1, OnHeader(e), line_begin)
<1> SUFFICES ASSUME e.from # "HD_CR_AFTER_VAL"
             PROVE  SeenHeader(e.to, next_parse_pos + 1, OnHeader(e), line_begin)
  OBVIOUS
<1> DEFINE p == next_parse_pos
           f == OnHeader(e)
           b == line_begin
<1>1. /\ f.line_begin = IF e.from = "HD_BEGIN" /\ e.to = "HD_NAME" THEN p ELSE hd.line_begin
      /\ f.isCRLF_LINE = IF e.from = "HD_BEGIN" /\ e.to # "HD_BEGIN"
                         THEN e.to = "HD_CR_AFTER_VAL" ELSE hd.isCRLF_LINE
      /\ f.colon_pos = IF e.to = "HD_COLON" THEN p ELSE hd.colon_pos
      /\ f.val_begin = IF e.from # "HD_VAL" /\ e.to = "HD_VAL" THEN p ELSE hd.val_begin
      /\ f.val_end = IF e.from = "HD_VAL" /\ e.to = "HD_CR_AFTER_VAL" THEN p ELSE hd.val_end
  BY HeaderEffect
<1>2. /\ p \in Nat /\ b \in Nat /\ b =< p /\ ch = stream[p] /\ p + 1 - 1 = p /\ p < p + 1
      /\ hd.line_begin \in Nat /\ hd.colon_pos \in Nat /\ hd.val_begin \in Nat
  BY DEF HeaderArchive, ch
<1>3. SeenHeader(state, p, hd, b)
  OBVIOUS
<1> HIDE DEF f, p, b
<1>4. CASE e.from = "HD_BEGIN" /\ e.to = "HD_NAME"
  <2>1. f.line_begin = p /\ ~f.isCRLF_LINE /\ ch \in Name
    BY <1>1, <1>4, HeaderEdges
  <2>2. AllIn(Blank, b, p) /\ AllIn(Name, p, p + 1)
    BY <1>2, <1>3, <1>4, <2>1, RunStarts DEF SeenHeader
  <2>3. NameIs(b, p, p + 1)
    BY <1>2, <2>2 DEF NameIs
  <2>4. SeenHeader(e.to, p + 1, f, b)
    BY <1>4, <2>1, <2>3 DEF SeenHeader
  <2> QED BY <2>4 DEF p, f, b
<1>5. CASE e.from = "HD_BEGIN" /\ e.to = "HD_CR_AFTER_VAL"
  <2>1. f.isCRLF_LINE /\ ch = CR /\ AllIn(Blank, b, p)
    BY <1>1, <1>3, <1>5, HeaderEdges DEF SeenHeader
  <2>2. b < p + 1
    BY <1>2
  <2> DEFINE n == p + 1
  <2>4. b < n /\ n - 1 = p
    BY <1>2, <2>2
  <2> HIDE DEF n
  <2>5. SeenCR(n, f, b)
    BY <1>2, <2>1, <2>4 DEF SeenCR
  <2>6. SeenHeader(e.to, n, f, b)
    BY <1>5, <2>5 DEF SeenHeader
  <2> QED BY <2>6 DEF p, f, b, n
<1>6. CASE e.from = "HD_BEGIN" /\ e.to = "HD_BEGIN"
  <2>1. ch \in Blank /\ AllIn(Blank, b, p)
    BY <1>3, <1>6, HeaderEdges DEF SeenHeader
  <2>2. AllIn(Blank, b, p + 1)
    BY <1>2, <2>1, RunGrows
  <2>3. SeenHeader(e.to, p + 1, f, b)
    BY <1>6, <2>2 DEF SeenHeader
  <2> QED BY <2>3 DEF p, f, b
<1>7. CASE e.from = "HD_NAME" /\ e.to = "HD_NAME"
  <2>1. /\ f.line_begin = hd.line_begin /\ ~f.isCRLF_LINE /\ ch \in Name
        /\ NameIs(b, hd.line_begin, p)
    BY <1>1, <1>3, <1>7, HeaderEdges DEF SeenHeader
  <2>2. NameIs(b, hd.line_begin, p + 1)
    BY <1>2, <2>1, RunGrows DEF NameIs
  <2>3. SeenHeader(e.to, p + 1, f, b)
    BY <1>7, <2>1, <2>2 DEF SeenHeader
  <2> QED BY <2>3 DEF p, f, b
<1>8. CASE e.from = "HD_NAME" /\ e.to = "HD_COLON"
  <2>1. /\ f.line_begin = hd.line_begin /\ ~f.isCRLF_LINE /\ ch = ":" /\ f.colon_pos = p
        /\ NameIs(b, hd.line_begin, p)
    BY <1>1, <1>3, <1>8, HeaderEdges DEF SeenHeader
  <2>2. SeenHeader(e.to, p + 1, f, b)
    BY <1>2, <1>8, <2>1 DEF SeenHeader
  <2> QED BY <2>2 DEF p, f, b
<1>9. CASE e.from \in {"HD_COLON", "HD_SP_BEFORE_VAL"}
  <2> DEFINE c == hd.colon_pos
  <2>1. /\ f.line_begin = hd.line_begin /\ ~f.isCRLF_LINE /\ f.colon_pos = c
        /\ NameIs(b, hd.line_begin, c) /\ c < p /\ stream[c] = ":"
    BY <1>1, <1>2, <1>3, <1>9, HeaderEdges DEF SeenHeader
  <2>2. AllIn(Blank, c + 1, p)
    BY <1>2, <1>3, <1>9, RunStarts DEF SeenHeader
  <2>3. CASE e.to = "HD_SP_BEFORE_VAL"
    <3>1. AllIn(Blank, c + 1, p + 1)
      <4>1. ch \in Blank
        BY <1>9, <2>3, HeaderEdges
      <4>2. c + 1 \in Nat
        BY <1>2
      <4> QED BY <1>2, <2>2, <4>1, <4>2, RunGrows
    <3>2. c < p + 1
      BY <1>2, <2>1
    <3>3. SeenHeader(e.to, p + 1, f, b)
      BY <2>1, <2>3, <3>1, <3>2 DEF SeenHeader
    <3> QED BY <3>3 DEF p, f, b
  <2>4. CASE e.to = "HD_VAL"
    <3>1. ch \in Text \ Blank /\ f.val_begin = p
      BY <1>1, <1>9, <2>4, HeaderEdges
    <3>2. AllIn(Text, p, p + 1)
      BY <1>2, <3>1, RunStarts
    <3>3. ValueIs(c, p, p + 1)
      BY <1>2, <2>1, <2>2, <3>1, <3>2 DEF ValueIs
    <3>4. SeenHeader(e.to, p + 1, f, b)
      BY <2>1, <2>4, <3>1, <3>3 DEF SeenHeader
    <3> QED BY <3>4 DEF p, f, b
  <2> QED BY <1>9, <2>3, <2>4, HeaderEdges
<1>10. CASE e.from = "HD_VAL" /\ e.to = "HD_VAL"
  <2>1. /\ f.line_begin = hd.line_begin /\ ~f.isCRLF_LINE /\ f.colon_pos = hd.colon_pos
        /\ f.val_begin = hd.val_begin /\ NameIs(b, hd.line_begin, hd.colon_pos)
        /\ ValueIs(hd.colon_pos, hd.val_begin, p) /\ ch \in Text
    BY <1>1, <1>3, <1>10, HeaderEdges DEF SeenHeader
  <2>2. ValueIs(hd.colon_pos, hd.val_begin, p + 1)
    BY <1>2, <2>1, RunGrows DEF ValueIs
  <2>3. SeenHeader(e.to, p + 1, f, b)
    BY <1>10, <2>1, <2>2 DEF SeenHeader
  <2> QED BY <2>3 DEF p, f, b
<1>11. CASE e.from = "HD_VAL" /\ e.to = "HD_CR_AFTER_VAL"
  <2>1. /\ f.line_begin = hd.line_begin /\ ~f.isCRLF_LINE /\ f.colon_pos = hd.colon_pos
        /\ f.val_begin = hd.val_begin /\ NameIs(b, hd.line_begin, hd.colon_pos)
        /\ ValueIs(hd.colon_pos, hd.val_begin, p) /\ ch = CR /\ f.val_end = p
    BY <1>1, <1>3, <1>11, HeaderEdges DEF SeenHeader
  <2>2. b < p + 1
    BY <1>2
  <2> DEFINE n == p + 1
  <2>4. b < n /\ n - 1 = p
    BY <1>2, <2>2
  <2> HIDE DEF n
  <2>5. SeenCR(n, f, b)
    BY <1>2, <2>1, <2>4 DEF SeenCR
  <2>6. SeenHeader(e.to, n, f, b)
    BY <1>11, <2>5 DEF SeenHeader
  <2> QED BY <2>6 DEF p, f, b, n
<1>12. CASE e.to = "HD_LF_AFTER_VAL"
  BY <1>12 DEF SeenHeader
<1> QED BY <1>4, <1>5, <1>6, <1>7, <1>8, <1>9, <1>10, <1>11, <1>12, HeaderEdges

\* The line feed at p completes the line that begins at b.
LEMMA HeaderAccepted ==
  ASSUME NEW p \in Nat, NEW b \in Nat, hd \in HeaderArchive, SeenCR(p, hd, b), stream[p] = LF
  PROVE  /\ hd.isCRLF_LINE => ValidEnd(b, p)
         /\ ~hd.isCRLF_LINE => ValidHeader(b, p, <<hd.line_begin, hd.colon_pos>>,
                                                 <<hd.val_begin, hd.val_end>>)
<1>1. hd.isCRLF_LINE => ValidEnd(b, p)
  BY DEF SeenCR, ValidEnd
<1>2. ASSUME ~hd.isCRLF_LINE
      PROVE  ValidHeader(b, p, <<hd.line_begin, hd.colon_pos>>, <<hd.val_begin, hd.val_end>>)
  <2> DEFINE n == <<hd.line_begin, hd.colon_pos>>
             w == <<hd.val_begin, hd.val_end>>
  <2>1. n[1] = hd.line_begin /\ n[2] = hd.colon_pos /\ w[1] = hd.val_begin /\ w[2] = hd.val_end
    OBVIOUS
  <2>2. /\ NameIs(b, hd.line_begin, hd.colon_pos) /\ ValueIs(hd.colon_pos, hd.val_begin, p - 1)
        /\ hd.val_end = p - 1 /\ stream[p - 1] = CR
    BY <1>2 DEF SeenCR
  <2> HIDE DEF n, w
  <2>3. ValidHeader(b, p, n, w)
    BY <2>1, <2>2 DEF NameIs, ValueIs, ValidHeader
  <2> QED BY <2>3 DEF n, w
<1> QED BY <1>1, <1>2

\* The character classes of a header line, and what they do not have in common.
LEMMA NoLineFeeds ==
  /\ LF \notin Blank /\ LF \notin Name /\ LF \notin Text /\ LF # CR /\ LF # ":"
  /\ CR \notin Text /\ CR \notin Name /\ CR \notin Blank
  /\ ":" \notin Name /\ ":" \notin Blank
  /\ Name \cap Blank = {} /\ Blank \subseteq Text /\ Name \subseteq Text /\ ":" \in Text
BY DEF LF, CR, SP, TAB, Blank, Name, Alpha, Digit, Text, Chars

\* Such a line has no other line feed.
LEMMA OneLineFeed ==
  ASSUME NEW p \in Nat, NEW b \in Nat, hd \in HeaderArchive, SeenCR(p, hd, b)
  PROVE  \A k \in b .. p - 1 : stream[k] # LF
<1>1. b < p /\ stream[p - 1] = CR
  BY DEF SeenCR
<1>2. CASE hd.isCRLF_LINE
  <2>1. \A k \in b .. p - 1 - 1 : stream[k] # LF
    BY <1>2, NoLineFeeds DEF SeenCR, AllIn
  <2> QED BY <1>1, <2>1, NoLineFeeds
<1>3. CASE ~hd.isCRLF_LINE
  <2> DEFINE i == hd.line_begin
             c == hd.colon_pos
             j == hd.val_begin
  <2>1. i \in Nat /\ c \in Nat /\ j \in Nat
    BY DEF HeaderArchive
  <2>2. /\ b =< i /\ i < c /\ c < j /\ j < p - 1 /\ stream[c] = ":"
        /\ AllIn(Blank, b, i) /\ AllIn(Name, i, c) /\ AllIn(Blank, c + 1, j)
        /\ AllIn(Text, j, p - 1)
    BY <1>3 DEF SeenCR, NameIs, ValueIs
  <2> HIDE DEF i, c, j
  <2>3. /\ \A k \in b .. i - 1 : stream[k] # LF
        /\ \A k \in i .. c - 1 : stream[k] # LF
        /\ \A k \in c + 1 .. j - 1 : stream[k] # LF
        /\ \A k \in j .. p - 1 - 1 : stream[k] # LF
    BY <2>2, NoLineFeeds DEF AllIn
  <2>4. \A k \in b .. p - 1 : \/ k \in b .. i - 1 \/ k \in i .. c - 1 \/ k = c
                              \/ k \in c + 1 .. j - 1 \/ k \in j .. p - 1 - 1 \/ k = p - 1
    BY <2>1, <2>2
  <2> QED BY <1>1, <2>2, <2>3, <2>4, NoLineFeeds
<1> QED BY <1>2, <1>3

\* The line feed before the line that has just been completed is the one that
\* ended the line before it.
LEMMA LastLineIs ==
  ASSUME stream' = stream, line_begin \in Nat, next_parse_pos \in Nat,
         line_begin > 1, line_begin < next_parse_pos, stream[line_begin - 1] = LF,
         \A k \in line_begin .. next_parse_pos - 1 : stream[k] # LF,
         line_begin' = next_parse_pos + 1
  PROVE  LastLine' = line_begin
<1> DEFINE I == {i \in 1 .. next_parse_pos - 1 : stream[i] = LF}
           k == line_begin - 1
<1>1. k \in I /\ \A i \in I : k >= i
  OBVIOUS
<1>2. Max(I) = k
  <2>1. \A x \in I : (\A y \in I : x >= y) => x = k
    BY <1>1
  <2> HIDE DEF I, k
  <2> QED BY <1>1, <2>1 DEF Max
<1>3. line_begin' - 2 = next_parse_pos - 1
  OBVIOUS
<1> DEFINE J == {i \in 1 .. line_begin' - 2 : stream'[i] = LF}
<1>4. J = I /\ I # {}
  BY <1>1, <1>3
<1>5. LastLine' = (IF J # {} THEN Max(J) ELSE 0) + 1
  BY DEF LastLine, SelectLastInSubSeq
<1> HIDE DEF I, J
<1>6. LastLine' = k + 1
  BY <1>2, <1>4, <1>5
<1> QED BY <1>6

-----------------------------------------------------------------------------

\* Where the parser is in the empty line that ends at end, and in a header line
\* with these marks.
EndAligned(s, p, end) ==
  \/ s = "HD_BEGIN" /\ p =< end - 1
  \/ s = "HD_CR_AFTER_VAL" /\ p = end

HeaderAligned(s, p, i, c, j, end) ==
  \/ s = "HD_BEGIN" /\ p =< i
  \/ s = "HD_NAME" /\ i < p /\ p =< c
  \/ s = "HD_COLON" /\ p = c + 1
  \/ s = "HD_SP_BEFORE_VAL" /\ c + 1 < p /\ p =< j
  \/ s = "HD_VAL" /\ j < p /\ p =< end - 1
  \/ s = "HD_CR_AFTER_VAL" /\ p = end

HeaderIs(b, i, c, j, end) ==
  /\ b =< i /\ i < c /\ c < j /\ j < end - 1
  /\ ValidHeader(b, end, <<i, c>>, <<j, end - 1>>)

\* SomeHeader with its marks as parameters.
LEMMA SomeHeaderIs ==
  ASSUME line_begin \in Nat, stream \in Seq(Chars), SomeHeader
  PROVE  \E end \in Nat :
           /\ line_begin < end /\ end =< Len(stream)
           /\ \/ ValidEnd(line_begin, end)
              \/ \E i \in Nat, c \in Nat, j \in Nat : HeaderIs(line_begin, i, c, j, end)
<1>1. PICK end \in line_begin + 1 .. Len(stream) :
        \/ ValidEnd(line_begin, end)
        \/ \E c \in line_begin + 1 .. end : \E i \in line_begin .. c - 1 :
             \E j \in c + 1 .. end - 2 :
               ValidHeader(line_begin, end, <<i, c>>, <<j, end - 1>>)
  BY DEF SomeHeader
<1>2. end \in Nat /\ line_begin < end /\ end =< Len(stream)
  OBVIOUS
<1>3. CASE ValidEnd(line_begin, end)
  BY <1>2, <1>3
<1>4. ASSUME NEW c \in line_begin + 1 .. end, NEW i \in line_begin .. c - 1,
             NEW j \in c + 1 .. end - 2,
             ValidHeader(line_begin, end, <<i, c>>, <<j, end - 1>>)
      PROVE  \E x \in Nat, y \in Nat, z \in Nat : HeaderIs(line_begin, x, y, z, end)
  <2>1. /\ c \in Nat /\ i \in Nat /\ j \in Nat
        /\ line_begin =< i /\ i < c /\ c < j /\ j < end - 1
    BY <1>2
  <2> QED BY <1>4, <2>1 DEF HeaderIs
<1> QED BY <1>1, <1>2, <1>3, <1>4

\* Where an empty line follows, parse_header_line stays aligned with it.
LEMMA EndAlignedStep ==
  ASSUME NEW p \in Nat, NEW b \in Nat, NEW end \in Nat, b =< p, ValidEnd(b, end),
         NEW s, EndAligned(s, p, end)
  PROVE  /\ p =< end
         /\ s = "HD_BEGIN" => stream[p] \in Blank \cup {CR}
         /\ s = "HD_CR_AFTER_VAL" => stream[p] = LF
         /\ \A e \in HeaderFSM : e.from = s /\ stream[p] \in e.on =>
              s = "HD_CR_AFTER_VAL" \/ EndAligned(e.to, p + 1, end)
<1>1. /\ s = "HD_BEGIN" => (p < end - 1 /\ stream[p] \in Blank) \/ (p = end - 1 /\ stream[p] = CR)
      /\ s = "HD_CR_AFTER_VAL" => stream[p] = LF /\ p = end
  BY DEF ValidEnd, AllIn, EndAligned
<1>2. p =< end
  BY DEF EndAligned
<1>3. ASSUME NEW e \in HeaderFSM, e.from = s, stream[p] \in e.on
      PROVE  s = "HD_CR_AFTER_VAL" \/ EndAligned(e.to, p + 1, end)
  <2>1. CASE s = "HD_BEGIN"
    <3>1. \/ p < end - 1 /\ e.to = "HD_BEGIN"
          \/ p = end - 1 /\ e.to = "HD_CR_AFTER_VAL"
      BY <1>1, <1>3, <2>1, HeaderEdges, NoLineFeeds
    <3> QED BY <3>1 DEF EndAligned
  <2>2. CASE s = "HD_CR_AFTER_VAL"
    BY <2>2
  <2> QED BY <2>1, <2>2 DEF EndAligned
<1> QED BY <1>1, <1>2, <1>3

\* Where a header follows, parse_header_line stays aligned with it.
LEMMA HeaderAlignedStep ==
  ASSUME NEW p \in Nat, NEW b \in Nat, NEW i \in Nat, NEW c \in Nat, NEW j \in Nat,
         NEW end \in Nat, b =< p, HeaderIs(b, i, c, j, end),
         NEW s, HeaderAligned(s, p, i, c, j, end)
  PROVE  /\ p =< end
         /\ s = "HD_BEGIN" => stream[p] \in Blank \cup Name
         /\ s = "HD_NAME" => stream[p] \in Name \cup {":"}
         /\ s \in {"HD_COLON", "HD_SP_BEFORE_VAL"} => stream[p] \in Text
         /\ s = "HD_VAL" => stream[p] \in Text \cup {CR}
         /\ s = "HD_CR_AFTER_VAL" => stream[p] = LF
         /\ s # "HD_LF_AFTER_VAL"
         /\ \A e \in HeaderFSM : e.from = s /\ stream[p] \in e.on =>
              s = "HD_CR_AFTER_VAL" \/ HeaderAligned(e.to, p + 1, i, c, j, end)
<1> DEFINE n == <<i, c>>
           w == <<j, end - 1>>
<1>1. n[1] = i /\ n[2] = c /\ w[1] = j /\ w[2] = end - 1 /\ ValidHeader(b, end, n, w)
  BY DEF HeaderIs
<1> HIDE DEF n, w
<1>2. /\ AllIn(Blank, b, i) /\ AllIn(Name, i, c) /\ stream[c] = ":"
      /\ AllIn(Blank, c + 1, j) /\ AllIn(Text, j, end - 1) /\ stream[j] \notin Blank
      /\ stream[end - 1] = CR /\ stream[end] = LF
  BY <1>1 DEF ValidHeader
<1>3. b =< i /\ i < c /\ c < j /\ j < end - 1
  BY DEF HeaderIs
<1>4. stream[i] \in Name /\ stream[j] \in Text
  BY <1>2, <1>3 DEF AllIn
<1>5. p =< end /\ s # "HD_LF_AFTER_VAL"
  BY <1>3 DEF HeaderAligned
<1>6. s = "HD_BEGIN" => (p < i /\ stream[p] \in Blank) \/ (p = i /\ stream[p] \in Name)
  BY <1>2, <1>3, <1>4 DEF HeaderAligned, AllIn
<1>7. s = "HD_NAME" => /\ i < p
                       /\ (p < c /\ stream[p] \in Name) \/ (p = c /\ stream[p] = ":")
  BY <1>2, <1>3 DEF HeaderAligned, AllIn
<1>8. s \in {"HD_COLON", "HD_SP_BEFORE_VAL"} =>
        /\ c < p
        /\ (p < j /\ stream[p] \in Blank) \/ (p = j /\ stream[p] \in Text \ Blank)
  BY <1>2, <1>3, <1>4 DEF HeaderAligned, AllIn
<1>9. s = "HD_VAL" => /\ j < p
                      /\ (p < end - 1 /\ stream[p] \in Text) \/ (p = end - 1 /\ stream[p] = CR)
  BY <1>2, <1>3 DEF HeaderAligned, AllIn
<1>10. s = "HD_CR_AFTER_VAL" => stream[p] = LF
  BY <1>2 DEF HeaderAligned
<1>11. ASSUME NEW e \in HeaderFSM, e.from = s, stream[p] \in e.on
       PROVE  s = "HD_CR_AFTER_VAL" \/ HeaderAligned(e.to, p + 1, i, c, j, end)
  <2>1. CASE s = "HD_BEGIN"
    <3>1. \/ p < i /\ e.to = "HD_BEGIN"
          \/ p = i /\ e.to = "HD_NAME"
      BY <1>6, <1>11, <2>1, HeaderEdges, NoLineFeeds
    <3> QED BY <1>3, <3>1 DEF HeaderAligned
  <2>2. CASE s = "HD_NAME"
    <3>1. i < p /\ (\/ p < c /\ e.to = "HD_NAME"
                    \/ p = c /\ e.to = "HD_COLON")
      BY <1>7, <1>11, <2>2, HeaderEdges, NoLineFeeds
    <3> QED BY <3>1 DEF HeaderAligned
  <2>3. CASE s \in {"HD_COLON", "HD_SP_BEFORE_VAL"}
    <3>1. c < p /\ (\/ p < j /\ e.to = "HD_SP_BEFORE_VAL"
                    \/ p = j /\ e.to = "HD_VAL")
      BY <1>8, <1>11, <2>3, HeaderEdges
    <3> QED BY <1>3, <3>1 DEF HeaderAligned
  <2>4. CASE s = "HD_VAL"
    <3>1. j < p /\ (\/ p < end - 1 /\ e.to = "HD_VAL"
                    \/ p = end - 1 /\ e.to = "HD_CR_AFTER_VAL")
      BY <1>9, <1>11, <2>4, HeaderEdges, NoLineFeeds
    <3> QED BY <3>1 DEF HeaderAligned
  <2>5. CASE s = "HD_CR_AFTER_VAL"
    BY <2>5
  <2> QED BY <2>1, <2>2, <2>3, <2>4, <2>5 DEF HeaderAligned
<1>12. s \in {"HD_COLON", "HD_SP_BEFORE_VAL"} => stream[p] \in Text
  BY <1>8, NoLineFeeds
<1>13. /\ s = "HD_BEGIN" => stream[p] \in Blank \cup Name
       /\ s = "HD_NAME" => stream[p] \in Name \cup {":"}
       /\ s = "HD_VAL" => stream[p] \in Text \cup {CR}
  BY <1>6, <1>7, <1>9
<1> QED BY <1>5, <1>10, <1>11, <1>12, <1>13

\* There is a transition for such a character.
LEMMA HeaderGoesOn ==
  ASSUME \/ state = "HD_BEGIN" /\ ch \in Blank \cup Name \cup {CR}
         \/ state = "HD_NAME" /\ ch \in Name \cup {":"}
         \/ state \in {"HD_COLON", "HD_SP_BEFORE_VAL"} /\ ch \in Text
         \/ state = "HD_VAL" /\ ch \in Text \cup {CR}
         \/ state = "HD_CR_AFTER_VAL" /\ ch = LF
  PROVE  Edges(HeaderFSM) # {}
<1>1. ASSUME NEW S, NEW t, Edge(state, S, t) \in HeaderFSM, ch \in S
      PROVE  Edges(HeaderFSM) # {}
  <2>1. Edge(state, S, t).from = state /\ Edge(state, S, t).on = S
    BY DEF Edge
  <2> QED BY <1>1, <2>1 DEF Edges
<1>2. /\ Edge("HD_BEGIN", Name, "HD_NAME") \in HeaderFSM
      /\ Edge("HD_BEGIN", {CR}, "HD_CR_AFTER_VAL") \in HeaderFSM
      /\ Edge("HD_BEGIN", Blank, "HD_BEGIN") \in HeaderFSM
      /\ Edge("HD_NAME", Name, "HD_NAME") \in HeaderFSM
      /\ Edge("HD_NAME", {":"}, "HD_COLON") \in HeaderFSM
  BY DEF HeaderFSM
<1>3. /\ Edge("HD_COLON", Blank, "HD_SP_BEFORE_VAL") \in HeaderFSM
      /\ Edge("HD_COLON", Text \ Blank, "HD_VAL") \in HeaderFSM
      /\ Edge("HD_SP_BEFORE_VAL", Blank, "HD_SP_BEFORE_VAL") \in HeaderFSM
      /\ Edge("HD_SP_BEFORE_VAL", Text \ Blank, "HD_VAL") \in HeaderFSM
  BY DEF HeaderFSM
<1>4. /\ Edge("HD_VAL", {CR}, "HD_CR_AFTER_VAL") \in HeaderFSM
      /\ Edge("HD_VAL", Text, "HD_VAL") \in HeaderFSM
      /\ Edge("HD_CR_AFTER_VAL", {LF}, "HD_LF_AFTER_VAL") \in HeaderFSM
  BY DEF HeaderFSM
<1>5. CASE state = "HD_BEGIN" /\ ch \in Blank \cup Name \cup {CR}
  BY <1>1, <1>2, <1>5
<1>6. CASE state = "HD_NAME" /\ ch \in Name \cup {":"}
  BY <1>1, <1>2, <1>6
<1>7. CASE state \in {"HD_COLON", "HD_SP_BEFORE_VAL"} /\ ch \in Text
  BY <1>1, <1>3, <1>7
<1>8. CASE \/ state = "HD_VAL" /\ ch \in Text \cup {CR}
           \/ state = "HD_CR_AFTER_VAL" /\ ch = LF
  BY <1>1, <1>4, <1>8
<1> QED BY <1>5, <1>6, <1>7, <1>8

-----------------------------------------------------------------------------
(* The inductive invariant.                                                *)

Places ==
  /\ stream \in Seq(Chars) /\ received \in 0 .. Len(stream)
  /\ next_parse_pos \in 1 .. received + 1 /\ line_begin \in 1 .. next_parse_pos
  /\ rl \in LineArchive /\ hd \in HeaderArchive
  /\ running \in BOOLEAN /\ result \in {"OK", "AGAIN", "INVALID_REQUEST", "CRLF_LINE"}
  /\ phase \in {"line", "headers", "done", "rejected"}
  /\ phase = "line" => state \in LineStates
  /\ phase = "rejected" => state \in LineStates \cup HeaderStates
  /\ phase \in {"headers", "done"} => state \in HeaderStates
  /\ phase \in {"line", "headers"} /\ ~running => next_parse_pos = received + 1

VersionFits == rl.http_major =< 99 /\ rl.http_minor =< 99

LineKnown ==
  /\ phase = "line" => SeenLine(state, next_parse_pos, rl) /\ hd.name = Unset
  /\ phase = "headers" /\ hd.name = Unset => ValidRequestLine(line_begin - 1)

\* No request line that the input holds has been missed.
LineNotMissed ==
  \A m \in Methods : \A u \in Nat, x \in Nat, v \in Nat, dot \in Nat, end \in Nat :
    end =< Len(stream) /\ LineIs(m, u, x, v, dot, end) =>
      /\ phase = "line" => Aligned(state, next_parse_pos, rl, m, u, x, v, dot, end)
      /\ phase = "rejected" => state \notin LineStates

UrlKnown ==
  /\ state \in {"RL_BEGIN", "RL_METHOD", "RL_SP_BEFORE_URL", "RL_URL"} =>
       rl.abs_path = Unset /\ rl.query_string = Unset /\ rl.mime_extension = Unset
  /\ state \notin {"RL_BEGIN", "RL_METHOD", "RL_SP_BEFORE_URL", "RL_URL"}
     /\ rl.query_string # Unset =>
       UrlDivided(rl.abs_path, rl.query_string, rl.mime_extension, rl.url_begin)

HeaderKnown ==
  /\ phase = "headers" => /\ line_begin > 1 /\ stream[line_begin - 1] = LF
                          /\ SeenHeader(state, next_parse_pos, hd, line_begin)
  /\ phase = "headers" /\ state = "HD_BEGIN" /\ next_parse_pos = line_begin
     /\ hd.name # Unset => ValidHeader(LastLine, line_begin - 1, hd.name, hd.value)
  /\ phase = "done" => ValidEnd(LastLine, line_begin - 1)

HeaderNotMissed ==
  \A end \in Nat : line_begin < end /\ end =< Len(stream) =>
    /\ ValidEnd(line_begin, end) =>
         /\ phase = "headers" => EndAligned(state, next_parse_pos, end)
         /\ phase = "rejected" => state \notin HeaderStates
    /\ \A i \in Nat, c \in Nat, j \in Nat : HeaderIs(line_begin, i, c, j, end) =>
         /\ phase = "headers" => HeaderAligned(state, next_parse_pos, i, c, j, end)
         /\ phase = "rejected" => state \notin HeaderStates

GrammarInv == /\ Places /\ VersionFits /\ LineKnown /\ LineNotMissed
              /\ UrlKnown /\ HeaderKnown /\ HeaderNotMissed

\* What is said of header lines depends on the stream only.
LEMMA SameHeaders ==
  ASSUME stream' = stream
  PROVE  /\ \A b, i, c : NameIs(b, i, c)' <=> NameIs(b, i, c)
         /\ \A c, j, p : ValueIs(c, j, p)' <=> ValueIs(c, j, p)
         /\ \A b, end : ValidEnd(b, end)' <=> ValidEnd(b, end)
         /\ \A b, end, n, w : ValidHeader(b, end, n, w)' <=> ValidHeader(b, end, n, w)
         /\ \A b, i, c, j, end : HeaderIs(b, i, c, j, end)' <=> HeaderIs(b, i, c, j, end)
         /\ \A p, f, b : SeenCR(p, f, b)' <=> SeenCR(p, f, b)
         /\ \A s, p, f, b : SeenHeader(s, p, f, b)' <=> SeenHeader(s, p, f, b)
<1>1. \A S, i, j : AllIn(S, i, j)' <=> AllIn(S, i, j)
  BY SameStream
<1>2. \A b, i, c : NameIs(b, i, c)' <=> NameIs(b, i, c)
  BY <1>1 DEF NameIs
<1>3. \A c, j, p : ValueIs(c, j, p)' <=> ValueIs(c, j, p)
  BY <1>1 DEF ValueIs
<1>4. \A b, end : ValidEnd(b, end)' <=> ValidEnd(b, end)
  BY <1>1 DEF ValidEnd
<1>5. \A b, end, n, w : ValidHeader(b, end, n, w)' <=> ValidHeader(b, end, n, w)
  BY <1>1 DEF ValidHeader
<1>6. \A b, i, c, j, end : HeaderIs(b, i, c, j, end)' <=> HeaderIs(b, i, c, j, end)
  BY <1>5 DEF HeaderIs
<1>7. \A p, f, b : SeenCR(p, f, b)' <=> SeenCR(p, f, b)
  BY <1>1, <1>2, <1>3 DEF SeenCR
<1>8. \A s, p, f, b : SeenHeader(s, p, f, b)' <=> SeenHeader(s, p, f, b)
  BY <1>1, <1>2, <1>3, <1>7 DEF SeenHeader
<1> QED BY <1>2, <1>3, <1>4, <1>5, <1>6, <1>7, <1>8

\* Likewise of the URL and the request line.
LEMMA SameLine ==
  ASSUME stream' = stream
  PROVE  /\ \A p, q, x, b : UrlDivided(p, q, x, b)' <=> UrlDivided(p, q, x, b)
         /\ \A end : ValidRequestLine(end)' <=> ValidRequestLine(end)
<1>1. \A S, i, j : AllIn(S, i, j)' <=> AllIn(S, i, j)
  BY SameStream
<1>2. \A p, q, x, b : UrlDivided(p, q, x, b)' <=> UrlDivided(p, q, x, b)
  BY <1>1 DEF UrlDivided
<1>3. \A v, end : ValidVersion(v, end)' <=> ValidVersion(v, end)
  <2>1. \A i, j : Number(i, j)' <=> Number(i, j)
    BY SameStream
  <2> QED BY <1>1, <2>1 DEF ValidVersion
<1>4. \A end : ValidRequestLine(end)' <=> ValidRequestLine(end)
  BY <1>1, <1>3 DEF ValidRequestLine
<1> QED BY <1>2, <1>4

\* A step that parses nothing, such as request_recv or a return of AGAIN,
\* keeps all that is known.
LEMMA NothingParsed ==
  ASSUME GrammarInv,
         UNCHANGED <<stream, next_parse_pos, state, rl, hd, line_begin, phase>>
  PROVE  (VersionFits /\ LineKnown /\ LineNotMissed /\ UrlKnown /\ HeaderKnown
          /\ HeaderNotMissed)'
<1>1. VersionFits'
  BY DEF GrammarInv, VersionFits
<1>2. LineKnown'
  <2>1. phase = "line" => SeenLine(state', next_parse_pos', rl')
    BY DEF GrammarInv, LineKnown
  <2>2. phase = "line" => SeenLine(state, next_parse_pos, rl)'
    BY <2>1, SeenSame
  <2>3. \A end : ValidRequestLine(end)' <=> ValidRequestLine(end)
    BY SameLine
  <2> QED BY <2>2, <2>3 DEF GrammarInv, LineKnown
<1>3. LineNotMissed'
  BY SameStream DEF GrammarInv, LineNotMissed, Aligned
<1>4. UrlKnown'
  BY SameLine DEF GrammarInv, UrlKnown
<1>5. HeaderKnown'
  <2>1. LastLine' = LastLine
    BY DEF LastLine, SelectLastInSubSeq
  <2> QED BY <2>1, SameHeaders DEF GrammarInv, HeaderKnown
<1>6. HeaderNotMissed'
  BY SameHeaders DEF GrammarInv, HeaderNotMissed, EndAligned, HeaderAligned
<1> QED BY <1>1, <1>2, <1>3, <1>4, <1>5, <1>6

\* Nothing has been parsed when the connection is accepted.
LEMMA GrammarInit == Init => GrammarInv
<1> SUFFICES ASSUME Init PROVE GrammarInv
  OBVIOUS
<1>1. /\ stream \in Seq(Chars) /\ received = 0 /\ next_parse_pos = 1 /\ line_begin = 1
      /\ phase = "line" /\ state = "RL_BEGIN" /\ ~running /\ running \in BOOLEAN
      /\ result = "AGAIN"
  BY InputsAssumption DEF Init, parse_archive_init
<1>2. /\ rl \in LineArchive /\ rl.http_major = 0 /\ rl.http_minor = 0
      /\ rl.abs_path = Unset /\ rl.query_string = Unset /\ rl.mime_extension = Unset
  BY DEF Init, parse_archive_init, LineArchive, Unset
<1>3. hd \in HeaderArchive /\ hd.name = Unset
  BY DEF Init, parse_archive_init, HeaderArchive, Unset
<1>4. Places
  BY <1>1, <1>2, <1>3 DEF Places, LineStates
<1>5. VersionFits /\ UrlKnown
  BY <1>1, <1>2 DEF VersionFits, UrlKnown
<1>6. LineKnown /\ HeaderKnown /\ HeaderNotMissed
  BY <1>1, <1>2, <1>3 DEF LineKnown, HeaderKnown, HeaderNotMissed, SeenLine
<1>7. LineNotMissed
  BY <1>1 DEF LineNotMissed, Aligned
<1> QED BY <1>4, <1>5, <1>6, <1>7 DEF GrammarInv

-----------------------------------------------------------------------------
(* The steps of parse_request_line.                                        *)

LEMMA ParsingPlace ==
  ASSUME GrammarInv, phase \in {"line", "headers"}, running, next_parse_pos =< received
  PROVE  /\ stream \in Seq(Chars) /\ next_parse_pos \in 1 .. Len(stream) /\ next_parse_pos \in Nat
         /\ next_parse_pos + 1 \in 1 .. received + 1
         /\ line_begin \in Nat /\ line_begin =< next_parse_pos /\ line_begin > 0
         /\ rl \in LineArchive /\ hd \in HeaderArchive
         /\ ch = stream[next_parse_pos] /\ received \in 0 .. Len(stream)
BY DEF GrammarInv, Places, ch

\* parse_request_line returns INVALID_REQUEST.
LEMMA LineRejected ==
  ASSUME GrammarInv, phase = "line", running, next_parse_pos =< received, Reject, hd' = hd,
         rl' \in LineArchive, VersionFits', rl'.url_begin = rl.url_begin,
         rl'.abs_path = rl.abs_path, rl'.query_string = rl.query_string,
         rl'.mime_extension = rl.mime_extension,
         \A m \in Methods : \A u \in Nat, x \in Nat, v \in Nat, dot \in Nat, end \in Nat :
           ~(end =< Len(stream) /\ LineIs(m, u, x, v, dot, end))
  PROVE  GrammarInv'
<1>1. /\ phase' = "rejected" /\ running' = FALSE /\ result' = "INVALID_REQUEST"
      /\ stream' = stream /\ received' = received /\ next_parse_pos' = next_parse_pos
      /\ state' = state /\ line_begin' = line_begin
  BY DEF Reject
<1>2. state \in LineStates
  BY DEF GrammarInv, Places
<1>3. Places'
  BY <1>1, <1>2 DEF GrammarInv, Places
<1>4. LineKnown' /\ HeaderKnown'
  BY <1>1 DEF LineKnown, HeaderKnown
<1>5. LineNotMissed'
  BY <1>1, SameStream DEF LineNotMissed
<1>6. UrlKnown'
  BY <1>1, SameLine DEF GrammarInv, UrlKnown
<1>7. HeaderNotMissed'
  <2>1. state \notin HeaderStates
    BY <1>2 DEF LineStates, HeaderStates
  <2> QED BY <1>1, <2>1 DEF HeaderNotMissed
<1> QED BY <1>3, <1>4, <1>5, <1>6, <1>7 DEF GrammarInv

\* What a transition of parse_request_line does to the record, the URL included.
LEMMA LineRecord ==
  ASSUME GrammarInv, phase = "line", running, next_parse_pos =< received,
         NEW e \in RequestLineFSM, e.from = state, ch \in e.on
  PROVE  LET f == OnRequestLine(e) IN
           /\ f \in LineArchive /\ f.http_major =< 99 /\ f.http_minor =< 99
           /\ ~(EndsUrl(e) /\ UrlIsAbsolute) =>
                /\ f.abs_path = rl.abs_path /\ f.query_string = rl.query_string
                /\ f.mime_extension = rl.mime_extension
           /\ EndsUrl(e) /\ UrlIsAbsolute /\ f.query_string # Unset =>
                UrlDivided(f.abs_path, f.query_string, f.mime_extension, f.url_begin)
<1> DEFINE f == OnRequestLine(e)
           p == next_parse_pos
<1>1. /\ rl \in LineArchive /\ p \in Nat /\ ch = stream[p] /\ p > 0
      /\ SeenLine(state, p, rl) /\ VersionFits
  BY ParsingPlace DEF GrammarInv, LineKnown
<1>2. /\ f.url_begin = IF e.from = "RL_SP_BEFORE_URL" /\ e.to = "RL_URL"
                         THEN next_parse_pos ELSE rl.url_begin
      /\ f.http_major = IF e.to = "RL_VERSION_MAJOR" THEN rl.http_major * 10 + DigitValue(ch)
                        ELSE rl.http_major
      /\ f.http_minor = IF e.to = "RL_VERSION_MINOR" THEN rl.http_minor * 10 + DigitValue(ch)
                        ELSE rl.http_minor
  BY <1>1, LineEffect
<1>3. e.to = "RL_VERSION_MAJOR" =>
        DigitValue(ch) \in 0 .. 2 /\ rl.http_major \in 0 .. 2
  <2> SUFFICES ASSUME e.to = "RL_VERSION_MAJOR"
               PROVE  DigitValue(ch) \in 0 .. 2 /\ rl.http_major \in 0 .. 2
    OBVIOUS
  <2>1. ch \in Digit /\ state \in {"RL_VERSION_HTTP_SLASH", "RL_VERSION_MAJOR"}
    BY LineEdges
  <2>2. CASE state = "RL_VERSION_HTTP_SLASH"
    BY <1>1, <2>1, <2>2, DigitValues DEF SeenLine, EarlyStates, LineStates
  <2>3. CASE state = "RL_VERSION_MAJOR"
    <3>1. PICK v \in Nat : /\ v + 6 =< p /\ Number(v + 5, p)
                           /\ rl.http_major = DigitValue(stream[p - 1])
      BY <1>1, <2>3 DEF SeenLine
    <3>2. stream[p - 1] \in Digit
      BY <1>1, <3>1 DEF Number, AllIn
    <3> QED BY <2>1, <3>1, <3>2, DigitValues
  <2> QED BY <2>1, <2>2, <2>3
<1>4. e.to = "RL_VERSION_MINOR" =>
        DigitValue(ch) \in 0 .. 2 /\ rl.http_minor \in 0 .. 2
  <2> SUFFICES ASSUME e.to = "RL_VERSION_MINOR"
               PROVE  DigitValue(ch) \in 0 .. 2 /\ rl.http_minor \in 0 .. 2
    OBVIOUS
  <2>1. ch \in Digit /\ state \in {"RL_VERSION_DOT", "RL_VERSION_MINOR"}
    BY LineEdges
  <2>2. CASE state = "RL_VERSION_DOT"
    BY <1>1, <2>1, <2>2, DigitValues DEF SeenLine
  <2>3. CASE state = "RL_VERSION_MINOR"
    <3>1. PICK dot \in Nat : /\ dot + 2 =< p /\ Number(dot + 1, p)
                             /\ rl.http_minor = DigitValue(stream[p - 1])
      BY <1>1, <2>3 DEF SeenLine
    <3>2. stream[p - 1] \in Digit
      BY <1>1, <3>1 DEF Number, AllIn
    <3> QED BY <2>1, <3>1, <3>2, DigitValues
  <2> QED BY <2>1, <2>2, <2>3
<1>5. rl.http_major \in Nat /\ rl.http_minor \in Nat
  BY <1>1 DEF LineArchive
<1>6. /\ f.http_major =< 99 /\ f.http_minor =< 99
      /\ f.http_major \in Nat /\ f.http_minor \in Nat
  <2> HIDE DEF f
  <2>1. f.http_major =< 99 /\ f.http_major \in Nat
    BY <1>1, <1>2, <1>3, <1>5 DEF VersionFits
  <2>2. f.http_minor =< 99 /\ f.http_minor \in Nat
    BY <1>1, <1>2, <1>4, <1>5 DEF VersionFits
  <2> QED BY <2>1, <2>2
<1>7. CASE EndsUrl(e) /\ UrlIsAbsolute
  <2>1. f = parse_url(rl.url_begin, p)
    BY <1>7 DEF OnRequestLine, EndsUrl
  <2>2. state = "RL_URL"
    BY <1>7 DEF EndsUrl
  <2>3. PICK m \in Methods : /\ Len(m) + 2 =< rl.url_begin /\ rl.url_begin < p
                             /\ AllIn(Text \ Blank, rl.url_begin, p)
    BY <1>1, <2>2 DEF SeenLine
  <2>4. rl.url_begin \in Nat /\ rl.url_begin > 0
    <3>1. Len(m) \in Nat /\ rl.url_begin \in Nat
      BY <1>1, MethodWords DEF LineArchive
    <3> QED BY <2>3, <3>1
  <2>5. rl.abs_path = Unset /\ rl.query_string = Unset /\ rl.mime_extension = Unset
    BY <2>2 DEF GrammarInv, UrlKnown
  <2>6. stream[rl.url_begin] = "/"
    BY <1>7 DEF UrlIsAbsolute
  <2>7. /\ f \in LineArchive
        /\ f.query_string # Unset =>
             UrlDivided(f.abs_path, f.query_string, f.mime_extension, rl.url_begin)
    BY <1>1, <2>1, <2>3, <2>4, <2>5, <2>6, UrlParts
  <2>8. f.url_begin = rl.url_begin
    BY <1>2, <2>2
  <2> QED BY <1>6, <1>7, <2>7, <2>8
<1>8. CASE ~(EndsUrl(e) /\ UrlIsAbsolute)
  <2>1. CASE e.from = "RL_BEGIN"
    <3>1. f = [rl EXCEPT !.method_begin = next_parse_pos]
      <4>1. e.to = "RL_METHOD"
        BY <2>1, LineEdges
      <4> QED BY <2>1, <4>1 DEF OnRequestLine, EndsUrl
    <3> HIDE DEF f
    <3>2. f \in LineArchive
      BY <1>1, <3>1, Zenon DEF LineArchive
    <3>3. /\ f.abs_path = rl.abs_path /\ f.query_string = rl.query_string
          /\ f.mime_extension = rl.mime_extension
      BY <1>1, <3>1, Zenon DEF LineArchive
    <3> QED BY <1>6, <1>8, <3>2, <3>3 DEF f
  <2>2. CASE e.from = "RL_SP_BEFORE_URL" /\ e.to = "RL_URL"
    <3>1. f = [rl EXCEPT !.url_begin = next_parse_pos]
      BY <2>2 DEF OnRequestLine, EndsUrl
    <3> HIDE DEF f
    <3>2. f \in LineArchive
      BY <1>1, <3>1, Zenon DEF LineArchive
    <3>3. /\ f.abs_path = rl.abs_path /\ f.query_string = rl.query_string
          /\ f.mime_extension = rl.mime_extension
      BY <1>1, <3>1, Zenon DEF LineArchive
    <3> QED BY <1>6, <1>8, <3>2, <3>3 DEF f
  <2>3. CASE e.to = "RL_VERSION_MAJOR"
    <3> DEFINE n == rl.http_major * 10 + DigitValue(ch)
    <3>1. f = [rl EXCEPT !.http_major = n]
      BY <2>3, LineEdges DEF OnRequestLine, EndsUrl
    <3>2. n \in Nat
      BY <1>3, <2>3
    <3> HIDE DEF f, n
    <3>3. f \in LineArchive
      BY <1>1, <3>1, <3>2, Zenon DEF LineArchive
    <3>4. /\ f.abs_path = rl.abs_path /\ f.query_string = rl.query_string
          /\ f.mime_extension = rl.mime_extension
      BY <1>1, <3>1, Zenon DEF LineArchive
    <3> QED BY <1>6, <1>8, <3>3, <3>4 DEF f
  <2>4. CASE e.to = "RL_VERSION_MINOR"
    <3> DEFINE n == rl.http_minor * 10 + DigitValue(ch)
    <3>1. f = [rl EXCEPT !.http_minor = n]
      BY <2>4, LineEdges DEF OnRequestLine, EndsUrl
    <3>2. n \in Nat
      BY <1>4, <2>4
    <3> HIDE DEF f, n
    <3>3. f \in LineArchive
      BY <1>1, <3>1, <3>2, Zenon DEF LineArchive
    <3>4. /\ f.abs_path = rl.abs_path /\ f.query_string = rl.query_string
          /\ f.mime_extension = rl.mime_extension
      BY <1>1, <3>1, Zenon DEF LineArchive
    <3> QED BY <1>6, <1>8, <3>3, <3>4 DEF f
  <2>5. CASE /\ e.from # "RL_BEGIN" /\ ~(e.from = "RL_SP_BEFORE_URL" /\ e.to = "RL_URL")
             /\ e.to \notin {"RL_VERSION_MAJOR", "RL_VERSION_MINOR"}
    <3>1. f = rl
      BY <1>8, <2>5 DEF OnRequestLine
    <3> HIDE DEF f
    <3> QED BY <1>1, <1>6, <1>8, <3>1 DEF f
  <2> QED BY <2>1, <2>2, <2>3, <2>4, <2>5
<1> QED BY <1>7, <1>8

\* No transition of parse_request_line leads out of the line without a reason.
LEMMA LineStuck ==
  ASSUME GrammarInv, phase = "line", running, next_parse_pos =< received,
         \/ Edges(RequestLineFSM) = {}
         \/ \E e \in RequestLineFSM : e.from = state /\ ch \in e.on /\ Refuses(e)
  PROVE  \A m \in Methods : \A u \in Nat, x \in Nat, v \in Nat, dot \in Nat, end \in Nat :
           ~(end =< Len(stream) /\ LineIs(m, u, x, v, dot, end))
<1> SUFFICES ASSUME NEW m \in Methods, NEW u \in Nat, NEW x \in Nat, NEW v \in Nat,
                    NEW dot \in Nat, NEW end \in Nat,
                    end =< Len(stream), LineIs(m, u, x, v, dot, end)
             PROVE  FALSE
  OBVIOUS
<1>1. /\ stream \in Seq(Chars) /\ rl \in LineArchive
      /\ next_parse_pos \in 1 .. Len(stream) /\ next_parse_pos \in Nat
  BY ParsingPlace
<1>2. Aligned(state, next_parse_pos, rl, m, u, x, v, dot, end)
  BY DEF GrammarInv, LineNotMissed
<1>3. SeenLine(state, next_parse_pos, rl) /\ state \in LineStates
  BY DEF GrammarInv, LineKnown, Places
<1>4. CASE Edges(RequestLineFSM) = {}
  <2>1. Expected(state, next_parse_pos, m, u, x, v, dot, end)
    BY <1>1, <1>2, LineCharacters
  <2> QED BY <1>3, <1>4, <2>1, LineGoesOn
<1>5. CASE \E e \in RequestLineFSM : e.from = state /\ ch \in e.on /\ Refuses(e)
  BY <1>1, <1>2, <1>3, <1>5, AlignedStep
<1> QED BY <1>4, <1>5

\* A refused transition leaves the URL alone.
LEMMA RefusedKeepsUrl ==
  ASSUME rl \in LineArchive, next_parse_pos \in Nat,
         NEW e \in RequestLineFSM, e.from = state, Refuses(e)
  PROVE  ~(EndsUrl(e) /\ UrlIsAbsolute) /\ OnRequestLine(e).url_begin = rl.url_begin
<1>1. ~(EndsUrl(e) /\ UrlIsAbsolute) /\ ~(e.from = "RL_SP_BEFORE_URL" /\ e.to = "RL_URL")
  BY DEF Refuses, EndsUrl, EndsMethod
<1> QED BY <1>1, LineEffect

\* The line goes on.
LEMMA LineContinues ==
  ASSUME GrammarInv, phase = "line", running, next_parse_pos =< received,
         NEW e \in RequestLineFSM, e.from = state, ch \in e.on, ~Refuses(e),
         e.to # "RL_LF_AFTER_VERSION", rl' = OnRequestLine(e), hd' = hd, Continue(e.to)
  PROVE  GrammarInv'
<1>1. /\ stream \in Seq(Chars) /\ rl \in LineArchive
      /\ next_parse_pos \in 1 .. Len(stream) /\ next_parse_pos \in Nat
      /\ next_parse_pos + 1 \in 1 .. received + 1
  BY ParsingPlace
<1>2. /\ phase' = "line" /\ running' = running /\ result' = result
      /\ stream' = stream /\ received' = received /\ line_begin' = line_begin
      /\ next_parse_pos' = next_parse_pos + 1 /\ state' = e.to
  BY DEF Continue
<1>3. SeenLine(state, next_parse_pos, rl) /\ hd.name = Unset
  BY DEF GrammarInv, LineKnown
<1>4. e.to \in LineStates
  BY LineEdges DEF LineStates
<1>5. /\ rl' \in LineArchive /\ rl'.http_major =< 99 /\ rl'.http_minor =< 99
      /\ ~(EndsUrl(e) /\ UrlIsAbsolute) =>
           /\ rl'.abs_path = rl.abs_path /\ rl'.query_string = rl.query_string
           /\ rl'.mime_extension = rl.mime_extension
      /\ EndsUrl(e) /\ UrlIsAbsolute /\ rl'.query_string # Unset =>
           UrlDivided(rl'.abs_path, rl'.query_string, rl'.mime_extension, rl'.url_begin)
  BY LineRecord
<1>6. Places'
  <2>1. line_begin \in 1 .. next_parse_pos + 1
    BY DEF GrammarInv, Places
  <2> QED BY <1>1, <1>2, <1>4, <1>5, <2>1 DEF GrammarInv, Places
<1>7. VersionFits'
  BY <1>5 DEF VersionFits
<1>8. LineKnown'
  <2>1. SeenLine(state', next_parse_pos', rl')
    BY <1>1, <1>2, <1>3, SeenStep
  <2>2. SeenLine(state, next_parse_pos, rl)'
    BY <1>2, <2>1, SeenSame
  <2> QED BY <1>2, <1>3, <2>2 DEF LineKnown
<1>9. LineNotMissed'
  <2> SUFFICES ASSUME NEW m \in Methods, NEW u \in Nat, NEW x \in Nat, NEW v \in Nat,
                      NEW dot \in Nat, NEW end \in Nat,
                      end =< Len(stream), LineIs(m, u, x, v, dot, end)
               PROVE  Aligned(state', next_parse_pos', rl', m, u, x, v, dot, end)
    BY <1>2, SameStream DEF LineNotMissed, Aligned
  <2>1. Aligned(state, next_parse_pos, rl, m, u, x, v, dot, end)
    BY DEF GrammarInv, LineNotMissed
  <2> QED BY <1>1, <1>2, <1>3, <2>1, AlignedStep
<1>10. UrlKnown'
  <2>1. \A p, q, x, b : UrlDivided(p, q, x, b)' <=> UrlDivided(p, q, x, b)
    BY <1>2, SameLine
  <2>2. CASE EndsUrl(e)
    <3>1. UrlIsAbsolute
      BY <2>2 DEF Refuses
    <3>2. state' = "RL_SP_BEFORE_VERSION"
      BY <1>2, <2>2 DEF EndsUrl
    <3> QED BY <1>5, <2>1, <2>2, <3>1, <3>2 DEF UrlKnown
  <2>3. CASE ~EndsUrl(e)
    <3> DEFINE Early == {"RL_BEGIN", "RL_METHOD", "RL_SP_BEFORE_URL", "RL_URL"}
    <3>1. state' \in Early <=> state \in Early
      BY <1>2, <2>3, LineEdges DEF EndsUrl
    <3>2. rl'.url_begin = rl.url_begin \/ state' = "RL_URL"
      BY <1>1, <1>2, LineEffect
    <3>3. UrlKnown
      BY DEF GrammarInv
    <3> QED BY <1>5, <2>1, <2>3, <3>1, <3>2, <3>3 DEF UrlKnown
  <2> QED BY <2>2, <2>3
<1>11. HeaderKnown' /\ HeaderNotMissed'
  BY <1>2 DEF HeaderKnown, HeaderNotMissed
<1> QED BY <1>6, <1>7, <1>8, <1>9, <1>10, <1>11 DEF GrammarInv

\* The line is complete.
LEMMA LineCompletes ==
  ASSUME GrammarInv, phase = "line", running, next_parse_pos =< received,
         NEW e \in RequestLineFSM, e.from = state, ch \in e.on,
         e.to = "RL_LF_AFTER_VERSION", rl' = OnRequestLine(e), hd' = hd, Complete("OK")
  PROVE  GrammarInv'
<1>1. /\ stream \in Seq(Chars) /\ rl \in LineArchive
      /\ next_parse_pos \in 1 .. Len(stream) /\ next_parse_pos \in Nat
      /\ next_parse_pos + 1 \in 1 .. received + 1 /\ ch = stream[next_parse_pos]
  BY ParsingPlace
<1>2. /\ phase' = "headers" /\ running' = TRUE /\ result' = "OK"
      /\ stream' = stream /\ received' = received /\ line_begin' = next_parse_pos + 1
      /\ next_parse_pos' = next_parse_pos + 1 /\ state' = "HD_BEGIN"
  BY DEF Complete
<1>3. SeenLine(state, next_parse_pos, rl) /\ hd.name = Unset
  BY DEF GrammarInv, LineKnown
<1>4. state = "RL_CR_AFTER_VERSION" /\ ch = LF
  BY LineEdges
<1>5. /\ rl' \in LineArchive /\ rl'.http_major =< 99 /\ rl'.http_minor =< 99
      /\ rl'.abs_path = rl.abs_path /\ rl'.query_string = rl.query_string
      /\ rl'.mime_extension = rl.mime_extension
  <2>1. ~EndsUrl(e)
    BY <1>4 DEF EndsUrl
  <2> QED BY <2>1, LineRecord
<1>6. Places'
  BY <1>1, <1>2, <1>5 DEF GrammarInv, Places, HeaderStates
<1>7. VersionFits'
  BY <1>5 DEF VersionFits
<1>8. LineKnown'
  <2>1. ValidRequestLine(next_parse_pos)
    BY <1>1, <1>3, <1>4, LineAccepted
  <2>2. line_begin' - 1 = next_parse_pos
    BY <1>1, <1>2
  <2>3. ValidRequestLine(line_begin' - 1)
    BY <2>1, <2>2
  <2>4. ValidRequestLine(line_begin - 1)'
    BY <1>2, <2>3, SameLine
  <2> QED BY <1>2, <2>4 DEF LineKnown
<1>9. LineNotMissed'
  BY <1>2 DEF LineNotMissed
<1>10. UrlKnown'
  <2>1. rl'.url_begin = rl.url_begin
    BY <1>1, <1>4, LineEffect
  <2> QED BY <1>2, <1>4, <1>5, <2>1, SameLine DEF GrammarInv, UrlKnown
<1>11. HeaderKnown'
  <2>1. line_begin' > 1 /\ line_begin' - 1 = next_parse_pos
    BY <1>1, <1>2
  <2>2. stream'[line_begin' - 1] = LF
    BY <1>1, <1>2, <1>4, <2>1
  <2>3. AllIn(Blank, next_parse_pos + 1, next_parse_pos + 1)
    BY <1>1, RunStarts
  <2>4. SeenHeader("HD_BEGIN", next_parse_pos + 1, hd', next_parse_pos + 1)
    BY <2>3 DEF SeenHeader
  <2>5. SeenHeader(state, next_parse_pos, hd, line_begin)'
    BY <1>2, <2>4, SameHeaders
  <2> QED BY <1>2, <1>3, <2>1, <2>2, <2>5 DEF HeaderKnown
<1>12. HeaderNotMissed'
  BY <1>1, <1>2 DEF HeaderNotMissed, EndAligned, HeaderAligned, HeaderIs
<1> QED BY <1>6, <1>7, <1>8, <1>9, <1>10, <1>11, <1>12 DEF GrammarInv

\* parse_request_line keeps the invariant.
LEMMA LineStep ==
  ASSUME GrammarInv, parse_request_line
  PROVE  GrammarInv'
<1>1. /\ phase = "line" /\ running /\ next_parse_pos =< received /\ hd' = hd
      /\ rl \in LineArchive /\ next_parse_pos \in Nat
  <2>1. phase = "line" /\ running /\ next_parse_pos =< received /\ hd' = hd
    BY DEF parse_request_line
  <2> QED BY <2>1, ParsingPlace
<1>2. CASE Edges(RequestLineFSM) = {} /\ Reject /\ rl' = rl
  <2>1. VersionFits'
    BY <1>2 DEF GrammarInv, VersionFits
  <2> QED BY <1>1, <1>2, <2>1, LineStuck, LineRejected
<1>3. ASSUME NEW e \in RequestLineFSM, e.from = state, ch \in e.on, rl' = OnRequestLine(e),
             Refuses(e), Reject
      PROVE  GrammarInv'
  <2>1. ~(EndsUrl(e) /\ UrlIsAbsolute) /\ rl'.url_begin = rl.url_begin
    BY <1>1, <1>3, RefusedKeepsUrl
  <2>2. /\ rl' \in LineArchive /\ rl'.http_major =< 99 /\ rl'.http_minor =< 99
        /\ rl'.abs_path = rl.abs_path /\ rl'.query_string = rl.query_string
        /\ rl'.mime_extension = rl.mime_extension
    BY <1>1, <1>3, <2>1, LineRecord
  <2>3. VersionFits'
    BY <2>2 DEF VersionFits
  <2>4. \A m \in Methods : \A u \in Nat, x \in Nat, v \in Nat, dot \in Nat, end \in Nat :
           ~(end =< Len(stream) /\ LineIs(m, u, x, v, dot, end))
    BY <1>1, <1>3, LineStuck
  <2> QED BY <1>1, <1>3, <2>1, <2>2, <2>3, <2>4, LineRejected
<1>4. ASSUME NEW e \in RequestLineFSM, e.from = state, ch \in e.on, rl' = OnRequestLine(e),
             ~Refuses(e), e.to # "RL_LF_AFTER_VERSION", Continue(e.to)
      PROVE  GrammarInv'
  BY <1>1, <1>4, LineContinues
<1>5. ASSUME NEW e \in RequestLineFSM, e.from = state, ch \in e.on, rl' = OnRequestLine(e),
             e.to = "RL_LF_AFTER_VERSION", Complete("OK")
      PROVE  GrammarInv'
  BY <1>1, <1>5, LineCompletes
<1> QED BY <1>2, <1>3, <1>4, <1>5 DEF parse_request_line, Edges

-----------------------------------------------------------------------------
(* The steps of parse_header_line, and the theorems.                       *)

\* Where parse_header_line finds no transition, no header and no end follows.
LEMMA HeaderStuck ==
  ASSUME GrammarInv, phase = "headers", running, next_parse_pos =< received,
         Edges(HeaderFSM) = {}, NEW end \in Nat, line_begin < end, end =< Len(stream)
  PROVE  /\ ~ValidEnd(line_begin, end)
         /\ \A i \in Nat, c \in Nat, j \in Nat : ~HeaderIs(line_begin, i, c, j, end)
<1>1. /\ next_parse_pos \in Nat /\ line_begin \in Nat /\ line_begin =< next_parse_pos
      /\ ch = stream[next_parse_pos]
  BY ParsingPlace
<1>2. state \in HeaderStates
  BY DEF GrammarInv, Places
<1>3. ASSUME ValidEnd(line_begin, end) PROVE FALSE
  <2>1. EndAligned(state, next_parse_pos, end)
    BY <1>3 DEF GrammarInv, HeaderNotMissed
  <2>2. /\ state = "HD_BEGIN" => ch \in Blank \cup {CR}
        /\ state = "HD_CR_AFTER_VAL" => ch = LF
    BY <1>1, <1>3, <2>1, EndAlignedStep
  <2>3. state \in {"HD_BEGIN", "HD_CR_AFTER_VAL"}
    BY <2>1 DEF EndAligned
  <2> QED BY <2>2, <2>3, HeaderGoesOn
<1>4. ASSUME NEW i \in Nat, NEW c \in Nat, NEW j \in Nat, HeaderIs(line_begin, i, c, j, end)
      PROVE  FALSE
  <2>1. HeaderAligned(state, next_parse_pos, i, c, j, end)
    BY <1>4 DEF GrammarInv, HeaderNotMissed
  <2>2. /\ state = "HD_BEGIN" => ch \in Blank \cup Name
        /\ state = "HD_NAME" => ch \in Name \cup {":"}
        /\ state \in {"HD_COLON", "HD_SP_BEFORE_VAL"} => ch \in Text
        /\ state = "HD_VAL" => ch \in Text \cup {CR}
        /\ state = "HD_CR_AFTER_VAL" => ch = LF
    BY <1>1, <1>4, <2>1, HeaderAlignedStep
  <2>3. state \in {"HD_BEGIN", "HD_NAME", "HD_COLON", "HD_SP_BEFORE_VAL", "HD_VAL",
                   "HD_CR_AFTER_VAL"}
    BY <2>1 DEF HeaderAligned
  <2> QED BY <2>2, <2>3, HeaderGoesOn
<1> QED BY <1>3, <1>4

\* parse_header_line returns INVALID_REQUEST.
LEMMA HeaderRejected ==
  ASSUME GrammarInv, phase = "headers", running, next_parse_pos =< received,
         Edges(HeaderFSM) = {}, Reject, hd' = hd, rl' = rl
  PROVE  GrammarInv'
<1>1. /\ phase' = "rejected" /\ running' = FALSE /\ result' = "INVALID_REQUEST"
      /\ stream' = stream /\ received' = received /\ next_parse_pos' = next_parse_pos
      /\ state' = state /\ line_begin' = line_begin
  BY DEF Reject
<1>2. state \in HeaderStates /\ state \notin LineStates
  BY DEF GrammarInv, Places, LineStates, HeaderStates
<1>3. Places'
  BY <1>1, <1>2 DEF GrammarInv, Places
<1>4. VersionFits' /\ LineKnown' /\ HeaderKnown'
  BY <1>1 DEF GrammarInv, VersionFits, LineKnown, HeaderKnown
<1>5. LineNotMissed'
  BY <1>1, <1>2 DEF LineNotMissed
<1>6. UrlKnown'
  BY <1>1, SameLine DEF GrammarInv, UrlKnown
<1>7. HeaderNotMissed'
  <2>1. \A end \in Nat : line_begin < end /\ end =< Len(stream) =>
          /\ ~ValidEnd(line_begin, end)
          /\ \A i \in Nat, c \in Nat, j \in Nat : ~HeaderIs(line_begin, i, c, j, end)
    BY HeaderStuck
  <2> QED BY <1>1, <2>1, SameHeaders DEF HeaderNotMissed
<1> QED BY <1>3, <1>4, <1>5, <1>6, <1>7 DEF GrammarInv

\* The header line goes on.
LEMMA HeaderContinues ==
  ASSUME GrammarInv, phase = "headers", running, next_parse_pos =< received,
         NEW e \in HeaderFSM, e.from = state, ch \in e.on, e.from # "HD_CR_AFTER_VAL",
         hd' = OnHeader(e), rl' = rl, Continue(e.to)
  PROVE  GrammarInv'
<1>1. /\ stream \in Seq(Chars) /\ hd \in HeaderArchive
      /\ next_parse_pos \in 1 .. Len(stream) /\ next_parse_pos \in Nat
      /\ line_begin \in Nat /\ line_begin =< next_parse_pos
      /\ next_parse_pos + 1 \in 1 .. received + 1 /\ ch = stream[next_parse_pos]
  BY ParsingPlace
<1>2. /\ phase' = "headers" /\ running' = running /\ result' = result
      /\ stream' = stream /\ received' = received /\ line_begin' = line_begin
      /\ next_parse_pos' = next_parse_pos + 1 /\ state' = e.to
  BY DEF Continue
<1>3. /\ line_begin > 1 /\ stream[line_begin - 1] = LF
      /\ SeenHeader(state, next_parse_pos, hd, line_begin)
  BY DEF GrammarInv, HeaderKnown
<1>4. state \in HeaderStates /\ e.to \in HeaderStates
  <2>1. state \in HeaderStates
    BY DEF GrammarInv, Places
  <2> QED BY <2>1, HeaderEdges DEF HeaderStates
<1>5. hd' \in HeaderArchive /\ hd'.name = hd.name
  BY <1>1, HeaderEffect
<1>6. Places'
  <2>1. line_begin \in 1 .. next_parse_pos + 1
    BY DEF GrammarInv, Places
  <2> QED BY <1>1, <1>2, <1>4, <1>5, <2>1 DEF GrammarInv, Places
<1>7. VersionFits'
  BY DEF GrammarInv, VersionFits
<1>8. LineKnown'
  BY <1>2, <1>5, SameLine DEF GrammarInv, LineKnown
<1>9. LineNotMissed'
  BY <1>2 DEF LineNotMissed
<1>10. UrlKnown'
  <2>1. /\ state \notin {"RL_BEGIN", "RL_METHOD", "RL_SP_BEFORE_URL", "RL_URL"}
        /\ state' \notin {"RL_BEGIN", "RL_METHOD", "RL_SP_BEFORE_URL", "RL_URL"}
    BY <1>2, <1>4 DEF HeaderStates
  <2> QED BY <1>2, <2>1, SameLine DEF GrammarInv, UrlKnown
<1>11. HeaderKnown'
  <2>1. SeenHeader(e.to, next_parse_pos + 1, hd', line_begin)
    BY <1>1, <1>3, SeenHeaderStep
  <2>2. SeenHeader(state, next_parse_pos, hd, line_begin)'
    BY <1>2, <2>1, SameHeaders
  <2>3. line_begin' > 1 /\ stream'[line_begin' - 1] = LF /\ next_parse_pos' # line_begin'
    BY <1>1, <1>2, <1>3
  <2> QED BY <1>2, <2>2, <2>3 DEF HeaderKnown
<1>12. HeaderNotMissed'
  <2>1. \A end \in Nat : line_begin < end /\ end =< Len(stream) /\ ValidEnd(line_begin, end) =>
          EndAligned(e.to, next_parse_pos + 1, end)
    BY <1>1, EndAlignedStep DEF GrammarInv, HeaderNotMissed
  <2>2. \A end \in Nat, i \in Nat, c \in Nat, j \in Nat :
          line_begin < end /\ end =< Len(stream) /\ HeaderIs(line_begin, i, c, j, end) =>
            HeaderAligned(e.to, next_parse_pos + 1, i, c, j, end)
    <3> TAKE end \in Nat, i \in Nat, c \in Nat, j \in Nat
    <3> HAVE line_begin < end /\ end =< Len(stream) /\ HeaderIs(line_begin, i, c, j, end)
    <3>1. HeaderAligned(state, next_parse_pos, i, c, j, end)
      BY DEF GrammarInv, HeaderNotMissed
    <3> QED BY <1>1, <3>1, HeaderAlignedStep
  <2>3. /\ \A end \in Nat : EndAligned(state, next_parse_pos, end)' <=>
                              EndAligned(e.to, next_parse_pos + 1, end)
        /\ \A end \in Nat, i \in Nat, c \in Nat, j \in Nat :
             HeaderAligned(state, next_parse_pos, i, c, j, end)' <=>
               HeaderAligned(e.to, next_parse_pos + 1, i, c, j, end)
    BY <1>2 DEF EndAligned, HeaderAligned
  <2>4. /\ \A end : ValidEnd(line_begin, end)' <=> ValidEnd(line_begin, end)
        /\ \A i, c, j, end : HeaderIs(line_begin, i, c, j, end)' <=>
                               HeaderIs(line_begin, i, c, j, end)
    BY <1>2, SameHeaders
  <2> QED BY <1>2, <2>1, <2>2, <2>3, <2>4 DEF HeaderNotMissed
<1> QED BY <1>6, <1>7, <1>8, <1>9, <1>10, <1>11, <1>12 DEF GrammarInv

\* What HEADER_SET writes.
LEMMA HeaderSetIs ==
  ASSUME hd \in HeaderArchive, hd' = HEADER_SET
  PROVE  /\ hd' \in HeaderArchive
         /\ hd'.name = <<hd.line_begin, hd.colon_pos>>
         /\ hd'.value = <<hd.val_begin, hd.val_end>>
<1> DEFINE n == <<hd.line_begin, hd.colon_pos>>
           w == <<hd.val_begin, hd.val_end>>
<1>1. hd' = [hd EXCEPT !.name = n, !.value = w]
  BY DEF HEADER_SET
<1>2. n \in Nat \X Nat /\ w \in Nat \X Nat
  BY DEF HeaderArchive
<1> HIDE DEF n, w
<1>3. hd' \in HeaderArchive
  BY <1>1, <1>2, Zenon DEF HeaderArchive
<1>4. hd'.name = n /\ hd'.value = w
  BY <1>1, Zenon DEF HeaderArchive
<1> QED BY <1>3, <1>4 DEF n, w

\* A header line, or the empty line, is complete.
LEMMA HeaderCompletes ==
  ASSUME GrammarInv, phase = "headers", running, next_parse_pos =< received,
         NEW e \in HeaderFSM, e.from = state, ch \in e.on, e.from = "HD_CR_AFTER_VAL",
         hd' = HEADER_SET, rl' = rl, Complete(IF hd.isCRLF_LINE THEN "CRLF_LINE" ELSE "OK")
  PROVE  GrammarInv'
<1>1. /\ stream \in Seq(Chars) /\ hd \in HeaderArchive
      /\ next_parse_pos \in 1 .. Len(stream) /\ next_parse_pos \in Nat
      /\ line_begin \in Nat /\ line_begin =< next_parse_pos
      /\ next_parse_pos + 1 \in 1 .. received + 1 /\ ch = stream[next_parse_pos]
  BY ParsingPlace
<1>2. /\ stream' = stream /\ received' = received /\ line_begin' = next_parse_pos + 1
      /\ next_parse_pos' = next_parse_pos + 1 /\ state' = "HD_BEGIN"
      /\ phase' = IF hd.isCRLF_LINE THEN "done" ELSE "headers"
      /\ running' = ~hd.isCRLF_LINE
      /\ result' = IF hd.isCRLF_LINE THEN "CRLF_LINE" ELSE "OK"
  <2>1. hd.isCRLF_LINE \in BOOLEAN
    BY <1>1 DEF HeaderArchive
  <2> QED BY <2>1 DEF Complete
<1>3. ch = LF
  BY HeaderEdges
<1>4. /\ line_begin > 1 /\ stream[line_begin - 1] = LF
      /\ SeenCR(next_parse_pos, hd, line_begin)
  BY DEF GrammarInv, HeaderKnown, SeenHeader
<1>5. /\ hd' \in HeaderArchive
      /\ hd'.name = <<hd.line_begin, hd.colon_pos>>
      /\ hd'.value = <<hd.val_begin, hd.val_end>>
  BY <1>1, HeaderSetIs
<1>6. hd.isCRLF_LINE \in BOOLEAN /\ hd.line_begin \in Nat
  BY <1>1 DEF HeaderArchive
<1>7. ~hd.isCRLF_LINE => hd'.name # Unset
  <2>1. ~hd.isCRLF_LINE => hd.line_begin >= line_begin
    BY <1>4 DEF SeenCR, NameIs
  <2> QED BY <1>1, <1>4, <1>5, <1>6, <2>1 DEF Unset
<1>8. Places'
  <2>1. state' \in HeaderStates /\ phase' \in {"headers", "done"} /\ running' \in BOOLEAN
        /\ result' \in {"OK", "AGAIN", "INVALID_REQUEST", "CRLF_LINE"}
        /\ (phase' = "headers" => running')
    BY <1>2, <1>6 DEF HeaderStates
  <2> QED BY <1>1, <1>2, <1>5, <2>1 DEF GrammarInv, Places
<1>9. VersionFits'
  BY DEF GrammarInv, VersionFits
<1>10. LineKnown' /\ LineNotMissed'
  BY <1>2, <1>7 DEF LineKnown, LineNotMissed
<1>11. UrlKnown'
  <2>1. state \notin {"RL_BEGIN", "RL_METHOD", "RL_SP_BEFORE_URL", "RL_URL"}
    OBVIOUS
  <2> QED BY <1>2, <2>1, SameLine DEF GrammarInv, UrlKnown
<1>12. HeaderKnown'
  <2>1. line_begin' > 1 /\ line_begin' - 1 = next_parse_pos
    BY <1>1, <1>2
  <2>2. stream'[line_begin' - 1] = LF
    BY <1>1, <1>2, <1>3, <2>1
  <2>3. SeenHeader(state, next_parse_pos, hd, line_begin)'
    <3>1. AllIn(Blank, next_parse_pos + 1, next_parse_pos + 1)
      BY <1>1, RunStarts
    <3>2. SeenHeader("HD_BEGIN", next_parse_pos + 1, hd', next_parse_pos + 1)
      BY <3>1 DEF SeenHeader
    <3> QED BY <1>2, <3>2, SameHeaders
  <2>4. LastLine' = line_begin
    <3>1. \A k \in line_begin .. next_parse_pos - 1 : stream[k] # LF
      BY <1>1, <1>4, OneLineFeed
    <3>2. line_begin < next_parse_pos
      BY <1>4 DEF SeenCR
    <3> QED BY <1>1, <1>2, <1>4, <3>1, <3>2, LastLineIs
  <2>5. /\ hd.isCRLF_LINE => ValidEnd(line_begin, next_parse_pos)
        /\ ~hd.isCRLF_LINE =>
             ValidHeader(line_begin, next_parse_pos, hd'.name, hd'.value)
    BY <1>1, <1>3, <1>4, <1>5, HeaderAccepted
  <2>6. /\ phase' = "done" => ValidEnd(LastLine', line_begin' - 1)
        /\ phase' = "headers" => ValidHeader(LastLine', line_begin' - 1, hd'.name, hd'.value)
    BY <1>2, <2>1, <2>4, <2>5
  <2>7. /\ phase' = "done" => ValidEnd(LastLine, line_begin - 1)'
        /\ phase' = "headers" => ValidHeader(LastLine, line_begin - 1, hd.name, hd.value)'
    BY <1>2, <2>6, SameHeaders
  <2> QED BY <2>1, <2>2, <2>3, <2>7 DEF HeaderKnown
<1>13. HeaderNotMissed'
  <2>1. phase' # "rejected"
    BY <1>2
  <2> QED BY <1>1, <1>2, <2>1 DEF HeaderNotMissed, EndAligned, HeaderAligned, HeaderIs
<1> QED BY <1>8, <1>9, <1>10, <1>11, <1>12, <1>13 DEF GrammarInv

\* Every step keeps the invariant.
LEMMA GrammarNext == GrammarInv /\ [Next]_vars => GrammarInv'
<1> SUFFICES ASSUME GrammarInv, [Next]_vars PROVE GrammarInv'
  OBVIOUS
<1>1. ASSUME NEW n \in 1 .. Len(stream), request_recv(n) PROVE GrammarInv'
  <2>1. Places'
    BY <1>1 DEF GrammarInv, Places, request_recv
  <2> QED BY <1>1, <2>1, NothingParsed DEF GrammarInv, request_recv
<1>2. CASE parse_again
  <2>1. Places'
    BY <1>2 DEF GrammarInv, Places, parse_again, Again
  <2> QED BY <1>2, <2>1, NothingParsed DEF GrammarInv, parse_again, Again
<1>3. CASE parse_request_line
  BY <1>3, LineStep
<1>4. CASE parse_header_line
  <2>1. phase = "headers" /\ running /\ next_parse_pos =< received /\ rl' = rl
    BY <1>4 DEF parse_header_line
  <2>2. CASE Edges(HeaderFSM) = {} /\ Reject /\ hd' = hd
    BY <2>1, <2>2, HeaderRejected
  <2>3. ASSUME NEW e \in HeaderFSM, e.from = state, ch \in e.on, e.from # "HD_CR_AFTER_VAL",
               hd' = OnHeader(e), Continue(e.to)
        PROVE  GrammarInv'
    BY <2>1, <2>3, HeaderContinues
  <2>4. ASSUME NEW e \in HeaderFSM, e.from = state, ch \in e.on, e.from = "HD_CR_AFTER_VAL",
               hd' = HEADER_SET, Complete(IF hd.isCRLF_LINE THEN "CRLF_LINE" ELSE "OK")
        PROVE  GrammarInv'
    BY <2>1, <2>4, HeaderCompletes
  <2> QED BY <1>4, <2>2, <2>3, <2>4 DEF parse_header_line, Edges
<1>5. CASE UNCHANGED vars
  <2>1. Places'
    BY <1>5 DEF GrammarInv, Places, vars
  <2> QED BY <1>5, <2>1, NothingParsed DEF GrammarInv, vars
<1> QED BY <1>1, <1>2, <1>3, <1>4, <1>5 DEF Next

\* The inductive invariant: what has been seen is so (soundness), and the
\* parser is aligned with every line that the input holds (completeness).
THEOREM GrammarHolds == Spec => []GrammarInv
BY GrammarInit, GrammarNext, PTL DEF Spec

\* The invariant has the types in it.
LEMMA GrammarGivesTypes == GrammarInv => TypeOK
<1> SUFFICES ASSUME GrammarInv PROVE TypeOK
  OBVIOUS
<1>1. /\ stream \in Seq(Chars) /\ received \in 0 .. Len(stream)
      /\ next_parse_pos \in 1 .. received + 1 /\ line_begin \in 1 .. next_parse_pos
      /\ rl \in LineArchive /\ hd \in HeaderArchive
      /\ running \in BOOLEAN /\ result \in {"OK", "AGAIN", "INVALID_REQUEST", "CRLF_LINE"}
      /\ phase \in {"line", "headers", "done", "rejected"}
      /\ state \in LineStates \cup HeaderStates
  BY DEF GrammarInv, Places
<1>2. state \in States
  <2>1. States = {e.from : e \in RequestLineFSM} \cup {e.from : e \in HeaderFSM}
    BY Zenon DEF States
  <2> QED BY <1>1, <2>1, Froms
<1>3. /\ {rl.method_begin, rl.url_begin} \subseteq Nat
      /\ {rl.abs_path, rl.query_string, rl.mime_extension} \subseteq Strings
      /\ rl.http_major \in Nat /\ rl.http_minor \in Nat
  BY <1>1 DEF LineArchive, Strings
<1>4. {rl.http_major, rl.http_minor} \subseteq 0 .. 99
  BY <1>3 DEF GrammarInv, VersionFits
<1>5. hd \in [line_begin : Nat, colon_pos : Nat, val_begin : Nat, val_end : Nat,
              isCRLF_LINE : BOOLEAN, name : Strings, value : Strings]
  BY <1>1, Zenon DEF HeaderArchive, Strings
<1> QED BY <1>1, <1>2, <1>3, <1>4, <1>5 DEF TypeOK

\* Every variable of the parser has its type: next_parse_pos stays in what has
\* been received, and the version numbers stay below 100.
THEOREM ParserTypeCorrect == Spec => []TypeOK
BY GrammarHolds, GrammarGivesTypes, PTL

\* A line that the parser gave up on is none: it was aligned with it.
LEMMA GrammarGivesLine == GrammarInv => LineExact
<1> SUFFICES ASSUME GrammarInv PROVE LineExact
  OBVIOUS
<1>1. phase = "headers" /\ hd.name = Unset => ValidRequestLine(line_begin - 1)
  BY DEF GrammarInv, LineKnown
<1>2. ASSUME GaveUp, state \in {e.from : e \in RequestLineFSM},
             NEW end \in 1 .. Len(stream), ValidRequestLine(end)
      PROVE  FALSE
  <2>1. stream \in Seq(Chars) /\ end \in Nat /\ end =< Len(stream) /\ next_parse_pos \in Nat
    BY DEF GrammarInv, Places
  <2>2. PICK m \in Methods : \E u \in Nat, x \in Nat, v \in Nat, dot \in Nat :
          LineIs(m, u, x, v, dot, end)
    BY <1>2, <2>1, LineGrammar
  <2>3. PICK u \in Nat, x \in Nat, v \in Nat, dot \in Nat : LineIs(m, u, x, v, dot, end)
    BY <2>2
  <2>4. state \in LineStates /\ state \notin HeaderStates
    BY <1>2, Froms DEF LineStates, HeaderStates
  <2>5. phase # "rejected"
    BY <2>1, <2>3, <2>4 DEF GrammarInv, LineNotMissed
  <2>6. phase = "line" /\ next_parse_pos = Len(stream) + 1
    BY <1>2, <2>4, <2>5 DEF GaveUp, GrammarInv, Places
  <2>7. Aligned(state, next_parse_pos, rl, m, u, x, v, dot, end)
    BY <2>1, <2>3, <2>6 DEF GrammarInv, LineNotMissed
  <2>8. next_parse_pos =< end
    BY <2>1, <2>3, <2>4, <2>7, LineCharacters
  <2> QED BY <2>1, <2>6, <2>8
<1> QED BY <1>1, <1>2 DEF LineExact

\* For all inputs and all ways to cut them, parse_request_line accepts exactly
\* the request lines of the grammar.
THEOREM RequestLineIsExact == Spec => []LineExact
BY GrammarHolds, GrammarGivesLine, PTL

\* The parts of the URL are those that parse_url left.
LEMMA GrammarGivesUrl == GrammarInv => UrlExact
<1> SUFFICES ASSUME GrammarInv, phase # "line", state = "HD_BEGIN", rl.query_string # Unset
             PROVE  UrlDivided(rl.abs_path, rl.query_string, rl.mime_extension, rl.url_begin)
  BY DEF UrlExact, UrlDivided
<1> QED BY DEF GrammarInv, UrlKnown

\* For all inputs, abs_path, query_string and mime_extension are the parts of
\* the URL.
THEOREM UrlIsExact == Spec => []UrlExact
BY GrammarHolds, GrammarGivesUrl, PTL

\* The same argument for header lines.
LEMMA GrammarGivesHeaders == GrammarInv => HeadersExact
<1> SUFFICES ASSUME GrammarInv PROVE HeadersExact
  OBVIOUS
<1>1. ASSUME GaveUp, state \in {e.from : e \in HeaderFSM}, SomeHeader
      PROVE  FALSE
  <2>1. /\ stream \in Seq(Chars) /\ line_begin \in Nat /\ next_parse_pos \in Nat
        /\ line_begin =< next_parse_pos
    BY DEF GrammarInv, Places
  <2>2. PICK end \in Nat :
           /\ line_begin < end /\ end =< Len(stream)
           /\ \/ ValidEnd(line_begin, end)
              \/ \E i \in Nat, c \in Nat, j \in Nat : HeaderIs(line_begin, i, c, j, end)
    BY <1>1, <2>1, SomeHeaderIs
  <2>3. state \in HeaderStates /\ state \notin LineStates
    BY <1>1, Froms DEF LineStates, HeaderStates
  <2>4. phase # "rejected"
    BY <2>2, <2>3 DEF GrammarInv, HeaderNotMissed
  <2>5. phase = "headers" /\ next_parse_pos = Len(stream) + 1
    BY <1>1, <2>3, <2>4 DEF GaveUp, GrammarInv, Places
  <2>6. ~(next_parse_pos =< end)
    BY <2>1, <2>2, <2>5
  <2>7. ~ValidEnd(line_begin, end)
    BY <2>1, <2>2, <2>5, <2>6, EndAlignedStep DEF GrammarInv, HeaderNotMissed
  <2>8. ASSUME NEW i \in Nat, NEW c \in Nat, NEW j \in Nat, HeaderIs(line_begin, i, c, j, end)
        PROVE  FALSE
    <3>1. HeaderAligned(state, next_parse_pos, i, c, j, end)
      BY <2>2, <2>5, <2>8 DEF GrammarInv, HeaderNotMissed
    <3> QED BY <2>1, <2>6, <2>8, <3>1, HeaderAlignedStep
  <2> QED BY <2>2, <2>7, <2>8
<1> QED BY <1>1 DEF GrammarInv, HeaderKnown, HeadersExact

\* For all inputs and all ways to cut them, parse_header_line returns exactly
\* the names and values of the header lines, and CRLF_LINE for the empty line only.
THEOREM HeadersAreExact == Spec => []HeadersExact
BY GrammarHolds, GrammarGivesHeaders, PTL
=============================================================================
