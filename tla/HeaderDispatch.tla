--------------------------- MODULE HeaderDispatch ---------------------------
(***************************************************************************)
(* The loop of request_handle_headers: parse_header_line finds a header    *)
(* (HttpParser), its name is put into lower case and looked up in          *)
(* header_handler_dict (Dict) in the same step.  mime_dict is looked up    *)
(* when the response to the complete request is assembled.                 *)
(*                                                                         *)
(* ssstr_tolower writes into the buffer; the bytes of a header's name are  *)
(* not read again, so the stream is left as it is.                         *)
(***************************************************************************)
EXTENDS HttpParser, Dict

CONSTANTS
  hf_list,    \* the names of the headers that have a handler
  mime_list   \* the extensions that have a content type

\* Names have no blanks, and those of headers are in lower case, as the look-up
\* expects them.
ASSUME ListsAssumption ==
  /\ \A list \in {hf_list, mime_list} :
       /\ list \in Seq(Seq(Text \ Blank))
       /\ \A i, j \in DOMAIN list : list[i] = list[j] => i = j
       /\ \A i \in DOMAIN list : list[i] # <<>>
  /\ \A i \in DOMAIN hf_list : ssstr_tolower(hf_list[i]) = hf_list[i]

VARIABLES
  hf,           \* what the last look-up of a header returned, 0 for NULL
  content_type  \* what the look-up of the extension returned, 0 for NULL

dispatchVars == <<vars, hf, content_type>>

\* A dictionary that maps each string of list to its index.
DictOf(list) ==
  LET dict[i \in 0 .. Len(list)] ==
        IF i = 0 THEN dict_init ELSE dict_put(dict[i - 1], list[i], i)
  IN dict[Len(list)]

header_handler_dict == DictOf(hf_list)
mime_dict == DictOf(mime_list)

\* The characters of the string from s[1] up to (not including) s[2].
Bytes(s) == IF s = Unset THEN <<>> ELSE SubSeq(stream, s[1], s[2] - 1)

DispatchInit == Init /\ hf = 0 /\ content_type = 0

header_key(s) == ssstr_tolower(Bytes(s))

\* Mutant: the extension goes on to the end of the URL.
response_append_content_type_with_query ==
  dict_get(mime_dict, Bytes(<<rl.mime_extension[1], rl.query_string[2]>>), 0)

\* The content type of a file; an error response has text/html.
response_append_content_type == dict_get(mime_dict, Bytes(rl.mime_extension), 0)

\* One character of a header line and, if it completes the line, what the loop
\* does with it.
request_handle_headers ==
  /\ parse_header_line
  /\ hf' = IF line_begin' # line_begin /\ result' = "OK"
             THEN dict_get(header_handler_dict, header_key(hd'.name), 0) ELSE hf
  /\ content_type' = IF phase' = "done" THEN response_append_content_type
                                        ELSE content_type

DispatchNext ==
  \/ /\ \/ \E n \in 1 .. Len(stream) : request_recv(n)
        \/ parse_again
        \/ parse_request_line
     /\ UNCHANGED <<hf, content_type>>
  \/ request_handle_headers

DispatchSpec == DispatchInit /\ [][DispatchNext]_dispatchVars

-----------------------------------------------------------------------------
\* i is the place of s in list, 0 if it is not there.
IsIndex(i, list, s) == IF s \in Range(list) THEN i \in DOMAIN list /\ list[i] = s ELSE i = 0

\* Two spellings of one name, in whatever case.
SameName(s, t) ==
  Len(s) = Len(t) /\ \A i \in DOMAIN s : Codes[t[i]] - Codes[s[i]] \in
    IF Codes[s[i]] \in 65 .. 90 THEN {0, 32} ELSE
    IF Codes[s[i]] \in 97 .. 122 THEN {0, -32} ELSE {0}

\* A header reaches the handler of its name, spelt in any case, and no other:
\* not that of a name in the same chain, nor of one it begins with.
HandlerExact ==
  phase = "headers" /\ hd.name # Unset =>
    IF \E i \in DOMAIN hf_list : SameName(hf_list[i], Bytes(hd.name))
      THEN hf # 0 /\ SameName(hf_list[hf], Bytes(hd.name))
      ELSE hf = 0

\* The content type is that of the extension of the path of this request, and
\* the default if it has none or an unknown one.
ContentTypeExact ==
  phase = "done" => IsIndex(content_type, mime_list, Bytes(rl.mime_extension))
=============================================================================
