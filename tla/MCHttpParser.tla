---------------------------- MODULE MCHttpParser ----------------------------
(***************************************************************************)
(* HeaderDispatch for TLC: two requests and every request one edit (a byte *)
(* changed, inserted or left out) away from them, cut in every way.        *)
(* "tt", "xx" and "pp" have the same hash, and "t" is a prefix of "tt".    *)
(***************************************************************************)
EXTENDS HeaderDispatch

\* The bytes an edit may bring in: one or two of each class.
EditChars == {"x", "1", "2", "/", "?", ".", ":", "-", SP, TAB, CR, LF}

Get == <<"G", "E", "T", SP, "/", "x", ".", "x", "?", "x", SP,
         "H", "T", "T", "P", "/", "1", ".", "1", CR, LF,
         "T", "t", ":", SP, "x", CR, LF, CR, LF>>

Put == <<"P", "U", "T", SP, "/", SP, "h", "t", "t", "p", "/", "0", "1", ".", "0", CR, LF,
         "X", "x", ":", "x", CR, LF, "p", "p", ":", TAB, "1", ":", CR, LF, CR, LF>>

Edited(s) ==
  {s} \cup {RemoveAt(s, i) : i \in DOMAIN s}
      \cup {ReplaceAt(s, i, c) : i \in DOMAIN s, c \in EditChars}
      \cup {InsertAt(s, i, c) : i \in DOMAIN s, c \in EditChars}

HeaderNames == << <<"t", "t">>, <<"x", "x">>, <<"t">> >>
Extensions == << <<"x">>, <<"x", "x">> >>

EditedRequests == Edited(Get) \cup Edited(Put)
=============================================================================
