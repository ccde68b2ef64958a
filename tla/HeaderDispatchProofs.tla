------------------------ MODULE HeaderDispatchProofs ------------------------
(***************************************************************************)
(* Each header reaches the handler of its name, and each file has the      *)
(* content type of its extension, for all inputs, all ways to cut them and *)
(* all lists of names and extensions.                                      *)
(*                                                                         *)
(* Three parts: the dictionaries that header_handler_dict_init and         *)
(* mime_dict_init fill hold their lists, wherever the hash puts the keys;  *)
(* ssstr_cmp tells any two strings apart and ssstr_tolower brings together *)
(* the spellings of one name; and the string that is looked up lies in     *)
(* what has been parsed.  The loops of the hash and of the filling are     *)
(* followed step by step with AfterEachStep, an induction over the steps.  *)
(***************************************************************************)
EXTENDS HeaderDispatch, HttpParserProofs

Printable == Text \ Blank

-----------------------------------------------------------------------------
(* Loops.                                                                  *)

\* What holds before the first of n steps, and after each if before it, holds
\* after all.
LEMMA AfterEachStep ==
  ASSUME NEW n \in Nat, NEW S, 0 \in S, \A i \in 1 .. n : i - 1 \in S => i \in S
  PROVE  \A i \in 0 .. n : i \in S
<1> DEFINE T == (0 .. n) \ S
<1> SUFFICES ASSUME T # {} PROVE FALSE
  OBVIOUS
<1>1. T \subseteq Nat
  OBVIOUS
<1>2. Min(T) \in T /\ \A y \in T : Min(T) =< y
  BY <1>1, Smallest
<1>3. PICK t \in T : \A y \in T : t =< y
  BY <1>2
<1>4. t \in 1 .. n /\ t - 1 \in 0 .. n
  BY <1>3
<1>5. t - 1 \notin T
  BY <1>3, <1>4
<1> QED BY <1>3, <1>4, <1>5

\* The values in V that a loop of n steps passes through, which begins with a and
\* of which step i takes x to s[i][x].
Runs(V, a, n, s) ==
  \E f \in [0 .. n -> V] : f[0] = a /\ \A i \in 1 .. n : f[i] = s[i][f[i - 1]]

\* Such a loop runs.
LEMMA LoopRuns ==
  ASSUME NEW V, NEW a \in V, NEW n \in Nat, NEW s \in [1 .. n -> [V -> V]]
  PROVE  Runs(V, a, n, s)
<1> DEFINE Run(m, f) == f[0] = a /\ \A i \in 1 .. m : f[i] = s[i][f[i - 1]]
           S == {m \in 0 .. n : \E f \in [0 .. m -> V] : Run(m, f)}
<1>1. 0 \in S
  <2> DEFINE f == [i \in 0 .. 0 |-> a]
  <2>1. f \in [0 .. 0 -> V] /\ Run(0, f)
    OBVIOUS
  <2>2. 0 \in 0 .. n
    OBVIOUS
  <2> QED BY <2>1, <2>2
<1>2. ASSUME NEW m \in 1 .. n, m - 1 \in S PROVE m \in S
  <2>1. PICK f \in [0 .. m - 1 -> V] : Run(m - 1, f)
    BY <1>2
  <2> DEFINE g == [i \in 0 .. m |-> IF i = m THEN s[m][f[m - 1]] ELSE f[i]]
  <2>2. m - 1 \in 0 .. m - 1 /\ f[m - 1] \in V /\ s[m] \in [V -> V]
    OBVIOUS
  <2>3. s[m][f[m - 1]] \in V
    BY <2>2
  <2>4. g \in [0 .. m -> V]
    BY <2>3
  <2>5. g[0] = a
    BY <2>1
  <2>6. ASSUME NEW i \in 1 .. m PROVE g[i] = s[i][g[i - 1]]
    <3>1. CASE i = m
      BY <3>1
    <3>2. CASE i # m
      <4>1. i \in 1 .. m - 1 /\ i - 1 \in 0 .. m - 1 /\ i \in 0 .. m /\ i - 1 # m
        BY <3>2
      <4>2. g[i] = f[i] /\ g[i - 1] = f[i - 1]
        BY <4>1, <3>2
      <4> QED BY <2>1, <4>1, <4>2
    <3> QED BY <3>1, <3>2
  <2> HIDE DEF g
  <2>7. Run(m, g)
    BY <2>5, <2>6
  <2>8. m \in 0 .. n
    OBVIOUS
  <2> HIDE DEF Run
  <2> QED BY <2>4, <2>7, <2>8
<1>3. \A i \in 0 .. n : i \in S
  <2> HIDE DEF S
  <2> QED BY <1>1, <1>2, AfterEachStep
<1>4. n \in S
  BY <1>3
<1> QED BY <1>4 DEF Runs

-----------------------------------------------------------------------------
(* Characters.                                                             *)

\* The codes of the three kinds of characters are apart.
LEMMA CodeRanges ==
  /\ \A a \in Signs : a[2] \in 0 .. 64
  /\ \A a \in Upper : a[2] \in 65 .. 90
  /\ \A a \in Lower : a[2] \in 97 .. 122
<1>1. \A a \in Signs : a[2] \in 0 .. 64
  BY DEF Signs
<1>2. \A a \in Upper : a[2] \in 65 .. 90
  BY DEF Upper
<1>3. \A a \in Lower : a[2] \in 97 .. 122
  BY DEF Lower
<1> QED BY <1>1, <1>2, <1>3

\* Each character has one code, and no other has it.
LEMMA OneCode == \A a, b \in Ascii : a[1] = b[1] <=> a[2] = b[2]
<1>1. \A a, b \in Signs : a[1] = b[1] <=> a[2] = b[2]
  BY DEF Signs
<1>2. \A a, b \in Upper : a[1] = b[1] <=> a[2] = b[2]
  BY DEF Upper
<1>3. \A a, b \in Lower : a[1] = b[1] <=> a[2] = b[2]
  BY DEF Lower
<1>4. \A a \in Signs : \A b \in Upper : a[1] # b[1]
  BY DEF Signs, Upper
<1>5. \A a \in Signs : \A b \in Lower : a[1] # b[1]
  BY DEF Signs, Lower
<1>6. \A a \in Upper : \A b \in Lower : a[1] # b[1]
  BY DEF Upper, Lower
<1> QED BY <1>1, <1>2, <1>3, <1>4, <1>5, <1>6, CodeRanges DEF Ascii

\* Every upper-case letter has its lower-case letter.
LEMMA LowerCase == \A a \in Upper : \E b \in Lower : b[2] = a[2] + 32
BY DEF Upper, Lower

\* The table is one of pairs.
LEMMA AsciiPairs == \A a \in Ascii : a = <<a[1], a[2]>>
<1>1. \A a \in Signs : a = <<a[1], a[2]>>
  BY DEF Signs
<1>2. \A a \in Upper : a = <<a[1], a[2]>>
  BY DEF Upper
<1>3. \A a \in Lower : a = <<a[1], a[2]>>
  BY DEF Lower
<1> QED BY <1>1, <1>2, <1>3 DEF Ascii

\* The table has the characters that names and extensions are made of.
LEMMA AsciiCharacters == Printable = {a[1] : a \in Ascii}
<1>1. {a[1] : a \in Ascii} =
        {a[1] : a \in Signs} \cup {a[1] : a \in Upper} \cup {a[1] : a \in Lower}
  BY DEF Ascii
<1>2. {a[1] : a \in Signs} = {"-", ".", "/", "0", "1", "2", ":", "?"}
  BY DEF Signs
<1>3. {a[1] : a \in Upper} = {"A", "D", "E", "G", "H", "L", "O", "P", "S", "T", "U", "X"}
  BY DEF Upper
<1>4. {a[1] : a \in Lower} = {"a", "d", "e", "g", "h", "l", "o", "p", "s", "t", "u", "x"}
  BY DEF Lower
<1>5. Printable = Name \cup {"/", "?", ".", ":"}
  <2>1. \A c \in Name \cup {"/", "?", ".", ":"} : c \notin {CR, LF, SP, TAB}
    BY DEF Name, Alpha, Digit, CR, LF, SP, TAB
  <2> QED BY <2>1 DEF Printable, Text, Blank, Chars
<1> QED BY <1>1, <1>2, <1>3, <1>4, <1>5 DEF Name, Alpha, Digit

\* Codes is the table as a function.
LEMMA CodesAre ==
  /\ DOMAIN Codes = Printable
  /\ \A c \in Printable : Codes[c] \in 0 .. 127 /\ <<c, Codes[c]>> \in Ascii
  /\ \A c, d \in Printable : Codes[c] = Codes[d] => c = d
  /\ \A c \in Printable : Codes[c] \in 65 .. 90 =>
       \E d \in Printable : Codes[d] = Codes[c] + 32
<1>1. DOMAIN Codes = Printable
  BY AsciiCharacters DEF Codes
<1>2. ASSUME NEW c \in Printable
      PROVE  Codes[c] \in 0 .. 127 /\ <<c, Codes[c]>> \in Ascii
  <2>1. PICK a \in Ascii : a[1] = c
    BY AsciiCharacters
  <2>2. a = <<c, a[2]>> /\ a[2] \in 0 .. 127
    BY <2>1, AsciiPairs, CodeRanges DEF Ascii
  <2>3. Codes[c] = CHOOSE n \in 0 .. 127 : <<c, n>> \in Ascii
    BY AsciiCharacters DEF Codes
  <2>4. \E n \in 0 .. 127 : <<c, n>> \in Ascii
    BY <2>2
  <2> QED BY <2>3, <2>4
<1>3. ASSUME NEW c \in Printable, NEW d \in Printable, Codes[c] = Codes[d] PROVE c = d
  <2>1. <<c, Codes[c]>> \in Ascii /\ <<d, Codes[d]>> \in Ascii
    BY <1>2
  <2>2. <<c, Codes[c]>>[1] = <<d, Codes[d]>>[1] <=> <<c, Codes[c]>>[2] = <<d, Codes[d]>>[2]
    BY <2>1, OneCode, Zenon
  <2> QED BY <1>3, <2>2
<1>4. ASSUME NEW c \in Printable, Codes[c] \in 65 .. 90
      PROVE  \E d \in Printable : Codes[d] = Codes[c] + 32
  <2>1. <<c, Codes[c]>> \in Ascii /\ <<c, Codes[c]>>[2] = Codes[c]
    BY <1>2
  <2>2. <<c, Codes[c]>> \in Upper
    BY <1>4, <2>1, CodeRanges DEF Ascii
  <2>3. PICK b \in Lower : b[2] = Codes[c] + 32
    BY <2>1, <2>2, LowerCase
  <2>4. b \in Ascii /\ b[1] \in Printable
    BY AsciiCharacters DEF Ascii
  <2>5. <<b[1], Codes[b[1]]>> \in Ascii
    BY <1>2, <2>4
  <2>6. <<b[1], Codes[b[1]]>>[1] = b[1] <=> <<b[1], Codes[b[1]]>>[2] = b[2]
    BY <2>4, <2>5, OneCode, Zenon
  <2>7. Codes[b[1]] = b[2]
    BY <2>6
  <2> QED BY <2>3, <2>4, <2>7
<1> QED BY <1>1, <1>2, <1>3, <1>4

\* So they can be added.
LEMMA CodesAreNumbers == \A c \in Printable : Codes[c] \in Int
<1> SUFFICES ASSUME NEW c \in Printable PROVE Codes[c] \in Int
  OBVIOUS
<1>1. Codes[c] \in 0 .. 127
  BY CodesAre, Zenon
<1> QED BY <1>1

-----------------------------------------------------------------------------
(* Strings.                                                                *)

Words == Seq(Printable)
Slots == 0 .. DICT_MASK_SIZE

\* One round of the loop of ssstr_hash_sdbm.
HashStep(c, h) == (Codes[c] + 65599 * h) % (DICT_MASK_SIZE + 1)

\* The hash of any string is a slot of the table.
LEMMA HashIsSlot ==
  ASSUME NEW key \in Words
  PROVE  LOTOS_HASH(key) \in Slots
<1> DEFINE n == Len(key)
           H(f) == [i \in 0 .. n |-> IF i = 0 THEN 0 ELSE HashStep(key[i], f[i - 1])]
<1>1. n \in Nat /\ \A i \in 1 .. n : key[i] \in Printable
  BY DEF Words
<1>2. ASSUME NEW c \in Printable, NEW h \in Slots PROVE HashStep(c, h) \in Slots
  <2>1. Codes[c] \in Int
    BY CodesAreNumbers
  <2>2. h \in Int
    BY DEF Slots, DICT_MASK_SIZE
  <2> QED BY <2>1, <2>2 DEF HashStep, Slots, DICT_MASK_SIZE
<1>3. 0 \in Slots
  BY DEF Slots, DICT_MASK_SIZE
<1>4. \E f : f = H(f)
  <2> DEFINE s == [i \in 1 .. n |-> [h \in Slots |-> HashStep(key[i], h)]]
  <2>1. s \in [1 .. n -> [Slots -> Slots]]
    BY <1>1, <1>2
  <2>2. PICK f \in [0 .. n -> Slots] : f[0] = 0 /\ \A i \in 1 .. n : f[i] = s[i][f[i - 1]]
    <3> HIDE DEF s, n, H
    <3>1. Runs(Slots, 0, n, s)
      BY <1>1, <1>3, <2>1, LoopRuns
    <3> QED BY <3>1, Zenon DEF Runs
  <2>3. ASSUME NEW i \in 0 .. n PROVE f[i] = H(f)[i]
    <3>1. CASE i = 0
      BY <2>2, <3>1
    <3>2. CASE i # 0
      <4>1. i \in 1 .. n /\ i - 1 \in 0 .. n
        BY <1>1, <3>2
      <4>2. f[i - 1] \in Slots
        BY <4>1
      <4>3. s[i][f[i - 1]] = HashStep(key[i], f[i - 1])
        BY <4>1, <4>2
      <4> QED BY <2>2, <3>2, <4>1, <4>3
    <3> QED BY <3>1, <3>2
  <2>4. f = [i \in 0 .. n |-> f[i]]
    OBVIOUS
  <2> QED BY <2>3, <2>4
<1>5. ssstr_hash_sdbm(key) = CHOOSE f : f = H(f)
  BY DEF ssstr_hash_sdbm, HashStep
<1> DEFINE hash == ssstr_hash_sdbm(key)
<1>6. hash = H(hash)
  <2> HIDE DEF H
  <2> QED BY <1>4, <1>5
<1> HIDE DEF hash
<1>7. /\ hash[0] = 0
      /\ \A i \in 1 .. n : hash[i] = HashStep(key[i], hash[i - 1])
  <2>1. ASSUME NEW i \in 0 .. n
        PROVE  hash[i] = IF i = 0 THEN 0 ELSE HashStep(key[i], hash[i - 1])
    BY <1>6
  <2> HIDE DEF H
  <2> QED BY <1>1, <2>1
<1> DEFINE S == {i \in 0 .. n : hash[i] \in Slots}
<1>8. \A i \in 0 .. n : i \in S
  <2>1. 0 \in S
    BY <1>1, <1>3, <1>7
  <2>2. ASSUME NEW i \in 1 .. n, i - 1 \in S PROVE i \in S
    BY <1>1, <1>2, <1>7, <2>2
  <2> HIDE DEF S, n
  <2> QED BY <1>1, <2>1, <2>2, AfterEachStep
<1> QED BY <1>1, <1>8 DEF LOTOS_HASH, hash

\* ssstr_cmp is 0 for a string and itself only.
LEMMA CmpIsEquality ==
  ASSUME NEW l \in Words, NEW r \in Words
  PROVE  ssstr_cmp(l, r) = 0 <=> l = r
<1> DEFINE diff == {i \in DOMAIN l \cap DOMAIN r : l[i] # r[i]}
           first == CHOOSE i \in diff : \A j \in diff : i =< j
           sign(a, b) == IF a = b THEN 0 ELSE IF a < b THEN -1 ELSE 1
<1>1. ssstr_cmp(l, r) =
        IF diff # {} THEN sign(Codes[l[first]], Codes[r[first]]) ELSE sign(Len(l), Len(r))
  BY DEF ssstr_cmp
<1>2. CASE diff # {}
  <2>1. diff \subseteq Nat
    BY DEF Words
  <2>2. Min(diff) \in diff /\ \A j \in diff : Min(diff) =< j
    <3> HIDE DEF diff
    <3> QED BY <1>2, <2>1, Smallest
  <2>3. first \in diff
    <3> HIDE DEF diff
    <3> QED BY <2>2
  <2>4. l[first] \in Printable /\ r[first] \in Printable /\ l[first] # r[first]
    <3> HIDE DEF first
    <3> QED BY <2>3 DEF Words
  <2>5. Codes[l[first]] # Codes[r[first]]
    <3> HIDE DEF first
    <3> QED BY <2>4, CodesAre
  <2>6. l # r
    <3> HIDE DEF first
    <3> QED BY <2>4
  <2>7. sign(Codes[l[first]], Codes[r[first]]) # 0
    <3> HIDE DEF first, diff
    <3> QED BY <2>5
  <2> QED BY <1>1, <1>2, <2>6, <2>7
<1>3. CASE diff = {}
  <2>1. sign(Len(l), Len(r)) = 0 <=> Len(l) = Len(r)
    BY DEF Words
  <2>2. Len(l) = Len(r) <=> l = r
    <3>1. ASSUME Len(l) = Len(r) PROVE l = r
      <4>1. DOMAIN l = 1 .. Len(l) /\ DOMAIN r = 1 .. Len(l)
        BY <3>1 DEF Words
      <4>2. \A i \in 1 .. Len(l) : l[i] = r[i]
        BY <1>3, <4>1
      <4> QED BY <3>1, <4>1, <4>2 DEF Words
    <3> QED BY <3>1
  <2> QED BY <1>1, <1>3, <2>1, <2>2
<1> QED BY <1>2, <1>3

\* ssstr_tolower keeps the length, and each character or its lower-case form.
LEMMA ToLowerIs ==
  ASSUME NEW s \in Words
  PROVE  /\ ssstr_tolower(s) \in Words /\ Len(ssstr_tolower(s)) = Len(s)
         /\ \A i \in 1 .. Len(s) :
              IF Codes[s[i]] \in 65 .. 90
                THEN Codes[ssstr_tolower(s)[i]] = Codes[s[i]] + 32
                ELSE ssstr_tolower(s)[i] = s[i]
<1> DEFINE low(x) == IF Codes[x] \in 65 .. 90
                       THEN CHOOSE c \in DOMAIN Codes : Codes[c] = Codes[x] + 32
                       ELSE x
<1>1. Len(s) \in Nat /\ DOMAIN s = 1 .. Len(s) /\ \A i \in 1 .. Len(s) : s[i] \in Printable
  BY DEF Words
<1>2. ssstr_tolower(s) = [i \in 1 .. Len(s) |-> low(s[i])]
  BY <1>1 DEF ssstr_tolower
<1>3. ASSUME NEW x \in Printable
      PROVE  /\ low(x) \in Printable
             /\ IF Codes[x] \in 65 .. 90 THEN Codes[low(x)] = Codes[x] + 32 ELSE low(x) = x
  BY CodesAre
<1> HIDE DEF low
<1>4. ssstr_tolower(s) \in [1 .. Len(s) -> Printable]
  BY <1>1, <1>2, <1>3
<1>5. ssstr_tolower(s) \in Words /\ Len(ssstr_tolower(s)) = Len(s)
  BY <1>1, <1>4 DEF Words
<1>6. ASSUME NEW i \in 1 .. Len(s)
      PROVE  IF Codes[s[i]] \in 65 .. 90
               THEN Codes[ssstr_tolower(s)[i]] = Codes[s[i]] + 32
               ELSE ssstr_tolower(s)[i] = s[i]
  <2>1. ssstr_tolower(s)[i] = low(s[i]) /\ s[i] \in Printable
    BY <1>1, <1>2
  <2> QED BY <1>3, <2>1
<1> QED BY <1>5, <1>6

-----------------------------------------------------------------------------
(* The dictionary.                                                         *)

Nodes == [k : Words, v : Nat]
Dicts == [Slots -> Seq(Nodes)]

\* dict holds the first n strings of list: each is in the chain of its hash with
\* its index, and nothing else is in any chain.
Holds(dict, list, n) ==
  /\ dict \in Dicts
  /\ \A h \in Slots : \A j \in 1 .. Len(dict[h]) :
       dict[h][j].v \in 1 .. n /\ dict[h][j].k = list[dict[h][j].v]
  /\ \A i \in 1 .. n : \E j \in 1 .. Len(dict[LOTOS_HASH(list[i])]) :
       dict[LOTOS_HASH(list[i])][j].v = i

\* A table is filled with one value of a dictionary after the other.
LEMMA PutKeepsDict ==
  ASSUME NEW dict \in Dicts, NEW key \in Words, NEW val \in Nat
  PROVE  dict_put(dict, key, val) \in Dicts
<1>1. LOTOS_HASH(key) \in Slots
  BY HashIsSlot
<1>2. [k |-> key, v |-> val] \in Nodes
  BY DEF Nodes
<1>3. <<[k |-> key, v |-> val]>> \o dict[LOTOS_HASH(key)] \in Seq(Nodes)
  BY <1>1, <1>2 DEF Dicts
<1> QED BY <1>1, <1>3 DEF dict_put, Dicts

\* dict_put adds one key and keeps what was there.
LEMMA PutHolds ==
  ASSUME NEW dict, NEW list \in Seq(Words), NEW n \in 1 .. Len(list),
         Holds(dict, list, n - 1)
  PROVE  Holds(dict_put(dict, list[n], n), list, n)
<1> DEFINE key == list[n]
           h0 == LOTOS_HASH(key)
           new == dict_put(dict, key, n)
           node == [k |-> key, v |-> n]
<1>1. key \in Words /\ n \in Nat /\ dict \in Dicts /\ \A i \in 1 .. n : list[i] \in Words
  BY DEF Holds
<1>2. h0 \in Slots
  BY <1>1, HashIsSlot
<1>3. new \in Dicts
  BY <1>1, PutKeepsDict
<1>4. new[h0] = <<node>> \o dict[h0] /\ \A h \in Slots : h # h0 => new[h] = dict[h]
  <2> HIDE DEF h0
  <2> QED BY <1>1, <1>2 DEF dict_put, Dicts, h0
<1>5. /\ dict[h0] \in Seq(Nodes)
      /\ Len(new[h0]) = Len(dict[h0]) + 1
      /\ new[h0][1] = node
      /\ \A j \in 1 .. Len(dict[h0]) : new[h0][j + 1] = dict[h0][j]
  <2>1. dict[h0] \in Seq(Nodes) /\ node \in Nodes
    BY <1>1, <1>2 DEF Dicts, Nodes
  <2> HIDE DEF h0, node, new
  <2> QED BY <1>4, <2>1
<1> HIDE DEF h0, node, new
<1>6. ASSUME NEW h \in Slots, NEW j \in 1 .. Len(new[h])
      PROVE  new[h][j].v \in 1 .. n /\ new[h][j].k = list[new[h][j].v]
  <2>1. CASE h # h0
    BY <1>4, <1>6, <2>1 DEF Holds
  <2>2. CASE h = h0 /\ j = 1
    <3>1. new[h][j] = node
      BY <1>5, <2>2
    <3> QED BY <1>1, <3>1 DEF node
  <2>3. CASE h = h0 /\ j # 1
    <3>1. j - 1 \in 1 .. Len(dict[h0]) /\ (j - 1) + 1 = j
      BY <1>5, <2>3
    <3>2. new[h][j] = dict[h0][j - 1]
      BY <1>5, <2>3, <3>1
    <3>3. dict[h0][j - 1].v \in 1 .. n - 1 /\ dict[h0][j - 1].k = list[dict[h0][j - 1].v]
      BY <1>2, <3>1 DEF Holds
    <3> QED BY <3>2, <3>3
  <2> QED BY <2>1, <2>2, <2>3
<1>7. ASSUME NEW i \in 1 .. n
      PROVE  \E j \in 1 .. Len(new[LOTOS_HASH(list[i])]) : new[LOTOS_HASH(list[i])][j].v = i
  <2>1. CASE i = n
    <3>1. LOTOS_HASH(list[i]) = h0 /\ new[h0][1].v = n
      BY <1>5, <2>1 DEF h0, node
    <3>2. 1 \in 1 .. Len(new[h0])
      BY <1>5
    <3> QED BY <2>1, <3>1, <3>2
  <2>2. CASE i # n
    <3> DEFINE h == LOTOS_HASH(list[i])
    <3>1. h \in Slots
      BY <1>1, HashIsSlot
    <3>2. i \in 1 .. n - 1
      BY <2>2
    <3>3. PICK j \in 1 .. Len(dict[h]) : dict[h][j].v = i
      BY <3>2 DEF Holds
    <3> HIDE DEF h
    <3>4. CASE h = h0
      <4>1. j + 1 \in 1 .. Len(new[h]) /\ new[h][j + 1] = dict[h][j]
        BY <1>5, <3>4
      <4> QED BY <3>3, <4>1 DEF h
    <3>5. CASE h # h0
      BY <1>4, <3>1, <3>3, <3>5 DEF h
    <3> QED BY <3>4, <3>5
  <2> QED BY <2>1, <2>2
<1> QED BY <1>3, <1>6, <1>7 DEF Holds, new

\* The dictionary of a list holds it.
LEMMA DictOfHolds ==
  ASSUME NEW list \in Seq(Words)
  PROVE  Holds(DictOf(list), list, Len(list))
<1> DEFINE n == Len(list)
           F(f) == [i \in 0 .. n |->
                      IF i = 0 THEN dict_init ELSE dict_put(f[i - 1], list[i], i)]
<1>1. n \in Nat /\ \A i \in 1 .. n : list[i] \in Words /\ i \in Nat
  OBVIOUS
<1>2. dict_init \in Dicts /\ \A h \in Slots : Len(dict_init[h]) = 0
  BY DEF dict_init, Dicts, Slots
<1>3. \E f : f = F(f)
  <2> DEFINE s == [i \in 1 .. n |-> [d \in Dicts |-> dict_put(d, list[i], i)]]
  <2>1. s \in [1 .. n -> [Dicts -> Dicts]]
    BY <1>1, PutKeepsDict
  <2>2. PICK f \in [0 .. n -> Dicts] :
          f[0] = dict_init /\ \A i \in 1 .. n : f[i] = s[i][f[i - 1]]
    <3>1. n \in Nat /\ dict_init \in Dicts
      BY <1>1, <1>2
    <3> HIDE DEF s, n, F
    <3>2. Runs(Dicts, dict_init, n, s)
      BY <2>1, <3>1, LoopRuns
    <3> QED BY <3>2, Zenon DEF Runs
  <2>3. ASSUME NEW i \in 0 .. n PROVE f[i] = F(f)[i]
    <3>1. CASE i = 0
      BY <2>2, <3>1
    <3>2. CASE i # 0
      <4>1. i \in 1 .. n /\ i - 1 \in 0 .. n
        BY <1>1, <3>2
      <4>2. f[i - 1] \in Dicts
        BY <4>1
      <4>3. s[i][f[i - 1]] = dict_put(f[i - 1], list[i], i)
        BY <4>1, <4>2
      <4> QED BY <2>2, <3>2, <4>1, <4>3
    <3> QED BY <3>1, <3>2
  <2>4. f = [i \in 0 .. n |-> f[i]]
    OBVIOUS
  <2> QED BY <2>3, <2>4
<1> DEFINE dict == CHOOSE f : f = F(f)
<1>4. dict = F(dict)
  <2> HIDE DEF F
  <2> QED BY <1>3
<1>5. DictOf(list) = dict[n]
  BY DEF DictOf
<1> HIDE DEF dict
<1>6. /\ dict[0] = dict_init
      /\ \A i \in 1 .. n : dict[i] = dict_put(dict[i - 1], list[i], i)
  <2>1. ASSUME NEW i \in 0 .. n
        PROVE  dict[i] = IF i = 0 THEN dict_init ELSE dict_put(dict[i - 1], list[i], i)
    BY <1>4
  <2> HIDE DEF F
  <2> QED BY <1>1, <2>1
<1> DEFINE S == {i \in 0 .. n : Holds(dict[i], list, i)}
<1>7. \A i \in 0 .. n : i \in S
  <2>1. 0 \in S
    <3>1. Holds(dict_init, list, 0)
      BY <1>2 DEF Holds
    <3> QED BY <1>1, <1>6, <3>1
  <2>2. ASSUME NEW i \in 1 .. n, i - 1 \in S PROVE i \in S
    BY <1>1, <1>6, <2>2, PutHolds
  <2> HIDE DEF S, n
  <2> QED BY <1>1, <2>1, <2>2, AfterEachStep
<1> QED BY <1>1, <1>5, <1>7

\* dict_get finds the index of a string of the list, and 0 for any other.
LEMMA GetIsIndex ==
  ASSUME NEW list \in Seq(Words), NEW key \in Words
  PROVE  IsIndex(dict_get(DictOf(list), key, 0), list, key)
<1> DEFINE d == DictOf(list)
           chain == d[LOTOS_HASH(key)]
           I == {i \in 1 .. Len(chain) : ssstr_cmp(chain[i].k, key) = 0}
<1>1. Holds(d, list, Len(list))
  BY DictOfHolds
<1>2. LOTOS_HASH(key) \in Slots
  BY HashIsSlot
<1>3. chain \in Seq(Nodes)
  BY <1>1, <1>2 DEF Holds, Dicts
<1>4. dict_get(d, key, 0) = IF I = {} THEN 0 ELSE chain[Min(I)].v
  <2>1. SelectInSeq(chain, LAMBDA p : ssstr_cmp(p.k, key) = 0) =
          IF I # {} THEN Min(I) ELSE 0
    BY DEF SelectInSeq
  <2>2. I # {} => Min(I) # 0
    <3> HIDE DEF chain
    <3>1. I \subseteq Nat
      BY <1>3
    <3>2. I # {} => Min(I) \in I
      <4> HIDE DEF I
      <4> QED BY <3>1, Smallest
    <3> QED BY <3>2
  <2> QED BY <2>1, <2>2 DEF dict_get
<1>5. \A i \in 1 .. Len(chain) :
        /\ i \in I <=> chain[i].k = key
        /\ chain[i].v \in 1 .. Len(list) /\ chain[i].k = list[chain[i].v]
  <2>1. ASSUME NEW i \in 1 .. Len(chain) PROVE i \in I <=> chain[i].k = key
    <3>1. chain[i].k \in Words
      <4> HIDE DEF chain, I, d
      <4>1. chain[i] \in Nodes
        BY <1>3
      <4> QED BY <4>1 DEF Nodes
    <3>2. ssstr_cmp(chain[i].k, key) = 0 <=> chain[i].k = key
      <4> HIDE DEF chain
      <4> QED BY <3>1, CmpIsEquality
    <3> QED BY <3>2
  <2>2. ASSUME NEW i \in 1 .. Len(chain)
        PROVE  chain[i].v \in 1 .. Len(list) /\ chain[i].k = list[chain[i].v]
    <3> HIDE DEF d
    <3> QED BY <1>1, <1>2, <2>2 DEF Holds
  <2> QED BY <2>1, <2>2
<1>6. Range(list) = {list[i] : i \in 1 .. Len(list)}
  BY DEF Range
<1>7. CASE I # {}
  <2>1. Min(I) \in I
    <3>1. I \subseteq Nat
      <4> HIDE DEF chain
      <4> QED BY <1>3
    <3> HIDE DEF I
    <3> QED BY <1>7, <3>1, Smallest
  <2> DEFINE m == Min(I)
  <2>2. /\ chain[m].k = key /\ chain[m].v \in 1 .. Len(list)
        /\ chain[m].k = list[chain[m].v]
    <3>1. m \in 1 .. Len(chain)
      BY <2>1
    <3> HIDE DEF m, chain, I
    <3> QED BY <1>5, <2>1, <3>1 DEF m
  <2>3. dict_get(d, key, 0) = chain[m].v
    BY <1>4, <1>7
  <2> HIDE DEF m, chain, d, I
  <2> QED BY <1>6, <2>2, <2>3 DEF IsIndex, d
<1>8. CASE I = {}
  <2>1. ASSUME NEW i \in 1 .. Len(list), list[i] = key PROVE FALSE
    <3>1. PICK j \in 1 .. Len(chain) : chain[j].v = i
      <4> HIDE DEF d
      <4> QED BY <1>1, <2>1 DEF Holds
    <3> HIDE DEF chain, I
    <3> QED BY <1>5, <1>8, <2>1, <3>1
  <2>2. dict_get(d, key, 0) = 0
    BY <1>4, <1>8
  <2> HIDE DEF d, I, chain
  <2> QED BY <1>6, <2>1, <2>2 DEF IsIndex, d
<1> QED BY <1>7, <1>8

-----------------------------------------------------------------------------
(* What is looked up.                                                      *)

\* The characters of s have been received, and none of them is a blank.
WordAt(s) ==
  /\ s[1] > 0 /\ s[1] =< s[2] /\ s[2] =< Len(stream) + 1
  /\ AllIn(Printable, s[1], s[2])

\* The characters of a string are a word.
LEMMA BytesAreWord ==
  ASSUME stream \in Seq(Chars), NEW s \in Nat \X Nat, s = Unset \/ WordAt(s)
  PROVE  Bytes(s) \in Words
<1>1. CASE s = Unset
  BY <1>1 DEF Bytes, Words
<1>2. CASE s # Unset
  <2>1. WordAt(s) /\ s[1] \in Nat /\ s[2] \in Nat
    BY <1>2
  <2> DEFINE a == s[1]
             z == s[2]
             n == z - a
  <2>2. /\ a \in Nat /\ z \in Nat /\ n \in Nat /\ a > 0 /\ z =< Len(stream) + 1
        /\ \A k \in a .. z - 1 : stream[k] \in Printable
    BY <2>1 DEF WordAt, AllIn
  <2>3. Bytes(s) = SubSeq(stream, a, z - 1)
    BY <1>2 DEF Bytes
  <2> HIDE DEF a, z
  <2> DEFINE b == SubSeq(stream, a, z - 1)
  <2>4. /\ b \in Seq(Chars) /\ Len(b) = n
        /\ \A i \in 1 .. n : b[i] = stream[a + i - 1] /\ a + i - 1 \in a .. z - 1
    BY <2>2
  <2> HIDE DEF b, n
  <2>5. \A i \in 1 .. n : b[i] \in Printable
    BY <2>2, <2>4
  <2>6. b \in [1 .. n -> Printable]
    BY <2>4, <2>5
  <2> QED BY <2>2, <2>3, <2>6 DEF Words, b
<1> QED BY <1>1, <1>2

\* The extension lies in the URL, also in one that a tab ended.
LEMMA ExtensionIsWord ==
  ASSUME NEW begin \in Nat, NEW end \in Nat, begin < end, begin > 0, stream[begin] = "/",
         AllIn(Text \ Blank, begin, end), rl \in LineArchive, end =< Len(stream) + 1,
         stream \in Seq(Chars),
         rl.abs_path = Unset, rl.query_string = Unset, rl.mime_extension = Unset
  PROVE  LET x == parse_url(begin, end).mime_extension IN x = Unset \/ WordAt(x)
<1> DEFINE q == SelectInSubSeq(stream, begin, end - 1, LAMBDA c : c = "?")
           closed == stream[end] = SP
           path == IF q # 0 THEN <<begin, q>>
                   ELSE IF closed THEN <<begin, end>> ELSE rl.abs_path
           query == IF ~closed THEN rl.query_string
                    ELSE IF q # 0 THEN <<q + 1, end>> ELSE <<end, end>>
           dot == SelectLastInSubSeq(stream, path[1] + 1, path[2] - 1,
                                     LAMBDA c : c \in {".", "/"})
           ext == IF dot # 0 /\ stream[dot] = "." THEN <<dot + 1, path[2]>>
                  ELSE rl.mime_extension
           f == parse_url(begin, end)
<1>1. f = [rl EXCEPT !.abs_path = path, !.query_string = query, !.mime_extension = ext]
  BY Zenon DEF parse_url
<1>2. q \in Nat /\ (q # 0 => begin =< q /\ q < end)
  <2>1. \/ q = 0 /\ \A k \in begin .. end - 1 : stream[k] # "?"
        \/ /\ q \in begin .. end - 1 /\ stream[q] = "?"
           /\ \A k \in begin .. q - 1 : stream[k] # "?"
    BY FirstMark
  <2> HIDE DEF q
  <2> QED BY <2>1
<1> HIDE DEF q
<1>3. path \in Nat \X Nat
  BY <1>2 DEF LineArchive
<1> DEFINE p1 == path[1]
           p2 == path[2]
<1>4. p1 \in Nat /\ p2 \in Nat /\ path = <<p1, p2>>
  <2> HIDE DEF path
  <2> QED BY <1>3
<1>5. (p1 = 0 /\ p2 = 0) \/ (p1 = begin /\ p2 =< end)
  BY <1>2 DEF Unset
<1>6. \/ dot = 0 /\ \A k \in p1 + 1 .. p2 - 1 : stream[k] \notin {".", "/"}
      \/ /\ dot \in p1 + 1 .. p2 - 1 /\ stream[dot] \in {".", "/"}
         /\ \A k \in dot + 1 .. p2 - 1 : stream[k] \notin {".", "/"}
  <2>1. p1 + 1 \in Nat
    BY <1>4
  <2> HIDE DEF path
  <2> QED BY <1>4, <2>1, LastDot
<1> HIDE DEF path, dot, query
<1>7. f.mime_extension = ext
  <2> HIDE DEF ext, f
  <2> QED BY <1>1, Zenon DEF LineArchive
<1>8. CASE dot # 0 /\ stream[dot] = "."
  <2>1. ext = <<dot + 1, p2>> /\ dot \in p1 + 1 .. p2 - 1
    BY <1>6, <1>8
  <2>2. p1 = begin /\ p2 =< end /\ dot \in Nat /\ begin < dot /\ dot < p2
    BY <1>4, <1>5, <2>1
  <2>3. ext[1] = dot + 1 /\ ext[2] = p2
    BY <2>1
  <2>4. AllIn(Printable, dot + 1, p2)
    BY <1>4, <2>2 DEF AllIn, Printable
  <2>5. dot + 1 > 0 /\ dot + 1 =< p2 /\ p2 =< Len(stream) + 1
    <3>1. Len(stream) \in Nat
      OBVIOUS
    <3> QED BY <1>4, <2>2, <3>1
  <2> HIDE DEF ext, f
  <2>6. WordAt(ext)
    BY <2>3, <2>4, <2>5 DEF WordAt
  <2> QED BY <1>7, <2>6 DEF f
<1>9. CASE ~(dot # 0 /\ stream[dot] = ".")
  BY <1>7, <1>9
<1> QED BY <1>8, <1>9

-----------------------------------------------------------------------------
(* The loop of request_handle_headers.                                     *)

ExtensionSeen == rl.mime_extension = Unset \/ WordAt(rl.mime_extension)

HandlerFound ==
  phase = "headers" /\ hd.name # Unset =>
    WordAt(hd.name) /\ hf = dict_get(header_handler_dict, header_key(hd.name), 0)

TypeFound ==
  phase = "done" => content_type = dict_get(mime_dict, Bytes(rl.mime_extension), 0)

DispatchInv == GrammarInv /\ ExtensionSeen /\ HandlerFound /\ TypeFound

\* Where the stream is the same, so are its parts.
LEMMA SameBytes ==
  ASSUME stream' = stream
  PROVE  /\ (rl' = rl => /\ WordAt(rl.mime_extension)' <=> WordAt(rl.mime_extension)
                         /\ Bytes(rl.mime_extension)' = Bytes(rl.mime_extension))
         /\ (hd'.name = hd.name => /\ WordAt(hd.name)' <=> WordAt(hd.name)
                                   /\ header_key(hd.name)' = header_key(hd.name))
         /\ WordAt(hd.name)' <=> WordAt(hd'.name)
         /\ header_key(hd.name)' = header_key(hd'.name)
         /\ WordAt(rl.mime_extension)' <=> WordAt(rl'.mime_extension)
BY DEF WordAt, AllIn, Bytes, header_key

\* At first nothing has been looked up.
LEMMA DispatchStarts == DispatchInit => DispatchInv
<1> SUFFICES ASSUME DispatchInit PROVE DispatchInv
  OBVIOUS
<1>1. GrammarInv
  BY GrammarInit DEF DispatchInit
<1>2. phase = "line" /\ rl.mime_extension = Unset
  BY DEF DispatchInit, Init, parse_archive_init
<1> QED BY <1>1, <1>2 DEF DispatchInv, ExtensionSeen, HandlerFound, TypeFound

\* A step of the loop is one of the parser.
LEMMA DispatchIsParser == [DispatchNext]_dispatchVars => [Next]_vars
<1> SUFFICES ASSUME [DispatchNext]_dispatchVars PROVE [Next]_vars
  OBVIOUS
<1>1. CASE DispatchNext
  BY <1>1 DEF DispatchNext, request_handle_headers, Next
<1>2. CASE UNCHANGED dispatchVars
  BY <1>2 DEF dispatchVars
<1> QED BY <1>1, <1>2

\* With the look-ups, the parser is still the parser: what HttpParserProofs proves
\* of Spec holds of DispatchSpec.
THEOREM DispatchImplementsParser == DispatchSpec => Spec
<1>1. DispatchInit => Init
  BY DEF DispatchInit
<1> QED BY <1>1, DispatchIsParser, PTL DEF DispatchSpec, Spec

\* parse_request_line sets the extension once, from the URL.
LEMMA LineKeepsExtension ==
  ASSUME GrammarInv, ExtensionSeen, parse_request_line
  PROVE  ExtensionSeen' /\ stream' = stream /\ hd' = hd /\ phase' # "done"
<1>1. /\ phase = "line" /\ running /\ next_parse_pos =< received /\ hd' = hd
  BY DEF parse_request_line
<1>2. /\ stream \in Seq(Chars) /\ next_parse_pos \in 1 .. Len(stream) /\ next_parse_pos \in Nat
      /\ rl \in LineArchive
  BY <1>1, ParsingPlace
<1>3. CASE Edges(RequestLineFSM) = {} /\ Reject /\ rl' = rl
  BY <1>1, <1>3, SameBytes DEF Reject, ExtensionSeen
<1>4. ASSUME NEW e \in RequestLineFSM, e.from = state, ch \in e.on, rl' = OnRequestLine(e),
             \/ Reject \/ Continue(e.to) \/ Complete("OK")
      PROVE  ExtensionSeen' /\ stream' = stream /\ phase' # "done"
  <2>1. stream' = stream /\ phase' # "done"
    BY <1>1, <1>4 DEF Reject, Continue, Complete
  <2>2. CASE ~(EndsUrl(e) /\ UrlIsAbsolute)
    <3>1. rl'.mime_extension = rl.mime_extension
      BY <1>1, <1>4, <2>2, LineRecord
    <3>2. WordAt(rl'.mime_extension) <=> WordAt(rl.mime_extension)
      BY <3>1
    <3> QED BY <2>1, <3>1, <3>2, SameBytes DEF ExtensionSeen
  <2>3. CASE EndsUrl(e) /\ UrlIsAbsolute
    <3>1. rl' = parse_url(rl.url_begin, next_parse_pos)
      BY <1>4, <2>3 DEF OnRequestLine, EndsUrl
    <3>2. state = "RL_URL"
      BY <1>4, <2>3 DEF EndsUrl
    <3>3. PICK m \in Methods : /\ Len(m) + 2 =< rl.url_begin /\ rl.url_begin < next_parse_pos
                               /\ AllIn(Text \ Blank, rl.url_begin, next_parse_pos)
      BY <1>1, <3>2 DEF GrammarInv, LineKnown, SeenLine
    <3>4. rl.url_begin \in Nat /\ rl.url_begin > 0 /\ next_parse_pos =< Len(stream) + 1
      <4>1. Len(m) \in Nat /\ rl.url_begin \in Nat
        BY <1>2, MethodWords DEF LineArchive
      <4> QED BY <1>2, <3>3, <4>1
    <3>5. rl.abs_path = Unset /\ rl.query_string = Unset /\ rl.mime_extension = Unset
      BY <3>2 DEF GrammarInv, UrlKnown
    <3>6. stream[rl.url_begin] = "/"
      BY <2>3 DEF UrlIsAbsolute
    <3>7. rl'.mime_extension = Unset \/ WordAt(rl'.mime_extension)
      BY <1>2, <3>1, <3>3, <3>4, <3>5, <3>6, ExtensionIsWord
    <3> QED BY <2>1, <3>7, SameBytes DEF ExtensionSeen
  <2> QED BY <2>1, <2>2, <2>3
<1> QED BY <1>1, <1>3, <1>4 DEF parse_request_line, Edges

\* A completed header line has a word for its name.
LEMMA NameIsWord ==
  ASSUME GrammarInv, phase = "headers", running, next_parse_pos =< received,
         state = "HD_CR_AFTER_VAL", hd' = HEADER_SET, ~hd.isCRLF_LINE
  PROVE  WordAt(hd'.name)
<1>1. /\ stream \in Seq(Chars) /\ hd \in HeaderArchive
      /\ next_parse_pos \in 1 .. Len(stream) /\ next_parse_pos \in Nat
      /\ line_begin \in Nat
  BY ParsingPlace
<1>2. line_begin > 1 /\ SeenCR(next_parse_pos, hd, line_begin)
  BY DEF GrammarInv, HeaderKnown, SeenHeader
<1>3. hd'.name = <<hd.line_begin, hd.colon_pos>>
  BY <1>1, HeaderSetIs
<1>4. /\ hd.line_begin \in Nat /\ hd.colon_pos \in Nat /\ hd.val_begin \in Nat
      /\ hd'.name[1] = hd.line_begin /\ hd'.name[2] = hd.colon_pos
  BY <1>1, <1>3 DEF HeaderArchive
<1>5. /\ line_begin =< hd.line_begin /\ hd.line_begin < hd.colon_pos
      /\ AllIn(Name, hd.line_begin, hd.colon_pos)
      /\ hd.colon_pos < hd.val_begin /\ hd.val_begin < next_parse_pos - 1
  BY <1>2 DEF SeenCR, NameIs, ValueIs
<1>6. Name \subseteq Printable
  <2>1. \A c \in Name : c \notin {CR, LF, SP, TAB}
    BY DEF Name, Alpha, Digit, CR, LF, SP, TAB
  <2> QED BY <2>1 DEF Printable, Text, Blank, Chars
<1>7. AllIn(Printable, hd.line_begin, hd.colon_pos)
  BY <1>5, <1>6 DEF AllIn
<1>8. hd.line_begin > 0 /\ hd.line_begin =< hd.colon_pos /\ hd.colon_pos =< Len(stream) + 1
  <2>1. Len(stream) \in Nat /\ next_parse_pos =< Len(stream)
    BY <1>1
  <2> QED BY <1>1, <1>2, <1>4, <1>5, <2>1
<1> QED BY <1>4, <1>7, <1>8 DEF WordAt

\* One character of a header line, and the look-up at its end.
LEMMA HeadersStep ==
  ASSUME DispatchInv, request_handle_headers
  PROVE  ExtensionSeen' /\ HandlerFound' /\ TypeFound'
<1>1. phase = "headers" /\ running /\ next_parse_pos =< received /\ rl' = rl
  BY DEF request_handle_headers, parse_header_line
<1>2. /\ GrammarInv /\ hd \in HeaderArchive /\ next_parse_pos \in Nat
      /\ line_begin \in Nat /\ line_begin =< next_parse_pos
  BY <1>1, ParsingPlace DEF DispatchInv
<1>3. stream' = stream
  BY DEF request_handle_headers, parse_header_line, Reject, Continue, Complete
<1>4. ExtensionSeen'
  BY <1>1, <1>3, SameBytes DEF DispatchInv, ExtensionSeen
<1>5. TypeFound'
  <2>1. phase' = "done" => content_type' = dict_get(mime_dict, Bytes(rl.mime_extension), 0)
    BY DEF request_handle_headers, response_append_content_type
  <2> QED BY <1>1, <1>3, <2>1, SameBytes DEF TypeFound
<1>6. CASE Reject /\ hd' = hd
  <2>1. phase' = "rejected"
    BY <1>6 DEF Reject
  <2> QED BY <1>4, <1>5, <2>1 DEF HandlerFound
<1>7. ASSUME NEW e \in HeaderFSM, e.from = state, hd' = OnHeader(e), Continue(e.to)
      PROVE  HandlerFound'
  <2>1. hd'.name = hd.name
    BY <1>2, <1>7, HeaderEffect
  <2>2. phase' = phase /\ line_begin' = line_begin
    BY <1>7 DEF Continue
  <2>3. hf' = hf
    BY <2>2 DEF request_handle_headers
  <2>4. WordAt(hd.name)' <=> WordAt(hd.name)
    BY <1>3, <2>1, SameBytes
  <2>5. header_key(hd.name)' = header_key(hd.name)
    BY <1>3, <2>1, SameBytes
  <2> QED BY <2>1, <2>2, <2>3, <2>4, <2>5 DEF DispatchInv, HandlerFound
<1>8. ASSUME state = "HD_CR_AFTER_VAL", hd' = HEADER_SET,
             Complete(IF hd.isCRLF_LINE THEN "CRLF_LINE" ELSE "OK")
      PROVE  HandlerFound'
  <2>1. hd.isCRLF_LINE \in BOOLEAN
    BY <1>2 DEF HeaderArchive
  <2>2. CASE hd.isCRLF_LINE
    <3>1. phase' = "done"
      BY <1>8, <2>2 DEF Complete
    <3> QED BY <3>1 DEF HandlerFound
  <2>3. CASE ~hd.isCRLF_LINE
    <3>1. result' = "OK" /\ line_begin' = next_parse_pos + 1
      BY <1>8, <2>3 DEF Complete
    <3>2. line_begin' # line_begin
      BY <1>2, <3>1
    <3>3. hf' = dict_get(header_handler_dict, header_key(hd'.name), 0)
      BY <3>1, <3>2 DEF request_handle_headers
    <3>4. WordAt(hd'.name)
      BY <1>1, <1>2, <1>8, <2>3, NameIsWord
    <3>5. WordAt(hd.name)' /\ header_key(hd.name)' = header_key(hd'.name)
      BY <1>3, <3>4, SameBytes
    <3> QED BY <3>3, <3>5 DEF HandlerFound
  <2> QED BY <2>1, <2>2, <2>3
<1> QED BY <1>4, <1>5, <1>6, <1>7, <1>8
        DEF request_handle_headers, parse_header_line, Edges

\* Every step keeps the invariant.
LEMMA DispatchStep == DispatchInv /\ [DispatchNext]_dispatchVars => DispatchInv'
<1> SUFFICES ASSUME DispatchInv, [DispatchNext]_dispatchVars PROVE DispatchInv'
  OBVIOUS
<1>1. GrammarInv'
  BY DispatchIsParser, GrammarNext DEF DispatchInv
<1>2. ASSUME stream' = stream, rl' = rl, hd' = hd, phase' = phase, hf' = hf,
             content_type' = content_type
      PROVE  ExtensionSeen' /\ HandlerFound' /\ TypeFound'
  <2>1. /\ WordAt(rl.mime_extension)' <=> WordAt(rl.mime_extension)
        /\ Bytes(rl.mime_extension)' = Bytes(rl.mime_extension)
    BY <1>2, SameBytes
  <2>2. /\ WordAt(hd.name)' <=> WordAt(hd.name)
        /\ header_key(hd.name)' = header_key(hd.name)
    BY <1>2, SameBytes
  <2> QED BY <1>2, <2>1, <2>2 DEF DispatchInv, ExtensionSeen, HandlerFound, TypeFound
<1>3. ASSUME NEW n \in 1 .. Len(stream), request_recv(n), hf' = hf,
             content_type' = content_type
      PROVE  DispatchInv'
  BY <1>1, <1>2, <1>3 DEF request_recv, DispatchInv
<1>4. CASE parse_again /\ hf' = hf /\ content_type' = content_type
  BY <1>1, <1>2, <1>4 DEF parse_again, Again, DispatchInv
<1>5. CASE parse_request_line
  <2>1. ExtensionSeen' /\ hd' = hd /\ phase' # "done"
    BY <1>5, LineKeepsExtension DEF DispatchInv
  <2>2. hd.name = Unset
    BY <1>5 DEF parse_request_line, DispatchInv, GrammarInv, LineKnown
  <2> QED BY <1>1, <2>1, <2>2 DEF DispatchInv, HandlerFound, TypeFound
<1>6. CASE request_handle_headers
  BY <1>1, <1>6, HeadersStep DEF DispatchInv
<1>7. CASE UNCHANGED dispatchVars
  BY <1>1, <1>2, <1>7 DEF dispatchVars, vars, DispatchInv
<1> QED BY <1>3, <1>4, <1>5, <1>6, <1>7 DEF DispatchNext

\* The lists are lists of words, and the names of headers are in lower case.
LEMMA ListsAre ==
  /\ hf_list \in Seq(Words) /\ mime_list \in Seq(Words)
  /\ \A i \in DOMAIN hf_list : ssstr_tolower(hf_list[i]) = hf_list[i]
BY ListsAssumption DEF Words, Printable

\* A word in lower case and a name are two spellings of one name if the name in
\* lower case is that word, and only then.
LEMMA SpelledTheSame ==
  ASSUME NEW s \in Words, NEW t \in Words, ssstr_tolower(s) = s
  PROVE  SameName(s, t) <=> s = ssstr_tolower(t)
<1> DEFINE w == ssstr_tolower(t)
           n == Len(t)
           upper(x) == Codes[x] \in 65 .. 90
<1>1. w \in Words /\ Len(w) = n /\ n \in Nat
  BY ToLowerIs DEF Words
<1>2. ASSUME NEW i \in 1 .. n
      PROVE  /\ upper(t[i]) => Codes[w[i]] = Codes[t[i]] + 32
             /\ ~upper(t[i]) => w[i] = t[i]
  BY <1>2, ToLowerIs
<1>3. ASSUME NEW v \in Words, NEW i \in 1 .. Len(v)
      PROVE  v[i] \in Printable /\ Codes[v[i]] \in Int
  <2>1. v[i] \in Printable
    BY DEF Words
  <2> QED BY <2>1, CodesAreNumbers, Zenon
<1> HIDE DEF w, n
<1>4. ASSUME NEW i \in 1 .. Len(s) PROVE ~upper(s[i])
  <2>1. Codes[s[i]] \in Int
    BY <1>3
  <2>2. upper(s[i]) => Codes[s[i]] = Codes[s[i]] + 32
    BY ToLowerIs
  <2>3. Codes[s[i]] # Codes[s[i]] + 32
    BY <2>1
  <2> QED BY <2>2, <2>3, Zenon
<1>5. ASSUME NEW i \in 1 .. n, Len(s) = n
      PROVE  s[i] = w[i] <=>
               Codes[t[i]] - Codes[s[i]] \in
                 IF Codes[s[i]] \in 65 .. 90 THEN {0, 32} ELSE
                 IF Codes[s[i]] \in 97 .. 122 THEN {0, -32} ELSE {0}
  <2> DEFINE cs == Codes[s[i]]
             ct == Codes[t[i]]
             cw == Codes[w[i]]
  <2>1. /\ s[i] \in Printable /\ w[i] \in Printable /\ t[i] \in Printable
        /\ cs \in Int /\ ct \in Int /\ cw \in Int
    BY <1>1, <1>3, <1>5 DEF n
  <2>2. /\ ct \in 65 .. 90 => cw = ct + 32
        /\ ct \notin 65 .. 90 => cw = ct
    BY <1>2
  <2>3. cs \notin 65 .. 90
    BY <1>4, <1>5
  <2>4. s[i] = w[i] <=> cs = cw
    BY <2>1, CodesAre
  <2> HIDE DEF cs, ct, cw
  <2>5. cs = cw <=> ct - cs \in IF cs \in 97 .. 122 THEN {0, -32} ELSE {0}
    BY <2>1, <2>2, <2>3
  <2> QED BY <2>3, <2>4, <2>5 DEF cs, ct
<1>6. ASSUME SameName(s, t) PROVE s = w
  <2>1. Len(s) = n /\ DOMAIN s = 1 .. n
    BY <1>6 DEF SameName, Words, n
  <2>2. ASSUME NEW i \in 1 .. n PROVE s[i] = w[i]
    BY <1>5, <1>6, <2>1 DEF SameName
  <2> QED BY <1>1, <2>1, <2>2 DEF Words
<1>7. ASSUME s = w PROVE SameName(s, t)
  <2>1. Len(s) = Len(t) /\ DOMAIN s = 1 .. n /\ Len(s) = n
    BY <1>1, <1>7 DEF Words, n
  <2>2. \A i \in 1 .. n : s[i] = w[i]
    BY <1>7
  <2> QED BY <1>5, <2>1, <2>2 DEF SameName
<1> QED BY <1>6, <1>7 DEF w

\* What dict_get returned is the handler of the name.
LEMMA FoundIsHandler == DispatchInv => HandlerExact
<1> SUFFICES ASSUME DispatchInv, phase = "headers", hd.name # Unset
             PROVE  IF \E i \in DOMAIN hf_list : SameName(hf_list[i], Bytes(hd.name))
                      THEN hf # 0 /\ SameName(hf_list[hf], Bytes(hd.name))
                      ELSE hf = 0
  BY DEF HandlerExact
<1> DEFINE t == Bytes(hd.name)
           w == ssstr_tolower(t)
<1>1. /\ stream \in Seq(Chars) /\ hd.name \in Nat \X Nat /\ WordAt(hd.name)
      /\ hf = dict_get(header_handler_dict, header_key(hd.name), 0)
  BY DEF DispatchInv, GrammarInv, Places, HandlerFound, HeaderArchive
<1>2. t \in Words
  BY <1>1, BytesAreWord
<1>3. w \in Words
  BY <1>2, ToLowerIs
<1>4. IsIndex(hf, hf_list, w)
  BY <1>1, <1>3, GetIsIndex, ListsAre DEF header_handler_dict, header_key
<1> HIDE DEF w, t
<1>5. DOMAIN hf_list = 1 .. Len(hf_list) /\ \A i \in DOMAIN hf_list : hf_list[i] \in Words
  BY ListsAre
<1>6. \A i \in DOMAIN hf_list : SameName(hf_list[i], t) <=> hf_list[i] = w
  BY <1>2, <1>5, ListsAre, SpelledTheSame DEF w
<1>7. CASE \E i \in DOMAIN hf_list : hf_list[i] = w
  <2>1. hf \in DOMAIN hf_list /\ hf_list[hf] = w
    BY <1>4, <1>7 DEF IsIndex, Range
  <2>2. hf # 0
    BY <1>5, <2>1
  <2> QED BY <1>6, <2>1, <2>2 DEF t
<1>8. CASE ~\E i \in DOMAIN hf_list : hf_list[i] = w
  <2>1. hf = 0
    BY <1>4, <1>8 DEF IsIndex, Range
  <2> QED BY <1>6, <1>8, <2>1 DEF t
<1> QED BY <1>7, <1>8

\* For all inputs, all ways to cut them and all lists of names: each header
\* reaches the handler of its name, in whatever case, and no other.
THEOREM HandlersAreExact == DispatchSpec => []HandlerExact
BY DispatchStarts, DispatchStep, FoundIsHandler, PTL DEF DispatchSpec

\* What dict_get returned is the content type of the extension.
LEMMA FoundIsType == DispatchInv => ContentTypeExact
<1> SUFFICES ASSUME DispatchInv, phase = "done"
             PROVE  IsIndex(content_type, mime_list, Bytes(rl.mime_extension))
  BY DEF ContentTypeExact
<1>1. /\ stream \in Seq(Chars) /\ rl.mime_extension \in Nat \X Nat
      /\ content_type = dict_get(mime_dict, Bytes(rl.mime_extension), 0)
  BY DEF DispatchInv, GrammarInv, Places, TypeFound, LineArchive
<1>2. Bytes(rl.mime_extension) \in Words
  BY <1>1, BytesAreWord DEF DispatchInv, ExtensionSeen
<1> QED BY <1>1, <1>2, GetIsIndex, ListsAre DEF mime_dict

\* For all inputs, all ways to cut them and all lists of extensions: the content
\* type is that of the extension of the path, or the default.
THEOREM ContentTypesAreExact == DispatchSpec => []ContentTypeExact
BY DispatchStarts, DispatchStep, FoundIsType, PTL DEF DispatchSpec
=============================================================================
