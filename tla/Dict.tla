-------------------------------- MODULE Dict --------------------------------
(***************************************************************************)
(* dict.c and the parts of ssstr.c it uses: a hash table whose buckets are *)
(* chains.  A string is a sequence of one-character strings; one without   *)
(* characters also stands for the ssstr_t whose str is NULL, which hashes  *)
(* to 0 too and equals no key (a key has characters).                      *)
(***************************************************************************)
EXTENDS Integers, Sequences, SequencesExt

\* ASCII, as far as the characters of names and extensions need it.
Signs == { <<"-", 45>>, <<".", 46>>, <<"/", 47>>, <<"0", 48>>, <<"1", 49>>, <<"2", 50>>,
           <<":", 58>>, <<"?", 63>> }
Upper == { <<"A", 65>>, <<"D", 68>>, <<"E", 69>>, <<"G", 71>>, <<"H", 72>>, <<"L", 76>>,
           <<"O", 79>>, <<"P", 80>>, <<"S", 83>>, <<"T", 84>>, <<"U", 85>>, <<"X", 88>> }
Lower == { <<"a", 97>>, <<"d", 100>>, <<"e", 101>>, <<"g", 103>>, <<"h", 104>>,
           <<"l", 108>>, <<"o", 111>>, <<"p", 112>>, <<"s", 115>>, <<"t", 116>>,
           <<"u", 117>>, <<"x", 120>> }
Ascii == Signs \cup Upper \cup Lower

Codes == [c \in {a[1] : a \in Ascii} |-> CHOOSE n \in 0 .. 127 : <<c, n>> \in Ascii]

DICT_MASK_SIZE == 255

\* The loop of ssstr_hash_sdbm: hash after each character of key, in the bits that
\* DICT_MASK_SIZE leaves (the arithmetic is modulo 2^32, of which 2^8 is a divisor).
ssstr_hash_sdbm(key) ==
  LET hash[i \in 0 .. Len(key)] ==
        IF i = 0 THEN 0 ELSE (Codes[key[i]] + 65599 * hash[i - 1]) % (DICT_MASK_SIZE + 1)
  IN hash

LOTOS_HASH(key) == ssstr_hash_sdbm(key)[Len(key)]

ssstr_tolower(s) ==
  [i \in DOMAIN s |->
     IF Codes[s[i]] \in 65 .. 90
       THEN CHOOSE c \in DOMAIN Codes : Codes[c] = Codes[s[i]] + 32
       ELSE s[i]]

\* The sign tells which string comes first: at the first difference, or, if
\* one is the beginning of the other, the shorter one.
ssstr_cmp(l, r) ==
  LET diff == {i \in DOMAIN l \cap DOMAIN r : l[i] # r[i]}
      first == CHOOSE i \in diff : \A j \in diff : i =< j
      sign(a, b) == IF a = b THEN 0 ELSE IF a < b THEN -1 ELSE 1
  IN IF diff # {} THEN sign(Codes[l[first]], Codes[r[first]]) ELSE sign(Len(l), Len(r))

dict_init == [h \in 0 .. DICT_MASK_SIZE |-> <<>>]

\* A mutated form is a plausible mistake in the definition that follows it.  No
\* specification uses it: it shows that the properties notice the mistake.

\* Mutant: the new node takes the place of the chain.
dict_put_drops_chain(dict, key, val) ==
  [dict EXCEPT ![LOTOS_HASH(key)] = <<[k |-> key, v |-> val]>>]

\* The new node goes to the front of its chain.
dict_put(dict, key, val) ==
  [dict EXCEPT ![LOTOS_HASH(key)] = <<[k |-> key, v |-> val]>> \o @]

\* The value of the first node with the key, NULL if there is none.
dict_get(dict, key, NULL) ==
  LET chain == dict[LOTOS_HASH(key)]
      i == SelectInSeq(chain, LAMBDA p : ssstr_cmp(p.k, key) = 0)
  IN IF i = 0 THEN NULL ELSE chain[i].v
=============================================================================
