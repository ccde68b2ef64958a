---------------------------- MODULE FrameProofs -----------------------------
(***************************************************************************)
(* WellFramed.  The invariant is about two runs of the client: the one that*)
(* wrote the input no handler has taken yet, and the one that will read the*)
(* units that are under way.  Each is a sequence of states, joined by steps*)
(* that look at one token or one unit only, so that no part of the argument*)
(* counts or matches along a queue.                                        *)
(***************************************************************************)
EXTENDS ExchangeProofs

-----------------------------------------------------------------------------
(***************************************************************************)
(* Reading.  Before unit i of S the client expects lf[i] units of a body,  *)
(* is owed ow[i] responses, and la[i] is 1 if it was told that the         *)
(* connection ends.                                                        *)
(***************************************************************************)

\* The first n of T are the n of S that come after the first k.
Agree(S, T, n, k) == \A i \in 1 .. n : T[i] = S[i + k]

\* The run g is f from k units on.
Shifted(f, g, k) == \A i \in Nat : g[i] = f[i + k]

\* A run, seen from a later unit on.
LEMMA Later ==
  ASSUME NEW A, NEW f \in [Nat -> A], NEW k \in Nat
  PROVE  \E g \in [Nat -> A] : Shifted(f, g, k)
<1> DEFINE g == [i \in Nat |-> f[i + k]]
<1>1. g \in [Nat -> A]
  OBVIOUS
<1>2. Shifted(f, g, k)
  BY DEF Shifted
<1> HIDE DEF g
<1> QED BY <1>1, <1>2, Zenon

\* A run with one more at every point.
LEMMA Raised ==
  ASSUME NEW f \in [Nat -> Nat]
  PROVE  \E g \in [Nat -> Nat] : \A i \in Nat : g[i] = f[i] + 1
<1> DEFINE g == [i \in Nat |-> f[i] + 1]
<1>1. g \in [Nat -> Nat] /\ \A i \in Nat : g[i] = f[i] + 1
  OBVIOUS
<1> QED BY <1>1, Zenon

\* Whether a head announced the end, as a number.
Told(keep) == IF keep THEN 0 ELSE 1

ReadStep(l, o, e, u, l2, o2, e2) ==
  \/ l > 0 /\ u.kind = "body" /\ l2 = l - 1 /\ o2 = o /\ e2 = e
  \/ /\ l = 0 /\ u.kind = "head" /\ o > 0 /\ e = 0
     /\ l2 = u.len /\ o2 = o - 1 /\ e2 = Told(u.keep)

Reads(S, n, lf, ow, la) ==
  \A i \in 1 .. n : ReadStep(lf[i], ow[i], la[i], S[i], lf[i + 1], ow[i + 1], la[i + 1])

\* A client in state l, o, e can read the first n units of S, and is then in
\* state l2, o2, e2.
CanRead(S, n, l, o, e, l2, o2, e2) ==
  \E lf \in [Nat -> Nat], ow \in [Nat -> Nat], la \in [Nat -> Nat] :
    /\ Reads(S, n, lf, ow, la)
    /\ lf[1] = l /\ ow[1] = o /\ la[1] = e
    /\ lf[n + 1] = l2 /\ ow[n + 1] = o2 /\ la[n + 1] = e2

\* Where nothing is under way the client stays where it is.
LEMMA ReadNothing ==
  ASSUME NEW S, NEW l \in Nat, NEW o \in Nat, NEW e \in Nat
  PROVE  CanRead(S, 0, l, o, e, l, o, e)
<1> DEFINE lf == [i \in Nat |-> l]
           ow == [i \in Nat |-> o]
           la == [i \in Nat |-> e]
<1>1. lf \in [Nat -> Nat] /\ ow \in [Nat -> Nat] /\ la \in [Nat -> Nat]
  OBVIOUS
<1>2. /\ lf[1] = l /\ ow[1] = o /\ la[1] = e
      /\ lf[0 + 1] = l /\ ow[0 + 1] = o /\ la[0 + 1] = e
  OBVIOUS
<1> HIDE DEF lf, ow, la
<1>3. Reads(S, 0, lf, ow, la)
  BY DEF Reads
<1> QED BY <1>1, <1>2, <1>3 DEF CanRead

\* The next unit is one the client expects.
LEMMA ReadOne ==
  ASSUME NEW S, NEW T, NEW n \in Nat, n > 0,
         Agree(S, T, n - 1, 1),
         NEW l, NEW o, NEW e, NEW l2, NEW o2, NEW e2, CanRead(S, n, l, o, e, l2, o2, e2)
  PROVE  \E l1 \in Nat, o1 \in Nat, e1 \in Nat :
           /\ ReadStep(l, o, e, S[1], l1, o1, e1)
           /\ CanRead(T, n - 1, l1, o1, e1, l2, o2, e2)
<1> \A i \in 1 .. n - 1 : T[i] = S[i + 1]
  BY DEF Agree
<1>1. PICK lf \in [Nat -> Nat], ow \in [Nat -> Nat], la \in [Nat -> Nat] :
        /\ Reads(S, n, lf, ow, la)
        /\ lf[1] = l /\ ow[1] = o /\ la[1] = e
        /\ lf[n + 1] = l2 /\ ow[n + 1] = o2 /\ la[n + 1] = e2
  BY Zenon DEF CanRead
<1>2. PICK lf2 \in [Nat -> Nat] : Shifted(lf, lf2, 1)
  BY Later, Zenon
<1>3. PICK ow2 \in [Nat -> Nat] : Shifted(ow, ow2, 1)
  BY Later, Zenon
<1>4. PICK la2 \in [Nat -> Nat] : Shifted(la, la2, 1)
  BY Later, Zenon
<1>5. Reads(T, n - 1, lf2, ow2, la2)
  <2> SUFFICES ASSUME NEW i \in 1 .. n - 1
               PROVE  ReadStep(lf2[i], ow2[i], la2[i], T[i],
                               lf2[i + 1], ow2[i + 1], la2[i + 1])
    BY DEF Reads
  <2>1. i + 1 \in 1 .. n /\ i \in Nat /\ i + 1 \in Nat
    OBVIOUS
  <2>2. ReadStep(lf[i + 1], ow[i + 1], la[i + 1], S[i + 1],
                 lf[(i + 1) + 1], ow[(i + 1) + 1], la[(i + 1) + 1])
    BY <1>1, <2>1 DEF Reads
  <2> QED BY <1>2, <1>3, <1>4, <2>1, <2>2 DEF Shifted
<1>6. ReadStep(l, o, e, S[1], lf[2], ow[2], la[2])
  <2>1. 1 \in 1 .. n /\ 1 + 1 = 2
    OBVIOUS
  <2> QED BY <1>1, <2>1 DEF Reads
<1>7. CanRead(T, n - 1, lf[2], ow[2], la[2], l2, o2, e2)
  <2>1. lf2[1] = lf[2] /\ ow2[1] = ow[2] /\ la2[1] = la[2]
    BY <1>2, <1>3, <1>4 DEF Shifted
  <2>2. (n - 1) + 1 \in Nat /\ ((n - 1) + 1) + 1 = n + 1
    OBVIOUS
  <2>3. lf2[(n - 1) + 1] = l2 /\ ow2[(n - 1) + 1] = o2 /\ la2[(n - 1) + 1] = e2
    <3>1. /\ lf2[(n - 1) + 1] = lf[((n - 1) + 1) + 1]
          /\ ow2[(n - 1) + 1] = ow[((n - 1) + 1) + 1]
          /\ la2[(n - 1) + 1] = la[((n - 1) + 1) + 1]
      BY <1>2, <1>3, <1>4, <2>2, Zenon DEF Shifted
    <3> QED BY <1>1, <2>2, <3>1, Zenon
  <2> QED BY <1>5, <2>1, <2>3, Zenon DEF CanRead
<1>8. lf[2] \in Nat /\ ow[2] \in Nat /\ la[2] \in Nat
  OBVIOUS
<1> QED BY <1>6, <1>7, <1>8, Zenon

\* What is cut off at the end does not disturb what comes before.
LEMMA ReadPart ==
  ASSUME NEW S, NEW T, NEW n \in Nat, NEW m \in Nat, m =< n,
         Agree(S, T, m, 0),
         NEW l, NEW o, NEW e, NEW l2, NEW o2, NEW e2, CanRead(S, n, l, o, e, l2, o2, e2)
  PROVE  \E l1 \in Nat, o1 \in Nat, e1 \in Nat : CanRead(T, m, l, o, e, l1, o1, e1)
<1> \A i \in 1 .. m : T[i] = S[i]
  BY DEF Agree
<1>1. PICK lf \in [Nat -> Nat], ow \in [Nat -> Nat], la \in [Nat -> Nat] :
        Reads(S, n, lf, ow, la) /\ lf[1] = l /\ ow[1] = o /\ la[1] = e
  BY Zenon DEF CanRead
<1>2. Reads(T, m, lf, ow, la)
  BY <1>1 DEF Reads
<1>3. CanRead(T, m, l, o, e, lf[m + 1], ow[m + 1], la[m + 1])
  BY <1>1, <1>2, Zenon DEF CanRead
<1>4. lf[m + 1] \in Nat /\ ow[m + 1] \in Nat /\ la[m + 1] \in Nat
  OBVIOUS
<1> QED BY <1>3, <1>4, Zenon

\* The same units are read in the same way.
LEMMA ReadSame ==
  ASSUME NEW S, NEW T, NEW n \in Nat, Agree(S, T, n, 0),
         NEW l, NEW o, NEW e, NEW l2, NEW o2, NEW e2, CanRead(S, n, l, o, e, l2, o2, e2)
  PROVE  CanRead(T, n, l, o, e, l2, o2, e2)
<1> \A i \in 1 .. n : T[i] = S[i]
  BY DEF Agree
<1>1. \A lf, ow, la : Reads(S, n, lf, ow, la) => Reads(T, n, lf, ow, la)
  BY DEF Reads
<1> QED BY <1>1, Zenon DEF CanRead

\* One request more, one response more that is owed.
LEMMA ReadMore ==
  ASSUME NEW S, NEW n \in Nat,
         NEW l, NEW o \in Nat, NEW e, NEW l2, NEW o2 \in Nat, NEW e2,
         CanRead(S, n, l, o, e, l2, o2, e2)
  PROVE  CanRead(S, n, l, o + 1, e, l2, o2 + 1, e2)
<1>1. PICK lf \in [Nat -> Nat], ow \in [Nat -> Nat], la \in [Nat -> Nat] :
        /\ Reads(S, n, lf, ow, la)
        /\ lf[1] = l /\ ow[1] = o /\ la[1] = e
        /\ lf[n + 1] = l2 /\ ow[n + 1] = o2 /\ la[n + 1] = e2
  BY Zenon DEF CanRead
<1>2. PICK ow2 \in [Nat -> Nat] : \A i \in Nat : ow2[i] = ow[i] + 1
  BY Raised, Zenon
<1>4. Reads(S, n, lf, ow2, la)
  <2> SUFFICES ASSUME NEW i \in 1 .. n
               PROVE  ReadStep(lf[i], ow2[i], la[i], S[i], lf[i + 1], ow2[i + 1], la[i + 1])
    BY DEF Reads
  <2>1. i \in Nat /\ i + 1 \in Nat
    OBVIOUS
  <2>2. ReadStep(lf[i], ow[i], la[i], S[i], lf[i + 1], ow[i + 1], la[i + 1])
    BY <1>1 DEF Reads
  <2>3. /\ ow2[i] = ow[i] + 1 /\ ow[i] \in Nat
        /\ ow2[i + 1] = ow[i + 1] + 1 /\ ow[i + 1] \in Nat
    BY <1>2, <2>1
  <2> QED BY <2>2, <2>3 DEF ReadStep
<1>5. ow2[1] = o + 1 /\ ow2[n + 1] = o2 + 1
  BY <1>1, <1>2
<1> QED BY <1>1, <1>4, <1>5, Zenon DEF CanRead

\* g is the run f for m units, and c or a count down from n after them.
Constantly(f, g, m, c) ==
  \A i \in Nat : (i =< m + 1 => g[i] = f[i]) /\ (i > m + 1 => g[i] = c)
CountsDown(f, g, m, n) ==
  \A i \in Nat : /\ i =< m + 1 => g[i] = f[i]
                 /\ i > m + 1 /\ i =< m + n + 2 => g[i] = n + m + 2 - i

\* A run that goes on with one value.
LEMMA ThenConstant ==
  ASSUME NEW A, NEW f \in [Nat -> A], NEW m \in Nat, NEW c \in A
  PROVE  \E g \in [Nat -> A] : Constantly(f, g, m, c)
<1> DEFINE g == [i \in Nat |-> IF i =< m + 1 THEN f[i] ELSE c]
<1>1. g \in [Nat -> A]
  OBVIOUS
<1>2. Constantly(f, g, m, c)
  BY DEF Constantly
<1> HIDE DEF g
<1> QED BY <1>1, <1>2, Zenon

\* A run that goes on counting down.
LEMMA ThenDown ==
  ASSUME NEW f \in [Nat -> Nat], NEW m \in Nat, NEW n \in Nat
  PROVE  \E g \in [Nat -> Nat] : CountsDown(f, g, m, n)
<1> DEFINE g == [i \in Nat |-> IF i =< m + 1 THEN f[i]
                               ELSE IF i =< m + n + 2 THEN n + m + 2 - i ELSE 0]
<1>1. \A i \in Nat : i =< m + n + 2 => n + m + 2 - i \in Nat
  OBVIOUS
<1>2. g \in [Nat -> Nat]
  BY <1>1
<1>3. CountsDown(f, g, m, n)
  BY DEF CountsDown
<1> HIDE DEF g
<1> QED BY <1>2, <1>3, Zenon

\* Places of a response of n units behind m others: before it, and its end.
LEMMA Place ==
  ASSUME NEW m \in Nat, NEW n \in Nat, NEW i \in 1 .. m + 1 + n, i =< m
  PROVE  i \in 1 .. m /\ i =< m + 1 /\ i + 1 =< m + 1
OBVIOUS

LEMMA PlaceAfter ==
  ASSUME NEW m \in Nat, NEW n \in Nat
  PROVE  /\ (m + 1 + n) + 1 \in Nat /\ (m + 1 + n) + 1 > m + 1
         /\ (m + 1 + n) + 1 =< m + n + 2 /\ n + m + 2 - ((m + 1 + n) + 1) = 0
OBVIOUS

BodyFrom(T, j, n) == \A i \in j .. n : T[i] = BodyUnit

\* A response is put behind the others: a head and as many units as it announces.
LEMMA ReadResponse ==
  ASSUME NEW S, NEW T, NEW m \in Nat, NEW n \in Nat, NEW k \in BOOLEAN,
         Agree(S, T, m, 0), T[m + 1] = HeadUnit(n, k), BodyFrom(T, m + 2, m + 1 + n),
         NEW l, NEW o, NEW e, NEW o2 \in Nat, o2 > 0, CanRead(S, m, l, o, e, 0, o2, 0)
  PROVE  CanRead(T, m + 1 + n, l, o, e, 0, o2 - 1, Told(k))
<1> /\ \A i \in 1 .. m : T[i] = S[i]
    /\ \A i \in m + 2 .. m + 1 + n : T[i] = BodyUnit
  BY DEF Agree, BodyFrom
<1>1. PICK lf \in [Nat -> Nat], ow \in [Nat -> Nat], la \in [Nat -> Nat] :
        /\ Reads(S, m, lf, ow, la)
        /\ lf[1] = l /\ ow[1] = o /\ la[1] = e
        /\ lf[m + 1] = 0 /\ ow[m + 1] = o2 /\ la[m + 1] = 0
  BY Zenon DEF CanRead
<1>2. o2 - 1 \in Nat /\ Told(k) \in Nat
  BY DEF Told
<1>c. PICK lf2 \in [Nat -> Nat] : CountsDown(lf, lf2, m, n)
  BY ThenDown, Zenon
<1>4. PICK o1 \in Nat, e1 \in Nat : o1 = o2 - 1 /\ e1 = Told(k)
  BY <1>2
<1>d. PICK ow2 \in [Nat -> Nat] : Constantly(ow, ow2, m, o1)
  BY ThenConstant, Zenon
<1>e. PICK la2 \in [Nat -> Nat] : Constantly(la, la2, m, e1)
  BY ThenConstant, Zenon
<1>3. \A i \in Nat : /\ i =< m + 1 => lf2[i] = lf[i]
                     /\ i > m + 1 /\ i =< m + n + 2 => lf2[i] = n + m + 2 - i
  BY <1>c, Zenon DEF CountsDown
<1>a. \A i \in Nat : (i =< m + 1 => ow2[i] = ow[i]) /\ (i > m + 1 => ow2[i] = o1)
  BY <1>d, Zenon DEF Constantly
<1>b. \A i \in Nat : (i =< m + 1 => la2[i] = la[i]) /\ (i > m + 1 => la2[i] = e1)
  BY <1>e, Zenon DEF Constantly
<1>5. /\ BodyUnit.kind = "body" /\ HeadUnit(n, k).kind = "head"
      /\ HeadUnit(n, k).len = n /\ HeadUnit(n, k).keep = k
  BY DEF BodyUnit, HeadUnit
<1>7. \A i \in 1 .. m : ReadStep(lf[i], ow[i], la[i], S[i], lf[i + 1], ow[i + 1], la[i + 1])
  BY <1>1 DEF Reads
<1>8. Reads(T, m + 1 + n, lf2, ow2, la2)
  <2> SUFFICES ASSUME NEW i \in 1 .. m + 1 + n
               PROVE  ReadStep(lf2[i], ow2[i], la2[i], T[i],
                               lf2[i + 1], ow2[i + 1], la2[i + 1])
    BY DEF Reads
  <2>1. i \in Nat /\ i + 1 \in Nat
    OBVIOUS
  <2>2. CASE i =< m
    <3>1. i \in 1 .. m /\ i =< m + 1 /\ i + 1 =< m + 1
      BY <2>2, Place, Zenon
    <3>2. /\ lf2[i] = lf[i] /\ ow2[i] = ow[i] /\ la2[i] = la[i] /\ T[i] = S[i]
          /\ lf2[i + 1] = lf[i + 1] /\ ow2[i + 1] = ow[i + 1] /\ la2[i + 1] = la[i + 1]
      BY <1>3, <1>4, <1>a, <1>b, <2>1, <3>1, Zenon
    <3> QED BY <1>7, <3>1, <3>2
  <2>3. CASE i = m + 1
    <3>1. /\ i =< m + 1 /\ i + 1 > m + 1 /\ i + 1 =< m + n + 2 /\ n + m + 2 - (i + 1) = n
      BY <2>3
    <3>2. lf2[i] = 0 /\ ow2[i] = o2 /\ la2[i] = 0
      BY <1>1, <1>3, <1>4, <1>a, <1>b, <2>1, <2>3, <3>1, Zenon
    <3>3. lf2[i + 1] = n /\ ow2[i + 1] = o2 - 1 /\ la2[i + 1] = Told(k)
      BY <1>3, <1>4, <1>a, <1>b, <2>1, <3>1, Zenon
    <3>4. T[i] = HeadUnit(n, k) /\ o2 > 0
      BY <2>3
    <3> QED BY <1>5, <3>2, <3>3, <3>4 DEF ReadStep
  <2>4. CASE i > m + 1
    <3>1. /\ i + 1 > m + 1 /\ i =< m + n + 2 /\ i + 1 =< m + n + 2 /\ i \in m + 2 .. m + 1 + n
      BY <2>4
    <3>2. /\ lf2[i] = n + m + 2 - i /\ lf2[i + 1] = n + m + 2 - (i + 1)
          /\ ow2[i] = o2 - 1 /\ ow2[i + 1] = o2 - 1 /\ la2[i] = Told(k) /\ la2[i + 1] = Told(k)
      BY <1>3, <1>4, <1>a, <1>b, <2>1, <2>4, <3>1, Zenon
    <3>3. n + m + 2 - i > 0 /\ n + m + 2 - (i + 1) = (n + m + 2 - i) - 1
      BY <3>1
    <3>4. T[i] = BodyUnit
      BY <3>1
    <3> QED BY <1>5, <3>2, <3>3, <3>4 DEF ReadStep
  <2> QED BY <2>2, <2>3, <2>4
<1>9. /\ lf2[1] = l /\ ow2[1] = o /\ la2[1] = e
  <2>1. 1 =< m + 1 /\ 1 \in Nat
    OBVIOUS
  <2> QED BY <1>1, <1>3, <1>a, <1>b, <2>1, Zenon
<1>10. /\ lf2[(m + 1 + n) + 1] = 0 /\ ow2[(m + 1 + n) + 1] = o2 - 1
       /\ la2[(m + 1 + n) + 1] = Told(k)
  <2>1. /\ (m + 1 + n) + 1 \in Nat /\ (m + 1 + n) + 1 > m + 1
        /\ (m + 1 + n) + 1 =< m + n + 2 /\ n + m + 2 - ((m + 1 + n) + 1) = 0
    BY PlaceAfter, Zenon
  <2> QED BY <1>3, <1>4, <1>a, <1>b, <2>1, Zenon
<1> QED BY <1>8, <1>9, <1>10, Zenon DEF CanRead

-----------------------------------------------------------------------------
(***************************************************************************)
(* Writing.  Before token i of I the client is in ph[i], has bl[i] tokens  *)
(* of a body before it, and has finished fi[i] requests.                   *)
(***************************************************************************)

Phases == {"line", "headers", "body"}

\* A client in phase p with a body of b tokens to come sends t; g is 1 if the
\* token is the last of a request.
WriteStep(p, b, t, p2, b2, g) ==
  \/ p = "line" /\ t \in RequestLines /\ p2 = "headers" /\ b2 = 0 /\ g = 0
  \/ /\ p = "headers" /\ t \in Headers
     /\ p2 = "headers" /\ b2 = (IF t = "clen" THEN BodyLen ELSE b) /\ g = 0
  \/ p = "headers" /\ t = "crlf" /\ b = 0 /\ p2 = "line" /\ b2 = 0 /\ g = 1
  \/ p = "headers" /\ t = "crlf" /\ b > 0 /\ p2 = "body" /\ b2 = b /\ g = 0
  \/ p = "body" /\ t = "body" /\ b = 1 /\ p2 = "line" /\ b2 = 0 /\ g = 1
  \/ p = "body" /\ t = "body" /\ b > 1 /\ p2 = "body" /\ b2 = b - 1 /\ g = 0

Writes(I, n, ph, bl, fi) ==
  \A i \in 1 .. n : WriteStep(ph[i], bl[i], I[i], ph[i + 1], bl[i + 1], fi[i + 1] - fi[i])

\* Requests begun by a client in phase p that has finished f.
Begun(p, f) == IF p = "line" THEN f ELSE f + 1

\* What lies between two points of a run: a body is sent without a break, and
\* its end is the end of a request.
Onward(ph, bl, fi, i, j) ==
  /\ fi[i] =< fi[j] /\ Begun(ph[i], fi[i]) =< Begun(ph[j], fi[j])
  /\ ph[i] = "body" /\ j - i < bl[i] => ph[j] = "body" /\ bl[j] = bl[i] - (j - i)
  /\ ph[i] = "body" /\ j > i /\ j - i >= bl[i] => fi[j] > fi[i]

Forward(n, ph, bl, fi) ==
  \A i \in 1 .. n + 1, j \in 1 .. n + 1 : i =< j => Onward(ph, bl, fi, i, j)

\* A client in phase p with b tokens of a body before it may have sent the
\* first n tokens of I, to be then in p2 with b2; d requests were not finished
\* when it began and are begun by then.
CanWrite(I, n, p, b, d, p2, b2) ==
  \E ph \in [Nat -> Phases], bl \in [Nat -> Nat], fi \in [Nat -> Nat] :
    /\ Writes(I, n, ph, bl, fi) /\ Forward(n, ph, bl, fi)
    /\ ph[1] = p /\ bl[1] = b /\ ph[n + 1] = p2 /\ bl[n + 1] = b2
    /\ Begun(p2, fi[n + 1]) = fi[1] + d

\* A client that has sent nothing is where it was.
LEMMA WroteNothing ==
  ASSUME NEW I, NEW p \in Phases, NEW b \in Nat
  PROVE  CanWrite(I, 0, p, b, Begun(p, 0), p, b)
<1> DEFINE ph == [i \in Nat |-> p]
           bl == [i \in Nat |-> b]
           fi == [i \in Nat |-> 0]
<1>1. ph \in [Nat -> Phases] /\ bl \in [Nat -> Nat] /\ fi \in [Nat -> Nat]
  OBVIOUS
<1>2. /\ ph[1] = p /\ bl[1] = b /\ fi[1] = 0
      /\ ph[0 + 1] = p /\ bl[0 + 1] = b /\ fi[0 + 1] = 0
  OBVIOUS
<1> HIDE DEF ph, bl, fi
<1>3. Writes(I, 0, ph, bl, fi)
  BY DEF Writes
<1>4. Begun(p, 0) = 0 + Begun(p, 0)
  BY DEF Begun
<1>5. Forward(0, ph, bl, fi)
  <2> SUFFICES ASSUME NEW i \in 1 .. 0 + 1, NEW j \in 1 .. 0 + 1 PROVE Onward(ph, bl, fi, i, j)
    BY DEF Forward
  <2>1. i = 1 /\ j = 1
    OBVIOUS
  <2>2. Onward(ph, bl, fi, 1, 1)
    BY <1>2 DEF Onward, Begun
  <2> QED BY <2>1, <2>2
<1> QED BY <1>1, <1>2, <1>3, <1>4, <1>5, Zenon DEF CanWrite

\* What a client in phase p sends next begins a request.
NewRequest(p) == IF p = "line" THEN 1 ELSE 0

\* What a step says of the counts.
OneStep(p, b, f, p2, b2, f2) ==
  /\ f =< f2 /\ Begun(p, f) =< Begun(p2, f2) /\ Begun(p2, f2) >= f + 1
  /\ Begun(p2, f2) = Begun(p, f) + (IF p = "line" THEN 1 ELSE 0)
  /\ p = "body" /\ b > 1 => p2 = "body" /\ b2 = b - 1
  /\ p = "body" /\ ~(b > 1) => f2 = f + 1 /\ b = 1

\* One token takes the client onward.
LEMMA StepOnward ==
  ASSUME NEW p \in Phases, NEW b \in Nat, NEW t, NEW p2 \in Phases, NEW b2 \in Nat,
         NEW f \in Nat, NEW f2 \in Nat, WriteStep(p, b, t, p2, b2, f2 - f)
  PROVE  OneStep(p, b, f, p2, b2, f2)
BY DEF WriteStep, Begun, Phases, OneStep

\* The client sends one token more.
LEMMA WroteMore ==
  ASSUME NEW I, NEW J, NEW n \in Nat, Agree(I, J, n, 0),
         NEW p, NEW b, NEW d \in Nat, NEW p2 \in Phases, NEW b2 \in Nat,
         CanWrite(I, n, p, b, d, p2, b2),
         NEW p3 \in Phases, NEW b3 \in Nat, NEW g \in {0, 1},
         WriteStep(p2, b2, J[n + 1], p3, b3, g)
  PROVE  CanWrite(J, n + 1, p, b, d + NewRequest(p2), p3, b3)
<1> \A i \in 1 .. n : J[i] = I[i]
  BY DEF Agree
<1>1. PICK ph \in [Nat -> Phases], bl \in [Nat -> Nat], fi \in [Nat -> Nat] :
        /\ Writes(I, n, ph, bl, fi) /\ Forward(n, ph, bl, fi)
        /\ ph[1] = p /\ bl[1] = b /\ ph[n + 1] = p2 /\ bl[n + 1] = b2
        /\ Begun(p2, fi[n + 1]) = fi[1] + d
  BY Zenon DEF CanWrite
<1>2. PICK f3 \in Nat : f3 = fi[n + 1] + g
  OBVIOUS
<1>3. PICK ph2 \in [Nat -> Phases] : Constantly(ph, ph2, n, p3)
  BY ThenConstant, Zenon
<1>4. PICK bl2 \in [Nat -> Nat] : Constantly(bl, bl2, n, b3)
  BY ThenConstant, Zenon
<1>5. PICK fi2 \in [Nat -> Nat] : Constantly(fi, fi2, n, f3)
  BY ThenConstant, Zenon
<1>6. \A i \in 1 .. n + 1 : ph2[i] = ph[i] /\ bl2[i] = bl[i] /\ fi2[i] = fi[i]
  BY <1>3, <1>4, <1>5 DEF Constantly
<1>7. ph2[n + 2] = p3 /\ bl2[n + 2] = b3 /\ fi2[n + 2] = f3
  BY <1>3, <1>4, <1>5 DEF Constantly
<1>8. WriteStep(p2, b2, J[n + 1], p3, b3, f3 - fi[n + 1]) /\ fi[n + 1] \in Nat
  <2>1. f3 - fi[n + 1] = g /\ fi[n + 1] \in Nat
    BY <1>2
  <2> QED BY <2>1
<1>9. \A i \in 1 .. n : WriteStep(ph[i], bl[i], J[i], ph[i + 1], bl[i + 1], fi[i + 1] - fi[i])
  BY <1>1 DEF Writes
<1>10. /\ fi[n + 1] =< f3 /\ Begun(p2, fi[n + 1]) =< Begun(p3, f3)
       /\ Begun(p3, f3) = Begun(p2, fi[n + 1]) + (IF p2 = "line" THEN 1 ELSE 0)
       /\ p2 = "body" /\ b2 > 1 => p3 = "body" /\ b3 = b2 - 1
       /\ p2 = "body" /\ ~(b2 > 1) => f3 = fi[n + 1] + 1 /\ b2 = 1
  <2>1. OneStep(p2, b2, fi[n + 1], p3, b3, f3)
    BY <1>8, StepOnward, Zenon
  <2> QED BY <2>1, Zenon DEF OneStep
<1>11. Writes(J, n + 1, ph2, bl2, fi2)
  <2> SUFFICES ASSUME NEW i \in 1 .. n + 1
               PROVE  WriteStep(ph2[i], bl2[i], J[i], ph2[i + 1], bl2[i + 1],
                                fi2[i + 1] - fi2[i])
    BY DEF Writes
  <2>1. CASE i = n + 1
    <3>1. /\ ph2[i] = p2 /\ bl2[i] = b2 /\ fi2[i] = fi[n + 1] /\ i + 1 = n + 2
      BY <1>1, <1>6, <2>1
    <3> QED BY <1>7, <1>8, <2>1, <3>1
  <2>2. CASE i # n + 1
    <3>1. i \in 1 .. n /\ i + 1 \in 1 .. n + 1
      BY <2>2
    <3> QED BY <1>6, <1>9, <3>1
  <2> QED BY <2>1, <2>2
<1>12. Forward(n + 1, ph2, bl2, fi2)
  <2> SUFFICES ASSUME NEW i \in 1 .. (n + 1) + 1, NEW j \in 1 .. (n + 1) + 1, i =< j
               PROVE  Onward(ph2, bl2, fi2, i, j)
    BY DEF Forward
  <2>1. CASE j =< n + 1
    <3>1. i \in 1 .. n + 1 /\ j \in 1 .. n + 1
      BY <2>1
    <3>2. Onward(ph, bl, fi, i, j)
      BY <1>1, <3>1 DEF Forward
    <3> QED BY <1>6, <3>1, <3>2 DEF Onward
  <2>2. CASE j = n + 2 /\ i = n + 2
    BY <1>7, <2>2 DEF Onward, Begun
  <2>3. CASE j = n + 2 /\ i =< n + 1
    <3>1. i \in 1 .. n + 1 /\ n + 1 \in 1 .. n + 1 /\ i =< n + 1
      BY <2>3
    <3>2. Onward(ph, bl, fi, i, n + 1)
      BY <1>1, <3>1 DEF Forward
    <3>3. /\ ph2[i] = ph[i] /\ bl2[i] = bl[i] /\ fi2[i] = fi[i]
          /\ ph2[j] = p3 /\ bl2[j] = b3 /\ fi2[j] = f3
      BY <1>6, <1>7, <2>3, <3>1
    <3>4. bl[i] \in Nat /\ fi[i] \in Nat /\ fi[n + 1] \in Nat
      BY <3>1
    <3>5. /\ fi[i] =< fi[n + 1] /\ Begun(ph[i], fi[i]) =< Begun(p2, fi[n + 1])
          /\ ph[i] = "body" /\ n + 1 - i < bl[i] => p2 = "body" /\ b2 = bl[i] - (n + 1 - i)
          /\ ph[i] = "body" /\ n + 1 > i /\ n + 1 - i >= bl[i] => fi[n + 1] > fi[i]
      BY <1>1, <3>2 DEF Onward
    <3>6. fi[i] =< f3
      BY <1>10, <3>4, <3>5
    <3>7. Begun(ph[i], fi[i]) =< Begun(p3, f3)
      <4>1. /\ Begun(ph[i], fi[i]) \in Nat /\ Begun(p2, fi[n + 1]) \in Nat
            /\ Begun(p3, f3) \in Nat
        BY <3>4 DEF Begun
      <4> QED BY <1>10, <3>5, <4>1
    <3>8. ph[i] = "body" /\ j - i < bl[i] => p3 = "body" /\ b3 = bl[i] - (j - i)
      <4> SUFFICES ASSUME ph[i] = "body", j - i < bl[i]
                   PROVE  p3 = "body" /\ b3 = bl[i] - (j - i)
        OBVIOUS
      <4>1. n + 1 - i < bl[i] /\ bl[i] - (n + 1 - i) > 1 /\ bl[i] - (j - i) = bl[i] - (n + 1 - i) - 1
        BY <2>3, <3>4
      <4> QED BY <1>10, <3>5, <4>1
    <3>9. ph[i] = "body" /\ j > i /\ j - i >= bl[i] => f3 > fi[i]
      <4> SUFFICES ASSUME ph[i] = "body", j - i >= bl[i] PROVE f3 > fi[i]
        OBVIOUS
      <4>0. CASE i = n + 1
        <5>1. p2 = "body" /\ b2 = bl[i] /\ ~(b2 > 1)
          BY <1>1, <2>3, <3>4, <4>0
        <5> QED BY <1>10, <3>4, <4>0, <5>1
      <4>1. CASE i # n + 1 /\ n + 1 - i >= bl[i]
        BY <1>10, <3>4, <3>5, <4>1
      <4>2. CASE i # n + 1 /\ n + 1 - i < bl[i]
        <5>1. bl[i] - (n + 1 - i) = 1
          <6>1. i \in Nat /\ j = n + 2 /\ j - i >= bl[i] /\ n + 1 - i < bl[i] /\ bl[i] \in Nat
            BY <2>3, <3>1, <3>4, <4>2
          <6>2. \A x, y, z \in Nat : z = n + 2 /\ z - y >= x /\ n + 1 - y < x => x - (n + 1 - y) = 1
            OBVIOUS
          <6>3. j \in Nat
            OBVIOUS
          <6> QED BY <6>1, <6>2, <6>3, Zenon
        <5>2. p2 = "body" /\ b2 = 1 /\ fi[i] =< fi[n + 1]
          <6>1. p2 = "body" /\ b2 = bl[i] - (n + 1 - i) /\ fi[i] =< fi[n + 1]
            BY <3>5, <4>2, Zenon
          <6> QED BY <5>1, <6>1, Zenon
        <5>3. f3 = fi[n + 1] + 1
          BY <1>10, <5>2
        <5> QED BY <3>4, <5>2, <5>3
      <4> QED BY <3>4, <4>0, <4>1, <4>2
    <3> QED BY <3>3, <3>6, <3>7, <3>8, <3>9 DEF Onward
  <2> QED BY <2>1, <2>2, <2>3
<1>13. /\ ph2[1] = p /\ bl2[1] = b /\ fi2[1] = fi[1]
       /\ ph2[(n + 1) + 1] = p3 /\ bl2[(n + 1) + 1] = b3 /\ fi2[(n + 1) + 1] = f3
  <2>1. 1 \in 1 .. n + 1 /\ (n + 1) + 1 = n + 2
    OBVIOUS
  <2> QED BY <1>1, <1>6, <1>7, <2>1
<1>14. Begun(p3, fi2[(n + 1) + 1]) = fi2[1] + (d + NewRequest(p2))
  <2>1. fi[1] \in Nat /\ Begun(p2, fi[n + 1]) \in Nat
    BY <1>8 DEF Begun
  <2> QED BY <1>1, <1>10, <1>13, <2>1 DEF NewRequest
<1> QED BY <1>11, <1>12, <1>13, <1>14, Zenon DEF CanWrite

\* A part of a run is a run.
LEMMA WroteRest ==
  ASSUME NEW I, NEW J, NEW n \in Nat, NEW k \in 0 .. n,
         Agree(I, J, n - k, k),
         NEW ph \in [Nat -> Phases], NEW bl \in [Nat -> Nat], NEW fi \in [Nat -> Nat],
         Writes(I, n, ph, bl, fi), Forward(n, ph, bl, fi),
         NEW d1 \in Nat, Begun(ph[n + 1], fi[n + 1]) = fi[k + 1] + d1
  PROVE  CanWrite(J, n - k, ph[k + 1], bl[k + 1], d1, ph[n + 1], bl[n + 1])
<1> \A i \in 1 .. n - k : J[i] = I[i + k]
  BY DEF Agree
<1>1. k \in Nat /\ n - k \in Nat
  OBVIOUS
<1>2. PICK ph2 \in [Nat -> Phases] : Shifted(ph, ph2, k)
  BY <1>1, Later, Zenon
<1>3. PICK bl2 \in [Nat -> Nat] : Shifted(bl, bl2, k)
  BY <1>1, Later, Zenon
<1>4. PICK fi2 \in [Nat -> Nat] : Shifted(fi, fi2, k)
  BY <1>1, Later, Zenon
<1>5. \A i \in Nat : ph2[i] = ph[i + k] /\ bl2[i] = bl[i + k] /\ fi2[i] = fi[i + k]
  BY <1>2, <1>3, <1>4, Zenon DEF Shifted
<1>6. Writes(J, n - k, ph2, bl2, fi2)
  <2> SUFFICES ASSUME NEW i \in 1 .. n - k
               PROVE  WriteStep(ph2[i], bl2[i], J[i], ph2[i + 1], bl2[i + 1],
                                fi2[i + 1] - fi2[i])
    BY DEF Writes
  <2>1. i + k \in 1 .. n /\ i \in Nat /\ i + 1 \in Nat /\ (i + k) + 1 = (i + 1) + k
    <3>1. \A x \in 1 .. n - k : /\ x + k \in 1 .. n /\ x \in Nat /\ x + 1 \in Nat
                                 /\ (x + k) + 1 = (x + 1) + k
      BY <1>1
    <3> QED BY <3>1, Zenon
  <2>2. WriteStep(ph[i + k], bl[i + k], I[i + k], ph[(i + k) + 1], bl[(i + k) + 1],
                  fi[(i + k) + 1] - fi[i + k])
    BY <2>1, Zenon DEF Writes
  <2>3. /\ ph2[i] = ph[i + k] /\ bl2[i] = bl[i + k] /\ fi2[i] = fi[i + k]
        /\ ph2[i + 1] = ph[(i + k) + 1] /\ bl2[i + 1] = bl[(i + k) + 1]
        /\ fi2[i + 1] = fi[(i + k) + 1] /\ J[i] = I[i + k]
    <3>1. /\ ph2[i + 1] = ph[(i + 1) + k] /\ bl2[i + 1] = bl[(i + 1) + k]
          /\ fi2[i + 1] = fi[(i + 1) + k]
      BY <1>5, <2>1, Zenon
    <3> QED BY <1>5, <2>1, <3>1, Zenon
  <2> QED BY <2>2, <2>3, Zenon
<1>7. Forward(n - k, ph2, bl2, fi2)
  <2> SUFFICES ASSUME NEW i \in 1 .. (n - k) + 1, NEW j \in 1 .. (n - k) + 1, i =< j
               PROVE  Onward(ph2, bl2, fi2, i, j)
    BY DEF Forward
  <2>1. /\ i + k \in 1 .. n + 1 /\ j + k \in 1 .. n + 1 /\ i + k =< j + k
        /\ (j + k) - (i + k) = j - i /\ (j + k > i + k <=> j > i) /\ i \in Nat /\ j \in Nat
    <3>1. \A x, y \in 1 .. (n - k) + 1 : x =< y =>
            /\ x + k \in 1 .. n + 1 /\ y + k \in 1 .. n + 1 /\ x + k =< y + k
            /\ (y + k) - (x + k) = y - x /\ (y + k > x + k <=> y > x) /\ x \in Nat /\ y \in Nat
      BY <1>1
    <3> QED BY <3>1, Zenon
  <2>2. Onward(ph, bl, fi, i + k, j + k)
    BY <2>1, Zenon DEF Forward
  <2>3. /\ ph2[i] = ph[i + k] /\ bl2[i] = bl[i + k] /\ fi2[i] = fi[i + k]
        /\ ph2[j] = ph[j + k] /\ bl2[j] = bl[j + k] /\ fi2[j] = fi[j + k]
    BY <1>5, <2>1, Zenon
  <2> QED BY <2>1, <2>2, <2>3, Zenon DEF Onward
<1>8. /\ ph2[1] = ph[k + 1] /\ bl2[1] = bl[k + 1] /\ fi2[1] = fi[k + 1]
      /\ ph2[(n - k) + 1] = ph[n + 1] /\ bl2[(n - k) + 1] = bl[n + 1]
      /\ fi2[(n - k) + 1] = fi[n + 1]
  <2>1. 1 + k = k + 1 /\ ((n - k) + 1) + k = n + 1 /\ (n - k) + 1 \in Nat /\ 1 \in Nat
    BY <1>1
  <2>2. /\ ph2[1] = ph[1 + k] /\ bl2[1] = bl[1 + k] /\ fi2[1] = fi[1 + k]
        /\ ph2[(n - k) + 1] = ph[((n - k) + 1) + k]
        /\ bl2[(n - k) + 1] = bl[((n - k) + 1) + k]
        /\ fi2[(n - k) + 1] = fi[((n - k) + 1) + k]
    BY <1>5, <2>1, Zenon
  <2> QED BY <2>1, <2>2, Zenon
<1>9. Begun(ph[n + 1], fi2[(n - k) + 1]) = fi2[1] + d1
  BY <1>8, Zenon
<1> QED BY <1>6, <1>7, <1>8, <1>9, Zenon DEF CanWrite

\* What is left of b tokens of a body and of d requests when the server takes
\* k tokens.
TookOff(k, p, b, d, p1, b1, d1) ==
  /\ p = "body" /\ k < b => p1 = "body" /\ b1 = b - k
  /\ p = "body" /\ k > 0 /\ k >= b => d1 < d

\* The tokens that the server has taken, or drops: it has them from d requests
\* at most, and a part of a body leaves the rest of it.
LEMMA WroteLess ==
  ASSUME NEW I, NEW J, NEW n \in Nat, NEW k \in 0 .. n,
         Agree(I, J, n - k, k),
         NEW p, NEW b \in Nat, NEW d \in Nat, NEW p2, NEW b2, CanWrite(I, n, p, b, d, p2, b2)
  PROVE  \E p1 \in Phases, b1 \in Nat, d1 \in 0 .. d :
           CanWrite(J, n - k, p1, b1, d1, p2, b2) /\ TookOff(k, p, b, d, p1, b1, d1)
<1>1. PICK ph \in [Nat -> Phases], bl \in [Nat -> Nat], fi \in [Nat -> Nat] :
        /\ Writes(I, n, ph, bl, fi) /\ Forward(n, ph, bl, fi)
        /\ ph[1] = p /\ bl[1] = b /\ ph[n + 1] = p2 /\ bl[n + 1] = b2
        /\ Begun(p2, fi[n + 1]) = fi[1] + d
  BY Zenon DEF CanWrite
<1>2. /\ 1 \in 1 .. n + 1 /\ k + 1 \in 1 .. n + 1 /\ n + 1 \in 1 .. n + 1
      /\ 1 =< k + 1 /\ k + 1 =< n + 1 /\ (k + 1) - 1 = k /\ (k + 1 > 1 <=> k > 0)
      /\ k \in Nat /\ k + 1 \in Nat /\ n + 1 \in Nat /\ 1 \in Nat
  OBVIOUS
<1>3. Onward(ph, bl, fi, 1, k + 1) /\ Onward(ph, bl, fi, k + 1, n + 1)
  BY <1>1, <1>2, Zenon DEF Forward
<1>4. fi[1] \in Nat /\ fi[k + 1] \in Nat /\ fi[n + 1] \in Nat /\ bl[k + 1] \in Nat
      /\ ph[k + 1] \in Phases
  BY <1>2
<1>5. /\ fi[1] =< fi[k + 1] /\ fi[k + 1] =< fi[n + 1]
      /\ p = "body" /\ k < b => ph[k + 1] = "body" /\ bl[k + 1] = b - k
      /\ p = "body" /\ k > 0 /\ k >= b => fi[k + 1] > fi[1]
  BY <1>1, <1>2, <1>3, Zenon DEF Onward
<1>6. PICK d1 \in Int : fi[k + 1] + d1 = fi[1] + d
  <2>1. fi[1] + d - fi[k + 1] \in Int /\ fi[k + 1] + (fi[1] + d - fi[k + 1]) = fi[1] + d
    BY <1>4
  <2> QED BY <2>1
<1>7. Begun(p2, fi[n + 1]) >= fi[n + 1]
  BY <1>4 DEF Begun
<1>8. d1 \in 0 .. d /\ d1 \in Nat /\ (fi[k + 1] > fi[1] => d1 < d)
  BY <1>1, <1>4, <1>5, <1>6, <1>7
<1>9. Begun(ph[n + 1], fi[n + 1]) = fi[k + 1] + d1
  BY <1>1, <1>6
<1>10. CanWrite(J, n - k, ph[k + 1], bl[k + 1], d1, p2, b2)
  BY <1>1, <1>8, <1>9, WroteRest, Zenon
<1>11. TookOff(k, p, b, d, ph[k + 1], bl[k + 1], d1)
  BY <1>5, <1>8, Zenon DEF TookOff
<1> QED BY <1>4, <1>8, <1>10, <1>11, Zenon

\* The server takes one token.
LEMMA WroteOne ==
  ASSUME NEW I, NEW J, NEW n \in Nat, n > 0, Agree(I, J, n - 1, 1),
         NEW p, NEW b \in Nat, NEW d \in Nat, NEW p2, NEW b2, CanWrite(I, n, p, b, d, p2, b2)
  PROVE  /\ d > 0
         /\ \E p1 \in Phases, b1 \in Nat, g \in {0, 1} :
              /\ WriteStep(p, b, I[1], p1, b1, g)
              /\ CanWrite(J, n - 1, p1, b1, d - g, p2, b2) /\ d - g \in Nat
<1>1. PICK ph \in [Nat -> Phases], bl \in [Nat -> Nat], fi \in [Nat -> Nat] :
        /\ Writes(I, n, ph, bl, fi) /\ Forward(n, ph, bl, fi)
        /\ ph[1] = p /\ bl[1] = b /\ ph[n + 1] = p2 /\ bl[n + 1] = b2
        /\ Begun(p2, fi[n + 1]) = fi[1] + d
  BY Zenon DEF CanWrite
<1>2. /\ 1 \in 1 .. n /\ 1 \in 0 .. n /\ 1 + 1 \in 1 .. n + 1 /\ n + 1 \in 1 .. n + 1
      /\ 1 + 1 =< n + 1 /\ n + 1 \in Nat /\ 1 + 1 = 2 /\ 1 \in Nat /\ 2 \in Nat
  OBVIOUS
<1>3. Onward(ph, bl, fi, 2, n + 1)
  BY <1>1, <1>2, Zenon DEF Forward
<1>4. WriteStep(p, b, I[1], ph[2], bl[2], fi[2] - fi[1])
  BY <1>1, <1>2, Zenon DEF Writes
<1>5. /\ fi[1] \in Nat /\ fi[2] \in Nat /\ fi[n + 1] \in Nat /\ bl[2] \in Nat
      /\ ph[2] \in Phases /\ ph[1] \in Phases
  BY <1>2
<1>6. /\ fi[2] =< fi[n + 1] /\ Begun(ph[2], fi[2]) =< Begun(p2, fi[n + 1])
  BY <1>1, <1>3, Zenon DEF Onward
<1>7. OneStep(p, b, fi[1], ph[2], bl[2], fi[2])
  BY <1>1, <1>4, <1>5, StepOnward, Zenon
<1>8. Begun(p2, fi[n + 1]) >= fi[n + 1] /\ Begun(ph[2], fi[2]) \in Nat
      /\ Begun(p2, fi[n + 1]) \in Nat
  BY <1>5 DEF Begun
<1>9. d > 0
  <2>1. Begun(ph[2], fi[2]) >= fi[1] + 1
    BY <1>7, Zenon DEF OneStep
  <2> QED BY <1>1, <1>5, <1>6, <1>8, <2>1
<1>10. PICK g \in Int : g = fi[2] - fi[1]
  BY <1>5
<1>11. g \in {0, 1}
  <2>1. WriteStep(p, b, I[1], ph[2], bl[2], g)
    BY <1>4, <1>10, Zenon
  <2> QED BY <2>1 DEF WriteStep
<1>12. d - g \in Nat /\ Begun(ph[n + 1], fi[n + 1]) = fi[2] + (d - g)
  BY <1>1, <1>5, <1>6, <1>8, <1>10, <1>11
<1>13. CanWrite(J, n - 1, ph[2], bl[2], d - g, p2, b2)
  <2>1. Begun(ph[n + 1], fi[n + 1]) = fi[1 + 1] + (d - g)
    BY <1>2, <1>12, Zenon
  <2>2. CanWrite(J, n - 1, ph[1 + 1], bl[1 + 1], d - g, ph[n + 1], bl[n + 1])
    BY <1>1, <1>2, <1>12, <2>1, WroteRest, Zenon
  <2> QED BY <1>1, <1>2, <2>2, Zenon
<1>14. WriteStep(p, b, I[1], ph[2], bl[2], g)
  BY <1>4, <1>10, Zenon
<1> QED BY <1>5, <1>9, <1>11, <1>12, <1>13, <1>14, Zenon

-----------------------------------------------------------------------------
(***************************************************************************)
(* The invariant.                                                          *)
(***************************************************************************)

\* The client's headers are read as it means them (a refused one is answered at
\* once, with the rest of the request still to come; of Content-Length it sends
\* what atoi can represent), a directory is not asked for without its slash, and
\* the file keeps its size.
Framed ==
  /\ FileSizes \subseteq {FileLen}
  /\ "noindex" \notin RequestLines
  /\ Headers \subseteq {"plain", "keepalive", "close", "clen", "bad"}

\* The units on their way to the client: in the socket, the unsent part of the
\* buffer, and the units of the file that will follow the head.
Coming(out, q) ==
  [i \in Nat |->
     IF i =< Len(out) THEN out[i]
     ELSE IF i =< Len(out) + (Len(q.ob) - q.buffer_sent)
     THEN q.ob[i - Len(out) + q.buffer_sent]
     ELSE BodyUnit]
FileUnits(q) == IF q.req_handler = "null" /\ ~q.err_req THEN q.file_left ELSE 0
ComingLen(out, q) == Len(out) + (Len(q.ob) - q.buffer_sent) + FileUnits(q)

\* 1 once the client has been told that this is the last response.
Final(q) == IF q.req_handler = "null" /\ ~q.keep_alive THEN 1 ELSE 0

\* What the handlers know of the request, all of it by themselves.
FileOK(q) ==
  /\ q.transfer_encoding = "identity"
  /\ q.err_req => q.response_done /\ ~q.keep_alive /\ q.req_handler = "null"
  /\ q.req_handler # "null" => q.ob = <<>> /\ q.buffer_sent = 0
  /\ q.req_handler = "request_line" => q.content_length = -1
  /\ q.req_handler \in {"request_line", "headers"} => q.body_received = 0
  /\ q.req_handler \in {"headers", "body"} =>
       q.resource_size = FileLen /\ q.file_left = FileLen
  /\ q.req_handler \in {"headers", "body"} \/ (q.req_handler = "null" /\ ~q.err_req) =>
       q.resource_fd # "none"

\* What they know together with the loop.
PlaceOK ==
  /\ pc = "headers" => r.req_handler = "headers"
  /\ events = {"OUT"} => r.req_handler = "null"
  /\ r.err_req /\ r.res_handler = "send_file" => Closing

\* A client that will be owed o responses once it has read what is on its way,
\* against d requests of which the server has yet to take a part: none is
\* answered without having been asked, and where the server is in a request
\* is where the client was when it sent what comes next.
Balance(q, o, d, p, b) ==
  /\ ~q.err_req => o >= d
  /\ q.req_handler = "body" /\ q.content_length =< 0 => o >= d + 1
  /\ q.req_handler = "headers" =>
       p = "headers" /\ b = (IF q.content_length > 0 THEN BodyLen ELSE 0)
  /\ q.req_handler = "body" /\ q.content_length > 0 =>
       p = "body" /\ b > 0 /\ b = BodyLen - q.body_received

InSync(out, q, I, lft, owd, told, snd, bdl) ==
  \E o \in Nat, p \in Phases, b \in Nat, d \in Nat :
    /\ CanRead(Coming(out, q), ComingLen(out, q), lft, owd, told, 0, o, Final(q))
    /\ CanWrite(I, Len(I), p, b, d, snd, bdl)
    /\ Balance(q, o, d, p, b)

Readable(out, q, lft, owd, told) ==
  \E l \in Nat, o \in Nat, e \in Nat :
    CanRead(Coming(out, q), ComingLen(out, q), lft, owd, told, l, o, e)

FrameOK ==
  ~rst => IF open THEN InSync(outq, r, Input, left, owed, Told(~last), sending, bodyLeft)
          ELSE Readable(outq, r, left, owed, Told(~last))

FrameInv ==
  /\ Framed /\ ~garbled /\ rst \in BOOLEAN /\ (rst => outq = <<>>)
  /\ FileOK(r) /\ PlaceOK /\ FrameOK

\* FrameOK after a step, from the values of the variables then.
LEMMA FrameNext ==
  ASSUME ~rst' => IF open' THEN InSync(outq', r', Input', left', owed', Told(~last'),
                                      sending', bodyLeft')
                  ELSE Readable(outq', r', left', owed', Told(~last'))
  PROVE  FrameOK'
BY DEF FrameOK

\* The kinds of the variables, from the invariant of ExchangeProofs.
LEMMA FrameTypes ==
  ASSUME ExchangeInv
  PROVE  /\ r \in Request /\ r.ib \in Seq(Tokens) /\ inq \in Seq(Tokens) /\ Input \in Seq(Tokens)
         /\ outq \in Seq(AllUnits) /\ r.ob \in Seq(AllUnits)
         /\ Len(outq) \in Nat /\ Len(r.ob) \in Nat /\ Len(Input) \in Nat
         /\ r.buffer_sent \in Nat /\ r.buffer_sent =< Len(r.ob) /\ r.file_left \in Nat
         /\ left \in Nat /\ owed \in Nat /\ bodyLeft \in Nat /\ sending \in Phases
         /\ last \in BOOLEAN /\ garbled \in BOOLEAN /\ Told(~last) \in Nat
         /\ LoopOK /\ SocketOK
<1>1. /\ r \in Request /\ r.ib \in Seq(Tokens) /\ inq \in Seq(Tokens) /\ Input \in Seq(Tokens)
      /\ LoopOK /\ SocketOK
  BY InputFacts
<1>2. outq \in Seq(AllUnits) /\ Len(outq) \in Nat /\ Len(Input) \in Nat
  <2>1. outq \in Seq(AllUnits)
    BY <1>1 DEF SocketOK
  <2> QED BY <1>1, <2>1
<1>3. r.ob \in Seq(AllUnits) /\ r.buffer_sent \in Nat /\ r.file_left \in Nat
  BY <1>1 DEF Request
<1>4. Len(r.ob) \in Nat /\ r.buffer_sent =< Len(r.ob)
  BY <1>3 DEF ExchangeInv, TypesOK, RequestOK
<1>5. /\ left \in Nat /\ owed \in Nat /\ bodyLeft \in Nat /\ sending \in Phases
      /\ last \in BOOLEAN /\ garbled \in BOOLEAN
  BY Constants DEF ExchangeInv, TypesOK, ClientOK, Phases
<1>6. Told(~last) \in Nat
  BY DEF Told
<1> QED BY <1>1, <1>2, <1>3, <1>4, <1>5, <1>6

\* The units under way can be counted.
LEMMA LenComing ==
  ASSUME ExchangeInv
  PROVE  FileUnits(r) \in Nat /\ ComingLen(outq, r) \in Nat /\ ComingLen(outq, r) >= Len(outq)
<1>1. FileUnits(r) \in Nat
  BY FrameTypes DEF FileUnits
<1>2. /\ Len(outq) \in Nat /\ Len(r.ob) \in Nat
      /\ r.buffer_sent \in Nat /\ r.buffer_sent =< Len(r.ob)
  BY FrameTypes
<1>3. \A a, b, k, f \in Nat : k =< b => a + (b - k) + f \in Nat /\ a + (b - k) + f >= a
  OBVIOUS
<1> QED BY <1>1, <1>2, <1>3, Zenon DEF ComingLen

\* The fields of a request that the invariant looks at.
SameFrame(q, z) ==
  /\ z.ob = q.ob /\ z.buffer_sent = q.buffer_sent /\ z.req_handler = q.req_handler
  /\ z.err_req = q.err_req /\ z.file_left = q.file_left /\ z.keep_alive = q.keep_alive
  /\ z.content_length = q.content_length /\ z.body_received = q.body_received

\* Those fields decide what is under way and what is owed.
LEMMA SameComing ==
  ASSUME NEW out, NEW q, NEW z, SameFrame(q, z)
  PROVE  /\ Coming(out, z) = Coming(out, q) /\ ComingLen(out, z) = ComingLen(out, q)
         /\ Final(z) = Final(q)
         /\ \A o, d, p, b : Balance(q, o, d, p, b) => Balance(z, o, d, p, b)
<1>1. Coming(out, z) = Coming(out, q)
  BY Zenon DEF SameFrame, Coming
<1>2. FileUnits(z) = FileUnits(q) /\ Final(z) = Final(q)
  BY Zenon DEF SameFrame, FileUnits, Final
<1>3. ComingLen(out, z) = ComingLen(out, q)
  BY <1>2, Zenon DEF SameFrame, ComingLen
<1>4. \A o, d, p, b : Balance(q, o, d, p, b) => Balance(z, o, d, p, b)
  BY Zenon DEF SameFrame, Balance
<1> QED BY <1>1, <1>2, <1>3, <1>4

\* Steps that change neither what is under way nor what the client has done.
LEMMA FrameSame ==
  ASSUME FrameInv, UNCHANGED <<sending, bodyLeft, owed, left, last, rst, outq, open>>,
         SameFrame(r, r'), Input' = Input
  PROVE  FrameOK'
<1>1. /\ Coming(outq, r') = Coming(outq, r) /\ ComingLen(outq, r') = ComingLen(outq, r)
      /\ Final(r') = Final(r)
      /\ \A o, d, p, b : Balance(r, o, d, p, b) => Balance(r', o, d, p, b)
  BY SameComing, Zenon
<1>2. ASSUME ~rst', open'
      PROVE  InSync(outq', r', Input', left', owed', Told(~last'), sending', bodyLeft')
  <2>1. InSync(outq, r, Input, left, owed, Told(~last), sending, bodyLeft)
    BY <1>2 DEF FrameInv, FrameOK
  <2>2. InSync(outq, r', Input, left, owed, Told(~last), sending, bodyLeft)
    BY <1>1, <2>1, Zenon DEF InSync
  <2> QED BY <2>2, Zenon
<1>3. ASSUME ~rst', ~open'
      PROVE  Readable(outq', r', left', owed', Told(~last'))
  <2>1. Readable(outq, r, left, owed, Told(~last))
    BY <1>3 DEF FrameInv, FrameOK
  <2>2. Readable(outq, r', left, owed, Told(~last))
    BY <1>1, <2>1, Zenon DEF Readable
  <2> QED BY <2>2, Zenon
<1> QED BY <1>2, <1>3, FrameNext

\* A connection that was just accepted.
LEMMA FreshInSync ==
  ASSUME NEW told, told = 0
  PROVE  InSync(<<>>, FreshRequest, <<>>, 0, 0, told, "line", 0)
<1>1. /\ FreshRequest.ob = <<>> /\ FreshRequest.buffer_sent = 0
      /\ FreshRequest.req_handler = "request_line"
  BY FreshTyped
<1>2. Len(<<>>) = 0
  OBVIOUS
<1>3. ComingLen(<<>>, FreshRequest) = 0
  BY <1>1 DEF ComingLen, FileUnits
<1>4. Final(FreshRequest) = 0
  BY <1>1 DEF Final
<1>5. CanRead(Coming(<<>>, FreshRequest), 0, 0, 0, 0, 0, 0, 0)
  BY ReadNothing
<1>6. "line" \in Phases /\ Begun("line", 0) = 0
  BY DEF Phases, Begun
<1>7. CanWrite(<<>>, 0, "line", 0, Begun("line", 0), "line", 0)
  BY <1>6, WroteNothing
<1>8. CanWrite(<<>>, Len(<<>>), "line", 0, 0, "line", 0)
  BY <1>2, <1>6, <1>7
<1>9. Balance(FreshRequest, 0, 0, "line", 0)
  BY <1>1 DEF Balance
<1>10. CanRead(Coming(<<>>, FreshRequest), ComingLen(<<>>, FreshRequest), 0, 0, told, 0, 0,
               Final(FreshRequest))
  BY <1>3, <1>4, <1>5
<1>11. 0 \in Nat
  OBVIOUS
<1> QED BY <1>6, <1>8, <1>9, <1>10, <1>11, Zenon DEF InSync

\* A request that was just reset.
LEMMA FreshFile == FileOK(FreshRequest) /\ ~FreshRequest.err_req
BY DEF FileOK, FreshRequest

\* A connection that was just accepted is in step.
LEMMA FrameInit == Framed /\ Init => FrameInv
<1> SUFFICES ASSUME Framed, Init PROVE FrameInv
  OBVIOUS
<1>1. /\ sending = "line" /\ bodyLeft = 0 /\ owed = 0 /\ left = 0 /\ last = FALSE
      /\ garbled = FALSE /\ inq = <<>> /\ rst = FALSE /\ outq = <<>> /\ events = {"IN"}
      /\ open = TRUE /\ r = FreshRequest /\ pc = "wait"
  BY DEF Init
<1>2. Input = <<>> /\ Told(~last) = 0
  BY <1>1, FreshTyped DEF Input, Told
<1>3. InSync(<<>>, FreshRequest, <<>>, 0, 0, Told(~last), "line", 0)
  BY <1>2, FreshInSync
<1>4. FrameOK
  BY <1>1, <1>2, <1>3, Zenon DEF FrameOK
<1>5. PlaceOK
  BY <1>1, FreshTyped DEF PlaceOK
<1> QED BY <1>1, <1>4, <1>5, FreshFile DEF FrameInv

\* The client sends one token more of a request; the first of one is a response
\* more that it is owed.
LEMMA FrameSends ==
  ASSUME ExchangeInv, FrameInv, NEW x \in Tokens, Sends(x),
         sending' \in Phases, bodyLeft' \in Nat, NEW g \in {0, 1},
         WriteStep(sending, bodyLeft, x, sending', bodyLeft', g),
         owed' = owed + (IF sending = "line" THEN 1 ELSE 0)
  PROVE  FrameInv'
<1>1. /\ inq' = Append(inq, x) /\ open /\ ~rst
      /\ UNCHANGED <<left, last, garbled, events, rst, outq, pc, open, age, r>>
  BY DEF Sends, Edge, MaySend
<1>2. Input' = Append(Input, x)
  <2>1. r.ib \o Append(inq, x) = Append(r.ib \o inq, x)
    BY FrameTypes, InputGrows
  <2> QED BY <1>1, <2>1, Zenon DEF Input
<1> DEFINE n == Len(Input)
           c == ComingLen(outq, r)
           S == Coming(outq, r)
<1>3. /\ n \in Nat /\ Len(Input') = n + 1 /\ Input'[n + 1] = x
      /\ \A i \in 1 .. n : Input'[i] = Input[i]
  BY <1>2, FrameTypes
<1>4. c \in Nat
  BY LenComing
<1>5. PICK o \in Nat, p \in Phases, b \in Nat, d \in Nat :
        /\ CanRead(S, c, left, owed, Told(~last), 0, o, Final(r))
        /\ CanWrite(Input, n, p, b, d, sending, bodyLeft)
        /\ Balance(r, o, d, p, b)
  BY <1>1, Zenon DEF FrameInv, FrameOK, InSync
<1> HIDE DEF n, c, S
<1> DEFINE m == NewRequest(sending)
<1>6. CanWrite(Input', n + 1, p, b, d + m, sending', bodyLeft')
  <2>0. Agree(Input, Input', n, 0)
    BY <1>3 DEF Agree
  <2>1. WriteStep(sending, bodyLeft, Input'[n + 1], sending', bodyLeft', g)
    BY <1>3
  <2>2. sending \in Phases /\ bodyLeft \in Nat
    BY FrameTypes
  <2> QED BY <1>3, <1>5, <2>0, <2>1, <2>2, WroteMore, Zenon
<1>7. CanRead(S, c, left, owed', Told(~last), 0, o + m, Final(r))
  <2>1. CASE sending = "line"
    <3>1. CanRead(S, c, left, owed + 1, Told(~last), 0, o + 1, Final(r))
      BY <1>4, <1>5, FrameTypes, ReadMore
    <3> QED BY <2>1, <3>1 DEF NewRequest
  <2>2. CASE sending # "line"
    <3>1. owed' = owed /\ o + m = o
      BY <2>2, FrameTypes DEF NewRequest
    <3> QED BY <1>5, <3>1
  <2> QED BY <2>1, <2>2
<1>8. m \in Nat /\ o + m \in Nat /\ d + m \in Nat
  BY DEF NewRequest
<1> HIDE DEF m
<1>9. Balance(r, o + m, d + m, p, b)
  BY <1>5, <1>8 DEF Balance
<1>10. InSync(outq, r, Input', left, owed', Told(~last), sending', bodyLeft')
  BY <1>3, <1>6, <1>7, <1>8, <1>9, Zenon DEF InSync, c, S
<1>11. InSync(outq', r', Input', left', owed', Told(~last'), sending', bodyLeft')
  BY <1>1, <1>10, Zenon
<1>12. FrameOK'
  BY <1>1, <1>11, FrameNext
<1>13. FileOK(r') /\ PlaceOK'
  BY <1>1, Zenon DEF FrameInv, PlaceOK, Closing
<1> QED BY <1>1, <1>12, <1>13, Zenon DEF FrameInv, Framed

\* The four ways to send a token.
LEMMA FrameClientSends ==
  ASSUME ExchangeInv, FrameInv,
         \/ \E t \in RequestLines : client_sends_line(t)
         \/ \E h \in Headers : client_sends_header(h)
         \/ client_sends_crlf
         \/ client_sends_body
  PROVE  FrameInv'
<1>0. bodyLeft \in Nat /\ owed \in Nat /\ (sending = "body" => bodyLeft > 0)
  BY FrameTypes DEF ExchangeInv, TypesOK, ClientOK
<1>1. ASSUME NEW t \in RequestLines, client_sends_line(t) PROVE FrameInv'
  <2>1. /\ Sends(t) /\ t \in Tokens /\ sending = "line" /\ sending' = "headers"
        /\ bodyLeft' = 0 /\ owed' = owed + 1
    BY <1>1, Constants DEF client_sends_line
  <2>2. WriteStep(sending, bodyLeft, t, sending', bodyLeft', 0)
    BY <2>1 DEF WriteStep
  <2> QED BY <2>1, <2>2, FrameSends DEF Phases
<1>2. ASSUME NEW h \in Headers, client_sends_header(h) PROVE FrameInv'
  <2>1. /\ Sends(h) /\ h \in Tokens /\ sending = "headers" /\ sending' = "headers"
        /\ owed' = owed
        /\ bodyLeft' = IF h \in {"clen", "clenwrap"} THEN MeantLen(h) ELSE bodyLeft
    BY <1>2, Constants DEF client_sends_header
  <2>2. bodyLeft' = IF h = "clen" THEN BodyLen ELSE bodyLeft
    BY <2>1 DEF FrameInv, Framed, MeantLen
  <2>3. WriteStep(sending, bodyLeft, h, sending', bodyLeft', 0) /\ bodyLeft' \in Nat
    BY <1>0, <2>1, <2>2, Constants DEF WriteStep
  <2>4. owed' = owed + (IF sending = "line" THEN 1 ELSE 0)
    BY <1>0, <2>1
  <2> QED BY <2>1, <2>3, <2>4, FrameSends DEF Phases
<1>3. CASE client_sends_crlf
  <2>1. /\ Sends("crlf") /\ "crlf" \in Tokens /\ sending = "headers" /\ owed' = owed
        /\ sending' = (IF bodyLeft > 0 THEN "body" ELSE "line") /\ bodyLeft' = bodyLeft
    BY <1>3 DEF client_sends_crlf, Tokens
  <2>2. \E g \in {0, 1} : WriteStep(sending, bodyLeft, "crlf", sending', bodyLeft', g)
    BY <1>0, <2>1 DEF WriteStep
  <2>3. sending' \in Phases /\ bodyLeft' \in Nat
    BY <1>0, <2>1 DEF Phases
  <2>4. owed' = owed + (IF sending = "line" THEN 1 ELSE 0)
    BY <1>0, <2>1
  <2> QED BY <2>1, <2>2, <2>3, <2>4, FrameSends
<1>4. CASE client_sends_body
  <2>1. /\ Sends("body") /\ "body" \in Tokens /\ sending = "body" /\ owed' = owed
        /\ sending' = (IF bodyLeft = 1 THEN "line" ELSE "body") /\ bodyLeft' = bodyLeft - 1
    BY <1>4 DEF client_sends_body, Tokens
  <2>2. \E g \in {0, 1} : WriteStep(sending, bodyLeft, "body", sending', bodyLeft', g)
    BY <1>0, <2>1 DEF WriteStep
  <2>3. sending' \in Phases /\ bodyLeft' \in Nat
    BY <1>0, <2>1 DEF Phases
  <2>4. owed' = owed + (IF sending = "line" THEN 1 ELSE 0)
    BY <1>0, <2>1
  <2> QED BY <2>1, <2>2, <2>3, <2>4, FrameSends
<1> QED BY <1>1, <1>2, <1>3, <1>4

\* The client takes the next unit: it is the one that it expects.
LEMMA FrameReads ==
  ASSUME ExchangeInv, FrameInv, client_reads
  PROVE  FrameInv'
<1> DEFINE u == Head(outq)
           S == Coming(outq, r)
           T == Coming(outq', r)
           n == ComingLen(outq, r)
<1>1. /\ outq # <<>> /\ outq' = Tail(outq)
      /\ UNCHANGED <<sending, bodyLeft, inq, rst, pc, open, age, r, events>>
  BY DEF client_reads, Edge
<1>2. LET inBody == left > 0 /\ u.kind = "body"
          starts == left = 0 /\ u.kind = "head" /\ owed > 0 /\ ~last
      IN /\ left' = IF inBody THEN left - 1 ELSE IF starts THEN u.len ELSE left
         /\ owed' = IF starts THEN owed - 1 ELSE owed
         /\ last' = IF starts THEN ~u.keep ELSE last
         /\ garbled' = (garbled \/ ~(inBody \/ starts))
  BY DEF client_reads
<1>3. ~rst /\ garbled = FALSE /\ Input' = Input
  BY <1>1, FrameTypes DEF FrameInv, Input
<1>4. /\ outq \in Seq(AllUnits) /\ Len(outq) \in Nat /\ Len(outq) > 0
      /\ Len(outq') = Len(outq) - 1 /\ u = outq[1] /\ u \in AllUnits
      /\ \A i \in 1 .. Len(outq) - 1 : outq'[i] = outq[i + 1]
  <2>1. outq \in Seq(AllUnits)
    BY FrameTypes
  <2> QED BY <1>1, <2>1
<1>5. u.keep \in BOOLEAN /\ u.kind \in {"head", "body"}
  BY <1>4, UnitsTyped
<1>6. /\ n \in Nat /\ n >= Len(outq) /\ n > 0 /\ ComingLen(outq', r) = n - 1
  <2>1. n \in Nat /\ n >= Len(outq)
    BY LenComing
  <2>2. ComingLen(outq', r) = n - 1
    <3>1. FileUnits(r) \in Nat /\ r.buffer_sent \in Nat /\ Len(r.ob) \in Nat
      BY LenComing, FrameTypes
    <3>2. Len(outq') + (Len(r.ob) - r.buffer_sent) + FileUnits(r)
            = (Len(outq) + (Len(r.ob) - r.buffer_sent) + FileUnits(r)) - 1
      BY <1>4, <3>1
    <3> QED BY <3>2, Zenon DEF ComingLen
  <2> QED BY <1>4, <2>1, <2>2
<1>7. Agree(S, T, n - 1, 1) /\ S[1] = u
  <2> DEFINE c == Len(outq)
             k == r.buffer_sent
             b == Len(r.ob) - k
  <2>1. c \in Nat /\ c > 0 /\ k \in Nat /\ b \in Nat /\ Len(outq') = c - 1
    BY <1>4, FrameTypes
  <2>2. \A i \in Nat : S[i] = IF i =< c THEN outq[i]
                              ELSE IF i =< c + b THEN r.ob[i - c + k] ELSE BodyUnit
    BY DEF Coming
  <2>3. \A i \in Nat : T[i] = IF i =< c - 1 THEN outq'[i]
                              ELSE IF i =< (c - 1) + b THEN r.ob[i - (c - 1) + k] ELSE BodyUnit
    BY <2>1 DEF Coming
  <2>4. \A i \in 1 .. c - 1 : outq'[i] = outq[i + 1]
    BY <1>4
  <2> HIDE DEF c, k, b, S, T, n
  <2>5. S[1] = u
    BY <1>4, <2>1, <2>2
  <2>6. ASSUME NEW i \in Nat, i >= 1 PROVE T[i] = S[i + 1]
    <3>1. CASE i =< c - 1
      <4>1. T[i] = outq'[i] /\ i \in 1 .. c - 1 /\ i + 1 \in Nat /\ i + 1 =< c
        BY <2>1, <2>3, <2>6, <3>1
      <4>2. S[i + 1] = outq[i + 1]
        BY <2>2, <4>1, Zenon
      <4> QED BY <2>4, <4>1, <4>2
    <3>2. CASE ~(i =< c - 1) /\ i =< (c - 1) + b
      <4>1. /\ i + 1 \in Nat /\ ~(i + 1 =< c) /\ i + 1 =< c + b
            /\ (i + 1) - c + k = i - (c - 1) + k
        BY <2>1, <3>2
      <4>2. S[i + 1] = r.ob[(i + 1) - c + k] /\ T[i] = r.ob[i - (c - 1) + k]
        BY <2>2, <2>3, <3>2, <4>1, Zenon
      <4> QED BY <4>1, <4>2, Zenon
    <3>3. CASE ~(i =< c - 1) /\ ~(i =< (c - 1) + b)
      <4>1. i + 1 \in Nat /\ ~(i + 1 =< c) /\ ~(i + 1 =< c + b)
        BY <2>1, <3>3
      <4>2. S[i + 1] = BodyUnit /\ T[i] = BodyUnit
        BY <2>2, <2>3, <3>3, <4>1, Zenon
      <4> QED BY <4>2
    <3> QED BY <3>1, <3>2, <3>3, Zenon
  <2>7. \A i \in 1 .. n - 1 : i \in Nat /\ i >= 1
    BY <1>6
  <2> QED BY <2>5, <2>6, <2>7, Zenon DEF Agree
<1> HIDE DEF S, T, n
<1>8. ASSUME NEW l2, NEW o2, NEW e2, CanRead(S, n, left, owed, Told(~last), l2, o2, e2)
      PROVE  ~garbled' /\ CanRead(T, n - 1, left', owed', Told(~last'), l2, o2, e2)
  <2>1. PICK l1 \in Nat, o1 \in Nat, e1 \in Nat :
          /\ ReadStep(left, owed, Told(~last), S[1], l1, o1, e1)
          /\ CanRead(T, n - 1, l1, o1, e1, l2, o2, e2)
    BY <1>6, <1>7, <1>8, ReadOne, Zenon
  <2>2. ReadStep(left, owed, Told(~last), u, l1, o1, e1)
    BY <1>7, <2>1
  <2>3. ~garbled' /\ left' = l1 /\ owed' = o1 /\ Told(~last') = e1
    <3>1. left \in Nat /\ owed \in Nat /\ last \in BOOLEAN
      BY FrameTypes
    <3>2. CASE left > 0 /\ u.kind = "body" /\ l1 = left - 1 /\ o1 = owed /\ e1 = Told(~last)
      BY <1>2, <1>3, <3>1, <3>2
    <3>3. CASE /\ left = 0 /\ u.kind = "head" /\ owed > 0 /\ Told(~last) = 0
               /\ l1 = u.len /\ o1 = owed - 1 /\ e1 = Told(u.keep)
      <4>1. ~last
        BY <3>3 DEF Told
      <4>2. left' = u.len /\ owed' = owed - 1 /\ last' = ~u.keep /\ ~garbled'
        BY <1>2, <1>3, <3>3, <4>1
      <4>3. Told(~last') = Told(u.keep)
        BY <1>5, <4>2 DEF Told
      <4> QED BY <3>3, <4>2, <4>3
    <3> QED BY <2>2, <3>2, <3>3 DEF ReadStep
  <2> QED BY <2>1, <2>3
<1>9. ASSUME open PROVE FrameOK' /\ ~garbled'
  <2>1. PICK o \in Nat, p \in Phases, b \in Nat, d \in Nat :
          /\ CanRead(S, n, left, owed, Told(~last), 0, o, Final(r))
          /\ CanWrite(Input, Len(Input), p, b, d, sending, bodyLeft)
          /\ Balance(r, o, d, p, b)
    BY <1>3, <1>9, Zenon DEF FrameInv, FrameOK, InSync, S, n
  <2>2. ~garbled' /\ CanRead(T, n - 1, left', owed', Told(~last'), 0, o, Final(r))
    BY <1>8, <2>1
  <2>3. InSync(outq', r, Input, left', owed', Told(~last'), sending, bodyLeft)
    BY <1>6, <2>1, <2>2, Zenon DEF InSync, T
  <2>4. InSync(outq', r', Input', left', owed', Told(~last'), sending', bodyLeft')
    BY <1>1, <1>3, <2>3, Zenon
  <2> QED BY <1>1, <1>9, <2>2, <2>4, FrameNext
<1>10. ASSUME ~open PROVE FrameOK' /\ ~garbled'
  <2>1. PICK l \in Nat, o \in Nat, e \in Nat : CanRead(S, n, left, owed, Told(~last), l, o, e)
    BY <1>3, <1>10, Zenon DEF FrameInv, FrameOK, Readable, S, n
  <2>2. ~garbled' /\ CanRead(T, n - 1, left', owed', Told(~last'), l, o, e)
    BY <1>8, <2>1
  <2>3. Readable(outq', r, left', owed', Told(~last'))
    BY <1>6, <2>2, Zenon DEF Readable, T
  <2>4. Readable(outq', r', left', owed', Told(~last'))
    BY <1>1, <2>3, Zenon
  <2> QED BY <1>1, <1>10, <2>2, <2>4, FrameNext
<1>11. FrameOK' /\ ~garbled'
  BY <1>9, <1>10
<1>12. FileOK(r') /\ PlaceOK'
  BY <1>1, Zenon DEF FrameInv, PlaceOK, Closing
<1> QED BY <1>1, <1>3, <1>11, <1>12, Zenon DEF FrameInv, Framed

\* What the client does keeps the invariant.
LEMMA FrameClient ==
  ASSUME ExchangeInv, FrameInv, ClientNext
  PROVE  FrameInv'
<1>1. CASE client_shuts_down
  <2>1. UNCHANGED <<sending, bodyLeft, owed, left, last, garbled, inq, rst, outq, open, r,
                    pc, age, events>>
    BY <1>1 DEF client_shuts_down, clientVars, Edge
  <2>2. Input' = Input /\ SameFrame(r, r')
    BY <2>1, Zenon DEF Input, SameFrame
  <2>3. FrameOK'
    BY <2>1, <2>2, FrameSame
  <2>4. FileOK(r') /\ PlaceOK'
    BY <2>1, Zenon DEF FrameInv, PlaceOK, Closing
  <2> QED BY <2>1, <2>3, <2>4, Zenon DEF FrameInv, Framed
<1>2. CASE client_resets
  <2>1. /\ rst' = TRUE /\ outq' = <<>> /\ UNCHANGED <<garbled, r, pc, age, events>>
    BY <1>2 DEF client_resets, clientVars
  <2>2. FrameOK'
    BY <2>1, FrameNext
  <2>3. FileOK(r') /\ PlaceOK'
    BY <2>1, Zenon DEF FrameInv, PlaceOK, Closing
  <2> QED BY <2>1, <2>2, <2>3, Zenon DEF FrameInv, Framed
<1>3. CASE client_reconnects
  <2>1. /\ sending' = "line" /\ bodyLeft' = 0 /\ owed' = 0 /\ left' = 0 /\ last' = FALSE
        /\ garbled' = FALSE /\ inq' = <<>> /\ rst' = FALSE /\ outq' = <<>> /\ events' = {"IN"}
        /\ open' = TRUE /\ r' = FreshRequest /\ pc' = "wait"
    BY <1>3 DEF client_reconnects
  <2>2. Input' = <<>> /\ Told(~last') = 0
    BY <2>1, FreshTyped DEF Input, Told
  <2>3. InSync(<<>>, FreshRequest, <<>>, 0, 0, Told(~last'), "line", 0)
    BY <2>2, FreshInSync
  <2>4. InSync(outq', r', Input', left', owed', Told(~last'), sending', bodyLeft')
    BY <2>1, <2>2, <2>3, Zenon
  <2>5. FrameOK'
    BY <2>1, <2>4, FrameNext
  <2>6. PlaceOK' /\ FileOK(r')
    BY <2>1, FreshTyped, FreshFile DEF PlaceOK
  <2> QED BY <2>1, <2>5, <2>6, Zenon DEF FrameInv, Framed
<1> QED BY <1>1, <1>2, <1>3, FrameReads, FrameClientSends DEF ClientNext

\* Steps of the event loop that touch neither the request nor the socket.
LEMMA FrameLoop ==
  ASSUME ExchangeInv, FrameInv,
         \/ lotos_epoll_wait \/ dispatch \/ request_handle_headers \/ time_passes
         \/ connection_prune /\ age = "young"
         \/ UNCHANGED vars
  PROVE  FrameInv'
<1>1. UNCHANGED <<sending, bodyLeft, owed, left, last, garbled, inq, rst, outq, open, r, events>>
  <2>1. CASE connection_prune /\ age = "young"
    <3>1. UNCHANGED <<events, r>> /\ open' = TRUE /\ open
      BY <2>1, FrameTypes DEF connection_prune, TimeIsUp, LoopOK
    <3> QED BY <2>1, <3>1, FrameTypes DEF connection_prune, clientVars, socketVars, LoopOK
  <2>2. CASE \/ lotos_epoll_wait \/ dispatch \/ request_handle_headers \/ time_passes
             \/ UNCHANGED vars
    BY <2>2 DEF lotos_epoll_wait, dispatch, request_handle_headers, time_passes, reqUnchanged,
                clientVars, socketVars, epollVars, vars
  <2> QED BY <2>1, <2>2
<1>2. Input' = Input /\ SameFrame(r, r')
  BY <1>1, Zenon DEF Input, SameFrame
<1>3. FrameOK'
  BY <1>1, <1>2, FrameSame
<1>4. pc' = "headers" => r.req_handler = "headers"
  BY DEF lotos_epoll_wait, dispatch, request_handle_headers, time_passes, connection_prune,
         vars, FrameInv, PlaceOK
<1>5. Closing => Closing'
  BY DEF lotos_epoll_wait, dispatch, request_handle_headers, time_passes, connection_prune,
         vars, Closing
<1>6. FileOK(r') /\ PlaceOK'
  BY <1>1, <1>4, <1>5, Zenon DEF FrameInv, PlaceOK
<1> QED BY <1>1, <1>3, <1>6, Zenon DEF FrameInv, Framed

\* What is left in the buffer of a connection that is closed is not sent.
LEMMA FrameCloses ==
  ASSUME ExchangeInv, FrameInv, connection_prune, age # "young"
  PROVE  FrameInv'
<1>1. /\ UNCHANGED <<owed, left, last, garbled, rst, outq>> /\ pc' = "wait" /\ open' = FALSE
      /\ events' = {} /\ r' = FreshRequest /\ open
  BY FrameTypes DEF connection_prune, TimeIsUp, clientVars, socketVars, LoopOK
<1> DEFINE S == Coming(outq, r)
           T == Coming(outq, FreshRequest)
           n == ComingLen(outq, r)
           m == Len(outq)
<1>2. n \in Nat /\ m \in Nat /\ m =< n /\ ComingLen(outq, FreshRequest) = m
  <2>1. /\ Len(FreshRequest.ob) = 0 /\ FreshRequest.buffer_sent = 0
        /\ FreshRequest.req_handler = "request_line"
    BY FreshTyped
  <2> QED BY <2>1, LenComing, FrameTypes DEF ComingLen, FileUnits
<1>3. Agree(S, T, m, 0)
  <2>1. \A i \in Nat : i =< m => S[i] = outq[i] /\ T[i] = outq[i]
    BY DEF Coming
  <2>2. \A i \in 1 .. m : i \in Nat /\ i =< m /\ i + 0 = i
    BY <1>2
  <2> HIDE DEF S, T, m
  <2> QED BY <2>1, <2>2 DEF Agree
<1>4. ~rst => \E l \in Nat, o \in Nat, e \in Nat : CanRead(S, n, left, owed, Told(~last), l, o, e)
  <2>1. Final(r) \in Nat /\ 0 \in Nat
    BY DEF Final
  <2> QED BY <1>1, <2>1, Zenon DEF FrameInv, FrameOK, InSync
<1>5. ~rst => Readable(outq, FreshRequest, left, owed, Told(~last))
  <2> HIDE DEF S, T, n, m
  <2>1. ~rst => \E l \in Nat, o \in Nat, e \in Nat :
                  CanRead(T, m, left, owed, Told(~last), l, o, e)
    BY <1>2, <1>3, <1>4, ReadPart, Zenon
  <2> QED BY <1>2, <2>1, Zenon DEF Readable, T
<1>6. ~rst' => Readable(outq', r', left', owed', Told(~last'))
  BY <1>1, <1>5, Zenon
<1>7. FrameOK'
  BY <1>1, <1>6, FrameNext
<1>8. PlaceOK' /\ FileOK(r')
  BY <1>1, FreshTyped, FreshFile DEF PlaceOK
<1> QED BY <1>1, <1>7, <1>8, Zenon DEF FrameInv, Framed

\* request_recv moves input from the socket to the buffer.
LEMMA FrameRecv ==
  ASSUME ExchangeInv, FrameInv, request_recv
  PROVE  FrameInv'
<1>1. /\ pc = "recv" /\ inq' = <<>> /\ r' = [r EXCEPT !.ib = r.ib \o inq]
      /\ UNCHANGED <<sending, bodyLeft, owed, left, last, garbled, rst, outq, open, events>>
  BY DEF request_recv, clientVars, epollVars
<1> DEFINE v == r.ib \o inq
<1>2. v \in Seq(Tokens) /\ r' = [r EXCEPT !.ib = v]
  BY <1>1, FrameTypes
<1> HIDE DEF v
<1>3. /\ r'.ib = v /\ r'.req_handler = r.req_handler /\ r'.resource_fd = r.resource_fd
      /\ r'.transfer_encoding = r.transfer_encoding /\ r'.response_done = r.response_done
      /\ r'.ob = r.ob /\ r'.buffer_sent = r.buffer_sent /\ r'.err_req = r.err_req
      /\ r'.file_left = r.file_left /\ r'.keep_alive = r.keep_alive
      /\ r'.content_length = r.content_length /\ r'.body_received = r.body_received
      /\ r'.resource_size = r.resource_size /\ r'.res_handler = r.res_handler
  BY <1>2, FrameTypes, Zenon DEF Request
<1>4. Input' = Input
  <2>1. v \o <<>> = v
    BY <1>2
  <2> QED BY <1>1, <1>3, <2>1 DEF Input, v
<1>5. SameFrame(r, r')
  BY <1>3, Zenon DEF SameFrame
<1>6. FrameOK'
  BY <1>1, <1>4, <1>5, FrameSame
<1>7. FileOK(r')
  BY <1>3, Zenon DEF FrameInv, FileOK
<1>8. PlaceOK'
  <2>1. pc' # "headers"
    BY <1>1 DEF request_recv, Handled
  <2>2. ~Closing
    BY <1>1 DEF Closing
  <2> QED BY <1>1, <1>3, <2>1, <2>2 DEF FrameInv, PlaceOK
<1> QED BY <1>1, <1>6, <1>7, <1>8, Zenon DEF FrameInv, Framed

\* Where a request is received, nothing of its response is there.
LEMMA FrameReceiving ==
  ASSUME ExchangeInv, FrameInv, pc \in {"req", "headers"}
  PROVE  /\ r \in Request /\ LoopOK /\ open /\ events = {"IN"}
         /\ r.ib \in Seq(Tokens) /\ inq \in Seq(Tokens)
         /\ r.req_handler # "null" /\ r.res_handler = "send_buffer"
         /\ r.err_req = FALSE /\ r.response_done = FALSE /\ r.transfer_encoding = "identity"
         /\ r.ob = <<>> /\ r.buffer_sent = 0 /\ FileOK(r)
         /\ Final(r) = 0 /\ ComingLen(outq, r) = Len(outq) /\ Len(outq) \in Nat
<1>1. /\ r \in Request /\ LoopOK /\ r.ib \in Seq(Tokens) /\ inq \in Seq(Tokens)
      /\ Len(outq) \in Nat
  BY FrameTypes
<1>2. open /\ events \in {{"IN"}, {"OUT"}} /\ r.res_handler = "send_buffer"
      /\ (events = {"IN"} => ~r.response_done /\ ~r.err_req)
  BY <1>1, BusyIsOpen, ReceivingFacts
<1>3. r.req_handler # "null"
  BY DEF ExchangeInv, InterestOK, FrameInv, PlaceOK
<1>4. events = {"IN"}
  BY <1>2, <1>3 DEF FrameInv, PlaceOK
<1>5. r.err_req = FALSE /\ r.response_done = FALSE
  BY <1>1, <1>2, <1>4 DEF Request
<1>6. r.ob = <<>> /\ r.buffer_sent = 0 /\ FileOK(r) /\ r.transfer_encoding = "identity"
  BY <1>3 DEF FrameInv, FileOK
<1>7. Final(r) = 0 /\ ComingLen(outq, r) = Len(outq)
  BY <1>1, <1>3, <1>6 DEF Final, ComingLen, FileUnits
<1> QED BY <1>1, <1>2, <1>3, <1>4, <1>5, <1>6, <1>7

\* A handler of request_handle that leaves client and request in step.
LEMMA FrameRequestStep ==
  ASSUME ExchangeInv, FrameInv, pc \in {"req", "headers"}, UNCHANGED reqUnchanged,
         FileOK(r'), r'.res_handler = "send_buffer",
         pc' = "headers" => r'.req_handler = "headers",
         UNCHANGED epollVars \/ r'.req_handler = "null",
         ~rst => InSync(outq, r', Input', left, owed, Told(~last), sending, bodyLeft)
  PROVE  FrameInv'
<1>1. UNCHANGED <<sending, bodyLeft, owed, left, last, garbled, rst, outq, open>>
  BY DEF reqUnchanged, clientVars, socketVars
<1>2. ~rst' => InSync(outq', r', Input', left', owed', Told(~last'), sending', bodyLeft')
  BY <1>1, Zenon
<1>3. open
  BY FrameReceiving
<1>4. FrameOK'
  BY <1>1, <1>2, <1>3, FrameNext
<1>5. PlaceOK'
  <2>1. events' = {"OUT"} => r'.req_handler = "null"
    BY FrameReceiving DEF epollVars
  <2> QED BY <2>1 DEF PlaceOK
<1> QED BY <1>1, <1>4, <1>5, Zenon DEF FrameInv, Framed

\* One that has put nothing into the buffer.
LEMMA FrameAwaits ==
  ASSUME ExchangeInv, FrameInv, pc \in {"req", "headers"},
         NEW z, z.ob = r.ob, z.buffer_sent = r.buffer_sent, z.req_handler # "null",
         NEW I, NEW o \in Nat, NEW p \in Phases, NEW b \in Nat, NEW d \in Nat,
         CanRead(Coming(outq, r), ComingLen(outq, r), left, owed, Told(~last), 0, o, Final(r)),
         CanWrite(I, Len(I), p, b, d, sending, bodyLeft),
         Balance(z, o, d, p, b)
  PROVE  InSync(outq, z, I, left, owed, Told(~last), sending, bodyLeft)
<1>1. r.req_handler # "null"
  BY FrameReceiving
<1>2. Coming(outq, z) = Coming(outq, r)
  BY Zenon DEF Coming
<1>3. FileUnits(z) = FileUnits(r) /\ Final(z) = Final(r)
  BY <1>1 DEF FileUnits, Final
<1>4. ComingLen(outq, z) = ComingLen(outq, r)
  BY <1>3, Zenon DEF ComingLen
<1> QED BY <1>2, <1>3, <1>4, Zenon DEF InSync

\* One that has put a response into it.
LEMMA FrameAnswers ==
  ASSUME ExchangeInv, FrameInv, pc \in {"req", "headers"},
         NEW z, NEW n \in Nat, NEW k \in BOOLEAN,
         z.buffer_sent = 0, Len(z.ob) \in Nat, Len(z.ob) > 0, z.ob[1] = HeadUnit(n, k),
         BodyFrom(z.ob, 2, Len(z.ob)), FileUnits(z) \in Nat, Len(z.ob) + FileUnits(z) = 1 + n,
         Final(z) = Told(k),
         NEW o \in Nat, o > 0,
         CanRead(Coming(outq, r), ComingLen(outq, r), left, owed, Told(~last), 0, o, Final(r))
  PROVE  CanRead(Coming(outq, z), ComingLen(outq, z), left, owed, Told(~last), 0, o - 1, Final(z))
<1> DEFINE m == Len(outq)
           S == Coming(outq, r)
           T == Coming(outq, z)
           w == Len(z.ob)
<1>1. m \in Nat /\ Final(r) = 0 /\ ComingLen(outq, r) = m
  BY FrameReceiving
<1>2. ComingLen(outq, z) = m + 1 + n
  <2>1. ComingLen(outq, z) = m + (w - 0) + FileUnits(z)
    BY DEF ComingLen
  <2> HIDE DEF m
  <2> QED BY <1>1, <2>1
<1>3. \A i \in Nat : i =< m => S[i] = outq[i] /\ T[i] = outq[i]
  BY DEF Coming
<1>4. \A i \in Nat : i > m => T[i] = IF i =< m + (w - 0) THEN z.ob[i - m + 0] ELSE BodyUnit
  BY <1>1 DEF Coming
<1> HIDE DEF m, S, T, w
<1>5. Agree(S, T, m, 0)
  <2>1. \A i \in 1 .. m : i \in Nat /\ i =< m /\ i + 0 = i
    BY <1>1
  <2> QED BY <1>3, <2>1 DEF Agree
<1>6. T[m + 1] = HeadUnit(n, k)
  <2>1. m + 1 \in Nat /\ m + 1 > m /\ m + 1 =< m + (w - 0) /\ (m + 1) - m + 0 = 1
    BY <1>1 DEF w
  <2>2. T[m + 1] = z.ob[(m + 1) - m + 0]
    BY <1>4, <2>1, Zenon
  <2> QED BY <2>1, <2>2, Zenon
<1>7. BodyFrom(T, m + 2, m + 1 + n)
  <2> SUFFICES ASSUME NEW i \in m + 2 .. m + 1 + n PROVE T[i] = BodyUnit
    BY DEF BodyFrom
  <2>1. i \in Nat /\ i > m
    BY <1>1
  <2>2. CASE i =< m + (w - 0)
    <3>1. i - m + 0 \in 2 .. w
      BY <1>1, <2>1, <2>2 DEF w
    <3>2. T[i] = z.ob[i - m + 0]
      BY <1>4, <2>1, <2>2, Zenon
    <3>3. z.ob[i - m + 0] = BodyUnit
      BY <3>1, Zenon DEF BodyFrom, w
    <3> QED BY <3>2, <3>3, Zenon
  <2>3. CASE ~(i =< m + (w - 0))
    BY <1>4, <2>1, <2>3, Zenon
  <2> QED BY <2>2, <2>3
<1>8. CanRead(S, m, left, owed, Told(~last), 0, o, 0)
  BY <1>1, Zenon DEF S
<1>9. CanRead(T, m + 1 + n, left, owed, Told(~last), 0, o - 1, Told(k))
  BY <1>1, <1>5, <1>6, <1>7, <1>8, ReadResponse, Zenon
<1> QED BY <1>2, <1>9, Zenon DEF T

\* A token has been taken from the buffer.
LEMMA FrameTaken ==
  ASSUME ExchangeInv, r.ib # <<>>, r'.ib = Tail(r.ib), inq' = inq
  PROVE  /\ Len(Input) \in Nat /\ Len(Input) > 0 /\ Input[1] = Head(r.ib)
         /\ Len(Input') = Len(Input) - 1 /\ Agree(Input, Input', Len(Input) - 1, 1)
<1>1. r.ib \in Seq(Tokens) /\ inq \in Seq(Tokens) /\ Input \in Seq(Tokens)
  BY InputFacts
<1>2. Input # <<>> /\ Input[1] = Head(r.ib) /\ Input' = Tail(Input)
  <2>1. /\ r.ib \o inq # <<>> /\ (r.ib \o inq)[1] = Head(r.ib)
        /\ Tail(r.ib) \o inq = Tail(r.ib \o inq)
    BY <1>1, InputShrinks
  <2> QED BY <2>1, Zenon DEF Input
<1>3. \A s \in Seq(Tokens) : s # <<>> =>
        /\ Len(s) \in Nat /\ Len(s) > 0 /\ Len(Tail(s)) = Len(s) - 1
        /\ \A i \in 1 .. Len(s) - 1 : Tail(s)[i] = s[i + 1]
  OBVIOUS
<1>4. /\ Len(Input) \in Nat /\ Len(Input) > 0 /\ Len(Input') = Len(Input) - 1
      /\ \A i \in 1 .. Len(Input) - 1 : Input'[i] = Input[i + 1]
  BY <1>1, <1>2, <1>3, Zenon
<1> QED BY <1>2, <1>4, Zenon DEF Agree

\* The counts that the handler of a token starts from: nothing is answered that
\* was not asked, and the client sent the token where its own request is.
LEMMA FrameNextToken ==
  ASSUME ExchangeInv, FrameInv, ~rst, pc \in {"req", "headers"},
         r.ib # <<>>, r'.ib = Tail(r.ib), inq' = inq
  PROVE  \E o \in Nat, p \in Phases, b \in Nat, d \in Nat, p1 \in Phases, b1 \in Nat, g \in {0, 1} :
           /\ CanRead(Coming(outq, r), ComingLen(outq, r), left, owed, Told(~last), 0, o, Final(r))
           /\ Balance(r, o, d, p, b) /\ d > 0 /\ o >= d /\ d - g \in Nat
           /\ WriteStep(p, b, Head(r.ib), p1, b1, g)
           /\ CanWrite(Input', Len(Input'), p1, b1, d - g, sending, bodyLeft)
<1>1. PICK o \in Nat, p \in Phases, b \in Nat, d \in Nat :
        /\ CanRead(Coming(outq, r), ComingLen(outq, r), left, owed, Told(~last), 0, o, Final(r))
        /\ CanWrite(Input, Len(Input), p, b, d, sending, bodyLeft)
        /\ Balance(r, o, d, p, b)
  BY FrameReceiving, Zenon DEF FrameInv, FrameOK, InSync
<1>2. o >= d
  BY <1>1, FrameReceiving DEF Balance
<1>3. /\ Len(Input) \in Nat /\ Len(Input) > 0 /\ Input[1] = Head(r.ib)
      /\ Len(Input') = Len(Input) - 1 /\ Agree(Input, Input', Len(Input) - 1, 1)
  BY FrameTaken
<1>4. /\ d > 0
      /\ \E p1 \in Phases, b1 \in Nat, g \in {0, 1} :
           /\ WriteStep(p, b, Input[1], p1, b1, g)
           /\ CanWrite(Input', Len(Input) - 1, p1, b1, d - g, sending, bodyLeft)
           /\ d - g \in Nat
  BY <1>1, <1>3, WroteOne, Zenon
<1>5. PICK p1 \in Phases, b1 \in Nat, g \in {0, 1} :
           /\ WriteStep(p, b, Input[1], p1, b1, g)
           /\ CanWrite(Input', Len(Input) - 1, p1, b1, d - g, sending, bodyLeft)
           /\ d - g \in Nat
  BY <1>4, Zenon
<1>6. /\ WriteStep(p, b, Head(r.ib), p1, b1, g)
      /\ CanWrite(Input', Len(Input'), p1, b1, d - g, sending, bodyLeft)
  BY <1>3, <1>5, Zenon
<1> QED BY <1>1, <1>2, <1>4, <1>5, <1>6, Zenon

-----------------------------------------------------------------------------
(***************************************************************************)
(* The handlers of a request.                                              *)
(***************************************************************************)

\* What a client sends.  Unlike the rest of the invariant, this is so whether or
\* not the client has reset the connection.
Sent == RequestLines \cup Headers \cup {"crlf", "body"}
SentOK == r.ib \in Seq(Sent) /\ inq \in Seq(Sent)

\* A handler finds in the buffer what the client sends.
LEMMA SentTaken ==
  ASSUME SentOK, r.ib # <<>>
  PROVE  Head(r.ib) \in Sent /\ Tail(r.ib) \in Seq(Sent)
BY DEF SentOK

\* The error response leaves the rest of the input alone.
LEMMA SentErr ==
  ASSUME NEW q \in Request
  PROVE  assemble_err(q).ib = q.ib
BY Zenon DEF Request, assemble_err

\* So do the handlers of the headers.
LEMMA SentHeader ==
  ASSUME NEW q \in Request, NEW h, NEW z, z = handle_header(q, h)
  PROVE  z.ib = q.ib
<1> DEFINE c == [q EXCEPT !.transfer_encoding = "chunked"]
<1>1. \/ z = q \/ z = assemble_err(q) \/ z = assemble_err(c)
      \/ z = [q EXCEPT !.keep_alive = TRUE] \/ z = [q EXCEPT !.keep_alive = FALSE]
      \/ z = [q EXCEPT !.content_length = atoi(h)]
  BY DEF handle_header
<1>2. c \in Request /\ c.ib = q.ib
  BY Zenon DEF Request
<1> HIDE DEF c
<1>3. CASE z = [q EXCEPT !.keep_alive = TRUE] \/ z = [q EXCEPT !.keep_alive = FALSE]
           \/ z = [q EXCEPT !.content_length = atoi(h)]
  BY <1>3, Zenon DEF Request
<1>4. CASE z = q \/ z = assemble_err(q) \/ z = assemble_err(c)
  BY <1>2, <1>4, SentErr
<1> QED BY <1>1, <1>3, <1>4

\* No step puts anything else into the input.
LEMMA SentStep == ExchangeInv /\ SentOK /\ [Next]_vars => SentOK'
<1> SUFFICES ASSUME ExchangeInv, SentOK, [Next]_vars PROVE SentOK'
  OBVIOUS
<1> /\ r \in Request /\ r.ib \in Seq(Sent) /\ inq \in Seq(Sent)
    /\ <<>> \in Seq(Sent) /\ FreshRequest.ib = <<>>
  BY FrameTypes, FreshTyped DEF SentOK
<1>1. CASE UNCHANGED <<r, inq>>
  BY <1>1 DEF SentOK
<1>2. ASSUME NEW x \in Sent, Sends(x) PROVE SentOK'
  <2>1. r' = r /\ inq' = Append(inq, x)
    BY <1>2 DEF Sends
  <2> QED BY <1>2, <2>1 DEF SentOK
<1>3. CASE ClientNext
  <2>1. CASE client_reads \/ client_shuts_down
    BY <1>1, <2>1 DEF client_reads, client_shuts_down
  <2>2. CASE client_resets \/ client_reconnects
    BY <2>2 DEF client_resets, client_reconnects, SentOK
  <2>3. CASE (\E t \in RequestLines : client_sends_line(t)) \/ client_sends_crlf
    BY <1>2, <2>3 DEF client_sends_line, client_sends_crlf, Sent
  <2>4. CASE (\E h \in Headers : client_sends_header(h)) \/ client_sends_body
    BY <1>2, <2>4 DEF client_sends_header, client_sends_body, Sent
  <2> QED BY <1>3, <2>1, <2>2, <2>3, <2>4 DEF ClientNext
<1>4. CASE WorkerNext
  <2> DEFINE q == [r EXCEPT !.ib = Tail(@)]
  <2>1. ASSUME r'.ib \in {r.ib, <<>>} \/ (r.ib # <<>> /\ r'.ib = q.ib), inq' = inq
        PROVE  SentOK'
    <3>1. r.ib # <<>> => q.ib = Tail(r.ib) /\ Tail(r.ib) \in Seq(Sent)
      BY Taken, SentTaken
    <3> QED BY <2>1, <3>1 DEF SentOK
  <2>2. r.ib # <<>> => q \in Request /\ assemble_err(q).ib = q.ib
                       /\ \A h : handle_header(q, h).ib = q.ib
    <3>1. r.ib # <<>> => q \in Request
      BY Taken
    <3>2. ASSUME NEW h, r.ib # <<>> PROVE handle_header(q, h).ib = q.ib
      BY <3>1, <3>2, SentHeader, Zenon
    <3> QED BY <3>1, <3>2, SentErr
  <2> HIDE DEF q
  <2>3. CASE lotos_epoll_wait \/ dispatch \/ request_handle_headers
    BY <1>1, <2>3 DEF lotos_epoll_wait, dispatch, request_handle_headers, reqUnchanged, socketVars
  <2>4. CASE connection_prune
    <3>1. inq' = inq /\ r' \in {r, FreshRequest}
      BY <2>4 DEF connection_prune, socketVars
    <3> QED BY <2>1, <3>1
  <2>5. CASE request_recv
    <3> DEFINE v == r.ib \o inq
    <3>1. inq' = <<>> /\ r' = [r EXCEPT !.ib = v] /\ v \in Seq(Sent)
      BY <2>5 DEF request_recv
    <3> HIDE DEF v
    <3>2. r'.ib = v
      BY <3>1, Zenon DEF Request
    <3> QED BY <3>1, <3>2 DEF SentOK
  <2>6. ASSUME NEW z, NEW st, ReqReturns(z, st) PROVE r' = z
    BY <2>6 DEF ReqReturns
  <2>7. CASE request_handle_request_line
    <3>1. inq' = inq
      BY <2>7 DEF request_handle_request_line, reqUnchanged, socketVars
    <3>2. CASE r.ib = <<>>
      <4>1. r' = r
        BY <2>6, <2>7, <3>2 DEF request_handle_request_line
      <4> QED BY <1>1, <3>1, <4>1
    <3>3. CASE r.ib # <<>> /\ Head(r.ib) \notin GoodLines
      <4>1. r' = assemble_err(q)
        BY <2>6, <2>7, <3>3 DEF request_handle_request_line, q
      <4> QED BY <2>1, <2>2, <3>1, <3>3, <4>1
    <3>4. CASE r.ib # <<>> /\ Head(r.ib) \in GoodLines
      <4> DEFINE t == Head(r.ib)
                 isDir == t = "noindex"
                 keep == t # "get10"
                 fd == IF isDir THEN "none" ELSE "open"
                 len == IF isDir THEN DirLen ELSE FileLen
                 Opened(size) == [q EXCEPT !.keep_alive = keep, !.resource_fd = fd,
                                    !.resource_size = len, !.file_left = size,
                                    !.req_handler = "headers"]
      <4>1. PICK size \in (IF isDir THEN {0} ELSE FileSizes) : ReqReturns(Opened(size), "OK")
        BY <2>7, <3>4 DEF request_handle_request_line, q
      <4> HIDE DEF keep, fd, len
      <4>2. r'.ib = q.ib
        <5>1. r' = Opened(size)
          BY <2>6, <4>1
        <5> QED BY <2>2, <3>4, <5>1, Zenon DEF Request
      <4> QED BY <2>1, <3>1, <3>4, <4>2
    <3> QED BY <3>2, <3>3, <3>4
  <2>8. CASE parse_header_line
    <3>1. inq' = inq
      BY <2>8 DEF parse_header_line, reqUnchanged, socketVars
    <3>2. CASE r.ib = <<>>
      <4>1. r' = r
        BY <2>8, <3>2 DEF parse_header_line
      <4> QED BY <1>1, <3>1, <4>1
    <3>3. CASE r.ib # <<>>
      <4> DEFINE h == Head(r.ib)
      <4>1. r' \in {[q EXCEPT !.req_handler = "body"], handle_header(q, h), assemble_err(q)}
        BY <2>6, <2>8, <3>3 DEF parse_header_line, q
      <4>2. [q EXCEPT !.req_handler = "body"].ib = q.ib
        BY <2>2, <3>3, Zenon DEF Request
      <4>3. r'.ib = q.ib
        BY <2>2, <3>3, <4>1, <4>2
      <4> QED BY <2>1, <3>1, <3>3, <4>3
    <3> QED BY <3>2, <3>3
  <2>9. CASE request_handle_body
    <3> DEFINE y == IF r.content_length =< 0 THEN r
                    ELSE [r EXCEPT !.body_received = @ + Len(r.ib), !.ib = <<>>]
               n == [y EXCEPT !.req_handler = "null"]
               m == r.body_received + Len(r.ib)
    <3>1. inq' = inq
      BY <2>9 DEF request_handle_body, reqUnchanged, socketVars
    <3>2. r' \in {y, assemble_err(r), response_assemble_buffer(n)}
      BY <2>6, <2>9 DEF request_handle_body
    <3>3. y \in Request /\ y.ib \in {r.ib, <<>>}
      <4>1. m \in Nat /\ <<>> \in Seq(Tokens)
        BY DEF Request
      <4> HIDE DEF m
      <4>2. /\ [r EXCEPT !.body_received = m, !.ib = <<>>] \in Request
            /\ [r EXCEPT !.body_received = m, !.ib = <<>>].ib = <<>>
        <5>1. [r EXCEPT !.body_received = m, !.ib = <<>>] \in Request
          BY <4>1, Updates, Zenon
        <5> QED BY <5>1, Zenon DEF Request
      <4> QED BY <4>2 DEF m
    <3> HIDE DEF y
    <3>4. n \in Request /\ n.ib = y.ib
      <4>1. n \in Request
        BY <3>3, Updates, Zenon
      <4> QED BY <3>3, <4>1, Zenon DEF Request
    <3> HIDE DEF n
    <3>5. response_assemble_buffer(n).ib = n.ib
      BY <3>4, Zenon DEF Request, response_assemble_buffer
    <3>6. assemble_err(r).ib = r.ib
      BY SentErr
    <3> QED BY <2>1, <3>1, <3>2, <3>3, <3>4, <3>5, <3>6
  <2>10. ASSUME NEW z, z.ib = r.ib, NEW S, NEW st, ResReturns(z, S, st), inq' = inq PROVE SentOK'
    <3>1. r' = z \/ r' = FreshRequest
      BY <2>10 DEF ResReturns, request_reset
    <3> QED BY <2>1, <2>10, <3>1
  <2>11. CASE response_handle_send_buffer
    <3> DEFINE y == ob_sent(r)
               n == Min({Len(r.ob) - r.buffer_sent, Room})
    <3>1. inq' = inq
      BY <2>11 DEF response_handle_send_buffer, resUnchanged
    <3>2. y \in Request /\ y.ib = r.ib
      <4>1. <<>> \in Seq(AllUnits) /\ 0 \in Nat /\ y = [r EXCEPT !.ob = <<>>, !.buffer_sent = 0]
        BY DEF ob_sent
      <4> HIDE DEF y
      <4>2. y \in Request
        BY <4>1, Updates, Zenon
      <4> QED BY <4>1, <4>2, Zenon DEF Request
    <3> HIDE DEF y
    <3>3. /\ [y EXCEPT !.res_handler = "send_file"].ib = y.ib
          /\ [y EXCEPT !.response_done = TRUE].ib = y.ib
      BY <3>2, Zenon DEF Request
    <3>4. CASE r' = [r EXCEPT !.buffer_sent = @ + n]
      <4>1. r'.ib = r.ib
        BY <3>4, Zenon DEF Request
      <4> QED BY <2>1, <3>1, <4>1
    <3>5. \/ r' = [r EXCEPT !.buffer_sent = @ + n]
          \/ \E z, S, st : z.ib = r.ib /\ ResReturns(z, S, st)
      BY <2>11, <3>2, <3>3 DEF response_handle_send_buffer, y
    <3> QED BY <2>10, <3>1, <3>4, <3>5
  <2>12. CASE response_handle_send_file
    <3> DEFINE y == file_sent(r)
               n == Min({r.file_left, Room})
    <3>1. inq' = inq
      BY <2>12 DEF response_handle_send_file, resUnchanged
    <3>2. y.ib = r.ib
      BY Zenon DEF file_sent, Request
    <3> HIDE DEF y
    <3>3. CASE r' = [r EXCEPT !.file_left = @ - n]
      <4>1. r'.ib = r.ib
        BY <3>3, Zenon DEF Request
      <4> QED BY <2>1, <3>1, <4>1
    <3>4. \/ r' = [r EXCEPT !.file_left = @ - n]
          \/ \E z, S, st : z.ib = r.ib /\ ResReturns(z, S, st)
      BY <2>12, <3>2 DEF response_handle_send_file, y
    <3> QED BY <2>10, <3>1, <3>3, <3>4
  <2> QED BY <1>4, <2>3, <2>4, <2>5, <2>7, <2>8, <2>9, <2>11, <2>12 DEF WorkerNext
<1>5. CASE time_passes \/ UNCHANGED vars
  BY <1>1, <1>5 DEF time_passes, vars, socketVars
<1> QED BY <1>3, <1>4, <1>5 DEF Next

\* The places of a concatenation.
LEMMA Joined ==
  ASSUME NEW s \in Seq(AllUnits), NEW t \in Seq(AllUnits)
  PROVE  /\ \A i \in 1 .. Len(s) : (s \o t)[i] = s[i]
         /\ \A i \in 1 .. Len(s) + Len(t) : i > Len(s) => (s \o t)[i] = t[i - Len(s)]
         /\ Len(s) >= 1 => (s \o t)[1] = s[1]
<1>1. \A i \in 1 .. Len(s) : (s \o t)[i] = s[i]
  OBVIOUS
<1>2. \A i \in 1 .. Len(s) + Len(t) : i > Len(s) => (s \o t)[i] = t[i - Len(s)]
  OBVIOUS
<1> QED BY <1>1, <1>2

\* A unit and then a sequence.
LEMMA OneBefore ==
  ASSUME NEW s \in Seq(AllUnits), NEW t \in Seq(AllUnits), NEW n \in Nat, Len(s) = 1, Len(t) = n
  PROVE  /\ Len(s \o t) = 1 + n /\ (s \o t)[1] = s[1]
         /\ \A i \in 2 .. 1 + n : (s \o t)[i] = t[i - 1]
<1>1. Len(s \o t) = Len(s) + Len(t)
  BY Longer
<1>2. /\ Len(s) >= 1 => (s \o t)[1] = s[1]
      /\ \A i \in 1 .. Len(s) + Len(t) : i > Len(s) => (s \o t)[i] = t[i - Len(s)]
  BY Joined
<1>3. 1 >= 1 /\ \A i \in 2 .. 1 + n : i \in 1 .. 1 + n /\ i > 1
  OBVIOUS
<1> QED BY <1>1, <1>2, <1>3, Zenon

\* What response_assemble_err_buffer leaves: one whole response, the last one.
LEMMA FrameErr ==
  ASSUME NEW q \in Request, q.ob = <<>>, NEW z, z = assemble_err(q)
  PROVE  /\ z.ob[1] = HeadUnit(ErrLen, FALSE) /\ Len(z.ob) = 1 + ErrLen
         /\ BodyFrom(z.ob, 2, 1 + ErrLen)
         /\ z.buffer_sent = q.buffer_sent /\ z.res_handler = q.res_handler /\ z.ib = q.ib
         /\ z.transfer_encoding = q.transfer_encoding /\ z.req_handler = "null"
         /\ z.err_req = TRUE /\ z.response_done = TRUE /\ z.keep_alive = FALSE
<1> DEFINE h == HeadUnit(ErrLen, FALSE)
           us == Units(ErrLen)
           o == q.ob \o <<h>> \o us
<1>1. /\ h \in AllUnits /\ us \in Seq(AllUnits) /\ Len(us) = ErrLen /\ ErrLen \in Nat
      /\ \A i \in 1 .. ErrLen : us[i] = BodyUnit
  BY UnitsTyped, Constants DEF Units
<1> HIDE DEF h, us
<1>2. <<>> \o <<h>> = <<h>> /\ <<h>> \in Seq(AllUnits) /\ Len(<<h>>) = 1 /\ <<h>>[1] = h
  BY <1>1
<1>3. \A s \in Seq(AllUnits) : Len(s) = 1 =>
        /\ Len(s \o us) = 1 + ErrLen /\ (s \o us)[1] = s[1]
        /\ \A i \in 2 .. 1 + ErrLen : (s \o us)[i] = us[i - 1]
  BY <1>1, OneBefore, Zenon
<1>4. /\ Len(<<h>> \o us) = 1 + ErrLen /\ (<<h>> \o us)[1] = h
      /\ \A i \in 2 .. 1 + ErrLen : (<<h>> \o us)[i] = us[i - 1]
  BY <1>2, <1>3, Zenon
<1>5. o = <<h>> \o us
  BY <1>2, Zenon
<1>6. Len(o) = 1 + ErrLen /\ o[1] = h /\ \A i \in 2 .. 1 + ErrLen : o[i] = us[i - 1]
  BY <1>4, <1>5, Zenon
<1>7. BodyFrom(o, 2, 1 + ErrLen)
  <2>1. \A i \in 2 .. 1 + ErrLen : i - 1 \in 1 .. ErrLen
    BY <1>1
  <2> HIDE DEF o
  <2> QED BY <1>1, <1>6, <2>1, Zenon DEF BodyFrom
<1>8. z = [q EXCEPT !.req_handler = "null", !.err_req = TRUE, !.keep_alive = FALSE,
                    !.ob = o, !.response_done = TRUE]
  BY DEF assemble_err, h, us
<1> HIDE DEF o
<1>9. /\ z.ob = o /\ z.buffer_sent = q.buffer_sent /\ z.res_handler = q.res_handler
      /\ z.ib = q.ib /\ z.transfer_encoding = q.transfer_encoding
      /\ z.err_req = TRUE /\ z.response_done = TRUE /\ z.req_handler = "null"
      /\ z.keep_alive = FALSE
  BY <1>8, Zenon DEF Request
<1> QED BY <1>6, <1>7, <1>9 DEF h

\* A line or a header that is refused is one the client has sent, so that a
\* response is owed for it.
LEMMA FrameRefuses ==
  ASSUME ExchangeInv, FrameInv, pc \in {"req", "headers"}, UNCHANGED reqUnchanged, r.ib # <<>>,
         NEW q, q = [r EXCEPT !.ib = Tail(@)], ReqReturns(assemble_err(q), "OK")
  PROVE  FrameInv'
<1>1. /\ r \in Request /\ r.ob = <<>> /\ r.buffer_sent = 0 /\ r.res_handler = "send_buffer"
      /\ r.transfer_encoding = "identity" /\ LoopOK
  BY FrameReceiving
<1>2. /\ q \in Request /\ q.ib = Tail(r.ib) /\ q.ob = <<>> /\ q.buffer_sent = 0
      /\ q.res_handler = "send_buffer"
  BY <1>1, Taken DEF SameResponse
<1>3. q.transfer_encoding = "identity"
  BY <1>1, Zenon DEF Request
<1>4. r' = assemble_err(q) /\ pc' # "headers"
  BY <1>1, Returns
<1>5. /\ r'.ob[1] = HeadUnit(ErrLen, FALSE) /\ Len(r'.ob) = 1 + ErrLen
      /\ BodyFrom(r'.ob, 2, 1 + ErrLen)
      /\ r'.buffer_sent = 0 /\ r'.res_handler = "send_buffer" /\ r'.ib = Tail(r.ib)
      /\ r'.transfer_encoding = "identity" /\ r'.req_handler = "null"
      /\ r'.err_req = TRUE /\ r'.response_done = TRUE /\ r'.keep_alive = FALSE
  BY <1>2, <1>3, <1>4, FrameErr
<1>6. FileOK(r')
  BY <1>5 DEF FileOK
<1>7. ASSUME ~rst
      PROVE  InSync(outq, r', Input', left, owed, Told(~last), sending, bodyLeft)
  <2>1. inq' = inq
    BY DEF reqUnchanged, socketVars
  <2>2. PICK o \in Nat, p \in Phases, b \in Nat, d \in Nat, p1 \in Phases, b1 \in Nat, g \in {0, 1} :
          /\ CanRead(Coming(outq, r), ComingLen(outq, r), left, owed, Told(~last), 0, o, Final(r))
          /\ Balance(r, o, d, p, b) /\ d > 0 /\ o >= d /\ d - g \in Nat
          /\ WriteStep(p, b, Head(r.ib), p1, b1, g)
          /\ CanWrite(Input', Len(Input'), p1, b1, d - g, sending, bodyLeft)
    BY <1>5, <1>7, <2>1, FrameNextToken, Zenon
  <2>3. o > 0 /\ o - 1 \in Nat
    BY <2>2
  <2>4. /\ ErrLen \in Nat /\ Len(r'.ob) \in Nat /\ Len(r'.ob) > 0 /\ FALSE \in BOOLEAN
        /\ FileUnits(r') \in Nat /\ Len(r'.ob) + FileUnits(r') = 1 + ErrLen
        /\ Final(r') = Told(FALSE)
    BY <1>5, Constants DEF FileUnits, Final, Told
  <2>5. BodyFrom(r'.ob, 2, Len(r'.ob))
    BY <1>5, Zenon
  <2>6. CanRead(Coming(outq, r'), ComingLen(outq, r'), left, owed, Told(~last), 0, o - 1,
                Final(r'))
    BY <1>5, <2>2, <2>3, <2>4, <2>5, FrameAnswers, Zenon
  <2>7. Balance(r', o - 1, d - g, p1, b1)
    BY <1>5 DEF Balance
  <2> QED BY <2>2, <2>3, <2>6, <2>7, Zenon DEF InSync
<1> QED BY <1>4, <1>5, <1>6, <1>7, FrameRequestStep

\* A handler that finds nothing in the buffer.
LEMMA FrameIdle ==
  ASSUME ExchangeInv, FrameInv, pc \in {"req", "headers"}, UNCHANGED reqUnchanged,
         UNCHANGED <<r, epollVars>>, pc' # "headers"
  PROVE  FrameInv'
<1>1. Input' = Input
  BY DEF Input, reqUnchanged, socketVars
<1>2. FileOK(r') /\ r'.res_handler = "send_buffer" /\ open
  BY FrameReceiving
<1>3. ~rst => InSync(outq, r', Input', left, owed, Told(~last), sending, bodyLeft)
  BY <1>1, <1>2, Zenon DEF FrameInv, FrameOK
<1> QED BY <1>2, <1>3, FrameRequestStep

\* A request line: the client began a request with it.
LEMMA FrameRequestLine ==
  ASSUME ExchangeInv, SentOK, FrameInv, request_handle_request_line
  PROVE  FrameInv'
<1>1. pc = "req" /\ r.req_handler = "request_line" /\ UNCHANGED reqUnchanged /\ inq' = inq
  BY DEF request_handle_request_line, reqUnchanged, socketVars
<1>2. CASE r.ib = <<>>
  <2>1. ReqReturns(r, "AGAIN") /\ UNCHANGED epollVars
    BY <1>2 DEF request_handle_request_line
  <2>2. r' = r /\ pc' # "headers"
    BY <1>1, <2>1, FrameReceiving, Returns
  <2> QED BY <1>1, <2>1, <2>2, FrameIdle
<1>3. CASE r.ib # <<>>
  <2> DEFINE t == Head(r.ib)
             q == [r EXCEPT !.ib = Tail(@)]
             isDir == t = "noindex"
             fd == IF isDir THEN "none" ELSE "open"
             len == IF isDir THEN DirLen ELSE FileLen
             keep == t # "get10"
             Opened(size) == [q EXCEPT !.keep_alive = keep, !.resource_fd = fd,
                                !.resource_size = len, !.file_left = size,
                                !.req_handler = "headers"]
  <2>1. CASE t \in GoodLines
    <3>1. PICK size \in (IF isDir THEN {0} ELSE FileSizes) : ReqReturns(Opened(size), "OK")
      BY <1>3, <2>1 DEF request_handle_request_line
    <3>2. UNCHANGED epollVars
      BY <1>3, <2>1 DEF request_handle_request_line
    <3> DEFINE z == Opened(size)
    <3>3. z = [q EXCEPT !.keep_alive = keep, !.resource_fd = fd,
                        !.resource_size = len, !.file_left = size,
                        !.req_handler = "headers"]
      OBVIOUS
    <3>4. r' = z /\ pc' # "headers"
      BY <1>1, <3>1, FrameReceiving, Returns
    <3>5. q \in Request /\ q.ib = Tail(r.ib) /\ SameResponse(r, q)
      BY <1>1, <1>3, FrameReceiving, Taken
    <3>6. /\ q.transfer_encoding = r.transfer_encoding /\ q.content_length = r.content_length
          /\ q.body_received = r.body_received
      BY <1>1, FrameReceiving, Zenon DEF Request
    <3> HIDE DEF z, q, fd, len, keep
    <3>7. /\ z.ib = q.ib /\ z.transfer_encoding = q.transfer_encoding
          /\ z.response_done = q.response_done /\ z.req_handler = "headers"
          /\ z.ob = q.ob /\ z.buffer_sent = q.buffer_sent /\ z.err_req = q.err_req
          /\ z.resource_fd = fd /\ z.resource_size = len /\ z.file_left = size
          /\ z.content_length = q.content_length /\ z.body_received = q.body_received
          /\ z.res_handler = q.res_handler
      BY <3>3, <3>5, Zenon DEF Request
    <3>8. /\ r.err_req = FALSE /\ r.ob = <<>> /\ r.buffer_sent = 0
          /\ r.transfer_encoding = "identity" /\ r.res_handler = "send_buffer"
          /\ r.content_length = -1 /\ r.body_received = 0
      BY <1>1, FrameReceiving DEF FileOK
    <3>9. t # "noindex" /\ t \notin Headers \cup {"crlf", "body"}
      <4>1. t \in Sent
        BY <1>3, SentTaken
      <4> QED BY <2>1, <4>1 DEF FrameInv, Framed, Sent, GoodLines
    <3>10. fd = "open" /\ len = FileLen /\ size = FileLen
      BY <3>9 DEF fd, len, FrameInv, Framed
    <3>11. /\ r'.ib = Tail(r.ib) /\ r'.ob = r.ob /\ r'.buffer_sent = r.buffer_sent
           /\ r'.req_handler = "headers" /\ r'.res_handler = "send_buffer"
           /\ r'.err_req = FALSE /\ r'.content_length = -1 /\ r'.body_received = 0
      BY <3>4, <3>5, <3>6, <3>7, <3>8 DEF SameResponse
    <3>12. FileOK(r')
      BY <3>4, <3>6, <3>7, <3>8, <3>10, <3>11 DEF FileOK
    <3>13. ASSUME ~rst
           PROVE  InSync(outq, r', Input', left, owed, Told(~last), sending, bodyLeft)
      <4>1. PICK o \in Nat, p \in Phases, b \in Nat, d \in Nat,
                 p1 \in Phases, b1 \in Nat, g \in {0, 1} :
              /\ CanRead(Coming(outq, r), ComingLen(outq, r), left, owed, Told(~last), 0, o, Final(r))
              /\ Balance(r, o, d, p, b) /\ d > 0 /\ o >= d /\ d - g \in Nat
              /\ WriteStep(p, b, t, p1, b1, g)
              /\ CanWrite(Input', Len(Input'), p1, b1, d - g, sending, bodyLeft)
        BY <1>1, <1>3, <3>11, <3>13, FrameNextToken, Zenon
      <4>2. p1 = "headers" /\ b1 = 0 /\ g = 0
        BY <3>9, <4>1 DEF WriteStep
      <4>3. Balance(r', o, d - g, p1, b1)
        BY <3>11, <4>1, <4>2 DEF Balance
      <4>4. r'.req_handler # "null"
        BY <3>11
      <4> QED BY <1>1, <3>11, <4>1, <4>3, <4>4, FrameAwaits, Zenon
    <3> QED BY <1>1, <3>2, <3>4, <3>11, <3>12, <3>13, FrameRequestStep
  <2>2. CASE t \notin GoodLines
    <3>1. ReqReturns(assemble_err(q), "OK")
      BY <1>3, <2>2 DEF request_handle_request_line
    <3> QED BY <1>1, <1>3, <3>1, FrameRefuses
  <2> QED BY <2>1, <2>2
<1> QED BY <1>2, <1>3
\* A header that is accepted changes neither the buffers nor the file.
LEMMA FrameAccepted ==
  ASSUME NEW q \in Request, NEW h \in {"plain", "keepalive", "close", "clen"},
         NEW z, z = handle_header(q, h)
  PROVE  /\ z.ib = q.ib /\ z.ob = q.ob /\ z.buffer_sent = q.buffer_sent
         /\ z.req_handler = q.req_handler /\ z.res_handler = q.res_handler
         /\ z.err_req = q.err_req /\ z.response_done = q.response_done
         /\ z.transfer_encoding = q.transfer_encoding /\ z.body_received = q.body_received
         /\ z.resource_fd = q.resource_fd /\ z.resource_size = q.resource_size
         /\ z.file_left = q.file_left
         /\ z.content_length = IF h = "clen" THEN BodyLen ELSE q.content_length
<1>1. CASE h \in {"keepalive", "close"}
  <2>1. PICK k \in BOOLEAN : z = [q EXCEPT !.keep_alive = k]
    <3>1. h = "keepalive" => z = [q EXCEPT !.keep_alive = TRUE]
      BY DEF handle_header
    <3>2. h = "close" => z = [q EXCEPT !.keep_alive = FALSE]
      BY DEF handle_header
    <3> QED BY <1>1, <3>1, <3>2, Zenon
  <2>2. h # "clen"
    BY <1>1
  <2> QED BY <2>1, <2>2, Zenon DEF Request
<1>2. CASE h = "clen"
  <2>1. atoi(h) = BodyLen /\ BodyLen > 0
    BY <1>2, Constants DEF atoi
  <2>2. z = IF atoi(h) =< 0 THEN assemble_err(q) ELSE [q EXCEPT !.content_length = atoi(h)]
    BY <1>2 DEF handle_header
  <2>3. ~(atoi(h) =< 0)
    BY <2>1, Constants
  <2>4. z = [q EXCEPT !.content_length = BodyLen]
    BY <2>1, <2>2, <2>3, Zenon
  <2> QED BY <1>2, <2>4, Zenon DEF Request
<1>3. CASE h = "plain"
  <2>1. z = q
    BY <1>3 DEF handle_header
  <2> QED BY <1>3, <2>1
<1> QED BY <1>1, <1>2, <1>3

\* A header or the end of the headers: the client is in the same place of its
\* request, with the same length of the body in mind.
LEMMA FrameHeaderLine ==
  ASSUME ExchangeInv, SentOK, FrameInv, parse_header_line
  PROVE  FrameInv'
<1> DEFINE h == Head(r.ib)
           q == [r EXCEPT !.ib = Tail(@)]
<1>1. pc = "headers" /\ r.req_handler = "headers" /\ UNCHANGED reqUnchanged /\ inq' = inq
  BY DEF parse_header_line, reqUnchanged, socketVars, FrameInv, PlaceOK
<1>2. CASE r.ib = <<>> /\ Handled("AGAIN") /\ UNCHANGED <<r, epollVars>>
  <2>1. pc' = "prune"
    BY <1>1, <1>2, FrameReceiving, HandledOnce
  <2> QED BY <1>1, <1>2, <2>1, FrameIdle
<1>3. CASE r.ib # <<>>
  <2>1. q \in Request /\ SameResponse(r, q) /\ q.ib = Tail(r.ib) /\ q.req_handler = "headers"
    BY <1>1, <1>3, FrameReceiving, Taken
  <2>2. /\ q.transfer_encoding = r.transfer_encoding /\ q.content_length = r.content_length
        /\ q.body_received = r.body_received /\ q.file_left = r.file_left
    BY <1>1, FrameReceiving, Zenon DEF Request
  <2>3. /\ r.err_req = FALSE /\ r.ob = <<>> /\ r.buffer_sent = 0 /\ r.response_done = FALSE
        /\ r.transfer_encoding = "identity" /\ r.res_handler = "send_buffer"
        /\ r.body_received = 0 /\ r.resource_size = FileLen /\ r.file_left = FileLen
        /\ r.resource_fd # "none" /\ r.content_length \in {-1, BodyLen}
    BY <1>1, FrameReceiving DEF FileOK, Request
  <2>4. h \in RequestLines \cup Headers \cup {"crlf", "body"}
    BY <1>3, SentTaken DEF Sent
  \* What the client's next token says of its own place.
  <2>5. ASSUME ~rst, r'.ib = Tail(r.ib)
        PROVE  \E o \in Nat, p1 \in Phases, b1 \in Nat, d1 \in Nat :
                 /\ CanRead(Coming(outq, r), ComingLen(outq, r), left, owed, Told(~last), 0, o,
                            Final(r))
                 /\ CanWrite(Input', Len(Input'), p1, b1, d1, sending, bodyLeft)
                 /\ o >= d1
                 /\ h # "crlf" => /\ p1 = "headers"
                                  /\ b1 = IF h = "clen" \/ r.content_length > 0 THEN BodyLen
                                          ELSE 0
                 /\ h = "crlf" => IF r.content_length > 0 THEN p1 = "body" /\ b1 = BodyLen
                                  ELSE o >= d1 + 1
    <3>1. PICK o \in Nat, p \in Phases, b \in Nat, d \in Nat, p1 \in Phases, b1 \in Nat, g \in {0, 1} :
            /\ CanRead(Coming(outq, r), ComingLen(outq, r), left, owed, Told(~last), 0, o, Final(r))
            /\ Balance(r, o, d, p, b) /\ d > 0 /\ o >= d /\ d - g \in Nat
            /\ WriteStep(p, b, h, p1, b1, g)
            /\ CanWrite(Input', Len(Input'), p1, b1, d - g, sending, bodyLeft)
      BY <1>1, <1>3, <2>5, FrameNextToken, Zenon
    <3>2. p = "headers" /\ b = IF r.content_length > 0 THEN BodyLen ELSE 0
      BY <1>1, <3>1 DEF Balance
    <3>3. "crlf" \notin Headers /\ BodyLen \in Nat /\ BodyLen > 0
      BY Constants DEF FrameInv, Framed
    <3>4. h # "crlf" => g = 0 /\ p1 = "headers" /\ b1 = IF h = "clen" THEN BodyLen ELSE b
      BY <3>1, <3>2 DEF WriteStep
    <3>5. h = "crlf" => (b = 0 /\ g = 1) \/ (b > 0 /\ p1 = "body" /\ b1 = b /\ g = 0)
      BY <3>1, <3>2, <3>3 DEF WriteStep
    <3>6. o >= d - g
      BY <3>1
    <3>7. h = "crlf" => IF r.content_length > 0 THEN p1 = "body" /\ b1 = BodyLen
                        ELSE o >= (d - g) + 1
      BY <3>1, <3>2, <3>3, <3>5
    <3>8. h # "crlf" => p1 = "headers" /\ b1 = IF h = "clen" \/ r.content_length > 0 THEN BodyLen
                                               ELSE 0
      BY <3>2, <3>4
    <3> QED BY <3>1, <3>6, <3>7, <3>8, Zenon
  <2> HIDE DEF q, h
  <2>6. CASE /\ h = "crlf"
             /\ ReqReturns([q EXCEPT !.req_handler = "body"], "OK")
             /\ UNCHANGED epollVars
    <3> DEFINE z == [q EXCEPT !.req_handler = "body"]
    <3>1. r' = z /\ pc' # "headers"
      BY <1>1, <2>6, FrameReceiving, Returns
    <3>2. /\ z.ib = q.ib /\ z.ob = q.ob /\ z.buffer_sent = q.buffer_sent
          /\ z.req_handler = "body" /\ z.res_handler = q.res_handler
          /\ z.err_req = q.err_req /\ z.response_done = q.response_done
          /\ z.transfer_encoding = q.transfer_encoding /\ z.body_received = q.body_received
          /\ z.resource_fd = q.resource_fd /\ z.resource_size = q.resource_size
          /\ z.file_left = q.file_left /\ z.content_length = q.content_length
      BY <2>1, Zenon DEF Request
    <3> HIDE DEF z
    <3>3. /\ r'.ib = Tail(r.ib) /\ r'.ob = r.ob /\ r'.buffer_sent = r.buffer_sent
          /\ r'.req_handler = "body" /\ r'.res_handler = "send_buffer"
          /\ r'.err_req = FALSE /\ r'.content_length = r.content_length /\ r'.body_received = 0
      BY <2>1, <2>2, <2>3, <3>1, <3>2 DEF SameResponse
    <3>4. FileOK(r')
      BY <2>1, <2>2, <2>3, <3>1, <3>2, <3>3 DEF FileOK, SameResponse
    <3>5. ASSUME ~rst
          PROVE  InSync(outq, r', Input', left, owed, Told(~last), sending, bodyLeft)
      <4>1. PICK o \in Nat, p1 \in Phases, b1 \in Nat, d1 \in Nat :
              /\ CanRead(Coming(outq, r), ComingLen(outq, r), left, owed, Told(~last), 0, o,
                         Final(r))
              /\ CanWrite(Input', Len(Input'), p1, b1, d1, sending, bodyLeft)
              /\ o >= d1
              /\ IF r.content_length > 0 THEN p1 = "body" /\ b1 = BodyLen ELSE o >= d1 + 1
        BY <2>5, <2>6, <3>3, <3>5, Zenon
      <4>2. Balance(r', o, d1, p1, b1)
        BY <2>3, <3>3, <4>1, Constants DEF Balance
      <4>3. r'.req_handler # "null"
        BY <3>3
      <4> QED BY <1>1, <3>3, <4>1, <4>2, <4>3, FrameAwaits, Zenon
    <3> QED BY <1>1, <2>6, <3>1, <3>3, <3>4, <3>5, FrameRequestStep
  <2>7. CASE /\ h \in HeaderLines
             /\ r' = handle_header(q, h)
             /\ IF r'.err_req THEN connection_turn_out ELSE UNCHANGED epollVars
             /\ UNCHANGED <<pc, age, mask>>
    <3>1. h \in {"plain", "keepalive", "close", "clen"} /\ h # "crlf"
      BY <2>4, <2>7, ExchangeAssumption DEF FrameInv, Framed, HeaderLines, GoodLines, BadLines
    <3>2. /\ r'.ib = q.ib /\ r'.ob = q.ob /\ r'.buffer_sent = q.buffer_sent
          /\ r'.req_handler = q.req_handler /\ r'.res_handler = q.res_handler
          /\ r'.err_req = q.err_req /\ r'.response_done = q.response_done
          /\ r'.transfer_encoding = q.transfer_encoding /\ r'.body_received = q.body_received
          /\ r'.resource_fd = q.resource_fd /\ r'.resource_size = q.resource_size
          /\ r'.file_left = q.file_left
          /\ r'.content_length = IF h = "clen" THEN BodyLen ELSE q.content_length
      BY <2>1, <2>7, <3>1, FrameAccepted
    <3>3. /\ r'.ib = Tail(r.ib) /\ r'.ob = r.ob /\ r'.buffer_sent = r.buffer_sent
          /\ r'.req_handler = "headers" /\ r'.res_handler = "send_buffer"
          /\ r'.err_req = FALSE /\ r'.body_received = 0
          /\ r'.content_length = IF h = "clen" THEN BodyLen ELSE r.content_length
      BY <2>1, <2>2, <2>3, <3>2 DEF SameResponse
    <3>4. FileOK(r')
      BY <2>1, <2>2, <2>3, <3>2, <3>3 DEF FileOK, SameResponse
    <3>5. UNCHANGED epollVars
      BY <2>7, <3>3
    <3>6. ASSUME ~rst
          PROVE  InSync(outq, r', Input', left, owed, Told(~last), sending, bodyLeft)
      <4>1. PICK o \in Nat, p1 \in Phases, b1 \in Nat, d1 \in Nat :
              /\ CanRead(Coming(outq, r), ComingLen(outq, r), left, owed, Told(~last), 0, o,
                         Final(r))
              /\ CanWrite(Input', Len(Input'), p1, b1, d1, sending, bodyLeft)
              /\ o >= d1 /\ p1 = "headers"
              /\ b1 = IF h = "clen" \/ r.content_length > 0 THEN BodyLen ELSE 0
        BY <2>5, <3>1, <3>3, <3>6, Zenon
      <4>2. Balance(r', o, d1, p1, b1)
        BY <3>3, <4>1, Constants DEF Balance
      <4>3. r'.req_handler # "null"
        BY <3>3
      <4> QED BY <1>1, <3>3, <4>1, <4>2, <4>3, FrameAwaits, Zenon
    <3> QED BY <1>1, <2>7, <3>3, <3>4, <3>5, <3>6, FrameRequestStep
  <2>8. CASE ReqReturns(assemble_err(q), "OK")
    BY <1>1, <1>3, <2>8, FrameRefuses DEF q
  <2> QED BY <1>3, <2>6, <2>7, <2>8 DEF parse_header_line, q, h
<1> QED BY <1>2, <1>3 DEF parse_header_line

\* All that is in the buffer has been taken from it.
LEMMA FrameDropped ==
  ASSUME ExchangeInv, r'.ib = <<>>, inq' = inq
  PROVE  /\ Len(Input) \in Nat /\ Len(r.ib) \in 0 .. Len(Input)
         /\ Len(Input') = Len(Input) - Len(r.ib)
         /\ Agree(Input, Input', Len(Input) - Len(r.ib), Len(r.ib))
<1>1. r.ib \in Seq(Tokens) /\ inq \in Seq(Tokens)
  BY InputFacts
<1>2. \A s \in Seq(Tokens), t \in Seq(Tokens) :
        /\ Len(s \o t) = Len(s) + Len(t) /\ Len(s) \in Nat /\ Len(t) \in Nat /\ <<>> \o t = t
  OBVIOUS
<1>3. \A s \in Seq(Tokens), t \in Seq(Tokens) :
        \A i \in 1 .. Len(t) : t[i] = (s \o t)[i + Len(s)]
  OBVIOUS
<1>4. Input = r.ib \o inq /\ Input' = inq
  BY <1>1, <1>2, Zenon DEF Input
<1>5. /\ Len(Input) = Len(r.ib) + Len(inq) /\ Len(r.ib) \in Nat /\ Len(inq) \in Nat
      /\ \A i \in 1 .. Len(inq) : inq[i] = Input[i + Len(r.ib)]
  BY <1>1, <1>2, <1>3, <1>4, Zenon
<1>6. /\ Len(Input) \in Nat /\ Len(r.ib) \in 0 .. Len(Input)
      /\ Len(Input) - Len(r.ib) = Len(inq)
  BY <1>5
<1> QED BY <1>4, <1>5, <1>6, Zenon DEF Agree

\* The body, of which the handler takes whatever is in the buffer: part of it,
\* and the client is still in the same body; or all, and perhaps a part of the
\* requests behind it, and then at least this request is finished.
LEMMA FrameBody ==
  ASSUME ExchangeInv, FrameInv, request_handle_body
  PROVE  FrameInv'
<1> DEFINE taken == [r EXCEPT !.body_received = @ + Len(r.ib), !.ib = <<>>]
           q == IF r.content_length =< 0 THEN r ELSE taken
           n == [q EXCEPT !.req_handler = "null"]
           k == Len(r.ib)
<1>1. pc = "req" /\ r.req_handler = "body" /\ UNCHANGED reqUnchanged /\ inq' = inq
  BY DEF request_handle_body, reqUnchanged, socketVars
<1>2. /\ r \in Request /\ LoopOK
      /\ r.err_req = FALSE /\ r.ob = <<>> /\ r.buffer_sent = 0 /\ r.response_done = FALSE
      /\ r.transfer_encoding = "identity" /\ r.res_handler = "send_buffer"
      /\ r.resource_size = FileLen /\ r.file_left = FileLen /\ r.resource_fd # "none"
      /\ r.content_length \in {-1, BodyLen} /\ r.keep_alive \in BOOLEAN
      /\ r.body_received \in Nat /\ k \in Nat
  <2>1. /\ r \in Request /\ LoopOK /\ FileOK(r) /\ r.err_req = FALSE /\ r.ob = <<>>
        /\ r.buffer_sent = 0 /\ r.response_done = FALSE
        /\ r.transfer_encoding = "identity" /\ r.res_handler = "send_buffer"
        /\ r.ib \in Seq(Tokens)
    BY <1>1, FrameReceiving
  <2>2. r.resource_size = FileLen /\ r.file_left = FileLen /\ r.resource_fd # "none"
    BY <1>1, <2>1 DEF FileOK
  <2>3. /\ r.content_length \in {-1, BodyLen} /\ r.keep_alive \in BOOLEAN
        /\ r.body_received \in Nat
    BY <2>1, Zenon DEF Request
  <2>4. k \in Nat
    BY <2>1
  <2> QED BY <2>1, <2>2, <2>3, <2>4
<1>3. /\ q \in Request /\ q.err_req = FALSE /\ q.ob = <<>> /\ q.buffer_sent = 0
      /\ q.response_done = FALSE /\ q.transfer_encoding = "identity"
      /\ q.res_handler = "send_buffer" /\ q.resource_size = FileLen /\ q.file_left = FileLen
      /\ q.resource_fd # "none" /\ q.content_length = r.content_length
      /\ q.keep_alive = r.keep_alive /\ q.req_handler = "body"
      /\ IF r.content_length =< 0 THEN q.ib = r.ib
         ELSE q.ib = <<>> /\ q.body_received = r.body_received + k
  <2> DEFINE m == r.body_received + k
  <2>1. m \in Nat /\ <<>> \in Seq(Tokens)
    BY <1>2
  <2>2. taken = [r EXCEPT !.body_received = m, !.ib = <<>>]
    OBVIOUS
  <2> HIDE DEF m, taken
  <2>3. taken \in Request
    BY <1>2, <2>1, <2>2, Updates, Zenon
  <2>4. /\ taken.ib = <<>> /\ taken.body_received = m
        /\ taken.transfer_encoding = r.transfer_encoding
        /\ taken.req_handler = r.req_handler /\ taken.response_done = r.response_done
        /\ taken.resource_fd = r.resource_fd /\ taken.err_req = r.err_req /\ taken.ob = r.ob
        /\ taken.buffer_sent = r.buffer_sent /\ taken.res_handler = r.res_handler
        /\ taken.resource_size = r.resource_size /\ taken.file_left = r.file_left
        /\ taken.content_length = r.content_length /\ taken.keep_alive = r.keep_alive
    BY <1>2, <2>2, Zenon DEF Request
  <2> QED BY <1>1, <1>2, <2>3, <2>4 DEF m
<1> HIDE DEF q
\* Where the client is once the buffer has been taken.
<1>4. ASSUME ~rst, r'.ib = q.ib
      PROVE  \E o \in Nat, p1 \in Phases, b1 \in Nat, d1 \in Nat :
               /\ CanRead(Coming(outq, r), ComingLen(outq, r), left, owed, Told(~last), 0, o,
                          Final(r))
               /\ CanWrite(Input', Len(Input'), p1, b1, d1, sending, bodyLeft)
               /\ o >= d1
               /\ r.content_length =< 0 \/ q.body_received >= BodyLen => o >= d1 + 1
               /\ r.content_length > 0 /\ q.body_received < BodyLen =>
                    p1 = "body" /\ b1 > 0 /\ b1 = BodyLen - q.body_received
  <2>1. PICK o \in Nat, p \in Phases, b \in Nat, d \in Nat :
          /\ CanRead(Coming(outq, r), ComingLen(outq, r), left, owed, Told(~last), 0, o, Final(r))
          /\ CanWrite(Input, Len(Input), p, b, d, sending, bodyLeft)
          /\ Balance(r, o, d, p, b)
    BY <1>1, <1>4, FrameReceiving, Zenon DEF FrameInv, FrameOK, InSync
  <2>2. CASE r.content_length =< 0
    <3>1. Input' = Input
      BY <1>1, <1>3, <1>4, <2>2 DEF Input
    <3>2. o >= d + 1 /\ o >= d /\ ~(r.content_length > 0)
      BY <1>1, <1>2, <2>1, <2>2, Constants DEF Balance
    <3>3. CanWrite(Input', Len(Input'), p, b, d, sending, bodyLeft)
      BY <2>1, <3>1, Zenon
    <3> QED BY <2>1, <3>2, <3>3, Zenon
  <2>3. CASE ~(r.content_length =< 0)
    <3>1. r'.ib = <<>> /\ q.body_received = r.body_received + k
      BY <1>3, <1>4, <2>3
    <3>2. /\ r.content_length > 0 /\ o >= d /\ p = "body" /\ b > 0 /\ b = BodyLen - r.body_received
      BY <1>1, <1>2, <2>1, <2>3, Constants DEF Balance
    <3>3. /\ Len(Input) \in Nat /\ k \in 0 .. Len(Input) /\ Len(Input') = Len(Input) - k
          /\ Agree(Input, Input', Len(Input) - k, k)
      BY <1>1, <3>1, FrameDropped
    <3> HIDE DEF k
    <3> DEFINE N == Len(Input)
               J == Input'
    <3>3a. N \in Nat /\ k \in 0 .. N /\ Agree(Input, J, N - k, k)
           /\ CanWrite(Input, N, p, b, d, sending, bodyLeft)
      BY <2>1, <3>3
    <3> HIDE DEF N, J
    <3>4. PICK p1 \in Phases, b1 \in Nat, d1 \in 0 .. d :
            CanWrite(J, N - k, p1, b1, d1, sending, bodyLeft) /\ TookOff(k, p, b, d, p1, b1, d1)
      BY <3>3a, WroteLess, Zenon
    <3>5. CanWrite(Input', Len(Input'), p1, b1, d1, sending, bodyLeft)
      BY <3>3, <3>4, Zenon DEF N, J
    <3>6. d1 \in Nat /\ o >= d1
      BY <3>2, <3>4
    <3>7. q.body_received >= BodyLen => o >= d1 + 1
      BY <1>2, <3>1, <3>2, <3>4, Constants DEF TookOff
    <3>8. q.body_received < BodyLen => p1 = "body" /\ b1 > 0 /\ b1 = BodyLen - q.body_received
      BY <1>2, <3>1, <3>2, <3>4, Constants DEF TookOff
    <3>9. ~(r.content_length =< 0)
      BY <2>3
    <3> QED BY <2>1, <3>5, <3>6, <3>7, <3>8, <3>9, Zenon
  <2> QED BY <2>2, <2>3
<1> HIDE DEF k
<1>5. CASE /\ ~(q.content_length =< 0) /\ ~(q.body_received >= q.content_length)
           /\ ReqReturns(q, "AGAIN") /\ UNCHANGED epollVars
  <2>1. r' = q /\ pc' # "headers"
    BY <1>1, <1>2, <1>5, Returns
  <2>2. q.body_received \in Nat /\ q.content_length = BodyLen /\ q.body_received < BodyLen
    BY <1>2, <1>3, <1>5, Constants DEF Request
  <2>3. FileOK(r')
    BY <1>3, <2>1 DEF FileOK
  <2>4. ASSUME ~rst
        PROVE  InSync(outq, r', Input', left, owed, Told(~last), sending, bodyLeft)
    <3>1. r.content_length > 0
      BY <1>3, <2>2, Constants
    <3>2. PICK o \in Nat, p1 \in Phases, b1 \in Nat, d1 \in Nat :
            /\ CanRead(Coming(outq, r), ComingLen(outq, r), left, owed, Told(~last), 0, o,
                       Final(r))
            /\ CanWrite(Input', Len(Input'), p1, b1, d1, sending, bodyLeft)
            /\ o >= d1 /\ p1 = "body" /\ b1 > 0 /\ b1 = BodyLen - q.body_received
      BY <1>4, <2>1, <2>2, <2>4, <3>1, Zenon
    <3>3. Balance(r', o, d1, p1, b1)
      BY <1>3, <2>1, <2>2, <3>2, Constants DEF Balance
    <3>4. r'.req_handler # "null" /\ r'.ob = r.ob /\ r'.buffer_sent = r.buffer_sent
      BY <1>2, <1>3, <2>1
    <3> QED BY <1>1, <3>2, <3>3, <3>4, FrameAwaits, Zenon
  <2> QED BY <1>1, <1>3, <1>5, <2>1, <2>3, <2>4, FrameRequestStep
<1>6. CASE /\ q.content_length =< 0 \/ q.body_received >= q.content_length
           /\ ReqReturns(response_assemble_buffer(n), "OK") /\ connection_turn_out
  <2>1. r' = response_assemble_buffer(n) /\ pc' # "headers"
    BY <1>1, <1>2, <1>6, Returns
  <2>2. n \in Request
    BY <1>3, Updates, Zenon
  <2>3. /\ n.ib = q.ib /\ n.ob = q.ob /\ n.buffer_sent = q.buffer_sent /\ n.req_handler = "null"
        /\ n.res_handler = q.res_handler /\ n.err_req = q.err_req
        /\ n.response_done = q.response_done /\ n.transfer_encoding = q.transfer_encoding
        /\ n.resource_fd = q.resource_fd /\ n.resource_size = q.resource_size
        /\ n.file_left = q.file_left /\ n.keep_alive = q.keep_alive
    BY <1>3, <2>2, Zenon DEF Request
  <2> HIDE DEF n
  <2> DEFINE u == HeadUnit(FileLen, r.keep_alive)
             s == Append(<<>>, u)
  <2>4. r' = [n EXCEPT !.ob = s]
    <3>1. n.ob = <<>> /\ ~n.err_req /\ n.resource_size = FileLen /\ n.keep_alive = r.keep_alive
      BY <1>3, <2>3
    <3>2. response_assemble_buffer(n)
            = [n EXCEPT !.ob = Append(n.ob, HeadUnit(IF n.err_req THEN ErrLen
                                                     ELSE n.resource_size, n.keep_alive))]
      BY DEF response_assemble_buffer
    <3> QED BY <2>1, <3>1, <3>2, Zenon
  <2>5. Len(s) = 1 /\ s[1] = u
    <3> HIDE DEF u
    <3> QED OBVIOUS
  <2> HIDE DEF s
  <2>6. /\ r'.ob = s /\ r'.ib = n.ib /\ r'.buffer_sent = n.buffer_sent
        /\ r'.req_handler = n.req_handler
        /\ r'.res_handler = n.res_handler /\ r'.err_req = n.err_req
        /\ r'.response_done = n.response_done /\ r'.transfer_encoding = n.transfer_encoding
        /\ r'.resource_fd = n.resource_fd /\ r'.file_left = n.file_left
        /\ r'.keep_alive = n.keep_alive
    BY <2>2, <2>4, Zenon DEF Request
  <2>7. /\ r'.ob[1] = u /\ Len(r'.ob) = 1 /\ r'.ib = q.ib /\ r'.buffer_sent = 0
        /\ r'.req_handler = "null" /\ r'.res_handler = "send_buffer" /\ r'.err_req = FALSE
        /\ r'.response_done = FALSE /\ r'.transfer_encoding = "identity"
        /\ r'.resource_fd # "none" /\ r'.file_left = FileLen /\ r'.keep_alive = r.keep_alive
    BY <1>3, <2>3, <2>5, <2>6
  <2>8. FileOK(r')
    BY <2>7 DEF FileOK
  <2>9. ASSUME ~rst
        PROVE  InSync(outq, r', Input', left, owed, Told(~last), sending, bodyLeft)
    <3>1. r.content_length =< 0 \/ q.body_received >= BodyLen
      BY <1>2, <1>3, <1>6
    <3>2. PICK o \in Nat, p1 \in Phases, b1 \in Nat, d1 \in Nat :
            /\ CanRead(Coming(outq, r), ComingLen(outq, r), left, owed, Told(~last), 0, o,
                       Final(r))
            /\ CanWrite(Input', Len(Input'), p1, b1, d1, sending, bodyLeft)
            /\ o >= d1 + 1
      BY <1>4, <2>7, <2>9, <3>1, Zenon
    <3>3. o > 0 /\ o - 1 \in Nat /\ o - 1 >= d1
      BY <3>2
    <3>4. /\ FileLen \in Nat /\ Len(r'.ob) \in Nat /\ Len(r'.ob) > 0 /\ r.keep_alive \in BOOLEAN
          /\ FileUnits(r') \in Nat /\ Len(r'.ob) + FileUnits(r') = 1 + FileLen
          /\ Final(r') = Told(r.keep_alive)
      BY <1>2, <2>7, Constants DEF FileUnits, Final, Told
    <3>5. BodyFrom(r'.ob, 2, Len(r'.ob))
      <4>1. 2 .. 1 = {}
        OBVIOUS
      <4>2. 2 .. Len(r'.ob) = {}
        BY <2>7, <4>1, Zenon
      <4> QED BY <4>2, Zenon DEF BodyFrom
    <3>6. r'.ob[1] = HeadUnit(FileLen, r.keep_alive)
      BY <2>7
    <3>7. CanRead(Coming(outq, r'), ComingLen(outq, r'), left, owed, Told(~last), 0, o - 1,
                  Final(r'))
      BY <1>1, <2>7, <3>2, <3>3, <3>4, <3>5, <3>6, FrameAnswers, Zenon
    <3>8. Balance(r', o - 1, d1, p1, b1)
      BY <2>7, <3>3 DEF Balance
    <3> QED BY <3>2, <3>3, <3>7, <3>8, Zenon DEF InSync
  <2> QED BY <1>1, <2>1, <2>7, <2>8, <2>9, FrameRequestStep
<1> QED BY <1>2, <1>5, <1>6 DEF request_handle_body, q, n

-----------------------------------------------------------------------------
(***************************************************************************)
(* The handlers of a response.                                             *)
(***************************************************************************)

\* Where a response is sent, the request has been read.
LEMMA FrameSending ==
  ASSUME ExchangeInv, FrameInv, pc = "res"
  PROVE  /\ r \in Request /\ LoopOK /\ open /\ events = {"OUT"} /\ FileOK(r)
         /\ r.req_handler = "null" /\ r.keep_alive \in BOOLEAN /\ r.err_req \in BOOLEAN
         /\ r.response_done \in BOOLEAN
         /\ r.response_done => r.err_req
         /\ r.err_req => ~r.keep_alive /\ r.response_done /\ r.res_handler = "send_buffer"
         /\ ~r.err_req => r.resource_fd # "none"
         /\ r.res_handler = "send_file" => r.ob = <<>> /\ r.buffer_sent = 0
         /\ r.transfer_encoding = "identity"
<1>1. /\ r \in Request /\ LoopOK /\ open /\ events = {"OUT"} /\ (r.response_done => r.err_req)
      /\ r.res_handler = "send_file" => r.ob = <<>> /\ r.buffer_sent = 0
  BY SendingFacts
<1>2. r.req_handler = "null" /\ FileOK(r) /\ ~(r.err_req /\ r.res_handler = "send_file")
  BY <1>1 DEF FrameInv, PlaceOK, Closing
<1>3. /\ r.keep_alive \in BOOLEAN /\ r.err_req \in BOOLEAN /\ r.response_done \in BOOLEAN
      /\ r.res_handler \in {"send_buffer", "send_file"}
  BY <1>1, Zenon DEF Request
<1>4. /\ r.err_req => ~r.keep_alive /\ r.response_done
      /\ ~r.err_req => r.resource_fd # "none"
      /\ r.transfer_encoding = "identity"
  BY <1>2 DEF FileOK
<1> QED BY <1>1, <1>2, <1>3, <1>4

\* The same units are on their way, wherever each of them is.
SameUnits(out, z) ==
  /\ ComingLen(out, z) = ComingLen(outq, r)
  /\ Agree(Coming(outq, r), Coming(out, z), ComingLen(outq, r), 0)

\* Then the client reads it in the same way.
LEMMA FrameStream ==
  ASSUME ExchangeInv, FrameInv, pc = "res", ~rst, NEW out, NEW z, SameUnits(out, z),
         z.req_handler = "null", z.keep_alive = r.keep_alive, z.err_req = r.err_req
  PROVE  InSync(out, z, Input, left, owed, Told(~last), sending, bodyLeft)
<1> DEFINE n == ComingLen(outq, r)
           S == Coming(outq, r)
           T == Coming(out, z)
<1>1. PICK o \in Nat, p \in Phases, b \in Nat, d \in Nat :
        /\ CanRead(S, n, left, owed, Told(~last), 0, o, Final(r))
        /\ CanWrite(Input, Len(Input), p, b, d, sending, bodyLeft)
        /\ Balance(r, o, d, p, b)
  BY FrameSending, Zenon DEF FrameInv, FrameOK, InSync
<1>2. n \in Nat /\ ComingLen(out, z) = n /\ Agree(S, T, n, 0)
  BY LenComing DEF SameUnits
<1>3. Final(z) = Final(r)
  BY FrameSending, Zenon DEF Final
<1>4. Balance(z, o, d, p, b)
  BY <1>1 DEF Balance
<1> HIDE DEF n, S, T
<1>5. CanRead(T, n, left, owed, Told(~last), 0, o, Final(r))
  BY <1>1, <1>2, ReadSame, Zenon
<1>6. CanRead(Coming(out, z), ComingLen(out, z), left, owed, Told(~last), 0, o, Final(z))
  BY <1>2, <1>3, <1>5, Zenon DEF T
<1> QED BY <1>1, <1>4, <1>6, Zenon DEF InSync

\* request_reset forgets what was received of the requests behind this one: the
\* client is owed at least the responses to those that are left.
LEMMA FrameReset ==
  ASSUME ExchangeInv, FrameInv, pc = "res", ~rst, r' = FreshRequest, inq' = inq,
         r.keep_alive = TRUE,
         NEW z, SameUnits(outq, z), ComingLen(outq, z) = Len(outq)
  PROVE  InSync(outq, r', Input', left, owed, Told(~last), sending, bodyLeft)
<1> DEFINE m == Len(outq)
           S == Coming(outq, r)
           T == Coming(outq, r')
           k == Len(r.ib)
           N == Len(Input)
           J == Input'
<1>1. PICK o \in Nat, p \in Phases, b \in Nat, d \in Nat :
        /\ CanRead(S, ComingLen(outq, r), left, owed, Told(~last), 0, o, Final(r))
        /\ CanWrite(Input, N, p, b, d, sending, bodyLeft)
        /\ Balance(r, o, d, p, b)
  BY FrameSending, Zenon DEF FrameInv, FrameOK, InSync
<1>2. ComingLen(outq, r) = m /\ m \in Nat
  BY FrameTypes DEF SameUnits
<1>3. Final(r) = 0 /\ r.err_req = FALSE /\ o >= d
  BY <1>1, FrameSending DEF Final, Balance
<1>4. ComingLen(outq, r') = m /\ Final(r') = 0
  <2>1. Len(r'.ob) = 0 /\ r'.buffer_sent = 0 /\ r'.req_handler = "request_line"
    BY FreshTyped
  <2> QED BY <1>2, <2>1 DEF ComingLen, FileUnits, Final
<1>5. Agree(S, T, m, 0)
  <2>1. \A i \in Nat : i =< m => S[i] = outq[i] /\ T[i] = outq[i]
    BY DEF Coming
  <2>2. \A i \in 1 .. m : i \in Nat /\ i =< m /\ i + 0 = i
    BY <1>2
  <2> HIDE DEF S, T, m
  <2> QED BY <2>1, <2>2 DEF Agree
<1>6. N \in Nat /\ k \in 0 .. N /\ Len(J) = N - k /\ Agree(Input, J, N - k, k)
  BY FreshTyped, FrameDropped
<1> HIDE DEF m, S, T, k, N, J
<1>7. CanRead(T, m, left, owed, Told(~last), 0, o, 0)
  <2>1. CanRead(S, m, left, owed, Told(~last), 0, o, 0)
    BY <1>1, <1>2, <1>3, Zenon
  <2> QED BY <1>2, <1>5, <2>1, ReadSame, Zenon
<1>8. PICK p1 \in Phases, b1 \in Nat, d1 \in 0 .. d : CanWrite(J, N - k, p1, b1, d1, sending, bodyLeft)
  BY <1>1, <1>6, WroteLess, Zenon
<1>9. d1 \in Nat /\ o >= d1
  BY <1>3, <1>8
<1>10. Balance(r', o, d1, p1, b1)
  BY <1>9, FreshTyped DEF Balance
<1>11. /\ CanRead(Coming(outq, r'), ComingLen(outq, r'), left, owed, Told(~last), 0, o, Final(r'))
       /\ CanWrite(Input', Len(Input'), p1, b1, d1, sending, bodyLeft)
  BY <1>4, <1>6, <1>7, <1>8, Zenon DEF T, J
<1> QED BY <1>9, <1>10, <1>11, Zenon DEF InSync

\* A step of the worker while it sends.
LEMMA FrameResponseStep ==
  ASSUME ExchangeInv, FrameInv, pc = "res", UNCHANGED resUnchanged,
         FileOK(r'), rst => outq' = outq, pc' # "headers",
         events' = {"OUT"} => r'.req_handler = "null",
         r'.err_req /\ r'.res_handler = "send_file" => Closing',
         ~rst => InSync(outq', r', Input', left, owed, Told(~last), sending, bodyLeft)
  PROVE  FrameInv'
<1>1. UNCHANGED <<sending, bodyLeft, owed, left, last, garbled, rst, open>>
  BY DEF resUnchanged, clientVars
<1>2. ~rst' => InSync(outq', r', Input', left', owed', Told(~last'), sending', bodyLeft')
  BY <1>1, Zenon
<1>3. FrameOK'
  BY <1>1, <1>2, FrameSending, FrameNext
<1>4. PlaceOK'
  BY DEF PlaceOK
<1>5. Framed /\ ~garbled /\ rst \in BOOLEAN /\ (rst => outq = <<>>)
  BY DEF FrameInv
<1> QED BY <1>1, <1>3, <1>4, <1>5, Zenon DEF FrameInv, Framed

\* A response handler that returns with request q: what it has taken from the
\* request it has put into the socket, and a response that is done is all there.
LEMMA FrameResponse ==
  ASSUME ExchangeInv, FrameInv, pc = "res", UNCHANGED <<resUnchanged, outq>>,
         NEW q, NEW S, NEW status \in {"OK", "AGAIN", "ERROR"}, ResReturns(q, S, status),
         q.ib = r.ib, q.req_handler = "null", q.keep_alive = r.keep_alive,
         q.err_req = r.err_req, FileOK(q), SameUnits(outq, q),
         q.response_done /\ q.keep_alive => ComingLen(outq, q) = Len(outq)
  PROVE  FrameInv'
<1>1. UNCHANGED resUnchanged /\ outq' = outq /\ inq' = inq
  BY DEF resUnchanged
<1>2. ASSUME r' = q, ~rst
      PROVE  InSync(outq', r', Input', left, owed, Told(~last), sending, bodyLeft)
  <2>1. Input' = Input
    BY <1>1, <1>2 DEF Input
  <2>2. InSync(outq, q, Input, left, owed, Told(~last), sending, bodyLeft)
    BY <1>2, FrameStream
  <2> QED BY <1>1, <1>2, <2>1, <2>2, Zenon
<1>3. CASE status = "OK" /\ ~q.response_done
  <2>1. r' = q /\ UNCHANGED <<pc, age>>
    BY <1>3 DEF ResReturns
  <2>2. ~q.err_req
    BY <1>3 DEF FileOK
  <2> QED BY <1>1, <1>2, <2>1, <2>2, FrameResponseStep
<1>4. CASE q.response_done /\ q.keep_alive
  <2>1. r' = FreshRequest /\ events' = {"IN"} /\ Handled(status)
    BY <1>4 DEF ResReturns, request_reset, epoll_mod
  <2>2. pc' = "prune"
    BY <2>1, HandledOnce, FrameSending
  <2>3. ~rst => InSync(outq, r', Input', left, owed, Told(~last), sending, bodyLeft)
    BY <1>1, <1>4, <2>1, FrameReset, FrameSending
  <2>4. FileOK(r') /\ ~r'.err_req
    BY <2>1, FreshFile
  <2> QED BY <1>1, <2>1, <2>2, <2>3, <2>4, FrameResponseStep
<1>5. CASE ~(status = "OK" /\ ~q.response_done) /\ ~(q.response_done /\ q.keep_alive)
  <2> DEFINE st == IF q.response_done THEN "ERROR" ELSE status
  <2>1. r' = q /\ Handled(st)
    BY <1>5 DEF ResReturns
  <2>2. pc' = "prune" /\ age' = IF st = "ERROR" THEN "failed" ELSE "young"
    BY <2>1, HandledOnce, FrameSending
  <2>3. q.err_req => Closing'
    <3>1. q.err_req => q.response_done
      BY DEF FileOK
    <3> QED BY <2>2, <3>1 DEF Closing
  <2> QED BY <1>1, <1>2, <2>1, <2>2, <2>3, FrameResponseStep
<1> QED BY <1>3, <1>4, <1>5

\* A request whose fields are the same has the same units to send.
LEMMA SameUnitsSame ==
  ASSUME ExchangeInv, NEW z, SameFrame(r, z)
  PROVE  SameUnits(outq, z)
<1>1. Coming(outq, z) = Coming(outq, r) /\ ComingLen(outq, z) = ComingLen(outq, r)
  BY SameComing, Zenon
<1>2. \A i \in 1 .. ComingLen(outq, r) : i + 0 = i
  BY LenComing
<1> QED BY <1>1, <1>2, Zenon DEF SameUnits, Agree

\* The counts behind a step that moves n units of the buffer to the socket.
LEMMA Moved ==
  ASSUME NEW m \in Nat, NEW c \in Nat, NEW k \in Nat, NEW n \in Nat, k + n =< c,
         NEW f \in Nat
  PROVE  /\ (m + n) + (c - (k + n)) = m + (c - k)
         /\ (m + n) + (c - (k + n)) + f = m + (c - k) + f
         /\ \A i \in Nat : i - (m + n) + (k + n) = i - m + k
         /\ \A i \in Nat : m < i /\ i =< m + n =>
              /\ i =< m + (c - k) /\ i - m \in 1 .. n
              /\ (k + 1) + (i - m) - 1 = i - m + k
OBVIOUS

\* A piece of a sequence.
LEMMA PieceAt ==
  ASSUME NEW s \in Seq(AllUnits), NEW k \in Nat, NEW n \in Nat, k + n =< Len(s)
  PROVE  /\ SubSeq(s, k + 1, k + n) \in Seq(AllUnits) /\ Len(SubSeq(s, k + 1, k + n)) = n
         /\ \A i \in 1 .. n : SubSeq(s, k + 1, k + n)[i] = s[(k + 1) + i - 1]
<1> DEFINE f == k + 1
           g == k + n
<1>1. f \in Nat \ {0} /\ g \in Nat /\ g =< Len(s) /\ n = g - f + 1
  OBVIOUS
<1> HIDE DEF f, g
<1>2. SubSeq(s, f, g) \in Seq(AllUnits) /\ Len(SubSeq(s, f, g)) = n
  BY <1>1, Pieces, Zenon
<1>3. \A i \in 1 .. n : SubSeq(s, f, g)[i] = s[f + i - 1]
  BY <1>1
<1> QED BY <1>2, <1>3, Zenon DEF f, g

\* What send has taken from the buffer is in the socket.
LEMMA FrameBufferMoves ==
  ASSUME ExchangeInv, NEW n \in Nat, n =< Len(r.ob) - r.buffer_sent,
         NEW out, out = outq \o SubSeq(r.ob, r.buffer_sent + 1, r.buffer_sent + n),
         NEW z, z.ob = r.ob, z.buffer_sent = r.buffer_sent + n, FileUnits(z) = FileUnits(r)
  PROVE  SameUnits(out, z)
<1> DEFINE m == Len(outq)
           k == r.buffer_sent
           c == Len(r.ob)
           f == FileUnits(r)
           piece == SubSeq(r.ob, k + 1, k + n)
           S == Coming(outq, r)
           T == Coming(out, z)
<1>1. /\ m \in Nat /\ k \in Nat /\ c \in Nat /\ f \in Nat /\ k + n =< c
      /\ outq \in Seq(AllUnits) /\ r.ob \in Seq(AllUnits)
  <2>1. /\ m \in Nat /\ k \in Nat /\ c \in Nat /\ outq \in Seq(AllUnits) /\ r.ob \in Seq(AllUnits)
    BY FrameTypes
  <2>2. f \in Nat
    BY LenComing
  <2> HIDE DEF f, m
  <2> QED BY <2>1, <2>2
<1>2. /\ piece \in Seq(AllUnits) /\ Len(piece) = n
      /\ \A i \in 1 .. n : piece[i] = r.ob[(k + 1) + i - 1]
  BY <1>1, PieceAt
<1> HIDE DEF piece
<1>3. /\ Len(out) = m + n /\ \A i \in 1 .. m : out[i] = outq[i]
      /\ \A i \in 1 .. m + n : i > m => out[i] = piece[i - m]
  <2>1. out = outq \o piece
    BY DEF piece
  <2>2. Len(out) = m + n
    BY <1>1, <1>2, <2>1, Longer, Zenon
  <2>3. /\ \A i \in 1 .. Len(outq) : (outq \o piece)[i] = outq[i]
        /\ \A i \in 1 .. Len(outq) + Len(piece) : i > Len(outq) => (outq \o piece)[i] = piece[i - Len(outq)]
    BY <1>1, <1>2, Joined
  <2>4. 1 .. Len(outq) + Len(piece) = 1 .. m + n
    BY <1>2, Zenon
  <2> QED BY <2>1, <2>2, <2>3, <2>4, Zenon
<1>4. \A i \in Nat : S[i] = IF i =< m THEN outq[i]
                            ELSE IF i =< m + (c - k) THEN r.ob[i - m + k] ELSE BodyUnit
  BY DEF Coming
<1>5. \A i \in Nat : T[i] = IF i =< m + n THEN out[i]
                            ELSE IF i =< (m + n) + (c - (k + n)) THEN r.ob[i - (m + n) + (k + n)]
                            ELSE BodyUnit
  <2>1. \A i \in Nat : T[i] = IF i =< Len(out) THEN out[i]
                              ELSE IF i =< Len(out) + (Len(z.ob) - z.buffer_sent)
                              THEN z.ob[i - Len(out) + z.buffer_sent]
                              ELSE BodyUnit
    BY DEF Coming
  <2> HIDE DEF T
  <2> SUFFICES ASSUME NEW i \in Nat
               PROVE  T[i] = IF i =< m + n THEN out[i]
                             ELSE IF i =< (m + n) + (c - (k + n))
                             THEN r.ob[i - (m + n) + (k + n)] ELSE BodyUnit
    OBVIOUS
  <2>2. Len(out) = m + n /\ z.ob = r.ob /\ Len(z.ob) = c /\ z.buffer_sent = k + n
    BY <1>3
  <2> HIDE DEF m, k, c
  <2> QED BY <2>1, <2>2, Zenon
<1>6. ComingLen(out, z) = (m + n) + (c - (k + n)) + f /\ ComingLen(outq, r) = m + (c - k) + f
  BY <1>3, Zenon DEF ComingLen
<1> HIDE DEF m, k, c, f, S, T
<1>7. /\ (m + n) + (c - (k + n)) = m + (c - k)
      /\ (m + n) + (c - (k + n)) + f = m + (c - k) + f
      /\ \A i \in Nat : i - (m + n) + (k + n) = i - m + k
      /\ \A i \in Nat : m < i /\ i =< m + n =>
           /\ i =< m + (c - k) /\ i - m \in 1 .. n
           /\ (k + 1) + (i - m) - 1 = i - m + k
  BY <1>1, Moved
<1>8. ASSUME NEW i \in Nat, i >= 1 PROVE T[i] = S[i]
  <2>1. CASE i =< m
    <3>1. i =< m + n /\ i \in 1 .. m
      BY <1>1, <1>8, <2>1
    <3> QED BY <1>3, <1>4, <1>5, <2>1, <3>1, Zenon
  <2>2. CASE ~(i =< m) /\ i =< m + n
    <3>1. m < i /\ i \in 1 .. m + n /\ i > m
      BY <1>1, <1>8, <2>2
    <3>2. i =< m + (c - k) /\ i - m \in 1 .. n /\ (k + 1) + (i - m) - 1 = i - m + k
      BY <1>7, <2>2, <3>1, Zenon
    <3>3. S[i] = r.ob[i - m + k]
      BY <1>4, <2>2, <3>2, Zenon
    <3>4. T[i] = piece[i - m]
      BY <1>3, <1>5, <2>2, <3>1, Zenon
    <3> QED BY <1>2, <3>2, <3>3, <3>4, Zenon
  <2>3. CASE ~(i =< m) /\ ~(i =< m + n)
    <3>1. T[i] = IF i =< m + (c - k) THEN r.ob[i - m + k] ELSE BodyUnit
      BY <1>5, <1>7, <2>3, Zenon
    <3>2. S[i] = IF i =< m + (c - k) THEN r.ob[i - m + k] ELSE BodyUnit
      BY <1>4, <2>3, Zenon
    <3> QED BY <3>1, <3>2, Zenon
  <2>4. i =< m => i =< m + n
    BY <1>1
  <2> QED BY <2>1, <2>2, <2>3
<1>9. \A i \in 1 .. ComingLen(outq, r) : i \in Nat /\ i >= 1 /\ i + 0 = i
  BY LenComing
<1> QED BY <1>6, <1>7, <1>8, <1>9, Zenon DEF SameUnits, Agree, S, T

\* What sendfile has taken from the file is in the socket.
LEMMA FrameFileMoves ==
  ASSUME ExchangeInv, r.ob = <<>>, r.buffer_sent = 0, NEW n \in Nat,
         NEW out, out = outq \o Units(n),
         NEW z, z.ob = r.ob, z.buffer_sent = r.buffer_sent, n + FileUnits(z) = FileUnits(r),
         FileUnits(z) \in Nat
  PROVE  SameUnits(out, z)
<1> DEFINE m == Len(outq)
           us == Units(n)
           S == Coming(outq, r)
           T == Coming(out, z)
<1>1. m \in Nat /\ outq \in Seq(AllUnits) /\ FileUnits(r) \in Nat
  BY FrameTypes, LenComing
<1>2. us \in Seq(AllUnits) /\ Len(us) = n /\ \A i \in 1 .. n : us[i] = BodyUnit
  <2>1. \A i \in 1 .. n : us[i] = BodyUnit
    BY DEF Units
  <2> QED BY <2>1, UnitsTyped
<1> HIDE DEF us
<1>3. /\ Len(out) = m + n /\ \A i \in 1 .. m : out[i] = outq[i]
      /\ \A i \in 1 .. m + n : i > m => out[i] = us[i - m]
  <2>1. out = outq \o us
    BY DEF us
  <2>2. Len(out) = m + n
    BY <1>1, <1>2, <2>1, Longer, Zenon
  <2>3. /\ \A i \in 1 .. Len(outq) : (outq \o us)[i] = outq[i]
        /\ \A i \in 1 .. Len(outq) + Len(us) : i > Len(outq) => (outq \o us)[i] = us[i - Len(outq)]
    BY <1>1, <1>2, Joined
  <2>4. 1 .. Len(outq) + Len(us) = 1 .. m + n
    BY <1>2, Zenon
  <2> QED BY <2>1, <2>2, <2>3, <2>4, Zenon
<1>4. Len(<<>>) = 0
  OBVIOUS
<1>5. \A i \in Nat : S[i] = IF i =< m THEN outq[i] ELSE BodyUnit
  <2>1. \A i \in Nat : S[i] = IF i =< m THEN outq[i]
                              ELSE IF i =< m + (0 - 0) THEN r.ob[i - m + 0] ELSE BodyUnit
    BY <1>4 DEF Coming
  <2> HIDE DEF m, S
  <2> QED BY <1>1, <2>1
<1>6. \A i \in Nat : T[i] = IF i =< m + n THEN out[i] ELSE BodyUnit
  <2>1. \A i \in Nat : T[i] = IF i =< Len(out) THEN out[i]
                              ELSE IF i =< Len(out) + (0 - 0) THEN z.ob[i - Len(out) + 0]
                              ELSE BodyUnit
    BY <1>4 DEF Coming
  <2> HIDE DEF m, T
  <2>2. m + n \in Nat /\ \A i \in Nat : i =< (m + n) + (0 - 0) <=> i =< m + n
    BY <1>1
  <2>3. Len(out) = m + n
    BY <1>3
  <2> SUFFICES ASSUME NEW i \in Nat PROVE T[i] = IF i =< m + n THEN out[i] ELSE BodyUnit
    OBVIOUS
  <2>4. T[i] = IF i =< m + n THEN out[i]
               ELSE IF i =< (m + n) + (0 - 0) THEN z.ob[i - (m + n) + 0]
               ELSE BodyUnit
    BY <2>1, <2>3, Zenon
  <2> QED BY <2>2, <2>4
<1>7. ComingLen(out, z) = ComingLen(outq, r)
  <2>1. /\ ComingLen(out, z) = (m + n) + (0 - 0) + FileUnits(z)
        /\ ComingLen(outq, r) = m + (0 - 0) + FileUnits(r)
    BY <1>3, <1>4, Zenon DEF ComingLen
  <2> HIDE DEF m
  <2> QED BY <1>1, <2>1
<1> HIDE DEF m, S, T
<1>8. ASSUME NEW i \in Nat, i >= 1 PROVE T[i] = S[i]
  <2>1. CASE i =< m
    <3>1. i =< m + n /\ i \in 1 .. m
      BY <1>1, <1>8, <2>1
    <3> QED BY <1>3, <1>5, <1>6, <2>1, <3>1, Zenon
  <2>2. CASE ~(i =< m) /\ i =< m + n
    <3>1. i \in 1 .. m + n /\ i > m /\ i - m \in 1 .. n
      BY <1>1, <1>8, <2>2
    <3> QED BY <1>2, <1>3, <1>5, <1>6, <2>2, <3>1, Zenon
  <2>3. CASE ~(i =< m) /\ ~(i =< m + n)
    BY <1>5, <1>6, <2>3, Zenon
  <2> QED BY <2>1, <2>2, <2>3
<1>9. \A i \in 1 .. ComingLen(outq, r) : i \in Nat /\ i >= 1 /\ i + 0 = i
  BY LenComing
<1> QED BY <1>7, <1>8, <1>9, Zenon DEF SameUnits, Agree, S, T

\* One call of send, and what the handler makes of an empty buffer.
LEMMA FrameSendBuffer ==
  ASSUME ExchangeInv, FrameInv, response_handle_send_buffer
  PROVE  FrameInv'
<1> DEFINE unsent == Len(r.ob) - r.buffer_sent
           n == Min({unsent, Room})
           q == ob_sent(r)
<1>1. pc = "res" /\ UNCHANGED resUnchanged /\ inq' = inq
  BY DEF response_handle_send_buffer, resUnchanged
<1>2. /\ r \in Request /\ r.req_handler = "null" /\ FileOK(r) /\ events = {"OUT"}
      /\ ~(r.response_done /\ r.keep_alive)
      /\ r.err_req => ~r.keep_alive /\ r.response_done /\ r.res_handler = "send_buffer"
      /\ ~r.err_req => r.resource_fd # "none"
      /\ r.transfer_encoding = "identity"
  BY <1>1, FrameSending
<1>3. ASSUME NEW status \in {"AGAIN", "ERROR"}, ResReturns(r, events, status), outq' = outq
      PROVE  FrameInv'
  <2>1. SameFrame(r, r)
    BY DEF SameFrame
  <2>2. SameUnits(outq, r)
    BY <2>1, SameUnitsSame
  <2> QED BY <1>1, <1>2, <1>3, <2>2, FrameResponse
<1>4. CASE /\ ~rst /\ unsent > 0 /\ Room > 0
           /\ outq' = outq \o SubSeq(r.ob, r.buffer_sent + 1, r.buffer_sent + n)
           /\ r' = [r EXCEPT !.buffer_sent = @ + n]
           /\ UNCHANGED <<epollVars, pc, age, mask, leaked>>
  <2>1. n \in Nat /\ n =< unsent
    <3>1. unsent \in Nat /\ Room \in Nat
      BY <1>1, SendingFacts
    <3>2. unsent \in Int /\ Room \in Int
      BY <3>1
    <3> HIDE DEF unsent
    <3>3. n \in {unsent, Room} /\ n =< unsent
      BY <3>2, MinOfTwo, Zenon
    <3> QED BY <3>1, <3>3
  <2> DEFINE m == r.buffer_sent + n
  <2>2. r' = [r EXCEPT !.buffer_sent = m]
    BY <1>4
  <2> HIDE DEF m
  <2>3. /\ r'.buffer_sent = m /\ r'.ib = r.ib /\ r'.ob = r.ob /\ r'.req_handler = r.req_handler
        /\ r'.res_handler = r.res_handler /\ r'.err_req = r.err_req
        /\ r'.response_done = r.response_done /\ r'.transfer_encoding = r.transfer_encoding
        /\ r'.resource_fd = r.resource_fd /\ r'.resource_size = r.resource_size
        /\ r'.file_left = r.file_left /\ r'.keep_alive = r.keep_alive
        /\ r'.content_length = r.content_length /\ r'.body_received = r.body_received
    BY <1>2, <2>2, Zenon DEF Request
  <2>4. FileUnits(r') = FileUnits(r)
    BY <2>3, Zenon DEF FileUnits
  <2>5. SameUnits(outq', r')
    <3>1. /\ n =< Len(r.ob) - r.buffer_sent /\ r'.buffer_sent = r.buffer_sent + n
          /\ outq' = outq \o SubSeq(r.ob, r.buffer_sent + 1, r.buffer_sent + n)
      BY <1>4, <2>1, <2>3 DEF m
    <3> HIDE DEF n, unsent
    <3> QED BY <2>1, <2>3, <2>4, <3>1, FrameBufferMoves
  <2>6. FileOK(r')
    BY <1>2, <2>3 DEF FileOK
  <2>7. InSync(outq', r', Input', left, owed, Told(~last), sending, bodyLeft)
    <3>1. Input' = Input
      BY <1>1, <2>3 DEF Input
    <3>2. InSync(outq', r', Input, left, owed, Told(~last), sending, bodyLeft)
      BY <1>1, <1>2, <1>4, <2>3, <2>5, FrameStream
    <3> QED BY <3>1, <3>2, Zenon
  <2>8. UNCHANGED <<pc, age>> /\ ~rst
    BY <1>4
  <2>9. ~(r.err_req /\ r.res_handler = "send_file")
    BY <1>2
  <2> QED BY <1>1, <1>2, <2>3, <2>6, <2>7, <2>8, <2>9, FrameResponseStep
<1>5. CASE /\ unsent = 0 /\ outq' = outq
           /\ IF r.resource_fd # "none"
                THEN ResReturns([q EXCEPT !.res_handler = "send_file"], events, "OK")
                ELSE ResReturns([q EXCEPT !.response_done = TRUE], events \ {"OUT"}, "OK")
  <2>1. q = [r EXCEPT !.ob = <<>>, !.buffer_sent = 0]
    BY DEF ob_sent
  <2>2. <<>> \in Seq(AllUnits) /\ 0 \in Nat /\ Len(<<>>) = 0
    OBVIOUS
  <2> HIDE DEF q
  <2>3. q \in Request
    BY <1>2, <2>1, <2>2, Updates, Zenon
  <2>4. /\ q.ob = <<>> /\ q.buffer_sent = 0 /\ q.ib = r.ib /\ q.req_handler = r.req_handler
        /\ q.err_req = r.err_req /\ q.response_done = r.response_done
        /\ q.transfer_encoding = r.transfer_encoding /\ q.resource_fd = r.resource_fd
        /\ q.file_left = r.file_left /\ q.keep_alive = r.keep_alive
    BY <1>2, <2>1, Zenon DEF Request
  \* Nothing is lost with the buffer: all of it has been sent.
  <2>5. ASSUME NEW z, z.ob = <<>>, z.buffer_sent = 0, z.req_handler = r.req_handler,
               z.err_req = r.err_req, z.file_left = r.file_left
        PROVE  SameUnits(outq, z)
    <3> DEFINE m == Len(outq)
               k == r.buffer_sent
               c == Len(r.ob)
               S == Coming(outq, r)
               T == Coming(outq, z)
    <3>1. m \in Nat /\ k \in Nat /\ c \in Nat /\ c = k /\ c - k = 0 /\ m + (c - k) = m
      <4>1. m \in Nat /\ k \in Nat /\ c \in Nat
        BY FrameTypes
      <4>2. c - k = 0
        BY <1>5
      <4> HIDE DEF m, k, c
      <4> QED BY <4>1, <4>2
    <3>2. FileUnits(z) = FileUnits(r)
      BY <2>5, Zenon DEF FileUnits
    <3>3. ComingLen(outq, z) = ComingLen(outq, r)
      <4>1. /\ ComingLen(outq, z) = m + (0 - 0) + FileUnits(r)
            /\ ComingLen(outq, r) = m + (c - k) + FileUnits(r)
        BY <2>2, <2>5, <3>2, Zenon DEF ComingLen
      <4>2. 0 - 0 = 0
        OBVIOUS
      <4> QED BY <3>1, <4>1, <4>2, Zenon
    <3>4. \A i \in Nat : S[i] = IF i =< m THEN outq[i]
                                ELSE IF i =< m + (c - k) THEN r.ob[i - m + k] ELSE BodyUnit
      BY DEF Coming
    <3>5. \A i \in Nat : T[i] = IF i =< m THEN outq[i]
                                ELSE IF i =< m + (0 - 0) THEN z.ob[i - m + 0] ELSE BodyUnit
      BY <2>2, <2>5 DEF Coming
    <3>6. m + (0 - 0) = m
      BY <3>1
    <3> HIDE DEF m, k, c, S, T
    <3>7. \A i \in Nat : T[i] = S[i]
      <4> SUFFICES ASSUME NEW i \in Nat PROVE T[i] = S[i]
        OBVIOUS
      <4>1. CASE i =< m
        BY <3>4, <3>5, <4>1, Zenon
      <4>2. CASE ~(i =< m)
        <5>1. S[i] = BodyUnit
          BY <3>1, <3>4, <4>2, Zenon
        <5>2. T[i] = BodyUnit
          BY <3>5, <3>6, <4>2, Zenon
        <5> QED BY <5>1, <5>2
      <4> QED BY <4>1, <4>2
    <3>8. \A i \in 1 .. ComingLen(outq, r) : i \in Nat /\ i + 0 = i
      BY LenComing
    <3> QED BY <3>3, <3>7, <3>8, Zenon DEF SameUnits, Agree, S, T
  <2>6. UNCHANGED <<resUnchanged, outq>>
    BY <1>1, <1>5
  <2>7. CASE r.resource_fd # "none"
    <3> DEFINE z == [q EXCEPT !.res_handler = "send_file"]
    <3>1. ResReturns(z, events, "OK")
      BY <1>5, <2>7
    <3>2. /\ z.ob = q.ob /\ z.buffer_sent = q.buffer_sent /\ z.ib = q.ib
          /\ z.req_handler = q.req_handler /\ z.err_req = q.err_req
          /\ z.response_done = q.response_done /\ z.transfer_encoding = q.transfer_encoding
          /\ z.resource_fd = q.resource_fd /\ z.file_left = q.file_left
          /\ z.keep_alive = q.keep_alive
      BY <2>3, Zenon DEF Request
    <3> HIDE DEF z
    <3>3. SameUnits(outq, z)
      BY <2>4, <2>5, <3>2
    <3>4. FileOK(z)
      BY <1>2, <2>4, <2>7, <3>2 DEF FileOK
    <3>5. ~(z.response_done /\ z.keep_alive) /\ z.ib = r.ib /\ z.req_handler = "null"
          /\ z.keep_alive = r.keep_alive /\ z.err_req = r.err_req
      BY <1>2, <2>4, <3>2
    <3> QED BY <1>1, <2>6, <3>1, <3>3, <3>4, <3>5, FrameResponse
  <2>8. CASE r.resource_fd = "none"
    <3> DEFINE z == [q EXCEPT !.response_done = TRUE]
    <3>1. ResReturns(z, events \ {"OUT"}, "OK")
      BY <1>5, <2>8
    <3>2. /\ z.ob = q.ob /\ z.buffer_sent = q.buffer_sent /\ z.ib = q.ib
          /\ z.req_handler = q.req_handler /\ z.err_req = q.err_req
          /\ z.response_done = TRUE /\ z.transfer_encoding = q.transfer_encoding
          /\ z.resource_fd = q.resource_fd /\ z.file_left = q.file_left
          /\ z.keep_alive = q.keep_alive
      BY <2>3, Zenon DEF Request
    <3> HIDE DEF z
    <3>3. SameUnits(outq, z)
      BY <2>4, <2>5, <3>2
    <3>4. r.err_req /\ ~z.keep_alive
      BY <1>2, <2>4, <2>8, <3>2
    <3>5. FileOK(z)
      BY <1>2, <2>4, <3>2, <3>4 DEF FileOK
    <3>6. z.ib = r.ib /\ z.req_handler = "null"
          /\ z.keep_alive = r.keep_alive /\ z.err_req = r.err_req
      BY <1>2, <2>4, <3>2
    <3> QED BY <1>1, <2>6, <3>1, <3>3, <3>4, <3>5, <3>6, FrameResponse
  <2> QED BY <2>7, <2>8
<1> QED BY <1>3, <1>4, <1>5 DEF response_handle_send_buffer

\* One call of sendfile, and the end of the file.
LEMMA FrameSendFile ==
  ASSUME ExchangeInv, FrameInv, response_handle_send_file
  PROVE  FrameInv'
<1> DEFINE n == Min({r.file_left, Room})
<1>1. pc = "res" /\ r.res_handler = "send_file" /\ UNCHANGED resUnchanged /\ inq' = inq
  BY DEF response_handle_send_file, resUnchanged
<1>2. /\ r \in Request /\ r.req_handler = "null" /\ FileOK(r) /\ events = {"OUT"}
      /\ ~(r.response_done /\ r.keep_alive) /\ r.err_req = FALSE
      /\ r.resource_fd # "none" /\ r.transfer_encoding = "identity"
      /\ r.ob = <<>> /\ r.buffer_sent = 0
  BY <1>1, FrameSending
<1>3. FileUnits(r) = r.file_left /\ r.file_left \in Nat
  BY <1>2, FrameTypes DEF FileUnits
<1>4. ASSUME NEW status \in {"AGAIN", "ERROR"}, ResReturns(r, events, status), outq' = outq
      PROVE  FrameInv'
  <2>1. SameFrame(r, r)
    BY DEF SameFrame
  <2>2. SameUnits(outq, r)
    BY <2>1, SameUnitsSame
  <2> QED BY <1>1, <1>2, <1>4, <2>2, FrameResponse
<1>5. CASE /\ ~rst /\ r.file_left > 0 /\ Room > 0
           /\ outq' = outq \o Units(n)
           /\ r' = [r EXCEPT !.file_left = @ - n]
           /\ UNCHANGED <<epollVars, pc, age, mask, leaked>>
  <2>1. n \in Nat /\ n =< r.file_left
    <3>1. Room \in Nat
      BY <1>1, SendingFacts
    <3>2. r.file_left \in Int /\ Room \in Int
      BY <1>3, <3>1
    <3>3. n \in {r.file_left, Room} /\ n =< r.file_left
      BY <3>2, MinOfTwo, Zenon
    <3> QED BY <1>3, <3>1, <3>3
  <2> DEFINE m == r.file_left - n
  <2>2. r' = [r EXCEPT !.file_left = m] /\ m \in Nat
    BY <1>3, <1>5, <2>1
  <2> HIDE DEF m
  <2>3. /\ r'.file_left = m /\ r'.ib = r.ib /\ r'.ob = r.ob /\ r'.req_handler = r.req_handler
        /\ r'.res_handler = r.res_handler /\ r'.err_req = r.err_req
        /\ r'.response_done = r.response_done /\ r'.transfer_encoding = r.transfer_encoding
        /\ r'.resource_fd = r.resource_fd /\ r'.buffer_sent = r.buffer_sent
        /\ r'.keep_alive = r.keep_alive
    BY <1>2, <2>2, Zenon DEF Request
  <2>4. FileUnits(r') = m
    BY <1>2, <2>3 DEF FileUnits
  <2>5. SameUnits(outq', r')
    <3>1. n + FileUnits(r') = FileUnits(r) /\ FileUnits(r') \in Nat
      BY <1>3, <2>1, <2>2, <2>4 DEF m
    <3>2. outq' = outq \o Units(n)
      BY <1>5
    <3> HIDE DEF n
    <3> QED BY <1>2, <2>1, <2>3, <3>1, <3>2, FrameFileMoves
  <2>6. FileOK(r')
    BY <1>2, <2>3 DEF FileOK
  <2>7. InSync(outq', r', Input', left, owed, Told(~last), sending, bodyLeft)
    <3>1. Input' = Input
      BY <1>1, <2>3 DEF Input
    <3>2. InSync(outq', r', Input, left, owed, Told(~last), sending, bodyLeft)
      BY <1>1, <1>2, <1>5, <2>3, <2>5, FrameStream
    <3> QED BY <3>1, <3>2, Zenon
  <2>8. UNCHANGED pc /\ ~rst
    BY <1>5
  <2> QED BY <1>1, <1>2, <2>3, <2>6, <2>7, <2>8, FrameResponseStep
<1>6. CASE r.file_left = 0 /\ ResReturns(file_sent(r), events, "OK") /\ outq' = outq
  <2> DEFINE z == file_sent(r)
  <2>1. z = [r EXCEPT !.response_done = TRUE, !.resource_fd = "closed"]
    BY DEF file_sent
  <2>2. ResReturns(z, events, "OK") /\ UNCHANGED <<resUnchanged, outq>>
    BY <1>1, <1>6
  <2> HIDE DEF z
  <2>3. /\ z.ob = r.ob /\ z.buffer_sent = r.buffer_sent /\ z.ib = r.ib
        /\ z.req_handler = r.req_handler /\ z.err_req = r.err_req
        /\ z.response_done = TRUE /\ z.transfer_encoding = r.transfer_encoding
        /\ z.resource_fd = "closed" /\ z.file_left = r.file_left
        /\ z.keep_alive = r.keep_alive /\ z.content_length = r.content_length
        /\ z.body_received = r.body_received
    BY <1>2, <2>1, Zenon DEF Request
  <2>4. SameUnits(outq, z)
    <3>1. SameFrame(r, z)
      BY <2>3, Zenon DEF SameFrame
    <3> QED BY <3>1, SameUnitsSame
  <2>5. FileOK(z)
    BY <1>2, <2>3 DEF FileOK
  <2>6. ComingLen(outq, z) = Len(outq)
    <3>1. Len(<<>>) = 0 /\ Len(outq) \in Nat
      BY FrameTypes
    <3>2. ComingLen(outq, z) = Len(outq) + (0 - 0) + 0
      BY <1>2, <1>6, <2>3, <3>1 DEF ComingLen, FileUnits
    <3> QED BY <3>1, <3>2
  <2>7. z.ib = r.ib /\ z.req_handler = "null" /\ z.keep_alive = r.keep_alive
        /\ z.err_req = r.err_req
    BY <1>2, <2>3
  <2> QED BY <1>1, <2>2, <2>4, <2>5, <2>6, <2>7, FrameResponse
<1> QED BY <1>4, <1>5, <1>6 DEF response_handle_send_file

\* Every step keeps the client and the request in step.
LEMMA FrameStep == ExchangeInv /\ SentOK /\ FrameInv /\ [Next]_vars => FrameInv'
<1> SUFFICES ASSUME ExchangeInv, SentOK, FrameInv, [Next]_vars PROVE FrameInv'
  OBVIOUS
<1>1. CASE WorkerNext
  BY <1>1, FrameLoop, FrameCloses, FrameRecv, FrameRequestLine, FrameHeaderLine, FrameBody,
     FrameSendBuffer, FrameSendFile DEF WorkerNext
<1>2. CASE time_passes \/ UNCHANGED vars
  BY <1>2, FrameLoop
<1> QED BY <1>1, <1>2, FrameClient DEF Next

\* The responses can be told apart, for a client whose headers are not refused
\* and that asks for files that keep their size, whatever it pipelines, however
\* little the socket takes at a time, and also when it goes away or is timed out:
\* every head that response_assemble_buffer puts into the buffer is where the
\* client expects one, answers a request it has sent, and is followed by what it
\* announces.
THEOREM ExchangeWellFramed == Framed /\ Spec => []WellFramed
<1>1. Init => SentOK
  <2>1. Init => r.ib = <<>> /\ inq = <<>>
    BY FreshTyped DEF Init
  <2>2. <<>> \in Seq(Sent)
    OBVIOUS
  <2> QED BY <2>1, <2>2, Zenon DEF SentOK
<1>2. FrameInv => WellFramed
  BY DEF FrameInv, WellFramed
<1>3. Framed /\ Spec => []FrameInv
  <2>1. Spec => []SentOK
    BY <1>1, SentStep, ExchangeAlways, PTL DEF Spec
  <2> QED BY <2>1, FrameInit, FrameStep, ExchangeAlways, PTL DEF Spec
<1> QED BY <1>2, <1>3, PTL

=============================================================================
