-------------------------- MODULE TransportProofs --------------------------
(***************************************************************************)
(* Theorems about Transport, for any amount of data, any sizes of chunks,   *)
(* records and slices, and a break at any moment.                          *)
(*                                                                         *)
(* What is on the wire behind the frame the reader is in is a row of whole *)
(* frames, of which a break may have cut off the end.  Framing says this    *)
(* and is all the rest has to know of the row; its lemmas say how a row     *)
(* grows, is cut, and is read from the front.                              *)
(***************************************************************************)
EXTENDS Transport, SequenceTheorems, TLAPS

Kinds  == {"salt", "box", "head", "size", "byte"}
Tokens == [kind : Kinds, val : Nat, at : Seq(Nat)]

\* The n bytes of the stream behind the first from.
Count(from, n) == [i \in 1..n |-> from + i]

(***************************************************************************)
(* One frame: the n bytes behind the first from, of the AEAD layer under   *)
(* the nonces nonce and nonce + 1, of the TLS layers with the long header  *)
(* if nothing went before.                                                 *)
(***************************************************************************)
HeadLen(from) == IF from = 0 THEN FirstHeader ELSE Header
TailLen(lay, from) == IF lay = "tlsUp" /\ from = 0 THEN 1 ELSE 0
FrameLen(lay, from, n) ==
  IF lay = "aead" THEN n + 3 ELSE HeadLen(from) + 1 + n + TailLen(lay, from)
Sealed(nonce, from, n, j) ==
  IF j = 1 THEN Token("box", n, <<nonce, 1, 1>>)
  ELSE IF j = 2 THEN Token("box", Garbage, <<nonce, 2, 1>>)
  ELSE IF j <= n + 2 THEN Token("box", from + (j - 2), <<nonce + 1, j - 2, n>>)
  ELSE Token("box", Garbage, <<nonce + 1, j - 2, n>>)
Record(from, n, j) ==
  IF j <= HeadLen(from) THEN Token("head", Garbage, <<>>)
  ELSE IF j = HeadLen(from) + 1 THEN Token("size", n, <<>>)
  ELSE IF j <= HeadLen(from) + 1 + n THEN Token("byte", from + (j - (HeadLen(from) + 1)), <<>>)
  ELSE Token("head", Garbage, <<>>)
Part(lay, nonce, from, n, j) ==
  IF lay = "aead" THEN Sealed(nonce, from, n, j) ELSE Record(from, n, j)

\* Nonces that k frames use up.
Nonces(lay, k) == IF lay = "aead" THEN 2 * k ELSE 0

(***************************************************************************)
(* d holds, behind start tokens of something else, the row of m frames     *)
(* with frame k at place s[k] and the bytes behind the first c[k]; the row  *)
(* is whole, or d may end anywhere.                                        *)
(***************************************************************************)
Row(lay, d, nonce, cut, m, s, c) ==
  /\ \A k \in 0..(m - 1) : s[k + 1] = s[k] + FrameLen(lay, c[k], c[k + 1] - c[k])
  /\ \A i, k \in 0..m : i < k => s[i] < s[k] /\ c[i] < c[k]
  /\ \A i \in (s[0] + 1)..s[m] : \E k \in 0..(m - 1) : i \in (s[k] + 1)..s[k + 1]
  /\ Len(d) <= s[m] /\ (~cut => Len(d) = s[m])
  /\ \A k \in 0..(m - 1) : \A j \in Nat \ {0} :
       j <= s[k + 1] - s[k] /\ s[k] + j <= Len(d) =>
         d[s[k] + j] = Part(lay, nonce + Nonces(lay, k), c[k], c[k + 1] - c[k], j)
Framing(lay, d, start, from, nonce, upto, last, cut) ==
  \E m \in Nat : \E s, c \in [0..m -> Nat] :
    /\ s[0] = start /\ c[0] = from /\ c[m] = upto /\ last = nonce + Nonces(lay, m)
    /\ Row(lay, d, nonce, cut, m, s, c)

-----------------------------------------------------------------------------
\* A frame is not empty.
LEMMA FrameSize ==
  ASSUME NEW lay, NEW from \in Nat, NEW n \in Nat
  PROVE  FrameLen(lay, from, n) \in Nat /\ FrameLen(lay, from, n) > n
BY TransportAssumption DEF FrameLen, HeadLen, TailLen

\* What is read from a sequence and what is left of it.
LEMMA Front ==
  ASSUME NEW T, NEW d \in Seq(T), NEW q \in 0..Len(d)
  PROVE  /\ SubSeq(d, 1, q) \in Seq(T)
         /\ Len(SubSeq(d, 1, q)) = q /\ q \in Nat /\ q <= Len(d)
         /\ \A i \in 1..q : SubSeq(d, 1, q)[i] = d[i]
<1>1. Len(d) \in Nat /\ q \in Nat /\ q <= Len(d)
  OBVIOUS
<1>2. \A i \in 1..q : d[i] \in T
  BY <1>1
<1>3. SubSeq(d, 1, q) = [i \in 1..q |-> d[i]]
  BY <1>1
<1> QED
  BY <1>1, <1>2, <1>3

LEMMA Rest ==
  ASSUME NEW T, NEW d \in Seq(T), NEW q \in Nat, q <= Len(d)
  PROVE  /\ SubSeq(d, q + 1, Len(d)) \in Seq(T)
         /\ Len(SubSeq(d, q + 1, Len(d))) = Len(d) - q /\ Len(d) - q \in Nat
         /\ \A i \in 1..(Len(d) - q) : SubSeq(d, q + 1, Len(d))[i] = d[q + i]
<1>1. Len(d) \in Nat /\ Len(d) - q \in Nat
  OBVIOUS
<1>2. \A i \in 1..(Len(d) - q) : q + i \in 1..Len(d) /\ d[q + i] \in T
  BY <1>1
<1>3. SubSeq(d, q + 1, Len(d)) = [i \in 1..(Len(d) - q) |-> d[q + i]]
  BY <1>1
<1> QED
  BY <1>1, <1>2, <1>3

LEMMA Joined ==
  ASSUME NEW T, NEW d \in Seq(T), NEW f \in Seq(T)
  PROVE  /\ d \o f \in Seq(T) /\ Len(d \o f) = Len(d) + Len(f) /\ Len(d \o f) \in Nat
         /\ \A i \in 1..Len(d) : (d \o f)[i] = d[i]
         /\ \A j \in 1..Len(f) : (d \o f)[Len(d) + j] = f[j]
<1>1. Len(d) \in Nat /\ Len(f) \in Nat
  OBVIOUS
<1>2. /\ d \o f \in Seq(T) /\ Len(d \o f) = Len(d) + Len(f)
      /\ \A i \in 1..(Len(d) + Len(f)) :
           (d \o f)[i] = IF i <= Len(d) THEN d[i] ELSE f[i - Len(d)]
  BY ConcatProperties
<1>3. \A i \in 1..Len(d) : (d \o f)[i] = d[i]
  BY <1>1, <1>2
<1>4. ASSUME NEW j \in 1..Len(f)
      PROVE  (d \o f)[Len(d) + j] = f[j]
  <2>1. Len(d) + j \in 1..(Len(d) + Len(f)) /\ ~(Len(d) + j <= Len(d)) /\ (Len(d) + j) - Len(d) = j
    BY <1>1
  <2> QED
    BY <1>2, <2>1
<1> QED
  BY <1>1, <1>2, <1>3, <1>4

IsJoin(e, d, f) ==
  /\ e = d \o f /\ Len(e) = Len(d) + Len(f)
  /\ \A i \in 1..Len(d) : e[i] = d[i]
  /\ \A j \in 1..Len(f) : e[Len(d) + j] = f[j]
LEMMA Joining ==
  ASSUME NEW T, NEW d \in Seq(T), NEW f \in Seq(T)
  PROVE  \E e \in Seq(T) : IsJoin(e, d, f)
<1>1. /\ d \o f \in Seq(T) /\ Len(d \o f) = Len(d) + Len(f)
      /\ \A i \in 1..Len(d) : (d \o f)[i] = d[i]
      /\ \A j \in 1..Len(f) : (d \o f)[Len(d) + j] = f[j]
  BY Joined
<1>2. IsJoin(d \o f, d, f)
  BY <1>1 DEF IsJoin
<1> QED
  BY <1>1, <1>2

\* Arithmetic on places in sequences.
\* Places in a sequence and in what is left of it when q tokens are gone.
LEMMA Places ==
  ASSUME NEW a \in Nat, NEW b \in Nat, NEW q \in Nat, q <= a, NEW i \in Int
  PROVE  /\ i + q \in (a + 1)..b => i \in ((a - q) + 1)..(b - q)
         /\ i \in ((a - q) + 1)..(b - q) => i + q \in (a + 1)..b
         /\ a - q \in Nat /\ (a - q) + i = (a + i) - q /\ (b - q) - (a - q) = b - a
         /\ \A n \in Nat : (a - q) + i <= n - q => a + i <= n
OBVIOUS

LEMMA Place ==
  ASSUME NEW a \in Nat, NEW j \in Nat \ {0}, NEW n \in Nat, a + j <= n
  PROVE  a + j \in 1..n
OBVIOUS

\* No frames at all.
LEMMA FramingNone ==
  ASSUME NEW lay, NEW T, NEW d \in Seq(T), NEW from \in Nat, NEW nonce \in Nat,
         NEW cut \in BOOLEAN
  PROVE  Framing(lay, d, Len(d), from, nonce, from, nonce, cut)
<1> DEFINE s == [i \in 0..0 |-> Len(d)]
           c == [i \in 0..0 |-> from]
<1>1. s \in [0..0 -> Nat] /\ c \in [0..0 -> Nat]
  OBVIOUS
<1>2. s[0] = Len(d) /\ c[0] = from /\ nonce = nonce + Nonces(lay, 0)
  BY DEF Nonces
<1>3. Row(lay, d, nonce, cut, 0, s, c)
  BY <1>2 DEF Row
<1> HIDE DEF s, c
<1> QED
  BY <1>1, <1>2, <1>3 DEF Framing

\* Behind start tokens d holds a frame of n bytes, or as much of it as there is.
Starts(lay, d, cut, start, from, nonce, n) ==
  /\ ~cut => start + FrameLen(lay, from, n) <= Len(d)
  /\ \A j \in Nat \ {0} :
       j <= FrameLen(lay, from, n) /\ start + j <= Len(d) =>
         d[start + j] = Part(lay, nonce, from, n, j)

\* The row is a frame and a row.
FrameFirst(lay, d, start, from, nonce, upto, last, cut) ==
  \E n \in Nat \ {0} :
    /\ from + n <= upto /\ Starts(lay, d, cut, start, from, nonce, n)
    /\ Framing(lay, d, start + FrameLen(lay, from, n), from + n, nonce + Nonces(lay, 1),
               upto, last, cut)

\* The first frame of a row that goes on behind start.
LEMMA FramingNext ==
  ASSUME NEW lay, NEW T, NEW d \in Seq(T), NEW start \in Nat, NEW from \in Nat,
         NEW nonce \in Nat, NEW upto \in Nat, NEW last, NEW cut \in BOOLEAN,
         Framing(lay, d, start, from, nonce, upto, last, cut), Len(d) > start
  PROVE  FrameFirst(lay, d, start, from, nonce, upto, last, cut)
<1>1. PICK m \in Nat : \E s, c \in [0..m -> Nat] :
        /\ s[0] = start /\ c[0] = from /\ c[m] = upto /\ last = nonce + Nonces(lay, m)
        /\ Row(lay, d, nonce, cut, m, s, c)
  BY DEF Framing
<1>2. PICK s \in [0..m -> Nat], c \in [0..m -> Nat] :
        /\ s[0] = start /\ c[0] = from /\ c[m] = upto /\ last = nonce + Nonces(lay, m)
        /\ Row(lay, d, nonce, cut, m, s, c)
  BY <1>1
<1>3. Len(d) \in Nat /\ Len(d) <= s[m]
  BY <1>2 DEF Row
<1>4. m # 0
  BY <1>2, <1>3
<1> DEFINE n == c[1] - c[0]
           t == [k \in 0..(m - 1) |-> s[k + 1]]
           e == [k \in 0..(m - 1) |-> c[k + 1]]
<1>5. 0 \in 0..m /\ 1 \in 0..m /\ m \in 0..m /\ 0 \in 0..(m - 1) /\ m - 1 \in Nat
  BY <1>4
<1>6. n \in Nat \ {0} /\ c[1] <= c[m] /\ s[1] <= s[m]
  <2>1. c[0] \in Nat /\ c[1] \in Nat /\ s[1] \in Nat /\ c[m] \in Nat /\ s[m] \in Nat
    BY <1>5
  <2>2. c[0] < c[1]
    BY <1>2, <1>5 DEF Row
  <2>3. 1 < m => c[1] < c[m] /\ s[1] < s[m]
    BY <1>2, <1>5 DEF Row
  <2>4. m = 1 \/ 1 < m
    BY <1>5
  <2> QED
    BY <2>1, <2>2, <2>3, <2>4
<1>7. s[1] = start + FrameLen(lay, from, n) /\ s[1] - s[0] = FrameLen(lay, from, n)
  <2>1. s[0 + 1] = s[0] + FrameLen(lay, c[0], c[0 + 1] - c[0])
    BY <1>2, <1>5 DEF Row
  <2>2. FrameLen(lay, from, n) \in Nat
    BY <1>6, FrameSize
  <2> QED
    BY <1>2, <2>1, <2>2
<1>8. \A j \in Nat \ {0} :
        j <= FrameLen(lay, from, n) /\ start + j <= Len(d) => d[start + j] = Part(lay, nonce, from, n, j)
  <2>1. \A j \in Nat \ {0} : j <= s[0 + 1] - s[0] /\ s[0] + j <= Len(d) =>
          d[s[0] + j] = Part(lay, nonce + Nonces(lay, 0), c[0], c[0 + 1] - c[0], j)
    BY <1>2, <1>5 DEF Row
  <2>2. nonce + Nonces(lay, 0) = nonce
    BY DEF Nonces
  <2> QED
    BY <1>2, <1>7, <2>1, <2>2
<1>9. Framing(lay, d, start + FrameLen(lay, from, n), from + n, nonce + Nonces(lay, 1),
              upto, last, cut)
  <2>1. t \in [0..(m - 1) -> Nat] /\ e \in [0..(m - 1) -> Nat]
    BY <1>5, SMTT(30)
  <2>2. t[0] = start + FrameLen(lay, from, n) /\ e[0] = from + n /\ e[m - 1] = upto
    BY <1>2, <1>5, <1>6, <1>7
  <2>3. last = nonce + Nonces(lay, 1) + Nonces(lay, m - 1)
    BY <1>2 DEF Nonces
  <2>4. Row(lay, d, nonce + Nonces(lay, 1), cut, m - 1, t, e)
    <3>1. \A k \in 0..((m - 1) - 1) : t[k + 1] = t[k] + FrameLen(lay, e[k], e[k + 1] - e[k])
      <4> SUFFICES ASSUME NEW k \in 0..((m - 1) - 1)
                   PROVE  t[k + 1] = t[k] + FrameLen(lay, e[k], e[k + 1] - e[k])
        OBVIOUS
      <4>1. k + 1 \in 0..(m - 1) /\ k \in 0..(m - 1) /\ (k + 1) + 1 \in 0..m
        OBVIOUS
      <4>2. s[(k + 1) + 1] = s[k + 1] + FrameLen(lay, c[k + 1], c[(k + 1) + 1] - c[k + 1])
        BY <1>2, <4>1 DEF Row
      <4> QED
        BY <4>1, <4>2
    <3>2. \A i, k \in 0..(m - 1) : i < k => t[i] < t[k] /\ e[i] < e[k]
      <4> SUFFICES ASSUME NEW i \in 0..(m - 1), NEW k \in 0..(m - 1), i < k
                   PROVE  t[i] < t[k] /\ e[i] < e[k]
        OBVIOUS
      <4>1. i + 1 \in 0..m /\ k + 1 \in 0..m /\ i + 1 < k + 1
        OBVIOUS
      <4>2. s[i + 1] < s[k + 1] /\ c[i + 1] < c[k + 1]
        BY <1>2, <4>1 DEF Row
      <4> QED
        BY <4>2
    <3>3. \A i \in (t[0] + 1)..t[m - 1] :
            \E k \in 0..((m - 1) - 1) : i \in (t[k] + 1)..t[k + 1]
      <4>0. t[0] = s[1] /\ t[m - 1] = s[m]
        BY <1>5
      <4> SUFFICES ASSUME NEW i \in (s[1] + 1)..s[m]
                   PROVE  \E k \in 0..((m - 1) - 1) : i \in (t[k] + 1)..t[k + 1]
        BY <4>0
      <4>1. s[0] \in Nat /\ s[1] \in Nat /\ s[m] \in Nat /\ s[0] < s[1] /\ i \in Int
        BY <1>2, <1>5 DEF Row
      <4>2. i \in (s[0] + 1)..s[m]
        BY <4>1
      <4>3. PICK k \in 0..(m - 1) : i \in (s[k] + 1)..s[k + 1]
        BY <1>2, <4>2 DEF Row
      <4>4. k # 0
        BY <4>1, <4>3
      <4>5. k - 1 \in 0..((m - 1) - 1) /\ k - 1 \in 0..(m - 1) /\ (k - 1) + 1 = k /\ k \in 0..(m - 1)
        BY <4>4
      <4>6. t[k - 1] = s[k] /\ t[(k - 1) + 1] = s[k + 1]
        BY <4>5
      <4> QED
        BY <4>3, <4>5, <4>6
    <3>4. Len(d) <= t[m - 1] /\ (~cut => Len(d) = t[m - 1])
      BY <1>2, <1>5 DEF Row
    <3>5. ASSUME NEW k \in 0..((m - 1) - 1), NEW j \in Nat \ {0},
                 j <= t[k + 1] - t[k], t[k] + j <= Len(d)
          PROVE  d[t[k] + j] = Part(lay, nonce + Nonces(lay, 1) + Nonces(lay, k), e[k], e[k + 1] - e[k], j)
      <4>1. k + 1 \in 0..(m - 1) /\ k \in 0..(m - 1)
        OBVIOUS
      <4>2. t[k] = s[k + 1] /\ t[k + 1] = s[(k + 1) + 1] /\ e[k] = c[k + 1] /\ e[k + 1] = c[(k + 1) + 1]
        BY <4>1
      <4>3. nonce + Nonces(lay, 1) + Nonces(lay, k) = nonce + Nonces(lay, k + 1)
        BY DEF Nonces
      <4> HIDE DEF t, e
      <4>4. d[s[k + 1] + j] = Part(lay, nonce + Nonces(lay, k + 1), c[k + 1], c[(k + 1) + 1] - c[k + 1], j)
        BY <1>2, <3>5, <4>1, <4>2 DEF Row
      <4> QED
        BY <4>2, <4>3, <4>4
    <3> HIDE DEF t, e
    <3> QED
      BY <3>1, <3>2, <3>3, <3>4, <3>5 DEF Row
  <2> HIDE DEF t, e, n
  <2>5. m - 1 \in Nat
    BY <1>5
  <2> QED
    BY <2>1, <2>2, <2>3, <2>4, <2>5 DEF Framing
<1>10. from + n <= upto /\ (~cut => start + FrameLen(lay, from, n) <= Len(d))
  <2>1. from \in Nat /\ c[1] \in Nat /\ from + n = c[1]
    BY <1>2, <1>5
  <2>2. ~cut => Len(d) = s[m]
    BY <1>2 DEF Row
  <2> QED
    BY <1>2, <1>6, <1>7, <2>1, <2>2
<1> HIDE DEF n
<1>11. Starts(lay, d, cut, start, from, nonce, n)
  BY <1>8, <1>10 DEF Starts
<1> QED
  BY <1>6, <1>9, <1>10, <1>11 DEF FrameFirst

\* What the ends of a row say of it.
LEMMA FramingEnds ==
  ASSUME NEW lay, NEW T, NEW d \in Seq(T), NEW start \in Nat, NEW from \in Nat,
         NEW nonce \in Nat, NEW upto \in Nat, NEW last, NEW cut \in BOOLEAN,
         Framing(lay, d, start, from, nonce, upto, last, cut)
  PROVE  /\ from <= upto /\ last \in Nat /\ nonce <= last
         /\ ~cut => start <= Len(d)
         /\ ~cut /\ Len(d) <= start => from = upto /\ nonce = last
         /\ from = upto => Len(d) <= start
<1>1. PICK m \in Nat : \E s, c \in [0..m -> Nat] :
        /\ s[0] = start /\ c[0] = from /\ c[m] = upto /\ last = nonce + Nonces(lay, m)
        /\ Row(lay, d, nonce, cut, m, s, c)
  BY DEF Framing
<1>2. PICK s \in [0..m -> Nat], c \in [0..m -> Nat] :
        /\ s[0] = start /\ c[0] = from /\ c[m] = upto /\ last = nonce + Nonces(lay, m)
        /\ Row(lay, d, nonce, cut, m, s, c)
  BY <1>1
<1>3. Len(d) \in Nat /\ s[m] \in Nat /\ Len(d) <= s[m] /\ (~cut => Len(d) = s[m])
  BY <1>2 DEF Row
<1>4. last \in Nat /\ nonce <= last /\ (m = 0 => last = nonce)
  BY <1>2 DEF Nonces
<1>5. 0 < m => s[0] < s[m] /\ c[0] < c[m]
  BY <1>2 DEF Row
<1> QED
  BY <1>2, <1>3, <1>4, <1>5

\* Reading from what comes before the row.
LEMMA FramingDrops ==
  ASSUME NEW lay, NEW T, NEW d \in Seq(T), NEW start \in Nat, NEW from \in Nat,
         NEW nonce \in Nat, NEW upto \in Nat, NEW last, NEW cut \in BOOLEAN,
         Framing(lay, d, start, from, nonce, upto, last, cut),
         NEW q \in Nat, q <= start, q <= Len(d)
  PROVE  Framing(lay, SubSeq(d, q + 1, Len(d)), start - q, from, nonce, upto, last, cut)
<1>1. PICK m \in Nat : \E s, c \in [0..m -> Nat] :
        /\ s[0] = start /\ c[0] = from /\ c[m] = upto /\ last = nonce + Nonces(lay, m)
        /\ Row(lay, d, nonce, cut, m, s, c)
  BY DEF Framing
<1>2. PICK s \in [0..m -> Nat], c \in [0..m -> Nat] :
        /\ s[0] = start /\ c[0] = from /\ c[m] = upto /\ last = nonce + Nonces(lay, m)
        /\ Row(lay, d, nonce, cut, m, s, c)
  BY <1>1
<1> DEFINE t == [k \in 0..m |-> s[k] - q]
           e == SubSeq(d, q + 1, Len(d))
<1>3. Len(e) = Len(d) - q /\ Len(e) \in Nat /\ \A i \in 1..Len(e) : e[i] = d[q + i]
  <2>1. /\ Len(SubSeq(d, q + 1, Len(d))) = Len(d) - q /\ Len(d) - q \in Nat
        /\ \A i \in 1..(Len(d) - q) : SubSeq(d, q + 1, Len(d))[i] = d[q + i]
    BY Rest
  <2>2. Len(e) = Len(d) - q /\ Len(d) - q \in Nat /\ \A i \in 1..(Len(d) - q) : e[i] = d[q + i]
    BY <2>1
  <2> HIDE DEF e
  <2> QED
    BY <2>2
<1>4. \A k \in 0..m : s[k] \in Nat /\ start <= s[k]
  <2>1. \A k \in 0..m : 0 < k => s[0] < s[k]
    BY <1>2 DEF Row
  <2> QED
    BY <1>2, <2>1, SMTT(30)
<1>5. t \in [0..m -> Nat]
  BY <1>4, SMTT(30)
<1>6. t[0] = start - q /\ \A k \in 0..m : t[k] = s[k] - q
  BY <1>2
<1> HIDE DEF t, e
<1>7. Row(lay, e, nonce, cut, m, t, c)
  <2>1. \A k \in 0..(m - 1) : t[k + 1] = t[k] + FrameLen(lay, c[k], c[k + 1] - c[k])
    <3> SUFFICES ASSUME NEW k \in 0..(m - 1)
                 PROVE  t[k + 1] = t[k] + FrameLen(lay, c[k], c[k + 1] - c[k])
      OBVIOUS
    <3>1. k \in 0..m /\ k + 1 \in 0..m
      OBVIOUS
    <3>2. s[k + 1] = s[k] + FrameLen(lay, c[k], c[k + 1] - c[k])
      BY <1>2 DEF Row
    <3>3. c[k] < c[k + 1] /\ c[k] \in Nat /\ c[k + 1] \in Nat
      BY <1>2, <3>1 DEF Row
    <3>4. FrameLen(lay, c[k], c[k + 1] - c[k]) \in Nat
      BY <3>3, FrameSize, SMTT(30)
    <3>5. s[k] \in Nat /\ s[k + 1] \in Nat /\ t[k] = s[k] - q /\ t[k + 1] = s[k + 1] - q
      BY <1>4, <1>6, <3>1
    <3>6. PICK x \in Nat, y \in Nat, f \in Nat :
            x = s[k] /\ y = s[k + 1] /\ f = FrameLen(lay, c[k], c[k + 1] - c[k])
      BY <3>4, <3>5
    <3>7. y = x + f
      BY <3>2, <3>6
    <3>8. y - q = (x - q) + f
      BY <3>7
    <3> QED
      BY <3>5, <3>6, <3>8
  <2>2. \A i, k \in 0..m : i < k => t[i] < t[k] /\ c[i] < c[k]
    <3> SUFFICES ASSUME NEW i \in 0..m, NEW k \in 0..m, i < k
                 PROVE  t[i] < t[k] /\ c[i] < c[k]
      OBVIOUS
    <3>1. s[i] < s[k] /\ c[i] < c[k]
      BY <1>2 DEF Row
    <3>2. t[i] = s[i] - q /\ t[k] = s[k] - q /\ s[i] \in Nat /\ s[k] \in Nat
      BY <1>4, <1>6
    <3> QED
      BY <3>1, <3>2
  <2>3. \A i \in (t[0] + 1)..t[m] : \E k \in 0..(m - 1) : i \in (t[k] + 1)..t[k + 1]
    <3> SUFFICES ASSUME NEW i \in (t[0] + 1)..t[m]
                 PROVE  \E k \in 0..(m - 1) : i \in (t[k] + 1)..t[k + 1]
      OBVIOUS
    <3>1. t[0] = s[0] - q /\ t[m] = s[m] - q /\ s[0] \in Nat /\ s[m] \in Nat /\ q <= s[0]
      BY <1>2, <1>4, <1>6
    <3>2. i \in Int /\ i \in ((s[0] - q) + 1)..(s[m] - q)
      BY <3>1
    <3>3. i + q \in (s[0] + 1)..s[m]
      BY <3>1, <3>2, Places
    <3>4. PICK k \in 0..(m - 1) : i + q \in (s[k] + 1)..s[k + 1]
      BY <1>2, <3>3 DEF Row
    <3>5. k \in 0..m /\ k + 1 \in 0..m
      OBVIOUS
    <3>6. s[k] \in Nat /\ s[k + 1] \in Nat /\ q <= s[k]
      BY <1>4, <3>5, SMTT(30)
    <3>7. i \in ((s[k] - q) + 1)..(s[k + 1] - q)
      BY <3>2, <3>4, <3>6, Places
    <3>8. t[k] = s[k] - q /\ t[k + 1] = s[k + 1] - q
      BY <1>6, <3>5
    <3>9. i \in (t[k] + 1)..t[k + 1]
      BY <3>7, <3>8, Zenon
    <3> QED
      BY <3>9, Zenon
  <2>4. Len(e) <= t[m] /\ (~cut => Len(e) = t[m])
    <3>1. Len(d) <= s[m] /\ (~cut => Len(d) = s[m])
      BY <1>2 DEF Row
    <3>2. m \in 0..m
      OBVIOUS
    <3>3. PICK x \in Nat, y \in Nat : x = Len(d) /\ y = s[m]
      BY <1>4, <3>2
    <3>4. Len(e) = x - q /\ t[m] = y - q
      BY <1>3, <1>6, <3>2, <3>3
    <3>5. x <= y /\ (~cut => x = y)
      BY <3>1, <3>3
    <3>6. x - q <= y - q /\ (~cut => x - q = y - q)
      BY <3>5
    <3> QED
      BY <3>4, <3>6
  <2>5. ASSUME NEW k \in 0..(m - 1), NEW j \in Nat \ {0},
               j <= t[k + 1] - t[k], t[k] + j <= Len(e)
        PROVE  e[t[k] + j] = Part(lay, nonce + Nonces(lay, k), c[k], c[k + 1] - c[k], j)
    <3>1. k \in 0..m /\ k + 1 \in 0..m
      OBVIOUS
    <3>2. t[k] = s[k] - q /\ t[k + 1] = s[k + 1] - q
      BY <1>6, <3>1
    <3>3. s[k] \in Nat /\ s[k + 1] \in Nat /\ q <= s[k] /\ q <= s[k + 1]
      BY <1>4, <3>1, SMTT(30)
    <3>4. j <= s[k + 1] - s[k] /\ (s[k] - q) + j <= Len(d) - q
      <4>1. PICK x \in Nat, y \in Nat, l \in Nat : x = s[k] /\ y = s[k + 1] /\ l = Len(d)
        BY <3>3, SMTT(30)
      <4>2. j <= (y - q) - (x - q) /\ (x - q) + j <= l - q
        BY <1>3, <2>5, <3>2, <4>1
      <4>3. j <= y - x
        BY <4>2
      <4> QED
        BY <4>1, <4>2, <4>3
    <3>5. /\ s[k] + j <= Len(d) /\ (s[k] - q) + j \in 1..(Len(d) - q)
          /\ q + ((s[k] - q) + j) = s[k] + j
      <4>1. PICK x \in Nat, l \in Nat : x = s[k] /\ l = Len(d)
        BY <3>3, SMTT(30)
      <4>2. q <= x /\ (x - q) + j <= l - q
        BY <3>3, <3>4, <4>1
      <4>3. x + j <= l /\ (x - q) + j \in 1..(l - q) /\ q + ((x - q) + j) = x + j
        BY <4>2
      <4> QED
        BY <4>1, <4>3
    <3>6. e[(s[k] - q) + j] = d[s[k] + j]
      <4>1. PICK i \in 1..(Len(d) - q) : i = (s[k] - q) + j /\ q + i = s[k] + j
        BY <3>5
      <4>2. e[i] = d[q + i]
        BY <1>3
      <4> QED
        BY <4>1, <4>2
    <3>7. d[s[k] + j] = Part(lay, nonce + Nonces(lay, k), c[k], c[k + 1] - c[k], j)
      BY <1>2, <3>4, <3>5 DEF Row
    <3> QED
      BY <3>2, <3>6, <3>7
  <2> QED
    BY <2>1, <2>2, <2>3, <2>4, <2>5 DEF Row
<1> QED
  BY <1>2, <1>5, <1>6, <1>7 DEF Framing, e

\* A break cuts the row.
Gone(cut) == cut \in BOOLEAN /\ cut
LEMMA FramingCut ==
  ASSUME NEW lay, NEW T, NEW d \in Seq(T), NEW start \in Nat, NEW from \in Nat,
         NEW nonce \in Nat, NEW upto \in Nat, NEW last, NEW cut \in BOOLEAN,
         Framing(lay, d, start, from, nonce, upto, last, cut),
         NEW q \in 0..Len(d), NEW gone, Gone(gone)
  PROVE  Framing(lay, SubSeq(d, 1, q), start, from, nonce, upto, last, gone)
<1>1. PICK m \in Nat : \E s, c \in [0..m -> Nat] :
        /\ s[0] = start /\ c[0] = from /\ c[m] = upto /\ last = nonce + Nonces(lay, m)
        /\ Row(lay, d, nonce, cut, m, s, c)
  BY DEF Framing
<1>2. PICK s \in [0..m -> Nat], c \in [0..m -> Nat] :
        /\ s[0] = start /\ c[0] = from /\ c[m] = upto /\ last = nonce + Nonces(lay, m)
        /\ Row(lay, d, nonce, cut, m, s, c)
  BY <1>1
<1> DEFINE e == SubSeq(d, 1, q)
<1>3. Len(e) = q /\ q \in Nat /\ q <= Len(d) /\ \A i \in 1..q : e[i] = d[i]
  BY Front
<1> HIDE DEF e
<1>4. Row(lay, e, nonce, gone, m, s, c)
  <2>1. s[m] \in Nat /\ Len(d) \in Nat /\ Len(d) <= s[m]
    BY <1>2 DEF Row
  <2>2. Len(e) <= s[m]
    BY <1>3, <2>1
  <2>3. ASSUME NEW k \in 0..(m - 1), NEW j \in Nat \ {0},
               j <= s[k + 1] - s[k], s[k] + j <= Len(e)
        PROVE  e[s[k] + j] = Part(lay, nonce + Nonces(lay, k), c[k], c[k + 1] - c[k], j)
    <3>1. k \in 0..m /\ s[k] \in Nat /\ s[k + 1] \in Nat /\ j \in Nat /\ 1 <= j
      <4>1. k \in 0..m /\ k + 1 \in 0..m
        OBVIOUS
      <4>2. s[k] \in Nat /\ s[k + 1] \in Nat
        BY <4>1
      <4> QED
        BY <4>1, <4>2
    <3>2. s[k] + j \in 1..q /\ s[k] + j <= Len(d)
      <4>1. s[k] + j <= q
        BY <1>3, <2>3
      <4>2. s[k] + j \in 1..q
        BY <1>3, <3>1, <4>1, Place
      <4> QED
        BY <1>3, <2>1, <4>2
    <3>3. d[s[k] + j] = Part(lay, nonce + Nonces(lay, k), c[k], c[k + 1] - c[k], j)
      BY <1>2, <2>3, <3>2 DEF Row
    <3> QED
      BY <1>3, <3>2, <3>3
  <2>4. /\ \A k \in 0..(m - 1) : s[k + 1] = s[k] + FrameLen(lay, c[k], c[k + 1] - c[k])
        /\ \A i, k \in 0..m : i < k => s[i] < s[k] /\ c[i] < c[k]
    BY <1>2 DEF Row
  <2>5. \A i \in (s[0] + 1)..s[m] : \E k \in 0..(m - 1) : i \in (s[k] + 1)..s[k + 1]
    BY <1>2 DEF Row
  <2> QED
    BY <2>2, <2>3, <2>4, <2>5 DEF Row, Gone
<1> QED
  BY <1>2, <1>4 DEF Framing, e

\* A write adds a frame: nothing has been cut off.
Uncut(cut) == cut \in BOOLEAN /\ ~cut
IsFrame(f, lay, nonce, from, n) ==
  /\ f \in Seq(Tokens) /\ Len(f) = FrameLen(lay, from, n)
  /\ \A j \in 1..Len(f) : f[j] = Part(lay, nonce, from, n, j)

LEMMA FramingGrows ==
  ASSUME NEW lay, NEW d \in Seq(Tokens), NEW start \in Nat, NEW from \in Nat,
         NEW nonce \in Nat, NEW upto \in Nat, NEW last \in Nat, NEW cut, Uncut(cut),
         Framing(lay, d, start, from, nonce, upto, last, cut),
         NEW n \in Nat \ {0}, NEW f, IsFrame(f, lay, last, upto, n)
  PROVE  Framing(lay, d \o f, start, from, nonce, upto + n, last + Nonces(lay, 1), cut)
<1>1. PICK m \in Nat : \E s, c \in [0..m -> Nat] :
        /\ s[0] = start /\ c[0] = from /\ c[m] = upto /\ last = nonce + Nonces(lay, m)
        /\ Row(lay, d, nonce, cut, m, s, c)
  BY DEF Framing
<1>2. PICK s \in [0..m -> Nat], c \in [0..m -> Nat] :
        /\ s[0] = start /\ c[0] = from /\ c[m] = upto /\ last = nonce + Nonces(lay, m)
        /\ Row(lay, d, nonce, cut, m, s, c)
  BY <1>1
<1>3. PICK len \in Nat : len = FrameLen(lay, upto, n) /\ len > 0
  BY FrameSize
<1>4. PICK size \in Nat : size = Len(d)
  OBVIOUS
<1>5. size = s[m]
  BY <1>2, <1>4 DEF Row, Uncut
<1>16. f \in Seq(Tokens) /\ Len(f) = FrameLen(lay, upto, n)
  BY DEF IsFrame
<1>0. /\ Len(d \o f) = Len(d) + Len(f) /\ Len(d \o f) \in Nat
      /\ \A i \in 1..Len(d) : (d \o f)[i] = d[i]
      /\ \A j \in 1..Len(f) : (d \o f)[Len(d) + j] = f[j]
  BY <1>16, Joined
<1> DEFINE e == d \o f
           t == [k \in 0..(m + 1) |-> IF k = m + 1 THEN size + len ELSE s[k]]
           b == [k \in 0..(m + 1) |-> IF k = m + 1 THEN upto + n ELSE c[k]]
<1>6. /\ Len(e) = size + len /\ Len(e) \in Nat
      /\ \A i \in 1..size : e[i] = d[i]
      /\ \A j \in 1..len : e[size + j] = f[j]
  BY <1>3, <1>4, <1>0, <1>16
<1>7. t \in [0..(m + 1) -> Nat] /\ b \in [0..(m + 1) -> Nat]
  BY <1>2
<1>8. \A k \in 0..m : t[k] = s[k] /\ b[k] = c[k] /\ s[k] \in Nat /\ c[k] \in Nat
  BY <1>2
<1>9. t[m + 1] = size + len /\ b[m + 1] = upto + n
  OBVIOUS
<1>10. t[0] = start /\ b[0] = from /\ s[m] = size /\ c[m] = upto
  BY <1>2, <1>5, <1>8
<1> HIDE DEF t, b, e
<1>11. Row(lay, e, nonce, cut, m + 1, t, b)
  <2>1. \A k \in 0..((m + 1) - 1) : t[k + 1] = t[k] + FrameLen(lay, b[k], b[k + 1] - b[k])
    <3> SUFFICES ASSUME NEW k \in 0..m
                 PROVE  t[k + 1] = t[k] + FrameLen(lay, b[k], b[k + 1] - b[k])
      OBVIOUS
    <3>1. CASE k = m
      <4>1. (upto + n) - upto = n
        OBVIOUS
      <4> QED
        BY <1>3, <1>8, <1>9, <1>10, <3>1, <4>1
    <3>2. CASE k # m
      <4>1. k \in 0..(m - 1) /\ k + 1 \in 0..m
        BY <3>2
      <4>2. s[k + 1] = s[k] + FrameLen(lay, c[k], c[k + 1] - c[k])
        BY <1>2, <4>1 DEF Row
      <4> QED
        BY <1>8, <4>1, <4>2
    <3> QED
      BY <3>1, <3>2
  <2>2. \A i, k \in 0..(m + 1) : i < k => t[i] < t[k] /\ b[i] < b[k]
    <3> SUFFICES ASSUME NEW i \in 0..(m + 1), NEW k \in 0..(m + 1), i < k
                 PROVE  t[i] < t[k] /\ b[i] < b[k]
      OBVIOUS
    <3>1. i \in 0..m /\ t[i] = s[i] /\ b[i] = c[i] /\ s[i] \in Nat /\ c[i] \in Nat
      BY <1>8
    <3>2. i < m => s[i] < size /\ c[i] < upto
      <4>1. i < m => s[i] < s[m] /\ c[i] < c[m]
        BY <1>2, <3>1 DEF Row
      <4> QED
        BY <1>10, <4>1
    <3>3. i = m => s[i] = size /\ c[i] = upto
      BY <1>10
    <3>4. CASE k = m + 1
      <4>1. t[k] = size + len /\ b[k] = upto + n
        BY <1>9, <3>4
      <4>2. s[i] <= size /\ c[i] <= upto
        BY <3>1, <3>2, <3>3, SMTT(30)
      <4>3. PICK x \in Nat, y \in Nat : x = s[i] /\ y = c[i]
        BY <3>1
      <4>4. x <= size /\ y <= upto
        BY <4>2, <4>3
      <4>5. len > 0 /\ n > 0
        BY <1>3
      <4>6. x < size + len /\ y < upto + n
        BY <4>4, <4>5
      <4> QED
        BY <3>1, <4>1, <4>3, <4>6
    <3>5. CASE k # m + 1
      <4>1. k \in 0..m
        BY <3>5
      <4>2. s[i] < s[k] /\ c[i] < c[k]
        BY <1>2, <3>1, <4>1 DEF Row
      <4> QED
        BY <1>8, <3>1, <4>1, <4>2
    <3> QED
      BY <3>4, <3>5
  <2>3. \A i \in (t[0] + 1)..t[m + 1] : \E k \in 0..((m + 1) - 1) : i \in (t[k] + 1)..t[k + 1]
    <3> SUFFICES ASSUME NEW i \in (start + 1)..(size + len)
                 PROVE  \E k \in 0..m : i \in (t[k] + 1)..t[k + 1]
      <4>1. (m + 1) - 1 = m
        OBVIOUS
      <4> QED
        BY <1>9, <1>10, <4>1, Zenon
    <3>1. CASE i <= size
      <4>1. i \in (s[0] + 1)..s[m]
        BY <1>2, <1>10, <3>1
      <4>2. PICK k \in 0..(m - 1) : i \in (s[k] + 1)..s[k + 1]
        BY <1>2, <4>1 DEF Row
      <4>3. k \in 0..m /\ k + 1 \in 0..m
        OBVIOUS
      <4>4. i \in (t[k] + 1)..t[k + 1]
        BY <1>8, <4>2, <4>3
      <4> QED
        BY <4>3, <4>4
    <3>2. CASE i > size
      <4>1. i \in (size + 1)..(size + len)
        BY <3>2
      <4>2. t[m] = size /\ m \in 0..m
        BY <1>8, <1>10
      <4>3. i \in (t[m] + 1)..t[m + 1]
        BY <1>9, <4>1, <4>2
      <4> QED
        BY <4>2, <4>3
    <3>3. i <= size \/ i > size
      OBVIOUS
    <3> QED
      BY <3>1, <3>2, <3>3
  <2>4. ASSUME NEW k \in 0..((m + 1) - 1), NEW j \in Nat \ {0},
               j <= t[k + 1] - t[k], t[k] + j <= Len(e)
        PROVE  e[t[k] + j] = Part(lay, nonce + Nonces(lay, k), b[k], b[k + 1] - b[k], j)
    <3>0. k \in 0..m /\ m \in 0..m
      OBVIOUS
    <3>1. CASE k = m
      <4>1. t[k] = size /\ t[k + 1] = size + len /\ b[k] = upto /\ b[k + 1] - b[k] = n
        <5>1. (upto + n) - upto = n
          OBVIOUS
        <5> QED
          BY <1>8, <1>9, <1>10, <3>0, <3>1, <5>1
      <4>2. j <= (size + len) - size
        BY <2>4, <4>1
      <4>3. j \in 1..len
        BY <4>2
      <4>4. e[size + j] = f[j] /\ f[j] = Part(lay, last, upto, n, j)
        BY <1>3, <1>6, <4>3 DEF IsFrame
      <4>5. last = nonce + Nonces(lay, k)
        BY <1>2, <3>1
      <4> QED
        BY <4>1, <4>4, <4>5
    <3>2. CASE k # m
      <4>1. k \in 0..(m - 1) /\ k + 1 \in 0..m
        BY <3>2
      <4>2. t[k] = s[k] /\ t[k + 1] = s[k + 1] /\ b[k] = c[k] /\ b[k + 1] = c[k + 1]
        BY <1>8, <3>0, <4>1
      <4>3. j <= s[k + 1] - s[k] /\ s[k] \in Nat /\ s[k + 1] \in Nat
        BY <1>8, <2>4, <3>0, <4>1, <4>2
      <4>4. s[k + 1] <= size
        <5>1. k + 1 < m => s[k + 1] < s[m]
          BY <1>2, <4>1 DEF Row
        <5>2. k + 1 = m \/ k + 1 < m
          BY <4>1
        <5> QED
          BY <1>10, <4>3, <5>1, <5>2, SMTT(30)
      <4>5. s[k] + j <= size
        <5>1. PICK x \in Nat, y \in Nat : x = s[k] /\ y = s[k + 1]
          BY <4>3
        <5>2. j <= y - x /\ y <= size
          BY <4>3, <4>4, <5>1
        <5>3. x + j <= size
          BY <5>2
        <5> QED
          BY <5>1, <5>3
      <4>6. d[s[k] + j] = Part(lay, nonce + Nonces(lay, k), c[k], c[k + 1] - c[k], j)
        BY <1>2, <1>4, <4>1, <4>3, <4>5 DEF Row
      <4>7. e[s[k] + j] = d[s[k] + j]
        BY <1>6, <4>3, <4>5, Place
      <4> QED
        BY <4>2, <4>6, <4>7
    <3> QED
      BY <3>1, <3>2
  <2>5. Len(e) = t[m + 1]
    BY <1>6, <1>9
  <2>6. t[m + 1] \in Nat
    BY <1>7
  <2> QED
    BY <2>1, <2>2, <2>3, <2>4, <2>5, <2>6 DEF Row
<1>12. last + Nonces(lay, 1) = nonce + Nonces(lay, m + 1)
  BY <1>2 DEF Nonces
<1>13. /\ t[0] = start /\ b[0] = from /\ b[m + 1] = upto + n
       /\ last + Nonces(lay, 1) = nonce + Nonces(lay, m + 1)
       /\ Row(lay, e, nonce, cut, m + 1, t, b)
  BY <1>9, <1>10, <1>11, <1>12
<1>14. m + 1 \in Nat
  OBVIOUS
<1>15. Framing(lay, e, start, from, nonce, upto + n, last + Nonces(lay, 1), cut)
  BY <1>7, <1>13, <1>14 DEF Framing
<1> QED
  BY <1>15 DEF e

\* A row whose end is that of the writer, if it is whole: passed of the total
\* bytes and count nonces.
Behind(lay, d, cut, total, passed, count, start, from, nonce) ==
  \E upto \in 0..total, last \in 0..count :
    /\ ~cut => upto = passed /\ last = count
    /\ Framing(lay, d, start, from, nonce, upto, last, cut)

LEMMA BehindMore ==
  ASSUME NEW lay, NEW d, NEW cut \in BOOLEAN, NEW total \in Nat, NEW passed, NEW count \in Nat,
         NEW start, NEW from, NEW nonce,
         Behind(lay, d, cut, total, passed, count, start, from, nonce),
         NEW more \in Nat, total <= more, NEW since, ~cut => since = passed
  PROVE  Behind(lay, d, cut, more, since, count, start, from, nonce)
<1>1. PICK upto \in 0..total, last \in 0..count :
        /\ ~cut => upto = passed /\ last = count
        /\ Framing(lay, d, start, from, nonce, upto, last, cut)
  BY DEF Behind
<1>2. upto \in 0..more
  OBVIOUS
<1> QED
  BY <1>1, <1>2 DEF Behind

LEMMA BehindDrops ==
  ASSUME NEW lay, NEW T, NEW d \in Seq(T), NEW cut \in BOOLEAN, NEW total \in Nat,
         NEW passed, NEW count \in Nat, NEW start \in Nat, NEW from \in Nat, NEW nonce \in Nat,
         Behind(lay, d, cut, total, passed, count, start, from, nonce),
         NEW q \in Nat, q <= start, q <= Len(d)
  PROVE  Behind(lay, SubSeq(d, q + 1, Len(d)), cut, total, passed, count, start - q, from, nonce)
<1>1. PICK upto \in 0..total, last \in 0..count :
        /\ ~cut => upto = passed /\ last = count
        /\ Framing(lay, d, start, from, nonce, upto, last, cut)
  BY DEF Behind
<1>2. upto \in Nat
  OBVIOUS
<1>3. Framing(lay, SubSeq(d, q + 1, Len(d)), start - q, from, nonce, upto, last, cut)
  BY <1>1, <1>2, FramingDrops
<1> QED
  BY <1>1, <1>3 DEF Behind

LEMMA BehindCut ==
  ASSUME NEW lay, NEW T, NEW d \in Seq(T), NEW cut \in BOOLEAN, NEW total \in Nat,
         NEW passed, NEW count \in Nat, NEW start \in Nat, NEW from \in Nat, NEW nonce \in Nat,
         Behind(lay, d, cut, total, passed, count, start, from, nonce),
         NEW q \in 0..Len(d), NEW gone, Gone(gone)
  PROVE  Behind(lay, SubSeq(d, 1, q), gone, total, passed, count, start, from, nonce)
<1>1. PICK upto \in 0..total, last \in 0..count :
        /\ ~cut => upto = passed /\ last = count
        /\ Framing(lay, d, start, from, nonce, upto, last, cut)
  BY DEF Behind
<1>2. upto \in Nat
  OBVIOUS
<1>3. Framing(lay, SubSeq(d, 1, q), start, from, nonce, upto, last, gone)
  BY <1>1, <1>2, FramingCut
<1> QED
  BY <1>3 DEF Behind, Gone

\* The next frame, and the rest of the row behind it.
Splits(lay, d, cut, total, passed, count, start, from, nonce) ==
  \E n \in Nat \ {0} :
    /\ from + n <= total /\ Starts(lay, d, cut, start, from, nonce, n)
    /\ Behind(lay, d, cut, total, passed, count, start + FrameLen(lay, from, n),
              from + n, nonce + Nonces(lay, 1))

LEMMA BehindNext ==
  ASSUME NEW lay, NEW T, NEW d \in Seq(T), NEW cut \in BOOLEAN, NEW total \in Nat,
         NEW passed, NEW count \in Nat, NEW start \in Nat, NEW from \in Nat, NEW nonce \in Nat,
         Behind(lay, d, cut, total, passed, count, start, from, nonce), Len(d) > start
  PROVE  Splits(lay, d, cut, total, passed, count, start, from, nonce)
<1>1. PICK upto \in 0..total, last \in 0..count :
        /\ ~cut => upto = passed /\ last = count
        /\ Framing(lay, d, start, from, nonce, upto, last, cut)
  BY DEF Behind
<1>2. upto \in Nat /\ upto <= total
  OBVIOUS
<1>3. PICK n \in Nat \ {0} :
        /\ from + n <= upto
        /\ Starts(lay, d, cut, start, from, nonce, n)
        /\ Framing(lay, d, start + FrameLen(lay, from, n), from + n,
                   nonce + Nonces(lay, 1), upto, last, cut)
  <2>1. FrameFirst(lay, d, start, from, nonce, upto, last, cut)
    BY <1>1, <1>2, FramingNext
  <2> QED
    BY <2>1 DEF FrameFirst
<1>4. from + n <= total
  BY <1>2, <1>3
<1>5. Behind(lay, d, cut, total, passed, count, start + FrameLen(lay, from, n),
             from + n, nonce + Nonces(lay, 1))
  BY <1>1, <1>3 DEF Behind
<1> QED
  BY <1>3, <1>4, <1>5 DEF Splits

Bounds(d, cut, total, passed, count, start, from, nonce) ==
  /\ from <= total /\ nonce <= count
  /\ ~cut => start <= Len(d) /\ from <= passed
  /\ ~cut /\ Len(d) <= start => from = passed /\ nonce = count
  /\ ~cut /\ from = passed => Len(d) <= start
LEMMA BehindEnds ==
  ASSUME NEW lay, NEW T, NEW d \in Seq(T), NEW cut \in BOOLEAN, NEW total \in Nat,
         NEW passed, NEW count \in Nat, NEW start \in Nat, NEW from \in Nat, NEW nonce \in Nat,
         Behind(lay, d, cut, total, passed, count, start, from, nonce)
  PROVE  Bounds(d, cut, total, passed, count, start, from, nonce)
<1>1. PICK upto \in 0..total, last \in 0..count :
        /\ ~cut => upto = passed /\ last = count
        /\ Framing(lay, d, start, from, nonce, upto, last, cut)
  BY DEF Behind
<1>2. upto \in Nat /\ upto <= total /\ last \in Nat /\ last <= count
  OBVIOUS
<1>3. /\ from <= upto /\ nonce <= last
      /\ ~cut => start <= Len(d)
      /\ ~cut /\ Len(d) <= start => from = upto /\ nonce = last
      /\ from = upto => Len(d) <= start
  BY <1>1, <1>2, FramingEnds
<1> QED
  BY <1>1, <1>2, <1>3 DEF Bounds

LEMMA BehindGrows ==
  ASSUME NEW lay, NEW d \in Seq(Tokens), NEW total \in Nat, NEW passed \in Nat,
         NEW count \in Nat, NEW start \in Nat, NEW from \in Nat, NEW nonce \in Nat,
         NEW cut, Uncut(cut),
         Behind(lay, d, cut, total, passed, count, start, from, nonce),
         NEW n \in Nat \ {0}, passed + n <= total,
         NEW f, IsFrame(f, lay, count, passed, n)
  PROVE  Behind(lay, d \o f, cut, total, passed + n, count + Nonces(lay, 1), start, from, nonce)
<1>1. Framing(lay, d, start, from, nonce, passed, count, cut)
  BY DEF Behind, Uncut
<1>2. Framing(lay, d \o f, start, from, nonce, passed + n, count + Nonces(lay, 1), cut)
  BY <1>1, FramingGrows
<1>3. passed + n \in 0..total /\ count + Nonces(lay, 1) \in 0..(count + Nonces(lay, 1))
  BY DEF Nonces
<1> QED
  BY <1>2, <1>3 DEF Behind

-----------------------------------------------------------------------------
(***************************************************************************)
(* The inductive invariant.                                                *)
(***************************************************************************)
ReadSteps == {"first", "size", "data", "head"}
Types ==
  /\ TypeOK
  /\ sent \in Seq(Nat) /\ delivered \in Seq(Nat) /\ wire \in Seq(Tokens)
  /\ todo <= Len(sent)
  /\ r \in [at : ReadSteps, count : Nat, size : Nat, remain : Nat, buf : Seq(Nat)]

\* What has been read is the front of what was written, and what waits in the
\* reader's buffer comes next; the writer starts with the first byte.
Passing ==
  /\ \A i \in 1..Len(delivered) : delivered[i] = i
  /\ \A i \in 1..Len(r.buf) : r.buf[i] = Len(delivered) + i
  /\ Len(delivered) + Len(r.buf) <= Len(sent)
  /\ closed => todo = 0
  /\ ~w.init => wire = <<>>
  /\ ~w.init /\ ~broken => todo = Len(sent)
  /\ r.count <= w.count

\* Behind start tokens come whole frames with the bytes behind the first from, up
\* to what the writer has passed down or to where a break has cut.
Ahead(start, from, nonce) ==
  Behind(layer, wire, broken, Len(sent), Len(sent) - todo, w.count, start, from, nonce)

\* A break has left nothing to read.
Lost == broken /\ wire = <<>>

SealedAhead ==
  layer = "aead" =>
    \/ Lost
    \/ /\ r.at = "first" /\ r.count = 0 /\ delivered = <<>> /\ r.buf = <<>>
       /\ wire # <<>> => wire[1].kind = "salt"
       /\ Ahead(IF w.init THEN 1 ELSE 0, 0, 0)
    \/ /\ r.at = "size" /\ w.init
       /\ Ahead(0, Len(delivered) + Len(r.buf), r.count)
    \/ /\ r.at = "data" /\ w.init /\ r.buf = <<>> /\ r.size > 0
       /\ \A j \in Nat \ {0} : j <= r.size + 1 /\ j <= Len(wire) =>
            wire[j] = Sealed(r.count - 1, Len(delivered), r.size, j + 2)
       /\ Ahead(r.size + 1, Len(delivered) + r.size, r.count + 1)

KeyAhead ==
  layer = "stream" =>
    LET lead == IF r.at = "first" /\ w.init THEN 1 ELSE 0 IN
    /\ r.at \in {"first", "data"} /\ r.buf = <<>> /\ r.count = Len(delivered)
    /\ r.at = "first" => delivered = <<>>
    /\ r.at = "data" => w.init
    /\ w.count <= Len(sent) /\ (~broken => w.count = Len(sent) - todo)
    /\ Len(delivered) + Len(wire) <= w.count + lead
    /\ ~broken => Len(delivered) + Len(wire) = w.count + lead
    /\ \A i \in Nat \ {0} : lead + i <= Len(wire) =>
         wire[lead + i] = Token("byte", Len(delivered) + i, <<Len(delivered) + i>>)

\* The TLS layers have no nonces and start with the first frame.
Plaintext ==
  layer \in {"tlsUp", "tlsDown"} =>
    /\ w.count = 0 /\ r.count = 0 /\ r.buf = <<>>
    /\ w.init /\ ~broken => todo < Len(sent)

ServerAhead ==
  layer = "tlsUp" =>
    /\ r.at = (IF delivered = <<>> THEN "first" ELSE "head")
    /\ Lost \/ Ahead(0, Len(delivered), 0)

\* The next n tokens are the next n bytes, unless a break has cut them off.
Owed(n, off) ==
  \A i \in Nat \ {0} : i <= n /\ off + i <= Len(wire) =>
    wire[off + i] = Token("byte", Len(delivered) + i, <<>>)
RecordsAhead ==
  layer = "tlsDown" =>
    /\ r.at # "head" => r.remain = 0
    /\ r.at = "data" => r.size > 0
    /\ \/ Lost
       \/ r.at = "first" /\ delivered = <<>> /\ Ahead(0, 0, 0)
       \/ /\ r.at = "size"
          /\ \E n \in Nat \ {0} :
               /\ wire # <<>> => wire[1] = Token("size", n, <<>>)
               /\ Owed(n, 1) /\ Ahead(n + 1, Len(delivered) + n, 0)
       \/ /\ r.at = "data"
          /\ Owed(r.size, 0) /\ Ahead(r.size, Len(delivered) + r.size, 0)
       \/ /\ r.at = "head" /\ Len(delivered) + r.remain > 0
          /\ Owed(r.remain, 0) /\ Ahead(r.remain, Len(delivered) + r.remain, 0)

IInv ==
  /\ Types /\ Passing
  /\ SealedAhead /\ KeyAhead /\ Plaintext /\ ServerAhead /\ RecordsAhead

-----------------------------------------------------------------------------
(***************************************************************************)
(* What the writers put on the wire are frames.                            *)
(***************************************************************************)
LEMMA CountIs ==
  ASSUME NEW from \in Nat, NEW n \in Nat
  PROVE  /\ Count(from, n) \in Seq(Nat) /\ Len(Count(from, n)) = n
         /\ \A i \in 1..n : Count(from, n)[i] = from + i
BY DEF Count

\* The chunk of the current Write that is passed down.
LEMMA OutIs ==
  ASSUME Types, \A i \in 1..Len(sent) : sent[i] = i, NEW n \in 1..todo
  PROVE  /\ Len(sent) - todo \in Nat /\ Out(n) = Count(Len(sent) - todo, n)
         /\ (Len(sent) - todo) + n <= Len(sent)
<1>1. sent \in Seq(Nat) /\ todo \in Nat /\ todo <= Len(sent) /\ Len(sent) \in Nat
  BY DEF Types, TypeOK
<1>2. PICK from \in Nat : from = Len(sent) - todo /\ from + n <= Len(sent) /\ n \in Nat
  <2>1. Len(sent) - todo \in Nat /\ (Len(sent) - todo) + n <= Len(sent) /\ n \in Nat
    BY <1>1
  <2> QED
    BY <2>1
<1>3. SubSeq(sent, from + 1, from + n) = [i \in 1..n |-> sent[from + i]]
  BY <1>1, <1>2
<1>4. \A i \in 1..n : sent[from + i] = from + i
  BY <1>1, <1>2
<1>5. SubSeq(sent, from + 1, from + n) = [i \in 1..n |-> from + i]
  BY <1>3, <1>4
<1>6. Out(n) = SubSeq(sent, from + 1, from + n)
  BY <1>2 DEF Out
<1> QED
  BY <1>1, <1>2, <1>5, <1>6 DEF Count

LEMMA TokenIs ==
  ASSUME NEW kind \in Kinds, NEW val \in Nat, NEW at \in Seq(Nat)
  PROVE  Token(kind, val, at) \in Tokens
BY DEF Token, Tokens

\* A sealed box.
LEMMA SealIs ==
  ASSUME NEW nonce \in Nat, NEW vals \in Seq(Nat)
  PROVE  /\ Seal(nonce, vals) \in Seq(Tokens) /\ Len(Seal(nonce, vals)) = Len(vals) + 1
         /\ \A i \in 1..(Len(vals) + 1) :
              Seal(nonce, vals)[i] =
                Token("box", IF i <= Len(vals) THEN vals[i] ELSE Garbage, <<nonce, i, Len(vals)>>)
<1> DEFINE tok(i) == Token("box", IF i <= Len(vals) THEN vals[i] ELSE Garbage,
                           <<nonce, i, Len(vals)>>)
<1>1. Len(vals) \in Nat /\ Tag = 1
  BY DEF Tag
<1>2. \A i \in 1..(Len(vals) + 1) : tok(i) \in Tokens
  <2> SUFFICES ASSUME NEW i \in 1..(Len(vals) + 1) PROVE tok(i) \in Tokens
    OBVIOUS
  <2>1. (IF i <= Len(vals) THEN vals[i] ELSE Garbage) \in Nat
    BY <1>1 DEF Garbage
  <2>2. <<nonce, i, Len(vals)>> \in Seq(Nat)
    BY <1>1
  <2> QED
    BY <2>1, <2>2, TokenIs DEF Kinds
<1>3. Seal(nonce, vals) = [i \in 1..(Len(vals) + 1) |-> tok(i)]
  BY <1>1 DEF Seal
<1> HIDE DEF tok
<1>4. /\ Seal(nonce, vals) \in Seq(Tokens) /\ Len(Seal(nonce, vals)) = Len(vals) + 1
      /\ \A i \in 1..(Len(vals) + 1) : Seal(nonce, vals)[i] = tok(i)
  BY <1>1, <1>2, <1>3
<1> QED
  BY <1>4 DEF tok

SealedPair(nonce, from, n) == Seal(nonce, <<n>>) \o Seal(nonce + 1, Count(from, n))
LEMMA SealedFrame ==
  ASSUME NEW nonce \in Nat, NEW from \in Nat, NEW n \in Nat \ {0}
  PROVE  IsFrame(SealedPair(nonce, from, n), "aead", nonce, from, n)
<1>1. <<n>> \in Seq(Nat) /\ Len(<<n>>) = 1 /\ <<n>>[1] = n
  OBVIOUS
<1>2. /\ Count(from, n) \in Seq(Nat) /\ Len(Count(from, n)) = n
      /\ \A i \in 1..n : Count(from, n)[i] = from + i
  BY CountIs
<1>3. PICK one \in Seq(Nat) : one = <<n>> /\ Len(one) = 1 /\ one[1] = n
  BY <1>1
<1>4. /\ Seal(nonce, one) \in Seq(Tokens) /\ Len(Seal(nonce, one)) = Len(one) + 1
      /\ \A i \in 1..(Len(one) + 1) : Seal(nonce, one)[i] =
           Token("box", IF i <= Len(one) THEN one[i] ELSE Garbage, <<nonce, i, Len(one)>>)
  BY SealIs
<1>5. PICK vals \in Seq(Nat) : /\ vals = Count(from, n) /\ Len(vals) = n
                               /\ \A i \in 1..n : vals[i] = from + i
  BY <1>2
<1>6. /\ Seal(nonce + 1, vals) \in Seq(Tokens) /\ Len(Seal(nonce + 1, vals)) = Len(vals) + 1
      /\ \A i \in 1..(Len(vals) + 1) : Seal(nonce + 1, vals)[i] =
           Token("box", IF i <= Len(vals) THEN vals[i] ELSE Garbage, <<nonce + 1, i, Len(vals)>>)
  <2>1. nonce + 1 \in Nat
    OBVIOUS
  <2> QED
    BY <2>1, SealIs
<1>7. PICK a \in Seq(Tokens) :
        /\ a = Seal(nonce, one) /\ Len(a) = 2
        /\ a[1] = Token("box", n, <<nonce, 1, 1>>)
        /\ a[2] = Token("box", Garbage, <<nonce, 2, 1>>)
  <2>1. 1 \in 1..2 /\ 2 \in 1..2 /\ 1 <= 1 /\ ~(2 <= 1)
    OBVIOUS
  <2> QED
    BY <1>3, <1>4, <2>1
<1>8. PICK b \in Seq(Tokens) :
        /\ b = Seal(nonce + 1, vals) /\ Len(b) = n + 1
        /\ \A i \in 1..(n + 1) :
             b[i] = Token("box", IF i <= n THEN from + i ELSE Garbage, <<nonce + 1, i, n>>)
  BY <1>5, <1>6
<1>9. PICK f : f = a \o b
  OBVIOUS
<1>10. /\ f \in Seq(Tokens) /\ Len(f) = Len(a) + Len(b)
       /\ \A i \in 1..Len(a) : f[i] = a[i]
       /\ \A j \in 1..Len(b) : f[Len(a) + j] = b[j]
  BY <1>9, Joined
<1>11. Len(f) = n + 3 /\ FrameLen("aead", from, n) = n + 3
  BY <1>7, <1>8, <1>10 DEF FrameLen
<1>12. ASSUME NEW j \in 1..(n + 3)
       PROVE  f[j] = Sealed(nonce, from, n, j)
  <2>1. CASE j = 1
    <3>1. f[1] = a[1]
      BY <1>7, <1>10
    <3> QED
      BY <1>7, <2>1, <3>1 DEF Sealed
  <2>2. CASE j = 2
    <3>1. f[2] = a[2]
      BY <1>7, <1>10
    <3> QED
      BY <1>7, <2>2, <3>1 DEF Sealed
  <2>3. CASE j > 2
    <3>1. j - 2 \in 1..(n + 1) /\ 2 + (j - 2) = j /\ (j - 2 <= n <=> j <= n + 2)
      BY <2>3
    <3>2. f[j] = b[j - 2]
      <4>1. j - 2 \in 1..Len(b) /\ Len(a) + (j - 2) = j
        BY <1>7, <1>8, <3>1
      <4>2. f[Len(a) + (j - 2)] = b[j - 2]
        BY <1>10, <4>1
      <4> QED
        BY <4>1, <4>2
    <3>3. b[j - 2] = Token("box", IF j - 2 <= n THEN from + (j - 2) ELSE Garbage,
                           <<nonce + 1, j - 2, n>>)
      BY <1>8, <3>1
    <3>4. j # 1 /\ j # 2
      BY <2>3
    <3> QED
      BY <3>1, <3>2, <3>3, <3>4 DEF Sealed
  <2> QED
    BY <2>1, <2>2, <2>3
<1>13. f = SealedPair(nonce, from, n)
  BY <1>3, <1>5, <1>7, <1>8, <1>9 DEF SealedPair
<1> QED
  BY <1>10, <1>11, <1>12, <1>13 DEF Part, IsFrame

\* Records: k heads, the size, the bytes, and t heads.
Heading(k, from, n) == Heads(k) \o (Plain("size", <<n>>) \o Plain("byte", Count(from, n)))

LEMMA HeadsAre ==
  ASSUME NEW k \in Nat
  PROVE  /\ Heads(k) \in Seq(Tokens) /\ Len(Heads(k)) = k
         /\ \A i \in 1..k : Heads(k)[i] = Token("head", Garbage, <<>>)
<1>1. Token("head", Garbage, <<>>) \in Tokens
  <2>1. <<>> \in Seq(Nat)
    OBVIOUS
  <2> QED
    BY <2>1, TokenIs DEF Kinds, Garbage
<1> QED
  BY <1>1 DEF Heads

LEMMA PlainIs ==
  ASSUME NEW kind \in Kinds, NEW vals \in Seq(Nat)
  PROVE  /\ Plain(kind, vals) \in Seq(Tokens) /\ Len(Plain(kind, vals)) = Len(vals)
         /\ \A i \in 1..Len(vals) : Plain(kind, vals)[i] = Token(kind, vals[i], <<>>)
<1>1. Len(vals) \in Nat /\ \A i \in 1..Len(vals) : vals[i] \in Nat
  OBVIOUS
<1>2. <<>> \in Seq(Nat)
  OBVIOUS
<1>3. \A i \in 1..Len(vals) : Token(kind, vals[i], <<>>) \in Tokens
  BY <1>1, <1>2, TokenIs
<1> QED
  BY <1>1, <1>3 DEF Plain

LEMMA HeadingIs ==
  ASSUME NEW k \in Nat, NEW from \in Nat, NEW n \in Nat \ {0}
  PROVE  /\ Heading(k, from, n) \in Seq(Tokens) /\ Len(Heading(k, from, n)) = k + 1 + n
         /\ \A i \in 1..k : Heading(k, from, n)[i] = Token("head", Garbage, <<>>)
         /\ Heading(k, from, n)[k + 1] = Token("size", n, <<>>)
         /\ \A i \in 1..n : Heading(k, from, n)[k + 1 + i] = Token("byte", from + i, <<>>)
<1>1. PICK one \in Seq(Nat) : one = <<n>> /\ Len(one) = 1 /\ one[1] = n
  <2>1. <<n>> \in Seq(Nat) /\ Len(<<n>>) = 1 /\ <<n>>[1] = n
    OBVIOUS
  <2> QED
    BY <2>1
<1>2. PICK vals \in Seq(Nat) : /\ vals = Count(from, n) /\ Len(vals) = n
                               /\ \A i \in 1..n : vals[i] = from + i
  BY CountIs
<1>3. PICK h \in Seq(Tokens) : /\ h = Heads(k) /\ Len(h) = k
                              /\ \A i \in 1..k : h[i] = Token("head", Garbage, <<>>)
  BY HeadsAre
<1>4. PICK a \in Seq(Tokens) : a = Plain("size", one) /\ Len(a) = 1 /\ a[1] = Token("size", n, <<>>)
  <2>1. /\ Plain("size", one) \in Seq(Tokens) /\ Len(Plain("size", one)) = Len(one)
        /\ \A i \in 1..Len(one) : Plain("size", one)[i] = Token("size", one[i], <<>>)
    BY PlainIs DEF Kinds
  <2> QED
    BY <1>1, <2>1
<1>5. PICK b \in Seq(Tokens) : /\ b = Plain("byte", vals) /\ Len(b) = n
                              /\ \A i \in 1..n : b[i] = Token("byte", from + i, <<>>)
  <2>1. /\ Plain("byte", vals) \in Seq(Tokens) /\ Len(Plain("byte", vals)) = Len(vals)
        /\ \A i \in 1..Len(vals) : Plain("byte", vals)[i] = Token("byte", vals[i], <<>>)
    BY PlainIs DEF Kinds
  <2>2. \A i \in 1..n : Plain("byte", vals)[i] = Token("byte", from + i, <<>>)
    BY <1>2, <2>1
  <2> QED
    BY <1>2, <2>1, <2>2
<1>6. PICK g \in Seq(Tokens) : IsJoin(g, a, b)
  BY Joining
<1>7. Len(g) = n + 1 /\ g[1] = Token("size", n, <<>>)
  <2>1. Len(g) = Len(a) + Len(b) /\ \A i \in 1..Len(a) : g[i] = a[i]
    BY <1>6 DEF IsJoin
  <2>2. Len(a) = 1 /\ 1 \in 1..1
    BY <1>4
  <2>3. Len(b) = n
    BY <1>5
  <2>4. Len(g) = n + 1
    BY <2>1, <2>2, <2>3
  <2>5. g[1] = a[1]
    BY <2>1, <2>2
  <2>6. a[1] = Token("size", n, <<>>)
    BY <1>4
  <2> QED
    BY <2>4, <2>5, <2>6
<1>8. \A i \in 1..n : g[1 + i] = Token("byte", from + i, <<>>)
  BY <1>4, <1>5, <1>6 DEF IsJoin
<1>9. PICK f \in Seq(Tokens) : IsJoin(f, h, g)
  BY Joining
<1>11. \A i \in 1..k : f[i] = Token("head", Garbage, <<>>)
  BY <1>3, <1>9 DEF IsJoin
<1>12. f[k + 1] = Token("size", n, <<>>)
  BY <1>3, <1>7, <1>9 DEF IsJoin
<1>13. ASSUME NEW i \in 1..n PROVE f[k + 1 + i] = Token("byte", from + i, <<>>)
  <2>1. 1 + i \in 1..Len(g) /\ Len(h) + (1 + i) = k + 1 + i
    BY <1>3, <1>7
  <2>2. f[Len(h) + (1 + i)] = g[1 + i]
    BY <1>9, <2>1 DEF IsJoin
  <2> QED
    BY <1>8, <2>1, <2>2
<1>14. Len(f) = k + 1 + n
  BY <1>3, <1>7, <1>9 DEF IsJoin
<1>15. f = Heading(k, from, n)
  BY <1>1, <1>2, <1>3, <1>4, <1>5, <1>6, <1>9 DEF Heading, IsJoin
<1> QED
  BY <1>11, <1>12, <1>13, <1>14, <1>15

LEMMA RecordIs ==
  ASSUME NEW lay, lay # "aead", NEW from \in Nat, NEW n \in Nat \ {0}, TailLen(lay, from) = 0
  PROVE  IsFrame(Heading(HeadLen(from), from, n), lay, 0, from, n)
<1>1. PICK k \in Nat : k = HeadLen(from)
  BY TransportAssumption DEF HeadLen
<1>2. /\ Heading(k, from, n) \in Seq(Tokens) /\ Len(Heading(k, from, n)) = k + 1 + n
      /\ \A i \in 1..k : Heading(k, from, n)[i] = Token("head", Garbage, <<>>)
      /\ Heading(k, from, n)[k + 1] = Token("size", n, <<>>)
      /\ \A i \in 1..n : Heading(k, from, n)[k + 1 + i] = Token("byte", from + i, <<>>)
  BY HeadingIs, ZenonT(30)
<1>3. PICK f \in Seq(Tokens) :
        /\ f = Heading(k, from, n) /\ Len(f) = k + 1 + n
        /\ \A i \in 1..k : f[i] = Token("head", Garbage, <<>>)
        /\ f[k + 1] = Token("size", n, <<>>)
        /\ \A i \in 1..n : f[k + 1 + i] = Token("byte", from + i, <<>>)
  BY <1>2
<1>4. FrameLen(lay, from, n) = k + 1 + n
  BY <1>1 DEF FrameLen
<1>5. ASSUME NEW j \in 1..(k + 1 + n)
      PROVE  f[j] = Record(from, n, j)
  <2>1. CASE j <= k
    BY <1>1, <1>3, <2>1 DEF Record
  <2>2. CASE j = k + 1
    BY <1>1, <1>3, <2>2 DEF Record
  <2>3. CASE j > k + 1
    <3>1. j - (k + 1) \in 1..n /\ k + 1 + (j - (k + 1)) = j
      BY <2>3
    <3>2. f[k + 1 + (j - (k + 1))] = Token("byte", from + (j - (k + 1)), <<>>)
      BY <1>3, <3>1
    <3> QED
      BY <1>1, <2>3, <3>1, <3>2 DEF Record
  <2> QED
    BY <2>1, <2>2, <2>3
<1> QED
  BY <1>1, <1>3, <1>4, <1>5 DEF IsFrame, Part

LEMMA HelloIs ==
  ASSUME NEW n \in Nat \ {0}
  PROVE  IsFrame(Heading(FirstHeader, 0, n) \o Heads(1), "tlsUp", 0, 0, n)
<1>1. PICK k \in Nat : k = HeadLen(0) /\ k = FirstHeader
  BY TransportAssumption DEF HeadLen
<1>2. /\ Heading(k, 0, n) \in Seq(Tokens) /\ Len(Heading(k, 0, n)) = k + 1 + n
      /\ \A i \in 1..k : Heading(k, 0, n)[i] = Token("head", Garbage, <<>>)
      /\ Heading(k, 0, n)[k + 1] = Token("size", n, <<>>)
      /\ \A i \in 1..n : Heading(k, 0, n)[k + 1 + i] = Token("byte", 0 + i, <<>>)
  <2>1. 0 \in Nat
    OBVIOUS
  <2> QED
    BY <2>1, HeadingIs
<1>3. PICK g \in Seq(Tokens) :
        /\ g = Heading(k, 0, n) /\ Len(g) = k + 1 + n
        /\ \A i \in 1..k : g[i] = Token("head", Garbage, <<>>)
        /\ g[k + 1] = Token("size", n, <<>>)
        /\ \A i \in 1..n : g[k + 1 + i] = Token("byte", 0 + i, <<>>)
  BY <1>2
<1>4. PICK h \in Seq(Tokens) : h = Heads(1) /\ Len(h) = 1 /\ h[1] = Token("head", Garbage, <<>>)
  <2>1. /\ Heads(1) \in Seq(Tokens) /\ Len(Heads(1)) = 1
        /\ \A i \in 1..1 : Heads(1)[i] = Token("head", Garbage, <<>>)
    BY HeadsAre
  <2> QED
    BY <2>1
<1>6. PICK f \in Seq(Tokens) : IsJoin(f, g, h)
  BY Joining
<1>7. Len(f) = k + 1 + n + 1 /\ FrameLen("tlsUp", 0, n) = k + 1 + n + 1
  BY <1>1, <1>3, <1>4, <1>6 DEF FrameLen, TailLen, IsJoin
<1>8. \A i \in 1..(k + 1 + n) : f[i] = g[i]
  BY <1>3, <1>6 DEF IsJoin
<1>9. f[k + 1 + n + 1] = Token("head", Garbage, <<>>)
  BY <1>3, <1>4, <1>6 DEF IsJoin
<1>10. ASSUME NEW j \in 1..(k + 1 + n + 1)
       PROVE  f[j] = Record(0, n, j)
  <2>1. CASE j <= k
    <3>1. j \in 1..k /\ j \in 1..(k + 1 + n)
      BY <2>1
    <3>2. f[j] = g[j]
      BY <1>8, <3>1
    <3>3. g[j] = Token("head", Garbage, <<>>)
      BY <1>3, <3>1
    <3> QED
      BY <1>1, <2>1, <3>2, <3>3 DEF Record
  <2>2. CASE j = k + 1
    <3>1. f[j] = g[j] /\ g[j] = Token("size", n, <<>>)
      BY <1>3, <1>8, <2>2
    <3> QED
      BY <1>1, <2>2, <3>1 DEF Record
  <2>3. CASE j > k + 1 /\ j <= k + 1 + n
    <3>1. j - (k + 1) \in 1..n /\ k + 1 + (j - (k + 1)) = j /\ j \in 1..(k + 1 + n)
      BY <2>3
    <3>2. g[k + 1 + (j - (k + 1))] = Token("byte", 0 + (j - (k + 1)), <<>>)
      BY <1>3, <3>1
    <3>3. f[j] = Token("byte", 0 + (j - (k + 1)), <<>>)
      BY <1>8, <3>1, <3>2
    <3>4. ~(j <= k) /\ j # k + 1 /\ j <= k + 1 + n
      BY <2>3
    <3> QED
      BY <1>1, <3>3, <3>4 DEF Record
  <2>4. CASE j = k + 1 + n + 1
    BY <1>1, <1>9, <2>4 DEF Record
  <2> QED
    BY <2>1, <2>2, <2>3, <2>4
<1>11. f = Heading(FirstHeader, 0, n) \o Heads(1)
  BY <1>1, <1>3, <1>4, <1>6 DEF IsJoin
<1> QED
  BY <1>7, <1>10, <1>11 DEF IsFrame, Part

-----------------------------------------------------------------------------
(***************************************************************************)
(* The writer's steps, Close and Break keep the invariant.                 *)
(***************************************************************************)
LEMMA TypesAre ==
  ASSUME Types
  PROVE  /\ sent \in Seq(Nat) /\ Len(sent) \in Nat /\ todo \in Nat /\ todo <= Len(sent)
         /\ Len(sent) - todo \in Nat /\ Len(sent) - todo <= Len(sent)
         /\ delivered \in Seq(Nat) /\ Len(delivered) \in Nat
         /\ wire \in Seq(Tokens) /\ Len(wire) \in Nat
         /\ broken \in BOOLEAN /\ closed \in BOOLEAN
         /\ w.count \in Nat /\ w.init \in BOOLEAN /\ w.failed \in BOOLEAN
         /\ r.count \in Nat /\ r.size \in Nat /\ r.remain \in Nat
         /\ r.buf \in Seq(Nat) /\ Len(r.buf) \in Nat /\ r.at \in ReadSteps
BY DEF Types, TypeOK

\* What the reader has to know of the wire, for a step that leaves the reader alone.
WriterStep ==
  /\ layer' = layer /\ delivered' = delivered /\ r' = r
  /\ broken => broken' /\ Len(wire') <= Len(wire)
  /\ \A i \in Nat \ {0} : i <= Len(wire') /\ i <= Len(wire) => wire'[i] = wire[i]
  /\ \A start, from, nonce \in Nat :
       Behind(layer, wire, broken, Len(sent), Len(sent) - todo, w.count, start, from, nonce) =>
       Behind(layer, wire', broken', Len(sent'), Len(sent') - todo', w'.count, start, from, nonce)

\* The places before the row are there as long as nothing has been cut off.
LEMMA KeepsBefore ==
  ASSUME Types, Types', WriterStep, NEW start \in Nat, NEW from \in Nat, NEW nonce \in Nat,
         Behind(layer, wire, broken, Len(sent), Len(sent) - todo, w.count, start, from, nonce)
  PROVE  /\ Behind(layer, wire', broken', Len(sent'), Len(sent') - todo', w'.count, start, from, nonce)
         /\ \A i \in Nat \ {0} : i <= start /\ i <= Len(wire') => i <= Len(wire) /\ wire'[i] = wire[i]
<1>0. wire' \in Seq(Tokens)
  BY DEF Types
<1>1. /\ wire \in Seq(Tokens) /\ Len(wire) \in Nat /\ Len(sent) \in Nat /\ w.count \in Nat
      /\ broken \in BOOLEAN
  BY TypesAre
<1>2. Behind(layer, wire', broken', Len(sent'), Len(sent') - todo', w'.count, start, from, nonce)
  BY DEF WriterStep
<1>3. ~broken => start <= Len(wire)
  <2>1. Bounds(wire, broken, Len(sent), Len(sent) - todo, w.count, start, from, nonce)
    BY <1>1, BehindEnds
  <2> QED
    BY <2>1 DEF Bounds
<1>4. broken => Len(wire') <= Len(wire)
  BY DEF WriterStep
<1>5. ASSUME NEW i \in Nat \ {0}, i <= start, i <= Len(wire')
      PROVE  i <= Len(wire) /\ wire'[i] = wire[i]
  <2>1. i <= Len(wire)
    <3>1. Len(wire') \in Nat
      BY <1>0
    <3> QED
      BY <1>1, <1>3, <1>4, <1>5, <3>1
  <2> QED
    BY <1>5, <2>1 DEF WriterStep
<1> QED
  BY <1>2, <1>5

LEMMA KeepsLost ==
  ASSUME Types, Types', WriterStep, Lost
  PROVE  Lost'
<1>1. wire' \in Seq(Tokens) /\ Len(wire') <= 0 /\ Len(wire') \in Nat
  BY TypesAre DEF WriterStep, Lost, Types
<1> QED
  BY <1>1, EmptySeq DEF WriterStep, Lost

LEMMA KeepsServer ==
  ASSUME Types, Types', WriterStep, ServerAhead
  PROVE  ServerAhead'
<1> SUFFICES ASSUME layer = "tlsUp" PROVE ServerAhead'
  BY DEF ServerAhead, WriterStep
<1>1. r'.at = (IF delivered' = <<>> THEN "first" ELSE "head")
  BY DEF ServerAhead, WriterStep
<1>2. PICK d \in Nat : d = Len(delivered) /\ d = Len(delivered')
  BY TypesAre DEF WriterStep
<1>3. CASE Lost
  BY <1>1, <1>3, KeepsLost DEF ServerAhead
<1>4. CASE Behind(layer, wire, broken, Len(sent), Len(sent) - todo, w.count, 0, d, 0)
  <2>1. Behind(layer, wire', broken', Len(sent'), Len(sent') - todo', w'.count, 0, d, 0)
    BY <1>4, KeepsBefore
  <2>2. layer' = layer
    BY DEF WriterStep
  <2> QED
    BY <1>1, <1>2, <2>1, <2>2 DEF ServerAhead, Ahead
<1> QED
  BY <1>2, <1>3, <1>4 DEF ServerAhead, Ahead

LEMMA KeepsSealed ==
  ASSUME Types, Types', WriterStep, SealedAhead, w'.init = w.init, ~w.init => wire' = <<>>
  PROVE  SealedAhead'
<1> SUFFICES ASSUME layer = "aead" PROVE SealedAhead'
  BY DEF SealedAhead, WriterStep
<1>1. layer' = layer /\ r' = r /\ delivered' = delivered
  BY DEF WriterStep
<1>2. CASE Lost
  BY <1>2, KeepsLost DEF SealedAhead
<1>3. CASE /\ r.at = "first" /\ r.count = 0 /\ delivered = <<>> /\ r.buf = <<>>
           /\ wire # <<>> => wire[1].kind = "salt"
           /\ Ahead(IF w.init THEN 1 ELSE 0, 0, 0)
  <2>1. PICK start \in 0..1 : start = IF w.init THEN 1 ELSE 0
    OBVIOUS
  <2>2. start \in Nat /\ Behind(layer, wire, broken, Len(sent), Len(sent) - todo, w.count, start, 0, 0)
    BY <1>3, <2>1 DEF Ahead
  <2>3. /\ Behind(layer, wire', broken', Len(sent'), Len(sent') - todo', w'.count, start, 0, 0)
        /\ \A i \in Nat \ {0} : i <= start /\ i <= Len(wire') => i <= Len(wire) /\ wire'[i] = wire[i]
    BY <2>2, KeepsBefore
  <2>4. wire' # <<>> => wire'[1].kind = "salt"
    <3> SUFFICES ASSUME wire' # <<>> PROVE wire'[1].kind = "salt"
      OBVIOUS
    <3>1. Len(wire') \in Nat /\ Len(wire') # 0 /\ wire \in Seq(Tokens)
      BY EmptySeq DEF Types
    <3>2. start = 1
      BY <2>1
    <3>3. 1 <= Len(wire) /\ wire'[1] = wire[1]
      BY <2>3, <3>1, <3>2
    <3>4. wire # <<>>
      BY <3>3
    <3> QED
      BY <1>3, <3>3, <3>4
  <2> QED
    BY <1>1, <1>3, <2>1, <2>3, <2>4 DEF SealedAhead, Ahead
<1>4. CASE /\ r.at = "size" /\ w.init
           /\ Ahead(0, Len(delivered) + Len(r.buf), r.count)
  <2>1. PICK d \in Nat, c \in Nat : d = Len(delivered) + Len(r.buf) /\ c = r.count
    <3>1. Len(delivered) + Len(r.buf) \in Nat /\ r.count \in Nat
      BY TypesAre
    <3> QED
      BY <3>1
  <2>2. Behind(layer, wire, broken, Len(sent), Len(sent) - todo, w.count, 0, d, c)
    BY <1>4, <2>1 DEF Ahead
  <2>3. Behind(layer, wire', broken', Len(sent'), Len(sent') - todo', w'.count, 0, d, c)
    BY <2>2, KeepsBefore
  <2> QED
    BY <1>1, <1>4, <2>1, <2>3 DEF SealedAhead, Ahead
<1>5. CASE /\ r.at = "data" /\ w.init /\ r.buf = <<>> /\ r.size > 0
           /\ \A j \in Nat \ {0} : j <= r.size + 1 /\ j <= Len(wire) =>
                wire[j] = Sealed(r.count - 1, Len(delivered), r.size, j + 2)
           /\ Ahead(r.size + 1, Len(delivered) + r.size, r.count + 1)
  <2>1. PICK k \in Nat, d \in Nat, c \in Nat :
          k = r.size + 1 /\ d = Len(delivered) + r.size /\ c = r.count + 1
    <3>1. r.size \in Nat /\ Len(delivered) \in Nat /\ r.count \in Nat
      BY TypesAre
    <3>2. r.size + 1 \in Nat /\ Len(delivered) + r.size \in Nat /\ r.count + 1 \in Nat
      BY <3>1
    <3> QED
      BY <3>2
  <2>2. Behind(layer, wire, broken, Len(sent), Len(sent) - todo, w.count, k, d, c)
    BY <1>5, <2>1 DEF Ahead
  <2>3. /\ Behind(layer, wire', broken', Len(sent'), Len(sent') - todo', w'.count, k, d, c)
        /\ \A i \in Nat \ {0} : i <= k /\ i <= Len(wire') => i <= Len(wire) /\ wire'[i] = wire[i]
    BY <2>2, KeepsBefore
  <2>4. ASSUME NEW j \in Nat \ {0}, j <= r.size + 1, j <= Len(wire')
        PROVE  wire'[j] = Sealed(r.count - 1, Len(delivered), r.size, j + 2)
    <3>1. j <= Len(wire) /\ wire'[j] = wire[j]
      BY <2>1, <2>3, <2>4
    <3> QED
      BY <1>5, <2>4, <3>1
  <2>5. Ahead(r.size + 1, Len(delivered) + r.size, r.count + 1)'
    BY <1>1, <2>1, <2>3 DEF Ahead
  <2> QED
    BY <1>1, <1>5, <2>4, <2>5 DEF SealedAhead
<1> QED
  BY <1>2, <1>3, <1>4, <1>5 DEF SealedAhead

LEMMA KeepsOwed ==
  ASSUME Types, Types', WriterStep, NEW n \in Nat, NEW off \in Nat, NEW d \in Nat, NEW c \in Nat,
         Owed(n, off),
         Behind(layer, wire, broken, Len(sent), Len(sent) - todo, w.count, n + off, d, c)
  PROVE  \A i \in Nat \ {0} : i <= n /\ off + i <= Len(wire') =>
           wire'[off + i] = Token("byte", Len(delivered) + i, <<>>)
<1>0. PICK start \in Nat : start = n + off
  OBVIOUS
<1>1. Behind(layer, wire, broken, Len(sent), Len(sent) - todo, w.count, start, d, c)
  BY <1>0
<1>2. \A i \in Nat \ {0} : i <= start /\ i <= Len(wire') => i <= Len(wire) /\ wire'[i] = wire[i]
  BY <1>1, KeepsBefore
<1> SUFFICES ASSUME NEW i \in Nat \ {0}, i <= n, off + i <= Len(wire')
             PROVE  wire'[off + i] = Token("byte", Len(delivered) + i, <<>>)
  OBVIOUS
<1>3. off + i \in Nat \ {0} /\ off + i <= start
  BY <1>0
<1>4. off + i <= Len(wire) /\ wire'[off + i] = wire[off + i]
  BY <1>2, <1>3
<1> QED
  BY <1>4 DEF Owed

LEMMA KeepsRecords ==
  ASSUME Types, Types', WriterStep, RecordsAhead
  PROVE  RecordsAhead'
<1> SUFFICES ASSUME layer = "tlsDown" PROVE RecordsAhead'
  BY DEF RecordsAhead, WriterStep
<1>1. layer' = layer /\ r' = r /\ delivered' = delivered
  BY DEF WriterStep
<1>2. (r'.at # "head" => r'.remain = 0) /\ (r'.at = "data" => r'.size > 0)
  BY <1>1 DEF RecordsAhead
<1>3. CASE Lost
  BY <1>2, <1>3, KeepsLost DEF RecordsAhead
<1>4. CASE r.at = "first" /\ delivered = <<>> /\ Ahead(0, 0, 0)
  <2>1. Behind(layer, wire, broken, Len(sent), Len(sent) - todo, w.count, 0, 0, 0)
    BY <1>4 DEF Ahead
  <2>2. Behind(layer, wire', broken', Len(sent'), Len(sent') - todo', w'.count, 0, 0, 0)
    BY <2>1, KeepsBefore
  <2> QED
    BY <1>1, <1>2, <1>4, <2>2 DEF RecordsAhead, Ahead
<1>5. CASE r.at = "size" /\ \E n \in Nat \ {0} :
             /\ wire # <<>> => wire[1] = Token("size", n, <<>>)
             /\ Owed(n, 1) /\ Ahead(n + 1, Len(delivered) + n, 0)
  <2>1. PICK n \in Nat \ {0} :
          /\ wire # <<>> => wire[1] = Token("size", n, <<>>)
          /\ Owed(n, 1) /\ Ahead(n + 1, Len(delivered) + n, 0)
    BY <1>5
  <2>2. PICK k \in Nat, d \in Nat : k = n + 1 /\ d = Len(delivered) + n
    <3>1. n + 1 \in Nat /\ Len(delivered) + n \in Nat
      BY TypesAre
    <3> QED
      BY <3>1
  <2>3. Behind(layer, wire, broken, Len(sent), Len(sent) - todo, w.count, k, d, 0)
    BY <2>1, <2>2 DEF Ahead
  <2>4. /\ Behind(layer, wire', broken', Len(sent'), Len(sent') - todo', w'.count, k, d, 0)
        /\ \A i \in Nat \ {0} : i <= k /\ i <= Len(wire') => i <= Len(wire) /\ wire'[i] = wire[i]
    BY <2>3, KeepsBefore
  <2>5. Owed(n, 1)'
    <3>1. \A i \in Nat \ {0} : i <= n /\ 1 + i <= Len(wire') =>
            wire'[1 + i] = Token("byte", Len(delivered) + i, <<>>)
      BY <2>1, <2>2, <2>3, KeepsOwed
    <3> QED
      BY <1>1, <3>1 DEF Owed
  <2>6. wire' # <<>> => wire'[1] = Token("size", n, <<>>)
    <3> SUFFICES ASSUME wire' # <<>> PROVE wire'[1] = Token("size", n, <<>>)
      OBVIOUS
    <3>1. Len(wire') \in Nat /\ Len(wire') # 0 /\ wire \in Seq(Tokens)
      BY EmptySeq DEF Types
    <3>2. 1 <= Len(wire) /\ wire'[1] = wire[1]
      BY <2>2, <2>4, <3>1
    <3>3. wire # <<>>
      BY <3>2
    <3> QED
      BY <2>1, <3>2, <3>3
  <2>7. Ahead(n + 1, Len(delivered) + n, 0)'
    BY <1>1, <2>2, <2>4 DEF Ahead
  <2> QED
    BY <1>1, <1>2, <1>5, <2>5, <2>6, <2>7 DEF RecordsAhead
<1>6. CASE r.at = "data" /\ Owed(r.size, 0) /\ Ahead(r.size, Len(delivered) + r.size, 0)
  <2>1. PICK k \in Nat, d \in Nat : k = r.size /\ k + 0 = k /\ d = Len(delivered) + r.size
    BY TypesAre
  <2>2. Behind(layer, wire, broken, Len(sent), Len(sent) - todo, w.count, k, d, 0) /\ Owed(k, 0)
    BY <1>6, <2>1 DEF Ahead
  <2>3. Behind(layer, wire', broken', Len(sent'), Len(sent') - todo', w'.count, k, d, 0)
    BY <2>2, KeepsBefore
  <2>4. \A i \in Nat \ {0} : i <= k /\ 0 + i <= Len(wire') =>
          wire'[0 + i] = Token("byte", Len(delivered) + i, <<>>)
    BY <2>1, <2>2, KeepsOwed
  <2>5. Owed(r.size, 0)' /\ Ahead(r.size, Len(delivered) + r.size, 0)'
    BY <1>1, <2>1, <2>3, <2>4 DEF Owed, Ahead
  <2> QED
    BY <1>1, <1>2, <1>6, <2>5 DEF RecordsAhead
<1>7. CASE /\ r.at = "head" /\ Len(delivered) + r.remain > 0
           /\ Owed(r.remain, 0) /\ Ahead(r.remain, Len(delivered) + r.remain, 0)
  <2>1. PICK k \in Nat, d \in Nat : k = r.remain /\ k + 0 = k /\ d = Len(delivered) + r.remain
    BY TypesAre
  <2>2. Behind(layer, wire, broken, Len(sent), Len(sent) - todo, w.count, k, d, 0) /\ Owed(k, 0)
    BY <1>7, <2>1 DEF Ahead
  <2>3. Behind(layer, wire', broken', Len(sent'), Len(sent') - todo', w'.count, k, d, 0)
    BY <2>2, KeepsBefore
  <2>4. \A i \in Nat \ {0} : i <= k /\ 0 + i <= Len(wire') =>
          wire'[0 + i] = Token("byte", Len(delivered) + i, <<>>)
    BY <2>1, <2>2, KeepsOwed
  <2>5. Owed(r.remain, 0)' /\ Ahead(r.remain, Len(delivered) + r.remain, 0)'
    BY <1>1, <2>1, <2>3, <2>4 DEF Owed, Ahead
  <2> QED
    BY <1>1, <1>2, <1>7, <2>5 DEF RecordsAhead
<1> QED
  BY <1>3, <1>4, <1>5, <1>6, <1>7 DEF RecordsAhead

-----------------------------------------------------------------------------
\* A step of the writer keeps the invariant if it keeps its own side of it.
LEMMA WriterTypes ==
  ASSUME Types, UNCHANGED <<layer, delivered, end, r>>,
         closed' \in BOOLEAN, broken' \in BOOLEAN, sent' \in Seq(Nat), wire' \in Seq(Tokens),
         todo' \in 0..Len(sent'), Len(sent') <= Length, \A i \in 1..Len(sent') : sent'[i] = i,
         w' \in [init : BOOLEAN, count : Nat, failed : BOOLEAN]
  PROVE  Types'
<1>1. todo' \in 0..Length /\ todo' <= Len(sent') /\ DOMAIN (sent') = 1..Len(sent')
  <2>1. Len(sent') \in Nat /\ Length \in Nat
    BY TransportAssumption
  <2>2. DOMAIN (sent') = 1..Len(sent')
    OBVIOUS
  <2> QED
    BY <2>1, <2>2
<1> QED
  BY <1>1 DEF Types, TypeOK

LEMMA WriterPassing ==
  ASSUME Types, Passing, UNCHANGED <<layer, delivered, end, r>>,
         Len(sent') \in Nat, Len(sent) <= Len(sent'), closed' => todo' = 0,
         w'.count \in Nat, w.count <= w'.count,
         ~w'.init => wire' = <<>>, ~w'.init /\ ~broken' => todo' = Len(sent')
  PROVE  Passing'
<1>1. Len(delivered) + Len(r.buf) <= Len(sent')
  <2>1. PICK x \in Nat : x = Len(delivered) + Len(r.buf)
    <3>1. Len(delivered) \in Nat /\ Len(r.buf) \in Nat
      BY TypesAre
    <3> QED
      BY <3>1
  <2>2. x <= Len(sent) /\ Len(sent) \in Nat
    BY <2>1, TypesAre DEF Passing
  <2>3. x <= Len(sent')
    BY <2>2
  <2> QED
    BY <2>1, <2>3
<1>2. r.count <= w'.count
  <2>1. PICK x \in Nat, y \in Nat, z \in Nat : x = r.count /\ y = w.count /\ z = w'.count
    BY TypesAre
  <2>2. x <= y /\ y <= z
    BY <2>1 DEF Passing
  <2>3. x <= z
    BY <2>2
  <2> QED
    BY <2>1, <2>3
<1>3. /\ \A i \in 1..Len(delivered') : delivered'[i] = i
      /\ \A i \in 1..Len(r'.buf) : r'.buf[i] = Len(delivered') + i
  BY DEF Passing
<1>4. Len(delivered') + Len(r'.buf) <= Len(sent') /\ r'.count <= w'.count
  BY <1>1, <1>2
<1> QED
  BY <1>3, <1>4 DEF Passing

LEMMA WriterKeeps ==
  ASSUME IInv, Types', Passing', KeyAhead', Plaintext', WriterStep,
         layer = "aead" => w'.init = w.init
  PROVE  IInv'
<1>1. SealedAhead'
  <2>1. CASE layer = "aead"
    <3>1. ~w.init => wire' = <<>>
      BY <2>1 DEF Passing
    <3> QED
      BY <2>1, <3>1, KeepsSealed DEF IInv
  <2>2. CASE layer # "aead"
    BY <2>2 DEF SealedAhead, WriterStep
  <2> QED
    BY <2>1, <2>2
<1>2. ServerAhead' /\ RecordsAhead'
  BY KeepsServer, KeepsRecords DEF IInv
<1> QED
  BY <1>1, <1>2 DEF IInv

LEMMA QuietStep ==
  ASSUME Types, Types', UNCHANGED <<layer, delivered, r, wire, broken>>,
         w'.count = w.count, Len(sent) <= Len(sent'),
         ~broken => Len(sent') - todo' = Len(sent) - todo
  PROVE  WriterStep
<1>1. /\ broken \in BOOLEAN /\ Len(sent) \in Nat /\ w.count \in Nat /\ Len(sent') \in Nat
      /\ wire \in Seq(Tokens)
  BY TypesAre DEF Types
<1>2. ASSUME NEW start \in Nat, NEW from \in Nat, NEW nonce \in Nat,
             Behind(layer, wire, broken, Len(sent), Len(sent) - todo, w.count, start, from, nonce)
      PROVE  Behind(layer, wire', broken', Len(sent'), Len(sent') - todo', w'.count, start, from, nonce)
  <2>1. PICK since : since = Len(sent') - todo' /\ (~broken => since = Len(sent) - todo)
    OBVIOUS
  <2>2. Behind(layer, wire, broken, Len(sent'), since, w.count, start, from, nonce)
    BY <1>1, <1>2, <2>1, BehindMore
  <2> QED
    BY <2>1, <2>2
<1> QED
  BY <1>2 DEF WriterStep

LEMMA FrameStep ==
  ASSUME Types, Types', UNCHANGED <<layer, delivered, r, broken, sent>>, ~broken,
         NEW n \in 1..todo, NEW f, IsFrame(f, layer, w.count, Len(sent) - todo, n),
         wire' = wire \o f, todo' = todo - n, w'.count = w.count + Nonces(layer, 1)
  PROVE  WriterStep
<1>1. /\ broken \in BOOLEAN /\ Len(sent) \in Nat /\ w.count \in Nat /\ todo \in Nat
      /\ wire \in Seq(Tokens) /\ todo <= Len(sent)
  BY TypesAre DEF Types
<1>2. PICK passed \in Nat : passed = Len(sent) - todo /\ passed + n <= Len(sent)
                            /\ Len(sent') - todo' = passed + n
  <2>1. Len(sent) - todo \in Nat /\ (Len(sent) - todo) + n <= Len(sent)
        /\ Len(sent) - (todo - n) = (Len(sent) - todo) + n
    BY <1>1
  <2> QED
    BY <2>1
<1>3. IsFrame(f, layer, w.count, passed, n) /\ n \in Nat \ {0} /\ Uncut(broken)
  BY <1>1, <1>2 DEF Uncut
<1>4. f \in Seq(Tokens)
  BY DEF IsFrame
<1>5. PICK e \in Seq(Tokens) : IsJoin(e, wire, f)
  BY <1>1, <1>4, Joining
<1>6. wire' = e /\ \A i \in 1..Len(wire) : e[i] = wire[i]
  BY <1>5 DEF IsJoin
<1>7. ASSUME NEW start \in Nat, NEW from \in Nat, NEW nonce \in Nat,
             Behind(layer, wire, broken, Len(sent), Len(sent) - todo, w.count, start, from, nonce)
      PROVE  Behind(layer, wire', broken', Len(sent'), Len(sent') - todo', w'.count, start, from, nonce)
  <2>1. Behind(layer, wire, broken, Len(sent), passed, w.count, start, from, nonce)
    BY <1>2, <1>7
  <2>2. Behind(layer, wire \o f, broken, Len(sent), passed + n, w.count + Nonces(layer, 1),
               start, from, nonce)
    BY <1>1, <1>2, <1>3, <2>1, BehindGrows
  <2> QED
    BY <1>2, <2>2
<1>8. ASSUME NEW i \in Nat \ {0}, i <= Len(wire)
      PROVE  wire'[i] = wire[i]
  <2>1. Len(wire) \in Nat
    BY <1>1
  <2>2. i \in 1..Len(wire)
    BY <1>8, <2>1
  <2> QED
    BY <1>6, <2>2
<1> QED
  BY <1>7, <1>8 DEF WriterStep

LEMMA CutStep ==
  ASSUME Types, Types', UNCHANGED <<layer, delivered, r, sent, todo, w>>, broken' = TRUE,
         NEW n \in 0..Len(wire), wire' = SubSeq(wire, 1, n)
  PROVE  WriterStep
<1>1. /\ broken \in BOOLEAN /\ Len(sent) \in Nat /\ w.count \in Nat
      /\ wire \in Seq(Tokens) /\ Len(wire) \in Nat
  BY TypesAre DEF Types
<1>2. /\ Len(wire') = n /\ n \in Nat /\ n <= Len(wire)
      /\ \A i \in 1..n : wire'[i] = wire[i]
  BY <1>1, Front
<1>3. PICK gone : Gone(gone) /\ gone = broken'
  BY DEF Gone
<1>4. ASSUME NEW start \in Nat, NEW from \in Nat, NEW nonce \in Nat,
             Behind(layer, wire, broken, Len(sent), Len(sent) - todo, w.count, start, from, nonce)
      PROVE  Behind(layer, wire', broken', Len(sent'), Len(sent') - todo', w'.count, start, from, nonce)
  <2>1. Behind(layer, SubSeq(wire, 1, n), gone, Len(sent), Len(sent) - todo, w.count, start, from, nonce)
    BY <1>1, <1>3, <1>4, BehindCut
  <2> QED
    BY <1>3, <2>1
<1>5. ASSUME NEW i \in Nat \ {0}, i <= Len(wire')
      PROVE  wire'[i] = wire[i]
  BY <1>2, <1>5
<1>6. Len(wire') <= Len(wire) /\ broken'
  BY <1>2
<1> QED
  BY <1>4, <1>5, <1>6 DEF WriterStep

\* Write hands more bytes to the layer.
LEMMA WriteKeeps ==
  ASSUME IInv, Write
  PROVE  IInv'
<1>1. PICK k \in 1..(Length - Len(sent)) :
        sent' = sent \o [i \in 1..k |-> Len(sent) + i] /\ todo' = k
  BY DEF Write
<1>2. UNCHANGED <<layer, delivered, closed, broken, end, wire, w, r>> /\ ~closed /\ todo = 0
  BY DEF Write
<1>3. PICK size \in Nat : size = Len(sent) /\ size + k <= Length /\ k \in Nat \ {0}
  <2>1. Len(sent) \in Nat /\ Length \in Nat
    BY TypesAre, TransportAssumption DEF IInv
  <2> QED
    BY <2>1
<1>4. PICK s \in Seq(Nat) : s = sent /\ Len(s) = size /\ \A i \in 1..size : s[i] = i
  <2>1. sent \in Seq(Nat) /\ \A i \in 1..Len(sent) : sent[i] = i
    BY DEF IInv, Types, TypeOK
  <2> QED
    BY <1>3, <2>1
<1>5. PICK a \in Seq(Nat) : a = Count(size, k) /\ Len(a) = k /\ \A i \in 1..k : a[i] = size + i
  BY <1>3, CountIs
<1>6. PICK e \in Seq(Nat) : IsJoin(e, s, a)
  BY Joining
<1>7. sent' = e /\ Len(e) = size + k
  BY <1>1, <1>3, <1>4, <1>5, <1>6 DEF Count, IsJoin
<1>8. \A i \in 1..Len(e) : e[i] = i
  <2> SUFFICES ASSUME NEW i \in 1..(size + k) PROVE e[i] = i
    BY <1>7
  <2>1. CASE i <= size
    <3>1. i \in 1..size
      BY <2>1
    <3> QED
      BY <1>4, <1>6, <3>1 DEF IsJoin
  <2>2. CASE i > size
    <3>1. i - size \in 1..k /\ size + (i - size) = i
      BY <2>2
    <3>2. e[size + (i - size)] = a[i - size]
      BY <1>4, <1>5, <1>6, <3>1 DEF IsJoin
    <3> QED
      BY <1>5, <3>1, <3>2
  <2> QED
    BY <2>1, <2>2
<1>9. /\ closed \in BOOLEAN /\ broken \in BOOLEAN /\ wire \in Seq(Tokens)
      /\ w \in [init : BOOLEAN, count : Nat, failed : BOOLEAN] /\ Types /\ Passing
  BY DEF IInv, Types, TypeOK
<1>10. size <= size + k /\ k \in 0..(size + k) /\ size + k \in Nat /\ (size + k) - k = size - 0
  BY <1>3
<1>11. Types'
  <2>1. Len(sent') <= Length /\ todo' \in 0..Len(sent') /\ \A i \in 1..Len(sent') : sent'[i] = i
    BY <1>1, <1>3, <1>7, <1>8, <1>10
  <2> QED
    BY <1>2, <1>7, <1>9, <2>1, WriterTypes
<1>12. Passing'
  <2>1. ~w.init => wire = <<>>
    BY <1>9 DEF Passing
  <2>2. ~w.init /\ ~broken => size = 0
    BY <1>2, <1>3, <1>9 DEF Passing
  <2>3. ~w'.init /\ ~broken' => todo' = Len(sent')
    BY <1>1, <1>2, <1>7, <2>2
  <2>4. w.count \in Nat /\ w.count <= w.count
    BY <1>9
  <2> QED
    BY <1>2, <1>3, <1>7, <1>9, <1>10, <2>1, <2>3, <2>4, WriterPassing
<1>13. WriterStep
  BY <1>1, <1>2, <1>3, <1>7, <1>9, <1>10, <1>11, QuietStep
<1>14. KeyAhead'
  <2>1. w.count \in Nat
    BY <1>9
  <2>2. w.count <= size => w.count <= size + k
    BY <1>3, <2>1
  <2> QED
    BY <1>1, <1>2, <1>3, <1>7, <1>10, <2>2 DEF IInv, KeyAhead
<1>15. Plaintext'
  <2>1. k < size + k <=> 0 < size
    BY <1>3
  <2> QED
    BY <1>1, <1>2, <1>3, <1>7, <2>1 DEF IInv, Plaintext
<1> QED
  BY <1>2, <1>11, <1>12, <1>13, <1>14, <1>15, WriterKeeps

\* A write fails: nothing more goes out.
LEMMA WriteFailsKeeps ==
  ASSUME IInv, WriteFails
  PROVE  IInv'
<1>1. /\ UNCHANGED <<layer, sent, delivered, closed, broken, end, wire, r>> /\ broken
      /\ todo' = 0 /\ w' = [w EXCEPT !.failed = TRUE]
  BY DEF WriteFails
<1>2. /\ closed \in BOOLEAN /\ broken \in BOOLEAN /\ wire \in Seq(Tokens) /\ sent \in Seq(Nat)
      /\ Len(sent) \in Nat /\ Len(sent) <= Length /\ \A i \in 1..Len(sent) : sent[i] = i
      /\ w \in [init : BOOLEAN, count : Nat, failed : BOOLEAN] /\ Types /\ Passing
  BY DEF IInv, Types, TypeOK
<1>3. /\ w' \in [init : BOOLEAN, count : Nat, failed : BOOLEAN]
      /\ w'.init = w.init /\ w'.count = w.count
  BY <1>1, <1>2
<1>4. Types'
  BY <1>1, <1>2, <1>3, WriterTypes
<1>5. Passing'
  <2>1. ~w'.init => wire' = <<>>
    BY <1>1, <1>2, <1>3 DEF Passing
  <2>2. Len(sent) <= Len(sent) /\ w.count \in Nat /\ w.count <= w.count
    BY <1>2
  <2> QED
    BY <1>1, <1>2, <1>3, <2>1, <2>2, WriterPassing
<1>6. WriterStep
  BY <1>1, <1>2, <1>3, <1>4, QuietStep
<1>7. KeyAhead' /\ Plaintext'
  BY <1>1, <1>3 DEF IInv, KeyAhead, Plaintext
<1> QED
  BY <1>3, <1>4, <1>5, <1>6, <1>7, WriterKeeps

LEMMA CloseKeeps ==
  ASSUME IInv, Close
  PROVE  IInv'
<1>1. UNCHANGED <<layer, sent, delivered, broken, end, wire, w, r, todo>> /\ closed' = TRUE /\ todo = 0
  BY DEF Close, below
<1>2. Types /\ Types'
  BY <1>1 DEF IInv, Types, TypeOK
<1>3. Passing'
  BY <1>1 DEF IInv, Passing
<1>4. WriterStep
  <2>1. Len(sent) \in Nat
    BY <1>2, TypesAre
  <2> QED
    BY <1>1, <1>2, <2>1, QuietStep
<1>5. KeyAhead' /\ Plaintext'
  BY <1>1 DEF IInv, KeyAhead, Plaintext
<1> QED
  BY <1>1, <1>2, <1>3, <1>4, <1>5, WriterKeeps

LEMMA BreakKeeps ==
  ASSUME IInv, Break
  PROVE  IInv'
<1>1. UNCHANGED <<layer, sent, delivered, closed, end, w, r, todo>> /\ broken' = TRUE
  BY DEF Break
<1>2. PICK n \in 0..Len(wire) : wire' = SubSeq(wire, 1, n)
  BY DEF Break
<1>3. Types /\ Passing /\ wire \in Seq(Tokens) /\ Len(wire) \in Nat
  BY DEF IInv, Types
<1>4. /\ wire' \in Seq(Tokens) /\ Len(wire') = n /\ n \in Nat /\ n <= Len(wire)
      /\ \A i \in 1..n : wire'[i] = wire[i]
  BY <1>2, <1>3, Front
<1>5. Types'
  BY <1>1, <1>3, <1>4 DEF Types, TypeOK
<1>6. Passing'
  <2>1. wire = <<>> => wire' = <<>>
    <3>1. wire = <<>> => n = 0
      BY <1>3
    <3> QED
      BY <1>4, <3>1, EmptySeq
  <2> QED
    BY <1>1, <1>3, <2>1 DEF Passing
<1>7. WriterStep
  BY <1>1, <1>2, <1>3, <1>5, CutStep
<1>8. KeyAhead'
  <2> SUFFICES ASSUME layer = "stream" PROVE KeyAhead'
    BY <1>1 DEF KeyAhead
  <2>1. PICK lead \in 0..1 : lead = IF r.at = "first" /\ w.init THEN 1 ELSE 0
    OBVIOUS
  <2>2. /\ r.at \in {"first", "data"} /\ r.buf = <<>> /\ r.count = Len(delivered)
        /\ r.at = "first" => delivered = <<>>
        /\ r.at = "data" => w.init
        /\ w.count <= Len(sent)
        /\ Len(delivered) + Len(wire) <= w.count + lead
    BY <2>1 DEF IInv, KeyAhead
  <2>3. \A i \in Nat \ {0} : lead + i <= Len(wire) =>
          wire[lead + i] = Token("byte", Len(delivered) + i, <<Len(delivered) + i>>)
    BY <2>1 DEF IInv, KeyAhead
  <2>4. Len(delivered) + n <= w.count + lead
    <3>1. PICK x \in Nat, y \in Nat, z \in Nat :
            x = Len(delivered) /\ y = Len(wire) /\ z = w.count
      BY <1>3, TypesAre
    <3>2. x + y <= z + lead /\ n <= y
      BY <1>4, <2>2, <3>1
    <3>3. x + n <= z + lead
      BY <1>4, <3>2
    <3> QED
      BY <3>1, <3>3
  <2>5. ASSUME NEW i \in Nat \ {0}, lead + i <= n
        PROVE  wire'[lead + i] = Token("byte", Len(delivered) + i, <<Len(delivered) + i>>)
    <3>1. lead + i \in 1..n /\ lead + i <= Len(wire)
      BY <1>3, <1>4, <2>5
    <3> QED
      BY <1>4, <2>3, <3>1
  <2> QED
    BY <1>1, <1>4, <2>1, <2>2, <2>4, <2>5 DEF KeyAhead
<1>9. Plaintext'
  BY <1>1 DEF IInv, Plaintext
<1> QED
  BY <1>1, <1>5, <1>6, <1>7, <1>8, <1>9, WriterKeeps

\* The first thing on the wire.
Salt == Token("salt", Garbage, <<>>)
LEMMA PrologueIs ==
  ASSUME IInv, Prologue
  PROVE  /\ UNCHANGED <<layer, sent, delivered, closed, broken, end, todo, r>>
         /\ ~broken /\ todo = Len(sent) /\ ~w.init /\ wire = <<>>
         /\ w'.init = TRUE /\ w'.count = w.count
         /\ wire' \in Seq(Tokens) /\ Len(wire') = 1 /\ wire'[1] = Salt
         /\ Types' /\ Passing'
<1>1. /\ UNCHANGED <<layer, sent, delivered, closed, broken, end, todo, r>> /\ ~broken /\ ~w.init
      /\ wire' = Append(wire, Salt) /\ w' = [w EXCEPT !.init = TRUE] /\ todo > 0
  BY DEF Prologue, Salt
<1>2. Types /\ Passing /\ w \in [init : BOOLEAN, count : Nat, failed : BOOLEAN]
  BY DEF IInv, Types, TypeOK
<1>3. wire = <<>> /\ todo = Len(sent)
  BY <1>1, <1>2 DEF Passing
<1>4. Salt \in Tokens
  <2>1. <<>> \in Seq(Nat)
    OBVIOUS
  <2> QED
    BY <2>1, TokenIs DEF Salt, Garbage, Kinds
<1>5. wire' \in Seq(Tokens) /\ Len(wire') = 1 /\ wire'[1] = Salt
  BY <1>1, <1>3, <1>4
<1>6. /\ w' \in [init : BOOLEAN, count : Nat, failed : BOOLEAN]
      /\ w'.init = TRUE /\ w'.count = w.count /\ w.count \in Nat
  BY <1>1, <1>2
<1>7. /\ closed \in BOOLEAN /\ broken \in BOOLEAN /\ sent \in Seq(Nat)
      /\ todo \in 0..Len(sent) /\ Len(sent) \in Nat /\ Len(sent) <= Length
      /\ \A i \in 1..Len(sent) : sent[i] = i
  <2>1. todo \in Nat /\ todo <= Len(sent)
    BY <1>2, TypesAre
  <2> QED
    BY <1>2, <2>1 DEF Types, TypeOK
<1>8. Types'
  BY <1>1, <1>2, <1>5, <1>6, <1>7, WriterTypes
<1>9. Passing'
  <2>1. Len(sent) <= Len(sent) /\ w.count <= w.count /\ (closed => todo = 0)
    BY <1>2, <1>6, <1>7 DEF Passing
  <2> QED
    BY <1>1, <1>2, <1>6, <1>7, <2>1, WriterPassing
<1> QED
  BY <1>1, <1>3, <1>5, <1>6, <1>8, <1>9

LEMMA WriteSaltKeeps ==
  ASSUME IInv, WriteSalt
  PROVE  IInv'
<1>1. /\ UNCHANGED <<layer, sent, delivered, closed, broken, end, todo, r>>
      /\ ~broken /\ todo = Len(sent) /\ ~w.init /\ wire = <<>>
      /\ w'.init = TRUE /\ w'.count = w.count
      /\ wire' \in Seq(Tokens) /\ Len(wire') = 1 /\ wire'[1] = Salt
      /\ Types' /\ Passing'
  BY PrologueIs DEF WriteSalt
<1>2. layer = "aead" /\ Types
  BY DEF WriteSalt, IInv
<1>3. /\ r.at = "first" /\ r.count = 0 /\ delivered = <<>> /\ r.buf = <<>>
      /\ Behind(layer, wire, broken, Len(sent), Len(sent) - todo, w.count, 0, 0, 0)
  BY <1>1, <1>2 DEF IInv, SealedAhead, Lost, Ahead
<1>4. w.count = 0 /\ Len(sent) - todo = 0
  <2>1. Bounds(wire, broken, Len(sent), Len(sent) - todo, w.count, 0, 0, 0)
    <3>1. /\ wire \in Seq(Tokens) /\ broken \in BOOLEAN /\ Len(sent) \in Nat /\ w.count \in Nat
          /\ 0 \in Nat
      BY <1>2, TypesAre
    <3> QED
      BY <1>3, <3>1, BehindEnds
  <2>2. Len(wire) <= 0
    BY <1>1
  <2> QED
    BY <1>1, <2>1, <2>2 DEF Bounds
<1>5. Behind(layer, wire', broken', Len(sent'), Len(sent') - todo', w'.count, 1, 0, 0)
  <2>1. broken' \in BOOLEAN /\ 0 \in Nat
    BY <1>1 DEF Types, TypeOK
  <2>2. Framing(layer, wire', Len(wire'), 0, 0, 0, 0, broken')
    BY <1>1, <2>1, FramingNone
  <2>3. 0 \in 0..Len(sent') /\ 0 \in 0..w'.count /\ 0 = Len(sent') - todo' /\ 0 = w'.count
    <3>1. Len(sent) \in Nat
      BY <1>2, TypesAre
    <3> QED
      BY <1>1, <1>4, <3>1
  <2> QED
    BY <1>1, <2>2, <2>3 DEF Behind
<1>6. SealedAhead'
  <2>1. wire'[1].kind = "salt"
    BY <1>1 DEF Salt, Token
  <2> QED
    BY <1>1, <1>3, <1>5, <2>1 DEF SealedAhead, Ahead
<1> QED
  BY <1>1, <1>2, <1>6 DEF IInv, KeyAhead, Plaintext, ServerAhead, RecordsAhead

LEMMA WriteIVKeeps ==
  ASSUME IInv, WriteIV
  PROVE  IInv'
<1>1. /\ UNCHANGED <<layer, sent, delivered, closed, broken, end, todo, r>>
      /\ ~broken /\ todo = Len(sent) /\ ~w.init /\ wire = <<>>
      /\ w'.init = TRUE /\ w'.count = w.count
      /\ wire' \in Seq(Tokens) /\ Len(wire') = 1 /\ wire'[1] = Salt
      /\ Types' /\ Passing'
  BY PrologueIs DEF WriteIV
<1>2. layer = "stream" /\ Types
  BY DEF WriteIV, IInv
<1>3. /\ r.at = "first" /\ r.buf = <<>> /\ r.count = Len(delivered) /\ delivered = <<>>
      /\ w.count <= Len(sent) /\ w.count = Len(sent) - todo
      /\ Len(delivered) + Len(wire) = w.count + 0
  BY <1>1, <1>2 DEF IInv, KeyAhead
<1>4. w.count \in Nat /\ w.count = 0
  <2>1. w.count \in Nat
    BY <1>2, TypesAre
  <2>2. Len(delivered) = 0 /\ Len(wire) = 0
    BY <1>1, <1>3
  <2> QED
    BY <1>3, <2>1, <2>2
<1>5. KeyAhead'
  <2>1. Len(delivered) = 0
    BY <1>3
  <2>2. ~(\E i \in Nat \ {0} : 1 + i <= Len(wire'))
    BY <1>1
  <2>3. Len(delivered') + Len(wire') = w'.count + 1 /\ w'.count + 1 = 1
    BY <1>1, <1>4, <2>1
  <2>4. Len(delivered') + Len(wire') <= w'.count + 1
    BY <2>3
  <2> QED
    BY <1>1, <1>3, <2>2, <2>3, <2>4 DEF KeyAhead
<1> QED
  BY <1>1, <1>2, <1>5 DEF IInv, SealedAhead, Plaintext, ServerAhead, RecordsAhead

\* What one turn of a Write loop leaves.
LEMMA PassIs ==
  ASSUME IInv, ~broken, NEW n \in 1..todo, NEW f \in Seq(Tokens), NEW count \in Nat,
         Pass(n, f, count)
  PROVE  /\ UNCHANGED <<layer, sent, delivered, closed, broken, end, r>>
         /\ wire' = wire \o f /\ todo' = todo - n
         /\ w'.init = TRUE /\ w'.count = w.count + count
         /\ Types' /\ Passing'
<1>1. /\ UNCHANGED <<layer, sent, delivered, closed, broken, end, r>>
      /\ wire' = wire \o f /\ todo' = todo - n
      /\ w' = [w EXCEPT !.init = TRUE, !.count = @ + count]
  BY DEF Pass
<1>2. Types /\ Passing /\ w \in [init : BOOLEAN, count : Nat, failed : BOOLEAN]
  BY DEF IInv, Types, TypeOK
<1>3. /\ w' \in [init : BOOLEAN, count : Nat, failed : BOOLEAN]
      /\ w'.init = TRUE /\ w'.count = w.count + count /\ w.count \in Nat
  <2>1. w.count \in Nat /\ w.failed \in BOOLEAN
    BY <1>2, TypesAre
  <2>2. PICK x \in Nat : x = w.count + count
    BY <2>1
  <2>3. w' = [w EXCEPT !.init = TRUE, !.count = x]
    BY <1>1, <2>2
  <2>4. w' = [init |-> TRUE, count |-> x, failed |-> w.failed]
    BY <1>2, <2>3
  <2> QED
    BY <2>1, <2>2, <2>4
<1>4. w'.count \in Nat /\ w.count <= w'.count
  <2>1. PICK x \in Nat : x = w.count
    BY <1>3
  <2>2. x + count \in Nat /\ x <= x + count
    OBVIOUS
  <2> QED
    BY <1>3, <2>1, <2>2
<1>5. /\ closed \in BOOLEAN /\ broken \in BOOLEAN /\ sent \in Seq(Nat) /\ wire \in Seq(Tokens)
      /\ Len(sent) \in Nat /\ Len(sent) <= Length /\ todo \in Nat /\ todo <= Len(sent)
      /\ \A i \in 1..Len(sent) : sent[i] = i
  BY <1>2, SMTT(30) DEF Types, TypeOK
<1>6. todo - n \in 0..Len(sent) /\ Len(sent) <= Len(sent)
  BY <1>5
<1>7. wire' \in Seq(Tokens)
  BY <1>1, <1>5, Joined
<1>8. Types'
  BY <1>1, <1>2, <1>3, <1>5, <1>6, <1>7, WriterTypes
<1>9. Passing'
  <2>1. ~closed
    BY <1>2, <1>5 DEF Passing
  <2> QED
    BY <1>1, <1>2, <1>3, <1>4, <1>5, <1>6, <2>1, WriterPassing
<1> QED
  BY <1>1, <1>3, <1>8, <1>9

\* A layer that puts a frame on the wire.
LEMMA FrameKeeps ==
  ASSUME IInv, ~broken, layer # "stream", layer = "aead" => w.init, NEW n \in 1..todo,
         NEW f, IsFrame(f, layer, w.count, Len(sent) - todo, n), Pass(n, f, Nonces(layer, 1))
  PROVE  IInv'
<1>1. f \in Seq(Tokens) /\ Nonces(layer, 1) \in Nat /\ Types
  BY DEF IsFrame, Nonces, IInv
<1>2. /\ UNCHANGED <<layer, sent, delivered, closed, broken, end, r>>
      /\ wire' = wire \o f /\ todo' = todo - n
      /\ w'.init = TRUE /\ w'.count = w.count + Nonces(layer, 1)
      /\ Types' /\ Passing'
  BY <1>1, PassIs
<1>3. WriterStep
  BY <1>1, <1>2, FrameStep
<1>4. KeyAhead'
  BY <1>2 DEF KeyAhead
<1>5. Plaintext'
  <2> SUFFICES ASSUME layer \in {"tlsUp", "tlsDown"} PROVE Plaintext'
    BY <1>2 DEF Plaintext
  <2>1. w.count = 0 /\ r.count = 0 /\ r.buf = <<>>
    BY DEF IInv, Plaintext
  <2>2. w'.count = 0
    BY <1>2, <2>1 DEF Nonces
  <2>3. todo - n < Len(sent)
    <3>1. todo \in Nat /\ Len(sent) \in Nat /\ todo <= Len(sent)
      BY <1>1, TypesAre
    <3> QED
      BY <3>1
  <2> QED
    BY <1>2, <2>1, <2>2, <2>3 DEF Plaintext
<1>6. layer = "aead" => w'.init = w.init
  <2>1. w.init \in BOOLEAN
    BY <1>1, TypesAre
  <2> QED
    BY <1>2, <2>1
<1> QED
  BY <1>2, <1>3, <1>4, <1>5, <1>6, WriterKeeps

LEMMA ChunkIs ==
  ASSUME Types, todo > 0
  PROVE  Chunk \in 1..todo
<1>1. todo \in Nat /\ MaxPayload \in Nat \ {0}
  BY TypesAre, TransportAssumption
<1> QED
  BY <1>1 DEF Chunk

\* The bytes of the next n of the current Write.
LEMMA NextBytes ==
  ASSUME IInv, NEW n \in 1..todo
  PROVE  \E from \in Nat : from = Len(sent) - todo /\ Out(n) = Count(from, n)
<1>1. Types /\ \A i \in 1..Len(sent) : sent[i] = i
  BY DEF IInv, Types, TypeOK
<1>2. Len(sent) - todo \in Nat /\ Out(n) = Count(Len(sent) - todo, n)
  BY <1>1, OutIs
<1> QED
  BY <1>2

LEMMA WriteAEADKeeps ==
  ASSUME IInv, WriteAEAD
  PROVE  IInv'
<1>1. layer = "aead" /\ w.init /\ todo > 0 /\ ~broken /\ Pass(Chunk, AEADFrame(Chunk), 2)
  BY DEF WriteAEAD
<1>2. PICK n \in 1..todo : n = Chunk
  BY <1>1, ChunkIs DEF IInv
<1>3. PICK from \in Nat : from = Len(sent) - todo /\ Out(n) = Count(from, n)
  BY NextBytes
<1>4. PICK nonce \in Nat : nonce = w.count
  BY TypesAre DEF IInv
<1>5. PICK f : f = SealedPair(nonce, from, n)
  OBVIOUS
<1>6. IsFrame(f, "aead", nonce, from, n)
  <2>1. n \in Nat \ {0}
    BY TypesAre DEF IInv
  <2> QED
    BY <1>5, <2>1, SealedFrame
<1>7. AEADFrame(n) = f
  BY <1>3, <1>4, <1>5 DEF AEADFrame, SealedPair
<1>8. IsFrame(f, layer, w.count, Len(sent) - todo, n)
  BY <1>1, <1>3, <1>4, <1>6
<1>9. Pass(n, f, Nonces(layer, 1))
  <2>1. Nonces(layer, 1) = 2
    BY <1>1 DEF Nonces
  <2> QED
    BY <1>1, <1>2, <1>7, <2>1
<1> QED
  BY <1>1, <1>8, <1>9, FrameKeeps

\* The long header comes with the first byte.
LEMMA FirstOfAll ==
  ASSUME IInv, ~broken, layer \in {"tlsUp", "tlsDown"}, todo > 0
  PROVE  w.count = 0 /\ (w.init <=> Len(sent) - todo # 0)
<1>1. Len(sent) \in Nat /\ todo \in Nat /\ w.init \in BOOLEAN
  BY TypesAre DEF IInv
<1>2. w.count = 0 /\ (w.init => todo < Len(sent)) /\ (~w.init => todo = Len(sent))
  BY DEF IInv, Plaintext, Passing
<1> QED
  BY <1>1, <1>2

LEMMA WriteTLSKeeps ==
  ASSUME IInv, WriteTLS
  PROVE  IInv'
<1>1. /\ layer = "tlsUp" /\ todo > 0 /\ ~broken
      /\ Pass(Chunk, IF w.init THEN RecordFrame(Chunk) ELSE HelloFrame(Chunk), 0)
  BY DEF WriteTLS
<1>2. PICK n \in 1..todo : n = Chunk
  BY <1>1, ChunkIs DEF IInv
<1>3. PICK from \in Nat : from = Len(sent) - todo /\ Out(n) = Count(from, n)
  BY NextBytes
<1>4. w.count = 0 /\ (w.init <=> from # 0)
  BY <1>1, <1>3, FirstOfAll
<1>5. n \in Nat \ {0}
  BY TypesAre DEF IInv
<1>6. PICK f : f = IF w.init THEN RecordFrame(n) ELSE HelloFrame(n)
  OBVIOUS
<1>7. IsFrame(f, "tlsUp", 0, from, n)
  <2>1. CASE from # 0
    <3>1. f = Heading(HeadLen(from), from, n)
      BY <1>3, <1>4, <1>6, <2>1 DEF RecordFrame, Sized, Heading, HeadLen
    <3>2. TailLen("tlsUp", from) = 0
      BY <2>1 DEF TailLen
    <3> QED
      BY <1>5, <3>1, <3>2, RecordIs
  <2>2. CASE from = 0
    <3>1. f = Heads(FirstHeader) \o (Plain("size", <<n>>) \o Plain("byte", Count(0, n))) \o Heads(1)
      BY <1>3, <1>4, <1>6, <2>2 DEF HelloFrame, Sized
    <3>2. f = Heading(FirstHeader, 0, n) \o Heads(1)
      BY <3>1 DEF Heading
    <3> QED
      BY <1>5, <2>2, <3>2, HelloIs
  <2> QED
    BY <2>1, <2>2
<1>8. IsFrame(f, layer, w.count, Len(sent) - todo, n)
  BY <1>1, <1>3, <1>4, <1>7
<1>9. Pass(n, f, Nonces(layer, 1))
  <2>1. Nonces(layer, 1) = 0
    BY <1>1 DEF Nonces
  <2> QED
    BY <1>1, <1>2, <1>6, <2>1
<1> QED
  BY <1>1, <1>8, <1>9, FrameKeeps

LEMMA ServerWriteKeeps ==
  ASSUME IInv, ServerWrite
  PROVE  IInv'
<1>1. layer = "tlsDown" /\ todo > 0 /\ ~broken
  BY DEF ServerWrite
<1>2. PICK n \in 1..todo : Pass(n, ServerFrame(n), 0)
  BY DEF ServerWrite
<1>3. PICK from \in Nat : from = Len(sent) - todo /\ Out(n) = Count(from, n)
  BY NextBytes
<1>4. w.count = 0 /\ (w.init <=> from # 0)
  BY <1>1, <1>3, FirstOfAll
<1>5. n \in Nat \ {0}
  BY TypesAre DEF IInv
<1>6. PICK f : f = ServerFrame(n)
  OBVIOUS
<1>7. IsFrame(f, "tlsDown", 0, from, n)
  <2>1. f = Heading(HeadLen(from), from, n)
    BY <1>3, <1>4, <1>6 DEF ServerFrame, Sized, Heading, HeadLen
  <2>2. TailLen("tlsDown", from) = 0
    BY DEF TailLen
  <2> QED
    BY <1>5, <2>1, <2>2, RecordIs
<1>8. IsFrame(f, layer, w.count, Len(sent) - todo, n)
  BY <1>1, <1>3, <1>4, <1>7
<1>9. Pass(n, f, Nonces(layer, 1))
  <2>1. Nonces(layer, 1) = 0
    BY <1>1 DEF Nonces
  <2> QED
    BY <1>2, <1>6, <2>1
<1> QED
  BY <1>1, <1>8, <1>9, FrameKeeps

LEMMA StreamFrameIs ==
  ASSUME IInv, NEW n \in 1..todo
  PROVE  /\ StreamFrame(n) \in Seq(Tokens) /\ Len(StreamFrame(n)) = n
         /\ \A j \in 1..n : StreamFrame(n)[j] =
              Token("byte", (Len(sent) - todo) + j, <<w.count + j>>)
<1>1. PICK from \in Nat : from = Len(sent) - todo /\ Out(n) = Count(from, n)
  BY NextBytes
<1>2. PICK c \in Nat : c = w.count
  BY TypesAre DEF IInv
<1>3. n \in Nat
  BY TypesAre DEF IInv
<1>4. PICK a \in Seq(Nat) : a = Count(from, n) /\ \A j \in 1..n : a[j] = from + j
  BY <1>3, CountIs
<1>5. StreamFrame(n) = [j \in 1..n |-> Token("byte", from + j, <<c + j>>)]
  BY <1>1, <1>2, <1>4 DEF StreamFrame
<1>6. \A j \in 1..n : Token("byte", from + j, <<c + j>>) \in Tokens
  <2> SUFFICES ASSUME NEW j \in 1..n PROVE Token("byte", from + j, <<c + j>>) \in Tokens
    OBVIOUS
  <2>1. from + j \in Nat /\ <<c + j>> \in Seq(Nat)
    OBVIOUS
  <2> QED
    BY <2>1, TokenIs DEF Kinds
<1> QED
  BY <1>1, <1>2, <1>3, <1>5, <1>6

LEMMA WriteStreamKeeps ==
  ASSUME IInv, WriteStream
  PROVE  IInv'
<1>1. /\ layer = "stream" /\ w.init /\ todo > 0 /\ ~broken
      /\ Pass(Chunk, StreamFrame(Chunk), Chunk)
  BY DEF WriteStream
<1>2. PICK n \in 1..todo : n = Chunk
  BY <1>1, ChunkIs DEF IInv
<1>3. n \in Nat \ {0} /\ Types
  BY TypesAre DEF IInv
<1>4. PICK f \in Seq(Tokens) :
        /\ f = StreamFrame(n) /\ Len(f) = n
        /\ \A j \in 1..n : f[j] = Token("byte", (Len(sent) - todo) + j, <<w.count + j>>)
  BY StreamFrameIs
<1>5. /\ UNCHANGED <<layer, sent, delivered, closed, broken, end, r>>
      /\ wire' = wire \o f /\ todo' = todo - n
      /\ w'.init = TRUE /\ w'.count = w.count + n
      /\ Types' /\ Passing'
  BY <1>1, <1>2, <1>3, <1>4, PassIs
<1>6. PICK e \in Seq(Tokens) : IsJoin(e, wire, f)
  BY <1>3, TypesAre, Joining
<1>7. KeyAhead'
  <2>1. PICK lead \in 0..1 : lead = IF r.at = "first" /\ w.init THEN 1 ELSE 0
    OBVIOUS
  <2>2. PICK d \in Nat, x \in Nat, c \in Nat, t \in Nat, z \in Nat :
          /\ d = Len(delivered) /\ x = Len(wire) /\ c = w.count /\ t = todo /\ z = Len(sent)
    BY <1>3, TypesAre
  <2>3. /\ r.at \in {"first", "data"} /\ r.buf = <<>> /\ r.count = Len(delivered)
        /\ r.at = "first" => delivered = <<>>
        /\ c = z - t /\ d + x = c + lead
    BY <1>1, <2>1, <2>2 DEF IInv, KeyAhead
  <2>4. \A i \in Nat \ {0} : lead + i <= x =>
          wire[lead + i] = Token("byte", d + i, <<d + i>>)
    BY <1>1, <2>1, <2>2 DEF IInv, KeyAhead
  <2>5. wire' = e /\ Len(e) = x + n
    BY <1>4, <1>5, <1>6, <2>2 DEF IsJoin
  <2>6. n <= t /\ t <= z
    BY <1>3, <2>2, TypesAre
  <2>7. c + n <= z /\ c + n = z - (t - n) /\ d + (x + n) = (c + n) + lead
    <3>1. PICK m \in Nat : m = n
      BY <1>3
    <3>2. c = z - t /\ d + x = c + lead
      BY <2>3
    <3>3. c + m <= z /\ c + m = z - (t - m) /\ d + (x + m) = (c + m) + lead
      BY <2>6, <3>1, <3>2
    <3> QED
      BY <3>1, <3>3
  <2>8. ASSUME NEW i \in Nat \ {0}, lead + i <= x + n
        PROVE  e[lead + i] = Token("byte", d + i, <<d + i>>)
    <3>1. CASE lead + i <= x
      <4>1. lead + i \in 1..x
        BY <3>1
      <4>2. e[lead + i] = wire[lead + i]
        BY <1>6, <2>2, <4>1 DEF IsJoin
      <4> QED
        BY <2>4, <3>1, <4>2
    <3>2. CASE lead + i > x
      <4>1. PICK j \in 1..n : lead + i = x + j /\ d + i = c + j
        <5>1. (lead + i) - x \in 1..n /\ lead + i = x + ((lead + i) - x)
              /\ d + i = c + ((lead + i) - x)
          BY <1>3, <2>3, <2>8, <3>2
        <5> QED
          BY <5>1
      <4>2. e[x + j] = f[j]
        BY <1>4, <1>6, <2>2 DEF IsJoin
      <4>3. f[j] = Token("byte", c + j, <<c + j>>)
        BY <1>4, <2>2, <2>3
      <4> QED
        BY <4>1, <4>2, <4>3
    <3> QED
      BY <3>1, <3>2
  <2>9. /\ w'.count = c + n /\ Len(sent') = z /\ todo' = t - n /\ Len(delivered') = d
        /\ Len(wire') = x + n /\ wire' = e /\ w'.init = TRUE
    BY <1>5, <2>2, <2>5
  <2>10. \A i \in Nat \ {0} : lead + i <= Len(wire') =>
           wire'[lead + i] = Token("byte", Len(delivered') + i, <<Len(delivered') + i>>)
    BY <2>8, <2>9
  <2>11. d + (x + n) <= (c + n) + lead
    BY <1>3, <2>7
  <2>12. lead = IF r'.at = "first" /\ w'.init THEN 1 ELSE 0
    BY <1>1, <1>5, <2>1
  <2>13. /\ w'.count <= Len(sent') /\ w'.count = Len(sent') - todo'
         /\ Len(delivered') + Len(wire') <= w'.count + lead
         /\ Len(delivered') + Len(wire') = w'.count + lead
    BY <2>7, <2>9, <2>11
  <2> QED
    BY <1>1, <1>5, <2>3, <2>9, <2>10, <2>12, <2>13 DEF KeyAhead
<1> QED
  BY <1>1, <1>5, <1>7 DEF IInv, SealedAhead, Plaintext, ServerAhead, RecordsAhead

-----------------------------------------------------------------------------
LEMMA InitHolds ==
  ASSUME Init
  PROVE  IInv
<1>1. /\ layer \in Layers /\ sent = <<>> /\ delivered = <<>>
      /\ closed = FALSE /\ broken = FALSE /\ end = "none"
      /\ todo = 0 /\ wire = <<>>
      /\ w = [init |-> FALSE, count |-> 0, failed |-> FALSE]
      /\ r = [at |-> "first", count |-> 0, size |-> 0, remain |-> 0, buf |-> <<>>]
  BY DEF Init
<1>2. /\ w \in [init : BOOLEAN, count : Nat, failed : BOOLEAN] /\ ~w.init /\ w.count = 0
      /\ r.at = "first" /\ r.count = 0 /\ r.size = 0 /\ r.remain = 0 /\ r.buf = <<>>
      /\ r \in [at : ReadSteps, count : Nat, size : Nat, remain : Nat, buf : Seq(Nat)]
  BY <1>1 DEF ReadSteps
<1>3. /\ Len(sent) = 0 /\ Len(delivered) = 0 /\ Len(wire) = 0 /\ Len(r.buf) = 0
      /\ sent \in Seq(Nat) /\ delivered \in Seq(Nat) /\ wire \in Seq(Tokens)
  BY <1>1, <1>2
<1>4. Types
  <2>1. todo \in 0..Length /\ Len(sent) <= Length /\ todo <= Len(sent)
    BY <1>1, <1>3, TransportAssumption
  <2>2. \A i \in DOMAIN sent : sent[i] = i
    BY <1>3
  <2>3. r.at \in {"first", "size", "data", "head"} /\ r.count \in Nat /\ r.size \in Nat /\ r.remain \in Nat
    BY <1>2
  <2> QED
    BY <1>1, <1>2, <1>3, <2>1, <2>2, <2>3 DEF Types, TypeOK
<1>5. Passing
  BY <1>1, <1>2, <1>3 DEF Passing
<1>6. Ahead(0, 0, 0)
  <2>1. Framing(layer, wire, Len(wire), 0, 0, 0, 0, broken)
    BY <1>1, <1>3, FramingNone
  <2> QED
    BY <1>1, <1>2, <1>3, <2>1 DEF Ahead, Behind
<1>7. SealedAhead /\ ServerAhead /\ RecordsAhead
  BY <1>1, <1>2, <1>3, <1>6 DEF SealedAhead, ServerAhead, RecordsAhead
<1>8. KeyAhead
  BY <1>1, <1>2, <1>3 DEF KeyAhead
<1>9. Plaintext
  BY <1>2 DEF Plaintext
<1> QED
  BY <1>4, <1>5, <1>7, <1>8, <1>9 DEF IInv

-----------------------------------------------------------------------------
(***************************************************************************)
(* The reader's steps keep the invariant, and each is a step of the byte   *)
(* stream or leaves it alone.                                              *)
(***************************************************************************)
Received == Stream!Receive \/ UNCHANGED Stream!vars

LEMMA ReaderTypes ==
  ASSUME Types, UNCHANGED writing, end' \in {"none", "eof", "error"},
         delivered' \in Seq(Nat), wire' \in Seq(Tokens),
         r' \in [at : ReadSteps, count : Nat, size : Nat, remain : Nat, buf : Seq(Nat)]
  PROVE  Types'
<1>1. r'.at \in {"first", "size", "data", "head"} /\ r'.count \in Nat /\ r'.size \in Nat /\ r'.remain \in Nat
  BY DEF ReadSteps
<1> QED
  BY <1>1 DEF Types, TypeOK, writing

\* Everything has been read.
LEMMA AllRead ==
  ASSUME Types, Passing, Len(delivered) = Len(sent)
  PROVE  delivered = sent
<1>1. PICK x \in Seq(Nat), y \in Seq(Nat) : x = delivered /\ y = sent
  BY TypesAre
<1>2. Len(x) = Len(y) /\ Len(x) \in Nat
  BY <1>1
<1>3. \A i \in 1..Len(x) : x[i] = i
  BY <1>1 DEF Passing
<1>4. \A i \in 1..Len(y) : y[i] = i
  <2>1. sent \in Seq(Nat) /\ \A i \in 1..Len(sent) : sent[i] = i
    BY SMTT(30) DEF Types, TypeOK
  <2> QED
    BY <1>1, <2>1
<1>5. x = y
  BY <1>2, <1>3, <1>4, SeqEqual
<1> QED
  BY <1>1, <1>5

\* The bytes v are the next ones.
Follows(v) ==
  /\ v \in Seq(Nat) /\ Len(delivered) + Len(v) <= Len(sent)
  /\ \A i \in 1..Len(v) : v[i] = Len(delivered) + i

LEMMA Returned ==
  ASSUME Types, Passing, NEW v, Follows(v), Return(v)
  PROVE  /\ delivered' \in Seq(Nat) /\ Len(delivered') = Len(delivered) + Len(v)
         /\ \A i \in 1..Len(delivered') : delivered'[i] = i
<1>1. PICK x \in Seq(Nat), d \in Nat : x = delivered /\ d = Len(x) /\ \A i \in 1..d : x[i] = i
  BY TypesAre DEF Passing
<1>2. PICK n \in Nat : v \in Seq(Nat) /\ n = Len(v) /\ \A i \in 1..n : v[i] = d + i
  BY <1>1 DEF Follows
<1>3. PICK e \in Seq(Nat) : IsJoin(e, x, v)
  BY <1>2, Joining
<1>4. delivered' = e /\ Len(e) = d + n
  BY <1>1, <1>2, <1>3 DEF IsJoin, Return
<1>5. ASSUME NEW i \in 1..(d + n) PROVE e[i] = i
  <2>1. CASE i <= d
    <3>1. i \in 1..d
      BY <2>1
    <3> QED
      BY <1>1, <1>3, <3>1 DEF IsJoin
  <2>2. CASE i > d
    <3>1. i - d \in 1..n /\ d + (i - d) = i
      BY <2>2
    <3>2. e[d + (i - d)] = v[i - d]
      BY <1>1, <1>2, <1>3, <3>1 DEF IsJoin
    <3> QED
      BY <1>2, <3>1, <3>2
  <2> QED
    BY <2>1, <2>2
<1> QED
  BY <1>1, <1>2, <1>4, <1>5

LEMMA ReturnedNone ==
  ASSUME Types, NEW v, Follows(v), Return(v), Len(v) = 0
  PROVE  delivered' = delivered
<1>1. v = <<>>
  BY EmptySeq DEF Follows
<1>2. delivered \in Seq(Nat)
  BY TypesAre
<1> QED
  BY <1>1, <1>2 DEF Return

LEMMA ReturnDelivers ==
  ASSUME Types, Passing, NEW v, Follows(v), Return(v), Len(v) > 0, UNCHANGED writing,
         end = "none", end' = "none" \/ (broken /\ end' = "error")
  PROVE  Stream!Deliver
<1>1. /\ delivered' \in Seq(Nat) /\ Len(delivered') = Len(delivered) + Len(v)
      /\ \A i \in 1..Len(delivered') : delivered'[i] = i
  BY Returned
<1>2. PICK x \in Seq(Nat), y \in Seq(Nat) :
        /\ x = delivered' /\ y = sent /\ (\A i \in 1..Len(y) : y[i] = i)
        /\ (\A i \in 1..Len(x) : x[i] = i)
  <2>1. sent \in Seq(Nat) /\ \A i \in 1..Len(sent) : sent[i] = i
    BY DEF Types, TypeOK
  <2> QED
    BY <1>1, <2>1
<1>3. PICK n \in Nat, z \in Nat : n = Len(x) /\ z = Len(y) /\ n <= z
  BY <1>1, <1>2 DEF Follows
<1>4. Len(delivered) \in Nat /\ Len(v) \in Nat /\ n = Len(delivered) + Len(v)
  BY <1>1, <1>2, <1>3, TypesAre DEF Follows
<1>5. n \in (Len(delivered) + 1)..Len(sent)
  BY <1>2, <1>3, <1>4
<1>6. n \in 0..Len(y)
  BY <1>3
<1>7. /\ SubSeq(y, 1, n) \in Seq(Nat) /\ Len(SubSeq(y, 1, n)) = n
      /\ \A i \in 1..n : SubSeq(y, 1, n)[i] = y[i]
  BY <1>6, Front
<1>8. PICK g \in Seq(Nat) : g = SubSeq(y, 1, n) /\ Len(g) = n /\ \A i \in 1..n : g[i] = y[i]
  BY <1>7
<1>9. \A i \in 1..n : g[i] = x[i]
  <2> SUFFICES ASSUME NEW i \in 1..n PROVE g[i] = x[i]
    OBVIOUS
  <2>1. i \in 1..z
    BY <1>3
  <2> QED
    BY <1>2, <1>3, <1>8, <2>1
<1>10. g = x
  BY <1>3, <1>8, <1>9, SeqEqual
<1>11. delivered' = SubSeq(sent, 1, n)
  BY <1>2, <1>8, <1>10
<1> QED
  BY <1>5, <1>11 DEF Stream!Deliver, writing

\* Read returns the end of the connection below.
LEMMA GaveUp ==
  ASSUME IInv, end = "none", NEW k \in Nat, GiveUp(k),
         ~broken /\ closed /\ Len(wire) < k => wire = <<>> /\ delivered = sent
  PROVE  IInv' /\ Received
<1>1. /\ Len(wire) < k /\ (broken \/ closed) /\ end' = Ended(k) /\ wire' = <<>>
      /\ UNCHANGED <<writing, delivered, r>>
  BY DEF GiveUp, Short
<1>2. UNCHANGED <<layer, sent, closed, broken, w, todo, delivered, r>>
  BY <1>1 DEF writing
<1>3. CASE ~broken
  <2>1. closed /\ wire = <<>> /\ delivered = sent /\ end' = "eof"
    BY <1>1, <1>3 DEF Ended
  <2>2. wire' = wire
    BY <1>1, <2>1
  <2>3. Types'
    BY <1>2, <2>1, <2>2 DEF IInv, Types, TypeOK
  <2>4. Passing' /\ KeyAhead' /\ Plaintext'
    BY <1>2, <2>2 DEF IInv, Passing, KeyAhead, Plaintext
  <2>5. SealedAhead' /\ ServerAhead' /\ RecordsAhead'
    BY <1>2, <2>2 DEF IInv, SealedAhead, ServerAhead, RecordsAhead, Ahead, Lost, Owed
  <2>6. Stream!Eof
    BY <1>2, <2>1 DEF Stream!Eof
  <2> QED
    BY <2>3, <2>4, <2>5, <2>6 DEF IInv, Received, Stream!Receive
<1>4. CASE broken
  <2>1. end' = "error"
    BY <1>1, <1>4 DEF Ended
  <2>2. Lost' /\ wire' \in Seq(Tokens) /\ Len(wire') = 0
    BY <1>1, <1>2, <1>4 DEF Lost
  <2>3. Types'
    BY <1>2, <2>1, <2>2 DEF IInv, Types, TypeOK
  <2>4. Passing' /\ Plaintext'
    BY <1>1, <1>2 DEF IInv, Passing, Plaintext
  <2>5. KeyAhead'
    <3> SUFFICES ASSUME layer = "stream" PROVE KeyAhead'
      BY <1>2 DEF KeyAhead
    <3>1. PICK lead \in 0..1 : lead = IF r.at = "first" /\ w.init THEN 1 ELSE 0
      OBVIOUS
    <3>2. /\ r.at \in {"first", "data"} /\ r.buf = <<>> /\ r.count = Len(delivered)
          /\ r.at = "first" => delivered = <<>>
          /\ r.at = "data" => w.init
          /\ w.count <= Len(sent)
          /\ Len(delivered) + Len(wire) <= w.count + lead
      BY <3>1 DEF IInv, KeyAhead
    <3>3. Len(delivered) + 0 <= w.count + lead
      <4>1. PICK x \in Nat, y \in Nat, z \in Nat :
              x = Len(delivered) /\ y = Len(wire) /\ z = w.count
        BY TypesAre DEF IInv
      <4>2. x + y <= z + lead
        BY <3>2, <4>1
      <4>3. x + 0 <= z + lead
        BY <4>2
      <4> QED
        BY <4>1, <4>3
    <3>4. ~(\E i \in Nat \ {0} : lead + i <= Len(wire'))
      BY <2>2
    <3> QED
      BY <1>2, <1>4, <2>2, <3>1, <3>2, <3>3, <3>4 DEF KeyAhead
  <2>6. SealedAhead' /\ ServerAhead' /\ RecordsAhead'
    BY <1>2, <2>2 DEF IInv, SealedAhead, ServerAhead, RecordsAhead
  <2>7. Stream!Fail
    BY <1>2, <1>4, <2>1 DEF Stream!Fail
  <2> QED
    BY <2>3, <2>4, <2>5, <2>6, <2>7 DEF IInv, Received, Stream!Receive
<1> QED
  BY <1>3, <1>4

\* Copying to the caller's slice.
IsCopy(g, h, data, b) ==
  /\ g = Give(data, b) /\ h = Keep(data, b) /\ Len(g) + Len(h) = Len(data)
  /\ Len(data) > 0 => Len(g) > 0
  /\ \A i \in 1..Len(g) : g[i] = data[i]
  /\ \A i \in 1..Len(h) : h[i] = data[Len(g) + i]
LEMMA Copied ==
  ASSUME NEW data \in Seq(Nat), NEW b \in Nat \ {0}
  PROVE  \E g, h \in Seq(Nat) : IsCopy(g, h, data, b)
<1>1. PICK n \in Nat : n = Len(data)
  OBVIOUS
<1>2. PICK q \in Nat : q = (IF b < n THEN b ELSE n) /\ q <= n /\ (n > 0 => q > 0)
  <2>1. (IF b < n THEN b ELSE n) \in Nat /\ (IF b < n THEN b ELSE n) <= n
        /\ (n > 0 => (IF b < n THEN b ELSE n) > 0)
    OBVIOUS
  <2> QED
    BY <2>1
<1>3. q \in 0..Len(data)
  BY <1>1, <1>2
<1>4. /\ SubSeq(data, 1, q) \in Seq(Nat) /\ Len(SubSeq(data, 1, q)) = q
      /\ \A i \in 1..q : SubSeq(data, 1, q)[i] = data[i]
  BY <1>3, Front
<1>5. PICK g \in Seq(Nat) : g = Give(data, b) /\ Len(g) = q /\ \A i \in 1..q : g[i] = data[i]
  BY <1>1, <1>2, <1>4 DEF Give
<1>6. CASE b < n
  <2>1. q = b /\ q <= Len(data)
    BY <1>1, <1>2, <1>6
  <2>2. /\ SubSeq(data, q + 1, Len(data)) \in Seq(Nat)
        /\ Len(SubSeq(data, q + 1, Len(data))) = Len(data) - q
        /\ \A i \in 1..(Len(data) - q) : SubSeq(data, q + 1, Len(data))[i] = data[q + i]
    BY <2>1, Rest
  <2>3. PICK h \in Seq(Nat) : /\ h = Keep(data, b) /\ Len(h) = n - q
                              /\ \A i \in 1..(n - q) : h[i] = data[q + i]
    BY <1>1, <2>1, <2>2 DEF Keep
  <2>4. q + (n - q) = n
    OBVIOUS
  <2>5. IsCopy(g, h, data, b)
    BY <1>1, <1>2, <1>5, <2>3, <2>4 DEF IsCopy
  <2> QED
    BY <2>5
<1>7. CASE ~(b < n)
  <2>1. q = n
    BY <1>2, <1>7
  <2>2. Keep(data, b) = <<>>
    <3>1. SubSeq(data, b + 1, n) = [i \in 1..((n - (b + 1)) + 1) |-> data[(b + 1) + i - 1]]
      BY <1>7
    <3>2. 1..((n - (b + 1)) + 1) = {}
      BY <1>7
    <3> QED
      BY <1>1, <1>7, <3>1, <3>2 DEF Keep
  <2>3. PICK h \in Seq(Nat) : h = <<>> /\ Len(h) = 0
    <3>1. <<>> \in Seq(Nat) /\ Len(<<>>) = 0
      OBVIOUS
    <3> QED
      BY <3>1
  <2>4. IsCopy(g, h, data, b)
    <3>1. Len(g) + Len(h) = Len(data) /\ (Len(data) > 0 => Len(g) > 0)
      BY <1>1, <1>2, <1>5, <2>1, <2>3
    <3>2. \A i \in 1..Len(g) : g[i] = data[i]
      BY <1>5
    <3>3. \A i \in 1..Len(h) : h[i] = data[Len(g) + i]
      BY <2>3
    <3> QED
      BY <1>5, <2>2, <2>3, <3>1, <3>2, <3>3 DEF IsCopy
  <2> QED
    BY <2>4
<1> QED
  BY <1>6, <1>7

\* A closed connection that holds less than a frame is at its end.
LEMMA RowEnd ==
  ASSUME Types, Passing, ~broken, closed, NEW nonce \in Nat,
         Behind(layer, wire, broken, Len(sent), Len(sent) - todo, w.count, 0, Len(delivered), nonce),
         \A n \in Nat \ {0} : Len(wire) < FrameLen(layer, Len(delivered), n)
  PROVE  wire = <<>> /\ delivered = sent
<1>1. /\ wire \in Seq(Tokens) /\ Len(wire) \in Nat /\ broken \in BOOLEAN /\ Len(sent) \in Nat
      /\ w.count \in Nat /\ Len(delivered) \in Nat /\ 0 \in Nat
  BY TypesAre
<1>2. Len(wire) = 0
  <2> SUFFICES ASSUME Len(wire) > 0 PROVE FALSE
    BY <1>1
  <2>1. Splits(layer, wire, broken, Len(sent), Len(sent) - todo, w.count, 0, Len(delivered), nonce)
    BY <1>1, BehindNext
  <2>2. PICK n \in Nat \ {0} : Starts(layer, wire, broken, 0, Len(delivered), nonce, n)
    BY <2>1 DEF Splits
  <2>3. PICK x \in Nat : x = FrameLen(layer, Len(delivered), n)
    BY <1>1, FrameSize
  <2>4. 0 + x <= Len(wire) /\ Len(wire) < x
    BY <2>2, <2>3 DEF Starts
  <2> QED
    BY <1>1, <2>4
<1>3. Bounds(wire, broken, Len(sent), Len(sent) - todo, w.count, 0, Len(delivered), nonce)
  BY <1>1, BehindEnds
<1>4. Len(delivered) = Len(sent) - todo /\ todo = 0
  BY <1>2, <1>3 DEF Bounds, Passing
<1>5. delivered = sent
  BY <1>1, <1>4, AllRead
<1> QED
  BY <1>1, <1>2, <1>5, EmptySeq

\* What is left of the wire when q tokens have been taken.
LEMMA Taken ==
  ASSUME Types, UNCHANGED writing, NEW q \in Nat, q <= Len(wire), Drop(q)
  PROVE  /\ wire' \in Seq(Tokens) /\ Len(wire') = Len(wire) - q /\ Len(wire') \in Nat
         /\ \A i \in Nat \ {0} : i <= Len(wire') => q + i <= Len(wire) /\ wire'[i] = wire[q + i]
         /\ w'.init = w.init /\ broken' = broken
<1>1. wire \in Seq(Tokens) /\ Len(wire) \in Nat
  BY TypesAre
<1>2. wire' = SubSeq(wire, q + 1, Len(wire))
  BY DEF Drop
<1>3. /\ SubSeq(wire, q + 1, Len(wire)) \in Seq(Tokens)
      /\ Len(SubSeq(wire, q + 1, Len(wire))) = Len(wire) - q /\ Len(wire) - q \in Nat
      /\ \A i \in 1..(Len(wire) - q) : SubSeq(wire, q + 1, Len(wire))[i] = wire[q + i]
  BY <1>1, Rest
<1>4. /\ wire' \in Seq(Tokens) /\ Len(wire') = Len(wire) - q /\ Len(wire') \in Nat
      /\ \A i \in 1..(Len(wire) - q) : wire'[i] = wire[q + i]
  BY <1>2, <1>3
<1>5. ASSUME NEW i \in Nat \ {0}, i <= Len(wire')
      PROVE  q + i <= Len(wire) /\ wire'[i] = wire[q + i]
  <2>1. PICK x \in Nat : x = Len(wire)
    BY <1>1
  <2>2. i <= x - q
    BY <1>4, <1>5, <2>1
  <2>3. i \in 1..(x - q) /\ q + i <= x
    BY <2>2
  <2> QED
    BY <1>4, <2>1, <2>3
<1> QED
  BY <1>4, <1>5 DEF writing

LEMMA TakenRow ==
  ASSUME Types, UNCHANGED writing, NEW q \in Nat, q <= Len(wire), Drop(q),
         NEW start \in Nat, q <= start, NEW from \in Nat, NEW nonce \in Nat,
         Behind(layer, wire, broken, Len(sent), Len(sent) - todo, w.count, start, from, nonce)
  PROVE  Behind(layer', wire', broken', Len(sent'), Len(sent') - todo', w'.count, start - q, from, nonce)
<1>1. wire \in Seq(Tokens) /\ broken \in BOOLEAN /\ Len(sent) \in Nat /\ w.count \in Nat
  BY TypesAre
<1>2. Behind(layer, SubSeq(wire, q + 1, Len(wire)), broken, Len(sent), Len(sent) - todo, w.count,
             start - q, from, nonce)
  BY <1>1, BehindDrops
<1>3. wire' = SubSeq(wire, q + 1, Len(wire))
  BY DEF Drop
<1> QED
  BY <1>2, <1>3 DEF writing

\* A reader of the AEAD layer that keeps its side of the invariant.
LEMMA SealedKeeps ==
  ASSUME IInv, UNCHANGED writing, layer = "aead", Types', Passing', SealedAhead'
  PROVE  IInv'
<1>1. layer' = layer
  BY DEF writing
<1> QED
  BY <1>1 DEF IInv, KeyAhead, Plaintext, ServerAhead, RecordsAhead

\* Passing when nothing is returned.
LEMMA NothingReturned ==
  ASSUME Types, Passing, UNCHANGED writing, delivered' = delivered, r'.buf = r.buf,
         w.init \/ wire' = <<>>, r'.count <= w.count
  PROVE  Passing'
BY DEF Passing, writing

LEMMA ReadSaltKeeps ==
  ASSUME IInv, ReadSalt
  PROVE  IInv' /\ Received
<1>1. layer = "aead" /\ end = "none" /\ r.at = "first" /\ Types /\ Passing
  BY DEF ReadSalt, SkipPrologue, IInv
<1>2. CASE GiveUp(1)
  <2>1. ~broken /\ closed /\ Len(wire) < 1 => wire = <<>> /\ delivered = sent
    <3> SUFFICES ASSUME ~broken, closed, Len(wire) < 1 PROVE wire = <<>> /\ delivered = sent
      OBVIOUS
    <3>1. wire = <<>> /\ Len(wire) = 0
      BY <1>1, TypesAre, EmptySeq
    <3>2. delivered = <<>> /\ Ahead(IF w.init THEN 1 ELSE 0, 0, 0)
      BY <1>1 DEF IInv, SealedAhead, Lost
    <3>3. PICK start \in 0..1 : start = IF w.init THEN 1 ELSE 0
      OBVIOUS
    <3>4. Behind(layer, wire, broken, Len(sent), Len(sent) - todo, w.count, start, 0, 0)
      BY <3>2, <3>3 DEF Ahead
    <3>5. Bounds(wire, broken, Len(sent), Len(sent) - todo, w.count, start, 0, 0)
      <4>1. /\ wire \in Seq(Tokens) /\ broken \in BOOLEAN /\ Len(sent) \in Nat
            /\ w.count \in Nat /\ 0 \in Nat /\ start \in Nat
        BY <1>1, TypesAre
      <4> QED
        BY <3>4, <4>1, BehindEnds
    <3>6. start = 0 /\ 0 = Len(sent) - todo /\ todo = 0
      BY <1>1, <3>1, <3>5 DEF Bounds, Passing
    <3>7. Len(delivered) = Len(sent)
      <4>1. Len(sent) \in Nat /\ Len(delivered) = 0
        BY <1>1, <3>2, TypesAre
      <4> QED
        BY <3>6, <4>1
    <3> QED
      BY <1>1, <3>1, <3>7, AllRead
  <2> QED
    BY <1>1, <1>2, <2>1, GaveUp
<1>3. CASE /\ Full(1) /\ Drop(1) /\ r' = [r EXCEPT !.at = "size"]
           /\ UNCHANGED <<writing, delivered, end>>
  <2>1. 1 <= Len(wire) /\ wire # <<>>
    BY <1>1, <1>3, TypesAre DEF Full
  <2>2. w.init
    BY <1>1, <2>1 DEF Passing
  <2>3. /\ r.count = 0 /\ delivered = <<>> /\ r.buf = <<>>
        /\ Behind(layer, wire, broken, Len(sent), Len(sent) - todo, w.count, 1, 0, 0)
    BY <1>1, <2>1, <2>2 DEF IInv, SealedAhead, Lost, Ahead
  <2>4. /\ wire' \in Seq(Tokens) /\ w'.init = w.init
    BY <1>1, <1>3, <2>1, Taken
  <2>5. Behind(layer', wire', broken', Len(sent'), Len(sent') - todo', w'.count, 0, 0, 0)
    <3>1. 1 \in Nat /\ 0 \in Nat /\ 1 <= 1 /\ 1 - 1 = 0
      OBVIOUS
    <3>2. Behind(layer', wire', broken', Len(sent'), Len(sent') - todo', w'.count, 1 - 1, 0, 0)
      BY <1>1, <1>3, <2>1, <2>3, <3>1, TakenRow
    <3> QED
      BY <3>1, <3>2
  <2>6. r \in [at : ReadSteps, count : Nat, size : Nat, remain : Nat, buf : Seq(Nat)]
    BY <1>1 DEF Types
  <2>7. /\ r' \in [at : ReadSteps, count : Nat, size : Nat, remain : Nat, buf : Seq(Nat)]
        /\ r'.at = "size" /\ r'.count = r.count /\ r'.buf = r.buf
    BY <1>3, <2>6 DEF ReadSteps
  <2>8. Types'
    BY <1>1, <1>3, <2>4, <2>7, TypesAre, ReaderTypes
  <2>9. Passing'
    BY <1>1, <1>3, <2>2, <2>7, NothingReturned DEF Passing
  <2>10. SealedAhead'
    <3>1. Len(delivered') + Len(r'.buf) = 0 /\ r'.count = 0
      BY <1>3, <2>3, <2>7
    <3> QED
      BY <2>2, <2>4, <2>5, <2>7, <3>1 DEF SealedAhead, Ahead
  <2>11. IInv'
    BY <1>1, <1>3, <2>8, <2>9, <2>10, SealedKeeps
  <2> QED
    BY <1>3, <2>11 DEF Received, Stream!vars, writing
<1> QED
  BY <1>2, <1>3 DEF ReadSalt, SkipPrologue

\* Open succeeds on what Seal made.
IsBox(box, nonce, vals) ==
  /\ box \in Seq(Tokens) /\ Len(box) = Len(vals) + 1
  /\ \A i \in 1..(Len(vals) + 1) : box[i] =
       Token("box", IF i <= Len(vals) THEN vals[i] ELSE Garbage, <<nonce, i, Len(vals)>>)
LEMMA BoxOpens ==
  ASSUME NEW nonce \in Nat, NEW vals \in Seq(Nat), NEW box, IsBox(box, nonce, vals)
  PROVE  Opens(nonce, box) /\ Vals(box) = vals
<1>1. PICK n \in Nat : n = Len(vals)
  OBVIOUS
<1>2. /\ box \in Seq(Tokens) /\ Len(box) = n + 1
      /\ \A i \in 1..(n + 1) : box[i] =
           Token("box", IF i <= n THEN vals[i] ELSE Garbage, <<nonce, i, n>>)
  BY <1>1 DEF IsBox
<1>3. Len(box) - Tag = n
  BY <1>2 DEF Tag
<1>4. \A i \in 1..n : box[i].val = vals[i]
  <2> SUFFICES ASSUME NEW i \in 1..n PROVE box[i].val = vals[i]
    OBVIOUS
  <2>1. i \in 1..(n + 1) /\ i <= n
    OBVIOUS
  <2>2. box[i] = Token("box", vals[i], <<nonce, i, n>>)
    BY <1>2, <2>1
  <2> QED
    BY <2>2 DEF Token
<1>5. vals = [i \in 1..n |-> vals[i]]
  BY <1>1
<1>6. Vals(box) = [i \in 1..n |-> box[i].val]
  BY <1>3 DEF Vals
<1>7. Vals(box) = vals
  BY <1>4, <1>5, <1>6
<1>8. PICK s \in Seq(Tokens) :
        /\ s = Seal(nonce, vals) /\ Len(s) = n + 1
        /\ \A i \in 1..(n + 1) : s[i] =
             Token("box", IF i <= n THEN vals[i] ELSE Garbage, <<nonce, i, n>>)
  BY <1>1, SealIs
<1>9. s = box
  <2>1. \A i \in 1..Len(s) : s[i] = box[i]
    BY <1>2, <1>8
  <2> QED
    BY <1>2, <1>8, <2>1, SeqEqual
<1> QED
  BY <1>7, <1>8, <1>9 DEF Opens

LEMMA ReadAEADSizeKeeps ==
  ASSUME IInv, ReadAEADSize
  PROVE  IInv' /\ Received
<1>1. layer = "aead" /\ end = "none" /\ r.at = "size" /\ r.buf = <<>> /\ Types /\ Passing
  BY DEF ReadAEADSize, IInv
<1>2. /\ wire \in Seq(Tokens) /\ Len(wire) \in Nat /\ broken \in BOOLEAN /\ Len(sent) \in Nat
      /\ w.count \in Nat
  BY <1>1, TypesAre
<1>3. PICK d \in Nat, c \in Nat : d = Len(delivered) /\ c = r.count /\ Len(delivered) + Len(r.buf) = d
  <2>1. Len(delivered) \in Nat /\ r.count \in Nat
    BY <1>1, TypesAre
  <2>2. Len(r.buf) = 0
    BY <1>1
  <2>3. Len(delivered) + Len(r.buf) = Len(delivered)
    BY <2>1, <2>2
  <2> QED
    BY <2>1, <2>3
<1>4. ~Lost => w.init /\ Behind(layer, wire, broken, Len(sent), Len(sent) - todo, w.count, 0, d, c)
  BY <1>1, <1>3 DEF IInv, SealedAhead, Ahead
<1>5. 1 + Tag = 2
  BY DEF Tag
<1>6. CASE GiveUp(2)
  <2>1. ~broken /\ closed /\ Len(wire) < 2 => wire = <<>> /\ delivered = sent
    <3> SUFFICES ASSUME ~broken, closed, Len(wire) < 2 PROVE wire = <<>> /\ delivered = sent
      OBVIOUS
    <3>1. \A n \in Nat \ {0} : Len(wire) < FrameLen(layer, Len(delivered), n)
      BY <1>1, <1>2 DEF FrameLen
    <3>2. Behind(layer, wire, broken, Len(sent), Len(sent) - todo, w.count, 0, Len(delivered), c)
      BY <1>3, <1>4 DEF Lost
    <3> QED
      BY <1>1, <3>1, <3>2, RowEnd
  <2> QED
    BY <1>1, <1>6, <2>1, GaveUp
<1>7. CASE /\ Full(2) /\ Drop(2)
           /\ LET box == Take(2)
                  ok  == Opens(r.count, box) /\ box[1].val # 0
              IN  /\ r' = AfterSize(box[1].val)
                  /\ end' = IF ok THEN "none" ELSE "error"
           /\ UNCHANGED <<writing, delivered>>
  <2>1. 2 <= Len(wire) /\ wire # <<>> /\ 2 \in 0..Len(wire) /\ Len(wire) > 0
    BY <1>2, <1>7 DEF Full
  <2>2. w.init /\ Splits(layer, wire, broken, Len(sent), Len(sent) - todo, w.count, 0, d, c)
    <3>1. w.init /\ Behind(layer, wire, broken, Len(sent), Len(sent) - todo, w.count, 0, d, c)
      BY <1>4, <2>1 DEF Lost
    <3> QED
      BY <1>2, <2>1, <3>1, BehindNext
  <2>3. PICK n \in Nat \ {0} :
          /\ d + n <= Len(sent) /\ Starts(layer, wire, broken, 0, d, c, n)
          /\ Behind(layer, wire, broken, Len(sent), Len(sent) - todo, w.count,
                    0 + FrameLen(layer, d, n), d + n, c + Nonces(layer, 1))
    BY <2>2 DEF Splits
  <2>4. FrameLen(layer, d, n) = n + 3 /\ Nonces(layer, 1) = 2
    BY <1>1 DEF FrameLen, Nonces
  <2>5. \A j \in Nat \ {0} : j <= n + 3 /\ j <= Len(wire) => wire[j] = Sealed(c, d, n, j)
    <3> SUFFICES ASSUME NEW j \in Nat \ {0}, j <= n + 3, j <= Len(wire)
                 PROVE  wire[j] = Sealed(c, d, n, j)
      OBVIOUS
    <3>1. 0 + j = j
      OBVIOUS
    <3>2. wire[0 + j] = Part(layer, c, d, n, j)
      BY <2>3, <2>4, <3>1 DEF Starts
    <3> QED
      BY <1>1, <3>1, <3>2 DEF Part
  <2>6. PICK box \in Seq(Tokens) : box = Take(2) /\ Len(box) = 2 /\ box[1] = wire[1] /\ box[2] = wire[2]
    <3>1. /\ SubSeq(wire, 1, 2) \in Seq(Tokens) /\ Len(SubSeq(wire, 1, 2)) = 2
          /\ \A i \in 1..2 : SubSeq(wire, 1, 2)[i] = wire[i]
      BY <1>2, <2>1, Front
    <3>2. 1 \in 1..2 /\ 2 \in 1..2
      OBVIOUS
    <3>3. Take(2) \in Seq(Tokens) /\ Len(Take(2)) = 2 /\ Take(2)[1] = wire[1] /\ Take(2)[2] = wire[2]
      BY <3>1, <3>2, Zenon DEF Take
    <3> QED
      BY <3>3, Zenon
  <2>7. /\ box[1] = Token("box", n, <<c, 1, 1>>)
        /\ box[2] = Token("box", Garbage, <<c, 2, 1>>)
    <3>1. wire[1] = Sealed(c, d, n, 1) /\ wire[2] = Sealed(c, d, n, 2)
      BY <2>1, <2>5
    <3> QED
      BY <2>6, <3>1 DEF Sealed
  <2>8. PICK one \in Seq(Nat) : one = <<n>> /\ Len(one) = 1 /\ one[1] = n
    <3>1. <<n>> \in Seq(Nat) /\ Len(<<n>>) = 1 /\ <<n>>[1] = n
      OBVIOUS
    <3> QED
      BY <3>1
  <2>9. IsBox(box, c, one)
    <3>1. ASSUME NEW i \in 1..2
          PROVE  box[i] = Token("box", IF i <= 1 THEN one[i] ELSE Garbage, <<c, i, 1>>)
      <4>1. CASE i = 1
        BY <2>7, <2>8, <4>1
      <4>2. CASE i = 2
        BY <2>7, <2>8, <4>2
      <4>3. i = 1 \/ i = 2
        OBVIOUS
      <4> QED
        BY <4>1, <4>2, <4>3
    <3> QED
      BY <2>6, <2>8, <3>1 DEF IsBox
  <2>10. Opens(c, box) /\ box[1].val = n
    <3>1. box[1].val = n
      BY <2>7 DEF Token
    <3> QED
      BY <2>9, <3>1, BoxOpens
  <2>11. r' = AfterSize(n) /\ end' = "none" /\ UNCHANGED <<writing, delivered>>
    BY <1>3, <1>7, <2>6, <2>10
  <2>12. r \in [at : ReadSteps, count : Nat, size : Nat, remain : Nat, buf : Seq(Nat)]
    BY <1>1 DEF Types
  <2>13. /\ r' \in [at : ReadSteps, count : Nat, size : Nat, remain : Nat, buf : Seq(Nat)]
         /\ r'.at = "data" /\ r'.count = c + 1 /\ r'.buf = r.buf /\ r'.size = n
    <3>1. PICK x \in Nat : x = c + 1
      OBVIOUS
    <3>2. r' = [r EXCEPT !.at = "data", !.size = n, !.count = x]
      BY <1>3, <2>11, <3>1 DEF AfterSize
    <3> QED
      BY <2>12, <3>1, <3>2 DEF ReadSteps
  <2>14. /\ wire' \in Seq(Tokens) /\ Len(wire') \in Nat
         /\ \A i \in Nat \ {0} : i <= Len(wire') => 2 + i <= Len(wire) /\ wire'[i] = wire[2 + i]
         /\ w'.init = w.init
    BY <1>1, <1>7, <2>1, Taken
  <2>15. PICK start \in Nat, from \in Nat, nonce \in Nat :
           start = n + 3 /\ from = d + n /\ nonce = c + 2
    OBVIOUS
  <2>16. Behind(layer, wire, broken, Len(sent), Len(sent) - todo, w.count, start, from, nonce)
    BY <2>3, <2>4, <2>15
  <2>17. Behind(layer', wire', broken', Len(sent'), Len(sent') - todo', w'.count, n + 1, from, nonce)
    <3>1. 2 <= start /\ start - 2 = n + 1 /\ 2 \in Nat
      BY <2>15
    <3>2. Behind(layer', wire', broken', Len(sent'), Len(sent') - todo', w'.count, start - 2, from, nonce)
      BY <1>1, <1>7, <2>1, <2>16, <3>1, TakenRow
    <3> QED
      BY <3>1, <3>2
  <2>18. c + 1 <= w.count
    <3>1. Bounds(wire, broken, Len(sent), Len(sent) - todo, w.count, start, from, nonce)
      BY <1>2, <2>16, BehindEnds
    <3>2. nonce <= w.count
      BY <3>1 DEF Bounds
    <3> QED
      BY <1>2, <2>15, <3>2
  <2>19. Types'
    <3>1. delivered' \in Seq(Nat)
      BY <1>1, <2>11, TypesAre
    <3> QED
      BY <1>1, <2>11, <2>13, <2>14, <3>1, ReaderTypes
  <2>20. Passing'
    BY <1>1, <2>2, <2>11, <2>13, <2>18, NothingReturned
  <2>21. SealedAhead'
    <3>1. ASSUME NEW j \in Nat \ {0}, j <= n + 1, j <= Len(wire')
          PROVE  wire'[j] = Sealed(c, d, n, j + 2)
      <4>1. 2 + j <= Len(wire) /\ wire'[j] = wire[2 + j] /\ 2 + j = j + 2
        BY <2>14, <3>1
      <4>2. j + 2 \in Nat \ {0} /\ j + 2 <= n + 3
        BY <3>1
      <4> QED
        BY <2>5, <4>1, <4>2
    <3>2. /\ r'.count - 1 = c /\ Len(delivered') = d /\ r'.size = n /\ r'.size + 1 = n + 1
          /\ Len(delivered') + r'.size = from /\ r'.count + 1 = nonce /\ r'.size > 0
          /\ r'.buf = <<>> /\ w'.init /\ r'.at = "data"
      <4>1. (c + 1) - 1 = c /\ (c + 1) + 1 = c + 2 /\ n > 0
        OBVIOUS
      <4> QED
        BY <1>1, <1>3, <2>2, <2>11, <2>13, <2>14, <2>15, <4>1
    <3>3. Ahead(r.size + 1, Len(delivered) + r.size, r.count + 1)'
      BY <2>17, <3>2 DEF Ahead
    <3>4. \A j \in Nat \ {0} : j <= r'.size + 1 /\ j <= Len(wire') =>
            wire'[j] = Sealed(r'.count - 1, Len(delivered'), r'.size, j + 2)
      BY <3>1, <3>2
    <3> QED
      BY <3>2, <3>3, <3>4 DEF SealedAhead
  <2>22. IInv'
    BY <1>1, <2>11, <2>19, <2>20, <2>21, SealedKeeps
  <2> QED
    BY <1>1, <2>11, <2>22 DEF Received, Stream!vars, writing
<1> QED
  BY <1>5, <1>6, <1>7 DEF ReadAEADSize

\* A Read that hands out what fits of the next bytes and keeps the others.
LEMMA HandedOut ==
  ASSUME Types, Passing, NEW data, Follows(data), Len(data) > 0, NEW b \in Nat \ {0},
         Return(Give(data, b)), r'.buf = Keep(data, b), UNCHANGED writing,
         end = "none", end' = "none", w.init \/ wire' = <<>>, r'.count <= w.count
  PROVE  /\ Passing' /\ Received /\ delivered' \in Seq(Nat) /\ r'.buf \in Seq(Nat)
         /\ Len(delivered') + Len(r'.buf) = Len(delivered) + Len(data)
<1>1. PICK n \in Nat : /\ data \in Seq(Nat) /\ n = Len(data) /\ n > 0
                      /\ Len(delivered) + n <= Len(sent)
                      /\ \A i \in 1..n : data[i] = Len(delivered) + i
  BY DEF Follows
<1>2. PICK g \in Seq(Nat), h \in Seq(Nat) : IsCopy(g, h, data, b)
  BY <1>1, Copied
<1>3. PICK p \in Nat, q \in Nat : p = Len(g) /\ q = Len(h) /\ p + q = n /\ p > 0
  <2>1. Len(g) + Len(h) = n /\ Len(g) > 0
    BY <1>1, <1>2 DEF IsCopy
  <2>2. Len(g) \in Nat /\ Len(h) \in Nat
    OBVIOUS
  <2> QED
    BY <2>1, <2>2
<1>14. p + q = n /\ p > 0
  BY <1>3
<1>4. PICK d \in Nat, z \in Nat : d = Len(delivered) /\ z = Len(sent)
  BY TypesAre
<1>5. d + n <= z
  BY <1>1, <1>4
<1>6. \A i \in 1..p : g[i] = d + i
  <2> SUFFICES ASSUME NEW i \in 1..p PROVE g[i] = d + i
    OBVIOUS
  <2>1. i \in 1..n
    BY <1>3
  <2>2. g[i] = data[i]
    BY <1>2, <1>3 DEF IsCopy
  <2> QED
    BY <1>1, <1>4, <2>1, <2>2
<1>7. \A i \in 1..q : h[i] = (d + p) + i
  <2> SUFFICES ASSUME NEW i \in 1..q PROVE h[i] = (d + p) + i
    OBVIOUS
  <2>1. p + i \in 1..n /\ d + (p + i) = (d + p) + i
    BY <1>14
  <2>2. h[i] = data[p + i]
    BY <1>2, <1>3 DEF IsCopy
  <2> QED
    BY <1>1, <1>4, <2>1, <2>2
<1>8. Follows(g) /\ Return(g)
  <2>1. d + p <= z
    BY <1>5, <1>14
  <2> QED
    BY <1>2, <1>3, <1>4, <1>6, <2>1 DEF Follows, IsCopy
<1>9. /\ delivered' \in Seq(Nat) /\ Len(delivered') = d + p
      /\ \A i \in 1..Len(delivered') : delivered'[i] = i
  BY <1>3, <1>4, <1>8, Returned
<1>10. r'.buf = h
  BY <1>2 DEF IsCopy
<1>11. Passing'
  <2>1. \A i \in 1..Len(r'.buf) : r'.buf[i] = Len(delivered') + i
    BY <1>3, <1>7, <1>9, <1>10
  <2>2. (d + p) + q <= z
    BY <1>5, <1>14
  <2>3. Len(delivered') + Len(r'.buf) <= Len(sent')
    BY <1>3, <1>4, <1>9, <1>10, <2>2 DEF writing
  <2> QED
    BY <1>9, <2>1, <2>3 DEF Passing, writing
<1>12. Stream!Deliver
  BY <1>3, <1>8, ReturnDelivers
<1>13. (d + p) + q = d + n
  BY <1>14
<1> QED
  BY <1>1, <1>3, <1>4, <1>9, <1>10, <1>11, <1>12, <1>13 DEF Received, Stream!Receive

LEMMA ReadAEADBufKeeps ==
  ASSUME IInv, ReadAEADBuf
  PROVE  IInv' /\ Received
<1>1. /\ layer = "aead" /\ end = "none" /\ r.buf # <<>> /\ UNCHANGED <<writing, end, wire>>
      /\ Types /\ Passing
  BY DEF ReadAEADBuf, IInv
<1>2. PICK b \in Buffers : Return(Give(r.buf, b)) /\ r' = [r EXCEPT !.buf = Keep(@, b)]
  BY DEF ReadAEADBuf
<1>3. PICK data \in Seq(Nat) : data = r.buf /\ Len(data) > 0
  <2>1. PICK data \in Seq(Nat) : data = r.buf
    BY <1>1, TypesAre
  <2>2. Len(data) \in Nat \ {0}
    BY <1>1, <2>1, EmptySeq
  <2> QED
    BY <2>1, <2>2
<1>4. b \in Nat \ {0}
  BY TransportAssumption
<1>5. r \in [at : ReadSteps, count : Nat, size : Nat, remain : Nat, buf : Seq(Nat)]
  BY <1>1 DEF Types
<1>6. r' = [r EXCEPT !.buf = Keep(data, b)]
  BY <1>2, <1>3
<1>7. /\ r'.buf = Keep(data, b) /\ r'.at = r.at /\ r'.count = r.count /\ r'.size = r.size
      /\ r'.remain = r.remain
  BY <1>5, <1>6
<1>8. Follows(data)
  BY <1>1, <1>3 DEF Passing, Follows
<1>9. w.init \/ wire' = <<>>
  BY <1>1 DEF Passing
<1>10. r'.count <= w.count
  BY <1>1, <1>7 DEF Passing
<1>11. /\ Passing' /\ Received /\ delivered' \in Seq(Nat) /\ r'.buf \in Seq(Nat)
       /\ Len(delivered') + Len(r'.buf) = Len(delivered) + Len(data)
  <2>1. Return(Give(data, b)) /\ end' = "none"
    BY <1>1, <1>2, <1>3
  <2> QED
    BY <1>1, <1>3, <1>4, <1>7, <1>8, <1>9, <1>10, <2>1, HandedOut
<1>12. Types'
  <2>1. r' \in [at : ReadSteps, count : Nat, size : Nat, remain : Nat, buf : Seq(Nat)]
    <3>1. PICK h \in Seq(Nat) : h = Keep(data, b)
      BY <1>7, <1>11
    <3> QED
      BY <1>5, <1>6, <3>1
  <2>2. wire' \in Seq(Tokens)
    BY <1>1, TypesAre
  <2> QED
    BY <1>1, <1>11, <2>1, <2>2, ReaderTypes
<1>13. SealedAhead'
  <2>1. CASE Lost
    BY <1>1, <2>1 DEF SealedAhead, Lost, writing
  <2>2. CASE ~Lost
    <3>1. r.at = "size" /\ w.init /\ Ahead(0, Len(delivered) + Len(r.buf), r.count)
      BY <1>1, <2>2 DEF IInv, SealedAhead
    <3>2. PICK x \in Nat : x = Len(delivered) + Len(r.buf) /\ x = Len(delivered') + Len(r'.buf)
      <4>1. Len(delivered) \in Nat /\ Len(data) \in Nat
        BY <1>1, TypesAre
      <4> QED
        BY <1>3, <1>11, <4>1
    <3>3. Behind(layer, wire, broken, Len(sent), Len(sent) - todo, w.count, 0, x, r.count)
      BY <3>1, <3>2 DEF Ahead
    <3>4. Behind(layer', wire', broken', Len(sent'), Len(sent') - todo', w'.count, 0, x, r'.count)
      BY <1>1, <1>7, <3>3 DEF writing
    <3> QED
      BY <1>1, <1>7, <3>1, <3>2, <3>4 DEF SealedAhead, Ahead, writing
  <2> QED
    BY <2>1, <2>2
<1> QED
  BY <1>1, <1>11, <1>12, <1>13, SealedKeeps

\* Reader.read and Read when the payload opens.
Opened(data) ==
  \E b \in Buffers :
    /\ Return(Give(data, b)) /\ UNCHANGED end
    /\ r' = [r EXCEPT !.at = "size", !.count = @ + 1, !.buf = Keep(data, b)]
LEMMA ReadAEADDataIs ==
  ASSUME ReadAEADData
  PROVE  /\ layer = "aead" /\ end = "none" /\ r.at = "data"
         /\ \/ GiveUp(r.size + Tag)
            \/ /\ Full(r.size + Tag) /\ Drop(r.size + Tag) /\ UNCHANGED writing
               /\ Opens(r.count, Take(r.size + Tag)) => Opened(Vals(Take(r.size + Tag)))
BY Zenon DEF ReadAEADData, Opened

LEMMA ReadAEADDataKeeps ==
  ASSUME IInv, ReadAEADData
  PROVE  IInv' /\ Received
<1>1. layer = "aead" /\ end = "none" /\ r.at = "data" /\ Types /\ Passing
  BY ReadAEADDataIs DEF IInv
<1>2. /\ wire \in Seq(Tokens) /\ Len(wire) \in Nat /\ broken \in BOOLEAN /\ Len(sent) \in Nat
      /\ w.count \in Nat
  BY <1>1, TypesAre
<1>3. PICK d \in Nat, c \in Nat, n \in Nat : d = Len(delivered) /\ c = r.count /\ n = r.size
  BY <1>1, TypesAre
<1>4. PICK k \in Nat, from \in Nat, nonce \in Nat : k = n + 1 /\ from = d + n /\ nonce = c + 1
  OBVIOUS
<1>5. ~Lost => /\ w.init /\ r.buf = <<>> /\ n > 0
               /\ Behind(layer, wire, broken, Len(sent), Len(sent) - todo, w.count, k, from, nonce)
               /\ \A j \in Nat \ {0} : j <= k /\ j <= Len(wire) => wire[j] = Sealed(c - 1, d, n, j + 2)
  BY <1>1, <1>3, <1>4 DEF IInv, SealedAhead, Ahead
<1>6. r.size + Tag = k
  BY <1>3, <1>4 DEF Tag
<1>7. CASE GiveUp(k)
  <2>1. ~broken /\ closed /\ Len(wire) < k => wire = <<>> /\ delivered = sent
    <3> SUFFICES ASSUME ~broken, closed, Len(wire) < k PROVE FALSE
      OBVIOUS
    <3>1. Bounds(wire, broken, Len(sent), Len(sent) - todo, w.count, k, from, nonce)
      BY <1>2, <1>5, BehindEnds DEF Lost
    <3>2. k <= Len(wire)
      BY <3>1 DEF Bounds
    <3> QED
      BY <1>2, <3>2
  <2> QED
    BY <1>1, <1>7, <2>1, GaveUp
<1>8. CASE /\ Full(k) /\ Drop(k) /\ UNCHANGED writing
           /\ Opens(r.count, Take(k)) => Opened(Vals(Take(k)))
  <2>1. k <= Len(wire) /\ wire # <<>> /\ k \in 0..Len(wire)
    BY <1>2, <1>4, <1>8 DEF Full
  <2>2. /\ w.init /\ r.buf = <<>> /\ n > 0
        /\ Behind(layer, wire, broken, Len(sent), Len(sent) - todo, w.count, k, from, nonce)
        /\ \A j \in Nat \ {0} : j <= k /\ j <= Len(wire) => wire[j] = Sealed(c - 1, d, n, j + 2)
    BY <1>5, <2>1 DEF Lost
  <2>3. PICK data \in Seq(Nat) : data = Count(d, n) /\ Len(data) = n /\ \A i \in 1..n : data[i] = d + i
    BY CountIs
  <2>4. PICK box \in Seq(Tokens) : box = Take(k) /\ Len(box) = k /\ \A i \in 1..k : box[i] = wire[i]
    <3>1. /\ Take(k) \in Seq(Tokens) /\ Len(Take(k)) = k
          /\ \A i \in 1..k : Take(k)[i] = wire[i]
      BY <1>2, <2>1, Front DEF Take
    <3> QED
      BY <3>1, Zenon
  <2>5. IsBox(box, c, data)
    <3>1. ASSUME NEW i \in 1..(n + 1)
          PROVE  box[i] = Token("box", IF i <= n THEN data[i] ELSE Garbage, <<c, i, n>>)
      <4>1. i \in Nat \ {0} /\ i <= k /\ i <= Len(wire) /\ i \in 1..k
        BY <1>2, <1>4, <2>1
      <4>2. box[i] = Sealed(c - 1, d, n, i + 2)
        BY <2>2, <2>4, <4>1
      <4>3. /\ i + 2 # 1 /\ i + 2 # 2 /\ (i + 2 <= n + 2 <=> i <= n) /\ (c - 1) + 1 = c
            /\ (i + 2) - 2 = i
        BY <4>1
      <4>4. CASE i <= n
        <5>1. Sealed(c - 1, d, n, i + 2) = Token("box", d + i, <<c, i, n>>)
          BY <4>3, <4>4 DEF Sealed
        <5>2. data[i] = d + i
          BY <2>3, <4>4
        <5> QED
          BY <4>2, <4>4, <5>1, <5>2
      <4>5. CASE ~(i <= n)
        <5>1. Sealed(c - 1, d, n, i + 2) = Token("box", Garbage, <<c, i, n>>)
          BY <4>3, <4>5 DEF Sealed
        <5> QED
          BY <4>2, <4>5, <5>1
      <4> QED
        BY <4>4, <4>5
    <3> QED
      BY <1>4, <2>3, <2>4, <3>1 DEF IsBox
  <2>6. Opens(c, box) /\ Vals(box) = data
    BY <2>5, BoxOpens
  <2>7. PICK b \in Buffers :
          /\ Return(Give(data, b)) /\ UNCHANGED end
          /\ r' = [r EXCEPT !.at = "size", !.count = @ + 1, !.buf = Keep(data, b)]
    <3>1. Opened(data)
      BY <1>3, <1>8, <2>4, <2>6
    <3> QED
      BY <3>1, Zenon DEF Opened
  <2>8. UNCHANGED writing /\ b \in Nat \ {0} /\ end' = "none"
    BY <1>1, <1>8, <2>7, TransportAssumption
  <2>9. r \in [at : ReadSteps, count : Nat, size : Nat, remain : Nat, buf : Seq(Nat)]
    BY <1>1 DEF Types
  <2>10. r' = [r EXCEPT !.at = "size", !.count = nonce, !.buf = Keep(data, b)]
    BY <1>3, <1>4, <2>7
  <2>11. r'.at = "size" /\ r'.count = nonce /\ r'.buf = Keep(data, b)
    BY <2>9, <2>10
  <2>12. Bounds(wire, broken, Len(sent), Len(sent) - todo, w.count, k, from, nonce)
    BY <1>2, <2>2, BehindEnds
  <2>13. Follows(data)
    BY <1>3, <1>4, <2>3, <2>12 DEF Bounds, Follows
  <2>14. nonce <= w.count
    BY <2>12 DEF Bounds
  <2>15. /\ Passing' /\ Received /\ delivered' \in Seq(Nat) /\ r'.buf \in Seq(Nat)
         /\ Len(delivered') + Len(r'.buf) = Len(delivered) + Len(data)
    <3>1. Len(data) > 0 /\ r'.count <= w.count
      BY <2>2, <2>3, <2>11, <2>14
    <3> QED
      BY <1>1, <2>2, <2>7, <2>8, <2>11, <2>13, <3>1, HandedOut
  <2>16. wire' \in Seq(Tokens) /\ w'.init = w.init
    BY <1>1, <1>8, <2>1, Taken
  <2>17. Types'
    <3>1. r' \in [at : ReadSteps, count : Nat, size : Nat, remain : Nat, buf : Seq(Nat)]
      <4>1. PICK h \in Seq(Nat) : h = Keep(data, b)
        BY <2>11, <2>15
      <4> QED
        BY <2>9, <2>10, <4>1 DEF ReadSteps
    <3> QED
      BY <1>1, <2>8, <2>15, <2>16, <3>1, ReaderTypes
  <2>18. Behind(layer', wire', broken', Len(sent'), Len(sent') - todo', w'.count, 0, from, nonce)
    <3>1. k <= k /\ k - k = 0
      OBVIOUS
    <3>2. Behind(layer', wire', broken', Len(sent'), Len(sent') - todo', w'.count, k - k, from, nonce)
      BY <1>1, <1>8, <2>1, <2>2, <3>1, TakenRow
    <3> QED
      BY <3>1, <3>2
  <2>19. SealedAhead'
    <3>1. Len(delivered') + Len(r'.buf) = from /\ w'.init
      BY <1>3, <1>4, <2>2, <2>3, <2>15, <2>16
    <3> QED
      BY <2>11, <2>18, <3>1 DEF SealedAhead, Ahead
  <2> QED
    BY <1>1, <2>8, <2>15, <2>17, <2>19, SealedKeeps
<1> QED
  BY <1>6, <1>7, <1>8, ReadAEADDataIs

\* A Read that hands out all it has read.
LEMMA ReturnedPassing ==
  ASSUME Types, Passing, NEW v, Follows(v), Return(v), UNCHANGED writing, r'.buf = <<>>,
         w.init \/ wire' = <<>>, r'.count <= w.count
  PROVE  Passing'
<1>1. /\ delivered' \in Seq(Nat) /\ Len(delivered') = Len(delivered) + Len(v)
      /\ \A i \in 1..Len(delivered') : delivered'[i] = i
  BY Returned
<1>2. Len(r'.buf) = 0 /\ Len(delivered') \in Nat
  BY <1>1
<1>3. Len(delivered') + Len(r'.buf) <= Len(sent')
  <2>1. PICK x \in Nat : x = Len(delivered')
    BY <1>1
  <2>2. x <= Len(sent')
    BY <1>1, <2>1 DEF Follows, writing
  <2>3. x + 0 <= Len(sent')
    BY <2>2
  <2> QED
    BY <1>2, <2>1, <2>3
<1>4. \A i \in 1..Len(r'.buf) : r'.buf[i] = Len(delivered') + i
  BY <1>2
<1> QED
  BY <1>1, <1>3, <1>4 DEF Passing, writing

\* A reader of the stream cipher layer that keeps its side of the invariant.
LEMMA KeyKeeps ==
  ASSUME IInv, UNCHANGED writing, layer = "stream", Types', Passing', KeyAhead'
  PROVE  IInv'
<1>1. layer' = layer
  BY DEF writing
<1> QED
  BY <1>1 DEF IInv, SealedAhead, Plaintext, ServerAhead, RecordsAhead

\* An empty wire of a closed connection is the end of the stream.
LEMMA KeyEnd ==
  ASSUME IInv, layer = "stream", ~broken, closed, Len(wire) < 1
  PROVE  wire = <<>> /\ delivered = sent
<1>1. Types /\ Passing
  BY DEF IInv
<1>2. wire = <<>> /\ Len(wire) = 0
  BY <1>1, TypesAre, EmptySeq
<1>3. PICK lead \in 0..1 : lead = IF r.at = "first" /\ w.init THEN 1 ELSE 0
  OBVIOUS
<1>4. PICK d \in Nat, c \in Nat, z \in Nat : d = Len(delivered) /\ c = w.count /\ z = Len(sent)
  BY <1>1, TypesAre
<1>5. d + 0 = c + lead /\ c = z - todo /\ todo = 0
  BY <1>1, <1>2, <1>3, <1>4 DEF IInv, KeyAhead, Passing
<1>6. lead = 1 => d = 0
  <2>1. lead = 1 => delivered = <<>>
    BY <1>3 DEF IInv, KeyAhead
  <2> QED
    BY <1>4, <2>1
<1>7. d = z
  BY <1>5, <1>6
<1> QED
  BY <1>1, <1>2, <1>4, <1>7, AllRead

LEMMA ReadIVKeeps ==
  ASSUME IInv, ReadIV
  PROVE  IInv' /\ Received
<1>1. layer = "stream" /\ end = "none" /\ r.at = "first" /\ Types /\ Passing
  BY DEF ReadIV, SkipPrologue, IInv
<1>2. CASE GiveUp(1)
  BY <1>1, <1>2, KeyEnd, GaveUp
<1>3. CASE /\ Full(1) /\ Drop(1) /\ r' = [r EXCEPT !.at = "data"]
           /\ UNCHANGED <<writing, delivered, end>>
  <2>1. 1 <= Len(wire) /\ wire # <<>>
    BY <1>1, <1>3, TypesAre DEF Full
  <2>2. w.init
    BY <1>1, <2>1 DEF Passing
  <2>3. PICK d \in Nat, x \in Nat, c \in Nat : d = Len(delivered) /\ x = Len(wire) /\ c = w.count
    BY <1>1, TypesAre
  <2>4. /\ r.buf = <<>> /\ r.count = d /\ delivered = <<>>
        /\ w.count <= Len(sent) /\ (~broken => w.count = Len(sent) - todo)
        /\ d + x <= c + 1 /\ (~broken => d + x = c + 1)
    BY <1>1, <2>2, <2>3 DEF IInv, KeyAhead
  <2>5. \A i \in Nat \ {0} : 1 + i <= Len(wire) => wire[1 + i] = Token("byte", d + i, <<d + i>>)
    BY <1>1, <2>2, <2>3 DEF IInv, KeyAhead
  <2>6. /\ wire' \in Seq(Tokens) /\ w'.init = w.init /\ Len(wire') = x - 1
        /\ \A i \in Nat \ {0} : i <= Len(wire') => 1 + i <= Len(wire) /\ wire'[i] = wire[1 + i]
    BY <1>1, <1>3, <2>1, <2>3, Taken
  <2>7. r \in [at : ReadSteps, count : Nat, size : Nat, remain : Nat, buf : Seq(Nat)]
    BY <1>1 DEF Types
  <2>8. /\ r' \in [at : ReadSteps, count : Nat, size : Nat, remain : Nat, buf : Seq(Nat)]
        /\ r'.at = "data" /\ r'.count = r.count /\ r'.buf = r.buf
    BY <1>3, <2>7 DEF ReadSteps
  <2>9. Types'
    <3>1. delivered' \in Seq(Nat)
      BY <1>1, <1>3, TypesAre
    <3> QED
      BY <1>1, <1>3, <2>6, <2>8, <3>1, ReaderTypes
  <2>10. Passing'
    BY <1>1, <1>3, <2>2, <2>8, NothingReturned DEF Passing
  <2>11. KeyAhead'
    <3>1. d + (x - 1) <= c + 0 /\ (~broken => d + (x - 1) = c + 0)
      <4>1. d + x <= c + 1 /\ (~broken => d + x = c + 1)
        BY <2>4
      <4> QED
        BY <4>1
    <3>2. /\ Len(delivered') = d /\ Len(wire') = x - 1 /\ w'.count = c /\ broken' = broken
          /\ w'.init /\ sent' = sent /\ todo' = todo
      BY <1>3, <2>2, <2>3, <2>6 DEF writing
    <3>3. \A i \in Nat \ {0} : 0 + i <= Len(wire') =>
            wire'[0 + i] = Token("byte", d + i, <<d + i>>)
      <4> SUFFICES ASSUME NEW i \in Nat \ {0}, i <= Len(wire')
                   PROVE  wire'[i] = Token("byte", d + i, <<d + i>>)
        OBVIOUS
      <4> QED
        BY <2>5, <2>6
    <3>4. /\ Len(delivered') + Len(wire') <= w'.count + 0
          /\ ~broken' => Len(delivered') + Len(wire') = w'.count + 0
          /\ w'.count <= Len(sent') /\ (~broken' => w'.count = Len(sent') - todo')
          /\ r'.count = Len(delivered')
      BY <2>3, <2>4, <2>8, <3>1, <3>2
    <3>5. \A i \in Nat \ {0} : 0 + i <= Len(wire') =>
            wire'[0 + i] = Token("byte", Len(delivered') + i, <<Len(delivered') + i>>)
      BY <3>2, <3>3
    <3> QED
      BY <2>4, <2>8, <3>2, <3>4, <3>5 DEF KeyAhead
  <2>12. IInv'
    BY <1>1, <1>3, <2>9, <2>10, <2>11, KeyKeeps
  <2> QED
    BY <1>3, <2>12 DEF Received, Stream!vars, writing
<1> QED
  BY <1>2, <1>3 DEF ReadIV, SkipPrologue

LEMMA ReadStreamKeeps ==
  ASSUME IInv, ReadStream
  PROVE  IInv' /\ Received
<1>1. layer = "stream" /\ end = "none" /\ r.at = "data" /\ Types /\ Passing
  BY DEF ReadStream, IInv
<1>2. CASE GiveUp(1)
  BY <1>1, <1>2, KeyEnd, GaveUp
<1>3. CASE \E b \in Buffers : \E n \in Arrived(b) :
             /\ Drop(n) /\ Return([i \in 1..n |-> Decrypt(wire[i], r.count + i)])
             /\ r' = [r EXCEPT !.count = @ + n]
             /\ UNCHANGED <<writing, end>>
  <2>1. PICK d \in Nat, x \in Nat, c \in Nat, z \in Nat :
          d = Len(delivered) /\ x = Len(wire) /\ c = w.count /\ z = Len(sent)
    BY <1>1, TypesAre
  <2>19. PICK b \in Buffers : \E n \in Arrived(b) :
           /\ Drop(n) /\ Return([i \in 1..n |-> Decrypt(wire[i], r.count + i)])
           /\ r' = [r EXCEPT !.count = @ + n]
           /\ UNCHANGED <<writing, end>>
    BY <1>3
  <2>2. PICK n \in Arrived(b) :
          /\ Drop(n) /\ Return([i \in 1..n |-> Decrypt(wire[i], r.count + i)])
          /\ r' = [r EXCEPT !.count = @ + n]
          /\ UNCHANGED <<writing, end>>
    BY <2>19
  <2>3. n \in Nat \ {0} /\ n <= x
    <3>1. b \in Nat \ {0} /\ n \in 1..(IF b < x THEN b ELSE x)
      BY <2>1, TransportAssumption DEF Arrived
    <3> QED
      BY <3>1
  <2>4. /\ r.buf = <<>> /\ r.count = d /\ w.init
        /\ c <= z /\ (~broken => c = Len(sent) - todo)
        /\ d + x <= c + 0 /\ (~broken => d + x = c + 0)
    BY <1>1, <2>1 DEF IInv, KeyAhead
  <2>5. \A i \in Nat \ {0} : i <= x => wire[i] = Token("byte", d + i, <<d + i>>)
    <3> SUFFICES ASSUME NEW i \in Nat \ {0}, i <= x
                 PROVE  wire[i] = Token("byte", d + i, <<d + i>>)
      OBVIOUS
    <3>1. 0 + i = i
      OBVIOUS
    <3>2. wire[0 + i] = Token("byte", d + i, <<d + i>>)
      BY <1>1, <2>1, <3>1 DEF IInv, KeyAhead
    <3> QED
      BY <3>1, <3>2
  <2>6. \A i \in 1..n : Decrypt(wire[i], r.count + i) = d + i
    <3> SUFFICES ASSUME NEW i \in 1..n PROVE Decrypt(wire[i], d + i) = d + i
      BY <2>4
    <3>1. wire[i] = Token("byte", d + i, <<d + i>>)
      BY <2>3, <2>5
    <3>2. wire[i].at = <<d + i>> /\ wire[i].val = d + i
      BY <3>1 DEF Token
    <3> QED
      BY <3>2 DEF Decrypt
  <2>7. PICK v \in Seq(Nat) : v = Count(d, n) /\ Len(v) = n /\ \A i \in 1..n : v[i] = d + i
    BY <2>3, CountIs
  <2>8. Return(v)
    <3>1. [i \in 1..n |-> Decrypt(wire[i], r.count + i)] = v
      BY <2>6, <2>7 DEF Count
    <3> QED
      BY <2>2, <3>1
  <2>9. d + n <= c /\ d + n <= z /\ d + n \in Nat /\ (~broken => (d + n) + (x - n) = c + 0)
        /\ (d + n) + (x - n) <= c + 0
    <3>1. c <= z /\ d + x <= c + 0 /\ (~broken => d + x = c + 0)
      BY <2>4
    <3> QED
      BY <2>3, <3>1
  <2>10. Follows(v)
    BY <2>1, <2>7, <2>9 DEF Follows
  <2>11. /\ wire' \in Seq(Tokens) /\ w'.init = w.init /\ Len(wire') = x - n
         /\ \A i \in Nat \ {0} : i <= Len(wire') => n + i <= x /\ wire'[i] = wire[n + i]
    BY <1>1, <2>1, <2>2, <2>3, Taken
  <2>12. r \in [at : ReadSteps, count : Nat, size : Nat, remain : Nat, buf : Seq(Nat)]
    BY <1>1 DEF Types
  <2>13. /\ r' \in [at : ReadSteps, count : Nat, size : Nat, remain : Nat, buf : Seq(Nat)]
         /\ r'.at = "data" /\ r'.count = d + n /\ r'.buf = <<>>
    <3>1. r' = [r EXCEPT !.count = d + n]
      BY <2>2, <2>4
    <3>2. PICK y \in Nat : y = d + n
      BY <2>9
    <3> QED
      BY <1>1, <2>4, <2>12, <3>1, <3>2
  <2>14. /\ delivered' \in Seq(Nat) /\ Len(delivered') = d + n
    BY <1>1, <2>1, <2>7, <2>8, <2>10, Returned
  <2>15. Types'
    BY <1>1, <2>2, <2>11, <2>13, <2>14, ReaderTypes
  <2>16. Passing'
    <3>1. r'.count <= w.count
      BY <2>1, <2>9, <2>13
    <3> QED
      BY <1>1, <2>2, <2>4, <2>8, <2>10, <2>13, <3>1, ReturnedPassing
  <2>17. Received
    <3>1. Stream!Deliver
      <4>1. Len(v) > 0 /\ end' = "none"
        BY <1>1, <2>2, <2>3, <2>7
      <4> QED
        BY <1>1, <2>2, <2>8, <2>10, <4>1, ReturnDelivers
    <3> QED
      BY <3>1 DEF Received, Stream!Receive
  <2>18. KeyAhead'
    <3>1. /\ w'.count = c /\ broken' = broken /\ w'.init /\ sent' = sent /\ todo' = todo
      BY <2>1, <2>2, <2>4, <2>11 DEF writing
    <3>2. \A i \in Nat \ {0} : 0 + i <= Len(wire') =>
            wire'[0 + i] = Token("byte", Len(delivered') + i, <<Len(delivered') + i>>)
      <4> SUFFICES ASSUME NEW i \in Nat \ {0}, i <= Len(wire')
                   PROVE  wire'[i] = Token("byte", (d + n) + i, <<(d + n) + i>>)
        BY <2>14
      <4>1. n + i <= x /\ wire'[i] = wire[n + i] /\ n + i \in Nat \ {0}
        BY <2>3, <2>11
      <4>2. wire[n + i] = Token("byte", d + (n + i), <<d + (n + i)>>)
        BY <2>5, <4>1
      <4>3. d + (n + i) = (d + n) + i
        BY <2>3
      <4> QED
        BY <4>1, <4>2, <4>3
    <3>3. /\ Len(delivered') + Len(wire') <= w'.count + 0
          /\ ~broken' => Len(delivered') + Len(wire') = w'.count + 0
          /\ w'.count <= Len(sent') /\ (~broken' => w'.count = Len(sent') - todo')
          /\ r'.count = Len(delivered')
      BY <2>1, <2>4, <2>9, <2>11, <2>13, <2>14, <3>1
    <3> QED
      BY <2>13, <3>1, <3>2, <3>3 DEF KeyAhead
  <2> QED
    BY <1>1, <2>2, <2>15, <2>16, <2>17, <2>18, KeyKeeps
<1> QED
  BY <1>2, <1>3 DEF ReadStream

\* A reader of the TLS layer that keeps its side of the invariant.
LEMMA RecordsKeep ==
  ASSUME IInv, UNCHANGED writing, layer = "tlsDown", Types', Passing', RecordsAhead',
         r'.count = r.count, r'.buf = r.buf
  PROVE  IInv'
<1>1. layer' = layer /\ w' = w /\ broken' = broken /\ sent' = sent /\ todo' = todo
  BY DEF writing
<1>2. Plaintext'
  BY <1>1 DEF IInv, Plaintext
<1> QED
  BY <1>1, <1>2 DEF IInv, KeyAhead, SealedAhead, ServerAhead

LEMMA ReadTLSHeaderKeeps ==
  ASSUME IInv, ReadTLSHeader
  PROVE  IInv' /\ Received
<1>1. /\ layer = "tlsDown" /\ end = "none" /\ r.at \in {"first", "head"} /\ r.remain = 0
      /\ Types /\ Passing
  BY DEF ReadTLSHeader, IInv
<1>2. /\ wire \in Seq(Tokens) /\ Len(wire) \in Nat /\ broken \in BOOLEAN /\ Len(sent) \in Nat
      /\ w.count \in Nat /\ 0 \in Nat
  BY <1>1, TypesAre
<1>3. PICK d \in Nat : d = Len(delivered) /\ d + 0 = d
  BY <1>1, TypesAre
<1>4. PICK k \in Nat \ {0} : k = IF r.at = "first" THEN FirstHeader ELSE Header
  BY TransportAssumption
<1>5. ~Lost => /\ Behind(layer, wire, broken, Len(sent), Len(sent) - todo, w.count, 0, d, 0)
               /\ k = HeadLen(d)
  <2> SUFFICES ASSUME ~Lost
               PROVE  /\ Behind(layer, wire, broken, Len(sent), Len(sent) - todo, w.count, 0, d, 0)
                      /\ k = HeadLen(d)
    OBVIOUS
  <2>1. CASE r.at = "first"
    <3>1. delivered = <<>> /\ Ahead(0, 0, 0)
      BY <1>1, <2>1 DEF IInv, RecordsAhead
    <3>2. d = 0
      BY <1>3, <3>1
    <3> QED
      BY <1>4, <2>1, <3>1, <3>2 DEF Ahead, HeadLen
  <2>2. CASE r.at = "head"
    <3>1. Len(delivered) + r.remain > 0 /\ Ahead(r.remain, Len(delivered) + r.remain, 0)
      BY <1>1, <2>2 DEF IInv, RecordsAhead
    <3>2. d # 0 /\ Behind(layer, wire, broken, Len(sent), Len(sent) - todo, w.count, 0, d, 0)
      BY <1>1, <1>3, <3>1 DEF Ahead
    <3> QED
      BY <1>4, <2>2, <3>2 DEF HeadLen
  <2> QED
    BY <1>1, <2>1, <2>2
<1>6. CASE GiveUp(k)
  <2>1. ~broken /\ closed /\ Len(wire) < k => wire = <<>> /\ delivered = sent
    <3> SUFFICES ASSUME ~broken, closed, Len(wire) < k PROVE wire = <<>> /\ delivered = sent
      OBVIOUS
    <3>1. /\ Behind(layer, wire, broken, Len(sent), Len(sent) - todo, w.count, 0, d, 0)
          /\ k = HeadLen(d)
      BY <1>5 DEF Lost
    <3>2. ASSUME NEW n \in Nat \ {0} PROVE Len(wire) < FrameLen(layer, d, n)
      <4>1. FrameLen(layer, d, n) = k + 1 + n + 0
        BY <1>1, <3>1 DEF FrameLen, TailLen
      <4>2. Len(wire) < k + 1 + n + 0
        BY <1>2
      <4> QED
        BY <4>1, <4>2
    <3> QED
      BY <1>1, <1>2, <1>3, <3>1, <3>2, RowEnd
  <2> QED
    BY <1>1, <1>6, <2>1, GaveUp
<1>7. CASE /\ Full(k) /\ Drop(k)
           /\ r' = [r EXCEPT !.at = "size"]
           /\ UNCHANGED <<writing, delivered, end>>
  <2>1. k <= Len(wire) /\ Len(wire) > 0 /\ wire # <<>>
    BY <1>2, <1>7 DEF Full
  <2>2. w.init
    BY <1>1, <2>1 DEF Passing
  <2>3. /\ Splits(layer, wire, broken, Len(sent), Len(sent) - todo, w.count, 0, d, 0)
        /\ k = HeadLen(d)
    BY <1>2, <1>5, <2>1, BehindNext DEF Lost
  <2>4. PICK n \in Nat \ {0} :
          /\ d + n <= Len(sent) /\ Starts(layer, wire, broken, 0, d, 0, n)
          /\ Behind(layer, wire, broken, Len(sent), Len(sent) - todo, w.count,
                    0 + FrameLen(layer, d, n), d + n, 0 + Nonces(layer, 1))
    BY <2>3 DEF Splits
  <2>5. PICK start \in Nat, from \in Nat :
          start = k + 1 + n /\ from = d + n /\ start - k = n + 1 /\ k <= start
    OBVIOUS
  <2>6. FrameLen(layer, d, n) = start /\ Nonces(layer, 1) = 0
    BY <1>1, <2>3, <2>5 DEF FrameLen, TailLen, Nonces
  <2>7. Behind(layer, wire, broken, Len(sent), Len(sent) - todo, w.count, start, from, 0)
    BY <2>4, <2>5, <2>6
  <2>8. \A j \in Nat \ {0} : j <= start /\ j <= Len(wire) => wire[j] = Record(d, n, j)
    <3> SUFFICES ASSUME NEW j \in Nat \ {0}, j <= start, j <= Len(wire)
                 PROVE  wire[j] = Record(d, n, j)
      OBVIOUS
    <3>1. 0 + j = j
      OBVIOUS
    <3>2. wire[0 + j] = Part(layer, 0, d, n, j)
      BY <2>4, <2>6, <3>1 DEF Starts
    <3> QED
      BY <1>1, <3>1, <3>2 DEF Part
  <2>9. /\ wire' \in Seq(Tokens) /\ Len(wire') \in Nat
        /\ \A i \in Nat \ {0} : i <= Len(wire') => k + i <= Len(wire) /\ wire'[i] = wire[k + i]
        /\ w'.init = w.init
    BY <1>1, <1>7, <2>1, Taken
  <2>10. Behind(layer', wire', broken', Len(sent'), Len(sent') - todo', w'.count, n + 1, from, 0)
    <3>1. Behind(layer', wire', broken', Len(sent'), Len(sent') - todo', w'.count, start - k, from, 0)
      BY <1>1, <1>2, <1>7, <2>1, <2>5, <2>7, TakenRow
    <3> QED
      BY <2>5, <3>1
  <2>11. wire' # <<>> => wire'[1] = Token("size", n, <<>>)
    <3> SUFFICES ASSUME wire' # <<>> PROVE wire'[1] = Token("size", n, <<>>)
      OBVIOUS
    <3>1. 1 <= Len(wire')
      BY <2>9, EmptySeq
    <3>2. k + 1 <= Len(wire) /\ wire'[1] = wire[k + 1] /\ k + 1 <= start /\ k + 1 \in Nat \ {0}
      BY <2>5, <2>9, <3>1
    <3>3. wire[k + 1] = Record(d, n, k + 1)
      BY <2>8, <3>2
    <3>4. ~(k + 1 <= k)
      OBVIOUS
    <3> QED
      BY <2>3, <3>2, <3>3, <3>4 DEF Record
  <2>12. ASSUME NEW i \in Nat \ {0}, i <= n, 1 + i <= Len(wire')
         PROVE  wire'[1 + i] = Token("byte", d + i, <<>>)
    <3>1. PICK j \in Nat \ {0} : j = k + (1 + i) /\ j <= start /\ j - (k + 1) = i
      <4>1. k + (1 + i) \in Nat \ {0} /\ k + (1 + i) <= start /\ (k + (1 + i)) - (k + 1) = i
        BY <2>5, <2>12
      <4> QED
        BY <4>1
    <3>2. j <= Len(wire) /\ wire'[1 + i] = wire[j]
      BY <2>9, <2>12, <3>1
    <3>3. wire[j] = Record(d, n, j)
      BY <2>8, <3>1, <3>2
    <3>4. ~(j <= k) /\ j # k + 1 /\ j <= k + 1 + n
      BY <2>5, <3>1
    <3>5. Record(d, n, j) = Token("byte", d + (j - (k + 1)), <<>>)
      BY <2>3, <3>4 DEF Record
    <3> QED
      BY <3>1, <3>2, <3>3, <3>5
  <2>13. r \in [at : ReadSteps, count : Nat, size : Nat, remain : Nat, buf : Seq(Nat)]
    BY <1>1 DEF Types
  <2>14. /\ r' \in [at : ReadSteps, count : Nat, size : Nat, remain : Nat, buf : Seq(Nat)]
         /\ r'.at = "size" /\ r'.count = r.count /\ r'.buf = r.buf /\ r'.remain = r.remain
    BY <1>7, <2>13 DEF ReadSteps
  <2>15. Types'
    <3>1. delivered' \in Seq(Nat)
      BY <1>1, <1>7, TypesAre
    <3> QED
      BY <1>1, <1>7, <2>9, <2>14, <3>1, ReaderTypes
  <2>16. Passing'
    BY <1>1, <1>7, <2>2, <2>14, NothingReturned DEF Passing
  <2>17. RecordsAhead'
    <3>1. Owed(n, 1)'
      BY <1>3, <1>7, <2>12 DEF Owed
    <3>2. Ahead(n + 1, Len(delivered) + n, 0)'
      BY <1>3, <1>7, <2>5, <2>10 DEF Ahead
    <3> QED
      BY <1>1, <2>11, <2>14, <3>1, <3>2 DEF RecordsAhead
  <2>18. IInv'
    BY <1>1, <1>7, <2>14, <2>15, <2>16, <2>17, RecordsKeep
  <2> QED
    BY <1>7, <2>18 DEF Received, Stream!vars, writing
<1> QED
  BY <1>4, <1>6, <1>7 DEF ReadTLSHeader

LEMMA ReadTLSSizeKeeps ==
  ASSUME IInv, ReadTLSSize
  PROVE  IInv' /\ Received
<1>1. /\ layer = "tlsDown" /\ end = "none" /\ r.at = "size" /\ UNCHANGED <<writing, delivered, end>>
      /\ Types /\ Passing
  BY DEF ReadTLSSize, IInv
<1>2. /\ wire \in Seq(Tokens) /\ Len(wire) \in Nat /\ broken \in BOOLEAN /\ Len(sent) \in Nat
      /\ w.count \in Nat /\ 0 \in Nat /\ delivered \in Seq(Nat)
  BY <1>1, TypesAre
<1>3. PICK d \in Nat : d = Len(delivered)
  BY <1>1, TypesAre
<1>4. r.remain = 0
  BY <1>1 DEF IInv, RecordsAhead
<1>5. ~Lost => \E n \in Nat \ {0} :
        /\ wire # <<>> => wire[1] = Token("size", n, <<>>)
        /\ Owed(n, 1) /\ Ahead(n + 1, Len(delivered) + n, 0)
  BY <1>1 DEF IInv, RecordsAhead
<1>6. r \in [at : ReadSteps, count : Nat, size : Nat, remain : Nat, buf : Seq(Nat)]
  BY <1>1 DEF Types
<1>7. CASE Full(1) /\ Drop(1) /\ r' = [r EXCEPT !.at = "data", !.size = wire[1].val]
  <2>1. 1 <= Len(wire) /\ wire # <<>>
    BY <1>2, <1>7 DEF Full
  <2>2. PICK n \in Nat \ {0} :
          /\ wire[1] = Token("size", n, <<>>)
          /\ Owed(n, 1) /\ Ahead(n + 1, Len(delivered) + n, 0)
    BY <1>5, <2>1 DEF Lost
  <2>3. w.init
    BY <1>1, <2>1 DEF Passing
  <2>4. PICK start \in Nat, from \in Nat :
          start = n + 1 /\ from = d + n /\ 1 <= start /\ start - 1 = n
    OBVIOUS
  <2>5. Behind(layer, wire, broken, Len(sent), Len(sent) - todo, w.count, start, from, 0)
    BY <1>3, <2>2, <2>4 DEF Ahead
  <2>6. /\ wire' \in Seq(Tokens) /\ Len(wire') \in Nat
        /\ \A i \in Nat \ {0} : i <= Len(wire') => 1 + i <= Len(wire) /\ wire'[i] = wire[1 + i]
        /\ w'.init = w.init
    BY <1>1, <1>7, <2>1, Taken
  <2>7. Behind(layer', wire', broken', Len(sent'), Len(sent') - todo', w'.count, n, from, 0)
    <3>1. 1 \in Nat
      OBVIOUS
    <3>2. Behind(layer', wire', broken', Len(sent'), Len(sent') - todo', w'.count, start - 1, from, 0)
      BY <1>1, <1>2, <1>7, <2>1, <2>4, <2>5, <3>1, TakenRow
    <3> QED
      BY <2>4, <3>2
  <2>8. wire[1].val = n
    BY <2>2 DEF Token
  <2>9. r' = [r EXCEPT !.at = "data", !.size = n]
    BY <1>7, <2>8
  <2>10. /\ r' \in [at : ReadSteps, count : Nat, size : Nat, remain : Nat, buf : Seq(Nat)]
         /\ r'.at = "data" /\ r'.count = r.count /\ r'.buf = r.buf /\ r'.remain = r.remain /\ r'.size = n
    BY <1>6, <2>9 DEF ReadSteps
  <2>11. Types'
    BY <1>1, <1>2, <2>6, <2>10, ReaderTypes
  <2>12. Passing'
    BY <1>1, <2>3, <2>10, NothingReturned DEF Passing
  <2>13. Owed(r.size, 0)'
    <3>1. ASSUME NEW i \in Nat \ {0}, i <= n, 0 + i <= Len(wire')
          PROVE  wire'[0 + i] = Token("byte", d + i, <<>>)
      <4>1. i <= Len(wire') /\ 0 + i = i
        BY <3>1
      <4>2. 1 + i <= Len(wire) /\ wire'[i] = wire[1 + i]
        BY <2>6, <4>1
      <4>3. wire[1 + i] = Token("byte", d + i, <<>>)
        BY <1>3, <2>2, <3>1, <4>2 DEF Owed
      <4> QED
        BY <4>1, <4>2, <4>3
    <3>2. Len(delivered') = d
      BY <1>1, <1>3
    <3> QED
      BY <2>10, <3>1, <3>2 DEF Owed
  <2>14. Ahead(r.size, Len(delivered) + r.size, 0)'
    <3>1. Len(delivered') + r'.size = from
      BY <1>1, <1>3, <2>4, <2>10
    <3> QED
      BY <2>7, <2>10, <3>1 DEF Ahead
  <2>15. RecordsAhead'
    BY <1>4, <2>10, <2>13, <2>14 DEF RecordsAhead
  <2>16. IInv'
    BY <1>1, <2>10, <2>11, <2>12, <2>15, RecordsKeep
  <2> QED
    BY <1>1, <2>16 DEF Received, Stream!vars, writing
<1>8. CASE Short(1) /\ r' = [r EXCEPT !.at = "head"] /\ UNCHANGED wire
  <2>1. Lost
    <3>1. Len(wire) < 1 /\ wire = <<>>
      BY <1>2, <1>8, EmptySeq DEF Short
    <3> SUFFICES ASSUME ~broken PROVE FALSE
      BY <3>1 DEF Lost
    <3>2. PICK n \in Nat \ {0} : Ahead(n + 1, Len(delivered) + n, 0)
      BY <1>5 DEF Lost
    <3>3. PICK start \in Nat, from \in Nat : start = n + 1 /\ from = d + n
      OBVIOUS
    <3>4. Bounds(wire, broken, Len(sent), Len(sent) - todo, w.count, start, from, 0)
      <4>1. Behind(layer, wire, broken, Len(sent), Len(sent) - todo, w.count, start, from, 0)
        BY <1>3, <3>2, <3>3 DEF Ahead
      <4> QED
        BY <1>2, <4>1, BehindEnds
    <3>5. start <= Len(wire)
      BY <3>4 DEF Bounds
    <3> QED
      BY <1>2, <3>1, <3>3, <3>5
  <2>2. /\ r' \in [at : ReadSteps, count : Nat, size : Nat, remain : Nat, buf : Seq(Nat)]
        /\ r'.at = "head" /\ r'.count = r.count /\ r'.buf = r.buf /\ r'.remain = r.remain
    BY <1>6, <1>8 DEF ReadSteps
  <2>3. Types'
    BY <1>1, <1>2, <1>8, <2>2, ReaderTypes
  <2>4. Passing'
    BY <1>1, <1>8, <2>1, <2>2, NothingReturned DEF Passing, Lost
  <2>5. RecordsAhead'
    BY <1>1, <1>8, <2>1, <2>2 DEF RecordsAhead, Lost, writing
  <2>6. IInv'
    BY <1>1, <2>2, <2>3, <2>4, <2>5, RecordsKeep
  <2> QED
    BY <1>1, <2>6 DEF Received, Stream!vars, writing
<1> QED
  BY <1>7, <1>8 DEF ReadTLSSize

\* A read of m of the bytes that a record still has.
InRecord(remain) == Lost \/ (Owed(remain, 0) /\ Ahead(remain, Len(delivered) + remain, 0))
PartRead(remain, m) ==
  /\ layer = "tlsDown" /\ end = "none"
  /\ m <= remain /\ m <= Len(wire) /\ Drop(m) /\ Return(Bytes(m))
  /\ r' = [r EXCEPT !.at = "head", !.remain = remain - m]
  /\ end' = "none" \/ (broken /\ end' = "error")
  /\ m = 0 => end' = "error"
  /\ UNCHANGED writing
LEMMA ReadPart ==
  ASSUME IInv, NEW remain \in Nat \ {0}, InRecord(remain), NEW m \in Nat, PartRead(remain, m)
  PROVE  IInv' /\ Received
<1>0. /\ layer = "tlsDown" /\ end = "none" /\ m <= remain /\ m <= Len(wire)
      /\ end' = "none" \/ (broken /\ end' = "error")
      /\ m = 0 => end' = "error"
      /\ UNCHANGED writing
  BY DEF PartRead
<1>1. /\ Types /\ Passing /\ wire \in Seq(Tokens) /\ Len(wire) \in Nat /\ broken \in BOOLEAN
      /\ Len(sent) \in Nat /\ w.count \in Nat /\ 0 \in Nat
  BY TypesAre DEF IInv
<1>2. PICK d \in Nat : d = Len(delivered)
  BY <1>1, TypesAre
<1>3. PICK from \in Nat, left \in Nat : from = d + remain /\ left = remain - m
  BY <1>0
<1>4. Lost => m = 0
  <2>1. Lost => Len(wire) = 0
    BY DEF Lost
  <2> QED
    BY <1>0, <1>1, <2>1
<1>5. ~Lost => /\ Behind(layer, wire, broken, Len(sent), Len(sent) - todo, w.count, remain, from, 0)
               /\ \A i \in Nat \ {0} : i <= remain /\ i <= Len(wire) => wire[i] = Token("byte", d + i, <<>>)
  <2> SUFFICES ASSUME ~Lost
               PROVE  /\ Behind(layer, wire, broken, Len(sent), Len(sent) - todo, w.count, remain, from, 0)
                      /\ \A i \in Nat \ {0} : i <= remain /\ i <= Len(wire) => wire[i] = Token("byte", d + i, <<>>)
    OBVIOUS
  <2>1. Owed(remain, 0) /\ Ahead(remain, Len(delivered) + remain, 0)
    BY DEF InRecord
  <2>2. ASSUME NEW i \in Nat \ {0}, i <= remain, i <= Len(wire)
        PROVE  wire[i] = Token("byte", d + i, <<>>)
    <3>1. 0 + i = i
      OBVIOUS
    <3>2. wire[0 + i] = Token("byte", d + i, <<>>)
      BY <1>2, <2>1, <2>2, <3>1 DEF Owed
    <3> QED
      BY <3>1, <3>2
  <2> QED
    BY <1>2, <1>3, <2>1, <2>2 DEF Ahead
<1>6. PICK v \in Seq(Nat) : v = Count(d, m) /\ Len(v) = m /\ \A i \in 1..m : v[i] = d + i
  BY CountIs
<1>7. Bytes(m) = v
  <2>1. ASSUME NEW i \in 1..m PROVE wire[i].val = d + i
    <3>1. i \in Nat \ {0} /\ i <= m /\ m # 0
      OBVIOUS
    <3>2. i <= remain
      BY <1>0, <3>1
    <3>3. i <= Len(wire)
      BY <1>0, <1>1, <3>1
    <3>4. ~Lost
      BY <1>4, <3>1
    <3>5. wire[i] = Token("byte", d + i, <<>>)
      BY <1>5, <3>1, <3>2, <3>3, <3>4
    <3> QED
      BY <3>5 DEF Token
  <2> QED
    BY <1>6, <2>1 DEF Bytes, Count
<1>8. Return(v)
  BY <1>7 DEF PartRead
<1>9. Follows(v)
  <2>1. d + m <= Len(sent)
    <3>1. CASE Lost
      <4>1. m = 0 /\ d + Len(r.buf) <= Len(sent)
        BY <1>1, <1>2, <1>4, <3>1 DEF Passing
      <4>2. Len(r.buf) \in Nat
        BY <1>1, TypesAre
      <4> QED
        BY <1>1, <4>1, <4>2
    <3>2. CASE ~Lost
      <4>1. Bounds(wire, broken, Len(sent), Len(sent) - todo, w.count, remain, from, 0)
        BY <1>1, <1>5, <3>2, BehindEnds
      <4>2. PICK z \in Nat : z = Len(sent)
        BY <1>1
      <4>3. from <= z
        BY <4>1, <4>2 DEF Bounds
      <4>4. d + m <= z
        BY <1>0, <1>3, <4>3
      <4> QED
        BY <4>2, <4>4
    <3> QED
      BY <3>1, <3>2
  <2> QED
    BY <1>2, <1>6, <2>1 DEF Follows
<1>10. /\ wire' \in Seq(Tokens) /\ Len(wire') = Len(wire) - m /\ Len(wire') \in Nat
       /\ \A i \in Nat \ {0} : i <= Len(wire') => m + i <= Len(wire) /\ wire'[i] = wire[m + i]
       /\ w'.init = w.init /\ broken' = broken
  <2>1. Drop(m)
    BY DEF PartRead
  <2> QED
    BY <1>0, <1>1, <2>1, Taken
<1>11. r \in [at : ReadSteps, count : Nat, size : Nat, remain : Nat, buf : Seq(Nat)]
  BY <1>1 DEF Types
<1>12. r' = [r EXCEPT !.at = "head", !.remain = left]
  BY <1>3 DEF PartRead
<1>13. /\ r' \in [at : ReadSteps, count : Nat, size : Nat, remain : Nat, buf : Seq(Nat)]
       /\ r'.at = "head" /\ r'.count = r.count /\ r'.buf = r.buf /\ r'.remain = left
  BY <1>11, <1>12 DEF ReadSteps
<1>14. delivered' \in Seq(Nat) /\ Len(delivered') = d + m
  BY <1>1, <1>2, <1>6, <1>8, <1>9, Returned
<1>15. Types'
  BY <1>0, <1>1, <1>10, <1>13, <1>14, ReaderTypes
<1>16. Passing'
  <2>1. r.buf = <<>> /\ r.count <= w.count
    BY <1>0, <1>1 DEF IInv, Plaintext, Passing
  <2>2. w.init \/ wire' = <<>>
    <3>1. ~w.init => Len(wire) = 0
      BY <1>1 DEF Passing
    <3>2. PICK x \in Nat, y \in Nat : x = Len(wire) /\ y = Len(wire') /\ y = x - m /\ m <= x
      BY <1>0, <1>1, <1>10
    <3>3. x = 0 => y = 0
      BY <3>2
    <3>4. ~w.init => Len(wire') = 0
      BY <3>1, <3>2, <3>3
    <3> QED
      BY <1>10, <3>4, EmptySeq
  <2> QED
    BY <1>0, <1>1, <1>8, <1>9, <1>13, <2>1, <2>2, ReturnedPassing
<1>17. RecordsAhead'
  <2>1. CASE Lost
    <3>1. Len(wire') = 0
      <4>1. Len(wire) = 0
        BY <2>1 DEF Lost
      <4> QED
        BY <1>4, <1>10, <2>1, <4>1
    <3>2. wire' = <<>>
      BY <1>10, <3>1, EmptySeq
    <3>3. Lost'
      BY <1>10, <2>1, <3>2 DEF Lost
    <3> QED
      BY <1>13, <3>3 DEF RecordsAhead
  <2>2. CASE ~Lost
    <3>1. (d + m) + left = from /\ from > 0
      BY <1>3
    <3>2. Behind(layer', wire', broken', Len(sent'), Len(sent') - todo', w'.count, left, from, 0)
      <4>1. Behind(layer', wire', broken', Len(sent'), Len(sent') - todo', w'.count, remain - m, from, 0)
        <5>1. Drop(m)
          BY DEF PartRead
        <5> QED
          BY <1>0, <1>1, <1>5, <2>2, <5>1, TakenRow
      <4> QED
        BY <1>3, <4>1
    <3>3. ASSUME NEW i \in Nat \ {0}, i <= left, 0 + i <= Len(wire')
          PROVE  wire'[0 + i] = Token("byte", (d + m) + i, <<>>)
      <4>1. i <= Len(wire') /\ 0 + i = i
        BY <3>3
      <4>2. m + i <= Len(wire) /\ wire'[i] = wire[m + i]
        BY <1>10, <4>1
      <4>3. m + i \in Nat \ {0} /\ m + i <= remain /\ d + (m + i) = (d + m) + i
        <5>1. PICK q \in Nat \ {0} : q = i /\ q <= left
          BY <3>3
        <5>2. m + q \in Nat \ {0} /\ m + q <= remain /\ d + (m + q) = (d + m) + q
          BY <1>3, <5>1
        <5> QED
          BY <5>1, <5>2
      <4>4. wire[m + i] = Token("byte", d + (m + i), <<>>)
        BY <1>5, <2>2, <4>2, <4>3
      <4> QED
        BY <4>1, <4>2, <4>3, <4>4
    <3>4. Owed(r.remain, 0)' /\ Ahead(r.remain, Len(delivered) + r.remain, 0)'
      BY <1>13, <1>14, <3>1, <3>2, <3>3 DEF Owed, Ahead
    <3>5. Len(delivered') + r'.remain > 0
      BY <1>13, <1>14, <3>1
    <3> QED
      BY <1>13, <3>4, <3>5 DEF RecordsAhead
  <2> QED
    BY <2>1, <2>2
<1>18. IInv'
  BY <1>0, <1>13, <1>15, <1>16, <1>17, RecordsKeep
<1>19. Received
  <2>1. CASE m = 0
    <3>1. delivered' = delivered
      BY <1>1, <1>6, <1>8, <1>9, <2>1, ReturnedNone
    <3>2. Stream!Fail
      BY <1>0, <2>1, <3>1 DEF Stream!Fail, writing
    <3> QED
      BY <3>2 DEF Received, Stream!Receive
  <2>2. CASE m # 0
    <3>1. Stream!Deliver
      <4>1. Len(v) > 0
        BY <1>6, <2>2
      <4> QED
        BY <1>0, <1>1, <1>8, <1>9, <4>1, ReturnDelivers
    <3> QED
      BY <3>1 DEF Received, Stream!Receive
  <2> QED
    BY <2>1, <2>2
<1> QED
  BY <1>18, <1>19

\* Only a break can leave less of a record than it says.
LEMMA RecordThere ==
  ASSUME IInv, NEW remain \in Nat \ {0}, InRecord(remain), Len(wire) < remain
  PROVE  broken
<1> SUFFICES ASSUME ~broken PROVE FALSE
  OBVIOUS
<1>1. /\ wire \in Seq(Tokens) /\ Len(wire) \in Nat /\ broken \in BOOLEAN
      /\ Len(sent) \in Nat /\ w.count \in Nat /\ 0 \in Nat
  BY TypesAre DEF IInv
<1>2. PICK from \in Nat : from = Len(delivered) + remain
  <2>1. Len(delivered) \in Nat
    BY TypesAre DEF IInv
  <2> QED
    BY <2>1
<1>3. Behind(layer, wire, broken, Len(sent), Len(sent) - todo, w.count, remain, from, 0)
  BY <1>2 DEF InRecord, Lost, Ahead
<1>4. Bounds(wire, broken, Len(sent), Len(sent) - todo, w.count, remain, from, 0)
  BY <1>1, <1>3, BehindEnds
<1>5. remain <= Len(wire)
  BY <1>4 DEF Bounds
<1> QED
  BY <1>1, <1>5

LEMMA ReadIntoKeeps ==
  ASSUME IInv, layer = "tlsDown", end = "none", NEW remain \in Nat \ {0}, InRecord(remain),
         NEW n \in Nat \ {0}, n <= remain, ReadInto(n, remain)
  PROVE  IInv' /\ Received
<1>1. Len(wire) \in Nat
  BY TypesAre DEF IInv
<1>2. PICK x \in Nat : x = Len(wire)
  BY <1>1
<1>3. CASE Full(n)
  <2>1. n <= Len(wire)
    BY <1>1, <1>3 DEF Full
  <2>2. /\ Drop(n) /\ Return(Bytes(n)) /\ end' = "none" /\ UNCHANGED writing
        /\ r' = [r EXCEPT !.at = "head", !.remain = remain - n]
    BY <1>3 DEF ReadInto
  <2>3. PartRead(remain, n)
    BY <2>1, <2>2 DEF PartRead
  <2> QED
    BY <2>3, ReadPart
<1>4. CASE ~Full(n)
  <2>1. x < n
    BY <1>2, <1>4 DEF Full
  <2>2. x <= remain /\ x < remain
    BY <2>1
  <2>3. broken
    BY <1>2, <2>2, RecordThere
  <2>4. /\ Drop(x) /\ Return(Bytes(x)) /\ end' = Ended(n) /\ UNCHANGED writing
        /\ r' = [r EXCEPT !.at = "head", !.remain = remain - x]
    BY <1>2, <1>4 DEF ReadInto
  <2>5. end' = "error"
    BY <2>3, <2>4 DEF Ended
  <2>6. x <= Len(wire)
    BY <1>2
  <2>7. PartRead(remain, x)
    BY <2>2, <2>3, <2>4, <2>5, <2>6 DEF PartRead
  <2> QED
    BY <2>7, ReadPart
<1> QED
  BY <1>3, <1>4

\* The cases of a Read at the data of a record.
PartOfRecord(n) ==
  /\ Drop(n) /\ Return(Bytes(n))
  /\ r' = [r EXCEPT !.at = "head", !.remain = Left(r.size, n)]
  /\ UNCHANGED <<writing, end>>
ReadOfRecord(b) ==
  \/ r.size > b /\ \E n \in Arrived(b) : PartOfRecord(n)
  \/ GiveUp(1)
  \/ ReadInto(r.size, r.size)
LEMMA ReadTLSDataIs ==
  ASSUME ReadTLSData
  PROVE  layer = "tlsDown" /\ end = "none" /\ r.at = "data" /\ \E b \in Buffers : ReadOfRecord(b)
BY Zenon DEF ReadTLSData, ReadOfRecord, PartOfRecord

LEMMA ReadTLSDataKeeps ==
  ASSUME IInv, ReadTLSData
  PROVE  IInv' /\ Received
<1>1. /\ layer = "tlsDown" /\ end = "none" /\ r.at = "data" /\ Types
  BY ReadTLSDataIs DEF IInv
<1>2. PICK b \in Buffers : ReadOfRecord(b)
  BY ReadTLSDataIs
<1>3. PICK z \in Nat \ {0} : z = r.size
  <2>1. r.size > 0
    BY <1>1 DEF IInv, RecordsAhead
  <2>2. r.size \in Nat
    BY <1>1 DEF Types, TypeOK
  <2> QED
    BY <2>1, <2>2
<1>4. InRecord(z)
  BY <1>1, <1>3 DEF IInv, RecordsAhead, InRecord
<1>5. b \in Nat \ {0}
  BY TransportAssumption
<1>6. PICK x \in Nat : x = Len(wire)
  BY <1>1, TypesAre
<1>7. ASSUME z > b, NEW n \in Arrived(b), PartOfRecord(n)
      PROVE  IInv' /\ Received
  <2>1. n \in Nat \ {0} /\ n <= z /\ n <= x
    <3>1. n \in 1..(IF b < x THEN b ELSE x)
      BY <1>6, <1>7 DEF Arrived
    <3> QED
      BY <1>5, <1>7, <3>1
  <2>2. PartRead(z, n)
    BY <1>1, <1>3, <1>6, <1>7, <2>1 DEF PartRead, PartOfRecord, Left
  <2>3. n \in Nat
    BY <2>1
  <2> QED
    BY <1>4, <2>2, <2>3, ReadPart
<1>8. ASSUME GiveUp(1) PROVE IInv' /\ Received
  <2>1. Len(wire) < 1 => broken
    <3>1. x < 1 => x < z
      OBVIOUS
    <3> QED
      BY <1>4, <1>6, <3>1, RecordThere
  <2>2. 1 \in Nat
    OBVIOUS
  <2> QED
    BY <1>1, <1>8, <2>1, <2>2, GaveUp
<1>9. ASSUME ReadInto(z, z) PROVE IInv' /\ Received
  <2>1. z <= z
    OBVIOUS
  <2> QED
    BY <1>1, <1>4, <1>9, <2>1, ReadIntoKeeps
<1> QED
  BY <1>2, <1>3, <1>7, <1>8, <1>9 DEF ReadOfRecord

LEMMA ReadTLSRemainKeeps ==
  ASSUME IInv, ReadTLSRemain
  PROVE  IInv' /\ Received
<1>1. /\ layer = "tlsDown" /\ end = "none" /\ r.at = "head" /\ r.remain > 0 /\ Types
  BY DEF ReadTLSRemain, IInv
<1>2. PICK b \in Buffers : ReadInto(IF r.remain > b THEN b ELSE r.remain, r.remain)
  BY DEF ReadTLSRemain
<1>3. PICK z \in Nat \ {0} : z = r.remain
  <2>1. r.remain \in Nat
    BY <1>1 DEF Types, TypeOK
  <2> QED
    BY <1>1, <2>1
<1>4. InRecord(z)
  BY <1>1, <1>3 DEF IInv, RecordsAhead, InRecord
<1>5. b \in Nat \ {0}
  BY TransportAssumption
<1>6. PICK n \in Nat \ {0} : n = (IF z > b THEN b ELSE z) /\ n <= z
  BY <1>5
<1>7. ReadInto(n, z)
  BY <1>2, <1>3, <1>6
<1> QED
  BY <1>1, <1>4, <1>6, <1>7, ReadIntoKeeps

\* The server of the upward direction: a reader of whole frames.
LEMMA ServerKeep ==
  ASSUME IInv, UNCHANGED writing, layer = "tlsUp", Types', Passing', ServerAhead',
         r'.count = r.count, r'.buf = r.buf
  PROVE  IInv'
<1>1. layer' = layer
  BY DEF writing
<1>2. Plaintext'
  BY DEF IInv, Plaintext, writing
<1> QED
  BY <1>1, <1>2 DEF IInv, KeyAhead, SealedAhead, RecordsAhead

\* The frame at the front of the wire.
Fronts(d, n) ==
  /\ ~broken => FrameLen(layer, d, n) <= Len(wire)
  /\ \A j \in Nat \ {0} : j <= FrameLen(layer, d, n) /\ j <= Len(wire) => wire[j] = Record(d, n, j)
  /\ Behind(layer, wire, broken, Len(sent), Len(sent) - todo, w.count, FrameLen(layer, d, n), d + n, 0)
LEMMA ServerFront ==
  ASSUME IInv, layer = "tlsUp", NEW d \in Nat, d = Len(delivered), Len(wire) > 0
  PROVE  \E n \in Nat \ {0} : d + n <= Len(sent) /\ Fronts(d, n)
<1>1. /\ wire \in Seq(Tokens) /\ Len(wire) \in Nat /\ broken \in BOOLEAN /\ Len(sent) \in Nat
      /\ w.count \in Nat /\ 0 \in Nat
  BY TypesAre DEF IInv
<1>2. ~Lost
  BY DEF Lost
<1>3. Behind(layer, wire, broken, Len(sent), Len(sent) - todo, w.count, 0, d, 0)
  BY <1>2 DEF IInv, ServerAhead, Ahead
<1>4. Splits(layer, wire, broken, Len(sent), Len(sent) - todo, w.count, 0, d, 0)
  BY <1>1, <1>3, BehindNext
<1>5. PICK n \in Nat \ {0} :
        /\ d + n <= Len(sent) /\ Starts(layer, wire, broken, 0, d, 0, n)
        /\ Behind(layer, wire, broken, Len(sent), Len(sent) - todo, w.count,
                  0 + FrameLen(layer, d, n), d + n, 0 + Nonces(layer, 1))
  BY <1>4 DEF Splits
<1>6. PICK q \in Nat : q = FrameLen(layer, d, n) /\ 0 + q = q
  BY FrameSize
<1>7. 0 + Nonces(layer, 1) = 0
  BY DEF Nonces
<1>8. ASSUME NEW j \in Nat \ {0}, j <= q, j <= Len(wire)
      PROVE  wire[j] = Record(d, n, j)
  <2>1. 0 + j = j
    OBVIOUS
  <2>2. wire[0 + j] = Part(layer, 0, d, n, j)
    BY <1>5, <1>6, <1>8, <2>1 DEF Starts
  <2> QED
    BY <2>1, <2>2 DEF Part
<1>9. ~broken => q <= Len(wire)
  BY <1>5, <1>6 DEF Starts
<1>10. Fronts(d, n)
  BY <1>5, <1>6, <1>7, <1>8, <1>9 DEF Fronts
<1> QED
  BY <1>5, <1>10

LEMMA ServerReadKeeps ==
  ASSUME IInv, ServerRead
  PROVE  IInv' /\ Received
<1>1. layer = "tlsUp" /\ end = "none" /\ Types /\ Passing
  BY DEF ServerRead, IInv
<1>2. /\ wire \in Seq(Tokens) /\ Len(wire) \in Nat /\ broken \in BOOLEAN /\ Len(sent) \in Nat
      /\ w.count \in Nat /\ 0 \in Nat
  BY <1>1, TypesAre
<1>3. PICK d \in Nat : d = Len(delivered)
  BY <1>1, TypesAre
<1>4. PICK x \in Nat : x = Len(wire)
  BY <1>2
<1>5. d = 0 <=> r.at = "first"
  <2>1. delivered \in Seq(Nat)
    BY <1>1, TypesAre
  <2>2. delivered = <<>> <=> d = 0
    BY <1>3, <2>1, EmptySeq
  <2> QED
    BY <1>1, <2>2 DEF IInv, ServerAhead
<1>6. PICK h \in Nat \ {0}, t \in Nat :
        /\ h = IF r.at = "first" THEN FirstHeader ELSE Header
        /\ t = IF r.at = "first" THEN 1 ELSE 0
  BY TransportAssumption
<1>7. h = HeadLen(d) /\ t = TailLen(layer, d)
  BY <1>1, <1>5, <1>6 DEF HeadLen, TailLen
<1>8. PICK n0 \in Nat : n0 = IF Full(h + 1) THEN wire[h + 1].val ELSE 0
  <2>1. ASSUME Full(h + 1) PROVE wire[h + 1].val \in Nat
    <3>1. h + 1 \in 1..Len(wire)
      BY <1>2, <2>1 DEF Full
    <3>2. wire[h + 1] \in Tokens
      BY <1>2, <3>1
    <3> QED
      BY <3>2 DEF Tokens
  <2> QED
    BY <2>1
<1>9. ASSUME NEW n \in Nat \ {0}, Fronts(d, n), h + 1 <= x
      PROVE  n0 = n
  <2>1. FrameLen(layer, d, n) = h + 1 + n + t
    BY <1>1, <1>7 DEF FrameLen
  <2>2. h + 1 \in Nat \ {0} /\ h + 1 <= h + 1 + n + t /\ ~(h + 1 <= h)
    OBVIOUS
  <2>3. wire[h + 1] = Record(d, n, h + 1)
    BY <1>4, <1>9, <2>1, <2>2 DEF Fronts
  <2>4. wire[h + 1] = Token("size", n, <<>>)
    BY <1>7, <2>2, <2>3 DEF Record
  <2>5. Full(h + 1)
    BY <1>4, <1>9 DEF Full
  <2> QED
    BY <1>8, <2>4, <2>5 DEF Token
<1>10. CASE GiveUp(h + 1 + n0 + t)
  <2>1. PICK k \in Nat : k = h + 1 + n0 + t
    OBVIOUS
  <2>2. ~broken /\ closed /\ Len(wire) < k => wire = <<>> /\ delivered = sent
    <3> SUFFICES ASSUME ~broken, closed, Len(wire) < k PROVE wire = <<>> /\ delivered = sent
      OBVIOUS
    <3>1. x = 0
      <4> SUFFICES ASSUME x > 0 PROVE FALSE
        OBVIOUS
      <4>1. PICK n \in Nat \ {0} : Fronts(d, n)
        BY <1>1, <1>3, <1>4, ServerFront
      <4>2. FrameLen(layer, d, n) = h + 1 + n + t
        BY <1>1, <1>7 DEF FrameLen
      <4>3. h + 1 + n + t <= x
        BY <1>4, <4>1, <4>2 DEF Fronts
      <4>4. h + 1 <= x
        BY <4>3
      <4>5. n0 = n
        BY <1>9, <4>1, <4>4
      <4>6. x < k
        BY <1>4
      <4> QED
        BY <2>1, <4>3, <4>5, <4>6
    <3>2. Behind(layer, wire, broken, Len(sent), Len(sent) - todo, w.count, 0, d, 0)
      BY <1>1, <1>3 DEF IInv, ServerAhead, Ahead, Lost
    <3>3. ASSUME NEW n \in Nat \ {0} PROVE Len(wire) < FrameLen(layer, d, n)
      <4>1. n \in Nat /\ n > 0
        OBVIOUS
      <4>2. PICK q \in Nat : q = FrameLen(layer, d, n) /\ q > n
        BY <4>1, FrameSize
      <4> QED
        BY <1>4, <3>1, <4>1, <4>2
    <3> QED
      BY <1>1, <1>2, <1>3, <3>2, <3>3, RowEnd
  <2> QED
    BY <1>1, <1>10, <2>1, <2>2, GaveUp
<1>11. CASE /\ Full(h + 1) /\ Full(h + 1 + n0 + t) /\ Drop(h + 1 + n0 + t)
            /\ Return([i \in 1..n0 |-> wire[h + 1 + i].val])
            /\ r' = [r EXCEPT !.at = "head"]
            /\ UNCHANGED <<writing, end>>
  <2>1. PICK q \in Nat : q = h + 1 + n0 + t /\ q <= x /\ h + 1 <= x /\ x > 0
    BY <1>4, <1>11 DEF Full
  <2>2. w.init
    BY <1>1, <1>4, <2>1 DEF Passing
  <2>3. PICK n \in Nat \ {0} : d + n <= Len(sent) /\ Fronts(d, n)
    BY <1>1, <1>3, <1>4, <2>1, ServerFront
  <2>4. n0 = n
    BY <1>9, <2>1, <2>3
  <2>5. FrameLen(layer, d, n) = q
    BY <1>1, <1>7, <2>1, <2>4 DEF FrameLen
  <2>6. PICK v \in Seq(Nat) : v = Count(d, n) /\ Len(v) = n /\ \A i \in 1..n : v[i] = d + i
    BY CountIs
  <2>7. Return(v)
    <3>1. ASSUME NEW i \in 1..n PROVE wire[h + 1 + i].val = d + i
      <4>1. PICK j \in Nat \ {0} : j = h + 1 + i /\ j - (h + 1) = i
        OBVIOUS
      <4>2. j <= q /\ j <= x
        BY <2>1, <2>4, <4>1
      <4>3. ~(j <= h) /\ j # h + 1 /\ j <= h + 1 + n
        BY <4>1
      <4>4. wire[j] = Record(d, n, j)
        BY <1>4, <2>3, <2>5, <4>2 DEF Fronts
      <4>5. Record(d, n, j) = Token("byte", d + (j - (h + 1)), <<>>)
        BY <1>7, <4>3 DEF Record
      <4> QED
        BY <4>1, <4>4, <4>5 DEF Token
    <3>2. [i \in 1..n0 |-> wire[h + 1 + i].val] = v
      BY <2>4, <2>6, <3>1 DEF Count
    <3> QED
      BY <1>11, <3>2
  <2>8. Follows(v)
    BY <1>3, <2>3, <2>6 DEF Follows
  <2>9. Drop(q) /\ q <= Len(wire) /\ UNCHANGED writing /\ end' = "none"
    BY <1>1, <1>4, <1>11, <2>1
  <2>10. wire' \in Seq(Tokens) /\ broken' = broken
    BY <1>1, <2>9, Taken
  <2>11. PICK from \in Nat : from = d + n
    OBVIOUS
  <2>12. Behind(layer', wire', broken', Len(sent'), Len(sent') - todo', w'.count, 0, from, 0)
    <3>1. Behind(layer, wire, broken, Len(sent), Len(sent) - todo, w.count, q, from, 0)
      BY <2>3, <2>5, <2>11 DEF Fronts
    <3>2. q <= q /\ q - q = 0
      OBVIOUS
    <3>3. Behind(layer', wire', broken', Len(sent'), Len(sent') - todo', w'.count, q - q, from, 0)
      BY <1>1, <1>2, <2>9, <3>1, <3>2, TakenRow
    <3> QED
      BY <3>2, <3>3
  <2>13. r \in [at : ReadSteps, count : Nat, size : Nat, remain : Nat, buf : Seq(Nat)]
    BY <1>1 DEF Types
  <2>14. /\ r' \in [at : ReadSteps, count : Nat, size : Nat, remain : Nat, buf : Seq(Nat)]
         /\ r'.at = "head" /\ r'.count = r.count /\ r'.buf = r.buf
    BY <1>11, <2>13 DEF ReadSteps
  <2>15. delivered' \in Seq(Nat) /\ Len(delivered') = from
    BY <1>1, <1>3, <2>6, <2>7, <2>8, <2>11, Returned
  <2>16. Types'
    BY <1>1, <2>9, <2>10, <2>14, <2>15, ReaderTypes
  <2>17. Passing'
    <3>1. r.buf = <<>> /\ r.count <= w.count
      BY <1>1 DEF IInv, Plaintext, Passing
    <3> QED
      BY <1>1, <2>2, <2>7, <2>8, <2>9, <2>14, <3>1, ReturnedPassing
  <2>18. ServerAhead'
    <3>1. from # 0 /\ delivered' # <<>>
      BY <2>11, <2>15
    <3> QED
      BY <2>12, <2>14, <2>15, <3>1 DEF ServerAhead, Ahead
  <2>19. IInv'
    BY <1>1, <2>9, <2>14, <2>16, <2>17, <2>18, ServerKeep
  <2>20. Stream!Deliver
    <3>1. Len(v) > 0
      BY <2>6
    <3> QED
      BY <1>1, <2>7, <2>8, <2>9, <3>1, ReturnDelivers
  <2> QED
    BY <2>19, <2>20 DEF Received, Stream!Receive
<1> QED
  BY <1>6, <1>8, <1>10, <1>11 DEF ServerRead

-----------------------------------------------------------------------------
\* The writer's steps show nothing to the layer above but the call of Write.
LEMMA SendHidden ==
  ASSUME Send
  PROVE  UNCHANGED Stream!vars
BY DEF Send, WriteSalt, WriteIV, WriteAEAD, WriteStream, WriteTLS, ServerWrite, WriteFails,
       Prologue, Pass, Stream!vars

LEMMA SendKeeps ==
  ASSUME IInv, Send
  PROVE  IInv'
BY WriteSaltKeeps, WriteIVKeeps, WriteAEADKeeps, WriteStreamKeeps, WriteTLSKeeps,
   ServerWriteKeeps, WriteFailsKeeps DEF Send

LEMMA ReadKeeps ==
  ASSUME IInv, Read
  PROVE  IInv' /\ Received
BY ReadSaltKeeps, ReadIVKeeps, ReadAEADSizeKeeps, ReadAEADDataKeeps, ReadAEADBufKeeps,
   ReadStreamKeeps, ReadTLSHeaderKeeps, ReadTLSSizeKeeps, ReadTLSDataKeeps,
   ReadTLSRemainKeeps, ServerReadKeeps DEF Read

\* Every step keeps the invariant and is one of the byte stream, or none.
LEMMA StepKeeps ==
  ASSUME IInv, [Next]_vars
  PROVE  IInv' /\ [Stream!Next]_(Stream!vars)
<1>1. CASE Write
  <2>1. Stream!Write
    <3>1. PICK k \in 1..(Length - Len(sent)) : sent' = sent \o [i \in 1..k |-> Len(sent) + i]
      BY <1>1 DEF Write
    <3>2. ~closed /\ UNCHANGED <<delivered, closed, broken, end>>
      BY <1>1 DEF Write
    <3> QED
      BY <3>1, <3>2 DEF Stream!Write
  <2> QED
    BY <1>1, <2>1, WriteKeeps DEF Stream!Next
<1>2. CASE Close
  <2>1. Stream!Close
    BY <1>2 DEF Close, Stream!Close
  <2> QED
    BY <1>2, <2>1, CloseKeeps DEF Stream!Next
<1>3. CASE Break
  <2>1. Stream!Break
    BY <1>3 DEF Break, Stream!Break
  <2> QED
    BY <1>3, <2>1, BreakKeeps DEF Stream!Next
<1>4. CASE Send
  BY <1>4, SendKeeps, SendHidden
<1>5. CASE Read
  BY <1>5, ReadKeeps DEF Received, Stream!Next
<1>6. CASE UNCHANGED vars
  <2>1. UNCHANGED <<layer, sent, delivered, closed, broken, end, wire, w, r, todo>>
    BY <1>6 DEF vars, below
  <2>2. Types' /\ Passing' /\ KeyAhead' /\ Plaintext'
    BY <2>1 DEF IInv, Types, TypeOK, Passing, KeyAhead, Plaintext
  <2>3. SealedAhead' /\ ServerAhead' /\ RecordsAhead'
    BY <2>1 DEF IInv, SealedAhead, ServerAhead, RecordsAhead, Ahead, Lost, Owed
  <2> QED
    BY <2>1, <2>2, <2>3 DEF IInv, Stream!vars
<1> QED
  BY <1>1, <1>2, <1>3, <1>4, <1>5, <1>6 DEF Next

-----------------------------------------------------------------------------
\* The inductive invariant, for every amount of data and all sizes.
THEOREM TransportInvariant == Spec => []IInv
<1>1. Init => IInv
  BY InitHolds
<1>2. IInv /\ [Next]_vars => IInv'
  BY StepKeeps
<1> QED
  BY <1>1, <1>2, PTL DEF Spec

\* The states of both sides keep their types; the bytes written are 1, 2, 3, ...
THEOREM TypeCorrect == Spec => []TypeOK
<1>1. IInv => TypeOK
  BY DEF IInv, Types
<1> QED
  BY <1>1, TransportInvariant, PTL

\* Each of the layers does nothing that a byte stream may not do: what Read
\* returns is a front of what was written, io.EOF is the end of a closed stream
\* that has been read, and only a broken network makes Read fail (Reader.read,
\* TLSObfs.read, and shadowstream's Read), however writes, records, reads and
\* breaks fall.
THEOREM LayersAreStreams == Spec => Stream!Init /\ [][Stream!Next]_(Stream!vars)
<1>1. Init => IInv /\ Stream!Init
  BY InitHolds DEF Init, Stream!Init
<1>2. IInv /\ [Next]_vars => IInv' /\ [Stream!Next]_(Stream!vars)
  BY StepKeeps
<1> QED
  BY <1>1, <1>2, TransportInvariant, PTL DEF Spec

-----------------------------------------------------------------------------
(***************************************************************************)
(* The nonces on the wire.                                                 *)
(***************************************************************************)
\* The token a box begins with.
Begins(t) == t.kind = "box" /\ t.at[2] = 1

\* A frame has two boxes, which begin with its first and its third token.
BoxPart(t, nonce, j) ==
  /\ Begins(t) <=> j \in {1, 3}
  /\ j = 1 => t.at[1] = nonce
  /\ j = 3 => t.at[1] = nonce + 1
LEMMA SealedBegins ==
  ASSUME NEW nonce \in Int, NEW from \in Nat, NEW n \in Nat \ {0}, NEW j \in Nat \ {0}, j <= n + 3
  PROVE  BoxPart(Sealed(nonce, from, n, j), nonce, j)
<1>1. CASE j = 1
  BY <1>1 DEF BoxPart, Begins, Sealed, Token
<1>2. CASE j = 2
  BY <1>2 DEF BoxPart, Begins, Sealed, Token
<1>3. CASE j > 2
  <2>1. PICK k \in Nat \ {0} : k = j - 2 /\ (k = 1 <=> j = 3) /\ j # 1 /\ j # 2
    BY <1>3
  <2>2. Sealed(nonce, from, n, j).kind = "box" /\ Sealed(nonce, from, n, j).at = <<nonce + 1, k, n>>
    BY <2>1 DEF Sealed, Token
  <2> QED
    BY <2>1, <2>2 DEF BoxPart, Begins
<1> QED
  BY <1>1, <1>2, <1>3

\* Behind start, the boxes of d carry the nonces from nonce to before upto, each
\* once and in order.
Carries(d, start, nonce, upto) ==
  /\ \A i \in Nat \ {0} : start < i /\ i <= Len(d) /\ Begins(d[i]) =>
       nonce <= d[i].at[1] /\ d[i].at[1] < upto /\ d[i].at[1] \in Nat
  /\ \A i, j \in Nat \ {0} :
       start < i /\ i < j /\ j <= Len(d) /\ Begins(d[i]) /\ Begins(d[j]) => d[i].at[1] < d[j].at[1]
  /\ \A v \in Nat : nonce <= v /\ v < upto =>
       \E i \in Nat \ {0} : start < i /\ i <= Len(d) /\ Begins(d[i]) /\ d[i].at[1] = v

\* Where the boxes of a row begin.
BeginsAt(d, nonce, m, s) ==
  /\ \A i \in Nat \ {0} : s[0] < i /\ i <= Len(d) => \E k \in 0..(m - 1) : s[k] < i /\ i <= s[k + 1]
  /\ \A k \in 0..(m - 1) : s[k] \in Nat /\ s[k + 1] \in Nat /\ s[k] + 3 < s[k + 1] /\ s[0] <= s[k]
  /\ \A i, k \in 0..m : s[i] \in Nat /\ s[k] \in Nat /\ (i < k => s[i] < s[k])
  /\ \A k \in 0..(m - 1) : \A i \in Nat \ {0} :
       s[k] < i /\ i <= s[k + 1] /\ i <= Len(d) =>
         /\ Begins(d[i]) <=> i \in {s[k] + 1, s[k] + 3}
         /\ i = s[k] + 1 => d[i].at[1] = nonce + 2 * k
         /\ i = s[k] + 3 => d[i].at[1] = nonce + (2 * k + 1)

LEMMA RowBegins ==
  ASSUME NEW lay, lay = "aead", NEW T, NEW d \in Seq(T), NEW nonce \in Nat, NEW cut \in BOOLEAN,
         NEW m \in Nat, NEW s \in [0..m -> Nat], NEW c \in [0..m -> Nat],
         Row(lay, d, nonce, cut, m, s, c)
  PROVE  BeginsAt(d, nonce, m, s)
<1>1. Len(d) \in Nat /\ Len(d) <= s[m] /\ 0 \in 0..m /\ m \in 0..m
  BY DEF Row
<1>2. \A i, k \in 0..m : s[i] \in Nat /\ s[k] \in Nat /\ (i < k => s[i] < s[k])
  BY DEF Row
<1>3. ASSUME NEW i \in Nat \ {0}, s[0] < i, i <= Len(d)
      PROVE  \E k \in 0..(m - 1) : s[k] < i /\ i <= s[k + 1]
  <2>1. s[0] \in Nat /\ s[m] \in Nat
    BY <1>1
  <2>2. i \in (s[0] + 1)..s[m]
    BY <1>1, <1>3, <2>1
  <2>3. PICK k \in 0..(m - 1) : i \in (s[k] + 1)..s[k + 1]
    BY <2>2 DEF Row
  <2>4. s[k] \in Nat /\ s[k + 1] \in Nat
    OBVIOUS
  <2>5. s[k] < i /\ i <= s[k + 1]
    BY <2>3, <2>4
  <2> QED
    BY <2>5
<1>4. ASSUME NEW k \in 0..(m - 1)
      PROVE  /\ s[k] \in Nat /\ s[k + 1] \in Nat /\ c[k] \in Nat /\ c[k + 1] - c[k] \in Nat \ {0}
             /\ s[k + 1] = s[k] + (c[k + 1] - c[k]) + 3 /\ s[0] <= s[k]
  <2>1. k \in 0..m /\ k + 1 \in 0..m /\ k < k + 1
    OBVIOUS
  <2>2. s[k] \in Nat /\ s[k + 1] \in Nat /\ c[k] \in Nat /\ c[k + 1] \in Nat /\ s[0] \in Nat
    BY <1>1, <2>1
  <2>3. c[k] < c[k + 1]
    BY <2>1 DEF Row
  <2>4. s[k + 1] = s[k] + FrameLen(lay, c[k], c[k + 1] - c[k])
    BY DEF Row
  <2>5. FrameLen(lay, c[k], c[k + 1] - c[k]) = (c[k + 1] - c[k]) + 3
    BY DEF FrameLen
  <2>6. s[0] <= s[k]
    <3>1. CASE k = 0
      BY <2>2, <3>1
    <3>2. CASE k # 0
      <4>1. 0 < k
        BY <3>2
      <4>2. s[0] < s[k]
        BY <1>1, <1>2, <2>1, <4>1
      <4>3. \A a, b \in Nat : a < b => a <= b
        OBVIOUS
      <4> QED
        BY <2>2, <4>2, <4>3
    <3> QED
      BY <3>1, <3>2
  <2>7. PICK x \in Nat, y \in Nat, a \in Nat, b \in Nat :
          x = s[k] /\ y = s[k + 1] /\ a = c[k] /\ b = c[k + 1]
    BY <2>2
  <2>8. y = x + ((b - a) + 3) /\ a < b
    BY <2>3, <2>4, <2>5, <2>7
  <2>9. y = x + (b - a) + 3 /\ b - a \in Nat \ {0}
    BY <2>8
  <2> QED
    BY <2>6, <2>7, <2>9
<1>5. ASSUME NEW k \in 0..(m - 1), NEW i \in Nat \ {0}, s[k] < i, i <= s[k + 1], i <= Len(d)
      PROVE  /\ Begins(d[i]) <=> i \in {s[k] + 1, s[k] + 3}
             /\ i = s[k] + 1 => d[i].at[1] = nonce + 2 * k
             /\ i = s[k] + 3 => d[i].at[1] = nonce + (2 * k + 1)
  <2>1. PICK x \in Nat, y \in Nat, n \in Nat \ {0}, from \in Nat :
          x = s[k] /\ y = s[k + 1] /\ n = c[k + 1] - c[k] /\ from = c[k] /\ y = x + n + 3
    BY <1>4
  <2>2. PICK j \in Nat \ {0} :
          /\ j = i - x /\ x + j = i /\ j <= y - x /\ j <= n + 3
          /\ (j = 1 <=> i = x + 1) /\ (j = 3 <=> i = x + 3)
    <3>1. x < i /\ i <= y
      BY <1>5, <2>1
    <3>2. i - x \in Nat \ {0} /\ x + (i - x) = i /\ i - x <= y - x /\ i - x <= n + 3
      <4>1. y = x + n + 3
        BY <2>1
      <4> QED
        BY <3>1, <4>1
    <3>3. (i - x = 1 <=> i = x + 1) /\ (i - x = 3 <=> i = x + 3)
      OBVIOUS
    <3> QED
      BY <3>2, <3>3
  <2>3. PICK u \in Nat : u = nonce + 2 * k /\ u \in Int
    OBVIOUS
  <2>4. nonce + Nonces(lay, k) = u
    BY <2>3 DEF Nonces
  <2>5. d[s[k] + j] = Part(lay, nonce + Nonces(lay, k), c[k], c[k + 1] - c[k], j)
    BY <1>5, <2>1, <2>2 DEF Row
  <2>6. d[i] = Sealed(u, from, n, j)
    BY <2>1, <2>2, <2>4, <2>5 DEF Part
  <2>7. /\ Begins(d[i]) <=> j \in {1, 3}
        /\ j = 1 => d[i].at[1] = u
        /\ j = 3 => d[i].at[1] = u + 1
    <3>1. j <= n + 3
      BY <2>2
    <3>2. BoxPart(Sealed(u, from, n, j), u, j)
      <4>1. u \in Int
        BY <2>3
      <4> QED
        BY <3>1, <4>1, SealedBegins
    <3> QED
      BY <2>6, <3>2 DEF BoxPart
  <2>8. u + 1 = nonce + (2 * k + 1)
    BY <2>3
  <2> QED
    BY <2>1, <2>2, <2>3, <2>7, <2>8
<1>6. ASSUME NEW k \in 0..(m - 1)
      PROVE  s[k] \in Nat /\ s[k + 1] \in Nat /\ s[k] + 3 < s[k + 1] /\ s[0] <= s[k]
  <2>1. PICK x \in Nat, y \in Nat, n \in Nat \ {0} :
          x = s[k] /\ y = s[k + 1] /\ n = c[k + 1] - c[k] /\ y = x + n + 3
    BY <1>4
  <2>2. x + 3 < y
    <3>1. y = x + n + 3
      BY <2>1
    <3> QED
      BY <3>1
  <2> QED
    BY <1>4, <2>1, <2>2
<1> QED
  BY <1>2, <1>3, <1>5, <1>6 DEF BeginsAt

\* How far the nonces of a row that may be cut go.
Reaches(d, nonce, m, s, upto) ==
  /\ nonce <= upto /\ upto <= nonce + 2 * m
  /\ \A k \in 0..(m - 1) :
       /\ s[k] + 1 <= Len(d) <=> nonce + 2 * k < upto
       /\ s[k] + 3 <= Len(d) <=> nonce + (2 * k + 1) < upto

LEMMA RowReaches ==
  ASSUME NEW T, NEW d \in Seq(T), NEW nonce \in Nat, NEW m \in Nat, NEW s \in [0..m -> Nat],
         BeginsAt(d, nonce, m, s), Len(d) <= s[m]
  PROVE  \E upto \in Nat : Reaches(d, nonce, m, s, upto) /\ (Len(d) = s[m] => upto = nonce + 2 * m)
<1>1. PICK x \in Nat, z \in Nat, a \in Nat : x = Len(d) /\ z = s[m] /\ a = s[0] /\ x <= z
  OBVIOUS
<1>2. \A i, k \in 0..m : s[i] \in Nat /\ s[k] \in Nat /\ (i < k => s[i] < s[k])
  BY DEF BeginsAt
<1>3. \A k \in 0..(m - 1) : s[k] \in Nat /\ s[k + 1] \in Nat /\ s[k] + 3 < s[k + 1] /\ a <= s[k]
  BY <1>1 DEF BeginsAt
<1>4. CASE x <= a
  <2>1. ASSUME NEW k \in 0..(m - 1)
        PROVE  /\ s[k] + 1 <= x <=> nonce + 2 * k < nonce
               /\ s[k] + 3 <= x <=> nonce + (2 * k + 1) < nonce
    <3>1. PICK y \in Nat : y = s[k] /\ a <= y
      BY <1>3
    <3>2. ~(y + 1 <= x) /\ ~(y + 3 <= x)
      <4>1. a <= y
        BY <3>1
      <4> QED
        BY <1>4, <4>1
    <3>3. ~(nonce + 2 * k < nonce) /\ ~(nonce + (2 * k + 1) < nonce)
      OBVIOUS
    <3> QED
      BY <3>1, <3>2, <3>3
  <2>2. nonce <= nonce /\ nonce <= nonce + 2 * m
    OBVIOUS
  <2>3. Reaches(d, nonce, m, s, nonce)
    BY <1>1, <2>1, <2>2 DEF Reaches
  <2>4. x = z => nonce = nonce + 2 * m
    <3> SUFFICES ASSUME x = z, m # 0 PROVE FALSE
      OBVIOUS
    <3>1. 0 \in 0..m /\ m \in 0..m /\ 0 < m
      OBVIOUS
    <3>2. s[0] < s[m]
      BY <1>2, <3>1
    <3>3. a < z
      BY <1>1, <3>2
    <3> QED
      BY <1>4, <3>3
  <2> QED
    BY <1>1, <2>3, <2>4
<1>5. CASE a < x
  <2>1. PICK k0 \in 0..(m - 1) : s[k0] < x /\ x <= s[k0 + 1]
    <3>1. x \in Nat \ {0}
      BY <1>5
    <3> QED
      BY <1>1, <1>5, <3>1 DEF BeginsAt
  <2>2. PICK p \in Nat, q \in Nat : p = s[k0] /\ q = s[k0 + 1] /\ p < x /\ x <= q /\ p + 3 < q
    BY <1>3, <2>1
  <2>2a. p < x /\ x <= q /\ p + 3 < q
    BY <2>2
  <2>3. k0 \in Nat /\ k0 + 1 <= m /\ k0 \in 0..m /\ k0 + 1 \in 0..m
    OBVIOUS
  <2>4. PICK upto \in Nat : upto = IF x < p + 3 THEN nonce + (2 * k0 + 1) ELSE nonce + (2 * k0 + 2)
    BY <2>3
  <2>5. ASSUME NEW k \in 0..(m - 1)
        PROVE  /\ s[k] + 1 <= x <=> nonce + 2 * k < upto
               /\ s[k] + 3 <= x <=> nonce + (2 * k + 1) < upto
    <3>1. PICK y \in Nat, e \in Nat : y = s[k] /\ e = s[k + 1] /\ y + 3 < e
      BY <1>3
    <3>1a. y + 3 < e
      BY <3>1
    <3>2. k \in Nat /\ k \in 0..m /\ k + 1 \in 0..m
      OBVIOUS
    <3>3. CASE k = k0
      <4>1. y = p
        BY <2>2, <3>1, <3>3
      <4>2. y + 1 <= x /\ nonce + 2 * k < upto
        <5>1. y + 1 <= x
          BY <2>2a, <4>1
        <5>2. nonce + 2 * k < upto
          BY <2>4, <3>2, <3>3
        <5> QED
          BY <5>1, <5>2
      <4>3. y + 3 <= x <=> nonce + (2 * k + 1) < upto
        BY <2>4, <3>2, <3>3, <4>1
      <4> QED
        BY <3>1, <4>2, <4>3
    <3>4. CASE k < k0
      <4>1. e <= p
        <5>1. k + 1 = k0 \/ k + 1 < k0
          BY <2>3, <3>2, <3>4
        <5>2. k + 1 < k0 => s[k + 1] < s[k0]
          BY <1>2, <2>3, <3>2
        <5>3. e = p \/ e < p
          BY <2>2, <3>1, <5>1, <5>2
        <5> QED
          BY <5>3
      <4>2. y + 1 <= x /\ y + 3 <= x
        BY <2>2a, <3>1a, <4>1
      <4>3. nonce + 2 * k < upto /\ nonce + (2 * k + 1) < upto
        BY <2>3, <2>4, <3>2, <3>4
      <4> QED
        BY <3>1, <4>2, <4>3
    <3>5. CASE k0 < k
      <4>1. q <= y
        <5>1. k0 + 1 = k \/ k0 + 1 < k
          BY <2>3, <3>2, <3>5
        <5>2. k0 + 1 < k => s[k0 + 1] < s[k]
          BY <1>2, <2>3, <3>2
        <5>3. q = y \/ q < y
          BY <2>2, <3>1, <5>1, <5>2
        <5> QED
          BY <5>3
      <4>2. ~(y + 1 <= x) /\ ~(y + 3 <= x)
        BY <2>2a, <4>1
      <4>3. ~(nonce + 2 * k < upto) /\ ~(nonce + (2 * k + 1) < upto)
        BY <2>3, <2>4, <3>2, <3>5
      <4> QED
        BY <3>1, <4>2, <4>3
    <3> QED
      BY <2>3, <3>2, <3>3, <3>4, <3>5
  <2>6. nonce <= upto /\ upto <= nonce + 2 * m
    BY <2>3, <2>4
  <2>7. Reaches(d, nonce, m, s, upto)
    BY <1>1, <2>5, <2>6 DEF Reaches
  <2>8. x = z => upto = nonce + 2 * m
    <3> SUFFICES ASSUME x = z PROVE upto = nonce + 2 * m
      OBVIOUS
    <3>1. k0 + 1 < m => q < z
      <4>1. k0 + 1 < m => s[k0 + 1] < s[m]
        <5>1. m \in 0..m
          OBVIOUS
        <5> QED
          BY <1>2, <2>3, <5>1
      <4> QED
        BY <1>1, <2>2, <4>1
    <3>2. k0 + 1 = m
      BY <2>2a, <2>3, <3>1
    <3>3. q = z
      BY <1>1, <2>2, <3>2
    <3>4. ~(x < p + 3)
      BY <2>2a, <3>3
    <3> QED
      BY <2>3, <2>4, <3>2, <3>4
  <2> QED
    BY <1>1, <2>7, <2>8
<1> QED
  BY <1>4, <1>5

\* Which box a token of a row begins.
BoxAt(d, nonce, m, s, i, k, v) ==
  /\ s[k] < i /\ i <= s[k + 1]
  /\ \/ i = s[k] + 1 /\ v = nonce + 2 * k
     \/ i = s[k] + 3 /\ v = nonce + (2 * k + 1)
LEMMA BoxIs ==
  ASSUME NEW d, NEW nonce \in Nat, NEW m \in Nat, NEW s \in [0..m -> Nat],
         BeginsAt(d, nonce, m, s),
         NEW i \in Nat \ {0}, s[0] < i, i <= Len(d), Begins(d[i])
  PROVE  \E k \in 0..(m - 1) : BoxAt(d, nonce, m, s, i, k, d[i].at[1])
<1>1. PICK k \in 0..(m - 1) : s[k] < i /\ i <= s[k + 1]
  BY DEF BeginsAt
<1>2. /\ i \in {s[k] + 1, s[k] + 3}
      /\ i = s[k] + 1 => d[i].at[1] = nonce + 2 * k
      /\ i = s[k] + 3 => d[i].at[1] = nonce + (2 * k + 1)
  BY <1>1 DEF BeginsAt
<1>3. BoxAt(d, nonce, m, s, i, k, d[i].at[1])
  BY <1>1, <1>2 DEF BoxAt
<1> QED
  BY <1>3

LEMMA RowCarries ==
  ASSUME NEW T, NEW d \in Seq(T), NEW nonce \in Nat, NEW m \in Nat, NEW s \in [0..m -> Nat],
         BeginsAt(d, nonce, m, s), NEW upto \in Nat, Reaches(d, nonce, m, s, upto)
  PROVE  Carries(d, s[0], nonce, upto)
<1>1. \A i, k \in 0..m : s[i] \in Nat /\ s[k] \in Nat /\ (i < k => s[i] < s[k])
  BY DEF BeginsAt
<1>2. \A k \in 0..(m - 1) : s[k] \in Nat /\ s[k + 1] \in Nat /\ s[k] + 3 < s[k + 1] /\ s[0] <= s[k]
  BY DEF BeginsAt
<1>3. ASSUME NEW i \in Nat \ {0}, s[0] < i, i <= Len(d), Begins(d[i])
      PROVE  nonce <= d[i].at[1] /\ d[i].at[1] < upto /\ d[i].at[1] \in Nat
  <2>1. PICK k \in 0..(m - 1) : BoxAt(d, nonce, m, s, i, k, d[i].at[1])
    BY <1>3, BoxIs
  <2>2. /\ s[k] + 1 <= Len(d) <=> nonce + 2 * k < upto
        /\ s[k] + 3 <= Len(d) <=> nonce + (2 * k + 1) < upto
    BY DEF Reaches
  <2>3. CASE i = s[k] + 1 /\ d[i].at[1] = nonce + 2 * k
    <3>1. nonce + 2 * k < upto
      BY <1>3, <2>2, <2>3
    <3>2. nonce <= nonce + 2 * k /\ nonce + 2 * k \in Nat
      OBVIOUS
    <3> QED
      BY <2>3, <3>1, <3>2
  <2>4. CASE i = s[k] + 3 /\ d[i].at[1] = nonce + (2 * k + 1)
    <3>1. nonce + (2 * k + 1) < upto
      BY <1>3, <2>2, <2>4
    <3>2. nonce <= nonce + (2 * k + 1) /\ nonce + (2 * k + 1) \in Nat
      OBVIOUS
    <3> QED
      BY <2>4, <3>1, <3>2
  <2> QED
    BY <2>1, <2>3, <2>4 DEF BoxAt
<1>4. ASSUME NEW i \in Nat \ {0}, NEW j \in Nat \ {0}, s[0] < i, i < j, j <= Len(d),
             Begins(d[i]), Begins(d[j])
      PROVE  d[i].at[1] < d[j].at[1]
  <2>1. Len(d) \in Nat /\ s[0] \in Nat
    OBVIOUS
  <2>2. i <= Len(d) /\ s[0] < j
    BY <1>4, <2>1
  <2>3. PICK k \in 0..(m - 1) : BoxAt(d, nonce, m, s, i, k, d[i].at[1])
    BY <1>4, <2>2, BoxIs
  <2>4. PICK l \in 0..(m - 1) : BoxAt(d, nonce, m, s, j, l, d[j].at[1])
    BY <1>4, <2>2, BoxIs
  <2>5. PICK y \in Nat, z \in Nat, e \in Nat : y = s[k] /\ z = s[l] /\ e = s[l + 1]
    BY <1>2
  <2>6. PICK u \in Nat, v \in Nat :
          /\ u = d[i].at[1] /\ v = d[j].at[1]
          /\ y < i /\ ((i = y + 1 /\ u = nonce + 2 * k) \/ (i = y + 3 /\ u = nonce + (2 * k + 1)))
          /\ j <= e /\ ((j = z + 1 /\ v = nonce + 2 * l) \/ (j = z + 3 /\ v = nonce + (2 * l + 1)))
    <3>1. d[i].at[1] \in Nat /\ d[j].at[1] \in Nat
      BY <1>3, <1>4, <2>2
    <3> QED
      BY <2>3, <2>4, <2>5, <3>1 DEF BoxAt
  <2>7. /\ y < i /\ ((i = y + 1 /\ u = nonce + 2 * k) \/ (i = y + 3 /\ u = nonce + (2 * k + 1)))
        /\ j <= e /\ ((j = z + 1 /\ v = nonce + 2 * l) \/ (j = z + 3 /\ v = nonce + (2 * l + 1)))
    BY <2>6
  <2>8. k \in Nat /\ l \in Nat /\ k \in 0..m /\ l \in 0..m /\ l + 1 \in 0..m
    OBVIOUS
  <2>9. ~(l < k)
    <3> SUFFICES ASSUME l < k PROVE FALSE
      OBVIOUS
    <3>1. l + 1 = k \/ l + 1 < k
      BY <2>8
    <3>2. l + 1 < k => s[l + 1] < s[k]
      BY <1>1, <2>8
    <3>3. e = y \/ e < y
      BY <2>5, <3>1, <3>2
    <3> QED
      BY <1>4, <2>7, <3>3
  <2>10. u < v
    <3>1. CASE k = l
      <4>1. y = z
        BY <2>5, <3>1
      <4> QED
        BY <1>4, <2>7, <2>8, <3>1, <4>1
    <3>2. CASE k < l
      BY <2>7, <2>8, <3>2
    <3> QED
      BY <2>8, <2>9, <3>1, <3>2
  <2> QED
    BY <2>6, <2>10
<1>5. ASSUME NEW v \in Nat, nonce <= v, v < upto
      PROVE  \E i \in Nat \ {0} : s[0] < i /\ i <= Len(d) /\ Begins(d[i]) /\ d[i].at[1] = v
  <2>1. upto <= nonce + 2 * m
    BY DEF Reaches
  <2>2. PICK k \in Nat : v = nonce + 2 * k \/ v = nonce + (2 * k + 1)
    <3>1. v - nonce \in Nat /\ v = nonce + (v - nonce)
      BY <1>5
    <3>2. \A a \in Nat : \E k \in Nat : a = 2 * k \/ a = 2 * k + 1
      <4> SUFFICES ASSUME NEW a \in Nat PROVE \E k \in Nat : a = 2 * k \/ a = 2 * k + 1
        OBVIOUS
      <4>1. a \div 2 \in Nat /\ (a = 2 * (a \div 2) \/ a = 2 * (a \div 2) + 1)
        OBVIOUS
      <4> QED
        BY <4>1
    <3> QED
      BY <3>1, <3>2
  <2>3. k \in 0..(m - 1)
    BY <1>5, <2>1, <2>2
  <2>4. /\ s[k] + 1 <= Len(d) <=> nonce + 2 * k < upto
        /\ s[k] + 3 <= Len(d) <=> nonce + (2 * k + 1) < upto
    BY <2>3 DEF Reaches
  <2>5. PICK y \in Nat, e \in Nat, a \in Nat : y = s[k] /\ e = s[k + 1] /\ a = s[0]
    <3>1. s[0] \in Nat
      OBVIOUS
    <3>2. s[k] \in Nat /\ s[k + 1] \in Nat
      BY <1>2, <2>3
    <3> QED
      BY <3>1, <3>2
  <2>6. y + 3 < e /\ a <= y
    BY <1>2, <2>3, <2>5
  <2>7. \A i \in Nat \ {0} :
          s[k] < i /\ i <= s[k + 1] /\ i <= Len(d) =>
            /\ Begins(d[i]) <=> i \in {s[k] + 1, s[k] + 3}
            /\ i = s[k] + 1 => d[i].at[1] = nonce + 2 * k
            /\ i = s[k] + 3 => d[i].at[1] = nonce + (2 * k + 1)
    BY <2>3 DEF BeginsAt
  <2>8. CASE v = nonce + 2 * k
    <3>1. PICK i \in Nat \ {0} : i = y + 1 /\ a < i /\ y < i /\ i <= e
      BY <2>6
    <3>2. i <= Len(d)
      BY <1>5, <2>4, <2>5, <2>8, <3>1
    <3>3. Begins(d[i]) /\ d[i].at[1] = v
      BY <2>5, <2>7, <2>8, <3>1, <3>2
    <3> QED
      BY <2>5, <3>1, <3>2, <3>3
  <2>9. CASE v = nonce + (2 * k + 1)
    <3>1. PICK i \in Nat \ {0} : i = y + 3 /\ a < i /\ y < i /\ i <= e
      BY <2>6
    <3>2. i <= Len(d)
      BY <1>5, <2>4, <2>5, <2>9, <3>1
    <3>3. Begins(d[i]) /\ d[i].at[1] = v
      BY <2>5, <2>7, <2>9, <3>1, <3>2
    <3> QED
      BY <2>5, <3>1, <3>2, <3>3
  <2> QED
    BY <2>2, <2>8, <2>9
<1> QED
  BY <1>3, <1>4, <1>5 DEF Carries

\* The boxes of what is behind start, up to the writer's if it is whole.
LEMMA BehindCarries ==
  ASSUME NEW lay, lay = "aead", NEW T, NEW d \in Seq(T), NEW cut \in BOOLEAN, NEW total \in Nat,
         NEW passed, NEW count \in Nat, NEW start \in Nat, NEW from \in Nat, NEW nonce \in Nat,
         Behind(lay, d, cut, total, passed, count, start, from, nonce)
  PROVE  \E upto \in nonce..count : (~cut => upto = count) /\ Carries(d, start, nonce, upto)
<1>1. PICK to \in 0..total, last \in 0..count :
        /\ ~cut => to = passed /\ last = count
        /\ Framing(lay, d, start, from, nonce, to, last, cut)
  BY DEF Behind
<1>2. PICK m \in Nat : \E s, c \in [0..m -> Nat] :
        /\ s[0] = start /\ c[0] = from /\ c[m] = to /\ last = nonce + Nonces(lay, m)
        /\ Row(lay, d, nonce, cut, m, s, c)
  BY <1>1 DEF Framing
<1>3. PICK s \in [0..m -> Nat], c \in [0..m -> Nat] :
        /\ s[0] = start /\ c[0] = from /\ c[m] = to /\ last = nonce + Nonces(lay, m)
        /\ Row(lay, d, nonce, cut, m, s, c)
  BY <1>2
<1>4. BeginsAt(d, nonce, m, s)
  BY <1>3, RowBegins
<1>5. Len(d) <= s[m] /\ (~cut => Len(d) = s[m])
  BY <1>3 DEF Row
<1>6. PICK upto \in Nat :
        Reaches(d, nonce, m, s, upto) /\ (Len(d) = s[m] => upto = nonce + 2 * m)
  BY <1>4, <1>5, RowReaches
<1>7. Carries(d, start, nonce, upto)
  BY <1>3, <1>4, <1>6, RowCarries
<1>8. last = nonce + 2 * m
  BY <1>3 DEF Nonces
<1>9. last <= count /\ last \in Nat
  OBVIOUS
<1>10. upto \in nonce..count
  <2>1. nonce <= upto /\ upto <= nonce + 2 * m
    BY <1>6 DEF Reaches
  <2> QED
    BY <1>8, <1>9, <2>1
<1>11. ~cut => upto = count
  BY <1>1, <1>5, <1>6, <1>8
<1> QED
  BY <1>7, <1>10, <1>11

\* A front without the beginning of a box, and one that is a box but for its end.
LEMMA CarriesBefore ==
  ASSUME NEW T, NEW d \in Seq(T), NEW start \in Nat, NEW nonce \in Nat, NEW upto \in Nat,
         Carries(d, start, nonce, upto),
         \A i \in Nat \ {0} : i <= start /\ i <= Len(d) => ~Begins(d[i])
  PROVE  Carries(d, 0, nonce, upto)
<1>1. ASSUME NEW i \in Nat \ {0}, i <= Len(d), Begins(d[i]) PROVE start < i
  BY <1>1
<1>2. ASSUME NEW i \in Nat \ {0}, NEW j \in Nat \ {0}, i < j, j <= Len(d), Begins(d[i]), Begins(d[j])
      PROVE  d[i].at[1] < d[j].at[1]
  <2>1. i <= Len(d)
    BY <1>2
  <2>2. start < i
    BY <1>1, <1>2, <2>1
  <2> QED
    BY <1>2, <2>2 DEF Carries
<1>3. ASSUME NEW i \in Nat \ {0}, i <= Len(d), Begins(d[i])
      PROVE  nonce <= d[i].at[1] /\ d[i].at[1] < upto /\ d[i].at[1] \in Nat
  BY <1>1, <1>3 DEF Carries
<1>4. ASSUME NEW v \in Nat, nonce <= v, v < upto
      PROVE  \E i \in Nat \ {0} : 0 < i /\ i <= Len(d) /\ Begins(d[i]) /\ d[i].at[1] = v
  <2>1. PICK i \in Nat \ {0} : i <= Len(d) /\ Begins(d[i]) /\ d[i].at[1] = v
    BY <1>4 DEF Carries
  <2>2. 0 < i
    OBVIOUS
  <2> QED
    BY <2>1, <2>2
<1> QED
  BY <1>2, <1>3, <1>4 DEF Carries

LEMMA CarriesMore ==
  ASSUME NEW T, NEW d \in Seq(T), NEW start \in Nat, NEW nonce \in Nat, NEW upto \in Nat,
         NEW next \in Nat, next = nonce + 1, next <= upto, Carries(d, start, next, upto),
         1 <= start, 1 <= Len(d), Begins(d[1]), d[1].at[1] = nonce,
         \A i \in Nat \ {0} : 1 < i /\ i <= start /\ i <= Len(d) => ~Begins(d[i])
  PROVE  Carries(d, 0, nonce, upto)
<1>1. ASSUME NEW i \in Nat \ {0}, i <= Len(d), Begins(d[i]) PROVE i = 1 \/ start < i
  BY <1>1
<1>2. ASSUME NEW i \in Nat \ {0}, start < i, i <= Len(d), Begins(d[i])
      PROVE  next <= d[i].at[1] /\ d[i].at[1] < upto /\ d[i].at[1] \in Nat
  BY <1>2 DEF Carries
<1>3. ASSUME NEW i \in Nat \ {0}, i <= Len(d), Begins(d[i])
      PROVE  nonce <= d[i].at[1] /\ d[i].at[1] < upto /\ d[i].at[1] \in Nat
  <2>1. CASE i = 1
    BY <2>1
  <2>2. CASE start < i
    <3>1. PICK v \in Nat : v = d[i].at[1] /\ next <= v /\ v < upto
      BY <1>2, <1>3, <2>2
    <3>2. nonce <= v
      <4>1. next <= v
        BY <3>1
      <4> QED
        BY <4>1
    <3> QED
      BY <3>1, <3>2
  <2> QED
    BY <1>1, <1>3, <2>1, <2>2
<1>4. ASSUME NEW i \in Nat \ {0}, NEW j \in Nat \ {0}, i < j, j <= Len(d), Begins(d[i]), Begins(d[j])
      PROVE  d[i].at[1] < d[j].at[1]
  <2>1. i <= Len(d) /\ j # 1
    BY <1>4
  <2>2. start < j
    BY <1>1, <1>4, <2>1
  <2>3. CASE i = 1
    <3>1. PICK v \in Nat : v = d[j].at[1] /\ next <= v
      BY <1>2, <1>4, <2>2
    <3>2. nonce < v
      <4>1. next <= v
        BY <3>1
      <4> QED
        BY <4>1
    <3> QED
      BY <2>3, <3>1, <3>2
  <2>4. CASE start < i
    BY <1>4, <2>4 DEF Carries
  <2> QED
    BY <1>1, <1>4, <2>1, <2>3, <2>4
<1>5. ASSUME NEW v \in Nat, nonce <= v, v < upto
      PROVE  \E i \in Nat \ {0} : 0 < i /\ i <= Len(d) /\ Begins(d[i]) /\ d[i].at[1] = v
  <2>1. CASE v = nonce
    <3>1. 1 \in Nat \ {0} /\ 0 < 1
      OBVIOUS
    <3> QED
      BY <2>1, <3>1
  <2>2. CASE v # nonce
    <3>1. next <= v
      BY <1>5, <2>2
    <3>2. PICK i \in Nat \ {0} : i <= Len(d) /\ Begins(d[i]) /\ d[i].at[1] = v
      BY <1>5, <3>1 DEF Carries
    <3>3. 0 < i
      OBVIOUS
    <3> QED
      BY <3>2, <3>3
  <2> QED
    BY <2>1, <2>2
<1> QED
  BY <1>3, <1>4, <1>5 DEF Carries

\* The sides agree on the nonces in between.
LEMMA CarriesOrder ==
  ASSUME Types, NEW upto \in Nat, Carries(wire, 0, r.count, upto),
         r.count <= upto, upto <= w.count, ~broken => upto = w.count
  PROVE  NonceOrder
<1>1. wire \in Seq(Tokens) /\ Len(wire) \in Nat /\ r.count \in Nat /\ w.count \in Nat
  BY TypesAre
<1> DEFINE boxes  == {i \in 1..Len(wire) : wire[i].kind = "box" /\ wire[i].at[2] = 1}
           nonces == {wire[i].at[1] : i \in boxes}
<1>2. \A i \in Nat \ {0} : i <= Len(wire) /\ Begins(wire[i]) =>
        r.count <= wire[i].at[1] /\ wire[i].at[1] < upto /\ wire[i].at[1] \in Nat
  <2>1. \A i \in Nat \ {0} : 0 < i
    OBVIOUS
  <2> QED
    BY <2>1 DEF Carries
<1>3. \A i \in boxes : i \in Nat \ {0} /\ i <= Len(wire) /\ Begins(wire[i])
  BY <1>1 DEF Begins
<1>4. \A i, j \in boxes : i < j => wire[i].at[1] < wire[j].at[1]
  <2> SUFFICES ASSUME NEW i \in boxes, NEW j \in boxes, i < j
               PROVE  wire[i].at[1] < wire[j].at[1]
    OBVIOUS
  <2>1. i \in Nat \ {0} /\ j \in Nat \ {0} /\ 0 < i
    BY <1>3
  <2> QED
    BY <1>3, <2>1 DEF Carries
<1>5. nonces \subseteq r.count..(upto - 1)
  <2> SUFFICES ASSUME NEW i \in boxes PROVE wire[i].at[1] \in r.count..(upto - 1)
    OBVIOUS
  <2>1. PICK v \in Nat : v = wire[i].at[1] /\ r.count <= v /\ v < upto
    BY <1>2, <1>3
  <2>2. v \in r.count..(upto - 1)
    BY <1>1, <2>1
  <2> QED
    BY <2>1, <2>2
<1>6. r.count..(upto - 1) \subseteq nonces
  <2> SUFFICES ASSUME NEW v \in r.count..(upto - 1) PROVE v \in nonces
    OBVIOUS
  <2>1. v \in Nat /\ r.count <= v /\ v < upto
    BY <1>1
  <2>2. PICK i \in Nat \ {0} : i <= Len(wire) /\ Begins(wire[i]) /\ wire[i].at[1] = v
    BY <2>1 DEF Carries
  <2>3. i \in boxes
    BY <1>1, <2>2 DEF Begins
  <2> QED
    BY <2>2, <2>3
<1>7. nonces = r.count..(upto - 1) /\ upto \in r.count..w.count
  BY <1>1, <1>5, <1>6
<1> QED
  BY <1>4, <1>7 DEF NonceOrder

LEMMA NoncesAgree ==
  ASSUME IInv
  PROVE  NonceOrder
<1> SUFFICES ASSUME layer = "aead" PROVE NonceOrder
  BY DEF NonceOrder
<1>1. /\ wire \in Seq(Tokens) /\ Len(wire) \in Nat /\ broken \in BOOLEAN /\ Len(sent) \in Nat
      /\ w.count \in Nat /\ r.count \in Nat /\ r.size \in Nat /\ 0 \in Nat /\ Types /\ r.count <= w.count
  BY TypesAre DEF IInv, Passing
<1>2. CASE Lost
  <2>1. Len(wire) = 0
    BY <1>2 DEF Lost
  <2>2. Carries(wire, 0, r.count, r.count)
    BY <1>1, <2>1 DEF Carries
  <2>3. r.count <= r.count
    BY <1>1
  <2> QED
    BY <1>1, <1>2, <2>2, <2>3, CarriesOrder DEF Lost
<1>3. CASE /\ r.at = "first" /\ r.count = 0
           /\ wire # <<>> => wire[1].kind = "salt"
           /\ Ahead(IF w.init THEN 1 ELSE 0, 0, 0)
  <2>1. PICK start \in 0..1 : start = IF w.init THEN 1 ELSE 0
    OBVIOUS
  <2>2. start \in Nat /\ start <= 1
    OBVIOUS
  <2>3. Behind(layer, wire, broken, Len(sent), Len(sent) - todo, w.count, start, 0, 0)
    BY <1>3, <2>1 DEF Ahead
  <2>4. PICK upto \in 0..w.count : (~broken => upto = w.count) /\ Carries(wire, start, 0, upto)
    BY <1>1, <2>2, <2>3, BehindCarries
  <2>5. upto \in Nat /\ upto <= w.count /\ 0 <= upto
    BY <1>1
  <2>6. ASSUME NEW i \in Nat \ {0}, i <= start, i <= Len(wire) PROVE ~Begins(wire[i])
    <3>1. i = 1
      BY <2>2, <2>6
    <3>2. wire # <<>>
      BY <1>1, <2>6
    <3> QED
      BY <1>3, <3>1, <3>2 DEF Begins
  <2>7. Carries(wire, 0, 0, upto)
    BY <1>1, <2>2, <2>4, <2>5, <2>6, CarriesBefore
  <2> QED
    BY <1>1, <1>3, <2>4, <2>5, <2>7, CarriesOrder
<1>4. CASE Ahead(0, Len(delivered) + Len(r.buf), r.count)
  <2>1. PICK from \in Nat : from = Len(delivered) + Len(r.buf)
    <3>1. Len(delivered) \in Nat /\ Len(r.buf) \in Nat
      BY <1>1, TypesAre
    <3> QED
      BY <3>1
  <2>2. Behind(layer, wire, broken, Len(sent), Len(sent) - todo, w.count, 0, from, r.count)
    BY <1>4, <2>1 DEF Ahead
  <2>3. PICK upto \in r.count..w.count : (~broken => upto = w.count) /\ Carries(wire, 0, r.count, upto)
    BY <1>1, <2>2, BehindCarries
  <2>4. upto \in Nat /\ upto <= w.count /\ r.count <= upto
    BY <1>1
  <2> QED
    BY <1>1, <2>3, <2>4, CarriesOrder
<1>5. CASE /\ ~Lost /\ r.size > 0
           /\ \A j \in Nat \ {0} : j <= r.size + 1 /\ j <= Len(wire) =>
                wire[j] = Sealed(r.count - 1, Len(delivered), r.size, j + 2)
           /\ Ahead(r.size + 1, Len(delivered) + r.size, r.count + 1)
  <2>1. PICK n \in Nat \ {0}, d \in Nat, x \in Nat, c \in Nat :
          n = r.size /\ d = Len(delivered) /\ x = Len(wire) /\ c = r.count
    <3>1. Len(delivered) \in Nat
      BY <1>1, TypesAre
    <3>2. r.size \in Nat \ {0} /\ Len(wire) \in Nat /\ r.count \in Nat
      BY <1>1, <1>5
    <3> QED
      BY Zenon, <3>1, <3>2
  <2>2. PICK start \in Nat, from \in Nat, next \in Nat, before \in Int :
          start = n + 1 /\ from = d + n /\ next = c + 1 /\ before = c - 1 /\ before + 1 = c
    OBVIOUS
  <2>3. Behind(layer, wire, broken, Len(sent), Len(sent) - todo, w.count, start, from, next)
    BY <1>5, <2>1, <2>2 DEF Ahead
  <2>4. PICK upto \in next..w.count : (~broken => upto = w.count) /\ Carries(wire, start, next, upto)
    BY <1>1, <2>3, BehindCarries
  <2>5. upto \in Nat /\ upto <= w.count /\ next <= upto
    BY <1>1
  <2>6. c <= upto
    <3>1. next = c + 1
      BY <2>2
    <3> QED
      BY <2>5, <3>1
  <2>7. 1 <= x
    <3> SUFFICES ASSUME x = 0 PROVE FALSE
      OBVIOUS
    <3>1. wire = <<>>
      BY <1>1, <2>1, EmptySeq
    <3>2. ~broken
      BY <1>5, <3>1 DEF Lost
    <3>3. Bounds(wire, broken, Len(sent), Len(sent) - todo, w.count, start, from, next)
      BY <1>1, <2>3, BehindEnds
    <3>4. start <= x
      BY <2>1, <3>2, <3>3 DEF Bounds
    <3>5. start = n + 1
      BY <2>2
    <3> QED
      BY <3>4, <3>5
  <2>8. ASSUME NEW j \in Nat \ {0}, j <= start, j <= x
        PROVE  /\ Begins(wire[j]) <=> j = 1
               /\ j = 1 => wire[j].at[1] = c
    <3>1. start = n + 1
      BY <2>2
    <3>2. PICK q \in Nat \ {0} : q = j + 2 /\ q <= n + 3 /\ q # 1 /\ (q = 3 <=> j = 1)
      BY <2>8, <3>1
    <3>3. wire[j] = Sealed(before, d, n, q)
      BY <1>5, <2>1, <2>2, <2>8, <3>1, <3>2
    <3>4. q <= n + 3
      BY <3>2
    <3>5. BoxPart(Sealed(before, d, n, q), before, q)
      BY <3>4, SealedBegins
    <3> QED
      BY <2>2, <3>2, <3>3, <3>5 DEF BoxPart
  <2>9. 1 <= start /\ 1 \in Nat \ {0}
    BY <2>2
  <2>10. Begins(wire[1]) /\ wire[1].at[1] = c
    BY <2>7, <2>8, <2>9
  <2>11. ASSUME NEW i \in Nat \ {0}, 1 < i, i <= start, i <= Len(wire) PROVE ~Begins(wire[i])
    <3>1. i # 1
      BY <2>11
    <3> QED
      BY <2>1, <2>8, <2>11, <3>1
  <2>12. Carries(wire, 0, c, upto)
    <3>1. 1 <= Len(wire) /\ next = c + 1
      BY <2>1, <2>2, <2>7
    <3> QED
      BY <1>1, <2>4, <2>5, <2>9, <2>10, <2>11, <3>1, CarriesMore
  <2> QED
    BY <1>1, <2>1, <2>4, <2>5, <2>6, <2>12, CarriesOrder
<1> QED
  BY <1>2, <1>3, <1>4, <1>5 DEF IInv, SealedAhead

LEMMA RemainThere ==
  ASSUME IInv
  PROVE  RemainOnWire
<1> SUFFICES ASSUME layer = "tlsDown", ~broken PROVE RemainOnWire
  BY DEF RemainOnWire
<1>1. /\ wire \in Seq(Tokens) /\ Len(wire) \in Nat /\ broken \in BOOLEAN /\ Len(sent) \in Nat
      /\ w.count \in Nat /\ r.remain \in Nat /\ 0 \in Nat
  BY TypesAre DEF IInv
<1>2. CASE r.at # "head"
  <2>1. r.remain = 0
    BY <1>2 DEF IInv, RecordsAhead
  <2>2. r.remain <= Len(wire) /\ 1..r.remain = {}
    BY <1>1, <2>1
  <2> QED
    BY <1>2, <2>2 DEF RemainOnWire
<1>3. CASE r.at = "head"
  <2>1. Owed(r.remain, 0) /\ Ahead(r.remain, Len(delivered) + r.remain, 0)
    BY <1>3 DEF IInv, RecordsAhead, Lost
  <2>2. PICK n \in Nat, from \in Nat, d \in Nat : n = r.remain /\ d = Len(delivered) /\ from = d + n
    <3>1. Len(delivered) \in Nat
      BY TypesAre DEF IInv
    <3>2. Len(delivered) + r.remain \in Nat /\ r.remain \in Nat
      BY <1>1, <3>1
    <3> QED
      BY Zenon, <3>1, <3>2
  <2>3. Behind(layer, wire, broken, Len(sent), Len(sent) - todo, w.count, n, from, 0)
    BY <2>1, <2>2 DEF Ahead
  <2>4. Bounds(wire, broken, Len(sent), Len(sent) - todo, w.count, n, from, 0)
    BY <1>1, <2>3, BehindEnds
  <2>5. n <= Len(wire)
    BY <2>4 DEF Bounds
  <2>6. ASSUME NEW i \in 1..n PROVE wire[i].kind = "byte"
    <3>1. i \in Nat \ {0} /\ i <= n /\ 0 + i = i
      OBVIOUS
    <3>2. 0 + i <= Len(wire)
      BY <1>1, <2>5, <3>1
    <3>3. wire[0 + i] = Token("byte", Len(delivered) + i, <<>>)
      BY <2>1, <2>2, <3>1, <3>2 DEF Owed
    <3> QED
      BY <3>1, <3>3 DEF Token
  <2>7. ASSUME n < Len(wire) PROVE wire[n + 1].kind = "head"
    <3>1. Splits(layer, wire, broken, Len(sent), Len(sent) - todo, w.count, n, from, 0)
      BY <1>1, <2>3, <2>7, BehindNext
    <3>2. PICK k \in Nat \ {0} : Starts(layer, wire, broken, n, from, 0, k)
      BY <3>1 DEF Splits
    <3>3. PICK q \in Nat : q = FrameLen(layer, from, k) /\ 1 <= q
      <4>1. k \in Nat /\ k > 0
        OBVIOUS
      <4>2. FrameLen(layer, from, k) \in Nat /\ FrameLen(layer, from, k) > k
        BY <4>1, FrameSize
      <4> QED
        BY <4>1, <4>2
    <3>4. 1 \in Nat \ {0} /\ n + 1 <= Len(wire)
      BY <1>1, <2>7
    <3>5. wire[n + 1] = Part(layer, 0, from, k, 1)
      BY <3>2, <3>3, <3>4 DEF Starts
    <3>6. 1 <= HeadLen(from)
      BY TransportAssumption DEF HeadLen
    <3> QED
      BY <3>5, <3>6 DEF Part, Record, Token
  <2> QED
    BY <2>2, <2>5, <2>6, <2>7 DEF RemainOnWire
<1> QED
  BY <1>2, <1>3

\* Writer and reader agree on what comes next on the wire (Writer.Write,
\* Reader.read, TLSObfs.read): the boxes of an AEAD connection carry every nonce
\* from the reader's to the writer's once and in order, and what a TLS reader
\* still owes its caller are the next bytes, with a header behind them.
THEOREM SidesAgree == Spec => []SidesInStep
<1>1. IInv => SidesInStep
  BY NoncesAgree, RemainThere DEF SidesInStep
<1> QED
  BY <1>1, TransportInvariant, PTL

=============================================================================
