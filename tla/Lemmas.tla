-------------------------------- MODULE Lemmas --------------------------------
(***************************************************************************)
(* Facts about numbers, and about what is defined step by step, that the   *)
(* proofs of several components cite.                                      *)
(***************************************************************************)
EXTENDS Integers, WellFoundedInduction, TLAPS

(* A set of numbers that is not empty has a least one: induction over data,  *)
(* for the least number for which a statement fails.                         *)
LEMMA LeastOf ==
  ASSUME NEW T \in SUBSET Nat, T # {}
  PROVE  \E x \in T : \A y \in T : x <= y
<1>1. \E x \in T : \A y \in T : ~(<<y, x>> \in OpToRel(<, Nat))
  BY NatLessThanWellFounded, WFMin, Zenon
<1>2. PICK x \in T : \A y \in T : ~(<<y, x>> \in OpToRel(<, Nat))
  BY <1>1
<1>3. \A y \in T : x <= y
  <2> TAKE y \in T
  <2>1. ~(y < x)
    BY <1>2, Zenon DEF OpToRel
  <2>2. QED
    BY <2>1
<1>4. QED
  BY <1>3

(* From d, n steps of F, each with its number: there is such a walk. *)
Walks(g, n, D, d, F) ==
    g \in [0 .. n -> D] /\ g[0] = d /\ \A i \in 1 .. n : g[i] = F[<<i, g[i - 1]>>]

(* What is given by its start and its next step exists. *)
LEMMA Iterated ==
  ASSUME NEW n \in Nat, NEW D, NEW d \in D, NEW F \in [(1 .. n) \X D -> D]
  PROVE  \E g : Walks(g, n, D, d, F)
<1> DEFINE T == {k \in 0 .. n : ~\E g : Walks(g, k, D, d, F)}
<1>1. SUFFICES T = {}
  BY <1>1
<1>2. SUFFICES ASSUME T # {} PROVE FALSE
  BY <1>2
<1>3. PICK k \in T : \A j \in T : k <= j
  <2>1. T \in SUBSET Nat
    OBVIOUS
  <2> HIDE DEF T
  <2>2. QED
    BY <1>2, <2>1, LeastOf
<1>4. k \in 0 .. n /\ ~\E g : Walks(g, k, D, d, F)
  BY <1>3
<1>5. CASE k = 0
  <2> DEFINE g == [i \in 0 .. 0 |-> d]
  <2>1. Walks(g, 0, D, d, F)
    BY DEF Walks
  <2>2. QED
    BY <1>4, <1>5, <2>1
<1>6. CASE k > 0
  <2>1. k - 1 \in 0 .. n /\ k - 1 \notin T
    BY <1>3, <1>4, <1>6
  <2>2. PICK h : Walks(h, k - 1, D, d, F)
    BY <2>1
  <2> DEFINE g == [i \in 0 .. k |-> IF i = k THEN F[<<k, h[k - 1]>>] ELSE h[i]]
  <2>3. /\ h \in [0 .. k - 1 -> D] /\ h[0] = d
        /\ \A i \in 1 .. k - 1 : h[i] = F[<<i, h[i - 1]>>]
    BY <2>2 DEF Walks
  <2>4. h[k - 1] \in D /\ k \in 1 .. n
    BY <1>4, <1>6, <2>3
  <2>5. F[<<k, h[k - 1]>>] \in D
    BY <2>4
  <2>6. g \in [0 .. k -> D] /\ g[0] = d
    BY <1>6, <2>3, <2>5
  <2>7. \A i \in 1 .. k : g[i] = F[<<i, g[i - 1]>>]
    <3> TAKE i \in 1 .. k
    <3>1. CASE i = k
      <4>1. k \in 0 .. k /\ k - 1 \in 0 .. k /\ k - 1 # k
        BY <1>4, <1>6
      <4>2. g[k] = F[<<k, h[k - 1]>>] /\ g[k - 1] = h[k - 1]
        BY <4>1
      <4>3. QED
        BY <3>1, <4>2, Zenon
    <3>2. CASE i # k
      <4>1. i \in 1 .. k - 1 /\ i - 1 \in 0 .. k /\ i - 1 # k /\ i \in 0 .. k
        BY <1>4, <3>2
      <4>2. g[i] = h[i] /\ g[i - 1] = h[i - 1]
        BY <4>1
      <4>3. QED
        BY <2>3, <4>1, <4>2
    <3>3. QED
      BY <3>1, <3>2
  <2> HIDE DEF g
  <2>8. Walks(g, k, D, d, F)
    BY <2>6, <2>7 DEF Walks
  <2>9. QED
    BY <1>4, <2>8
<1>7. QED
  BY <1>4, <1>5, <1>6

(* What holds at the start and is kept by every step holds all along. *)
LEMMA Kept ==
  ASSUME NEW n \in Nat, NEW D, NEW f, f[0] \in D,
         \A i \in 1 .. n : f[i - 1] \in D => f[i] \in D
  PROVE  \A i \in 0 .. n : f[i] \in D
<1> DEFINE T == {k \in 0 .. n : f[k] \notin D}
<1>1. SUFFICES ASSUME T # {} PROVE FALSE
  BY <1>1
<1>2. PICK k \in T : \A j \in T : k <= j
  <2>1. T \in SUBSET Nat
    OBVIOUS
  <2> HIDE DEF T
  <2>2. QED
    BY <1>1, <2>1, LeastOf
<1>3. k \in 1 .. n /\ f[k] \notin D
  BY <1>2
<1>4. k - 1 \in 0 .. n /\ k - 1 \notin T
  BY <1>2, <1>3
<1>5. QED
  BY <1>3, <1>4

(* The value of body for x needs only the values for elements of lesser depth. *)
Descends(body, depth, n, S, D) ==
    /\ n \in Nat /\ depth \in [S -> 0 .. n] /\ body \in [[S -> D] -> [S -> D]] /\ D # {}
    /\ \A f, g \in [S -> D] : \A x \in S :
           (\A y \in S : depth[y] < depth[x] => f[y] = g[y]) => body[f][x] = body[g][x]

(* There is a function that body no longer changes. *)
Settles(body, S, D) == \E f \in [S -> D] : f = body[f]

(* A definition by recursion, in which the value for x needs only the values *)
(* for elements of a lesser depth, defines something: body, applied often    *)
(* enough, no longer changes it.                                             *)
LEMMA RecursionEnds ==
  ASSUME NEW S, NEW D, NEW n, NEW depth, NEW body, Descends(body, depth, n, S, D)
  PROVE  Settles(body, S, D)
<1>0. PICK d \in D : TRUE
  BY DEF Descends
<1> USE DEF Descends
<1> DEFINE F == [p \in (1 .. n + 2) \X [S -> D] |-> body[p[2]]]
           start == [x \in S |-> d]
<1>1. F \in [(1 .. n + 2) \X [S -> D] -> [S -> D]] /\ start \in [S -> D] /\ n + 2 \in Nat
  BY <1>0
<1>2. PICK g : Walks(g, n + 2, [S -> D], start, F)
  <2> HIDE DEF F, start
  <2>1. QED
    BY <1>1, Iterated
<1>3. /\ g \in [0 .. n + 2 -> [S -> D]]
      /\ \A i \in 1 .. n + 2 : g[i] = body[g[i - 1]]
  <2>1. g \in [0 .. n + 2 -> [S -> D]] /\ \A i \in 1 .. n + 2 : g[i] = F[<<i, g[i - 1]>>]
    BY <1>2 DEF Walks
  <2>2. ASSUME NEW i \in 1 .. n + 2 PROVE g[i] = body[g[i - 1]]
    <3>1. i - 1 \in 0 .. n + 2
      OBVIOUS
    <3>2. g[i - 1] \in [S -> D]
      BY <2>1, <3>1
    <3>3. F[<<i, g[i - 1]>>] = body[g[i - 1]]
      BY <3>2
    <3>4. QED
      BY <2>1, <3>3
  <2>3. QED
    BY <2>1, <2>2
<1> HIDE DEF F, start
<1> DEFINE Stable(k) == \A x \in S : depth[x] < k => g[k][x] = g[k + 1][x]
<1>4. Stable(0)
  <2>1. \A x \in S : depth[x] \in 0 .. n
    OBVIOUS
  <2>2. QED
    BY <2>1
<1>5. ASSUME NEW k \in 1 .. n + 1, Stable(k - 1)
      PROVE  Stable(k)
  <2> SUFFICES ASSUME NEW x \in S, depth[x] < k PROVE g[k][x] = g[k + 1][x]
    OBVIOUS
  <2>1. k - 1 \in 0 .. n + 2 /\ k \in 1 .. n + 2 /\ k + 1 \in 1 .. n + 2 /\ k \in 0 .. n + 2
        /\ (k + 1) - 1 = k /\ (k - 1) + 1 = k
    OBVIOUS
  <2>2. g[k - 1] \in [S -> D] /\ g[k] \in [S -> D]
    BY <1>3, <2>1
  <2>3. g[k] = body[g[k - 1]]
    BY <1>3, <2>1
  <2>4. g[k + 1] = body[g[k]]
    BY <1>3, <2>1
  <2>5. \A y \in S : depth[y] < depth[x] => g[k - 1][y] = g[k][y]
    <3> TAKE y \in S
    <3> HAVE depth[y] < depth[x]
    <3>1. depth[y] \in 0 .. n /\ depth[x] \in 0 .. n
      OBVIOUS
    <3>2. depth[y] < k - 1
      BY <3>1
    <3>3. QED
      BY <1>5, <2>1, <3>2
  <2>6. QED
    BY <2>2, <2>3, <2>4, <2>5 DEF Descends
<1>6. Stable(n + 1)
  <2>1. PICK m \in Nat : m = n + 1
    OBVIOUS
  <2>2. \A k : Stable(k) \in BOOLEAN
    OBVIOUS
  <2> HIDE DEF Stable
  <2> DEFINE stable == [k \in 0 .. m |-> Stable(k)]
             Yes == {TRUE}
  <2>3. \A k \in 0 .. m : stable[k] = Stable(k)
    OBVIOUS
  <2> HIDE DEF stable
  <2>4. stable[0] \in Yes
    <3>1. 0 \in 0 .. m
      BY <2>1
    <3>2. QED
      BY <1>4, <2>2, <2>3, <3>1, Zenon
  <2>5. \A k \in 1 .. m : stable[k - 1] \in Yes => stable[k] \in Yes
    <3> TAKE k \in 1 .. m
    <3>1. k \in 0 .. m /\ k - 1 \in 0 .. m /\ k \in 1 .. n + 1
      BY <2>1
    <3>2. QED
      BY <1>5, <2>2, <2>3, <3>1, Zenon
  <2>6. \A k \in 0 .. m : stable[k] \in Yes
    <3> HIDE DEF Yes
    <3>1. QED
      BY <2>4, <2>5, Kept
  <2>7. m \in 0 .. m
    BY <2>1
  <2>8. Stable(m)
    BY <2>3, <2>6, <2>7, Zenon
  <2>9. QED
    BY <2>1, <2>8, Zenon
<1>7. g[n + 1] \in [S -> D] /\ g[n + 2] \in [S -> D] /\ g[n + 2] = body[g[n + 1]]
  <2>1. n + 1 \in 0 .. n + 2 /\ n + 2 \in 0 .. n + 2 /\ n + 2 \in 1 .. n + 2 /\ (n + 2) - 1 = n + 1
    OBVIOUS
  <2>2. QED
    BY <1>3, <2>1
<1>8. \A x \in S : g[n + 1][x] = g[n + 2][x]
  <2>1. (n + 1) + 1 = n + 2
    OBVIOUS
  <2>2. \A x \in S : depth[x] < n + 1
    OBVIOUS
  <2>3. QED
    BY <1>6, <2>1, <2>2
<1>9. g[n + 1] = g[n + 2]
  BY <1>7, <1>8
<1>10. QED
  BY <1>7, <1>9 DEF Settles

-----------------------------------------------------------------------------
(* Quotient and remainder, ... *)
LEMMA DivMod ==
  ASSUME NEW n \in Nat, NEW w \in Nat \ {0}
  PROVE  \E q \in Nat, r \in 0 .. w - 1 : n = w * q + r /\ r = n % w /\ q = n \div w
OBVIOUS

(* ... multiples of w are at least w apart, ... *)
LEMMA MultiplesApart ==
  ASSUME NEW w \in Nat \ {0}, NEW d \in Int, d # 0
  PROVE  w * d >= w \/ w * d <= -w
<1>1. CASE d >= 1
  BY <1>1
<1>2. CASE d <= -1
  BY <1>2
<1>3. QED
  BY <1>1, <1>2

(* ... so that a number has one quotient and one remainder only, ... *)
LEMMA UniqueDivision ==
  ASSUME NEW w \in Nat \ {0}, NEW q \in Int, NEW r \in 0 .. w - 1, NEW p \in Int,
         NEW s \in 0 .. w - 1, w * q + r = w * p + s
  PROVE  q = p /\ r = s
<1>1. w * (q - p) = s - r
  OBVIOUS
<1>2. q - p = 0
  BY <1>1, MultiplesApart
<1>3. QED
  BY <1>2

(* ... which are unique. *)
LEMMA Division ==
  ASSUME NEW w \in Nat \ {0}, NEW q \in Int, NEW r \in 0 .. w - 1, w * q + r \in Nat
  PROVE  (w * q + r) % w = r /\ (w * q + r) \div w = q
<1>1. PICK p \in Nat, s \in 0 .. w - 1 :
          w * q + r = w * p + s /\ s = (w * q + r) % w /\ p = (w * q + r) \div w
  BY DivMod, Zenon
<1>2. q = p /\ r = s
  BY <1>1, UniqueDivision
<1>3. QED
  BY <1>1, <1>2

(* ... and a remainder may be taken before an addition as well as after it. *)
LEMMA RemainderOfSum ==
  ASSUME NEW a \in Nat, NEW b \in Nat, NEW w \in Nat \ {0}
  PROVE  ((a % w) + b) % w = (a + b) % w
<1>1. PICK q \in Nat, r \in 0 .. w - 1 : a = w * q + r /\ r = a % w
  BY DivMod
<1>2. r + b \in Nat
  BY <1>1
<1>3. PICK p \in Nat, s \in 0 .. w - 1 : r + b = w * p + s /\ s = (r + b) % w
  BY <1>2, DivMod, Zenon
<1>4. w * (q + p) = w * q + w * p /\ w * q \in Int /\ w * p \in Int
  OBVIOUS
<1>5. a = w * q + r
  BY <1>1
<1>6. r + b = w * p + s
  BY <1>3
<1>7. a + b = w * (q + p) + s
  BY <1>4, <1>5, <1>6
<1>8. (w * (q + p) + s) % w = s
  <2>1. q + p \in Int /\ w * (q + p) + s \in Nat
    BY <1>7
  <2>2. QED
    BY <2>1, Division
<1>9. QED
  BY <1>7, <1>8, <1>1, <1>3

(* A number below the divisor is its own remainder. *)
LEMMA SmallRemainder ==
  ASSUME NEW w \in Nat \ {0}, NEW r \in 0 .. w - 1
  PROVE  r % w = r
OBVIOUS

(* Division with rest, also of numbers below 0.                               *)
LEMMA DivRest ==
  ASSUME NEW n \in Int, NEW w \in Nat \ {0}
  PROVE  \E q \in Int, r \in 0 .. w - 1 : n = w * q + r /\ q = n \div w
OBVIOUS

(* The quotients by a number are ordered as what is divided, ... *)
LEMMA QuotientsGrow ==
  ASSUME NEW w \in Nat \ {0}, NEW m \in Int, NEW n \in Int, m <= n
  PROVE  m \div w \in Int /\ n \div w \in Int /\ m \div w <= n \div w
<1>1. PICK q \in Int, r \in 0 .. w - 1 : m = w * q + r /\ q = m \div w
  BY DivRest
<1>2. PICK p \in Int, s \in 0 .. w - 1 : n = w * p + s /\ p = n \div w
  BY DivRest
<1>3. q <= p
  <2> SUFFICES ASSUME q > p PROVE FALSE
    BY <1>1, <1>2
  <2>1. q - p \in Nat \ {0}
    OBVIOUS
  <2>2. w * (q - p) >= w
    BY <2>1
  <2>3. w * (q - p) = w * q - w * p
    OBVIOUS
  <2>4. QED
    BY <1>1, <1>2, <2>2, <2>3
<1>4. QED
  BY <1>1, <1>2, <1>3

(* ... and that of a multiple is the other factor.                            *)
LEMMA QuotientOfMultiple ==
  ASSUME NEW w \in Nat \ {0}, NEW k \in Int
  PROVE  (k * w) \div w = k
<1>1. k * w \in Int /\ k * w = w * k
  OBVIOUS
<1>2. PICK q \in Int, r \in 0 .. w - 1 : k * w = w * q + r /\ q = (k * w) \div w
  BY <1>1, DivRest
<1>3. w * q + r = w * k + 0 /\ 0 \in 0 .. w - 1
  BY <1>1, <1>2
<1>4. q = k
  BY <1>3, UniqueDivision
<1>5. QED
  BY <1>2, <1>4

(* A share of t, on a scale up to k: from 0 to k, and growing.                *)
LEMMA Share ==
  ASSUME NEW k \in Nat, NEW t \in Nat \ {0}, NEW a \in Int, NEW b \in Int, a <= b
  PROVE  /\ (k * a) \div t \in Int /\ (k * b) \div t \in Int
         /\ (k * a) \div t <= (k * b) \div t
         /\ (k * 0) \div t = 0 /\ (k * t) \div t = k
<1>1. k * a \in Int /\ k * b \in Int /\ k * a <= k * b
  <2>1. k * (b - a) >= 0
    <3>1. b - a \in Nat
      OBVIOUS
    <3>2. QED
      BY <3>1
  <2>2. k * (b - a) = k * b - k * a
    OBVIOUS
  <2>3. QED
    BY <2>1, <2>2
<1>2. (k * a) \div t <= (k * b) \div t /\ (k * a) \div t \in Int /\ (k * b) \div t \in Int
  BY <1>1, QuotientsGrow
<1>3. (k * t) \div t = k
  BY QuotientOfMultiple
<1>4. (k * 0) \div t = 0
  <2>1. k * 0 = 0 * t
    OBVIOUS
  <2>2. QED
    BY <2>1, QuotientOfMultiple
<1>5. QED
  BY <1>2, <1>3, <1>4

-----------------------------------------------------------------------------
(* Row after row of w elements: element r of row q is among the elements of   *)
(* the n rows.                                                                *)
LEMMA Flat ==
  ASSUME NEW n \in Int, NEW w \in Int, NEW q \in 0 .. n - 1, NEW r \in 0 .. w - 1
  PROVE  w * q + r \in 0 .. w * n - 1
<1>1. w * q >= 0 /\ w * (n - 1 - q) >= 0
  <2>1. \A a, b \in Nat : a * b >= 0
    OBVIOUS
  <2>2. w \in Nat /\ q \in Nat /\ n - 1 - q \in Nat
    OBVIOUS
  <2>3. QED
    BY <2>1, <2>2
<1>2. w * (n - 1 - q) = w * n - w - w * q
  OBVIOUS
<1>3. w * n \in Int /\ w * q \in Int
  OBVIOUS
<1>4. QED
  BY <1>1, <1>2, <1>3
=============================================================================
