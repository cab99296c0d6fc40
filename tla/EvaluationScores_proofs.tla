---------------------- MODULE EvaluationScores_proofs ----------------------
(***************************************************************************)
(* Proofs about what evaluation runs measure: for all datasets, rankings   *)
(* and answers, the metrics of an item agree with each other and with its  *)
(* failure category, the conditions of a run add up to the whole, and the  *)
(* heatmap shows what was measured.                                        *)
(*                                                                         *)
(* A mean is the quotient of a sum and a count.  Sums are those of a       *)
(* recursive function; what it yields is shown from its definition by      *)
(* taking the least position at which a claim fails.                       *)
(***************************************************************************)
EXTENDS EvaluationScores, FiniteSetTheorems, SequenceTheorems, WellFoundedInduction, TLAPS

\* Quotients that are defined, and what a metric may be.
Frac == [num : Nat, den : Nat \ {0}]
Value == Frac \cup {Undefined}
-----------------------------------------------------------------------------
(* Quotients.                                                              *)

\* Products of natural numbers, as the provers need them.
LEMMA Products ==
  ASSUME NEW a \in Nat, NEW b \in Nat
  PROVE  /\ a * b \in Nat /\ a * b = b * a
         /\ \A c \in Nat : (a * b) * c = a * (b * c) /\ a * (b + c) = a * b + a * c
         /\ a # 0 /\ b # 0 => a * b # 0
  OBVIOUS

\* A factor can be cancelled.
LEMMA Cancel ==
  ASSUME NEW a \in Nat, NEW b \in Nat, NEW c \in Nat \ {0}
  PROVE  a * c = b * c <=> a = b
  OBVIOUS

\* A sum of quotients is a quotient.
LEMMA PlusIsFrac ==
  ASSUME NEW a \in Frac, NEW b \in Frac
  PROVE  /\ Plus(a, b) \in Frac
         /\ Plus(a, b).num = a.num * b.den + b.num * a.den
         /\ Plus(a, b).den = a.den * b.den
<1>1. a.num * b.den + b.num * a.den \in Nat /\ a.den * b.den \in Nat \ {0}
  <2>1. a.num \in Nat /\ b.num \in Nat /\ a.den \in Nat \ {0} /\ b.den \in Nat \ {0}
    BY DEF Frac
  <2>2. a.num * b.den \in Nat /\ b.num * a.den \in Nat /\ a.den * b.den \in Nat \ {0}
    BY <2>1, Products
  <2> QED BY <2>2
<1> QED BY <1>1 DEF Plus, Ratio, Frac

\* Quotients with equal parts are one.
LEMMA FracsAreEqual ==
  ASSUME NEW a \in Frac, NEW b \in Frac, a.num = b.num, a.den = b.den
  PROVE  a = b
  BY DEF Frac

\* Adding up is exact: it does not depend on the order.
LEMMA PlusCommutes ==
  ASSUME NEW a \in Frac, NEW b \in Frac
  PROVE  Plus(a, b) = Plus(b, a)
<1>1. a.num \in Nat /\ b.num \in Nat /\ a.den \in Nat \ {0} /\ b.den \in Nat \ {0}
  BY DEF Frac
<1>2. a.den * b.den = b.den * a.den
  BY <1>1, Products
<1>3. a.num * b.den + b.num * a.den = b.num * a.den + a.num * b.den
  <2>1. a.num * b.den \in Nat /\ b.num * a.den \in Nat
    BY <1>1, Products
  <2> QED BY <2>1
<1> QED BY <1>2, <1>3, PlusIsFrac, FracsAreEqual

\* The same for the products alone.
LEMMA SumsAssociate ==
  ASSUME NEW a \in Nat, NEW b \in Nat, NEW c \in Nat, NEW x \in Nat, NEW y \in Nat, NEW z \in Nat
  PROVE  (a * y + b * x) * z + c * (x * y) = a * (y * z) + (b * z + c * y) * x
<1>1. /\ a * y \in Nat /\ b * x \in Nat /\ x * y \in Nat /\ y * z \in Nat
      /\ b * z \in Nat /\ c * y \in Nat
  BY Products
<1>2. (a * y + b * x) * z = (a * y) * z + (b * x) * z
  <2> PICK m, n \in Nat : m = a * y /\ n = b * x
    BY <1>1
  <2>1. (m + n) * z = m * z + n * z
    BY Products
  <2> QED BY <2>1
<1>3. (b * z + c * y) * x = (b * z) * x + (c * y) * x
  <2> PICK m, n \in Nat : m = b * z /\ n = c * y
    BY <1>1
  <2>1. (m + n) * x = m * x + n * x
    BY Products
  <2> QED BY <2>1
<1>4. (a * y) * z = a * (y * z)
  BY Products
<1>5. (b * x) * z = (b * z) * x
  <2>1. (b * x) * z = b * (x * z) /\ (b * z) * x = b * (z * x) /\ x * z = z * x
    BY Products
  <2> QED BY <2>1
<1>6. c * (x * y) = (c * y) * x
  <2>1. (c * y) * x = c * (y * x) /\ x * y = y * x
    BY Products
  <2> QED BY <2>1
<1>7. /\ (a * y) * z \in Nat /\ (b * x) * z \in Nat /\ c * (x * y) \in Nat
  <2>1. \A m, n \in Nat : m * n \in Nat
    BY Products
  <2> QED BY <1>1, <2>1
<1> QED BY <1>2, <1>3, <1>4, <1>5, <1>6, <1>7

\* Nor on how summands are grouped.
LEMMA PlusAssociates ==
  ASSUME NEW a \in Frac, NEW b \in Frac, NEW c \in Frac
  PROVE  Plus(Plus(a, b), c) = Plus(a, Plus(b, c))
<1>1. /\ a.num \in Nat /\ b.num \in Nat /\ c.num \in Nat
      /\ a.den \in Nat /\ b.den \in Nat /\ c.den \in Nat
  BY DEF Frac
<1>2. Plus(a, b) \in Frac /\ Plus(b, c) \in Frac
  BY PlusIsFrac
<1>3. /\ Plus(Plus(a, b), c) \in Frac /\ Plus(a, Plus(b, c)) \in Frac
      /\ Plus(Plus(a, b), c).den = (a.den * b.den) * c.den
      /\ Plus(a, Plus(b, c)).den = a.den * (b.den * c.den)
  BY <1>2, PlusIsFrac
<1>4. /\ Plus(Plus(a, b), c).num = (a.num * b.den + b.num * a.den) * c.den + c.num * (a.den * b.den)
      /\ Plus(a, Plus(b, c)).num = a.num * (b.den * c.den) + (b.num * c.den + c.num * b.den) * a.den
  BY <1>2, PlusIsFrac
<1>5. (a.den * b.den) * c.den = a.den * (b.den * c.den)
  BY <1>1, Products
<1>6. Plus(Plus(a, b), c).num = Plus(a, Plus(b, c)).num
  BY <1>1, <1>4, SumsAssociate
<1> QED BY <1>3, <1>5, <1>6, FracsAreEqual

\* Equality by cross multiplication is transitive.
LEMMA EqualComposes ==
  ASSUME NEW a \in Frac, NEW b \in Frac, NEW c \in Frac, Equal(a, b), Equal(b, c)
  PROVE  Equal(a, c)
<1>1. PICK p, r, t \in Nat, q, s, u \in Nat \ {0} :
        /\ a.num = p /\ b.num = r /\ c.num = t /\ a.den = q /\ b.den = s /\ c.den = u
  BY DEF Frac
<1>2. p * s = r * q /\ r * u = t * s
  BY <1>1 DEF Equal
<1>3. (p * u) * s = (p * s) * u
  <2>1. (p * u) * s = p * (u * s) /\ (p * s) * u = p * (s * u) /\ u * s = s * u
    BY Products
  <2> QED BY <2>1
<1>4. (r * q) * u = (r * u) * q
  <2>1. (r * q) * u = r * (q * u) /\ (r * u) * q = r * (u * q) /\ u * q = q * u
    BY Products
  <2> QED BY <2>1
<1>5. (t * s) * q = (t * q) * s
  <2>1. (t * s) * q = t * (s * q) /\ (t * q) * s = t * (q * s) /\ s * q = q * s
    BY Products
  <2> QED BY <2>1
<1>6. (p * u) * s = (t * q) * s
  BY <1>2, <1>3, <1>4, <1>5
<1>7. p * u \in Nat /\ t * q \in Nat
  BY Products
<1>8. p * u = t * q
  BY <1>6, <1>7, Cancel
<1> QED BY <1>1, <1>8 DEF Equal

\* Equals may be added to equals.
LEMMA PlusKeepsEqual ==
  ASSUME NEW a \in Frac, NEW b \in Frac, NEW c \in Frac, Equal(a, b)
  PROVE  Equal(Plus(a, c), Plus(b, c))
<1>1. PICK p, r, t \in Nat, q, s, u \in Nat \ {0} :
        /\ a.num = p /\ b.num = r /\ c.num = t /\ a.den = q /\ b.den = s /\ c.den = u
  BY DEF Frac
<1>2. p * s = r * q
  BY <1>1 DEF Equal
<1>3. /\ Plus(a, c).num = p * u + t * q /\ Plus(a, c).den = q * u
      /\ Plus(b, c).num = r * u + t * s /\ Plus(b, c).den = s * u
  BY <1>1, PlusIsFrac
<1>4. \A m, n \in Nat : m * n \in Nat
  BY Products
<1>5. \A k, l, m, n \in Nat : (k * l) * (m * n) = (k * m) * (l * n)
  <2> SUFFICES ASSUME NEW k \in Nat, NEW l \in Nat, NEW m \in Nat, NEW n \in Nat
               PROVE  (k * l) * (m * n) = (k * m) * (l * n)
    OBVIOUS
  <2>1. m * n \in Nat /\ l * n \in Nat /\ l * m \in Nat /\ m * l \in Nat
    BY <1>4
  <2>2. (k * l) * (m * n) = k * (l * (m * n)) /\ (k * m) * (l * n) = k * (m * (l * n))
    BY <2>1, Products
  <2>3. l * (m * n) = (l * m) * n /\ m * (l * n) = (m * l) * n /\ l * m = m * l
    BY Products
  <2> QED BY <2>2, <2>3
<1>6. (p * u + t * q) * (s * u) = (p * u) * (s * u) + (t * q) * (s * u)
  <2> PICK m, n, k \in Nat : m = p * u /\ n = t * q /\ k = s * u
    BY <1>4
  <2>1. (m + n) * k = m * k + n * k
    BY Products
  <2> QED BY <2>1
<1>7. (r * u + t * s) * (q * u) = (r * u) * (q * u) + (t * s) * (q * u)
  <2> PICK m, n, k \in Nat : m = r * u /\ n = t * s /\ k = q * u
    BY <1>4
  <2>1. (m + n) * k = m * k + n * k
    BY Products
  <2> QED BY <2>1
<1>8. (p * u) * (s * u) = (r * u) * (q * u)
  <2>1. (p * u) * (s * u) = (p * s) * (u * u) /\ (r * u) * (q * u) = (r * q) * (u * u)
    BY <1>5
  <2> QED BY <1>2, <2>1
<1>9. (t * q) * (s * u) = (t * s) * (q * u)
  BY <1>5
<1> QED BY <1>3, <1>6, <1>7, <1>8, <1>9 DEF Equal

-----------------------------------------------------------------------------
(* Sums.                                                                   *)

\* Some of finitely many numbers is the least.
LEMMA LeastIsThere ==
  ASSUME NEW S \in SUBSET Nat, S # {}
  PROVE  \E x \in S : \A y \in S : x <= y
<1> DEFINE R == {ss \in Nat \X Nat : ss[1] < ss[2]}
<1>1. IsWellFoundedOn(R, Nat)
  BY NatLessThanWellFounded DEF OpToRel
<1> HIDE DEF R
<1>2. PICK x \in S : \A y \in S : ~ (<<y, x>> \in R)
  BY <1>1, WFMin, Zenon
<1>3. \A y \in S : x <= y
  <2> TAKE y \in S
  <2>1. ~ (<<y, x>> \in R)
    BY <1>2
  <2>2. ~ (y < x)
    BY <2>1 DEF R
  <2> QED BY <2>2
<1> QED BY <1>3

\* The value at a position that a sum takes in.
Counts(values, i) == i \in DOMAIN values /\ IsDefined(values[i])
TakeIn(values, before, n) == IF Counts(values, n) THEN Plus(before, values[n]) ELSE before

\* A sum is what its definition says.
LEMMA SumToIsDefined ==
  ASSUME NEW values, NEW last \in Nat
  PROVE  /\ SumTo(values, last)[0] = Zero
         /\ \A n \in 1..last :
              SumTo(values, last)[n] = TakeIn(values, SumTo(values, last)[n - 1], n)
<1> DEFINE Step(f, n) == IF n = 0 THEN Zero ELSE TakeIn(values, f[n - 1], n)
           IsUpTo(f, m) == f = [n \in 0..m |-> Step(f, n)]
           bad == {m \in 0..last : ~ \E f : IsUpTo(f, m)}
<1>1. bad = {}
  <2> SUFFICES ASSUME bad # {} PROVE FALSE
    OBVIOUS
  <2> HIDE DEF TakeIn
  <2>1. bad \in SUBSET Nat
    OBVIOUS
  <2>2. PICK m \in bad : \A y \in bad : m <= y
    BY <2>1, LeastIsThere
  <2>3. m \in 0..last /\ ~ \E f : IsUpTo(f, m)
    BY <2>2
  <2>4. m # 0
    <3>1. IsUpTo([n \in 0..0 |-> Zero], 0)
      OBVIOUS
    <3> QED BY <3>1, <2>3
  <2>5. m - 1 \in 0..last /\ m - 1 \notin bad
    <3>1. m \in Nat /\ m - 1 \in 0..last /\ ~ (m <= m - 1)
      BY <2>3, <2>4
    <3> QED BY <3>1, <2>2
  <2>6. PICK f : IsUpTo(f, m - 1)
    BY <2>5
  <2> DEFINE g == [n \in 0..m |-> IF n = m THEN TakeIn(values, f[m - 1], m) ELSE f[n]]
  <2>7. ASSUME NEW n \in 0..m PROVE g[n] = Step(g, n)
    <3>1. CASE n = m
      <4>1. g[m - 1] = f[m - 1]
        BY <2>3, <2>4
      <4> QED BY <3>1, <4>1, <2>3, <2>4
    <3>2. CASE n # m
      <4>1. n \in 0..(m - 1) /\ f[n] = Step(f, n)
        BY <3>2, <2>3, <2>4, <2>6
      <4>2. n # 0 => n - 1 \in 0..m /\ n - 1 # m /\ g[n - 1] = f[n - 1]
        BY <4>1, <2>3, <2>4
      <4> QED BY <3>2, <4>1, <4>2
    <3> QED BY <3>1, <3>2
  <2>8. IsUpTo(g, m)
    BY <2>7
  <2> QED BY <2>8, <2>3
<1>2. \E f : IsUpTo(f, last)
  BY <1>1
<1>3. SumTo(values, last) = CHOOSE f : IsUpTo(f, last)
  BY DEF SumTo, TakeIn, Counts
<1>4. IsUpTo(SumTo(values, last), last)
  BY <1>2, <1>3
<1> HIDE DEF IsUpTo
<1>5. \A n \in 0..last : SumTo(values, last)[n] = Step(SumTo(values, last), n)
  BY <1>4 DEF IsUpTo
<1>6. SumTo(values, last)[0] = Zero
  BY <1>5
<1>7. ASSUME NEW n \in 1..last
      PROVE  SumTo(values, last)[n] = TakeIn(values, SumTo(values, last)[n - 1], n)
  <2>1. n \in 0..last /\ n # 0
    OBVIOUS
  <2> QED BY <2>1, <1>5
<1> QED BY <1>6, <1>7

\* What holds of the empty sum and is kept by every step holds of every sum.
LEMMA SumInduction ==
  ASSUME NEW last \in Nat, NEW good \in SUBSET (0..last), 0 \in good,
         \A n \in 1..last : n - 1 \in good => n \in good
  PROVE  good = 0..last
<1> DEFINE bad == (0..last) \ good
<1> SUFFICES ASSUME bad # {} PROVE FALSE
  OBVIOUS
<1>0. bad \in SUBSET Nat
  OBVIOUS
<1>1. PICK m \in bad : \A y \in bad : m <= y
  BY <1>0, LeastIsThere
<1>2. m \in 1..last /\ m - 1 \in 0..last /\ ~ (m <= m - 1)
  BY <1>1
<1> QED BY <1>1, <1>2

\* Every sum is a quotient that is defined.
LEMMA SumIsFrac ==
  ASSUME NEW values, \A i \in DOMAIN values : values[i] \in Value, NEW last \in Nat, NEW n \in 0..last
  PROVE  SumTo(values, last)[n] \in Frac
<1> DEFINE good == {m \in 0..last : SumTo(values, last)[m] \in Frac}
<1>1. 0 \in good
  <2>1. Zero \in Frac
    BY DEF Zero, Frac, Ratio
  <2> QED BY <2>1, SumToIsDefined
<1>2. ASSUME NEW m \in 1..last, m - 1 \in good
      PROVE  m \in good
  <2>1. SumTo(values, last)[m] = TakeIn(values, SumTo(values, last)[m - 1], m)
    BY SumToIsDefined
  <2>2. Counts(values, m) => values[m] \in Frac
    BY DEF Counts, Value, IsDefined, Undefined, Ratio
  <2> QED BY <1>2, <2>1, <2>2, PlusIsFrac DEF TakeIn
<1>3. good = 0..last
  <2> HIDE DEF good
  <2>1. good \in SUBSET (0..last)
    BY DEF good
  <2> QED BY <1>1, <1>2, <2>1, SumInduction
<1> QED BY <1>3

\* How far a sum goes on does not change what it is up to a position.
LEMMA SumGoesOn ==
  ASSUME NEW v, NEW last \in Nat, NEW other \in Nat, NEW n \in 0..last, n <= other
  PROVE  SumTo(v, last)[n] = SumTo(v, other)[n]
<1> DEFINE good == {m \in 0..n : SumTo(v, last)[m] = SumTo(v, other)[m]}
<1>1. 0 \in good
  BY SumToIsDefined
<1>2. ASSUME NEW m \in 1..n, m - 1 \in good
      PROVE  m \in good
  <2>1. m \in 1..last /\ m \in 1..other
    OBVIOUS
  <2>2. /\ SumTo(v, last)[m] = TakeIn(v, SumTo(v, last)[m - 1], m)
        /\ SumTo(v, other)[m] = TakeIn(v, SumTo(v, other)[m - 1], m)
    BY <2>1, SumToIsDefined
  <2> QED BY <1>2, <2>2 DEF TakeIn
<1>3. good = 0..n
  <2> HIDE DEF good
  <2>1. good \in SUBSET (0..n) /\ n \in Nat
    BY DEF good
  <2> QED BY <1>1, <1>2, <2>1, SumInduction
<1> QED BY <1>3

\* Sums that take in the same are the same.
LEMMA SumsAgree ==
  ASSUME NEW v, NEW w, NEW last \in Nat,
         \A i \in 1..last : (Counts(v, i) <=> Counts(w, i)) /\ (Counts(v, i) => v[i] = w[i])
  PROVE  SumTo(v, last)[last] = SumTo(w, last)[last]
<1> DEFINE good == {m \in 0..last : SumTo(v, last)[m] = SumTo(w, last)[m]}
<1>1. 0 \in good
  BY SumToIsDefined
<1>2. ASSUME NEW m \in 1..last, m - 1 \in good
      PROVE  m \in good
  <2>1. /\ SumTo(v, last)[m] = TakeIn(v, SumTo(v, last)[m - 1], m)
        /\ SumTo(w, last)[m] = TakeIn(w, SumTo(w, last)[m - 1], m)
    BY SumToIsDefined
  <2> QED BY <1>2, <2>1 DEF TakeIn
<1>3. good = 0..last
  <2> HIDE DEF good
  <2>1. good \in SUBSET (0..last)
    BY DEF good
  <2> QED BY <1>1, <1>2, <2>1, SumInduction
<1>4. last \in 0..last
  OBVIOUS
<1> QED BY <1>3, <1>4

\* Where nothing is taken in, a sum does not change.
LEMMA SumStops ==
  ASSUME NEW v, NEW last \in Nat, NEW n \in 0..last, \A i \in (n + 1)..last : ~Counts(v, i)
  PROVE  SumTo(v, last)[last] = SumTo(v, last)[n]
<1> DEFINE good == {m \in 0..last : m >= n => SumTo(v, last)[m] = SumTo(v, last)[n]}
<1>1. 0 \in good
  OBVIOUS
<1>2. ASSUME NEW m \in 1..last, m - 1 \in good
      PROVE  m \in good
  <2>1. SumTo(v, last)[m] = TakeIn(v, SumTo(v, last)[m - 1], m)
    BY SumToIsDefined
  <2>2. CASE m <= n
    BY <2>2
  <2>3. CASE m > n
    <3>1. m \in (n + 1)..last /\ m - 1 >= n
      BY <2>3
    <3> QED BY <1>2, <2>1, <3>1 DEF TakeIn
  <2> QED BY <2>2, <2>3
<1>3. good = 0..last
  <2> HIDE DEF good
  <2>1. good \in SUBSET (0..last)
    BY DEF good
  <2> QED BY <1>1, <1>2, <2>1, SumInduction
<1>4. last \in good
  BY <1>3
<1> QED BY <1>4

\* A total may be taken up to any position behind the last.
LEMMA TotalIsSum ==
  ASSUME NEW v, NEW last \in Nat, DOMAIN v \subseteq 1..last
  PROVE  Total(v) = SumTo(v, last)[last]
<1> DEFINE S == DOMAIN v \cup {0}
           top == Max(S)
<1>1. top \in S /\ \A x \in S : top >= x
  <2> DEFINE D == {last - x : x \in S}
  <2>1. D \in SUBSET Nat /\ D # {}
    OBVIOUS
  <2>2. PICK d \in D : \A y \in D : d <= y
    BY <2>1, LeastIsThere
  <2>3. PICK x \in S : d = last - x
    OBVIOUS
  <2>4. \A y \in S : x >= y
    <3> TAKE y \in S
    <3>1. last - y \in D /\ y \in 0..last /\ x \in 0..last
      OBVIOUS
    <3> HIDE DEF S, D
    <3>2. d <= last - y
      BY <2>2, <3>1
    <3> QED BY <2>3, <3>1, <3>2
  <2> HIDE DEF S
  <2>5. \E z \in S : \A y \in S : z >= y
    BY <2>4
  <2> QED BY <2>5 DEF Max
<1>2. top \in 0..last /\ top \in Nat
  BY <1>1
<1>3. Total(v) = SumTo(v, top)[top]
  BY DEF Total
<1> HIDE DEF top
<1>4. SumTo(v, top)[top] = SumTo(v, last)[top]
  BY <1>2, SumGoesOn
<1>5. SumTo(v, last)[last] = SumTo(v, last)[top]
  <2>1. \A i \in (top + 1)..last : ~Counts(v, i)
    BY <1>1, <1>2 DEF Counts
  <2> QED BY <1>2, <2>1, SumStops
<1> QED BY <1>3, <1>4, <1>5

\* What two sums take in between them, each position once, sums up to both.
LEMMA SumsJoin ==
  ASSUME NEW last \in Nat, NEW a, NEW b, NEW w,
         \A i \in DOMAIN a : a[i] \in Value, \A i \in DOMAIN b : b[i] \in Value,
         \A i \in 1..last :
           /\ Counts(w, i) <=> Counts(a, i) \/ Counts(b, i)
           /\ ~(Counts(a, i) /\ Counts(b, i))
           /\ (Counts(a, i) => w[i] = a[i]) /\ (Counts(b, i) => w[i] = b[i])
  PROVE  SumTo(w, last)[last] = Plus(SumTo(a, last)[last], SumTo(b, last)[last])
<1> DEFINE A(n) == SumTo(a, last)[n]
           B(n) == SumTo(b, last)[n]
           W(n) == SumTo(w, last)[n]
           good == {m \in 0..last : W(m) = Plus(A(m), B(m))}
<1>1. 0 \in good
  <2>1. Plus(Zero, Zero) = Zero
    BY DEF Plus, Zero, Ratio
  <2> QED BY <2>1, SumToIsDefined
<1>2. ASSUME NEW m \in 1..last, m - 1 \in good
      PROVE  m \in good
  <2>1. A(m) = TakeIn(a, A(m - 1), m) /\ B(m) = TakeIn(b, B(m - 1), m) /\ W(m) = TakeIn(w, W(m - 1), m)
    BY SumToIsDefined
  <2>2. m - 1 \in 0..last
    OBVIOUS
  <2>3. A(m - 1) \in Frac /\ B(m - 1) \in Frac
    BY <2>2, SumIsFrac
  <2>4. W(m - 1) = Plus(A(m - 1), B(m - 1))
    BY <1>2
  <2> PICK p \in Frac, q \in Frac : p = A(m - 1) /\ q = B(m - 1)
    BY <2>3
  <2>5. A(m) = TakeIn(a, p, m) /\ B(m) = TakeIn(b, q, m) /\ W(m) = TakeIn(w, Plus(p, q), m)
    BY <2>1, <2>4
  <2> HIDE DEF A, B, W
  <2>6. CASE Counts(a, m)
    <3>1. w[m] = a[m] /\ Counts(w, m) /\ ~Counts(b, m)
      BY <2>6
    <3>2. a[m] \in Frac
      BY <2>6 DEF Counts, Value, IsDefined, Undefined, Ratio
    <3>3. Plus(Plus(p, q), a[m]) = Plus(Plus(p, a[m]), q)
      <4>1. Plus(Plus(p, q), a[m]) = Plus(p, Plus(q, a[m]))
        BY <3>2, PlusAssociates
      <4>2. Plus(Plus(p, a[m]), q) = Plus(p, Plus(a[m], q))
        BY <3>2, PlusAssociates
      <4>3. Plus(q, a[m]) = Plus(a[m], q)
        BY <3>2, PlusCommutes
      <4> QED BY <4>1, <4>2, <4>3
    <3> QED BY <2>5, <2>6, <3>1, <3>3 DEF TakeIn
  <2>7. CASE Counts(b, m)
    <3>1. w[m] = b[m] /\ Counts(w, m) /\ ~Counts(a, m)
      BY <2>7
    <3>2. b[m] \in Frac
      BY <2>7 DEF Counts, Value, IsDefined, Undefined, Ratio
    <3>3. Plus(Plus(p, q), b[m]) = Plus(p, Plus(q, b[m]))
      BY <3>2, PlusAssociates
    <3> QED BY <2>5, <2>7, <3>1, <3>3 DEF TakeIn
  <2>8. CASE ~Counts(a, m) /\ ~Counts(b, m)
    BY <2>5, <2>8 DEF TakeIn
  <2> QED BY <2>6, <2>7, <2>8
<1>3. good = 0..last
  <2> HIDE DEF good
  <2>1. good \in SUBSET (0..last)
    BY DEF good
  <2> QED BY <1>1, <1>2, <2>1, SumInduction
<1>4. last \in good
  BY <1>3
<1> QED BY <1>4

-----------------------------------------------------------------------------
(* Parts of a whole.                                                       *)

\* Numbers add up exactly.
LEMMA NumbersAdd ==
  ASSUME NEW m \in Nat, NEW n \in Nat
  PROVE  /\ Ratio(m, 1) \in Frac /\ IsDefined(Ratio(m, 1))
         /\ Plus(Ratio(m, 1), Ratio(n, 1)) = Ratio(m + n, 1)
<1>1. m * 1 + n * 1 = m + n /\ 1 * 1 = 1
  OBVIOUS
<1> QED BY <1>1 DEF Ratio, Frac, IsDefined, Plus

\* The elements of P that have a key.
Under(P, key, k) == {p \in P : key[p] = k}

\* Each of D has one of the keys, and no key occurs twice.
Splits(parts, keys, D, key) ==
  /\ parts \in Nat
  /\ \A g, h \in 1..parts : keys[g] = keys[h] => g = h
  /\ \A p \in D : \E g \in 1..parts : keys[g] = key[p]

\* How many of P have each key.
CountsOf(numbers, P, key, parts, keys) ==
  /\ DOMAIN numbers = 1..parts
  /\ \A g \in 1..parts : numbers[g] = Cardinality(Under(P, key, keys[g]))

\* The elements by key are as many as there are.
LEMMA CountsAddUp ==
  ASSUME NEW P, IsFiniteSet(P), NEW key, NEW parts, NEW keys, Splits(parts, keys, P, key),
         NEW numbers, CountsOf(numbers, P, key, parts, keys)
  PROVE  CountOf(numbers) = Ratio(Cardinality(P), 1)
<1>0. parts \in Nat
  BY DEF Splits
<1> USE DEF Under, Splits, CountsOf
<1> DEFINE v == [g \in 1..parts |-> Ratio(numbers[g], 1)]
           Upto(n) == {p \in P : \E g \in 1..n : keys[g] = key[p]}
           Part(n) == {p \in P : key[p] = keys[n]}
           good == {n \in 0..parts : SumTo(v, parts)[n] = Ratio(Cardinality(Upto(n)), 1)}
<1>1. CountOf(numbers) = SumTo(v, parts)[parts]
  <2>1. CountOf(numbers) = Total(v)
    BY DEF CountOf
  <2>2. DOMAIN v \subseteq 1..parts
    OBVIOUS
  <2> HIDE DEF v
  <2> QED BY <2>1, <2>2, TotalIsSum
<1>2. \A n \in 0..parts : IsFiniteSet(Upto(n)) /\ Cardinality(Upto(n)) \in Nat
  BY FS_Subset, FS_CardinalityType
<1>3. \A n \in 1..parts : IsFiniteSet(Part(n)) /\ Cardinality(Part(n)) \in Nat
  BY FS_Subset, FS_CardinalityType
<1>4. 0 \in good
  <2>1. Upto(0) = {}
    OBVIOUS
  <2>2. Cardinality(Upto(0)) = 0
    BY <2>1, FS_EmptySet
  <2>3. 0 \in 0..parts /\ SumTo(v, parts)[0] = Zero
    BY SumToIsDefined
  <2> HIDE DEF v, Upto
  <2> QED BY <2>2, <2>3 DEF Zero
<1>5. ASSUME NEW n \in 1..parts, n - 1 \in good
      PROVE  n \in good
  <2>1. SumTo(v, parts)[n] = TakeIn(v, SumTo(v, parts)[n - 1], n)
    BY SumToIsDefined
  <2>2. /\ Upto(n) = Upto(n - 1) \cup Part(n)
        /\ Upto(n - 1) \cap Part(n) = {}
    <3>1. 1..n = 1..(n - 1) \cup {n}
      OBVIOUS
    <3>2. \A g \in 1..(n - 1) : g \in 1..parts /\ g # n
      OBVIOUS
    <3>3. Upto(n) = Upto(n - 1) \cup Part(n)
      BY <3>1
    <3>4. \A p \in P : ~(p \in Upto(n - 1) /\ p \in Part(n))
      BY <3>2
    <3> QED BY <3>3, <3>4
  <2>3. n - 1 \in 0..parts
    OBVIOUS
  <2> PICK b, c \in Nat : b = Cardinality(Upto(n - 1)) /\ c = Cardinality(Part(n))
    BY <1>2, <1>3, <2>3
  <2>4. Cardinality(Upto(n)) = b + c
    <3>1. IsFiniteSet(Upto(n - 1)) /\ IsFiniteSet(Part(n))
      BY <1>2, <1>3, <2>3
    <3> HIDE DEF Upto, Part
    <3>2. Cardinality(Upto(n - 1) \cup Part(n))
            = Cardinality(Upto(n - 1)) + Cardinality(Part(n)) - Cardinality(Upto(n - 1) \cap Part(n))
      BY <3>1, FS_Union
    <3>3. Cardinality(Upto(n - 1) \cap Part(n)) = 0
      BY <2>2, FS_EmptySet
    <3>4. Cardinality(Upto(n)) = b + c - 0
      BY <2>2, <3>2, <3>3
    <3> QED BY <3>4
  <2>5. v[n] = Ratio(c, 1) /\ Counts(v, n)
    BY NumbersAdd DEF Counts
  <2>6. SumTo(v, parts)[n - 1] = Ratio(b, 1)
    BY <1>5
  <2> HIDE DEF v, Upto, Part
  <2>7. SumTo(v, parts)[n] = Ratio(b + c, 1)
    BY <2>1, <2>5, <2>6, NumbersAdd DEF TakeIn
  <2> QED BY <2>4, <2>7
<1>6. good = 0..parts
  <2> HIDE DEF good
  <2>1. good \in SUBSET (0..parts)
    BY DEF good
  <2> QED BY <1>4, <1>5, <2>1, SumInduction
<1>7. SumTo(v, parts)[parts] = Ratio(Cardinality(Upto(parts)), 1)
  <2>1. parts \in 0..parts
    OBVIOUS
  <2> HIDE DEF v, Upto
  <2> QED BY <1>6, <2>1
<1>8. Upto(parts) = P
  OBVIOUS
<1> HIDE DEF v, Upto
<1> QED BY <1>1, <1>7, <1>8

\* The values at the positions of one key, and at those of the first n keys.
PartOf(v, key, k) == [i \in {j \in DOMAIN v : key[j] = k} |-> v[i]]
FirstParts(v, key, keys, n) == [i \in {j \in DOMAIN v : \E g \in 1..n : keys[g] = key[j]} |-> v[i]]

\* Values at positions 1 to last.
AreValues(v, last) == last \in Nat /\ DOMAIN v = 1..last /\ \A i \in 1..last : v[i] \in Value

\* The sum of the values at one key, which is defined if one of them is.
IsSumOfPart(sum, v, last, key, k) ==
  IF IsDefined(sum) THEN Equal(sum, Total(PartOf(v, key, k)))
  ELSE \A i \in 1..last : Counts(v, i) => key[i] # k

SumsOf(sums, v, last, key, parts, keys) ==
  \A g \in 1..parts : IsSumOfPart(sums[g], v, last, key, keys[g])

\* What the parts sum up to, each in its own quotient, is what the whole sums up to.
LEMMA SumsAddUp ==
  ASSUME NEW last, NEW v, AreValues(v, last),
         NEW key, NEW parts, NEW keys, Splits(parts, keys, 1..last, key),
         NEW sums, AreValues(sums, parts), SumsOf(sums, v, last, key, parts, keys)
  PROVE  Equal(Total(sums), Total(v))
<1>0. last \in Nat /\ parts \in Nat
  BY DEF AreValues
<1> USE DEF AreValues, Splits, SumsOf, IsSumOfPart
<1>1. PICK first, part :
        /\ first = [n \in 0..parts |-> FirstParts(v, key, keys, n)]
        /\ part = [n \in 1..parts |-> PartOf(v, key, keys[n])]
  OBVIOUS
<1>2. \A n \in 0..parts :
        /\ \A i \in 1..last :
             /\ Counts(first[n], i) <=> Counts(v, i) /\ \E g \in 1..n : keys[g] = key[i]
             /\ Counts(first[n], i) => first[n][i] = v[i]
        /\ \A i \in DOMAIN first[n] : first[n][i] \in Value
  BY <1>1 DEF Counts, FirstParts
<1>3. \A n \in 1..parts :
        /\ \A i \in 1..last :
             /\ Counts(part[n], i) <=> Counts(v, i) /\ key[i] = keys[n]
             /\ Counts(part[n], i) => part[n][i] = v[i]
        /\ \A i \in DOMAIN part[n] : part[n][i] \in Value
        /\ DOMAIN part[n] \subseteq 1..last
        /\ part[n] = PartOf(v, key, keys[n])
  BY <1>1 DEF Counts, PartOf
<1> DEFINE Whole(n) == SumTo(first[n], last)[last]
           Sum(n) == SumTo(sums, parts)[n]
           good == {n \in 0..parts : Equal(Sum(n), Whole(n))}
<1>4. \A n \in 0..parts : Sum(n) \in Frac /\ Whole(n) \in Frac
  <2> TAKE n \in 0..parts
  <2>1. last \in 0..last
    OBVIOUS
  <2>2. SumTo(sums, parts)[n] \in Frac
    BY SumIsFrac
  <2>3. SumTo(first[n], last)[last] \in Frac
    BY <1>2, <2>1, SumIsFrac
  <2> QED BY <2>2, <2>3
<1>5. 0 \in good
  <2>1. Sum(0) = Zero
    BY SumToIsDefined
  <2>2. Whole(0) = Zero
    <3>1. 0 \in 0..parts /\ 0 \in 0..last /\ ~ \E g \in 1..0 : TRUE
      OBVIOUS
    <3>2. \A i \in (0 + 1)..last : ~Counts(first[0], i)
      BY <1>2, <3>1
    <3>3. SumTo(first[0], last)[last] = SumTo(first[0], last)[0]
      BY <3>1, <3>2, SumStops
    <3> QED BY <3>3, SumToIsDefined
  <2>3. Equal(Zero, Zero)
    BY DEF Equal
  <2>4. 0 \in 0..parts
    OBVIOUS
  <2> HIDE DEF Sum, Whole
  <2> QED BY <2>1, <2>2, <2>3, <2>4
<1>6. ASSUME NEW n \in 1..parts, n - 1 \in good
      PROVE  n \in good
  <2>1. Sum(n) = TakeIn(sums, Sum(n - 1), n)
    BY SumToIsDefined
  <2>2. n - 1 \in 0..parts /\ n \in 0..parts /\ Equal(Sum(n - 1), Whole(n - 1))
    BY <1>6
  <2> PICK m \in 0..parts : m = n - 1
    BY <2>2
  <2>3. \A g : g \in 1..n <=> g \in 1..m \/ g = n
    OBVIOUS
  <2>4. \A g \in 1..m : g \in 1..parts /\ g # n
    OBVIOUS
  <2>5. CASE ~IsDefined(sums[n])
    <3>1. Sum(n) = Sum(n - 1)
      BY <2>1, <2>5 DEF TakeIn, Counts
    <3>2. \A i \in 1..last :
            /\ Counts(first[n], i) <=> Counts(first[m], i)
            /\ Counts(first[n], i) => first[n][i] = first[m][i]
      <4> TAKE i \in 1..last
      <4>1. Counts(v, i) => key[i] # keys[n]
        BY <2>5
      <4> QED BY <1>2, <2>2, <2>3, <4>1
    <3>3. SumTo(first[n], last)[last] = SumTo(first[m], last)[last]
      <4>1. PICK a, b : a = first[n] /\ b = first[m]
        OBVIOUS
      <4>2. \A i \in 1..last : (Counts(a, i) <=> Counts(b, i)) /\ (Counts(a, i) => a[i] = b[i])
        BY <3>2, <4>1
      <4>3. SumTo(a, last)[last] = SumTo(b, last)[last]
        BY ONLY last \in Nat, <4>2, SumsAgree
      <4> QED BY <4>1, <4>3
    <3> QED BY <2>2, <3>1, <3>3
  <2>6. CASE IsDefined(sums[n])
    <3>1. sums[n] \in Frac /\ Counts(sums, n)
      BY <2>6 DEF Counts, Value, Undefined, Ratio, IsDefined
    <3>2. Sum(n) = Plus(Sum(n - 1), sums[n])
      BY <2>1, <3>1 DEF TakeIn
    <3>3. Total(part[n]) = SumTo(part[n], last)[last]
      BY <1>3, TotalIsSum
    <3>4. Whole(n) = Plus(Whole(m), Total(part[n]))
      <4>1. ASSUME NEW i \in 1..last
            PROVE  /\ Counts(first[n], i) <=> Counts(first[m], i) \/ Counts(part[n], i)
                   /\ ~(Counts(first[m], i) /\ Counts(part[n], i))
                   /\ Counts(first[m], i) => first[n][i] = first[m][i]
                   /\ Counts(part[n], i) => first[n][i] = part[n][i]
        <5>1. /\ Counts(first[n], i) <=> Counts(v, i) /\ \E g \in 1..n : keys[g] = key[i]
              /\ Counts(first[n], i) => first[n][i] = v[i]
          BY <1>2, <2>2
        <5>2. /\ Counts(first[m], i) <=> Counts(v, i) /\ \E g \in 1..m : keys[g] = key[i]
              /\ Counts(first[m], i) => first[m][i] = v[i]
          BY <1>2
        <5>3. /\ Counts(part[n], i) <=> Counts(v, i) /\ key[i] = keys[n]
              /\ Counts(part[n], i) => part[n][i] = v[i]
          BY <1>3
        <5>4. (\E g \in 1..n : keys[g] = key[i]) <=> (\E g \in 1..m : keys[g] = key[i]) \/ keys[n] = key[i]
          BY <2>3
        <5>5. ~((\E g \in 1..m : keys[g] = key[i]) /\ keys[n] = key[i])
          BY <2>4
        <5> QED BY <5>1, <5>2, <5>3, <5>4, <5>5
      <4>2. PICK a, b, w : a = first[m] /\ b = part[n] /\ w = first[n]
        OBVIOUS
      <4>3. /\ \A i \in DOMAIN a : a[i] \in Value
            /\ \A i \in DOMAIN b : b[i] \in Value
        BY <1>2, <1>3, <4>2
      <4>4. \A i \in 1..last :
              /\ Counts(w, i) <=> Counts(a, i) \/ Counts(b, i)
              /\ ~(Counts(a, i) /\ Counts(b, i))
              /\ (Counts(a, i) => w[i] = a[i]) /\ (Counts(b, i) => w[i] = b[i])
        BY <4>1, <4>2
      <4>5. SumTo(w, last)[last] = Plus(SumTo(a, last)[last], SumTo(b, last)[last])
        BY ONLY last \in Nat, <4>3, <4>4, SumsJoin
      <4> QED BY <3>3, <4>2, <4>5
    <3>5. Equal(sums[n], Total(part[n])) /\ Total(part[n]) \in Frac
      <4>1. last \in 0..last
        OBVIOUS
      <4>2. SumTo(part[n], last)[last] \in Frac
        BY <1>3, <4>1, SumIsFrac
      <4> QED BY <1>3, <2>6, <3>3, <4>2
    <3> PICK p, q, r, t \in Frac :
          p = Sum(n - 1) /\ q = Whole(m) /\ r = sums[n] /\ t = Total(part[n])
      BY <1>4, <2>2, <3>1, <3>5
    <3>6. Equal(p, q) /\ Equal(r, t) /\ Sum(n) = Plus(p, r) /\ Whole(n) = Plus(q, t)
      BY <2>2, <3>2, <3>4, <3>5
    <3> HIDE DEF Sum, Whole
    <3>7. Equal(Plus(p, r), Plus(q, r)) /\ Equal(Plus(r, q), Plus(t, q))
      BY <3>6, PlusKeepsEqual
    <3>8. Plus(r, q) = Plus(q, r) /\ Plus(t, q) = Plus(q, t)
      BY PlusCommutes
    <3>9. Plus(p, r) \in Frac /\ Plus(q, r) \in Frac /\ Plus(q, t) \in Frac
      BY PlusIsFrac
    <3>10. Equal(Plus(p, r), Plus(q, t))
      BY <3>7, <3>8, <3>9, EqualComposes
    <3> QED BY <2>2, <3>6, <3>10
  <2> QED BY <2>5, <2>6
<1>7. good = 0..parts
  <2> HIDE DEF good
  <2>1. good \in SUBSET (0..parts)
    BY DEF good
  <2> QED BY <1>5, <1>6, <2>1, SumInduction
<1>8. Equal(Sum(parts), Whole(parts))
  <2>1. parts \in 0..parts
    OBVIOUS
  <2> HIDE DEF Sum, Whole
  <2> QED BY <1>7, <2>1
<1>9. Total(sums) = Sum(parts)
  BY TotalIsSum
<1>10. Total(v) = Whole(parts)
  <2>1. Total(v) = SumTo(v, last)[last]
    BY TotalIsSum
  <2>2. parts \in 0..parts /\ last \in 0..last /\ last <= last
    OBVIOUS
  <2>3. \A i \in 1..last :
          /\ Counts(v, i) <=> Counts(first[parts], i)
          /\ Counts(v, i) => v[i] = first[parts][i]
    BY <1>2, <2>2
  <2>4. SumTo(v, last)[last] = SumTo(first[parts], last)[last]
    <3>1. PICK b : b = first[parts]
      OBVIOUS
    <3>2. \A i \in 1..last : (Counts(v, i) <=> Counts(b, i)) /\ (Counts(v, i) => v[i] = b[i])
      BY <2>3, <3>1
    <3>3. SumTo(v, last)[last] = SumTo(b, last)[last]
      BY ONLY last \in Nat, <3>2, SumsAgree
    <3> QED BY <3>1, <3>3
  <2> QED BY <2>1, <2>4
<1> HIDE DEF Sum, Whole
<1> QED BY <1>8, <1>9, <1>10
-----------------------------------------------------------------------------
(* What is measured of one item.                                           *)

\* The least of a set of numbers is there, and is the least.
LEMMA MinIsLeast ==
  ASSUME NEW S \in SUBSET Nat, S # {}
  PROVE  Min(S) \in S /\ \A y \in S : Min(S) <= y
  BY LeastIsThere DEF Min

\* An observation the program can make: what is cited was retrieved.
IsObservation(observed) ==
  /\ observed.retrieved \in Seq(ToSet(observed.retrieved))
  /\ IsFiniteSet(DOMAIN observed.claims)
  /\ \A i \in DOMAIN observed.claims : observed.claims[i] \subseteq ToSet(observed.retrieved)
  /\ observed.abstained \in BOOLEAN /\ observed.error \in BOOLEAN

\* Every metric by its name.
LEMMA MetricsByName ==
  ASSUME NEW item, NEW o
  PROVE  LET m == Metrics(item, o) IN
         /\ DOMAIN m = MetricNames
         /\ \A k \in K_VALUES : /\ m[<<"recall", k>>] = RecallAt(o.retrieved, item.gold, k)
                                /\ m[<<"precision", k>>] = PrecisionAt(o.retrieved, item.gold, k)
                                /\ m[<<"hit_rate", k>>] = HitRateAt(o.retrieved, item.gold, k)
         /\ m[<<"mrr", 0>>] = ReciprocalRank(o.retrieved, item.gold)
         /\ m[<<"citation_precision", 0>>] = CitationPrecision(CitedBy(o), item.gold)
         /\ m[<<"citation_recall", 0>>] = CitationRecall(CitedBy(o), item.gold)
         /\ m[<<"citation_validity", 0>>] = CitationValidity(o.claims, o.retrieved)
         /\ m[<<"evidence_coverage", 0>>] = EvidenceCoverage(CitedBy(o), o.retrieved)
         /\ m[<<"unsupported_claim_rate", 0>>] = UnsupportedClaimRate(o.claims)
         /\ m[<<"abstention_correct", 0>>] = Flag(o.abstained = (item.condition = "incomplete"))
         /\ m[<<"failed", 0>>] = Flag(o.error)
<1>1. \A k \in K_VALUES : {<<"recall", k>>, <<"precision", k>>, <<"hit_rate", k>>} \subseteq MetricNames
  BY DEF MetricNames
<1>2. {<<"mrr", 0>>, <<"citation_precision", 0>>, <<"citation_recall", 0>>, <<"citation_validity", 0>>,
       <<"evidence_coverage", 0>>, <<"unsupported_claim_rate", 0>>, <<"abstention_correct", 0>>,
       <<"failed", 0>>} \subseteq MetricNames
  BY DEF MetricNames
<1>3. DOMAIN Metrics(item, o) = MetricNames
  BY DEF Metrics
<1>4. \A k \in K_VALUES :
        /\ Metrics(item, o)[<<"recall", k>>] = RecallAt(o.retrieved, item.gold, k)
        /\ Metrics(item, o)[<<"precision", k>>] = PrecisionAt(o.retrieved, item.gold, k)
        /\ Metrics(item, o)[<<"hit_rate", k>>] = HitRateAt(o.retrieved, item.gold, k)
  BY <1>1 DEF Metrics
<1>5. /\ Metrics(item, o)[<<"mrr", 0>>] = ReciprocalRank(o.retrieved, item.gold)
      /\ Metrics(item, o)[<<"citation_precision", 0>>] = CitationPrecision(CitedBy(o), item.gold)
      /\ Metrics(item, o)[<<"citation_recall", 0>>] = CitationRecall(CitedBy(o), item.gold)
      /\ Metrics(item, o)[<<"citation_validity", 0>>] = CitationValidity(o.claims, o.retrieved)
      /\ Metrics(item, o)[<<"evidence_coverage", 0>>] = EvidenceCoverage(CitedBy(o), o.retrieved)
  BY <1>2 DEF Metrics
<1>6. /\ Metrics(item, o)[<<"unsupported_claim_rate", 0>>] = UnsupportedClaimRate(o.claims)
      /\ Metrics(item, o)[<<"abstention_correct", 0>>] = Flag(o.abstained = (item.condition = "incomplete"))
      /\ Metrics(item, o)[<<"failed", 0>>] = Flag(o.error)
  BY <1>2 DEF Metrics
<1> QED BY <1>3, <1>4, <1>5, <1>6

\* A look k deep shows what is ranked no deeper than k.
LEMMA TopIsFirst ==
  ASSUME NEW retrieved, retrieved \in Seq(ToSet(retrieved)), NEW k \in Nat \ {0}
  PROVE  /\ Top(retrieved, k) = {retrieved[i] : i \in {j \in DOMAIN retrieved : j <= k}}
         /\ IsFiniteSet(ToSet(retrieved)) /\ DOMAIN retrieved \in SUBSET Nat
<1> PICK n \in Nat : n = Len(retrieved) /\ DOMAIN retrieved = 1..n
  BY LenProperties
<1>1. Min({k, n}) \in {k, n} /\ Min({k, n}) <= k /\ Min({k, n}) <= n
  BY MinIsLeast
<1> PICK m \in Nat : m = Min({k, n})
  BY <1>1
<1>2. \A i \in 1..m : retrieved[i] \in ToSet(retrieved)
  BY <1>1 DEF ToSet
<1> PICK a \in Int : a = 1
  OBVIOUS
<1>3. PICK s : s = SubSeq(retrieved, a, m)
  OBVIOUS
<1>4. /\ s \in Seq(ToSet(retrieved)) /\ Len(s) = m
      /\ \A i \in 1..m : s[i] = retrieved[i]
  <2>1. \A i \in a..m : retrieved[i] \in ToSet(retrieved)
    BY <1>2
  <2>2. /\ s \in Seq(ToSet(retrieved)) /\ Len(s) = IF a <= m THEN m - a + 1 ELSE 0
        /\ \A i \in 1..(m - a + 1) : s[i] = retrieved[a + i - 1]
    BY ONLY m \in Int, a \in Int, <1>3, <2>1, SubSeqProperties
  <2>3. /\ m - a + 1 = m /\ (m = 0 \/ a <= m)
        /\ \A i \in 1..m : a + i - 1 = i
    OBVIOUS
  <2>4. Len(s) = m
    <3>1. CASE a <= m
      BY <2>2, <2>3, <3>1
    <3>2. CASE ~(a <= m)
      BY <2>2, <2>3, <3>2
    <3> QED BY <3>1, <3>2
  <2>5. \A i \in 1..m : s[i] = retrieved[i]
    BY <2>2, <2>3
  <2> QED BY <2>2, <2>4, <2>5
<1>5. DOMAIN s = 1..m
  BY <1>4, LenProperties
<1>6. Top(retrieved, k) = {s[i] : i \in 1..m}
  BY <1>3, <1>5 DEF Top, ToSet
<1>7. {j \in DOMAIN retrieved : j <= k} = 1..m
  BY <1>1
<1>8. IsFiniteSet(ToSet(retrieved))
  <2>1. retrieved \in Surjection(1..n, ToSet(retrieved))
    BY DEF Surjection, ToSet
  <2>2. IsFiniteSet(1..n)
    BY FS_Interval
  <2> QED BY <2>1, <2>2, FS_Surjection
<1>9. DOMAIN retrieved \in SUBSET Nat
  OBVIOUS
<1> QED BY <1>4, <1>6, <1>7, <1>8, <1>9

\* What a quotient of finite sets is.
LEMMA FractionIsValue ==
  ASSUME NEW part, NEW whole, IsFiniteSet(part), IsFiniteSet(whole)
  PROVE  /\ Fraction(part, whole) \in Value
         /\ whole # {} => /\ Cardinality(part) \in Nat /\ Cardinality(whole) \in Nat \ {0}
                          /\ Fraction(part, whole) = Ratio(Cardinality(part), Cardinality(whole))
                          /\ Fraction(part, whole).num = Cardinality(part)
                          /\ Fraction(part, whole).den = Cardinality(whole)
<1>1. Cardinality(part) \in Nat /\ Cardinality(whole) \in Nat /\ (Cardinality(whole) = 0 <=> whole = {})
  BY FS_CardinalityType, FS_EmptySet
<1> QED BY <1>1 DEF Fraction, Value, Frac, Ratio

\* Every metric is a quotient, or does not apply.
LEMMA MetricsAreValues ==
  ASSUME NEW item, IsFiniteSet(item.gold), NEW o, IsObservation(o), NEW name \in MetricNames
  PROVE  Metrics(item, o)[name] \in Value
<1> DEFINE found == ToSet(o.retrieved)
           cited == CitedBy(o)
<1>1. IsFiniteSet(found) /\ DOMAIN o.retrieved \in SUBSET Nat
  BY TopIsFirst DEF IsObservation
<1>2. cited \in SUBSET found /\ IsFiniteSet(cited)
  <2>1. cited \in SUBSET found
    BY DEF CitedBy, IsObservation
  <2> HIDE DEF cited, found
  <2> QED BY <1>1, <2>1, FS_Subset
<1>3. \A S : IsFiniteSet(S \cap item.gold)
  <2> TAKE S
  <2> QED BY FS_Subset, S \cap item.gold \in SUBSET item.gold
<1>4. {Undefined, Zero, One} \subseteq Value
  BY DEF Value, Frac, Zero, One, Ratio
<1>5. \A k \in K_VALUES : k \in Nat \ {0} /\ IsFiniteSet(Top(o.retrieved, k))
  <2> TAKE k \in K_VALUES
  <2>1. k \in Nat \ {0}
    BY KValuesAssumption
  <2>2. Top(o.retrieved, k) \in SUBSET found
    <3>1. o.retrieved \in Seq(ToSet(o.retrieved))
      BY DEF IsObservation
    <3>2. Top(o.retrieved, k) = {o.retrieved[i] : i \in {j \in DOMAIN o.retrieved : j <= k}}
      BY <2>1, <3>1, TopIsFirst
    <3> QED BY <3>2 DEF ToSet
  <2> HIDE DEF found
  <2> QED BY <1>1, <2>1, <2>2, FS_Subset
<1>6. ReciprocalRank(o.retrieved, item.gold) \in Value
  <2> DEFINE hits == {i \in DOMAIN o.retrieved : o.retrieved[i] \in item.gold}
  <2>1. CASE hits # {}
    <3>1. Min(hits) \in hits
      BY <1>1, <2>1, MinIsLeast
    <3>2. Min(hits) \in Nat \ {0}
      <4>1. PICK n \in Nat : DOMAIN o.retrieved = 1..n
        BY LenProperties DEF IsObservation
      <4> QED BY <3>1, <4>1
    <3> QED BY <1>4, <2>1, <3>2 DEF ReciprocalRank, Value, Frac, Ratio
  <2>2. CASE hits = {}
    BY <1>4, <2>2 DEF ReciprocalRank
  <2> QED BY <2>1, <2>2
<1>7. CitationValidity(o.claims, o.retrieved) \in Value
  <2> DEFINE citations(of) == UNION {{i} \X (o.claims[i] \cap of) : i \in DOMAIN o.claims}
  <2>1. \A of : citations(of) \subseteq (DOMAIN o.claims) \X found
    BY DEF IsObservation
  <2>2. IsFiniteSet((DOMAIN o.claims) \X found)
    BY <1>1, FS_Product DEF IsObservation
  <2> HIDE DEF found
  <2>3. \A of : IsFiniteSet(citations(of))
    <3> TAKE of
    <3>1. citations(of) \in SUBSET ((DOMAIN o.claims) \X found)
      BY <2>1
    <3> HIDE DEF citations
    <3> QED BY <2>2, <3>1, FS_Subset
  <2>4. CitationValidity(o.claims, o.retrieved)
          = Fraction(citations(ToSet(o.retrieved)), citations(UNION {o.claims[i] : i \in DOMAIN o.claims}))
    BY DEF CitationValidity
  <2> HIDE DEF citations
  <2> QED BY <2>3, <2>4, FractionIsValue
<1>8. UnsupportedClaimRate(o.claims) \in Value
  <2>1. {i \in DOMAIN o.claims : o.claims[i] = {}} \in SUBSET DOMAIN o.claims
    OBVIOUS
  <2>2. IsFiniteSet({i \in DOMAIN o.claims : o.claims[i] = {}})
    BY <2>1, FS_Subset DEF IsObservation
  <2> QED BY <2>2, FractionIsValue DEF UnsupportedClaimRate, IsObservation
<1>9. ASSUME NEW k \in K_VALUES
      PROVE  /\ RecallAt(o.retrieved, item.gold, k) \in Value
             /\ PrecisionAt(o.retrieved, item.gold, k) \in Value
             /\ HitRateAt(o.retrieved, item.gold, k) \in Value
  BY <1>3, <1>4, <1>5, FractionIsValue DEF RecallAt, PrecisionAt, HitRateAt, Flag
<1>10. /\ CitationPrecision(cited, item.gold) \in Value
       /\ CitationRecall(cited, item.gold) \in Value
  BY <1>2, <1>3, <1>4, FractionIsValue DEF CitationPrecision, CitationRecall
<1>11. EvidenceCoverage(cited, o.retrieved) \in Value
  <2>1. IsFiniteSet(cited \cap found)
    BY <1>1, <1>2, FS_Subset, cited \cap found \in SUBSET cited
  <2> QED BY <1>1, <2>1, FractionIsValue DEF EvidenceCoverage
<1>12. \A b : Flag(b) \in Value
  BY <1>4 DEF Flag
<1>13. \/ \E k \in K_VALUES : name \in {<<"recall", k>>, <<"precision", k>>, <<"hit_rate", k>>}
       \/ name \in {<<"mrr", 0>>, <<"citation_precision", 0>>, <<"citation_recall", 0>>,
                    <<"citation_validity", 0>>, <<"evidence_coverage", 0>>,
                    <<"unsupported_claim_rate", 0>>, <<"abstention_correct", 0>>, <<"failed", 0>>}
  BY DEF MetricNames
<1>14. CASE \E k \in K_VALUES : name \in {<<"recall", k>>, <<"precision", k>>, <<"hit_rate", k>>}
  <2>1. PICK k \in K_VALUES : name \in {<<"recall", k>>, <<"precision", k>>, <<"hit_rate", k>>}
    BY <1>14
  <2>2. /\ Metrics(item, o)[<<"recall", k>>] = RecallAt(o.retrieved, item.gold, k)
        /\ Metrics(item, o)[<<"precision", k>>] = PrecisionAt(o.retrieved, item.gold, k)
        /\ Metrics(item, o)[<<"hit_rate", k>>] = HitRateAt(o.retrieved, item.gold, k)
    BY MetricsByName
  <2> QED BY <1>9, <2>1, <2>2
<1>15. CASE name \in {<<"mrr", 0>>, <<"citation_precision", 0>>, <<"citation_recall", 0>>,
                      <<"citation_validity", 0>>}
  BY <1>6, <1>7, <1>10, <1>15, MetricsByName
<1>16. CASE name \in {<<"evidence_coverage", 0>>, <<"unsupported_claim_rate", 0>>,
                      <<"abstention_correct", 0>>, <<"failed", 0>>}
  BY <1>8, <1>11, <1>12, <1>16, MetricsByName
<1> QED BY <1>13, <1>14, <1>15, <1>16
-----------------------------------------------------------------------------
(* The metrics of one item agree.                                          *)

\* Parts of the same whole are compared by how many they are.
LEMMA FractionsCompare ==
  ASSUME NEW whole, IsFiniteSet(whole), whole # {}, NEW a \in SUBSET whole, NEW b \in SUBSET whole,
         a \subseteq b
  PROVE  AtMost(Fraction(a, whole), Fraction(b, whole))
<1>1. IsFiniteSet(a) /\ IsFiniteSet(b)
  BY FS_Subset
<1>2. a \in SUBSET b
  OBVIOUS
<1>3. Cardinality(a) <= Cardinality(b)
  BY <1>1, <1>2, FS_Subset
<1> PICK m, n, w \in Nat : /\ m = Cardinality(a) /\ n = Cardinality(b) /\ w = Cardinality(whole)
                           /\ Fraction(a, whole).num = m /\ Fraction(a, whole).den = w
                           /\ Fraction(b, whole).num = n /\ Fraction(b, whole).den = w
  BY <1>1, FractionIsValue
<1>4. m * w <= n * w
  <2>1. m <= n
    BY <1>3
  <2> QED BY <2>1
<1> QED BY <1>4 DEF AtMost

\* A part is nothing exactly if its quotient is zero.
LEMMA FractionIsZero ==
  ASSUME NEW whole, IsFiniteSet(whole), whole # {}, NEW a \in SUBSET whole
  PROVE  Equal(Fraction(a, whole), Zero) <=> a = {}
<1>1. IsFiniteSet(a)
  BY FS_Subset
<1> PICK m, w \in Nat : /\ m = Cardinality(a) /\ w = Cardinality(whole)
                        /\ Fraction(a, whole).num = m /\ Fraction(a, whole).den = w
  BY <1>1, FractionIsValue
<1>2. Equal(Fraction(a, whole), Zero) <=> m * 1 = 0 * w
  BY DEF Equal, Zero, Ratio
<1>3. m * 1 = 0 * w <=> m = 0
  OBVIOUS
<1>4. m = 0 <=> a = {}
  BY <1>1, FS_EmptySet
<1> QED BY <1>2, <1>3, <1>4

\* What is true is one, what is false is zero.
LEMMA FlagsDiffer ==
  ASSUME NEW b \in BOOLEAN
  PROVE  /\ Equal(Flag(b), One) <=> b
         /\ Equal(Flag(b), Zero) <=> ~b
<1>1. Equal(One, One) /\ Equal(Zero, Zero) /\ ~Equal(One, Zero) /\ ~Equal(Zero, One)
  BY DEF Equal, One, Zero, Ratio
<1> QED BY <1>1 DEF Flag

\* The reciprocal rank tells how deep the first gold chunk is.
LEMMA RankIsOfFirst ==
  ASSUME NEW retrieved, retrieved \in Seq(ToSet(retrieved)), NEW gold, gold # {}
  PROVE  LET hits == {i \in DOMAIN retrieved : retrieved[i] \in gold} IN
         /\ hits = {} => ReciprocalRank(retrieved, gold) = Zero
         /\ hits # {} => \E n \in hits : /\ n \in Nat \ {0} /\ \A i \in hits : n <= i
                                         /\ ReciprocalRank(retrieved, gold) = Ratio(1, n)
<1> DEFINE hits == {i \in DOMAIN retrieved : retrieved[i] \in gold}
<1>1. \A i \in DOMAIN retrieved : i \in Nat \ {0}
  BY LenProperties
<1>2. CASE hits = {}
  BY <1>2 DEF ReciprocalRank
<1>3. CASE hits # {}
  <2>1. hits \in SUBSET Nat
    BY <1>1
  <2>2. ReciprocalRank(retrieved, gold) = Ratio(1, Min(hits))
    BY <1>3 DEF ReciprocalRank
  <2> HIDE DEF hits
  <2>3. Min(hits) \in hits /\ \A i \in hits : Min(hits) <= i
    BY <1>3, <2>1, MinIsLeast
  <2>4. Min(hits) \in Nat \ {0}
    BY <1>1, <2>3 DEF hits
  <2>5. \E n \in hits : /\ n \in Nat \ {0} /\ \A i \in hits : n <= i
                        /\ ReciprocalRank(retrieved, gold) = Ratio(1, n)
    BY <2>2, <2>3, <2>4
  <2> QED BY <1>3, <2>5 DEF hits
<1> QED BY <1>2, <1>3

\* The metrics of retrieval against each other, and the citations against them.
RetrievalAgrees(item, o, m) ==
  item.gold # {} => \A k \in K_VALUES :
    /\ \A j \in K_VALUES : j <= k => AtMost(m[<<"recall", j>>], m[<<"recall", k>>])
    /\ Equal(m[<<"hit_rate", k>>], One) <=> AtMost(Ratio(1, k), m[<<"mrr", 0>>])
    /\ Equal(m[<<"hit_rate", k>>], Zero) <=> Equal(m[<<"recall", k>>], Zero)
    /\ Len(o.retrieved) <= k => AtMost(m[<<"citation_recall", 0>>], m[<<"recall", k>>])

\* Every item's metrics of retrieval agree.
LEMMA RetrievalMetricsAgree ==
  ASSUME NEW item, IsFiniteSet(item.gold), NEW o, IsObservation(o)
  PROVE  RetrievalAgrees(item, o, Metrics(item, o))
<1> PICK gold, retrieved, m : gold = item.gold /\ retrieved = o.retrieved /\ m = Metrics(item, o)
  OBVIOUS
<1> SUFFICES ASSUME gold # {}, NEW k \in K_VALUES
             PROVE  /\ \A j \in K_VALUES : j <= k => AtMost(m[<<"recall", j>>], m[<<"recall", k>>])
                    /\ Equal(m[<<"hit_rate", k>>], One) <=> AtMost(Ratio(1, k), m[<<"mrr", 0>>])
                    /\ Equal(m[<<"hit_rate", k>>], Zero) <=> Equal(m[<<"recall", k>>], Zero)
                    /\ Len(retrieved) <= k => AtMost(m[<<"citation_recall", 0>>], m[<<"recall", k>>])
  BY Zenon DEF RetrievalAgrees
<1>1. /\ \A j \in K_VALUES : m[<<"recall", j>>] = Fraction(Top(retrieved, j) \cap gold, gold)
      /\ m[<<"hit_rate", k>>] = Flag(Top(retrieved, k) \cap gold # {})
      /\ m[<<"mrr", 0>>] = ReciprocalRank(retrieved, gold)
      /\ m[<<"citation_recall", 0>>] = Fraction(CitedBy(o) \cap gold, gold)
  <2>0. /\ \A j \in K_VALUES :
              /\ Metrics(item, o)[<<"recall", j>>] = RecallAt(o.retrieved, item.gold, j)
              /\ Metrics(item, o)[<<"hit_rate", j>>] = HitRateAt(o.retrieved, item.gold, j)
        /\ Metrics(item, o)[<<"mrr", 0>>] = ReciprocalRank(o.retrieved, item.gold)
        /\ Metrics(item, o)[<<"citation_recall", 0>>] = CitationRecall(CitedBy(o), item.gold)
    BY ONLY MetricsByName
  <2>same. gold = item.gold /\ retrieved = o.retrieved /\ m = Metrics(item, o)
    OBVIOUS
  <2>1. \A j \in K_VALUES : /\ m[<<"recall", j>>] = RecallAt(retrieved, gold, j)
                            /\ m[<<"hit_rate", j>>] = HitRateAt(retrieved, gold, j)
    BY ONLY <2>0, <2>same
  <2>2. /\ m[<<"mrr", 0>>] = ReciprocalRank(retrieved, gold)
        /\ m[<<"citation_recall", 0>>] = CitationRecall(CitedBy(o), gold)
    BY ONLY <2>0, <2>same
  <2> QED BY <2>1, <2>2 DEF RecallAt, HitRateAt, CitationRecall
<1>2. retrieved \in Seq(ToSet(retrieved)) /\ IsFiniteSet(gold)
  BY DEF IsObservation
<1>3. \A j \in K_VALUES :
        /\ j \in Nat \ {0}
        /\ Top(retrieved, j) = {retrieved[i] : i \in {h \in DOMAIN retrieved : h <= j}}
  <2> TAKE j \in K_VALUES
  <2>1. j \in Nat \ {0}
    BY KValuesAssumption
  <2>2. Top(retrieved, j) = {retrieved[i] : i \in {h \in DOMAIN retrieved : h <= j}}
    BY ONLY <1>2, <2>1, TopIsFirst
  <2> QED BY <2>1, <2>2
<1>4. \A i \in DOMAIN retrieved : i \in Nat \ {0} /\ i <= Len(retrieved)
  BY <1>2, LenProperties
<1>5. ASSUME NEW j \in K_VALUES, j <= k
      PROVE  AtMost(m[<<"recall", j>>], m[<<"recall", k>>])
  <2>1. Top(retrieved, j) \subseteq Top(retrieved, k)
    <3>1. \A i \in DOMAIN retrieved : i <= j => i <= k
      BY <1>3, <1>4, <1>5
    <3> QED BY <1>3, <3>1
  <2>2. /\ Top(retrieved, j) \cap gold \in SUBSET gold /\ Top(retrieved, k) \cap gold \in SUBSET gold
        /\ Top(retrieved, j) \cap gold \subseteq Top(retrieved, k) \cap gold
    BY <2>1
  <2>3. AtMost(Fraction(Top(retrieved, j) \cap gold, gold), Fraction(Top(retrieved, k) \cap gold, gold))
    <3> PICK a, b : a = Top(retrieved, j) \cap gold /\ b = Top(retrieved, k) \cap gold
      OBVIOUS
    <3>1. AtMost(Fraction(a, gold), Fraction(b, gold))
      BY <1>2, <2>2, FractionsCompare
    <3> QED BY <3>1
  <2> QED BY <1>1, <2>3
<1>6. Equal(m[<<"hit_rate", k>>], One) <=> AtMost(Ratio(1, k), m[<<"mrr", 0>>])
  <2> DEFINE hits == {i \in DOMAIN retrieved : retrieved[i] \in gold}
  <2>1. Equal(m[<<"hit_rate", k>>], One) <=> Top(retrieved, k) \cap gold # {}
    BY <1>1, FlagsDiffer
  <2>2. Top(retrieved, k) \cap gold # {} <=> \E i \in hits : i <= k
    BY <1>3
  <2>3. CASE hits = {}
    <3>1. m[<<"mrr", 0>>] = Zero
      BY <1>1, <1>2, <2>3, RankIsOfFirst
    <3>2. ~AtMost(Ratio(1, k), Zero)
      BY <1>3 DEF AtMost, Ratio, Zero
    <3> QED BY <2>1, <2>2, <2>3, <3>1, <3>2
  <2>4. CASE hits # {}
    <3>1. PICK n \in hits : /\ n \in Nat \ {0} /\ \A i \in hits : n <= i
                            /\ ReciprocalRank(retrieved, gold) = Ratio(1, n)
      BY <1>2, <2>4, RankIsOfFirst
    <3>2. AtMost(Ratio(1, k), Ratio(1, n)) <=> n <= k
      BY <1>3, <3>1 DEF AtMost, Ratio
    <3>3. (\E i \in hits : i <= k) <=> n <= k
      <4>1. \A i \in hits : i \in Nat
        BY <1>4
      <4> HIDE DEF hits
      <4> QED BY <1>3, <3>1, <4>1
    <3> QED BY <1>1, <2>1, <2>2, <3>1, <3>2, <3>3
  <2> QED BY <2>3, <2>4
<1>7. Equal(m[<<"hit_rate", k>>], Zero) <=> Equal(m[<<"recall", k>>], Zero)
  <2>1. Top(retrieved, k) \cap gold \in SUBSET gold
    OBVIOUS
  <2>2. Equal(Fraction(Top(retrieved, k) \cap gold, gold), Zero) <=> Top(retrieved, k) \cap gold = {}
    BY <1>2, <2>1, FractionIsZero
  <2> QED BY <1>1, <2>2, FlagsDiffer
<1>8. ASSUME Len(retrieved) <= k
      PROVE  AtMost(m[<<"citation_recall", 0>>], m[<<"recall", k>>])
  <2>1. CitedBy(o) \subseteq Top(retrieved, k)
    <3>1. \A i \in DOMAIN retrieved : i <= k
      <4>1. Len(retrieved) \in Nat
        BY <1>2, LenProperties
      <4> QED BY <1>3, <1>4, <1>8, <4>1
    <3>2. CitedBy(o) \subseteq ToSet(retrieved)
      BY DEF CitedBy, IsObservation
    <3>3. ToSet(retrieved) = Top(retrieved, k)
      BY <1>3, <3>1 DEF ToSet
    <3> QED BY <3>2, <3>3
  <2> PICK a, b : a = CitedBy(o) \cap gold /\ b = Top(retrieved, k) \cap gold
    OBVIOUS
  <2>2. a \in SUBSET gold /\ b \in SUBSET gold /\ a \subseteq b
    BY <2>1
  <2>3. AtMost(Fraction(a, gold), Fraction(b, gold))
    BY <1>2, <2>2, FractionsCompare
  <2> QED BY <1>1, <2>3
<1> QED BY <1>5, <1>6, <1>7, <1>8

\* What has no failure category has no cause of failure.
LEMMA NoCause ==
  ASSUME NEW item, NEW o, NEW m, Category(item, o, m) = "none"
  PROVE  /\ ~o.error
         /\ ~(item.gold # {} /\ ToSet(o.retrieved) \cap item.gold = {})
         /\ ~(o.abstained /\ item.condition # "incomplete")
         /\ ~(~o.abstained /\ item.condition = "incomplete")
         /\ ~FallsShort(m[<<"citation_validity", 0>>], One)
         /\ ~Exceeds(m[<<"unsupported_claim_rate", 0>>], Zero)
<1> PICK causes : causes = Causes(item, o, m)
  OBVIOUS
<1> DEFINE present == {i \in DOMAIN causes : causes[i][1]}
<1>1. DOMAIN causes = 1..6 /\ \A i \in 1..6 : causes[i][2] # "none"
  BY DEF Causes
<1>2. present = {}
  <2> SUFFICES ASSUME present # {} PROVE FALSE
    OBVIOUS
  <2>1. present \in SUBSET Nat
    BY <1>1
  <2>2. Category(item, o, m) = causes[Min(present)][2]
    BY DEF Category, FirstOf
  <2>3. Min(present) \in present
    BY <2>1, MinIsLeast
  <2> QED BY <1>1, <2>2, <2>3
<1>3. \A i \in 1..6 : ~causes[i][1]
  BY <1>1, <1>2
<1>4. /\ causes[1][1] = o.error
      /\ causes[2][1] = (item.gold # {} /\ ToSet(o.retrieved) \cap item.gold = {})
      /\ causes[3][1] = (o.abstained /\ item.condition # "incomplete")
  BY DEF Causes
<1>5. /\ causes[4][1] = (~o.abstained /\ item.condition = "incomplete")
      /\ causes[5][1] = FallsShort(m[<<"citation_validity", 0>>], One)
      /\ causes[6][1] = Exceeds(m[<<"unsupported_claim_rate", 0>>], Zero)
  BY DEF Causes
<1>6. /\ ~causes[1][1] /\ ~causes[2][1] /\ ~causes[3][1]
      /\ ~causes[4][1] /\ ~causes[5][1] /\ ~causes[6][1]
  BY <1>3
<1> QED BY ONLY <1>4, <1>5, <1>6

\* Every item without a failure category is a success by its metrics.
LEMMA SuccessesAreMeasured ==
  ASSUME NEW item, IsFiniteSet(item.gold), NEW o, IsObservation(o)
  PROVE  SuccessIsMeasured(ScoreItem(item, o))
<1> PICK m : m = Metrics(item, o)
  OBVIOUS
<1>1. ScoreItem(item, o).metrics = m /\ ScoreItem(item, o).category = Category(item, o, m)
  BY DEF ScoreItem
<1> SUFFICES ASSUME Category(item, o, m) = "none"
             PROVE  /\ Equal(m[<<"failed", 0>>], Zero) /\ Equal(m[<<"abstention_correct", 0>>], One)
                    /\ IsDefined(m[<<"mrr", 0>>]) => ~Equal(m[<<"mrr", 0>>], Zero)
                    /\ IsDefined(m[<<"unsupported_claim_rate", 0>>]) =>
                         Equal(m[<<"unsupported_claim_rate", 0>>], Zero)
                    /\ IsDefined(m[<<"citation_validity", 0>>]) =>
                         Equal(m[<<"citation_validity", 0>>], One)
  BY <1>1 DEF SuccessIsMeasured
<1>2. o.error \in BOOLEAN /\ o.abstained \in BOOLEAN /\ o.retrieved \in Seq(ToSet(o.retrieved))
  BY DEF IsObservation
<1>3. Equal(m[<<"failed", 0>>], Zero)
  <2>1. m[<<"failed", 0>>] = Flag(o.error)
    BY MetricsByName
  <2> QED BY <1>2, <2>1, NoCause, FlagsDiffer
<1>4. Equal(m[<<"abstention_correct", 0>>], One)
  <2> PICK b \in BOOLEAN : b = (o.abstained = (item.condition = "incomplete"))
    OBVIOUS
  <2>1. m[<<"abstention_correct", 0>>] = Flag(b)
    BY MetricsByName
  <2>2. /\ ~(o.abstained /\ item.condition # "incomplete")
        /\ ~(~o.abstained /\ item.condition = "incomplete")
    BY NoCause
  <2>3. b
    BY <1>2, <2>2
  <2> QED BY <2>1, <2>3, FlagsDiffer
<1>5. ASSUME IsDefined(m[<<"mrr", 0>>])
      PROVE  ~Equal(m[<<"mrr", 0>>], Zero)
  <2>1. m[<<"mrr", 0>>] = ReciprocalRank(o.retrieved, item.gold)
    BY MetricsByName
  <2>2. item.gold # {}
    BY <1>5, <2>1 DEF ReciprocalRank, Undefined, IsDefined, Ratio
  <2>3. {i \in DOMAIN o.retrieved : o.retrieved[i] \in item.gold} # {}
    BY <2>2, NoCause DEF ToSet
  <2>4. PICK n \in Nat \ {0} : m[<<"mrr", 0>>] = Ratio(1, n)
    BY <1>2, <2>1, <2>2, <2>3, RankIsOfFirst
  <2> QED BY <2>4 DEF Equal, Ratio, Zero
<1>6. ASSUME IsDefined(m[<<"unsupported_claim_rate", 0>>])
      PROVE  Equal(m[<<"unsupported_claim_rate", 0>>], Zero)
  <2>1. <<"unsupported_claim_rate", 0>> \in MetricNames
    BY DEF MetricNames
  <2> PICK f \in Frac : f = m[<<"unsupported_claim_rate", 0>>]
    BY <1>6, <2>1, MetricsAreValues DEF Value, IsDefined, Undefined, Ratio
  <2>2. AtMost(f, Zero)
    BY <1>6, NoCause DEF Exceeds
  <2>3. f.num \in Nat /\ f.den \in Nat
    BY DEF Frac
  <2>4. f.num * 1 <= 0 * f.den
    BY <2>2 DEF AtMost, Zero, Ratio
  <2>5. f.num * 1 = 0 * f.den
    BY <2>3, <2>4
  <2> QED BY <2>5 DEF Equal, Zero, Ratio
<1>7. ASSUME IsDefined(m[<<"citation_validity", 0>>])
      PROVE  Equal(m[<<"citation_validity", 0>>], One)
  <2> DEFINE citations(of) == UNION {{i} \X (o.claims[i] \cap of) : i \in DOMAIN o.claims}
  <2> PICK valid, whole : /\ valid = citations(ToSet(o.retrieved))
                          /\ whole = citations(UNION {o.claims[i] : i \in DOMAIN o.claims})
    OBVIOUS
  <2>1. m[<<"citation_validity", 0>>] = Fraction(valid, whole)
    BY MetricsByName DEF CitationValidity
  <2>2. \A c \in valid : c \in whole
    OBVIOUS
  <2>3. \A c \in whole : c \in valid
    BY DEF IsObservation
  <2>4. valid = whole
    BY <2>2, <2>3
  <2>5. whole # {}
    BY <1>7, <2>1 DEF Fraction, Undefined, IsDefined, Ratio
  <2>6. m[<<"citation_validity", 0>>] = Ratio(Cardinality(whole), Cardinality(whole))
    BY <2>1, <2>4, <2>5 DEF Fraction
  <2>7. \A n : Equal(Ratio(n, n), One) <=> n * 1 = 1 * n
    BY DEF Equal, Ratio, One
  <2>8. Cardinality(whole) \in Nat
    <3>1. <<"citation_validity", 0>> \in MetricNames
      BY DEF MetricNames
    <3>2. PICK f \in Frac : f = m[<<"citation_validity", 0>>]
      BY <1>7, <3>1, MetricsAreValues DEF Value, IsDefined, Undefined, Ratio
    <3>3. f.num = Cardinality(whole)
      BY <2>6, <3>2 DEF Ratio
    <3> QED BY <3>3 DEF Frac
  <2> QED BY <2>6, <2>7, <2>8
<1> QED BY <1>3, <1>4, <1>5, <1>6, <1>7
-----------------------------------------------------------------------------
(* Aggregates.                                                             *)

\* A finite set as a sequence: each of its elements, once.
LEMMA SequenceOfSet ==
  ASSUME NEW S, IsFiniteSet(S)
  PROVE  LET s == SetToSeq(S) IN
         /\ Cardinality(S) \in Nat /\ DOMAIN s = 1..Cardinality(S)
         /\ \A g, h \in 1..Cardinality(S) : s[g] = s[h] => g = h
         /\ \A x \in S : \E g \in 1..Cardinality(S) : s[g] = x
         /\ \A g \in 1..Cardinality(S) : s[g] \in S
<1> PICK n \in Nat : n = Cardinality(S)
  BY FS_CardinalityType
<1> PICK s : s = SetToSeq(S)
  OBVIOUS
<1>1. \E f \in [1..n -> S] : IsInjective(f)
  BY FS_CardinalityType DEF ExistsBijection, Bijection, Injection
<1>2. s \in [1..n -> S] /\ IsInjective(s)
  BY <1>1 DEF SetToSeq
<1>3. s \in Injection(1..n, S)
  BY <1>2 DEF Injection
<1>4. Cardinality(1..n) = n
  BY FS_Interval
<1>5. s \in Surjection(1..n, S)
  BY <1>3, <1>4, FS_Injection
<1> QED BY <1>2, <1>5 DEF IsInjective, Surjection

\* What a mean is of: as much as its values sum up to, and of nothing exactly if there is none.
LEMMA MeanIsTotal ==
  ASSUME NEW v, NEW last \in Nat, DOMAIN v \subseteq 1..last, \A i \in DOMAIN v : v[i] \in Value
  PROVE  LET n == DefinedCount(v)
             sum == SumOf([mean |-> Mean(v), n |-> n])
         IN /\ n \in Nat
            /\ n = 0 <=> \A i \in DOMAIN v : ~IsDefined(v[i])
            /\ IsDefined(Mean(v)) <=> n > 0
            /\ Total(v) \in Frac
            /\ sum \in Value
            /\ IsDefined(sum) <=> n > 0
            /\ n > 0 => sum \in Frac /\ Equal(sum, Total(v))
<1> DEFINE defined == {i \in DOMAIN v : IsDefined(v[i])}
<1>1. IsFiniteSet(defined)
  <2>1. IsFiniteSet(1..last) /\ defined \in SUBSET (1..last)
    BY FS_Interval
  <2> QED BY <2>1, FS_Subset
<1> PICK n : n = DefinedCount(v)
  OBVIOUS
<1>2. n \in Nat /\ (n = 0 <=> defined = {})
  <2>1. n = Cardinality(defined)
    BY DEF DefinedCount
  <2> HIDE DEF defined
  <2> QED BY <1>1, <2>1, FS_CardinalityType, FS_EmptySet
<1> PICK t : t = Total(v)
  OBVIOUS
<1>3. t \in Frac /\ t.num \in Nat /\ t.den \in Nat \ {0}
  <2>1. t = SumTo(v, last)[last] /\ last \in 0..last
    BY TotalIsSum
  <2>2. t \in Frac
    BY <2>1, SumIsFrac
  <2> QED BY <2>2 DEF Frac
<1> PICK sum : sum = SumOf([mean |-> Mean(v), n |-> n])
  OBVIOUS
<1>4. sum = Ratio(Mean(v).num * n, Mean(v).den)
  BY DEF SumOf
<1>5. CASE n = 0
  <2>1. Mean(v) = Ratio(0, 0)
    BY <1>5 DEF Mean, Undefined
  <2>2. sum = Undefined
    <3>1. 0 * 0 = 0
      OBVIOUS
    <3> QED BY <1>4, <1>5, <2>1, <3>1 DEF Ratio, Undefined
  <2>3. ~IsDefined(Undefined) /\ Undefined \in Value
    BY DEF IsDefined, Undefined, Ratio, Value
  <2>4. ~(n > 0) /\ ~IsDefined(Mean(v))
    BY <1>5, <2>1 DEF IsDefined, Ratio
  <2> QED BY <1>2, <1>3, <1>5, <2>2, <2>3, <2>4
<1>6. CASE n # 0
  <2>1. Mean(v) = Ratio(t.num, t.den * n)
    BY <1>6 DEF Mean
  <2>2. t.den * n \in Nat \ {0} /\ t.num * n \in Nat
    BY <1>2, <1>3, <1>6, Products
  <2>3. sum = Ratio(t.num * n, t.den * n) /\ IsDefined(Mean(v))
    BY <1>4, <2>1, <2>2 DEF Ratio, IsDefined
  <2>4. sum \in Frac /\ IsDefined(sum) /\ sum \in Value
    BY <2>2, <2>3 DEF Frac, Ratio, IsDefined, Value
  <2>5. Equal(sum, t)
    <3>1. (t.num * n) * t.den = t.num * (t.den * n)
      <4>1. (t.num * n) * t.den = t.num * (n * t.den) /\ n * t.den = t.den * n
        BY <1>2, <1>3, Products
      <4> QED BY <4>1
    <3> QED BY <2>3, <3>1 DEF Equal, Ratio
  <2>6. n > 0
    BY <1>2, <1>6
  <2> QED BY <1>2, <1>3, <1>6, <2>3, <2>4, <2>5, <2>6
<1> QED BY <1>5, <1>6

\* The items of a condition, and what they measured.
ItemsIn(items, condition) == {i \in DOMAIN items : items[i].condition = condition}
Measured(items, name) == [i \in DOMAIN items |-> items[i].score.metrics[name]]
MeasuredIn(items, condition, name) == [i \in ItemsIn(items, condition) |-> items[i].score.metrics[name]]

\* The scores of items.
ScoresOf(items) == [i \in DOMAIN items |-> items[i].score]

\* An item recorded by a run.
IsScored(entry) ==
  /\ entry.item \in Items /\ entry.condition = entry.item.condition
  /\ IsObservation(entry.observed) /\ entry.score = ScoreItem(entry.item, entry.observed)

\* Their failures, and the items that failed in one way.
FailuresOf(items) == {items[i].score.category : i \in DOMAIN items} \ {"none"}
WithCategory(items, c) == {i \in DOMAIN items : items[i].score.category = c}

\* What an aggregate has of all items, and of those of one condition.
LEMMA AggregateIs ==
  ASSUME NEW items
  PROVE  /\ \A name \in MetricNames :
              Aggregate(ScoresOf(items)).metrics[name]
                = [mean |-> Mean(Measured(items, name)), n |-> DefinedCount(Measured(items, name))]
         /\ DOMAIN Aggregate(ScoresOf(items)).categories = FailuresOf(items)
         /\ \A c \in FailuresOf(items) :
              Aggregate(ScoresOf(items)).categories[c] = Cardinality(WithCategory(items, c))
<1> PICK scores : scores = ScoresOf(items)
  OBVIOUS
<1>1. DOMAIN scores = DOMAIN items /\ \A i \in DOMAIN items : scores[i] = items[i].score
  BY DEF ScoresOf
<1>2. \A name : [i \in DOMAIN scores |-> scores[i].metrics[name]] = Measured(items, name)
  BY <1>1 DEF Measured
<1>3. \A name \in MetricNames :
        Aggregate(scores).metrics[name]
          = [mean |-> Mean(Measured(items, name)), n |-> DefinedCount(Measured(items, name))]
  BY <1>2 DEF Aggregate
<1>4. {scores[i].category : i \in DOMAIN scores} \ {"none"} = FailuresOf(items)
  BY <1>1 DEF FailuresOf
<1>5. \A c : {i \in DOMAIN scores : scores[i].category = c} = WithCategory(items, c)
  BY <1>1 DEF WithCategory
<1>6. Aggregate(scores).categories
        = [c \in FailuresOf(items) |-> Cardinality({i \in DOMAIN scores : scores[i].category = c})]
  BY <1>4 DEF Aggregate
<1>7. Aggregate(scores).categories = [c \in FailuresOf(items) |-> Cardinality(WithCategory(items, c))]
  BY <1>5, <1>6
<1> QED BY <1>3, <1>7

\* The same of each condition by itself.
LEMMA AggregateByIs ==
  ASSUME NEW items
  PROVE  /\ DOMAIN AggregateBy(items) = {items[i].condition : i \in DOMAIN items}
         /\ \A condition \in DOMAIN AggregateBy(items) :
              /\ \A name \in MetricNames :
                   AggregateBy(items)[condition].metrics[name] =
                     [mean |-> Mean(MeasuredIn(items, condition, name)),
                      n |-> DefinedCount(MeasuredIn(items, condition, name))]
              /\ \A c : c # "none" =>
                   Occurrences(AggregateBy(items)[condition].categories, c) =
                     Cardinality(ItemsIn(items, condition) \cap WithCategory(items, c))
<1>1. /\ DOMAIN AggregateBy(items) = {items[i].condition : i \in DOMAIN items}
      /\ \A condition \in DOMAIN AggregateBy(items) :
           AggregateBy(items)[condition] = Aggregate([i \in ItemsIn(items, condition) |-> items[i].score])
  BY DEF AggregateBy, ItemsIn
<1> SUFFICES ASSUME NEW condition \in DOMAIN AggregateBy(items)
             PROVE  /\ \A name \in MetricNames :
                         AggregateBy(items)[condition].metrics[name] =
                           [mean |-> Mean(MeasuredIn(items, condition, name)),
                            n |-> DefinedCount(MeasuredIn(items, condition, name))]
                    /\ \A c : c # "none" =>
                         Occurrences(AggregateBy(items)[condition].categories, c) =
                           Cardinality(ItemsIn(items, condition) \cap WithCategory(items, c))
  BY <1>1
<1> PICK of : of = [i \in ItemsIn(items, condition) |-> items[i]]
  OBVIOUS
<1>2. AggregateBy(items)[condition] = Aggregate(ScoresOf(of))
  <2>1. [i \in ItemsIn(items, condition) |-> items[i].score] = ScoresOf(of)
    BY DEF ScoresOf
  <2> QED BY <1>1, <2>1
<1>3. \A name : Measured(of, name) = MeasuredIn(items, condition, name)
  BY DEF Measured, MeasuredIn
<1>4. \A c : WithCategory(of, c) = ItemsIn(items, condition) \cap WithCategory(items, c)
  BY DEF WithCategory, ItemsIn
<1> PICK a : a = Aggregate(ScoresOf(of))
  OBVIOUS
<1>5. /\ \A name \in MetricNames :
           a.metrics[name] = [mean |-> Mean(Measured(of, name)), n |-> DefinedCount(Measured(of, name))]
      /\ DOMAIN a.categories = FailuresOf(of)
      /\ \A c \in FailuresOf(of) : a.categories[c] = Cardinality(WithCategory(of, c))
  BY AggregateIs
<1>6. ASSUME NEW c, c # "none"
      PROVE  Occurrences(a.categories, c) = Cardinality(WithCategory(of, c))
  <2>1. CASE c \in FailuresOf(of)
    BY <1>5, <2>1 DEF Occurrences
  <2>2. CASE c \notin FailuresOf(of)
    <3>1. WithCategory(of, c) = {}
      BY <1>6, <2>2 DEF FailuresOf, WithCategory
    <3> QED BY <1>5, <2>2, <3>1, FS_EmptySet DEF Occurrences
  <2> QED BY <2>1, <2>2
<1>7. \A c : c # "none" =>
        Occurrences(a.categories, c) = Cardinality(ItemsIn(items, condition) \cap WithCategory(items, c))
  BY <1>4, <1>6
<1>8. \A name \in MetricNames :
        a.metrics[name] = [mean |-> Mean(MeasuredIn(items, condition, name)),
                           n |-> DefinedCount(MeasuredIn(items, condition, name))]
  BY <1>3, <1>5
<1> QED BY <1>2, <1>7, <1>8

\* What recorded items measured are values.
LEMMA MeasuresAreValues ==
  ASSUME NEW items, \A i \in DOMAIN items : IsScored(items[i]), NEW name \in MetricNames
  PROVE  \A i \in DOMAIN items : items[i].score.metrics[name] \in Value
<1> TAKE i \in DOMAIN items
<1>1. items[i].score.metrics = Metrics(items[i].item, items[i].observed)
  <2>1. items[i].score = ScoreItem(items[i].item, items[i].observed)
    BY DEF IsScored
  <2>2. ScoreItem(items[i].item, items[i].observed).metrics = Metrics(items[i].item, items[i].observed)
    BY DEF ScoreItem
  <2> QED BY <2>1, <2>2
<1>2. IsFiniteSet(items[i].item.gold) /\ IsObservation(items[i].observed)
  BY ScoresAssumption DEF IsScored
<1> QED BY <1>1, <1>2, MetricsAreValues
-----------------------------------------------------------------------------
(* The conditions add up.                                                  *)

\* Equal quotients are equal both ways.
LEMMA EqualIsSymmetric ==
  ASSUME NEW a, NEW b, Equal(a, b)
  PROVE  Equal(b, a)
  BY DEF Equal

\* The conditions of finitely many items, each of an item.
LEMMA ConditionsAreFinite ==
  ASSUME NEW last \in Nat, NEW items, DOMAIN items = 1..last
  PROVE  IsFiniteSet(DOMAIN AggregateBy(items))
<1> PICK f : f = [i \in 1..last |-> items[i].condition]
  OBVIOUS
<1>1. DOMAIN AggregateBy(items) = {items[i].condition : i \in 1..last}
  BY AggregateByIs
<1>2. f \in Surjection(1..last, DOMAIN AggregateBy(items))
  BY <1>1 DEF Surjection
<1> QED BY <1>2, FS_Interval, FS_Surjection

\* The positions of what is defined.
DefinedAt(v) == {i \in DOMAIN v : IsDefined(v[i])}

\* The mean of values, and of those at one key.
EntryOf(v) == [mean |-> Mean(v), n |-> DefinedCount(v)]

\* What a mean over a part says of the part.
LEMMA PartIsMeasured ==
  ASSUME NEW last, NEW v, AreValues(v, last), NEW key, NEW k
  PROVE  LET entry == EntryOf(PartOf(v, key, k)) IN
         /\ entry.n = Cardinality(Under(DefinedAt(v), key, k))
         /\ SumOf(entry) \in Value
         /\ IsSumOfPart(SumOf(entry), v, last, key, k)
<1> PICK w, n, sum : w = PartOf(v, key, k) /\ n = DefinedCount(w)
                     /\ sum = SumOf([mean |-> Mean(w), n |-> n])
  OBVIOUS
<1>0. last \in Nat /\ DOMAIN v = 1..last /\ \A i \in 1..last : v[i] \in Value
  BY DEF AreValues
<1>1. /\ DOMAIN w = {i \in 1..last : key[i] = k}
      /\ \A i \in DOMAIN w : w[i] = v[i]
  BY <1>0 DEF PartOf
<1>2. {i \in DOMAIN w : IsDefined(w[i])} = Under(DefinedAt(v), key, k)
  BY <1>0, <1>1 DEF Under, DefinedAt
<1>3. n = Cardinality(Under(DefinedAt(v), key, k))
  BY <1>2 DEF DefinedCount
<1>4. DOMAIN w \subseteq 1..last /\ \A i \in DOMAIN w : w[i] \in Value
  BY <1>0, <1>1
<1>5. /\ n \in Nat
      /\ n = 0 <=> \A i \in DOMAIN w : ~IsDefined(w[i])
      /\ sum \in Value
      /\ IsDefined(sum) <=> n > 0
      /\ n > 0 => Equal(sum, Total(w))
  BY ONLY n = DefinedCount(w), sum = SumOf([mean |-> Mean(w), n |-> n]), <1>0, <1>4, MeanIsTotal
<1>6. ASSUME n = 0
      PROVE  \A i \in 1..last : Counts(v, i) => key[i] # k
  <2> TAKE i \in 1..last
  <2>1. key[i] = k => ~IsDefined(v[i])
    BY <1>1, <1>5, <1>6
  <2> QED BY <2>1 DEF Counts
<1>7. n = 0 \/ n > 0
  BY <1>5
<1>8. IsSumOfPart(sum, v, last, key, k)
  BY <1>5, <1>6, <1>7 DEF IsSumOfPart
<1> QED BY <1>3, <1>5, <1>8 DEF EntryOf

\* One metric of a run's items, overall and by condition.
LEMMA MetricAddsUp ==
  ASSUME NEW last, NEW v, AreValues(v, last),
         NEW key, NEW parts, NEW keys, Splits(parts, keys, 1..last, key),
         NEW entries, DOMAIN entries = 1..parts,
         \A g \in 1..parts : entries[g] = EntryOf(PartOf(v, key, keys[g]))
  PROVE  /\ CountOf([g \in 1..parts |-> entries[g].n]) = Ratio(EntryOf(v).n, 1)
         /\ IsDefined(EntryOf(v).mean) <=> EntryOf(v).n > 0
         /\ EntryOf(v).n > 0 =>
              Equal(SumOf(EntryOf(v)), Total([g \in 1..parts |-> SumOf(entries[g])]))
<1> PICK P, n, sum : P = DefinedAt(v) /\ n = DefinedCount(v) /\ sum = SumOf([mean |-> Mean(v), n |-> n])
  OBVIOUS
<1> PICK counts, sums : /\ counts = [g \in 1..parts |-> entries[g].n]
                        /\ sums = [g \in 1..parts |-> SumOf(entries[g])]
  OBVIOUS
<1>1. /\ last \in Nat /\ DOMAIN v = 1..last /\ \A i \in 1..last : v[i] \in Value
      /\ parts \in Nat /\ \A i \in 1..last : \E g \in 1..parts : keys[g] = key[i]
  BY DEF AreValues, Splits
<1>2. P \in SUBSET (1..last) /\ IsFiniteSet(P)
  <2>1. IsFiniteSet(1..last)
    BY <1>1, FS_Interval
  <2>2. P \in SUBSET (1..last)
    BY <1>1 DEF DefinedAt
  <2> QED BY ONLY <2>1, <2>2, FS_Subset
<1>3. Splits(parts, keys, P, key)
  BY <1>2 DEF Splits
<1>4. CountsOf(counts, P, key, parts, keys)
  <2>1. \A g \in 1..parts : counts[g] = Cardinality(Under(P, key, keys[g]))
    BY PartIsMeasured
  <2> QED BY <2>1 DEF CountsOf
<1>5. AreValues(sums, parts) /\ SumsOf(sums, v, last, key, parts, keys)
  <2>1. \A g \in 1..parts : sums[g] \in Value /\ IsSumOfPart(sums[g], v, last, key, keys[g])
    BY PartIsMeasured
  <2> QED BY <1>1, <2>1 DEF AreValues, SumsOf
<1>6. CountOf(counts) = Ratio(Cardinality(P), 1)
  BY <1>2, <1>3, <1>4, CountsAddUp
<1>7. n = Cardinality(P)
  BY DEF DefinedCount, DefinedAt
<1>8. /\ n \in Nat
      /\ IsDefined(Mean(v)) <=> n > 0
      /\ Total(v) \in Frac
      /\ n > 0 => sum \in Frac /\ Equal(sum, Total(v))
  <2>1. DOMAIN v \subseteq 1..last /\ \A i \in DOMAIN v : v[i] \in Value
    BY <1>1
  <2> QED BY ONLY n = DefinedCount(v), sum = SumOf([mean |-> Mean(v), n |-> n]), <1>1, <2>1, MeanIsTotal
<1>9. Equal(Total(sums), Total(v))
  BY <1>5, SumsAddUp
<1>10. Total(sums) \in Frac
  <2>1. DOMAIN sums \subseteq 1..parts /\ \A g \in DOMAIN sums : sums[g] \in Value
    BY <1>5 DEF AreValues
  <2>2. Total(sums) = SumTo(sums, parts)[parts]
    BY ONLY <1>1, <2>1, TotalIsSum
  <2>3. parts \in 0..parts
    BY <1>1
  <2> QED BY ONLY <1>1, <2>1, <2>2, <2>3, SumIsFrac
<1>11. n > 0 => Equal(sum, Total(sums))
  BY <1>8, <1>9, <1>10, EqualIsSymmetric, EqualComposes
<1> QED BY <1>6, <1>7, <1>8, <1>11 DEF EntryOf

\* All of a run's aggregates.
LEMMA RunAddsUp ==
  ASSUME NEW last \in Nat, NEW items, DOMAIN items = 1..last,
         \A i \in 1..last : IsScored(items[i]),
         NEW overall, overall = Aggregate(ScoresOf(items)),
         NEW by, by = AggregateBy(items),
         NEW keys, keys = SetToSeq(DOMAIN by),
         NEW groups, DOMAIN groups = DOMAIN keys, \A g \in DOMAIN keys : groups[g] = by[keys[g]]
  PROVE  AddsUp(overall, groups)
<1> PICK key : key = [i \in 1..last |-> items[i].condition]
  OBVIOUS
<1>1. IsFiniteSet(DOMAIN by)
  BY ConditionsAreFinite
<1> PICK parts \in Nat : parts = Cardinality(DOMAIN by) /\ DOMAIN keys = 1..parts
  BY <1>1, SequenceOfSet
<1>2. /\ \A g, h \in 1..parts : keys[g] = keys[h] => g = h
      /\ \A g \in 1..parts : keys[g] \in DOMAIN by
      /\ \A x \in DOMAIN by : \E g \in 1..parts : keys[g] = x
  BY <1>1, SequenceOfSet
<1>3. Splits(parts, keys, 1..last, key)
  <2>1. \A i \in 1..last : key[i] \in DOMAIN by
    <3>1. DOMAIN by = {items[i].condition : i \in DOMAIN items}
      BY AggregateByIs
    <3> QED BY <3>1
  <2> QED BY <1>2, <2>1 DEF Splits
<1>4. DOMAIN groups = 1..parts /\ \A g \in 1..parts : groups[g] = by[keys[g]]
  OBVIOUS
<1>5. \A k : /\ ItemsIn(items, k) = {i \in 1..last : key[i] = k}
             /\ \A S \in SUBSET (1..last) : ItemsIn(items, k) \cap S = Under(S, key, k)
  BY DEF ItemsIn, Under
<1>6. ASSUME NEW name \in MetricNames
      PROVE  /\ CountOf([g \in DOMAIN groups |-> groups[g].metrics[name].n])
                  = Ratio(overall.metrics[name].n, 1)
             /\ IsDefined(overall.metrics[name].mean) <=> overall.metrics[name].n > 0
             /\ overall.metrics[name].n > 0 =>
                  Equal(SumOf(overall.metrics[name]),
                        Total([g \in DOMAIN groups |-> SumOf(groups[g].metrics[name])]))
  <2> PICK entries, v : entries = [g \in 1..parts |-> groups[g].metrics[name]] /\ v = Measured(items, name)
    OBVIOUS
  <2>1. /\ [g \in DOMAIN groups |-> groups[g].metrics[name].n] = [g \in 1..parts |-> entries[g].n]
        /\ [g \in DOMAIN groups |-> SumOf(groups[g].metrics[name])] = [g \in 1..parts |-> SumOf(entries[g])]
    BY <1>4
  <2>2. AreValues(v, last)
    <3>1. \A i \in DOMAIN items : items[i].score.metrics[name] \in Value
      BY MeasuresAreValues
    <3> QED BY <3>1 DEF Measured, AreValues
  <2>3. \A k : MeasuredIn(items, k, name) = PartOf(v, key, k)
    BY <1>5 DEF MeasuredIn, PartOf, Measured
  <2>4. \A g \in 1..parts : entries[g] = EntryOf(PartOf(v, key, keys[g]))
    <3> TAKE g \in 1..parts
    <3>1. entries[g] = AggregateBy(items)[keys[g]].metrics[name] /\ keys[g] \in DOMAIN AggregateBy(items)
      BY <1>2, <1>4
    <3>2. entries[g] = EntryOf(MeasuredIn(items, keys[g], name))
      BY ONLY name \in MetricNames, <3>1, AggregateByIs DEF EntryOf
    <3> QED BY <2>3, <3>2
  <2>5. overall.metrics[name] = EntryOf(v)
    <3>1. overall.metrics[name] = EntryOf(Measured(items, name))
      BY AggregateIs DEF EntryOf
    <3> QED BY <3>1
  <2>6. DOMAIN entries = 1..parts
    OBVIOUS
  <2>7. /\ CountOf([g \in 1..parts |-> entries[g].n]) = Ratio(EntryOf(v).n, 1)
        /\ IsDefined(EntryOf(v).mean) <=> EntryOf(v).n > 0
        /\ EntryOf(v).n > 0 =>
             Equal(SumOf(EntryOf(v)), Total([g \in 1..parts |-> SumOf(entries[g])]))
    BY ONLY <1>3, <2>2, <2>4, <2>6, MetricAddsUp
  <2> QED BY <2>1, <2>5, <2>7
<1>7. ASSUME NEW c \in DOMAIN overall.categories
      PROVE  CountOf([g \in DOMAIN groups |-> Occurrences(groups[g].categories, c)])
               = Ratio(overall.categories[c], 1)
  <2> PICK counts, P : /\ counts = [g \in 1..parts |-> Occurrences(groups[g].categories, c)]
                       /\ P = WithCategory(items, c)
    OBVIOUS
  <2>1. [g \in DOMAIN groups |-> Occurrences(groups[g].categories, c)] = counts
    BY <1>4
  <2>2. c # "none" /\ overall.categories[c] = Cardinality(P)
    <3>1. c \in FailuresOf(items)
      BY AggregateIs
    <3>2. overall.categories[c] = Cardinality(P)
      BY <3>1, AggregateIs
    <3> QED BY <3>1, <3>2 DEF FailuresOf
  <2>3. P \in SUBSET (1..last) /\ IsFiniteSet(P)
    <3>1. IsFiniteSet(1..last)
      BY FS_Interval
    <3>2. P \in SUBSET (1..last)
      BY DEF WithCategory
    <3> QED BY ONLY <3>1, <3>2, FS_Subset
  <2>4. CountsOf(counts, P, key, parts, keys)
    <3>1. ASSUME NEW g \in 1..parts PROVE counts[g] = Cardinality(Under(P, key, keys[g]))
      <4>1. counts[g] = Occurrences(AggregateBy(items)[keys[g]].categories, c)
        BY <1>4
      <4>2. keys[g] \in DOMAIN AggregateBy(items)
        BY <1>2
      <4>3. counts[g] = Cardinality(ItemsIn(items, keys[g]) \cap WithCategory(items, c))
        BY ONLY <2>2, <4>1, <4>2, AggregateByIs
      <4> QED BY <1>5, <2>3, <4>3
    <3> QED BY <3>1 DEF CountsOf
  <2>5. Splits(parts, keys, P, key)
    BY <1>3, <2>3 DEF Splits
  <2>6. CountOf(counts) = Ratio(Cardinality(P), 1)
    BY <2>3, <2>4, <2>5, CountsAddUp
  <2> QED BY <2>1, <2>2, <2>6
<1> QED BY <1>6, <1>7 DEF AddsUp
-----------------------------------------------------------------------------
(* The invariant.                                                          *)

\* A completed run: its items, and what was made of them.
IsRun(run) ==
  /\ run.items \in Seq(ToSet(run.items)) /\ \A i \in DOMAIN run.items : IsScored(run.items[i])
  /\ run.overall = Aggregate(ScoresOf(run.items)) /\ run.by_condition = AggregateBy(run.items)

(* What is recorded is what was measured: the score of each item is that   *)
(* of its observation, which the program can have made; and the aggregates *)
(* of a run are those of its items (evaluation_service.py:170-259).        *)
ScoresInv ==
  /\ scored \in Seq(ToSet(scored)) /\ \A i \in DOMAIN scored : IsScored(scored[i])
  /\ completed \in Seq(ToSet(completed)) /\ \A r \in DOMAIN completed : IsRun(completed[r])

\* A sequence is one of its own elements, and has a length.
LEMMA SequenceIsOfItsElements ==
  ASSUME NEW S, NEW s \in Seq(S)
  PROVE  /\ s \in Seq(ToSet(s)) /\ Len(s) \in Nat /\ DOMAIN s = 1..Len(s)
         /\ \A i \in DOMAIN s : s[i] \in S
<1> PICK n \in Nat : n = Len(s) /\ DOMAIN s = 1..n
  BY LenProperties
<1>1. s \in [1..n -> S]
  BY LenProperties
<1>2. s \in [1..n -> ToSet(s)]
  BY <1>1 DEF ToSet
<1>3. s \in Seq(ToSet(s))
  BY <1>2, SeqDef
<1> QED BY <1>1, <1>3

\* Where a run or an item is added to a sequence, the others stay.
LEMMA AppendedIsSequence ==
  ASSUME NEW s, s \in Seq(ToSet(s)), NEW e
  PROVE  LET t == Append(s, e) IN
         t \in Seq(ToSet(t)) /\ \A i \in DOMAIN t : t[i] = e \/ \E j \in DOMAIN s : t[i] = s[j]
<1> PICK S, t : S = ToSet(s) \cup {e} /\ t = Append(s, e)
  OBVIOUS
<1>1. s \in Seq(S) /\ e \in S
  <2>1. /\ s \in [1..Len(s) -> ToSet(s)] /\ Len(s) \in Nat
    BY LenProperties
  <2>2. s \in [1..Len(s) -> S]
    BY <2>1
  <2> QED BY <2>1, <2>2, SeqDef
<1>2. t \in Seq(S)
  BY <1>1, AppendProperties
<1>3. t \in Seq(ToSet(t)) /\ \A i \in DOMAIN t : t[i] \in S
  BY ONLY <1>2, SequenceIsOfItsElements
<1> QED BY <1>3 DEF ToSet

\* The same in front.
LEMMA PrependedIsSequence ==
  ASSUME NEW s, s \in Seq(ToSet(s)), NEW e
  PROVE  LET t == <<e>> \o s IN
         t \in Seq(ToSet(t)) /\ \A i \in DOMAIN t : t[i] = e \/ \E j \in DOMAIN s : t[i] = s[j]
<1> PICK S, t : S = ToSet(s) \cup {e} /\ t = <<e>> \o s
  OBVIOUS
<1>1. s \in Seq(S) /\ <<e>> \in Seq(S)
  <2>1. /\ s \in [1..Len(s) -> ToSet(s)] /\ Len(s) \in Nat
    BY LenProperties
  <2>2. s \in [1..Len(s) -> S]
    BY <2>1
  <2> QED BY <2>1, <2>2, SeqDef
<1>2. t \in Seq(S)
  BY <1>1, ConcatProperties
<1>3. t \in Seq(ToSet(t)) /\ \A i \in DOMAIN t : t[i] \in S
  BY ONLY <1>2, SequenceIsOfItsElements
<1> QED BY <1>3 DEF ToSet

\* What the program observes of an item.
LEMMA AnswersAreObserved ==
  ASSUME NEW retrieved \in Rankings, NEW payload \in Payloads
  PROVE  LET answer == AnswerOf(retrieved, payload)
         IN IsObservation(Observation(retrieved, answer.claims, answer.abstained, FALSE))
<1> PICK answer : answer = AnswerOf(retrieved, payload)
  OBVIOUS
<1>1. retrieved \in Seq(ToSet(retrieved))
  BY ScoresAssumption
<1>2. /\ IsFiniteSet(DOMAIN answer.claims) /\ answer.abstained \in BOOLEAN
      /\ \A i \in DOMAIN answer.claims : answer.claims[i] \subseteq ToSet(retrieved)
  <2>1. CASE retrieved = <<>>
    <3>1. answer.claims = <<>> /\ answer.abstained = TRUE
      BY <2>1 DEF AnswerOf, NoEvidenceAnswer
    <3>2. DOMAIN <<>> = {}
      OBVIOUS
    <3> QED BY <3>1, <3>2, FS_EmptySet
  <2>2. CASE retrieved # <<>>
    <3>1. answer.claims = Claims(payload, retrieved) /\ answer.abstained = payload.abstained
      BY <2>2 DEF AnswerOf, Answer
    <3>2. payload \in [kind : PayloadKinds, text : BOOLEAN, abstained : BOOLEAN,
                       claims : Seq([text : BOOLEAN, cites : Seq(Int)])]
      BY ScoresAssumption
    <3>3. payload.abstained \in BOOLEAN /\ payload.claims \in Seq([text : BOOLEAN, cites : Seq(Int)])
      BY <3>2
    <3>4. PICK n \in Nat : DOMAIN payload.claims = 1..n
      BY <3>3, LenProperties
    <3>5. IsFiniteSet(Kept(payload))
      <4>1. IsFiniteSet(1..n) /\ Kept(payload) \in SUBSET (1..n)
        BY <3>4, FS_Interval DEF Kept
      <4> QED BY ONLY <4>1, FS_Subset
    <3>6. ASSUME NEW j \in Kept(payload)
          PROVE  Resolved(payload.claims[j].cites, retrieved) \subseteq ToSet(retrieved)
      <4>1. payload.claims[j] \in [text : BOOLEAN, cites : Seq(Int)]
        BY <3>3, ElementOfSeq, LenProperties DEF Kept
      <4> PICK cites \in Seq(Int) : cites = payload.claims[j].cites
        BY <4>1
      <4>2. \A i \in DOMAIN cites : cites[i] \in Int
        BY LenProperties
      <4>3. \A i \in DOMAIN cites : IsPassage(cites[i], retrieved) => cites[i] + 1 \in DOMAIN retrieved
        <5>1. DOMAIN retrieved = 1..Len(retrieved) /\ Len(retrieved) \in Nat
          BY <1>1, LenProperties
        <5>2. ASSUME NEW i \in DOMAIN cites, IsPassage(cites[i], retrieved)
              PROVE  cites[i] + 1 \in DOMAIN retrieved
          <6>1. PICK c \in Int : c = cites[i]
            BY ONLY <4>2, i \in DOMAIN cites
          <6>2. PICK n0 \in Nat : n0 = Len(retrieved)
            BY ONLY <5>1
          <6>3. 0 <= c /\ c < n0
            BY ONLY <5>2, <6>1, <6>2 DEF IsPassage
          <6>4. c + 1 \in 1..n0
            BY ONLY <6>3, c \in Int, n0 \in Nat
          <6> QED BY ONLY <5>1, <6>1, <6>2, <6>4
        <5> QED BY ONLY <5>2
      <4> QED BY <4>3 DEF Resolved, ToSet
    <3>7. DOMAIN answer.claims = Kept(payload)
      BY <3>1 DEF Claims
    <3> QED BY <3>1, <3>3, <3>5, <3>6, <3>7 DEF Claims
  <2> QED BY <2>1, <2>2
<1> QED BY <1>1, <1>2 DEF IsObservation, Observation

\* What is observed without an answer.
LEMMA RankingsAreObserved ==
  ASSUME NEW retrieved, retrieved \in Seq(ToSet(retrieved)), NEW error \in BOOLEAN
  PROVE  IsObservation(Observation(retrieved, <<>>, FALSE, error))
<1>1. DOMAIN <<>> = {} /\ IsFiniteSet({})
  BY FS_EmptySet
<1> QED BY <1>1 DEF IsObservation, Observation

\* Recording an item adds its score.
LEMMA RecordsAreScored ==
  ASSUME ScoresInv, NEW item \in Items, NEW observed, IsObservation(observed), Record(item, observed)
  PROVE  ScoresInv'
<1> PICK e : e = [condition |-> item.condition, item |-> item, observed |-> observed,
                  score |-> ScoreItem(item, observed)]
  OBVIOUS
<1>1. IsScored(e)
  BY DEF IsScored
<1>2. scored' = Append(scored, e) /\ completed' = completed
  BY DEF Record
<1>3. /\ scored' \in Seq(ToSet(scored'))
      /\ \A i \in DOMAIN scored' : scored'[i] = e \/ \E j \in DOMAIN scored : scored'[i] = scored[j]
  BY <1>2, AppendedIsSequence DEF ScoresInv
<1>4. \A i \in DOMAIN scored' : IsScored(scored'[i])
  BY <1>1, <1>3 DEF ScoresInv
<1> QED BY <1>2, <1>3, <1>4 DEF ScoresInv

\* A run that completes is one whose aggregates are those of its items.
LEMMA CompletedIsRun ==
  ASSUME ScoresInv, CompleteRun
  PROVE  ScoresInv'
<1> PICK run : run = [strategy |-> running.strategy, overall |-> Aggregate(ScoresOf(scored)),
                      by_condition |-> AggregateBy(scored), items |-> scored]
  OBVIOUS
<1>1. IsRun(run)
  BY DEF IsRun, ScoresInv
<1>2. completed' = <<run>> \o completed /\ scored' = <<>>
  BY DEF CompleteRun, ScoresOf
<1>3. /\ completed' \in Seq(ToSet(completed'))
      /\ \A i \in DOMAIN completed' : completed'[i] = run \/ \E j \in DOMAIN completed : completed'[i] = completed[j]
  <2>1. completed \in Seq(ToSet(completed))
    BY DEF ScoresInv
  <2> PICK t : t = <<run>> \o completed
    OBVIOUS
  <2>2. t \in Seq(ToSet(t)) /\ \A i \in DOMAIN t : t[i] = run \/ \E j \in DOMAIN completed : t[i] = completed[j]
    BY ONLY <2>1, t = <<run>> \o completed, PrependedIsSequence
  <2> QED BY <1>2, <2>2
<1>4. \A r \in DOMAIN completed' : IsRun(completed'[r])
  BY <1>1, <1>3 DEF ScoresInv
<1>5. scored' \in Seq(ToSet(scored')) /\ DOMAIN scored' = {}
  BY <1>2
<1> QED BY <1>3, <1>4, <1>5 DEF ScoresInv

(* What is recorded is what was measured, whatever the datasets, the       *)
(* rankings and the answers (evaluation_service.py:170-259).               *)
THEOREM ScoresInvHolds == Spec => []ScoresInv
<1>1. Init => ScoresInv
  BY DEF Init, ScoresInv
<1>2. ScoresInv /\ [Next]_vars => ScoresInv'
  <2> SUFFICES ASSUME ScoresInv, [Next]_vars PROVE ScoresInv'
    OBVIOUS
  <2>1. ASSUME NEW strategy \in Strategies, NEW generate \in BOOLEAN, StartRun(strategy, generate)
        PROVE  ScoresInv'
    <3>1. scored' = <<>> /\ completed' = completed
      BY <2>1 DEF StartRun
    <3>2. scored' \in Seq(ToSet(scored')) /\ DOMAIN scored' = {}
      BY <3>1
    <3> QED BY <3>1, <3>2 DEF ScoresInv
  <2>2. ASSUME NEW item \in Items, FailItem(item)
        PROVE  ScoresInv'
    <3>1. <<>> \in Seq(ToSet(<<>>))
      OBVIOUS
    <3>2. IsObservation(FailedObservation)
      BY <3>1, RankingsAreObserved DEF FailedObservation
    <3> QED BY <2>2, <3>2, RecordsAreScored DEF FailItem
  <2>3. ASSUME NEW item \in Items, NEW retrieved \in Rankings, RetrieveOnly(item, retrieved)
        PROVE  ScoresInv'
    <3>1. IsObservation(Observation(retrieved, <<>>, FALSE, FALSE))
      BY ScoresAssumption, RankingsAreObserved
    <3> QED BY <2>3, <3>1, RecordsAreScored DEF RetrieveOnly
  <2>4. ASSUME NEW item \in Items, NEW retrieved \in Rankings, NEW payload \in Payloads,
               RetrieveAndAnswer(item, retrieved, payload)
        PROVE  ScoresInv'
    BY <2>4, AnswersAreObserved, RecordsAreScored DEF RetrieveAndAnswer
  <2>5. CASE CompleteRun
    BY <2>5, CompletedIsRun
  <2>6. CASE UNCHANGED vars
    BY <2>6 DEF vars, ScoresInv
  <2> QED BY <2>1, <2>2, <2>3, <2>4, <2>5, <2>6 DEF Next
<1> QED BY <1>1, <1>2, PTL DEF Spec

(* The metrics of an item never contradict each other or its failure       *)
(* category: metrics/retrieval.py:26-72, metrics/citation.py:37-41 and     *)
(* scoring.py:96-121 together, for every item, ranking and answer.         *)
THEOREM MetricsNeverDisagree == Spec => []MetricsAgree
<1>1. ScoresInv => MetricsAgree
  <2> SUFFICES ASSUME ScoresInv, NEW i \in DOMAIN scored
               PROVE  /\ SuccessIsMeasured(scored[i].score)
                      /\ RetrievalAgrees(scored[i].item, scored[i].observed, scored[i].score.metrics)
    BY Zenon DEF MetricsAgree, RetrievalAgrees
  <2>1. IsScored(scored[i])
    BY DEF ScoresInv
  <2>2. /\ IsFiniteSet(scored[i].item.gold) /\ IsObservation(scored[i].observed)
        /\ scored[i].score = ScoreItem(scored[i].item, scored[i].observed)
    BY <2>1, ScoresAssumption DEF IsScored
  <2>3. scored[i].score.metrics = Metrics(scored[i].item, scored[i].observed)
    <3>1. ScoreItem(scored[i].item, scored[i].observed).metrics = Metrics(scored[i].item, scored[i].observed)
      BY DEF ScoreItem
    <3> QED BY <2>2, <3>1
  <2> QED BY <2>2, <2>3, SuccessesAreMeasured, RetrievalMetricsAgree
<1> QED BY <1>1, ScoresInvHolds, PTL

(* Conditions add up to the whole in every completed run: values over as   *)
(* many items, the same weighed mean, every failure counted once           *)
(* (evaluation_service.py:254-259, scoring.py:154-165).                    *)
THEOREM NothingIsLostBetweenConditions == Spec => []ConditionsAddUp
<1>1. ScoresInv => ConditionsAddUp
  <2> SUFFICES ASSUME ScoresInv, NEW r \in DOMAIN completed
               PROVE  LET conditions == SetToSeq(DOMAIN completed[r].by_condition)
                      IN AddsUp(completed[r].overall,
                                [g \in DOMAIN conditions |-> completed[r].by_condition[conditions[g]]])
    BY Zenon DEF ConditionsAddUp
  <2> PICK items, overall, by, keys, groups :
        /\ items = completed[r].items /\ overall = completed[r].overall
        /\ by = completed[r].by_condition /\ keys = SetToSeq(DOMAIN by)
        /\ groups = [g \in DOMAIN keys |-> by[keys[g]]]
    OBVIOUS
  <2>1. /\ items \in Seq(ToSet(items)) /\ \A i \in DOMAIN items : IsScored(items[i])
        /\ overall = Aggregate(ScoresOf(items)) /\ by = AggregateBy(items)
    BY DEF ScoresInv, IsRun
  <2>2. PICK last \in Nat : DOMAIN items = 1..last
    BY <2>1, LenProperties
  <2>3. DOMAIN groups = DOMAIN keys /\ \A g \in DOMAIN keys : groups[g] = by[keys[g]]
    OBVIOUS
  <2>4. keys = SetToSeq(DOMAIN by)
    OBVIOUS
  <2>5. AddsUp(overall, groups)
    BY ONLY <2>1, <2>2, <2>3, <2>4, RunAddsUp
  <2> QED BY <2>5
<1> QED BY <1>1, ScoresInvHolds, PTL
-----------------------------------------------------------------------------
(* The heatmap.                                                            *)

\* The items of a run that measured something of a condition.
ValuesOf(run, condition, metric) ==
  {i \in DOMAIN run.items : /\ run.items[i].condition = condition
                            /\ IsDefined(run.items[i].score.metrics[metric])}

\* What a run shows of one condition.
LEMMA RunMeasures ==
  ASSUME NEW run, IsRun(run), NEW condition, NEW metric \in MetricNames
  PROVE  /\ condition \in DOMAIN run.by_condition
              <=> \E i \in DOMAIN run.items : run.items[i].condition = condition
         /\ condition \in DOMAIN run.by_condition =>
              /\ run.by_condition[condition].metrics[metric].n = Cardinality(ValuesOf(run, condition, metric))
              /\ IsDefined(run.by_condition[condition].metrics[metric].mean)
                   <=> ValuesOf(run, condition, metric) # {}
<1> PICK items, by, values : /\ items = run.items /\ by = run.by_condition
                             /\ values = {i \in DOMAIN items :
                                            /\ items[i].condition = condition
                                            /\ IsDefined(items[i].score.metrics[metric])}
  OBVIOUS
<1>1. /\ items \in Seq(ToSet(items)) /\ \A i \in DOMAIN items : IsScored(items[i])
      /\ by = AggregateBy(items)
  BY DEF IsRun
<1>2. PICK last \in Nat : DOMAIN items = 1..last
  BY <1>1, LenProperties
<1>3. condition \in DOMAIN by <=> \E i \in DOMAIN items : items[i].condition = condition
  <2>1. DOMAIN by = {items[i].condition : i \in DOMAIN items}
    <3>1. DOMAIN AggregateBy(items) = {items[i].condition : i \in DOMAIN items}
      BY ONLY AggregateByIs
    <3> QED BY <1>1, <3>1
  <2> QED BY <2>1
<1>4. ASSUME condition \in DOMAIN by
      PROVE  /\ by[condition].metrics[metric].n = Cardinality(values)
             /\ IsDefined(by[condition].metrics[metric].mean) <=> values # {}
  <2> PICK w : w = MeasuredIn(items, condition, metric)
    OBVIOUS
  <2>1. by[condition].metrics[metric] = EntryOf(w)
    <3>1. condition \in DOMAIN AggregateBy(items)
      BY ONLY <1>1, <1>4
    <3>2. AggregateBy(items)[condition].metrics[metric] = EntryOf(MeasuredIn(items, condition, metric))
      BY ONLY <3>1, metric \in MetricNames, AggregateByIs DEF EntryOf
    <3>3. w = MeasuredIn(items, condition, metric)
      OBVIOUS
    <3> QED BY ONLY <1>1, <3>2, <3>3
  <2>2. /\ DOMAIN w = {i \in DOMAIN items : items[i].condition = condition}
        /\ \A i \in DOMAIN w : w[i] = items[i].score.metrics[metric]
    BY DEF MeasuredIn, ItemsIn
  <2>3. {i \in DOMAIN w : IsDefined(w[i])} = values
    BY <2>2
  <2>4. DOMAIN w \subseteq 1..last /\ \A i \in DOMAIN w : w[i] \in Value
    <3>1. \A i \in DOMAIN items : items[i].score.metrics[metric] \in Value
      BY ONLY <1>1, metric \in MetricNames, MeasuresAreValues
    <3>2. DOMAIN w \subseteq DOMAIN items
      BY ONLY <2>2
    <3>3. \A i \in DOMAIN w : w[i] \in Value
      BY ONLY <2>2, <3>1, <3>2
    <3> QED BY ONLY <1>2, <3>2, <3>3
  <2> PICK n : n = DefinedCount(w)
    OBVIOUS
  <2>5. /\ n \in Nat /\ (n = 0 <=> \A i \in DOMAIN w : ~IsDefined(w[i]))
        /\ IsDefined(Mean(w)) <=> n > 0
    BY ONLY n = DefinedCount(w), <1>2, <2>4, MeanIsTotal
  <2>6. n = Cardinality(values)
    BY <2>3 DEF DefinedCount
  <2>7. n > 0 <=> values # {}
    BY <2>3, <2>5
  <2>8. IsDefined(Mean(w)) <=> values # {}
    BY ONLY <2>5, <2>7
  <2>9. by[condition].metrics[metric].mean = Mean(w) /\ by[condition].metrics[metric].n = DefinedCount(w)
    BY ONLY <2>1 DEF EntryOf
  <2>10. DefinedCount(w) = Cardinality(values)
    BY ONLY <2>6, n = DefinedCount(w)
  <2> QED BY ONLY <2>8, <2>9, <2>10
<1>5. values = ValuesOf(run, condition, metric)
  BY DEF ValuesOf
<1> QED BY <1>3, <1>4, <1>5

\* The runs that measured a condition under a strategy, and what their cell is to show.
Runs(strategy, condition) ==
  {r \in DOMAIN completed :
     /\ completed[r].strategy = strategy
     /\ \E i \in DOMAIN completed[r].items : completed[r].items[i].condition = condition}

CellIsMeasured(metric, cell) ==
  LET shown == Heatmap(completed, metric)[cell]
      measured == Runs(cell[1], cell[2])
      values(r) == ValuesOf(completed[r], cell[2], metric)
  IN IF measured = {} THEN shown = Gap
     ELSE \E r \in measured :
            /\ \A s \in measured : r <= s
            /\ shown.run = r /\ shown.n = Cardinality(values(r))
            /\ IsDefined(shown.mean) <=> values(r) # {}

(* The heatmap shows what the newest run measured, of as many items as it  *)
(* says, and gaps exactly where nothing was (heatmap.py:8-10 and 33-35).   *)
THEOREM HeatmapsAreMeasured == Spec => []HeatmapIsMeasured
<1>1. ScoresInv => HeatmapIsMeasured
  <2>0. (\A metric \in MetricNames :
            \A cell \in DOMAIN Heatmap(completed, metric) : CellIsMeasured(metric, cell))
          => HeatmapIsMeasured
    BY ONLY DEF HeatmapIsMeasured, CellIsMeasured, Runs, ValuesOf
  <2> SUFFICES ASSUME ScoresInv, NEW metric \in MetricNames, NEW cell \in DOMAIN Heatmap(completed, metric)
               PROVE  CellIsMeasured(metric, cell)
    BY <2>0
  <2> PICK strategy, condition : strategy = cell[1] /\ condition = cell[2]
    OBVIOUS
  <2> DEFINE measured == Runs(strategy, condition)
             having == {i \in DOMAIN completed :
                          /\ completed[i].strategy = strategy
                          /\ condition \in DOMAIN completed[i].by_condition}
  <2>1. Heatmap(completed, metric)[cell] = Cell(completed, strategy, condition, metric)
    BY DEF Heatmap
  <2>2. \A r \in DOMAIN completed : IsRun(completed[r])
    BY DEF ScoresInv
  <2>3. \A r \in DOMAIN completed :
          /\ condition \in DOMAIN completed[r].by_condition
               <=> \E i \in DOMAIN completed[r].items : completed[r].items[i].condition = condition
          /\ condition \in DOMAIN completed[r].by_condition =>
               /\ completed[r].by_condition[condition].metrics[metric].n
                    = Cardinality(ValuesOf(completed[r], condition, metric))
               /\ IsDefined(completed[r].by_condition[condition].metrics[metric].mean)
                    <=> ValuesOf(completed[r], condition, metric) # {}
    BY <2>2, RunMeasures
  <2>4. having = measured
    BY <2>3 DEF Runs
  <2>5. CASE measured = {}
    <3>1. Cell(completed, strategy, condition, metric) = Gap
      BY <2>4, <2>5 DEF Cell
    <3>2. Runs(cell[1], cell[2]) = {} /\ Heatmap(completed, metric)[cell] = Gap
      BY <2>1, <2>5, <3>1
    <3> QED BY ONLY <3>2 DEF CellIsMeasured
  <2>6. CASE measured # {}
    <3>1. measured \in SUBSET Nat
      BY LenProperties DEF ScoresInv, Runs
    <3>2. PICK r \in measured : r = Min(measured) /\ \A s \in measured : r <= s
      <4> HIDE DEF measured
      <4> QED BY <2>6, <3>1, MinIsLeast
    <3>3. FirstRun(completed, strategy, condition) = r
      BY <2>4, <3>2 DEF FirstRun
    <3> PICK entry : entry = completed[r].by_condition[condition].metrics[metric]
      OBVIOUS
    <3>4. Cell(completed, strategy, condition, metric) = [mean |-> entry.mean, n |-> entry.n, run |-> r]
      BY <2>4, <2>6, <3>3 DEF Cell
    <3>5. r \in DOMAIN completed /\ condition \in DOMAIN completed[r].by_condition
      BY ONLY <2>4, r \in measured
    <3> PICK values : values = ValuesOf(completed[r], condition, metric)
      OBVIOUS
    <3>6. entry.n = Cardinality(values) /\ (IsDefined(entry.mean) <=> values # {})
      BY <2>3, <3>5
    <3> PICK shown : shown = Heatmap(completed, metric)[cell]
      OBVIOUS
    <3>7. shown.run = r /\ shown.n = entry.n /\ shown.mean = entry.mean
      BY <2>1, <3>4
    <3>8. values = ValuesOf(completed[r], cell[2], metric) /\ measured = Runs(cell[1], cell[2])
          /\ shown = Heatmap(completed, metric)[cell]
      OBVIOUS
    <3>9. r \in measured
      OBVIOUS
    <3> HIDE DEF measured
    <3> QED BY ONLY <2>6, <3>2, <3>6, <3>7, <3>8, <3>9 DEF CellIsMeasured
  <2> QED BY <2>5, <2>6
<1> QED BY <1>1, ScoresInvHolds, PTL
=============================================================================
