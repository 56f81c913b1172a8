--------------------------- MODULE Serdes_proofs ---------------------------
(***************************************************************************)
(* Proofs about the serialisation, for every width of the integers' groups *)
(* and number of them, every type of struct and every struct of it: what   *)
(* was encoded is decoded, getSize() is exact, getMinimumSize() a lower    *)
(* bound, and a struct is read back.                                       *)
(*                                                                         *)
(* In this order: induction over the numbers up to a bound, from the well- *)
(* foundedness of <, and with it that the recursive functions exist;       *)
(* integers; places; types; the two sizes; the walk of serialise(); what   *)
(* it writes; what deserialise() reads.                                    *)
(***************************************************************************)
EXTENDS Serdes, FiniteSetTheorems, WellFoundedInduction, TLAPS

-----------------------------------------------------------------------------
(* Numbers have a least one.                                               *)
LEMMA LeastNumber ==
  ASSUME NEW T, T \subseteq Nat, T # {}
  PROVE  \E x \in T : \A y \in T : x <= y
<1> DEFINE R == OpToRel(<, Nat)
<1>1. PICK x \in T : \A y \in T : ~ (<<y, x>> \in R)
  <2>1. IsWellFoundedOn(R, Nat)
    BY NatLessThanWellFounded
  <2>2. T \subseteq Nat /\ T # {}
    OBVIOUS
  <2> HIDE DEF R
  <2> QED BY <2>1, <2>2, WFMin
<1>2. ASSUME NEW y \in T PROVE x <= y
  <2>1. x \in Nat /\ y \in Nat
    OBVIOUS
  <2>2. y < x => <<y, x>> \in R
    BY <2>1 DEF OpToRel
  <2>3. ~ (y < x)
    <3> HIDE DEF R
    <3> QED BY <1>1, <2>2
  <2> QED BY <2>1, <2>3
<1> QED BY <1>2

(* A set that has 0 and the successor of each of its numbers has them all. *)
LEMMA NatSet ==
  ASSUME NEW S, 0 \in S, \A n \in Nat : n \in S => n + 1 \in S
  PROVE  Nat \subseteq S
<1> DEFINE T == {n \in Nat : n \notin S}
<1> SUFFICES ASSUME T # {} PROVE FALSE
  OBVIOUS
<1>1. PICK x \in T : \A y \in T : x <= y
  <2>1. T \subseteq Nat
    OBVIOUS
  <2> HIDE DEF T
  <2> QED BY <2>1, LeastNumber
<1>2. x \in Nat /\ x # 0 /\ x - 1 \in Nat
  OBVIOUS
<1>3. x - 1 \in T
  <2>1. x - 1 \in S => (x - 1) + 1 \in S
    BY <1>2
  <2> QED BY <1>2, <2>1
<1> QED BY <1>1, <1>2, <1>3

(* The same up to a number.                                                *)
LEMMA Upwards ==
  ASSUME NEW n \in Nat, NEW S, 0 \in S, \A i \in 1 .. n : i - 1 \in S => i \in S
  PROVE  \A i \in 0 .. n : i \in S
<1> DEFINE T == {m \in Nat : m <= n => m \in S}
<1>1. 0 \in T
  OBVIOUS
<1>2. ASSUME NEW m \in Nat, m \in T PROVE m + 1 \in T
  <2> SUFFICES ASSUME m + 1 <= n PROVE m + 1 \in S
    OBVIOUS
  <2>1. m \in S /\ m + 1 \in 1 .. n /\ (m + 1) - 1 = m
    BY <1>2
  <2> QED BY <2>1
<1>3. Nat \subseteq T
  <2> HIDE DEF T
  <2> QED BY <1>1, <1>2, NatSet
<1> QED BY <1>3

(* Steps from a start, as many as are asked for.                           *)
Iterates(g, n, S, a, F) ==
    /\ g \in [0 .. n -> S] /\ g[0] = a
    /\ \A i \in 1 .. n : g[i] = F[i][g[i - 1]]

(* As many steps can be taken as one likes, if every step stays in S.      *)
LEMMA Iterated ==
  ASSUME NEW n \in Nat, NEW S, NEW a \in S, NEW F, \A i \in 1 .. n : \A y \in S : F[i][y] \in S
  PROVE  \E g : Iterates(g, n, S, a, F)
<1> DEFINE Upto(m, g) == g[0] = a /\ \A i \in 1 .. m : g[i] = F[i][g[i - 1]]
           T == {m \in Nat : m <= n => \E g \in [0 .. m -> S] : Upto(m, g)}
<1>1. 0 \in T
  <2> DEFINE g == [i \in 0 .. 0 |-> a]
  <2>1. g \in [0 .. 0 -> S] /\ Upto(0, g)
    OBVIOUS
  <2> QED BY <2>1
<1>2. ASSUME NEW m \in Nat, m \in T PROVE m + 1 \in T
  <2> SUFFICES ASSUME m + 1 <= n PROVE \E g \in [0 .. m + 1 -> S] : Upto(m + 1, g)
    OBVIOUS
  <2>1. PICK g \in [0 .. m -> S] : Upto(m, g)
    BY <1>2
  <2> DEFINE h == [i \in 0 .. m + 1 |-> IF i = m + 1 THEN F[m + 1][g[m]] ELSE g[i]]
  <2>2. g[m] \in S /\ m + 1 \in 1 .. n /\ F[m + 1][g[m]] \in S
    OBVIOUS
  <2>3. h \in [0 .. m + 1 -> S]
    BY <2>2
  <2>4. h[0] = a
    BY <2>1
  <2>5. ASSUME NEW i \in 1 .. m + 1 PROVE h[i] = F[i][h[i - 1]]
    <3>1. CASE i = m + 1
      <4>1. i - 1 = m /\ m \in 0 .. m + 1 /\ i \in 0 .. m + 1 /\ m # m + 1
        BY <3>1
      <4>2. h[i - 1] = g[m]
        BY <4>1
      <4>3. h[i] = F[i][g[m]]
        BY <3>1, <4>1
      <4> QED BY <4>2, <4>3
    <3>2. CASE i # m + 1
      <4>1. i \in 1 .. m /\ i - 1 \in 0 .. m /\ i - 1 # m + 1
        BY <3>2
      <4>2. h[i] = g[i] /\ h[i - 1] = g[i - 1]
        BY <4>1
      <4> QED BY <2>1, <4>1, <4>2
    <3> QED BY <3>1, <3>2
  <2> HIDE DEF h
  <2> QED BY <2>3, <2>4, <2>5
<1> HIDE DEF T
<1>3. n \in T
  BY <1>1, <1>2, NatSet
<1> QED BY <1>3 DEF T, Iterates

(* Dividing by the continuation bit.                                       *)
LEMMA DivMod ==
  ASSUME NEW v \in Nat
  PROVE  /\ v \div Continuation \in Nat /\ v % Continuation \in Nat
         /\ v % Continuation < Continuation
         /\ v = (v % Continuation) + Continuation * (v \div Continuation)
BY IntegerAssumption

(* A group is what is left of a byte without its continuation bit.         *)
LEMMA ModSmall ==
  ASSUME NEW r \in 0 .. Continuation - 1
  PROVE  r % Continuation = r /\ (r + Continuation) % Continuation = r
<1>1. r % Continuation = r
  BY IntegerAssumption
<1>2. (r + Continuation) % Continuation = r
  BY IntegerAssumption
<1> QED BY <1>1, <1>2

(* Weight is the recursion it is defined by: such a function exists.       *)
LEMMA WeightFacts ==
  /\ Weight \in [0 .. Groups -> Nat \ {0}] /\ Weight[0] = 1
  /\ \A i \in 1 .. Groups : Weight[i] = Continuation * Weight[i - 1]
<1> DEFINE S == Nat \ {0}
           F == [i \in 1 .. Groups |-> [y \in S |-> Continuation * y]]
           E(f) == f = [i \in 0 .. Groups |-> IF i = 0 THEN 1 ELSE Continuation * f[i - 1]]
<1>1. Groups \in Nat /\ 1 \in S /\ \A y \in S : Continuation * y \in S
  BY IntegerAssumption
<1>2. \A i \in 1 .. Groups : \A y \in S : F[i][y] \in S
  BY <1>1
<1>3. \A i \in 1 .. Groups : \A y \in S : F[i][y] = Continuation * y
  OBVIOUS
<1>4. PICK g : Iterates(g, Groups, S, 1, F)
  <2>1. Groups \in Nat /\ 1 \in S
    BY <1>1
  <2> HIDE DEF F, S, E
  <2> QED BY <1>2, <2>1, Iterated
<1>5. \A i \in 1 .. Groups : g[i] = Continuation * g[i - 1]
  <2> HIDE DEF F, S
  <2> QED BY <1>1, <1>3, <1>4 DEF Iterates
<1>6. E(g)
  <2> HIDE DEF F
  <2> QED BY <1>1, <1>4, <1>5 DEF Iterates
<1>7. E(Weight)
  <2>1. Weight = CHOOSE f : E(f)
    BY DEF Weight
  <2> HIDE DEF E
  <2> QED BY <1>6, <2>1
<1>8. DOMAIN Weight = 0 .. Groups /\ Weight[0] = 1
  BY <1>1, <1>7
<1>9. \A i \in 1 .. Groups : Weight[i] = Continuation * Weight[i - 1]
  BY <1>1, <1>7
<1>10. \A i \in 0 .. Groups : Weight[i] \in S
  <2> DEFINE T == {i \in 0 .. Groups : Weight[i] \in S}
  <2>1. 0 \in T
    BY <1>1, <1>8
  <2>2. ASSUME NEW i \in 1 .. Groups, i - 1 \in T PROVE i \in T
    <3> HIDE DEF S
    <3> QED BY <1>1, <1>9, <2>2
  <2> HIDE DEF T
  <2>3. \A i \in 0 .. Groups : i \in T
    BY <1>1, <2>1, <2>2, Upwards
  <2> QED BY <2>3 DEF T
<1>11. Weight = [i \in 0 .. Groups |-> Weight[i]]
  BY <1>7
<1> QED BY <1>8, <1>9, <1>10, <1>11

(* What is left of a value after each group.                               *)
LEMMA ShiftedFacts ==
  ASSUME NEW v \in Nat
  PROVE  /\ Shifted(v) \in [0 .. Groups -> Nat] /\ Shifted(v)[0] = v
         /\ \A i \in 1 .. Groups : Shifted(v)[i] = Shifted(v)[i - 1] \div Continuation
<1> DEFINE Step(y) == y \div Continuation
           F == [i \in 1 .. Groups |-> [y \in Nat |-> Step(y)]]
           E(f) == f = [i \in 0 .. Groups |-> IF i = 0 THEN v ELSE Step(f[i - 1])]
           f == Shifted(v)
<1>1. Groups \in Nat /\ \A y \in Nat : Step(y) \in Nat
  BY IntegerAssumption, DivMod
<1>2. \A i \in 1 .. Groups : \A y \in Nat : F[i][y] = Step(y)
  OBVIOUS
<1> HIDE DEF Step, F
<1>3. \A i \in 1 .. Groups : \A y \in Nat : F[i][y] \in Nat
  BY <1>1, <1>2
<1>4. PICK g : Iterates(g, Groups, Nat, v, F)
  <2> HIDE DEF E, f
  <2> QED BY <1>1, <1>3, Iterated
<1>5. \A i \in 1 .. Groups : g[i] = Step(g[i - 1])
  <2> TAKE i \in 1 .. Groups
  <2>1. i - 1 \in 0 .. Groups
    BY <1>1
  <2>2. g[i - 1] \in Nat /\ g[i] = F[i][g[i - 1]]
    BY <1>4, <2>1 DEF Iterates
  <2> QED BY <1>2, <2>2, Zenon
<1>6. E(g)
  BY <1>1, <1>4, <1>5 DEF Iterates
<1>7. E(f)
  <2>1. f = CHOOSE h : E(h)
    BY DEF Shifted, Step
  <2> HIDE DEF E, f
  <2> QED BY <1>6, <2>1
<1> HIDE DEF f
<1>8. DOMAIN f = 0 .. Groups /\ f[0] = v
  BY <1>1, <1>7
<1>9. \A i \in 1 .. Groups : f[i] = Step(f[i - 1])
  <2> TAKE i \in 1 .. Groups
  <2>1. i \in 0 .. Groups /\ i # 0
    BY <1>1
  <2> QED BY <1>7, <2>1, Zenon
<1>10. \A i \in 0 .. Groups : f[i] \in Nat
  <2> DEFINE T == {i \in 0 .. Groups : f[i] \in Nat}
  <2>1. 0 \in T
    BY <1>1, <1>8
  <2>2. ASSUME NEW i \in 1 .. Groups, i - 1 \in T PROVE i \in T
    BY <1>1, <1>9, <2>2
  <2> HIDE DEF T
  <2>3. \A i \in 0 .. Groups : i \in T
    BY <1>1, <2>1, <2>2, Upwards
  <2> QED BY <2>3 DEF T
<1>11. f = [i \in 0 .. Groups |-> f[i]]
  BY <1>7
<1> QED BY <1>8, <1>9, <1>10, <1>11 DEF f, Step

(* The total read so far, group by group, of bytes that are numbers.       *)
DecodeSteps(bytes, total, n) ==
    /\ total \in [0 .. n -> Nat] /\ total[0] = 0
    /\ \A i \in 1 .. n : total[i] = total[i - 1] + Group(bytes, i) * Weight[i - 1]

(* Decode adds up the groups, the recursion it is defined by.              *)
LEMMA DecodeFacts ==
  ASSUME NEW bytes, Min(Stops(bytes)) \in 1 .. Groups + 1,
         \A i \in 1 .. Min(Stops(bytes)) : bytes[i] \in Nat
  PROVE  \E total : /\ DecodeSteps(bytes, total, Min(Stops(bytes)))
                    /\ Decode(bytes) = total[Min(Stops(bytes))]
<1> DEFINE n == Min(Stops(bytes))
           Step(y, i) == y + Group(bytes, i) * Weight[i - 1]
           F == [i \in 1 .. n |-> [y \in Nat |-> Step(y, i)]]
           E(f) == f = [i \in 0 .. n |-> IF i = 0 THEN 0 ELSE Step(f[i - 1], i)]
           f == CHOOSE h : E(h)
<1>0. Decode(bytes) = f[n]
  BY DEF Decode
<1> HIDE DEF n
<1>1. n \in Nat /\ n <= Groups + 1 /\ Groups \in Nat /\ \A i \in 1 .. n : bytes[i] \in Nat
  BY IntegerAssumption DEF n
<1>2. ASSUME NEW i \in 1 .. n, NEW y \in Nat PROVE Step(y, i) \in Nat
  <2>1. Group(bytes, i) \in Nat
    BY <1>1, DivMod DEF Group
  <2>2. Weight[i - 1] \in Nat
    BY <1>1, WeightFacts
  <2>3. Group(bytes, i) * Weight[i - 1] \in Nat
    BY <2>1, <2>2
  <2> QED BY <2>3
<1>3. \A i \in 1 .. n : \A y \in Nat : F[i][y] = Step(y, i)
  OBVIOUS
<1> HIDE DEF Step, F
<1>4. PICK g : Iterates(g, n, Nat, 0, F)
  <2>1. \A i \in 1 .. n : \A y \in Nat : F[i][y] \in Nat
    BY <1>2, <1>3
  <2>2. 0 \in Nat
    OBVIOUS
  <2> HIDE DEF E, f
  <2> QED BY <1>1, <2>1, <2>2, Iterated
<1>5. \A i \in 1 .. n : g[i] = Step(g[i - 1], i)
  BY <1>1, <1>3, <1>4 DEF Iterates
<1>6. E(g)
  BY <1>1, <1>4, <1>5 DEF Iterates
<1>7. E(f)
  <2> HIDE DEF E
  <2> QED BY <1>6
<1> HIDE DEF f
<1>8. DOMAIN f = 0 .. n /\ f[0] = 0
  BY <1>1, <1>7
<1>9. \A i \in 1 .. n : f[i] = Step(f[i - 1], i)
  BY <1>1, <1>7
<1>10. \A i \in 0 .. n : f[i] \in Nat
  <2> DEFINE T == {i \in 0 .. n : f[i] \in Nat}
  <2>1. 0 \in T
    BY <1>1, <1>8
  <2>2. ASSUME NEW i \in 1 .. n, i - 1 \in T PROVE i \in T
    BY <1>1, <1>2, <1>9, <2>2
  <2> HIDE DEF T
  <2>3. \A i \in 0 .. n : i \in T
    BY <1>1, <2>1, <2>2, Upwards
  <2> QED BY <2>3 DEF T
<1>11. f \in [0 .. n -> Nat]
  BY <1>7, <1>10
<1>12. DecodeSteps(bytes, f, n)
  BY <1>8, <1>9, <1>11 DEF DecodeSteps, Step
<1> QED BY <1>0, <1>12 DEF n

(* An encoded integer has a byte for every group its value needs.          *)
LEMMA EncodedSizeFacts ==
  ASSUME NEW v \in Nat
  PROVE  /\ EncodedSize(v) \in 1 .. Groups + 1
         /\ \A i \in 1 .. Groups : Shifted(v)[i] # 0 <=> i < EncodedSize(v)
<1> DEFINE f == Shifted(v)
           Z == {i \in 1 .. Groups : f[i] = 0}
           N == {i \in 1 .. Groups : f[i] # 0}
<1>1. Groups \in Nat /\ Groups > 0
  BY IntegerAssumption
<1>2. /\ f \in [0 .. Groups -> Nat]
      /\ \A i \in 1 .. Groups : f[i] = f[i - 1] \div Continuation
  BY ShiftedFacts
<1>3. ASSUME NEW k \in 0 .. Groups, N = 1 .. k
      PROVE  EncodedSize(v) = k + 1 /\ \A i \in 1 .. Groups : f[i] # 0 <=> i <= k
  <2>1. Cardinality(1 .. k) = k
    BY <1>1, FS_Interval
  <2>2. EncodedSize(v) = 1 + Cardinality(N)
    BY DEF EncodedSize
  <2>3. \A i \in 1 .. Groups : f[i] # 0 <=> i \in N
    OBVIOUS
  <2> HIDE DEF f, N
  <2> QED BY <1>1, <1>3, <2>1, <2>2, <2>3
<1>4. \E k \in 0 .. Groups : N = 1 .. k
  <2>1. CASE Z = {}
    BY <1>1, <2>1
  <2>2. CASE Z # {}
    <3>1. PICK m \in Z : \A y \in Z : m <= y
      <4>1. Z \subseteq Nat
        BY <1>1
      <4> HIDE DEF Z
      <4> QED BY <2>2, <4>1, LeastNumber
    <3> DEFINE T == {i \in 0 .. Groups : i >= m => f[i] = 0}
    <3>2. 0 \in T
      BY <1>1
    <3>3. ASSUME NEW i \in 1 .. Groups, i - 1 \in T PROVE i \in T
      <4> SUFFICES ASSUME i >= m PROVE f[i] = 0
        BY <1>1
      <4>1. CASE i = m
        BY <4>1
      <4>2. CASE i # m
        <5>1. f[i - 1] = 0
          BY <1>1, <3>3, <4>2
        <5>2. 0 \div Continuation = 0
          BY IntegerAssumption
        <5> QED BY <1>2, <5>1, <5>2
      <4> QED BY <4>1, <4>2
    <3>4. \A i \in 0 .. Groups : i \in T
      <4> HIDE DEF T
      <4> QED BY <1>1, <3>2, <3>3, Upwards
    <3>5. \A i \in 1 .. Groups : f[i] # 0 <=> i < m
      BY <1>1, <3>1, <3>4
    <3>6. N = 1 .. m - 1 /\ m - 1 \in 0 .. Groups
      BY <1>1, <3>5
    <3> QED BY <3>6
  <2> QED BY <2>1, <2>2
<1>5. PICK k \in 0 .. Groups : N = 1 .. k
  BY <1>4
<1>6. EncodedSize(v) = k + 1 /\ \A i \in 1 .. Groups : f[i] # 0 <=> i <= k
  <2> HIDE DEF N, f
  <2> QED BY <1>3, <1>5
<1> QED BY <1>1, <1>6

(* What the groups so far leave of the value, and how much that can be.    *)
LEMMA GroupsAddUp ==
  ASSUME NEW v \in Nat, NEW k \in 0 .. Groups, NEW t,
         t[0] = 0, \A i \in 0 .. k : t[i] \in Nat,
         \A i \in 1 .. k : t[i] = t[i - 1] + (Shifted(v)[i - 1] % Continuation) * Weight[i - 1]
  PROVE  \A i \in 0 .. k : v = t[i] + Weight[i] * Shifted(v)[i]
<1> DEFINE f == Shifted(v)
           T == {i \in 0 .. k : v = t[i] + Weight[i] * f[i]}
<1>1. /\ f \in [0 .. Groups -> Nat] /\ f[0] = v
      /\ \A i \in 1 .. Groups : f[i] = f[i - 1] \div Continuation
  BY ShiftedFacts
<1>2. Groups \in Nat /\ Continuation \in Nat /\ k \in Nat
  BY IntegerAssumption
<1> HIDE DEF f
<1>3. 0 \in T
  <2>1. 0 \in 0 .. k /\ v = 0 + 1 * v
    BY <1>2
  <2> QED BY <1>1, <2>1, WeightFacts
<1>4. ASSUME NEW i \in 1 .. k, i - 1 \in T PROVE i \in T
  <2> DEFINE a == f[i - 1]
             w == Weight[i - 1]
  <2>1. i - 1 \in 0 .. Groups /\ i \in 1 .. Groups /\ i - 1 \in 0 .. k
    BY <1>2
  <2>2. a \in Nat /\ w \in Nat /\ f[i] = a \div Continuation /\ f[i] \in Nat
    <3>1. i \in 0 .. Groups
      BY <1>2, <2>1
    <3>2. a \in Nat /\ f[i] \in Nat /\ w \in Nat
      BY <1>1, <2>1, <3>1, WeightFacts
    <3>3. f[i] = a \div Continuation
      BY <1>1, <2>1
    <3> QED BY <3>2, <3>3
  <2>3. Weight[i] = Continuation * w
    BY <2>1, WeightFacts
  <2>4. a = (a % Continuation) + Continuation * f[i] /\ a % Continuation \in Nat
    <3> HIDE DEF a
    <3> QED BY <2>2, DivMod, Zenon
  <2>5. t[i] = t[i - 1] + (a % Continuation) * w
    BY DEF f
  <2>6. v = t[i - 1] + w * a
    BY <1>4
  <2> DEFINE r == a % Continuation
             q == f[i]
  <2>7. t[i - 1] \in Nat /\ r \in Nat /\ q \in Nat /\ a = r + Continuation * q
    BY <2>1, <2>2, <2>4
  <2> HIDE DEF a, w, r, q
  <2>8. w * a = r * w + (Continuation * w) * q
    BY <1>2, <2>2, <2>7
  <2>9. v = t[i] + (Continuation * w) * q
    <3>1. t[i] = t[i - 1] + r * w
      BY <2>5 DEF r
    <3>2. r * w \in Nat /\ (Continuation * w) * q \in Nat
      BY <1>2, <2>2, <2>7
    <3> QED BY <2>6, <2>7, <2>8, <3>1, <3>2
  <2> QED BY <2>3, <2>9 DEF q
<1>5. \A i \in 0 .. k : i \in T
  <2> HIDE DEF T
  <2> QED BY <1>2, <1>3, <1>4, Upwards
<1> QED BY <1>5 DEF f

(* Factors change places.                                                  *)
LEMMA Regroup ==
  ASSUME NEW a \in Nat, NEW b \in Nat, NEW c \in Nat
  PROVE  (a * b) * c = b * (a * c)
OBVIOUS

(* What is left for the last byte fits it.                                 *)
LEMMA LastByteFits ==
  ASSUME NEW v \in IntegerValues
  PROVE  v \in Nat /\ Shifted(v)[Groups] \in ByteValues
<1> DEFINE f == Shifted(v)
           T == {i \in 0 .. Groups : Weight[i] * f[i] <= v}
<1>1. Groups \in Nat /\ Continuation \in Nat /\ Continuation > 1
  BY IntegerAssumption
<1>2. Weight[Groups] \in Nat \ {0} /\ Weight[0] = 1
  BY <1>1, WeightFacts
<1>3. v \in Nat /\ v < 2 * Continuation * Weight[Groups]
  <2>1. 2 * Continuation * Weight[Groups] \in Nat
    BY <1>1, <1>2
  <2> QED BY <2>1 DEF IntegerValues
<1>4. /\ f \in [0 .. Groups -> Nat] /\ f[0] = v
      /\ \A i \in 1 .. Groups : f[i] = f[i - 1] \div Continuation
  BY <1>3, ShiftedFacts
<1> HIDE DEF f
<1>5. 0 \in T
  <2>1. 1 * v <= v
    BY <1>3
  <2> QED BY <1>1, <1>2, <1>4, <2>1
<1>6. ASSUME NEW i \in 1 .. Groups, i - 1 \in T PROVE i \in T
  <2> DEFINE a == f[i - 1]
             w == Weight[i - 1]
             q == f[i]
  <2>1. i - 1 \in 0 .. Groups /\ i \in 0 .. Groups
    BY <1>1
  <2>2. a \in Nat /\ w \in Nat /\ q \in Nat /\ q = a \div Continuation
    BY <1>4, <2>1, WeightFacts
  <2>3. Weight[i] = Continuation * w
    BY WeightFacts
  <2>4. w * a <= v
    BY <1>6
  <2> HIDE DEF a, w
  <2>5. a = (a % Continuation) + Continuation * q /\ a % Continuation \in Nat
    <3> HIDE DEF q
    <3> QED BY <2>2, DivMod, Zenon
  <2> HIDE DEF q
  <2>6. Continuation * q <= a /\ Continuation * q \in Nat
    BY <1>1, <2>2, <2>5
  <2>7. w * (Continuation * q) <= w * a
    BY <2>2, <2>6
  <2>8. (Continuation * w) * q = w * (Continuation * q)
    BY <1>1, <2>2, Regroup, Zenon
  <2>9. (Continuation * w) * q <= v
    <3>1. w * (Continuation * q) \in Nat /\ w * a \in Nat
      BY <2>2, <2>6
    <3> QED BY <1>3, <2>4, <2>7, <2>8, <3>1
  <2> QED BY <2>1, <2>3, <2>9 DEF q
<1>7. Groups \in T
  <2> HIDE DEF T
  <2>1. \A i \in 0 .. Groups : i \in T
    BY <1>1, <1>5, <1>6, Upwards
  <2> QED BY <1>1, <2>1
<1> DEFINE q == f[Groups]
           w == Weight[Groups]
<1>8. q \in Nat /\ w \in Nat /\ w * q <= v
  BY <1>1, <1>2, <1>4, <1>7
<1>9. v < 2 * Continuation * w
  BY <1>3
<1> HIDE DEF q, w
<1>10. q < 2 * Continuation
  <2> SUFFICES ASSUME q >= 2 * Continuation PROVE FALSE
    BY <1>1, <1>8
  <2>1. w * q >= w * (2 * Continuation)
    BY <1>1, <1>8
  <2>2. w * (2 * Continuation) = 2 * Continuation * w
    BY <1>1, <1>8
  <2> QED BY <1>1, <1>3, <1>8, <1>9, <2>1, <2>2
<1>11. q \in ByteValues
  BY <1>1, <1>8, <1>10 DEF ByteValues
<1> QED BY <1>3, <1>11 DEF q, f

(* The bytes of an encoded integer: groups with the continuation bit, and  *)
(* at last what is left.                                                   *)
LEMMA EncodeFacts ==
  ASSUME NEW v \in IntegerValues
  PROVE  /\ EncodedSize(v) \in 1 .. Groups + 1
         /\ Encode(v) \in Seq(ByteValues) /\ Len(Encode(v)) = EncodedSize(v)
         /\ \A i \in 1 .. EncodedSize(v) - 1 :
              Encode(v)[i] = (Shifted(v)[i - 1] % Continuation) + Continuation
         /\ Encode(v)[EncodedSize(v)] = Shifted(v)[EncodedSize(v) - 1]
         /\ EncodedSize(v) <= Groups => Shifted(v)[EncodedSize(v) - 1] < Continuation
<1> DEFINE f == Shifted(v)
           n == EncodedSize(v)
<1>1. Groups \in Nat /\ Continuation \in Nat /\ Continuation > 1
  BY IntegerAssumption
<1>2. v \in Nat /\ f[Groups] \in ByteValues
  BY LastByteFits
<1>3. /\ f \in [0 .. Groups -> Nat]
      /\ \A i \in 1 .. Groups : f[i] = f[i - 1] \div Continuation
  BY <1>2, ShiftedFacts
<1>4. n \in 1 .. Groups + 1 /\ \A i \in 1 .. Groups : f[i] # 0 <=> i < n
  BY <1>2, EncodedSizeFacts
<1>5. Encode(v) = [i \in 1 .. n |-> EncodedByte(v, i - 1)]
  BY DEF Encode
<1>6. ASSUME NEW i \in 0 .. Groups - 1
      PROVE  /\ i + 1 < n => EncodedByte(v, i) = (f[i] % Continuation) + Continuation
             /\ i + 1 = n => EncodedByte(v, i) = f[i] /\ f[i] < Continuation
             /\ f[i] % Continuation \in Nat /\ f[i] % Continuation < Continuation
  <2>1. i # Groups /\ i + 1 \in 1 .. Groups /\ i \in 0 .. Groups /\ (i + 1) - 1 = i
    BY <1>1
  <2>2. EncodedByte(v, i) = (f[i] % Continuation)
                              + (IF f[i + 1] # 0 THEN Continuation ELSE 0)
    BY <2>1 DEF EncodedByte
  <2>3. f[i + 1] # 0 <=> i + 1 < n
    BY <1>4, <2>1
  <2>4. f[i] \in Nat /\ f[i + 1] = f[i] \div Continuation
    BY <1>3, <2>1
  <2> DEFINE a == f[i]
  <2> HIDE DEF a
  <2>5. /\ a % Continuation \in Nat /\ a % Continuation < Continuation
        /\ a = (a % Continuation) + Continuation * (a \div Continuation)
    BY <2>4, DivMod, Zenon DEF a
  <2>6. CASE i + 1 < n
    BY <2>2, <2>3, <2>5, <2>6 DEF a
  <2>7. CASE i + 1 = n
    <3>1. a \div Continuation = 0
      BY <1>4, <2>3, <2>4, <2>7 DEF a
    <3>2. a = a % Continuation
      <4>1. Continuation * 0 = 0
        BY <1>1
      <4> QED BY <2>5, <3>1, <4>1
    <3>3. EncodedByte(v, i) = (a % Continuation) + 0
      BY <1>4, <2>2, <2>3, <2>7 DEF a
    <3>4. EncodedByte(v, i) = a /\ a < Continuation
      <4>1. (a % Continuation) + 0 = a % Continuation
        BY <2>5
      <4> QED BY <2>5, <3>2, <3>3, <4>1
    <3>5. ~ (i + 1 < n)
      BY <1>4, <2>7
    <3> QED BY <2>5, <2>7, <3>4, <3>5 DEF a
  <2>8. CASE i + 1 > n
    BY <1>4, <2>5, <2>8 DEF a
  <2> QED BY <1>4, <2>1, <2>6, <2>7, <2>8
<1>7. EncodedByte(v, Groups) = f[Groups]
  BY DEF EncodedByte
<1> HIDE DEF f, n
<1>8. ASSUME NEW i \in 1 .. n
      PROVE  /\ EncodedByte(v, i - 1) \in ByteValues
             /\ i < n => EncodedByte(v, i - 1) = (f[i - 1] % Continuation) + Continuation
             /\ i = n => EncodedByte(v, i - 1) = f[i - 1]
             /\ i = n /\ n <= Groups => f[i - 1] < Continuation
  <2>1. CASE i = Groups + 1
    <3>1. i - 1 = Groups /\ i = n /\ ~ (n <= Groups)
      BY <1>1, <1>4, <2>1
    <3> QED BY <1>2, <1>7, <3>1
  <2>2. CASE i # Groups + 1
    <3>1. i - 1 \in 0 .. Groups - 1 /\ (i - 1) + 1 = i /\ (i < n \/ i = n)
      BY <1>1, <1>4, <2>2
    <3>2. f[i - 1] \in Nat
      BY <1>1, <1>3, <3>1
    <3>3. CASE i < n
      <4>1. /\ EncodedByte(v, i - 1) = (f[i - 1] % Continuation) + Continuation
            /\ f[i - 1] % Continuation \in Nat /\ f[i - 1] % Continuation < Continuation
        BY <1>6, <3>1, <3>3
      <4>2. EncodedByte(v, i - 1) \in ByteValues
        BY <1>1, <4>1 DEF ByteValues
      <4>3. i # n
        BY <1>4, <3>3
      <4> QED BY <4>1, <4>2, <4>3
    <3>4. CASE i = n
      <4>1. EncodedByte(v, i - 1) = f[i - 1] /\ f[i - 1] < Continuation
        BY <1>6, <3>1, <3>4
      <4>2. EncodedByte(v, i - 1) \in ByteValues
        BY <1>1, <3>2, <4>1 DEF ByteValues
      <4>3. ~ (i < n)
        BY <1>4, <3>4
      <4> QED BY <4>1, <4>2, <4>3
    <3> QED BY <3>1, <3>3, <3>4
  <2> QED BY <2>1, <2>2
<1>9. Encode(v) \in Seq(ByteValues) /\ Len(Encode(v)) = n
  <2>1. n \in Nat /\ Encode(v) \in [1 .. n -> ByteValues]
    BY <1>4, <1>5, <1>8
  <2> QED BY <2>1
<1>10. \A i \in 1 .. n : Encode(v)[i] = EncodedByte(v, i - 1)
  BY <1>5
<1>11. n \in 1 .. n /\ \A i \in 1 .. n - 1 : i \in 1 .. n /\ i < n
  BY <1>4
<1> QED BY <1>4, <1>8, <1>9, <1>10, <1>11 DEF f, n

(* The least of a set of numbers.                                          *)
LEMMA MinIs ==
  ASSUME NEW T, T \subseteq Nat
  PROVE  /\ T # {} => Min(T) \in T /\ \A y \in T : Min(T) <= y
         /\ \A m \in T : (\A y \in T : m <= y) => Min(T) = m
<1>1. ASSUME T # {} PROVE Min(T) \in T /\ \A y \in T : Min(T) <= y
  <2>1. \E x \in T : \A y \in T : x <= y
    BY <1>1, LeastNumber
  <2> QED BY <2>1 DEF Min
<1>2. ASSUME NEW m \in T, \A y \in T : m <= y PROVE Min(T) = m
  <2>1. Min(T) \in T /\ Min(T) <= m /\ m <= Min(T)
    BY <1>1, <1>2
  <2>2. Min(T) \in Nat /\ m \in Nat
    BY <2>1
  <2> QED BY <2>1, <2>2
<1> QED BY <1>1, <1>2

(* Reading finds the end of what was written, and the number.  The bytes   *)
(* behind it may be any.                                                   *)
LEMMA Recovered ==
  ASSUME NEW v \in IntegerValues, NEW bytes \in Seq(ByteValues), EncodedSize(v) <= Len(bytes),
         \A i \in 1 .. EncodedSize(v) : bytes[i] = Encode(v)[i]
  PROVE  /\ Stops(bytes) # {} /\ Min(Stops(bytes)) = EncodedSize(v)
         /\ Decode(bytes) = v
<1> DEFINE f == Shifted(v)
           n == EncodedSize(v)
<1>1. Groups \in Nat /\ Continuation \in Nat /\ Continuation > 1
  BY IntegerAssumption
<1>2. v \in Nat /\ f \in [0 .. Groups -> Nat]
  BY LastByteFits, ShiftedFacts
<1>3. n \in 1 .. Groups + 1 /\ n <= Len(bytes) /\ Len(bytes) \in Nat
  BY EncodeFacts
<1>4. ASSUME NEW i \in 1 .. n
      PROVE  /\ i < n => bytes[i] = (f[i - 1] % Continuation) + Continuation
             /\ i = n => bytes[i] = f[i - 1]
             /\ i = n /\ n <= Groups => f[i - 1] < Continuation
             /\ f[i - 1] % Continuation \in 0 .. Continuation - 1
             /\ f[i - 1] \in Nat /\ bytes[i] \in ByteValues /\ i \in DOMAIN bytes
  <2>1. f[i - 1] \in Nat
    <3>1. i - 1 \in 0 .. Groups
      BY <1>1, <1>3
    <3> HIDE DEF f
    <3> QED BY <1>2, <3>1
  <2>2. i < n => i \in 1 .. n - 1
    BY <1>3
  <2>3. f[i - 1] % Continuation \in Nat /\ f[i - 1] % Continuation < Continuation
    <3> DEFINE a == f[i - 1]
    <3> HIDE DEF a
    <3>1. a % Continuation \in Nat /\ a % Continuation < Continuation
      BY <2>1, DivMod, Zenon DEF a
    <3> QED BY <3>1 DEF a
  <2>4. f[i - 1] % Continuation \in 0 .. Continuation - 1
    BY <1>1, <2>3
  <2>5. i \in DOMAIN bytes /\ bytes[i] \in ByteValues
    BY <1>3
  <2> HIDE DEF n
  <2>6. bytes[i] = Encode(v)[i]
    BY DEF n
  <2>7. i < n => bytes[i] = (f[i - 1] % Continuation) + Continuation
    BY <2>2, <2>6, EncodeFacts, Zenon DEF n
  <2>8. i = n => bytes[i] = f[i - 1]
    BY <2>6, EncodeFacts, Zenon DEF n
  <2>9. i = n /\ n <= Groups => f[i - 1] < Continuation
    BY EncodeFacts, Zenon DEF n
  <2> QED BY <2>1, <2>4, <2>5, <2>7, <2>8, <2>9
<1> HIDE DEF f, n
<1>5. n \in Stops(bytes) /\ \A i \in Stops(bytes) : n <= i
  <2>1. n \in Stops(bytes)
    <3>1. n \in 1 .. n /\ (n = Groups + 1 \/ n <= Groups)
      BY <1>1, <1>3
    <3>2. bytes[n] = f[n - 1] /\ (n <= Groups => f[n - 1] < Continuation) /\ n \in DOMAIN bytes
      BY <1>4, <3>1
    <3> QED BY <3>1, <3>2 DEF Stops
  <2>2. ASSUME NEW i \in Stops(bytes), i < n PROVE FALSE
    <3>1. i \in DOMAIN bytes /\ (bytes[i] < Continuation \/ i = Groups + 1)
      BY DEF Stops
    <3>2. i \in 1 .. n /\ i # Groups + 1
      BY <1>1, <1>3, <2>2, <3>1
    <3> DEFINE r == f[i - 1] % Continuation
    <3>3. bytes[i] = r + Continuation /\ r \in 0 .. Continuation - 1
      BY <1>4, <2>2, <3>2
    <3> HIDE DEF r
    <3> QED BY <1>1, <3>1, <3>2, <3>3
  <2>3. \A i \in Stops(bytes) : i \in Nat
    BY <1>3 DEF Stops
  <2> QED BY <1>3, <2>1, <2>2, <2>3
<1>6. Min(Stops(bytes)) = n
  <2>1. Stops(bytes) \subseteq Nat
    BY <1>3 DEF Stops
  <2> QED BY <1>5, <2>1, MinIs
<1>7. PICK t : DecodeSteps(bytes, t, n) /\ Decode(bytes) = t[n]
  <2>1. \A i \in 1 .. n : bytes[i] \in Nat
    BY <1>1, <1>4 DEF ByteValues
  <2> QED BY <1>3, <1>6, <2>1, DecodeFacts
<1>8. /\ \A i \in 0 .. n : t[i] \in Nat /\ t[0] = 0
      /\ \A i \in 1 .. n : t[i] = t[i - 1] + Group(bytes, i) * Weight[i - 1]
  BY <1>7 DEF DecodeSteps
<1>9. ASSUME NEW i \in 1 .. n - 1 PROVE Group(bytes, i) = f[i - 1] % Continuation
  <2> DEFINE r == f[i - 1] % Continuation
  <2>1. i \in 1 .. n /\ i < n /\ i # Groups + 1
    BY <1>1, <1>3
  <2>2. bytes[i] = r + Continuation /\ r \in 0 .. Continuation - 1
    BY <1>4, <2>1
  <2>3. Group(bytes, i) = bytes[i] % Continuation
    BY <2>1 DEF Group
  <2> HIDE DEF r
  <2>4. (r + Continuation) % Continuation = r
    BY <2>2, ModSmall
  <2> QED BY <2>2, <2>3, <2>4 DEF r
<1>10. Group(bytes, n) = f[n - 1]
  <2>1. n \in 1 .. n /\ (n = Groups + 1 \/ n <= Groups)
    BY <1>1, <1>3
  <2>2. bytes[n] = f[n - 1] /\ (n <= Groups => f[n - 1] < Continuation) /\ f[n - 1] \in Nat
    BY <1>4, <2>1
  <2>3. n <= Groups => f[n - 1] % Continuation = f[n - 1]
    <3> SUFFICES ASSUME n <= Groups PROVE f[n - 1] % Continuation = f[n - 1]
      OBVIOUS
    <3>1. f[n - 1] \in 0 .. Continuation - 1
      BY <1>1, <2>2
    <3> QED BY <3>1, ModSmall, Zenon
  <2>4. n <= Groups => n # Groups + 1
    BY <1>1
  <2> QED BY <2>1, <2>2, <2>3, <2>4, Zenon DEF Group
<1>11. v = t[n - 1] + Weight[n - 1] * f[n - 1]
  <2>1. n - 1 \in 0 .. Groups /\ n - 1 \in 0 .. n - 1 /\ (\A i \in 0 .. n - 1 : i \in 0 .. n)
        /\ (\A i \in 1 .. n - 1 : i \in 1 .. n) /\ 0 \in 0 .. n
    BY <1>1, <1>3
  <2>2. \A i \in 1 .. n - 1 :
           t[i] = t[i - 1] + (f[i - 1] % Continuation) * Weight[i - 1]
    BY <1>8, <1>9, <2>1, Zenon
  <2>3. t[0] = 0 /\ \A i \in 0 .. n - 1 : t[i] \in Nat
    BY <1>8, <2>1, Zenon
  <2> DEFINE k == n - 1
  <2>4. k \in 0 .. Groups /\ k \in 0 .. k
    BY <2>1
  <2> HIDE DEF k
  <2>5. \A i \in 0 .. k : v = t[i] + Weight[i] * f[i]
    BY <1>2, <2>2, <2>3, <2>4, GroupsAddUp, Zenon DEF k, f
  <2> QED BY <2>4, <2>5, Zenon DEF k
<1>12. t[n] = t[n - 1] + f[n - 1] * Weight[n - 1]
  BY <1>3, <1>8, <1>10
<1>13. f[n - 1] * Weight[n - 1] = Weight[n - 1] * f[n - 1]
  <2>1. n - 1 \in 0 .. Groups
    BY <1>1, <1>3
  <2>2. f[n - 1] \in Nat /\ Weight[n - 1] \in Nat
    BY <1>2, <2>1, WeightFacts
  <2> QED BY <2>2
<1>14. Decode(bytes) = v
  BY <1>7, <1>11, <1>12, <1>13, Zenon
<1> QED BY <1>5, <1>6, <1>14 DEF n

(* No integer is smaller than that of an empty vector: one byte.           *)
LEMMA ZeroIsSmallest ==
  /\ 0 \in IntegerValues /\ EncodedSize(0) = 1
  /\ \A v \in IntegerValues : EncodedSize(v) \in Nat /\ EncodedSize(v) >= EncodedSize(0)
<1> DEFINE f == Shifted(0)
           T == {i \in 0 .. Groups : f[i] = 0}
<1>1. Groups \in Nat /\ Groups > 0 /\ Continuation \in Nat /\ Weight[Groups] \in Nat \ {0}
  BY IntegerAssumption, WeightFacts
<1>2. 0 \in IntegerValues
  <2>1. 2 * Continuation * Weight[Groups] \in Nat \ {0}
    BY <1>1, IntegerAssumption
  <2> QED BY <2>1 DEF IntegerValues
<1>3. f[0] = 0 /\ \A i \in 1 .. Groups : f[i] = f[i - 1] \div Continuation
  BY ShiftedFacts
<1>4. 0 \div Continuation = 0
  BY IntegerAssumption
<1> HIDE DEF f
<1>5. 0 \in T
  BY <1>1, <1>3
<1>6. ASSUME NEW i \in 1 .. Groups, i - 1 \in T PROVE i \in T
  <2>1. i \in 0 .. Groups /\ f[i - 1] = 0
    BY <1>1, <1>6
  <2> QED BY <1>3, <1>4, <2>1
<1>7. \A i \in 0 .. Groups : i \in T
  <2> HIDE DEF T
  <2> QED BY <1>1, <1>5, <1>6, Upwards
<1>8. EncodedSize(0) = 1
  <2>1. /\ EncodedSize(0) \in 1 .. Groups + 1
        /\ 1 \in 1 .. Groups => (f[1] # 0 <=> 1 < EncodedSize(0))
    BY EncodedSizeFacts DEF f
  <2>2. 1 \in 1 .. Groups /\ f[1] = 0
    BY <1>1, <1>7
  <2> QED BY <1>1, <2>1, <2>2
<1>9. ASSUME NEW v \in IntegerValues PROVE EncodedSize(v) \in Nat /\ EncodedSize(v) >= 1
  <2>1. EncodedSize(v) \in 1 .. Groups + 1
    BY EncodeFacts
  <2> QED BY <1>1, <2>1
<1> QED BY <1>2, <1>8, <1>9

(* Whatever bytes follow it, an encoded integer is decoded to its value    *)
(* and ends where EncodedSize says.                                        *)
THEOREM IntegersReadBack ==
  \A v \in IntegerValues, rest \in Seq(ByteValues) :
    /\ Decode(Encode(v) \o rest) = v
    /\ Min(Stops(Encode(v) \o rest)) = EncodedSize(v)
<1> TAKE v \in IntegerValues, rest \in Seq(ByteValues)
<1> DEFINE bytes == Encode(v) \o rest
<1>1. /\ Encode(v) \in Seq(ByteValues) /\ Len(Encode(v)) = EncodedSize(v)
      /\ EncodedSize(v) \in Nat
  BY EncodeFacts, ZeroIsSmallest
<1>2. /\ bytes \in Seq(ByteValues) /\ EncodedSize(v) <= Len(bytes)
      /\ \A i \in 1 .. EncodedSize(v) : bytes[i] = Encode(v)[i]
  BY <1>1
<1> HIDE DEF bytes
<1>3. Decode(bytes) = v /\ Min(Stops(bytes)) = EncodedSize(v)
  BY <1>2, Recovered
<1> QED BY <1>3 DEF bytes

(* Weights grow.                                                           *)
LEMMA LastWeighsMost ==
  ASSUME NEW i \in 0 .. Groups
  PROVE  Weight[i] <= Weight[Groups]
<1> DEFINE T == {j \in 0 .. Groups : \A m \in 0 .. j : Weight[m] <= Weight[j]}
<1>1. Groups \in Nat /\ Continuation \in Nat /\ Continuation > 1
  BY IntegerAssumption
<1>2. \A j \in 0 .. Groups : Weight[j] \in Nat
  BY WeightFacts
<1>3. 0 \in T
  BY <1>1, <1>2
<1>4. ASSUME NEW j \in 1 .. Groups, j - 1 \in T PROVE j \in T
  <2>1. j - 1 \in 0 .. Groups /\ j \in 0 .. Groups
    BY <1>1
  <2> DEFINE w == Weight[j - 1]
  <2>2. w \in Nat /\ Weight[j] = Continuation * w
    BY <1>2, <2>1, WeightFacts
  <2>3. w <= Weight[j]
    <3> HIDE DEF w
    <3> QED BY <1>1, <2>2
  <2>4. ASSUME NEW m \in 0 .. j PROVE Weight[m] <= Weight[j]
    <3>1. m \in 0 .. Groups /\ (m = j \/ m \in 0 .. j - 1)
      BY <1>1
    <3>2. m \in 0 .. j - 1 => Weight[m] <= w
      BY <1>4
    <3> QED BY <1>2, <2>1, <2>2, <2>3, <3>1, <3>2
  <2> QED BY <2>1, <2>4
<1>5. Groups \in T
  <2>1. \A j \in 0 .. Groups : j \in T
    <3> HIDE DEF T
    <3> QED BY <1>1, <1>3, <1>4, Upwards
  <2> QED BY <1>1, <2>1
<1> QED BY <1>5

(* Whatever the bytes are, what is read from them is a number the integer  *)
(* can hold, and no byte behind the span is looked at.                     *)
LEMMA DecodedInRange ==
  ASSUME NEW bytes \in Seq(ByteValues), Stops(bytes) # {}
  PROVE  Min(Stops(bytes)) \in 1 .. Len(bytes) /\ Decode(bytes) \in IntegerValues
<1> DEFINE n == Min(Stops(bytes))
<1>1. Groups \in Nat /\ Continuation \in Nat /\ Continuation > 1
  BY IntegerAssumption
<1>2. n \in Stops(bytes) /\ \A i \in Stops(bytes) : n <= i
  <2>1. Stops(bytes) \subseteq Nat
    BY DEF Stops
  <2> QED BY <2>1, MinIs
<1> HIDE DEF n
<1>3. n \in 1 .. Len(bytes) /\ n <= Groups + 1
  <2>1. n \in 1 .. Len(bytes)
    BY <1>2 DEF Stops
  <2>2. n > Groups + 1 => Groups + 1 \in Stops(bytes)
    BY <1>1, <2>1 DEF Stops
  <2> QED BY <1>1, <1>2, <2>1, <2>2
<1>4. \A i \in 1 .. n : bytes[i] \in Nat /\ bytes[i] < 2 * Continuation
  BY <1>1, <1>3 DEF ByteValues
<1>5. PICK t : DecodeSteps(bytes, t, n) /\ Decode(bytes) = t[n]
  <2>1. n \in 1 .. Groups + 1
    BY <1>3
  <2> QED BY <1>4, <2>1, DecodeFacts DEF n
<1>6. /\ \A i \in 0 .. n : t[i] \in Nat /\ t[0] = 0
      /\ \A i \in 1 .. n : t[i] = t[i - 1] + Group(bytes, i) * Weight[i - 1]
  BY <1>5 DEF DecodeSteps
<1>7. \A i \in 0 .. Groups : Weight[i] \in Nat \ {0}
  BY WeightFacts
<1>8. ASSUME NEW a \in Nat, NEW w \in Nat, a < w, NEW g \in Nat, NEW c \in Nat, g < c
      PROVE  a + g * w < c * w
  <2>1. g * w <= (c - 1) * w
    BY <1>8
  <2>2. (c - 1) * w = c * w - w
    BY <1>8
  <2>3. g * w \in Nat /\ c * w \in Nat
    BY <1>8
  <2> QED BY <1>8, <2>1, <2>2, <2>3
<1> DEFINE T == {i \in 0 .. n : i <= Groups => t[i] < Weight[i]}
<1>9. 0 \in T
  BY <1>1, <1>3, <1>6, WeightFacts
<1>10. ASSUME NEW i \in 1 .. n, i - 1 \in T PROVE i \in T
  <2> SUFFICES ASSUME i <= Groups PROVE t[i] < Weight[i]
    BY <1>3
  <2>1. i - 1 \in 0 .. Groups /\ i \in 1 .. Groups /\ i # Groups + 1 /\ i - 1 \in 0 .. n
    BY <1>1, <1>3
  <2> DEFINE w == Weight[i - 1]
             b == bytes[i]
  <2>2. t[i - 1] \in Nat /\ t[i - 1] < w /\ w \in Nat /\ b \in Nat
    BY <1>1, <1>4, <1>6, <1>7, <1>10, <2>1
  <2>3. Weight[i] = Continuation * w
    BY <2>1, WeightFacts
  <2>4. t[i] = t[i - 1] + (b % Continuation) * w
    BY <1>6, <2>1 DEF Group
  <2> HIDE DEF w, b
  <2>5. b % Continuation \in Nat /\ b % Continuation < Continuation
    BY <2>2, DivMod, Zenon
  <2>6. t[i - 1] + (b % Continuation) * w < Continuation * w
    BY <1>1, <1>8, <2>2, <2>5, Zenon
  <2> QED BY <2>3, <2>4, <2>6
<1>11. \A i \in 0 .. n : i \in T
  <2>1. n \in Nat
    BY <1>3
  <2> HIDE DEF T
  <2> QED BY <1>9, <1>10, <2>1, Upwards
<1> DEFINE W == Weight[Groups]
           Size == 2 * Continuation * W
<1>12. W \in Nat /\ Size = (2 * Continuation) * W /\ Size \in Nat /\ 2 * Continuation \in Nat
  <2>1. W \in Nat
    BY <1>1, <1>7
  <2> HIDE DEF W
  <2> QED BY <1>1, <2>1
<1>13. t[n] \in Nat /\ t[n] < Size
  <2>1. t[n] \in Nat /\ n \in 0 .. n
    BY <1>3, <1>6
  <2>2. CASE n <= Groups
    <3>1. t[n] < Weight[n] /\ n \in 0 .. Groups
      BY <1>3, <1>11, <2>1, <2>2
    <3>2. Weight[n] <= W /\ Weight[n] \in Nat
      BY <1>7, <3>1, LastWeighsMost
    <3> HIDE DEF W
    <3>3. W <= (2 * Continuation) * W
      BY <1>1, <1>12
    <3> HIDE DEF Size
    <3> QED BY <1>12, <2>1, <3>1, <3>2, <3>3
  <2>3. CASE n = Groups + 1
    <3>1. /\ n - 1 = Groups /\ n - 1 \in 0 .. n /\ n \in 1 .. n
          /\ bytes[n] \in Nat /\ bytes[n] < 2 * Continuation
      BY <1>1, <1>3, <1>4, <2>3
    <3>2. t[n - 1] \in Nat /\ t[n - 1] < W
      BY <1>1, <1>6, <1>11, <3>1
    <3>3. t[n] = t[n - 1] + bytes[n] * W
      BY <1>6, <2>3, <3>1 DEF Group
    <3> HIDE DEF W
    <3>4. t[n - 1] + bytes[n] * W < (2 * Continuation) * W
      BY <1>8, <1>12, <3>1, <3>2, Zenon
    <3> QED BY <1>12, <2>1, <3>3, <3>4
  <2> QED BY <1>1, <1>3, <2>2, <2>3
<1>14. Decode(bytes) \in IntegerValues
  <2>1. IntegerValues = 0 .. Size - 1
    BY DEF IntegerValues
  <2> HIDE DEF Size
  <2> QED BY <1>5, <1>12, <1>13, <2>1
<1> QED BY <1>3, <1>14 DEF n

-----------------------------------------------------------------------------
(* A place of a struct has a type, and only the last level of a type is    *)
(* not that of a vector or a string.                                       *)
LEMMA PlaceFacts ==
  ASSUME NEW s \in Shapes, NEW v, IsStruct(s, v), NEW p \in DOMAIN v
  PROVE  /\ p \in Seq(Nat) /\ p # << >> /\ p[1] \in DOMAIN s
         /\ s[p[1]] \in Seq(Levels) /\ Len(p) \in DOMAIN s[p[1]]
         /\ TypeAt(s, p) \in Levels /\ v[p] \in ValuesOf(TypeAt(s, p))
         /\ TypeAt(s, p).kind \in Dynamic <=> Len(p) < Len(s[p[1]])
         /\ TypeAt(s, p).kind = "string" =>
              /\ Len(p) + 1 \in DOMAIN s[p[1]]
              /\ s[p[1]][Len(p) + 1].kind = "fundamental"
<1>1. /\ p \in Seq(Nat) /\ p # << >> /\ p[1] \in DOMAIN s /\ Len(p) <= Len(s[p[1]])
      /\ v[p] \in ValuesOf(TypeAt(s, p))
  BY DEF IsStruct
<1>2. s \in Seq(Seq(Levels)) /\ IsType(s[p[1]])
  BY <1>1, SerdesAssumption
<1> DEFINE t == s[p[1]]
           n == Len(p)
<1>3. t \in Seq(Levels)
  BY <1>2 DEF IsType
<1>4. n \in DOMAIN t
  <2>1. n \in Nat /\ n # 0
    BY <1>1
  <2> QED BY <1>1, <1>3, <2>1
<1>5. TypeAt(s, p) = t[n] /\ t[n] \in Levels
  BY <1>3, <1>4 DEF TypeAt
<1>6. t[n].kind \in Dynamic <=> n < Len(t)
  BY <1>2, <1>4 DEF IsType
<1>7. t[n].kind = "string" => n + 1 \in DOMAIN t /\ t[n + 1].kind = "fundamental"
  <2>1. t[n].kind = "string" => n < Len(t)
    BY <1>6 DEF Dynamic
  <2>2. n < Len(t) => n + 1 \in DOMAIN t
    BY <1>3, <1>4
  <2> QED BY <1>2, <1>4, <2>1, <2>2 DEF IsType
<1> QED BY <1>1, <1>3, <1>4, <1>5, <1>6, <1>7

(* The chunk that is written for a place, and the number it is the size of.*)
LEMMA ChunkFacts ==
  ASSUME NEW s \in Shapes, NEW v, IsStruct(s, v), NEW p \in DOMAIN v
  PROVE  /\ Chunk(s, v, p) \in Seq(ByteValues)
         /\ TypeAt(s, p).kind \in Fixed =>
              Chunk(s, v, p) = v[p] /\ Len(Chunk(s, v, p)) = TypeAt(s, p).bytes
         /\ TypeAt(s, p).kind \notin Fixed =>
              /\ v[p] \in IntegerValues /\ v[p] \in Nat
              /\ Chunk(s, v, p) = Encode(v[p]) /\ Len(Chunk(s, v, p)) = EncodedSize(v[p])
<1> DEFINE t == TypeAt(s, p)
<1>1. t \in Levels /\ v[p] \in ValuesOf(t)
  BY PlaceFacts
<1> HIDE DEF t
<1>2. t.bytes \in Nat
  BY <1>1 DEF Levels
<1>3. CASE t.kind \in Fixed
  <2>1. v[p] \in [1 .. t.bytes -> ByteValues] /\ Chunk(s, v, p) = v[p]
    BY <1>1, <1>3 DEF ValuesOf, Chunk, t
  <2>2. v[p] \in Seq(ByteValues) /\ Len(v[p]) = t.bytes
    BY <1>2, <2>1
  <2> QED BY <1>3, <2>1, <2>2 DEF t
<1>4. CASE t.kind \notin Fixed
  <2>1. v[p] \in IntegerValues /\ Chunk(s, v, p) = Encode(v[p])
    BY <1>1, <1>4 DEF ValuesOf, Chunk, t
  <2>2. Encode(v[p]) \in Seq(ByteValues) /\ Len(Encode(v[p])) = EncodedSize(v[p])
    BY <2>1, EncodeFacts
  <2>3. v[p] \in Nat
    BY <2>1, LastByteFits
  <2> QED BY <1>4, <2>1, <2>2, <2>3 DEF t
<1> QED BY <1>3, <1>4

(* The members and the elements of a struct are places of it.              *)
LEMMA MembersFacts ==
  ASSUME NEW s \in Shapes, NEW v, IsStruct(s, v)
  PROVE  /\ s \in Seq(Seq(Levels)) /\ Len(s) \in Nat
         /\ Members(s) \in Seq(DOMAIN v) /\ Len(Members(s)) = Len(s)
         /\ \A i \in 1 .. Len(s) : Members(s)[i] = <<i>>
<1>1. s \in Seq(Seq(Levels))
  BY SerdesAssumption
<1>2. Len(s) \in Nat /\ DOMAIN s = 1 .. Len(s)
  BY <1>1
<1>3. Members(s) = [i \in 1 .. Len(s) |-> <<i>>]
  BY <1>2 DEF Members
<1>4. \A i \in 1 .. Len(s) : <<i>> \in DOMAIN v
  BY <1>2 DEF IsStruct
<1> DEFINE P == DOMAIN v
<1> HIDE DEF P
<1>5. [i \in 1 .. Len(s) |-> <<i>>] \in Seq(P) /\ Len([i \in 1 .. Len(s) |-> <<i>>]) = Len(s)
  BY <1>2, <1>4 DEF P
<1> QED BY <1>1, <1>2, <1>3, <1>5 DEF P

(* The elements of a vector or a string are places of the struct, and      *)
(* nothing else has any.                                                   *)
LEMMA ElementsFacts ==
  ASSUME NEW s \in Shapes, NEW v, IsStruct(s, v), NEW p \in DOMAIN v
  PROVE  /\ Elements(s, v, p) \in Seq(DOMAIN v)
         /\ TypeAt(s, p).kind \notin Dynamic => Elements(s, v, p) = << >>
         /\ TypeAt(s, p).kind \in Dynamic =>
              /\ v[p] \in Nat /\ Len(Elements(s, v, p)) = v[p]
              /\ Elements(s, v, p) = [k \in 1 .. v[p] |-> Append(p, k)]
              /\ \A k \in 1 .. v[p] : Append(p, k) \in DOMAIN v
<1> DEFINE P == DOMAIN v
<1>1. CASE TypeAt(s, p).kind \in Dynamic
  <2>1. \A k \in 1 .. v[p] : Append(p, k) \in P
    BY <1>1 DEF IsStruct
  <2>2. v[p] \in Nat
    <3>1. TypeAt(s, p).kind \notin Fixed
      BY <1>1 DEF Dynamic, Fixed
    <3> QED BY <3>1, ChunkFacts
  <2>3. Elements(s, v, p) = [k \in 1 .. v[p] |-> Append(p, k)]
    BY <1>1 DEF Elements
  <2> DEFINE e == [k \in 1 .. v[p] |-> Append(p, k)]
             n == v[p]
  <2> HIDE DEF P, n
  <2>4. e \in [1 .. n -> P]
    BY <2>1 DEF n
  <2>5. n \in Nat
    BY <2>2 DEF n
  <2> HIDE DEF e
  <2>6. e \in Seq(P) /\ Len(e) = n
    BY <2>4, <2>5
  <2> QED BY <1>1, <2>1, <2>2, <2>3, <2>6 DEF P, n, e
<1>2. CASE TypeAt(s, p).kind \notin Dynamic
  <2>1. Elements(s, v, p) = << >>
    BY <1>2 DEF Elements
  <2>2. << >> \in Seq(DOMAIN v)
    OBVIOUS
  <2> QED BY <1>2, <2>1, <2>2
<1> QED BY <1>1, <1>2

(* A place above another one is a vector or a string.                      *)
LEMMA PrefixFacts ==
  ASSUME NEW s \in Shapes, NEW v, IsStruct(s, v), NEW q \in DOMAIN v, NEW n \in 1 .. Len(q) - 1
  PROVE  /\ SubSeq(q, 1, n) \in DOMAIN v /\ TypeAt(s, SubSeq(q, 1, n)).kind \in Dynamic
         /\ q[n + 1] \in 1 .. v[SubSeq(q, 1, n)]
<1> DEFINE r == SubSeq(q, 1, n)
<1>1. r \in DOMAIN v /\ q[n + 1] \in 1 .. v[r]
  BY DEF IsStruct
<1>2. q \in Seq(Nat) /\ Len(q) \in DOMAIN s[q[1]] /\ s[q[1]] \in Seq(Levels)
  BY PlaceFacts
<1>3. Len(r) = n /\ r[1] = q[1] /\ n < Len(q)
  BY <1>2
<1> HIDE DEF r
<1>4. TypeAt(s, r).kind \in Dynamic <=> Len(r) < Len(s[r[1]])
  BY <1>1, PlaceFacts
<1>5. Len(r) < Len(s[r[1]])
  BY <1>2, <1>3
<1> QED BY <1>1, <1>4, <1>5 DEF r

(* A value that is not a length can be replaced.                           *)
LEMMA Stored ==
  ASSUME NEW s \in Shapes, NEW v, IsStruct(s, v), NEW p \in DOMAIN v,
         TypeAt(s, p).kind \notin Dynamic, NEW x \in ValuesOf(TypeAt(s, p))
  PROVE  IsStruct(s, [v EXCEPT ![p] = x])
<1> DEFINE w == [v EXCEPT ![p] = x]
<1>1. /\ w = [q \in DOMAIN w |-> w[q]] /\ DOMAIN w = DOMAIN v /\ w[p] = x
      /\ \A q \in DOMAIN v : q # p => w[q] = v[q]
  OBVIOUS
<1> HIDE DEF w
<1>2. \A i \in DOMAIN s : <<i>> \in DOMAIN w
  BY <1>1 DEF IsStruct
<1>3. ASSUME NEW q \in DOMAIN w
      PROVE  /\ q \in Seq(Nat) /\ q # << >>
             /\ q[1] \in DOMAIN s /\ Len(q) <= Len(s[q[1]])
             /\ w[q] \in ValuesOf(TypeAt(s, q))
             /\ TypeAt(s, q).kind \in Dynamic => \A k \in 1 .. w[q] : Append(q, k) \in DOMAIN w
             /\ \A n \in 1 .. Len(q) - 1 :
                  SubSeq(q, 1, n) \in DOMAIN w /\ q[n + 1] \in 1 .. w[SubSeq(q, 1, n)]
  <2>1. q \in DOMAIN v
    BY <1>1
  <2>2. /\ q \in Seq(Nat) /\ q # << >> /\ q[1] \in DOMAIN s /\ Len(q) <= Len(s[q[1]])
        /\ v[q] \in ValuesOf(TypeAt(s, q))
        /\ TypeAt(s, q).kind \in Dynamic => \A k \in 1 .. v[q] : Append(q, k) \in DOMAIN v
    BY <2>1 DEF IsStruct
  <2>3. w[q] \in ValuesOf(TypeAt(s, q))
    BY <1>1, <2>1, <2>2
  <2>4. TypeAt(s, q).kind \in Dynamic => \A k \in 1 .. w[q] : Append(q, k) \in DOMAIN w
    BY <1>1, <2>1, <2>2
  <2>5. ASSUME NEW n \in 1 .. Len(q) - 1
        PROVE  SubSeq(q, 1, n) \in DOMAIN w /\ q[n + 1] \in 1 .. w[SubSeq(q, 1, n)]
    <3> DEFINE r == SubSeq(q, 1, n)
    <3>1. r \in DOMAIN v /\ TypeAt(s, r).kind \in Dynamic /\ q[n + 1] \in 1 .. v[r]
      BY <2>1, PrefixFacts
    <3> HIDE DEF r
    <3>2. w[r] = v[r]
      BY <1>1, <3>1
    <3> QED BY <1>1, <3>1, <3>2 DEF r
  <2> QED BY <2>2, <2>3, <2>4, <2>5
<1>4. IsStruct(s, w)
  BY <1>1, <1>2, <1>3 DEF IsStruct
<1> QED BY <1>4 DEF w

(* What a visit leaves to be visited.                                      *)
LEMMA VisitFacts ==
  ASSUME NEW P, NEW e \in Seq(P), NEW rest \in Seq(P), rest # << >>
  PROVE  /\ Head(rest) \in P /\ Tail(rest) \in Seq(P)
         /\ e \o Tail(rest) \in Seq(P)
         /\ << >> \o Tail(rest) = Tail(rest)
<1>1. Head(rest) \in P /\ Tail(rest) \in Seq(P)
  OBVIOUS
<1>2. e \o Tail(rest) \in Seq(P)
  BY <1>1
<1>3. << >> \o Tail(rest) = Tail(rest)
  BY <1>1
<1> QED BY <1>1, <1>2, <1>3

(* The bytes that are left in the span, and what a read takes of them.     *)
LEMMA LeftFacts ==
  ASSUME TypeOK
  PROVE  /\ data \in Seq(ByteValues) /\ Len(data) \in Nat
         /\ pointer \in Nat /\ pointer <= Len(data)
         /\ Left \in Seq(ByteValues) /\ Len(Left) = Len(data) - pointer
         /\ \A i \in 1 .. Len(Left) : Left[i] = data[pointer + i]
<1>1. data \in Seq(ByteValues) /\ pointer \in 0 .. Len(data) /\ Len(data) \in Nat
  BY DEF TypeOK
<1>2. /\ Left \in Seq(ByteValues) /\ Len(Left) = Len(data) - pointer
      /\ \A i \in 1 .. Len(Left) : Left[i] = data[pointer + i]
  BY <1>1 DEF Left
<1> QED BY <1>1, <1>2

(* The first bytes of those that are left.                                 *)
LEMMA Taken ==
  ASSUME NEW S, NEW b \in Seq(S), NEW m \in Nat, m <= Len(b)
  PROVE  SubSeq(b, 1, m) \in [1 .. m -> S] /\ SubSeq(b, 1, m) = [i \in 1 .. m |-> b[i]]
<1>1. SubSeq(b, 1, m) = [i \in 1 .. m |-> b[i]]
  OBVIOUS
<1>2. \A i \in 1 .. m : b[i] \in S
  OBVIOUS
<1> QED BY <1>1, <1>2

(* deserialise() leaves the struct it reads into a struct of the type.     *)
LEMMA ReadKeepsStruct ==
  ASSUME TypeOK, Read
  PROVE  /\ IsStruct(shape, got') /\ DOMAIN got' = DOMAIN got
         /\ pointer' \in 0 .. Len(data)
<1> DEFINE p == Head(todo)
           t == TypeAt(shape, p)
<1>1. shape \in Shapes /\ IsStruct(shape, got) /\ p \in DOMAIN got
  <2>1. todo \in Seq(DOMAIN got) /\ todo # << >>
    BY DEF TypeOK, Read
  <2> QED BY <2>1 DEF TypeOK
<1>2. ReadPlain(p, t) \/ ReadInteger(p, t) \/ ReadBeyond(t)
  BY DEF Read
<1> HIDE DEF p
<1>3. t \in Levels
  BY <1>1, PlaceFacts
<1> HIDE DEF t
<1>4. CASE ReadPlain(p, t)
  <2>1. /\ t.kind \in Fixed /\ t.bytes <= Len(Left) /\ t.bytes \in Nat
        /\ got' = [got EXCEPT ![p] = SubSeq(Left, 1, t.bytes)]
        /\ pointer' = pointer + t.bytes
    BY <1>3, <1>4 DEF ReadPlain, Levels
  <2>2. SubSeq(Left, 1, t.bytes) \in [1 .. t.bytes -> ByteValues]
    BY <2>1, LeftFacts, Taken
  <2>3. t.kind \notin Dynamic /\ SubSeq(Left, 1, t.bytes) \in ValuesOf(t)
    BY <2>1, <2>2 DEF ValuesOf, Fixed, Dynamic
  <2>4. IsStruct(shape, got')
    BY <1>1, <2>1, <2>3, Stored DEF t
  <2>5. pointer' \in 0 .. Len(data)
    BY <2>1, LeftFacts
  <2>6. DOMAIN got' = DOMAIN got
    BY <2>1
  <2> QED BY <2>4, <2>5, <2>6
<1>5. CASE ReadInteger(p, t)
  <2>1. /\ t.kind \notin Fixed /\ Stops(Left) # {}
        /\ got' = IF t.kind = "varint" THEN [got EXCEPT ![p] = Decode(Left)] ELSE got
        /\ pointer' = pointer + Min(Stops(Left))
    BY <1>5 DEF ReadInteger
  <2>2. Min(Stops(Left)) \in 1 .. Len(Left) /\ Decode(Left) \in IntegerValues
    BY <2>1, LeftFacts, DecodedInRange
  <2>3. IsStruct(shape, got')
    <3>1. CASE t.kind = "varint"
      <4>1. t.kind \notin Dynamic /\ Decode(Left) \in ValuesOf(t)
        BY <2>1, <2>2, <3>1 DEF ValuesOf, Dynamic
      <4> QED BY <1>1, <2>1, <3>1, <4>1, Stored DEF t
    <3>2. CASE t.kind # "varint"
      BY <1>1, <2>1, <3>2
    <3> QED BY <3>1, <3>2
  <2>4. pointer' \in 0 .. Len(data)
    BY <2>1, <2>2, LeftFacts
  <2>5. DOMAIN got' = DOMAIN got
    BY <2>1
  <2> QED BY <2>3, <2>4, <2>5
<1>6. CASE ReadBeyond(t)
  BY <1>1, <1>6, LeftFacts DEF ReadBeyond
<1> QED BY <1>2, <1>4, <1>5, <1>6

(* What a place counts for in the two sizes.  They differ only at vectors  *)
(* and strings, where the minimum is the smaller one.                      *)
LEMMA SizesFacts ==
  ASSUME NEW s \in Shapes, NEW v, IsStruct(s, v), NEW p \in DOMAIN v
  PROVE  /\ MinimumSizeOf(s, v, p) \in Nat /\ ActualSizeOf(s, v, p) \in Nat
         /\ MinimumSizeOf(s, v, p) <= ActualSizeOf(s, v, p)
         /\ ~ChecksDynamic(TypeAt(s, p)) => MinimumSizeOf(s, v, p) = ActualSizeOf(s, v, p)
<1> DEFINE t == TypeAt(s, p)
           b == s[p[1]][Len(p) + 1].bytes
           n == v[p]
<1>1. t \in Levels /\ t.bytes \in Nat
  BY PlaceFacts DEF Levels
<1>2. CountsElements(t) => b \in Nat
  <2>1. CountsElements(t) => Len(p) + 1 \in DOMAIN s[p[1]] /\ s[p[1]] \in Seq(Levels)
    BY PlaceFacts DEF CountsElements
  <2>2. \A l \in Levels : l.bytes \in Nat
    BY DEF Levels
  <2> QED BY <2>1, <2>2
<1>3. t.kind \notin Fixed => n \in Nat /\ n \in IntegerValues
  BY ChunkFacts
<1>4. /\ MinimumSizeOf(s, v, p) = IF t.kind \in Fixed THEN t.bytes
                                  ELSE IF t.kind \in Dynamic THEN EncodedSize(0) ELSE EncodedSize(n)
      /\ ActualSizeOf(s, v, p) = IF t.kind \in Fixed THEN t.bytes
                                 ELSE EncodedSize(n) + (IF CountsElements(t) THEN b * n ELSE 0)
  BY DEF MinimumSizeOf, ActualSizeOf
<1>5. t.kind \notin Fixed => /\ EncodedSize(n) \in Nat /\ EncodedSize(0) \in Nat
                             /\ EncodedSize(0) <= EncodedSize(n)
  <2>1. EncodedSize(0) \in Nat
    BY ZeroIsSmallest
  <2>2. n \in IntegerValues => EncodedSize(n) \in Nat /\ EncodedSize(n) >= EncodedSize(0)
    BY ZeroIsSmallest
  <2> QED BY <1>3, <2>1, <2>2
<1>6. CountsElements(t) => t.kind \in Dynamic /\ t.kind \notin Fixed
  BY DEF CountsElements, Dynamic, Fixed
<1>7. ~ChecksDynamic(t) => t.kind \in Fixed
  BY <1>1 DEF ChecksDynamic, Levels
<1> HIDE DEF t, b, n
<1>8. CountsElements(t) => b * n \in Nat
  BY <1>2, <1>3, <1>6
<1>9. CASE t.kind \in Fixed
  BY <1>1, <1>4, <1>9
<1>10. CASE t.kind \notin Fixed
  <2>1. ChecksDynamic(t)
    BY <1>7, <1>10
  <2> QED BY <1>4, <1>5, <1>6, <1>8, <1>10, <2>1 DEF t
<1> QED BY <1>9, <1>10

(* The structs, sizes, bytes and places are always what they should be,    *)
(* whatever is read: in particular no write and no read leaves the span.   *)
LEMMA TypeOKInit == Init => TypeOK
<1> SUFFICES ASSUME Init PROVE TypeOK
  OBVIOUS
<1>1. shape \in Shapes /\ IsStruct(shape, sent) /\ IsStruct(shape, got)
  BY SerdesAssumption DEF Init
<1>2. todo \in Seq(DOMAIN sent)
  BY <1>1, MembersFacts DEF Init
<1>3. data \in Seq(ByteValues) /\ Len(data) = 0
  BY DEF Init
<1> QED BY <1>1, <1>2, <1>3 DEF Init, TypeOK

(* Every operation keeps the variables' types.                             *)
LEMMA TypeOKNext == TypeOK /\ [Next]_serdesVars => TypeOK'
<1> SUFFICES ASSUME TypeOK, [Next]_serdesVars PROVE TypeOK'
  OBVIOUS
<1>1. /\ shape \in Shapes /\ IsStruct(shape, sent) /\ IsStruct(shape, got)
      /\ minimum \in Nat /\ size \in Nat
      /\ data \in Seq(ByteValues) /\ Len(data) \in Nat /\ pointer \in 0 .. Len(data)
  BY DEF TypeOK
<1>2. Members(shape) \in Seq(DOMAIN sent) /\ Members(shape) \in Seq(DOMAIN got)
  BY <1>1, MembersFacts
<1>3. CASE AddMinimum
  <2>1. todo \in Seq(DOMAIN sent) /\ todo # << >>
    BY <1>3 DEF TypeOK, AddMinimum
  <2>2. Head(todo) \in DOMAIN sent /\ Tail(todo) \in Seq(DOMAIN sent)
    BY <2>1
  <2>3. MinimumSizeOf(shape, sent, Head(todo)) \in Nat
    BY <1>1, <2>2, SizesFacts
  <2> QED BY <1>1, <1>3, <2>2, <2>3 DEF TypeOK, AddMinimum
<1>4. CASE GetSize
  BY <1>1, <1>2, <1>4 DEF TypeOK, GetSize
<1>5. CASE AddSize
  <2> DEFINE p == Head(todo)
             e == IF CountsElements(TypeAt(shape, p)) THEN << >> ELSE Elements(shape, sent, p)
  <2>1. todo \in Seq(DOMAIN sent) /\ todo # << >>
    BY <1>5 DEF TypeOK, AddSize
  <2>2. p \in DOMAIN sent
    BY <2>1
  <2>3. ActualSizeOf(shape, sent, p) \in Nat
    BY <1>1, <2>2, SizesFacts
  <2>4. << >> \in Seq(DOMAIN sent) /\ Elements(shape, sent, p) \in Seq(DOMAIN sent)
    BY <1>1, <2>2, ElementsFacts
  <2>5. e \in Seq(DOMAIN sent)
    BY <2>4
  <2>6. todo' = e \o Tail(todo) /\ size' = size + ActualSizeOf(shape, sent, p)
    BY <1>5 DEF AddSize
  <2> HIDE DEF e
  <2>7. todo' \in Seq(DOMAIN sent)
    BY <2>1, <2>5, <2>6, VisitFacts
  <2>8. size' \in Nat
    BY <1>1, <2>3, <2>6
  <2> QED BY <1>1, <1>5, <2>7, <2>8 DEF TypeOK, AddSize
<1>6. CASE Begin
  <2>1. PICK n \in Spans \cup {size} : data' = [j \in 1 .. n |-> 0]
    BY <1>6 DEF Begin
  <2>2. n \in Nat
    BY <1>1, SerdesAssumption
  <2>3. 0 \in ByteValues
    BY IntegerAssumption DEF ByteValues
  <2>4. data' \in [1 .. n -> ByteValues]
    BY <2>1, <2>3
  <2>5. data' \in Seq(ByteValues) /\ Len(data') = n
    BY <2>2, <2>4
  <2>6. pointer' \in 0 .. Len(data')
    <3>1. pointer' = 0
      BY <1>6 DEF Begin
    <3> QED BY <2>2, <2>5, <3>1
  <2> QED BY <1>1, <1>2, <1>6, <2>5, <2>6 DEF TypeOK, Begin
<1>7. CASE Write
  <2> DEFINE p == Head(todo)
             chunk == Chunk(shape, sent, p)
  <2>1. todo \in Seq(DOMAIN sent) /\ todo # << >>
    BY <1>7 DEF TypeOK, Write
  <2>2. p \in DOMAIN sent
    BY <2>1
  <2>3. chunk \in Seq(ByteValues)
    BY <1>1, <2>2, ChunkFacts
  <2>4. /\ pointer + Len(chunk) <= Len(data)
        /\ data' = [j \in DOMAIN data |->
                       IF j - pointer \in DOMAIN chunk THEN chunk[j - pointer] ELSE data[j]]
        /\ pointer' = pointer + Len(chunk)
        /\ todo' = Elements(shape, sent, p) \o Tail(todo)
    BY <1>7 DEF Write, HasRoom
  <2>5. Elements(shape, sent, p) \in Seq(DOMAIN sent)
    BY <1>1, <2>2, ElementsFacts
  <2> HIDE DEF chunk, p
  <2>6. todo' \in Seq(DOMAIN sent)
    BY <2>1, <2>4, <2>5, VisitFacts DEF p
  <2>7. data' \in [1 .. Len(data) -> ByteValues]
    <3>1. DOMAIN data = 1 .. Len(data)
      BY <1>1
    <3>2. ASSUME NEW j \in DOMAIN data
          PROVE  (IF j - pointer \in DOMAIN chunk THEN chunk[j - pointer] ELSE data[j])
                    \in ByteValues
      BY <1>1, <2>3
    <3> QED BY <2>4, <3>1, <3>2
  <2>8. data' \in Seq(ByteValues) /\ Len(data') = Len(data)
    BY <1>1, <2>7
  <2>9. pointer' \in 0 .. Len(data')
    BY <1>1, <2>3, <2>4, <2>8
  <2> QED BY <1>1, <1>7, <2>6, <2>8, <2>9 DEF TypeOK, Write
<1>8. CASE NoRoom
  BY <1>1, <1>8 DEF TypeOK, NoRoom
<1>9. CASE HandOver
  BY <1>1, <1>2, <1>9 DEF TypeOK, HandOver
<1>10. CASE Read
  <2> DEFINE p == Head(todo)
  <2>1. todo \in Seq(DOMAIN got) /\ todo # << >>
    BY <1>10 DEF TypeOK, Read
  <2>2. p \in DOMAIN got
    BY <2>1
  <2>3. IsStruct(shape, got') /\ DOMAIN got' = DOMAIN got /\ pointer' \in 0 .. Len(data)
    BY <1>10, ReadKeepsStruct
  <2>4. Elements(shape, got, p) \in Seq(DOMAIN got)
    BY <1>1, <2>2, ElementsFacts
  <2>5. todo' \in Seq(DOMAIN got')
    <3>1. todo' = Elements(shape, got, p) \o Tail(todo)
      BY <1>10 DEF Read
    <3> HIDE DEF p
    <3> QED BY <2>1, <2>3, <2>4, <3>1, VisitFacts
  <2>6. mode' \in {"deserialise", "overread"}
    BY <1>10 DEF Read, ReadPlain, ReadInteger, ReadBeyond
  <2>7. UNCHANGED <<shape, sent, minimum, size, data>>
    BY <1>10 DEF Read
  <2> QED BY <1>1, <2>3, <2>5, <2>6, <2>7 DEF TypeOK
<1>11. CASE Finish
  BY <1>1, <1>11 DEF TypeOK, Finish
<1>12. CASE UNCHANGED serdesVars
  BY <1>12 DEF TypeOK, serdesVars
<1> QED BY <1>3, <1>4, <1>5, <1>6, <1>7, <1>8, <1>9, <1>10, <1>11, <1>12 DEF Next

(* TypeOK: whatever is written and read, both structs stay structs of      *)
(* their type, the span keeps its bytes and the pointer stays in it.       *)
THEOREM SerdesTypes == Spec => []TypeOK
BY TypeOKInit, TypeOKNext, PTL DEF Spec

-----------------------------------------------------------------------------
(* Sequences, as functions and put together.                               *)
LEMMA AsSequence ==
  ASSUME NEW P, NEW k \in Nat, NEW f \in [1 .. k -> P]
  PROVE  f \in Seq(P) /\ Len(f) = k
OBVIOUS

(* What Head and Tail are of a sequence that is not empty.                 *)
LEMMA TailIs ==
  ASSUME NEW P, NEW r \in Seq(P), r # << >>
  PROVE  /\ Len(r) \in Nat \ {0} /\ Head(r) = r[1]
         /\ Tail(r) = [j \in 1 .. Len(r) - 1 |-> r[j + 1]]
<1>1. Len(r) \in Nat /\ Len(r) # 0 /\ Head(r) = r[1]
  OBVIOUS
<1>2. Tail(r) \in Seq(P) /\ Len(Tail(r)) = Len(r) - 1
  OBVIOUS
<1>3. \A j \in 1 .. Len(r) - 1 : Tail(r)[j] = r[j + 1]
  OBVIOUS
<1>4. Tail(r) = [j \in 1 .. Len(Tail(r)) |-> Tail(r)[j]]
  <2> DEFINE u == Tail(r)
  <2> HIDE DEF u
  <2>1. u \in Seq(P)
    BY <1>2 DEF u
  <2>2. u \in [1 .. Len(u) -> P]
    BY <2>1
  <2> QED BY <2>2 DEF u
<1> QED BY <1>1, <1>2, <1>3, <1>4

(* How places are put together does not matter.                            *)
LEMMA Associative ==
  ASSUME NEW P, NEW e \in Seq(P), NEW f \in Seq(P), NEW g \in Seq(P)
  PROVE  (e \o f) \o g = e \o (f \o g)
OBVIOUS

(* The first of two sequences put together comes first.                    *)
LEMMA Together ==
  ASSUME NEW P, NEW f \in Seq(P), NEW g \in Seq(P)
  PROVE  /\ f \o g \in Seq(P) /\ << >> \o g = g
         /\ f # << >> => f \o g # << >> /\ Head(f \o g) = Head(f) /\ Tail(f \o g) = Tail(f) \o g
<1>1. f \o g \in Seq(P)
  OBVIOUS
<1>3. << >> \o g = g
  OBVIOUS
<1>2. ASSUME f # << >> PROVE f \o g # << >> /\ Head(f \o g) = Head(f) /\ Tail(f \o g) = Tail(f) \o g
  BY <1>2
<1> QED BY <1>1, <1>2, <1>3

(* The members after the i-th.                                             *)
Rest(s, i) == [j \in 1 .. Len(s) - i |-> <<i + j>>]

(* The sums of the first members' minimum sizes.                           *)
MinimumSums(s, v, m) ==
    /\ m \in [0 .. Len(s) -> Nat] /\ m[0] = 0
    /\ \A i \in 1 .. Len(s) : m[i] = m[i - 1] + MinimumSizeOf(s, v, <<i>>)

(* One by one, the members after the i-th are visited.                     *)
LEMMA RestFacts ==
  ASSUME NEW s \in Shapes, NEW v, IsStruct(s, v), NEW i \in 0 .. Len(s)
  PROVE  /\ Len(s) \in Nat /\ Rest(s, 0) = Members(s) /\ Rest(s, i) \in Seq(DOMAIN v)
         /\ Rest(s, i) = << >> <=> i = Len(s)
         /\ i # Len(s) => /\ Head(Rest(s, i)) = <<i + 1>> /\ Tail(Rest(s, i)) = Rest(s, i + 1)
                          /\ i + 1 \in 1 .. Len(s) /\ <<i + 1>> \in DOMAIN v
<1>1. Len(s) \in Nat /\ DOMAIN s = 1 .. Len(s)
  BY MembersFacts
<1>2. \A j \in 1 .. Len(s) : <<j>> \in DOMAIN v
  BY <1>1 DEF IsStruct
<1> DEFINE P == DOMAIN v
           n == Len(s)
<1>3. \A j \in 1 .. n : <<j>> \in P
  BY <1>2
<1> HIDE DEF P, n
<1>4. n \in Nat /\ i \in 0 .. n
  BY <1>1 DEF n
<1>5. [j \in 1 .. n - i |-> <<i + j>>] \in [1 .. n - i -> P]
  BY <1>3, <1>4
<1>6. Rest(s, i) = [j \in 1 .. n - i |-> <<i + j>>] /\ n - i \in Nat
  BY <1>4 DEF Rest, n
<1> DEFINE r == Rest(s, i)
<1> HIDE DEF r
<1>7. r \in Seq(P) /\ Len(r) = n - i
  BY <1>5, <1>6, AsSequence DEF r
<1>8. r = << >> <=> i = n
  BY <1>4, <1>7
<1>9. ASSUME i # n
      PROVE  /\ Head(r) = <<i + 1>> /\ Tail(r) = Rest(s, i + 1)
             /\ i + 1 \in 1 .. n /\ <<i + 1>> \in P
  <2>1. i + 1 \in 1 .. n /\ <<i + 1>> \in P
    BY <1>3, <1>4, <1>9
  <2>2. 1 \in 1 .. n - i /\ Head(r) = r[1]
    BY <1>4, <1>7, <1>9
  <2>3. r[1] = <<i + 1>>
    BY <1>6, <2>2 DEF r
  <2>4. Rest(s, i + 1) = [j \in 1 .. n - (i + 1) |-> <<(i + 1) + j>>]
    BY DEF Rest, n
  <2>5. Tail(r) = [j \in 1 .. (n - i) - 1 |-> r[j + 1]]
    BY <1>7, <1>8, <1>9, TailIs
  <2>6. ASSUME NEW j \in 1 .. (n - i) - 1 PROVE r[j + 1] = <<(i + 1) + j>>
    <3>1. j + 1 \in 1 .. n - i /\ i + (j + 1) = (i + 1) + j
      BY <1>4
    <3> QED BY <1>6, <3>1 DEF r
  <2>7. (n - i) - 1 = n - (i + 1)
    BY <1>4
  <2> QED BY <2>1, <2>2, <2>3, <2>4, <2>5, <2>6, <2>7
<1>10. Rest(s, 0) = Members(s)
  <2>1. Rest(s, 0) = [j \in 1 .. n - 0 |-> <<0 + j>>] /\ n - 0 = n
    BY <1>4 DEF Rest, n
  <2>2. Members(s) = [j \in 1 .. n |-> <<j>>]
    BY <1>1 DEF Members, n
  <2>3. \A j \in 1 .. n : 0 + j = j
    BY <1>4
  <2> QED BY <2>1, <2>2, <2>3
<1> QED BY <1>1, <1>7, <1>8, <1>9, <1>10 DEF r, n, P

(* There are such sums.                                                    *)
LEMMA MinimumSumsExist ==
  ASSUME NEW s \in Shapes, NEW v, IsStruct(s, v)
  PROVE  \E m : MinimumSums(s, v, m)
<1> DEFINE Step(y, i) == y + MinimumSizeOf(s, v, <<i>>)
           F == [i \in 1 .. Len(s) |-> [y \in Nat |-> Step(y, i)]]
<1>1. Len(s) \in Nat /\ 0 \in Nat /\ DOMAIN s = 1 .. Len(s)
  BY MembersFacts
<1>2. ASSUME NEW i \in 1 .. Len(s), NEW y \in Nat PROVE Step(y, i) \in Nat
  <2>1. <<i>> \in DOMAIN v
    BY <1>1 DEF IsStruct
  <2>2. MinimumSizeOf(s, v, <<i>>) \in Nat
    BY <2>1, SizesFacts
  <2> QED BY <2>2
<1>3. \A i \in 1 .. Len(s) : \A y \in Nat : F[i][y] = Step(y, i)
  OBVIOUS
<1> HIDE DEF Step, F
<1>4. \A i \in 1 .. Len(s) : \A y \in Nat : F[i][y] \in Nat
  BY <1>2, <1>3
<1>5. PICK m : Iterates(m, Len(s), Nat, 0, F)
  BY <1>1, <1>4, Iterated
<1>6. ASSUME NEW i \in 1 .. Len(s) PROVE m[i] = m[i - 1] + MinimumSizeOf(s, v, <<i>>)
  <2>1. i - 1 \in 0 .. Len(s)
    BY <1>1
  <2>2. m[i] = Step(m[i - 1], i)
    BY <1>3, <1>5, <2>1 DEF Iterates
  <2> QED BY <2>2 DEF Step
<1> QED BY <1>5, <1>6 DEF Iterates, MinimumSums

(* A static struct has no member whose size depends on its value.          *)
LEMMA StaticMember ==
  ASSUME NEW s \in Shapes, NEW v, IsStruct(s, v), isStatic(s), NEW i \in 1 .. Len(s)
  PROVE  /\ MinimumSizeOf(s, v, <<i>>) = ActualSizeOf(s, v, <<i>>)
         /\ Elements(s, v, <<i>>) = << >>
<1>1. i \in DOMAIN s /\ <<i>> \in DOMAIN v
  <2>1. i \in DOMAIN s
    BY MembersFacts
  <2> QED BY <2>1 DEF IsStruct
<1>2. TypeAt(s, <<i>>) = s[i][1]
  BY DEF TypeAt
<1>3. ~ChecksDynamic(TypeAt(s, <<i>>))
  BY <1>1, <1>2 DEF isStatic, isDynamic
<1>4. TypeAt(s, <<i>>).kind \notin Dynamic
  BY <1>3 DEF ChecksDynamic
<1> QED BY <1>1, <1>3, <1>4, SizesFacts, ElementsFacts

(* While the sizes are calculated: the minimum is that of the members      *)
(* visited so far, and the size is never less than that, nor more if the   *)
(* struct is static.                                                       *)
MinimumSoFar(m) ==
    IF mode = "getMinimumSize"
    THEN size = 0 /\ \E i \in 0 .. Len(shape) : todo = Rest(shape, i) /\ minimum = m[i]
    ELSE minimum = m[Len(shape)]

SizeSoFar(m) ==
    mode = "getSize" =>
        \E i \in 0 .. Len(shape), inner \in Seq(DOMAIN sent) :
            /\ todo = inner \o Rest(shape, i)
            /\ m[i] <= size
            /\ isStatic(shape) => inner = << >> /\ size = m[i]

MinimumInv ==
    /\ \E m : MinimumSums(shape, sent, m) /\ MinimumSoFar(m) /\ SizeSoFar(m)
    /\ MinimumHolds

(* Both sizes begin at 0.                                                  *)
LEMMA MinimumInvInit == Init => MinimumInv
<1> SUFFICES ASSUME Init PROVE MinimumInv
  OBVIOUS
<1>1. shape \in Shapes /\ IsStruct(shape, sent)
  BY TypeOKInit DEF TypeOK
<1>2. PICK m : MinimumSums(shape, sent, m)
  BY <1>1, MinimumSumsExist
<1>3. 0 \in 0 .. Len(shape) /\ todo = Rest(shape, 0) /\ minimum = m[0] /\ size = 0
  <2>1. Len(shape) \in Nat
    BY <1>1, MembersFacts
  <2>2. 0 \in 0 .. Len(shape)
    BY <2>1
  <2> QED BY <1>1, <1>2, <2>2, RestFacts DEF Init, MinimumSums
<1>4. MinimumSoFar(m) /\ SizeSoFar(m) /\ MinimumHolds
  BY <1>3 DEF MinimumSoFar, SizeSoFar, MinimumHolds, Init
<1> QED BY <1>2, <1>4 DEF MinimumInv

(* A visit of the size walk keeps it at or above the minimum.              *)
LEMMA SizeStepsAbove ==
  ASSUME TypeOK, AddSize, NEW m, MinimumSums(shape, sent, m), SizeSoFar(m)
  PROVE  SizeSoFar(m)'
<1> DEFINE p == Head(todo)
           e == IF CountsElements(TypeAt(shape, p)) THEN << >> ELSE Elements(shape, sent, p)
           P == DOMAIN sent
           n == Len(shape)
           a == ActualSizeOf(shape, sent, p)
<1>1. /\ shape \in Shapes /\ IsStruct(shape, sent) /\ size \in Nat
      /\ todo \in Seq(P) /\ todo # << >> /\ mode = "getSize"
  BY DEF TypeOK, AddSize
<1>2. p \in P /\ n \in Nat
  BY <1>1, MembersFacts
<1>3. e \in Seq(P)
  <2>1. << >> \in Seq(P)
    OBVIOUS
  <2> QED BY <1>1, <1>2, <2>1, ElementsFacts
<1>4. /\ todo' = e \o Tail(todo) /\ size' = size + a
      /\ UNCHANGED <<shape, sent>> /\ mode' = "getSize"
  BY <1>1 DEF AddSize
<1>5. a \in Nat
  BY <1>1, <1>2, SizesFacts
<1>6. PICK i \in 0 .. n, inner \in Seq(P) :
         todo = inner \o Rest(shape, i) /\ m[i] <= size
         /\ (isStatic(shape) => inner = << >> /\ size = m[i])
  BY <1>1 DEF SizeSoFar
<1> DEFINE Q(i2, in2) ==
              /\ todo' = in2 \o Rest(shape, i2) /\ m[i2] <= size'
              /\ isStatic(shape) => in2 = << >> /\ size' = m[i2]
<1> SUFFICES \E i2 \in 0 .. n, in2 \in Seq(P) : Q(i2, in2)
  BY <1>4 DEF SizeSoFar
<1>7. Rest(shape, i) \in Seq(P) /\ m[i] \in Nat
  BY <1>1, RestFacts DEF MinimumSums
<1>8. CASE inner # << >>
  <2>1. /\ Tail(todo) = Tail(inner) \o Rest(shape, i) /\ Tail(inner) \in Seq(P)
    BY <1>6, <1>7, <1>8, Together
  <2> HIDE DEF e, P, a
  <2>2. e \o Tail(inner) \in Seq(P)
    BY <1>3, <2>1
  <2>3. todo' = (e \o Tail(inner)) \o Rest(shape, i)
    <3> DEFINE u == Tail(inner)
               r == Rest(shape, i)
    <3>1. (e \o u) \o r = e \o (u \o r)
      <4>1. u \in Seq(P) /\ r \in Seq(P)
        BY <1>7, <2>1
      <4> HIDE DEF u, r
      <4> QED BY <1>3, <4>1, Associative
    <3> QED BY <1>4, <2>1, <3>1, Zenon
  <2>4. m[i] <= size'
    BY <1>1, <1>4, <1>5, <1>6, <1>7
  <2>5. Q(i, e \o Tail(inner))
    BY <1>6, <1>8, <2>3, <2>4
  <2> HIDE DEF Q
  <2> QED BY <2>2, <2>5
<1>9. CASE inner = << >>
  <2>1. todo = Rest(shape, i)
    BY <1>6, <1>7, <1>9
  <2>2. i # n
    BY <1>1, <2>1, RestFacts
  <2>3. /\ p = <<i + 1>> /\ Tail(todo) = Rest(shape, i + 1)
        /\ i + 1 \in 1 .. n /\ i + 1 \in 0 .. n
    <3>1. /\ p = <<i + 1>> /\ Tail(todo) = Rest(shape, i + 1)
          /\ i + 1 \in 1 .. n
      BY <1>1, <2>1, <2>2, RestFacts, Zenon
    <3> QED BY <1>2, <3>1
  <2>4. /\ m[i + 1] = m[i] + MinimumSizeOf(shape, sent, p)
        /\ MinimumSizeOf(shape, sent, p) <= a /\ MinimumSizeOf(shape, sent, p) \in Nat
    <3>1. (i + 1) - 1 = i
      BY <1>2
    <3>2. m[i + 1] = m[(i + 1) - 1] + MinimumSizeOf(shape, sent, <<i + 1>>)
      BY <2>3 DEF MinimumSums
    <3> QED BY <1>1, <1>2, <2>3, <3>1, <3>2, SizesFacts
  <2>5. isStatic(shape) => e = << >> /\ MinimumSizeOf(shape, sent, p) = a
    BY <1>1, <2>3, StaticMember
  <2> HIDE DEF e, P, a, p
  <2>6. m[i + 1] <= size' /\ (isStatic(shape) => size' = m[i + 1])
    BY <1>1, <1>4, <1>5, <1>6, <1>7, <2>4, <2>5
  <2>7. Q(i + 1, e)
    BY <1>4, <2>3, <2>5, <2>6
  <2> HIDE DEF Q
  <2> QED BY <1>3, <2>3, <2>7
<1> QED BY <1>8, <1>9

(* Every visit adds no more to the minimum than to the size.               *)
LEMMA MinimumInvNext == TypeOK /\ MinimumInv /\ [Next]_serdesVars => MinimumInv'
<1> SUFFICES ASSUME TypeOK, MinimumInv, [Next]_serdesVars PROVE MinimumInv'
  OBVIOUS
<1>1. shape \in Shapes /\ IsStruct(shape, sent) /\ Len(shape) \in Nat
  BY MembersFacts DEF TypeOK
<1>2. PICK m : MinimumSums(shape, sent, m) /\ MinimumSoFar(m) /\ SizeSoFar(m)
  BY DEF MinimumInv
<1>3. MinimumHolds
  BY DEF MinimumInv
<1>4. CASE AddMinimum
  <2>1. /\ mode = "getMinimumSize" /\ todo # << >> /\ mode' = mode
        /\ minimum' = minimum + MinimumSizeOf(shape, sent, Head(todo)) /\ todo' = Tail(todo)
        /\ UNCHANGED <<shape, sent, size>>
    BY <1>4 DEF AddMinimum
  <2>2. PICK i \in 0 .. Len(shape) : todo = Rest(shape, i) /\ minimum = m[i] /\ size = 0
    BY <1>2, <2>1 DEF MinimumSoFar
  <2>3. i # Len(shape)
    BY <1>1, <2>1, <2>2, RestFacts
  <2>4. /\ Head(todo) = <<i + 1>> /\ todo' = Rest(shape, i + 1)
        /\ i + 1 \in 1 .. Len(shape) /\ i + 1 \in 0 .. Len(shape) /\ (i + 1) - 1 = i
    <3>1. /\ Head(todo) = <<i + 1>> /\ todo' = Rest(shape, i + 1)
          /\ i + 1 \in 1 .. Len(shape)
      BY <1>1, <2>1, <2>2, <2>3, RestFacts, Zenon
    <3> QED BY <1>1, <3>1
  <2>5. m[i + 1] = m[(i + 1) - 1] + MinimumSizeOf(shape, sent, <<i + 1>>)
    BY <1>2, <2>4 DEF MinimumSums
  <2>6. minimum' = m[i + 1]
    BY <2>1, <2>2, <2>4, <2>5
  <2>7. MinimumSoFar(m)' /\ SizeSoFar(m)' /\ MinimumHolds'
    BY <2>1, <2>2, <2>4, <2>6 DEF MinimumSoFar, SizeSoFar, MinimumHolds
  <2> QED BY <1>2, <2>1, <2>7 DEF MinimumInv
<1>5. CASE GetSize
  <2>1. /\ mode = "getMinimumSize" /\ todo = << >> /\ mode' = "getSize"
        /\ todo' = Members(shape) /\ UNCHANGED <<shape, sent, minimum, size>>
    BY <1>5 DEF GetSize
  <2>2. PICK i \in 0 .. Len(shape) : todo = Rest(shape, i) /\ minimum = m[i] /\ size = 0
    BY <1>2, <2>1 DEF MinimumSoFar
  <2>3. i = Len(shape)
    BY <1>1, <2>1, <2>2, RestFacts
  <2>4. /\ << >> \in Seq(DOMAIN sent) /\ 0 \in 0 .. Len(shape)
        /\ Rest(shape, 0) = Members(shape) /\ Rest(shape, 0) \in Seq(DOMAIN sent)
    <3>1. << >> \in Seq(DOMAIN sent) /\ 0 \in 0 .. Len(shape)
      BY <1>1
    <3> QED BY <1>1, <3>1, RestFacts
  <2>5. todo' = << >> \o Rest(shape, 0)
    BY <2>1, <2>4
  <2>6. m[0] <= size /\ size = m[0]
    BY <1>2, <2>2 DEF MinimumSums
  <2>7. SizeSoFar(m)'
    BY <2>1, <2>4, <2>5, <2>6 DEF SizeSoFar
  <2>8. MinimumSoFar(m)' /\ MinimumHolds'
    BY <2>1, <2>2, <2>3 DEF MinimumSoFar, MinimumHolds
  <2> QED BY <1>2, <2>1, <2>7, <2>8 DEF MinimumInv
<1>6. CASE AddSize
  <2>1. mode = "getSize" /\ mode' = mode /\ UNCHANGED <<shape, sent, minimum>>
    BY <1>6 DEF AddSize
  <2>2. SizeSoFar(m)'
    BY <1>2, <1>6, SizeStepsAbove
  <2>3. MinimumSoFar(m)' /\ MinimumHolds'
    BY <1>2, <2>1 DEF MinimumSoFar, MinimumHolds
  <2> QED BY <1>2, <2>1, <2>2, <2>3 DEF MinimumInv
<1>7. CASE Begin
  <2>1. /\ mode = "getSize" /\ todo = << >> /\ mode' = "serialise"
        /\ UNCHANGED <<shape, sent, minimum, size>>
    BY <1>7 DEF Begin
  <2>2. PICK i \in 0 .. Len(shape), inner \in Seq(DOMAIN sent) :
           todo = inner \o Rest(shape, i) /\ m[i] <= size
           /\ (isStatic(shape) => inner = << >> /\ size = m[i])
    BY <1>2, <2>1 DEF SizeSoFar
  <2>3. i = Len(shape)
    <3>1. Rest(shape, i) \in Seq(DOMAIN sent)
      BY <1>1, RestFacts
    <3>2. Rest(shape, i) = << >>
      <4>1. inner = << >>
        BY <2>1, <2>2, <3>1, Together
      <4> QED BY <2>1, <2>2, <3>1, <4>1, Together
    <3> QED BY <1>1, <3>2, RestFacts
  <2>4. minimum = m[i]
    BY <1>2, <2>1, <2>3 DEF MinimumSoFar
  <2>5. MinimumHolds' /\ MinimumSoFar(m)' /\ SizeSoFar(m)'
    BY <2>1, <2>2, <2>3, <2>4 DEF MinimumHolds, MinimumSoFar, SizeSoFar
  <2> QED BY <1>2, <2>1, <2>5 DEF MinimumInv
<1>8. CASE Write \/ NoRoom \/ HandOver \/ Read \/ Finish
  <2>1. /\ mode \notin {"getMinimumSize", "getSize"} /\ mode' \notin {"getMinimumSize", "getSize"}
        /\ UNCHANGED <<shape, sent, minimum, size>>
    BY <1>8 DEF Write, NoRoom, HandOver, Read, ReadPlain, ReadInteger, ReadBeyond, Finish
  <2>2. MinimumHolds' /\ MinimumSoFar(m)' /\ SizeSoFar(m)'
    BY <1>2, <1>3, <2>1 DEF MinimumHolds, MinimumSoFar, SizeSoFar
  <2> QED BY <1>2, <2>1, <2>2 DEF MinimumInv
<1>9. CASE UNCHANGED serdesVars
  <2>1. UNCHANGED <<shape, sent, minimum, size, todo, mode>>
    BY <1>9 DEF serdesVars
  <2>2. MinimumHolds' /\ MinimumSoFar(m)' /\ SizeSoFar(m)'
    BY <1>2, <1>3, <2>1 DEF MinimumHolds, MinimumSoFar, SizeSoFar
  <2> QED BY <1>2, <2>1, <2>2 DEF MinimumInv
<1> QED BY <1>4, <1>5, <1>6, <1>7, <1>8, <1>9 DEF Next

(* MinimumHolds: getMinimumSize() is never more than getSize(), and equal  *)
(* to it for a struct that isDynamic() calls static.                       *)
THEOREM MinimumIsLowerBound == Spec => []MinimumHolds
<1>1. Init => TypeOK /\ MinimumInv
  BY TypeOKInit, MinimumInvInit
<1>2. (TypeOK /\ MinimumInv) /\ [Next]_serdesVars => (TypeOK /\ MinimumInv)'
  BY TypeOKNext, MinimumInvNext
<1>3. MinimumInv => MinimumHolds
  BY DEF MinimumInv
<1> QED BY <1>1, <1>2, <1>3, PTL DEF Spec

-----------------------------------------------------------------------------
(* A walk through a struct as serialise() goes: after n visits, T[n] are   *)
(* the places still to be visited and P[n] the bytes written.              *)
IsWalk(s, v, n, T, P) ==
    /\ n \in Nat /\ T[0] = Members(s) /\ P[0] = 0
    /\ \A i \in 0 .. n : T[i] \in Seq(DOMAIN v) /\ P[i] \in Nat
    /\ \A i \in 1 .. n :
         /\ T[i - 1] # << >> /\ T[i] = Elements(s, v, Head(T[i - 1])) \o Tail(T[i - 1])
         /\ P[i] = P[i - 1] + Len(Chunk(s, v, Head(T[i - 1])))

WalkedTo(s, v, places, at) ==
    \E n, T, P : IsWalk(s, v, n, T, P) /\ T[n] = places /\ P[n] = at

(* A walk begins with the members.                                         *)
LEMMA WalkStarts ==
  ASSUME NEW s \in Shapes, NEW v, IsStruct(s, v)
  PROVE  WalkedTo(s, v, Members(s), 0)
<1> DEFINE T == [i \in 0 .. 0 |-> Members(s)]
           P == [i \in 0 .. 0 |-> 0]
<1>1. T[0] = Members(s) /\ P[0] = 0
  OBVIOUS
<1>2. Members(s) \in Seq(DOMAIN v)
  BY MembersFacts
<1> HIDE DEF T, P
<1>3. \A i \in 0 .. 0 : T[i] \in Seq(DOMAIN v) /\ P[i] \in Nat
  <2> TAKE i \in 0 .. 0
  <2>1. i = 0
    OBVIOUS
  <2> QED BY <1>1, <1>2, <2>1
<1>4. IsWalk(s, v, 0, T, P)
  BY <1>1, <1>3 DEF IsWalk
<1> QED BY <1>1, <1>4 DEF WalkedTo

(* A walk goes on with the elements of the place it is at.                 *)
LEMMA WalkGoesOn ==
  ASSUME NEW s \in Shapes, NEW v, IsStruct(s, v), NEW places, NEW at,
         WalkedTo(s, v, places, at), places # << >>
  PROVE  /\ places \in Seq(DOMAIN v) /\ at \in Nat /\ Head(places) \in DOMAIN v
         /\ WalkedTo(s, v, Elements(s, v, Head(places)) \o Tail(places),
                     at + Len(Chunk(s, v, Head(places))))
<1>1. PICK n, T, P : IsWalk(s, v, n, T, P) /\ T[n] = places /\ P[n] = at
  BY DEF WalkedTo
<1> DEFINE h == Head(places)
           next == Elements(s, v, h) \o Tail(places)
           upto == at + Len(Chunk(s, v, h))
           U == [i \in 0 .. n + 1 |-> IF i = n + 1 THEN next ELSE T[i]]
           Q == [i \in 0 .. n + 1 |-> IF i = n + 1 THEN upto ELSE P[i]]
<1>2. n \in Nat /\ places \in Seq(DOMAIN v) /\ at \in Nat
  <2>1. n \in Nat /\ n \in 0 .. n
    BY <1>1 DEF IsWalk
  <2> QED BY <1>1, <2>1 DEF IsWalk
<1>3. h \in DOMAIN v
  BY <1>2
<1>4. next \in Seq(DOMAIN v) /\ upto \in Nat
  <2>1. Elements(s, v, h) \in Seq(DOMAIN v)
    BY <1>3, ElementsFacts
  <2>2. Len(Chunk(s, v, h)) \in Nat
    BY <1>3, ChunkFacts
  <2> HIDE DEF h
  <2> QED BY <1>2, <2>1, <2>2, VisitFacts
<1>5. /\ U[n + 1] = next /\ Q[n + 1] = upto
      /\ \A i \in 0 .. n : U[i] = T[i] /\ Q[i] = P[i]
  <2>1. n + 1 \in 0 .. n + 1 /\ \A i \in 0 .. n : i \in 0 .. n + 1 /\ i # n + 1
    BY <1>2
  <2> QED BY <2>1, Zenon
<1> HIDE DEF U, Q, next, upto
<1>6. 0 \in 0 .. n /\ n \in 0 .. n
  BY <1>2
<1>7. U[0] = Members(s) /\ Q[0] = 0
  BY <1>1, <1>5, <1>6 DEF IsWalk
<1>8. ASSUME NEW i \in 0 .. n + 1 PROVE U[i] \in Seq(DOMAIN v) /\ Q[i] \in Nat
  <2>1. i = n + 1 \/ i \in 0 .. n
    BY <1>2
  <2> QED BY <1>1, <1>4, <1>5, <2>1 DEF IsWalk
<1>9. ASSUME NEW i \in 1 .. n + 1
      PROVE  /\ U[i - 1] # << >> /\ U[i] = Elements(s, v, Head(U[i - 1])) \o Tail(U[i - 1])
             /\ Q[i] = Q[i - 1] + Len(Chunk(s, v, Head(U[i - 1])))
  <2>1. CASE i = n + 1
    <3>1. i - 1 = n
      BY <1>2, <2>1
    <3>2. U[i - 1] = places /\ Q[i - 1] = at
      BY <1>1, <1>5, <1>6, <3>1
    <3> QED BY <1>5, <2>1, <3>2 DEF next, upto
  <2>2. CASE i # n + 1
    <3>1. i \in 1 .. n /\ i \in 0 .. n /\ i - 1 \in 0 .. n
      BY <1>2, <2>2
    <3>2. U[i] = T[i] /\ Q[i] = P[i] /\ U[i - 1] = T[i - 1] /\ Q[i - 1] = P[i - 1]
      BY <1>5, <3>1
    <3> QED BY <1>1, <3>1, <3>2 DEF IsWalk
  <2> QED BY <2>1, <2>2
<1>10. IsWalk(s, v, n + 1, U, Q)
  <2>1. n + 1 \in Nat
    BY <1>2
  <2> QED BY <1>7, <1>8, <1>9, <2>1 DEF IsWalk
<1>11. WalkedTo(s, v, next, upto)
  BY <1>5, <1>10 DEF WalkedTo
<1> QED BY <1>2, <1>3, <1>11 DEF next, upto

(* serialise() visits the characters of a string one by one; getSize()     *)
(* counts them all at once, and to the same size.                          *)
LEMMA WalkPastString ==
  ASSUME NEW s \in Shapes, NEW v, IsStruct(s, v), NEW places, NEW at,
         WalkedTo(s, v, places, at), places # << >>, CountsElements(TypeAt(s, Head(places)))
  PROVE  WalkedTo(s, v, Tail(places), at + ActualSizeOf(s, v, Head(places)))
<1> DEFINE p == Head(places)
           rest == Tail(places)
           n == v[p]
           b == s[p[1]][Len(p) + 1].bytes
           e(k) == [j \in 1 .. n - k |-> Append(p, k + j)]
           base == at + EncodedSize(n)
           T == {k \in 0 .. n : WalkedTo(s, v, e(k) \o rest, base + b * k)}
<1>1. places \in Seq(DOMAIN v) /\ at \in Nat /\ p \in DOMAIN v /\ rest \in Seq(DOMAIN v)
  BY WalkGoesOn
<1>2. /\ TypeAt(s, p).kind \in Dynamic /\ TypeAt(s, p).kind \notin Fixed
      /\ TypeAt(s, p).kind = "string"
  BY DEF CountsElements, Dynamic, Fixed
<1>3. /\ n \in Nat /\ Elements(s, v, p) = [k \in 1 .. n |-> Append(p, k)]
      /\ \A k \in 1 .. n : Append(p, k) \in DOMAIN v
  BY <1>1, <1>2, ElementsFacts
<1>4. /\ p \in Seq(Nat) /\ Len(p) \in Nat /\ Len(p) # 0
      /\ s[p[1]][Len(p) + 1].kind = "fundamental" /\ b \in Nat
  <2>1. /\ p \in Seq(Nat) /\ p # << >> /\ Len(p) + 1 \in DOMAIN s[p[1]]
        /\ s[p[1]] \in Seq(Levels) /\ s[p[1]][Len(p) + 1].kind = "fundamental"
    BY <1>1, <1>2, PlaceFacts
  <2>2. \A l \in Levels : l.bytes \in Nat
    BY DEF Levels
  <2> QED BY <2>1, <2>2
<1>5. Len(Chunk(s, v, p)) = EncodedSize(n) /\ EncodedSize(n) \in Nat
  <2>1. Len(Chunk(s, v, p)) = EncodedSize(n) /\ n \in IntegerValues
    BY <1>1, <1>2, ChunkFacts
  <2> QED BY <2>1, ZeroIsSmallest
<1>6. ASSUME NEW k \in 1 .. n
      PROVE  /\ Elements(s, v, Append(p, k)) = << >>
             /\ Len(Chunk(s, v, Append(p, k))) = b
  <2> DEFINE c == Append(p, k)
  <2>1. c \in DOMAIN v
    BY <1>3
  <2>2. c[1] = p[1] /\ Len(c) = Len(p) + 1
    BY <1>3, <1>4
  <2>3. TypeAt(s, c) = s[p[1]][Len(p) + 1]
    BY <2>2 DEF TypeAt
  <2> HIDE DEF c, p
  <2>4. TypeAt(s, c).kind \in Fixed /\ TypeAt(s, c).kind \notin Dynamic
    BY <1>4, <2>3 DEF Fixed, Dynamic
  <2>5. Elements(s, v, c) = << >> /\ Len(Chunk(s, v, c)) = TypeAt(s, c).bytes
    BY <2>1, <2>4, ElementsFacts, ChunkFacts
  <2> QED BY <2>3, <2>5 DEF c
<1>7. WalkedTo(s, v, Elements(s, v, p) \o rest, at + Len(Chunk(s, v, p)))
  BY WalkGoesOn
<1> HIDE DEF p, rest, n, b
<1>8. ASSUME NEW k \in 0 .. n
      PROVE  /\ e(k) \in Seq(DOMAIN v) /\ (k = n => e(k) = << >>)
             /\ k # n => /\ e(k) # << >> /\ Head(e(k)) = Append(p, k + 1)
                         /\ Tail(e(k)) = e(k + 1)
  <2> DEFINE D == DOMAIN v
             f == e(k)
  <2>1. \A j \in 1 .. n : Append(p, j) \in D
    BY <1>3
  <2> HIDE DEF D
  <2>2. \A j \in 1 .. n - k : k + j \in 1 .. n
    BY <1>3
  <2>3. f \in [1 .. n - k -> D] /\ n - k \in Nat
    BY <1>3, <2>1, <2>2
  <2>4. \A j \in 1 .. n - k : f[j] = Append(p, k + j)
    OBVIOUS
  <2> HIDE DEF f, e
  <2>5. f \in Seq(D) /\ Len(f) = n - k
    BY <2>3, AsSequence
  <2>6. k = n => f = << >>
    BY <1>3, <2>5
  <2>7. ASSUME k # n
        PROVE  f # << >> /\ Head(f) = Append(p, k + 1) /\ Tail(f) = e(k + 1)
    <3>1. f # << >> /\ 1 \in 1 .. n - k
      BY <1>3, <2>5, <2>7
    <3>2. Head(f) = f[1] /\ Tail(f) = [j \in 1 .. (n - k) - 1 |-> f[j + 1]]
      BY <2>5, <3>1, TailIs
    <3>3. f[1] = Append(p, k + 1)
      BY <2>4, <3>1
    <3>4. /\ (n - k) - 1 = n - (k + 1)
          /\ \A j \in 1 .. (n - k) - 1 : j + 1 \in 1 .. n - k /\ k + (j + 1) = (k + 1) + j
      BY <1>3
    <3>5. \A j \in 1 .. (n - k) - 1 : f[j + 1] = Append(p, (k + 1) + j)
      BY <2>4, <3>4
    <3> QED BY <3>1, <3>2, <3>3, <3>4, <3>5 DEF e
  <2> QED BY <2>5, <2>6, <2>7 DEF f, D
<1>9. 0 \in T
  <2>1. 0 \in 0 .. n /\ base + b * 0 = base /\ n - 0 = n
    BY <1>1, <1>3, <1>4, <1>5
  <2>2. \A j \in 1 .. n : 0 + j = j
    OBVIOUS
  <2>3. e(0) = Elements(s, v, p)
    BY <1>3, <2>1, <2>2
  <2> HIDE DEF e
  <2>4. base + b * 0 = at + Len(Chunk(s, v, p))
    BY <1>5, <2>1
  <2> HIDE DEF base
  <2> QED BY <1>7, <2>1, <2>3, <2>4
<1>10. ASSUME NEW k \in 1 .. n, k - 1 \in T PROVE k \in T
  <2> DEFINE now == e(k - 1) \o rest
             c == Append(p, k)
  <2>1. k - 1 \in 0 .. n /\ k - 1 # n /\ (k - 1) + 1 = k /\ k \in 0 .. n
    BY <1>3
  <2>2. WalkedTo(s, v, now, base + b * (k - 1))
    BY <1>10
  <2>3. /\ e(k - 1) \in Seq(DOMAIN v) /\ e(k - 1) # << >> /\ Head(e(k - 1)) = c
        /\ Tail(e(k - 1)) = e(k) /\ e(k) \in Seq(DOMAIN v)
    BY <1>8, <2>1
  <2> HIDE DEF e
  <2>4. now # << >> /\ Head(now) = c /\ Tail(now) = e(k) \o rest
    <3> DEFINE f == e(k - 1)
               g == e(k)
    <3>1. /\ f \in Seq(DOMAIN v) /\ f # << >> /\ Head(f) = c /\ Tail(f) = g /\ now = f \o rest
      BY <2>3
    <3>2. rest \in Seq(DOMAIN v)
      BY <1>1
    <3> HIDE DEF f, g, now, c
    <3>3. f \in Seq(DOMAIN v) /\ f # << >>
      BY <3>1
    <3>4. /\ f \o rest # << >> /\ Head(f \o rest) = Head(f)
          /\ Tail(f \o rest) = Tail(f) \o rest
      BY <3>2, <3>3, Together
    <3>5. now # << >> /\ Head(now) = c /\ Tail(now) = g \o rest
      BY <3>1, <3>4, Zenon
    <3> QED BY <3>5 DEF g
  <2> HIDE DEF now
  <2>5. WalkedTo(s, v, Elements(s, v, c) \o Tail(now), (base + b * (k - 1)) + Len(Chunk(s, v, c)))
    BY <2>2, <2>4, WalkGoesOn
  <2>6. Elements(s, v, c) \o Tail(now) = e(k) \o rest
    <3>1. e(k) \o rest \in Seq(DOMAIN v)
      BY <1>1, <2>3, Together
    <3>2. << >> \o (e(k) \o rest) = e(k) \o rest
      BY <3>1
    <3> QED BY <1>6, <2>4, <3>2
  <2>7. (base + b * (k - 1)) + Len(Chunk(s, v, c)) = base + b * k
    <3>1. base \in Nat /\ k \in Nat
      BY <1>1, <1>5
    <3> HIDE DEF base
    <3>2. b * (k - 1) = b * k - b /\ b * k \in Nat
      BY <1>4, <3>1
    <3>3. Len(Chunk(s, v, c)) = b
      BY <1>6
    <3> QED BY <1>4, <3>1, <3>2, <3>3
  <2> HIDE DEF c, base
  <2> QED BY <2>1, <2>5, <2>6, <2>7
<1>11. n \in T
  <2>1. \A k \in 0 .. n : k \in T
    <3>1. n \in Nat
      BY <1>3
    <3> HIDE DEF T
    <3> QED BY <3>1, <1>9, <1>10, Upwards
  <2>2. n \in 0 .. n
    BY <1>3
  <2> HIDE DEF T
  <2> QED BY <2>1, <2>2
<1>12. e(n) \o rest = rest
  <2>1. e(n) = << >>
    BY <1>3, <1>8
  <2> HIDE DEF e
  <2> QED BY <1>1, <2>1
<1>13. base + b * n = at + ActualSizeOf(s, v, p)
  <2>1. ActualSizeOf(s, v, p) = EncodedSize(n) + b * n
    BY <1>2 DEF ActualSizeOf, p, n, b
  <2>2. b * n \in Nat
    BY <1>3, <1>4
  <2> QED BY <1>1, <1>5, <2>1, <2>2
<1> HIDE DEF e, base
<1> QED BY <1>11, <1>12, <1>13 DEF p, rest

(* A walk never goes back.                                                 *)
LEMMA WalkClimbs ==
  ASSUME NEW s \in Shapes, NEW v, IsStruct(s, v), NEW n, NEW T, NEW P,
         IsWalk(s, v, n, T, P), NEW i \in 0 .. n
  PROVE  \A j \in 0 .. i : P[j] <= P[i]
<1> DEFINE S == {k \in 0 .. i : \A j \in 0 .. k : P[j] <= P[k]}
<1>1. /\ n \in Nat /\ i \in Nat /\ \A k \in 0 .. i : k \in 0 .. n
      /\ \A k \in 0 .. n : P[k] \in Nat
  BY DEF IsWalk
<1>2. 0 \in S
  <2>1. \A j \in 0 .. 0 : j = 0
    OBVIOUS
  <2>2. P[0] <= P[0] /\ 0 \in 0 .. i
    BY <1>1
  <2> QED BY <2>1, <2>2
<1>3. ASSUME NEW k \in 1 .. i, k - 1 \in S PROVE k \in S
  <2>1. k \in 1 .. n /\ k \in 0 .. n /\ k - 1 \in 0 .. n /\ k \in 0 .. i
    BY <1>1
  <2> DEFINE now == T[k - 1]
             c == Len(Chunk(s, v, Head(now)))
  <2>2. P[k] = P[k - 1] + c /\ now \in Seq(DOMAIN v) /\ now # << >>
    BY <2>1 DEF IsWalk
  <2>3. c \in Nat
    <3> HIDE DEF now
    <3>1. Head(now) \in DOMAIN v
      BY <2>2
    <3>2. Chunk(s, v, Head(now)) \in Seq(ByteValues)
      BY <3>1, ChunkFacts
    <3> QED BY <3>2
  <2> HIDE DEF c
  <2>4. P[k - 1] <= P[k] /\ P[k] \in Nat /\ P[k - 1] \in Nat
    BY <1>1, <2>1, <2>2, <2>3
  <2>5. \A j \in 0 .. k - 1 : P[j] <= P[k - 1]
    BY <1>3
  <2>6. \A j \in 0 .. k : P[j] <= P[k]
    <3> TAKE j \in 0 .. k
    <3>1. CASE j = k
      BY <2>4, <3>1
    <3>2. CASE j # k
      <4>1. j \in 0 .. k - 1 /\ j \in 0 .. n
        BY <1>1, <2>1, <3>2
      <4> QED BY <1>1, <2>4, <2>5, <4>1
    <3> QED BY <3>1, <3>2
  <2> QED BY <2>1, <2>6
<1>4. \A k \in 0 .. i : k \in S
  <2>1. i \in Nat
    BY <1>1
  <2> HIDE DEF S
  <2> QED BY <1>2, <1>3, <2>1, Upwards
<1>5. i \in 0 .. i
  BY <1>1
<1> QED BY <1>4, <1>5

(* A walk through the whole struct, which ends where getSize() says.       *)
Whole(n, T, P) == IsWalk(shape, sent, n, T, P) /\ T[n] = << >> /\ P[n] = size

(* Where the i-th visit of such a walk leads.                              *)
Stop(n, T, P, i) ==
    /\ n \in Nat /\ T[i] \in Seq(DOMAIN sent) /\ P[i] \in Nat
    /\ T[i] = << >> => i = n /\ P[i] = size
    /\ T[i] # << >> =>
         /\ i + 1 \in 1 .. n /\ Head(T[i]) \in DOMAIN sent
         /\ T[i + 1] = Elements(shape, sent, Head(T[i])) \o Tail(T[i])
         /\ P[i + 1] = P[i] + Len(Chunk(shape, sent, Head(T[i])))
         /\ P[i + 1] <= size

(* Every stop of a walk through the whole struct is one of these.          *)
LEMMA WalkStep ==
  ASSUME TypeOK, NEW n, NEW T, NEW P, Whole(n, T, P), NEW i \in 0 .. n
  PROVE  Stop(n, T, P, i)
<1>1. n \in Nat /\ T[i] \in Seq(DOMAIN sent) /\ P[i] \in Nat /\ P[n] = size /\ T[n] = << >>
  BY DEF Whole, IsWalk
<1>2. ASSUME T[i] = << >> PROVE i = n /\ P[i] = size
  <2>1. CASE i = n
    BY <1>1, <2>1
  <2>2. CASE i # n
    <3>1. i + 1 \in 1 .. n /\ (i + 1) - 1 = i
      BY <1>1, <2>2
    <3>2. T[(i + 1) - 1] # << >>
      BY <3>1 DEF Whole, IsWalk
    <3> QED BY <1>2, <3>1, <3>2
  <2> QED BY <2>1, <2>2
<1>3. ASSUME T[i] # << >>
      PROVE  /\ i + 1 \in 1 .. n /\ Head(T[i]) \in DOMAIN sent
             /\ T[i + 1] = Elements(shape, sent, Head(T[i])) \o Tail(T[i])
             /\ P[i + 1] = P[i] + Len(Chunk(shape, sent, Head(T[i])))
             /\ P[i + 1] <= size
  <2>1. i # n /\ i + 1 \in 1 .. n /\ (i + 1) - 1 = i
    BY <1>1, <1>3
  <2>2. /\ T[i + 1] = Elements(shape, sent, Head(T[(i + 1) - 1])) \o Tail(T[(i + 1) - 1])
        /\ P[i + 1] = P[(i + 1) - 1] + Len(Chunk(shape, sent, Head(T[(i + 1) - 1])))
    BY <2>1 DEF Whole, IsWalk
  <2>3. P[i + 1] <= size
    <3>1. i + 1 \in 0 .. n /\ n \in 0 .. n
      BY <1>1, <2>1
    <3>2. IsWalk(shape, sent, n, T, P) /\ shape \in Shapes /\ IsStruct(shape, sent)
      BY DEF Whole, TypeOK
    <3>3. P[i + 1] <= P[n]
      BY <3>1, <3>2, WalkClimbs
    <3> QED BY <1>1, <3>3
  <2>4. Head(T[i]) \in DOMAIN sent
    <3> DEFINE now == T[i]
    <3>1. now \in Seq(DOMAIN sent) /\ now # << >>
      BY <1>1, <1>3
    <3> HIDE DEF now
    <3>2. Head(now) \in DOMAIN sent
      BY <3>1
    <3> QED BY <3>2 DEF now
  <2> QED BY <2>1, <2>2, <2>3, <2>4
<1> QED BY <1>1, <1>2, <1>3 DEF Stop

(* getSize() is on such a walk, and has the size of all of it when it is   *)
(* done.                                                                   *)
SizeInv ==
    /\ mode = "getMinimumSize" => size = 0
    /\ mode = "getSize" => WalkedTo(shape, sent, todo, size)
    /\ mode \notin {"getMinimumSize", "getSize"} => WalkedTo(shape, sent, << >>, size)

(* getSize() begins at 0.                                                  *)
LEMMA SizeInvInit == Init => SizeInv
BY DEF Init, SizeInv

(* Whatever is visited, getSize() adds what serialise() will write for it. *)
LEMMA SizeInvNext == TypeOK /\ SizeInv /\ [Next]_serdesVars => SizeInv'
<1> SUFFICES ASSUME TypeOK, SizeInv, [Next]_serdesVars PROVE SizeInv'
  OBVIOUS
<1>1. shape \in Shapes /\ IsStruct(shape, sent)
  BY DEF TypeOK
<1>2. CASE AddMinimum
  BY <1>2 DEF SizeInv, AddMinimum
<1>3. CASE GetSize
  <2>1. WalkedTo(shape, sent, Members(shape), 0)
    BY <1>1, WalkStarts
  <2>2. /\ mode' = "getSize" /\ todo' = Members(shape) /\ size' = 0
        /\ UNCHANGED <<shape, sent>>
    BY <1>3 DEF GetSize, SizeInv
  <2> QED BY <2>1, <2>2 DEF SizeInv
<1>4. CASE AddSize
  <2> DEFINE p == Head(todo)
  <2>1. /\ mode = "getSize" /\ mode' = "getSize" /\ todo # << >>
        /\ WalkedTo(shape, sent, todo, size) /\ UNCHANGED <<shape, sent>>
        /\ size' = size + ActualSizeOf(shape, sent, p)
    BY <1>4 DEF AddSize, SizeInv
  <2>2. CASE CountsElements(TypeAt(shape, p))
    <3>1. todo' = << >> \o Tail(todo)
      BY <1>4, <2>2 DEF AddSize
    <3>2. todo' = Tail(todo)
      <4>1. Tail(todo) \in Seq(DOMAIN sent)
        BY <1>1, <2>1 DEF TypeOK
      <4> QED BY <3>1, <4>1
    <3>3. WalkedTo(shape, sent, Tail(todo), size + ActualSizeOf(shape, sent, p))
      BY <1>1, <2>1, <2>2, WalkPastString
    <3> QED BY <2>1, <3>2, <3>3 DEF SizeInv
  <2>3. CASE ~CountsElements(TypeAt(shape, p))
    <3>1. todo' = Elements(shape, sent, p) \o Tail(todo)
      BY <1>4, <2>3 DEF AddSize
    <3>2. /\ p \in DOMAIN sent
          /\ WalkedTo(shape, sent, Elements(shape, sent, p) \o Tail(todo),
                      size + Len(Chunk(shape, sent, p)))
      BY <1>1, <2>1, WalkGoesOn
    <3>3. ActualSizeOf(shape, sent, p) = Len(Chunk(shape, sent, p))
      <4>1. CASE TypeAt(shape, p).kind \in Fixed
        <5>1. Len(Chunk(shape, sent, p)) = TypeAt(shape, p).bytes
          BY <1>1, <3>2, <4>1, ChunkFacts
        <5> QED BY <4>1, <5>1 DEF ActualSizeOf
      <4>2. CASE TypeAt(shape, p).kind \notin Fixed
        <5>1. /\ Len(Chunk(shape, sent, p)) = EncodedSize(sent[p])
              /\ sent[p] \in IntegerValues
          BY <1>1, <3>2, <4>2, ChunkFacts
        <5>2. EncodedSize(sent[p]) \in Nat
          BY <5>1, ZeroIsSmallest
        <5>3. ActualSizeOf(shape, sent, p) = EncodedSize(sent[p]) + 0
          BY <2>3, <4>2 DEF ActualSizeOf
        <5> QED BY <5>1, <5>2, <5>3
      <4> QED BY <4>1, <4>2
    <3> QED BY <2>1, <3>1, <3>2, <3>3 DEF SizeInv
  <2> QED BY <2>2, <2>3
<1>5. CASE Begin
  BY <1>5 DEF Begin, SizeInv
<1>6. CASE Write \/ NoRoom \/ HandOver \/ Finish
  BY <1>6 DEF Write, NoRoom, HandOver, Finish, SizeInv
<1>7. CASE Read
  <2>1. /\ mode = "deserialise" /\ UNCHANGED <<shape, sent, size>>
        /\ mode' \in {"deserialise", "overread"}
    BY <1>7 DEF Read, ReadPlain, ReadInteger, ReadBeyond
  <2> QED BY <2>1 DEF SizeInv
<1>8. CASE UNCHANGED serdesVars
  BY <1>8 DEF SizeInv, serdesVars
<1> QED BY <1>2, <1>3, <1>4, <1>5, <1>6, <1>7, <1>8 DEF Next

-----------------------------------------------------------------------------
(* The first i visits of a walk have left their chunks in the bytes d.     *)
Written(T, P, i, d) ==
    \A j \in 1 .. i :
      /\ P[j] <= Len(d)
      /\ \A x \in 1 .. Len(Chunk(shape, sent, Head(T[j - 1]))) :
           d[P[j - 1] + x] = Chunk(shape, sent, Head(T[j - 1]))[x]

(* serialise() is on a walk and has written what it has visited; it ends   *)
(* the program in a span that is too small for the whole walk.             *)
WriteInv ==
    mode \in {"serialise", "terminated"} =>
        \E n, T, P : /\ Whole(n, T, P)
                     /\ \E i \in 0 .. n :
                          T[i] = todo /\ P[i] = pointer /\ Written(T, P, i, data)
                     /\ mode = "terminated" => Len(data) < size

(* Nothing is written at first.                                            *)
LEMMA WriteInvInit == Init => WriteInv
BY DEF Init, WriteInv

(* A chunk that is written goes behind those of the walk so far and leaves *)
(* them as they are.                                                       *)
LEMMA WriteGoesOn ==
  ASSUME TypeOK, Write, NEW n, NEW T, NEW P, Whole(n, T, P), NEW i \in 0 .. n,
         T[i] = todo, P[i] = pointer, Written(T, P, i, data)
  PROVE  /\ i + 1 \in 0 .. n /\ T[i + 1] = todo' /\ P[i + 1] = pointer'
         /\ Written(T, P, i + 1, data')
<1> DEFINE p == Head(todo)
           chunk == Chunk(shape, sent, p)
<1>1. /\ todo # << >> /\ HasRoom(chunk)
      /\ data' = [j \in DOMAIN data |->
                     IF j - pointer \in DOMAIN chunk THEN chunk[j - pointer] ELSE data[j]]
      /\ pointer' = pointer + Len(chunk) /\ todo' = Elements(shape, sent, p) \o Tail(todo)
  BY DEF Write
<1>2. /\ n \in Nat /\ i + 1 \in 1 .. n /\ p \in DOMAIN sent
      /\ T[i + 1] = Elements(shape, sent, p) \o Tail(todo)
      /\ P[i + 1] = pointer + Len(chunk)
  <2>1. T[i] # << >>
    BY <1>1
  <2>2. /\ n \in Nat /\ i + 1 \in 1 .. n /\ Head(T[i]) \in DOMAIN sent
        /\ T[i + 1] = Elements(shape, sent, Head(T[i])) \o Tail(T[i])
        /\ P[i + 1] = P[i] + Len(Chunk(shape, sent, Head(T[i])))
    <3>1. Stop(n, T, P, i)
      BY WalkStep
    <3> QED BY <2>1, <3>1 DEF Stop
  <2> QED BY <2>2
<1>3. /\ shape \in Shapes /\ IsStruct(shape, sent)
      /\ data \in Seq(ByteValues) /\ Len(data) \in Nat /\ pointer \in Nat
  BY DEF TypeOK
<1>4. chunk \in Seq(ByteValues) /\ Len(chunk) \in Nat
  BY <1>2, <1>3, ChunkFacts
<1>5. pointer + Len(chunk) <= Len(data)
  BY <1>1 DEF HasRoom
<1> HIDE DEF p, chunk
<1>6. DOMAIN data = 1 .. Len(data) /\ DOMAIN chunk = 1 .. Len(chunk)
  BY <1>3, <1>4
<1>7. Len(data') = Len(data)
  <2> DEFINE byte(j) == IF j - pointer \in DOMAIN chunk THEN chunk[j - pointer] ELSE data[j]
  <2>1. \A j \in 1 .. Len(data) : byte(j) \in ByteValues
    BY <1>3, <1>4
  <2>2. data' = [j \in 1 .. Len(data) |-> byte(j)]
    BY <1>1, <1>6
  <2> HIDE DEF byte
  <2>3. data' \in [1 .. Len(data) -> ByteValues]
    BY <2>1, <2>2
  <2> QED BY <1>3, <2>3, AsSequence
<1>8. ASSUME NEW y \in 1 .. pointer PROVE data'[y] = data[y]
  <2>1. y \in DOMAIN data /\ ~(y - pointer \in DOMAIN chunk)
    BY <1>3, <1>4, <1>5, <1>6
  <2> QED BY <1>1, <2>1
<1>9. ASSUME NEW x \in 1 .. Len(chunk) PROVE data'[pointer + x] = chunk[x]
  <2>1. pointer + x \in DOMAIN data /\ (pointer + x) - pointer = x /\ x \in DOMAIN chunk
    BY <1>3, <1>4, <1>5, <1>6
  <2> QED BY <1>1, <2>1
<1>10. ASSUME NEW j \in 1 .. i + 1
       PROVE  /\ P[j] <= Len(data')
              /\ \A x \in 1 .. Len(Chunk(shape, sent, Head(T[j - 1]))) :
                   data'[P[j - 1] + x] = Chunk(shape, sent, Head(T[j - 1]))[x]
  <2>1. CASE j = i + 1
    <3>1. j - 1 = i /\ P[j] = pointer + Len(chunk)
      BY <1>2, <2>1
    <3>2. Chunk(shape, sent, Head(T[j - 1])) = chunk /\ P[j - 1] = pointer
      BY <3>1 DEF chunk, p
    <3> QED BY <1>5, <1>7, <1>9, <3>1, <3>2
  <2>2. CASE j # i + 1
    <3> DEFINE c == Chunk(shape, sent, Head(T[j - 1]))
    <3>1. j \in 1 .. i /\ j \in 1 .. n /\ j \in 0 .. i /\ j - 1 \in 0 .. n
      BY <1>2, <2>2
    <3>2. P[j] <= Len(data) /\ \A x \in 1 .. Len(c) : data[P[j - 1] + x] = c[x]
      BY <3>1 DEF Written
    <3>3. IsWalk(shape, sent, n, T, P)
      BY DEF Whole
    <3>4. P[j] <= pointer
      BY <1>3, <3>1, <3>3, WalkClimbs
    <3>5. P[j] = P[j - 1] + Len(c) /\ P[j - 1] \in Nat
      BY <3>1, <3>3 DEF IsWalk
    <3>6. Len(c) \in Nat
      <4>1. T[j - 1] # << >>
        BY <3>1, <3>3 DEF IsWalk
      <4>2. Head(T[j - 1]) \in DOMAIN sent
        <5>1. Stop(n, T, P, j - 1)
          BY <3>1, WalkStep
        <5> QED BY <4>1, <5>1 DEF Stop
      <4>3. c \in Seq(ByteValues)
        BY <1>3, <4>2, ChunkFacts
      <4> QED BY <4>3
    <3> HIDE DEF c
    <3>7. ASSUME NEW x \in 1 .. Len(c) PROVE data'[P[j - 1] + x] = c[x]
      <4>1. P[j - 1] + x \in 1 .. pointer
        BY <1>3, <3>4, <3>5, <3>6
      <4> QED BY <1>8, <3>2, <4>1
    <3> QED BY <1>7, <3>2, <3>7 DEF c
  <2> QED BY <2>1, <2>2
<1>11. i + 1 \in 0 .. n
  BY <1>2
<1>12. Written(T, P, i + 1, data')
  BY <1>10 DEF Written
<1> QED BY <1>1, <1>2, <1>11, <1>12 DEF p, chunk

(* serialise() writes along the walk getSize() has measured.               *)
LEMMA WriteInvNext == TypeOK /\ SizeInv /\ WriteInv /\ [Next]_serdesVars => WriteInv'
<1> SUFFICES ASSUME TypeOK, SizeInv, WriteInv, [Next]_serdesVars PROVE WriteInv'
  OBVIOUS
<1>1. CASE AddMinimum \/ GetSize \/ AddSize \/ HandOver \/ Finish
  BY <1>1 DEF AddMinimum, GetSize, AddSize, HandOver, Finish, WriteInv
<1>2. CASE Read
  <2>1. mode' \in {"deserialise", "overread"}
    BY <1>2 DEF Read, ReadPlain, ReadInteger, ReadBeyond
  <2> QED BY <2>1 DEF WriteInv
<1>3. CASE Begin
  <2>1. /\ mode = "getSize" /\ todo = << >> /\ mode' = "serialise" /\ pointer' = 0
        /\ todo' = Members(shape) /\ UNCHANGED <<shape, sent, size>>
    BY <1>3 DEF Begin
  <2>2. PICK n, T, P : IsWalk(shape, sent, n, T, P) /\ T[n] = << >> /\ P[n] = size
    BY <2>1 DEF SizeInv, WalkedTo
  <2>3. 0 \in 0 .. n /\ T[0] = Members(shape) /\ P[0] = 0
    BY <2>2 DEF IsWalk
  <2>4. Written(T, P, 0, data)'
    BY DEF Written
  <2>5. Whole(n, T, P)'
    BY <2>1, <2>2 DEF Whole
  <2> QED BY <2>1, <2>3, <2>4, <2>5 DEF WriteInv
<1>4. CASE Write
  <2>1. mode = "serialise" /\ mode' = "serialise" /\ UNCHANGED <<shape, sent, size>>
    BY <1>4 DEF Write
  <2>2. PICK n, T, P :
          /\ Whole(n, T, P)
          /\ \E i \in 0 .. n : T[i] = todo /\ P[i] = pointer /\ Written(T, P, i, data)
    BY <2>1 DEF WriteInv
  <2>3. PICK i \in 0 .. n : T[i] = todo /\ P[i] = pointer /\ Written(T, P, i, data)
    BY <2>2
  <2>4. /\ i + 1 \in 0 .. n /\ T[i + 1] = todo' /\ P[i + 1] = pointer'
        /\ Written(T, P, i + 1, data')
    BY <1>4, <2>2, <2>3, WriteGoesOn
  <2>5. Whole(n, T, P)' /\ Written(T, P, i + 1, data)'
    BY <2>1, <2>2, <2>4 DEF Whole, Written
  <2> QED BY <2>1, <2>4, <2>5 DEF WriteInv
<1>5. CASE NoRoom
  <2>1. /\ mode = "serialise" /\ mode' = "terminated" /\ todo # << >>
        /\ ~HasRoom(Chunk(shape, sent, Head(todo)))
        /\ UNCHANGED <<shape, sent, size, data, pointer, todo>>
    BY <1>5 DEF NoRoom
  <2>2. PICK n, T, P :
          /\ Whole(n, T, P)
          /\ \E i \in 0 .. n : T[i] = todo /\ P[i] = pointer /\ Written(T, P, i, data)
    BY <2>1 DEF WriteInv
  <2>3. PICK i \in 0 .. n : T[i] = todo /\ P[i] = pointer /\ Written(T, P, i, data)
    BY <2>2
  <2>4. Len(data) < size
    <3> DEFINE c == Len(Chunk(shape, sent, Head(todo)))
    <3>1. Head(todo) \in DOMAIN sent /\ P[i + 1] = pointer + c /\ P[i + 1] <= size
      <4>1. T[i] # << >> /\ Whole(n, T, P)
        BY <2>1, <2>2, <2>3
      <4>2. /\ Head(T[i]) \in DOMAIN sent /\ P[i + 1] <= size
            /\ P[i + 1] = P[i] + Len(Chunk(shape, sent, Head(T[i])))
        <5>1. Stop(n, T, P, i)
          BY <4>1, WalkStep
        <5> QED BY <4>1, <5>1 DEF Stop
      <4> QED BY <2>3, <4>2
    <3>2. c \in Nat
      <4>1. Chunk(shape, sent, Head(todo)) \in Seq(ByteValues)
        BY <3>1, ChunkFacts DEF TypeOK
      <4> QED BY <4>1
    <3>3. ~(pointer + c <= Len(data))
      BY <2>1 DEF HasRoom
    <3>4. pointer \in Nat /\ Len(data) \in Nat /\ size \in Nat
      BY DEF TypeOK
    <3> HIDE DEF c
    <3> QED BY <3>1, <3>2, <3>3, <3>4
  <2>5. Whole(n, T, P)' /\ Written(T, P, i, data)'
    BY <2>1, <2>2, <2>3 DEF Whole, Written
  <2> QED BY <2>1, <2>3, <2>4, <2>5 DEF WriteInv
<1>6. CASE UNCHANGED serdesVars
  BY <1>6 DEF WriteInv, Whole, Written, serdesVars
<1> QED BY <1>1, <1>2, <1>3, <1>4, <1>5, <1>6 DEF Next

(* SizeIsExact: getSize() is what serialise() writes.                      *)
THEOREM SizesAgree == Spec => []SizeIsExact
<1>1. Init => TypeOK /\ SizeInv /\ WriteInv
  BY TypeOKInit, SizeInvInit, WriteInvInit
<1>2. TypeOK /\ SizeInv /\ WriteInv /\ [Next]_serdesVars => (TypeOK /\ SizeInv /\ WriteInv)'
  BY TypeOKNext, SizeInvNext, WriteInvNext
<1>3. TypeOK /\ SizeInv /\ WriteInv => SizeIsExact
  <2> SUFFICES ASSUME TypeOK, WriteInv, mode \in {"serialise", "terminated"} PROVE SizeIsExact
    BY DEF SizeIsExact
  <2>1. PICK n, T, P :
          /\ Whole(n, T, P)
          /\ \E i \in 0 .. n : T[i] = todo /\ P[i] = pointer /\ Written(T, P, i, data)
          /\ mode = "terminated" => Len(data) < size
    BY DEF WriteInv
  <2>2. PICK i \in 0 .. n : T[i] = todo /\ P[i] = pointer
    BY <2>1
  <2>3. todo = << >> => pointer = size
    <3>1. Whole(n, T, P)
      BY <2>1
    <3>2. Stop(n, T, P, i)
      BY <3>1, WalkStep
    <3> QED BY <2>2, <3>2 DEF Stop
  <2> QED BY <2>1, <2>3 DEF SizeIsExact
<1> QED BY <1>1, <1>2, <1>3, PTL DEF Spec

-----------------------------------------------------------------------------
(* A read changes at most the place it visits, and no length.              *)
LEMMA ReadChanges ==
  ASSUME TypeOK, Read
  PROVE  /\ DOMAIN got' = DOMAIN got
         /\ \A q \in DOMAIN got :
              q # Head(todo) \/ TypeAt(shape, q).kind \in Dynamic => got'[q] = got[q]
<1> DEFINE p == Head(todo)
           t == TypeAt(shape, p)
<1>1. ReadPlain(p, t) \/ ReadInteger(p, t) \/ ReadBeyond(t)
  BY DEF Read
<1>2. DOMAIN got' = DOMAIN got
  BY ReadKeepsStruct
<1> SUFFICES ASSUME NEW q \in DOMAIN got, q # p \/ TypeAt(shape, q).kind \in Dynamic
             PROVE  got'[q] = got[q]
  BY <1>2
<1>3. \/ got' = got
      \/ t.kind \notin Dynamic /\ \E x : got' = [got EXCEPT ![p] = x]
  BY <1>1 DEF ReadPlain, ReadInteger, ReadBeyond, Fixed, Dynamic
<1>4. CASE t.kind \notin Dynamic /\ \E x : got' = [got EXCEPT ![p] = x]
  <2>1. PICK x : got' = [got EXCEPT ![p] = x]
    BY <1>4
  <2>2. q # p
    BY <1>4
  <2> HIDE DEF p
  <2> QED BY <2>1, <2>2
<1> QED BY <1>3, <1>4

(* A struct whose lengths agree after a read has agreed all along.         *)
LEMMA LengthsKept ==
  ASSUME TypeOK, Read, LengthsAgree'
  PROVE  LengthsAgree
<1>1. UNCHANGED <<shape, sent>> /\ DOMAIN got' = DOMAIN got
  BY ReadChanges DEF Read
<1>2. DOMAIN got = DOMAIN sent
  BY <1>1 DEF LengthsAgree
<1>3. ASSUME NEW q \in DOMAIN sent, TypeAt(shape, q).kind \in Dynamic PROVE got[q] = sent[q]
  <2>1. got'[q] = sent[q]
    BY <1>1, <1>3 DEF LengthsAgree
  <2>2. got'[q] = got[q]
    BY <1>2, <1>3, ReadChanges
  <2> QED BY <2>1, <2>2
<1> QED BY <1>2, <1>3 DEF LengthsAgree

(* What was written at the pointer is what is read there: the value sent,  *)
(* of exactly its bytes.                                                   *)
LEMMA ReadsChunk ==
  ASSUME TypeOK, Read, LengthsAgree, NEW chunk, chunk = Chunk(shape, sent, Head(todo)),
         pointer + Len(chunk) <= Len(data),
         \A x \in 1 .. Len(chunk) : data[pointer + x] = chunk[x]
  PROVE  /\ Head(todo) \in DOMAIN sent
         /\ mode' = "deserialise" /\ pointer' = pointer + Len(chunk)
         /\ got'[Head(todo)] = sent[Head(todo)]
<1> DEFINE p == Head(todo)
           t == TypeAt(shape, p)
<1>1. shape \in Shapes /\ IsStruct(shape, sent) /\ p \in DOMAIN sent /\ p \in DOMAIN got
  <2>1. todo \in Seq(DOMAIN got) /\ todo # << >> /\ DOMAIN got = DOMAIN sent
    BY DEF TypeOK, Read, LengthsAgree
  <2>2. p \in DOMAIN got
    BY <2>1
  <2> QED BY <2>1, <2>2 DEF TypeOK
<1>2. (ReadPlain(p, t) \/ ReadInteger(p, t) \/ ReadBeyond(t)) /\ mode = "deserialise"
  BY DEF Read
<1>3. t.kind \in Dynamic => got[p] = sent[p]
  BY <1>1 DEF LengthsAgree
<1> HIDE DEF p
<1>4. t \in Levels /\ chunk \in Seq(ByteValues) /\ Len(chunk) \in Nat
  BY <1>1, PlaceFacts, ChunkFacts DEF p
<1>5. /\ Len(chunk) <= Len(Left) /\ Left \in Seq(ByteValues)
      /\ \A x \in 1 .. Len(chunk) : Left[x] = chunk[x]
  <2>1. /\ Len(Left) = Len(data) - pointer /\ Len(data) \in Nat /\ pointer \in Nat
        /\ Left \in Seq(ByteValues)
        /\ \A i \in 1 .. Len(Left) : Left[i] = data[pointer + i]
    BY LeftFacts
  <2>2. Len(chunk) <= Len(Left)
    BY <1>4, <2>1
  <2>3. \A x \in 1 .. Len(chunk) : x \in 1 .. Len(Left)
    BY <1>4, <2>1, <2>2
  <2> QED BY <2>1, <2>2, <2>3
<1>6. CASE t.kind \in Fixed
  <2>1. chunk = sent[p] /\ Len(chunk) = t.bytes
    BY <1>1, <1>6, ChunkFacts DEF p
  <2>2. ReadPlain(p, t)
    BY <1>2, <1>4, <1>5, <1>6, <2>1 DEF ReadPlain, ReadInteger, ReadBeyond
  <2>3. /\ got' = [got EXCEPT ![p] = SubSeq(Left, 1, Len(chunk))]
        /\ pointer' = pointer + Len(chunk) /\ mode' = mode
    BY <2>1, <2>2 DEF ReadPlain
  <2>4. SubSeq(Left, 1, Len(chunk)) = chunk
    <3>1. SubSeq(Left, 1, Len(chunk)) = [i \in 1 .. Len(chunk) |-> Left[i]]
      BY <1>4, <1>5, Taken
    <3>2. chunk = [i \in 1 .. Len(chunk) |-> chunk[i]]
      BY <1>4
    <3> QED BY <1>5, <3>1, <3>2
  <2> QED BY <1>1, <1>2, <2>1, <2>3, <2>4 DEF p
<1>7. CASE t.kind \notin Fixed
  <2> DEFINE v == sent[p]
  <2>1. v \in IntegerValues /\ chunk = Encode(v) /\ Len(chunk) = EncodedSize(v)
    BY <1>1, <1>7, ChunkFacts DEF p
  <2> HIDE DEF v
  <2>2. Stops(Left) # {} /\ Min(Stops(Left)) = EncodedSize(v) /\ Decode(Left) = v
    BY <1>5, <2>1, Recovered
  <2>3. ReadInteger(p, t)
    BY <1>2, <1>7, <2>2 DEF ReadPlain, ReadBeyond
  <2>4. /\ got' = IF t.kind = "varint" THEN [got EXCEPT ![p] = v] ELSE got
        /\ pointer' = pointer + Len(chunk) /\ mode' = mode
    BY <2>1, <2>2, <2>3 DEF ReadInteger
  <2>5. got'[p] = v
    <3>1. CASE t.kind = "varint"
      BY <1>1, <2>4, <3>1
    <3>2. CASE t.kind # "varint"
      <4>1. t.kind \in Dynamic
        BY <1>4, <1>7, <3>2 DEF Levels
      <4> QED BY <1>3, <2>4, <3>2, <4>1 DEF v
    <3> QED BY <3>1, <3>2
  <2> QED BY <1>1, <1>2, <2>4, <2>5 DEF p, v
<1> QED BY <1>6, <1>7

(* One of the places still to be visited is q or above it.                 *)
Ahead(q, places) ==
    \E j \in 1 .. Len(places) :
      Len(places[j]) <= Len(q) /\ places[j] = SubSeq(q, 1, Len(places[j]))

(* Where the places to be visited come from a place and the rest of them.  *)
LEMMA AheadOfBoth ==
  ASSUME NEW S, NEW e \in Seq(S), NEW rest \in Seq(S), NEW q
  PROVE  Ahead(q, e) \/ Ahead(q, rest) => Ahead(q, e \o rest)
<1>1. /\ Len(e) \in Nat /\ Len(rest) \in Nat /\ Len(e \o rest) = Len(e) + Len(rest)
      /\ \A j \in 1 .. Len(e) : (e \o rest)[j] = e[j]
      /\ \A j \in 1 .. Len(rest) : (e \o rest)[Len(e) + j] = rest[j]
  OBVIOUS
<1>2. /\ \A j \in 1 .. Len(e) : j \in 1 .. Len(e \o rest)
      /\ \A j \in 1 .. Len(rest) : Len(e) + j \in 1 .. Len(e \o rest)
  BY <1>1
<1> DEFINE both == e \o rest
<1> HIDE DEF both
<1>3. ASSUME Ahead(q, e) PROVE Ahead(q, both)
  <2>1. PICK j \in 1 .. Len(e) : Len(e[j]) <= Len(q) /\ e[j] = SubSeq(q, 1, Len(e[j]))
    BY <1>3 DEF Ahead
  <2>2. j \in 1 .. Len(both) /\ both[j] = e[j]
    BY <1>1, <1>2 DEF both
  <2> QED BY <2>1, <2>2 DEF Ahead
<1>4. ASSUME Ahead(q, rest) PROVE Ahead(q, both)
  <2>1. PICK j \in 1 .. Len(rest) :
          Len(rest[j]) <= Len(q) /\ rest[j] = SubSeq(q, 1, Len(rest[j]))
    BY <1>4 DEF Ahead
  <2>2. Len(e) + j \in 1 .. Len(both) /\ both[Len(e) + j] = rest[j]
    BY <1>1, <1>2 DEF both
  <2> QED BY <2>1, <2>2 DEF Ahead
<1> QED BY <1>3, <1>4 DEF both

(* What is below the place that is visited next, and not at it, is below   *)
(* one of its elements.                                                    *)
LEMMA BelowAnElement ==
  ASSUME NEW s \in Shapes, NEW v, IsStruct(s, v), NEW q \in DOMAIN v, NEW p \in DOMAIN v,
         Len(p) <= Len(q), p = SubSeq(q, 1, Len(p)), p # q
  PROVE  Ahead(q, Elements(s, v, p))
<1> DEFINE n == Len(p)
           k == q[n + 1]
           e == Elements(s, v, p)
<1>1. p \in Seq(Nat) /\ q \in Seq(Nat) /\ n \in Nat /\ n # 0 /\ Len(q) \in Nat
  <2>1. p \in Seq(Nat) /\ p # << >> /\ q \in Seq(Nat)
    BY PlaceFacts
  <2> QED BY <2>1
<1>2. n # Len(q)
  <2> SUFFICES ASSUME n = Len(q) PROVE FALSE
    OBVIOUS
  <2>1. SubSeq(q, 1, Len(q)) = q
    BY <1>1
  <2> QED BY <2>1
<1>3. n \in 1 .. Len(q) - 1 /\ n + 1 \in 1 .. Len(q)
  BY <1>1, <1>2
<1>4. TypeAt(s, p).kind \in Dynamic /\ k \in 1 .. v[p]
  BY <1>3, PrefixFacts
<1>5. v[p] \in Nat /\ Len(e) = v[p] /\ e = [j \in 1 .. v[p] |-> Append(p, j)]
  BY <1>4, ElementsFacts
<1>6. e[k] = Append(p, k)
  BY <1>4, <1>5
<1>7. Append(p, k) = SubSeq(q, 1, n + 1) /\ Len(Append(p, k)) = n + 1
  <2>1. k \in Nat /\ Len(Append(p, k)) = n + 1
    BY <1>1, <1>3
  <2>2. SubSeq(q, 1, n + 1) = Append(SubSeq(q, 1, n), q[n + 1])
    BY <1>1, <1>3
  <2> QED BY <2>1, <2>2
<1> HIDE DEF e, k, n
<1>8. k \in 1 .. Len(e)
  BY <1>4, <1>5
<1>9. Len(e[k]) <= Len(q) /\ e[k] = SubSeq(q, 1, Len(e[k]))
  BY <1>1, <1>3, <1>6, <1>7
<1>10. Ahead(q, e)
  BY <1>8, <1>9 DEF Ahead
<1> QED BY <1>10 DEF e

(* Every value sent has been read, or is to be.                            *)
AllRead == \A q \in DOMAIN sent : got[q] = sent[q] \/ Ahead(q, todo)

(* deserialise() follows the walk of serialise() over the bytes it wrote,  *)
(* and what it has passed is what was sent.                                *)
OnTheWay(n, T, P) ==
    /\ \E i \in 0 .. n : T[i] = todo /\ P[i] = pointer
    /\ mode # "overread" /\ AllRead
    /\ mode = "done" => todo = << >>

ReadInv ==
    mode \in {"deserialise", "done", "overread"} =>
        \E n, T, P : /\ Whole(n, T, P) /\ Written(T, P, n, data)
                     /\ LengthsAgree => OnTheWay(n, T, P)

(* Nothing is read at first.                                               *)
LEMMA ReadInvInit == Init => ReadInv
BY DEF Init, ReadInv

(* deserialise() begins with everything still to be read.                  *)
LEMMA AllAhead ==
  ASSUME NEW s \in Shapes, NEW v, IsStruct(s, v), NEW q \in DOMAIN v
  PROVE  Ahead(q, Members(s))
<1>1. q \in Seq(Nat) /\ q # << >> /\ q[1] \in DOMAIN s
  BY PlaceFacts
<1>2. /\ s \in Seq(Seq(Levels)) /\ Len(Members(s)) = Len(s)
      /\ \A i \in 1 .. Len(s) : Members(s)[i] = <<i>>
  BY MembersFacts
<1> DEFINE j == q[1]
           m == Members(s)[j]
<1>3. j \in 1 .. Len(Members(s)) /\ m = <<j>>
  BY <1>1, <1>2
<1>4. Len(m) = 1 /\ 1 <= Len(q) /\ SubSeq(q, 1, 1) = <<j>>
  <2>1. 1 <= Len(q) /\ 1 \in Nat
    BY <1>1
  <2>2. SubSeq(q, 1, 1) = [i \in 1 .. 1 |-> q[i]]
    BY <1>1, <2>1, Taken
  <2>3. [i \in 1 .. 1 |-> q[i]] = <<j>>
    OBVIOUS
  <2> HIDE DEF m
  <2>4. Len(m) = 1
    BY <1>3
  <2> QED BY <2>1, <2>2, <2>3, <2>4
<1> HIDE DEF j
<1>5. Len(m) <= Len(q) /\ m = SubSeq(q, 1, Len(m))
  BY <1>3, <1>4
<1> QED BY <1>3, <1>5 DEF Ahead

(* A read moves on from a place to its elements, and leaves what it has    *)
(* passed.                                                                 *)
LEMMA AllReadStays ==
  ASSUME TypeOK, Read, LengthsAgree, AllRead, got'[Head(todo)] = sent[Head(todo)]
  PROVE  AllRead'
<1> DEFINE p == Head(todo)
           D == DOMAIN sent
           e == Elements(shape, got, p)
           rest == Tail(todo)
<1>1. /\ shape \in Shapes /\ IsStruct(shape, sent) /\ IsStruct(shape, got) /\ DOMAIN got = D
      /\ todo \in Seq(D) /\ todo # << >> /\ p \in D /\ rest \in Seq(D)
  <2>1. DOMAIN got = D /\ todo \in Seq(DOMAIN got) /\ todo # << >>
    BY DEF TypeOK, Read, LengthsAgree
  <2>2. Head(todo) \in D /\ Tail(todo) \in Seq(D)
    BY <2>1
  <2> QED BY <2>1, <2>2 DEF TypeOK
<1>2. UNCHANGED <<shape, sent>> /\ todo' = e \o rest /\ e \in Seq(D)
  <2>1. e \in Seq(DOMAIN got)
    BY <1>1, ElementsFacts
  <2> QED BY <1>1, <2>1 DEF Read
<1>3. e = Elements(shape, sent, p)
  BY <1>1 DEF Elements, LengthsAgree
<1> SUFFICES ASSUME NEW q \in D PROVE got'[q] = sent[q] \/ Ahead(q, todo')
  BY <1>2 DEF AllRead
<1>4. CASE q = p
  BY <1>4
<1>5. CASE q # p /\ got[q] = sent[q]
  BY <1>1, <1>5, ReadChanges
<1>6. CASE q # p /\ Ahead(q, todo)
  <2>1. PICK j \in 1 .. Len(todo) :
          Len(todo[j]) <= Len(q) /\ todo[j] = SubSeq(q, 1, Len(todo[j]))
    BY <1>6 DEF Ahead
  <2>2. Ahead(q, e) \/ Ahead(q, rest)
    <3>1. CASE j = 1
      <4>1. todo[1] = p
        BY <1>1
      <4>2. Len(p) <= Len(q) /\ p = SubSeq(q, 1, Len(p))
        BY <2>1, <3>1, <4>1
      <4> HIDE DEF p, e
      <4>3. Ahead(q, Elements(shape, sent, p))
        BY <1>1, <1>6, <4>2, BelowAnElement
      <4> QED BY <1>3, <4>3
    <3>2. CASE j # 1
      <4>1. /\ Len(todo) \in Nat /\ Len(rest) = Len(todo) - 1
            /\ \A i \in 1 .. Len(rest) : rest[i] = todo[i + 1]
        BY <1>1
      <4>2. j - 1 \in 1 .. Len(rest) /\ (j - 1) + 1 = j
        BY <3>2, <4>1
      <4> HIDE DEF rest
      <4>3. rest[j - 1] = todo[j]
        BY <4>1, <4>2
      <4> QED BY <2>1, <4>2, <4>3 DEF Ahead
    <3> QED BY <3>1, <3>2
  <2> HIDE DEF e, rest
  <2>3. Ahead(q, e \o rest)
    BY <1>1, <1>2, <2>2, AheadOfBoth
  <2> QED BY <1>2, <2>3
<1>7. got[q] = sent[q] \/ Ahead(q, todo)
  BY DEF AllRead
<1> QED BY <1>4, <1>5, <1>6, <1>7

(* One step along the walk.                                                *)
LEMMA ReadGoesOn ==
  ASSUME TypeOK, Read, LengthsAgree, NEW n, NEW T, NEW P, Whole(n, T, P),
         Written(T, P, n, data), OnTheWay(n, T, P)
  PROVE  OnTheWay(n, T, P)'
<1> DEFINE chunk == Chunk(shape, sent, Head(todo))
<1>1. PICK i \in 0 .. n : T[i] = todo /\ P[i] = pointer
  BY DEF OnTheWay
<1>2. todo # << >> /\ Stop(n, T, P, i)
  <2>1. Stop(n, T, P, i)
    BY WalkStep
  <2> QED BY <2>1 DEF Read
<1>3. /\ n \in Nat /\ i \in Nat /\ i + 1 \in 1 .. n /\ Head(todo) \in DOMAIN sent
      /\ T[i + 1] = Elements(shape, sent, Head(todo)) \o Tail(todo)
      /\ P[i + 1] = pointer + Len(chunk)
  BY <1>1, <1>2 DEF Stop
<1>4. /\ pointer + Len(chunk) <= Len(data)
      /\ \A x \in 1 .. Len(chunk) : data[pointer + x] = chunk[x]
  <2>1. (i + 1) - 1 = i
    BY <1>3
  <2>2. /\ P[i + 1] <= Len(data)
        /\ \A x \in 1 .. Len(Chunk(shape, sent, Head(T[(i + 1) - 1]))) :
             data[P[(i + 1) - 1] + x] = Chunk(shape, sent, Head(T[(i + 1) - 1]))[x]
    BY <1>3 DEF Written
  <2> QED BY <1>1, <1>3, <2>1, <2>2
<1>5. /\ mode' = "deserialise" /\ pointer' = pointer + Len(chunk)
      /\ got'[Head(todo)] = sent[Head(todo)]
  <2>1. chunk = Chunk(shape, sent, Head(todo))
    OBVIOUS
  <2> HIDE DEF chunk
  <2> QED BY <1>4, <2>1, ReadsChunk
<1>6. AllRead'
  BY <1>5, AllReadStays DEF OnTheWay
<1>7. todo' = T[i + 1]
  <2>1. todo' = Elements(shape, got, Head(todo)) \o Tail(todo)
    BY DEF Read
  <2>2. Elements(shape, got, Head(todo)) = Elements(shape, sent, Head(todo))
    BY <1>3 DEF Elements, LengthsAgree
  <2> QED BY <1>3, <2>1, <2>2
<1>8. i + 1 \in 0 .. n
  BY <1>3
<1> QED BY <1>3, <1>5, <1>6, <1>7, <1>8 DEF OnTheWay

(* deserialise() stays on the walk, if the lengths agree.                  *)
LEMMA ReadInvNext == TypeOK /\ WriteInv /\ ReadInv /\ [Next]_serdesVars => ReadInv'
<1> SUFFICES ASSUME TypeOK, WriteInv, ReadInv, [Next]_serdesVars PROVE ReadInv'
  OBVIOUS
<1>1. CASE AddMinimum \/ GetSize \/ AddSize \/ Begin \/ Write \/ NoRoom
  BY <1>1 DEF AddMinimum, GetSize, AddSize, Begin, Write, NoRoom, ReadInv
<1>2. CASE HandOver
  <2>1. /\ mode = "serialise" /\ todo = << >> /\ mode' = "deserialise" /\ pointer' = 0
        /\ todo' = Members(shape) /\ UNCHANGED <<shape, sent, got, size, data>>
    BY <1>2 DEF HandOver
  <2>2. PICK n, T, P :
          /\ Whole(n, T, P)
          /\ \E i \in 0 .. n : T[i] = todo /\ P[i] = pointer /\ Written(T, P, i, data)
    BY <2>1 DEF WriteInv
  <2>3. PICK i \in 0 .. n : T[i] = todo /\ Written(T, P, i, data)
    BY <2>2
  <2>4. Stop(n, T, P, i)
    BY <2>2, WalkStep
  <2>5. i = n
    BY <2>1, <2>3, <2>4 DEF Stop
  <2>6. Whole(n, T, P)' /\ Written(T, P, n, data)'
    BY <2>1, <2>2, <2>3, <2>5 DEF Whole, Written
  <2>7. 0 \in 0 .. n /\ T[0] = todo' /\ P[0] = pointer'
    BY <2>1, <2>2 DEF Whole, IsWalk
  <2>8. AllRead'
    <3>1. shape \in Shapes /\ IsStruct(shape, sent)
      BY DEF TypeOK
    <3>2. \A q \in DOMAIN sent : Ahead(q, Members(shape))
      BY <3>1, AllAhead
    <3> QED BY <2>1, <3>2 DEF AllRead
  <2>9. OnTheWay(n, T, P)'
    BY <2>1, <2>7, <2>8 DEF OnTheWay
  <2> QED BY <2>6, <2>9 DEF ReadInv
<1>3. CASE Read
  <2>1. mode = "deserialise" /\ UNCHANGED <<shape, sent, size, data>>
    BY <1>3 DEF Read
  <2>2. PICK n, T, P : /\ Whole(n, T, P) /\ Written(T, P, n, data)
                       /\ LengthsAgree => OnTheWay(n, T, P)
    BY <2>1 DEF ReadInv
  <2>3. LengthsAgree' => OnTheWay(n, T, P)'
    BY <1>3, <2>2, LengthsKept, ReadGoesOn
  <2>4. Whole(n, T, P)' /\ Written(T, P, n, data)'
    BY <2>1, <2>2 DEF Whole, Written
  <2> QED BY <2>3, <2>4 DEF ReadInv
<1>4. CASE Finish
  <2>1. /\ mode = "deserialise" /\ mode' = "done" /\ todo = << >>
        /\ UNCHANGED <<shape, sent, got, size, data, pointer, todo>>
    BY <1>4 DEF Finish
  <2>2. PICK n, T, P : /\ Whole(n, T, P) /\ Written(T, P, n, data)
                       /\ LengthsAgree => OnTheWay(n, T, P)
    BY <2>1 DEF ReadInv
  <2>3. LengthsAgree' => OnTheWay(n, T, P)'
    BY <2>1, <2>2 DEF LengthsAgree, OnTheWay, AllRead
  <2>4. Whole(n, T, P)' /\ Written(T, P, n, data)'
    BY <2>1, <2>2 DEF Whole, Written
  <2> QED BY <2>3, <2>4 DEF ReadInv
<1>5. CASE UNCHANGED serdesVars
  BY <1>5 DEF ReadInv, Whole, Written, LengthsAgree, OnTheWay, AllRead, serdesVars
<1> QED BY <1>1, <1>2, <1>3, <1>4, <1>5 DEF Next

(* ReadBack: deserialise() gets back what serialise() wrote, from exactly  *)
(* the bytes it wrote, when the lengths agree beforehand.                  *)
THEOREM SentIsReadBack == Spec => []ReadBack
<1> DEFINE IInv == TypeOK /\ SizeInv /\ WriteInv /\ ReadInv
<1>1. Init => IInv
  BY TypeOKInit, SizeInvInit, WriteInvInit, ReadInvInit
<1>2. IInv /\ [Next]_serdesVars => IInv'
  BY TypeOKNext, SizeInvNext, WriteInvNext, ReadInvNext
<1>3. IInv => ReadBack
  <2> SUFFICES ASSUME IInv, LengthsAgree, mode \in {"overread", "done"}
               PROVE  mode = "done" /\ got = sent /\ pointer = size
    BY DEF ReadBack
  <2>1. PICK n, T, P : Whole(n, T, P) /\ OnTheWay(n, T, P)
    BY DEF ReadInv
  <2>2. PICK i \in 0 .. n : T[i] = todo /\ P[i] = pointer
    BY <2>1 DEF OnTheWay
  <2>3. mode = "done" /\ todo = << >> /\ AllRead
    BY <2>1 DEF OnTheWay
  <2>4. Stop(n, T, P, i)
    BY <2>1, WalkStep
  <2>5. pointer = size
    BY <2>2, <2>3, <2>4 DEF Stop
  <2>6. \A q \in DOMAIN sent : ~Ahead(q, todo)
    BY <2>3 DEF Ahead
  <2>7. got = sent
    <3>1. /\ got = [q \in DOMAIN got |-> got[q]] /\ sent = [q \in DOMAIN sent |-> sent[q]]
          /\ DOMAIN got = DOMAIN sent
      BY DEF TypeOK, IsStruct, LengthsAgree
    <3>2. \A q \in DOMAIN sent : got[q] = sent[q]
      BY <2>3, <2>6 DEF AllRead
    <3> QED BY <3>1, <3>2
  <2> QED BY <2>3, <2>5, <2>7
<1> HIDE DEF IInv
<1> QED BY <1>1, <1>2, <1>3, PTL DEF Spec

=============================================================================
