------------------------ MODULE AlertBackfillProofs ------------------------
(***************************************************************************)
(* Proofs about AlertBackfill for every set of rule groups and everything  *)
(* their expressions may have returned.                                    *)
(***************************************************************************)
EXTENDS AlertBackfill, WellFoundedInduction, TLAPS

-----------------------------------------------------------------------------
(* A non-empty set of naturals has a least element. *)
LEMMA Least ==
  ASSUME NEW T \in SUBSET Nat, T # {}
  PROVE  \E n \in T : \A m \in T : n <= m
<1> DEFINE R == OpToRel(<, Nat)
<1>1. \E x \in T : \A y \in T : ~(<<y, x>> \in R)
  BY WFMin, NatLessThanWellFounded
<1>2. \A x, y \in Nat : <<y, x>> \in R <=> y < x
  BY DEF OpToRel
<1> HIDE DEF R
<1>3. PICK x \in T : \A y \in T : ~(<<y, x>> \in R)
  BY <1>1
<1>4. \A y \in T : ~(y < x)
  BY <1>2, <1>3
<1> QED
  BY <1>4

(* The greatest element of a set is the one Max returns. *)
LEMMA MaxIs ==
  ASSUME NEW S \in SUBSET Int, NEW x \in S, \A y \in S : x >= y
  PROVE  Max(S) = x
<1>1. Max(S) \in S /\ \A y \in S : Max(S) >= y
  BY Zenon DEF Max
<1>2. x >= Max(S) /\ Max(S) >= x /\ Max(S) \in Int /\ x \in Int
  BY <1>1
<1> QED
  BY <1>2

LEMMA MinIs ==
  ASSUME NEW S \in SUBSET Int, NEW x \in S, \A y \in S : x <= y
  PROVE  Min(S) = x
<1>1. Min(S) \in S /\ \A y \in S : Min(S) <= y
  BY Zenon DEF Min
<1>2. x <= Min(S) /\ Min(S) <= x /\ Min(S) \in Int /\ x \in Int
  BY <1>1
<1> QED
  BY <1>2

(* Multiples of a positive number grow. *)
LEMMA Multiples ==
  ASSUME NEW I \in Nat \ {0}, NEW a \in Int, NEW b \in Int
  PROVE  /\ a * I \in Int
         /\ a < b <=> a * I < b * I
         /\ a <= b <=> a * I <= b * I
         /\ (a - 1) * I = a * I - I
<1>1. a * I \in Int /\ b * I \in Int /\ (a - 1) * I = a * I - I
  OBVIOUS
<1>2. a < b => a * I < b * I
  OBVIOUS
<1>3. b < a => b * I < a * I
  OBVIOUS
<1>4. a = b => a * I = b * I
  OBVIOUS
<1> QED
  BY <1>1, <1>2, <1>3, <1>4

(* Division rounds down. *)
LEMMA Division ==
  ASSUME NEW I \in Nat \ {0}, NEW a \in Int
  PROVE  /\ a \div I \in Int
         /\ a % I \in 0..(I - 1)
         /\ a = (a \div I) * I + (a % I)
OBVIOUS

(* Rounding to seconds rounds down, and keeps a distance of whole seconds. *)
LEMMA Rounding ==
  ASSUME TicksPerSecond \in Nat \ {0}, NEW a \in Int
  PROVE  Seconds(a) \in Int /\ Seconds(a) <= a /\ a - TicksPerSecond < Seconds(a)
BY Division DEF Seconds

LEMMA RoundingApart ==
  ASSUME TicksPerSecond \in Nat \ {0},
         NEW a \in Int, NEW b \in Int, NEW h \in Nat,
         h % TicksPerSecond = 0, a + h <= b
  PROVE  Seconds(a) + h <= Seconds(b)
<1> DEFINE T == TicksPerSecond
           A == a \div T
           B == b \div T
           C == h \div T
<1>1. /\ A \in Int /\ a = A * T + (a % T) /\ a % T \in 0..(T - 1)
      /\ B \in Int /\ b = B * T + (b % T) /\ b % T \in 0..(T - 1)
      /\ C \in Int /\ h = C * T
  BY Division
<1>2. Seconds(a) = A * T /\ Seconds(b) = B * T
  BY <1>1 DEF Seconds
<1> HIDE DEF A, B, C
<1>3. (A + C) * T = A * T + C * T /\ (B + 1) * T = B * T + T
  BY <1>1
<1>4. A * T \in Int /\ B * T \in Int /\ C * T \in Int
  BY <1>1
<1>5. (A + C) * T < (B + 1) * T
  BY <1>1, <1>3, <1>4
<1>6. A + C < B + 1
  BY <1>1, <1>5, Multiples, A + C \in Int, B + 1 \in Int
<1>7. (A + C) * T <= B * T
  BY <1>1, <1>6, Multiples, A + C \in Int, A + C <= B
<1> QED
  BY <1>1, <1>2, <1>3, <1>4, <1>7

-----------------------------------------------------------------------------
(* What the assumptions say of an alerting rule. *)
LEMMA AlertKey ==
  ASSUME NEW k \in AlertKeys
  PROVE  /\ k = <<k[1], k[2]>> /\ k[1] \in GroupIds
         /\ k[2] \in DOMAIN RulesOf(k[1]) /\ k[2] \in Nat \ {0}
         /\ Rule(k).alerting
         /\ Rule(k).hold \in Nat /\ Rule(k).hold % TicksPerSecond = 0
         /\ Interval(k) \in Nat \ {0}
         /\ TicksPerSecond \in Nat \ {0}
<1>1. PICK g \in GroupIds : \E i \in DOMAIN RulesOf(g) : k = <<g, i>>
  BY DEF AlertKeys, Keys
<1>2. PICK i \in DOMAIN RulesOf(g) : k = <<g, i>>
  BY <1>1
<1>3. DOMAIN RulesOf(g) = 1..Len(RulesOf(g)) /\ Len(RulesOf(g)) \in Nat
  BY GroupsAssumption
<1>4. i \in Nat \ {0} /\ k[1] = g /\ k[2] = i
  BY <1>2, <1>3
<1>5. Rule(k).alerting
  BY DEF AlertKeys
<1>6. Rule(k).hold \in Nat /\ Interval(k) \in Nat \ {0}
  BY <1>2, <1>4, GroupsAssumption DEF Rule, Interval
<1>7. Rule(k).hold % TicksPerSecond = 0 /\ TicksPerSecond \in Nat \ {0}
  BY BootAssumption
<1> QED
  BY <1>2, <1>4, <1>5, <1>6, <1>7

(* Step x of the window that ends at q. *)
At(k, q, x) == q - Rule(k).hold - Interval(k) + x * Interval(k)
LastStep(k) == (Rule(k).hold + Interval(k)) \div Interval(k)

(* The steps of a window rise; the last is less than an interval before    *)
(* the end, so the window is longer than the rule's for:.                  *)
LEMMA WindowSteps ==
  ASSUME NEW k \in AlertKeys, NEW q \in Int
  PROVE  /\ LastStep(k) \in Nat
         /\ Window(k, q) = {At(k, q, x) : x \in 0..LastStep(k)}
         /\ \A x \in 0..LastStep(k) :
              /\ At(k, q, x) \in Int
              /\ At(k, q, x) >= q - Rule(k).hold - Interval(k)
              /\ At(k, q, x) <= q
         /\ At(k, q, 0) = q - Rule(k).hold - Interval(k)
         /\ At(k, q, LastStep(k)) > At(k, q, 0) + Rule(k).hold
         /\ \A x, y \in 0..LastStep(k) : x < y <=> At(k, q, x) < At(k, q, y)
         /\ \A x \in 1..LastStep(k) : At(k, q, x - 1) = At(k, q, x) - Interval(k)
<1> DEFINE I == Interval(k)
           H == Rule(k).hold
           L == LastStep(k)
<1>0. I \in Nat \ {0} /\ H \in Nat
  BY AlertKey
<1>1. L \in Int /\ H + I = L * I + ((H + I) % I) /\ (H + I) % I \in 0..(I - 1)
  BY <1>0, Division, H + I \in Int DEF LastStep
<1>2. \A x \in Int : x * I \in Int
  BY <1>0
<1>3. L * I > H /\ L * I <= H + I
  BY <1>0, <1>1, <1>2
<1>4. L \in Nat
  <2>1. 0 * I = 0 /\ 0 * I < L * I
    BY <1>0, <1>1, <1>2, <1>3
  <2> QED
    BY <1>0, <1>1, <2>1, Multiples
<1>5. q - (q - H - I) = H + I
  BY <1>0
<1>6. Window(k, q) = {At(k, q, x) : x \in 0..L}
  BY <1>5 DEF Window, At, LastStep
<1>7. \A x \in Int : At(k, q, x) = q - H - I + x * I
  BY DEF At
<1> HIDE DEF I, H, L
<1>8. \A x \in 0..L : x * I >= 0 /\ x * I <= L * I
  <2> TAKE x \in 0..L
  <2>1. 0 * I <= x * I /\ x * I <= L * I
    BY <1>0, <1>4, Multiples, x \in Int, 0 <= x, x <= L
  <2> QED
    BY <1>0, <2>1
<1>9. \A x \in 0..L : /\ At(k, q, x) \in Int
                      /\ At(k, q, x) >= q - H - I
                      /\ At(k, q, x) <= q
  <2> TAKE x \in 0..L
  <2>1. x * I \in Int /\ x * I >= 0 /\ x * I <= H + I
    BY <1>1, <1>2, <1>3, <1>8, x \in Int, L * I \in Int
  <2>2. At(k, q, x) = q - H - I + x * I
    BY <1>1, <1>7
  <2> QED
    BY <1>0, <2>1, <2>2
<1>10. At(k, q, 0) = q - H - I
  BY <1>0, <1>7
<1>11. At(k, q, L) > At(k, q, 0) + H
  BY <1>0, <1>1, <1>2, <1>3, <1>7, <1>10
<1>12. \A x, y \in 0..L : x < y <=> At(k, q, x) < At(k, q, y)
  <2> TAKE x, y \in 0..L
  <2>1. x * I \in Int /\ y * I \in Int /\ (x < y <=> x * I < y * I)
    BY <1>0, <1>4, Multiples, x \in Int, y \in Int
  <2> QED
    BY <1>0, <1>7, <2>1
<1>13. \A x \in 1..L : At(k, q, x - 1) = At(k, q, x) - I
  <2> TAKE x \in 1..L
  <2>1. x * I \in Int /\ (x - 1) * I = x * I - I
    BY <1>0, <1>4, Multiples, x \in Int
  <2> QED
    BY <1>0, <1>4, <1>7, <2>1, x \in Int, x - 1 \in Int
<1> QED
  BY <1>4, <1>6, <1>9, <1>10, <1>11, <1>12, <1>13 DEF I, H, L

-----------------------------------------------------------------------------
(* Runs of steps, by the numbers X of the steps that are there: the run    *)
(* that x is in begins with RunStart.                                      *)
IsRunStart(X, x, y) == y \in X /\ y <= x /\ y..x \subseteq X /\ y - 1 \notin X
RunStart(X, x) == CHOOSE y \in X : IsRunStart(X, x, y)

LEMMA RunStarts ==
  ASSUME NEW X \in SUBSET Nat, NEW x \in X
  PROVE  /\ IsRunStart(X, x, RunStart(X, x))
         /\ \A y \in X : IsRunStart(X, x, y) => y = RunStart(X, x)
<1> DEFINE T == {y \in X : y <= x /\ y..x \subseteq X}
<1>1. T \in SUBSET Nat /\ x \in T
  <2>1. x \in Nat /\ x <= x
    OBVIOUS
  <2>2. \A y \in x..x : y = x
    BY <2>1
  <2>3. x..x \subseteq X
    BY <2>2
  <2> QED
    BY <2>1, <2>3
<1>2. PICK n \in T : \A y \in T : n <= y
  BY <1>1, Least
<1>3. n \in X /\ n \in Nat /\ n <= x /\ n..x \subseteq X
  BY <1>2
<1>4. n - 1 \in X => n - 1 \in T
  BY <1>3
<1>5. IsRunStart(X, x, n)
  BY <1>2, <1>3, <1>4 DEF IsRunStart
<1>6. \A y, w \in X : IsRunStart(X, x, y) /\ IsRunStart(X, x, w) => ~(y < w)
  <2> SUFFICES ASSUME NEW y \in X, NEW w \in X,
                      IsRunStart(X, x, y), IsRunStart(X, x, w), y < w
               PROVE  FALSE
    OBVIOUS
  <2>1. w - 1 \in y..x
    BY DEF IsRunStart
  <2> QED
    BY <2>1 DEF IsRunStart
<1>7. \A y, w \in X : IsRunStart(X, x, y) /\ IsRunStart(X, x, w) => y = w
  BY <1>6
<1>8. RunStart(X, x) \in X /\ IsRunStart(X, x, RunStart(X, x))
  BY <1>3, <1>5, Zenon DEF RunStart
<1> QED
  BY <1>7, <1>8

(* A step continues the run of the step before it, if that is there. *)
LEMMA RunStartStep ==
  ASSUME NEW X \in SUBSET Nat, NEW x \in X
  PROVE  /\ x - 1 \notin X => RunStart(X, x) = x
         /\ x - 1 \in X => RunStart(X, x) = RunStart(X, x - 1)
<1>1. x - 1 \notin X => IsRunStart(X, x, x)
  BY DEF IsRunStart
<1>2. ASSUME x - 1 \in X
      PROVE  RunStart(X, x) = RunStart(X, x - 1)
  <2> DEFINE y == RunStart(X, x)
  <2>1. y \in X /\ IsRunStart(X, x, y)
    BY RunStarts DEF IsRunStart
  <2> HIDE DEF y
  <2>2. y # x /\ y \in Nat /\ x \in Nat /\ y <= x /\ y..x \subseteq X /\ y - 1 \notin X
    BY <1>2, <2>1 DEF IsRunStart
  <2>3. y <= x - 1 /\ y..(x - 1) \subseteq X
    BY <2>2
  <2>4. IsRunStart(X, x - 1, y)
    BY <2>1, <2>2, <2>3 DEF IsRunStart
  <2> QED
    BY <1>2, <2>1, <2>4, RunStarts DEF y
<1> QED
  BY <1>1, <1>2, RunStarts

(* A non-empty set of numbers up to L has a greatest element. *)
LEMMA Greatest ==
  ASSUME NEW L \in Nat, NEW X \in SUBSET (0..L), X # {}
  PROVE  \E n \in X : \A m \in X : m <= n
<1> DEFINE T == {n \in 0..L : L - n \in X}
<1>1. T \in SUBSET Nat
  OBVIOUS
<1>2. \A m \in X : L - m \in T /\ L - (L - m) = m
  OBVIOUS
<1>3. T # {}
  BY <1>2
<1>4. PICK n \in T : \A m \in T : n <= m
  BY <1>1, <1>3, Least
<1>5. L - n \in X /\ n \in 0..L
  BY <1>4
<1>6. \A m \in X : m <= L - n
  BY <1>2, <1>4, <1>5
<1> QED
  BY <1>5, <1>6

(* The times of the steps in X, of the window of rule k that ends at q. *)
Times(k, q, X) == {At(k, q, x) : x \in X}

LEMMA TimesOrder ==
  ASSUME NEW k \in AlertKeys, NEW q \in Int, NEW X \in SUBSET (0..LastStep(k)),
         NEW z \in X, \A x \in X : x <= z
  PROVE  Times(k, q, X) \in SUBSET Int /\ Max(Times(k, q, X)) = At(k, q, z)
<1> DEFINE A(x) == At(k, q, x)
           L == LastStep(k)
           S == Times(k, q, X)
<1>1. /\ L \in Nat
      /\ \A x \in 0..L : A(x) \in Int
      /\ \A x, y \in 0..L : x < y <=> A(x) < A(y)
  BY WindowSteps
<1>2. S = {A(x) : x \in X}
  BY DEF Times
<1> HIDE DEF A, L, S
<1>3. X \subseteq 0..L
  BY DEF L
<1>4. S \in SUBSET Int /\ A(z) \in S
  BY <1>1, <1>2, <1>3
<1>5. \A x \in X : ~(A(z) < A(x))
  BY <1>1, <1>3
<1>6. \A t \in S : A(z) >= t
  BY <1>1, <1>2, <1>3, <1>5
<1> QED
  BY <1>4, <1>6, MaxIs DEF A, S

(* What GenerateAlertStateMatrix compares at step x: the previous point is *)
(* that of step x - 1, or it is missing and the alert begins anew.         *)
LEMMA PreviousPoint ==
  ASSUME NEW k \in AlertKeys, NEW q \in Int, NEW X \in SUBSET (0..LastStep(k)), NEW x \in X
  PROVE  LET earlier == {u \in Times(k, q, X) : u < At(k, q, x)}
             anew == earlier = {} \/ Cleared(Max(earlier), At(k, q, x), Interval(k))
         IN  IF x - 1 \in X THEN ~anew /\ Max(earlier) = At(k, q, x - 1) ELSE anew
<1> DEFINE A(y) == At(k, q, y)
           L == LastStep(k)
           I == Interval(k)
           Y == {y \in X : y < x}
           earlier == {u \in Times(k, q, X) : u < A(x)}
<1>1. /\ L \in Nat /\ I \in Nat \ {0}
      /\ \A y \in 0..L : A(y) \in Int
      /\ \A y, w \in 0..L : y < w <=> A(y) < A(w)
      /\ \A y \in 1..L : A(y - 1) = A(y) - I
  BY WindowSteps, AlertKey
<1>2. X \subseteq 0..L /\ Y \in SUBSET (0..L)
  OBVIOUS
<1>3. earlier = Times(k, q, Y)
  <2>1. \A y \in X : y < x <=> A(y) < A(x)
    BY <1>1, <1>2
  <2> HIDE DEF A
  <2>2. Times(k, q, X) = {A(y) : y \in X} /\ Times(k, q, Y) = {A(y) : y \in Y}
    BY DEF Times, A
  <2> QED
    BY <2>1, <2>2
<1> HIDE DEF A, L, I, earlier
<1>4. CASE x - 1 \in X
  <2>1. x - 1 \in Y /\ \A y \in Y : y <= x - 1
    BY <1>1, <1>2, <1>4
  <2>2. Max(earlier) = A(x - 1)
    BY <1>2, <1>3, <2>1, TimesOrder DEF A, L
  <2>3. earlier # {}
    BY <1>3, <2>1 DEF Times
  <2>4. x \in 1..L /\ A(x) \in Int /\ A(x - 1) = A(x) - I
    BY <1>1, <1>2, <1>4
  <2>5. ~Cleared(Max(earlier), A(x), I)
    BY <1>1, <2>2, <2>4 DEF Cleared
  <2> QED
    BY <1>4, <2>2, <2>3, <2>5 DEF A, I, earlier
<1>5. CASE x - 1 \notin X
  <2>1. CASE Y = {}
    <3>1. earlier = {}
      BY <1>3, <2>1 DEF Times
    <3> QED
      BY <1>5, <3>1 DEF A, earlier
  <2>2. CASE Y # {}
    <3>1. PICK y \in Y : \A w \in Y : w <= y
      BY <1>1, <1>2, <2>2, Greatest
    <3>2. Max(earlier) = A(y)
      BY <1>2, <1>3, <3>1, TimesOrder DEF A, L
    <3>3. y \in 0..L /\ x \in 1..L /\ x - 1 \in 0..L /\ y < x - 1
      BY <1>1, <1>2, <1>5, <3>1
    <3>4. A(x) \in Int /\ A(y) \in Int /\ A(y) < A(x - 1) /\ A(x - 1) = A(x) - I
      BY <1>1, <3>3
    <3>5. Cleared(Max(earlier), A(x), I)
      BY <1>1, <3>2, <3>4 DEF Cleared
    <3> QED
      BY <1>5, <3>5 DEF A, I, earlier
  <2> QED
    BY <2>1, <2>2
<1> QED
  BY <1>4, <1>5

(* An alert is active since the first step of the run its sample is in:    *)
(* what the loop over the samples computes, for any gaps.                  *)
LEMMA ActiveSince ==
  ASSUME NEW k \in AlertKeys, NEW q \in Int, NEW X \in SUBSET (0..LastStep(k))
  PROVE  \A x \in X : ActiveAts(Times(k, q, X), Interval(k))[At(k, q, x)]
                        = Seconds(At(k, q, RunStart(X, x)))
<1> DEFINE I == Interval(k)
           A(x) == At(k, q, x)
           L == LastStep(k)
           S == Times(k, q, X)
           E(t) == {u \in S : u < t}
           Anew(t) == E(t) = {} \/ Cleared(Max(E(t)), t, I)
           V(x) == Seconds(A(RunStart(X, x)))
           Now(f, t) == IF Anew(t) THEN Seconds(t) ELSE f[Max(E(t))]
           Computes(f) == f = [t \in S |-> Now(f, t)]
           active == ActiveAts(S, I)
<1>1. active = CHOOSE f : Computes(f)
  BY Zenon DEF ActiveAts
<1>2. L \in Nat /\ S = {A(x) : x \in X} /\ X \in SUBSET Nat
  BY WindowSteps DEF Times
<1>3. \A x \in X : IF x - 1 \in X THEN ~Anew(A(x)) /\ Max(E(A(x))) = A(x - 1) ELSE Anew(A(x))
  BY PreviousPoint
<1>4. \A x \in X : /\ x - 1 \notin X => V(x) = Seconds(A(x))
                   /\ x - 1 \in X => V(x) = V(x - 1)
  BY <1>2, RunStartStep
<1>5. \A x, y \in X : A(x) = A(y) => x = y
  <2>1. /\ X \subseteq 0..L
        /\ \A x \in 0..L : A(x) \in Int
        /\ \A x, y \in 0..L : x < y <=> A(x) < A(y)
    BY WindowSteps
  <2> HIDE DEF A, L
  <2> QED
    BY <1>2, <2>1
<1> HIDE DEF I, A, L, S, E, Anew, V, active
<1>6. \A f : \A x \in X : Now(f, A(x)) = IF x - 1 \in X THEN f[A(x - 1)] ELSE Seconds(A(x))
  BY <1>3
<1> HIDE DEF Now
(* A function that computes the values is V at every step, or there is a   *)
(* first step at which it is not.                                          *)
<1>7. ASSUME NEW f, Computes(f)
      PROVE  \A x \in X : f[A(x)] = V(x)
  <2> DEFINE T == {x \in X : f[A(x)] # V(x)}
  <2>1. \A x \in X : f[A(x)] = Now(f, A(x))
    BY <1>2, <1>7
  <2> HIDE DEF Computes
  <2>0. \A x \in X : f[A(x)] = IF x - 1 \in X THEN f[A(x - 1)] ELSE Seconds(A(x))
    BY <1>6, <2>1, Zenon
  <2> SUFFICES ASSUME T # {} PROVE FALSE
    OBVIOUS
  <2>2. T \in SUBSET Nat
    BY <1>2
  <2>3. PICK n \in T : \A m \in T : n <= m
    BY <2>2, Least
  <2>4. n \in X /\ n \in Nat /\ f[A(n)] # V(n)
    BY <2>2, <2>3
  <2>5. CASE n - 1 \in X
    <3>1. n - 1 \notin T
      BY <2>3, <2>4
    <3>2. f[A(n - 1)] = V(n - 1)
      BY <2>5, <3>1
    <3> QED
      BY <1>4, <2>0, <2>4, <2>5, <3>2, Zenon
  <2>6. CASE n - 1 \notin X
    BY <1>4, <2>0, <2>4, <2>6, Zenon
  <2> QED
    BY <2>5, <2>6
<1>8. \E g : Computes(g)
  <2> DEFINE At1(t) == CHOOSE x \in X : t = A(x)
             g == [t \in S |-> V(At1(t))]
  <2>1. \A x \in X : At1(A(x)) = x
    BY <1>5
  <2> HIDE DEF At1
  <2>2. \A x \in X : A(x) \in S /\ g[A(x)] = V(x)
    BY <1>2, <2>1
  <2>3. \A x \in X : Now(g, A(x)) = V(x)
    <3> HIDE DEF g
    <3>1. \A x \in X : Now(g, A(x)) = IF x - 1 \in X THEN g[A(x - 1)] ELSE Seconds(A(x))
      BY <1>6, Zenon
    <3>2. ASSUME NEW x \in X, x - 1 \in X
          PROVE  Now(g, A(x)) = V(x)
      BY <1>4, <2>2, <3>1, <3>2, Zenon
    <3>3. ASSUME NEW x \in X, x - 1 \notin X
          PROVE  Now(g, A(x)) = V(x)
      BY <1>4, <3>1, <3>3, Zenon
    <3> QED
      BY <3>2, <3>3, Zenon
  <2>4. \A t \in S : Now(g, t) = V(At1(t))
    <3> HIDE DEF g
    <3> QED
      BY <1>2, <2>1, <2>3
  <2>5. Computes(g)
    BY <2>4
  <2> QED
    BY <2>5
<1>9. Computes(active)
  <2> HIDE DEF Computes
  <2> QED
    BY Zenon, <1>1, <1>8
<1> HIDE DEF Computes
<1> QED
  BY <1>7, <1>9 DEF I, A, S, V, active

(* A series that is there at every step of the window has been active      *)
(* since the window began.                                                 *)
LEMMA ActiveThroughout ==
  ASSUME NEW k \in AlertKeys, NEW q \in Int
  PROVE  /\ Max(Window(k, q)) = At(k, q, LastStep(k))
         /\ At(k, q, LastStep(k)) \in Window(k, q)
         /\ ActiveAts(Window(k, q), Interval(k))[At(k, q, LastStep(k))] = Seconds(At(k, q, 0))
<1> DEFINE L == LastStep(k)
           X == 0..L
<1>1. L \in Nat /\ Window(k, q) = Times(k, q, X)
  BY WindowSteps DEF Times
<1>2. X \in SUBSET (0..L) /\ X \in SUBSET Nat /\ L \in X /\ 0 \in X /\ \A x \in X : x <= L
  BY <1>1
<1>3. IsRunStart(X, L, 0)
  BY <1>1 DEF IsRunStart
<1> HIDE DEF X
<1>4. RunStart(X, L) = 0
  BY <1>2, <1>3, RunStarts
<1>5. At(k, q, L) \in Times(k, q, X)
  BY <1>2 DEF Times
<1> QED
  BY <1>1, <1>2, <1>4, <1>5, TimesOrder, ActiveSince

(* The alert of such a series is restored as one that has waited for long  *)
(* enough.                                                                 *)
LEMMA RestoredAsFiring ==
  ASSUME NEW k \in AlertKeys, NEW q \in Int, NEW series,
         series.times = Window(k, q), series.values = ActiveAts(Window(k, q), Interval(k))
  PROVE  RestoredActiveAt(k, series) + Rule(k).hold <= q
<1> DEFINE a == At(k, q, 0)
           b == At(k, q, LastStep(k))
           H == Rule(k).hold
           I == Interval(k)
           T == TicksPerSecond
<1>1. /\ H \in Nat /\ I \in Nat \ {0}
      /\ H % T = 0 /\ T \in Nat \ {0}
  BY AlertKey
<1>2. /\ a \in Int /\ b \in Int /\ a = q - H - I /\ b > a + H
  <2>1. 0 \in 0..LastStep(k) /\ LastStep(k) \in 0..LastStep(k)
    BY WindowSteps
  <2> QED
    BY <2>1, WindowSteps
<1>3. Max(series.times) = b /\ series.values[b] = Seconds(a)
  BY ActiveThroughout
<1> HIDE DEF a, b
<1>4. Seconds(a) \in Int /\ Seconds(b) \in Int /\ Seconds(a) <= a
  BY <1>1, <1>2, Rounding
<1>5. Seconds(a) + H <= Seconds(b)
  BY <1>1, <1>2, RoundingApart
<1>6. H - (Seconds(b) - Seconds(a)) <= 0
  BY <1>1, <1>4, <1>5
<1>7. RestoredActiveAt(k, series) = Seconds(a)
  <2> DEFINE remaining == H - (Seconds(b) - Seconds(a))
  <2>1. remaining <= 0 /\ ~(remaining > 0)
    BY <1>1, <1>4, <1>6
  <2>2. remaining = Rule(k).hold - (Seconds(Max(series.times)) - series.values[Max(series.times)])
    BY <1>3
  <2> HIDE DEF remaining
  <2> QED
    BY <1>3, <2>1, <2>2, Zenon DEF RestoredActiveAt
<1> QED
  BY <1>1, <1>2, <1>4, <1>7

(* The reference definition of the last run, and what the loop says of its *)
(* last sample, agree: the run ends with the last step that is there and   *)
(* the alert is active since the run began.                                *)
LEMMA LastRunIs ==
  ASSUME NEW k \in AlertKeys, NEW q \in Int, NEW m, Steps(k, m, q) # {}
  PROVE  \E b, z \in Int :
           /\ Max(Steps(k, m, q)) = z
           /\ Span(LastRun(k, m, q)) = z - b
           /\ ActiveAts(Steps(k, m, q), Interval(k))[z] = Seconds(b)
<1> DEFINE A(x) == At(k, q, x)
           L == LastStep(k)
           W == Window(k, q)
           X == {x \in 0..L : A(x) \in signal[Rule(k).expr][m]}
           S == Steps(k, m, q)
           R == LastRun(k, m, q)
<1>1. /\ L \in Nat
      /\ W = {A(x) : x \in 0..L}
      /\ \A x \in 0..L : A(x) \in Int
      /\ \A x, y \in 0..L : x < y <=> A(x) < A(y)
  BY WindowSteps
<1>2. S = {A(x) : x \in X} /\ S = Times(k, q, X)
  BY <1>1 DEF Steps, Times
<1>3. X \in SUBSET (0..L) /\ X \in SUBSET Nat /\ X # {}
  BY <1>1, <1>2
<1>4. R = {t \in S : \A u \in W : u > t /\ (\E w \in S : w > u) => u \in S}
  BY DEF LastRun
<1> HIDE DEF A, L, W, X, S, R
<1>5. PICK z \in X : \A x \in X : x <= z
  BY <1>1, <1>3, Greatest
<1>6. PICK y \in X : y = RunStart(X, z) /\ IsRunStart(X, z, y)
  BY <1>3, <1>5, RunStarts DEF IsRunStart
<1>7. /\ z \in 0..L /\ y \in 0..L /\ y <= z /\ y..z \subseteq X /\ y - 1 \notin X
      /\ A(z) \in Int /\ A(y) \in Int /\ A(z) \in S /\ A(y) \in S
  BY <1>1, <1>2, <1>3, <1>6 DEF IsRunStart
<1>8. Max(S) = A(z)
  BY <1>2, <1>3, <1>5, TimesOrder DEF A, L
<1>9. \A x, i \in 0..L : (A(x) > A(i) <=> x > i) /\ (A(x) = A(i) => x = i)
  BY <1>1
<1>10. A(z) \in R /\ \A t \in R : A(z) >= t
  <2>1. \A x \in X : ~(A(x) > A(z))
    BY <1>3, <1>5, <1>7, <1>9
  <2>2. \A t \in S : t \in Int /\ A(z) >= t
    BY <1>1, <1>2, <1>3, <1>7, <2>1
  <2>3. \A u \in W : u \in Int
    BY <1>1
  <2>4. \A u \in W, w \in S : ~(u > A(z) /\ w > u)
    BY <1>7, <2>2, <2>3
  <2> QED
    BY <1>4, <1>7, <2>2, <2>4
<1>11. A(y) \in R
  <2> SUFFICES ASSUME NEW u \in W, NEW w \in S, u > A(y), w > u
               PROVE  u \in S
    BY <1>4, <1>7
  <2>1. PICK i \in 0..L : u = A(i)
    BY <1>1
  <2>2. PICK x \in X : w = A(x)
    BY <1>2
  <2>3. i > y /\ i < x
    BY <1>3, <1>7, <1>9, <2>1, <2>2
  <2>4. i \in y..z
    BY <1>3, <1>5, <1>7, <2>2, <2>3
  <2> QED
    BY <1>2, <1>7, <2>1, <2>4
<1>12. \A t \in R : A(y) <= t
  <2> SUFFICES ASSUME NEW t \in R, ~(A(y) <= t) PROVE FALSE
    OBVIOUS
  <2>1. PICK x \in X : t = A(x)
    BY <1>2, <1>4
  <2>2. x \in 0..L /\ x < y
    BY <1>1, <1>3, <1>7, <1>9, <2>1
  <2>3. y - 1 # x /\ y - 1 \in 0..L /\ y - 1 > x
    BY <1>1, <1>7, <2>1, <2>2
  <2>4. A(y - 1) \in W /\ A(y - 1) > t /\ A(y) > A(y - 1)
    BY <1>1, <1>7, <1>9, <2>1, <2>2, <2>3
  <2>5. A(y - 1) \in S
    BY <1>4, <1>7, <2>4
  <2>6. PICK i \in X : A(y - 1) = A(i)
    BY <1>2, <2>5
  <2>7. y - 1 = i
    BY <1>3, <1>9, <2>3, <2>6
  <2> QED
    BY <1>7, <2>7
<1>13. R \in SUBSET Int
  BY <1>1, <1>2, <1>3, <1>4
<1>14. Max(R) = A(z) /\ Min(R) = A(y)
  BY <1>10, <1>11, <1>12, <1>13, MaxIs, MinIs
<1>15. ActiveAts(S, Interval(k))[A(z)] = Seconds(A(y))
  BY <1>2, <1>3, <1>5, <1>6, ActiveSince DEF A, L
<1> QED
  BY <1>7, <1>8, <1>14, <1>15 DEF Span, S, R

(* The restored alert is credited with no more than that run, up to the    *)
(* rounding to seconds, whichever way RestoreForState goes.                *)
LEMMA CreditedWithRun ==
  ASSUME NEW k \in AlertKeys, NEW j \in AlertKeys, NEW q \in Int, ts \in Int,
         NEW m, Steps(j, m, q) # {}, NEW series,
         series.times = Steps(j, m, q),
         series.values = ActiveAts(Steps(j, m, q), Interval(j))
  PROVE  Min({Rule(k).hold, ts - RestoredActiveAt(k, series)})
           < Span(LastRun(j, m, q)) + TicksPerSecond
<1> DEFINE H == Rule(k).hold
           T == TicksPerSecond
           v == RestoredActiveAt(k, series)
           span == Span(LastRun(j, m, q))
           G == ForGracePeriod
<1>1. H \in Nat /\ T \in Nat \ {0} /\ G \in Nat
  BY AlertKey, BootAssumption
<1>2. PICK b, z \in Int : /\ Max(series.times) = z /\ span = z - b
                          /\ series.values[z] = Seconds(b)
  BY LastRunIs
<1>3. /\ Seconds(b) \in Int /\ b - T < Seconds(b)
      /\ Seconds(z) \in Int /\ Seconds(z) <= z
  BY <1>1, Rounding
<1> DEFINE B == Seconds(b)
           Z == Seconds(z)
           remaining == H - (Z - B)
<1>4. v = CASE remaining <= 0 -> B
            [] remaining > 0 /\ remaining < G -> ts + G - H
            [] remaining > 0 /\ remaining >= G -> B + (ts - Z)
  BY <1>2, Zenon DEF RestoredActiveAt
<1>5. Z - B < span + T /\ span \in Int /\ B \in Int /\ Z \in Int
  BY <1>1, <1>2, <1>3
<1> HIDE DEF B, Z, span, v
<1>6. v \in Int /\ (H < span + T \/ ts - v < span + T)
  <2>1. CASE remaining <= 0
    <3>1. v = B
      BY <1>1, <1>4, <1>5, <2>1
    <3> QED
      BY <1>1, <1>5, <2>1, <3>1
  <2>2. CASE remaining > 0 /\ remaining < G
    <3>1. v = ts + G - H
      BY <1>1, <1>4, <1>5, <2>2
    <3> QED
      BY <1>1, <1>5, <2>2, <3>1
  <2>3. CASE remaining > 0 /\ remaining >= G
    <3>1. v = B + (ts - Z)
      BY <1>1, <1>4, <1>5, <2>3
    <3> QED
      BY <1>1, <1>5, <2>3, <3>1
  <2> QED
    BY <1>1, <1>5, <2>1, <2>2, <2>3
<1>7. Min({H, ts - v}) \in Int /\ Min({H, ts - v}) <= H /\ Min({H, ts - v}) <= ts - v
  <2> DEFINE P == {H, ts - v}
  <2>1. P \in SUBSET Int /\ H \in Int /\ ts - v \in Int /\ H \in P /\ ts - v \in P
    BY <1>1, <1>6
  <2>2. CASE H <= ts - v
    <3>0. \A y \in P : H <= y
      BY <2>1, <2>2
    <3> HIDE DEF P
    <3>1. Min(P) = H
      BY <2>1, <3>0, MinIs
    <3> QED
      BY <2>1, <2>2, <3>1 DEF P
  <2>3. CASE ts - v < H
    <3>0. \A y \in P : ts - v <= y
      BY <2>1, <2>3
    <3> HIDE DEF P
    <3>1. Min(P) = ts - v
      BY <2>1, <3>0, MinIs
    <3> QED
      BY <2>1, <2>3, <3>1 DEF P
  <2> QED
    BY <2>1, <2>2, <2>3
<1> QED
  BY <1>1, <1>5, <1>6, <1>7 DEF v, span

(* The series of an expression that held through the window is in the      *)
(* answer, alone with its labels, and its alert is restored from it.       *)
LEMMA HeldIsRestored ==
  ASSUME NEW k \in AlertKeys, NEW q \in Int,
         NEW m \in DOMAIN signal[Rule(k).expr],
         (q - Rule(k).hold - Interval(k))..q \subseteq signal[Rule(k).expr][m],
         \A n \in DOMAIN signal[Rule(k).expr] \ {m} :
           AlertLabels(Rule(k), n) = AlertLabels(Rule(k), m) =>
             signal[Rule(k).expr][n] \cap ((q - Rule(k).hold - Interval(k))..q) = {},
         AlertLabels(Rule(k), m) \in DOMAIN alerts[k],
         NEW answer,
         answer = GenerateAlertStateMatrix(QueryRange(k, q), Rule(k).labels, Rule(k), Interval(k))
  PROVE  RestoreAlerts(k, answer)[AlertLabels(Rule(k), m)] + Rule(k).hold <= q
<1> DEFINE rule == Rule(k)
           I == Interval(k)
           W == Window(k, q)
           a == AlertLabels(rule, m)
           at == signal[rule.expr]
           M == QueryRange(k, q)
           S(n) == [labels |-> AlertLabels(rule, n), times |-> M[n], values |-> ActiveAts(M[n], I)]
           D == {n \in DOMAIN M : M[n] # {} /\ Matches(rule.labels, AlertLabels(rule, n))}
<1> DEFINE window == (q - rule.hold - I)..q
<1>1. W # {} /\ W \subseteq window /\ window \subseteq at[m]
  <2>1. \A x \in 0..LastStep(k) : At(k, q, x) \in window
    BY WindowSteps, AlertKey
  <2>2. W = {At(k, q, x) : x \in 0..LastStep(k)}
    BY WindowSteps
  <2>3. At(k, q, LastStep(k)) \in W
    BY ActiveThroughout
  <2>4. window \subseteq at[m]
    OBVIOUS
  <2> HIDE DEF W, at, window
  <2> QED
    BY <2>1, <2>2, <2>3, <2>4
<1>2. DOMAIN M = DOMAIN at /\ \A n \in DOMAIN at : M[n] = W \cap at[n]
  BY DEF QueryRange
<1>3. Matches(rule.labels, a)
  BY DEF Matches, AlertLabels, Over
<1>4. answer = {S(n) : n \in D}
  BY DEF GenerateAlertStateMatrix
<1>5. m \in D /\ S(m) \in answer /\ S(m).labels = a
  BY <1>1, <1>2, <1>3, <1>4
<1>6. \A n \in DOMAIN at : AlertLabels(rule, n) = a /\ n # m => at[n] \cap window = {}
  OBVIOUS
<1>7. \A n \in D : AlertLabels(rule, n) = a => n = m
  BY <1>1, <1>2, <1>6
<1>8. \A r \in answer : r.labels = a => r.times = W /\ r.values = ActiveAts(W, I)
  <2>1. M[m] = W
    BY <1>1, <1>2
  <2>2. \A r \in answer : r.labels = a => r = S(m)
    BY <1>4, <1>7
  <2> QED
    BY <2>1, <2>2
<1> DEFINE restored == {RestoredActiveAt(k, s) : s \in {r \in answer : r.labels = a}}
<1>9. restored # {}
  BY <1>5
<1>10. \A t \in restored : t + rule.hold <= q
  <2>1. \A r \in answer : r.labels = a => RestoredActiveAt(k, r) + rule.hold <= q
    BY <1>8, RestoredAsFiring
  <2> QED
    BY <2>1
<1>11. RestoreAlerts(k, answer)[a] = CHOOSE t \in restored : TRUE
  BY <1>9 DEF RestoreAlerts
<1> QED
  BY <1>9, <1>10, <1>11

-----------------------------------------------------------------------------
(* Where the goroutine of the group is, and what it has.  The rules before *)
(* position are done; results belong to the rule they are kept under and   *)
(* to the time since the restoration began.                                *)
GroupState ==
  /\ self \in GroupIds
  /\ now \in Int /\ ts \in Int /\ ts <= now
  /\ position \in Nat \ {0}
  /\ pc \in {"waiting", "evaluated", "opening"} => position = 1 /\ ruleValues = <<>>
  /\ pc = "restoring" => position \in DOMAIN RulesOf(self)
  /\ DOMAIN alerts = OwnKeys

ResultsKept ==
  \A k \in DOMAIN ruleValues :
    k \in AlertKeys /\ ruleValues[k].rule = k /\ ruleValues[k].at \in ts..now

(* A rule whose alerts were recreated has the result they came from: a     *)
(* later rule that fits the same rule does not put another one there.      *)
ResultsUsed ==
  \A k \in OwnKeys : Recreated(k) => Found[k] \subseteq DOMAIN ruleValues

(* An alert that is not restored yet began after the restart. *)
NotYetRestored ==
  \A k \in OwnKeys : k[2] >= position =>
    \A a \in DOMAIN alerts[k] : alerts[k][a] \in Int /\ alerts[k][a] >= Boot

BackfillInvariant ==
  /\ GroupState
  /\ ResultsKept
  /\ ResultsUsed
  /\ NotYetRestored
  /\ HeldAlertsFire
  /\ PendingTimeObserved

(* The keys of a group's own rules differ in the rule. *)
LEMMA OwnKey ==
  ASSUME NEW k \in OwnKeys
  PROVE  k \in AlertKeys /\ k = <<self, k[2]>> /\ k[2] \in Nat \ {0}
BY AlertKey DEF OwnKeys

LEMMA BackfillInit == Init => BackfillInvariant
<1> SUFFICES ASSUME Init PROVE BackfillInvariant
  OBVIOUS
<1>1. GroupState
  BY GroupsAssumption DEF Init, GroupState
<1>2. DOMAIN ruleValues = {}
  BY DEF Init
<1>3. \A k \in OwnKeys : ~Recreated(k)
  <2> TAKE k \in OwnKeys
  <2>1. k[2] \in Nat \ {0} /\ position = 1
    BY AlertKey DEF Init, OwnKeys
  <2> QED
    BY <2>1 DEF Recreated
<1>4. NotYetRestored
  BY GroupsAssumption DEF Init, NotYetRestored
<1> QED
  BY <1>1, <1>2, <1>3, <1>4
  DEF BackfillInvariant, ResultsKept, ResultsUsed, HeldAlertsFire, PendingTimeObserved

(* A step that leaves the results and the alerts alone, and does no rule   *)
(* whose alerts it should have restored, keeps what was shown about them.  *)
LEMMA NothingRestored ==
  ASSUME BackfillInvariant,
         UNCHANGED <<inputs, ts, ruleValues, alerts>>,
         now' \in Int, now <= now', position' \in Nat, position <= position',
         \A k \in OwnKeys : Recreated(k)' => Recreated(k)
  PROVE  ResultsKept' /\ ResultsUsed' /\ NotYetRestored' /\ HeldAlertsFire' /\ PendingTimeObserved'
<1>1. OwnKeys' = OwnKeys /\ Found' = Found
  BY DEF inputs, OwnKeys, Found
<1>2. ts..now \subseteq (ts..now)'
  BY DEF BackfillInvariant, GroupState
<1>3. ResultsKept'
  BY <1>2 DEF BackfillInvariant, ResultsKept
<1>4. ResultsUsed'
  BY <1>1 DEF BackfillInvariant, ResultsUsed
<1>5. NotYetRestored'
  <2>1. \A k \in OwnKeys : k[2] >= position' => k[2] >= position
    BY OwnKey DEF BackfillInvariant, GroupState
  <2> QED
    BY <1>1, <2>1 DEF BackfillInvariant, NotYetRestored
<1>6. HeldAlertsFire'
  BY <1>1 DEF BackfillInvariant, HeldAlertsFire, inputs
<1>7. PendingTimeObserved'
  <2>1. \A k, m, q : LastRun(k, m, q)' = LastRun(k, m, q) /\ Steps(k, m, q)' = Steps(k, m, q)
    BY DEF LastRun, Steps, inputs
  <2>2. signal' = signal
    BY DEF inputs
  <2> QED
    BY <1>1, <1>2, <2>1, <2>2 DEF BackfillInvariant, PendingTimeObserved
<1> QED
  BY <1>3, <1>4, <1>5, <1>6, <1>7

LEMMA QuietSteps ==
  ASSUME BackfillInvariant,
         UNCHANGED <<inputs, restoration>>, now' \in Int, now <= now',
         pc' = pc \/ pc' \in {"running", "stopped"}
  PROVE  BackfillInvariant'
<1>1. GroupState'
  BY DEF BackfillInvariant, GroupState, inputs, restoration, OwnKeys
<1>2. \A k \in OwnKeys : Recreated(k)' => Recreated(k)
  BY DEF Recreated, DownstreamAnswers, inputs, restoration
<1>3. position' \in Nat /\ position <= position'
  BY DEF BackfillInvariant, GroupState, restoration
<1> QED
  BY <1>1, <1>2, <1>3, NothingRestored DEF BackfillInvariant, restoration

(* Before the first rule is restored there is little to say. *)
LEMMA EarlySteps ==
  ASSUME BackfillInvariant, Evaluate \/ RestoreForState \/ Querier
  PROVE  BackfillInvariant'
<1>1. /\ UNCHANGED inputs /\ now' = now /\ position' = position /\ position = 1
      /\ pc' \in {"evaluated", "opening", "restoring"}
      /\ ts' = ts \/ ts' = now
      /\ ruleValues' = <<>>
  BY DEF Evaluate, RestoreForState, Querier, BackfillInvariant, GroupState
<1>2. self \in GroupIds => 1 \in DOMAIN RulesOf(self)
  BY GroupsAssumption
<1>3. DOMAIN alerts' = OwnKeys
  BY DEF Evaluate, RestoreForState, Querier, BackfillInvariant, GroupState
<1>4. GroupState'
  BY <1>1, <1>2, <1>3 DEF BackfillInvariant, GroupState, inputs, OwnKeys
<1>5. \A k \in OwnKeys' : ~Recreated(k)'
  <2> TAKE k \in OwnKeys'
  <2>1. k[2] \in Nat \ {0} /\ position' = 1
    BY <1>1, AlertKey DEF OwnKeys
  <2> QED
    BY <2>1 DEF Recreated
<1>6. ResultsKept'
  BY <1>1 DEF ResultsKept
<1>7. \A k \in OwnKeys : k[2] >= position
  BY <1>1, OwnKey
<1>8. OwnKeys' = OwnKeys
  BY <1>1 DEF inputs, OwnKeys
<1>9. NotYetRestored'
  <2>1. CASE Evaluate
    <3>1. now \in Int /\ now >= Boot
      BY <2>1, GroupsAssumption DEF Evaluate, BackfillInvariant, GroupState
    <3>2. \A k \in OwnKeys : alerts'[k] = Evaluated(k)
      BY <2>1 DEF Evaluate
    <3>3. \A k \in OwnKeys : \A a \in DOMAIN alerts[k] : alerts[k][a] \in Int /\ alerts[k][a] >= Boot
      BY <1>7 DEF BackfillInvariant, NotYetRestored
    <3>4. \A k \in OwnKeys : \A a \in DOMAIN Evaluated(k) :
             Evaluated(k)[a] = IF a \in DOMAIN alerts[k] THEN alerts[k][a] ELSE now
      BY DEF Evaluated
    <3> QED
      BY <1>8, <3>1, <3>2, <3>3, <3>4 DEF NotYetRestored
  <2>2. CASE RestoreForState \/ Querier
    <3>1. alerts' = alerts
      BY <2>2 DEF RestoreForState, Querier
    <3> QED
      BY <1>1, <1>8, <3>1 DEF BackfillInvariant, NotYetRestored
  <2> QED
    BY <2>1, <2>2
<1> QED
  BY <1>4, <1>5, <1>6, <1>9
  DEF BackfillInvariant, ResultsUsed, HeldAlertsFire, PendingTimeObserved

(* A rule that is passed over has no alerts to recreate. *)
LEMMA RuleDoneState ==
  ASSUME GroupState, pc = "restoring", RuleDone, UNCHANGED <<inputs, now, ts>>,
         DOMAIN alerts' = DOMAIN alerts
  PROVE  GroupState'
<1>1. /\ position \in 1..Len(RulesOf(self)) /\ Len(RulesOf(self)) \in Nat
      /\ DOMAIN RulesOf(self) = 1..Len(RulesOf(self))
  BY GroupsAssumption DEF GroupState
<1>2. position' = position + 1 /\ position' \in Nat \ {0}
  BY <1>1 DEF RuleDone
<1>3. pc' = "restoring" => position' \in DOMAIN RulesOf(self)
  BY <1>1, <1>2 DEF RuleDone
<1>4. pc' \in {"restoring", "running"}
  BY DEF RuleDone
<1> QED
  BY <1>2, <1>3, <1>4 DEF GroupState, inputs, OwnKeys

LEMMA SkipRuleKeeps == ASSUME BackfillInvariant, SkipRule PROVE BackfillInvariant'
<1>1. GroupState'
  BY RuleDoneState DEF BackfillInvariant, SkipRule
<1>2. position \in Nat /\ position' = position + 1
  BY DEF BackfillInvariant, GroupState, SkipRule, RuleDone
<1>3. \A k \in OwnKeys : Recreated(k)' => Recreated(k)
  <2> SUFFICES ASSUME NEW k \in OwnKeys, Recreated(k)' PROVE Recreated(k)
    OBVIOUS
  <2>1. /\ k \in AlertKeys /\ k = <<self, k[2]>> /\ k[2] \in Nat
        /\ Rule(k).alerting /\ Rule(k).hold \in Nat /\ ForGracePeriod \in Nat
    BY OwnKey, AlertKey, BootAssumption
  <2>2. Rule(k).hold >= ForGracePeriod /\ k[2] < position + 1 /\ ~DownstreamAnswers
    BY <1>2 DEF Recreated, DownstreamAnswers, SkipRule, inputs
  <2>3. ~Skipped(k)
    BY <2>1, <2>2 DEF Skipped
  <2>4. k[2] # position
    BY <2>1, <2>3 DEF SkipRule
  <2>5. k[2] < position
    BY <1>2, <2>1, <2>2, <2>4
  <2> QED
    BY <2>2, <2>5 DEF Recreated
<1>4. now' \in Int /\ now <= now' /\ position' \in Nat /\ position <= position'
  BY <1>2 DEF BackfillInvariant, GroupState, SkipRule
<1> QED
  BY <1>1, <1>3, <1>4, NothingRestored DEF BackfillInvariant, SkipRule

(* FindGroupAndAlert finds at most one rule, and an alerting one. *)
LEMMA FoundOne ==
  ASSUME NEW k \in AlertKeys
  PROVE  /\ Found[k] \subseteq AlertKeys
         /\ \A f, g \in Found[k] : f = g
<1> DEFINE fitting == {j \in Keys : Fits(Rule(j), Rule(k).name, Rule(k).labels)}
<1>1. Found[k] = {j \in fitting : \A i \in fitting : ~Before(i, j)}
  BY DEF Found, FindGroupAndAlert
<1>2. fitting \subseteq AlertKeys
  BY DEF Fits, AlertKeys
<1> HIDE DEF fitting
<1>3. \A f \in fitting : f = <<f[1], f[2]>> /\ f[1] \in Nat /\ f[2] \in Nat
  BY <1>2, AlertKey, GroupsAssumption
<1>4. \A f, g \in fitting : ~Before(f, g) /\ ~Before(g, f) => f[1] = g[1] /\ f[2] = g[2]
  BY <1>3 DEF Before
<1>5. \A f, g \in fitting : ~Before(f, g) /\ ~Before(g, f) => f = g
  BY <1>3, <1>4
<1> QED
  BY <1>1, <1>2, <1>5

(* Select keeps every result there is and adds the one it needs. *)
LEMMA SelectKeeps == ASSUME BackfillInvariant, Select PROVE BackfillInvariant'
<1> DEFINE k0 == <<self, position>>
           new == {f \in Found[k0] : ~DownstreamAnswers /\ f \notin DOMAIN ruleValues}
           added(err) == [r \in new |-> [rule |-> CHOOSE f \in new : TRUE, at |-> now, err |-> err]]
<1>0. UNCHANGED <<inputs, now, ts>> /\ pc = "restoring" /\ ~Skipped(k0) /\ RuleDone
  BY DEF Select
<1>1. PICK err \in BOOLEAN :
        /\ ruleValues' = Over(ruleValues, added(err))
        /\ alerts' = [alerts EXCEPT ![k0] = RestoreAlerts(k0, Answer(k0, ruleValues'))]
  BY DEF Select, ResultKey
<1>2. k0 \in OwnKeys
  <2>1. self \in GroupIds /\ position \in DOMAIN RulesOf(self)
    BY <1>0 DEF BackfillInvariant, GroupState
  <2>2. k0 \in Keys /\ k0[1] = self
    BY <2>1 DEF Keys
  <2> QED
    BY <1>0, <2>2 DEF OwnKeys, AlertKeys, Skipped
<1>3. /\ position \in Nat /\ position' = position + 1
      /\ ts \in Int /\ now \in Int /\ ts <= now
      /\ DOMAIN alerts = OwnKeys
  BY <1>0 DEF BackfillInvariant, GroupState, RuleDone
<1>4. GroupState'
  BY <1>0, <1>1, RuleDoneState DEF BackfillInvariant
<1>5. /\ DOMAIN ruleValues' = DOMAIN ruleValues \cup new
      /\ \A r \in DOMAIN ruleValues : ruleValues'[r] = ruleValues[r]
      /\ \A r \in new : ruleValues'[r] = [rule |-> r, at |-> now, err |-> err]
  <2>1. DOMAIN added(err) = new
    OBVIOUS
  <2>2. \A r \in new : r \notin DOMAIN ruleValues /\ r = CHOOSE f \in new : TRUE
    BY <1>2, OwnKey, FoundOne
  <2>3. \A r \in new : added(err)[r] = [rule |-> r, at |-> now, err |-> err]
    BY <2>2
  <2> HIDE DEF added, new
  <2> QED
    BY <1>1, <2>1, <2>2, <2>3 DEF Over
<1>6. ResultsKept'
  <2>1. new \subseteq AlertKeys
    BY <1>2, OwnKey, FoundOne
  <2> HIDE DEF new
  <2> QED
    BY <1>0, <1>3, <1>5, <2>1 DEF BackfillInvariant, ResultsKept
<1>7. OwnKeys' = OwnKeys /\ Found' = Found /\ DownstreamAnswers' = DownstreamAnswers
  BY <1>0 DEF inputs, OwnKeys, Found, DownstreamAnswers
<1>8. \A k \in OwnKeys : Recreated(k)' => k = k0 \/ Recreated(k)
  <2> SUFFICES ASSUME NEW k \in OwnKeys, Recreated(k)', k # k0 PROVE Recreated(k)
    OBVIOUS
  <2>1. k = <<self, k[2]>> /\ k[2] \in Nat
    BY OwnKey
  <2>2. k[2] # position
    BY <2>1
  <2>3. k[2] < position + 1
    BY <1>3 DEF Recreated
  <2>4. k[2] < position
    BY <1>3, <2>1, <2>2, <2>3
  <2> QED
    BY <1>7, <2>4 DEF Recreated
<1>9. ResultsUsed'
  <2> SUFFICES ASSUME NEW k \in OwnKeys, Recreated(k)' PROVE Found[k] \subseteq DOMAIN ruleValues'
    BY <1>7 DEF ResultsUsed
  <2>1. CASE Recreated(k)
    BY <1>5, <2>1 DEF BackfillInvariant, ResultsUsed
  <2>2. CASE k = k0
    BY <1>5, <1>7, <2>2 DEF Recreated
  <2> QED
    BY <1>8, <2>1, <2>2
<1>10. HeldAlertsFire'
  <2> SUFFICES ASSUME NEW k \in OwnKeys, Recreated(k)', Found[k] = {k},
                      k \in DOMAIN ruleValues', ~ruleValues'[k].err,
                      NEW m \in DOMAIN signal[Rule(k).expr],
                      (ruleValues'[k].at - Rule(k).hold - Interval(k))..ruleValues'[k].at
                         \subseteq signal[Rule(k).expr][m],
                      \A n \in DOMAIN signal[Rule(k).expr] \ {m} :
                        AlertLabels(Rule(k), n) = AlertLabels(Rule(k), m) =>
                          signal[Rule(k).expr][n]
                            \cap ((ruleValues'[k].at - Rule(k).hold - Interval(k))..ruleValues'[k].at) = {},
                      AlertLabels(Rule(k), m) \in DOMAIN alerts'[k]
               PROVE  alerts'[k][AlertLabels(Rule(k), m)] + Rule(k).hold <= ruleValues'[k].at
    BY <1>0, <1>7 DEF HeldAlertsFire, ResultKey, inputs
  <2> DEFINE q == ruleValues'[k].at
  <2>1. CASE k # k0
    <3>1. Recreated(k) /\ k \in DOMAIN ruleValues
      BY <1>8, <2>1 DEF BackfillInvariant, ResultsUsed
    <3>2. ruleValues'[k] = ruleValues[k] /\ alerts'[k] = alerts[k]
      BY <1>1, <1>3, <1>5, <2>1, <3>1
    <3> QED
      BY <3>1, <3>2 DEF BackfillInvariant, HeldAlertsFire, ResultKey
  <2>2. CASE k = k0
    <3>1. k \in AlertKeys /\ q \in Int /\ ruleValues'[k].rule = k
      BY <1>0, <1>3, <1>6 DEF ResultsKept
    <3>2. alerts'[k] = RestoreAlerts(k, Answer(k, ruleValues'))
      BY <1>1, <1>2, <1>3, <2>2
    <3>3. DOMAIN alerts'[k] = DOMAIN alerts[k]
      BY <3>2 DEF RestoreAlerts
    <3>4. ~DownstreamAnswers
      BY <1>7 DEF Recreated
    <3>5. Answer(k, ruleValues')
            = GenerateAlertStateMatrix(QueryRange(k, q), Rule(k).labels, Rule(k), Interval(k))
      BY <3>1, <3>4 DEF Answer, ResultKey
    <3> HIDE DEF q
    <3> QED
      BY <3>1, <3>2, <3>3, <3>5, HeldIsRestored DEF q
  <2> QED
    BY <2>1, <2>2
<1>11. NotYetRestored'
  <2> SUFFICES ASSUME NEW k \in OwnKeys, k[2] >= position'
               PROVE  alerts'[k] = alerts[k] /\ k[2] >= position
    BY <1>7 DEF BackfillInvariant, NotYetRestored
  <2>1. k[2] > position /\ k # k0
    BY <1>3, OwnKey
  <2> QED
    BY <1>1, <1>3, <2>1, OwnKey
<1>12. PendingTimeObserved'
  <2>1. /\ signal' = signal /\ now' = now /\ ts' = ts
        /\ \A k, m, q : LastRun(k, m, q)' = LastRun(k, m, q) /\ Steps(k, m, q)' = Steps(k, m, q)
    BY <1>0 DEF LastRun, Steps, inputs
  <2> SUFFICES ASSUME NEW k \in OwnKeys, Recreated(k)',
                      NEW a \in DOMAIN alerts'[k], alerts'[k][a] < Boot
               PROVE  \E j \in AlertKeys, q \in ts..now :
                        /\ Rule(j).name = Rule(k).name
                        /\ \E m \in DOMAIN signal[Rule(j).expr] :
                             /\ AlertLabels(Rule(j), m) = a
                             /\ Steps(j, m, q) # {}
                             /\ Min({Rule(k).hold, ts - alerts'[k][a]})
                                  < Span(LastRun(j, m, q)) + TicksPerSecond
    BY <1>7, <2>1 DEF PendingTimeObserved
  <2>2. CASE k # k0
    <3>1. Recreated(k) /\ alerts'[k] = alerts[k]
      BY <1>1, <1>3, <1>8, <2>2
    <3> QED
      BY <3>1 DEF BackfillInvariant, PendingTimeObserved
  <2>3. CASE k = k0
    <3> DEFINE answer == Answer(k, ruleValues')
               restored == {RestoredActiveAt(k, s) : s \in {r \in answer : r.labels = a}}
    <3>1. k \in AlertKeys /\ k[2] >= position /\ k \in DOMAIN alerts
      BY <1>3, <2>3, OwnKey
    <3>2. alerts'[k] = RestoreAlerts(k, answer) /\ a \in DOMAIN alerts[k]
      BY <1>1, <2>3, <3>1 DEF RestoreAlerts
    <3>3. alerts'[k][a] = CHOOSE t \in IF restored = {} THEN {alerts[k][a]} ELSE restored : TRUE
      BY <3>2 DEF RestoreAlerts
    <3>4. alerts[k][a] \in Int /\ ~(alerts[k][a] < Boot)
      BY <3>1, <3>2, GroupsAssumption DEF BackfillInvariant, NotYetRestored
    <3>5. restored # {} /\ alerts'[k][a] \in restored
      <4> HIDE DEF restored
      <4>1. restored # {}
        BY <3>3, <3>4
      <4> QED
        BY <3>3, <4>1
    <3>6. PICK s \in answer : s.labels = a /\ alerts'[k][a] = RestoredActiveAt(k, s)
      BY <3>5
    <3>7. ~DownstreamAnswers
      BY <1>7 DEF Recreated
    <3>8. PICK j \in Found[k] :
            s \in GenerateAlertStateMatrix(QueryRange(ruleValues'[j].rule, ruleValues'[j].at),
                                           Rule(k).labels, Rule(j), Interval(j))
      BY <3>6, <3>7 DEF Answer, ResultKey
    <3> DEFINE q == ruleValues'[j].at
    <3>9. j \in AlertKeys /\ ruleValues'[j].rule = j /\ q \in ts..now
      BY <1>6, <1>7, <1>9, <2>1 DEF ResultsKept, ResultsUsed
    <3>10. Rule(j).name = Rule(k).name
      BY <3>1 DEF Found, FindGroupAndAlert, Fits
    <3> HIDE DEF q
    <3>11. PICK m \in DOMAIN QueryRange(j, q) :
             /\ QueryRange(j, q)[m] # {}
             /\ s = [labels |-> AlertLabels(Rule(j), m), times |-> QueryRange(j, q)[m],
                     values |-> ActiveAts(QueryRange(j, q)[m], Interval(j))]
      BY <3>8, <3>9 DEF GenerateAlertStateMatrix, q
    <3>12. m \in DOMAIN signal[Rule(j).expr] /\ QueryRange(j, q)[m] = Steps(j, m, q)
      BY DEF QueryRange, Steps
    <3>13. Steps(j, m, q) # {} /\ AlertLabels(Rule(j), m) = a
      BY <3>6, <3>11, <3>12
    <3>14. Min({Rule(k).hold, ts - RestoredActiveAt(k, s)}) < Span(LastRun(j, m, q)) + TicksPerSecond
      <4>1. q \in Int
        BY <1>3, <3>9
      <4>2. s.times = Steps(j, m, q) /\ s.values = ActiveAts(Steps(j, m, q), Interval(j))
        BY <3>11, <3>12
      <4> QED
        BY <1>3, <3>1, <3>9, <3>13, <4>1, <4>2, CreditedWithRun
    <3> QED
      BY <3>6, <3>9, <3>10, <3>12, <3>13, <3>14
  <2> QED
    BY <2>2, <2>3
<1> QED
  BY <1>4, <1>6, <1>9, <1>10, <1>11, <1>12 DEF BackfillInvariant

-----------------------------------------------------------------------------
(* What the group knows of its rules and their results holds at every step *)
(* of a restoration, whatever the rules and their expressions are.         *)
THEOREM BackfillInvariance == Spec => []BackfillInvariant
<1>1. Init => BackfillInvariant
  BY BackfillInit
<1>2. BackfillInvariant /\ [Next]_vars => BackfillInvariant'
  <2> SUFFICES ASSUME BackfillInvariant, [Next]_vars PROVE BackfillInvariant'
    OBVIOUS
  <2>0. now \in Int
    BY DEF BackfillInvariant, GroupState
  <2>1. CASE Tick
    BY <2>0, <2>1, QuietSteps DEF Tick
  <2>2. CASE Evaluate \/ RestoreForState \/ Querier
    BY <2>2, EarlySteps
  <2>3. CASE SkipRule
    BY <2>3, SkipRuleKeeps
  <2>4. CASE Select
    BY <2>4, SelectKeeps
  <2>5. CASE Stops
    BY <2>0, <2>5, QuietSteps DEF Stops
  <2>6. CASE Update
    BY <2>0, <2>6, QuietSteps DEF Update
  <2>7. CASE Stop
    BY <2>0, <2>7, QuietSteps DEF Stop
  <2>8. CASE UpdateDone
    BY <2>0, <2>8, QuietSteps DEF UpdateDone
  <2>9. CASE StopDone
    BY <2>0, <2>9, QuietSteps DEF StopDone
  <2>10. CASE UNCHANGED vars
    BY <2>0, <2>10, QuietSteps DEF vars
  <2> QED
    BY <2>1, <2>2, <2>3, <2>4, <2>5, <2>6, <2>7, <2>8, <2>9, <2>10 DEF Next, GroupStep
<1> QED
  BY <1>1, <1>2, PTL DEF Spec

(* No alert is credited with more waiting time than was observed           *)
(* (alertstate.go:39-63, rule.go:37-82), for every pattern of gaps: the    *)
(* loop of GenerateAlertStateMatrix and Prometheus' three ways to restore  *)
(* agree with the last unbroken run of the series.                         *)
THEOREM CreditIsObserved == Spec => []PendingTimeObserved
<1>1. BackfillInvariant => PendingTimeObserved
  BY DEF BackfillInvariant
<1> QED
  BY <1>1, BackfillInvariance, PTL

(* An alert whose expression held through the whole window of its rule     *)
(* fires at the next evaluation after a restart (backfill.go:96-149),      *)
(* for every window length, interval and clock.                            *)
THEOREM HeldAlertsKeepFiring == Spec => []HeldAlertsFire
<1>1. BackfillInvariant => HeldAlertsFire
  BY DEF BackfillInvariant
<1> QED
  BY <1>1, BackfillInvariance, PTL
=============================================================================
