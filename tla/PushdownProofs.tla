--------------------------- MODULE PushdownProofs ---------------------------
(***************************************************************************)
(* Proofs about Pushdown for every set of groups and every case: that the  *)
(* aggregations sent to the groups can be recombined, also with an         *)
(* operator and a literal, that recognised histogram queries are left      *)
(* alone, and that plain queries (a selector or a function over its range, *)
(* one aggregation over either, an operator with a literal over a selector *)
(* or an aggregation) get the exact answer.                                *)
(***************************************************************************)
EXTENDS Pushdown, FiniteSetTheorems, SequenceTheorems, WellFoundedInduction, TLAPS

(* The recursion of Eval. *)
Evaluates(val, tree0, series) ==
  val = [p \in DOMAIN tree0 |-> [u \in 0..Horizon |-> ValueOf(tree0, series, val, p, u)]]

(* Eval is the root of a function that satisfies its recursion, if there is one. *)
LEMMA EvalBy ==
  ASSUME NEW tree0, NEW series, NEW t, NEW g, Evaluates(g, tree0, series)
  PROVE  \E val : Evaluates(val, tree0, series) /\ Eval(tree0, series, t) = val[<<>>][t]
<1> DEFINE F == CHOOSE f : Evaluates(f, tree0, series)
<1>1. Evaluates(F, tree0, series)
  OBVIOUS
<1>2. Eval(tree0, series, t) = F[<<>>][t]
  BY DEF Eval, Evaluates
<1> QED
  BY <1>1, <1>2

(* What the recursion says of one node. *)
LEMMA EvaluatesAt ==
  ASSUME NEW val, NEW tree0, NEW series, Evaluates(val, tree0, series),
         NEW p \in DOMAIN tree0, NEW u \in 0..Horizon
  PROVE  val[p][u] = ValueOf(tree0, series, val, p, u)
<1> DEFINE V(q) == [w \in 0..Horizon |-> ValueOf(tree0, series, val, q, w)]
<1>1. val = [q \in DOMAIN tree0 |-> V(q)]
  BY DEF Evaluates
<1> HIDE DEF V
<1>2. val[p] = V(p)
  BY <1>1
<1> QED
  BY <1>2 DEF V

---------------------------------------------------------------------------
(* Labels and groups.                                                      *)

IsFunction(f) == f = [x \in DOMAIN f |-> f[x]]
IsLabelSet(l) == IsFunction(l) /\ "sg" \notin DOMAIN l
LabelSets(X) == \A g \in Groups : \A m \in DOMAIN X[g] : IsLabelSet(m)
Presented(X, l, g, m) == g \in Groups /\ m \in DOMAIN X[g] /\ l = Label(g, m)

(* The label of the group can be read, and taken off again. *)
LEMMA Unlabelled ==
  ASSUME NEW g, NEW m, IsLabelSet(m)
  PROVE  /\ Label(g, m)["sg"] = g
         /\ Restrict(Label(g, m), DOMAIN Label(g, m) \ {"sg"}) = m
BY DEF IsLabelSet, IsFunction, Label, Restrict

(* No two groups have a series in common, and no group has one twice. *)
LEMMA LabelOnce ==
  ASSUME NEW g, NEW m, IsLabelSet(m), NEW h, NEW n, IsLabelSet(n), Label(g, m) = Label(h, n)
  PROVE  g = h /\ m = n
<1>1. /\ g = Label(g, m)["sg"] /\ h = Label(h, n)["sg"]
      /\ m = Restrict(Label(g, m), DOMAIN Label(g, m) \ {"sg"})
      /\ n = Restrict(Label(h, n), DOMAIN Label(h, n) \ {"sg"})
  BY Unlabelled
<1> QED
  BY <1>1

(* A group's vector with the label of the group. *)
LEMMA AddLabelsAt ==
  ASSUME NEW g, NEW vec, \A m \in DOMAIN vec : IsLabelSet(m)
  PROVE  /\ DOMAIN AddLabels(g, vec) = {Label(g, m) : m \in DOMAIN vec}
         /\ \A m \in DOMAIN vec : AddLabels(g, vec)[Label(g, m)] = vec[m]
BY Unlabelled DEF AddLabels

(* The vector of all groups: every group's series, labelled, with its value. *)
LEMMA AllGroupsAt ==
  ASSUME NEW X, LabelSets(X)
  PROVE  /\ IsFunction(AllGroups(X))
         /\ \A l : l \in DOMAIN AllGroups(X) <=> \E g, m : Presented(X, l, g, m)
         /\ \A g \in Groups : \A m \in DOMAIN X[g] :
              Label(g, m) \in DOMAIN AllGroups(X) /\ AllGroups(X)[Label(g, m)] = X[g][m]
<1> DEFINE labelled == [g \in Groups |-> AddLabels(g, X[g])]
           D == UNION {DOMAIN labelled[g] : g \in Groups}
<1>1. AllGroups(X) = [l \in D |-> labelled[l["sg"]][l]]
  BY DEF AllGroups
<1>2. \A g \in Groups : /\ DOMAIN labelled[g] = {Label(g, m) : m \in DOMAIN X[g]}
                         /\ \A m \in DOMAIN X[g] : labelled[g][Label(g, m)] = X[g][m]
  <2> TAKE g \in Groups
  <2>1. labelled[g] = AddLabels(g, X[g]) /\ \A m \in DOMAIN X[g] : IsLabelSet(m)
    BY DEF LabelSets
  <2> HIDE DEF labelled
  <2>2. /\ DOMAIN AddLabels(g, X[g]) = {Label(g, m) : m \in DOMAIN X[g]}
        /\ \A m \in DOMAIN X[g] : AddLabels(g, X[g])[Label(g, m)] = X[g][m]
    BY <2>1, AddLabelsAt, Zenon
  <2> QED
    BY <2>1, <2>2
<1> HIDE DEF labelled
<1>3. \A l : l \in D <=> \E g, m : Presented(X, l, g, m)
  BY <1>2 DEF Presented
<1>4. \A g \in Groups : \A m \in DOMAIN X[g] : Label(g, m) \in D /\ Label(g, m)["sg"] = g
  <2>1. ASSUME NEW g \in Groups, NEW m \in DOMAIN X[g] PROVE Label(g, m) \in D
    BY <1>2
  <2>2. ASSUME NEW g \in Groups, NEW m \in DOMAIN X[g] PROVE Label(g, m)["sg"] = g
    <3>1. IsLabelSet(m)
      BY DEF LabelSets
    <3> QED
      BY <3>1, Unlabelled
  <2> QED
    BY <2>1, <2>2
<1> HIDE DEF D
<1> QED
  BY <1>1, <1>2, <1>3, <1>4 DEF IsFunction

(* A function that has the answers of the groups is AllGroups. *)
LEMMA AllGroupsIs ==
  ASSUME NEW X, LabelSets(X), NEW F, IsFunction(F),
         \A l : l \in DOMAIN F <=> \E g, m : Presented(X, l, g, m),
         \A g \in Groups : \A m \in DOMAIN X[g] : F[Label(g, m)] = X[g][m]
  PROVE  F = AllGroups(X)
<1>1. DOMAIN F = DOMAIN AllGroups(X)
  BY AllGroupsAt
<1>2. \A l \in DOMAIN F : F[l] = AllGroups(X)[l]
  BY AllGroupsAt DEF Presented
<1> QED
  BY <1>1, <1>2, AllGroupsAt, Zenon DEF IsFunction

(* A selector reads every series by itself. *)
LEMMA SelectByGroup ==
  ASSUME NEW X, LabelSets(X), NEW ref
  PROVE  /\ LabelSets([g \in Groups |-> SelectAt(X[g], ref)])
         /\ SelectAt(AllGroups(X), ref) = AllGroups([g \in Groups |-> SelectAt(X[g], ref)])
<1> DEFINE Y == [g \in Groups |-> SelectAt(X[g], ref)]
           F == SelectAt(AllGroups(X), ref)
<1>1. \A g \in Groups : /\ DOMAIN Y[g] = {m \in DOMAIN X[g] : Visible(X[g][m], ref)}
                         /\ \A m \in DOMAIN Y[g] : Y[g][m] = Latest(X[g][m], ref)
  BY DEF SelectAt
<1>2. /\ DOMAIN F = {l \in DOMAIN AllGroups(X) : Visible(AllGroups(X)[l], ref)}
      /\ \A l \in DOMAIN F : F[l] = Latest(AllGroups(X)[l], ref)
      /\ IsFunction(F)
  BY DEF SelectAt, IsFunction
<1> HIDE DEF Y, F
<1>3. LabelSets(Y)
  BY <1>1 DEF LabelSets
<1>4. \A l : l \in DOMAIN F <=> \E g, m : Presented(Y, l, g, m)
  BY <1>1, <1>2, AllGroupsAt DEF Presented
<1>5. \A g \in Groups : \A m \in DOMAIN Y[g] : F[Label(g, m)] = Y[g][m]
  BY <1>1, <1>2, AllGroupsAt
<1>6. F = AllGroups(Y)
  <2>1. IsFunction(F)
    BY <1>2
  <2> QED
    BY <1>3, <1>4, <1>5, <2>1, AllGroupsIs
<1> QED
  BY <1>3, <1>6 DEF Y, F
---------------------------------------------------------------------------
(* Aggregations.                                                           *)

(* Every non-empty set of numbers has a least one. *)
LEMMA Least ==
  ASSUME NEW S \in SUBSET Nat, NEW n \in S
  PROVE  \E m \in S : \A k \in S : m <= k
<1>1. PICK m \in S : \A k \in Nat : <<k, m>> \in OpToRel(<, Nat) => k \notin S
  BY NatLessThanWellFounded, WFMin, Zenon
<1>2. \A k \in S : ~(k < m)
  BY <1>1 DEF OpToRel
<1> QED
  BY <1>2

(* The greatest element is the maximum. *)
LEMMA MaxIs ==
  ASSUME NEW S \in SUBSET Int, NEW x \in S, \A y \in S : y <= x
  PROVE  Max(S) = x
<1>1. \A y \in S : x >= y
  OBVIOUS
<1>2. Max(S) \in S /\ \A y \in S : Max(S) >= y
  BY <1>1, Zenon DEF Max
<1>3. x >= Max(S) /\ Max(S) >= x /\ Max(S) \in Int /\ x \in Int
  BY <1>1, <1>2
<1> QED
  BY <1>3

(* The least element is the minimum. *)
LEMMA MinIs ==
  ASSUME NEW S \in SUBSET Int, NEW x \in S, \A y \in S : x <= y
  PROVE  Min(S) = x
<1>1. Min(S) \in S /\ \A y \in S : Min(S) =< y
  BY Zenon DEF Min
<1>2. x <= Min(S) /\ Min(S) <= x /\ Min(S) \in Int /\ x \in Int
  BY <1>1
<1> QED
  BY <1>2

(* The image of a finite set is finite. *)
LEMMA FiniteImage ==
  ASSUME NEW f, IsFiniteSet(DOMAIN f)
  PROVE  IsFiniteSet({f[x] : x \in DOMAIN f})
<1> DEFINE T == {f[x] : x \in DOMAIN f}
           h == [x \in DOMAIN f |-> f[x]]
<1>1. h \in Surjection(DOMAIN f, T)
  BY DEF Surjection
<1> HIDE DEF h, T
<1>2. IsFiniteSet(T)
  BY <1>1, FS_Surjection
<1> QED
  BY <1>2 DEF T

(* A finite set of integers has a greatest one: the one with the fewest
   above it. *)
LEMMA FiniteMax ==
  ASSUME NEW S \in SUBSET Int, IsFiniteSet(S), S # {}
  PROVE  Max(S) \in S /\ \A y \in S : y <= Max(S)
<1> DEFINE above == [x \in S |-> {y \in S : y > x}]
           Counts == {Cardinality(above[x]) : x \in S}
<1>1. \A x \in S : /\ above[x] = {y \in S : y > x}
                   /\ IsFiniteSet(above[x]) /\ Cardinality(above[x]) \in Nat
  BY FS_Subset, FS_CardinalityType
<1> HIDE DEF above
<1>2. PICK x \in S : \A y \in S : Cardinality(above[x]) <= Cardinality(above[y])
  <2>1. Counts \in SUBSET Nat /\ Counts # {}
    BY <1>1
  <2>2. PICK m \in Counts : \A k \in Counts : m <= k
    BY <2>1, Least
  <2> QED
    BY <2>2
<1>3. ASSUME NEW y \in S, y > x PROVE FALSE
  <2>0. x \in Int /\ y \in Int /\ \A z \in S : z \in Int
    OBVIOUS
  <2>1. above[y] \subseteq above[x] /\ y \in above[x] /\ y \notin above[y]
    <3>1. \A z \in S : z > y => z > x
      BY <2>0, <1>3
    <3>2. ~(y > y)
      BY <2>0
    <3> QED
      BY <1>1, <1>3, <3>1, <3>2
  <2>2. Cardinality(above[y]) <= Cardinality(above[x]) /\ Cardinality(above[x]) # Cardinality(above[y])
    BY <1>1, <2>1, FS_Subset
  <2>3. Cardinality(above[x]) <= Cardinality(above[y])
    BY <1>2
  <2>4. Cardinality(above[x]) \in Nat /\ Cardinality(above[y]) \in Nat
    BY <1>1
  <2> QED
    BY <2>2, <2>3, <2>4
<1>4. \A y \in S : y <= x
  BY <1>3
<1> QED
  BY <1>4, MaxIs

(* The same for the least one, by the opposite numbers. *)
LEMMA FiniteMin ==
  ASSUME NEW S \in SUBSET Int, IsFiniteSet(S), S # {}
  PROVE  Min(S) \in S /\ \A y \in S : Min(S) <= y
<1> DEFINE f == [x \in S |-> -x]
           N == {f[x] : x \in DOMAIN f}
<1>1. IsFiniteSet(N)
  BY FiniteImage
<1>2. N = {-x : x \in S}
  OBVIOUS
<1>2a. \A x \in S : -x \in Int
  OBVIOUS
<1> HIDE DEF f, N
<1>2b. N \in SUBSET Int /\ N # {}
  BY <1>2, <1>2a
<1>3. Max(N) \in N /\ \A y \in N : y <= Max(N)
  BY <1>1, <1>2b, FiniteMax
<1>4. PICK x \in S : Max(N) = -x
  BY <1>2, <1>3
<1>5. ASSUME NEW y \in S PROVE x <= y
  <2>1. x \in Int /\ y \in Int /\ -y \in N
    BY <1>2
  <2>2. -y <= -x
    BY <1>3, <1>4, <2>1
  <2> QED
    BY <2>1, <2>2
<1> QED
  BY <1>5, MinIs

(* A grouping key is a label set without the label of the group. *)
LEMMA KeyOfLabelSet ==
  ASSUME NEW node, NEW m, IsLabelSet(m)
  PROVE  IsLabelSet(GroupKey(node, m))
BY DEF IsLabelSet, IsFunction, GroupKey, Restrict

(* What an aggregation drops inside a group it also drops outside. *)
LEMMA KeyOfKey ==
  ASSUME NEW node, NEW g, NEW m, IsLabelSet(m)
  PROVE  GroupKey(node, Label(g, GroupKey(node, m))) = GroupKey(node, Label(g, m))
BY DEF IsLabelSet, IsFunction, GroupKey, Restrict, Label

(* Finitely many groups have finitely many series. *)
LEMMA AllGroupsFinite ==
  ASSUME NEW X, LabelSets(X), IsFiniteSet(Groups), \A g \in Groups : IsFiniteSet(DOMAIN X[g])
  PROVE  IsFiniteSet(DOMAIN AllGroups(X))
<1> DEFINE L(g) == [m \in DOMAIN X[g] |-> Label(g, m)]
           P == [g \in Groups |-> {Label(g, m) : m \in DOMAIN X[g]}]
           D == {P[g] : g \in DOMAIN P}
<1>1. \A g \in Groups : IsFiniteSet(P[g])
  <2> TAKE g \in Groups
  <2>1. DOMAIN L(g) = DOMAIN X[g] /\ {L(g)[m] : m \in DOMAIN L(g)} = P[g]
    OBVIOUS
  <2> HIDE DEF L, P
  <2> QED
    BY <2>1, FiniteImage
<1>2. IsFiniteSet(D)
  BY FiniteImage
<1>3. IsFiniteSet(UNION D)
  BY <1>1, <1>2, FS_UNION
<1>4. \A l : l \in UNION D <=> \E g, m : Presented(X, l, g, m)
  BY DEF Presented
<1>5. DOMAIN AllGroups(X) = UNION D
  <2> HIDE DEF D
  <2> QED
    BY <1>4, AllGroupsAt
<1> QED
  BY <1>3, <1>5

(* The groups' vectors: finitely many series, with numbers for values. *)
Vectors(V) ==
  /\ LabelSets(V) /\ IsFiniteSet(Groups)
  /\ \A g \in Groups : /\ IsFiniteSet(DOMAIN V[g])
                       /\ \A m \in DOMAIN V[g] : V[g][m].k = "float" /\ V[g][m].v \in Int

Members(node, vec, key) == {l \in DOMAIN vec : GroupKey(node, l) = key}
Numbers(vec, S) == {vec[l].v : l \in S}
EachGroup(node, V) == [g \in Groups |-> AggregateOf(node, V[g])]
KeyedOps == {"sum", "min", "max", "group", "count", "avg", "stdvar"}
SameGrouping(outer, node) == outer.without = node.without /\ outer.grouping = node.grouping

(* An aggregation has one value for every key, over at least one member. *)
LEMMA KeyedAggregate ==
  ASSUME NEW node, node.op \in KeyedOps, NEW vec
  PROVE  /\ IsFunction(AggregateOf(node, vec))
         /\ DOMAIN AggregateOf(node, vec) = {GroupKey(node, l) : l \in DOMAIN vec}
         /\ \A k \in DOMAIN AggregateOf(node, vec) :
              /\ AggregateOf(node, vec)[k] = Combine(node.op, vec, Members(node, vec, k))
              /\ Members(node, vec, k) # {}
              /\ Members(node, vec, k) \subseteq DOMAIN vec
<1> DEFINE F == [k \in {GroupKey(node, l) : l \in DOMAIN vec} |->
                   Combine(node.op, vec, {l \in DOMAIN vec : GroupKey(node, l) = k})]
<1>1. ~(node.op \in {"topk", "bottomk"}) /\ ~(node.op = "count_values")
  BY DEF KeyedOps
<1>2. AggregateOf(node, vec) = F
  BY <1>1, Zenon DEF AggregateOf
<1>3. /\ IsFunction(F)
      /\ DOMAIN F = {GroupKey(node, l) : l \in DOMAIN vec}
      /\ \A k \in DOMAIN F :
           /\ F[k] = Combine(node.op, vec, Members(node, vec, k))
           /\ Members(node, vec, k) # {}
           /\ Members(node, vec, k) \subseteq DOMAIN vec
  BY DEF IsFunction, Members
<1> QED
  BY <1>2, <1>3

(* The aggregations of the groups. *)
LEMMA EachGroupAt ==
  ASSUME NEW node, node.op \in KeyedOps, NEW V, LabelSets(V)
  PROVE  /\ LabelSets(EachGroup(node, V))
         /\ \A g \in Groups :
              /\ DOMAIN EachGroup(node, V)[g] = {GroupKey(node, l) : l \in DOMAIN V[g]}
              /\ \A k \in DOMAIN EachGroup(node, V)[g] :
                   /\ EachGroup(node, V)[g][k] = Combine(node.op, V[g], Members(node, V[g], k))
                   /\ Members(node, V[g], k) # {}
                   /\ Members(node, V[g], k) \subseteq DOMAIN V[g]
<1>1. \A g \in Groups : EachGroup(node, V)[g] = AggregateOf(node, V[g])
  BY DEF EachGroup
<1>2. \A g \in Groups :
        /\ DOMAIN EachGroup(node, V)[g] = {GroupKey(node, l) : l \in DOMAIN V[g]}
        /\ \A k \in DOMAIN EachGroup(node, V)[g] :
             /\ EachGroup(node, V)[g][k] = Combine(node.op, V[g], Members(node, V[g], k))
             /\ Members(node, V[g], k) # {}
             /\ Members(node, V[g], k) \subseteq DOMAIN V[g]
  <2> TAKE g \in Groups
  <2> QED
    BY <1>1, KeyedAggregate, Zenon
<1>3. LabelSets(EachGroup(node, V))
  BY <1>2, KeyOfLabelSet DEF LabelSets
<1> QED
  BY <1>2, <1>3

(* The members of a group of the aggregation over all series, and those of
   the aggregation over what the server groups aggregated. *)
LEMMA MembersMeet ==
  ASSUME NEW node, node.op \in KeyedOps, NEW V, LabelSets(V),
         NEW outer, SameGrouping(outer, node), NEW g \in Groups, NEW m \in DOMAIN V[g]
  PROVE  /\ GroupKey(outer, Label(g, GroupKey(node, m))) = GroupKey(node, Label(g, m))
         /\ GroupKey(node, m) \in DOMAIN EachGroup(node, V)[g]
         /\ m \in Members(node, V[g], GroupKey(node, m))
<1>1. IsLabelSet(m)
  BY DEF LabelSets
<1>2. \A l : GroupKey(outer, l) = GroupKey(node, l)
  BY DEF SameGrouping, GroupKey
<1>3. GroupKey(node, Label(g, GroupKey(node, m))) = GroupKey(node, Label(g, m))
  BY <1>1, KeyOfKey
<1>4. GroupKey(node, m) \in DOMAIN EachGroup(node, V)[g]
  BY EachGroupAt
<1> QED
  BY <1>2, <1>3, <1>4 DEF Members

(* The aggregation over the groups' aggregations has the keys of the one over
   all series. *)
LEMMA KeysMeet ==
  ASSUME NEW node, node.op \in KeyedOps, NEW V, LabelSets(V),
         NEW outer, SameGrouping(outer, node), outer.op \in KeyedOps
  PROVE  DOMAIN AggregateOf(outer, AllGroups(EachGroup(node, V))) = DOMAIN AggregateOf(node, AllGroups(V))
<1> DEFINE A == EachGroup(node, V)
<1>1. LabelSets(A)
  BY EachGroupAt
<1>2. DOMAIN AggregateOf(outer, AllGroups(A)) = {GroupKey(outer, l) : l \in DOMAIN AllGroups(A)}
  BY KeyedAggregate, Zenon
<1>3. DOMAIN AggregateOf(node, AllGroups(V)) = {GroupKey(node, l) : l \in DOMAIN AllGroups(V)}
  BY KeyedAggregate, Zenon
<1>4. ASSUME NEW l \in DOMAIN AllGroups(A)
      PROVE  \E q \in DOMAIN AllGroups(V) : GroupKey(node, q) = GroupKey(outer, l)
  <2>1. PICK g, k : Presented(A, l, g, k)
    BY <1>1, AllGroupsAt
  <2>2. PICK m \in DOMAIN V[g] : k = GroupKey(node, m)
    BY <2>1, EachGroupAt DEF Presented
  <2>3. Label(g, m) \in DOMAIN AllGroups(V)
    BY <2>1, AllGroupsAt DEF Presented
  <2> QED
    BY <2>1, <2>2, <2>3, MembersMeet DEF Presented
<1>5. ASSUME NEW l \in DOMAIN AllGroups(V)
      PROVE  \E q \in DOMAIN AllGroups(A) : GroupKey(outer, q) = GroupKey(node, l)
  <2>1. PICK g, m : Presented(V, l, g, m)
    BY AllGroupsAt
  <2>2. GroupKey(node, m) \in DOMAIN A[g] /\ GroupKey(outer, Label(g, GroupKey(node, m))) = GroupKey(node, Label(g, m))
    BY <2>1, MembersMeet DEF Presented
  <2>3. Label(g, GroupKey(node, m)) \in DOMAIN AllGroups(A)
    BY <1>1, <2>1, <2>2, AllGroupsAt DEF Presented
  <2> QED
    BY <2>1, <2>2, <2>3 DEF Presented
<1> QED
  BY <1>2, <1>3, <1>4, <1>5

(* The aggregations that do not add up. *)
LEMMA CombineIs ==
  ASSUME NEW vec, NEW S
  PROVE  /\ Combine("max", vec, S) = Float(Max(Numbers(vec, S)))
         /\ Combine("min", vec, S) = Float(Min(Numbers(vec, S)))
         /\ Combine("group", vec, S) = Float(1)
         /\ Combine("count", vec, S) = Float(Cardinality(S))
BY Zenon DEF Combine, Numbers

(* The values of some of the series of a finite vector. *)
LEMMA NumbersFinite ==
  ASSUME NEW vec, IsFiniteSet(DOMAIN vec), \A l \in DOMAIN vec : vec[l].v \in Int,
         NEW S \in SUBSET DOMAIN vec, S # {}
  PROVE  Numbers(vec, S) \in SUBSET Int /\ IsFiniteSet(Numbers(vec, S)) /\ Numbers(vec, S) # {}
<1> DEFINE f == [l \in S |-> vec[l].v]
<1>1. IsFiniteSet(DOMAIN f)
  BY FS_Subset
<1>2. Numbers(vec, S) = {f[l] : l \in DOMAIN f}
  BY DEF Numbers
<1> HIDE DEF f
<1>3. IsFiniteSet(Numbers(vec, S))
  BY <1>1, <1>2, FiniteImage
<1> QED
  BY <1>3 DEF Numbers

(* A part that has, for every number, one at least as great. *)
LEMMA SameMax ==
  ASSUME NEW B \in SUBSET Int, IsFiniteSet(B), B # {}, NEW A \in SUBSET B,
         \A b \in B : \E a \in A : b <= a
  PROVE  Max(A) = Max(B)
<1>1. Max(B) \in B /\ \A b \in B : b <= Max(B)
  BY FiniteMax
<1>2. PICK a \in A : Max(B) <= a
  BY <1>1
<1>3. a \in Int /\ Max(B) \in Int /\ a <= Max(B)
  BY <1>1
<1>4. a = Max(B)
  BY <1>2, <1>3
<1> QED
  BY <1>1, <1>4, MaxIs

(* A part that has, for every number, one at least as small. *)
LEMMA SameMin ==
  ASSUME NEW B \in SUBSET Int, IsFiniteSet(B), B # {}, NEW A \in SUBSET B,
         \A b \in B : \E a \in A : a <= b
  PROVE  Min(A) = Min(B)
<1>1. Min(B) \in B /\ \A b \in B : Min(B) <= b
  BY FiniteMin
<1>2. PICK a \in A : a <= Min(B)
  BY <1>1
<1>3. a \in Int /\ Min(B) \in Int /\ Min(B) <= a
  BY <1>1
<1>4. a = Min(B)
  BY <1>2, <1>3
<1> QED
  BY <1>1, <1>4, MinIs

(* The members of a group over all series are finite in number, and their
   values are those the server groups gave. *)
LEMMA AllGroupsVector ==
  ASSUME NEW V, Vectors(V)
  PROVE  /\ IsFiniteSet(DOMAIN AllGroups(V))
         /\ \A l \in DOMAIN AllGroups(V) : AllGroups(V)[l].k = "float" /\ AllGroups(V)[l].v \in Int
<1>1. LabelSets(V)
  BY DEF Vectors
<1>2. IsFiniteSet(DOMAIN AllGroups(V))
  BY <1>1, AllGroupsFinite DEF Vectors
<1>3. ASSUME NEW l \in DOMAIN AllGroups(V)
      PROVE  AllGroups(V)[l].k = "float" /\ AllGroups(V)[l].v \in Int
  <2>1. PICK g, m : Presented(V, l, g, m)
    BY <1>1, AllGroupsAt
  <2>2. AllGroups(V)[l] = V[g][m]
    BY <1>1, <2>1, AllGroupsAt DEF Presented
  <2> QED
    BY <2>1, <2>2 DEF Presented, Vectors
<1> QED
  BY <1>2, <1>3

(* max and min: the extreme of the groups' extremes. *)
Beats(op, x, y) == IF op = "max" THEN y <= x ELSE x <= y

(* min and max are values of a member, and no member beats them. *)
LEMMA ExtremeOfGroup ==
  ASSUME NEW op \in {"max", "min"}, NEW vec, IsFiniteSet(DOMAIN vec),
         \A l \in DOMAIN vec : vec[l].v \in Int, NEW S \in SUBSET DOMAIN vec, S # {}
  PROVE  /\ Combine(op, vec, S).v \in Numbers(vec, S)
         /\ \A l \in S : Beats(op, Combine(op, vec, S).v, vec[l].v)
         /\ Combine(op, vec, S).k = "float"
<1>1. Numbers(vec, S) \in SUBSET Int /\ IsFiniteSet(Numbers(vec, S)) /\ Numbers(vec, S) # {}
  BY NumbersFinite
<1>2. \A l \in S : vec[l].v \in Numbers(vec, S)
  BY DEF Numbers
<1>3. CASE op = "max"
  BY <1>1, <1>2, <1>3, CombineIs, FiniteMax DEF Beats, Float
<1>4. CASE op = "min"
  BY <1>1, <1>2, <1>4, CombineIs, FiniteMin DEF Beats, Float
<1> QED
  BY <1>3, <1>4

(* The extreme of the groups' extremes is that of all series. *)
LEMMA ExtremeRecombined ==
  ASSUME NEW node, node.op \in {"max", "min"}, NEW V, Vectors(V)
  PROVE  AggregateOf(node, AllGroups(EachGroup(node, V))) = AggregateOf(node, AllGroups(V))
<1> DEFINE A == EachGroup(node, V)
           allA == AllGroups(A)
           allV == AllGroups(V)
<1>0. node.op \in KeyedOps /\ LabelSets(V) /\ SameGrouping(node, node)
  BY DEF KeyedOps, Vectors, SameGrouping
<1>1. LabelSets(A)
  BY <1>0, EachGroupAt
<1>2. DOMAIN AggregateOf(node, allA) = DOMAIN AggregateOf(node, allV)
  BY <1>0, KeysMeet
<1>3. ASSUME NEW key \in DOMAIN AggregateOf(node, allV)
      PROVE  AggregateOf(node, allA)[key] = AggregateOf(node, allV)[key]
  <2> DEFINE SA == Members(node, allA, key)
             SV == Members(node, allV, key)
  <2>1. /\ AggregateOf(node, allV)[key] = Combine(node.op, allV, SV)
        /\ SV # {} /\ SV \subseteq DOMAIN allV
    BY <1>0, KeyedAggregate, Zenon
  <2>2. /\ AggregateOf(node, allA)[key] = Combine(node.op, allA, SA)
        /\ SA # {} /\ SA \subseteq DOMAIN allA
    BY <1>0, <1>2, KeyedAggregate, Zenon
  <2>3. Numbers(allV, SV) \in SUBSET Int /\ IsFiniteSet(Numbers(allV, SV)) /\ Numbers(allV, SV) # {}
    BY <2>1, AllGroupsVector, NumbersFinite
  <2>4. ASSUME NEW l \in SA PROVE allA[l].v \in Numbers(allV, SV)
    <3>1. PICK g, k : Presented(A, l, g, k)
      BY <1>1, AllGroupsAt DEF Members
    <3>2. g \in Groups /\ k \in DOMAIN A[g] /\ l = Label(g, k) /\ allA[l] = A[g][k]
      BY <1>1, <3>1, AllGroupsAt DEF Presented
    <3>3. /\ A[g][k] = Combine(node.op, V[g], Members(node, V[g], k))
          /\ Members(node, V[g], k) # {} /\ Members(node, V[g], k) \subseteq DOMAIN V[g]
      BY <1>0, <3>2, EachGroupAt
    <3>4. A[g][k].v \in Numbers(V[g], Members(node, V[g], k))
      BY <3>2, <3>3, ExtremeOfGroup DEF Vectors
    <3>5. PICK m \in Members(node, V[g], k) : A[g][k].v = V[g][m].v
      BY <3>4 DEF Numbers
    <3>6. m \in DOMAIN V[g] /\ k = GroupKey(node, m)
      BY <3>5 DEF Members
    <3>7. GroupKey(node, Label(g, m)) = key
      BY <1>0, <3>2, <3>6, MembersMeet DEF Members
    <3>8. Label(g, m) \in SV /\ allV[Label(g, m)] = V[g][m]
      BY <1>0, <3>2, <3>6, <3>7, AllGroupsAt DEF Members
    <3> QED
      BY <3>2, <3>5, <3>8 DEF Numbers
  <2>5. ASSUME NEW l \in SV PROVE \E q \in SA : Beats(node.op, allA[q].v, allV[l].v)
    <3>1. PICK g, m : Presented(V, l, g, m)
      BY <1>0, AllGroupsAt DEF Members
    <3>2. g \in Groups /\ m \in DOMAIN V[g] /\ l = Label(g, m) /\ allV[l] = V[g][m]
      BY <1>0, <3>1, AllGroupsAt DEF Presented
    <3> DEFINE k == GroupKey(node, m)
               q == Label(g, k)
    <3>3. GroupKey(node, q) = key /\ k \in DOMAIN A[g] /\ m \in Members(node, V[g], k)
      BY <1>0, <3>2, MembersMeet DEF Members
    <3>4. q \in SA /\ allA[q] = A[g][k]
      BY <1>1, <3>2, <3>3, AllGroupsAt DEF Members
    <3>5. A[g][k] = Combine(node.op, V[g], Members(node, V[g], k)) /\ Members(node, V[g], k) \subseteq DOMAIN V[g]
      BY <1>0, <3>2, <3>3, EachGroupAt
    <3>6. Beats(node.op, A[g][k].v, V[g][m].v)
      BY <3>2, <3>3, <3>5, ExtremeOfGroup DEF Vectors
    <3> QED
      BY <3>2, <3>4, <3>6
  <2>6. Numbers(allA, SA) \in SUBSET Numbers(allV, SV)
    BY <2>4 DEF Numbers
  <2>7. CASE node.op = "max"
    <3>1. \A b \in Numbers(allV, SV) : \E a \in Numbers(allA, SA) : b <= a
      BY <2>5, <2>7 DEF Numbers, Beats
    <3>2. Max(Numbers(allA, SA)) = Max(Numbers(allV, SV))
      BY <2>3, <2>6, <3>1, SameMax
    <3> QED
      BY <2>1, <2>2, <2>7, <3>2, CombineIs
  <2>8. CASE node.op = "min"
    <3>1. \A b \in Numbers(allV, SV) : \E a \in Numbers(allA, SA) : a <= b
      BY <2>5, <2>8 DEF Numbers, Beats
    <3>2. Min(Numbers(allA, SA)) = Min(Numbers(allV, SV))
      BY <2>3, <2>6, <3>1, SameMin
    <3> QED
      BY <2>1, <2>2, <2>8, <3>2, CombineIs
  <2> QED
    BY <2>7, <2>8
<1>4. IsFunction(AggregateOf(node, allA)) /\ IsFunction(AggregateOf(node, allV))
  BY <1>0, KeyedAggregate
<1> QED
  BY <1>2, <1>3, <1>4, Zenon DEF IsFunction

(* group only tells that a key has a member. *)
LEMMA GroupRecombined ==
  ASSUME NEW node, node.op = "group", NEW V, Vectors(V)
  PROVE  AggregateOf(node, AllGroups(EachGroup(node, V))) = AggregateOf(node, AllGroups(V))
<1> DEFINE allA == AllGroups(EachGroup(node, V))
           allV == AllGroups(V)
<1>0. node.op \in KeyedOps /\ LabelSets(V) /\ SameGrouping(node, node)
  BY DEF KeyedOps, Vectors, SameGrouping
<1>1. DOMAIN AggregateOf(node, allA) = DOMAIN AggregateOf(node, allV)
  BY <1>0, KeysMeet
<1>2. ASSUME NEW key \in DOMAIN AggregateOf(node, allV)
      PROVE  AggregateOf(node, allA)[key] = AggregateOf(node, allV)[key]
  <2>1. AggregateOf(node, allV)[key] = Combine(node.op, allV, Members(node, allV, key))
    BY <1>0, KeyedAggregate, Zenon
  <2>2. AggregateOf(node, allA)[key] = Combine(node.op, allA, Members(node, allA, key))
    BY <1>0, <1>1, KeyedAggregate, Zenon
  <2> QED
    BY <2>1, <2>2, CombineIs
<1>3. IsFunction(AggregateOf(node, allA)) /\ IsFunction(AggregateOf(node, allV))
  BY <1>0, KeyedAggregate
<1> QED
  BY <1>1, <1>2, <1>3, Zenon DEF IsFunction

---------------------------------------------------------------------------
(* topk and bottomk.                                                       *)

Best(node, S) == IF node.op = "topk" THEN Max(S) ELSE Min(S)
Peers(node, vec, l) == {vec[m].v : m \in {x \in DOMAIN vec : GroupKey(node, x) = GroupKey(node, l)}}
BestOnes(node, vec) == {l \in DOMAIN vec : vec[l].v = Best(node, Peers(node, vec, l))}

(* topk and bottomk restrict the vector to the best. *)
LEMMA TopKIs ==
  ASSUME NEW node, node.op \in {"topk", "bottomk"}, NEW vec
  PROVE  AggregateOf(node, vec) = [l \in BestOnes(node, vec) |-> vec[l]]
<1>1. AggregateOf(node, vec) = TopK(node, vec)
  BY Zenon DEF AggregateOf
<1>2. TopK(node, vec) = Restrict(vec, BestOnes(node, vec))
  BY Zenon DEF TopK, BestOnes, Best, Peers
<1> QED
  BY <1>1, <1>2 DEF Restrict

(* Better or as good. *)
Rank(node, x, y) == IF node.op = "topk" THEN y <= x ELSE x <= y

(* The best of a group's values is one of them and none is better. *)
LEMMA BestIs ==
  ASSUME NEW node, node.op \in {"topk", "bottomk"}, NEW vec, IsFiniteSet(DOMAIN vec),
         \A l \in DOMAIN vec : vec[l].v \in Int, NEW l \in DOMAIN vec
  PROVE  /\ \E m \in BestOnes(node, vec) :
              GroupKey(node, m) = GroupKey(node, l) /\ Rank(node, vec[m].v, vec[l].v)
         /\ l \in BestOnes(node, vec) <=>
              \A m \in DOMAIN vec : GroupKey(node, m) = GroupKey(node, l) => Rank(node, vec[l].v, vec[m].v)
<1> DEFINE S == {x \in DOMAIN vec : GroupKey(node, x) = GroupKey(node, l)}
           P == Peers(node, vec, l)
<1>1. P = Numbers(vec, S) /\ S \in SUBSET DOMAIN vec /\ l \in S
  BY DEF Numbers, Peers
<1>2. P \in SUBSET Int /\ IsFiniteSet(P) /\ P # {}
  BY <1>1, NumbersFinite
<1>3. \A m \in S : Peers(node, vec, m) = P
  BY DEF Peers
<1>4. \A m \in S : vec[m].v \in P
  BY <1>1 DEF Numbers
<1> HIDE DEF P
<1>5. Best(node, P) \in P /\ \A y \in P : Rank(node, Best(node, P), y)
  BY <1>2, FiniteMax, FiniteMin DEF Best, Rank
<1>6. PICK m \in S : vec[m].v = Best(node, P)
  BY <1>1, <1>5 DEF Numbers
<1>7. m \in BestOnes(node, vec) /\ Rank(node, vec[m].v, vec[l].v)
  BY <1>1, <1>3, <1>4, <1>5, <1>6 DEF BestOnes
<1>8. l \in BestOnes(node, vec) <=> vec[l].v = Best(node, P)
  BY <1>1, <1>3 DEF BestOnes
<1>9. ASSUME \A x \in S : Rank(node, vec[l].v, vec[x].v) PROVE vec[l].v = Best(node, P)
  <2>1. Rank(node, vec[l].v, vec[m].v) /\ Rank(node, vec[m].v, vec[l].v) /\ vec[l].v \in Int /\ vec[m].v \in Int
    BY <1>6, <1>7, <1>9
  <2> QED
    BY <1>6, <2>1 DEF Rank
<1>10. vec[l].v = Best(node, P) => \A x \in S : Rank(node, vec[l].v, vec[x].v)
  BY <1>4, <1>5
<1> QED
  BY <1>6, <1>7, <1>8, <1>9, <1>10

(* The best of the groups' best are the best of all: each is among the best
   of its own group. *)
LEMMA TopKRecombined ==
  ASSUME NEW node, node.op \in {"topk", "bottomk"}, NEW V, Vectors(V)
  PROVE  AggregateOf(node, AllGroups(EachGroup(node, V))) = AggregateOf(node, AllGroups(V))
<1> DEFINE A == EachGroup(node, V)
           allA == AllGroups(A)
           allV == AllGroups(V)
<1>0. LabelSets(V) /\ \A g \in Groups : IsFiniteSet(DOMAIN V[g]) /\ \A m \in DOMAIN V[g] : V[g][m].v \in Int
  BY DEF Vectors
<1>1. \A g \in Groups : A[g] = [l \in BestOnes(node, V[g]) |-> V[g][l]]
  BY TopKIs DEF EachGroup
<1>2. \A g \in Groups : DOMAIN A[g] = BestOnes(node, V[g]) /\ BestOnes(node, V[g]) \subseteq DOMAIN V[g]
  BY <1>1 DEF BestOnes
<1>3. LabelSets(A)
  BY <1>0, <1>2 DEF LabelSets
<1>4. IsFiniteSet(DOMAIN allV) /\ \A l \in DOMAIN allV : allV[l].v \in Int
  BY AllGroupsVector
<1>5. ASSUME NEW l \in DOMAIN allA PROVE l \in DOMAIN allV /\ allA[l] = allV[l]
  <2>1. PICK g, m : Presented(A, l, g, m)
    BY <1>3, AllGroupsAt
  <2>2. g \in Groups /\ m \in DOMAIN A[g] /\ l = Label(g, m) /\ allA[l] = A[g][m]
    BY <1>3, <2>1, AllGroupsAt DEF Presented
  <2>3. m \in DOMAIN V[g] /\ A[g][m] = V[g][m]
    BY <1>1, <1>2, <2>2
  <2> QED
    BY <1>0, <2>2, <2>3, AllGroupsAt
<1>6. ASSUME NEW l \in BestOnes(node, allV) PROVE l \in DOMAIN allA
  <2>0. l \in DOMAIN allV
    BY DEF BestOnes
  <2>1. PICK g, m : Presented(V, l, g, m)
    BY <1>0, <2>0, AllGroupsAt
  <2>2. g \in Groups /\ m \in DOMAIN V[g] /\ l = Label(g, m) /\ allV[l] = V[g][m]
    BY <1>0, <2>1, AllGroupsAt DEF Presented
  <2>3. ASSUME NEW n \in DOMAIN V[g], GroupKey(node, n) = GroupKey(node, m)
        PROVE  Rank(node, V[g][m].v, V[g][n].v)
    <3>1. IsLabelSet(n) /\ IsLabelSet(m)
      BY <1>0, <2>2 DEF LabelSets
    <3>2. GroupKey(node, Label(g, n)) = GroupKey(node, Label(g, m))
      BY <2>3, <3>1, KeyOfKey
    <3>3. Label(g, n) \in DOMAIN allV /\ allV[Label(g, n)] = V[g][n]
      BY <1>0, <2>2, AllGroupsAt
    <3> QED
      BY <1>4, <2>0, <2>2, <3>2, <3>3, BestIs
  <2>4. m \in BestOnes(node, V[g])
    BY <1>0, <2>2, <2>3, BestIs
  <2> QED
    BY <1>2, <1>3, <2>2, <2>4, AllGroupsAt
<1>7. IsFiniteSet(DOMAIN allA) /\ \A l \in DOMAIN allA : allA[l].v \in Int
  <2>1. DOMAIN allA \in SUBSET DOMAIN allV
    BY <1>5
  <2> QED
    BY <1>4, <1>5, <2>1, FS_Subset
<1>8. ASSUME NEW l \in BestOnes(node, allA) PROVE l \in BestOnes(node, allV)
  <2>0. l \in DOMAIN allA /\ l \in DOMAIN allV /\ allA[l] = allV[l]
    BY <1>5 DEF BestOnes
  <2>1. PICK m \in BestOnes(node, allV) :
          GroupKey(node, m) = GroupKey(node, l) /\ Rank(node, allV[m].v, allV[l].v)
    BY <1>4, <2>0, BestIs
  <2>2. m \in DOMAIN allA /\ m \in DOMAIN allV /\ allA[m] = allV[m]
    BY <1>5, <1>6
  <2>3. Rank(node, allA[l].v, allA[m].v)
    BY <1>7, <2>0, <2>1, <2>2, BestIs
  <2>4. allV[l].v = allV[m].v
    BY <1>4, <2>0, <2>1, <2>2, <2>3 DEF Rank
  <2>5. \A x \in DOMAIN allV : GroupKey(node, x) = GroupKey(node, m) => Rank(node, allV[m].v, allV[x].v)
    BY <1>4, <2>2, BestIs
  <2> QED
    BY <1>4, <2>0, <2>1, <2>4, <2>5, BestIs
<1>9. ASSUME NEW l \in BestOnes(node, allV) PROVE l \in BestOnes(node, allA)
  <2>1. l \in DOMAIN allA /\ l \in DOMAIN allV
    BY <1>6 DEF BestOnes
  <2>2. \A x \in DOMAIN allV : GroupKey(node, x) = GroupKey(node, l) => Rank(node, allV[l].v, allV[x].v)
    BY <1>4, <2>1, BestIs
  <2>3. \A x \in DOMAIN allA : GroupKey(node, x) = GroupKey(node, l) => Rank(node, allA[l].v, allA[x].v)
    BY <1>5, <2>1, <2>2
  <2> QED
    BY <1>7, <2>1, <2>3, BestIs
<1>10. BestOnes(node, allA) = BestOnes(node, allV)
  BY <1>8, <1>9
<1>11. \A l \in BestOnes(node, allV) : allA[l] = allV[l]
  BY <1>5, <1>6
<1> QED
  BY <1>10, <1>11, TopKIs

---------------------------------------------------------------------------
(* Sums.                                                                   *)

(* The recursion of Total over the sets up to a size. *)
Pick(s) == CHOOSE x \in s : TRUE
Sums(it, vec, s) == it[s] = IF s = {} THEN 0 ELSE vec[Pick(s)].v + it[s \ {Pick(s)}]
SumsUpTo(it, vec, S, n) == \A s \in SUBSET S : Cardinality(s) <= n => Sums(it, vec, s)
SumsOver(it, vec, S) == it = [s \in SUBSET S |-> IF s = {} THEN 0 ELSE vec[Pick(s)].v + it[s \ {Pick(s)}]]

(* A finite set without one of its elements. *)
LEMMA SmallerSet ==
  ASSUME NEW s, IsFiniteSet(s), NEW x \in s
  PROVE  /\ IsFiniteSet(s \ {x}) /\ Cardinality(s \ {x}) = Cardinality(s) - 1
         /\ Cardinality(s) \in Nat \ {0} /\ Cardinality(s \ {x}) < Cardinality(s)
<1>1. IsFiniteSet(s \ {x}) /\ Cardinality(s \ {x}) = Cardinality(s) - 1
  BY FS_RemoveElement
<1>2. Cardinality(s) \in Nat /\ Cardinality(s \ {x}) \in Nat
  BY <1>1, FS_CardinalityType
<1> QED
  BY <1>1, <1>2

(* The recursion of Total has a solution on the subsets of a finite set. *)
LEMMA SumsExist ==
  ASSUME NEW vec, NEW S, IsFiniteSet(S)
  PROVE  \E it : SumsOver(it, vec, S)
<1> DEFINE Bad == {n \in Nat : ~\E it : DOMAIN it = SUBSET S /\ SumsUpTo(it, vec, S, n)}
<1>0. \A s \in SUBSET S : IsFiniteSet(s) /\ Cardinality(s) \in Nat /\ Cardinality(s) <= Cardinality(S)
  BY FS_Subset, FS_CardinalityType
<1>1. \A s \in SUBSET S : s # {} => /\ Pick(s) \in s /\ s \ {Pick(s)} \in SUBSET S
                                     /\ Cardinality(s \ {Pick(s)}) = Cardinality(s) - 1
                                     /\ Cardinality(s) # 0
  <2> TAKE s \in SUBSET S
  <2> HAVE s # {}
  <2>1. Pick(s) \in s
    BY DEF Pick
  <2> QED
    BY <1>0, <2>1, SmallerSet
<1>2. ASSUME NEW n0 \in Bad PROVE FALSE
  <2>1. PICK n \in Bad : \A k \in Bad : n <= k
    BY <1>2, Least
  <2>2. CASE n = 0
    <3> DEFINE it == [s \in SUBSET S |-> 0]
    <3>1. SumsUpTo(it, vec, S, 0)
      <4> SUFFICES ASSUME NEW s \in SUBSET S, Cardinality(s) <= 0 PROVE Sums(it, vec, s)
        BY DEF SumsUpTo
      <4>1. s = {}
        <5>1. Cardinality(s) \in Nat /\ (s # {} => Cardinality(s) # 0)
          BY <1>0, <1>1
        <5> QED
          BY <5>1
      <4> QED
        BY <4>1 DEF Sums
    <3> QED
      BY <2>2, <3>1
  <2>3. CASE n # 0
    <3>1. n - 1 \in Nat /\ n - 1 \notin Bad
      <4>1. n \in Nat
        OBVIOUS
      <4> HIDE DEF Bad
      <4> QED
        BY <2>1, <2>3, <4>1
    <3>2. PICK old : DOMAIN old = SUBSET S /\ SumsUpTo(old, vec, S, n - 1)
      BY <3>1
    <3> DEFINE V(s) == IF Cardinality(s) <= n - 1 THEN old[s] ELSE vec[Pick(s)].v + old[s \ {Pick(s)}]
               it == [s \in SUBSET S |-> V(s)]
    <3>3. \A s \in SUBSET S : it[s] = V(s)
      OBVIOUS
    <3>3a. DOMAIN it = SUBSET S
      OBVIOUS
    <3> HIDE DEF it
    <3>4. ASSUME NEW s \in SUBSET S, Cardinality(s) <= n PROVE Sums(it, vec, s)
      <4>1. CASE s = {}
        <5>1. Cardinality(s) <= n - 1
          BY <3>1, <4>1, FS_EmptySet
        <5> QED
          BY <3>2, <3>3, <4>1, <5>1 DEF SumsUpTo, Sums
      <4>2. CASE s # {}
        <5> DEFINE r == s \ {Pick(s)}
        <5>1. r \in SUBSET S /\ Cardinality(r) = Cardinality(s) - 1 /\ Cardinality(s) \in Nat
          BY <1>0, <1>1, <4>2
        <5>2. Cardinality(r) <= n - 1
          BY <3>4, <5>1, <2>1
        <5>3. it[r] = old[r]
          BY <3>3, <5>1, <5>2
        <5>4. it[s] = vec[Pick(s)].v + old[r]
          BY <3>2, <3>3, <4>2 DEF SumsUpTo, Sums
        <5> QED
          BY <4>2, <5>3, <5>4 DEF Sums
      <4> QED
        BY <4>1, <4>2
    <3>5. SumsUpTo(it, vec, S, n)
      BY <3>4 DEF SumsUpTo
    <3> QED
      BY <2>1, <3>3a, <3>5
  <2> QED
    BY <2>2, <2>3
<1>3. Cardinality(S) \in Nat
  BY <1>0
<1>4. PICK it : DOMAIN it = SUBSET S /\ SumsUpTo(it, vec, S, Cardinality(S))
  BY <1>2, <1>3
<1> DEFINE f == [s \in SUBSET S |-> it[s]]
           W(s) == IF s = {} THEN 0 ELSE vec[Pick(s)].v + f[s \ {Pick(s)}]
<1>5. \A s \in SUBSET S : f[s] = it[s]
  OBVIOUS
<1>5a. f = [s \in SUBSET S |-> f[s]]
  OBVIOUS
<1> HIDE DEF f
<1>6. ASSUME NEW s \in SUBSET S PROVE f[s] = W(s)
  <2>1. Sums(it, vec, s)
    BY <1>0, <1>4 DEF SumsUpTo
  <2> QED
    BY <1>1, <1>5, <2>1 DEF Sums
<1>7. f = [s \in SUBSET S |-> W(s)]
  BY <1>5a, <1>6, Zenon
<1> QED
  BY <1>7, Zenon DEF SumsOver

(* What Total computes does not depend on the set it is computed within. *)
LEMMA SumsAgree ==
  ASSUME NEW vec, NEW S, IsFiniteSet(S), NEW f, SumsOver(f, vec, S),
         NEW T, IsFiniteSet(T), NEW h, SumsOver(h, vec, T)
  PROVE  \A s \in SUBSET S : s \in SUBSET T => f[s] = h[s]
<1> DEFINE Bad == {s \in SUBSET S : s \in SUBSET T /\ f[s] # h[s]}
           Sizes == {Cardinality(s) : s \in Bad}
<1>0. \A s \in SUBSET S : IsFiniteSet(s) /\ Cardinality(s) \in Nat
  BY FS_Subset, FS_CardinalityType
<1>1. \A s \in SUBSET S : f[s] = IF s = {} THEN 0 ELSE vec[Pick(s)].v + f[s \ {Pick(s)}]
  BY DEF SumsOver
<1>2. \A s \in SUBSET T : h[s] = IF s = {} THEN 0 ELSE vec[Pick(s)].v + h[s \ {Pick(s)}]
  BY DEF SumsOver
<1>3. ASSUME NEW b \in Bad PROVE FALSE
  <2>1. Sizes \in SUBSET Nat /\ Cardinality(b) \in Sizes
    BY <1>0
  <2>2. PICK n \in Sizes : \A k \in Sizes : n <= k
    BY <2>1, Least
  <2>3. PICK s \in Bad : n = Cardinality(s)
    BY <2>2
  <2>4. s # {}
    BY <1>1, <1>2, <2>3
  <2> DEFINE r == s \ {Pick(s)}
  <2>5. Pick(s) \in s
    BY <2>4 DEF Pick
  <2>6. Cardinality(r) = Cardinality(s) - 1 /\ Cardinality(s) \in Nat
    BY <1>0, <2>5, SmallerSet
  <2>7. r \notin Bad
    <3>1. ~(Cardinality(s) <= Cardinality(s) - 1)
      BY <2>6
    <3> HIDE DEF Bad
    <3> QED
      BY <2>2, <2>3, <2>6, <3>1
  <2>8. r \in SUBSET S /\ r \in SUBSET T
    OBVIOUS
  <2>9. f[r] = h[r]
    BY <2>7, <2>8
  <2>10. f[s] = h[s]
    BY <1>1, <1>2, <2>4, <2>9
  <2> QED
    BY <2>10
<1> QED
  BY <1>3

(* Total is any such solution. *)
LEMMA TotalBy ==
  ASSUME NEW vec, NEW S, IsFiniteSet(S)
  PROVE  \E it : SumsOver(it, vec, S) /\ \A s \in SUBSET S : Total(vec, s) = it[s]
<1> DEFINE It(s) == CHOOSE it : SumsOver(it, vec, s)
<1>1. \A s \in SUBSET S : IsFiniteSet(s)
  BY FS_Subset
<1>2. \A s \in SUBSET S : SumsOver(It(s), vec, s)
  BY <1>1, SumsExist
<1>3. \A s : Total(vec, s) = It(s)[s]
  BY DEF Total, MapThenSumSet, MapThenFoldSet, SumsOver, Pick
<1>4. SumsOver(It(S), vec, S)
  BY <1>2
<1> HIDE DEF It
<1>5. \A s \in SUBSET S : It(s)[s] = It(S)[s]
  BY <1>1, <1>2, SumsAgree
<1> QED
  BY <1>3, <1>4, <1>5

Ints(vec, S) == \A l \in S : vec[l].v \in Int

(* Total, one element taken off. *)
LEMMA TotalStep ==
  ASSUME NEW vec, NEW S, IsFiniteSet(S)
  PROVE  /\ S = {} => Total(vec, S) = 0
         /\ S # {} => Pick(S) \in S /\ Total(vec, S) = vec[Pick(S)].v + Total(vec, S \ {Pick(S)})
<1>1. PICK it : SumsOver(it, vec, S) /\ \A s \in SUBSET S : Total(vec, s) = it[s]
  BY TotalBy
<1>2. it[S] = IF S = {} THEN 0 ELSE vec[Pick(S)].v + it[S \ {Pick(S)}]
  BY <1>1 DEF SumsOver
<1>3. S \ {Pick(S)} \in SUBSET S /\ S \in SUBSET S
  OBVIOUS
<1> QED
  BY <1>1, <1>2, <1>3 DEF Pick

(* Induction over finite sets: a property that fails for some subset fails
   for a smallest one. *)
LEMMA Smallest ==
  ASSUME NEW S, IsFiniteSet(S), NEW Bad \in SUBSET SUBSET S, Bad # {}
  PROVE  \E s \in Bad : \A r \in Bad : ~(Cardinality(r) < Cardinality(s))
<1> DEFINE Sizes == {Cardinality(s) : s \in Bad}
<1>1. \A s \in Bad : Cardinality(s) \in Nat
  BY FS_Subset, FS_CardinalityType
<1>2. Sizes \in SUBSET Nat /\ Sizes # {}
  BY <1>1
<1>3. PICK n \in Sizes : \A k \in Sizes : n <= k
  BY <1>2, Least
<1>4. PICK s \in Bad : n = Cardinality(s)
  BY <1>3
<1>5. \A r \in Bad : Cardinality(s) <= Cardinality(r)
  BY <1>3, <1>4
<1> QED
  BY <1>1, <1>4, <1>5

(* A sum of integers is one. *)
LEMMA TotalInt ==
  ASSUME NEW vec, NEW S, IsFiniteSet(S), Ints(vec, S)
  PROVE  \A s \in SUBSET S : Total(vec, s) \in Int
<1> DEFINE Bad == {s \in SUBSET S : Total(vec, s) \notin Int}
<1>1. ASSUME Bad # {} PROVE FALSE
  <2>1. PICK s \in Bad : \A r \in Bad : ~(Cardinality(r) < Cardinality(s))
    BY <1>1, Smallest
  <2>2. IsFiniteSet(s)
    BY FS_Subset
  <2>3. s # {} /\ Pick(s) \in s /\ Total(vec, s) = vec[Pick(s)].v + Total(vec, s \ {Pick(s)})
    <3>1. s # {}
      <4>1. Total(vec, s) # 0
        BY <2>1
      <4> QED
        BY <2>2, <4>1, TotalStep
    <3> QED
      BY <2>2, <3>1, TotalStep
  <2>4. Cardinality(s \ {Pick(s)}) < Cardinality(s)
    BY <2>2, <2>3, SmallerSet
  <2>5. s \ {Pick(s)} \notin Bad
    <3> HIDE DEF Bad
    <3> QED BY <2>1, <2>4
  <2>6. Total(vec, s \ {Pick(s)}) \in Int
    BY <2>5
  <2>7. vec[Pick(s)].v \in Int
    BY <2>3 DEF Ints
  <2> QED
    BY <2>3, <2>6, <2>7
<1> QED
  BY <1>1

(* A sum does not depend on the order. *)
LEMMA TotalRemove ==
  ASSUME NEW vec, NEW S, IsFiniteSet(S), Ints(vec, S)
  PROVE  \A s \in SUBSET S : \A x \in s : Total(vec, s) = vec[x].v + Total(vec, s \ {x})
<1> DEFINE Bad == {s \in SUBSET S : \E x \in s : Total(vec, s) # vec[x].v + Total(vec, s \ {x})}
<1>1. ASSUME Bad # {} PROVE FALSE
  <2>1. PICK s \in Bad : \A r \in Bad : ~(Cardinality(r) < Cardinality(s))
    BY <1>1, Smallest
  <2>2. PICK x \in s : Total(vec, s) # vec[x].v + Total(vec, s \ {x})
    BY <2>1
  <2>3. IsFiniteSet(s) /\ s \in SUBSET S
    BY FS_Subset
  <2> DEFINE c == Pick(s)
  <2>4. c \in s /\ Total(vec, s) = vec[c].v + Total(vec, s \ {c})
    BY <2>2, <2>3, TotalStep
  <2>5. c # x
    BY <2>2, <2>4
  <2>6. Cardinality(s \ {c}) < Cardinality(s) /\ Cardinality(s \ {x}) < Cardinality(s)
    BY <2>2, <2>3, <2>4, SmallerSet
  <2>7. s \ {c} \notin Bad /\ s \ {x} \notin Bad
    <3> HIDE DEF Bad
    <3> QED BY <2>1, <2>6
  <2>8. x \in s \ {c} /\ c \in s \ {x} /\ s \ {c} \in SUBSET S /\ s \ {x} \in SUBSET S
    BY <2>2, <2>3, <2>4, <2>5
  <2>9. /\ Total(vec, s \ {c}) = vec[x].v + Total(vec, (s \ {c}) \ {x})
        /\ Total(vec, s \ {x}) = vec[c].v + Total(vec, (s \ {x}) \ {c})
    BY <2>7, <2>8
  <2>10. (s \ {c}) \ {x} = (s \ {x}) \ {c}
    OBVIOUS
  <2>11. vec[x].v \in Int /\ vec[c].v \in Int /\ Total(vec, (s \ {c}) \ {x}) \in Int
    BY <2>3, <2>2, <2>4, TotalInt DEF Ints
  <2>12. Total(vec, s) = vec[x].v + Total(vec, s \ {x})
    <3> DEFINE z == Total(vec, (s \ {c}) \ {x})
    <3>1. /\ Total(vec, s) = vec[c].v + (vec[x].v + z)
          /\ vec[x].v + Total(vec, s \ {x}) = vec[x].v + (vec[c].v + z)
      BY <2>4, <2>9, <2>10
    <3> HIDE DEF z, c
    <3> QED
      BY <2>11, <3>1 DEF z
  <2> QED
    BY <2>2, <2>12
<1> QED
  BY <1>1

(* The sum over two disjoint sets. *)
LEMMA TotalUnion ==
  ASSUME NEW vec, NEW S, IsFiniteSet(S), Ints(vec, S), NEW B \in SUBSET S
  PROVE  \A s \in SUBSET S : s \cap B = {} => Total(vec, s \cup B) = Total(vec, s) + Total(vec, B)
<1> DEFINE Bad == {s \in SUBSET S : s \cap B = {} /\ Total(vec, s \cup B) # Total(vec, s) + Total(vec, B)}
<1>0. Total(vec, B) \in Int
  BY TotalInt
<1>1. ASSUME Bad # {} PROVE FALSE
  <2>1. PICK s \in Bad : \A r \in Bad : ~(Cardinality(r) < Cardinality(s))
    BY <1>1, Smallest
  <2>2. IsFiniteSet(s) /\ s \in SUBSET S /\ s \cup B \in SUBSET S /\ s \cap B = {}
    BY FS_Subset
  <2>3. CASE s = {}
    <3>1. Total(vec, s) = 0 /\ s \cup B = B
      BY <2>2, <2>3, TotalStep
    <3>2. Total(vec, s \cup B) = Total(vec, B)
      BY <3>1, Zenon
    <3>3. Total(vec, B) = Total(vec, s) + Total(vec, B)
      BY <1>0, <3>1
    <3>4. Total(vec, s \cup B) = Total(vec, s) + Total(vec, B)
      BY <3>2, <3>3, Zenon
    <3> QED
      BY <3>4, <2>1
  <2>4. CASE s # {}
    <3>1. PICK x \in s : TRUE
      BY <2>4
    <3> DEFINE r == s \ {x}
    <3>2. Cardinality(r) < Cardinality(s)
      BY <2>2, SmallerSet
    <3>3. r \notin Bad
      <4> HIDE DEF Bad
      <4> QED BY <2>1, <3>2
    <3>4. r \in SUBSET S /\ r \cap B = {} /\ (s \cup B) \ {x} = r \cup B /\ x \in s \cup B
      BY <2>2
    <3>5. Total(vec, r \cup B) = Total(vec, r) + Total(vec, B)
      BY <3>3, <3>4
    <3>6. Total(vec, s \cup B) = vec[x].v + Total(vec, r \cup B) /\ Total(vec, s) = vec[x].v + Total(vec, r)
      BY <2>2, <3>4, TotalRemove
    <3>7. Total(vec, r) \in Int /\ vec[x].v \in Int
      BY <2>2, <3>4, TotalInt DEF Ints
    <3>8. Total(vec, s \cup B) = Total(vec, s) + Total(vec, B)
      BY <1>0, <3>5, <3>6, <3>7
    <3> QED
      BY <2>1, <3>8
  <2> QED
    BY <2>3, <2>4
<1> QED
  BY <1>1

(* A sum over a set is the sum of the sums over the sets a function h of its
   elements tells apart. *)
Fibre(h, S, t) == {l \in S : h[l] = t}

(* The sum of the sums over the fibres of a map is the sum over its domain. *)
LEMMA TotalFibres ==
  ASSUME NEW vec, NEW S, IsFiniteSet(S), Ints(vec, S), NEW h,
         NEW w, NEW T, IsFiniteSet(T), \A t \in T : w[t].v = Total(vec, Fibre(h, S, t)),
         \A l \in S : h[l] \in T
  PROVE  Total(w, T) = Total(vec, S)
<1> DEFINE Over_(R) == {l \in S : h[l] \in R}
           Bad == {R \in SUBSET T : Total(w, R) # Total(vec, Over_(R))}
<1>0. \A t \in T : Fibre(h, S, t) \in SUBSET S
  BY DEF Fibre
<1>1. Ints(w, T)
  BY <1>0, TotalInt DEF Ints
<1>2. ASSUME Bad # {} PROVE FALSE
  <2>1. PICK R \in Bad : \A r \in Bad : ~(Cardinality(r) < Cardinality(R))
    BY <1>2, Smallest
  <2>2. IsFiniteSet(R) /\ R \in SUBSET T
    BY FS_Subset
  <2>3. CASE R = {}
    <3>1. Over_(R) = {}
      BY <2>3
    <3>2. Total(w, R) = 0 /\ Total(vec, Over_(R)) = 0
      BY <2>2, <2>3, <3>1, FS_EmptySet, TotalStep
    <3> QED
      BY <2>1, <3>2
  <2>4. CASE R # {}
    <3>1. PICK t \in R : TRUE
      BY <2>4
    <3> DEFINE Q == R \ {t}
    <3>2. Cardinality(Q) < Cardinality(R)
      BY <2>2, SmallerSet
    <3>3. Q \notin Bad
      <4> HIDE DEF Bad
      <4> QED BY <2>1, <3>2
    <3>4. Total(w, Q) = Total(vec, Over_(Q))
      BY <2>2, <3>3
    <3>5. Total(w, R) = w[t].v + Total(w, Q)
      BY <1>1, <2>2, TotalRemove
    <3>6. /\ Over_(R) = Over_(Q) \cup Fibre(h, S, t) /\ Over_(Q) \cap Fibre(h, S, t) = {}
          /\ Over_(Q) \in SUBSET S /\ Fibre(h, S, t) \in SUBSET S
      BY DEF Fibre
    <3>7. Total(vec, Over_(R)) = Total(vec, Over_(Q)) + Total(vec, Fibre(h, S, t))
      BY <3>6, TotalUnion
    <3>8. Total(vec, Over_(Q)) \in Int /\ Total(vec, Fibre(h, S, t)) \in Int
      BY <3>6, TotalInt
    <3>9. w[t].v = Total(vec, Fibre(h, S, t))
      BY <2>2
    <3>10. Total(w, R) = Total(vec, Over_(R))
      BY <3>4, <3>5, <3>7, <3>8, <3>9
    <3> QED
      BY <2>1, <3>10
  <2> QED
    BY <2>3, <2>4
<1>3. T \in SUBSET T /\ Over_(T) = S
  OBVIOUS
<1>4. T \notin Bad
  BY <1>2
<1> QED
  BY <1>3, <1>4

(* The sum over one element. *)
LEMMA TotalOne ==
  ASSUME NEW vec, NEW x, vec[x].v \in Int
  PROVE  Total(vec, {x}) = vec[x].v
<1>1. IsFiniteSet({x}) /\ Ints(vec, {x})
  BY FS_Singleton DEF Ints
<1>2. Total(vec, {x}) = vec[x].v + Total(vec, {x} \ {x})
  BY <1>1, TotalRemove
<1>3. {x} \ {x} = {} /\ Total(vec, {}) = 0
  BY FS_EmptySet, TotalStep
<1> QED
  BY <1>2, <1>3

(* The sum over renamed elements. *)
LEMMA TotalRenamed ==
  ASSUME NEW vec, NEW S, IsFiniteSet(S), Ints(vec, S), NEW h, NEW w, NEW T, IsFiniteSet(T),
         \A l \in S : h[l] \in T /\ w[h[l]].v = vec[l].v,
         \A t \in T : \E l \in S : h[l] = t,
         \A l, m \in S : h[l] = h[m] => l = m
  PROVE  Total(w, T) = Total(vec, S)
<1>1. ASSUME NEW t \in T PROVE w[t].v = Total(vec, Fibre(h, S, t))
  <2>1. PICK l \in S : h[l] = t
    OBVIOUS
  <2>2. Fibre(h, S, t) = {l}
    BY <2>1 DEF Fibre
  <2>3. Total(vec, {l}) = vec[l].v
    BY TotalOne DEF Ints
  <2> QED
    BY <2>1, <2>2, <2>3
<1> QED
  BY <1>1, TotalFibres

(* A cardinality is a sum of ones. *)
LEMMA TotalOfOnes ==
  ASSUME NEW ones, NEW S, IsFiniteSet(S), \A l \in S : ones[l].v = 1
  PROVE  \A s \in SUBSET S : Total(ones, s) = Cardinality(s)
<1> DEFINE Bad == {s \in SUBSET S : Total(ones, s) # Cardinality(s)}
<1>1. ASSUME Bad # {} PROVE FALSE
  <2>1. PICK s \in Bad : \A r \in Bad : ~(Cardinality(r) < Cardinality(s))
    BY <1>1, Smallest
  <2>2. IsFiniteSet(s)
    BY FS_Subset
  <2>3. s # {}
    BY <2>1, FS_EmptySet, TotalStep
  <2>4. Pick(s) \in s /\ Total(ones, s) = ones[Pick(s)].v + Total(ones, s \ {Pick(s)})
    BY <2>2, <2>3, TotalStep
  <2>5. Cardinality(s \ {Pick(s)}) = Cardinality(s) - 1 /\ Cardinality(s) \in Nat
    BY <2>2, <2>4, SmallerSet
  <2>6. s \ {Pick(s)} \notin Bad
    <3> HIDE DEF Bad
    <3> QED BY <2>1, <2>5
  <2>7. Total(ones, s \ {Pick(s)}) = Cardinality(s \ {Pick(s)})
    BY <2>6
  <2>8. ones[Pick(s)].v = 1
    BY <2>4
  <2> QED
    BY <2>1, <2>4, <2>5, <2>7, <2>8
<1> QED
  BY <1>1

(* sum and count: a sum of the groups' sums.  U has the number that every
   series counts for. *)
LEMMA SumOfSums ==
  ASSUME NEW node, node.op \in KeyedOps, NEW V, Vectors(V), NEW outer, SameGrouping(outer, node), NEW U,
         \A g \in Groups : DOMAIN U[g] = DOMAIN V[g] /\ Ints(U[g], DOMAIN V[g]),
         \A g \in Groups : \A k \in DOMAIN EachGroup(node, V)[g] :
           EachGroup(node, V)[g][k].v = Total(U[g], Members(node, V[g], k)),
         NEW key
  PROVE  Total(AllGroups(EachGroup(node, V)), Members(outer, AllGroups(EachGroup(node, V)), key)) =
           Total(AllGroups(U), Members(node, AllGroups(V), key))
<1> DEFINE A == EachGroup(node, V)
           allA == AllGroups(A)
           allV == AllGroups(V)
           allU == AllGroups(U)
           SA == Members(outer, allA, key)
           SV == Members(node, allV, key)
           h == [l \in SV |-> Label(l["sg"], GroupKey(node, Restrict(l, DOMAIN l \ {"sg"})))]
<1>0. LabelSets(V) /\ IsFiniteSet(Groups) /\ \A g \in Groups : IsFiniteSet(DOMAIN V[g])
  BY DEF Vectors
<1>1. LabelSets(A)
  BY <1>0, EachGroupAt
<1>2. LabelSets(U)
  BY <1>0 DEF LabelSets
<1>3. SV \in SUBSET DOMAIN allV /\ IsFiniteSet(SV)
  BY AllGroupsVector, FS_Subset DEF Members
<1>4. ASSUME NEW l \in SV
      PROVE  \E g \in Groups : \E m \in DOMAIN V[g] : l = Label(g, m) /\ allU[l] = U[g][m]
  <2>1. PICK g, m : Presented(V, l, g, m)
    BY <1>0, <1>3, AllGroupsAt
  <2> QED
    BY <1>2, <2>1, AllGroupsAt DEF Presented
<1>5. Ints(allU, SV)
  BY <1>4 DEF Ints
<1>6. ASSUME NEW g \in Groups, NEW m \in DOMAIN V[g], Label(g, m) \in SV
      PROVE  h[Label(g, m)] = Label(g, GroupKey(node, m))
  BY <1>0, <1>6, Unlabelled DEF LabelSets
<1> HIDE DEF h
<1>7. ASSUME NEW l \in SV PROVE h[l] \in SA
  <2>1. PICK g, m : g \in Groups /\ m \in DOMAIN V[g] /\ l = Label(g, m)
    BY <1>4
  <2>2. /\ GroupKey(outer, Label(g, GroupKey(node, m))) = key
        /\ GroupKey(node, m) \in DOMAIN A[g]
    BY <1>0, <2>1, MembersMeet DEF Members
  <2> QED
    BY <1>1, <1>6, <2>1, <2>2, AllGroupsAt DEF Members
<1>8. ASSUME NEW t \in SA PROVE allA[t].v = Total(allU, Fibre(h, SV, t))
  <2>1. PICK g, k : Presented(A, t, g, k)
    BY <1>1, AllGroupsAt DEF Members
  <2>2. g \in Groups /\ k \in DOMAIN A[g] /\ t = Label(g, k) /\ allA[t] = A[g][k]
    BY <1>1, <2>1, AllGroupsAt DEF Presented
  <2> DEFINE M == Members(node, V[g], k)
             r == [m \in M |-> Label(g, m)]
             F == Fibre(h, SV, t)
  <2>3. A[g][k].v = Total(U[g], M)
    BY <2>2
  <2>4. M \in SUBSET DOMAIN V[g] /\ IsFiniteSet(M) /\ Ints(U[g], M)
    BY <1>0, <2>2, FS_Subset DEF Members, Ints
  <2>5. \A m \in M : IsLabelSet(m)
    BY <1>0, <2>2, <2>4 DEF LabelSets
  <2>6. F \in SUBSET SV /\ IsFiniteSet(F)
    BY <1>3, FS_Subset DEF Fibre
  <2>7. ASSUME NEW m \in M PROVE r[m] \in F /\ allU[r[m]].v = U[g][m].v
    <3>1. m \in DOMAIN V[g] /\ GroupKey(node, m) = k /\ r[m] = Label(g, m)
      BY <2>4 DEF Members
    <3>2. GroupKey(node, Label(g, m)) = key
      BY <1>0, <2>2, <3>1, MembersMeet DEF Members
    <3>3. Label(g, m) \in SV
      BY <1>0, <2>2, <3>1, <3>2, AllGroupsAt DEF Members
    <3>4. h[Label(g, m)] = t
      BY <1>6, <2>2, <3>1, <3>3
    <3>5. allU[Label(g, m)] = U[g][m]
      BY <1>2, <2>2, <3>1, AllGroupsAt
    <3> QED
      BY <3>1, <3>3, <3>4, <3>5 DEF Fibre
  <2>8. ASSUME NEW l \in F PROVE \E m \in M : r[m] = l
    <3>1. l \in SV /\ h[l] = t
      BY DEF Fibre
    <3>2. PICK f, m : f \in Groups /\ m \in DOMAIN V[f] /\ l = Label(f, m)
      BY <1>4, <3>1
    <3>3. Label(f, GroupKey(node, m)) = Label(g, k)
      BY <1>6, <2>2, <3>1, <3>2
    <3>4. IsLabelSet(GroupKey(node, m)) /\ IsLabelSet(k)
      BY <1>0, <1>1, <2>2, <3>2, KeyOfLabelSet DEF LabelSets
    <3>5. f = g /\ GroupKey(node, m) = k
      BY <3>3, <3>4, LabelOnce
    <3> QED
      BY <3>2, <3>5 DEF Members
  <2>9. ASSUME NEW m \in M, NEW n \in M, r[m] = r[n] PROVE m = n
    BY <2>5, <2>9, LabelOnce
  <2> HIDE DEF r, F, M
  <2>10. Total(allU, F) = Total(U[g], M)
    BY <2>4, <2>6, <2>7, <2>8, <2>9, TotalRenamed
  <2> QED
    BY <2>2, <2>3, <2>10 DEF F
<1>9. IsFiniteSet(SA)
  <2>1. \A g \in Groups : IsFiniteSet(DOMAIN A[g])
    <3> TAKE g \in Groups
    <3> DEFINE f == [m \in DOMAIN V[g] |-> GroupKey(node, m)]
    <3>0. DOMAIN A[g] = {GroupKey(node, m) : m \in DOMAIN V[g]}
      BY <1>0, EachGroupAt, Zenon
    <3>1. DOMAIN A[g] = {f[m] : m \in DOMAIN f} /\ IsFiniteSet(DOMAIN f)
      BY <1>0, <3>0
    <3> HIDE DEF f
    <3> QED
      BY <3>1, FiniteImage
  <2>2. IsFiniteSet(DOMAIN allA)
    BY <1>0, <1>1, <2>1, AllGroupsFinite
  <2> QED
    BY <2>2, FS_Subset DEF Members
<1> HIDE DEF SA, SV
<1> QED
  BY <1>3, <1>5, <1>7, <1>8, <1>9, TotalFibres DEF SA, SV

(* The aggregation sum of floats. *)
LEMMA SumIs ==
  ASSUME NEW vec, NEW S, S # {}, \A l \in S : vec[l].k = "float"
  PROVE  Combine("sum", vec, S) = Float(Total(vec, S))
<1> DEFINE x == CHOOSE x \in {vec[l] : l \in S} : TRUE
<1>1. Combine("sum", vec, S) = [k |-> x.k, v |-> Total(vec, S)]
  BY Zenon DEF Combine
<1>2. x \in {vec[l] : l \in S}
  OBVIOUS
<1>3. x.k = "float"
  BY <1>2
<1> QED
  BY <1>1, <1>3 DEF Float

(* The aggregation promxy makes of the groups' answers. *)
Recombine(node) == IF node.op = "count" THEN [node EXCEPT !.op = "sum"] ELSE node

(* The sum of the groups' sums is the sum of all; the sum of the groups' counts
   is the count of all. *)
LEMMA SumRecombined ==
  ASSUME NEW node, node.op \in {"sum", "count"}, "op" \in DOMAIN node, IsFunction(node), NEW V, Vectors(V)
  PROVE  AggregateOf(Recombine(node), AllGroups(EachGroup(node, V))) = AggregateOf(node, AllGroups(V))
<1> DEFINE A == EachGroup(node, V)
           allA == AllGroups(A)
           allV == AllGroups(V)
           outer == Recombine(node)
<1>0. /\ node.op \in KeyedOps /\ LabelSets(V) /\ SameGrouping(outer, node)
      /\ outer.op = "sum" /\ outer.op \in KeyedOps
  BY DEF KeyedOps, Vectors, SameGrouping, Recombine, IsFunction
<1> HIDE DEF outer
<1>1. LabelSets(A)
  BY <1>0, EachGroupAt
<1>2. DOMAIN AggregateOf(outer, allA) = DOMAIN AggregateOf(node, allV)
  BY <1>0, KeysMeet
<1>3. \A g \in Groups : IsFiniteSet(DOMAIN V[g]) /\ \A m \in DOMAIN V[g] : V[g][m].k = "float" /\ V[g][m].v \in Int
  BY DEF Vectors
<1>4. ASSUME NEW g \in Groups, NEW k \in DOMAIN A[g]
      PROVE  /\ A[g][k].k = "float"
             /\ node.op = "sum" => A[g][k].v = Total(V[g], Members(node, V[g], k))
             /\ node.op = "count" => A[g][k].v = Cardinality(Members(node, V[g], k))
  <2>1. /\ A[g][k] = Combine(node.op, V[g], Members(node, V[g], k))
        /\ Members(node, V[g], k) # {} /\ Members(node, V[g], k) \subseteq DOMAIN V[g]
    BY <1>0, EachGroupAt
  <2>2. CASE node.op = "sum"
    <3>1. \A l \in Members(node, V[g], k) : V[g][l].k = "float"
      BY <1>3, <2>1
    <3> QED
      BY <2>1, <2>2, <3>1, SumIs DEF Float
  <2>3. CASE node.op = "count"
    BY <2>1, <2>3, CombineIs DEF Float
  <2> QED
    BY <2>2, <2>3
<1>5. ASSUME NEW l \in DOMAIN allA PROVE allA[l].k = "float"
  <2>1. PICK g, k : Presented(A, l, g, k)
    BY <1>1, AllGroupsAt
  <2>2. g \in Groups /\ k \in DOMAIN A[g] /\ allA[l] = A[g][k]
    BY <1>1, <2>1, AllGroupsAt DEF Presented
  <2> QED
    BY <1>4, <2>2
<1>6. ASSUME NEW key \in DOMAIN AggregateOf(node, allV)
      PROVE  AggregateOf(outer, allA)[key] = AggregateOf(node, allV)[key]
  <2> DEFINE SA == Members(outer, allA, key)
             SV == Members(node, allV, key)
  <2>1. /\ AggregateOf(node, allV)[key] = Combine(node.op, allV, SV)
        /\ SV # {} /\ SV \subseteq DOMAIN allV
    BY <1>0, KeyedAggregate, Zenon
  <2>2. /\ AggregateOf(outer, allA)[key] = Combine("sum", allA, SA)
        /\ SA # {} /\ SA \subseteq DOMAIN allA
    BY <1>0, <1>2, KeyedAggregate, Zenon
  <2>3. AggregateOf(outer, allA)[key] = Float(Total(allA, SA))
    BY <1>5, <2>2, SumIs
  <2>4. CASE node.op = "sum"
    <3>1. \A g \in Groups : DOMAIN V[g] = DOMAIN V[g] /\ Ints(V[g], DOMAIN V[g])
      BY <1>3 DEF Ints
    <3>2. \A g \in Groups : \A k \in DOMAIN A[g] : A[g][k].v = Total(V[g], Members(node, V[g], k))
      BY <1>4, <2>4
    <3>3. Total(allA, SA) = Total(allV, SV)
      BY <1>0, <3>1, <3>2, SumOfSums
    <3>4. \A l \in SV : allV[l].k = "float"
      BY <2>1, AllGroupsVector
    <3>5. AggregateOf(node, allV)[key] = Float(Total(allV, SV))
      BY <2>1, <2>4, <3>4, SumIs
    <3> QED
      BY <2>3, <3>3, <3>5
  <2>5. CASE node.op = "count"
    <3> DEFINE ones == [m \in DOMAIN allV |-> Float(1)]
               U == [g \in Groups |-> [m \in DOMAIN V[g] |-> Float(1)]]
               allU == AllGroups(U)
    <3>1. \A g \in Groups : DOMAIN U[g] = DOMAIN V[g] /\ \A m \in DOMAIN V[g] : U[g][m].v = 1
      BY DEF Float
    <3>2. \A g \in Groups : DOMAIN U[g] = DOMAIN V[g] /\ Ints(U[g], DOMAIN V[g])
      BY <3>1 DEF Ints
    <3> HIDE DEF U
    <3>3. ASSUME NEW g \in Groups, NEW k \in DOMAIN A[g]
          PROVE  A[g][k].v = Total(U[g], Members(node, V[g], k))
      <4> DEFINE M == Members(node, V[g], k)
      <4>1. A[g][k].v = Cardinality(M)
        BY <1>4, <2>5
      <4>2. M \in SUBSET DOMAIN V[g]
        BY DEF Members
      <4>3. Total(U[g], M) = Cardinality(M)
        BY <1>3, <3>1, <4>2, TotalOfOnes
      <4> QED
        BY <4>1, <4>3
    <3>4. Total(allA, SA) = Total(allU, SV)
      BY <1>0, <3>2, <3>3, SumOfSums
    <3>5. LabelSets(U)
      BY <1>0, <3>1 DEF LabelSets
    <3>6. ASSUME NEW l \in DOMAIN allV PROVE allU[l].v = 1
      <4>1. PICK g, m : Presented(V, l, g, m)
        BY <1>0, AllGroupsAt
      <4>2. allU[l] = U[g][m]
        BY <3>1, <3>5, <4>1, AllGroupsAt DEF Presented
      <4> QED
        BY <3>1, <4>1, <4>2 DEF Presented
    <3>7. Total(allU, SV) = Cardinality(SV)
      BY <2>1, <3>6, AllGroupsVector, TotalOfOnes
    <3> QED
      BY <2>1, <2>3, <2>5, <3>4, <3>7, CombineIs
  <2> QED
    BY <2>4, <2>5
<1>7. IsFunction(AggregateOf(outer, allA)) /\ IsFunction(AggregateOf(node, allV))
  BY <1>0, KeyedAggregate
<1>8. AggregateOf(outer, allA) = AggregateOf(node, allV)
  BY <1>2, <1>6, <1>7, Zenon DEF IsFunction
<1> QED
  BY <1>8 DEF outer

PushedOps == {"sum", "min", "max", "topk", "bottomk", "group", "count"}

(* The AggregateExpr case of NodeReplacer: aggregating, with the same grouping,
   what every group aggregated over its own series gives what aggregating the
   series of all groups gives, counts being summed. *)
THEOREM Recombined ==
  ASSUME NEW node, node.op \in PushedOps, "op" \in DOMAIN node, IsFunction(node), NEW V, Vectors(V)
  PROVE  AggregateOf(Recombine(node), AllGroups(EachGroup(node, V))) = AggregateOf(node, AllGroups(V))
<1>1. CASE node.op \in {"sum", "count"}
  BY <1>1, SumRecombined
<1>2. CASE node.op \notin {"sum", "count"}
  <2>1. Recombine(node) = node
    BY <1>2 DEF Recombine
  <2> QED
    BY <1>2, <2>1, ExtremeRecombined, TopKRecombined, GroupRecombined DEF PushedOps
<1> QED
  BY <1>1, <1>2

---------------------------------------------------------------------------
(* Queries recognised as being over native histograms.                     *)

(* Prefixes, position by position. *)
LEMMA Prefix ==
  ASSUME NEW p \in Seq(1..2), NEW r \in Seq(1..2)
  PROVE  IsPrefix(p, r) <=> Len(p) <= Len(r) /\ \A i \in 1..Len(p) : p[i] = r[i]
BY DEF IsPrefix

(* A prefix of a prefix is one. *)
LEMMA PrefixTransitive ==
  ASSUME NEW p \in Seq(1..2), NEW q \in Seq(1..2), NEW r \in Seq(1..2), IsPrefix(p, q), IsPrefix(q, r)
  PROVE  IsPrefix(p, r)
<1>1. /\ Len(p) <= Len(q) /\ \A i \in 1..Len(p) : p[i] = q[i]
      /\ Len(q) <= Len(r) /\ \A i \in 1..Len(q) : q[i] = r[i]
  BY Prefix
<1>2. Len(p) <= Len(r) /\ \A i \in 1..Len(p) : p[i] = r[i]
  BY <1>1
<1> QED
  BY <1>2, Prefix

(* A path is its prefix and the rest. *)
LEMMA PrefixSuffix ==
  ASSUME NEW p \in Seq(1..2), NEW r \in Seq(1..2), IsPrefix(p, r)
  PROVE  p \o SubSeq(r, Len(p) + 1, Len(r)) = r
<1>1. Len(p) <= Len(r) /\ \A i \in 1..Len(p) : p[i] = r[i]
  BY Prefix
<1> QED
  BY <1>1

(* The nodes of a subtree are those of the tree below its root. *)
LEMMA UnderAt ==
  ASSUME NEW t, DOMAIN t \subseteq Seq(1..2), NEW p \in DOMAIN t
  PROVE  /\ \A q \in DOMAIN Subtree(t, p) : /\ p \o q \in DOMAIN t /\ IsPrefix(p, p \o q)
                                            /\ Subtree(t, p)[q] = t[p \o q]
         /\ \A r \in DOMAIN t : IsPrefix(p, r) =>
              \E q \in DOMAIN Subtree(t, p) : r = p \o q /\ Subtree(t, p)[q] = t[r]
<1> DEFINE Suffix(r) == SubSeq(r, Len(p) + 1, Len(r))
           D == {Suffix(r) : r \in Below(t, p)}
<1>0. Subtree(t, p) = [q \in D |-> t[p \o q]]
  BY DEF Subtree
<1>1. \A r \in Below(t, p) : r \in DOMAIN t /\ IsPrefix(p, r)
  BY DEF Below
<1>2. \A r \in Below(t, p) : p \o Suffix(r) = r
  BY <1>1, PrefixSuffix
<1> HIDE DEF Suffix
<1>3. \A q \in D : p \o q \in Below(t, p)
  BY <1>2
<1>4. \A q \in DOMAIN Subtree(t, p) : q \in D /\ Subtree(t, p)[q] = t[p \o q]
  BY <1>0
<1>5. ASSUME NEW r \in DOMAIN t, IsPrefix(p, r)
      PROVE  \E q \in DOMAIN Subtree(t, p) : r = p \o q /\ Subtree(t, p)[q] = t[r]
  <2>1. r \in Below(t, p)
    BY <1>5 DEF Below
  <2>2. Suffix(r) \in D /\ p \o Suffix(r) = r
    BY <1>2, <2>1
  <2> QED
    BY <1>0, <2>2
<1> QED
  BY <1>1, <1>3, <1>4, <1>5

RootVisit == [path |-> <<>>, root |-> <<>>, stmt |-> query.stmt]

(* The query is recognised as one over histograms before anything is sent:
   by the metadata caches, or by the function at its root. *)
Recognised ==
  \/ query.cached
  \/ /\ query.tree[<<>>].kind = "call" /\ query.tree[<<>>].fn \in HistogramOnlyFuncs
     /\ \A p \in DOMAIN query.tree : query.tree[p].kind # "subquery"

(* Nothing of such a query is sent or replaced, and the walk gets past the
   root only if no group would lose the histograms. *)
LeftAlone ==
  /\ tree = query.tree
  /\ sent = {}
  /\ \A w \in todo : w.path \in DOMAIN tree /\ (query.cached \/ w.root = <<>>)
  /\ todo = {RootVisit} \/ failed \/ StrictMissingRemoteRead = {}

RecognisedInvariant == query \in Cases /\ (Recognised => LeftAlone)

(* What the parser guarantees of the query. *)
LEMMA QueryIs ==
  ASSUME RecognisedInvariant
  PROVE  /\ <<>> \in DOMAIN query.tree /\ DOMAIN query.tree \subseteq Seq(1..2)
         /\ \E p \in DOMAIN query.tree : query.tree[p].kind = "selector"
         /\ \A p \in DOMAIN query.tree : query.tree[p].kind = "selector" => ~query.tree[p].fetched
         /\ \A p \in DOMAIN query.tree : query.tree[p].kind = "subquery" =>
              \E q \in DOMAIN query.tree : query.tree[q].kind = "selector" /\ IsPrefix(p, q)
BY CasesAssumption DEF RecognisedInvariant, IsQuery

(* No node of a recognised query is sent: a selector below it is known to be
   of a histogram metric, or there is nothing below it to send. *)
LEMMA RecognisedBlocks ==
  ASSUME RecognisedInvariant, Recognised, NEW w \in todo
  PROVE  Blocked(w)
<1> DEFINE U == Subtree(tree, w.path)
<1>0. tree = query.tree /\ w.path \in DOMAIN tree /\ DOMAIN tree \subseteq Seq(1..2) /\ Under(w) = U
  BY QueryIs DEF RecognisedInvariant, LeftAlone, Under
<1>1. CASE \E r \in DOMAIN tree : tree[r].kind = "selector" /\ IsPrefix(w.path, r) /\ query.cached
  <2>1. PICK r \in DOMAIN tree : tree[r].kind = "selector" /\ IsPrefix(w.path, r) /\ query.cached
    BY <1>1
  <2>2. PICK q \in DOMAIN U : r = w.path \o q /\ U[q] = tree[r]
    <3> DEFINE p == w.path
    <3>1. p \in DOMAIN tree /\ DOMAIN tree \subseteq Seq(1..2) /\ IsPrefix(p, r)
      BY <1>0, <2>1
    <3> HIDE DEF p
    <3>2. \E q \in DOMAIN Subtree(tree, p) : r = p \o q /\ Subtree(tree, p)[q] = tree[r]
      BY <3>1, UnderAt
    <3> QED
      BY <3>2 DEF p
  <2>3. U[q].kind = "selector" /\ ~U[q].fetched
    BY <1>0, <2>1, <2>2, QueryIs
  <2> QED
    BY <1>0, <2>1, <2>3 DEF Blocked, IsHistogramExpr
<1>2. CASE query.cached /\ ~\E r \in DOMAIN tree : tree[r].kind = "selector" /\ IsPrefix(w.path, r)
  <2>1. ASSUME NEW r \in DOMAIN tree, IsPrefix(w.path, r) PROVE tree[r].kind \notin {"selector", "subquery"}
    <3>1. tree[r].kind # "selector"
      BY <1>2, <2>1
    <3>2. ASSUME tree[r].kind = "subquery" PROVE FALSE
      <4>1. PICK q \in DOMAIN tree : tree[q].kind = "selector" /\ IsPrefix(r, q)
        BY <1>0, <3>2, QueryIs
      <4>2. IsPrefix(w.path, q)
        BY <1>0, <2>1, <4>1, PrefixTransitive
      <4> QED
        BY <1>2, <4>1, <4>2
    <3> QED
      BY <3>1, <3>2
  <2>2. IsPrefix(w.path, w.path)
    BY <1>0 DEF IsPrefix
  <2>3. Node(w).kind # "subquery"
    BY <1>0, <2>1, <2>2 DEF Node
  <2>4. \A q \in DOMAIN U : U[q].kind \notin {"selector", "subquery"}
    BY <1>0, <2>1, UnderAt
  <2>5. Offsets(w) = {}
    BY <1>0, <2>3, <2>4 DEF Offsets
  <2>6. Cardinality(Offsets(w)) = 0
    BY <2>5, FS_EmptySet
  <2> QED
    BY <2>6 DEF Blocked
<1>3. CASE ~query.cached
  <2>1. /\ tree[<<>>].kind = "call" /\ tree[<<>>].fn \in HistogramOnlyFuncs /\ w.root = <<>>
        /\ <<>> \in DOMAIN tree
    BY <1>0, <1>3, QueryIs DEF Recognised, RecognisedInvariant, LeftAlone
  <2>2. IsPrefix(<<>>, w.path) /\ IsPrefix(<<>>, <<>>)
    BY <1>0 DEF IsPrefix
  <2>3. CASE w.path = <<>>
    <3>1. PICK q \in DOMAIN U : U[q] = tree[<<>>]
      BY <1>0, <2>1, <2>2, <2>3, UnderAt
    <3>2. Calls(U, HistogramOnlyFuncs)
      BY <2>1, <3>1 DEF Calls
    <3> QED
      BY <1>0, <3>2 DEF Blocked, IsHistogramExpr
  <2>4. CASE w.path # <<>>
    <3>1. IsPrefix(w.root, <<>>) /\ IsStrictPrefix(<<>>, w.path)
      BY <2>1, <2>2, <2>4 DEF IsStrictPrefix
    <3> QED
      BY <2>1, <3>1 DEF Blocked, IsHistogramExpr
  <2> QED
    BY <2>3, <2>4
<1> QED
  BY <1>1, <1>2, <1>3

(* At the root, the query fails unless no group is missing remote_read. *)
LEMMA RootRecognised ==
  ASSUME RecognisedInvariant, Recognised, NEW w \in todo, w = RootVisit, ~FailsHistogram(w)
  PROVE  StrictMissingRemoteRead = {}
<1> DEFINE U == Subtree(tree, <<>>)
<1>0. tree = query.tree /\ <<>> \in DOMAIN tree /\ DOMAIN tree \subseteq Seq(1..2) /\ Under(w) = U /\ w.path = <<>>
  BY QueryIs DEF RecognisedInvariant, LeftAlone, Under, RootVisit
<1>1. ~BelowSubquery(w)
  <2>1. ASSUME NEW p \in DOMAIN tree, IsStrictPrefix(p, <<>>) PROVE FALSE
    BY <1>0, <2>1 DEF IsStrictPrefix, IsPrefix
  <2> QED
    BY <1>0, <2>1 DEF BelowSubquery
<1>2. \A r \in DOMAIN tree : IsPrefix(<<>>, r)
  BY <1>0 DEF IsPrefix
<1>3. \A r \in DOMAIN tree : \E q \in DOMAIN U : U[q] = tree[r]
  BY <1>0, <1>2, UnderAt
<1>4. IsHistogramExpr(w)
  <2>1. CASE query.cached
    <3>1. PICK p \in DOMAIN tree : tree[p].kind = "selector" /\ ~tree[p].fetched
      BY <1>0, QueryIs
    <3> QED
      BY <1>0, <1>3, <2>1, <3>1 DEF IsHistogramExpr
  <2>2. CASE ~query.cached
    <3>1. tree[<<>>].kind = "call" /\ tree[<<>>].fn \in HistogramOnlyFuncs
      BY <1>0, <2>2 DEF Recognised
    <3>2. Calls(U, HistogramOnlyFuncs)
      BY <1>0, <1>3, <3>1 DEF Calls
    <3> QED
      BY <1>0, <3>2 DEF IsHistogramExpr
  <2> QED
    BY <2>1, <2>2
<1> QED
  BY <1>1, <1>4 DEF FailsHistogram

(* A recognised query starts untouched. *)
LEMMA RecognisedInit == Init => RecognisedInvariant
BY CasesAssumption DEF Init, RecognisedInvariant, LeftAlone, IsQuery, RootVisit

(* Every step leaves a recognised query alone. *)
LEMMA RecognisedStep == RecognisedInvariant /\ [Next]_vars => RecognisedInvariant'
<1> SUFFICES ASSUME RecognisedInvariant, [Next]_vars PROVE RecognisedInvariant'
  OBVIOUS
<1>1. CASE UNCHANGED vars
  BY <1>1 DEF vars, RecognisedInvariant, Recognised, LeftAlone, RootVisit, StrictMissingRemoteRead
<1>2. CASE Next
  <2>0. query' = query
    BY <1>2 DEF Next, NodeReplacer, Answer, FailRequest, FailHistogram, LeaveBlocked, PushAggregate, PushCount,
      RewriteAvg, PushCountValues, LeaveAggregate, PushCall, LeaveCall, PushSelector, LeaveSelector, LeaveOther,
      EnterSubquery, PushBinaryVector, PushBinaryAggregate, LeaveBinary, Push, Leave
  <2>1. CASE ~Recognised
    BY <2>0, <2>1 DEF RecognisedInvariant, Recognised
  <2>2. CASE Recognised
    <3>1. sent = {} /\ tree = query.tree
      BY <2>2 DEF RecognisedInvariant, LeftAlone
    <3>2. PICK w \in todo : NodeReplacer(w)
      BY <1>2, <3>1 DEF Next
    <3>3. Blocked(w)
      BY <2>2, RecognisedBlocks
    <3>4. FailHistogram(w) \/ LeaveBlocked(w)
      BY <3>2, <3>3 DEF NodeReplacer, PushAggregate, PushCount, RewriteAvg, PushCountValues, LeaveAggregate, IsOp,
        PushCall, LeaveCall, IsCall, PushSelector, LeaveSelector, IsSelector, LeaveOther, EnterSubquery,
        PushBinaryVector, PushBinaryAggregate, LeaveBinary, LiteralOperator
    <3>5. CASE FailHistogram(w)
      BY <2>0, <2>2, <3>1, <3>5 DEF FailHistogram, RecognisedInvariant, LeftAlone
    <3>6. CASE LeaveBlocked(w)
      <4>1. tree' = tree /\ sent' = sent /\ failed' = failed /\ todo' = Descend(w, tree)
        BY <3>6 DEF LeaveBlocked, Leave
      <4>2. ASSUME NEW v \in todo' PROVE v.path \in DOMAIN tree /\ (query.cached \/ v.root = <<>>)
        <5>1. CASE v \in todo
          BY <2>2, <5>1 DEF RecognisedInvariant, LeftAlone
        <5>2. CASE v \notin todo
          <6>1. PICK p \in Children(tree, w.path) : v = [w EXCEPT !.path = p]
            BY <4>1, <5>2 DEF Descend
          <6>2. p \in DOMAIN tree
            BY DEF Children
          <6>3. w.root = v.root /\ v.path \in {p, w.path}
            BY <6>1
          <6> QED
            BY <2>2, <6>2, <6>3 DEF RecognisedInvariant, LeftAlone
        <5> QED
          BY <5>1, <5>2
      <4>3. failed \/ StrictMissingRemoteRead = {}
        <5>1. CASE todo = {RootVisit}
          BY <2>2, <3>6, <5>1, RootRecognised DEF LeaveBlocked
        <5>2. CASE todo # {RootVisit}
          BY <2>2, <5>2 DEF RecognisedInvariant, LeftAlone
        <5> QED
          BY <5>1, <5>2
      <4>4. StrictMissingRemoteRead' = StrictMissingRemoteRead
        BY <2>0 DEF StrictMissingRemoteRead
      <4> QED
        BY <2>0, <3>1, <4>1, <4>2, <4>3, <4>4 DEF RecognisedInvariant, LeftAlone
    <3> QED
      BY <3>4, <3>5, <3>6
  <2> QED
    BY <2>1, <2>2
<1> QED
  BY <1>1, <1>2

(* What is assumed of the series. *)
LEMMA CaseData ==
  ASSUME query \in Cases
  PROVE  /\ LabelSets(query.data)
         /\ \A g \in Groups : /\ IsFiniteSet(DOMAIN query.data[g])
              /\ \A l \in DOMAIN query.data[g] :
                   /\ DOMAIN query.data[g][l] \subseteq Int
                   /\ query.data[g][l] \in [DOMAIN query.data[g][l] -> [k : {"float", "hist"}, v : Int]]
BY CasesAssumption DEF IsSeriesSet, LabelSets, IsLabelSet, IsFunction

(* What the engine reads itself is what the groups hold, unless histograms
   come by the JSON API. *)
LEMMA SelectIsAll ==
  ASSUME query \in Cases, Groups \subseteq query.remoteRead \/ ~HistogramData
  PROVE  Select = AllSeries
<1> DEFINE all == AllGroups(query.data)
           Read(l) == [t \in DOMAIN all[l] |->
                         IF l["sg"] \in query.remoteRead THEN all[l][t] ELSE Json(all[l][t])]
<1>0. Select = [l \in DOMAIN all |-> Read(l)] /\ AllSeries = all /\ IsFunction(all)
  BY CaseData, AllGroupsAt DEF Select, AllSeries
<1>1. ASSUME NEW l \in DOMAIN all PROVE Read(l) = all[l]
  <2>1. PICK g, m : Presented(query.data, l, g, m)
    BY CaseData, AllGroupsAt
  <2>2. g \in Groups /\ m \in DOMAIN query.data[g] /\ l = Label(g, m) /\ all[l] = query.data[g][m]
    BY <2>1, CaseData, AllGroupsAt DEF Presented
  <2>3. l["sg"] = g
    BY <2>2, CaseData, Unlabelled DEF LabelSets
  <2>4. IsFunction(all[l])
    BY <2>2, CaseData DEF IsFunction
  <2>5. ASSUME NEW t \in DOMAIN all[l]
        PROVE  (IF l["sg"] \in query.remoteRead THEN all[l][t] ELSE Json(all[l][t])) = all[l][t]
    BY <2>2, <2>3 DEF HistogramData, Json
  <2> QED
    BY <2>4, <2>5 DEF IsFunction
<1> HIDE DEF Read
<1> QED
  BY <1>0, <1>1 DEF IsFunction

(* A query left alone is evaluated over what the groups hold. *)
LEMMA RecognisedExact ==
  ASSUME RecognisedInvariant, Recognised
  PROVE  HistogramsKept
<1> SUFFICES ASSUME Done, query.allowLossy = {} PROVE Exact
  BY DEF HistogramsKept
<1>1. StrictMissingRemoteRead = {} /\ tree = query.tree
  BY DEF Done, RecognisedInvariant, LeftAlone
<1>2. Groups \subseteq query.remoteRead
  BY <1>1 DEF StrictMissingRemoteRead
<1>3. Select = AllSeries
  BY <1>2, SelectIsAll DEF RecognisedInvariant
<1> QED
  BY <1>1, <1>3 DEF Exact

(* A query recognised as one over native histograms, by the metadata caches or by
   a histogram function at its root, fails or is answered exactly, whatever its
   expression: nothing of it goes through the lossy JSON API. *)
THEOREM RecognisedHistogramsKept == Spec => [](Recognised => HistogramsKept)
<1>1. Spec => []RecognisedInvariant
  BY RecognisedInit, RecognisedStep, PTL DEF Spec
<1>2. RecognisedInvariant => (Recognised => HistogramsKept)
  BY RecognisedExact
<1> QED
  BY <1>1, <1>2, PTL

---------------------------------------------------------------------------
(* Expressions every server group can answer for its own series: a selector,
   or a function over the range of one. *)

RangeFns == {"max_over_time", "count_over_time", "last_over_time"}
RangeOf(fn, range, sel) == Over(Call(fn), Over(Matrix(range), Leaf(sel)))
IsInner(expr, sel) ==
  /\ sel.kind = "selector"
  /\ \/ expr = Leaf(sel)
     \/ \E fn \in RangeFns, range \in Nat \ {0} : expr = RangeOf(fn, range, sel)

InnerValue(expr, series, u) ==
  IF expr[<<>>].kind = "selector"
  THEN SelectAt(Source(expr[<<>>], series), Ref(expr[<<>>], u))
  ELSE RangeCallOf(expr[<<>>].fn,
         Window(Source(expr[<<1, 1>>], series), expr[<<1>>].range, Ref(expr[<<1, 1>>], u)))

(* A tree of one node. *)
LEMMA LeafIs ==
  ASSUME NEW node
  PROVE  DOMAIN Leaf(node) = {<<>>} /\ Leaf(node)[<<>>] = node
BY DEF Leaf

(* A tree below a node. *)
LEMMA OverIs ==
  ASSUME NEW node, NEW expr, DOMAIN expr \subseteq Seq(1..2)
  PROVE  /\ \A p : p \in DOMAIN Over(node, expr) <=> p = <<>> \/ \E q \in DOMAIN expr : p = <<1>> \o q
         /\ Over(node, expr)[<<>>] = node
         /\ \A q \in DOMAIN expr : Over(node, expr)[<<1>> \o q] = expr[q]
         /\ DOMAIN Over(node, expr) \subseteq Seq(1..2)
<1>1. \A q \in Seq(1..2) : <<1>> \o q # <<>> /\ Tail(<<1>> \o q) = q /\ <<1>> \o q \in Seq(1..2)
  OBVIOUS
<1>2. <<>> \in Seq(1..2)
  OBVIOUS
<1> QED
  BY <1>1, <1>2 DEF Over

(* The paths of the small trees. *)
LEMMA Paths ==
  /\ <<>> \in Seq(1..2) /\ <<1>> \in Seq(1..2) /\ <<1, 1>> \in Seq(1..2)
  /\ <<1>> \o <<>> = <<1>> /\ <<1>> \o <<1>> = <<1, 1>>
  /\ <<>> # <<1>> /\ <<>> # <<1, 1>> /\ <<1>> # <<1, 1>>
<1>1. <<>> \in Seq(1..2) /\ <<1>> \in Seq(1..2) /\ <<1, 1>> \in Seq(1..2)
  OBVIOUS
<1>2. <<1>> \o <<>> = <<1>>
  OBVIOUS
<1>3. <<1>> \o <<1>> = <<1, 1>>
  <2> DEFINE s == <<1>> \o <<1>>
             r == <<1, 1>>
  <2>1. s \in Seq(1..2) /\ Len(s) = 2 /\ s[1] = 1 /\ s[2] = 1
    OBVIOUS
  <2>2. r \in Seq(1..2) /\ Len(r) = 2 /\ r[1] = 1 /\ r[2] = 1
    OBVIOUS
  <2> HIDE DEF s, r
  <2>3. \A i \in 1..Len(s) : s[i] = r[i]
    BY <2>1, <2>2
  <2>4. s = r
    BY <2>1, <2>2, <2>3, SeqEqual
  <2> QED
    BY <2>4 DEF s, r
<1>4. Len(<<>>) = 0 /\ Len(<<1>>) = 1 /\ Len(<<1, 1>>) = 2
  OBVIOUS
<1> QED
  BY <1>1, <1>2, <1>3, <1>4

(* The nodes of a function over a range. *)
LEMMA RangeIs ==
  ASSUME NEW fn, NEW range, NEW sel
  PROVE  LET expr == RangeOf(fn, range, sel)
         IN  /\ DOMAIN expr = {<<>>, <<1>>, <<1, 1>>}
             /\ expr[<<>>] = Call(fn) /\ expr[<<1>>] = Matrix(range) /\ expr[<<1, 1>>] = sel
<1> DEFINE M == Over(Matrix(range), Leaf(sel))
<1>1. DOMAIN Leaf(sel) = {<<>>} /\ DOMAIN Leaf(sel) \subseteq Seq(1..2) /\ Leaf(sel)[<<>>] = sel
  BY LeafIs, Paths
<1>2. DOMAIN M = {<<>>, <<1>>} /\ M[<<>>] = Matrix(range) /\ M[<<1>>] = sel /\ DOMAIN M \subseteq Seq(1..2)
  <2> DEFINE L == Leaf(sel)
  <2>1. /\ \A p : p \in DOMAIN M <=> p = <<>> \/ \E q \in DOMAIN L : p = <<1>> \o q
        /\ M[<<>>] = Matrix(range)
        /\ \A q \in DOMAIN L : M[<<1>> \o q] = L[q]
        /\ DOMAIN M \subseteq Seq(1..2)
    BY <1>1, OverIs
  <2> HIDE DEF M, L
  <2>2. M[<<1>> \o <<>>] = sel
    BY <1>1, <2>1 DEF L
  <2> QED
    BY <1>1, <2>1, <2>2, Paths DEF L
<1> HIDE DEF M
<1>3. /\ DOMAIN Over(Call(fn), M) = {<<>>, <<1>>, <<1, 1>>}
      /\ Over(Call(fn), M)[<<>>] = Call(fn)
      /\ Over(Call(fn), M)[<<1>>] = Matrix(range) /\ Over(Call(fn), M)[<<1, 1>>] = sel
  <2> DEFINE O == Over(Call(fn), M)
  <2>1. /\ \A p : p \in DOMAIN O <=> p = <<>> \/ \E q \in DOMAIN M : p = <<1>> \o q
        /\ O[<<>>] = Call(fn)
        /\ \A q \in DOMAIN M : O[<<1>> \o q] = M[q]
    <3>1. DOMAIN M \subseteq Seq(1..2)
      BY <1>2
    <3>2. \A p : p \in DOMAIN O <=> p = <<>> \/ \E q \in DOMAIN M : p = <<1>> \o q
      BY <3>1, OverIs, Zenon
    <3>3. O[<<>>] = Call(fn)
      BY <3>1, OverIs, Zenon
    <3>4. ASSUME NEW q \in DOMAIN M PROVE O[<<1>> \o q] = M[q]
      <4>1. \A r \in DOMAIN M : Over(Call(fn), M)[<<1>> \o r] = M[r]
        BY <3>1, OverIs
      <4> QED
        BY <4>1, Zenon
    <3> QED
      BY <3>2, <3>3, <3>4
  <2> HIDE DEF O
  <2>2. O[<<1>> \o <<>>] = Matrix(range) /\ O[<<1>> \o <<1>>] = sel
    BY <1>2, <2>1
  <2>3. DOMAIN O = {<<>>, <<1>>, <<1, 1>>}
    BY <1>2, <2>1, Paths
  <2> QED
    BY <2>1, <2>2, <2>3, Paths DEF O
<1> QED
  BY <1>3 DEF RangeOf, M

(* The nodes of an inner expression. *)
LEMMA InnerIs ==
  ASSUME NEW expr, NEW sel, IsInner(expr, sel)
  PROVE  /\ DOMAIN expr \subseteq Seq(1..2) /\ sel.kind = "selector"
         /\ \/ DOMAIN expr = {<<>>} /\ expr[<<>>] = sel
            \/ /\ DOMAIN expr = {<<>>, <<1>>, <<1, 1>>}
               /\ expr[<<>>].kind = "call" /\ expr[<<>>].fn \in RangeFns
               /\ expr[<<1>>].kind = "matrix" /\ expr[<<1>>].range \in Nat \ {0}
               /\ expr[<<1, 1>>] = sel
<1>1. CASE expr = Leaf(sel)
  BY <1>1, LeafIs, Paths DEF IsInner
<1>2. CASE \E fn \in RangeFns, range \in Nat \ {0} : expr = RangeOf(fn, range, sel)
  <2>1. PICK fn \in RangeFns, range \in Nat \ {0} : expr = RangeOf(fn, range, sel)
    BY <1>2
  <2>2. /\ DOMAIN expr = {<<>>, <<1>>, <<1, 1>>}
        /\ expr[<<>>] = Call(fn) /\ expr[<<1>>] = Matrix(range) /\ expr[<<1, 1>>] = sel
    BY <2>1, RangeIs
  <2> QED
    BY <2>2, Paths DEF Call, Matrix, IsInner
<1> QED
  BY <1>1, <1>2 DEF IsInner

(* The value of a node that looks at no other node. *)
LEMMA InnerNode ==
  ASSUME NEW expr, NEW sel, IsInner(expr, sel), NEW series, NEW val, NEW u,
         NEW t, NEW p \in Seq(1..2), \A q \in DOMAIN expr : t[p \o q] = expr[q]
  PROVE  ValueOf(t, series, val, p, u) = InnerValue(expr, series, u)
<1>1. p \o <<>> = p /\ Child(p, 1) = p \o <<1>> /\ Child(Child(p, 1), 1) = p \o <<1, 1>>
  BY DEF Child
<1>2. CASE DOMAIN expr = {<<>>} /\ expr[<<>>] = sel
  <2>1. t[p] = sel /\ sel.kind = "selector" /\ expr[<<>>] = sel
    BY <1>1, <1>2, InnerIs
  <2>2. ValueOf(t, series, val, p, u) = SelectAt(Source(sel, series), Ref(sel, u))
    BY <2>1, Zenon DEF ValueOf
  <2> QED
    BY <2>1, <2>2 DEF InnerValue
<1>3. CASE ~(DOMAIN expr = {<<>>} /\ expr[<<>>] = sel)
  <2>1. /\ t[p] = expr[<<>>] /\ t[Child(p, 1)] = expr[<<1>>] /\ t[Child(Child(p, 1), 1)] = expr[<<1, 1>>]
        /\ t[p].kind = "call" /\ t[Child(p, 1)].kind = "matrix"
    <3>1. DOMAIN expr = {<<>>, <<1>>, <<1, 1>>} /\ expr[<<>>].kind = "call" /\ expr[<<1>>].kind = "matrix"
      BY <1>3, InnerIs
    <3>2. t[p \o <<>>] = expr[<<>>] /\ t[p \o <<1>>] = expr[<<1>>] /\ t[p \o <<1, 1>>] = expr[<<1, 1>>]
      BY <3>1
    <3> QED
      BY <1>1, <3>1, <3>2
  <2>2. ValueOf(t, series, val, p, u) =
          RangeCallOf(t[p].fn, Window(Source(t[Child(Child(p, 1), 1)], series), t[Child(p, 1)].range,
                                      Ref(t[Child(Child(p, 1), 1)], u)))
    BY <2>1, Zenon DEF ValueOf
  <2> QED
    BY <2>1, <2>2 DEF InnerValue
<1> QED
  BY <1>2, <1>3

(* A node whose value does not depend on that of another node. *)
IsClosed(t, p) ==
  \/ t[p].kind \in {"selector", "matrix", "literal"}
  \/ t[p].kind = "call" /\ t[Child(p, 1)].kind = "matrix"

(* The value of such a node is the same whatever the others have. *)
LEMMA ClosedValue ==
  ASSUME NEW t, NEW p, IsClosed(t, p), NEW series, NEW v1, NEW v2, NEW u
  PROVE  ValueOf(t, series, v1, p, u) = ValueOf(t, series, v2, p, u)
<1>1. CASE t[p].kind = "selector"
  BY <1>1, Zenon DEF ValueOf
<1>2. CASE t[p].kind \in {"matrix", "literal"}
  <2>1. CASE t[p].kind = "matrix"
    BY <2>1, Zenon DEF ValueOf
  <2>2. CASE t[p].kind = "literal"
    BY <2>2, Zenon DEF ValueOf
  <2> QED
    BY <1>2, <2>1, <2>2
<1>3. CASE t[p].kind = "call" /\ t[Child(p, 1)].kind = "matrix"
  <2>1. \A v : ValueOf(t, series, v, p, u) =
                 RangeCallOf(t[p].fn, Window(Source(t[Child(Child(p, 1), 1)], series), t[Child(p, 1)].range,
                                             Ref(t[Child(Child(p, 1), 1)], u)))
    BY <1>3, Zenon DEF ValueOf
  <2> QED
    BY <2>1
<1> QED
  BY <1>1, <1>2, <1>3 DEF IsClosed

(* An expression of such nodes only. *)
LEMMA EvalClosed ==
  ASSUME NEW t, <<>> \in DOMAIN t, \A p \in DOMAIN t : IsClosed(t, p), NEW series, NEW u \in 0..Horizon
  PROVE  Eval(t, series, u) = ValueOf(t, series, <<>>, <<>>, u)
<1> DEFINE C(p, w) == ValueOf(t, series, <<>>, p, w)
           G == [p \in DOMAIN t |-> [w \in 0..Horizon |-> C(p, w)]]
<1>1. \A val : \A p \in DOMAIN t, w \in 0..Horizon : ValueOf(t, series, val, p, w) = C(p, w)
  <2>1. ASSUME NEW val, NEW p \in DOMAIN t, NEW w \in 0..Horizon
        PROVE  ValueOf(t, series, val, p, w) = ValueOf(t, series, <<>>, p, w)
    <3>1. IsClosed(t, p)
      OBVIOUS
    <3> QED
      BY <3>1, ClosedValue
  <2> QED
    BY <2>1
<1> HIDE DEF C
<1>2. Evaluates(G, t, series)
  <2> DEFINE V == [p \in DOMAIN t |-> [w \in 0..Horizon |-> ValueOf(t, series, G, p, w)]]
  <2> HIDE DEF G
  <2>1. \A p \in DOMAIN t, w \in 0..Horizon : ValueOf(t, series, G, p, w) = C(p, w)
    BY <1>1
  <2>2. V = [p \in DOMAIN t |-> [w \in 0..Horizon |-> C(p, w)]]
    BY <2>1
  <2> QED
    BY <2>2 DEF Evaluates, G
<1>3. PICK val : Evaluates(val, t, series) /\ Eval(t, series, u) = val[<<>>][u]
  BY <1>2, EvalBy
<1>4. val[<<>>][u] = ValueOf(t, series, val, <<>>, u)
  BY <1>3, EvaluatesAt
<1> QED
  BY <1>1, <1>3, <1>4 DEF C

(* The root has a child. *)
HasChild(t) == {<<>>, <<1>>} \subseteq DOMAIN t

(* An aggregation over such nodes. *)
LEMMA EvalAggregateOver ==
  ASSUME NEW t, HasChild(t), t[<<>>].kind = "aggregate",
         \A p \in DOMAIN t : p # <<>> => IsClosed(t, p), NEW series, NEW u \in 0..Horizon
  PROVE  Eval(t, series, u) = AggregateOf(t[<<>>], ValueOf(t, series, <<>>, <<1>>, u))
<1> <<>> \in DOMAIN t /\ <<1>> \in DOMAIN t
  BY DEF HasChild
<1> DEFINE C(p, w) == IF p = <<>> THEN AggregateOf(t[<<>>], ValueOf(t, series, <<>>, <<1>>, w))
                                  ELSE ValueOf(t, series, <<>>, p, w)
           G == [p \in DOMAIN t |-> [w \in 0..Horizon |-> C(p, w)]]
<1>1. \A val : \A p \in DOMAIN t, w \in 0..Horizon :
        p # <<>> => ValueOf(t, series, val, p, w) = ValueOf(t, series, <<>>, p, w)
  <2>1. ASSUME NEW val, NEW p \in DOMAIN t, NEW w \in 0..Horizon, p # <<>>
        PROVE  ValueOf(t, series, val, p, w) = ValueOf(t, series, <<>>, p, w)
    <3>1. IsClosed(t, p)
      BY <2>1
    <3> QED
      BY <3>1, ClosedValue
  <2> QED
    BY <2>1
<1>2. \A val, w : ValueOf(t, series, val, <<>>, w) = AggregateOf(t[<<>>], val[Child(<<>>, 1)][w])
  BY Zenon DEF ValueOf
<1>3. Child(<<>>, 1) = <<1>> /\ <<1>> # <<>>
  BY DEF Child
<1>4. Evaluates(G, t, series)
  <2>0. \A w \in 0..Horizon : G[<<1>>][w] = ValueOf(t, series, <<>>, <<1>>, w)
    BY <1>3
  <2> DEFINE V == [p \in DOMAIN t |-> [w \in 0..Horizon |-> ValueOf(t, series, G, p, w)]]
  <2> HIDE DEF G
  <2>1. ASSUME NEW p \in DOMAIN t, NEW w \in 0..Horizon PROVE ValueOf(t, series, G, p, w) = C(p, w)
    BY <1>1, <1>2, <1>3, <2>0
  <2> HIDE DEF C
  <2>2. V = [p \in DOMAIN t |-> [w \in 0..Horizon |-> C(p, w)]]
    BY <2>1
  <2> QED
    BY <2>2 DEF Evaluates, G
<1>5. PICK val : Evaluates(val, t, series) /\ Eval(t, series, u) = val[<<>>][u]
  BY <1>4, EvalBy
<1>6. /\ val[<<>>][u] = ValueOf(t, series, val, <<>>, u)
      /\ val[<<1>>][u] = ValueOf(t, series, val, <<1>>, u)
  BY <1>5, EvaluatesAt
<1> QED
  BY <1>1, <1>2, <1>3, <1>5, <1>6

(* Inner expressions consist of such nodes. *)
LEMMA InnerClosed ==
  ASSUME NEW expr, NEW sel, IsInner(expr, sel), NEW t, NEW p \in Seq(1..2),
         \A q \in DOMAIN expr : t[p \o q] = expr[q]
  PROVE  \A q \in DOMAIN expr : IsClosed(t, p \o q)
<1>0. p \o <<>> = p /\ Child(p, 1) = p \o <<1>>
  BY DEF Child
<1>1. CASE DOMAIN expr = {<<>>} /\ expr[<<>>] = sel
  BY <1>1, InnerIs DEF IsClosed
<1>2. CASE ~(DOMAIN expr = {<<>>} /\ expr[<<>>] = sel)
  <2>1. /\ DOMAIN expr = {<<>>, <<1>>, <<1, 1>>} /\ expr[<<>>].kind = "call"
        /\ expr[<<1>>].kind = "matrix" /\ expr[<<1, 1>>].kind = "selector"
    BY <1>2, InnerIs
  <2>2. t[p \o <<>>].kind = "call" /\ t[p \o <<1>>].kind = "matrix" /\ t[p \o <<1, 1>>].kind = "selector"
    BY <2>1
  <2>3. IsClosed(t, p \o <<>>) /\ IsClosed(t, p \o <<1>>) /\ IsClosed(t, p \o <<1, 1>>)
    BY <1>0, <2>2 DEF IsClosed
  <2> QED
    BY <2>1, <2>3
<1> QED
  BY <1>1, <1>2

(* The engine's value of an inner expression. *)
LEMMA EvalInner ==
  ASSUME NEW expr, NEW sel, IsInner(expr, sel), NEW series, NEW u \in 0..Horizon
  PROVE  Eval(expr, series, u) = InnerValue(expr, series, u)
<1>1. \A q \in DOMAIN expr : <<>> \o q = q
  BY InnerIs, ConcatEmptySeq
<1>2. \A q \in DOMAIN expr : expr[<<>> \o q] = expr[q]
  BY <1>1
<1>3. \A q \in DOMAIN expr : IsClosed(expr, q)
  <2> DEFINE p == <<>>
  <2>1. p \in Seq(1..2) /\ \A q \in DOMAIN expr : expr[p \o q] = expr[q]
    BY <1>2, Paths
  <2>2. \A q \in DOMAIN expr : p \o q = q
    BY <1>1
  <2> HIDE DEF p
  <2>3. \A q \in DOMAIN expr : IsClosed(expr, p \o q)
    BY <2>1, InnerClosed
  <2> QED
    BY <2>2, <2>3
<1>4. <<>> \in DOMAIN expr
  BY InnerIs
<1>5. Eval(expr, series, u) = ValueOf(expr, series, <<>>, <<>>, u)
  BY <1>3, <1>4, EvalClosed
<1>6. ValueOf(expr, series, <<>>, <<>>, u) = InnerValue(expr, series, u)
  <2> DEFINE p == <<>>
             val == <<>>
  <2>1. p \in Seq(1..2) /\ \A q \in DOMAIN expr : expr[p \o q] = expr[q]
    BY <1>2, Paths
  <2> HIDE DEF p, val
  <2>2. ValueOf(expr, series, val, p, u) = InnerValue(expr, series, u)
    BY <2>1, InnerNode
  <2> QED
    BY <2>2 DEF p, val
<1> QED
  BY <1>5, <1>6

(* The engine's value of an aggregation over an inner expression. *)
LEMMA EvalOverInner ==
  ASSUME NEW expr, NEW sel, IsInner(expr, sel), NEW agg, agg.kind = "aggregate", NEW series, NEW u \in 0..Horizon
  PROVE  Eval(Over(agg, expr), series, u) = AggregateOf(agg, InnerValue(expr, series, u))
<1> DEFINE T == Over(agg, expr)
<1>0. DOMAIN expr \subseteq Seq(1..2) /\ <<>> \in DOMAIN expr
  BY InnerIs
<1>1. \A p : p \in DOMAIN T <=> p = <<>> \/ \E q \in DOMAIN expr : p = <<1>> \o q
  BY <1>0, OverIs
<1>2. T[<<>>] = agg
  BY <1>0, OverIs
<1>3. \A q \in DOMAIN expr : T[<<1>> \o q] = expr[q]
  BY <1>0, OverIs
<1> HIDE DEF T
<1>4. \A q \in DOMAIN expr : IsClosed(T, <<1>> \o q)
  BY <1>3, InnerClosed, Paths
<1>5. <<>> \in DOMAIN T /\ <<1>> \in DOMAIN T
  BY <1>0, <1>1, Paths
<1>6. \A p \in DOMAIN T : p # <<>> => IsClosed(T, p)
  BY <1>1, <1>4
<1>7. Eval(T, series, u) = AggregateOf(agg, ValueOf(T, series, <<>>, <<1>>, u))
  BY <1>2, <1>5, <1>6, EvalAggregateOver DEF HasChild
<1>8. ValueOf(T, series, <<>>, <<1>>, u) = InnerValue(expr, series, u)
  BY <1>3, Paths, InnerNode
<1> QED
  BY <1>7, <1>8 DEF T

(* A function over a range reads every series by itself. *)
LEMMA RangeByGroup ==
  ASSUME NEW X, LabelSets(X), NEW fn, NEW range, NEW ref
  PROVE  /\ LabelSets([g \in Groups |-> RangeCallOf(fn, Window(X[g], range, ref))])
         /\ RangeCallOf(fn, Window(AllGroups(X), range, ref)) =
              AllGroups([g \in Groups |-> RangeCallOf(fn, Window(X[g], range, ref))])
<1> DEFINE W(samples) == Restrict(samples, Windowed(samples, range, ref))
           R(samples) == RangeFunction(fn, W(samples))
           P(samples) == Windowed(samples, range, ref) # {}
           Y == [g \in Groups |-> RangeCallOf(fn, Window(X[g], range, ref))]
           F == RangeCallOf(fn, Window(AllGroups(X), range, ref))
<1>0. ASSUME NEW series
      PROVE  /\ DOMAIN RangeCallOf(fn, Window(series, range, ref)) =
                  {m \in DOMAIN series : P(series[m])}
             /\ \A m \in DOMAIN RangeCallOf(fn, Window(series, range, ref)) :
                  RangeCallOf(fn, Window(series, range, ref))[m] = R(series[m])
             /\ IsFunction(RangeCallOf(fn, Window(series, range, ref)))
  BY DEF RangeCallOf, Window, IsFunction
<1> HIDE DEF R, P
<1>1. \A g \in Groups : /\ DOMAIN Y[g] = {m \in DOMAIN X[g] : P(X[g][m])}
                         /\ \A m \in DOMAIN Y[g] : Y[g][m] = R(X[g][m])
  BY <1>0
<1>2. /\ DOMAIN F = {l \in DOMAIN AllGroups(X) : P(AllGroups(X)[l])}
      /\ \A l \in DOMAIN F : F[l] = R(AllGroups(X)[l])
      /\ IsFunction(F)
  BY <1>0
<1> HIDE DEF Y, F
<1>3. LabelSets(Y)
  BY <1>1 DEF LabelSets
<1>4. \A l : l \in DOMAIN F <=> \E g, m : Presented(Y, l, g, m)
  BY <1>1, <1>2, AllGroupsAt DEF Presented
<1>5. \A g \in Groups : \A m \in DOMAIN Y[g] : F[Label(g, m)] = Y[g][m]
  BY <1>1, <1>2, AllGroupsAt
<1>6. F = AllGroups(Y)
  BY <1>2, <1>3, <1>4, <1>5, AllGroupsIs
<1> QED
  BY <1>3, <1>6 DEF Y, F

(* So what a group answers for an inner expression is its part of the whole. *)
LEMMA InnerByGroup ==
  ASSUME NEW X, LabelSets(X), NEW expr, NEW sel, IsInner(expr, sel), ~sel.fetched, NEW u
  PROVE  /\ LabelSets([g \in Groups |-> InnerValue(expr, X[g], u)])
         /\ InnerValue(expr, AllGroups(X), u) = AllGroups([g \in Groups |-> InnerValue(expr, X[g], u)])
<1>1. CASE DOMAIN expr = {<<>>} /\ expr[<<>>] = sel
  <2>1. \A series : InnerValue(expr, series, u) = SelectAt(series, Ref(sel, u))
    BY <1>1, InnerIs DEF InnerValue, Source
  <2> QED
    BY <2>1, SelectByGroup
<1>2. CASE ~(DOMAIN expr = {<<>>} /\ expr[<<>>] = sel)
  <2>1. expr[<<>>].kind = "call" /\ expr[<<1, 1>>] = sel
    BY <1>2, InnerIs
  <2>2. \A series : InnerValue(expr, series, u) =
                      RangeCallOf(expr[<<>>].fn, Window(series, expr[<<1>>].range, Ref(sel, u)))
    BY <2>1 DEF InnerValue, Source
  <2> QED
    BY <2>2, RangeByGroup
<1> QED
  BY <1>1, <1>2

(* Series of floats, and vectors of floats. *)
FloatSamples(samples) ==
  DOMAIN samples \subseteq Int /\ \A t \in DOMAIN samples : samples[t].k = "float" /\ samples[t].v \in Int
FloatSeries(X) ==
  \A g \in Groups : /\ IsFiniteSet(DOMAIN X[g])
                    /\ \A m \in DOMAIN X[g] : FloatSamples(X[g][m])
FloatVector(vec) ==
  IsFiniteSet(DOMAIN vec) /\ \A l \in DOMAIN vec : vec[l].k = "float" /\ vec[l].v \in Int

(* A bounded set of integers is finite. *)
LEMMA BoundedFinite ==
  ASSUME NEW S \in SUBSET Int, NEW a \in Int, NEW b \in Int, \A x \in S : a < x /\ x <= b
  PROVE  IsFiniteSet(S)
<1>1. S \in SUBSET ((a + 1)..b)
  OBVIOUS
<1>2. IsFiniteSet((a + 1)..b)
  BY FS_Interval
<1> QED
  BY <1>1, <1>2, FS_Subset

(* The latest sample is one of those seen. *)
LEMMA LatestIn ==
  ASSUME NEW samples, DOMAIN samples \subseteq Int, NEW ref \in Int, Seen(samples, ref) # {}
  PROVE  \E t \in Seen(samples, ref) : Latest(samples, ref) = samples[t]
<1>0. Lookback \in Int /\ ref - Lookback \in Int
  BY LookbackAssumption
<1>1. Seen(samples, ref) \in SUBSET Int
  BY DEF Seen
<1>2. \A x \in Seen(samples, ref) : ref - Lookback < x /\ x <= ref
  BY DEF Seen
<1>3. IsFiniteSet(Seen(samples, ref))
  BY <1>0, <1>1, <1>2, BoundedFinite
<1>4. Max(Seen(samples, ref)) \in Seen(samples, ref)
  BY <1>1, <1>3, FiniteMax
<1> QED
  BY <1>4 DEF Latest

(* A selector over floats gives floats. *)
LEMMA SelectFloats ==
  ASSUME NEW series, IsFiniteSet(DOMAIN series), \A m \in DOMAIN series : FloatSamples(series[m]), NEW ref \in Int
  PROVE  FloatVector(SelectAt(series, ref))
<1> DEFINE V == SelectAt(series, ref)
<1>1. /\ DOMAIN V = {m \in DOMAIN series : Visible(series[m], ref)}
      /\ \A m \in DOMAIN V : V[m] = Latest(series[m], ref)
  BY DEF SelectAt
<1> HIDE DEF V
<1>2. IsFiniteSet(DOMAIN V)
  <2>1. DOMAIN V \in SUBSET DOMAIN series
    BY <1>1
  <2> QED
    BY <2>1, FS_Subset
<1>3. ASSUME NEW m \in DOMAIN V PROVE V[m].k = "float" /\ V[m].v \in Int
  <2>1. m \in DOMAIN series /\ Seen(series[m], ref) # {} /\ FloatSamples(series[m])
    BY <1>1 DEF Visible
  <2>2. PICK t \in Seen(series[m], ref) : Latest(series[m], ref) = series[m][t]
    BY <2>1, LatestIn DEF FloatSamples
  <2>3. t \in DOMAIN series[m]
    BY DEF Seen
  <2> QED
    BY <1>1, <2>1, <2>2, <2>3 DEF FloatSamples
<1> QED
  BY <1>2, <1>3 DEF FloatVector, V

(* The functions over a range give a float for a window of floats. *)
LEMMA RangeFunctionFloat ==
  ASSUME NEW fn \in RangeFns, NEW w, FloatSamples(w), IsFiniteSet(DOMAIN w), DOMAIN w # {}
  PROVE  RangeFunction(fn, w).k = "float" /\ RangeFunction(fn, w).v \in Int
<1>1. CASE fn = "max_over_time"
  <2> DEFINE f == [u \in DOMAIN w |-> w[u].v]
             N == {w[u].v : u \in DOMAIN w}
  <2>1. RangeFunction(fn, w) = Float(Max(N))
    BY <1>1, Zenon DEF RangeFunction
  <2>2. DOMAIN f = DOMAIN w /\ N = {f[u] : u \in DOMAIN f}
    OBVIOUS
  <2> HIDE DEF f
  <2>3. IsFiniteSet(N)
    BY <2>2, FiniteImage
  <2>4. N \in SUBSET Int /\ N # {}
    BY DEF FloatSamples
  <2> HIDE DEF N
  <2>5. Max(N) \in Int
    BY <2>3, <2>4, FiniteMax
  <2> QED
    BY <2>1, <2>5 DEF Float
<1>2. CASE fn = "count_over_time"
  <2>1. RangeFunction(fn, w) = Float(Cardinality(DOMAIN w))
    BY <1>2, Zenon DEF RangeFunction
  <2>2. Cardinality(DOMAIN w) \in Int
    BY FS_CardinalityType
  <2> QED
    BY <2>1, <2>2 DEF Float
<1>3. CASE fn = "last_over_time"
  <2>1. RangeFunction(fn, w) = w[Max(DOMAIN w)]
    BY <1>3, Zenon DEF RangeFunction
  <2>2. Max(DOMAIN w) \in DOMAIN w
    BY FiniteMax DEF FloatSamples
  <2> QED
    BY <2>1, <2>2 DEF FloatSamples
<1> QED
  BY <1>1, <1>2, <1>3 DEF RangeFns

(* A function over the ranges of floats gives floats. *)
LEMMA RangeFloats ==
  ASSUME NEW series, IsFiniteSet(DOMAIN series), \A m \in DOMAIN series : FloatSamples(series[m]),
         NEW fn \in RangeFns, NEW range \in Nat, NEW ref \in Int
  PROVE  FloatVector(RangeCallOf(fn, Window(series, range, ref)))
<1> DEFINE W(samples) == Restrict(samples, Windowed(samples, range, ref))
           V == RangeCallOf(fn, Window(series, range, ref))
<1>1. /\ DOMAIN V = {m \in DOMAIN series : Windowed(series[m], range, ref) # {}}
      /\ \A m \in DOMAIN V : V[m] = RangeFunction(fn, W(series[m]))
  BY DEF RangeCallOf, Window
<1> HIDE DEF V
<1>2. IsFiniteSet(DOMAIN V)
  <2>1. DOMAIN V \in SUBSET DOMAIN series
    BY <1>1
  <2> QED
    BY <2>1, FS_Subset
<1>3. ASSUME NEW m \in DOMAIN V PROVE V[m].k = "float" /\ V[m].v \in Int
  <2>1. m \in DOMAIN series /\ Windowed(series[m], range, ref) # {} /\ FloatSamples(series[m])
    BY <1>1
  <2> DEFINE D == Windowed(series[m], range, ref)
             w == W(series[m])
  <2>2. /\ DOMAIN w = D /\ \A t \in D : w[t] = series[m][t]
        /\ D \subseteq DOMAIN series[m]
    BY DEF Restrict, Windowed
  <2>3. ref - range \in Int /\ D \in SUBSET Int /\ \A x \in D : ref - range < x /\ x <= ref
    BY <2>1 DEF Windowed, FloatSamples
  <2> HIDE DEF D, w
  <2>4. IsFiniteSet(D)
    BY <2>3, BoundedFinite
  <2>5. FloatSamples(w) /\ DOMAIN w # {}
    <3>1. D # {}
      BY <2>1 DEF D
    <3> QED
      BY <2>1, <2>2, <3>1 DEF FloatSamples
  <2>6. RangeFunction(fn, w).k = "float" /\ RangeFunction(fn, w).v \in Int
    BY <2>2, <2>4, <2>5, RangeFunctionFloat
  <2> QED
    BY <1>1, <2>6 DEF w
<1> QED
  BY <1>2, <1>3 DEF FloatVector, V

(* So does every inner expression. *)
LEMMA InnerFloats ==
  ASSUME NEW series, IsFiniteSet(DOMAIN series), \A m \in DOMAIN series : FloatSamples(series[m]),
         NEW expr, NEW sel, IsInner(expr, sel), ~sel.fetched, NEW u, Ref(sel, u) \in Int
  PROVE  FloatVector(InnerValue(expr, series, u))
<1>1. CASE DOMAIN expr = {<<>>} /\ expr[<<>>] = sel
  <2>1. InnerValue(expr, series, u) = SelectAt(series, Ref(sel, u))
    BY <1>1, InnerIs DEF InnerValue, Source
  <2> QED
    BY <2>1, SelectFloats
<1>2. CASE ~(DOMAIN expr = {<<>>} /\ expr[<<>>] = sel)
  <2>1. /\ expr[<<>>].kind = "call" /\ expr[<<1, 1>>] = sel /\ expr[<<>>].fn \in RangeFns
        /\ expr[<<1>>].range \in Nat
    BY <1>2, InnerIs
  <2>2. InnerValue(expr, series, u) =
          RangeCallOf(expr[<<>>].fn, Window(series, expr[<<1>>].range, Ref(sel, u)))
    BY <2>1 DEF InnerValue, Source
  <2> QED
    BY <2>1, <2>2, RangeFloats
<1> QED
  BY <1>1, <1>2

---------------------------------------------------------------------------
(* Floats stay floats, and the groups' values make up the whole.           *)

(* An aggregation of floats is one: its keys and values are those of a
   vector again. *)
LEMMA CombineFloat ==
  ASSUME NEW op \in {"sum", "min", "max", "group", "count"}, NEW vec, FloatVector(vec),
         NEW S \in SUBSET DOMAIN vec, S # {}
  PROVE  Combine(op, vec, S).k = "float" /\ Combine(op, vec, S).v \in Int
<1>1. IsFiniteSet(S) /\ IsFiniteSet(DOMAIN vec) /\ \A l \in DOMAIN vec : vec[l].v \in Int /\ vec[l].k = "float"
  BY FS_Subset DEF FloatVector
<1>2. CASE op \in {"max", "min"}
  <2>1. Combine(op, vec, S).v \in Numbers(vec, S) /\ Combine(op, vec, S).k = "float"
    BY <1>1, <1>2, ExtremeOfGroup
  <2> QED
    BY <1>1, <2>1 DEF Numbers
<1>3. CASE op = "sum"
  <2>1. Combine("sum", vec, S) = Float(Total(vec, S))
    BY <1>1, SumIs
  <2>2. Total(vec, S) \in Int
    BY <1>1, TotalInt DEF Ints
  <2> QED
    BY <1>3, <2>1, <2>2 DEF Float
<1>4. CASE op = "count"
  <2>1. Cardinality(S) \in Int
    BY <1>1, FS_CardinalityType
  <2> QED
    BY <1>4, <2>1, CombineIs DEF Float
<1>5. CASE op = "group"
  BY <1>5, CombineIs DEF Float
<1> QED
  BY <1>2, <1>3, <1>4, <1>5

(* An aggregation that is sent gives floats for floats, under label sets. *)
LEMMA AggregateFloats ==
  ASSUME NEW node, node.op \in PushedOps, NEW vec, FloatVector(vec), \A l \in DOMAIN vec : IsLabelSet(l)
  PROVE  /\ FloatVector(AggregateOf(node, vec))
         /\ \A l \in DOMAIN AggregateOf(node, vec) : IsLabelSet(l)
<1>1. CASE node.op \in {"topk", "bottomk"}
  <2> DEFINE A == AggregateOf(node, vec)
  <2>1. A = [l \in BestOnes(node, vec) |-> vec[l]]
    BY <1>1, TopKIs
  <2>2. BestOnes(node, vec) \in SUBSET DOMAIN vec
    BY DEF BestOnes
  <2>3. DOMAIN A \in SUBSET DOMAIN vec /\ \A l \in DOMAIN A : A[l] = vec[l]
    BY <2>1, <2>2
  <2> HIDE DEF A
  <2>4. IsFiniteSet(DOMAIN A)
    BY <2>3, FS_Subset DEF FloatVector
  <2>5. FloatVector(A) /\ \A l \in DOMAIN A : IsLabelSet(l)
    BY <2>3, <2>4 DEF FloatVector
  <2> QED
    BY <2>5 DEF A
<1>2. CASE node.op \notin {"topk", "bottomk"}
  <2> DEFINE A == AggregateOf(node, vec)
             f == [l \in DOMAIN vec |-> GroupKey(node, l)]
  <2>0. node.op \in KeyedOps /\ node.op \in {"sum", "min", "max", "group", "count"}
    BY <1>2 DEF PushedOps, KeyedOps
  <2>1. /\ DOMAIN A = {GroupKey(node, l) : l \in DOMAIN vec}
        /\ \A k \in DOMAIN A : /\ A[k] = Combine(node.op, vec, Members(node, vec, k))
                               /\ Members(node, vec, k) # {}
                               /\ Members(node, vec, k) \subseteq DOMAIN vec
    BY <2>0, KeyedAggregate
  <2> HIDE DEF A
  <2>2. DOMAIN f = DOMAIN vec /\ DOMAIN A = {f[l] : l \in DOMAIN f}
    BY <2>1
  <2> HIDE DEF f
  <2>3. IsFiniteSet(DOMAIN A)
    BY <2>2, FiniteImage DEF FloatVector
  <2>4. ASSUME NEW k \in DOMAIN A PROVE A[k].k = "float" /\ A[k].v \in Int
    BY <2>0, <2>1, CombineFloat
  <2>5. \A k \in DOMAIN A : IsLabelSet(k)
    BY <2>1, KeyOfLabelSet
  <2>6. FloatVector(A) /\ \A l \in DOMAIN A : IsLabelSet(l)
    BY <2>3, <2>4, <2>5 DEF FloatVector
  <2> QED
    BY <2>6 DEF A
<1> QED
  BY <1>1, <1>2

---------------------------------------------------------------------------
(* Operators with a literal.                                               *)

LiteralOps == {"*", "<", ">"}
Passes(op, v, n) == (op = "<" => v < n) /\ (op = ">" => v > n)
Scaled(op, v, n) == IF op = "*" THEN v * n ELSE v
Applied(op, x, n) == IF op = "*" THEN Float(x.v * n) ELSE x

(* What an operator with a literal makes of a vector. *)
IsApplied(op, vec, n, L) ==
  /\ IsFunction(L) /\ FloatVector(L)
  /\ DOMAIN L = {l \in DOMAIN vec : Passes(op, vec[l].v, n)}
  /\ \A l \in DOMAIN L : L[l].v = Scaled(op, vec[l].v, n) /\ L[l] = Applied(op, vec[l], n)

(* A comparison keeps the series whose value passes, a product changes the
   values. *)
LEMMA WithLiteralIs ==
  ASSUME NEW op \in LiteralOps, NEW vec, FloatVector(vec), NEW n \in Int
  PROVE  IsApplied(op, vec, n, WithLiteral(op, vec, n))
<1> DEFINE L == WithLiteral(op, vec, n)
<1>1. CASE op = "*"
  <2>1. L = [l \in DOMAIN vec |-> Float(vec[l].v * n)]
    BY <1>1, Zenon DEF WithLiteral
  <2> HIDE DEF L
  <2>2. DOMAIN L = DOMAIN vec /\ \A l \in DOMAIN L : L[l] = Float(vec[l].v * n)
    BY <2>1
  <2>3. ASSUME NEW l \in DOMAIN L PROVE L[l].k = "float" /\ L[l].v = vec[l].v * n /\ vec[l].v * n \in Int
    <3>1. vec[l].v \in Int
      BY <2>2 DEF FloatVector
    <3> QED
      BY <2>2, <3>1 DEF Float
  <2>4. FloatVector(L)
    BY <2>2, <2>3 DEF FloatVector
  <2>5. IsFunction(L)
    BY <2>1 DEF IsFunction
  <2> QED
    BY <1>1, <2>2, <2>3, <2>4, <2>5 DEF Passes, Scaled, Applied, IsApplied, L
<1>2. CASE op \in {"<", ">"}
  <2>1. L = Restrict(vec, {l \in DOMAIN vec : Passes(op, vec[l].v, n)})
    <3>1. CASE op = "<"
      <4>1. L = Restrict(vec, {l \in DOMAIN vec : vec[l].v < n})
        BY <3>1, Zenon DEF WithLiteral
      <4> HIDE DEF L
      <4> QED
        BY <3>1, <4>1 DEF Passes
    <3>2. CASE op = ">"
      <4>1. L = Restrict(vec, {l \in DOMAIN vec : vec[l].v > n})
        BY <3>2, Zenon DEF WithLiteral
      <4> HIDE DEF L
      <4> QED
        BY <3>2, <4>1 DEF Passes
    <3> QED
      BY <1>2, <3>1, <3>2
  <2> HIDE DEF L
  <2>2. /\ IsFunction(L)
        /\ DOMAIN L = {l \in DOMAIN vec : Passes(op, vec[l].v, n)}
        /\ \A l \in DOMAIN L : L[l] = vec[l]
    BY <2>1 DEF Restrict, IsFunction
  <2>3. IsFiniteSet(DOMAIN L)
    BY <2>2, FS_Subset DEF FloatVector
  <2>4. FloatVector(L)
    BY <2>2, <2>3 DEF FloatVector
  <2> QED
    BY <1>2, <2>2, <2>4 DEF Scaled, Applied, IsApplied, L
<1> QED
  BY <1>1, <1>2 DEF LiteralOps

(* An operator with a literal looks at every series by itself. *)
LEMMA LiteralByGroup ==
  ASSUME NEW op \in LiteralOps, NEW V, Vectors(V), NEW n \in Int
  PROVE  LET W == [g \in Groups |-> WithLiteral(op, V[g], n)]
         IN  Vectors(W) /\ WithLiteral(op, AllGroups(V), n) = AllGroups(W)
<1> DEFINE W == [g \in Groups |-> WithLiteral(op, V[g], n)]
           all == AllGroups(V)
           F == WithLiteral(op, all, n)
<1>0. LabelSets(V) /\ IsFiniteSet(Groups) /\ (\A g \in Groups : FloatVector(V[g])) /\ FloatVector(all)
  BY AllGroupsVector DEF Vectors, FloatVector
<1>1. \A g \in Groups : IsApplied(op, V[g], n, W[g])
  <2> TAKE g \in Groups
  <2>1. FloatVector(V[g]) /\ W[g] = WithLiteral(op, V[g], n)
    BY <1>0
  <2> QED
    BY <2>1, WithLiteralIs
<1> HIDE DEF W
<1>1a. \A g \in Groups : /\ DOMAIN W[g] = {m \in DOMAIN V[g] : Passes(op, V[g][m].v, n)}
                          /\ \A m \in DOMAIN W[g] : W[g][m] = Applied(op, V[g][m], n)
  BY <1>1 DEF IsApplied
<1>1b. \A g \in Groups : FloatVector(W[g])
  BY <1>1 DEF IsApplied
<1>2. /\ DOMAIN F = {l \in DOMAIN all : Passes(op, all[l].v, n)}
      /\ \A l \in DOMAIN F : F[l] = Applied(op, all[l], n)
      /\ IsFunction(F)
  <2>1. IsApplied(op, all, n, F)
    BY <1>0, WithLiteralIs
  <2> HIDE DEF all, F
  <2> QED
    BY <2>1 DEF IsApplied
<1> HIDE DEF F
<1>3. LabelSets(W)
  BY <1>0, <1>1a DEF LabelSets
<1>3a. /\ \A l : l \in DOMAIN all <=> \E g, m : Presented(V, l, g, m)
       /\ \A g \in Groups : \A m \in DOMAIN V[g] : Label(g, m) \in DOMAIN all /\ all[Label(g, m)] = V[g][m]
  BY <1>0, AllGroupsAt
<1> HIDE DEF all
<1>4. \A l : l \in DOMAIN F <=> \E g, m : Presented(W, l, g, m)
  BY <1>1a, <1>2, <1>3a DEF Presented
<1>5. \A g \in Groups : \A m \in DOMAIN W[g] : F[Label(g, m)] = W[g][m]
  <2> TAKE g \in Groups
  <2> TAKE m \in DOMAIN W[g]
  <2>1. m \in DOMAIN V[g] /\ Passes(op, V[g][m].v, n)
    BY <1>1a
  <2>2. Label(g, m) \in DOMAIN F /\ all[Label(g, m)] = V[g][m]
    BY <1>2, <1>3a, <2>1
  <2> QED
    BY <1>1a, <1>2, <2>2
<1>6. F = AllGroups(W)
  BY <1>2, <1>3, <1>4, <1>5, AllGroupsIs
<1>7. Vectors(W)
  <2>1. ASSUME NEW g \in Groups
        PROVE  IsFiniteSet(DOMAIN W[g]) /\ \A m \in DOMAIN W[g] : W[g][m].k = "float" /\ W[g][m].v \in Int
    <3>1. FloatVector(W[g])
      BY <1>1b
    <3> QED
      BY <3>1 DEF FloatVector
  <2> QED
    BY <1>0, <1>3, <2>1 DEF Vectors
<1> QED
  BY <1>6, <1>7 DEF W, F, all

(* The operators under which an aggregation still prefers the same values. *)
KeepsOrder(agg, op, n) ==
  /\ agg \in {"max", "topk"} => op # "<"
  /\ agg \in {"min", "bottomk"} => op # ">"
  /\ op = "*" => n >= 0
  /\ op = "*" /\ agg \in {"topk", "bottomk"} => n # 0

Prefers(agg, x, y) == IF agg \in {"max", "topk"} THEN y <= x ELSE x <= y

(* Products with a number that is not negative keep the order. *)
LEMMA ProductOrder ==
  ASSUME NEW x \in Int, NEW y \in Int, NEW n \in Nat
  PROVE  /\ x * n \in Int /\ y * n \in Int
         /\ x <= y => x * n <= y * n
         /\ n # 0 /\ x * n <= y * n => x <= y
<1> DEFINE d == y - x
<1>1. d \in Int /\ y * n = x * n + d * n
  OBVIOUS
<1>2. x * n \in Int /\ y * n \in Int /\ d * n \in Int
  OBVIOUS
<1>3. d >= 0 => d * n >= 0
  OBVIOUS
<1>4. d < 0 /\ n # 0 => d * n < 0
  OBVIOUS
<1>5. x <= y <=> d >= 0
  OBVIOUS
<1> HIDE DEF d
<1> QED
  BY <1>1, <1>2, <1>3, <1>4, <1>5

(* What passes for a value passes for a preferred one, which stays preferred. *)
LEMMA OrderKept ==
  ASSUME NEW agg \in LiteralSafeOps, NEW op \in LiteralOps, NEW n \in Int, KeepsOrder(agg, op, n),
         NEW x \in Int, NEW y \in Int
  PROVE  /\ Prefers(agg, x, y) /\ Passes(op, y, n) => Passes(op, x, n)
         /\ Prefers(agg, x, y) => Prefers(agg, Scaled(op, x, n), Scaled(op, y, n))
         /\ agg \in {"topk", "bottomk"} /\ Prefers(agg, Scaled(op, x, n), Scaled(op, y, n)) => Prefers(agg, x, y)
         /\ Scaled(op, x, n) \in Int
<1>1. CASE op = "*"
  <2>1. n \in Nat
    BY <1>1 DEF KeepsOrder
  <2>2. /\ x * n \in Int /\ y * n \in Int
        /\ x <= y => x * n <= y * n
        /\ y <= x => y * n <= x * n
        /\ n # 0 /\ x * n <= y * n => x <= y
        /\ n # 0 /\ y * n <= x * n => y <= x
    BY <2>1, ProductOrder
  <2>3. Scaled(op, x, n) = x * n /\ Scaled(op, y, n) = y * n
    BY <1>1 DEF Scaled
  <2> QED
    BY <1>1, <2>2, <2>3 DEF KeepsOrder, Prefers, Passes
<1>2. CASE op = "<"
  BY <1>2 DEF KeepsOrder, Prefers, Passes, Scaled, LiteralSafeOps
<1>3. CASE op = ">"
  BY <1>3 DEF KeepsOrder, Prefers, Passes, Scaled, LiteralSafeOps
<1> QED
  BY <1>1, <1>2, <1>3 DEF LiteralOps

(* min and max: the extreme of a key passes if a member does, and is then
   the extreme of those that pass. *)
LEMMA LiteralExtreme ==
  ASSUME NEW node, node.op \in {"max", "min"}, NEW op \in LiteralOps, NEW n \in Int,
         KeepsOrder(node.op, op, n), NEW vec, FloatVector(vec)
  PROVE  AggregateOf(node, WithLiteral(op, vec, n)) = WithLiteral(op, AggregateOf(node, vec), n)
<1> DEFINE W == WithLiteral(op, vec, n)
           A == AggregateOf(node, vec)
           L == AggregateOf(node, W)
           R == WithLiteral(op, A, n)
<1>0. node.op \in KeyedOps /\ node.op \in LiteralSafeOps
  BY DEF KeyedOps, LiteralSafeOps
<1>1. /\ FloatVector(W)
      /\ DOMAIN W = {l \in DOMAIN vec : Passes(op, vec[l].v, n)}
      /\ \A l \in DOMAIN W : W[l].v = Scaled(op, vec[l].v, n)
  <2>1. IsApplied(op, vec, n, W)
    BY WithLiteralIs
  <2> HIDE DEF W
  <2> QED
    BY <2>1 DEF IsApplied
<1> HIDE DEF W
<1>2. /\ DOMAIN A = {GroupKey(node, l) : l \in DOMAIN vec}
      /\ \A k \in DOMAIN A : /\ A[k] = Combine(node.op, vec, Members(node, vec, k))
                             /\ Members(node, vec, k) # {}
                             /\ Members(node, vec, k) \subseteq DOMAIN vec
  BY <1>0, KeyedAggregate
<1>3. /\ IsFunction(L)
      /\ DOMAIN L = {GroupKey(node, l) : l \in DOMAIN W}
      /\ \A k \in DOMAIN L : /\ L[k] = Combine(node.op, W, Members(node, W, k))
                             /\ Members(node, W, k) # {}
                             /\ Members(node, W, k) \subseteq DOMAIN W
  BY <1>0, KeyedAggregate
<1> HIDE DEF L, A
<1>4. ASSUME NEW k \in DOMAIN A
      PROVE  /\ A[k].v \in Int /\ A[k] = Float(A[k].v)
             /\ \E m \in DOMAIN vec : GroupKey(node, m) = k /\ vec[m].v = A[k].v
             /\ \A l \in DOMAIN vec : GroupKey(node, l) = k => Prefers(node.op, A[k].v, vec[l].v)
  <2> DEFINE S == Members(node, vec, k)
  <2>1. A[k] = Combine(node.op, vec, S) /\ S # {} /\ S \in SUBSET DOMAIN vec
    BY <1>2
  <2>2. \A l : l \in S <=> l \in DOMAIN vec /\ GroupKey(node, l) = k
    BY DEF Members
  <2> HIDE DEF S
  <2>3. A[k].v \in Numbers(vec, S) /\ \A l \in S : Beats(node.op, A[k].v, vec[l].v)
    BY <2>1, ExtremeOfGroup DEF FloatVector
  <2>4. A[k] = Float(A[k].v)
    BY <2>1, CombineIs DEF Float
  <2> QED
    BY <2>2, <2>3, <2>4 DEF FloatVector, Numbers, Beats, Prefers
<1>5. ASSUME NEW k \in DOMAIN L
      PROVE  /\ L[k].v \in Int /\ L[k] = Float(L[k].v)
             /\ \E m \in DOMAIN W : GroupKey(node, m) = k /\ W[m].v = L[k].v
             /\ \A l \in DOMAIN W : GroupKey(node, l) = k => Prefers(node.op, L[k].v, W[l].v)
  <2> DEFINE S == Members(node, W, k)
  <2>1. L[k] = Combine(node.op, W, S) /\ S # {} /\ S \in SUBSET DOMAIN W
    BY <1>3
  <2>2. \A l : l \in S <=> l \in DOMAIN W /\ GroupKey(node, l) = k
    BY DEF Members
  <2> HIDE DEF S
  <2>3. L[k].v \in Numbers(W, S) /\ \A l \in S : Beats(node.op, L[k].v, W[l].v)
    BY <1>1, <2>1, ExtremeOfGroup DEF FloatVector
  <2>4. L[k] = Float(L[k].v)
    BY <2>1, CombineIs DEF Float
  <2> QED
    BY <1>1, <2>2, <2>3, <2>4 DEF FloatVector, Numbers, Beats, Prefers
<1>6. FloatVector(A)
  <2>1. IsFiniteSet(DOMAIN A)
    <3> DEFINE f == [l \in DOMAIN vec |-> GroupKey(node, l)]
    <3>1. DOMAIN f = DOMAIN vec /\ DOMAIN A = {f[l] : l \in DOMAIN f}
      BY <1>2
    <3> HIDE DEF f
    <3> QED
      BY <3>1, FiniteImage DEF FloatVector
  <2>2. \A k \in DOMAIN A : A[k].k = "float" /\ A[k].v \in Int
    BY <1>4 DEF Float
  <2> QED
    BY <2>1, <2>2 DEF FloatVector
<1>7. /\ IsFunction(R)
      /\ DOMAIN R = {k \in DOMAIN A : Passes(op, A[k].v, n)}
      /\ \A k \in DOMAIN R : R[k] = Applied(op, A[k], n)
  <2>1. IsApplied(op, A, n, R)
    BY <1>6, WithLiteralIs
  <2> HIDE DEF R
  <2> QED
    BY <2>1 DEF IsApplied
<1> HIDE DEF R
<1>8. DOMAIN L = DOMAIN R
  <2>1. ASSUME NEW k \in DOMAIN L PROVE k \in DOMAIN R
    <3>1. PICK l \in DOMAIN W : GroupKey(node, l) = k
      BY <1>3
    <3>2. l \in DOMAIN vec /\ Passes(op, vec[l].v, n) /\ vec[l].v \in Int /\ k \in DOMAIN A
      BY <1>1, <1>2, <3>1 DEF FloatVector
    <3>3. A[k].v \in Int /\ Prefers(node.op, A[k].v, vec[l].v)
      BY <1>4, <3>1, <3>2
    <3> QED
      BY <1>0, <1>7, <3>2, <3>3, OrderKept
  <2>2. ASSUME NEW k \in DOMAIN R PROVE k \in DOMAIN L
    BY <1>1, <1>3, <1>4, <1>7
  <2> QED
    BY <2>1, <2>2
<1>9. ASSUME NEW k \in DOMAIN L PROVE L[k] = R[k]
  <2>0. k \in DOMAIN A /\ Passes(op, A[k].v, n) /\ A[k].v \in Int /\ L[k].v \in Int
    BY <1>4, <1>5, <1>7, <1>8
  <2>1. PICK m \in DOMAIN vec : GroupKey(node, m) = k /\ vec[m].v = A[k].v
    BY <1>4, <2>0
  <2>2. m \in DOMAIN W /\ W[m].v = Scaled(op, A[k].v, n)
    BY <1>1, <2>0, <2>1
  <2>3. Prefers(node.op, L[k].v, Scaled(op, A[k].v, n))
    BY <1>5, <2>1, <2>2
  <2>4. PICK l \in DOMAIN W : GroupKey(node, l) = k /\ W[l].v = L[k].v
    BY <1>5
  <2>5. l \in DOMAIN vec /\ vec[l].v \in Int /\ L[k].v = Scaled(op, vec[l].v, n)
    BY <1>1, <2>4 DEF FloatVector
  <2>6. Prefers(node.op, A[k].v, vec[l].v)
    BY <1>4, <2>0, <2>4, <2>5
  <2>7. Prefers(node.op, Scaled(op, A[k].v, n), L[k].v) /\ Scaled(op, A[k].v, n) \in Int
    BY <1>0, <2>0, <2>5, <2>6, OrderKept
  <2>8. L[k].v = Scaled(op, A[k].v, n)
    BY <2>0, <2>3, <2>7 DEF Prefers
  <2>9. L[k] = Float(Scaled(op, A[k].v, n)) /\ A[k] = Float(A[k].v) /\ k \in DOMAIN R
    BY <1>4, <1>5, <1>8, <2>0, <2>8
  <2> QED
    BY <1>7, <2>9 DEF Scaled, Applied
<1>10. L = R
  BY <1>3, <1>7, <1>8, <1>9, Zenon DEF IsFunction
<1> QED
  BY <1>10 DEF L, R, W, A

(* topk and bottomk: the best that pass are those that pass among the best. *)
LEMMA LiteralTopK ==
  ASSUME NEW node, node.op \in {"topk", "bottomk"}, NEW op \in LiteralOps, NEW n \in Int,
         KeepsOrder(node.op, op, n), NEW vec, FloatVector(vec)
  PROVE  AggregateOf(node, WithLiteral(op, vec, n)) = WithLiteral(op, AggregateOf(node, vec), n)
<1> DEFINE W == WithLiteral(op, vec, n)
           A == AggregateOf(node, vec)
           L == AggregateOf(node, W)
           R == WithLiteral(op, A, n)
<1>0. node.op \in LiteralSafeOps /\ \A x, y : Rank(node, x, y) <=> Prefers(node.op, x, y)
  BY DEF LiteralSafeOps, Rank, Prefers
<1>1. /\ FloatVector(W)
      /\ DOMAIN W = {l \in DOMAIN vec : Passes(op, vec[l].v, n)}
      /\ \A l \in DOMAIN W : W[l].v = Scaled(op, vec[l].v, n)
      /\ \A l \in DOMAIN W : W[l] = Applied(op, vec[l], n)
  <2>1. IsApplied(op, vec, n, W)
    BY WithLiteralIs
  <2> HIDE DEF W
  <2> QED
    BY <2>1 DEF IsApplied
<1> HIDE DEF W
<1>2. L = [l \in BestOnes(node, W) |-> W[l]] /\ A = [l \in BestOnes(node, vec) |-> vec[l]]
  BY TopKIs
<1> HIDE DEF A, L
<1>3. BestOnes(node, vec) \in SUBSET DOMAIN vec /\ BestOnes(node, W) \in SUBSET DOMAIN W
  BY DEF BestOnes
<1>4. DOMAIN A = BestOnes(node, vec) /\ \A l \in DOMAIN A : A[l] = vec[l]
  BY <1>2
<1>5. FloatVector(A)
  <2>1. IsFiniteSet(DOMAIN A)
    BY <1>3, <1>4, FS_Subset DEF FloatVector
  <2> QED
    BY <1>3, <1>4, <2>1 DEF FloatVector
<1>6. /\ IsFunction(R)
      /\ DOMAIN R = {k \in DOMAIN A : Passes(op, A[k].v, n)}
      /\ \A k \in DOMAIN R : R[k] = Applied(op, A[k], n)
  <2>1. IsApplied(op, A, n, R)
    BY <1>5, WithLiteralIs
  <2> HIDE DEF R
  <2> QED
    BY <2>1 DEF IsApplied
<1> HIDE DEF R
<1>7. \A l \in DOMAIN vec : /\ vec[l].v \in Int
                             /\ l \in BestOnes(node, vec) <=>
                                  \A m \in DOMAIN vec : GroupKey(node, m) = GroupKey(node, l)
                                                          => Prefers(node.op, vec[l].v, vec[m].v)
  BY <1>0, BestIs DEF FloatVector
<1>8. \A l \in DOMAIN W : /\ l \in DOMAIN vec
                           /\ l \in BestOnes(node, W) <=>
                                \A m \in DOMAIN W : GroupKey(node, m) = GroupKey(node, l)
                                                      => Prefers(node.op, W[l].v, W[m].v)
  BY <1>0, <1>1, BestIs DEF FloatVector
<1>9. ASSUME NEW l \in BestOnes(node, W) PROVE l \in BestOnes(node, vec) /\ Passes(op, vec[l].v, n)
  <2>1. l \in DOMAIN W /\ l \in DOMAIN vec /\ Passes(op, vec[l].v, n)
    BY <1>1, <1>3
  <2>2. ASSUME NEW m \in DOMAIN vec, GroupKey(node, m) = GroupKey(node, l)
        PROVE  Prefers(node.op, vec[l].v, vec[m].v)
    <3>1. vec[l].v \in Int /\ vec[m].v \in Int
      BY <2>1, <2>2 DEF FloatVector
    <3>2. CASE m \in DOMAIN W
      <4>1. Prefers(node.op, Scaled(op, vec[l].v, n), Scaled(op, vec[m].v, n))
        BY <1>1, <1>8, <2>1, <2>2, <3>2
      <4> QED
        BY <1>0, <3>1, <4>1, OrderKept
    <3>3. CASE m \notin DOMAIN W
      <4>1. ~Passes(op, vec[m].v, n)
        BY <1>1, <3>3
      <4>2. ~Prefers(node.op, vec[m].v, vec[l].v)
        BY <1>0, <2>1, <3>1, <4>1, OrderKept
      <4> QED
        BY <3>1, <4>2 DEF Prefers
    <3> QED
      BY <3>2, <3>3
  <2> QED
    BY <1>7, <2>1, <2>2
<1>10. ASSUME NEW l \in BestOnes(node, vec), Passes(op, vec[l].v, n) PROVE l \in BestOnes(node, W)
  <2>1. l \in DOMAIN vec /\ l \in DOMAIN W
    BY <1>1, <1>3, <1>10
  <2>2. ASSUME NEW m \in DOMAIN W, GroupKey(node, m) = GroupKey(node, l)
        PROVE  Prefers(node.op, W[l].v, W[m].v)
    <3>0. m \in DOMAIN vec
      BY <1>1
    <3>1. m \in DOMAIN vec /\ vec[l].v \in Int /\ vec[m].v \in Int
      BY <2>1, <3>0 DEF FloatVector
    <3>2. Prefers(node.op, vec[l].v, vec[m].v)
      BY <1>7, <2>1, <2>2, <3>1
    <3>3. Prefers(node.op, Scaled(op, vec[l].v, n), Scaled(op, vec[m].v, n))
      BY <1>0, <3>1, <3>2, OrderKept
    <3> QED
      BY <1>1, <2>1, <3>3
  <2> QED
    BY <1>8, <2>1, <2>2
<1>11. IsFunction(L) /\ DOMAIN L = BestOnes(node, W) /\ \A l \in DOMAIN L : L[l] = W[l]
  BY <1>2 DEF IsFunction
<1>12. DOMAIN L = DOMAIN R
  BY <1>4, <1>6, <1>9, <1>10, <1>11
<1>13. ASSUME NEW l \in DOMAIN L PROVE L[l] = R[l]
  <2>1. l \in DOMAIN W /\ l \in DOMAIN R /\ L[l] = W[l] /\ A[l] = vec[l]
    BY <1>3, <1>4, <1>9, <1>11, <1>12
  <2> QED
    BY <1>1, <1>6, <2>1
<1>14. L = R
  BY <1>6, <1>11, <1>12, <1>13, Zenon DEF IsFunction
<1> QED
  BY <1>14 DEF L, R, W, A

(* An order-keeping operator may be applied before or after the aggregation. *)
LEMMA LiteralCommutes ==
  ASSUME NEW node, node.op \in LiteralSafeOps, NEW op \in LiteralOps, NEW n \in Int,
         KeepsOrder(node.op, op, n), NEW vec, FloatVector(vec)
  PROVE  AggregateOf(node, WithLiteral(op, vec, n)) = WithLiteral(op, AggregateOf(node, vec), n)
BY LiteralExtreme, LiteralTopK DEF LiteralSafeOps

(* The BinaryExpr case of NodeReplacer: aggregating again what every group
   answered for its own aggregation, compared to or multiplied by the literal,
   gives what the engine gives for the whole over the series of all groups,
   unless the operator reorders the groups' answers or drops the preferred
   ones. *)
THEOREM LiteralRecombined ==
  ASSUME NEW node, node.op \in LiteralSafeOps, "op" \in DOMAIN node, IsFunction(node),
         NEW op \in LiteralOps, NEW n \in Int, KeepsOrder(node.op, op, n), NEW V, Vectors(V)
  PROVE  AggregateOf(node, AllGroups([g \in Groups |-> WithLiteral(op, AggregateOf(node, V[g]), n)]))
           = WithLiteral(op, AggregateOf(node, AllGroups(V)), n)
<1> DEFINE W == [g \in Groups |-> WithLiteral(op, V[g], n)]
           all == AllGroups(V)
<1>1. Vectors(W) /\ WithLiteral(op, all, n) = AllGroups(W)
  BY LiteralByGroup
<1>2. EachGroup(node, W) = [g \in Groups |-> WithLiteral(op, AggregateOf(node, V[g]), n)]
  <2>1. ASSUME NEW g \in Groups
        PROVE  AggregateOf(node, WithLiteral(op, V[g], n)) = WithLiteral(op, AggregateOf(node, V[g]), n)
    <3>1. FloatVector(V[g])
      BY DEF Vectors, FloatVector
    <3> QED
      BY <3>1, LiteralCommutes
  <2> QED
    BY <2>1 DEF EachGroup
<1>3. AggregateOf(node, AllGroups(EachGroup(node, W))) = AggregateOf(node, AllGroups(W))
  <2>1. node.op \in PushedOps /\ Recombine(node) = node
    BY DEF PushedOps, LiteralSafeOps, Recombine
  <2> HIDE DEF W
  <2> QED
    BY <1>1, <2>1, Recombined
<1>4. FloatVector(all)
  BY AllGroupsVector DEF FloatVector
<1> HIDE DEF all, W
<1>5. AggregateOf(node, WithLiteral(op, all, n)) = WithLiteral(op, AggregateOf(node, all), n)
  BY <1>4, LiteralCommutes
<1> QED
  BY <1>1, <1>2, <1>3, <1>5 DEF all

---------------------------------------------------------------------------
(* The cores of plain queries: an inner expression, or one aggregation over it. *)

IsCore(expr, inner, sel) ==
  /\ IsInner(inner, sel)
  /\ \/ expr = inner
     \/ \E op \in PushedOps, without \in BOOLEAN : \E grouping :
          expr = Over(Aggregate(op, without, grouping), inner)

(* The node at the top, or below the operator with a literal. *)
TopPath(expr) == IF expr[<<>>].kind = "binary" THEN <<1>> ELSE <<>>
Top(expr) == expr[TopPath(expr)]

(* The aggregation promxy puts over the answers to a plain query. *)
Combined(expr, vec) ==
  IF Top(expr).kind = "aggregate" THEN AggregateOf(Recombine(Top(expr)), vec) ELSE vec

(* The two shapes of a core. *)
LEMMA CoreIs ==
  ASSUME NEW expr, NEW inner, NEW sel, IsCore(expr, inner, sel)
  PROVE  \/ expr = inner /\ expr[<<>>].kind \notin {"aggregate", "binary"}
         \/ /\ expr[<<>>].kind = "aggregate" /\ expr[<<>>].op \in PushedOps
            /\ "op" \in DOMAIN expr[<<>>] /\ IsFunction(expr[<<>>])
            /\ expr = Over(expr[<<>>], inner)
<1>0. DOMAIN inner \subseteq Seq(1..2)
  BY InnerIs DEF IsCore
<1>1. CASE expr = inner
  <2>1. inner[<<>>].kind \notin {"aggregate", "binary"}
    BY InnerIs DEF IsCore
  <2> QED
    BY <1>1, <2>1
<1>2. ASSUME NEW op \in PushedOps, NEW without, NEW grouping, expr = Over(Aggregate(op, without, grouping), inner)
      PROVE  /\ expr[<<>>].kind = "aggregate" /\ expr[<<>>].op \in PushedOps
             /\ "op" \in DOMAIN expr[<<>>] /\ IsFunction(expr[<<>>])
             /\ expr = Over(expr[<<>>], inner)
  <2> DEFINE agg == Aggregate(op, without, grouping)
  <2>1. agg.kind = "aggregate" /\ agg.op = op /\ "op" \in DOMAIN agg /\ IsFunction(agg)
    BY DEF Aggregate, IsFunction
  <2> HIDE DEF agg
  <2>2. expr = Over(agg, inner)
    BY <1>2 DEF agg
  <2>3. expr[<<>>] = agg
    BY <1>0, <2>2, OverIs
  <2> QED
    BY <2>1, <2>2, <2>3
<1> QED
  BY <1>1, <1>2 DEF IsCore

(* There is no operator in a core. *)
LEMMA CoreTop ==
  ASSUME NEW expr, NEW inner, NEW sel, IsCore(expr, inner, sel)
  PROVE  Top(expr) = expr[<<>>] /\ expr[<<>>].kind # "binary"
BY CoreIs DEF Top, TopPath

(* The groups' values of an inner expression over floats are vectors of floats. *)
LEMMA InnerVectors ==
  ASSUME NEW X, LabelSets(X), FloatSeries(X), IsFiniteSet(Groups), NEW inner, NEW sel, IsInner(inner, sel),
         ~sel.fetched, NEW u \in 0..Horizon, Ref(sel, u) \in Int
  PROVE  LET I == [g \in Groups |-> InnerValue(inner, X[g], u)]
         IN  Vectors(I) /\ InnerValue(inner, AllGroups(X), u) = AllGroups(I)
<1> DEFINE I == [g \in Groups |-> InnerValue(inner, X[g], u)]
<1>1. LabelSets(I) /\ InnerValue(inner, AllGroups(X), u) = AllGroups(I)
  BY InnerByGroup
<1>2. \A g \in Groups : I[g] = InnerValue(inner, X[g], u)
  OBVIOUS
<1>3. \A g \in Groups : IsFiniteSet(DOMAIN X[g]) /\ \A m \in DOMAIN X[g] : FloatSamples(X[g][m])
  BY DEF FloatSeries
<1>4. \A g \in Groups : FloatVector(I[g])
  BY <1>2, <1>3, InnerFloats
<1> HIDE DEF I
<1>5. Vectors(I)
  BY <1>1, <1>4 DEF Vectors, FloatVector
<1> QED
  BY <1>1, <1>5 DEF I

(* The groups' values of a core, recombined, are its value over all series. *)
LEMMA CoreByGroup ==
  ASSUME NEW X, LabelSets(X), FloatSeries(X), IsFiniteSet(Groups),
         NEW expr, NEW inner, NEW sel, IsCore(expr, inner, sel), ~sel.fetched,
         NEW u \in 0..Horizon, Ref(sel, u) \in Int
  PROVE  LET V == [g \in Groups |-> Eval(expr, X[g], u)]
         IN  Vectors(V) /\ Combined(expr, AllGroups(V)) = Eval(expr, AllGroups(X), u)
<1> DEFINE I == [g \in Groups |-> InnerValue(inner, X[g], u)]
<1>0. IsInner(inner, sel)
  BY DEF IsCore
<1>1. Vectors(I) /\ InnerValue(inner, AllGroups(X), u) = AllGroups(I)
  BY <1>0, InnerVectors
<1>2. \A g \in Groups : I[g] = InnerValue(inner, X[g], u)
  OBVIOUS
<1> HIDE DEF I
<1>3. \A g \in Groups : FloatVector(I[g])
  BY <1>1 DEF Vectors, FloatVector
<1>4. Vectors(I) /\ Top(expr) = expr[<<>>]
  BY <1>1, CoreTop
<1>5. CASE expr = inner /\ expr[<<>>].kind # "aggregate"
  <2>1. \A series : Eval(expr, series, u) = InnerValue(inner, series, u)
    BY <1>0, <1>5, EvalInner
  <2>2. [g \in Groups |-> Eval(expr, X[g], u)] = I
    BY <2>1 DEF I
  <2> QED
    BY <1>1, <1>4, <1>5, <2>1, <2>2 DEF Combined
<1>6. CASE /\ expr[<<>>].kind = "aggregate" /\ expr[<<>>].op \in PushedOps
           /\ "op" \in DOMAIN expr[<<>>] /\ IsFunction(expr[<<>>])
           /\ expr = Over(expr[<<>>], inner)
  <2> DEFINE agg == expr[<<>>]
  <2>1. \A series : Eval(expr, series, u) = AggregateOf(agg, InnerValue(inner, series, u))
    BY <1>0, <1>6, EvalOverInner
  <2>2. [g \in Groups |-> Eval(expr, X[g], u)] = EachGroup(agg, I)
    BY <1>2, <2>1 DEF EachGroup
  <2>3. AggregateOf(Recombine(agg), AllGroups(EachGroup(agg, I))) = AggregateOf(agg, AllGroups(I))
    BY <1>4, <1>6, Recombined
  <2>4. \A g \in Groups : EachGroup(agg, I)[g] = AggregateOf(agg, I[g])
    BY DEF EachGroup
  <2>5. \A g \in Groups : \A l \in DOMAIN I[g] : IsLabelSet(l)
    BY <1>1 DEF Vectors, LabelSets
  <2>6. \A g \in Groups : /\ FloatVector(EachGroup(agg, I)[g])
                          /\ \A l \in DOMAIN EachGroup(agg, I)[g] : IsLabelSet(l)
    BY <1>3, <1>6, <2>4, <2>5, AggregateFloats
  <2>7. Vectors(EachGroup(agg, I))
    BY <2>6 DEF Vectors, FloatVector, LabelSets
  <2> QED
    BY <1>1, <1>4, <1>6, <2>1, <2>2, <2>3, <2>7 DEF Combined
<1> QED
  BY <1>5, <1>6, CoreIs

(* The shape of a core: one selector, at sp, below a function over its range,
   an aggregation, or both. *)
CoreTree(expr, sel, sp) ==
  /\ IsFunction(expr) /\ DOMAIN expr \subseteq Seq(1..2) /\ <<>> \in DOMAIN expr
  /\ sp \in DOMAIN expr /\ expr[sp] = sel
  /\ \A p \in DOMAIN expr :
       /\ expr[p].kind = "selector" <=> p = sp
       /\ expr[p].kind \in {"selector", "matrix", "call", "aggregate"}
       /\ expr[p].kind = "aggregate" => p = <<>> /\ expr[p].op \in PushedOps
       /\ expr[p].kind = "call" => expr[p].fn \in RangeFns
  /\ expr[<<>>].kind # "matrix"

(* Inner expressions have the shape. *)
LEMMA InnerTree ==
  ASSUME NEW inner, NEW sel, IsInner(inner, sel)
  PROVE  /\ \E sp \in DOMAIN inner : CoreTree(inner, sel, sp)
         /\ \A p \in DOMAIN inner : inner[p].kind # "aggregate"
<1>1. IsFunction(inner)
  <2>1. CASE inner = Leaf(sel)
    BY <2>1 DEF Leaf, IsFunction
  <2>2. ASSUME NEW fn, NEW range, inner = RangeOf(fn, range, sel) PROVE IsFunction(inner)
    BY <2>2 DEF RangeOf, Over, IsFunction
  <2> QED
    BY <2>1, <2>2 DEF IsInner
<1>2. DOMAIN inner \subseteq Seq(1..2) /\ sel.kind = "selector"
  BY InnerIs
<1>3. CASE DOMAIN inner = {<<>>} /\ inner[<<>>] = sel
  BY <1>1, <1>2, <1>3 DEF CoreTree
<1>4. CASE /\ DOMAIN inner = {<<>>, <<1>>, <<1, 1>>}
           /\ inner[<<>>].kind = "call" /\ inner[<<>>].fn \in RangeFns
           /\ inner[<<1>>].kind = "matrix" /\ inner[<<1>>].range \in Nat \ {0}
           /\ inner[<<1, 1>>] = sel
  <2>1. CoreTree(inner, sel, <<1, 1>>)
    BY <1>1, <1>2, <1>4, Paths DEF CoreTree
  <2> QED
    BY <1>2, <1>4, <2>1
<1> QED
  BY <1>3, <1>4, InnerIs

(* Cores have the shape. *)
LEMMA CoreNodes ==
  ASSUME NEW expr, NEW inner, NEW sel, IsCore(expr, inner, sel)
  PROVE  \E sp \in DOMAIN expr : CoreTree(expr, sel, sp)
<1>0. IsInner(inner, sel)
  BY DEF IsCore
<1>1. CASE expr = inner
  BY <1>0, <1>1, InnerTree
<1>2. CASE /\ expr[<<>>].kind = "aggregate" /\ expr[<<>>].op \in PushedOps
           /\ expr = Over(expr[<<>>], inner)
  <2>1. PICK sp \in DOMAIN inner : CoreTree(inner, sel, sp)
    BY <1>0, InnerTree
  <2>2. /\ DOMAIN inner \subseteq Seq(1..2)
        /\ \A p \in DOMAIN inner : /\ inner[p].kind = "selector" <=> p = sp
                                   /\ inner[p].kind \in {"selector", "matrix", "call"}
                                   /\ inner[p].kind = "call" => inner[p].fn \in RangeFns
    BY <1>0, <2>1, InnerTree DEF CoreTree
  <2>3. /\ \A p : p \in DOMAIN expr <=> p = <<>> \/ \E q \in DOMAIN inner : p = <<1>> \o q
        /\ \A q \in DOMAIN inner : expr[<<1>> \o q] = inner[q]
        /\ DOMAIN expr \subseteq Seq(1..2)
    <3> DEFINE root == expr[<<>>]
    <3>1. expr = Over(root, inner)
      BY <1>2
    <3> HIDE DEF root
    <3>2. \A p : p \in DOMAIN expr <=> p = <<>> \/ \E q \in DOMAIN inner : p = <<1>> \o q
      BY <3>1 DEF Over
    <3>3. \A q \in DOMAIN inner : expr[<<1>> \o q] = inner[q]
      BY <2>2, <3>1, OverIs
    <3>4. DOMAIN expr \subseteq Seq(1..2)
      BY <2>2, <3>1, OverIs
    <3> QED
      BY <3>2, <3>3, <3>4
  <2>4. IsFunction(expr)
    <3> DEFINE root == expr[<<>>]
    <3>1. expr = Over(root, inner)
      BY <1>2
    <3> HIDE DEF root
    <3>2. IsFunction(Over(root, inner))
      BY DEF Over, IsFunction
    <3> QED
      BY <3>1, <3>2
  <2>5. \A q \in DOMAIN inner : <<1>> \o q = <<1>> \o sp => q = sp
    <3>1. ASSUME NEW q \in DOMAIN inner PROVE <<1>> \o q = <<1>> \o sp => q = sp
      <4>1. q \in Seq(1..2) /\ sp \in Seq(1..2)
        BY <2>2
      <4>2. Tail(<<1>> \o q) = q /\ Tail(<<1>> \o sp) = sp
        BY <4>1
      <4> QED
        BY <4>2
    <3> QED
      BY <3>1
  <2>6. <<1>> \o sp \in DOMAIN expr /\ expr[<<1>> \o sp] = sel
    BY <2>1, <2>3 DEF CoreTree
  <2>7. ASSUME NEW p \in DOMAIN expr
        PROVE  /\ expr[p].kind = "selector" <=> p = <<1>> \o sp
               /\ expr[p].kind \in {"selector", "matrix", "call", "aggregate"}
               /\ expr[p].kind = "aggregate" => p = <<>> /\ expr[p].op \in PushedOps
               /\ expr[p].kind = "call" => expr[p].fn \in RangeFns
    <3>1. CASE p = <<>>
      <4>1. sp \in Seq(1..2)
        BY <2>2
      <4>2. <<1>> \o sp # <<>>
        BY <4>1
      <4> QED
        BY <1>2, <3>1, <4>2
    <3>2. ASSUME NEW q \in DOMAIN inner
          PROVE  p = <<1>> \o q =>
                   /\ expr[p].kind = "selector" <=> p = <<1>> \o sp
                   /\ expr[p].kind \in {"selector", "matrix", "call"}
                   /\ expr[p].kind = "call" => expr[p].fn \in RangeFns
      <4> HAVE p = <<1>> \o q
      <4>1. expr[p] = inner[q]
        BY <2>3
      <4>2. p = <<1>> \o sp <=> q = sp
        BY <2>5
      <4> QED
        BY <2>2, <4>1, <4>2
    <3> QED
      BY <2>3, <3>1, <3>2
  <2>8. <<>> \in DOMAIN expr /\ expr[<<>>].kind # "matrix"
    BY <1>2, <2>3
  <2>9. CoreTree(expr, sel, <<1>> \o sp)
    BY <2>3, <2>4, <2>6, <2>7, <2>8 DEF CoreTree
  <2> QED
    BY <2>6, <2>9
<1> QED
  BY <1>1, <1>2, CoreIs

---------------------------------------------------------------------------
(* Plain queries: a core, or an operator between one that NodeReplacer sends
   with it (a selector, or an aggregation of LiteralSafeOps) and a literal. *)

LiteralOver(op, core, n) == Both(Binary(op), core, Leaf(Literal(n)))
IsOperand(core) ==
  core[<<>>].kind = "selector" \/ (core[<<>>].kind = "aggregate" /\ core[<<>>].op \in LiteralSafeOps)
IsLiteralQuery(expr, op, core, n, inner, sel) ==
  /\ op \in LiteralOps /\ n \in Int
  /\ IsCore(core, inner, sel) /\ IsOperand(core)
  /\ expr = LiteralOver(op, core, n)
  /\ core[<<>>].kind = "aggregate" => KeepsOrder(core[<<>>].op, op, n)
IsPlain(expr, inner, sel) ==
  IsCore(expr, inner, sel) \/ \E op, core, n : IsLiteralQuery(expr, op, core, n, inner, sel)

(* The nodes of an operator with a literal. *)
IsBoth(t, node, core, lit) ==
  /\ IsFunction(t) /\ DOMAIN t \subseteq Seq(1..2)
  /\ \A p : p \in DOMAIN t <=> p = <<>> \/ p = <<2>> \/ \E q \in DOMAIN core : p = <<1>> \o q
  /\ t[<<>>] = node /\ t[<<2>>] = lit
  /\ \A q \in DOMAIN core : t[<<1>> \o q] = core[q] /\ <<1>> \o q \notin {<<>>, <<2>>}

(* The two sides of an operator have different paths. *)
LEMMA BothPaths ==
  /\ <<2>> \in Seq(1..2) /\ <<2>> # <<>> /\ <<2>> # <<1>> /\ <<2>> \o <<>> = <<2>>
  /\ \A q \in Seq(1..2) : /\ <<1>> \o q \in Seq(1..2) /\ Tail(<<1>> \o q) = q /\ Head(<<1>> \o q) = 1
                          /\ <<1>> \o q # <<>> /\ <<1>> \o q # <<2>>
  /\ Head(<<2>>) = 2 /\ Tail(<<2>>) = <<>>
<1>1. <<2>> \in Seq(1..2) /\ <<2>> # <<>> /\ <<2>> \o <<>> = <<2>> /\ Head(<<2>>) = 2 /\ Tail(<<2>>) = <<>>
  OBVIOUS
<1>2. Head(<<1>>) = 1
  OBVIOUS
<1>3. ASSUME NEW q \in Seq(1..2)
      PROVE  /\ <<1>> \o q \in Seq(1..2) /\ Tail(<<1>> \o q) = q /\ Head(<<1>> \o q) = 1 /\ <<1>> \o q # <<>>
  OBVIOUS
<1>4. <<2>> # <<1>>
  BY <1>1, <1>2
<1>5. ASSUME NEW q \in Seq(1..2) PROVE <<1>> \o q # <<2>>
  <2>1. Head(<<1>> \o q) # Head(<<2>>)
    BY <1>1, <1>3
  <2> QED
    BY <2>1
<1> QED
  BY <1>1, <1>3, <1>4, <1>5

(* Both puts the sides below the node. *)
LEMMA BothIs ==
  ASSUME NEW node, NEW core, DOMAIN core \subseteq Seq(1..2), NEW lit
  PROVE  IsBoth(Both(node, core, Leaf(lit)), node, core, lit)
<1> DEFINE L == Leaf(lit)
           T == Both(node, core, L)
<1>1. DOMAIN L = {<<>>} /\ L[<<>>] = lit
  BY LeafIs
<1> HIDE DEF L
<1>2. {<<2>> \o q : q \in DOMAIN L} = {<<2>>}
  BY <1>1, BothPaths
<1>3. T = [p \in {<<>>} \cup {<<1>> \o q : q \in DOMAIN core} \cup {<<2>>} |->
             IF p = <<>> THEN node ELSE IF Head(p) = 1 THEN core[Tail(p)] ELSE L[Tail(p)]]
  BY <1>2 DEF Both
<1> HIDE DEF T
<1>4. IsFunction(T) /\ \A p : p \in DOMAIN T <=> p = <<>> \/ p = <<2>> \/ \E q \in DOMAIN core : p = <<1>> \o q
  BY <1>3 DEF IsFunction
<1>5. T[<<>>] = node
  BY <1>3
<1>6. T[<<2>>] = lit
  BY <1>1, <1>3, BothPaths
<1>7. \A q \in DOMAIN core : T[<<1>> \o q] = core[q] /\ <<1>> \o q \notin {<<>>, <<2>>}
  BY <1>3, BothPaths
<1>8. DOMAIN T \subseteq Seq(1..2)
  <2>1. ASSUME NEW p \in DOMAIN T PROVE p \in Seq(1..2)
    <3>1. CASE p = <<>>
      BY <3>1, Paths
    <3>2. CASE p = <<2>>
      BY <3>2, BothPaths
    <3>3. CASE \E q \in DOMAIN core : p = <<1>> \o q
      BY <3>3, BothPaths
    <3> QED
      BY <1>4, <3>1, <3>2, <3>3
  <2> QED
    BY <2>1
<1> QED
  BY <1>4, <1>5, <1>6, <1>7, <1>8 DEF IsBoth, T, L

(* The root is an operator with a literal. *)
HasOperands(t) ==
  /\ {<<>>, <<1>>, <<2>>} \subseteq DOMAIN t
  /\ t[<<>>].kind = "binary" /\ t[<<2>>].kind = "literal"

(* Over nodes whose value depends on no other. *)
LEMMA EvalLiteralOver ==
  ASSUME NEW t, HasOperands(t), \A p \in DOMAIN t : p # <<>> => IsClosed(t, p), NEW series, NEW u \in 0..Horizon
  PROVE  Eval(t, series, u) = WithLiteral(t[<<>>].op, ValueOf(t, series, <<>>, <<1>>, u), t[<<2>>].v)
<1> <<>> \in DOMAIN t /\ <<1>> \in DOMAIN t
  BY DEF HasOperands
<1> DEFINE W(vec) == WithLiteral(t[<<>>].op, vec, t[<<2>>].v)
           C(p, w) == IF p = <<>> THEN W(ValueOf(t, series, <<>>, <<1>>, w)) ELSE ValueOf(t, series, <<>>, p, w)
           G == [p \in DOMAIN t |-> [w \in 0..Horizon |-> C(p, w)]]
<1>1. \A val : \A p \in DOMAIN t, w \in 0..Horizon :
        p # <<>> => ValueOf(t, series, val, p, w) = ValueOf(t, series, <<>>, p, w)
  <2>1. ASSUME NEW val, NEW p \in DOMAIN t, NEW w \in 0..Horizon, p # <<>>
        PROVE  ValueOf(t, series, val, p, w) = ValueOf(t, series, <<>>, p, w)
    <3>1. IsClosed(t, p)
      BY <2>1
    <3> QED
      BY <3>1, ClosedValue
  <2> QED
    BY <2>1
<1>2. \A val, w : ValueOf(t, series, val, <<>>, w) = W(val[<<1>>][w])
  <2>1. Child(<<>>, 1) = <<1>> /\ Child(<<>>, 2) = <<2>>
    BY DEF Child
  <2>2. \A val, w : ValueOf(t, series, val, <<>>, w) =
          IF t[Child(<<>>, 2)].kind = "literal"
          THEN WithLiteral(t[<<>>].op, val[Child(<<>>, 1)][w], t[Child(<<>>, 2)].v)
          ELSE OfVectors(t[<<>>].op, val[Child(<<>>, 1)][w], val[Child(<<>>, 2)][w])
    BY Zenon DEF ValueOf, HasOperands
  <2> QED
    BY <2>1, <2>2 DEF HasOperands
<1>3. <<1>> # <<>>
  BY Paths
<1> HIDE DEF W
<1>4. Evaluates(G, t, series)
  <2>0. \A w \in 0..Horizon : G[<<1>>][w] = ValueOf(t, series, <<>>, <<1>>, w)
    BY <1>3
  <2> DEFINE V == [p \in DOMAIN t |-> [w \in 0..Horizon |-> ValueOf(t, series, G, p, w)]]
  <2> HIDE DEF G
  <2>1. ASSUME NEW p \in DOMAIN t, NEW w \in 0..Horizon PROVE ValueOf(t, series, G, p, w) = C(p, w)
    BY <1>1, <1>2, <2>0
  <2> HIDE DEF C
  <2>2. V = [p \in DOMAIN t |-> [w \in 0..Horizon |-> C(p, w)]]
    BY <2>1
  <2> QED
    BY <2>2 DEF Evaluates, G
<1>5. PICK val : Evaluates(val, t, series) /\ Eval(t, series, u) = val[<<>>][u]
  BY <1>4, EvalBy
<1>6. /\ val[<<>>][u] = ValueOf(t, series, val, <<>>, u)
      /\ val[<<1>>][u] = ValueOf(t, series, val, <<1>>, u)
  BY <1>5, EvaluatesAt
<1> QED
  BY <1>1, <1>2, <1>3, <1>5, <1>6 DEF W

(* The operand is an aggregation, over nodes whose value depends on no other. *)
HasAggregate(t) ==
  /\ <<1, 1>> \in DOMAIN t /\ t[<<1>>].kind = "aggregate"
  /\ \A p \in DOMAIN t : p \notin {<<>>, <<1>>} => IsClosed(t, p)

(* Over such an aggregation. *)
LEMMA EvalLiteralAggregate ==
  ASSUME NEW t, HasOperands(t), HasAggregate(t), NEW series, NEW u \in 0..Horizon
  PROVE  Eval(t, series, u) =
           WithLiteral(t[<<>>].op, AggregateOf(t[<<1>>], ValueOf(t, series, <<>>, <<1, 1>>, u)), t[<<2>>].v)
<1> <<>> \in DOMAIN t /\ <<1>> \in DOMAIN t /\ <<1, 1>> \in DOMAIN t /\ t[<<1>>].kind = "aggregate"
  BY DEF HasOperands, HasAggregate
<1> DEFINE W(vec) == WithLiteral(t[<<>>].op, vec, t[<<2>>].v)
           A(w) == AggregateOf(t[<<1>>], ValueOf(t, series, <<>>, <<1, 1>>, w))
           C(p, w) == IF p = <<>> THEN W(A(w)) ELSE IF p = <<1>> THEN A(w) ELSE ValueOf(t, series, <<>>, p, w)
           G == [p \in DOMAIN t |-> [w \in 0..Horizon |-> C(p, w)]]
<1>1. \A val : \A p \in DOMAIN t, w \in 0..Horizon :
        p \notin {<<>>, <<1>>} => ValueOf(t, series, val, p, w) = ValueOf(t, series, <<>>, p, w)
  <2> TAKE val
  <2> TAKE p \in DOMAIN t, w \in 0..Horizon
  <2> HAVE p \notin {<<>>, <<1>>}
  <2>1. IsClosed(t, p)
    BY DEF HasAggregate
  <2> QED
    BY <2>1, ClosedValue
<1>2. \A val, w : ValueOf(t, series, val, <<>>, w) = W(val[<<1>>][w])
  <2>1. Child(<<>>, 1) = <<1>> /\ Child(<<>>, 2) = <<2>>
    BY DEF Child
  <2>2. \A val, w : ValueOf(t, series, val, <<>>, w) =
          IF t[Child(<<>>, 2)].kind = "literal"
          THEN WithLiteral(t[<<>>].op, val[Child(<<>>, 1)][w], t[Child(<<>>, 2)].v)
          ELSE OfVectors(t[<<>>].op, val[Child(<<>>, 1)][w], val[Child(<<>>, 2)][w])
    BY Zenon DEF ValueOf, HasOperands
  <2> QED
    BY <2>1, <2>2 DEF HasOperands
<1>2a. \A val, w : ValueOf(t, series, val, <<1>>, w) = AggregateOf(t[<<1>>], val[<<1, 1>>][w])
  <2>1. Child(<<1>>, 1) = <<1, 1>>
    <3>1. Child(<<1>>, 1) = <<1>> \o <<1>>
      BY DEF Child
    <3> QED
      BY <3>1, Paths
  <2>2. \A val, w : ValueOf(t, series, val, <<1>>, w) = AggregateOf(t[<<1>>], val[Child(<<1>>, 1)][w])
    BY Zenon DEF ValueOf
  <2> QED
    BY <2>1, <2>2
<1>3. <<1>> # <<>> /\ <<1, 1>> \notin {<<>>, <<1>>}
  BY Paths
<1> HIDE DEF W
<1>4. Evaluates(G, t, series)
  <2>0. \A w \in 0..Horizon : G[<<1, 1>>][w] = ValueOf(t, series, <<>>, <<1, 1>>, w) /\ G[<<1>>][w] = A(w)
    BY <1>3
  <2> DEFINE V == [p \in DOMAIN t |-> [w \in 0..Horizon |-> ValueOf(t, series, G, p, w)]]
  <2> HIDE DEF G
  <2>1. ASSUME NEW p \in DOMAIN t, NEW w \in 0..Horizon PROVE ValueOf(t, series, G, p, w) = C(p, w)
    BY <1>1, <1>2, <1>2a, <2>0
  <2> HIDE DEF C
  <2>2. V = [p \in DOMAIN t |-> [w \in 0..Horizon |-> C(p, w)]]
    BY <2>1
  <2> QED
    BY <2>2 DEF Evaluates, G
<1>5. PICK val : Evaluates(val, t, series) /\ Eval(t, series, u) = val[<<>>][u]
  BY <1>4, EvalBy
<1>6. /\ val[<<>>][u] = ValueOf(t, series, val, <<>>, u)
      /\ val[<<1>>][u] = ValueOf(t, series, val, <<1>>, u)
      /\ val[<<1, 1>>][u] = ValueOf(t, series, val, <<1, 1>>, u)
  BY <1>5, EvaluatesAt
<1>7. val[<<1, 1>>][u] = ValueOf(t, series, <<>>, <<1, 1>>, u)
  BY <1>1, <1>3, <1>6
<1> QED
  BY <1>2, <1>2a, <1>5, <1>6, <1>7 DEF W

(* So the engine applies the operator to the value of the operand. *)
LEMMA EvalLiteral ==
  ASSUME NEW core, NEW inner, NEW sel, IsCore(core, inner, sel), IsOperand(core), NEW op, NEW n,
         NEW series, NEW u \in 0..Horizon
  PROVE  Eval(LiteralOver(op, core, n), series, u) = WithLiteral(op, Eval(core, series, u), n)
<1> DEFINE T == LiteralOver(op, core, n)
<1>0. IsInner(inner, sel) /\ DOMAIN inner \subseteq Seq(1..2) /\ <<>> \in DOMAIN inner
  BY InnerIs DEF IsCore
<1>1. DOMAIN core \subseteq Seq(1..2) /\ <<>> \in DOMAIN core
  BY CoreNodes DEF CoreTree
<1>2. IsBoth(T, Binary(op), core, Literal(n))
  BY <1>1, BothIs DEF LiteralOver
<1> HIDE DEF T
<1>3. /\ T[<<>>].kind = "binary" /\ T[<<>>].op = op /\ T[<<2>>].kind = "literal" /\ T[<<2>>].v = n
      /\ <<>> \in DOMAIN T /\ <<2>> \in DOMAIN T
      /\ \A p : p \in DOMAIN T <=> p = <<>> \/ p = <<2>> \/ \E q \in DOMAIN core : p = <<1>> \o q
      /\ \A q \in DOMAIN core : T[<<1>> \o q] = core[q]
  <2>1. /\ Binary(op).kind = "binary" /\ Binary(op).op = op
        /\ Literal(n).kind = "literal" /\ Literal(n).v = n
    BY DEF Binary, Literal
  <2>2. /\ T[<<>>] = Binary(op) /\ T[<<2>>] = Literal(n)
        /\ \A p : p \in DOMAIN T <=> p = <<>> \/ p = <<2>> \/ \E q \in DOMAIN core : p = <<1>> \o q
        /\ \A q \in DOMAIN core : T[<<1>> \o q] = core[q]
    BY <1>2, Zenon DEF IsBoth
  <2>3. <<>> \in DOMAIN T /\ <<2>> \in DOMAIN T
    BY <2>2, Zenon
  <2> QED
    BY <2>1, <2>2, <2>3
<1>4. <<1>> \in DOMAIN T /\ T[<<1>>] = core[<<>>] /\ HasOperands(T)
  BY <1>1, <1>3, Paths DEF HasOperands
<1>5. IsClosed(T, <<2>>)
  BY <1>3 DEF IsClosed
<1>6. CASE core[<<>>].kind # "aggregate"
  <2>1. core = inner
    BY <1>6, CoreIs
  <2>2. \A q \in DOMAIN inner : IsClosed(T, <<1>> \o q)
    BY <1>0, <1>3, <2>1, InnerClosed, Paths
  <2>3. \A p \in DOMAIN T : p # <<>> => IsClosed(T, p)
    BY <1>3, <1>5, <2>1, <2>2
  <2>4. Eval(T, series, u) = WithLiteral(op, ValueOf(T, series, <<>>, <<1>>, u), n)
    BY <1>3, <1>4, <2>3, EvalLiteralOver
  <2>5. ValueOf(T, series, <<>>, <<1>>, u) = InnerValue(inner, series, u)
    <3> DEFINE p == <<1>>
               val == <<>>
    <3>1. p \in Seq(1..2) /\ \A q \in DOMAIN inner : T[p \o q] = inner[q]
      BY <1>3, <2>1, Paths
    <3> HIDE DEF p, val
    <3>2. ValueOf(T, series, val, p, u) = InnerValue(inner, series, u)
      BY <1>0, <3>1, InnerNode
    <3> QED
      BY <3>2 DEF p, val
  <2>6. Eval(core, series, u) = InnerValue(inner, series, u)
    BY <1>0, <2>1, EvalInner
  <2> QED
    BY <2>4, <2>5, <2>6 DEF T
<1>7. CASE core[<<>>].kind = "aggregate"
  <2> DEFINE agg == core[<<>>]
  <2>1. core = Over(agg, inner) /\ agg.kind = "aggregate"
    BY <1>7, CoreIs
  <2>1a. T[<<1>>] = agg
    BY <1>4
  <2> HIDE DEF agg
  <2>2. \A p : p \in DOMAIN core <=> p = <<>> \/ \E q \in DOMAIN inner : p = <<1>> \o q
    BY <2>1 DEF Over
  <2>3. \A q \in DOMAIN inner : core[<<1>> \o q] = inner[q]
    BY <1>0, <2>1, OverIs
  <2>4. \A q \in DOMAIN inner : <<1>> \o (<<1>> \o q) = <<1, 1>> \o q
    <3>1. ASSUME NEW q \in Seq(1..2) PROVE <<1>> \o (<<1>> \o q) = (<<1>> \o <<1>>) \o q
      <4>1. <<1>> \in Seq(1..2)
        BY Paths
      <4> QED
        BY <4>1, ConcatAssociative
    <3> QED
      BY <1>0, <3>1, Paths
  <2>5. \A q \in DOMAIN inner : T[<<1, 1>> \o q] = inner[q]
    BY <1>3, <2>2, <2>3, <2>4
  <2>6. \A q \in DOMAIN inner : IsClosed(T, <<1, 1>> \o q)
    BY <1>0, <2>5, InnerClosed, Paths
  <2>7. \A p \in DOMAIN T : p \notin {<<>>, <<1>>} => IsClosed(T, p)
    <3> TAKE p \in DOMAIN T
    <3> HAVE p \notin {<<>>, <<1>>}
    <3>1. CASE p = <<2>>
      BY <1>5, <3>1
    <3>2. CASE p # <<2>>
      <4>1. PICK q \in DOMAIN core : p = <<1>> \o q
        BY <1>3, <3>2
      <4>2. q # <<>>
        BY <4>1, Paths
      <4>3. PICK d \in DOMAIN inner : q = <<1>> \o d
        BY <2>2, <4>1, <4>2
      <4> QED
        BY <2>4, <2>6, <4>1, <4>3
    <3> QED
      BY <3>1, <3>2
  <2>8. <<1, 1>> \in DOMAIN T
    <3>1. <<1>> \in DOMAIN core
      BY <1>0, <2>2, Paths
    <3> QED
      BY <1>3, <3>1, Paths
  <2>9. Eval(T, series, u) = WithLiteral(op, AggregateOf(agg, ValueOf(T, series, <<>>, <<1, 1>>, u)), n)
    <3>1. HasAggregate(T)
      BY <2>1, <2>1a, <2>7, <2>8 DEF HasAggregate
    <3> QED
      BY <1>3, <1>4, <2>1a, <3>1, EvalLiteralAggregate
  <2>10. ValueOf(T, series, <<>>, <<1, 1>>, u) = InnerValue(inner, series, u)
    <3> DEFINE p == <<1, 1>>
               val == <<>>
    <3>1. p \in Seq(1..2) /\ \A q \in DOMAIN inner : T[p \o q] = inner[q]
      BY <2>5, Paths
    <3> HIDE DEF p, val
    <3>2. ValueOf(T, series, val, p, u) = InnerValue(inner, series, u)
      BY <1>0, <3>1, InnerNode
    <3> QED
      BY <3>2 DEF p, val
  <2>11. Eval(core, series, u) = AggregateOf(agg, InnerValue(inner, series, u))
    BY <1>0, <2>1, EvalOverInner
  <2> QED
    BY <2>9, <2>10, <2>11 DEF T
<1> QED
  BY <1>6, <1>7

(* The query as a whole applies the operator to what the core is. *)
LEMMA LiteralIs ==
  ASSUME NEW expr, NEW op, NEW core, NEW n, NEW inner, NEW sel, IsLiteralQuery(expr, op, core, n, inner, sel)
  PROVE  /\ IsBoth(expr, Binary(op), core, Literal(n))
         /\ expr[<<>>] = Binary(op) /\ expr[<<1>>] = core[<<>>] /\ Top(expr) = core[<<>>]
         /\ \A series : \A u \in 0..Horizon : Eval(expr, series, u) = WithLiteral(op, Eval(core, series, u), n)
<1>1. /\ IsCore(core, inner, sel) /\ IsOperand(core)
      /\ expr = LiteralOver(op, core, n)
  BY DEF IsLiteralQuery
<1>2. DOMAIN core \subseteq Seq(1..2) /\ <<>> \in DOMAIN core
  BY <1>1, CoreNodes DEF CoreTree
<1>3. IsBoth(expr, Binary(op), core, Literal(n))
  BY <1>1, <1>2, BothIs DEF LiteralOver
<1>4. expr[<<>>] = Binary(op) /\ expr[<<1>> \o <<>>] = core[<<>>]
  BY <1>2, <1>3 DEF IsBoth
<1>5. expr[<<1>>] = core[<<>>]
  BY <1>4, Paths
<1>6. Top(expr) = core[<<>>]
  BY <1>4, <1>5 DEF Top, TopPath, Binary
<1> QED
  BY <1>1, <1>3, <1>4, <1>5, <1>6, EvalLiteral

(* What is recombined at the top of a plain query, if anything. *)
LEMMA PlainTop ==
  ASSUME NEW expr, NEW inner, NEW sel, IsPlain(expr, inner, sel)
  PROVE  Top(expr).kind = "aggregate" =>
           Top(expr).op \in PushedOps /\ "op" \in DOMAIN Top(expr) /\ IsFunction(Top(expr))
<1>1. CASE IsCore(expr, inner, sel)
  BY <1>1, CoreIs, CoreTop
<1>2. ASSUME NEW op, NEW core, NEW n, IsLiteralQuery(expr, op, core, n, inner, sel)
      PROVE  Top(expr).kind = "aggregate" =>
               Top(expr).op \in PushedOps /\ "op" \in DOMAIN Top(expr) /\ IsFunction(Top(expr))
  <2>1. Top(expr) = core[<<>>] /\ IsCore(core, inner, sel)
    BY <1>2, LiteralIs DEF IsLiteralQuery
  <2> QED
    BY <2>1, CoreIs
<1> QED
  BY <1>1, <1>2 DEF IsPlain

(* The groups' values of a plain query, recombined, are its value over all
   series. *)
LEMMA PlainByGroup ==
  ASSUME NEW X, LabelSets(X), FloatSeries(X), IsFiniteSet(Groups),
         NEW expr, NEW inner, NEW sel, IsPlain(expr, inner, sel), ~sel.fetched,
         NEW u \in 0..Horizon, Ref(sel, u) \in Int
  PROVE  LET V == [g \in Groups |-> Eval(expr, X[g], u)]
         IN  Vectors(V) /\ Combined(expr, AllGroups(V)) = Eval(expr, AllGroups(X), u)
<1>1. CASE IsCore(expr, inner, sel)
  BY <1>1, CoreByGroup
<1>2. ASSUME NEW op, NEW core, NEW n, IsLiteralQuery(expr, op, core, n, inner, sel)
      PROVE  LET V == [g \in Groups |-> Eval(expr, X[g], u)]
             IN  Vectors(V) /\ Combined(expr, AllGroups(V)) = Eval(expr, AllGroups(X), u)
  <2> DEFINE V == [g \in Groups |-> Eval(expr, X[g], u)]
             C == [g \in Groups |-> Eval(core, X[g], u)]
             I == [g \in Groups |-> InnerValue(inner, X[g], u)]
             whole == Eval(core, AllGroups(X), u)
  <2>0. /\ op \in LiteralOps /\ n \in Int /\ IsCore(core, inner, sel) /\ IsOperand(core) /\ IsInner(inner, sel)
        /\ core[<<>>].kind = "aggregate" => KeepsOrder(core[<<>>].op, op, n)
    BY <1>2 DEF IsLiteralQuery, IsCore
  <2>1. Vectors(C) /\ Combined(core, AllGroups(C)) = whole
    BY <2>0, CoreByGroup
  <2>2. /\ Top(expr) = core[<<>>] /\ Top(core) = core[<<>>]
        /\ \A series : Eval(expr, series, u) = WithLiteral(op, Eval(core, series, u), n)
    BY <1>2, <2>0, LiteralIs, CoreTop
  <2>3. V = [g \in Groups |-> WithLiteral(op, C[g], n)] /\ Eval(expr, AllGroups(X), u) = WithLiteral(op, whole, n)
    BY <2>2
  <2> HIDE DEF V, whole
  <2>4. Vectors(V) /\ WithLiteral(op, AllGroups(C), n) = AllGroups(V)
    <3> HIDE DEF C
    <3> QED
      BY <2>0, <2>1, <2>3, LiteralByGroup
  <2>5. CASE core[<<>>].kind # "aggregate"
    <3>1. AllGroups(C) = whole
      BY <2>1, <2>2, <2>5 DEF Combined
    <3>2. Combined(expr, AllGroups(V)) = AllGroups(V)
      BY <2>2, <2>5 DEF Combined
    <3>3. Combined(expr, AllGroups(V)) = Eval(expr, AllGroups(X), u)
      BY <2>3, <2>4, <3>1, <3>2
    <3> QED
      BY <2>4, <3>3 DEF V
  <2>6. CASE core[<<>>].kind = "aggregate"
    <3> DEFINE agg == core[<<>>]
    <3>1. /\ agg.kind = "aggregate" /\ agg.op \in LiteralSafeOps /\ "op" \in DOMAIN agg /\ IsFunction(agg)
          /\ core = Over(agg, inner) /\ KeepsOrder(agg.op, op, n)
      BY <2>0, <2>6, CoreIs DEF IsOperand
    <3>1a. Top(expr) = agg
      BY <2>2
    <3> HIDE DEF agg
    <3>2. \A series : Eval(core, series, u) = AggregateOf(agg, InnerValue(inner, series, u))
      BY <2>0, <3>1, EvalOverInner
    <3>3. Vectors(I) /\ InnerValue(inner, AllGroups(X), u) = AllGroups(I)
      BY <2>0, InnerVectors
    <3>4. V = [g \in Groups |-> WithLiteral(op, AggregateOf(agg, I[g]), n)]
      BY <2>3, <3>2
    <3>5. whole = AggregateOf(agg, AllGroups(I))
      BY <3>2, <3>3 DEF whole
    <3> HIDE DEF I
    <3>6. AggregateOf(agg, AllGroups(V)) = WithLiteral(op, whole, n)
      BY <2>0, <3>1, <3>3, <3>4, <3>5, LiteralRecombined
    <3>7. Recombine(agg) = agg
      BY <3>1 DEF Recombine, LiteralSafeOps
    <3>8. Combined(expr, AllGroups(V)) = Eval(expr, AllGroups(X), u)
      BY <2>3, <3>1, <3>1a, <3>6, <3>7 DEF Combined
    <3> QED
      BY <2>4, <3>8 DEF V
  <2> QED
    BY <2>5, <2>6
<1> QED
  BY <1>1, <1>2 DEF IsPlain

(* The shape of a plain query: one selector, at sp, below a function over its
   range, an aggregation, or both, or an operator with a literal. *)
PlainTree(expr, sel, sp) ==
  /\ IsFunction(expr) /\ DOMAIN expr \subseteq Seq(1..2) /\ <<>> \in DOMAIN expr
  /\ sp \in DOMAIN expr /\ expr[sp] = sel
  /\ \A p \in DOMAIN expr :
       /\ expr[p].kind = "selector" <=> p = sp
       /\ expr[p].kind \in {"selector", "matrix", "call", "aggregate", "binary", "literal"}
       /\ expr[p].kind = "aggregate" => p = TopPath(expr) /\ expr[p].op \in PushedOps
       /\ expr[p].kind = "call" => expr[p].fn \in RangeFns
  /\ expr[<<>>].kind \notin {"matrix", "literal"}
  /\ expr[<<>>].kind = "binary" =>
       /\ {<<1>>, <<2>>} \subseteq DOMAIN expr /\ expr[<<2>>].kind = "literal"
       /\ \/ expr[<<1>>].kind = "selector"
          \/ expr[<<1>>].kind = "aggregate" /\ expr[<<1>>].op \in LiteralSafeOps

(* Plain queries have the shape. *)
LEMMA PlainNodes ==
  ASSUME NEW expr, NEW inner, NEW sel, IsPlain(expr, inner, sel)
  PROVE  \E sp \in DOMAIN expr : PlainTree(expr, sel, sp)
<1>1. CASE IsCore(expr, inner, sel)
  <2>1. PICK sp \in DOMAIN expr : CoreTree(expr, sel, sp)
    BY <1>1, CoreNodes
  <2>2. PlainTree(expr, sel, sp)
    BY <2>1 DEF CoreTree, PlainTree, TopPath
  <2> QED
    BY <2>2
<1>2. ASSUME NEW op, NEW core, NEW n, IsLiteralQuery(expr, op, core, n, inner, sel)
      PROVE  \E sp \in DOMAIN expr : PlainTree(expr, sel, sp)
  <2>1. PICK sp \in DOMAIN core : CoreTree(core, sel, sp)
    BY <1>2, CoreNodes DEF IsLiteralQuery
  <2>2. IsBoth(expr, Binary(op), core, Literal(n))
    BY <1>2, LiteralIs
  <2>3. Binary(op).kind = "binary" /\ Literal(n).kind = "literal"
    BY DEF Binary, Literal
  <2>4. /\ DOMAIN core \subseteq Seq(1..2) /\ <<>> \in DOMAIN core /\ core[sp] = sel
        /\ \A q \in DOMAIN core : /\ core[q].kind = "selector" <=> q = sp
                                  /\ core[q].kind \in {"selector", "matrix", "call", "aggregate"}
                                  /\ core[q].kind = "aggregate" => q = <<>> /\ core[q].op \in PushedOps
                                  /\ core[q].kind = "call" => core[q].fn \in RangeFns
    BY <2>1 DEF CoreTree
  <2>5. /\ IsFunction(expr) /\ DOMAIN expr \subseteq Seq(1..2)
        /\ \A p : p \in DOMAIN expr <=> p = <<>> \/ p = <<2>> \/ \E q \in DOMAIN core : p = <<1>> \o q
        /\ expr[<<>>].kind = "binary" /\ expr[<<2>>].kind = "literal"
        /\ \A q \in DOMAIN core : expr[<<1>> \o q] = core[q] /\ <<1>> \o q \notin {<<>>, <<2>>}
    BY <2>2, <2>3 DEF IsBoth
  <2>6. TopPath(expr) = <<1>>
    BY <2>5 DEF TopPath
  <2>7. <<1>> \o <<>> = <<1>>
    BY Paths
  <2>8. <<1>> \in DOMAIN expr /\ <<2>> \in DOMAIN expr /\ <<>> \in DOMAIN expr /\ expr[<<1>>] = core[<<>>]
    BY <2>4, <2>5, <2>7
  <2>9. \A q \in DOMAIN core : <<1>> \o q = <<1>> \o sp => q = sp
    <3>1. \A q \in DOMAIN core : Tail(<<1>> \o q) = q
      BY <2>4, BothPaths
    <3> QED
      BY <3>1
  <2>10. ASSUME NEW p \in DOMAIN expr
         PROVE  /\ expr[p].kind = "selector" <=> p = <<1>> \o sp
                /\ expr[p].kind \in {"selector", "matrix", "call", "aggregate", "binary", "literal"}
                /\ expr[p].kind = "aggregate" => p = TopPath(expr) /\ expr[p].op \in PushedOps
                /\ expr[p].kind = "call" => expr[p].fn \in RangeFns
    <3>1. CASE p \in {<<>>, <<2>>}
      BY <2>5, <3>1
    <3>2. CASE \E q \in DOMAIN core : p = <<1>> \o q
      <4>0. PICK q \in DOMAIN core : p = <<1>> \o q
        BY <3>2
      <4>1. expr[p] = core[q]
        BY <2>5, <4>0
      <4>2. p = <<1>> \o sp <=> q = sp
        BY <2>9, <4>0
      <4>3. q = <<>> => p = TopPath(expr)
        BY <2>6, <2>7, <4>0
      <4> QED
        BY <2>4, <4>1, <4>2, <4>3
    <3> QED
      BY <2>5, <3>1, <3>2
  <2>11. <<1>> \o sp \in DOMAIN expr /\ expr[<<1>> \o sp] = sel
    BY <2>4, <2>5
  <2>12. \/ expr[<<1>>].kind = "selector"
         \/ expr[<<1>>].kind = "aggregate" /\ expr[<<1>>].op \in LiteralSafeOps
    BY <1>2, <2>8 DEF IsLiteralQuery, IsOperand
  <2>13. PlainTree(expr, sel, <<1>> \o sp)
    BY <2>5, <2>8, <2>10, <2>11, <2>12 DEF PlainTree
  <2> QED
    BY <2>11, <2>13
<1> QED
  BY <1>1, <1>2 DEF IsPlain

---------------------------------------------------------------------------
(* The query as it is sent. *)

(* What RemoveOffset does without @. *)
Strip(expr) ==
  [p \in DOMAIN expr |-> IF expr[p].kind = "selector" THEN [expr[p] EXCEPT !.offset = 0] ELSE expr[p]]

(* What RemoveOffset does to a plain query. *)
LEMMA PlainHasAt ==
  ASSUME NEW expr, NEW sel, NEW sp, PlainTree(expr, sel, sp)
  PROVE  /\ HasAt(expr) <=> sel.at # NoTime
         /\ At(expr) = sel.at
         /\ ~HasAt(expr) => RemoveOffset(expr) = Strip(expr)
         /\ HasAt(expr) => RemoveOffset(expr) = expr
<1>1. HasAt(expr) <=> sel.at # NoTime
  BY DEF HasAt, PlainTree
<1>2. At(expr) = sel.at
  <2>1. \A p \in DOMAIN expr : expr[p].kind = "selector" => p = sp
    BY DEF PlainTree
  <2>2. sp \in DOMAIN expr /\ expr[sp].kind = "selector" /\ expr[sp] = sel
    BY DEF PlainTree
  <2>3. (CHOOSE p \in DOMAIN expr : expr[p].kind = "selector") = sp
    BY <2>1, <2>2
  <2> QED
    BY <2>2, <2>3 DEF At
<1> QED
  BY <1>1, <1>2 DEF RemoveOffset, Strip

(* A selector without its offset. *)
LEMMA StripLeaf ==
  ASSUME NEW sel, sel.kind = "selector"
  PROVE  Strip(Leaf(sel)) = Leaf([sel EXCEPT !.offset = 0])
BY LeafIs DEF Strip, Leaf

(* The node above keeps its place. *)
LEMMA StripOver ==
  ASSUME NEW node, node.kind # "selector", NEW expr, DOMAIN expr \subseteq Seq(1..2)
  PROVE  Strip(Over(node, expr)) = Over(node, Strip(expr))
<1> DEFINE L == Over(node, expr)
           S == Strip(expr)
<1>1. /\ \A p : p \in DOMAIN L <=> p = <<>> \/ \E q \in DOMAIN expr : p = <<1>> \o q
      /\ L[<<>>] = node
      /\ \A q \in DOMAIN expr : L[<<1>> \o q] = expr[q]
  <2>1. \A p : p \in DOMAIN L <=> p = <<>> \/ \E q \in DOMAIN expr : p = <<1>> \o q
    BY DEF Over
  <2>2. L[<<>>] = node
    BY OverIs
  <2>3. \A q \in DOMAIN expr : L[<<1>> \o q] = expr[q]
    BY OverIs
  <2> QED
    BY <2>1, <2>2, <2>3
<1>2. DOMAIN S = DOMAIN expr
  BY DEF Strip
<1>3. /\ \A p : p \in DOMAIN Over(node, S) <=> p = <<>> \/ \E q \in DOMAIN S : p = <<1>> \o q
      /\ Over(node, S)[<<>>] = node
      /\ \A q \in DOMAIN S : Over(node, S)[<<1>> \o q] = S[q]
  <2> HIDE DEF S
  <2>1. \A p : p \in DOMAIN Over(node, S) <=> p = <<>> \/ \E q \in DOMAIN S : p = <<1>> \o q
    BY DEF Over
  <2>2. Over(node, S)[<<>>] = node
    BY <1>2, OverIs
  <2>3. \A q \in DOMAIN S : Over(node, S)[<<1>> \o q] = S[q]
    BY <1>2, OverIs
  <2> QED
    BY <2>1, <2>2, <2>3
<1>4. IsFunction(Strip(L)) /\ IsFunction(Over(node, S)) /\ DOMAIN Strip(L) = DOMAIN L
  <2> HIDE DEF L, S
  <2>1. IsFunction(Strip(L)) /\ DOMAIN Strip(L) = DOMAIN L
    BY DEF IsFunction, Strip
  <2>2. IsFunction(Over(node, S))
    BY DEF IsFunction, Over
  <2> QED
    BY <2>1, <2>2
<1>5. \A p \in DOMAIN L : Strip(L)[p] = IF L[p].kind = "selector" THEN [L[p] EXCEPT !.offset = 0] ELSE L[p]
  BY DEF Strip
<1>6. \A q \in DOMAIN expr :
        S[q] = IF expr[q].kind = "selector" THEN [expr[q] EXCEPT !.offset = 0] ELSE expr[q]
  BY DEF Strip
<1> HIDE DEF L, S
<1>7. DOMAIN L = DOMAIN Over(node, S)
  BY <1>1, <1>2, <1>3
<1>8. \A p \in DOMAIN L : Strip(L)[p] = Over(node, S)[p]
  <2>1. Strip(L)[<<>>] = Over(node, S)[<<>>]
    BY <1>1, <1>3, <1>5
  <2>2. ASSUME NEW p \in DOMAIN L, p # <<>> PROVE Strip(L)[p] = Over(node, S)[p]
    <3>1. PICK q \in DOMAIN expr : p = <<1>> \o q
      BY <1>1, <2>2
    <3>2. L[p] = expr[q]
      BY <1>1, <3>1
    <3>3. Over(node, S)[p] = S[q]
      BY <1>2, <1>3, <3>1
    <3>4. Strip(L)[p] = S[q]
      BY <1>5, <1>6, <3>2
    <3> QED
      BY <3>3, <3>4
  <2> QED
    BY <2>1, <2>2
<1>9. Strip(L) = Over(node, S)
  BY <1>4, <1>7, <1>8, Zenon DEF IsFunction
<1> QED
  BY <1>9 DEF L, S

(* An inner expression without its offset is one. *)
LEMMA StripInner ==
  ASSUME NEW inner, NEW sel, IsInner(inner, sel), IsFunction(sel), "kind" \in DOMAIN sel
  PROVE  IsInner(Strip(inner), [sel EXCEPT !.offset = 0])
<1> DEFINE sel0 == [sel EXCEPT !.offset = 0]
<1>1. sel.kind = "selector" /\ sel0.kind = "selector"
  BY DEF IsInner
<1> HIDE DEF sel0
<1>2. CASE inner = Leaf(sel)
  <2>1. Strip(inner) = Leaf(sel0)
    BY <1>1, <1>2, StripLeaf DEF sel0
  <2> QED
    BY <1>1, <2>1 DEF IsInner, sel0
<1>3. ASSUME NEW fn \in RangeFns, NEW range \in Nat \ {0}, inner = RangeOf(fn, range, sel)
      PROVE  IsInner(Strip(inner), sel0)
  <2> DEFINE M == Over(Matrix(range), Leaf(sel))
  <2>1. DOMAIN Leaf(sel) \subseteq Seq(1..2)
    BY LeafIs, Paths
  <2>2. DOMAIN M \subseteq Seq(1..2)
    BY <2>1, OverIs
  <2>3. Strip(Leaf(sel)) = Leaf(sel0)
    BY <1>1, StripLeaf DEF sel0
  <2>4. Strip(M) = Over(Matrix(range), Leaf(sel0))
    <3>1. Matrix(range).kind # "selector"
      BY DEF Matrix
    <3> QED
      BY <2>1, <2>3, <3>1, StripOver
  <2> HIDE DEF M
  <2>5. Strip(Over(Call(fn), M)) = Over(Call(fn), Strip(M))
    <3>1. Call(fn).kind # "selector"
      BY DEF Call
    <3> QED
      BY <2>2, <3>1, StripOver
  <2>6. Strip(inner) = RangeOf(fn, range, sel0)
    BY <1>3, <2>4, <2>5 DEF RangeOf, M
  <2> QED
    BY <1>1, <2>6 DEF IsInner
<1> QED
  BY <1>2, <1>3 DEF IsInner, sel0

(* A core without its offset is one, with the same root. *)
LEMMA StripCore ==
  ASSUME NEW expr, NEW inner, NEW sel, IsCore(expr, inner, sel), IsFunction(sel), "kind" \in DOMAIN sel
  PROVE  /\ IsCore(Strip(expr), Strip(inner), [sel EXCEPT !.offset = 0])
         /\ Strip(expr)[<<>>].kind = expr[<<>>].kind
         /\ expr[<<>>].kind = "aggregate" => Strip(expr)[<<>>] = expr[<<>>]
<1>1. IsInner(Strip(inner), [sel EXCEPT !.offset = 0]) /\ DOMAIN inner \subseteq Seq(1..2) /\ <<>> \in DOMAIN inner
  BY StripInner, InnerIs DEF IsCore
<1>2. PICK sp \in DOMAIN expr : CoreTree(expr, sel, sp)
  BY CoreNodes
<1>3. /\ Strip(expr)[<<>>].kind = expr[<<>>].kind
      /\ expr[<<>>].kind = "aggregate" => Strip(expr)[<<>>] = expr[<<>>]
  <2>1. <<>> \in DOMAIN expr
    BY <1>2 DEF CoreTree
  <2>2. CASE expr[<<>>].kind = "selector"
    <3>1. expr[<<>>] = sel
      BY <1>2, <2>1, <2>2 DEF CoreTree
    <3> QED
      BY <2>1, <2>2, <3>1 DEF Strip
  <2>3. CASE expr[<<>>].kind # "selector"
    BY <2>1, <2>3 DEF Strip
  <2> QED
    BY <2>2, <2>3
<1>4. CASE expr = inner
  BY <1>1, <1>3, <1>4 DEF IsCore
<1>5. ASSUME NEW op \in PushedOps, NEW without \in BOOLEAN, NEW grouping,
             expr = Over(Aggregate(op, without, grouping), inner)
      PROVE  Strip(expr) = Over(Aggregate(op, without, grouping), Strip(inner))
  <2>1. Aggregate(op, without, grouping).kind # "selector"
    BY DEF Aggregate
  <2> QED
    BY <1>1, <1>5, <2>1, StripOver
<1>6. IsCore(Strip(expr), Strip(inner), [sel EXCEPT !.offset = 0])
  BY <1>1, <1>4, <1>5 DEF IsCore
<1> QED
  BY <1>3, <1>6

(* The sides of an operator keep their places. *)
LEMMA StripBoth ==
  ASSUME NEW node, node.kind # "selector", NEW core, DOMAIN core \subseteq Seq(1..2), NEW lit, lit.kind # "selector"
  PROVE  Strip(Both(node, core, Leaf(lit))) = Both(node, Strip(core), Leaf(lit))
<1> DEFINE T == Both(node, core, Leaf(lit))
           C == Strip(core)
           S == Both(node, C, Leaf(lit))
<1>1. IsBoth(T, node, core, lit)
  BY BothIs
<1>2. /\ DOMAIN C = DOMAIN core
      /\ \A q \in DOMAIN core :
           C[q] = IF core[q].kind = "selector" THEN [core[q] EXCEPT !.offset = 0] ELSE core[q]
  BY DEF Strip
<1> HIDE DEF C, T
<1>3. IsBoth(S, node, C, lit)
  BY <1>2, BothIs
<1> HIDE DEF S
<1>4. /\ IsFunction(Strip(T)) /\ DOMAIN Strip(T) = DOMAIN T
      /\ \A p \in DOMAIN T : Strip(T)[p] = IF T[p].kind = "selector" THEN [T[p] EXCEPT !.offset = 0] ELSE T[p]
  BY DEF Strip, IsFunction
<1>5. DOMAIN T = DOMAIN S
  BY <1>1, <1>2, <1>3 DEF IsBoth
<1>6. ASSUME NEW p \in DOMAIN T PROVE Strip(T)[p] = S[p]
  <2>1. CASE p = <<>>
    BY <1>1, <1>3, <1>4, <2>1 DEF IsBoth
  <2>2. CASE p = <<2>>
    BY <1>1, <1>3, <1>4, <2>2 DEF IsBoth
  <2>3. CASE \E q \in DOMAIN core : p = <<1>> \o q
    <3>0. PICK q \in DOMAIN core : p = <<1>> \o q
      BY <2>3
    <3>1. T[p] = core[q] /\ S[p] = C[q]
      BY <1>1, <1>2, <1>3, <3>0 DEF IsBoth
    <3> QED
      BY <1>2, <1>4, <3>1
  <2> QED
    BY <1>1, <2>1, <2>2, <2>3 DEF IsBoth
<1>7. IsFunction(S)
  BY <1>3 DEF IsBoth
<1>8. Strip(T) = S
  BY <1>4, <1>5, <1>6, <1>7, Zenon DEF IsFunction
<1> QED
  BY <1>8 DEF T, S, C

(* A query with a literal, without its offset, is one. *)
LEMMA StripLiteral ==
  ASSUME NEW expr, NEW op, NEW core, NEW n, NEW inner, NEW sel, IsLiteralQuery(expr, op, core, n, inner, sel),
         IsFunction(sel), "kind" \in DOMAIN sel
  PROVE  IsLiteralQuery(Strip(expr), op, Strip(core), n, Strip(inner), [sel EXCEPT !.offset = 0])
<1>1. /\ IsCore(core, inner, sel) /\ expr = LiteralOver(op, core, n)
  BY DEF IsLiteralQuery
<1>2. DOMAIN core \subseteq Seq(1..2)
  BY <1>1, CoreNodes DEF CoreTree
<1>3. Binary(op).kind # "selector" /\ Literal(n).kind # "selector"
  BY DEF Binary, Literal
<1>4. Strip(expr) = LiteralOver(op, Strip(core), n)
  BY <1>1, <1>2, <1>3, StripBoth DEF LiteralOver
<1>5. /\ IsCore(Strip(core), Strip(inner), [sel EXCEPT !.offset = 0])
      /\ Strip(core)[<<>>].kind = core[<<>>].kind
      /\ core[<<>>].kind = "aggregate" => Strip(core)[<<>>] = core[<<>>]
  BY <1>1, StripCore
<1> QED
  BY <1>4, <1>5 DEF IsLiteralQuery, IsOperand

(* A plain query without its offset is one. *)
LEMMA StripPlain ==
  ASSUME NEW expr, NEW inner, NEW sel, IsPlain(expr, inner, sel), IsFunction(sel), "kind" \in DOMAIN sel
  PROVE  IsPlain(Strip(expr), Strip(inner), [sel EXCEPT !.offset = 0])
BY StripCore, StripLiteral DEF IsPlain

(* An inner expression without its offset, at the earlier time. *)
LEMMA ShiftedInner ==
  ASSUME NEW inner, NEW o \in Int, IsInner(inner, Selector(o, NoTime)), NEW series, NEW t \in Int
  PROVE  InnerValue(Strip(inner), series, t - o) = InnerValue(inner, series, t)
<1> DEFINE sel == Selector(o, NoTime)
           sel0 == [sel EXCEPT !.offset = 0]
<1>1. /\ sel.kind = "selector" /\ sel0.kind = "selector" /\ Source(sel0, series) = Source(sel, series)
      /\ Ref(sel0, t - o) = Ref(sel, t)
  BY DEF Selector, Source, Ref
<1> HIDE DEF sel, sel0
<1>2. IsInner(inner, sel) /\ sel0 = [sel EXCEPT !.offset = 0]
  BY DEF sel, sel0
<1>3. CASE DOMAIN inner = {<<>>} /\ inner[<<>>] = sel
  <2>1. Strip(inner)[<<>>] = sel0
    BY <1>1, <1>2, <1>3 DEF Strip
  <2> QED
    BY <1>1, <1>3, <2>1 DEF InnerValue
<1>4. CASE ~(DOMAIN inner = {<<>>} /\ inner[<<>>] = sel)
  <2>1. /\ DOMAIN inner = {<<>>, <<1>>, <<1, 1>>} /\ inner[<<>>].kind = "call" /\ inner[<<1>>].kind = "matrix"
        /\ inner[<<1, 1>>] = sel
    BY <1>2, <1>4, InnerIs
  <2>2. Strip(inner)[<<>>] = inner[<<>>] /\ Strip(inner)[<<1>>] = inner[<<1>>] /\ Strip(inner)[<<1, 1>>] = sel0
    BY <1>1, <1>2, <2>1 DEF Strip
  <2> QED
    BY <1>1, <2>1, <2>2 DEF InnerValue
<1> QED
  BY <1>3, <1>4

(* Without its offset, and asked for the earlier time, a core has the same value. *)
LEMMA CoreShifted ==
  ASSUME NEW expr, NEW inner, NEW o \in Int, IsCore(expr, inner, Selector(o, NoTime)), NEW series,
         NEW t \in 0..Horizon, t - o \in 0..Horizon
  PROVE  Eval(Strip(expr), series, t - o) = Eval(expr, series, t)
<1> DEFINE sel == Selector(o, NoTime)
           sel0 == [sel EXCEPT !.offset = 0]
<1>0. IsFunction(sel) /\ "kind" \in DOMAIN sel
  BY DEF Selector, IsFunction
<1>1. IsInner(inner, sel) /\ IsCore(expr, inner, sel)
  BY DEF IsCore
<1> HIDE DEF sel
<1>2. IsCore(Strip(expr), Strip(inner), sel0) /\ IsInner(Strip(inner), sel0)
  BY <1>0, <1>1, StripCore, StripInner
<1> HIDE DEF sel0
<1>3. InnerValue(Strip(inner), series, t - o) = InnerValue(inner, series, t)
  BY <1>1, ShiftedInner DEF sel
<1>4. /\ Strip(expr)[<<>>].kind = expr[<<>>].kind
      /\ expr[<<>>].kind = "aggregate" => Strip(expr)[<<>>] = expr[<<>>]
  BY <1>0, <1>1, StripCore
<1>5. CASE expr[<<>>].kind # "aggregate"
  <2>1. expr = inner
    BY <1>1, <1>5, CoreIs
  <2>2. Eval(expr, series, t) = InnerValue(inner, series, t)
    BY <1>1, <2>1, EvalInner
  <2>3. Eval(Strip(expr), series, t - o) = InnerValue(Strip(inner), series, t - o)
    BY <1>2, <2>1, EvalInner
  <2> QED
    BY <1>3, <2>2, <2>3
<1>6. CASE expr[<<>>].kind = "aggregate"
  <2> DEFINE agg == expr[<<>>]
  <2>1. expr = Over(agg, inner) /\ Strip(expr) = Over(agg, Strip(inner)) /\ agg.kind = "aggregate"
    <3>1. expr = Over(agg, inner)
      BY <1>1, <1>6, CoreIs
    <3>2. Strip(expr) = Over(Strip(expr)[<<>>], Strip(inner))
      BY <1>2, <1>4, <1>6, CoreIs
    <3> QED
      BY <1>4, <1>6, <3>1, <3>2
  <2> HIDE DEF agg
  <2>2. Eval(expr, series, t) = AggregateOf(agg, InnerValue(inner, series, t))
    BY <1>1, <2>1, EvalOverInner
  <2>3. Eval(Strip(expr), series, t - o) = AggregateOf(agg, InnerValue(Strip(inner), series, t - o))
    BY <1>2, <2>1, EvalOverInner
  <2> QED
    BY <1>3, <2>2, <2>3
<1> QED
  BY <1>5, <1>6

(* Without its offset, and asked for the earlier time, a plain query has the
   same value. *)
LEMMA ShiftedValue ==
  ASSUME NEW expr, NEW inner, NEW o \in Int, IsPlain(expr, inner, Selector(o, NoTime)), NEW series,
         NEW t \in 0..Horizon, t - o \in 0..Horizon
  PROVE  Eval(Strip(expr), series, t - o) = Eval(expr, series, t)
<1> DEFINE sel == Selector(o, NoTime)
           sel0 == [sel EXCEPT !.offset = 0]
<1>0. IsFunction(sel) /\ "kind" \in DOMAIN sel
  BY DEF Selector, IsFunction
<1>1. CASE IsCore(expr, inner, Selector(o, NoTime))
  BY <1>1, CoreShifted
<1>2. ASSUME NEW op, NEW core, NEW n, IsLiteralQuery(expr, op, core, n, inner, Selector(o, NoTime))
      PROVE  Eval(Strip(expr), series, t - o) = Eval(expr, series, t)
  <2>1. Eval(Strip(core), series, t - o) = Eval(core, series, t)
    BY <1>2, CoreShifted DEF IsLiteralQuery
  <2>2. IsLiteralQuery(expr, op, core, n, inner, sel)
    BY <1>2
  <2> HIDE DEF sel
  <2>3. IsLiteralQuery(Strip(expr), op, Strip(core), n, Strip(inner), sel0)
    BY <1>0, <2>2, StripLiteral
  <2> HIDE DEF sel0
  <2>4. Eval(expr, series, t) = WithLiteral(op, Eval(core, series, t), n)
    BY <2>2, LiteralIs
  <2>5. Eval(Strip(expr), series, t - o) = WithLiteral(op, Eval(Strip(core), series, t - o), n)
    BY <2>3, LiteralIs
  <2> QED
    BY <2>1, <2>4, <2>5
<1> QED
  BY <1>1, <1>2 DEF IsPlain

(* With @, the time of the evaluation does not matter to a core. *)
LEMMA CorePinned ==
  ASSUME NEW expr, NEW inner, NEW o, NEW at, at # NoTime, IsCore(expr, inner, Selector(o, at)), NEW series,
         NEW t \in 0..Horizon, NEW u \in 0..Horizon
  PROVE  Eval(expr, series, t) = Eval(expr, series, u)
<1> DEFINE sel == Selector(o, at)
<1>1. Ref(sel, t) = Ref(sel, u) /\ IsInner(inner, sel) /\ IsCore(expr, inner, sel)
  BY DEF Selector, Ref, IsCore
<1> HIDE DEF sel
<1>2. InnerValue(inner, series, t) = InnerValue(inner, series, u)
  BY <1>1, InnerIs DEF InnerValue
<1>3. CASE expr[<<>>].kind # "aggregate"
  BY <1>1, <1>2, <1>3, CoreIs, EvalInner
<1>4. CASE expr[<<>>].kind = "aggregate"
  <2> DEFINE agg == expr[<<>>]
  <2>1. expr = Over(agg, inner) /\ agg.kind = "aggregate"
    BY <1>1, <1>4, CoreIs
  <2> HIDE DEF agg
  <2> QED
    BY <1>1, <1>2, <2>1, EvalOverInner
<1> QED
  BY <1>3, <1>4

(* With @, the time of the evaluation does not matter. *)
LEMMA PinnedValue ==
  ASSUME NEW expr, NEW inner, NEW o, NEW at, at # NoTime, IsPlain(expr, inner, Selector(o, at)), NEW series,
         NEW t \in 0..Horizon, NEW u \in 0..Horizon
  PROVE  Eval(expr, series, t) = Eval(expr, series, u)
<1>1. CASE IsCore(expr, inner, Selector(o, at))
  BY <1>1, CorePinned
<1>2. ASSUME NEW op, NEW core, NEW n, IsLiteralQuery(expr, op, core, n, inner, Selector(o, at))
      PROVE  Eval(expr, series, t) = Eval(expr, series, u)
  <2>1. Eval(core, series, t) = Eval(core, series, u)
    BY <1>2, CorePinned DEF IsLiteralQuery
  <2>2. \A w \in 0..Horizon : Eval(expr, series, w) = WithLiteral(op, Eval(core, series, w), n)
    BY <1>2, LiteralIs
  <2> QED
    BY <2>1, <2>2
<1> QED
  BY <1>1, <1>2 DEF IsPlain

---------------------------------------------------------------------------
(* Reading the answer back. *)

(* A sample at the very time is the latest. *)
LEMMA LatestAt ==
  ASSUME NEW samples, DOMAIN samples \subseteq Int, NEW t \in DOMAIN samples
  PROVE  Seen(samples, t) # {} /\ Latest(samples, t) = samples[t]
<1>1. Lookback \in Nat \ {0} /\ t \in Int
  BY LookbackAssumption
<1>2. t \in Seen(samples, t) /\ Seen(samples, t) \in SUBSET Int /\ \A u \in Seen(samples, t) : u <= t
  BY <1>1 DEF Seen
<1>3. Max(Seen(samples, t)) = t
  BY <1>2, MaxIs
<1> QED
  BY <1>2, <1>3 DEF Latest

(* A selector over series that have, at t, the samples of vec or a staleness
   marker or nothing within the lookback. *)
LEMMA ReadBack ==
  ASSUME NEW series, NEW vec, IsFunction(vec), NEW t,
         \A l \in DOMAIN series : DOMAIN series[l] \subseteq Int,
         \A l \in DOMAIN series : t \in DOMAIN series[l] \/ Seen(series[l], t) = {},
         \A l : l \in DOMAIN vec <=> l \in DOMAIN series /\ t \in DOMAIN series[l] /\ series[l][t].k # "stale",
         \A l \in DOMAIN vec : series[l][t] = vec[l]
  PROVE  SelectAt(series, t) = vec
<1> DEFINE V == SelectAt(series, t)
<1>1. /\ DOMAIN V = {m \in DOMAIN series : Visible(series[m], t)}
      /\ \A m \in DOMAIN V : V[m] = Latest(series[m], t)
      /\ IsFunction(V)
  BY DEF SelectAt, IsFunction
<1> HIDE DEF V
<1>2. ASSUME NEW l \in DOMAIN series, t \in DOMAIN series[l]
      PROVE  Latest(series[l], t) = series[l][t] /\ (Visible(series[l], t) <=> series[l][t].k # "stale")
  BY <1>2, LatestAt DEF Visible
<1>3. ASSUME NEW l \in DOMAIN series, t \notin DOMAIN series[l]
      PROVE  ~Visible(series[l], t)
  BY <1>3 DEF Visible
<1>4. DOMAIN V = DOMAIN vec
  BY <1>1, <1>2, <1>3
<1>5. \A l \in DOMAIN V : V[l] = vec[l]
  BY <1>1, <1>2, <1>3, <1>4
<1> QED
  BY <1>1, <1>4, <1>5, Zenon DEF IsFunction, V

---------------------------------------------------------------------------
(* The answers to a plain query.                                           *)

(* The query is plain, with an inner expression over the selector of offset o
   and @ time at. *)
IsPlainQuery(inner, o, at) == query \in Cases /\ IsPlain(query.tree, inner, Selector(o, at))

(* What is assumed of the times of a plain query. *)
LEMMA PlainTimes ==
  ASSUME NEW inner, NEW o, NEW at, IsPlainQuery(inner, o, at)
  PROVE  /\ o \in Int /\ at \in Int /\ (at # NoTime => at \in 0..Horizon)
         /\ query.stmt.start \in 0..Horizon /\ query.stmt.end \in 0..Horizon /\ query.stmt.interval \in Nat
         /\ query.stmt.interval = 0 => query.stmt.start = query.stmt.end
         /\ at = NoTime => query.stmt.start - o \in 0..Horizon /\ query.stmt.end - o \in 0..Horizon
<1> DEFINE sel == Selector(o, at)
<1>1. IsEvaluable(query.tree, query.stmt)
  BY CasesAssumption DEF IsPlainQuery
<1>2. PICK sp \in DOMAIN query.tree : PlainTree(query.tree, sel, sp)
  BY PlainNodes DEF IsPlainQuery
<1>3. sel.kind = "selector" /\ sel.offset = o /\ sel.at = at
  BY DEF Selector
<1> HIDE DEF sel
<1>4. query.tree[sp] = sel
  BY <1>2 DEF PlainTree
<1>5. query.tree[sp].kind = "selector" /\ query.tree[sp].offset = o /\ query.tree[sp].at = at
  BY <1>3, <1>4
<1>6. /\ o \in Int
      /\ IF at = NoTime THEN {query.stmt.start - o, query.stmt.end - o} \subseteq 0..Horizon
                        ELSE at \in 0..Horizon
  BY <1>1, <1>5 DEF IsEvaluable
<1>7. /\ query.stmt \in [start : 0..Horizon, end : 0..Horizon, interval : Nat]
      /\ query.stmt.interval = 0 => query.stmt.start = query.stmt.end
  BY <1>1 DEF IsEvaluable
<1>8. at \in Int
  BY <1>6 DEF NoTime
<1> QED
  BY <1>6, <1>7, <1>8

(* The steps of an evaluation, and the same moved by an offset. *)
LEMMA StepsAre ==
  ASSUME NEW s, s.start \in Int, s.end \in Int, s.interval \in Nat, NEW off \in Int
  PROVE  /\ \A t \in Steps(s, 0) : /\ t \in Int /\ s.start <= t /\ t <= s.end
                                   /\ s.interval = 0 \/ (t - s.start) % s.interval = 0
                                   /\ t - off \in Steps(s, off)
         /\ \A u \in Steps(s, off) : u \in Int /\ \E t \in Steps(s, 0) : u = t - off
<1> DEFINE U == {u \in s.start..s.end : s.interval = 0 \/ (u - s.start) % s.interval = 0}
<1>1. \A t \in U : t \in Int /\ t - 0 = t
  OBVIOUS
<1>2. \A t : t \in Steps(s, 0) <=> t \in U
  <2>1. Steps(s, 0) = {t - 0 : t \in U}
    BY DEF Steps
  <2> HIDE DEF U
  <2> QED
    BY <1>1, <2>1
<1>3. Steps(s, off) = {t - off : t \in U}
  BY DEF Steps
<1>4. \A t \in U : s.start <= t /\ t <= s.end /\ (s.interval = 0 \/ (t - s.start) % s.interval = 0)
  OBVIOUS
<1> HIDE DEF U
<1>5. \A t \in Steps(s, 0) : t - off \in Steps(s, off)
  BY <1>2, <1>3
<1>6. \A u \in Steps(s, off) : u \in Int /\ \E t \in Steps(s, 0) : u = t - off
  BY <1>1, <1>2, <1>3
<1> QED
  BY <1>1, <1>2, <1>4, <1>5, <1>6

(* The engine is asked for times up to the horizon only. *)
LEMMA PlainSteps ==
  ASSUME NEW inner, NEW o, NEW at, IsPlainQuery(inner, o, at), NEW t \in Steps(query.stmt, 0)
  PROVE  /\ t \in 0..Horizon /\ Ref(Selector(o, at), t) \in Int
         /\ at = NoTime => t - o \in 0..Horizon
<1>1. /\ o \in Int /\ at \in Int /\ Horizon \in Nat
      /\ query.stmt.start \in 0..Horizon /\ query.stmt.end \in 0..Horizon /\ query.stmt.interval \in Nat
      /\ at = NoTime => query.stmt.start - o \in 0..Horizon /\ query.stmt.end - o \in 0..Horizon
  BY PlainTimes, LookbackAssumption
<1>2. t \in Int /\ query.stmt.start <= t /\ t <= query.stmt.end
  <2>1. query.stmt.start \in Int /\ query.stmt.end \in Int
    BY <1>1
  <2> QED
    BY <1>1, <2>1, StepsAre
<1>3. t \in 0..Horizon /\ (at = NoTime => t - o \in 0..Horizon)
  BY <1>1, <1>2
<1>4. Ref(Selector(o, at), t) \in Int
  BY <1>1, <1>2 DEF Ref, Selector
<1> QED
  BY <1>3, <1>4

(* The groups' own values of the query at t, together. *)
Parts(t) == AllGroups([g \in Groups |-> Eval(query.tree, query.data[g], t)])

(* The data of a case without histograms. *)
LEMMA PlainData ==
  ASSUME query \in Cases, ~HistogramData
  PROVE  LabelSets(query.data) /\ FloatSeries(query.data) /\ IsFiniteSet(Groups)
<1>1. LabelSets(query.data) /\ IsFiniteSet(Groups)
  BY CaseData, GroupsAssumption
<1>2. ASSUME NEW g \in Groups, NEW l \in DOMAIN query.data[g] PROVE FloatSamples(query.data[g][l])
  <2>1. /\ DOMAIN query.data[g][l] \subseteq Int
        /\ query.data[g][l] \in [DOMAIN query.data[g][l] -> [k : {"float", "hist"}, v : Int]]
    BY CaseData
  <2>2. \A t \in DOMAIN query.data[g][l] : query.data[g][l][t].k # "hist"
    BY DEF HistogramData
  <2> QED
    BY <2>1, <2>2 DEF FloatSamples
<1>3. \A g \in Groups : IsFiniteSet(DOMAIN query.data[g])
  BY CaseData
<1> QED
  BY <1>1, <1>2, <1>3 DEF FloatSeries

(* The groups' values are floats, and the recombination of them is exact. *)
LEMMA PartsAre ==
  ASSUME NEW inner, NEW o, NEW at, IsPlainQuery(inner, o, at), ~HistogramData, NEW t \in Steps(query.stmt, 0)
  PROVE  /\ IsFunction(Parts(t))
         /\ \A l \in DOMAIN Parts(t) : Parts(t)[l].k = "float"
         /\ Combined(query.tree, Parts(t)) = Eval(query.tree, AllSeries, t)
<1> DEFINE V == [g \in Groups |-> Eval(query.tree, query.data[g], t)]
           sel == Selector(o, at)
<1>1. LabelSets(query.data) /\ FloatSeries(query.data) /\ IsFiniteSet(Groups)
  BY PlainData DEF IsPlainQuery
<1>2. t \in 0..Horizon /\ Ref(sel, t) \in Int
  BY PlainSteps
<1>3. ~sel.fetched /\ IsPlain(query.tree, inner, sel)
  BY DEF Selector, IsPlainQuery
<1> HIDE DEF sel
<1>4. Vectors(V) /\ Combined(query.tree, AllGroups(V)) = Eval(query.tree, AllGroups(query.data), t)
  BY <1>1, <1>2, <1>3, PlainByGroup
<1> HIDE DEF V
<1>5. IsFunction(AllGroups(V))
  BY <1>4, AllGroupsAt DEF Vectors
<1>6. \A l \in DOMAIN AllGroups(V) : AllGroups(V)[l].k = "float"
  BY <1>4, AllGroupsVector
<1> QED
  BY <1>4, <1>5, <1>6 DEF Parts, V, AllSeries

---------------------------------------------------------------------------
(* What the request for the whole query brings. *)

Request == RemoveOffset(query.tree)
ShiftOf(o, at) == IF at = NoTime THEN o ELSE 0

(* The request of a plain query keeps its @ time, or drops its offset. *)
LEMMA RequestIs ==
  ASSUME NEW inner, NEW o, NEW at, IsPlainQuery(inner, o, at)
  PROVE  /\ at = NoTime => Request = Strip(query.tree) /\ ~HasAt(Request)
         /\ at # NoTime => Request = query.tree /\ HasAt(Request) /\ At(Request) = at
<1> DEFINE sel == Selector(o, at)
           sel0 == [sel EXCEPT !.offset = 0]
<1>0. IsFunction(sel) /\ "kind" \in DOMAIN sel /\ sel.at = at /\ sel0.at = at
  BY DEF Selector, IsFunction
<1>1. IsPlain(query.tree, inner, sel)
  BY DEF IsPlainQuery
<1> HIDE DEF sel
<1>2. PICK sp \in DOMAIN query.tree : PlainTree(query.tree, sel, sp)
  BY <1>1, PlainNodes
<1>3. CASE at # NoTime
  BY <1>0, <1>2, <1>3, PlainHasAt DEF Request
<1>4. CASE at = NoTime
  <2>1. Request = Strip(query.tree)
    BY <1>0, <1>2, <1>4, PlainHasAt DEF Request
  <2>2. IsPlain(Request, Strip(inner), sel0)
    BY <1>0, <1>1, <2>1, StripPlain
  <2> HIDE DEF sel0
  <2>3. PICK rp \in DOMAIN Request : PlainTree(Request, sel0, rp)
    BY <2>2, PlainNodes
  <2> QED
    BY <1>0, <1>4, <2>1, <2>3, PlainHasAt
<1> QED
  BY <1>3, <1>4

(* The groups, asked for the shifted time or the @ time, give their values of
   the query at the step. *)
LEMMA DownstreamIs ==
  ASSUME NEW inner, NEW o, NEW at, IsPlainQuery(inner, o, at), ~HistogramData, NEW t \in Steps(query.stmt, 0)
  PROVE  /\ Downstream(Request, t - ShiftOf(o, at)) = Parts(t)
         /\ at # NoTime => Downstream(Request, at) = Parts(t)
<1>0. IsFunction(Parts(t)) /\ \A l \in DOMAIN Parts(t) : Parts(t)[l].k = "float"
  BY PartsAre
<1>1. ASSUME NEW u, \A g \in Groups : Eval(Request, query.data[g], u) = Eval(query.tree, query.data[g], t)
      PROVE  Downstream(Request, u) = Parts(t)
  <2>1. AllGroups([g \in Groups |-> Eval(Request, query.data[g], u)]) = Parts(t)
    BY <1>1 DEF Parts
  <2>2. Downstream(Request, u) = [l \in DOMAIN Parts(t) |-> Json(Parts(t)[l])]
    BY <2>1 DEF Downstream
  <2>3. \A l \in DOMAIN Parts(t) : Json(Parts(t)[l]) = Parts(t)[l]
    BY <1>0 DEF Json
  <2> QED
    BY <1>0, <2>2, <2>3 DEF IsFunction
<1>2. t \in 0..Horizon /\ (at = NoTime => t - o \in 0..Horizon) /\ o \in Int /\ (at # NoTime => at \in 0..Horizon)
  BY PlainSteps, PlainTimes
<1>3. CASE at = NoTime
  <2>1. Request = Strip(query.tree) /\ IsPlain(query.tree, inner, Selector(o, NoTime)) /\ ShiftOf(o, at) = o
    BY <1>3, RequestIs DEF IsPlainQuery, ShiftOf
  <2>2. \A g \in Groups : Eval(Request, query.data[g], t - o) = Eval(query.tree, query.data[g], t)
    BY <1>2, <1>3, <2>1, ShiftedValue
  <2>3. Downstream(Request, t - o) = Parts(t)
    BY <1>1, <2>2
  <2> QED
    BY <1>3, <2>1, <2>3
<1>4. CASE at # NoTime
  <2>1. Request = query.tree /\ IsPlain(query.tree, inner, Selector(o, at)) /\ t - ShiftOf(o, at) = t
    BY <1>2, <1>4, RequestIs DEF IsPlainQuery, ShiftOf
  <2>2. \A g \in Groups : Eval(Request, query.data[g], at) = Eval(query.tree, query.data[g], t)
    BY <1>2, <1>4, <2>1, PinnedValue
  <2>3. Downstream(Request, at) = Parts(t)
    BY <1>1, <2>2
  <2>4. Downstream(Request, t) = Parts(t)
    BY <1>1, <2>1
  <2> QED
    BY <2>1, <2>3, <2>4
<1> QED
  BY <1>3, <1>4

Raw(off) == QueryDownstream(Request, query.stmt, off)

(* The answer has, at every step, the samples of the groups' values. *)
LEMMA RawIs ==
  ASSUME NEW inner, NEW o, NEW at, IsPlainQuery(inner, o, at), ~HistogramData,
         NEW off, off = ShiftOf(o, at)
  PROVE  /\ off \in Int
         /\ \A l \in DOMAIN Raw(off) : DOMAIN Raw(off)[l] \subseteq Steps(query.stmt, off)
         /\ \A t \in Steps(query.stmt, 0) :
              /\ \A l : l \in DOMAIN Parts(t) <=> l \in DOMAIN Raw(off) /\ t - off \in DOMAIN Raw(off)[l]
              /\ \A l \in DOMAIN Parts(t) : Raw(off)[l][t - off] = Parts(t)[l]
<1> DEFINE steps == Steps(query.stmt, off)
           R == Raw(off)
           vecs == [u \in steps |-> Downstream(Request, u)]
<1>0. off \in Int /\ query.stmt.start \in Int /\ query.stmt.end \in Int /\ query.stmt.interval \in Nat
  BY PlainTimes DEF ShiftOf
<1>1. /\ \A t \in Steps(query.stmt, 0) : t \in Int /\ t - off \in steps
      /\ \A u \in steps : u \in Int /\ \E t \in Steps(query.stmt, 0) : u = t - off
  BY <1>0, StepsAre
<1>2. \A t \in Steps(query.stmt, 0) : vecs[t - off] = Parts(t)
  BY <1>1, DownstreamIs
<1>3. CASE query.stmt.interval # 0 /\ IsPinned(Request)
  <2>1. at # NoTime /\ At(Request) = at
    BY <1>3, RequestIs DEF IsPinned
  <2> DEFINE vec == Downstream(Request, at)
  <2>2. R = VectorToStepMatrix(vec, steps)
    BY <1>3, <2>1 DEF Raw, QueryDownstream
  <2>3. \A t \in Steps(query.stmt, 0) : vec = Parts(t)
    BY <2>1, DownstreamIs
  <2> HIDE DEF vec, steps, R
  <2>4. DOMAIN R = DOMAIN vec /\ \A l \in DOMAIN vec : DOMAIN R[l] = steps /\ \A u \in steps : R[l][u] = vec[l]
    BY <2>2 DEF VectorToStepMatrix
  <2>5. ASSUME NEW t \in Steps(query.stmt, 0)
        PROVE  /\ \A l : l \in DOMAIN Parts(t) <=> l \in DOMAIN R /\ t - off \in DOMAIN R[l]
               /\ \A l \in DOMAIN Parts(t) : R[l][t - off] = Parts(t)[l]
    <3>1. vec = Parts(t) /\ t - off \in steps
      BY <1>1, <2>3
    <3> QED
      BY <2>4, <3>1
  <2>6. \A l \in DOMAIN R : DOMAIN R[l] \subseteq steps
    BY <2>4
  <2> QED
    BY <1>0, <2>5, <2>6 DEF R, steps
<1>4. CASE ~(query.stmt.interval # 0 /\ IsPinned(Request))
  <2>1. R = [l \in UNION {DOMAIN vecs[u] : u \in steps} |->
              [u \in {w \in steps : l \in DOMAIN vecs[w]} |-> vecs[u][l]]]
    BY <1>4 DEF Raw, QueryDownstream
  <2> HIDE DEF vecs, steps, R
  <2>2. /\ \A l : l \in DOMAIN R <=> \E u \in steps : l \in DOMAIN vecs[u]
        /\ \A l \in DOMAIN R : /\ DOMAIN R[l] = {w \in steps : l \in DOMAIN vecs[w]}
                               /\ \A u \in DOMAIN R[l] : R[l][u] = vecs[u][l]
    BY <2>1
  <2>3. ASSUME NEW t \in Steps(query.stmt, 0)
        PROVE  /\ \A l : l \in DOMAIN Parts(t) <=> l \in DOMAIN R /\ t - off \in DOMAIN R[l]
               /\ \A l \in DOMAIN Parts(t) : R[l][t - off] = Parts(t)[l]
    <3> DEFINE u == t - off
               P == Parts(t)
    <3>1. vecs[u] = P /\ u \in steps
      BY <1>1, <1>2
    <3> HIDE DEF u, P
    <3>2. ASSUME NEW l PROVE l \in DOMAIN P <=> l \in DOMAIN R /\ u \in DOMAIN R[l]
      BY <2>2, <3>1
    <3>3. ASSUME NEW l \in DOMAIN P PROVE R[l][u] = P[l]
      BY <2>2, <3>1, <3>2
    <3> QED
      BY <3>2, <3>3 DEF u, P
  <2>4. \A l \in DOMAIN R : DOMAIN R[l] \subseteq steps
    BY <2>2
  <2> QED
    BY <1>0, <2>3, <2>4 DEF R, steps
<1> QED
  BY <1>3, <1>4

(* An answer about floats is kept. *)
LEMMA NothingLost ==
  ASSUME NEW inner, NEW o, NEW at, IsPlainQuery(inner, o, at), ~HistogramData
  PROVE  ~ContainsLossyHistogram(Raw(ShiftOf(o, at)))
<1> DEFINE off == ShiftOf(o, at)
           R == Raw(off)
<1>1. /\ off \in Int
      /\ \A l \in DOMAIN R : DOMAIN R[l] \subseteq Steps(query.stmt, off)
      /\ \A t \in Steps(query.stmt, 0) :
           /\ \A l : l \in DOMAIN Parts(t) <=> l \in DOMAIN R /\ t - off \in DOMAIN R[l]
           /\ \A l \in DOMAIN Parts(t) : R[l][t - off] = Parts(t)[l]
  BY RawIs
<1> HIDE DEF off, R
<1>2. query.stmt.start \in Int /\ query.stmt.end \in Int /\ query.stmt.interval \in Nat
  BY PlainTimes
<1>3. ASSUME NEW l \in DOMAIN R, NEW u \in DOMAIN R[l] PROVE R[l][u].k = "float"
  <2>1. u \in Steps(query.stmt, off)
    BY <1>1
  <2>2. PICK t \in Steps(query.stmt, 0) : u = t - off
    BY <1>1, <1>2, <2>1, StepsAre
  <2>3. l \in DOMAIN Parts(t) /\ R[l][u] = Parts(t)[l]
    BY <1>1, <2>2
  <2> QED
    BY <2>3, PartsAre
<1>4. ~ContainsLossyHistogram(R)
  BY <1>3 DEF ContainsLossyHistogram
<1> QED
  BY <1>4 DEF R, off

---------------------------------------------------------------------------
(* No answer bleeds into the next step.                                    *)

(* Two multiples of i less than i apart are the same. *)
LEMMA SameMultiple ==
  ASSUME NEW a \in Int, NEW b \in Int, NEW i \in Nat \ {0}, a % i = 0, b % i = 0, b <= a, a < b + i
  PROVE  a = b
<1> DEFINE x == a \div i
           y == b \div i
<1>1. x \in Int /\ y \in Int
  OBVIOUS
<1>2. a = i * x /\ b = i * y
  OBVIOUS
<1> HIDE DEF x, y
<1>3. CASE x > y
  <2>1. i * x >= i * (y + 1)
    BY <1>1, <1>3
  <2>2. i * (y + 1) = i * y + i
    BY <1>1
  <2> QED
    BY <1>1, <1>2, <2>1, <2>2
<1>4. CASE x < y
  <2>1. i * y >= i * (x + 1)
    BY <1>1, <1>4
  <2>2. i * (x + 1) = i * x + i
    BY <1>1
  <2> QED
    BY <1>1, <1>2, <2>1, <2>2
<1> QED
  BY <1>1, <1>2, <1>3, <1>4

(* Series with a sample at every time are always there. *)
LEMMA DenseInner ==
  ASSUME NEW inner, NEW o \in Int, IsInner(inner, Selector(o, NoTime)), NEW series,
         \A l \in DOMAIN series : DOMAIN series[l] = 0..Horizon /\ FloatSamples(series[l]),
         NEW t \in Int, t - o \in 0..Horizon
  PROVE  DOMAIN InnerValue(inner, series, t) = DOMAIN series
<1> DEFINE sel == Selector(o, NoTime)
           ref == t - o
<1>0. Lookback \in Nat \ {0} /\ Horizon \in Nat
  BY LookbackAssumption
<1>1. Source(sel, series) = series /\ Ref(sel, t) = ref /\ ref \in 0..Horizon /\ sel.kind = "selector"
  BY DEF Selector, Source, Ref
<1> HIDE DEF sel, ref
<1>2. IsInner(inner, sel)
  BY DEF sel
<1>3. CASE DOMAIN inner = {<<>>} /\ inner[<<>>] = sel
  <2>1. InnerValue(inner, series, t) = SelectAt(series, ref)
    BY <1>1, <1>3 DEF InnerValue
  <2>2. ASSUME NEW l \in DOMAIN series PROVE Visible(series[l], ref)
    <3>1. /\ DOMAIN series[l] \subseteq Int /\ ref \in DOMAIN series[l]
          /\ series[l][ref].k = "float"
      BY <1>1 DEF FloatSamples
    <3> QED
      BY <3>1, LatestAt DEF Visible
  <2> QED
    BY <2>1, <2>2 DEF SelectAt
<1>4. CASE ~(DOMAIN inner = {<<>>} /\ inner[<<>>] = sel)
  <2>1. inner[<<>>].kind = "call" /\ inner[<<1>>].range \in Nat \ {0} /\ inner[<<1, 1>>] = sel
    BY <1>2, <1>4, InnerIs
  <2> DEFINE range == inner[<<1>>].range
             fn == inner[<<>>].fn
  <2>2. InnerValue(inner, series, t) = RangeCallOf(fn, Window(series, range, ref))
    BY <1>1, <2>1 DEF InnerValue
  <2>3. range \in Nat \ {0}
    BY <2>1
  <2> HIDE DEF range, fn
  <2>4. ASSUME NEW l \in DOMAIN series PROVE Windowed(series[l], range, ref) # {}
    <3>1. ref \in DOMAIN series[l] /\ series[l][ref].k = "float" /\ ref \in Int
      BY <1>1 DEF FloatSamples
    <3>2. ref \in Windowed(series[l], range, ref)
      BY <2>3, <3>1 DEF Windowed
    <3> QED
      BY <3>2
  <2>5. DOMAIN RangeCallOf(fn, Window(series, range, ref)) = DOMAIN series
    BY <2>4 DEF RangeCallOf, Window
  <2> QED
    BY <2>2, <2>5
<1> QED
  BY <1>3, <1>4

DenseSeries(series) == \A l \in DOMAIN series : DOMAIN series[l] = 0..Horizon /\ FloatSamples(series[l])

(* Over such series a core that is no topk or bottomk has the same series at
   every time. *)
LEMMA CoreDense ==
  ASSUME NEW expr, NEW inner, NEW o \in Int, IsCore(expr, inner, Selector(o, NoTime)), NEW series,
         DenseSeries(series), ~(expr[<<>>].kind = "aggregate" /\ expr[<<>>].op \in {"topk", "bottomk"}),
         NEW t \in 0..Horizon, t - o \in 0..Horizon, NEW u \in 0..Horizon, u - o \in 0..Horizon
  PROVE  DOMAIN Eval(expr, series, t) = DOMAIN Eval(expr, series, u)
<1> DEFINE sel == Selector(o, NoTime)
<1>1. IsInner(inner, sel) /\ IsCore(expr, inner, sel)
  BY DEF IsCore
<1>2. /\ DOMAIN InnerValue(inner, series, t) = DOMAIN series
      /\ DOMAIN InnerValue(inner, series, u) = DOMAIN series
  BY <1>1, DenseInner DEF DenseSeries
<1> HIDE DEF sel
<1>3. CASE expr[<<>>].kind # "aggregate"
  <2>1. expr = inner
    BY <1>1, <1>3, CoreIs
  <2>2. Eval(expr, series, t) = InnerValue(inner, series, t) /\ Eval(expr, series, u) = InnerValue(inner, series, u)
    BY <1>1, <2>1, EvalInner
  <2> QED
    BY <1>2, <2>2
<1>4. CASE expr[<<>>].kind = "aggregate"
  <2> DEFINE agg == expr[<<>>]
  <2>1. expr = Over(agg, inner) /\ agg.kind = "aggregate" /\ agg.op \in PushedOps \ {"topk", "bottomk"}
    BY <1>1, <1>4, CoreIs
  <2> HIDE DEF agg
  <2>2. agg.op \in KeyedOps
    BY <2>1 DEF PushedOps, KeyedOps
  <2>3. \A vec : DOMAIN AggregateOf(agg, vec) = {GroupKey(agg, l) : l \in DOMAIN vec}
    BY <2>2, KeyedAggregate
  <2>4. /\ Eval(expr, series, t) = AggregateOf(agg, InnerValue(inner, series, t))
        /\ Eval(expr, series, u) = AggregateOf(agg, InnerValue(inner, series, u))
    BY <1>1, <2>1, EvalOverInner
  <2> QED
    BY <1>2, <2>3, <2>4
<1> QED
  BY <1>3, <1>4

(* The series of a ranked query, or of a comparison, depend on their values. *)
Ranked(expr) ==
  \/ Top(expr).kind = "aggregate" /\ Top(expr).op \in {"topk", "bottomk"}
  \/ expr[<<>>].kind = "binary" /\ expr[<<>>].op \in {"<", ">"}

(* Over such series any other plain query has the same series at every time. *)
LEMMA DenseValue ==
  ASSUME NEW expr, NEW inner, NEW o \in Int, IsPlain(expr, inner, Selector(o, NoTime)), NEW series,
         DenseSeries(series), ~Ranked(expr),
         NEW t \in 0..Horizon, t - o \in 0..Horizon, NEW u \in 0..Horizon, u - o \in 0..Horizon
  PROVE  DOMAIN Eval(expr, series, t) = DOMAIN Eval(expr, series, u)
<1>1. CASE IsCore(expr, inner, Selector(o, NoTime))
  <2>1. ~(expr[<<>>].kind = "aggregate" /\ expr[<<>>].op \in {"topk", "bottomk"})
    BY <1>1, CoreTop DEF Ranked
  <2> QED
    BY <1>1, <2>1, CoreDense
<1>2. ASSUME NEW op, NEW core, NEW n, IsLiteralQuery(expr, op, core, n, inner, Selector(o, NoTime))
      PROVE  DOMAIN Eval(expr, series, t) = DOMAIN Eval(expr, series, u)
  <2>1. /\ expr[<<>>] = Binary(op) /\ Top(expr) = core[<<>>]
        /\ \A w \in 0..Horizon : Eval(expr, series, w) = WithLiteral(op, Eval(core, series, w), n)
    BY <1>2, LiteralIs
  <2>2. op = "*"
    BY <1>2, <2>1 DEF Ranked, Binary, IsLiteralQuery, LiteralOps
  <2>3. ~(core[<<>>].kind = "aggregate" /\ core[<<>>].op \in {"topk", "bottomk"})
    BY <2>1 DEF Ranked
  <2>4. DOMAIN Eval(core, series, t) = DOMAIN Eval(core, series, u)
    BY <1>2, <2>3, CoreDense DEF IsLiteralQuery
  <2>5. \A vec : DOMAIN WithLiteral("*", vec, n) = DOMAIN vec
    <3>1. ASSUME NEW vec PROVE DOMAIN WithLiteral("*", vec, n) = DOMAIN vec
      <4>1. WithLiteral("*", vec, n) = [l \in DOMAIN vec |-> Float(vec[l].v * n)]
        BY Zenon DEF WithLiteral
      <4> QED
        BY <4>1
    <3> QED
      BY <3>1
  <2> QED
    BY <2>1, <2>2, <2>4, <2>5
<1> QED
  BY <1>1, <1>2 DEF IsPlain

(* Where no answer bleeds into the next step, a series that a step within the
   lookback has is there at the later step too. *)
LEMMA Steady ==
  ASSUME NEW inner, NEW o, NEW at, IsPlainQuery(inner, o, at), ~HistogramData, ~Bleeds,
         query.tree[<<>>].kind = "call" => query.stmt.interval = 0,
         NEW t \in Steps(query.stmt, 0), NEW u \in Steps(query.stmt, 0), t - Lookback < u, u <= t
  PROVE  DOMAIN Parts(u) \subseteq DOMAIN Parts(t)
<1> DEFINE i == query.stmt.interval
           start == query.stmt.start
<1>0. /\ start \in Int /\ query.stmt.end \in Int /\ i \in Nat /\ o \in Int /\ Lookback \in Nat \ {0}
      /\ i = 0 => start = query.stmt.end
  BY PlainTimes, LookbackAssumption
<1>1. /\ t \in Int /\ start <= t /\ t <= query.stmt.end /\ (i = 0 \/ (t - start) % i = 0)
      /\ u \in Int /\ start <= u /\ u <= query.stmt.end /\ (i = 0 \/ (u - start) % i = 0)
  BY <1>0, StepsAre
<1>2. /\ t \in 0..Horizon /\ (at = NoTime => t - o \in 0..Horizon)
      /\ u \in 0..Horizon /\ (at = NoTime => u - o \in 0..Horizon)
  BY PlainSteps
<1>3. CASE i = 0
  <2>1. t = u
    BY <1>0, <1>1, <1>3
  <2> QED
    BY <2>1
<1>4. CASE i # 0 /\ i >= Lookback
  <2> DEFINE a == t - start
             b == u - start
  <2>1. a \in Int /\ b \in Int /\ a % i = 0 /\ b % i = 0 /\ b <= a /\ a < b + i /\ i \in Nat \ {0}
    BY <1>0, <1>1, <1>4
  <2> HIDE DEF a, b
  <2>2. a = b
    BY <2>1, SameMultiple
  <2>3. t = u
    BY <1>0, <1>1, <2>2 DEF a, b
  <2> QED
    BY <2>3
<1>5. CASE at # NoTime
  <2>1. IsPlain(query.tree, inner, Selector(o, at))
    BY DEF IsPlainQuery
  <2>2. \A g \in Groups : Eval(query.tree, query.data[g], t) = Eval(query.tree, query.data[g], u)
    BY <1>2, <1>5, <2>1, PinnedValue
  <2>3. Parts(t) = Parts(u)
    BY <2>2 DEF Parts
  <2> QED
    BY <2>3
<1>6. CASE i # 0 /\ i < Lookback /\ at = NoTime
  <2>1. /\ Dense \/ query.tree[<<>>].kind = "call"
        /\ Ops("aggregate") \cap {"topk", "bottomk", "count_values"} = {}
        /\ Ops("binary") \cap {"<", ">"} = {}
    BY <1>6 DEF Bleeds
  <2>2. Dense
    BY <1>6, <2>1
  <2>3. IsPlain(query.tree, inner, Selector(o, NoTime))
    BY <1>6 DEF IsPlainQuery
  <2>4. ~Ranked(query.tree)
    <3> DEFINE p == TopPath(query.tree)
    <3>1. <<>> \in DOMAIN query.tree /\ p \in DOMAIN query.tree
      BY <2>3, PlainNodes DEF PlainTree, TopPath
    <3>2. query.tree[p].kind = "aggregate" => query.tree[p].op \in Ops("aggregate")
      BY <3>1 DEF Ops, Nodes
    <3>3. query.tree[<<>>].kind = "binary" => query.tree[<<>>].op \in Ops("binary")
      BY <3>1 DEF Ops, Nodes
    <3> QED
      BY <2>1, <3>2, <3>3 DEF Ranked, Top
  <2>5. LabelSets(query.data) /\ FloatSeries(query.data) /\ IsFiniteSet(Groups)
    BY PlainData DEF IsPlainQuery
  <2>6. ASSUME NEW g \in Groups, NEW l \in DOMAIN query.data[g]
        PROVE  DOMAIN query.data[g][l] = 0..Horizon /\ FloatSamples(query.data[g][l])
    BY <2>2, <2>5 DEF Dense, FloatSeries
  <2>7. \A g \in Groups : DOMAIN Eval(query.tree, query.data[g], t) = DOMAIN Eval(query.tree, query.data[g], u)
    <3>1. ASSUME NEW g \in Groups
          PROVE  DOMAIN Eval(query.tree, query.data[g], t) = DOMAIN Eval(query.tree, query.data[g], u)
      <4> DEFINE expr == query.tree
                 series == query.data[g]
      <4>1. DenseSeries(series)
        BY <2>6 DEF DenseSeries
      <4>2. /\ o \in Int /\ t \in 0..Horizon /\ t - o \in 0..Horizon
            /\ u \in 0..Horizon /\ u - o \in 0..Horizon
        BY <1>0, <1>2, <1>6
      <4>3. IsPlain(expr, inner, Selector(o, NoTime))
        BY <2>3
      <4>4. ~Ranked(expr)
        BY <2>4
      <4> HIDE DEF expr, series
      <4>5. DOMAIN Eval(expr, series, t) = DOMAIN Eval(expr, series, u)
        BY <4>1, <4>2, <4>3, <4>4, DenseValue
      <4> QED
        BY <4>5 DEF expr, series
    <3> QED
      BY <3>1
  <2> DEFINE V == [g \in Groups |-> Eval(query.tree, query.data[g], t)]
             U == [g \in Groups |-> Eval(query.tree, query.data[g], u)]
             sel == Selector(o, at)
  <2>8. Vectors(V) /\ Vectors(U)
    <3>1. ~sel.fetched /\ IsPlain(query.tree, inner, sel)
      BY DEF Selector, IsPlainQuery
    <3>2. Ref(sel, t) \in Int /\ Ref(sel, u) \in Int
      BY PlainSteps
    <3> HIDE DEF sel
    <3> QED
      BY <1>2, <2>5, <3>1, <3>2, PlainByGroup
  <2>9. \A g \in Groups : DOMAIN V[g] = DOMAIN U[g]
    BY <2>7
  <2> HIDE DEF V, U
  <2>10. \A l \in DOMAIN AllGroups(U) : l \in DOMAIN AllGroups(V)
    BY <2>8, <2>9, AllGroupsAt DEF Vectors, Presented
  <2> QED
    BY <2>10 DEF Parts, U, V
<1> QED
  BY <1>0, <1>3, <1>4, <1>5, <1>6

(* What the fetched selector carries. *)
Filled(off) ==
  IF query.tree[<<>>].kind = "call" /\ query.stmt.interval # 0
  THEN FillStaleNaNGaps(Raw(off), Steps(query.stmt, off)) ELSE Raw(off)

(* The engine reads from the answer, at every step, the groups' values. *)
LEMMA AnswerRead ==
  ASSUME NEW inner, NEW o, NEW at, IsPlainQuery(inner, o, at), ~HistogramData, ~Bleeds,
         NEW off, off = ShiftOf(o, at), NEW t \in Steps(query.stmt, 0)
  PROVE  SelectAt(Filled(off), t - off) = Parts(t)
<1> DEFINE R == Raw(off)
           F == Filled(off)
           P == Parts(t)
           x == t - off
           steps == Steps(query.stmt, off)
<1>0. off \in Int /\ query.stmt.start \in Int /\ query.stmt.end \in Int /\ query.stmt.interval \in Nat
  BY PlainTimes DEF ShiftOf
<1>1. /\ \A l \in DOMAIN R : DOMAIN R[l] \subseteq steps
      /\ \A l : l \in DOMAIN P <=> l \in DOMAIN R /\ x \in DOMAIN R[l]
      /\ \A l \in DOMAIN P : R[l][x] = P[l]
  BY RawIs
<1>2. x \in steps /\ x \in Int /\ steps \subseteq Int
  BY <1>0, StepsAre
<1>3. IsFunction(P) /\ \A l \in DOMAIN P : P[l].k = "float"
  BY PartsAre
<1>4. CASE query.tree[<<>>].kind = "call" /\ query.stmt.interval # 0
  <2>1. F = FillStaleNaNGaps(R, steps)
    BY <1>4 DEF Filled
  <2> HIDE DEF R, F, P, x, steps
  <2>2. DOMAIN F = DOMAIN R
        /\ \A l \in DOMAIN R : /\ DOMAIN F[l] = steps \cup DOMAIN R[l]
                               /\ \A w \in DOMAIN F[l] : F[l][w] = IF w \in DOMAIN R[l] THEN R[l][w] ELSE Stale
    BY <2>1 DEF FillStaleNaNGaps
  <2>3. \A l \in DOMAIN F : DOMAIN F[l] \subseteq Int /\ x \in DOMAIN F[l]
    BY <1>1, <1>2, <2>2
  <2>4. \A l \in DOMAIN R : x \in DOMAIN R[l] => F[l][x] = R[l][x] /\ F[l][x] = P[l] /\ F[l][x].k = "float"
    BY <1>1, <1>3, <2>2, <2>3
  <2>5. \A l \in DOMAIN R : x \notin DOMAIN R[l] => F[l][x].k = "stale"
    BY <2>2, <2>3 DEF Stale
  <2>6. \A l : l \in DOMAIN P <=> l \in DOMAIN F /\ x \in DOMAIN F[l] /\ F[l][x].k # "stale"
    BY <1>1, <2>2, <2>3, <2>4, <2>5
  <2>7. \A l \in DOMAIN P : F[l][x] = P[l]
    BY <1>1, <2>4
  <2>8. SelectAt(F, x) = P
    BY <1>3, <2>3, <2>6, <2>7, ReadBack
  <2> QED
    BY <2>8 DEF F, P, x
<1>5. CASE ~(query.tree[<<>>].kind = "call" /\ query.stmt.interval # 0)
  <2>1. F = R
    BY <1>5 DEF Filled
  <2>2. ASSUME NEW l \in DOMAIN R, x \notin DOMAIN R[l] PROVE Seen(R[l], x) = {}
    <3>1. ASSUME NEW y \in Seen(R[l], x) PROVE FALSE
      <4>1. y \in DOMAIN R[l] /\ x - Lookback < y /\ y <= x
        BY DEF Seen
      <4>2. y \in steps
        BY <1>1, <4>1
      <4>3. PICK u \in Steps(query.stmt, 0) : y = u - off
        BY <1>0, <4>2, StepsAre
      <4>4. l \in DOMAIN Parts(u)
        BY <4>1, <4>3, RawIs
      <4>5. t - Lookback < u /\ u <= t
        <5>1. t \in Int /\ u \in Int /\ Lookback \in Int
          BY <1>0, StepsAre, LookbackAssumption
        <5> QED
          BY <1>0, <4>1, <4>3, <5>1
      <4>6. DOMAIN Parts(u) \subseteq DOMAIN Parts(t)
        BY <1>5, <4>5, Steady
      <4> QED
        BY <1>1, <2>2, <4>4, <4>6
    <3> QED
      BY <3>1
  <2> HIDE DEF R, F, P, x, steps
  <2>3. \A l \in DOMAIN R : DOMAIN R[l] \subseteq Int
    BY <1>1, <1>2
  <2>4. \A l \in DOMAIN R : x \in DOMAIN R[l] => R[l][x].k # "stale"
    BY <1>1, <1>3
  <2>5. \A l : l \in DOMAIN P <=> l \in DOMAIN R /\ x \in DOMAIN R[l] /\ R[l][x].k # "stale"
    BY <1>1, <2>4
  <2>6. SelectAt(R, x) = P
    BY <1>1, <1>3, <2>2, <2>3, <2>5, ReadBack
  <2> QED
    BY <2>1, <2>6 DEF F, P, x
<1> QED
  BY <1>4, <1>5

(* The expression promxy puts in place of the query. *)
Replaced(off) ==
  LET leaf == Leaf(FetchedSelector(off, Filled(off)))
  IN  IF Top(query.tree).kind = "aggregate" THEN Over(Recombine(Top(query.tree)), leaf) ELSE leaf

(* Evaluating the replacement gives the query's value over all series. *)
LEMMA ReplacedExact ==
  ASSUME NEW inner, NEW o, NEW at, IsPlainQuery(inner, o, at), ~HistogramData, ~Bleeds,
         tree = Replaced(ShiftOf(o, at))
  PROVE  Exact
<1> DEFINE off == ShiftOf(o, at)
           fetched == FetchedSelector(off, Filled(off))
<1>1. off \in Int
  BY PlainTimes DEF ShiftOf
<1>2. ASSUME NEW t \in Steps(query.stmt, 0) PROVE Eval(tree, Select, t) = Eval(query.tree, AllSeries, t)
  <2>1. t \in 0..Horizon /\ t \in Int
    BY PlainSteps
  <2>2. SelectAt(Filled(off), t - off) = Parts(t)
    BY <1>1, AnswerRead
  <2>3. Combined(query.tree, Parts(t)) = Eval(query.tree, AllSeries, t)
    BY PartsAre
  <2>4. \A series : InnerValue(Leaf(fetched), series, t) = SelectAt(Filled(off), t - off)
    <3>1. /\ fetched.kind = "selector" /\ \A series : Source(fetched, series) = Filled(off)
          /\ Ref(fetched, t) = t - off
      BY DEF FetchedSelector, Source, Ref
    <3> HIDE DEF fetched
    <3>2. Leaf(fetched)[<<>>] = fetched
      BY LeafIs
    <3> QED
      BY <3>1, <3>2 DEF InnerValue
  <2>5. IsInner(Leaf(fetched), fetched)
    BY DEF IsInner, FetchedSelector
  <2> HIDE DEF off, fetched
  <2>6. CASE Top(query.tree).kind # "aggregate"
    <3>1. tree = Leaf(fetched)
      BY <2>6 DEF Replaced, off, fetched
    <3>2. Eval(tree, Select, t) = InnerValue(Leaf(fetched), Select, t)
      BY <2>1, <2>5, <3>1, EvalInner
    <3> QED
      BY <2>2, <2>3, <2>4, <2>6, <3>2 DEF Combined
  <2>7. CASE Top(query.tree).kind = "aggregate"
    <3> DEFINE agg == Recombine(Top(query.tree))
    <3>1. agg.kind = "aggregate"
      BY <2>7, PlainTop DEF IsPlainQuery, Recombine, IsFunction
    <3>2. tree = Over(agg, Leaf(fetched))
      BY <2>7 DEF Replaced, off, fetched
    <3> HIDE DEF agg
    <3>3. Eval(tree, Select, t) = AggregateOf(agg, InnerValue(Leaf(fetched), Select, t))
      BY <2>1, <2>5, <3>1, <3>2, EvalOverInner
    <3> QED
      BY <2>2, <2>3, <2>4, <2>7, <3>3 DEF Combined, agg
  <2> QED
    BY <2>6, <2>7
<1> QED
  BY <1>2 DEF Exact

---------------------------------------------------------------------------
(* The walk of a plain query.                                              *)

(* The subtree at the root is the tree. *)
LEMMA RootSubtree ==
  ASSUME NEW t, IsFunction(t), DOMAIN t \subseteq Seq(1..2)
  PROVE  Subtree(t, <<>>) = t
<1>1. \A r \in DOMAIN t : IsPrefix(<<>>, r) /\ SubSeq(r, Len(<<>>) + 1, Len(r)) = r /\ <<>> \o r = r
  <2>1. ASSUME NEW r \in Seq(1..2)
        PROVE  IsPrefix(<<>>, r) /\ SubSeq(r, Len(<<>>) + 1, Len(r)) = r /\ <<>> \o r = r
    BY DEF IsPrefix
  <2> QED
    BY <2>1
<1>2. Below(t, <<>>) = DOMAIN t
  BY <1>1 DEF Below
<1>3. {SubSeq(r, Len(<<>>) + 1, Len(r)) : r \in Below(t, <<>>)} = DOMAIN t
  <2> DEFINE Suffix(r) == SubSeq(r, Len(<<>>) + 1, Len(r))
  <2>1. \A r \in DOMAIN t : Suffix(r) = r
    BY <1>1
  <2> HIDE DEF Suffix
  <2>2. {Suffix(r) : r \in Below(t, <<>>)} = DOMAIN t
    BY <1>2, <2>1
  <2> QED
    BY <2>2 DEF Suffix
<1>4. Subtree(t, <<>>) = [q \in DOMAIN t |-> t[<<>> \o q]]
  BY <1>3, Zenon DEF Subtree
<1>5. Subtree(t, <<>>) = [q \in DOMAIN t |-> t[q]]
  BY <1>1, <1>4
<1> QED
  BY <1>5 DEF IsFunction

(* Replacing the root replaces the tree. *)
LEMMA GraftRoot ==
  ASSUME NEW t, DOMAIN t \subseteq Seq(1..2), NEW new, IsFunction(new), DOMAIN new \subseteq Seq(1..2)
  PROVE  Graft(t, <<>>, new) = new
<1>1. ASSUME NEW r \in Seq(1..2)
      PROVE  IsPrefix(<<>>, r) /\ SubSeq(r, Len(<<>>) + 1, Len(r)) = r /\ <<>> \o r = r
  BY DEF IsPrefix
<1>2. DOMAIN t \ Below(t, <<>>) = {}
  BY <1>1 DEF Below
<1>3. {<<>> \o r : r \in DOMAIN new} = DOMAIN new
  <2> DEFINE Path(r) == <<>> \o r
  <2>1. \A r \in DOMAIN new : Path(r) = r
    BY <1>1
  <2> HIDE DEF Path
  <2>2. {Path(r) : r \in DOMAIN new} = DOMAIN new
    BY <2>1
  <2> QED
    BY <2>2 DEF Path
<1>4. (DOMAIN t \ Below(t, <<>>)) \cup {<<>> \o r : r \in DOMAIN new} = DOMAIN new
  BY <1>2, <1>3
<1>5. Graft(t, <<>>, new) = [q \in DOMAIN new |-> IF IsPrefix(<<>>, q) THEN new[SubSeq(q, Len(<<>>) + 1, Len(q))]
                                                                       ELSE t[q]]
  BY <1>4, Zenon DEF Graft
<1>6. Graft(t, <<>>, new) = [q \in DOMAIN new |-> new[q]]
  BY <1>1, <1>5
<1> QED
  BY <1>6 DEF IsFunction

(* The one request a plain query is sent with. *)
RootRequest(off) ==
  [visit |-> RootVisit, expr |-> Request, offset |-> off, fill |-> query.tree[<<>>].kind = "call",
   above |-> IF Top(query.tree).kind = "aggregate" THEN <<Recombine(Top(query.tree))>> ELSE <<>>]

(* Nothing keeps a plain query from being sent. *)
LEMMA RootSent ==
  ASSUME NEW inner, NEW o, NEW at, IsPlainQuery(inner, o, at), ~query.cached, tree = query.tree,
         NEW w, w = RootVisit
  PROVE  /\ Under(w) = query.tree /\ Node(w) = query.tree[<<>>]
         /\ ~Blocked(w) /\ ~FailsHistogram(w)
         /\ Offset(w) = ShiftOf(o, at)
<1> DEFINE sel == Selector(o, at)
           T == query.tree
<1>0. w.path = <<>> /\ w.root = <<>>
  BY DEF RootVisit
<1>1. PICK sp \in DOMAIN T : PlainTree(T, sel, sp)
  BY PlainNodes DEF IsPlainQuery
<1>2. sel.offset = o /\ sel.at = at
  BY DEF Selector
<1> HIDE DEF sel
<1>3. Under(w) = T /\ Node(w) = T[<<>>]
  BY <1>0, <1>1, RootSubtree DEF PlainTree, Under, Node
<1>4. ~BelowSubquery(w) /\ \A p \in DOMAIN tree : ~IsStrictPrefix(p, w.path)
  <2>1. ASSUME NEW p \in DOMAIN tree PROVE ~IsStrictPrefix(p, <<>>)
    <3>1. p \in Seq(1..2)
      BY <1>1 DEF PlainTree
    <3> QED
      BY <3>1 DEF IsStrictPrefix, IsPrefix
  <2> QED
    BY <1>0, <2>1 DEF BelowSubquery
<1>5. ~IsHistogramExpr(w)
  <2>1. ~Calls(T, HistogramOnlyFuncs)
    BY <1>1 DEF PlainTree, Calls, HistogramOnlyFuncs, RangeFns
  <2> QED
    BY <1>3, <1>4, <2>1 DEF IsHistogramExpr
<1>6. ~AggregatesBlock(w)
  <2> DEFINE A == {p \in DOMAIN T : T[p].kind = "aggregate"}
             top == TopPath(T)
  <2>1. A = {} \/ (A = {top} /\ T[<<>>].kind \in {"aggregate", "binary"})
    BY <1>1 DEF PlainTree, TopPath
  <2>2. Cardinality(A) = 0 \/ (Cardinality(A) = 1 /\ T[<<>>].kind \in {"aggregate", "binary"})
    BY <2>1, FS_EmptySet, FS_Singleton
  <2> QED
    BY <1>3, <2>2 DEF AggregatesBlock, Count
<1>7. ~(Count(Under(w), "selector") > 1)
  <2> DEFINE S == {p \in DOMAIN T : T[p].kind = "selector"}
  <2>1. S = {sp}
    BY <1>1 DEF PlainTree
  <2>2. Cardinality(S) = 1
    BY <2>1, FS_Singleton
  <2> QED
    BY <1>3, <2>2 DEF Count
<1>8. Offsets(w) = {o}
  <2>1. Node(w).kind # "subquery"
    BY <1>1, <1>3 DEF PlainTree
  <2>2. {q \in DOMAIN T : T[q].kind \in {"selector", "subquery"}} = {sp}
    BY <1>1 DEF PlainTree
  <2>3. T[sp].offset = o
    BY <1>1, <1>2 DEF PlainTree
  <2>4. Offsets(w) = {T[p].offset : p \in {q \in DOMAIN T : T[q].kind \in {"selector", "subquery"}}}
    BY <1>3, <2>1 DEF Offsets
  <2> HIDE DEF T
  <2> QED
    BY <2>2, <2>3, <2>4
<1>9. Cardinality(Offsets(w)) = 1
  BY <1>8, FS_Singleton
<1>10. ~Blocked(w) /\ ~FailsHistogram(w)
  BY <1>4, <1>5, <1>6, <1>7, <1>9 DEF Blocked, FailsHistogram
<1>11. HasAt(T) <=> at # NoTime
  BY <1>1, <1>2, PlainHasAt
<1>12. Offset(w) = ShiftOf(o, at)
  BY <1>3, <1>8, <1>11 DEF Offset, ShiftOf
<1> QED
  BY <1>3, <1>10, <1>12

(* The visit of the root sends the query. *)
LEMMA RootPushed ==
  ASSUME NEW inner, NEW o, NEW at, IsPlainQuery(inner, o, at), ~query.cached, tree = query.tree,
         sent = {}, todo = {RootVisit}, NEW w, w = RootVisit, NodeReplacer(w)
  PROVE  sent' = {RootRequest(ShiftOf(o, at))} /\ todo' = {} /\ tree' = tree /\ failed' = failed
<1> DEFINE T == query.tree
           off == ShiftOf(o, at)
<1>1. /\ Under(w) = T /\ Node(w) = T[<<>>]
      /\ ~Blocked(w) /\ ~FailsHistogram(w)
      /\ Offset(w) = off
  BY RootSent
<1>2. PICK sp \in DOMAIN T : PlainTree(T, Selector(o, at), sp)
  BY PlainNodes DEF IsPlainQuery
<1>3. /\ T[<<>>].kind \in {"selector", "call", "aggregate", "binary"}
      /\ T[<<>>].kind = "aggregate" => T[<<>>].op \in PushedOps
      /\ T[<<>>].kind = "call" => T[<<>>].fn \in RangeFns
      /\ T[<<>>].kind = "selector" => ~T[<<>>].fetched
  <2>1. T[<<>>].kind = "selector" => T[<<>>] = Selector(o, at)
    BY <1>2 DEF PlainTree
  <2> QED
    BY <1>2, <2>1 DEF PlainTree, Selector
<1>4. w.path = <<>> /\ w.root = <<>>
  BY DEF RootVisit
<1> DEFINE Sent(fill, above) ==
             /\ sent' = {[visit |-> w, expr |-> Request, offset |-> off, fill |-> fill, above |-> above]}
             /\ todo' = {} /\ tree' = tree /\ failed' = failed
<1>5. ASSUME NEW fill, NEW above, Push(w, RemoveOffset(Under(w)), fill, above) PROVE Sent(fill, above)
  BY <1>1, <1>5 DEF Push, Request
<1> HIDE DEF Sent, T, off
<1>6. CASE T[<<>>].kind = "selector"
  <2>1. ~HasItsData(w)
    BY <1>1, <1>3, <1>4, <1>6 DEF HasItsData
  <2>2. PushSelector(w)
    BY <1>1, <1>6, <2>1 DEF NodeReplacer, FailHistogram, LeaveBlocked, PushAggregate, PushCount, RewriteAvg,
      PushCountValues, LeaveAggregate, IsOp, PushCall, LeaveCall, IsCall, LeaveSelector, LeaveOther,
      EnterSubquery, PushBinaryVector, PushBinaryAggregate, LeaveBinary, LiteralOperator
  <2>3. Sent(FALSE, <<>>)
    BY <1>5, <2>2 DEF PushSelector
  <2> QED
    BY <1>6, <2>3 DEF Sent, RootRequest, Top, TopPath, T, off
<1>7. CASE T[<<>>].kind = "call"
  <2>1. T[<<>>].fn \notin {"absent", "scalar", "sort"}
    BY <1>3, <1>7 DEF RangeFns
  <2>2. PushCall(w)
    BY <1>1, <1>7, <2>1 DEF NodeReplacer, FailHistogram, LeaveBlocked, PushAggregate, PushCount, RewriteAvg,
      PushCountValues, LeaveAggregate, IsOp, LeaveCall, PushSelector, LeaveSelector, IsSelector, LeaveOther,
      EnterSubquery, PushBinaryVector, PushBinaryAggregate, LeaveBinary, LiteralOperator
  <2>3. Sent(TRUE, <<>>)
    BY <1>1, <1>5, <2>1, <2>2 DEF PushCall
  <2> QED
    BY <1>7, <2>3 DEF Sent, RootRequest, Top, TopPath, T, off
<1>8. CASE T[<<>>].kind = "aggregate"
  <2>1. T[<<>>].op \in PushedOps
    BY <1>3, <1>8
  <2>2. PushAggregate(w) \/ PushCount(w)
    BY <1>1, <1>8, <2>1 DEF NodeReplacer, FailHistogram, LeaveBlocked, RewriteAvg, PushedOps,
      PushCountValues, LeaveAggregate, IsOp, PushCall, IsCall, LeaveCall, PushSelector, LeaveSelector, IsSelector,
      LeaveOther, EnterSubquery, PushBinaryVector, PushBinaryAggregate, LeaveBinary, LiteralOperator
  <2>3. Sent(FALSE, <<Recombine(T[<<>>])>>)
    <3>1. CASE PushAggregate(w)
      <4>1. Recombine(T[<<>>]) = Node(w)
        BY <1>1, <3>1 DEF PushAggregate, IsOp, Recombine
      <4> QED
        BY <1>5, <3>1, <4>1 DEF PushAggregate
    <3>2. CASE PushCount(w)
      <4>1. Recombine(T[<<>>]) = [Node(w) EXCEPT !.op = "sum"]
        BY <1>1, <3>2 DEF PushCount, IsOp, Recombine
      <4> QED
        BY <1>5, <3>2, <4>1 DEF PushCount
    <3> QED
      BY <2>2, <3>1, <3>2
  <2> QED
    BY <1>8, <2>3 DEF Sent, RootRequest, Top, TopPath, T, off
<1>9. CASE T[<<>>].kind = "binary"
  <2>1. Child(<<>>, 1) = <<1>> /\ Child(<<>>, 2) = <<2>>
    BY DEF Child
  <2>2. /\ LiteralOperator(w) /\ Operand(w) = T[<<1>>] /\ Top(T) = T[<<1>>]
        /\ \/ T[<<1>>].kind = "selector"
           \/ T[<<1>>].kind = "aggregate" /\ T[<<1>>].op \in LiteralSafeOps
    BY <1>1, <1>2, <1>4, <1>9, <2>1 DEF PlainTree, LiteralOperator, Operand, Top, TopPath, T
  <2>3. PushBinaryVector(w) \/ PushBinaryAggregate(w)
    BY <1>1, <1>9, <2>2 DEF NodeReplacer, FailHistogram, LeaveBlocked, PushAggregate, PushCount, RewriteAvg,
      PushCountValues, LeaveAggregate, IsOp, PushCall, LeaveCall, IsCall, PushSelector, LeaveSelector, IsSelector,
      LeaveOther, EnterSubquery, LeaveBinary
  <2>4. CASE PushBinaryVector(w)
    <3>1. Sent(FALSE, <<>>) /\ T[<<1>>].kind = "selector"
      BY <1>5, <2>2, <2>4 DEF PushBinaryVector
    <3> QED
      BY <1>9, <2>2, <3>1 DEF Sent, RootRequest, T, off
  <2>5. CASE PushBinaryAggregate(w)
    <3>1. T[<<1>>].kind = "aggregate" /\ T[<<1>>].op \in LiteralSafeOps
      BY <2>2, <2>5 DEF PushBinaryAggregate
    <3>2. Recombine(Top(T)) = Operand(w)
      BY <2>2, <3>1 DEF Recombine, LiteralSafeOps
    <3>3. Sent(FALSE, <<Recombine(Top(T))>>)
      BY <1>5, <2>5, <3>2 DEF PushBinaryAggregate
    <3> QED
      BY <1>9, <2>2, <3>1, <3>3 DEF Sent, RootRequest, T, off
  <2> QED
    BY <2>3, <2>4, <2>5
<1> QED
  BY <1>3, <1>6, <1>7, <1>8, <1>9

(* The nodes of the replacement. *)
LEMMA ReplacedIs ==
  ASSUME NEW off
  PROVE  /\ IsFunction(Replaced(off)) /\ DOMAIN Replaced(off) \subseteq Seq(1..2)
         /\ Top(query.tree).kind = "aggregate" =>
              /\ DOMAIN Replaced(off) = {<<>>, <<1>>}
              /\ Replaced(off)[<<1>>] = FetchedSelector(off, Filled(off))
         /\ Top(query.tree).kind # "aggregate" => DOMAIN Replaced(off) = {<<>>}
<1> DEFINE node == FetchedSelector(off, Filled(off))
           L == Leaf(node)
           agg == Recombine(Top(query.tree))
<1>1. DOMAIN L = {<<>>} /\ L[<<>>] = node /\ DOMAIN L \subseteq Seq(1..2) /\ IsFunction(L)
  <2> HIDE DEF node
  <2> QED
    BY LeafIs, Paths DEF Leaf, IsFunction
<1>2. CASE Top(query.tree).kind # "aggregate"
  <2>1. Replaced(off) = L
    BY <1>2 DEF Replaced
  <2> HIDE DEF L
  <2> QED
    BY <1>1, <1>2, <2>1
<1>3. CASE Top(query.tree).kind = "aggregate"
  <2> DEFINE O == Over(agg, L)
  <2>1. Replaced(off) = O
    BY <1>3 DEF Replaced
  <2> HIDE DEF L, agg
  <2>2. O[<<1>> \o <<>>] = L[<<>>] /\ DOMAIN O \subseteq Seq(1..2)
    <3>1. \A q \in DOMAIN L : O[<<1>> \o q] = L[q]
      <4>1. DOMAIN L \subseteq Seq(1..2)
        BY <1>1
      <4>2. \A q \in DOMAIN L : Over(agg, L)[<<1>> \o q] = L[q]
        BY <4>1, OverIs
      <4> QED
        BY <4>2
    <3>2. DOMAIN O \subseteq Seq(1..2)
      BY <1>1, OverIs
    <3> HIDE DEF O
    <3> QED
      BY <1>1, <3>1, <3>2
  <2>3. DOMAIN O = {<<>>, <<1>> \o <<>>} /\ IsFunction(O)
    BY <1>1 DEF Over, IsFunction
  <2> HIDE DEF O, node
  <2> QED
    BY <1>1, <1>3, <2>1, <2>2, <2>3, Paths DEF node
<1> QED
  BY <1>2, <1>3

(* The answer takes the place of the query. *)
LEMMA RootAnswered ==
  ASSUME NEW inner, NEW o, NEW at, IsPlainQuery(inner, o, at), ~HistogramData, tree = query.tree,
         todo = {}, NEW r, r = RootRequest(ShiftOf(o, at)), sent = {r}, Answer(r)
  PROVE  /\ tree' = Replaced(ShiftOf(o, at)) /\ sent' = {} /\ failed' = failed
         /\ \A w \in todo' : w.path = <<1>> /\ Top(query.tree).kind = "aggregate"
<1> DEFINE off == ShiftOf(o, at)
           leaf == Leaf(FetchedSelector(off, Filled(off)))
<1>1. /\ r.visit = RootVisit /\ r.expr = Request /\ r.offset = off /\ r.fill = (query.tree[<<>>].kind = "call")
      /\ r.above = IF Top(query.tree).kind = "aggregate" THEN <<Recombine(Top(query.tree))>> ELSE <<>>
      /\ RootVisit.path = <<>> /\ RootVisit.stmt = query.stmt
  BY DEF RootRequest, RootVisit
<1>2. ~ContainsLossyHistogram(Raw(off))
  BY NothingLost
<1> HIDE DEF off
<1>3. QueryDownstream(r.expr, r.visit.stmt, r.offset) = Raw(off)
  BY <1>1 DEF Raw
<1>4. (IF r.fill /\ r.visit.stmt.interval # 0 THEN FillStaleNaNGaps(Raw(off), Steps(r.visit.stmt, r.offset))
                                               ELSE Raw(off)) = Filled(off)
  BY <1>1 DEF Filled
<1>5. (IF r.above = <<>> THEN leaf ELSE Over(Head(r.above), leaf)) = Replaced(off)
  <2>1. CASE Top(query.tree).kind = "aggregate"
    <3> DEFINE agg == Recombine(Top(query.tree))
    <3>1. r.above = <<agg>>
      BY <1>1, <2>1
    <3>2. r.above # <<>> /\ Head(r.above) = agg
      BY <3>1
    <3> QED
      BY <2>1, <3>2 DEF Replaced
  <2>2. CASE Top(query.tree).kind # "aggregate"
    BY <1>1, <2>2 DEF Replaced
  <2> QED
    BY <2>1, <2>2
<1> DEFINE new == Graft(tree, <<>>, Replaced(off))
<1>6. tree' = new /\ todo' = Descend(RootVisit, new) /\ sent' = sent \ {r} /\ failed' = failed
  BY <1>1, <1>2, <1>3, <1>4, <1>5 DEF Answer
<1>7. new = Replaced(off)
  <2>1. DOMAIN tree \subseteq Seq(1..2)
    BY PlainNodes DEF IsPlainQuery, PlainTree
  <2> QED
    BY <2>1, ReplacedIs, GraftRoot
<1> HIDE DEF new
<1>8. todo' = {[RootVisit EXCEPT !.path = p] : p \in Children(new, <<>>)}
  BY <1>1, <1>6 DEF Descend
<1>9. ASSUME NEW p \in Children(new, <<>>) PROVE p = <<1>> /\ Top(query.tree).kind = "aggregate"
  <2>1. PICK i \in 1..2 : p = Append(<<>>, i)
    BY DEF Children, Child
  <2>2. p = <<i>> /\ p # <<>> /\ p \in DOMAIN new
    BY <2>1 DEF Children
  <2> QED
    <3> DEFINE kind == Top(query.tree).kind
    <3>1. /\ kind = "aggregate" => DOMAIN new = {<<>>, <<1>>}
          /\ kind # "aggregate" => DOMAIN new = {<<>>}
      BY <1>7, ReplacedIs
    <3> HIDE DEF kind
    <3>2. p = <<1>> /\ kind = "aggregate"
      BY <2>2, <3>1
    <3> QED
      BY <3>2 DEF kind
<1>10. ASSUME NEW w \in todo' PROVE w.path = <<1>> /\ Top(query.tree).kind = "aggregate"
  <2>1. PICK p \in Children(new, <<>>) : w = [RootVisit EXCEPT !.path = p]
    BY <1>8
  <2>2. w.path = p
    BY <2>1 DEF RootVisit
  <2> QED
    BY <1>9, <2>2
<1> QED
  BY <1>6, <1>7, <1>10 DEF off
(* The walk of a plain query over floats: it is about to be sent, on its way,
   or answered, when only the fetched selector may be left to visit. *)
PlainWalk(o, at) ==
  \/ failed
  \/ todo = {RootVisit} /\ sent = {} /\ tree = query.tree
  \/ todo = {} /\ sent = {RootRequest(ShiftOf(o, at))} /\ tree = query.tree
  \/ /\ sent = {} /\ tree = Replaced(ShiftOf(o, at))
     /\ \A w \in todo : w.path = <<1>> /\ Top(query.tree).kind = "aggregate"

PlainInvariant ==
  /\ query \in Cases
  /\ \A inner, o, at : IsPlainQuery(inner, o, at) /\ ~HistogramData /\ ~query.cached => PlainWalk(o, at)

(* A plain query starts as one to be sent. *)
LEMMA PlainInit == Init => PlainInvariant
BY DEF Init, PlainInvariant, PlainWalk, RootVisit

(* The visit of the fetched selector changes nothing. *)
LEMMA LeafVisited ==
  ASSUME NEW o, NEW at, tree = Replaced(ShiftOf(o, at)), Top(query.tree).kind = "aggregate",
         NEW w \in todo, w.path = Child(<<>>, 1), NodeReplacer(w)
  PROVE  \/ failed'
         \/ tree' = tree /\ sent' = sent /\ failed' = failed /\ todo' \subseteq todo
<1> w.path = <<1>>
  BY DEF Child
<1> DEFINE off == ShiftOf(o, at)
<1>1. DOMAIN tree = {<<>>, <<1>>} /\ tree[<<1>>] = FetchedSelector(off, Filled(off))
  BY ReplacedIs
<1>2. Node(w).kind = "selector" /\ Node(w).fetched
  BY <1>1 DEF Node, FetchedSelector
<1>3. FailHistogram(w) \/ Leave(w)
  BY <1>2 DEF NodeReplacer, LeaveBlocked, PushAggregate, PushCount, RewriteAvg, PushCountValues,
      LeaveAggregate, IsOp, PushCall, LeaveCall, IsCall, PushSelector, LeaveSelector, HasItsData, LeaveOther,
      EnterSubquery, PushBinaryVector, PushBinaryAggregate, LeaveBinary, LiteralOperator
<1>4. CASE FailHistogram(w)
  BY <1>4 DEF FailHistogram
<1>5. CASE Leave(w)
  <2>1. \A i \in 1..2 : Child(<<1>>, i) # <<>> /\ Child(<<1>>, i) # <<1>>
    <3>1. ASSUME NEW i \in 1..2 PROVE Child(<<1>>, i) # <<>> /\ Child(<<1>>, i) # <<1>>
      <4>1. Len(Append(<<1>>, i)) = 2 /\ Len(<<1>>) = 1 /\ Len(<<>>) = 0
        OBVIOUS
      <4> QED
        BY <4>1 DEF Child
    <3> QED
      BY <3>1
  <2>2. Children(tree, w.path) = {}
    BY <1>1, <2>1 DEF Children
  <2>3. Descend(w, tree) \subseteq todo
    BY <2>2 DEF Descend
  <2> QED
    BY <1>5, <2>3 DEF Leave
<1> QED
  BY <1>3, <1>4, <1>5

(* Every step of the walk keeps to the plan. *)
LEMMA PlainStep == PlainInvariant /\ [Next]_vars => PlainInvariant'
<1> SUFFICES ASSUME PlainInvariant, [Next]_vars PROVE PlainInvariant'
  OBVIOUS
<1>0. query' = query
  BY DEF vars, Next, NodeReplacer, Answer, FailRequest, FailHistogram, LeaveBlocked, PushAggregate, PushCount,
    RewriteAvg, PushCountValues, LeaveAggregate, PushCall, LeaveCall, PushSelector, LeaveSelector, LeaveOther,
    EnterSubquery, PushBinaryVector, PushBinaryAggregate, LeaveBinary, Push, Leave
<1>1. ASSUME NEW inner, NEW o, NEW at, IsPlainQuery(inner, o, at), ~HistogramData, ~query.cached,
             PlainWalk(o, at)
      PROVE  PlainWalk(o, at)'
  <2> DEFINE off == ShiftOf(o, at)
  <2>0. /\ RootVisit' = RootVisit /\ RootRequest(off)' = RootRequest(off) /\ Replaced(off)' = Replaced(off)
    BY <1>0 DEF RootVisit, RootRequest, Request, Replaced, Filled, Raw, QueryDownstream, Downstream
  <2>1. CASE failed
    <3>1. failed'
      BY <2>1 DEF vars, Next, NodeReplacer, Answer, FailRequest, FailHistogram, LeaveBlocked, PushAggregate,
        PushCount, RewriteAvg, PushCountValues, LeaveAggregate, PushCall, LeaveCall, PushSelector, LeaveSelector,
        LeaveOther, EnterSubquery, PushBinaryVector, PushBinaryAggregate, LeaveBinary, Push, Leave
    <3> QED
      BY <3>1 DEF PlainWalk
  <2>2. CASE UNCHANGED vars
    <3>1. UNCHANGED <<tree, todo, sent, failed>>
      BY <2>2 DEF vars
    <3> QED
      BY <1>0, <1>1, <2>0, <3>1 DEF PlainWalk
  <2>3. CASE Next /\ todo = {RootVisit} /\ sent = {} /\ tree = query.tree
    <3>1. NodeReplacer(RootVisit)
      BY <2>3 DEF Next
    <3>2. sent' = {RootRequest(off)} /\ todo' = {} /\ tree' = tree
      BY <1>1, <2>3, <3>1, RootPushed
    <3> QED
      BY <1>0, <2>0, <2>3, <3>2 DEF PlainWalk
  <2>4. CASE Next /\ todo = {} /\ sent = {RootRequest(off)} /\ tree = query.tree
    <3> DEFINE r == RootRequest(off)
    <3>1. Answer(r) \/ FailRequest(r)
      BY <2>4 DEF Next
    <3>2. CASE FailRequest(r)
      BY <3>2 DEF FailRequest, PlainWalk
    <3>3. CASE Answer(r)
      <4>1. /\ tree' = Replaced(off) /\ sent' = {}
            /\ \A w \in todo' : w.path = <<1>> /\ Top(query.tree).kind = "aggregate"
        BY <1>1, <2>4, <3>3, RootAnswered
      <4> QED
        BY <1>0, <2>0, <4>1 DEF PlainWalk
    <3> QED
      BY <3>1, <3>2, <3>3
  <2>5. CASE /\ Next /\ sent = {} /\ tree = Replaced(off)
             /\ \A w \in todo : w.path = <<1>> /\ Top(query.tree).kind = "aggregate"
    <3>1. PICK w \in todo : NodeReplacer(w)
      BY <2>5 DEF Next
    <3>2. failed' \/ (tree' = tree /\ sent' = sent /\ failed' = failed /\ todo' \subseteq todo)
      <4>1. w.path = Child(<<>>, 1)
        BY <2>5 DEF Child
      <4> QED
        BY <2>5, <3>1, <4>1, LeafVisited
    <3>3. CASE failed'
      BY <3>3 DEF PlainWalk
    <3>4. CASE tree' = tree /\ sent' = sent /\ todo' \subseteq todo
      BY <1>0, <2>0, <2>5, <3>4 DEF PlainWalk
    <3> QED
      BY <3>2, <3>3, <3>4
  <2> QED
    BY <1>1, <2>1, <2>2, <2>3, <2>4, <2>5 DEF PlainWalk
<1>2. HistogramData' = HistogramData /\ (query.cached)' = query.cached
  BY <1>0 DEF HistogramData
<1>3. ASSUME NEW inner, NEW o, NEW at, IsPlainQuery(inner, o, at)' PROVE IsPlainQuery(inner, o, at)
  BY <1>0, <1>3 DEF IsPlainQuery
<1>4. ASSUME NEW inner, NEW o, NEW at, IsPlainQuery(inner, o, at)', ~HistogramData', ~(query.cached)'
      PROVE  PlainWalk(o, at)'
  BY <1>1, <1>2, <1>3, <1>4 DEF PlainInvariant
<1>5. query' \in Cases
  BY <1>0 DEF PlainInvariant
<1> QED
  BY <1>4, <1>5 DEF PlainInvariant

(* The query is a selector or a function over its range, one of the
   aggregations sent as they are over either, or an operator sent whole with
   the selector or the aggregation it applies to a literal. *)
PlainQuery ==
  \E inner, o, at :
    \/ IsCore(query.tree, inner, Selector(o, at))
    \/ \E op \in LiteralOps, n \in Int : \E core :
         IsCore(core, inner, Selector(o, at)) /\ IsOperand(core) /\ query.tree = LiteralOver(op, core, n)

(* What LiteralReorders excludes: operators that change what an aggregation
   prefers. *)
LEMMA PlainUnlessReordered ==
  ASSUME PlainQuery, ~LiteralReorders
  PROVE  \E inner, o, at : IsPlain(query.tree, inner, Selector(o, at))
<1>1. ASSUME NEW inner, NEW o, NEW at, NEW op \in LiteralOps, NEW n \in Int, NEW core,
             IsCore(core, inner, Selector(o, at)), IsOperand(core), query.tree = LiteralOver(op, core, n)
      PROVE  IsPlain(query.tree, inner, Selector(o, at))
  <2> DEFINE T == query.tree
             sel == Selector(o, at)
  <2>0. IsCore(core, inner, sel)
    BY <1>1
  <2> HIDE DEF sel
  <2>1. DOMAIN core \subseteq Seq(1..2) /\ <<>> \in DOMAIN core
    BY <2>0, CoreNodes DEF CoreTree
  <2>2. IsBoth(T, Binary(op), core, Literal(n))
    BY <1>1, <2>1, BothIs DEF LiteralOver
  <2>3. /\ <<>> \in DOMAIN T /\ T[<<>>].kind = "binary" /\ T[<<>>].op = op
        /\ T[<<2>>].kind = "literal" /\ T[<<2>>].v = n /\ T[<<1>> \o <<>>] = core[<<>>]
    <3>1. /\ Binary(op).kind = "binary" /\ Binary(op).op = op
          /\ Literal(n).kind = "literal" /\ Literal(n).v = n
      BY DEF Binary, Literal
    <3>2. /\ T[<<>>] = Binary(op) /\ T[<<2>>] = Literal(n) /\ <<>> \in DOMAIN T
          /\ \A q \in DOMAIN core : T[<<1>> \o q] = core[q]
      BY <2>2, Zenon DEF IsBoth
    <3> QED
      BY <2>1, <3>1, <3>2
  <2>4. T[Child(<<>>, 1)] = core[<<>>] /\ T[Child(<<>>, 2)] = T[<<2>>]
    <3>1. Child(<<>>, 1) = <<1>> /\ Child(<<>>, 2) = <<2>>
      BY DEF Child
    <3> QED
      BY <2>3, <3>1, Paths
  <2>5. ASSUME core[<<>>].kind = "aggregate" PROVE KeepsOrder(core[<<>>].op, op, n)
    <3> DEFINE agg == core[<<>>].op
    <3>1. agg \in LiteralSafeOps
      BY <1>1, <2>5 DEF IsOperand
    <3>2. ~(\/ agg \in {"max", "topk"} /\ op = "<"
            \/ agg \in {"min", "bottomk"} /\ op = ">"
            \/ agg \in LiteralSafeOps /\ op = "*" /\ n < 0
            \/ agg \in {"topk", "bottomk"} /\ op = "*" /\ n = 0)
      BY <2>3, <2>4, <2>5 DEF LiteralReorders
    <3> HIDE DEF agg
    <3>3. KeepsOrder(agg, op, n)
      BY <3>1, <3>2 DEF KeepsOrder
    <3> QED
      BY <3>3 DEF agg
  <2> QED
    BY <1>1, <2>5 DEF IsPlain, IsLiteralQuery
<1> QED
  BY <1>1 DEF PlainQuery, IsPlain

(* Pushing down a plain query is exact: whatever the groups, their series (within
   what CasesAssumption says of them), the grouping, the range, the literal, the
   offset or @ time and the steps, the answer promxy puts together is the one of a
   single Prometheus with the series of all groups, unless KnownInexact says
   otherwise. *)
THEOREM PlainQueriesExact == Spec => [](PlainQuery => PushdownExact)
<1>1. Spec => []PlainInvariant
  BY PlainInit, PlainStep, PTL DEF Spec
<1>2. Spec => []RecognisedInvariant
  BY RecognisedInit, RecognisedStep, PTL DEF Spec
<1>3. ASSUME PlainInvariant, RecognisedInvariant, PlainQuery PROVE PushdownExact
  <2> SUFFICES ASSUME Done, ~HistogramData, ~KnownInexact PROVE Exact
    BY DEF PushdownExact
  <2>0. ~LiteralReorders /\ ~Bleeds
    BY DEF KnownInexact
  <2>1. PICK inner, o, at : IsPlain(query.tree, inner, Selector(o, at))
    BY <1>3, <2>0, PlainUnlessReordered
  <2>2. IsPlainQuery(inner, o, at) /\ query \in Cases
    BY <1>3, <2>1 DEF IsPlainQuery, PlainInvariant
  <2>3. CASE query.cached
    <3>1. tree = query.tree
      BY <1>3, <2>3 DEF RecognisedInvariant, Recognised, LeftAlone
    <3>2. Select = AllSeries
      BY <2>2, SelectIsAll
    <3> QED
      BY <3>1, <3>2 DEF Exact
  <2>4. CASE ~query.cached
    <3>1. PlainWalk(o, at)
      BY <1>3, <2>2, <2>4 DEF PlainInvariant
    <3>2. tree = Replaced(ShiftOf(o, at))
      BY <3>1 DEF PlainWalk, Done
    <3> QED
      BY <2>0, <2>2, <3>2, ReplacedExact
  <2> QED
    BY <2>3, <2>4
<1> QED
  BY <1>1, <1>2, <1>3, PTL

=============================================================================
