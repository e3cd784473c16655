------------------------- MODULE SampleMergeProofs -------------------------
(***************************************************************************)
(* Proofs about the merge: an invariant of its loops from which what they  *)
(* compute follows, and one of the fold over the replicas.                 *)
(***************************************************************************)
EXTENDS SampleMerge, FiniteSetTheorems, WellFoundedInduction, TLAPS

---------------------------------------------------------------------------
(* The invariant.                                                          *)

TypeOK ==
  /\ call \in Calls
  /\ replica \in 2..Len(call.replicas)
  /\ a \in Streams /\ b \in Streams /\ newValues \in Streams
  /\ antiAffinityBuffer \in Nat
  /\ pc \in {"start", "before", "during", "fill", "take", "after", "done"}
  /\ aOffset \in 1..(Len(a) + 1) /\ bOffset \in 1..(Len(b) + 1)
  /\ lastOffset \in 1..(Len(b) + 1)
  /\ lastTime \in Int

(* Where the loops are. *)
Positions ==
  /\ pc = "start" => aOffset = 1 /\ bOffset = 1 /\ lastOffset = 1 /\ newValues = <<>>
  /\ pc \notin {"start", "done"} => a # <<>> /\ b # <<>>
  /\ pc = "before" => aOffset = 1 /\ bOffset <= Len(b)
  /\ pc \in {"fill", "take"} => aOffset <= Len(a) /\ newValues # <<>>
  /\ pc = "after" => aOffset = Len(a) + 1 /\ newValues # <<>>
  /\ (pc = "done" /\ a # <<>> /\ b # <<>>) => aOffset = Len(a) + 1 /\ bOffset = Len(b) + 1
  /\ (pc = "done" /\ (a = <<>> \/ b = <<>>)) => newValues = IF a = <<>> THEN b ELSE a

Early(s) == s.t < a[1].t - antiAffinityBuffer

(* While the samples of b before a are loaded: these, and nothing else. *)
LoadingBefore ==
  pc = "before" =>
    /\ Range(newValues) = {b[j] : j \in 1..(bOffset - 1)}
    /\ newValues # <<>> => bOffset > 1 /\ Last(newValues) = b[bOffset - 1]
    /\ \A j \in 1..(bOffset - 1) : Early(b[j])

(* Until a sample of a is taken, exactly these samples of b are merged. *)
BeforeLoaded ==
  (pc \in {"during", "fill", "take"} /\ aOffset = 1) =>
    /\ \A s \in Range(newValues) : Early(s)
    /\ \A s \in Range(b) : Early(s) => s \in Range(newValues)

(* lastTime is the time of the last sample taken from a; what was added    *)
(* since lies between it and the next ones.                                *)
LastMerged ==
  /\ (pc = "during" /\ aOffset > 1) =>
       newValues # <<>> /\ Last(newValues).t = a[aOffset - 1].t
  /\ (pc \in {"fill", "take", "after"} /\ aOffset > 1) => lastTime = a[aOffset - 1].t
  /\ (pc \in {"fill", "take"} /\ aOffset = 1) => lastTime = Last(newValues).t
  /\ pc = "take" => /\ lastTime = Last(newValues).t
                    /\ a[aOffset].t - lastTime <= antiAffinityBuffer * 2
  /\ pc \in {"fill", "take"} => Last(newValues).t < a[aOffset].t
  /\ pc \in {"fill", "after"} =>
       \/ Last(newValues).t = lastTime
       \/ /\ lastTime < Last(newValues).t
          /\ \A j \in bOffset..Len(b) : Last(newValues).t < b[j].t

Merged == pc \notin {"start", "before"} /\ a # <<>> /\ b # <<>>

(* prefer_max put y's value in the place of x's. *)
Raises(x, y, s) ==
  /\ s.t = x.t /\ s.v = y.v /\ y.v > x.v
  /\ x.t - y.t <= antiAffinityBuffer /\ y.t - x.t <= antiAffinityBuffer

FromA(s) ==
  \/ s \in Range(a)
  \/ preferMax /\ \E x \in Range(a), y \in Range(b) : Raises(x, y, s)

FromB(s) == s \in Range(b) /\ Far(s.t, a)

(* Every merged sample is one of a, perhaps with b's value, or one of b    *)
(* far from a.                                                             *)
Explained == Merged => \A s \in Range(newValues) : FromA(s) \/ FromB(s)

(* No sample of a is lost. *)
ATaken == Merged => \A k \in 1..(aOffset - 1) : a[k].t \in Times(newValues)

(* A sample of b far from a that was passed, by the offset or by the       *)
(* merged stream, was merged.                                              *)
BDecided ==
  Merged =>
    \A j \in 1..Len(b) :
      ( /\ Far(b[j].t, a)
        /\ \/ j < bOffset
           \/ newValues # <<>> /\ b[j].t <= Last(newValues).t )
      => b[j] \in Range(newValues)

(* The buffer is the configured one or, where the longer stream has enough *)
(* gaps, half their median.                                                *)
BufferChosen ==
  /\ pc = "start" => antiAffinityBuffer = call.buffer
  /\ ~dynamic => antiAffinityBuffer = call.buffer
  /\ (pc # "start" /\ dynamic /\ Len(a) > MinDynamicGaps) =>
       antiAffinityBuffer = HalfMedian(Gaps("long", a))

(* The samples of the replicas so far have one of the streams in hand near *)
(* them.                                                                   *)
CoveredInHand ==
  (pc # "done" /\ ~dynamic) =>
    \A r \in 1..replica : \A s \in Range(call.replicas[r]) :
      \E t \in Times(a) \cup Times(b) : Near(s.t, t, replica - 2)

MergeInvariant ==
  /\ TypeOK /\ Positions
  /\ LoadingBefore /\ BeforeLoaded /\ LastMerged
  /\ Explained /\ ATaken /\ BDecided
  /\ BufferChosen
  /\ CoveredInHand /\ EveryReplicaCovered

---------------------------------------------------------------------------
(* Streams.                                                                *)

(* A stream by its positions. *)
LEMMA StreamFacts ==
  ASSUME NEW s \in Streams
  PROVE  /\ Len(s) \in Nat /\ DOMAIN s = 1..Len(s)
         /\ s # <<>> <=> Len(s) > 0
         /\ \A i \in 1..Len(s) : /\ s[i] \in Samples /\ s[i].t \in Int /\ s[i].v \in Int
                                  /\ s[i] \in Range(s) /\ s[i].t \in Times(s)
         /\ \A i, j \in 1..Len(s) : i < j => s[i].t < s[j].t
         /\ \A x \in Range(s) : \E i \in 1..Len(s) : x = s[i]
         /\ \A t \in Times(s) : \E i \in 1..Len(s) : t = s[i].t
<1>1. s \in Seq(Samples) /\ Ordered(s)
  BY DEF Streams
<1>2. Len(s) \in Nat /\ DOMAIN s = 1..Len(s) /\ (s # <<>> <=> Len(s) > 0)
  BY <1>1
<1>3. \A i \in 1..Len(s) : s[i] \in Samples
  BY <1>1
<1>4. \A x \in Samples : x.t \in Int /\ x.v \in Int
  BY DEF Samples
<1> QED
  BY <1>1, <1>2, <1>3, <1>4 DEF Ordered, Range, Times

(* The elements and the times of a stream. *)
LEMMA StreamSets ==
  ASSUME NEW s \in Streams
  PROVE  /\ \A x \in Range(s) : x \in Samples /\ x.t \in Int /\ x.v \in Int /\ x.t \in Times(s)
         /\ \A t \in Times(s) : t \in Int /\ \E x \in Range(s) : x.t = t
BY StreamFacts

(* The last sample of a stream is its latest. *)
LEMMA LastIsLatest ==
  ASSUME NEW s \in Streams, s # <<>>
  PROVE  /\ Last(s) \in Samples /\ Last(s).t \in Int
         /\ Last(s) = s[Len(s)] /\ Last(s) \in Range(s)
         /\ \A x \in Range(s) : x.t <= Last(s).t
<1>1. Len(s) \in 1..Len(s) /\ Last(s) = s[Len(s)]
  BY StreamFacts DEF Last
<1>2. \A i \in 1..Len(s) : s[i].t <= s[Len(s)].t
  <2> SUFFICES ASSUME NEW i \in 1..Len(s)
               PROVE  s[i].t <= s[Len(s)].t
    OBVIOUS
  <2>1. i = Len(s) \/ i < Len(s)
    BY <1>1, StreamFacts
  <2> QED
    BY <1>1, <2>1, StreamFacts
<1> QED
  BY <1>1, <1>2, StreamFacts

(* A later sample at the end of a stream. *)
LEMMA AppendLater ==
  ASSUME NEW s \in Streams, NEW e \in Samples,
         s # <<>> => Last(s).t < e.t
  PROVE  /\ Append(s, e) \in Streams /\ Append(s, e) # <<>>
         /\ Last(Append(s, e)) = e
         /\ Range(Append(s, e)) = Range(s) \cup {e}
         /\ Times(Append(s, e)) = Times(s) \cup {e.t}
<1> DEFINE u == Append(s, e)
<1>1. s \in Seq(Samples) /\ Len(s) \in Nat /\ DOMAIN s = 1..Len(s)
  BY DEF Streams
<1>2. /\ u \in Seq(Samples) /\ Len(u) = Len(s) + 1 /\ DOMAIN u = 1..(Len(s) + 1)
      /\ u[Len(s) + 1] = e
      /\ \A i \in 1..Len(s) : u[i] = s[i]
  BY <1>1
<1> HIDE DEF u
<1>3. u # <<>> /\ Last(u) = e
  BY <1>1, <1>2 DEF Last
<1>4. Range(u) = Range(s) \cup {e}
  <2>1. \A i \in 1..(Len(s) + 1) : i \in 1..Len(s) \/ i = Len(s) + 1
    BY <1>1
  <2>2. 1..Len(s) \subseteq 1..(Len(s) + 1) /\ Len(s) + 1 \in 1..(Len(s) + 1)
    BY <1>1
  <2> QED
    BY <1>1, <1>2, <2>1, <2>2 DEF Range
<1>5. \A z : z \in Streams => Times(z) = {x.t : x \in Range(z)}
  BY DEF Times, Range
<1>6. Ordered(u)
  <2> SUFFICES ASSUME NEW i \in 1..(Len(s) + 1), NEW j \in 1..(Len(s) + 1), i < j
               PROVE  u[i].t < u[j].t
    BY <1>2 DEF Ordered
  <2>1. i \in 1..Len(s)
    BY <1>1
  <2>2. CASE j \in 1..Len(s)
    BY <1>2, <2>1, <2>2, StreamFacts
  <2>3. CASE j = Len(s) + 1
    <3>1. s # <<>>
      BY <1>1, <2>1
    <3>2. s[i].t <= Last(s).t /\ Last(s).t \in Int /\ s[i].t \in Int
      BY <2>1, <3>1, StreamFacts, LastIsLatest
    <3>3. e.t \in Int
      BY DEF Samples
    <3> QED
      BY <1>2, <2>1, <2>3, <3>1, <3>2, <3>3
  <2> QED
    BY <1>1, <2>2, <2>3
<1>7. u \in Streams
  BY <1>2, <1>6 DEF Streams
<1>8. Times(u) = Times(s) \cup {e.t}
  BY <1>4, <1>5, <1>7
<1> QED
  BY <1>3, <1>4, <1>7, <1>8 DEF u

---------------------------------------------------------------------------
(* The loops.  Their steps leave the streams and the buffer alone.         *)

LEMMA InputKept ==
  ASSUME UNCHANGED input
  PROVE  /\ \A s : /\ Early(s)' <=> Early(s)
                   /\ FromA(s)' <=> FromA(s)
                   /\ FromB(s)' <=> FromB(s)
         /\ \A t : Far(t, a)' <=> Far(t, a)
         /\ Range(b)' = Range(b) /\ Range(a)' = Range(a)
         /\ Times(a)' = Times(a) /\ Times(b)' = Times(b)
BY DEF input, Early, FromA, FromB, Raises, Far, preferMax, Range, Times

(* What the fold over the replicas needs does not change within a merge. *)
LEMMA FoldKept ==
  ASSUME MergeInvariant, UNCHANGED input, pc \notin {"start", "done"}, pc' \notin {"start", "done"}
  PROVE  (BufferChosen /\ CoveredInHand /\ EveryReplicaCovered)'
<1>1. BufferChosen'
  BY DEF MergeInvariant, BufferChosen, input, dynamic
<1>2. CoveredInHand'
  BY DEF MergeInvariant, CoveredInHand, input, dynamic, Range, Times, Near
<1>3. EveryReplicaCovered'
  BY DEF EveryReplicaCovered
<1> QED
  BY <1>1, <1>2, <1>3

LEMMA LoadBeforeStep ==
  ASSUME MergeInvariant, LoadBefore
  PROVE  MergeInvariant'
<1> USE DEF MergeInvariant
<1> DEFINE x == b[bOffset]
           early == x.t < a[1].t - antiAffinityBuffer
           more == early /\ bOffset < Len(b)
<1>0. /\ UNCHANGED input /\ UNCHANGED <<call, replica, a, b, antiAffinityBuffer, aOffset, lastTime>>
      /\ pc = "before" /\ pc' = IF more THEN "before" ELSE "during"
      /\ newValues' = IF early THEN Append(newValues, x) ELSE newValues
      /\ bOffset' = IF more THEN bOffset + 1 ELSE bOffset
      /\ lastOffset' = bOffset'
  BY DEF LoadBefore, input
<1>1. /\ a \in Streams /\ b \in Streams /\ newValues \in Streams
      /\ a # <<>> /\ b # <<>> /\ aOffset = 1
      /\ bOffset \in 1..Len(b) /\ antiAffinityBuffer \in Nat
      /\ Len(a) \in Nat \ {0} /\ Len(b) \in Nat \ {0}
      /\ x \in Samples /\ x.t \in Int /\ a[1].t \in Int
  BY <1>0, StreamFacts DEF TypeOK, Positions
<1>2. /\ Range(newValues) = {b[j] : j \in 1..(bOffset - 1)}
      /\ newValues # <<>> => bOffset > 1 /\ Last(newValues) = b[bOffset - 1]
      /\ \A j \in 1..(bOffset - 1) : Early(b[j])
  BY <1>0 DEF LoadingBefore
<1>3. newValues # <<>> => Last(newValues).t < x.t
  <2>1. newValues # <<>> => bOffset - 1 \in 1..Len(b) /\ bOffset - 1 < bOffset
    BY <1>1, <1>2
  <2>2. \A i, j \in 1..Len(b) : i < j => b[i].t < b[j].t
    BY <1>1, StreamFacts
  <2> QED
    BY <1>1, <1>2, <2>1, <2>2
<1>4. early <=> Early(x)
  BY DEF Early
<1> HIDE DEF x, early
<1>5. early => /\ newValues' \in Streams /\ newValues' # <<>> /\ Last(newValues') = x
               /\ Range(newValues') = Range(newValues) \cup {x}
  BY <1>0, <1>1, <1>3, AppendLater
<1>6. TypeOK'
  BY <1>0, <1>1, <1>5 DEF TypeOK
<1>7. Positions'
  BY <1>0, <1>1, <1>5 DEF Positions
<1>8. LoadingBefore'
  <2> SUFFICES ASSUME more
               PROVE  /\ Range(newValues') = {b[j] : j \in 1..(bOffset' - 1)}
                      /\ bOffset' > 1 /\ Last(newValues') = b[bOffset' - 1]
                      /\ \A j \in 1..(bOffset' - 1) : Early(b[j])
    BY <1>0, InputKept DEF LoadingBefore
  <2>1. bOffset' - 1 = bOffset /\ bOffset' > 1
    BY <1>0, <1>1
  <2>2. \A j \in 1..bOffset : j \in 1..(bOffset - 1) \/ j = bOffset
    BY <1>1
  <2>3. 1..(bOffset - 1) \subseteq 1..bOffset /\ bOffset \in 1..bOffset
    BY <1>1
  <2> QED
    BY <1>2, <1>4, <1>5, <2>1, <2>2, <2>3 DEF x
<1>9. pc' = "during" =>
        /\ \A s \in Range(newValues') : s \in Range(b) /\ Early(s)
        /\ \A j \in 1..Len(b) : Early(b[j]) => b[j] \in Range(newValues')
  <2> SUFFICES ASSUME ~more
               PROVE  /\ \A s \in Range(newValues') : s \in Range(b) /\ Early(s)
                      /\ \A j \in 1..Len(b) : Early(b[j]) => b[j] \in Range(newValues')
    BY <1>0
  <2>1. \A j \in 1..(bOffset - 1) : j \in 1..Len(b)
    BY <1>1
  <2>2. \A s \in Range(newValues) : s \in Range(b) /\ Early(s)
    BY <1>1, <1>2, <2>1, StreamFacts
  <2>3. x \in Range(b)
    BY <1>1, StreamFacts DEF x
  <2>4. CASE early
    <3>1. bOffset = Len(b)
      BY <1>1, <2>4
    <3>2. \A j \in 1..Len(b) : j \in 1..(bOffset - 1) \/ j = bOffset
      BY <1>1, <3>1
    <3> QED
      BY <1>2, <1>4, <1>5, <2>2, <2>3, <2>4, <3>2 DEF x
  <2>5. CASE ~early
    <3>1. newValues' = newValues
      BY <1>0, <2>5
    <3>2. \A j \in 1..Len(b) : j \in 1..(bOffset - 1) \/ j = bOffset \/ bOffset < j
      BY <1>1
    <3>3. \A j \in 1..Len(b) : bOffset < j => ~Early(b[j])
      <4> SUFFICES ASSUME NEW j \in 1..Len(b), bOffset < j
                   PROVE  ~Early(b[j])
        OBVIOUS
      <4>1. b[bOffset].t < b[j].t /\ b[bOffset].t \in Int /\ b[j].t \in Int
        BY <1>1, StreamFacts
      <4>2. ~(b[bOffset].t < a[1].t - antiAffinityBuffer)
        BY <2>5 DEF early, x
      <4>3. a[1].t - antiAffinityBuffer \in Int
        BY <1>1, StreamFacts
      <4>4. ~(b[j].t < a[1].t - antiAffinityBuffer)
        BY <4>1, <4>2, <4>3
      <4> QED
        BY <4>4 DEF Early
    <3> QED
      BY <1>2, <1>4, <2>2, <2>5, <3>1, <3>2, <3>3 DEF x
  <2> QED
    BY <2>4, <2>5
<1>10. BeforeLoaded'
  <2>1. pc' = "during" => \A s \in Range(b) : Early(s) => s \in Range(newValues')
    BY <1>1, <1>9, StreamFacts
  <2> QED
    BY <1>0, <1>9, <2>1, InputKept DEF BeforeLoaded
<1>11. LastMerged'
  BY <1>0, <1>1 DEF LastMerged
<1>12. \A s \in Samples : Early(s) => Far(s.t, a)
  <2> SUFFICES ASSUME NEW s \in Samples, Early(s), NEW u \in Times(a)
               PROVE  u - s.t > antiAffinityBuffer
    BY DEF Far
  <2>1. PICK i \in 1..Len(a) : u = a[i].t
    BY <1>1, StreamFacts
  <2>2. a[1].t <= a[i].t /\ a[i].t \in Int
    <3>1. 1 \in 1..Len(a) /\ (i = 1 \/ 1 < i)
      BY <1>1
    <3> QED
      BY <1>1, <3>1, StreamFacts
  <2>3. s.t \in Int
    BY DEF Samples
  <2> QED
    BY <1>1, <2>1, <2>2, <2>3 DEF Early
<1>13. Explained'
  <2> SUFFICES ASSUME pc' = "during", NEW s \in Range(newValues')
               PROVE  FromB(s)
    BY <1>0, InputKept DEF Explained, Merged
  <2> QED
    BY <1>1, <1>9, <1>12, StreamSets DEF FromB
<1>14. ATaken'
  BY <1>0, <1>1 DEF ATaken, Merged
<1>15. BDecided'
  <2> SUFFICES ASSUME pc' = "during", NEW j \in 1..Len(b),
                      \/ j < bOffset'
                      \/ newValues' # <<>> /\ b[j].t <= Last(newValues').t
               PROVE  b[j] \in Range(newValues')
    BY <1>0, InputKept DEF BDecided, Merged
  <2>1. j < bOffset' => Early(b[j])
    BY <1>0, <1>1, <1>2
  <2>2. (newValues' # <<>> /\ b[j].t <= Last(newValues').t) => Early(b[j])
    <3> SUFFICES ASSUME newValues' # <<>>, b[j].t <= Last(newValues').t
                 PROVE  Early(b[j])
      OBVIOUS
    <3>1. newValues' \in Streams
      BY <1>6 DEF TypeOK
    <3>2. Early(Last(newValues')) /\ Last(newValues').t \in Int
      BY <1>9, <3>1, LastIsLatest
    <3>3. b[j].t \in Int
      BY <1>1, StreamFacts
    <3> QED
      BY <1>1, <3>2, <3>3 DEF Early
  <2> QED
    BY <1>9, <2>1, <2>2
<1> QED
  BY <1>0, <1>6, <1>7, <1>8, <1>10, <1>11, <1>13, <1>14, <1>15, FoldKept
(* The streams in hand, by their positions. *)
LEMMA InHand ==
  ASSUME MergeInvariant
  PROVE  /\ a \in Streams /\ b \in Streams /\ newValues \in Streams
         /\ Len(a) \in Nat /\ Len(b) \in Nat /\ antiAffinityBuffer \in Nat
         /\ aOffset \in Nat /\ bOffset \in Nat /\ lastTime \in Int
         /\ a # <<>> <=> Len(a) > 0
         /\ \A i \in 1..Len(a) : /\ a[i] \in Samples /\ a[i].t \in Int /\ a[i].v \in Int
                                  /\ a[i] \in Range(a) /\ a[i].t \in Times(a)
         /\ \A i \in 1..Len(b) : /\ b[i] \in Samples /\ b[i].t \in Int /\ b[i].v \in Int
                                  /\ b[i] \in Range(b)
         /\ \A i, j \in 1..Len(a) : i < j => a[i].t < a[j].t
         /\ \A i, j \in 1..Len(b) : i < j => b[i].t < b[j].t
         /\ newValues # <<>> => Last(newValues).t \in Int /\ Last(newValues) \in Range(newValues)
BY StreamFacts, LastIsLatest DEF MergeInvariant, TypeOK

LEMMA BufferIsNat == ASSUME MergeInvariant PROVE antiAffinityBuffer \in Nat
BY InHand

(* A time that is far from a is far from each of its samples. *)
LEMMA FarFromEach ==
  ASSUME MergeInvariant, NEW t, Far(t, a), NEW k \in 1..Len(a)
  PROVE  t - a[k].t > antiAffinityBuffer \/ a[k].t - t > antiAffinityBuffer
BY InHand DEF Far

(* A time is far from a if it is far from its two neighbours in a. *)
LEMMA FarFromNeighbours ==
  ASSUME MergeInvariant, NEW t \in Int, NEW k \in 0..Len(a),
         k > 0 => t > a[k].t + antiAffinityBuffer,
         k < Len(a) => t < a[k + 1].t - antiAffinityBuffer
  PROVE  Far(t, a)
<1> SUFFICES ASSUME NEW i \in 1..Len(a)
             PROVE  t - a[i].t > antiAffinityBuffer \/ a[i].t - t > antiAffinityBuffer
  BY InHand, StreamFacts DEF Far
<1>1. CASE i <= k
  <2>1. k \in 1..Len(a) /\ (i = k \/ i < k)
    BY <1>1, InHand
  <2>2. a[i].t <= a[k].t /\ a[i].t \in Int /\ a[k].t \in Int
    BY <2>1, InHand
  <2>3. t > a[k].t + antiAffinityBuffer
    BY <2>1
  <2> QED
    BY <2>2, <2>3, BufferIsNat
<1>2. CASE k < i
  <2>1. k + 1 \in 1..Len(a) /\ (i = k + 1 \/ k + 1 < i) /\ k < Len(a)
    BY <1>2, InHand
  <2>2. a[k + 1].t <= a[i].t /\ a[i].t \in Int /\ a[k + 1].t \in Int
    <3>1. a[i].t \in Int /\ a[k + 1].t \in Int
      BY <2>1, InHand
    <3>2. k + 1 < i => a[k + 1].t < a[i].t
      BY <2>1, InHand
    <3> QED
      BY <2>1, <3>1, <3>2
  <2>3. t < a[k + 1].t - antiAffinityBuffer /\ antiAffinityBuffer \in Nat
    BY <2>1, InHand
  <2> QED
    BY <2>2, <2>3
<1> QED
  BY <1>1, <1>2

LEMMA TakeFirstStep ==
  ASSUME MergeInvariant, TakeFirst
  PROVE  MergeInvariant'
<1> USE DEF MergeInvariant
<1>0. /\ UNCHANGED input /\ UNCHANGED <<call, replica, a, b, antiAffinityBuffer, bOffset, lastOffset, lastTime>>
      /\ pc = "during" /\ pc' = "during"
      /\ newValues = <<>> /\ newValues' = <<a[aOffset]>> /\ aOffset' = aOffset + 1
      /\ aOffset <= Len(a)
  BY DEF TakeFirst, input
<1>1. aOffset = 1 /\ a # <<>> /\ b # <<>> /\ 1 \in 1..Len(a)
  BY <1>0, InHand DEF LastMerged, Positions, TypeOK
<1>2. newValues' = Append(newValues, a[1])
  BY <1>0, <1>1
<1>3. /\ newValues' \in Streams /\ newValues' # <<>> /\ Last(newValues') = a[1]
      /\ Range(newValues') = Range(newValues) \cup {a[1]}
      /\ Times(newValues') = Times(newValues) \cup {a[1].t}
  <2>1. newValues \in Streams /\ a[1] \in Samples
    BY <1>1, InHand
  <2>2. newValues = <<>>
    BY <1>0
  <2>3. newValues # <<>> => Last(newValues).t < a[1].t
    BY <2>2
  <2> HIDE DEF MergeInvariant
  <2>4. /\ Append(newValues, a[1]) \in Streams /\ Append(newValues, a[1]) # <<>>
        /\ Last(Append(newValues, a[1])) = a[1]
        /\ Range(Append(newValues, a[1])) = Range(newValues) \cup {a[1]}
        /\ Times(Append(newValues, a[1])) = Times(newValues) \cup {a[1].t}
    BY <2>1, <2>3, AppendLater
  <2>5. Range(newValues') = Range(Append(newValues, a[1]))
    BY <1>2
  <2>6. Times(newValues') = Times(Append(newValues, a[1]))
    BY <1>2
  <2> QED
    BY <1>2, <2>4, <2>5, <2>6
<1>4. Range(newValues) = {}
  BY <1>0 DEF Range
<1>5. TypeOK'
  BY <1>0, <1>1, <1>3, InHand DEF TypeOK
<1>6. Positions' /\ LoadingBefore' /\ BeforeLoaded'
  BY <1>0, <1>1 DEF Positions, LoadingBefore, BeforeLoaded
<1>7. LastMerged'
  BY <1>0, <1>1, <1>3 DEF LastMerged
<1>8. Explained'
  BY <1>0, <1>1, <1>3, <1>4, InHand, InputKept DEF Explained, Merged, FromA
<1>9. ATaken'
  BY <1>0, <1>1, <1>3 DEF ATaken, Merged
<1>10. BDecided'
  <2> SUFFICES ASSUME NEW j \in 1..Len(b), Far(b[j].t, a),
                      j < bOffset \/ b[j].t <= a[1].t
               PROVE  FALSE
    BY <1>0, <1>3, InputKept DEF BDecided, Merged
  <2>1. ~(j < bOffset)
    BY <1>0, <1>1, <1>4 DEF BDecided, Merged
  <2>2. b[j].t - a[1].t > antiAffinityBuffer \/ a[1].t - b[j].t > antiAffinityBuffer
    BY <1>1, FarFromEach
  <2>3. Early(b[j])
    BY <1>1, <2>1, <2>2, InHand DEF Early
  <2> QED
    BY <1>0, <1>1, <1>4, <2>3, InHand DEF BeforeLoaded
<1> QED
  BY <1>0, <1>5, <1>6, <1>7, <1>8, <1>9, <1>10, FoldKept

LEMMA LookAtGapStep ==
  ASSUME MergeInvariant, LookAtGap
  PROVE  MergeInvariant'
<1> USE DEF MergeInvariant
<1>0. /\ UNCHANGED input
      /\ UNCHANGED <<call, replica, a, b, antiAffinityBuffer, aOffset, bOffset, lastOffset, newValues>>
      /\ pc = "during" /\ aOffset <= Len(a) /\ newValues # <<>>
      /\ lastTime' = Last(newValues).t
      /\ pc' = IF a[aOffset].t - lastTime' > antiAffinityBuffer * 2 THEN "fill" ELSE "take"
  BY DEF LookAtGap, input
<1>1. a # <<>> /\ b # <<>> /\ aOffset \in 1..Len(a) /\ 1 \in 1..Len(a)
  BY <1>0, InHand DEF Positions, TypeOK
<1>2. TypeOK'
  BY <1>0, InHand DEF TypeOK
<1>3. Positions' /\ LoadingBefore'
  BY <1>0, <1>1 DEF Positions, LoadingBefore
<1>4. BeforeLoaded'
  BY <1>0, InputKept DEF BeforeLoaded
<1>5. Last(newValues).t < a[aOffset].t
  <2>1. CASE aOffset = 1
    BY <1>0, <1>1, <2>1, InHand DEF BeforeLoaded, Early
  <2>2. CASE aOffset # 1
    <3>1. aOffset - 1 \in 1..Len(a) /\ aOffset - 1 < aOffset /\ aOffset > 1
      BY <1>1, <2>2
    <3> QED
      BY <1>0, <1>1, <3>1, InHand DEF LastMerged
  <2> QED
    BY <2>1, <2>2
<1>6. LastMerged'
  <2>1. aOffset > 1 => lastTime' = a[aOffset - 1].t
    BY <1>0 DEF LastMerged
  <2>2. pc' = "take" => a[aOffset].t - lastTime' <= antiAffinityBuffer * 2
    <3>1. a[aOffset].t \in Int /\ lastTime' \in Int
      BY <1>0, <1>1, InHand
    <3> QED
      BY <1>0, <3>1, BufferIsNat
  <2> QED
    BY <1>0, <1>5, <2>1, <2>2 DEF LastMerged
<1>7. Explained'
  BY <1>0, <1>1, InputKept DEF Explained, Merged
<1>8. ATaken'
  BY <1>0, <1>1 DEF ATaken, Merged
<1>9. BDecided'
  BY <1>0, <1>1, InputKept DEF BDecided, Merged
<1> QED
  BY <1>0, <1>2, <1>3, <1>4, <1>6, <1>7, <1>8, <1>9, FoldKept

LEMMA FillGapStep ==
  ASSUME MergeInvariant, FillGap
  PROVE  MergeInvariant'
<1> USE DEF MergeInvariant
<1> DEFINE x == b[bOffset]
<1>0. /\ UNCHANGED input
      /\ UNCHANGED <<call, replica, a, b, antiAffinityBuffer, pc, aOffset, lastOffset, lastTime>>
      /\ pc = "fill" /\ bOffset <= Len(b) /\ x.t < a[aOffset].t
      /\ newValues' = IF Fits(x, a[aOffset].t) THEN Append(newValues, x) ELSE newValues
      /\ bOffset' = bOffset + 1
  BY DEF FillGap, Ahead, input
<1>1. /\ a # <<>> /\ b # <<>> /\ aOffset \in 1..Len(a) /\ 1 \in 1..Len(a)
      /\ bOffset \in 1..Len(b) /\ newValues # <<>>
  BY <1>0, InHand DEF Positions, TypeOK
<1>2. x \in Samples /\ x.t \in Int /\ x \in Range(b)
  BY <1>1, InHand
<1>3. aOffset > 1 => aOffset - 1 \in 1..Len(a) /\ lastTime = a[aOffset - 1].t
  BY <1>0, <1>1 DEF LastMerged
<1>4. Fits(x, a[aOffset].t) =>
        Last(newValues).t < x.t /\ lastTime < x.t /\ x.t < a[aOffset].t /\ Far(x.t, a)
  <2> SUFFICES ASSUME Fits(x, a[aOffset].t)
               PROVE  Last(newValues).t < x.t /\ lastTime < x.t /\ x.t < a[aOffset].t /\ Far(x.t, a)
    OBVIOUS
  <2>1. x.t > lastTime + antiAffinityBuffer /\ x.t < a[aOffset].t - antiAffinityBuffer
    BY DEF Fits
  <2>2. lastTime < x.t /\ x.t < a[aOffset].t
    BY <1>1, <1>2, <2>1, InHand
  <2>3. Last(newValues).t = lastTime \/ Last(newValues).t < x.t
    BY <1>0, <1>1 DEF LastMerged
  <2>4. Far(x.t, a)
    <3>1. /\ aOffset - 1 \in 0..Len(a) /\ aOffset - 1 + 1 = aOffset
          /\ aOffset - 1 > 0 => lastTime = a[aOffset - 1].t
      BY <1>1, <1>3
    <3> QED
      BY <1>2, <2>1, <3>1, FarFromNeighbours
  <2> QED
    BY <2>2, <2>3, <2>4
<1>5. ~Fits(x, a[aOffset].t) /\ Far(x.t, a) => x \in Range(newValues)
  <2> SUFFICES ASSUME ~Fits(x, a[aOffset].t), Far(x.t, a)
               PROVE  x \in Range(newValues)
    OBVIOUS
  <2>0. x.t - a[aOffset].t > antiAffinityBuffer \/ a[aOffset].t - x.t > antiAffinityBuffer
    BY <1>1, FarFromEach
  <2>1. x.t < a[aOffset].t - antiAffinityBuffer
    <3>1. a[aOffset].t \in Int
      BY <1>1, InHand
    <3>2. x.t < a[aOffset].t
      BY <1>0
    <3> HIDE DEF x
    <3> QED
      BY <1>2, <2>0, <3>1, <3>2, BufferIsNat
  <2>2. x.t <= lastTime + antiAffinityBuffer
    BY <1>2, <2>1, InHand DEF Fits
  <2>3. CASE aOffset = 1
    BY <1>0, <1>2, <2>1, <2>3 DEF BeforeLoaded, Early
  <2>4. CASE aOffset > 1
    <3>1. x.t < lastTime
      <4>1. x.t - lastTime > antiAffinityBuffer \/ lastTime - x.t > antiAffinityBuffer
        BY <1>3, <2>4, FarFromEach
      <4>2. lastTime \in Int
        BY InHand
      <4> HIDE DEF x
      <4> QED
        BY <1>2, <2>2, <4>1, <4>2, BufferIsNat
    <3>2. lastTime <= Last(newValues).t
      BY <1>0, <1>1, InHand DEF LastMerged
    <3>3. x.t <= Last(newValues).t
      BY <1>1, <1>2, <3>1, <3>2, InHand
    <3> QED
      BY <1>0, <1>1, <3>3 DEF BDecided, Merged
  <2> QED
    BY <1>1, <2>3, <2>4
<1> HIDE DEF x
<1>6. Fits(x, a[aOffset].t) =>
        /\ newValues' \in Streams /\ newValues' # <<>> /\ Last(newValues') = x
        /\ Range(newValues') = Range(newValues) \cup {x}
        /\ Times(newValues') = Times(newValues) \cup {x.t}
  BY <1>0, <1>2, <1>4, InHand, AppendLater
<1>7. /\ newValues' \in Streams /\ newValues' # <<>>
      /\ Range(newValues) \subseteq Range(newValues')
      /\ Times(newValues) \subseteq Times(newValues')
  BY <1>0, <1>1, <1>6, InHand
<1>8. TypeOK'
  BY <1>0, <1>1, <1>7, InHand DEF TypeOK
<1>9. Positions' /\ LoadingBefore'
  BY <1>0, <1>1, <1>7 DEF Positions, LoadingBefore
<1>10. aOffset = 1 => ~Fits(x, a[aOffset].t)
  <2> SUFFICES ASSUME aOffset = 1, Fits(x, a[aOffset].t)
               PROVE  FALSE
    OBVIOUS
  <2>1. Early(x)
    BY DEF Fits, Early
  <2>2. x \in Range(newValues)
    BY <1>0, <1>2, <2>1 DEF BeforeLoaded
  <2>3. x.t <= Last(newValues).t
    BY <1>1, <2>2, InHand, LastIsLatest
  <2> QED
    BY <1>1, <1>2, <1>4, <2>3, InHand
<1>11. BeforeLoaded'
  BY <1>0, <1>10, InputKept DEF BeforeLoaded
<1>12. \A j \in (bOffset + 1)..Len(b) : j \in 1..Len(b) /\ j \in bOffset..Len(b) /\ x.t < b[j].t
  BY <1>1, InHand DEF x
<1>13. LastMerged'
  <2>1. Last(newValues').t < a[aOffset].t
    BY <1>0, <1>4, <1>6 DEF LastMerged
  <2>2. aOffset = 1 => lastTime = Last(newValues').t
    BY <1>0, <1>10 DEF LastMerged
  <2>3. \/ Last(newValues').t = lastTime
        \/ /\ lastTime < Last(newValues').t
           /\ \A j \in (bOffset + 1)..Len(b) : Last(newValues').t < b[j].t
    <3>1. CASE Fits(x, a[aOffset].t)
      BY <1>4, <1>6, <1>12, <3>1
    <3>2. CASE ~Fits(x, a[aOffset].t)
      BY <1>0, <1>12, <3>2 DEF LastMerged
    <3> QED
      BY <3>1, <3>2
  <2> QED
    BY <1>0, <1>3, <2>1, <2>2, <2>3 DEF LastMerged
<1>14. Explained'
  <2> SUFFICES ASSUME NEW s \in Range(newValues')
               PROVE  FromA(s) \/ FromB(s)
    BY <1>0, InputKept DEF Explained, Merged
  <2>1. CASE s \in Range(newValues)
    BY <1>0, <1>1, <2>1 DEF Explained, Merged
  <2>2. CASE s \notin Range(newValues)
    BY <1>0, <1>2, <1>4, <1>6, <2>2 DEF FromB
  <2> QED
    BY <2>1, <2>2
<1>15. ATaken'
  BY <1>0, <1>1, <1>7 DEF ATaken, Merged
<1>16. BDecided'
  <2> SUFFICES ASSUME NEW j \in 1..Len(b), Far(b[j].t, a),
                      j < bOffset + 1 \/ b[j].t <= Last(newValues').t
               PROVE  b[j] \in Range(newValues')
    BY <1>0, InputKept DEF BDecided, Merged
  <2>1. CASE j < bOffset
    BY <1>0, <1>1, <1>7, <2>1 DEF BDecided, Merged
  <2>2. CASE j = bOffset
    BY <1>5, <1>6, <1>7, <2>2 DEF x
  <2>3. CASE j > bOffset
    <3>1. b[j].t <= Last(newValues').t /\ x.t < b[j].t
      BY <1>1, <1>12, <2>3, InHand
    <3>2. ~Fits(x, a[aOffset].t)
      BY <1>2, <1>6, <3>1, InHand
    <3> QED
      BY <1>0, <1>1, <3>1, <3>2 DEF BDecided, Merged
  <2> QED
    BY <1>1, <2>1, <2>2, <2>3, InHand
<1> QED
  BY <1>0, <1>8, <1>9, <1>11, <1>13, <1>14, <1>15, <1>16, FoldKept
(* A set of natural numbers has a least element, which is its Min. *)
LEMMA MinIsLeast ==
  ASSUME NEW T \in SUBSET Nat, T # {}
  PROVE  Min(T) \in T /\ \A n \in T : Min(T) <= n
<1> DEFINE R == OpToRel(<, Nat)
<1>1. \E x \in T : \A y \in T : ~(<<y, x>> \in R)
  BY WFMin, NatLessThanWellFounded
<1>2. \A x, y \in Nat : <<y, x>> \in R <=> y < x
  BY DEF OpToRel
<1> HIDE DEF R
<1>3. PICK x \in T : \A y \in T : ~(<<y, x>> \in R)
  BY <1>1
<1>4. \A y \in T : ~(y < x)
  BY <1>2, <1>3
<1>5. \A y \in T : x <= y
  BY <1>4
<1> QED
  BY <1>5 DEF Min

LEMMA TakeNextStep ==
  ASSUME MergeInvariant, TakeNext
  PROVE  MergeInvariant'
<1> USE DEF MergeInvariant
<1> DEFINE x == a[aOffset]
           rival == Min(Rivals(x))
           y == IF preferMax /\ Rivals(x) # {} THEN Prefer(x, b[rival]) ELSE x
<1>0. /\ UNCHANGED input
      /\ UNCHANGED <<call, replica, a, b, antiAffinityBuffer, bOffset, lastTime>>
      /\ pc = "take" \/ (pc = "fill" /\ (bOffset > Len(b) \/ b[bOffset].t >= x.t))
      /\ pc' = "during" /\ aOffset' = aOffset + 1
      /\ newValues' = Append(newValues, y)
      /\ lastOffset' = IF preferMax /\ Rivals(x) # {} THEN rival ELSE lastOffset
  <2>1. pc = "fill" /\ ~Ahead(x.t) => bOffset > Len(b) \/ b[bOffset].t >= x.t
    <3>1. pc = "fill" => aOffset \in 1..Len(a) /\ bOffset \in Nat /\ Len(b) \in Nat
      BY InHand DEF TypeOK, Positions
    <3>2. bOffset <= Len(b) => bOffset \in 1..Len(b)
      BY InHand DEF TypeOK
    <3> QED
      BY <3>1, <3>2, InHand DEF Ahead
  <2> QED
    BY <2>1 DEF TakeNext, input
<1>1. /\ a # <<>> /\ b # <<>> /\ aOffset \in 1..Len(a) /\ 1 \in 1..Len(a)
      /\ newValues # <<>> /\ pc \in {"take", "fill"}
  BY <1>0, InHand DEF Positions, TypeOK
<1>2. /\ x \in Samples /\ x.t \in Int /\ x.v \in Int /\ x \in Range(a)
      /\ Last(newValues).t < x.t
  BY <1>0, <1>1, InHand DEF LastMerged
<1>3. Rivals(x) # {} => /\ rival \in 1..Len(b)
                        /\ x.t - b[rival].t <= antiAffinityBuffer
                        /\ b[rival].t - x.t <= antiAffinityBuffer
  <2> SUFFICES ASSUME Rivals(x) # {}
               PROVE  /\ rival \in 1..Len(b)
                      /\ x.t - b[rival].t <= antiAffinityBuffer
                      /\ b[rival].t - x.t <= antiAffinityBuffer
    OBVIOUS
  <2>1. lastOffset \in Nat \ {0}
    BY InHand DEF TypeOK
  <2>2. Rivals(x) \in SUBSET Nat
    BY <2>1 DEF Rivals
  <2>3. rival \in Rivals(x)
    BY <2>2, MinIsLeast
  <2> HIDE DEF rival, x
  <2>4. /\ rival \in 1..Len(b)
        /\ \/ b[rival].t = x.t
           \/ b[rival].t > x.t - antiAffinityBuffer /\ b[rival].t < x.t + antiAffinityBuffer
    BY <2>1, <2>3, InHand DEF Rivals
  <2>5. b[rival].t \in Int
    BY <2>4, InHand
  <2> QED
    BY <1>2, <2>4, <2>5, BufferIsNat
<1> HIDE DEF rival, x
<1>4. y \in Samples /\ y.t = x.t /\ FromA(y)
  <2>1. CASE preferMax /\ Rivals(x) # {} /\ b[rival].v > x.v
    <3>1. y = [t |-> x.t, v |-> b[rival].v]
      BY <2>1 DEF Prefer
    <3>2. b[rival] \in Range(b) /\ b[rival].v \in Int
      BY <1>3, <2>1, InHand
    <3>3. y \in Samples /\ y.t = x.t /\ y.v = b[rival].v
      BY <1>2, <3>1, <3>2 DEF Samples
    <3>4. Raises(x, b[rival], y)
      BY <1>3, <2>1, <3>3 DEF Raises
    <3> QED
      BY <1>2, <2>1, <3>2, <3>3, <3>4 DEF FromA
  <2>2. CASE ~(preferMax /\ Rivals(x) # {} /\ b[rival].v > x.v)
    BY <1>2, <2>2 DEF Prefer, FromA
  <2> QED
    BY <2>1, <2>2
<1> HIDE DEF y
<1>5. /\ newValues' \in Streams /\ newValues' # <<>> /\ Last(newValues') = y
      /\ Range(newValues') = Range(newValues) \cup {y}
      /\ Times(newValues') = Times(newValues) \cup {x.t}
  BY <1>0, <1>2, <1>4, InHand, AppendLater
<1>6. TypeOK'
  <2>1. lastOffset' \in 1..(Len(b) + 1)
    BY <1>0, <1>3, InHand DEF TypeOK
  <2>2. aOffset' \in 1..(Len(a) + 1)
    BY <1>0, <1>1, InHand
  <2> QED
    BY <1>0, <1>5, <2>1, <2>2 DEF TypeOK
<1>7. aOffset' > 1 /\ aOffset' - 1 = aOffset
  BY <1>0, <1>1
<1>8. Positions' /\ LoadingBefore' /\ BeforeLoaded'
  BY <1>0, <1>1, <1>7 DEF Positions, LoadingBefore, BeforeLoaded
<1>9. LastMerged'
  BY <1>0, <1>4, <1>5, <1>7 DEF LastMerged, x
<1>10. Explained'
  BY <1>0, <1>1, <1>4, <1>5, InputKept DEF Explained, Merged
<1>11. ATaken'
  <2>1. \A k \in 1..aOffset : k \in 1..(aOffset - 1) \/ k = aOffset
    BY <1>1
  <2> QED
    BY <1>0, <1>1, <1>5, <1>7, <2>1 DEF ATaken, Merged, x
<1>12. BDecided'
  <2> SUFFICES ASSUME NEW j \in 1..Len(b), Far(b[j].t, a),
                      j < bOffset \/ b[j].t <= x.t
               PROVE  b[j] \in Range(newValues)
    BY <1>0, <1>4, <1>5, InputKept DEF BDecided, Merged
  <2> SUFFICES ASSUME ~(j < bOffset), ~(b[j].t <= Last(newValues).t)
               PROVE  b[j] \in Range(newValues)
    BY <1>1 DEF BDecided, Merged
  <2>1. /\ j \in bOffset..Len(b) /\ b[j].t \in Int /\ b[j] \in Range(b)
        /\ Last(newValues).t < b[j].t
    BY <1>1, InHand
  <2>2. b[j].t - x.t > antiAffinityBuffer \/ x.t - b[j].t > antiAffinityBuffer
    BY <1>1, FarFromEach DEF x
  <2>3. b[j].t < x.t - antiAffinityBuffer /\ b[j].t < x.t
    <3>1. b[j].t <= x.t
      OBVIOUS
    <3> QED
      BY <1>2, <2>1, <2>2, <3>1, BufferIsNat
  <2>4. pc = "take"
    <3> SUFFICES ASSUME pc = "fill", b[bOffset].t >= x.t
                 PROVE  FALSE
      BY <1>0, <2>1, InHand
    <3>1. bOffset \in 1..Len(b) /\ (j = bOffset \/ bOffset < j)
      BY <2>1, InHand DEF TypeOK
    <3>2. b[bOffset].t <= b[j].t /\ b[bOffset].t \in Int
      BY <3>1, InHand
    <3> QED
      BY <1>2, <2>1, <2>3, <3>2
  <2>5. lastTime = Last(newValues).t /\ x.t - lastTime <= antiAffinityBuffer * 2
    BY <2>4 DEF LastMerged, x
  <2>6. CASE aOffset > 1
    <3>1. aOffset - 1 \in 1..Len(a) /\ lastTime = a[aOffset - 1].t
      BY <1>1, <2>4, <2>6 DEF LastMerged
    <3>2. b[j].t - lastTime > antiAffinityBuffer \/ lastTime - b[j].t > antiAffinityBuffer
      BY <3>1, FarFromEach
    <3>3. lastTime \in Int
      BY InHand
    <3>4. lastTime < b[j].t
      BY <2>1, <2>5
    <3>5. b[j].t - lastTime > antiAffinityBuffer
      BY <2>1, <3>2, <3>3, <3>4, BufferIsNat
    <3>6. x.t - b[j].t > antiAffinityBuffer
      BY <1>2, <2>1, <2>3, BufferIsNat
    <3>7. x.t - lastTime > antiAffinityBuffer + antiAffinityBuffer
      BY <1>2, <2>1, <3>3, <3>5, <3>6, BufferIsNat
    <3>8. antiAffinityBuffer * 2 = antiAffinityBuffer + antiAffinityBuffer
      BY BufferIsNat
    <3> QED
      BY <1>2, <2>5, <3>3, <3>7, <3>8, BufferIsNat
  <2>7. CASE aOffset = 1
    BY <2>1, <2>3, <2>4, <2>7 DEF BeforeLoaded, Early, x
  <2> QED
    BY <1>1, <2>6, <2>7
<1> QED
  BY <1>0, <1>1, <1>6, <1>8, <1>9, <1>10, <1>11, <1>12, FoldKept

LEMMA EndOfAStep ==
  ASSUME MergeInvariant, EndOfA
  PROVE  MergeInvariant'
<1> USE DEF MergeInvariant
<1>0. /\ UNCHANGED input
      /\ UNCHANGED <<call, replica, a, b, antiAffinityBuffer, aOffset, bOffset, lastOffset, newValues>>
      /\ pc = "during" /\ aOffset > Len(a) /\ lastTime' = Last(newValues).t /\ pc' = "after"
  BY DEF EndOfA, input
<1>1. a # <<>> /\ b # <<>> /\ aOffset = Len(a) + 1 /\ aOffset > 1
  BY <1>0, InHand DEF Positions, TypeOK
<1>2. newValues # <<>> /\ lastTime' = a[aOffset - 1].t
  BY <1>0, <1>1 DEF LastMerged
<1>3. TypeOK'
  BY <1>0, <1>2, InHand DEF TypeOK
<1>4. Positions' /\ LoadingBefore' /\ BeforeLoaded' /\ LastMerged'
  BY <1>0, <1>1, <1>2 DEF Positions, LoadingBefore, BeforeLoaded, LastMerged
<1>5. Explained' /\ BDecided'
  BY <1>0, <1>1, InputKept DEF Explained, BDecided, Merged
<1>6. ATaken'
  BY <1>0, <1>1 DEF ATaken, Merged
<1> QED
  BY <1>0, <1>3, <1>4, <1>5, <1>6, FoldKept

LEMMA LoadAfterStep ==
  ASSUME MergeInvariant, LoadAfter
  PROVE  MergeInvariant'
<1> USE DEF MergeInvariant
<1> DEFINE x == b[bOffset]
<1>0. /\ UNCHANGED input
      /\ UNCHANGED <<call, replica, a, b, antiAffinityBuffer, pc, aOffset, lastOffset, lastTime>>
      /\ pc = "after" /\ bOffset <= Len(b)
      /\ newValues' = IF TailFits(x) THEN Append(newValues, x) ELSE newValues
      /\ bOffset' = bOffset + 1
  BY DEF LoadAfter, input
<1>1. /\ a # <<>> /\ b # <<>> /\ aOffset = Len(a) + 1 /\ aOffset > 1 /\ Len(a) \in 1..Len(a)
      /\ bOffset \in 1..Len(b) /\ newValues # <<>>
  BY <1>0, InHand DEF Positions, TypeOK
<1>2. x \in Samples /\ x.t \in Int /\ x \in Range(b)
  BY <1>1, InHand
<1>3. lastTime = a[Len(a)].t
  BY <1>0, <1>1, InHand DEF LastMerged
<1>4. TailFits(x) => Last(newValues).t < x.t /\ lastTime < x.t /\ Far(x.t, a)
  <2> SUFFICES ASSUME TailFits(x)
               PROVE  Last(newValues).t < x.t /\ lastTime < x.t /\ Far(x.t, a)
    OBVIOUS
  <2>1. x.t > lastTime + antiAffinityBuffer
    BY DEF TailFits
  <2>2. lastTime < x.t
    BY <1>2, <2>1, InHand
  <2>3. Last(newValues).t = lastTime \/ Last(newValues).t < x.t
    BY <1>0, <1>1 DEF LastMerged
  <2>4. Far(x.t, a)
    <3>1. Len(a) \in 0..Len(a) /\ ~(Len(a) < Len(a)) /\ x.t > a[Len(a)].t + antiAffinityBuffer
      BY <1>1, <1>3, <2>1, InHand
    <3> QED
      BY <1>2, <3>1, FarFromNeighbours
  <2> QED
    BY <2>2, <2>3, <2>4
<1>5. ~TailFits(x) /\ Far(x.t, a) => x \in Range(newValues)
  <2> SUFFICES ASSUME ~TailFits(x), Far(x.t, a)
               PROVE  x \in Range(newValues)
    OBVIOUS
  <2>1. x.t - lastTime > antiAffinityBuffer \/ lastTime - x.t > antiAffinityBuffer
    BY <1>1, <1>3, FarFromEach
  <2>2. x.t < lastTime
    BY <1>2, <2>1, InHand DEF TailFits
  <2>3. lastTime <= Last(newValues).t
    BY <1>0, <1>1, InHand DEF LastMerged
  <2>4. x.t <= Last(newValues).t
    BY <1>1, <1>2, <2>2, <2>3, InHand
  <2> QED
    BY <1>0, <1>1, <2>4 DEF BDecided, Merged
<1> HIDE DEF x
<1>6. TailFits(x) =>
        /\ newValues' \in Streams /\ newValues' # <<>> /\ Last(newValues') = x
        /\ Range(newValues') = Range(newValues) \cup {x}
        /\ Times(newValues') = Times(newValues) \cup {x.t}
  BY <1>0, <1>2, <1>4, InHand, AppendLater
<1>7. /\ newValues' \in Streams /\ newValues' # <<>>
      /\ Range(newValues) \subseteq Range(newValues')
      /\ Times(newValues) \subseteq Times(newValues')
  BY <1>0, <1>1, <1>6, InHand
<1>8. TypeOK'
  BY <1>0, <1>1, <1>7, InHand DEF TypeOK
<1>9. Positions' /\ LoadingBefore' /\ BeforeLoaded'
  BY <1>0, <1>1, <1>7 DEF Positions, LoadingBefore, BeforeLoaded
<1>12. \A j \in (bOffset + 1)..Len(b) : j \in 1..Len(b) /\ j \in bOffset..Len(b) /\ x.t < b[j].t
  BY <1>1, InHand DEF x
<1>13. LastMerged'
  <2>3. \/ Last(newValues').t = lastTime
        \/ /\ lastTime < Last(newValues').t
           /\ \A j \in (bOffset + 1)..Len(b) : Last(newValues').t < b[j].t
    <3>1. CASE TailFits(x)
      BY <1>4, <1>6, <1>12, <3>1
    <3>2. CASE ~TailFits(x)
      BY <1>0, <1>12, <3>2 DEF LastMerged
    <3> QED
      BY <3>1, <3>2
  <2> QED
    BY <1>0, <2>3 DEF LastMerged
<1>14. Explained'
  <2> SUFFICES ASSUME NEW s \in Range(newValues')
               PROVE  FromA(s) \/ FromB(s)
    BY <1>0, InputKept DEF Explained, Merged
  <2>1. CASE s \in Range(newValues)
    BY <1>0, <1>1, <2>1 DEF Explained, Merged
  <2>2. CASE s \notin Range(newValues)
    BY <1>0, <1>2, <1>4, <1>6, <2>2 DEF FromB
  <2> QED
    BY <2>1, <2>2
<1>15. ATaken'
  BY <1>0, <1>1, <1>7 DEF ATaken, Merged
<1>16. BDecided'
  <2> SUFFICES ASSUME NEW j \in 1..Len(b), Far(b[j].t, a),
                      j < bOffset + 1 \/ b[j].t <= Last(newValues').t
               PROVE  b[j] \in Range(newValues')
    BY <1>0, InputKept DEF BDecided, Merged
  <2>1. CASE j < bOffset
    BY <1>0, <1>1, <1>7, <2>1 DEF BDecided, Merged
  <2>2. CASE j = bOffset
    BY <1>5, <1>6, <1>7, <2>2 DEF x
  <2>3. CASE j > bOffset
    <3>1. b[j].t <= Last(newValues').t /\ x.t < b[j].t
      BY <1>1, <1>12, <2>3, InHand
    <3>2. ~TailFits(x)
      BY <1>2, <1>6, <3>1, InHand
    <3> QED
      BY <1>0, <1>1, <3>1, <3>2 DEF BDecided, Merged
  <2> QED
    BY <1>1, <2>1, <2>2, <2>3, InHand
<1> QED
  BY <1>0, <1>8, <1>9, <1>13, <1>14, <1>15, <1>16, FoldKept
---------------------------------------------------------------------------
(* The dynamic buffer.                                                     *)

(* Sets with as many elements. *)
LEMMA SameCount ==
  ASSUME NEW P, IsFiniteSet(P), NEW G, NEW f \in [P -> G],
         \A i, j \in P : f[i] = f[j] => i = j,
         \A g \in G : \E i \in P : f[i] = g
  PROVE  IsFiniteSet(G) /\ Cardinality(G) = Cardinality(P)
<1>1. f \in Bijection(P, G)
  BY DEF Bijection, Injection, Surjection, IsInjective
<1> QED
  BY <1>1, FS_Bijection DEF ExistsBijection

(* A stream has a gap before each of its samples but the first. *)
LEMMA GapsOfStream ==
  ASSUME NEW s \in Streams, NEW side
  PROVE  /\ Gaps(side, s) = {<<side, i, Gap(s, i)>> : i \in 2..Len(s)}
         /\ \A i \in 2..Len(s) : Gap(s, i) \in Nat
         /\ IsFiniteSet(Gaps(side, s))
         /\ Len(s) > 1 => Cardinality(Gaps(side, s)) = Len(s) - 1
<1>1. \A i \in 2..Len(s) : Gap(s, i) \in Nat /\ Gap(s, i) > 0
  <2> SUFFICES ASSUME NEW i \in 2..Len(s)
               PROVE  Gap(s, i) \in Nat /\ Gap(s, i) > 0
    OBVIOUS
  <2>1. i \in 1..Len(s) /\ i - 1 \in 1..Len(s) /\ i - 1 < i
    BY StreamFacts
  <2>2. s[i].t \in Int /\ s[i - 1].t \in Int /\ s[i - 1].t < s[i].t
    BY <2>1, StreamFacts
  <2> QED
    BY <2>2 DEF Gap
<1>2. {j \in 2..Len(s) : Gap(s, j) > 0} = 2..Len(s)
  BY <1>1
<1>3. Gaps(side, s) = {<<side, i, Gap(s, i)>> : i \in 2..Len(s)}
  BY <1>2 DEF Gaps
<1>4. Len(s) \in Nat
  BY StreamFacts
<1>5. IsFiniteSet(Gaps(side, s)) /\ Cardinality(Gaps(side, s)) = Cardinality(2..Len(s))
  <2> DEFINE P == 2..Len(s)
             f == [i \in P |-> <<side, i, Gap(s, i)>>]
  <2>1. IsFiniteSet(P)
    <3>1. 2 \in Int /\ Len(s) \in Int
      BY <1>4
    <3> QED
      BY <3>1, FS_Interval
  <2>2. /\ f \in [P -> Gaps(side, s)]
        /\ \A i, j \in P : f[i] = f[j] => i = j
        /\ \A g \in Gaps(side, s) : \E i \in P : f[i] = g
    BY <1>3
  <2> HIDE DEF P, f
  <2>3. IsFiniteSet(Gaps(side, s)) /\ Cardinality(Gaps(side, s)) = Cardinality(P)
    BY <2>1, <2>2, SameCount
  <2> QED
    BY <2>3 DEF P
<1>6. Len(s) > 1 => Cardinality(2..Len(s)) = Len(s) - 1
  BY <1>4, FS_Interval
<1> QED
  BY <1>1, <1>3, <1>5, <1>6

(* More than half of the gaps do not exceed the median. *)
LEMMA MedianOfGaps ==
  ASSUME NEW G, IsFiniteSet(G), G # {}, \A g \in G : g[3] \in Nat
  PROVE  /\ Median(G) \in Nat
         /\ Cardinality({g \in G : g[3] <= Median(G)}) > Cardinality(G) \div 2
<1> DEFINE UpTo(m) == {g \in G : g[3] <= m}
           n == Cardinality(G)
           H == {h \in G : Cardinality({k \in G : k[3] <= h[3]}) > n \div 2}
           M == {g[3] : g \in H}
           T == {n - Cardinality(UpTo(h[3])) : h \in G}
<1>1. n \in Nat /\ n > 0
  BY FS_CardinalityType, FS_EmptySet
<1>2. \A m : IsFiniteSet(UpTo(m)) /\ Cardinality(UpTo(m)) \in Nat /\ Cardinality(UpTo(m)) <= n
  <2> SUFFICES ASSUME NEW m
               PROVE  IsFiniteSet(UpTo(m)) /\ Cardinality(UpTo(m)) \in Nat /\ Cardinality(UpTo(m)) <= n
    OBVIOUS
  <2>1. UpTo(m) \in SUBSET G
    OBVIOUS
  <2> HIDE DEF UpTo
  <2> QED
    BY <2>1, FS_Subset, FS_CardinalityType
<1>3. T \in SUBSET Nat /\ T # {}
  <2> HIDE DEF UpTo, n
  <2> QED
    BY <1>1, <1>2
<1>4. PICK h \in G : \A k \in G : Cardinality(UpTo(k[3])) <= Cardinality(UpTo(h[3]))
  <2>1. Min(T) \in T /\ \A d \in T : Min(T) <= d
    BY <1>3, MinIsLeast
  <2>2. PICK h \in G : Min(T) = n - Cardinality(UpTo(h[3]))
    BY <2>1
  <2> HIDE DEF UpTo
  <2>3. \A k \in G : n - Cardinality(UpTo(h[3])) <= n - Cardinality(UpTo(k[3]))
    BY <2>1, <2>2
  <2> QED
    BY <1>1, <1>2, <2>3
<1>5. \A k \in G : k[3] <= h[3]
  <2> SUFFICES ASSUME NEW k \in G, ~(k[3] <= h[3])
               PROVE  FALSE
    OBVIOUS
  <2>1. UpTo(h[3]) \in SUBSET UpTo(k[3]) /\ k \in UpTo(k[3]) /\ k \notin UpTo(h[3])
    OBVIOUS
  <2> HIDE DEF UpTo
  <2>2. Cardinality(UpTo(h[3])) = Cardinality(UpTo(k[3]))
    BY <1>2, <1>4, <2>1, FS_Subset
  <2> QED
    BY <1>2, <2>1, <2>2, FS_Subset
<1>6. UpTo(h[3]) = G
  BY <1>5
<1>7. h \in H
  <2>1. n > n \div 2
    BY <1>1
  <2>2. {k \in G : k[3] <= h[3]} = G
    BY <1>6
  <2> QED
    BY <2>1, <2>2
<1>8. M \in SUBSET Nat /\ M # {}
  BY <1>7
<1>9. Min(M) \in M
  BY <1>8, MinIsLeast
<1>10. Median(G) = Min(M)
  BY DEF Median
<1>11. PICK g \in H : Median(G) = g[3]
  BY <1>9, <1>10
<1> QED
  BY <1>11

LEMMA BufferOfStreams ==
  ASSUME MergeInvariant, NEW long \in Streams, NEW short \in Streams
  PROVE  /\ BufferFor(long, short) \in Nat
         /\ ~dynamic => BufferFor(long, short) = antiAffinityBuffer
         /\ dynamic /\ Len(long) > MinDynamicGaps => BufferFor(long, short) = HalfMedian(Gaps("long", long))
<1> DEFINE own == Gaps("long", long)
           gaps == IF Cardinality(own) < MinDynamicGaps THEN own \cup Gaps("short", short) ELSE own
<1>1. /\ IsFiniteSet(own) /\ IsFiniteSet(Gaps("short", short))
      /\ \A g \in own : g[3] \in Nat
      /\ \A g \in Gaps("short", short) : g[3] \in Nat
      /\ Len(long) > 1 => Cardinality(own) = Len(long) - 1
  BY GapsOfStream
<1> HIDE DEF own
<1>2. IsFiniteSet(gaps) /\ \A g \in gaps : g[3] \in Nat
  BY <1>1, FS_Union
<1>3. BufferFor(long, short) = IF ~dynamic \/ Cardinality(gaps) < MinDynamicGaps
                               THEN antiAffinityBuffer ELSE HalfMedian(gaps)
  BY DEF BufferFor, own
<1>4. Cardinality(gaps) \in Nat /\ antiAffinityBuffer \in Nat /\ Len(long) \in Nat
  BY <1>2, FS_CardinalityType, InHand, StreamFacts
<1>5. ~(Cardinality(gaps) < MinDynamicGaps) => HalfMedian(gaps) \in Nat
  <2> SUFFICES ASSUME ~(Cardinality(gaps) < MinDynamicGaps)
               PROVE  HalfMedian(gaps) \in Nat
    OBVIOUS
  <2> HIDE DEF gaps
  <2>1. gaps # {}
    BY FS_EmptySet DEF MinDynamicGaps
  <2>2. Median(gaps) \in Nat
    BY <1>2, <2>1, MedianOfGaps
  <2> QED
    BY <2>2 DEF HalfMedian
<1>6. Len(long) > MinDynamicGaps => gaps = own /\ ~(Cardinality(gaps) < MinDynamicGaps)
  BY <1>1, <1>4 DEF MinDynamicGaps
<1> QED
  BY <1>3, <1>4, <1>5, <1>6 DEF own
---------------------------------------------------------------------------
(* Whole merges.                                                           *)

(* The samples of the replicas. *)
LEMMA ReplicaStreams ==
  ASSUME MergeInvariant
  PROVE  /\ call.buffer \in Nat /\ Len(call.replicas) \in Nat
         /\ \A r \in 1..Len(call.replicas) : call.replicas[r] \in Streams
         /\ replica \in Nat /\ replica >= 2 /\ replica <= Len(call.replicas)
<1>1. call \in Calls /\ replica \in 2..Len(call.replicas)
  BY DEF MergeInvariant, TypeOK
<1>2. call.replicas \in Seq(Streams) /\ call.buffer \in Nat
  BY <1>1, CallsAssumption
<1> QED
  BY <1>1, <1>2

(* When the loops are through, the times are those of a and those of b     *)
(* that are far from them.                                                 *)
LEMMA TimesMerged ==
  ASSUME MergeInvariant, Merged, aOffset = Len(a) + 1, bOffset = Len(b) + 1
  PROVE  /\ Times(a) \subseteq Times(newValues)
         /\ \A s \in Range(b) : Far(s.t, a) => s \in Range(newValues)
         /\ \A s \in Range(newValues) : s.t \in Times(a) \/ FromB(s)
<1> USE DEF MergeInvariant
<1>1. Times(a) \subseteq Times(newValues)
  <2>1. \A k \in 1..Len(a) : a[k].t \in Times(newValues)
    BY InHand DEF ATaken
  <2> QED
    BY <2>1, InHand, StreamFacts
<1>2. \A s \in Range(b) : Far(s.t, a) => s \in Range(newValues)
  <2>1. \A j \in 1..Len(b) : j < bOffset
    BY InHand
  <2>2. \A j \in 1..Len(b) : Far(b[j].t, a) => b[j] \in Range(newValues)
    BY <2>1 DEF BDecided
  <2> QED
    BY <2>2, InHand, StreamFacts
<1>3. \A s \in Range(newValues) : s.t \in Times(a) \/ FromB(s)
  BY InHand, StreamSets DEF Explained, FromA, Raises
<1> QED
  BY <1>1, <1>2, <1>3

(* Near within n buffers and then within one is near within n + 1. *)
LEMMA NearAdds ==
  ASSUME MergeInvariant, NEW t \in Int, NEW u \in Int, NEW w \in Int,
         Near(t, u, replica - 2),
         u - w <= call.buffer, w - u <= call.buffer
  PROVE  Near(t, w, replica - 1)
<1>1. replica - 2 \in Nat /\ call.buffer \in Nat
  BY ReplicaStreams
<1>2. \A n, m \in Nat : (n + 1) * m = n * m + m /\ n * m \in Nat
  OBVIOUS
<1>3. (replica - 1) * call.buffer = (replica - 2) * call.buffer + call.buffer
  <2>1. replica - 2 + 1 = replica - 1
    BY ReplicaStreams
  <2> QED
    BY <1>1, <1>2, <2>1
<1>4. (replica - 2) * call.buffer \in Nat
  BY <1>1, <1>2
<1> QED
  BY <1>1, <1>3, <1>4 DEF Near

LEMMA ReturnStep ==
  ASSUME MergeInvariant, Return
  PROVE  MergeInvariant'
<1> USE DEF MergeInvariant
<1>0. /\ UNCHANGED input
      /\ UNCHANGED <<call, replica, a, b, antiAffinityBuffer, aOffset, bOffset, lastOffset, lastTime, newValues>>
      /\ pc = "after" /\ pc' = "done" /\ bOffset > Len(b)
  BY DEF Return, input
<1>1. a # <<>> /\ b # <<>> /\ aOffset = Len(a) + 1 /\ bOffset = Len(b) + 1 /\ Merged
  BY <1>0, InHand DEF Positions, TypeOK, Merged
<1>2. TypeOK' /\ Positions' /\ LoadingBefore' /\ BeforeLoaded' /\ LastMerged'
  BY <1>0, <1>1 DEF TypeOK, Positions, LoadingBefore, BeforeLoaded, LastMerged
<1>3. Explained' /\ BDecided'
  BY <1>0, <1>1, InputKept DEF Explained, BDecided, Merged
<1>4. ATaken'
  BY <1>0, <1>1 DEF ATaken, Merged
<1>5. BufferChosen' /\ CoveredInHand'
  BY <1>0 DEF BufferChosen, CoveredInHand, dynamic
<1>6. EveryReplicaCovered'
  <2> SUFFICES ASSUME ~dynamic, NEW r \in 1..replica, NEW s \in Range(call.replicas[r])
               PROVE  \E t \in Times(newValues) : Near(s.t, t, replica - 1)
    BY <1>0 DEF EveryReplicaCovered, dynamic, Near
  <2>1. PICK t \in Times(a) \cup Times(b) : Near(s.t, t, replica - 2)
    BY <1>0 DEF CoveredInHand
  <2>2. antiAffinityBuffer = call.buffer /\ call.buffer \in Nat
    BY ReplicaStreams DEF BufferChosen
  <2>3. s.t \in Int
    <3>1. call.replicas[r] \in Streams
      BY ReplicaStreams
    <3> QED
      BY <3>1, StreamSets
  <2>4. t \in Int
    BY <2>1, InHand, StreamSets
  <2>5. CASE t \in Times(newValues)
    <3>1. t - t <= call.buffer
      BY <2>2, <2>4
    <3> QED
      BY <2>1, <2>3, <2>4, <2>5, <3>1, NearAdds
  <2>6. CASE t \notin Times(newValues)
    <3>1. t \notin Times(a)
      BY <1>1, <2>6, TimesMerged
    <3>2. PICK x \in Range(b) : x.t = t
      BY <2>1, <3>1, InHand, StreamSets
    <3>3. ~Far(t, a)
      <4>1. x \notin Range(newValues)
        BY <2>6, <3>2, InHand, StreamSets
      <4> QED
        BY <1>1, <3>2, <4>1, TimesMerged
    <3>4. PICK u \in Times(a) : ~(t - u > antiAffinityBuffer \/ u - t > antiAffinityBuffer)
      BY <3>3 DEF Far
    <3>5. u \in Int /\ u \in Times(newValues)
      BY <1>1, InHand, StreamSets, TimesMerged
    <3>6. t - u <= call.buffer /\ u - t <= call.buffer
      BY <2>2, <2>4, <3>4, <3>5
    <3> QED
      BY <2>1, <2>3, <2>4, <3>5, <3>6, NearAdds
  <2> QED
    BY <2>5, <2>6
<1> QED
  BY <1>2, <1>3, <1>4, <1>5, <1>6

LEMMA MergeEmptyStep ==
  ASSUME MergeInvariant, MergeEmpty
  PROVE  MergeInvariant'
<1> USE DEF MergeInvariant
<1>0. /\ UNCHANGED <<call, replica, a, b, aOffset, bOffset, lastOffset, lastTime>>
      /\ pc = "start" /\ pc' = "done" /\ (a = <<>> \/ b = <<>>)
      /\ newValues' = IF a = <<>> THEN b ELSE a
      /\ antiAffinityBuffer' = IF Swap THEN BufferFor(b, a) ELSE BufferFor(a, b)
  BY DEF MergeEmpty
<1>1. TypeOK'
  BY <1>0, InHand, BufferOfStreams DEF TypeOK
<1>2. /\ Positions' /\ LoadingBefore' /\ BeforeLoaded' /\ LastMerged'
      /\ Explained' /\ ATaken' /\ BDecided' /\ CoveredInHand'
  BY <1>0 DEF Positions, LoadingBefore, BeforeLoaded, LastMerged, Merged, Explained, ATaken,
     BDecided, CoveredInHand
<1>3. BufferChosen'
  <2>1. ~dynamic => antiAffinityBuffer' = call.buffer
    BY <1>0, InHand, BufferOfStreams DEF BufferChosen
  <2>2. Len(a) > MinDynamicGaps => ~Swap
    BY <1>0, InHand, StreamFacts DEF Swap, MinDynamicGaps
  <2>3. (dynamic /\ Len(a) > MinDynamicGaps) => antiAffinityBuffer' = HalfMedian(Gaps("long", a))
    BY <1>0, <2>2, InHand, BufferOfStreams
  <2> QED
    BY <1>0, <2>1, <2>3 DEF BufferChosen, dynamic
<1>4. EveryReplicaCovered'
  <2> SUFFICES ASSUME ~dynamic, NEW r \in 1..replica, NEW s \in Range(call.replicas[r])
               PROVE  \E t \in Times(newValues') : Near(s.t, t, replica - 1)
    BY <1>0 DEF EveryReplicaCovered, dynamic, Near
  <2>1. PICK t \in Times(a) \cup Times(b) : Near(s.t, t, replica - 2)
    BY <1>0 DEF CoveredInHand
  <2>2. Times(<<>>) = {}
    BY DEF Times
  <2>3. t \in Times(newValues')
    BY <1>0, <2>1, <2>2
  <2>4. t \in Int /\ call.buffer \in Nat
    BY <2>1, InHand, StreamSets, ReplicaStreams
  <2>5. s.t \in Int
    <3>1. call.replicas[r] \in Streams
      BY ReplicaStreams
    <3> QED
      BY <3>1, StreamSets
  <2>6. t - t <= call.buffer
    BY <2>4
  <2> QED
    BY <2>1, <2>3, <2>4, <2>5, <2>6, NearAdds
<1> QED
  BY <1>1, <1>2, <1>3, <1>4

LEMMA BeginStep ==
  ASSUME MergeInvariant, Begin
  PROVE  MergeInvariant'
<1> USE DEF MergeInvariant
<1>0. /\ UNCHANGED <<call, replica, aOffset, bOffset, lastOffset, lastTime, newValues>>
      /\ pc = "start" /\ pc' = "before" /\ a # <<>> /\ b # <<>>
      /\ antiAffinityBuffer' = IF Swap THEN BufferFor(b, a) ELSE BufferFor(a, b)
      /\ a' = IF Swap THEN b ELSE a
      /\ b' = IF Swap THEN a ELSE b
  BY DEF Begin
<1>1. aOffset = 1 /\ bOffset = 1 /\ lastOffset = 1 /\ newValues = <<>> /\ Len(a) > 0 /\ Len(b) > 0
  BY <1>0, InHand, StreamFacts DEF Positions
<1>2. TypeOK'
  <2>1. antiAffinityBuffer' \in Nat /\ a' \in Streams /\ b' \in Streams
    BY <1>0, InHand, BufferOfStreams
  <2>2. Len(a') \in Nat /\ Len(b') \in Nat
    BY <2>1, StreamFacts
  <2> QED
    BY <1>0, <1>1, <2>1, <2>2 DEF TypeOK
<1>3. Positions'
  BY <1>0, <1>1, InHand DEF Positions
<1>4. LoadingBefore'
  BY <1>0, <1>1 DEF LoadingBefore, Range
<1>5. /\ BeforeLoaded' /\ LastMerged' /\ Explained' /\ ATaken' /\ BDecided'
      /\ EveryReplicaCovered'
  BY <1>0 DEF BeforeLoaded, LastMerged, Merged, Explained, ATaken, BDecided, EveryReplicaCovered
<1>6. BufferChosen'
  <2>1. ~dynamic => antiAffinityBuffer' = call.buffer
    BY <1>0, InHand, BufferOfStreams DEF BufferChosen
  <2>2. (dynamic /\ Len(a') > MinDynamicGaps) => antiAffinityBuffer' = HalfMedian(Gaps("long", a'))
    BY <1>0, InHand, BufferOfStreams
  <2> QED
    BY <1>0, <2>1, <2>2 DEF BufferChosen, dynamic, HalfMedian, Median, Gaps, Gap
<1>7. CoveredInHand'
  <2>1. Times(a') \cup Times(b') = Times(a) \cup Times(b)
    BY <1>0
  <2> QED
    BY <1>0, <2>1 DEF CoveredInHand, dynamic, Near, Times
<1> QED
  BY <1>2, <1>3, <1>4, <1>5, <1>6, <1>7

LEMMA NextReplicaStep ==
  ASSUME MergeInvariant, NextReplica
  PROVE  MergeInvariant'
<1> USE DEF MergeInvariant
<1>0. /\ pc = "done" /\ pc' = "start" /\ replica < Len(call.replicas) /\ replica' = replica + 1
      /\ a' = newValues /\ b' = call.replicas[replica + 1]
      /\ antiAffinityBuffer' = call.buffer
      /\ aOffset' = 1 /\ bOffset' = 1 /\ lastOffset' = 1
      /\ newValues' = <<>> /\ UNCHANGED <<call, lastTime>>
  BY DEF NextReplica
<1>1. <<>> \in Streams
  BY DEF Streams, Ordered
<1>2. a' \in Streams /\ b' \in Streams /\ Len(a') \in Nat /\ Len(b') \in Nat
  <2>1. replica + 1 \in 1..Len(call.replicas)
    BY <1>0, ReplicaStreams
  <2>2. a' \in Streams /\ b' \in Streams
    BY <1>0, <2>1, InHand, ReplicaStreams
  <2> QED
    BY <2>2, StreamFacts
<1>3. TypeOK'
  <2>1. call' \in Calls /\ replica' \in 2..Len(call'.replicas)
    BY <1>0, ReplicaStreams DEF TypeOK
  <2>2. antiAffinityBuffer' \in Nat /\ lastTime' \in Int
    BY <1>0, ReplicaStreams DEF TypeOK
  <2>3. aOffset' \in 1..(Len(a') + 1) /\ bOffset' \in 1..(Len(b') + 1)
        /\ lastOffset' \in 1..(Len(b') + 1)
    <3>1. \A n \in Nat : 1 \in 1..(n + 1)
      OBVIOUS
    <3> QED
      BY <1>0, <1>2, <3>1
  <2>4. newValues' \in Streams /\ pc' = "start"
    BY <1>0, <1>1
  <2> QED
    BY <1>2, <2>1, <2>2, <2>3, <2>4 DEF TypeOK
<1>4. /\ Positions' /\ LoadingBefore' /\ BeforeLoaded' /\ LastMerged'
      /\ Explained' /\ ATaken' /\ BDecided' /\ BufferChosen' /\ EveryReplicaCovered'
  BY <1>0 DEF Positions, LoadingBefore, BeforeLoaded, LastMerged, Merged, Explained, ATaken,
     BDecided, BufferChosen, EveryReplicaCovered
<1>5. CoveredInHand'
  <2> SUFFICES ASSUME ~dynamic, NEW r \in 1..(replica + 1), NEW s \in Range(call.replicas[r])
               PROVE  \E t \in Times(newValues) \cup Times(b') : Near(s.t, t, replica - 1)
    <3>1. replica' - 2 = replica - 1
      BY <1>0, ReplicaStreams
    <3>2. Times(a') = Times(newValues) /\ Times(b)' = Times(b') /\ Times(a)' = Times(a')
      BY <1>0 DEF Times
    <3>3. \A t, u : Near(t, u, replica - 2)' = Near(t, u, replica - 1)
      BY <1>0, <3>1 DEF Near
    <3>4. dynamic' = dynamic /\ call' = call
      BY <1>0 DEF dynamic
    <3> QED
      BY <1>0, <3>2, <3>3, <3>4 DEF CoveredInHand
  <2>1. CASE r \in 1..replica
    BY <1>0, <2>1 DEF EveryReplicaCovered
  <2>2. CASE r = replica + 1
    <3>1. s \in Range(b') /\ s.t \in Times(b') /\ s.t \in Int
      BY <1>0, <1>2, <2>2, StreamSets
    <3>2. replica - 1 \in Nat /\ call.buffer \in Nat
      BY ReplicaStreams
    <3>3. (replica - 1) * call.buffer \in Nat
      BY <3>2
    <3>4. Near(s.t, s.t, replica - 1)
      BY <3>1, <3>3 DEF Near
    <3> QED
      BY <3>1, <3>4
  <2> QED
    BY <2>1, <2>2, ReplicaStreams
<1> QED
  BY <1>3, <1>4, <1>5

LEMMA MergeInitially == Init => MergeInvariant
<1> SUFFICES ASSUME Init
             PROVE  MergeInvariant
  OBVIOUS
<1>1. /\ call.replicas \in Seq(Streams) /\ Len(call.replicas) \in Nat /\ Len(call.replicas) >= 2
      /\ call.buffer \in Nat
  BY CallsAssumption DEF Init
<1>2. a \in Streams /\ b \in Streams
  BY <1>1 DEF Init
<1>3. <<>> \in Streams
  BY DEF Streams, Ordered
<1>4. TypeOK
  BY <1>1, <1>2, <1>3, StreamFacts DEF TypeOK, Init
<1>5. /\ Positions /\ LoadingBefore /\ BeforeLoaded /\ LastMerged
      /\ Explained /\ ATaken /\ BDecided /\ BufferChosen /\ EveryReplicaCovered
  BY DEF Init, Positions, LoadingBefore, BeforeLoaded, LastMerged, Merged, Explained, ATaken,
     BDecided, BufferChosen, EveryReplicaCovered
<1>6. CoveredInHand
  <2> SUFFICES ASSUME NEW r \in 1..replica, NEW s \in Range(call.replicas[r])
               PROVE  s.t \in Times(a) \cup Times(b) /\ Near(s.t, s.t, replica - 2)
    BY DEF CoveredInHand
  <2>1. r = 1 \/ r = 2
    BY DEF Init
  <2>2. s.t \in Times(a) \cup Times(b) /\ s.t \in Int
    BY <1>2, <2>1, StreamSets DEF Init
  <2>3. (replica - 2) * call.buffer = 0
    BY <1>1 DEF Init
  <2> QED
    BY <2>2, <2>3 DEF Near
<1> QED
  BY <1>4, <1>5, <1>6 DEF MergeInvariant

LEMMA MergeNext == MergeInvariant /\ [Next]_vars => MergeInvariant'
<1> SUFFICES ASSUME MergeInvariant, [Next]_vars
             PROVE  MergeInvariant'
  OBVIOUS
<1>1. CASE UNCHANGED vars
  BY <1>1 DEF vars, input, MergeInvariant, TypeOK, Positions, LoadingBefore, Early, BeforeLoaded,
     LastMerged, Merged, Explained, FromA, FromB, Raises, Far, ATaken, BDecided, BufferChosen,
     CoveredInHand, EveryReplicaCovered, dynamic, preferMax, Near
<1>2. CASE Next /\ ~Done
  BY <1>2, MergeEmptyStep, BeginStep, LoadBeforeStep, TakeFirstStep, LookAtGapStep, FillGapStep,
     TakeNextStep, EndOfAStep, LoadAfterStep, ReturnStep, NextReplicaStep DEF Next
<1> QED
  BY <1>1, <1>2 DEF Done

(* The inductive invariant of the merge and of the fold over the replicas. *)
THEOREM MergeInvariance == Spec => []MergeInvariant
BY MergeInitially, MergeNext, PTL DEF Spec
---------------------------------------------------------------------------
(* The properties.                                                         *)

(* What is merged when the loops are through. *)
LEMMA MergedIsGapFill == MergeInvariant => MergeIsGapFill
<1> SUFFICES ASSUME MergeInvariant, pc = "done", a # <<>>, b # <<>>
             PROVE  LET filled == Range(a) \cup {s \in Range(b) : Far(s.t, a)}
                        raised == Range(newValues) \ filled
                    IN  /\ \A i \in 2..Len(newValues) : newValues[i - 1].t < newValues[i].t
                        /\ Times(newValues) = {s.t : s \in filled}
                        /\ raised # {} => preferMax
                        /\ \A s \in raised : \E x \in Range(a), y \in Range(b) :
                             /\ x.t = s.t /\ y.v = s.v /\ y.v > x.v
                             /\ x.t - y.t <= antiAffinityBuffer /\ y.t - x.t <= antiAffinityBuffer
  BY DEF MergeIsGapFill
<1> DEFINE filled == Range(a) \cup {s \in Range(b) : Far(s.t, a)}
           raised == Range(newValues) \ filled
<1>1. Merged /\ aOffset = Len(a) + 1 /\ bOffset = Len(b) + 1
  BY DEF MergeInvariant, Positions, Merged
<1>2. \A i \in 2..Len(newValues) : newValues[i - 1].t < newValues[i].t
  <2>1. Len(newValues) \in Nat /\ \A i, j \in 1..Len(newValues) : i < j => newValues[i].t < newValues[j].t
    BY InHand, StreamFacts
  <2>2. \A i \in 2..Len(newValues) : i \in 1..Len(newValues) /\ i - 1 \in 1..Len(newValues) /\ i - 1 < i
    BY <2>1
  <2> QED
    BY <2>1, <2>2
<1>3. Times(newValues) = {s.t : s \in filled}
  <2>1. \A t \in Times(newValues) : \E s \in filled : t = s.t
    <3> SUFFICES ASSUME NEW t \in Times(newValues)
                 PROVE  \E s \in filled : t = s.t
      OBVIOUS
    <3>1. PICK s \in Range(newValues) : s.t = t
      BY InHand, StreamSets
    <3>2. s.t \in Times(a) \/ FromB(s)
      BY <1>1, TimesMerged
    <3> QED
      BY <3>1, <3>2, InHand, StreamSets DEF FromB
  <2>2. \A s \in filled : s.t \in Times(newValues)
    <3> SUFFICES ASSUME NEW s \in filled
                 PROVE  s.t \in Times(newValues)
      OBVIOUS
    <3>1. CASE s \in Range(a)
      BY <1>1, <3>1, InHand, StreamSets, TimesMerged
    <3>2. CASE s \in Range(b) /\ Far(s.t, a)
      BY <1>1, <3>2, InHand, StreamSets, TimesMerged
    <3> QED
      BY <3>1, <3>2
  <2> HIDE DEF filled
  <2> QED
    BY <2>1, <2>2
<1>4. \A s \in raised : preferMax /\ \E x \in Range(a), y \in Range(b) : Raises(x, y, s)
  BY <1>1 DEF MergeInvariant, Explained, FromA, FromB
<1>5. /\ raised # {} => preferMax
      /\ \A s \in raised : \E x \in Range(a), y \in Range(b) :
           /\ x.t = s.t /\ y.v = s.v /\ y.v > x.v
           /\ x.t - y.t <= antiAffinityBuffer /\ y.t - x.t <= antiAffinityBuffer
  <2> HIDE DEF raised
  <2> QED
    BY <1>4 DEF Raises
<1> QED
  BY <1>2, <1>3, <1>5

(* Whatever the two streams and the buffer: the merged stream is the longer *)
(* one and the samples of the other that are far from it, in strict order.  *)
THEOREM MergeFillsGaps == Spec => []MergeIsGapFill
BY MergeInvariance, MergedIsGapFill, PTL

(* However many replicas are folded, each sample of each has a merged      *)
(* sample near it.                                                         *)
THEOREM ReplicasCovered == Spec => []EveryReplicaCovered
<1>1. MergeInvariant => EveryReplicaCovered
  BY DEF MergeInvariant
<1> QED
  BY <1>1, MergeInvariance, PTL

(* More than half of the median on either side is more than the median. *)
LEMMA TwoHalves ==
  \A m \in Nat, x, y, t \in Int : t - x > m \div 2 /\ y - t > m \div 2 => m < y - x
<1> SUFFICES ASSUME NEW m \in Nat, NEW x \in Int, NEW y \in Int, NEW t \in Int,
                    t - x > m \div 2, y - t > m \div 2
             PROVE  m < y - x
  OBVIOUS
<1> DEFINE h == m \div 2
<1>1. h \in Int /\ m <= 2 * h + 1
  OBVIOUS
<1>2. t - x > h /\ y - t > h
  OBVIOUS
<1> HIDE DEF h
<1> QED
  BY <1>1, <1>2

(* More than the rounded half of a number, twice, is more than the number. *)
LEMMA MoreThanHalf == \A n, c \in Nat : c > n \div 2 => 2 * c > n
OBVIOUS

(* A gap that is filled is longer than the median gap. *)
LEMMA FilledGapIsLong ==
  ASSUME MergeInvariant, pc = "done", dynamic, Len(a) > MinDynamicGaps,
         NEW i \in 2..Len(a), NEW t \in Times(newValues), a[i - 1].t < t, t < a[i].t
  PROVE  Median(Gaps("long", a)) \in Nat /\ Median(Gaps("long", a)) < Gap(a, i)
<1>1. i \in 1..Len(a) /\ i - 1 \in 1..Len(a) /\ i - 1 < i /\ a # <<>>
  BY InHand DEF MinDynamicGaps
<1>2. a[i].t \in Int /\ a[i - 1].t \in Int /\ t \in Int
  BY <1>1, InHand, StreamSets
<1>3. t \notin Times(a)
  <2> SUFFICES ASSUME NEW k \in 1..Len(a), t = a[k].t
               PROVE  FALSE
    BY InHand, StreamFacts
  <2>1. k = i - 1 \/ k < i - 1 \/ k = i \/ i < k
    BY <1>1
  <2>2. k < i - 1 => a[k].t < a[i - 1].t
    BY <1>1, InHand
  <2>3. i < k => a[i].t < a[k].t
    BY <1>1, InHand
  <2> QED
    BY <1>2, <2>1, <2>2, <2>3
<1>4. b # <<>>
  <2> SUFFICES ASSUME b = <<>>
               PROVE  FALSE
    OBVIOUS
  <2>1. newValues = a
    BY <1>1 DEF MergeInvariant, Positions
  <2> QED
    BY <1>3, <2>1
<1>5. Merged /\ aOffset = Len(a) + 1 /\ bOffset = Len(b) + 1
  BY <1>1, <1>4 DEF MergeInvariant, Positions, Merged
<1>6. Far(t, a)
  <2>1. PICK s \in Range(newValues) : s.t = t
    BY InHand, StreamSets
  <2> QED
    BY <1>3, <1>5, <2>1, TimesMerged DEF FromB
<1>7. t - a[i - 1].t > antiAffinityBuffer /\ a[i].t - t > antiAffinityBuffer
  <2>1. t - a[i].t > antiAffinityBuffer \/ a[i].t - t > antiAffinityBuffer
    BY <1>1, <1>6, FarFromEach
  <2>2. t - a[i - 1].t > antiAffinityBuffer \/ a[i - 1].t - t > antiAffinityBuffer
    BY <1>1, <1>6, FarFromEach
  <2> QED
    BY <1>2, <2>1, <2>2, BufferIsNat
<1> DEFINE m == Median(Gaps("long", a))
<1>8. m \in Nat
  <2>1. /\ IsFiniteSet(Gaps("long", a)) /\ Cardinality(Gaps("long", a)) = Len(a) - 1
        /\ \A g \in Gaps("long", a) : g[3] \in Nat
    BY InHand, GapsOfStream DEF MinDynamicGaps
  <2>2. Gaps("long", a) # {}
    BY <2>1, InHand, FS_EmptySet DEF MinDynamicGaps
  <2> QED
    BY <2>1, <2>2, MedianOfGaps
<1>9. antiAffinityBuffer = m \div 2
  BY DEF MergeInvariant, BufferChosen, HalfMedian
<1> HIDE DEF m
<1>10. t - a[i - 1].t > m \div 2 /\ a[i].t - t > m \div 2
  BY <1>7, <1>9
<1>11. m < a[i].t - a[i - 1].t
  BY <1>2, <1>8, <1>10, TwoHalves
<1> QED
  BY <1>8, <1>11 DEF Gap, m

LEMMA FewGapsFilled == MergeInvariant => DynamicNeverDoubles
<1> SUFFICES ASSUME MergeInvariant, pc = "done", dynamic, Len(a) > MinDynamicGaps,
                    NEW i \in 2..Len(a), NEW t \in Times(newValues), a[i - 1].t < t, t < a[i].t
             PROVE  2 * Cardinality(Shorter(i)) > Len(a) - 1
  BY DEF DynamicNeverDoubles
<1> DEFINE G == Gaps("long", a)
           m == Median(G)
           Low == {g \in G : g[3] <= m}
           P == {j \in 2..Len(a) : Gap(a, j) <= m}
           f == [j \in P |-> <<"long", j, Gap(a, j)>>]
<1>1. /\ G = {<<"long", j, Gap(a, j)>> : j \in 2..Len(a)}
      /\ \A j \in 2..Len(a) : Gap(a, j) \in Nat
      /\ IsFiniteSet(G) /\ Cardinality(G) = Len(a) - 1
  BY InHand, GapsOfStream DEF MinDynamicGaps
<1>2. m \in Nat /\ m < Gap(a, i)
  BY FilledGapIsLong
<1>3. Cardinality(Low) > (Len(a) - 1) \div 2
  <2>1. G # {}
    BY <1>1, InHand, FS_EmptySet DEF MinDynamicGaps
  <2>2. \A g \in G : g[3] \in Nat
    BY <1>1
  <2> HIDE DEF G
  <2> QED
    BY <1>1, <2>1, <2>2, MedianOfGaps
<1>4. IsFiniteSet(2..Len(a))
  <2>1. 2 \in Int /\ Len(a) \in Int
    BY InHand
  <2> QED
    BY <2>1, FS_Interval
<1>5. IsFiniteSet(P) /\ P \in SUBSET Shorter(i) /\ IsFiniteSet(Shorter(i))
  <2>1. P \in SUBSET (2..Len(a)) /\ Shorter(i) \in SUBSET (2..Len(a))
    BY DEF Shorter
  <2>2. P \in SUBSET Shorter(i)
    BY <1>1, <1>2 DEF Shorter
  <2> HIDE DEF P
  <2> QED
    BY <1>4, <2>1, <2>2, FS_Subset
<1>6. Cardinality(Low) = Cardinality(P)
  <2>1. /\ f \in [P -> Low]
        /\ \A j, k \in P : f[j] = f[k] => j = k
        /\ \A g \in Low : \E j \in P : f[j] = g
    <3> HIDE DEF m
    <3> QED
      BY <1>1
  <2> HIDE DEF f, P, Low
  <2> QED
    BY <1>5, <2>1, SameCount
<1>7. /\ Cardinality(P) <= Cardinality(Shorter(i))
      /\ Cardinality(P) \in Nat /\ Cardinality(Shorter(i)) \in Nat
  <2> HIDE DEF P
  <2> QED
    BY <1>5, FS_Subset, FS_CardinalityType
<1>8. Len(a) - 1 \in Nat
  BY InHand DEF MinDynamicGaps
<1>9. Cardinality(Shorter(i)) > (Len(a) - 1) \div 2
  <2> HIDE DEF P, Low, G, m
  <2> QED
    BY <1>3, <1>6, <1>7, <1>8
<1> QED
  BY <1>7, <1>8, <1>9, MoreThanHalf

(* Whatever the streams: the dynamic buffer lets a gap of the longer one be *)
(* filled only if it is longer than most of its gaps.                       *)
THEOREM DynamicFillsHolesOnly == Spec => []DynamicNeverDoubles
BY MergeInvariance, FewGapsFilled, PTL
=============================================================================
