---------------------------- MODULE SampleMerge ----------------------------
(***************************************************************************)
(* MergeSampleStream (pkg/promhttputil/merge.go): the merge of one series  *)
(* from two HA replicas.  The longer stream is the base; a sample of the   *)
(* other is added where it is further than antiAffinityBuffer from the     *)
(* samples around it.  The merge is its three loops: the b samples before  *)
(* a, the a samples with the gaps between them, and the b samples after a; *)
(* a step is an iteration of one of them.                                  *)
(* mergeHistogramSamples is the same algorithm without preferMax.          *)
(* mergeAntiAffinity (pkg/promclient/merge_seriesset.go) merges the series *)
(* of more replicas one after another into the result so far.              *)
(*                                                                         *)
(* A stream is a sequence of samples [t |-> time, v |-> value] in the      *)
(* order of their timestamps, as a downstream answers it.                  *)
(***************************************************************************)
EXTENDS Integers, FiniteSets, SequencesExt

CONSTANT
  Calls   \* the calls: the streams of the replicas, anti_affinity,
          \* anti_affinity_dynamic and prefer_max

MinDynamicGaps == 3

Samples == [t : Int, v : Int]

(* The timestamps of a series increase strictly. *)
Ordered(s) == \A i, j \in DOMAIN s : i < j => s[i].t < s[j].t

Streams == {s \in Seq(Samples) : Ordered(s)}

ASSUME CallsAssumption ==
  \A c \in Calls :
    /\ Len(c.replicas) >= 2
    /\ c.replicas \in Seq(Streams)
    /\ c.buffer \in Nat /\ c.dynamic \in BOOLEAN /\ c.preferMax \in BOOLEAN

VARIABLES
  call,               \* the call
  replica,            \* the replica that is merged
  a,                  \* the stream merged into: after the swap, the longer one
  b,                  \* the other stream
  antiAffinityBuffer,
  pc,                 \* "start", "before", "during", "fill", "take", "after", "done"
  aOffset,            \* the next sample of a
  bOffset,            \* the next sample of b that may fill a gap
  lastOffset,         \* where preferMax starts to look in b
  lastTime,           \* the last merged time before the gap that is looked at
  newValues           \* the merged stream

input == <<call, replica, a, b, antiAffinityBuffer>>
vars == <<input, pc, aOffset, bOffset, lastOffset, lastTime, newValues>>

dynamic == call.dynamic
preferMax == call.preferMax

Init ==
  /\ call \in Calls
  /\ replica = 2
  /\ a = call.replicas[1] /\ b = call.replicas[2]
  /\ antiAffinityBuffer = call.buffer
  /\ pc = "start"
  /\ aOffset = 1 /\ bOffset = 1 /\ lastOffset = 1
  /\ lastTime = 0
  /\ newValues = <<>>

Times(s) == {s[i].t : i \in DOMAIN s}

---------------------------------------------------------------------------
(* The dynamic buffer.                                                     *)

Gap(s, i) == s[i].t - s[i - 1].t

(* appendGaps: the positive deltas between consecutive samples, kept apart *)
(* by their side and position.                                             *)
Gaps(side, s) ==
  {<<side, i, Gap(s, i)>> : i \in {j \in 2..Len(s) : Gap(s, j) > 0}}

(* The element at half the length of the sorted gaps: the least that more  *)
(* than half of them do not exceed.                                        *)
Median(gaps) ==
  Min({g[3] : g \in {h \in gaps :
         Cardinality({k \in gaps : k[3] <= h[3]}) > Cardinality(gaps) \div 2}})

(* Mutant: a quarter of the median. *)
MutQuarterMedian(gaps) == Median(gaps) \div 4

HalfMedian(gaps) == Median(gaps) \div 2

(* dynamicAntiAffinity of the longer stream, which borrows the gaps of the *)
(* shorter one when it has too few.  When both have too few the buffer is  *)
(* the estimate from the series' histogram samples or the configured one:  *)
(* antiAffinityBuffer starts as either.                                    *)
BufferFor(long, short) ==
  LET own == Gaps("long", long)
      gaps == IF Cardinality(own) < MinDynamicGaps THEN own \cup Gaps("short", short) ELSE own
  IN  IF ~dynamic \/ Cardinality(gaps) < MinDynamicGaps THEN antiAffinityBuffer
      ELSE HalfMedian(gaps)

---------------------------------------------------------------------------
(* b has more samples and becomes the base. *)
Swap == Len(b) > Len(a)

(* A stream without samples leaves the other as it is. *)
MergeEmpty ==
  /\ pc = "start"
  /\ a = <<>> \/ b = <<>>
  /\ newValues' = IF a = <<>> THEN b ELSE a
  /\ antiAffinityBuffer' = IF Swap THEN BufferFor(b, a) ELSE BufferFor(a, b)
  /\ pc' = "done"
  /\ UNCHANGED <<call, replica, a, b, aOffset, bOffset, lastOffset, lastTime>>

Begin ==
  /\ pc = "start"
  /\ a # <<>> /\ b # <<>>
  /\ antiAffinityBuffer' = IF Swap THEN BufferFor(b, a) ELSE BufferFor(a, b)
  /\ a' = IF Swap THEN b ELSE a
  /\ b' = IF Swap THEN a ELSE b
  /\ pc' = "before"
  /\ UNCHANGED <<call, replica, aOffset, bOffset, lastOffset, lastTime, newValues>>

(* A b sample more than the buffer before a.  When that is all of them     *)
(* bOffset is left at the last one.                                        *)
LoadBefore ==
  LET early == b[bOffset].t < a[1].t - antiAffinityBuffer
      more == early /\ bOffset < Len(b)
  IN
  /\ pc = "before"
  /\ newValues' = IF early THEN Append(newValues, b[bOffset]) ELSE newValues
  /\ bOffset' = IF more THEN bOffset + 1 ELSE bOffset
  /\ lastOffset' = bOffset'
  /\ pc' = IF more THEN "before" ELSE "during"
  /\ UNCHANGED <<input, aOffset, lastTime>>

(* The first sample of the merged stream is a's as it is. *)
TakeFirst ==
  /\ pc = "during"
  /\ aOffset <= Len(a)
  /\ newValues = <<>>
  /\ newValues' = <<a[aOffset]>>
  /\ aOffset' = aOffset + 1
  /\ UNCHANGED <<input, pc, bOffset, lastOffset, lastTime>>

(* The next sample of a: is there room for one of b before it? *)
LookAtGap ==
  /\ pc = "during"
  /\ aOffset <= Len(a)
  /\ newValues # <<>>
  /\ lastTime' = Last(newValues).t
  /\ pc' = IF a[aOffset].t - lastTime' > antiAffinityBuffer * 2 THEN "fill" ELSE "take"
  /\ UNCHANGED <<input, aOffset, bOffset, lastOffset, newValues>>

(* b has a sample before time t. *)
Ahead(t) == bOffset <= Len(b) /\ b[bOffset].t < t

(* s fits between the last merged sample and a sample of a at time t. *)
Fits(s, t) ==
  s.t > lastTime + antiAffinityBuffer /\ s.t < t - antiAffinityBuffer

(* The samples of b in the gap before that of a, where they fit. *)
FillGap ==
  /\ pc = "fill"
  /\ Ahead(a[aOffset].t)
  /\ newValues' = IF Fits(b[bOffset], a[aOffset].t) THEN Append(newValues, b[bOffset])
                                                   ELSE newValues
  /\ bOffset' = bOffset + 1
  /\ UNCHANGED <<input, pc, aOffset, lastOffset, lastTime>>

(* The sample of b that preferMax compares with x: the first from          *)
(* lastOffset on that is at x's time or within the buffer of it.           *)
Rivals(x) ==
  {j \in lastOffset..Len(b) :
     \/ b[j].t = x.t
     \/ b[j].t > x.t - antiAffinityBuffer /\ b[j].t < x.t + antiAffinityBuffer}

Prefer(x, y) == IF y.v > x.v THEN [t |-> x.t, v |-> y.v] ELSE x

(* The sample of a, after what was found for the gap before it. *)
TakeNext ==
  LET x == a[aOffset]
      rival == Min(Rivals(x))
  IN
  /\ pc = "take" \/ (pc = "fill" /\ ~Ahead(x.t))
  /\ IF preferMax /\ Rivals(x) # {}
     THEN /\ lastOffset' = rival
          /\ newValues' = Append(newValues, Prefer(x, b[rival]))
     ELSE /\ UNCHANGED lastOffset
          /\ newValues' = Append(newValues, x)
  /\ aOffset' = aOffset + 1
  /\ pc' = "during"
  /\ UNCHANGED <<input, bOffset, lastTime>>

EndOfA ==
  /\ pc = "during"
  /\ aOffset > Len(a)
  /\ lastTime' = Last(newValues).t
  /\ pc' = "after"
  /\ UNCHANGED <<input, aOffset, bOffset, lastOffset, newValues>>

(* A sample of b after the merged ones. *)
TailFits(s) == s.t > lastTime + antiAffinityBuffer

(* Mutant: the samples of b after a are forgotten. *)
MutNoTail ==
  /\ pc = "after"
  /\ bOffset <= Len(b)
  /\ bOffset' = bOffset + 1
  /\ UNCHANGED <<input, pc, aOffset, lastOffset, lastTime, newValues>>

LoadAfter ==
  /\ pc = "after"
  /\ bOffset <= Len(b)
  /\ newValues' = IF TailFits(b[bOffset]) THEN Append(newValues, b[bOffset]) ELSE newValues
  /\ bOffset' = bOffset + 1
  /\ UNCHANGED <<input, pc, aOffset, lastOffset, lastTime>>

Return ==
  /\ pc = "after"
  /\ bOffset > Len(b)
  /\ pc' = "done"
  /\ UNCHANGED <<input, aOffset, bOffset, lastOffset, lastTime, newValues>>

(* Mutant: the result so far is not carried into the next merge. *)
MutLastPair ==
  /\ pc = "done" /\ replica < Len(call.replicas)
  /\ replica' = replica + 1
  /\ a' = call.replicas[replica] /\ b' = call.replicas[replica']
  /\ antiAffinityBuffer' = call.buffer
  /\ pc' = "start"
  /\ aOffset' = 1 /\ bOffset' = 1 /\ lastOffset' = 1
  /\ newValues' = <<>>
  /\ UNCHANGED <<call, lastTime>>

(* The result so far is merged with the next replica; the buffer is        *)
(* estimated anew.                                                         *)
NextReplica ==
  /\ pc = "done" /\ replica < Len(call.replicas)
  /\ replica' = replica + 1
  /\ a' = newValues /\ b' = call.replicas[replica']
  /\ antiAffinityBuffer' = call.buffer
  /\ pc' = "start"
  /\ aOffset' = 1 /\ bOffset' = 1 /\ lastOffset' = 1
  /\ newValues' = <<>>
  /\ UNCHANGED <<call, lastTime>>

Done == pc = "done" /\ replica = Len(call.replicas) /\ UNCHANGED vars

Next ==
  \/ MergeEmpty \/ Begin
  \/ LoadBefore
  \/ TakeFirst \/ LookAtGap \/ FillGap \/ TakeNext \/ EndOfA
  \/ LoadAfter \/ Return
  \/ NextReplica
  \/ Done

Spec == Init /\ [][Next]_vars

---------------------------------------------------------------------------
(* Properties.                                                             *)

Far(t, s) == \A u \in Times(s) : t - u > antiAffinityBuffer \/ u - t > antiAffinityBuffer

(* The merged stream is, in strict order of time, the longer stream and    *)
(* exactly those samples of the other that are further than the buffer     *)
(* from every one of it: holes are filled, near-duplicates of a skewed     *)
(* replica are not.  prefer_max may only raise a value, to one the other   *)
(* replica has within the buffer.                                          *)
MergeIsGapFill ==
  (pc = "done" /\ a # <<>> /\ b # <<>>) =>
    LET filled == Range(a) \cup {s \in Range(b) : Far(s.t, a)}
        raised == Range(newValues) \ filled
    IN  /\ \A i \in 2..Len(newValues) : newValues[i - 1].t < newValues[i].t
        /\ Times(newValues) = {s.t : s \in filled}
        /\ raised # {} => preferMax
        /\ \A s \in raised : \E x \in Range(a), y \in Range(b) :
             /\ x.t = s.t /\ y.v = s.v /\ y.v > x.v
             /\ x.t - y.t <= antiAffinityBuffer /\ y.t - x.t <= antiAffinityBuffer

(* No replica is forgotten: each sample of every replica merged so far has *)
(* a merged sample near it.  Near is the buffer for the last two streams   *)
(* and grows by the buffer with every further merge, because a sample that *)
(* stood for a neighbour may itself give way to one.                       *)
Near(t, u, n) == t - u <= n * call.buffer /\ u - t <= n * call.buffer
EveryReplicaCovered ==
  (pc = "done" /\ ~dynamic) =>
    \A r \in 1..replica : \A s \in Range(call.replicas[r]) :
      \E t \in Times(newValues) : Near(s.t, t, replica - 1)

(* anti_affinity_dynamic does not double a series: a gap of the longer     *)
(* stream is filled only if more than half of its gaps are shorter.  So    *)
(* where a replica scrapes at one interval without holes, another one that *)
(* does so with a skew, however large, contributes nothing in its range.   *)
Shorter(i) == {j \in 2..Len(a) : Gap(a, j) < Gap(a, i)}
DynamicNeverDoubles ==
  (pc = "done" /\ dynamic /\ Len(a) > MinDynamicGaps) =>
    \A i \in 2..Len(a), t \in Times(newValues) :
      (a[i - 1].t < t /\ t < a[i].t) => 2 * Cardinality(Shorter(i)) > Len(a) - 1
=============================================================================
