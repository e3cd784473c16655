--------------------------- MODULE MCSampleMerge ---------------------------
(* Instances of SampleMerge for TLC. *)
EXTENDS SampleMerge

(* The streams with samples at some of the given times. *)
StreamsAt(times, values) ==
  UNION {LET ts == SetToSortSeq(T, <) IN
         {[i \in 1..Len(ts) |-> [t |-> ts[i], v |-> f[ts[i]]]] : f \in [T -> values]}
         : T \in SUBSET times}

CallsOn(streams, buffers, dyn, pmax) ==
  [replicas : streams \X streams, buffer : buffers, dynamic : dyn, preferMax : pmax]

(* Every pattern of holes in two replicas over six time units. *)
HoleCalls == CallsOn(StreamsAt(0..5, {1}), 0..3, {FALSE}, {FALSE})

(* Every pattern of holes and values over four time units. *)
ValueCalls == CallsOn(StreamsAt(0..3, {1, 2}), 0..2, {FALSE}, BOOLEAN)

(* Four or five samples at a regular interval, from any start. *)
RegularStreams ==
  {[i \in 1..n |-> [t |-> start + i * d, v |-> 1]] :
     n \in 4..5, d \in {1, 2, 3, 4, 7}, start \in 0..13}
RegularCalls == CallsOn(RegularStreams, {1}, {TRUE}, {FALSE})

(* Every pattern of holes over seven time units for the dynamic estimate:  *)
(* even and uneven gaps, and streams with too few of their own.            *)
UnevenCalls == CallsOn(StreamsAt(0..6, {1}), {1}, {TRUE}, {FALSE})

(* Three replicas. *)
FoldStreams == StreamsAt(0..4, {1})
FoldCalls ==
  [replicas : FoldStreams \X FoldStreams \X FoldStreams, buffer : {1},
   dynamic : {FALSE}, preferMax : {FALSE}]

AllCalls == FoldCalls \cup HoleCalls \cup ValueCalls \cup RegularCalls \cup UnevenCalls
=============================================================================
