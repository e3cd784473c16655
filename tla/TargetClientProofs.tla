------------------------- MODULE TargetClientProofs -------------------------
(***************************************************************************)
(* Proofs about TargetClient for every configuration of a server group,    *)
(* every call and every set of series at the target.                       *)
(***************************************************************************)
EXTENDS TargetClient, FiniteSetTheorems, TLAPS

(* The clients a call passes on its way down, and its answer on its way up. *)
Down == {"labelfilter", "relabel", "addlabel", "inject", "relative", "absolute", "target"}
Up   == {"stepalign", "addlabel_up", "relabel_up", "group", "done"}

IsReply(r) == r = [from |-> r.from, err |-> r.err, warned |-> r.warned, data |-> r.data]

(* A call is one of Calls and keeps its operation, label, metric and step  *)
(* on its way down; nobody has answered it until it is on its way up.      *)
TypeInv ==
  /\ cfg \in Configs
  /\ data \in Datas
  /\ at \in Down \cup Up \cup {"idle", "panicked"}
  /\ at # "idle" => /\ call \in Calls
                    /\ IsRequest(req)
                    /\ req.op = call.op /\ req.label = call.label
                    /\ req.metric = call.metric /\ req.step = call.step
  /\ IsReply(reply)
  /\ at \in Down => reply = NoReply

(* The windows only narrow the range of a call, and a range query stays on *)
(* its own grid.                                                           *)
TimesNarrowed ==
  at # "idle" =>
    /\ req.start >= call.start /\ req.end <= call.end
    /\ call.op = "QueryRange" => (req.start - call.start) % call.step = 0

(* An error of the target is an error until the wrappers of the group. *)
FailureCarried ==
  (at \in Up \ {"done"} /\ reply.from = "failure") => reply.err

(* The points of a range answer are on the request's grid once             *)
(* StepAlignClient has moved them there, and causal all along.             *)
IsPoint(p) == /\ p = [lset |-> p.lset, t |-> p.t, v |-> p.v]
              /\ p.t \in Int /\ p.v \in Int /\ p.v <= p.t
OnGrid(t) == t >= call.start /\ (t - call.start) % call.step = 0
PointsOnGrid ==
  (at \in Up /\ call.op = "QueryRange") =>
    \A p \in reply.data :
      /\ IsPoint(p)
      /\ OnGrid(IF at = "stepalign" THEN p.t + Shift(call) ELSE p.t)

(* The strengthening of RangeOnRequestGrid and FailureIsVisible that every *)
(* step of the stack preserves.                                            *)
StackInvariant ==
  /\ TypeInv
  /\ TimesNarrowed
  /\ FailureCarried
  /\ PointsOnGrid
  /\ FailureIsVisible

---------------------------------------------------------------------------
(* Arithmetic of step grids.                                               *)

(* A number is on the grid of k exactly when it is a multiple of k. *)
LEMMA MultipleOf ==
  ASSUME NEW a \in Int, NEW k \in Nat \ {0}
  PROVE  a % k = 0 <=> \E q \in Int : a = q * k
<1>1. ASSUME a % k = 0 PROVE \E q \in Int : a = q * k
  <2>1. a \div k \in Int
    OBVIOUS
  <2>2. a = (a \div k) * k
    BY <1>1, <2>1, Z3
  <2> QED
    BY <2>1, <2>2
<1>2. \A q \in Int : (q * k) % k = 0
  OBVIOUS
<1> QED
  BY <1>1, <1>2

(* The remainder is the one number below k a multiple of k away. *)
LEMMA RemainderOf ==
  ASSUME NEW q \in Int, NEW k \in Nat \ {0}, NEW m \in 0..(k - 1)
  PROVE  (q * k + m) % k = m
<1>1. (q * k + m) \div k = q
  OBVIOUS
<1> QED
  BY <1>1

(* Sums and differences of multiples are multiples. *)
LEMMA GridAdd ==
  ASSUME NEW a \in Int, NEW b \in Int, NEW k \in Nat \ {0}, a % k = 0, b % k = 0
  PROVE  (a + b) % k = 0 /\ (a - b) % k = 0
<1>1. PICK q \in Int : a = q * k
  BY MultipleOf
<1>2. PICK r \in Int : b = r * k
  BY MultipleOf
<1>3. a + b = (q + r) * k /\ a - b = (q - r) * k
  BY <1>1, <1>2
<1>4. q + r \in Int /\ q - r \in Int /\ a + b \in Int /\ a - b \in Int
  OBVIOUS
<1> QED
  BY <1>3, <1>4, MultipleOf

(* The remainder of a division, and the grid point below a number. *)
LEMMA FloorOf ==
  ASSUME NEW a \in Int, NEW k \in Nat \ {0}
  PROVE  /\ a % k \in Nat /\ a % k < k
         /\ (a - (a % k)) % k = 0
<1>1. a % k \in 0..(k - 1)
  OBVIOUS
<1>2. (a - (a % k)) % k = 0
  OBVIOUS
<1> QED
  BY <1>1, <1>2

(* A later number has a later grid point below it. *)
LEMMA FloorMonotone ==
  ASSUME NEW a \in Int, NEW b \in Int, NEW k \in Nat \ {0}, a <= b
  PROVE  a - (a % k) <= b - (b % k)
OBVIOUS

(* StepAlignClient's shift, computed with Go's truncated remainder, is the *)
(* distance from the epoch grid up to the start of the request.            *)
LEMMA ShiftIsOffset ==
  ASSUME NEW r, IsRequest(r)
  PROVE  /\ Shift(r) \in Nat
         /\ r.op = "QueryRange" /\ cfg.align => Shift(r) = r.start % r.step
<1> DEFINE a == r.start
           k == r.step
<1>1. a \in Int /\ k \in Nat \ {0}
  BY DEF IsRequest
<1> HIDE DEF a, k
<1>2. (GoRem(a, k) + k) % k = a % k
  <2>1. CASE a >= 0
    <3>1. GoRem(a, k) = a % k
      BY <2>1 DEF GoRem
    <3>2. a % k \in 0..(k - 1)
      BY <1>1
    <3>3. ((a % k) + k) % k = a % k
      BY <1>1, <3>2
    <3> QED
      BY <3>1, <3>3
  <2>2. CASE a < 0
    <3>1. GoRem(a, k) = -((-a) % k)
      BY <1>1, <2>2 DEF GoRem
    <3> DEFINE m == (-a) % k
    <3>2. m \in Int /\ 0 <= m /\ m < k /\ ((-a) - m) % k = 0 /\ -a \in Int
      BY <1>1, FloorOf
    <3> HIDE DEF m
    <3>3. PICK q \in Int : (-a) - m = q * k
      BY <1>1, <3>2, MultipleOf
    <3>4. ASSUME m = 0 PROVE (-m + k) % k = a % k
      <4>1. a = (-q) * k + 0 /\ -m + k = 1 * k + 0
        BY <1>1, <3>3, <3>4
      <4>2. -q \in Int /\ 0 \in 0..(k - 1)
        BY <1>1
      <4>3. a % k = 0 /\ (-m + k) % k = 0
        BY <1>1, <4>1, <4>2, RemainderOf
      <4> QED
        BY <4>3
    <3>5. ASSUME m # 0 PROVE (-m + k) % k = a % k
      <4>1. a = (-q - 1) * k + (k - m) /\ -m + k = 0 * k + (k - m)
        BY <1>1, <3>2, <3>3
      <4>2. -q - 1 \in Int /\ k - m \in 0..(k - 1)
        BY <1>1, <3>2, <3>5
      <4>3. ((-q - 1) * k + (k - m)) % k = k - m
        BY <1>1, <4>2, RemainderOf
      <4>4. (0 * k + (k - m)) % k = k - m
        BY <1>1, <4>2, RemainderOf
      <4> QED
        BY <4>1, <4>3, <4>4
    <3>6. (-m + k) % k = a % k
      BY <3>4, <3>5
    <3> QED
      BY <3>1, <3>6 DEF m
  <2> QED
    BY <1>1, <2>1, <2>2
<1>3. a % k \in Nat
  BY <1>1, FloorOf
<1> QED
  BY <1>2, <1>3 DEF Shift, a, k

---------------------------------------------------------------------------
(* What the clients do to a request.                                       *)

(* The fields of a request other than its selector. *)
SameButSelector(q, r) ==
  /\ q.op = r.op /\ q.ranged = r.ranged /\ q.label = r.label /\ q.metric = r.metric
  /\ q.start = r.start /\ q.end = r.end /\ q.step = r.step

(* A request with another selector is a request. *)
LEMMA SelectorOnly ==
  ASSUME NEW r, IsRequest(r), NEW S
  PROVE  LET q == [r EXCEPT !.sel = S] IN
         IsRequest(q) /\ SameButSelector(q, r) /\ q.sel = S
<1> DEFINE q == [r EXCEPT !.sel = S]
<1>1. r = [op |-> r.op, sel |-> r.sel, ranged |-> r.ranged, label |-> r.label, metric |-> r.metric,
           start |-> r.start, end |-> r.end, step |-> r.step]
  BY DEF IsRequest
<1>2. q = [op |-> r.op, sel |-> S, ranged |-> r.ranged, label |-> r.label, metric |-> r.metric,
           start |-> r.start, end |-> r.end, step |-> r.step]
  BY <1>1
<1> HIDE DEF q
<1>3. SameButSelector(q, r) /\ q.sel = S
  BY <1>2 DEF SameButSelector
<1>4. IsRequest(q)
  BY <1>2, <1>3 DEF IsRequest, SameButSelector
<1> QED
  BY <1>3, <1>4 DEF q

(* Relabelling, added labels and injected matchers change the selector and *)
(* nothing else.                                                           *)
LEMMA SelectorClients ==
  ASSUME NEW r, IsRequest(r)
  PROVE  /\ IsRequest(RewriteRequest(r)) /\ SameButSelector(RewriteRequest(r), r)
         /\ IsRequest(StripAdded(r)) /\ SameButSelector(StripAdded(r), r)
         /\ IsRequest(Inject(r)) /\ SameButSelector(Inject(r), r)
<1>0. SameButSelector(r, r)
  BY DEF SameButSelector
<1>1. \A S : LET q == [r EXCEPT !.sel = S] IN IsRequest(q) /\ SameButSelector(q, r)
  BY SelectorOnly
<1>2. IsRequest(RewriteRequest(r)) /\ SameButSelector(RewriteRequest(r), r)
  BY <1>0, <1>1 DEF RewriteRequest
<1>3. IsRequest(StripAdded(r)) /\ SameButSelector(StripAdded(r), r)
  BY <1>0, <1>1 DEF StripAdded
<1>4. IsRequest(Inject(r)) /\ SameButSelector(Inject(r), r)
  BY <1>0, <1>1 DEF Inject
<1> QED
  BY <1>2, <1>3, <1>4

(* The windows of a configuration are windows. *)
LEMMA Windows ==
  ASSUME cfg \in Configs
  PROVE  IsWindow(RelativeWindow) /\ IsWindow(AbsoluteWindow)
<1>1. IsWindow(cfg.rel) /\ IsWindow(cfg.abs)
  BY ConfigsAssumption
<1>2. IsWindow(RelativeWindow)
  BY <1>1, TimesAssumption DEF RelativeWindow, IsWindow
<1> QED
  BY <1>1, <1>2 DEF AbsoluteWindow

(* The first step a window allows is on the request's grid, not before the *)
(* window, and no grid point of the window is before it.                   *)
LEMMA FirstStepOnGrid ==
  ASSUME NEW w, IsWindow(w), NEW r, IsRequest(r), w.start # Unset, r.start < w.start
  PROVE  /\ FirstStep(w, r) \in Int
         /\ w.start <= FirstStep(w, r)
         /\ (FirstStep(w, r) - r.start) % r.step = 0
         /\ \A t \in Int : w.start <= t /\ (t - r.start) % r.step = 0 => FirstStep(w, r) <= t
<1> DEFINE a == w.start - r.start
           k == r.step
           m == a % k
<1>1. a \in Int /\ k \in Nat \ {0} /\ w.start \in Int /\ r.start \in Int
  BY DEF IsWindow, IsRequest
<1>2. m \in Nat /\ m < k /\ a - m \in Int
  BY <1>1, FloorOf
<1>a. (a - m) % k = 0
  BY <1>1, FloorOf
<1>3. FirstStep(w, r) = IF m > 0 THEN w.start + k - m ELSE w.start
  BY DEF FirstStep
<1>4. FirstStep(w, r) \in Int /\ w.start <= FirstStep(w, r)
  <2> HIDE DEF m, k
  <2> QED
    BY <1>1, <1>2, <1>3
<1>5. (FirstStep(w, r) - r.start) % r.step = 0
  <2>1. k % k = 0
    BY <1>1
  <2>2. a - m \in Int
    BY <1>1, <1>2
  <2>3. ((a - m) + k) % k = 0
    BY <1>1, <1>a, <2>1, <2>2, GridAdd
  <2>4. m > 0 => FirstStep(w, r) - r.start = (a - m) + k
    <3> HIDE DEF m, k
    <3> QED
      BY <1>1, <1>2, <1>3
  <2>5. ~(m > 0) => FirstStep(w, r) - r.start = a - m
    <3> HIDE DEF m, k
    <3> QED
      BY <1>1, <1>2, <1>3
  <2> QED
    BY <1>a, <2>3, <2>4, <2>5
<1>6. ASSUME NEW t \in Int, w.start <= t, (t - r.start) % r.step = 0
      PROVE  FirstStep(w, r) <= t
  <2>1. a - m <= t - r.start
    <3>1. a <= t - r.start /\ t - r.start \in Int
      BY <1>1, <1>6
    <3>2. a - (a % k) <= (t - r.start) - ((t - r.start) % k)
      BY <1>1, <3>1, FloorMonotone
    <3> QED
      BY <1>6, <3>1, <3>2
  <2>2. CASE m > 0
    <3>1. PICK q \in Int : a - m = q * k
      BY <1>1, <1>2, <1>a, MultipleOf
    <3>a. t - r.start \in Int
      BY <1>1
    <3>2. PICK p \in Int : t - r.start = p * k
      BY <1>1, <1>6, <3>a, MultipleOf
    <3> HIDE DEF m, k
    <3>3. q * k < p * k
      BY <1>1, <1>2, <1>6, <2>2, <3>1, <3>2
    <3>4. q < p
      BY <1>1, <3>3
    <3>5. (q + 1) * k <= p * k
      BY <1>1, <3>4
    <3>6. (q + 1) * k = q * k + k
      BY <1>1
    <3> QED
      BY <1>1, <1>2, <1>3, <2>2, <3>1, <3>2, <3>5, <3>6
  <2>3. CASE ~(m > 0)
    BY <1>3, <1>6, <2>3
  <2> QED
    BY <2>2, <2>3
<1> QED
  BY <1>4, <1>5, <1>6

(* A window narrows a request to the part of its range the window allows;  *)
(* a range query keeps its grid.                                           *)
LEMMA TruncateNarrows ==
  ASSUME NEW w, IsWindow(w), NEW r, IsRequest(r)
  PROVE  LET q == Truncate(w, r) IN
         /\ IsRequest(q)
         /\ q.op = r.op /\ q.sel = r.sel /\ q.label = r.label
         /\ q.metric = r.metric /\ q.step = r.step
         /\ r.start <= q.start /\ q.end <= r.end
         /\ r.op = "QueryRange" => (q.start - r.start) % r.step = 0
         /\ r.op = "Query" => q = r
         /\ \A t \in Int : /\ r.start <= t /\ t <= r.end /\ InWindow(w, t)
                           /\ r.op = "QueryRange" => (t - r.start) % r.step = 0
                           => q.start <= t /\ t <= q.end
<1> DEFINE q == Truncate(w, r)
           S == IF w.start = Unset \/ r.start >= w.start THEN r.start
                ELSE IF r.op = "QueryRange" THEN FirstStep(w, r) ELSE w.start
           E == IF w.end = Unset \/ r.end <= w.end THEN r.end ELSE w.end
<1>0. /\ r = [op |-> r.op, sel |-> r.sel, ranged |-> r.ranged, label |-> r.label, metric |-> r.metric,
              start |-> r.start, end |-> r.end, step |-> r.step]
      /\ r.start \in Int /\ r.end \in Int /\ r.step \in Nat \ {0} /\ r.op \in Ops
      /\ r.ranged \in BOOLEAN /\ (r.ranged => r.op \in {"Query", "QueryRange"})
  BY DEF IsRequest
<1>1. CASE q = r
  <2>1. (r.start - r.start) % r.step = 0
    BY <1>0
  <2> HIDE DEF q
  <2>2. \A t \in Int : r.start <= t /\ t <= r.end => q.start <= t /\ t <= q.end
    BY <1>1
  <2>3. r.start <= q.start /\ q.end <= r.end
    BY <1>0, <1>1
  <2>4. r.op = "QueryRange" => (q.start - r.start) % r.step = 0
    BY <1>1, <2>1
  <2> QED
    BY <1>1, <2>2, <2>3, <2>4 DEF q
<1>2. CASE q # r
  <2>1. q = [r EXCEPT !.start = S, !.end = E] /\ r.op # "Query"
    BY <1>2 DEF Truncate
  <2>2. q = [op |-> r.op, sel |-> r.sel, ranged |-> r.ranged, label |-> r.label, metric |-> r.metric,
             start |-> S, end |-> E, step |-> r.step]
    BY <1>0, <2>1
  <2>3. ASSUME w.start # Unset, r.start < w.start
        PROVE  /\ FirstStep(w, r) \in Int
               /\ w.start <= FirstStep(w, r)
               /\ (FirstStep(w, r) - r.start) % r.step = 0
               /\ \A t \in Int : w.start <= t /\ (t - r.start) % r.step = 0
                                 => FirstStep(w, r) <= t
    BY <2>3, FirstStepOnGrid
  <2>4. S \in Int /\ r.start <= S
    BY <1>0, <2>3 DEF IsWindow
  <2>5. E \in Int /\ E <= r.end
    BY <1>0 DEF IsWindow
  <2>6. r.op = "QueryRange" => (S - r.start) % r.step = 0
    <3>1. (r.start - r.start) % r.step = 0
      BY <1>0
    <3>2. CASE w.start = Unset \/ r.start >= w.start
      BY <3>1, <3>2
    <3>3. CASE ~(w.start = Unset \/ r.start >= w.start)
      BY <1>0, <2>3, <3>3 DEF IsWindow
    <3> QED
      BY <3>2, <3>3
  <2>7. ASSUME NEW t \in Int, r.start <= t, t <= r.end, InWindow(w, t),
               r.op = "QueryRange" => (t - r.start) % r.step = 0
        PROVE  S <= t /\ t <= E
    <3>1. t <= E
      BY <1>0, <2>7 DEF InWindow
    <3>2. S <= t
      BY <1>0, <2>3, <2>7 DEF InWindow, IsWindow
    <3> QED
      BY <3>1, <3>2
  <2> HIDE DEF S, E, q
  <2>8. /\ q.op = r.op /\ q.sel = r.sel /\ q.ranged = r.ranged /\ q.label = r.label /\ q.metric = r.metric
        /\ q.step = r.step /\ q.start = S /\ q.end = E
    BY <2>2
  <2>9. IsRequest(q)
    BY <1>0, <2>2, <2>4, <2>5, <2>8 DEF IsRequest
  <2> QED
    BY <1>2, <2>1, <2>4, <2>5, <2>6, <2>7, <2>8, <2>9 DEF q
<1> QED
  BY <1>1, <1>2

---------------------------------------------------------------------------
(* The target's answer to a range query.                                   *)

(* The target answers on its own grid, which StepAlignClient's shift moves *)
(* onto the grid of the call, not before its start.                        *)
LEMMA TargetStepsOnGrid ==
  ASSUME IsRequest(call), call.op = "QueryRange",
         NEW r, IsRequest(r), r.step = call.step, call.start <= r.start,
         (r.start - call.start) % call.step = 0,
         NEW t \in TargetSteps(r)
  PROVE  t \in Int /\ OnGrid(t + Shift(call))
<1> DEFINE k == call.step
           c == call.start
           b == IF cfg.align THEN Floor(r.start, k) ELSE r.start
           o == IF cfg.align THEN Floor(c, k) ELSE c
<1>1. k \in Nat \ {0} /\ c \in Int /\ r.start \in Int
  BY DEF IsRequest
<1>2. \A e : Floor(e, k) = e - (e % k)
  BY DEF Floor
<1>3. /\ r.start - (r.start % k) \in Int /\ (r.start - (r.start % k)) % k = 0
      /\ c - (c % k) \in Int /\ (c - (c % k)) % k = 0
  <2>1. r.start % k \in Nat /\ c % k \in Nat
    BY <1>1, FloorOf
  <2>2. r.start - (r.start % k) \in Int /\ c - (c % k) \in Int
    BY <1>1, <2>1
  <2>3. (r.start - (r.start % k)) % k = 0
    BY <1>1, FloorOf
  <2>4. (c - (c % k)) % k = 0
    BY <1>1, FloorOf
  <2> QED
    BY <2>2, <2>3, <2>4
<1>4. b \in Int /\ o \in Int /\ o <= b /\ (b - o) % k = 0
  <2>1. CASE cfg.align
    <3>1. c - (c % k) <= r.start - (r.start % k)
      BY <1>1, FloorMonotone
    <3>2. ((r.start - (r.start % k)) - (c - (c % k))) % k = 0
      BY <1>1, <1>3, GridAdd
    <3> QED
      BY <1>2, <1>3, <2>1, <3>1, <3>2
  <2>2. CASE ~cfg.align
    BY <1>1, <2>2
  <2> QED
    BY <2>1, <2>2
<1>5. t \in Int /\ t >= b /\ (t - b) % k = 0
  BY <1>4 DEF TargetSteps, StepsFrom
<1>6. Shift(call) = c - o /\ Shift(call) \in Nat
  <2>1. CASE cfg.align
    <3>1. Shift(call) = c % k /\ c % k \in Nat
      BY <1>1, <2>1, ShiftIsOffset, FloorOf
    <3> QED
      BY <1>1, <1>2, <2>1, <3>1
  <2>2. CASE ~cfg.align
    BY <1>1, <2>2 DEF Shift
  <2> QED
    BY <2>1, <2>2
<1> HIDE DEF k, c, b, o
<1>7. t - b \in Int /\ b - o \in Int
  BY <1>4, <1>5
<1>8. ((t - b) + (b - o)) % k = 0
  BY <1>1, <1>4, <1>5, <1>7, GridAdd
<1>9. (t + Shift(call)) - c = (t - b) + (b - o) /\ t + Shift(call) >= c
  BY <1>1, <1>4, <1>5, <1>6
<1> QED
  BY <1>5, <1>8, <1>9 DEF OnGrid, k, c

(* Its points report a value taken no later than their step. *)
LEMMA TargetPoints ==
  ASSUME TypeInv, NEW r, r.op = "QueryRange", NEW p \in TargetData(r),
         \A t \in TargetSteps(r) : t \in Int
  PROVE  IsPoint(p) /\ p.t \in TargetSteps(r)
<1>0. /\ r.op \notin {"GetValue", "QueryExemplars"} /\ r.op # "Query" /\ r.op # "Series"
      /\ r.op # "LabelNames" /\ r.op # "LabelValues" /\ r.op # "Metadata"
  OBVIOUS
<1>1. TargetData(r) = RangeData(r)
  BY <1>0, Zenon DEF TargetData
<1>2. PICK s \in Held(r), t \in TargetSteps(r) : p \in PointsAt(s, t)
  BY <1>1 DEF RangeData
<1>3. PICK u \in AsOf(s, t) : p = [lset |-> s.lset, t |-> t, v |-> u]
  BY <1>2 DEF PointsAt
<1>4. u \in Int /\ u <= t
  BY <1>3, DatasAssumption DEF AsOf, Held, TypeInv, IsSeries
<1> QED
  BY <1>3, <1>4 DEF IsPoint

---------------------------------------------------------------------------
(* The invariant.                                                          *)

(* The actions by what they do: a client sends the request on, answers it  *)
(* with nothing, or passes an answer up.                                   *)
SendsOn ==
  FilterPasses \/ RelabelPasses \/ AddLabelPanics \/ AddLabelPasses \/ InjectPasses
    \/ RelativePasses \/ AbsolutePasses
Drops ==
  FilterDrops \/ RelabelDrops \/ AddLabelDrops \/ RelativeDrops \/ AbsoluteDrops
Returns == StepAlignReturns \/ AddLabelReturns \/ RelabelReturns \/ GroupReturns

(* A request that is sent on is one of the call's, with its range narrowed *)
(* by a window or left alone.                                              *)
LEMMA SentOn ==
  ASSUME TypeInv, SendsOn
  PROVE  /\ IsRequest(req')
         /\ req'.op = req.op /\ req'.label = req.label
         /\ req'.metric = req.metric /\ req'.step = req.step
         /\ req.start <= req'.start /\ req'.end <= req.end
         /\ req.op = "QueryRange" => (req'.start - req.start) % req.step = 0
         /\ at \in Down /\ at' \in (Down \ {"labelfilter"}) \cup {"panicked"}
         /\ UNCHANGED <<cfg, data, filter, seen, call, reply>>
<1>1. IsRequest(req) /\ at \in Down
  BY DEF TypeInv, SendsOn, FilterPasses, RelabelPasses, AddLabelPanics, AddLabelPasses,
         InjectPasses, RelativePasses, AbsolutePasses, Down
<1>2. at' \in (Down \ {"labelfilter"}) \cup {"panicked"} /\ UNCHANGED <<cfg, data, filter, seen, call, reply>>
  BY DEF SendsOn, FilterPasses, RelabelPasses, AddLabelPanics, AddLabelPasses,
         InjectPasses, RelativePasses, AbsolutePasses, SendOn, Down
<1>3. CASE req' \in {req, RewriteRequest(req), StripAdded(req), Inject(req)}
  <2>1. SameButSelector(req, req)
    BY DEF SameButSelector
  <2>2. IsRequest(req') /\ SameButSelector(req', req)
    BY <1>1, <1>3, <2>1, SelectorClients
  <2>3. req.start \in Int /\ req.end \in Int /\ req.step \in Nat \ {0}
    BY <1>1 DEF IsRequest
  <2>4. (req.start - req.start) % req.step = 0
    BY <2>3
  <2> QED
    BY <1>1, <1>2, <2>2, <2>3, <2>4 DEF SameButSelector
<1>4. CASE req' \in {Truncate(RelativeWindow, req), Truncate(AbsoluteWindow, req)}
  BY <1>1, <1>2, <1>4, Windows, TruncateNarrows DEF TypeInv
<1> QED
  BY <1>3, <1>4 DEF SendsOn, FilterPasses, RelabelPasses, AddLabelPanics, AddLabelPasses,
                    InjectPasses, RelativePasses, AbsolutePasses, SendOn

(* A client that drops a call answers with nothing. *)
LEMMA Unanswered ==
  ASSUME TypeInv, Drops
  PROVE  /\ at' \in Up \ {"done"} /\ at \in Down
         /\ IsReply(reply') /\ reply'.data = {} /\ reply'.err = FALSE
         /\ reply'.from \notin {"failure", "target"}
         /\ UNCHANGED <<cfg, data, filter, seen, call, req>>
BY DEF Drops, FilterDrops, RelabelDrops, AddLabelDrops, RelativeDrops, AbsoluteDrops,
       AnsweredBy, Nothing, NoReply, IsReply, Up, Down

(* An answer keeps its shape and its origin on the way up. *)
LEMMA Returned ==
  ASSUME TypeInv, Returns
  PROVE  /\ at \in Up \ {"done"} /\ at' \in Up \ {"stepalign"}
         /\ IsReply(reply') /\ reply'.from = reply.from
         /\ at' # "done" => reply'.err = reply.err
         /\ UNCHANGED <<cfg, data, filter, seen, call, req>>
<1>1. reply = [from |-> reply.from, err |-> reply.err, warned |-> reply.warned,
               data |-> reply.data]
  BY DEF TypeInv, IsReply
<1>2. CASE StepAlignReturns
  BY <1>1, <1>2 DEF StepAlignReturns, IsReply, Up
<1>3. CASE AddLabelReturns
  BY <1>1, <1>3 DEF AddLabelReturns, IsReply, Up
<1>4. CASE RelabelReturns
  BY <1>1, <1>4 DEF RelabelReturns, IsReply, Up
<1>5. CASE GroupReturns
  <2> DEFINE i == IgnoreError(reply)
  <2>1. i = [from |-> reply.from, err |-> i.err, warned |-> i.warned, data |-> reply.data]
    BY <1>1 DEF IgnoreError
  <2> DEFINE W == i.err /\ call.op \notin {"Metadata", "QueryExemplars"}
             F == FALSE
  <2> HIDE DEF i
  <2>a. DowngradeError(i) = IF cfg.downgrade THEN [i EXCEPT !.err = F, !.warned = W] ELSE i
    BY DEF DowngradeError
  <2> HIDE DEF W, F
  <2>2. PICK e, w : DowngradeError(i) = [from |-> reply.from, err |-> e,
                                         warned |-> w, data |-> reply.data]
    <3>1. CASE cfg.downgrade
      <4>1. DowngradeError(i) = [from |-> reply.from, err |-> F, warned |-> W,
                                 data |-> reply.data]
        <5>1. DowngradeError(i) = [i EXCEPT !.err = F, !.warned = W]
          BY <2>a, <3>1
        <5>2. PICK x, y : i = [from |-> reply.from, err |-> x, warned |-> y, data |-> reply.data]
          BY <2>1
        <5> QED
          BY <5>1, <5>2
      <4> QED
        BY <4>1
    <3>2. CASE ~cfg.downgrade
      BY <2>1, <2>a, <3>2
    <3> QED
      BY <3>1, <3>2
  <2>3. reply' = DowngradeError(i) /\ at = "group" /\ at' = "done"
        /\ UNCHANGED <<cfg, data, filter, seen, call, req>>
    BY <1>5 DEF GroupReturns, i
  <2> QED
    BY <2>2, <2>3 DEF IsReply, Up
<1> QED
  BY <1>2, <1>3, <1>4, <1>5 DEF Returns

(* Every step keeps requests requests and replies replies. *)
LEMMA TypeNext ==
  ASSUME TypeInv, [Next]_vars
  PROVE  TypeInv'
<1>1. CASE SendsOn
  BY <1>1, SentOn DEF TypeInv, Down
<1>2. CASE Drops
  BY <1>2, Unanswered DEF TypeInv, Down, Up
<1>3. CASE Returns
  BY <1>3, Returned DEF TypeInv, Down, Up
<1>4. CASE Call
  <2>1. call' \in Calls /\ IsRequest(call') /\ req' = call' /\ IsReply(NoReply)
    BY <1>4, CallsAssumption DEF Call, IsReply, NoReply
  <2> QED
    BY <1>4, <2>1 DEF Call, TypeInv, Down
<1>5. CASE TargetAnswers
  BY <1>5 DEF TargetAnswers, TypeInv, Nothing, NoReply, IsReply, Down, Up
<1>6. CASE TargetFails
  BY <1>6 DEF TargetFails, TypeInv, Nothing, NoReply, IsReply, Down, Up
<1>7. CASE Sync \/ TargetChanges \/ UNCHANGED vars
  <2>1. UNCHANGED <<cfg, call, req, at, reply>> /\ data' \in Datas
    BY <1>7 DEF Sync, TargetChanges, vars, TypeInv
  <2> QED
    BY <2>1 DEF TypeInv
<1> QED
  BY <1>1, <1>2, <1>3, <1>4, <1>5, <1>6, <1>7
     DEF Next, SendsOn, Drops, Returns, Panicked

(* Every step keeps the request inside the call's range and on its grid. *)
LEMMA TimesNext ==
  ASSUME TypeInv, TimesNarrowed, [Next]_vars
  PROVE  TimesNarrowed'
<1>1. CASE SendsOn
  <2>1. /\ at # "idle" /\ call \in Calls /\ call' = call
        /\ IsRequest(call) /\ IsRequest(req) /\ IsRequest(req')
        /\ req.op = call.op /\ req.step = call.step
    BY <1>1, SentOn, CallsAssumption DEF TypeInv, Down
  <2>2. /\ req.start <= req'.start /\ req'.end <= req.end
        /\ req.op = "QueryRange" => (req'.start - req.start) % req.step = 0
    BY <1>1, SentOn
  <2>3. /\ call.start <= req.start /\ req.end <= call.end
        /\ call.op = "QueryRange" => (req.start - call.start) % call.step = 0
    BY <2>1 DEF TimesNarrowed
  <2>4. /\ call.start \in Int /\ req.start \in Int /\ req'.start \in Int
        /\ call.end \in Int /\ req.end \in Int /\ req'.end \in Int
        /\ call.step \in Nat \ {0}
    BY <2>1 DEF IsRequest
  <2>5. ASSUME call.op = "QueryRange"
        PROVE  (req'.start - call.start) % call.step = 0
    <3>1. req'.start - req.start \in Int /\ req.start - call.start \in Int
      BY <2>4
    <3>2. ((req'.start - req.start) + (req.start - call.start)) % call.step = 0
      BY <2>1, <2>2, <2>3, <2>4, <2>5, <3>1, GridAdd
    <3>3. req'.start - call.start = (req'.start - req.start) + (req.start - call.start)
      BY <2>4
    <3> QED
      BY <3>2, <3>3
  <2>6. req'.start >= call.start /\ req'.end <= call.end
    BY <2>2, <2>3, <2>4
  <2> QED
    BY <2>1, <2>5, <2>6 DEF TimesNarrowed
<1>2. CASE Call
  <2>1. IsRequest(call') /\ req' = call'
    BY <1>2, CallsAssumption DEF Call
  <2>2. /\ call'.start \in Int /\ call'.end \in Int
        /\ (call'.start - call'.start) % call'.step = 0
    BY <2>1 DEF IsRequest
  <2> QED
    BY <2>1, <2>2 DEF TimesNarrowed
<1>3. CASE \/ Drops \/ Returns \/ TargetAnswers \/ TargetFails
           \/ Sync \/ TargetChanges \/ UNCHANGED vars
  <2>1. UNCHANGED <<call, req>> /\ (at' # "idle" => at # "idle")
    BY <1>3, Unanswered, Returned
       DEF TargetAnswers, TargetFails, Sync, TargetChanges, vars, Down, Up
  <2> QED
    BY <2>1 DEF TimesNarrowed
<1> QED
  BY <1>1, <1>2, <1>3 DEF Next, SendsOn, Drops, Returns, Panicked

(* No client below the group's wrappers loses the target's error. *)
LEMMA FailureNext ==
  ASSUME TypeInv, FailureCarried, [Next]_vars
  PROVE  FailureCarried'
<1>1. CASE SendsOn \/ Drops \/ Call
  BY <1>1, SentOn, Unanswered DEF Call, FailureCarried, Up, Down
<1>2. CASE Returns
  BY <1>2, Returned DEF FailureCarried
<1>3. CASE TargetAnswers
  BY <1>3 DEF TargetAnswers, FailureCarried, Nothing, NoReply
<1>4. CASE TargetFails
  BY <1>4 DEF TargetFails, FailureCarried, Nothing, NoReply
<1>5. CASE Sync \/ TargetChanges \/ UNCHANGED vars
  BY <1>5 DEF Sync, TargetChanges, vars, FailureCarried
<1> QED
  BY <1>1, <1>2, <1>3, <1>4, <1>5 DEF Next, SendsOn, Drops, Returns, Panicked

(* The wrappers around the group turn an error into nothing only when told *)
(* to ignore it, and into a warning when they downgrade it.                *)
LEMMA VisibleNext ==
  ASSUME TypeInv, FailureCarried, FailureIsVisible, [Next]_vars
  PROVE  FailureIsVisible'
<1>1. CASE at' # "done"
  BY <1>1 DEF FailureIsVisible
<1>2. CASE at' = "done" /\ at = "done"
  <2>1. UNCHANGED <<cfg, call, reply>>
    BY <1>2, SentOn, Unanswered, Returned DEF Next, SendsOn, Drops, Returns, Panicked, Call,
         TargetAnswers, TargetFails, Sync, TargetChanges, vars, Down, Up
  <2> QED
    BY <1>2, <2>1 DEF FailureIsVisible
<1>3. CASE at' = "done" /\ at # "done"
  <2>1. GroupReturns
    BY <1>3, SentOn, Unanswered DEF Next, SendsOn, Drops, Panicked, Call,
         TargetAnswers, TargetFails, Sync, TargetChanges, vars, Down,
         StepAlignReturns, AddLabelReturns, RelabelReturns
  <2> SUFFICES ASSUME reply'.from = "failure", ~cfg'.ignore,
                      cfg'.downgrade => call'.op \notin {"Metadata", "QueryExemplars"}
               PROVE  reply'.err \/ reply'.warned
    BY DEF FailureIsVisible
  <2>2. reply.from = "failure" /\ at = "group" /\ UNCHANGED <<cfg, call>>
    BY <2>1, Returned DEF Returns, GroupReturns
  <2>3. reply.err
    BY <2>2 DEF FailureCarried, Up
  <2>4. IgnoreError(reply) = reply /\ reply' = DowngradeError(reply)
    BY <2>1, <2>2 DEF GroupReturns, IgnoreError
  <2>5. CASE ~cfg.downgrade
    BY <2>3, <2>4, <2>5 DEF DowngradeError
  <2>6. CASE cfg.downgrade
    <3> DEFINE W == reply.err /\ call.op \notin {"Metadata", "QueryExemplars"}
    <3>1. reply' = [reply EXCEPT !.err = FALSE, !.warned = W]
      BY <2>4, <2>6 DEF DowngradeError
    <3>2. W
      BY <2>2, <2>3, <2>6
    <3> HIDE DEF W
    <3>3. reply'.warned = W
      BY <3>1 DEF TypeInv, IsReply
    <3> QED
      BY <3>2, <3>3
  <2> QED
    BY <2>5, <2>6
<1> QED
  BY <1>1, <1>2, <1>3

(* The points of a range answer reach the grid with StepAlignClient and    *)
(* stay there: the clients above change labels only.                       *)
LEMMA PointsNext ==
  ASSUME TypeInv, TimesNarrowed, PointsOnGrid, [Next]_vars
  PROVE  PointsOnGrid'
<1> SUFFICES ASSUME at' \in Up, call'.op = "QueryRange", NEW p \in reply'.data
             PROVE  /\ IsPoint(p)
                    /\ OnGrid(IF at = "stepalign" THEN p.t + Shift(call) ELSE p.t)'
  BY DEF PointsOnGrid
<1>0. ASSUME UNCHANGED <<cfg, call>>
      PROVE  Shift(call)' = Shift(call) /\ \A t : OnGrid(t)' <=> OnGrid(t)
  BY <1>0 DEF Shift, OnGrid
<1>1. CASE TargetAnswers
  <2>1. /\ at = "target" /\ at' = "stepalign" /\ p \in TargetData(req)
        /\ UNCHANGED <<cfg, call>>
    BY <1>1 DEF TargetAnswers, Nothing, NoReply
  <2>2. /\ IsRequest(call) /\ IsRequest(req)
        /\ req.op = "QueryRange" /\ call.op = "QueryRange" /\ req.step = call.step
    BY <2>1, CallsAssumption DEF TypeInv
  <2>3. call.start <= req.start /\ (req.start - call.start) % call.step = 0
    BY <2>1, <2>2 DEF TimesNarrowed, IsRequest
  <2>4. \A t \in TargetSteps(req) : t \in Int /\ OnGrid(t + Shift(call))
    BY <2>2, <2>3, TargetStepsOnGrid
  <2>5. IsPoint(p) /\ p.t \in TargetSteps(req)
    BY <2>1, <2>2, <2>4, TargetPoints
  <2> QED
    BY <1>0, <2>1, <2>4, <2>5
<1>2. CASE StepAlignReturns
  <2>1. /\ at = "stepalign" /\ at' = "addlabel_up" /\ UNCHANGED <<cfg, call>>
        /\ p \in Restamped(call, reply.data)
    BY <1>2 DEF StepAlignReturns, TypeInv, IsReply
  <2>2. \A d \in reply.data : IsPoint(d) /\ OnGrid(d.t + Shift(call))
    BY <2>1 DEF PointsOnGrid, Up
  <2>3. IsRequest(call) /\ Shift(call) \in Nat
    BY <2>1, CallsAssumption, ShiftIsOffset DEF TypeInv
  <2>4. CASE Shift(call) = 0
    BY <1>0, <2>1, <2>2, <2>4 DEF Restamped, IsPoint
  <2>5. CASE Shift(call) # 0
    <3>1. PICK d \in reply.data : p = [d EXCEPT !.t = d.t + Shift(call)]
      BY <2>1, <2>5 DEF Restamped
    <3>2. p = [lset |-> d.lset, t |-> d.t + Shift(call), v |-> d.v]
      BY <2>2, <3>1 DEF IsPoint
    <3>3. d.t \in Int /\ d.v \in Int /\ d.v <= d.t
      BY <2>2 DEF IsPoint
    <3>4. d.t + Shift(call) \in Int /\ d.v <= d.t + Shift(call)
      BY <2>3, <3>3
    <3> QED
      BY <1>0, <2>1, <2>2, <3>2, <3>3, <3>4 DEF IsPoint
  <2> QED
    BY <2>4, <2>5
<1>3. CASE AddLabelReturns \/ RelabelReturns
  <2>1. /\ at \in Up /\ at # "stepalign" /\ at' # "stepalign" /\ UNCHANGED <<cfg, call>>
    BY <1>3 DEF AddLabelReturns, RelabelReturns, Up
  <2>2. PICK d \in reply.data : p = d \/ \E l : p = [d EXCEPT !.lset = l]
    <3>1. call.op \in SeriesOps /\ \/ p \in reply.data
                                   \/ p \in Labelled(call, reply.data)
                                   \/ p \in Relabelled(call, reply.data)
      BY <1>3, <2>1 DEF AddLabelReturns, RelabelReturns, TypeInv, IsReply, SeriesOps
    <3>2. /\ Labelled(call, reply.data) = {[d EXCEPT !.lset = AddLabels(@)] : d \in reply.data}
          /\ Relabelled(call, reply.data) = {[d EXCEPT !.lset = RelabelLabels(@)] : d \in reply.data}
      <4>1. /\ call.op # "Series" /\ call.op # "LabelNames" /\ call.op # "LabelValues"
            /\ call.op # "Metadata"
        BY <2>1
      <4> QED
        BY <3>1, <4>1, Zenon DEF Labelled, Relabelled
    <3> QED
      BY <3>1, <3>2
  <2>3. IsPoint(d) /\ OnGrid(d.t)
    BY <2>1 DEF PointsOnGrid
  <2>4. p.t = d.t /\ IsPoint(p)
    BY <2>2, <2>3 DEF IsPoint
  <2> QED
    BY <1>0, <2>1, <2>3, <2>4
<1>4. CASE \/ GroupReturns \/ Sync \/ TargetChanges \/ UNCHANGED vars
  <2>1. /\ UNCHANGED <<cfg, call>> /\ reply'.data = reply.data
        /\ at \in Up /\ (at = "stepalign" <=> at' = "stepalign")
    <3>1. CASE GroupReturns
      BY <3>1 DEF GroupReturns, Up, TypeInv, IsReply, IgnoreError, DowngradeError
    <3>2. CASE Sync \/ TargetChanges \/ UNCHANGED vars
      BY <3>2 DEF Sync, TargetChanges, vars
    <3> QED
      BY <1>4, <3>1, <3>2
  <2> QED
    BY <1>0, <2>1 DEF PointsOnGrid
<1>5. CASE SendsOn \/ Drops \/ Call \/ TargetFails
  <2>1. at' \notin Up \/ reply'.data = {}
    BY <1>5, SentOn, Unanswered DEF Call, TargetFails, Nothing, NoReply, Up, Down
  <2> QED
    BY <2>1
<1> QED
  BY <1>1, <1>2, <1>3, <1>4, <1>5 DEF Next, SendsOn, Drops, Panicked

(* Nothing has been asked of the stack when it is built. *)
LEMMA StackInitially == Init => StackInvariant
<1> SUFFICES ASSUME Init PROVE StackInvariant
  OBVIOUS
<1>1. TypeInv
  BY DEF Init, TypeInv, NoReply, IsReply, Down
<1> QED
  BY <1>1 DEF Init, StackInvariant, TimesNarrowed, FailureCarried, PointsOnGrid,
              FailureIsVisible, Up

(* Every step of the stack preserves the invariant. *)
LEMMA StackNext ==
  ASSUME StackInvariant, [Next]_vars
  PROVE  StackInvariant'
BY TypeNext, TimesNext, FailureNext, VisibleNext, PointsNext DEF StackInvariant

(* Requests are narrowed and kept on their grid, answers are on it and     *)
(* failures are carried, in every state of every stack.                    *)
THEOREM StackInvariance == Spec => []StackInvariant
<1>1. StackInvariant /\ [Next]_vars => StackInvariant'
  BY StackNext
<1> QED
  BY StackInitially, <1>1, PTL DEF Spec

(* A range answer is on the grid of the caller's request and causal, for   *)
(* every start (before the epoch too), step, window, alignment and rule.   *)
THEOREM RangesOnGrid == Spec => []RangeOnRequestGrid
<1>1. StackInvariant => RangeOnRequestGrid
  BY DEF StackInvariant, PointsOnGrid, RangeOnRequestGrid, Up, IsPoint, OnGrid
<1> QED
  BY StackInvariance, <1>1, PTL

(* A target that failed is seen to have failed, whatever its group's       *)
(* configuration short of ignore_error.                                    *)
THEOREM FailuresVisible == Spec => []FailureIsVisible
<1>1. StackInvariant => FailureIsVisible
  BY DEF StackInvariant
<1> QED
  BY StackInvariance, <1>1, PTL

---------------------------------------------------------------------------
(* What a group without metric relabelling answers, for every              *)
(* configuration of the other clients, every call and every set of series: *)
(* what was asked for, all of it, and with a label filter that hides       *)
(* nothing it could know.                                                  *)

NoRules == cfg.relabel = <<>>

(* The call reached the target. *)
Reached == at = "target" \/ (at \in Up /\ reply.from = "target")

(* A time the windows above the target's allow, on the grid of a range     *)
(* query.                                                                  *)
GridTime(t) == call.op = "QueryRange" => (t - call.start) % call.step = 0
AllowedByRelative(t) == Requested(t) /\ GridTime(t) /\ InWindow(RelativeWindow, t)

(* The request covers every requested time the windows it passed allow; a  *)
(* window that drops the call allows none.                                 *)
TimesCovered ==
  /\ at \in {"labelfilter", "relabel", "addlabel", "inject", "relative"} =>
       req.start = call.start /\ req.end = call.end
  /\ at = "absolute" => \A t \in Int : AllowedByRelative(t) => req.start <= t /\ t <= req.end
  /\ Reached => \A t \in Int : Serves(t) /\ GridTime(t) => req.start <= t /\ t <= req.end
  /\ at \in Up /\ reply.from \in {"relative", "absolute"} =>
       \A t \in Int : GridTime(t) => ~Serves(t)
  /\ at # "idle" /\ call.op = "Query" => req.start = call.start

(* Below AddLabelClient a selector on the target's labels means what the   *)
(* caller's means on the presented ones, and below InjectMatchersClient    *)
(* also the scope of the group.                                            *)
Scope == IF call.op \in {"QueryExemplars", "Metadata"} THEN {} ELSE cfg.inject
Means(scope) ==
  call.op # "Metadata" =>
    \A l : /\ Selects(req.sel, l) => Selects(call.sel, AddLabels(l)) /\ Selects(scope, l)
           /\ /\ Name \in DOMAIN l /\ l[Name] # ""
              /\ call.op = "QueryExemplars" => NamesIn(call.sel) \cap DOMAIN cfg.add = {}
              /\ Selects(call.sel, AddLabels(l)) /\ Selects(scope, l)
              => Selects(req.sel, l)
SelectorKept ==
  NoRules =>
    /\ at \in {"labelfilter", "relabel", "addlabel"} => req.sel = call.sel
    /\ at = "inject" => Means({})
    /\ at \in {"relative", "absolute"} \/ Reached => Means(Scope)
    /\ at \in Up => reply.from # "relabel"
    /\ at \in Up /\ reply.from = "addlabel" => \A l : ~Selects(call.sel, AddLabels(l))

(* What the clients on the way up have made of the target's answer d. *)
Through(d) ==
  /\ at = "stepalign" => reply.data = d
  /\ at = "addlabel_up" => reply.data = Restamped(call, d)
  /\ at = "relabel_up" => reply.data = Labelled(call, Restamped(call, d))
  /\ at \in {"group", "done"} => reply.data = Relabelled(call, Labelled(call, Restamped(call, d)))
AnswerCarried ==
  at \in Up =>
    /\ reply.from \in Answerers
    /\ at # "done" => (reply.err <=> reply.from = "failure")
    /\ reply.from = "target" => Through(TargetData(req))
    /\ reply.from \in {"relative", "absolute"} => Through({})
    /\ reply.from = "addlabel" =>
         /\ at \in {"relabel_up", "group", "done"}
         /\ reply.data = IF at = "relabel_up" THEN {} ELSE Relabelled(call, {})
    /\ reply.from \in {"labelfilter", "relabel"} => at \in {"group", "done"}
    /\ reply.from \in {"labelfilter", "relabel", "failure"} => reply.data = {}

(* A synced filter knows every value the sync saw, or excludes it. *)
FilterKnows ==
  filter # NoFilter =>
    /\ cfg.lf # NoFilter
    /\ seen \in Datas
    /\ \A n \in DOMAIN filter : IsFiniteSet(filter[n])
    /\ \A s \in seen, n \in DOMAIN filter \cap cfg.lf.dynamic :
         /\ Selects(cfg.inject, s.lset) /\ (\E t \in s.at : SyncSaw(t))
         /\ n \in DOMAIN AddLabels(s.lset)
         => \/ AddLabels(s.lset)[n] \in filter[n]
            \/ n \in DOMAIN cfg.lf.exclude /\ AddLabels(s.lset)[n] \in cfg.lf.exclude[n]

ServedInvariant ==
  /\ StackInvariant
  /\ TimesCovered
  /\ SelectorKept
  /\ AnswerCarried
  /\ FilterKnows

---------------------------------------------------------------------------
(* A group keeps its configuration, and its filter between syncs. *)
LEMMA ConfigKept ==
  ASSUME [Next]_vars
  PROVE  cfg' = cfg /\ (Sync \/ UNCHANGED <<filter, seen>>)
BY DEF Next, vars, Sync, TargetChanges, Call, FilterDrops, FilterPasses, RelabelDrops,
       RelabelPasses, AddLabelDrops, AddLabelPanics, AddLabelPasses, InjectPasses, RelativeDrops,
       RelativePasses, AbsoluteDrops, AbsolutePasses, TargetAnswers, TargetFails, Panicked,
       StepAlignReturns, AddLabelReturns, RelabelReturns, GroupReturns, AnsweredBy, SendOn

---------------------------------------------------------------------------
(* A group without rules.                                                  *)

(* Folding no rules changes nothing. *)
LEMMA NothingRelabelled ==
  ASSUME NoRules
  PROVE  /\ \A l : RelabelLabels(l) = l
         /\ \A S : RewriteMatchers(S) = S
         /\ Dropped = {} /\ Renamed = {}
<1>1. DOMAIN << >> = {} /\ \A s \in SUBSET {} : s = {}
  OBVIOUS
<1>2. \A l : RelabelLabels(l) = l
  BY <1>1, Zenon DEF NoRules, RelabelLabels, FoldLeft, MapThenFoldSet
<1>3. \A m : FoldRight(RewriteMatcher, cfg.relabel, m) = m
  BY <1>1, Zenon DEF NoRules, FoldRight, MapThenFoldSet
<1>4. \A S : RewriteMatchers(S) = S
  BY <1>3 DEF RewriteMatchers
<1>5. Rules = {}
  BY <1>1 DEF NoRules, Rules
<1> QED
  BY <1>2, <1>4, <1>5 DEF Dropped, Renamed

(* Labels under the group's own. *)
LEMMA PresentedValue ==
  ASSUME NEW l, NEW n
  PROVE  /\ n \in DOMAIN cfg.add => ValueOf(AddLabels(l), n) = cfg.add[n]
         /\ n \notin DOMAIN cfg.add => ValueOf(AddLabels(l), n) = ValueOf(l, n)
         /\ DOMAIN AddLabels(l) = DOMAIN l \cup DOMAIN cfg.add
         /\ n \in DOMAIN cfg.add => AddLabels(l)[n] = cfg.add[n]
         /\ n \in DOMAIN l \ DOMAIN cfg.add => AddLabels(l)[n] = l[n]
BY DEF ValueOf, AddLabels

(* What AddLabelClient leaves of a selector it lets pass means what the    *)
(* caller's does on the labels the group presents.                         *)
LEMMA StripMeans ==
  ASSUME NEW r, IsRequest(r), r.op # "Metadata", ~Mismatched(r.sel), NEW l
  PROVE  /\ Selects(StripAdded(r).sel, l) => Selects(r.sel, AddLabels(l))
         /\ /\ Name \in DOMAIN l /\ l[Name] # ""
            /\ r.op = "QueryExemplars" => NamesIn(r.sel) \cap DOMAIN cfg.add = {}
            /\ Selects(r.sel, AddLabels(l))
            => Selects(StripAdded(r).sel, l)
<1> DEFINE kept == {m \in r.sel : m.name \notin DOMAIN cfg.add}
           S == StripAdded(r).sel
<1>1. /\ kept \subseteq S
      /\ S \subseteq kept \cup {AnyName} \/ (r.op = "QueryExemplars" /\ S = r.sel)
  <2>1. CASE r.op = "QueryExemplars"
    BY <2>1 DEF StripAdded
  <2>2. CASE r.op \in LabelOps
    <3>1. StripAdded(r) = [r EXCEPT !.sel = kept]
      BY <2>2 DEF StripAdded, LabelOps
    <3>2. S = kept
      BY <3>1, SelectorOnly
    <3> QED
      BY <3>2
  <2>3. CASE r.op # "QueryExemplars" /\ r.op \notin LabelOps
    <3> DEFINE K == IF kept = {} THEN {AnyName} ELSE kept
    <3>1. StripAdded(r) = [r EXCEPT !.sel = K]
      BY <2>3 DEF StripAdded
    <3>2. S = K
      BY <3>1, SelectorOnly
    <3> QED
      BY <3>2
  <2> QED
    BY <2>1, <2>2, <2>3
<1> HIDE DEF S
<1>2. ASSUME Selects(S, l), NEW m \in r.sel
      PROVE  Matches(m, ValueOf(AddLabels(l), m.name))
  <2>1. CASE m.name \in DOMAIN cfg.add
    <3>1. Matches(m, cfg.add[m.name])
      BY <2>1 DEF Mismatched
    <3>2. ValueOf(AddLabels(l), m.name) = cfg.add[m.name]
      BY <2>1, PresentedValue
    <3> QED
      BY <3>1, <3>2
  <2>2. CASE m.name \notin DOMAIN cfg.add
    <3>1. m \in S
      BY <1>1, <2>2
    <3>2. Matches(m, ValueOf(l, m.name))
      BY <1>2, <3>1 DEF Selects
    <3>3. ValueOf(AddLabels(l), m.name) = ValueOf(l, m.name)
      BY <2>2, PresentedValue, Zenon
    <3> QED
      BY <3>2, <3>3
  <2> QED
    BY <2>1, <2>2
<1>3. ASSUME Name \in DOMAIN l, l[Name] # "", NEW m \in S,
             r.op = "QueryExemplars" => NamesIn(r.sel) \cap DOMAIN cfg.add = {},
             Selects(r.sel, AddLabels(l))
      PROVE  Matches(m, ValueOf(l, m.name))
  <2>1. CASE m = AnyName
    BY <1>3, <2>1 DEF AnyName, Matches, Accepts, ValueOf
  <2>2. CASE m # AnyName
    <3>1. m \in r.sel /\ m.name \notin DOMAIN cfg.add
      BY <1>1, <1>3, <2>2 DEF NamesIn
    <3> QED
      BY <1>3, <3>1, PresentedValue DEF Selects
  <2> QED
    BY <2>1, <2>2
<1> QED
  BY <1>2, <1>3 DEF Selects, S

(* The request a client sends on without rules: the caller's selector down *)
(* to AddLabelClient, then one that means the same.                        *)
LEMMA SelectorNext ==
  ASSUME StackInvariant, SelectorKept, [Next]_vars
  PROVE  SelectorKept'
<1>0. TypeInv
  BY DEF StackInvariant
<1> SUFFICES ASSUME NoRules' PROVE
      /\ at' \in {"labelfilter", "relabel", "addlabel"} => req'.sel = call'.sel
      /\ at' = "inject" => Means({})'
      /\ (at \in {"relative", "absolute"} \/ Reached)' => Means(Scope)'
      /\ at' \in Up => reply'.from # "relabel"
      /\ at' \in Up /\ reply'.from = "addlabel" => (\A l : ~Selects(call.sel, AddLabels(l)))'
  BY DEF SelectorKept
<1>1. cfg' = cfg /\ NoRules
  BY ConfigKept DEF NoRules
<1>2. /\ at \in {"labelfilter", "relabel", "addlabel"} => req.sel = call.sel
      /\ at = "inject" => Means({})
      /\ at \in {"relative", "absolute"} \/ Reached => Means(Scope)
      /\ at \in Up => reply.from # "relabel"
      /\ at \in Up /\ reply.from = "addlabel" => \A l : ~Selects(call.sel, AddLabels(l))
  BY <1>1 DEF SelectorKept
<1>3. \A l : AddLabels(l)' = AddLabels(l)
  BY <1>1 DEF AddLabels
<1>4. ASSUME UNCHANGED <<call, req>>
      PROVE  (Means({})' <=> Means({})) /\ (Means(Scope)' <=> Means(Scope))
  BY <1>1, <1>3, <1>4 DEF Means, Scope
<1>5. CASE FilterPasses \/ Call
  BY <1>2, <1>5 DEF FilterPasses, Call, SendOn, Up, Reached
<1>6. CASE RelabelPasses
  <2>1. IsRequest(req) /\ req' = RewriteRequest(req) /\ at' = "addlabel" /\ call' = call
        /\ req.sel = call.sel
    BY <1>0, <1>2, <1>6 DEF RelabelPasses, SendOn, TypeInv
  <2>2. req'.sel = call.sel
    BY <1>1, <2>1, NothingRelabelled, SelectorOnly DEF RewriteRequest, RewriteSelector
  <2> QED
    BY <2>1, <2>2 DEF Up, Reached
<1>7. CASE AddLabelPasses
  <2>1. /\ IsRequest(req) /\ req' = StripAdded(req) /\ at' = "inject" /\ call' = call
        /\ req.sel = call.sel /\ req.op = call.op
    BY <1>0, <1>2, <1>7 DEF AddLabelPasses, SendOn, TypeInv
  <2>2. {m \in req.sel : ~Uncompiled(m)} = req.sel
    BY <2>1 DEF Uncompiled
  <2>3. req.op # "Metadata" => ~Mismatched(req.sel)
    BY <1>7, <2>2 DEF AddLabelPasses, AddLabelRejects
  <2>4. Means({})'
    BY <1>3, <1>1, <2>1, <2>3, StripMeans DEF Means, Selects
  <2> QED
    BY <2>1, <2>4 DEF Up, Reached
<1>8. CASE InjectPasses
  <2>1. /\ IsRequest(req) /\ req' = Inject(req) /\ at' = "relative" /\ call' = call
        /\ req.op = call.op /\ Means({})
    BY <1>0, <1>2, <1>8 DEF InjectPasses, SendOn, TypeInv
  <2>2. req'.sel = req.sel \cup Scope
    BY <2>1, SelectorOnly DEF Inject, Scope
  <2>3. \A l : Selects(req'.sel, l) <=> Selects(req.sel, l) /\ Selects(Scope, l)
    BY <2>2 DEF Selects
  <2>4. Scope' = Scope
    BY <1>1, <2>1 DEF Scope
  <2>a. \A l : Selects({}, l)
    BY DEF Selects
  <2>5. Means(Scope)'
    BY <1>3, <1>1, <2>1, <2>a, <2>3, <2>4 DEF Means
  <2> QED
    BY <2>1, <2>5 DEF Up, Reached
<1>9. CASE RelativePasses \/ AbsolutePasses
  <2>1. /\ IsRequest(req) /\ req' \in {Truncate(RelativeWindow, req), Truncate(AbsoluteWindow, req)}
        /\ at' \in {"absolute", "target"} /\ call' = call /\ Means(Scope)
    BY <1>0, <1>2, <1>9 DEF RelativePasses, AbsolutePasses, SendOn, TypeInv
  <2>2. req'.sel = req.sel
    BY <1>0, <2>1, Windows, TruncateNarrows DEF TypeInv
  <2>3. Means(Scope)'
    BY <1>3, <1>1, <2>1, <2>2 DEF Means, Scope
  <2> QED
    BY <2>1, <2>3 DEF Up, Reached
<1>10. CASE FilterDrops \/ RelativeDrops \/ AbsoluteDrops
  BY <1>10 DEF FilterDrops, RelativeDrops, AbsoluteDrops, AnsweredBy, Nothing, NoReply, Up, Reached
<1>11. CASE RelabelDrops
  <2>1. NoMatch \in call.sel /\ call \in Calls
    BY <1>0, <1>1, <1>2, <1>11, NothingRelabelled DEF RelabelDrops, RelabelRejects,
       RewriteSelector, TypeInv
  <2> QED
    BY <2>1, CallsAssumption DEF IsMatcher
<1>12. CASE AddLabelDrops
  <2>1. /\ at' = "relabel_up" /\ reply'.from = "addlabel" /\ UNCHANGED <<call, req>>
        /\ req.sel = call.sel
    BY <1>2, <1>12 DEF AddLabelDrops, AnsweredBy, Nothing, NoReply
  <2>2. PICK m \in call.sel : m.name \in DOMAIN cfg.add /\ ~Matches(m, cfg.add[m.name])
    BY <1>12, <2>1 DEF AddLabelDrops, AddLabelRejects, Mismatched
  <2>3. \A l : ~Selects(call.sel, AddLabels(l))
    <3>1. \A l : ValueOf(AddLabels(l), m.name) = cfg.add[m.name]
      BY <2>2, PresentedValue
    <3> QED
      BY <2>2, <3>1 DEF Selects
  <2> QED
    BY <1>3, <2>1, <2>3 DEF Up, Reached, Selects
<1>13. CASE TargetAnswers \/ TargetFails
  <2>1. UNCHANGED <<call, req>> /\ at = "target" /\ at' = "stepalign" /\ reply'.from \in {"target", "failure"}
    BY <1>13 DEF TargetAnswers, TargetFails, Nothing, NoReply
  <2> QED
    BY <1>2, <1>4, <2>1 DEF Up, Reached
<1>14. CASE Returns
  <2>1. /\ UNCHANGED <<call, req>> /\ at \in Up /\ at' \in Up /\ reply'.from = reply.from
        /\ at' \notin Down
    BY <1>0, <1>14, Returned DEF Up, Down
  <2> QED
    BY <1>2, <1>3, <1>4, <2>1 DEF Up, Down, Reached, Selects
<1>15. CASE Sync \/ TargetChanges \/ UNCHANGED vars
  <2>1. UNCHANGED <<call, req, at, reply>>
    BY <1>15 DEF Sync, TargetChanges, vars
  <2> QED
    BY <1>2, <1>3, <1>4, <2>1 DEF Reached, Selects
<1>16. CASE AddLabelPanics
  BY <1>16 DEF AddLabelPanics, SendOn, Up, Reached
<1> QED
  BY <1>5, <1>6, <1>7, <1>8, <1>9, <1>10, <1>11, <1>12, <1>13, <1>14, <1>15, <1>16
     DEF Next, Returns, Panicked

(* A window that drops a request allows none of the times it asks for. *)
LEMMA OutsideAllowsNone ==
  ASSUME NEW w, IsWindow(w), NEW r, IsRequest(r), Outside(w, r), NEW t \in Int,
         r.start <= t, t <= r.end
  PROVE  ~InWindow(w, t)
BY DEF Outside, InWindow, IsWindow, IsRequest

(* The request keeps covering what its windows allow. *)
LEMMA CoveredNext ==
  ASSUME StackInvariant, TimesCovered, [Next]_vars
  PROVE  TimesCovered'
<1>0. TypeInv /\ TimesNarrowed
  BY DEF StackInvariant
<1>1. cfg' = cfg
  BY ConfigKept
<1>2. RelativeWindow' = RelativeWindow /\ AbsoluteWindow' = AbsoluteWindow
      /\ IsWindow(RelativeWindow) /\ IsWindow(AbsoluteWindow)
  BY <1>0, <1>1, Windows DEF RelativeWindow, AbsoluteWindow, TypeInv
<1>3. ASSUME call' = call
      PROVE  \A t : /\ AllowedByRelative(t)' <=> AllowedByRelative(t)
                    /\ Serves(t)' <=> Serves(t)
                    /\ GridTime(t)' <=> GridTime(t)
  BY <1>2, <1>3 DEF AllowedByRelative, Serves, GridTime, Requested, InWindow
<1>a. \A t : Serves(t) /\ GridTime(t) <=> AllowedByRelative(t) /\ InWindow(AbsoluteWindow, t)
  BY DEF AllowedByRelative, Serves
<1>4. ASSUME at # "idle"
      PROVE  /\ IsRequest(req) /\ IsRequest(call) /\ req.op = call.op /\ req.step = call.step
             /\ call.op = "Query" => req.start = call.start
    BY <1>0, <1>4, CallsAssumption DEF TypeInv, TimesCovered
<1>5. CASE FilterPasses \/ RelabelPasses \/ AddLabelPasses \/ InjectPasses \/ AddLabelPanics
  <2>1. /\ at \in {"labelfilter", "relabel", "addlabel", "inject"} /\ call' = call
        /\ at' \in {"relabel", "addlabel", "inject", "relative", "panicked"}
        /\ req' \in {req, RewriteRequest(req), StripAdded(req), Inject(req)}
    BY <1>5 DEF FilterPasses, RelabelPasses, AddLabelPasses, InjectPasses, AddLabelPanics, SendOn
  <2>2. SameButSelector(req, req)
    BY DEF SameButSelector
  <2>3. req'.start = req.start /\ req'.end = req.end
    BY <1>4, <2>1, <2>2, SelectorClients DEF SameButSelector
  <2>4. req.start = call.start /\ req.end = call.end
    BY <2>1 DEF TimesCovered
  <2> QED
    BY <2>1, <2>3, <2>4 DEF TimesCovered, Reached, Up
<1>6. CASE Call
  BY <1>6 DEF Call, TimesCovered, Reached, Up
<1>7. CASE RelativePasses
  <2>1. /\ at = "relative" /\ at' = "absolute" /\ call' = call /\ req' = Truncate(RelativeWindow, req)
        /\ req.start = call.start /\ req.end = call.end
    BY <1>7 DEF RelativePasses, SendOn, TimesCovered
  <2>2. \A t \in Int : AllowedByRelative(t) => req'.start <= t /\ t <= req'.end
    BY <1>2, <1>4, <2>1, TruncateNarrows DEF AllowedByRelative, Requested, GridTime
  <2>3. call.op = "Query" => req'.start = call.start
    BY <1>2, <1>4, <2>1, TruncateNarrows
  <2> QED
    BY <1>3, <2>1, <2>2, <2>3 DEF TimesCovered, Reached, Up
<1>8. CASE AbsolutePasses
  <2>1. /\ at = "absolute" /\ at' = "target" /\ call' = call /\ req' = Truncate(AbsoluteWindow, req)
        /\ \A t \in Int : AllowedByRelative(t) => req.start <= t /\ t <= req.end
    BY <1>8 DEF AbsolutePasses, SendOn, TimesCovered
  <2>2. ASSUME NEW t \in Int, GridTime(t), call.op = "QueryRange"
        PROVE  (t - req.start) % req.step = 0
    <3>1. /\ call.start \in Int /\ req.start \in Int /\ call.step \in Nat \ {0}
          /\ req.step = call.step
      BY <1>4, <2>1 DEF IsRequest
    <3>2. (t - call.start) % call.step = 0 /\ (req.start - call.start) % call.step = 0
      BY <1>0, <2>1, <2>2 DEF GridTime, TimesNarrowed
    <3>3. t - call.start \in Int /\ req.start - call.start \in Int
      BY <3>1
    <3>4. ((t - call.start) - (req.start - call.start)) % call.step = 0
      BY <3>1, <3>2, <3>3, GridAdd
    <3>5. t - req.start = (t - call.start) - (req.start - call.start)
      BY <3>1
    <3> QED
      BY <3>1, <3>4, <3>5
  <2>3. \A t \in Int : Serves(t) /\ GridTime(t) => req'.start <= t /\ t <= req'.end
    BY <1>2, <1>4, <1>a, <2>1, <2>2, TruncateNarrows DEF AllowedByRelative
  <2>4. call.op = "Query" => req'.start = call.start
    BY <1>2, <1>4, <2>1, TruncateNarrows
  <2> QED
    BY <1>3, <2>1, <2>3, <2>4 DEF TimesCovered, Reached, Up
<1>9. CASE RelativeDrops \/ AbsoluteDrops
  <2>1. /\ at' = "stepalign" /\ UNCHANGED <<call, req>> /\ reply'.from \in {"relative", "absolute"}
        /\ at \in {"relative", "absolute"}
    BY <1>9 DEF RelativeDrops, AbsoluteDrops, AnsweredBy, Nothing, NoReply
  <2>2. \A t \in Int : GridTime(t) => ~Serves(t)
    <3>1. CASE RelativeDrops
      <4>1. at = "relative" /\ Outside(RelativeWindow, req)
        BY <3>1 DEF RelativeDrops
      <4>2. req.start = call.start /\ req.end = call.end
        BY <4>1 DEF TimesCovered
      <4> QED
        BY <1>2, <1>4, <4>1, <4>2, OutsideAllowsNone DEF Serves, Requested
    <3>2. CASE AbsoluteDrops
      <4>1. at = "absolute" /\ Outside(AbsoluteWindow, req)
        BY <3>2 DEF AbsoluteDrops
      <4>2. \A t \in Int : AllowedByRelative(t) => req.start <= t /\ t <= req.end
        BY <4>1 DEF TimesCovered
      <4> QED
        BY <1>2, <1>4, <1>a, <4>1, <4>2, OutsideAllowsNone
    <3> QED
      BY <1>9, <3>1, <3>2
  <2> QED
    BY <1>3, <1>4, <2>1, <2>2 DEF TimesCovered, Reached, Up
<1>10. CASE FilterDrops \/ RelabelDrops \/ AddLabelDrops
  <2>1. /\ at' \in {"group", "relabel_up"} /\ UNCHANGED <<call, req>> /\ at # "idle"
        /\ reply'.from \in {"labelfilter", "relabel", "addlabel"}
    BY <1>10 DEF FilterDrops, RelabelDrops, AddLabelDrops, AnsweredBy, Nothing, NoReply
  <2> QED
    BY <1>4, <2>1 DEF TimesCovered, Reached, Up
<1>11. CASE TargetAnswers \/ TargetFails
  <2>1. /\ UNCHANGED <<call, req>> /\ at = "target" /\ at' = "stepalign"
        /\ reply'.from \in {"target", "failure"}
    BY <1>11 DEF TargetAnswers, TargetFails, Nothing, NoReply
  <2>2. \A t \in Int : Serves(t) /\ GridTime(t) => req.start <= t /\ t <= req.end
    BY <2>1 DEF TimesCovered, Reached
  <2> QED
    BY <1>3, <1>4, <2>1, <2>2 DEF TimesCovered, Reached, Up
<1>12. CASE Returns
  <2>1. /\ UNCHANGED <<call, req>> /\ at \in Up /\ at' \in Up /\ reply'.from = reply.from
        /\ at' \notin Down
    BY <1>0, <1>12, Returned DEF Up, Down
  <2>2. /\ reply.from = "target" =>
             \A t \in Int : Serves(t) /\ GridTime(t) => req.start <= t /\ t <= req.end
        /\ reply.from \in {"relative", "absolute"} => \A t \in Int : GridTime(t) => ~Serves(t)
    BY <2>1 DEF TimesCovered, Reached
  <2> QED
    BY <1>3, <1>4, <2>1, <2>2 DEF TimesCovered, Reached, Up, Down
<1>13. CASE Sync \/ TargetChanges \/ UNCHANGED vars
  <2>1. UNCHANGED <<call, req, at, reply>>
    BY <1>13 DEF Sync, TargetChanges, vars
  <2> QED
    BY <1>3, <2>1 DEF TimesCovered, Reached
<1> QED
  BY <1>5, <1>6, <1>7, <1>8, <1>9, <1>10, <1>11, <1>12, <1>13 DEF Next, Returns, Panicked

(* The clients on the way up do to the target's answer what Through says.  *)
LEMMA CarriedNext ==
  ASSUME StackInvariant, AnswerCarried, [Next]_vars
  PROVE  AnswerCarried'
<1>0. TypeInv
  BY DEF StackInvariant
<1>1. reply = [from |-> reply.from, err |-> reply.err, warned |-> reply.warned, data |-> reply.data]
  BY <1>0 DEF TypeInv, IsReply
<1>2. ASSUME UNCHANGED <<cfg, call>>
      PROVE  /\ \A d : Restamped(call, d)' = Restamped(call, d)
             /\ \A d : Labelled(call, d)' = Labelled(call, d)
             /\ \A d : Relabelled(call, d)' = Relabelled(call, d)
  <2>1. Shift(call)' = Shift(call)
    BY <1>2 DEF Shift
  <2>2. \A l : AddLabels(l)' = AddLabels(l) /\ RelabelLabels(l)' = RelabelLabels(l)
    BY <1>2, Zenon DEF AddLabels, RelabelLabels
  <2>3. \A d : Restamped(call, d)' = Restamped(call, d)
    BY <1>2, <2>1 DEF Restamped
  <2>4. \A d : Labelled(call, d)' = Labelled(call, d)
    BY <1>2, <2>2, Zenon DEF Labelled
  <2>5. \A d : Relabelled(call, d)' = Relabelled(call, d)
    BY <1>2, <2>2, Zenon DEF Relabelled
  <2> QED
    BY <2>3, <2>4, <2>5
<1>3. ASSUME UNCHANGED <<cfg, data, req>>
      PROVE  TargetData(req)' = TargetData(req)
  <2>1. Held(req)' = Held(req)
    BY <1>3 DEF Held
  <2>2. HeldIn(req)' = HeldIn(req)
    BY <1>3, <2>1 DEF HeldIn
  <2>3. TargetSteps(req)' = TargetSteps(req)
    BY <1>3 DEF TargetSteps
  <2>4. InstantData(req)' = InstantData(req)
    BY <1>3, <2>1, Zenon DEF InstantData
  <2>5. RangeData(req)' = RangeData(req)
    BY <2>1, <2>3 DEF RangeData
  <2>6. RawData(req)' = RawData(req)
    BY <1>3, <2>1 DEF RawData
  <2> QED
    BY <1>3, <2>2, <2>4, <2>5, <2>6, Zenon DEF TargetData
<1>4. CASE SendsOn \/ Call
  <2>1. at' \notin Up
    BY <1>0, <1>4, SentOn DEF Call, Up, Down
  <2> QED
    BY <2>1 DEF AnswerCarried
<1>5. CASE Drops
  <2>1. /\ reply'.data = {} /\ reply'.err = FALSE /\ at' \in Up
    BY <1>0, <1>5, Unanswered
  <2>2. \/ at' = "group" /\ reply'.from \in {"labelfilter", "relabel"}
        \/ at' = "relabel_up" /\ reply'.from = "addlabel"
        \/ at' = "stepalign" /\ reply'.from \in {"relative", "absolute"}
    BY <1>5 DEF Drops, FilterDrops, RelabelDrops, AddLabelDrops, RelativeDrops, AbsoluteDrops,
       AnsweredBy, Nothing, NoReply
  <2> QED
    BY <2>1, <2>2 DEF AnswerCarried, Answerers, Through
<1>6. CASE TargetAnswers
  <2>1. /\ at' = "stepalign" /\ reply'.data = TargetData(req) /\ reply'.from = "target"
        /\ reply'.err = FALSE /\ UNCHANGED <<cfg, data, req>>
    BY <1>6 DEF TargetAnswers, Nothing, NoReply
  <2> QED
    BY <1>3, <2>1 DEF AnswerCarried, Answerers, Through
<1>7. CASE TargetFails
  <2>1. /\ at' = "stepalign" /\ reply'.data = {} /\ reply'.from = "failure"
        /\ reply'.err = TRUE
    BY <1>7 DEF TargetFails, Nothing, NoReply
  <2> QED
    BY <2>1 DEF AnswerCarried, Answerers, Through
<1>8. CASE Returns
  <2>1. /\ UNCHANGED <<cfg, data, call, req>> /\ at \in Up /\ at' \in Up /\ at # "done"
        /\ reply'.from = reply.from /\ (at' # "done" => reply'.err = reply.err)
    BY <1>0, <1>8, Returned DEF Up, Down
  <2>2. /\ reply.from \in Answerers
        /\ reply.err <=> reply.from = "failure"
        /\ reply.from = "target" => Through(TargetData(req))
        /\ reply.from \in {"relative", "absolute"} => Through({})
        /\ reply.from = "addlabel" =>
             /\ at \in {"relabel_up", "group", "done"}
             /\ reply.data = IF at = "relabel_up" THEN {} ELSE Relabelled(call, {})
        /\ reply.from \in {"labelfilter", "relabel"} => at \in {"group", "done"}
        /\ reply.from \in {"labelfilter", "relabel", "failure"} => reply.data = {}
    BY <2>1 DEF AnswerCarried
  <2>3. CASE StepAlignReturns
    <3>1. at = "stepalign" /\ at' = "addlabel_up" /\ reply'.data = Restamped(call, reply.data)
      BY <1>1, <2>3 DEF StepAlignReturns
    <3>2. Restamped(call, {}) = {}
      BY DEF Restamped
    <3>3. \A d : Through(d) => Through(d)'
      BY <1>2, <2>1, <3>1 DEF Through
    <3> QED
      BY <1>2, <1>3, <2>1, <2>2, <3>1, <3>2, <3>3 DEF AnswerCarried
  <2>4. CASE AddLabelReturns
    <3>1. at = "addlabel_up" /\ at' = "relabel_up"
      BY <2>4 DEF AddLabelReturns
    <3>2. reply'.data = IF reply.from = "failure" THEN reply.data ELSE Labelled(call, reply.data)
      BY <1>1, <2>2, <2>4 DEF AddLabelReturns
    <3>3. ASSUME NEW d, Through(d), reply.from # "failure" PROVE Through(d)'
      BY <1>2, <2>1, <3>1, <3>2, <3>3 DEF Through
    <3> QED
      BY <1>2, <1>3, <2>1, <2>2, <3>1, <3>2, <3>3 DEF AnswerCarried
  <2>5. CASE RelabelReturns
    <3>1. at = "relabel_up" /\ at' = "group"
      BY <2>5 DEF RelabelReturns
    <3>2. reply'.data = IF reply.from = "failure" THEN reply.data ELSE Relabelled(call, reply.data)
      BY <1>1, <2>2, <2>5 DEF RelabelReturns
    <3>3. ASSUME NEW d, Through(d), reply.from # "failure" PROVE Through(d)'
      BY <1>2, <2>1, <3>1, <3>2, <3>3 DEF Through
    <3> QED
      BY <1>2, <1>3, <2>1, <2>2, <3>1, <3>2, <3>3 DEF AnswerCarried
  <2>6. CASE GroupReturns
    <3>1. at = "group" /\ at' = "done" /\ reply'.data = reply.data
      BY <1>1, <2>6 DEF GroupReturns, IgnoreError, DowngradeError
    <3>2. \A d : Through(d) => Through(d)'
      BY <1>2, <2>1, <3>1 DEF Through
    <3> QED
      BY <1>2, <1>3, <2>1, <2>2, <3>1, <3>2 DEF AnswerCarried
  <2> QED
    BY <1>8, <2>3, <2>4, <2>5, <2>6 DEF Returns
<1>9. CASE TargetChanges
  <2>1. at \notin Up /\ at' = at
    BY <1>9 DEF TargetChanges, AnswerCarried, Answerers, NoReply
  <2> QED
    BY <2>1 DEF AnswerCarried
<1>10. CASE Sync \/ UNCHANGED vars
  <2>1. UNCHANGED <<cfg, data, call, req, at, reply>>
    BY <1>10 DEF Sync, vars
  <2>2. \A d : Through(d) <=> Through(d)'
    BY <1>2, <2>1 DEF Through
  <2> QED
    BY <1>2, <1>3, <2>1, <2>2 DEF AnswerCarried
<1> QED
  BY <1>4, <1>5, <1>6, <1>7, <1>8, <1>9, <1>10 DEF Next, SendsOn, Drops, Returns, Panicked

---------------------------------------------------------------------------
(* What the stack does with an answer, operation by operation.             *)

(* A target answers each operation with its own kind of data. *)
LEMMA TargetOf ==
  ASSUME NEW r
  PROVE  /\ r.op = "Query" => TargetData(r) = InstantData(r)
         /\ r.op = "QueryRange" => TargetData(r) = RangeData(r)
         /\ r.op \in {"GetValue", "QueryExemplars"} => TargetData(r) = RawData(r)
         /\ r.op = "Series" => TargetData(r) = {s.lset : s \in HeldIn(r)}
         /\ r.op = "LabelNames" => TargetData(r) = UNION {DOMAIN s.lset : s \in HeldIn(r)}
         /\ r.op = "LabelValues" =>
              TargetData(r) = {s.lset[r.label] : s \in {h \in HeldIn(r) : r.label \in DOMAIN h.lset}}
<1>1. ASSUME r.op = "Query" PROVE TargetData(r) = InstantData(r)
  <2>1. /\ r.op \notin {"GetValue", "QueryExemplars"} /\ r.op # "QueryRange" /\ r.op # "Series"
        /\ r.op # "LabelNames" /\ r.op # "LabelValues" /\ r.op # "Metadata"
    BY <1>1
  <2> QED
    BY <1>1, <2>1, Zenon DEF TargetData
<1>2. ASSUME r.op = "QueryRange" PROVE TargetData(r) = RangeData(r)
  <2>1. /\ r.op \notin {"GetValue", "QueryExemplars"} /\ r.op # "Query" /\ r.op # "Series"
        /\ r.op # "LabelNames" /\ r.op # "LabelValues" /\ r.op # "Metadata"
    BY <1>2
  <2> QED
    BY <1>2, <2>1, Zenon DEF TargetData
<1>3. ASSUME r.op \in {"GetValue", "QueryExemplars"} PROVE TargetData(r) = RawData(r)
  <2>1. /\ r.op # "QueryRange" /\ r.op # "Query" /\ r.op # "Series"
        /\ r.op # "LabelNames" /\ r.op # "LabelValues" /\ r.op # "Metadata"
    BY <1>3
  <2> QED
    BY <1>3, <2>1, Zenon DEF TargetData
<1>4. ASSUME r.op = "Series" PROVE TargetData(r) = {s.lset : s \in HeldIn(r)}
  <2>1. /\ r.op \notin {"GetValue", "QueryExemplars"} /\ r.op # "Query" /\ r.op # "QueryRange"
        /\ r.op # "LabelNames" /\ r.op # "LabelValues" /\ r.op # "Metadata"
    BY <1>4
  <2> QED
    BY <1>4, <2>1, Zenon DEF TargetData
<1>5. ASSUME r.op = "LabelNames" PROVE TargetData(r) = UNION {DOMAIN s.lset : s \in HeldIn(r)}
  <2>1. /\ r.op \notin {"GetValue", "QueryExemplars"} /\ r.op # "Query" /\ r.op # "QueryRange"
        /\ r.op # "Series" /\ r.op # "LabelValues" /\ r.op # "Metadata"
    BY <1>5
  <2> QED
    BY <1>5, <2>1, Zenon DEF TargetData
<1>6. ASSUME r.op = "LabelValues"
      PROVE  TargetData(r) = {s.lset[r.label] : s \in {h \in HeldIn(r) : r.label \in DOMAIN h.lset}}
  <2>1. /\ r.op \notin {"GetValue", "QueryExemplars"} /\ r.op # "Query" /\ r.op # "QueryRange"
        /\ r.op # "Series" /\ r.op # "LabelNames" /\ r.op # "Metadata"
    BY <1>6
  <2> QED
    BY <1>6, <2>1, Zenon DEF TargetData
<1> QED
  BY <1>1, <1>2, <1>3, <1>4, <1>5, <1>6

(* AddLabelClient puts the group's labels on each kind. *)
LEMMA LabelledOf ==
  ASSUME NEW r, NEW d
  PROVE  /\ r.op \in SeriesOps => Labelled(r, d) = {[p EXCEPT !.lset = AddLabels(@)] : p \in d}
         /\ r.op = "Series" => Labelled(r, d) = {AddLabels(l) : l \in d}
         /\ r.op = "LabelNames" => Labelled(r, d) = d \cup DOMAIN cfg.add
         /\ r.op = "LabelValues" =>
              Labelled(r, d) = d \cup {cfg.add[n] : n \in DOMAIN cfg.add \cap {r.label}}
<1>1. ASSUME r.op \in SeriesOps
      PROVE  Labelled(r, d) = {[p EXCEPT !.lset = AddLabels(@)] : p \in d}
  <2>1. r.op # "Series" /\ r.op # "LabelNames" /\ r.op # "LabelValues" /\ r.op # "Metadata"
    BY <1>1 DEF SeriesOps
  <2> QED
    BY <1>1, <2>1, Zenon DEF Labelled
<1>2. ASSUME r.op = "Series" PROVE Labelled(r, d) = {AddLabels(l) : l \in d}
  <2>1. r.op \notin SeriesOps /\ r.op # "LabelNames" /\ r.op # "LabelValues" /\ r.op # "Metadata"
    BY <1>2 DEF SeriesOps
  <2> QED
    BY <1>2, <2>1, Zenon DEF Labelled
<1>3. ASSUME r.op = "LabelNames" PROVE Labelled(r, d) = d \cup DOMAIN cfg.add
  <2>1. r.op \notin SeriesOps /\ r.op # "Series" /\ r.op # "LabelValues" /\ r.op # "Metadata"
    BY <1>3 DEF SeriesOps
  <2> QED
    BY <1>3, <2>1, Zenon DEF Labelled
<1>4. ASSUME r.op = "LabelValues"
      PROVE  Labelled(r, d) = d \cup {cfg.add[n] : n \in DOMAIN cfg.add \cap {r.label}}
  <2>1. r.op \notin SeriesOps /\ r.op # "Series" /\ r.op # "LabelNames" /\ r.op # "Metadata"
    BY <1>4 DEF SeriesOps
  <2> QED
    BY <1>4, <2>1, Zenon DEF Labelled
<1> QED
  BY <1>1, <1>2, <1>3, <1>4

(* Without rules, relabelling leaves each kind as it is. *)
LEMMA RelabelledOf ==
  ASSUME NoRules, NEW r, NEW d
  PROVE  /\ r.op \in SeriesOps => Relabelled(r, d) = {[p EXCEPT !.lset = @] : p \in d}
         /\ r.op \in {"Series", "LabelNames", "LabelValues"} => Relabelled(r, d) = d
<1>0. \A l : RelabelLabels(l) = l
  BY NothingRelabelled
<1>1. ASSUME r.op \in SeriesOps
      PROVE  Relabelled(r, d) = {[p EXCEPT !.lset = @] : p \in d}
  <2>1. r.op # "Series" /\ r.op # "LabelNames"
    BY <1>1 DEF SeriesOps
  <2>2. Relabelled(r, d) = {[p EXCEPT !.lset = RelabelLabels(@)] : p \in d}
    BY <1>1, <2>1, Zenon DEF Relabelled
  <2> QED
    BY <1>0, <2>2, Zenon
<1>2. ASSUME r.op = "Series" PROVE Relabelled(r, d) = d
  <2>1. r.op \notin SeriesOps /\ r.op # "LabelNames"
    BY <1>2 DEF SeriesOps
  <2>2. Relabelled(r, d) = {RelabelLabels(l) : l \in d}
    BY <1>2, <2>1, Zenon DEF Relabelled
  <2> QED
    BY <1>0, <2>2
<1>3. ASSUME r.op = "LabelNames" PROVE Relabelled(r, d) = d
  <2>1. r.op \notin SeriesOps /\ r.op # "Series"
    BY <1>3 DEF SeriesOps
  <2>2. Relabelled(r, d) = DOMAIN RelabelLabels([n \in d |-> "placeholder"])
    BY <1>3, <2>1, Zenon DEF Relabelled
  <2> QED
    BY <1>0, <2>2
<1>4. ASSUME r.op = "LabelValues" PROVE Relabelled(r, d) = d
  <2>1. r.op \notin SeriesOps /\ r.op # "Series" /\ r.op # "LabelNames"
    BY <1>4 DEF SeriesOps
  <2> QED
    BY <1>4, <2>1, Zenon DEF Relabelled
<1> QED
  BY <1>1, <1>2, <1>3, <1>4

---------------------------------------------------------------------------
(* What a sync learns.                                                     *)

(* A sync asks for the values of a label in the group's scope. *)
LEMMA SyncAsks ==
  ASSUME cfg \in Configs, cfg.lf # NoFilter, NEW n
  PROVE  LET r == Inject(StripAdded(SyncRequest(n))) IN
         /\ IsRequest(r) /\ r.op = "LabelValues" /\ r.label = n /\ r.sel = cfg.inject
         /\ r.end = Now
         /\ r.start = IF cfg.lf.lookback > 0 THEN Now - cfg.lf.lookback ELSE 0
<1> DEFINE q == SyncRequest(n)
           p == StripAdded(q)
           r == Inject(p)
           B == IF cfg.lf.lookback > 0 THEN Now - cfg.lf.lookback ELSE 0
<1>1. B \in Int /\ Now \in Int
  BY ConfigsAssumption, TimesAssumption
<1>2. q = [op |-> "LabelValues", sel |-> {}, ranged |-> FALSE, label |-> n, metric |-> "",
           step |-> 1, end |-> Now, start |-> B]
  BY DEF SyncRequest
<1> HIDE DEF B, q
<1>3. IsRequest(q) /\ q.op = "LabelValues" /\ q.label = n /\ q.sel = {} /\ q.end = Now /\ q.start = B
  <2>1. /\ q.op = "LabelValues" /\ q.label = n /\ q.sel = {} /\ q.end = Now /\ q.start = B
        /\ q.metric = "" /\ q.step = 1 /\ q.ranged = FALSE
    BY <1>2
  <2>2. /\ q = [op |-> q.op, sel |-> q.sel, ranged |-> q.ranged, label |-> q.label,
               metric |-> q.metric, start |-> q.start, end |-> q.end, step |-> q.step]
    BY <1>2, <2>1
  <2>3. q.op \in Ops /\ q.start \in Int /\ q.end \in Int /\ q.step \in Nat \ {0}
    <3>1. q.op \in Ops
      BY <2>1 DEF Ops, LabelOps
    <3>2. q.start \in Int /\ q.end \in Int
      BY <1>1, <2>1
    <3>3. q.step \in Nat \ {0}
      <4>1. 1 \in Nat \ {0}
        OBVIOUS
      <4> QED
        BY <2>1, <4>1, Zenon
    <3> QED
      BY <3>1, <3>2, <3>3
  <2>4. IsRequest(q)
    BY <2>1, <2>2, <2>3 DEF IsRequest
  <2> QED
    BY <2>1, <2>4
<1>4. IsRequest(p) /\ SameButSelector(p, q)
  BY <1>3, SelectorClients
<1>5. p.sel = {}
  <2>1. p = [q EXCEPT !.sel = {m \in q.sel : m.name \notin DOMAIN cfg.add}]
    BY <1>3 DEF StripAdded, LabelOps
  <2> QED
    BY <1>3, <2>1, SelectorOnly
<1> HIDE DEF p
<1>6. IsRequest(r) /\ SameButSelector(r, p)
  BY <1>4, SelectorClients
<1>7. r.sel = cfg.inject
  <2>1. p.op = "LabelValues"
    BY <1>3, <1>4 DEF SameButSelector
  <2>2. r = [p EXCEPT !.sel = p.sel \cup cfg.inject]
    BY <2>1 DEF Inject
  <2>3. r.sel = p.sel \cup cfg.inject
    BY <1>4, <2>2, SelectorOnly
  <2> QED
    BY <1>5, <2>3
<1> HIDE DEF r
<1> QED
  BY <1>3, <1>4, <1>6, <1>7 DEF SameButSelector, B, r, p, q

(* It learns finitely many values, and the presented value of every series *)
(* in the group's scope that has a sample in the synced time range.        *)
LEMMA SyncLearns ==
  ASSUME cfg \in Configs, data \in Datas, cfg.lf # NoFilter, NEW n
  PROVE  /\ IsFiniteSet(SyncValues(n))
         /\ \A s \in data :
              /\ Selects(cfg.inject, s.lset) /\ (\E t \in s.at : SyncSaw(t))
              /\ n \in DOMAIN AddLabels(s.lset)
              => AddLabels(s.lset)[n] \in SyncValues(n)
<1> DEFINE r == Inject(StripAdded(SyncRequest(n)))
           inner == Truncate(RelativeWindow, r)
           last == Truncate(AbsoluteWindow, inner)
           reaches == ~Outside(RelativeWindow, r) /\ ~Outside(AbsoluteWindow, inner)
           own == {cfg.add[k] : k \in DOMAIN cfg.add \cap {n}}
           has == {h \in HeldIn(last) : n \in DOMAIN h.lset}
           found == IF reaches THEN TargetData(last) ELSE {}
<1>1. /\ IsRequest(r) /\ r.op = "LabelValues" /\ r.label = n /\ r.sel = cfg.inject
      /\ r.end = Now
      /\ r.start = IF cfg.lf.lookback > 0 THEN Now - cfg.lf.lookback ELSE 0
  BY SyncAsks
<1>2. IsWindow(RelativeWindow) /\ IsWindow(AbsoluteWindow)
  BY Windows
<1>a. SyncValues(n) = Labelled(r, found)
  BY DEF SyncValues
<1> HIDE DEF r
<1>3. /\ IsRequest(inner) /\ inner.op = r.op /\ inner.sel = r.sel /\ inner.label = r.label
      /\ \A t \in Int : r.start <= t /\ t <= r.end /\ InWindow(RelativeWindow, t)
                          => inner.start <= t /\ t <= inner.end
  BY <1>1, <1>2, TruncateNarrows
<1> HIDE DEF inner
<1>4. /\ last.op = inner.op /\ last.sel = inner.sel /\ last.label = inner.label
      /\ \A t \in Int : inner.start <= t /\ t <= inner.end /\ InWindow(AbsoluteWindow, t)
                          => last.start <= t /\ t <= last.end
  BY <1>1, <1>2, <1>3, TruncateNarrows
<1> HIDE DEF last
<1>5. TargetData(last) = {s.lset[n] : s \in has}
  <2>1. last.op = "LabelValues" /\ last.label = n
    BY <1>1, <1>3, <1>4
  <2> QED
    BY <2>1, TargetOf
<1> HIDE DEF reaches
<1>6. SyncValues(n) = found \cup own
  <2>1. Labelled(r, found) = found \cup {cfg.add[k] : k \in DOMAIN cfg.add \cap {r.label}}
    BY <1>1, LabelledOf
  <2> QED
    BY <1>1, <1>a, <2>1
<1>7. IsFiniteSet(SyncValues(n))
  <2>1. IsFiniteSet(own)
    <3>1. own = {} \/ own = {cfg.add[n]}
      OBVIOUS
    <3> QED
      BY <3>1, FS_EmptySet, FS_Singleton
  <2>2. IsFiniteSet(has)
    <3>1. has \in SUBSET data /\ IsFiniteSet(data)
      BY DatasAssumption DEF HeldIn, Held
    <3> HIDE DEF has
    <3> QED
      BY <3>1, FS_Subset
  <2>3. IsFiniteSet(TargetData(last))
    <3> DEFINE f == [s \in has |-> s.lset[n]]
    <3> HIDE DEF has
    <3>1. f \in Surjection(has, TargetData(last))
      BY <1>5 DEF Surjection
    <3> QED
      BY <2>2, <3>1, FS_Surjection
  <2>4. IsFiniteSet(found)
    BY <2>3, FS_EmptySet
  <2> HIDE DEF found, own
  <2> QED
    BY <1>6, <2>1, <2>4, FS_Union
<1>8. ASSUME NEW s \in data, Selects(cfg.inject, s.lset), NEW t \in s.at, SyncSaw(t),
             n \in DOMAIN AddLabels(s.lset)
      PROVE  AddLabels(s.lset)[n] \in SyncValues(n)
  <2>1. CASE n \in DOMAIN cfg.add
    <3>1. AddLabels(s.lset)[n] = cfg.add[n]
      BY <2>1, PresentedValue, Zenon
    <3>2. cfg.add[n] \in own
      BY <2>1
    <3> QED
      BY <1>6, <3>1, <3>2
  <2>2. CASE n \notin DOMAIN cfg.add
    <3>1. t \in Int
      BY DatasAssumption DEF IsSeries
    <3>2. r.start <= t /\ t <= r.end /\ InWindow(RelativeWindow, t) /\ InWindow(AbsoluteWindow, t)
      BY <1>1, <1>8 DEF SyncSaw
    <3>3. inner.start <= t /\ t <= inner.end /\ last.start <= t /\ t <= last.end
      BY <1>3, <1>4, <3>1, <3>2
    <3>4. reaches
      BY <1>1, <1>2, <1>3, <3>1, <3>2, <3>3, OutsideAllowsNone DEF reaches
    <3>5. n \in DOMAIN s.lset /\ AddLabels(s.lset)[n] = s.lset[n]
      BY <1>8, <2>2, PresentedValue
    <3>6. s \in has
      BY <1>1, <1>3, <1>4, <1>8, <3>3, <3>5 DEF HeldIn, Held
    <3>7. s.lset[n] \in TargetData(last)
      BY <1>5, <3>6
    <3> QED
      BY <1>6, <3>4, <3>5, <3>7
  <2> QED
    BY <2>1, <2>2
<1> QED
  BY <1>7, <1>8

(* The filter knows what its last sync saw. *)
LEMMA FilterNext ==
  ASSUME StackInvariant, FilterKnows, [Next]_vars
  PROVE  FilterKnows'
<1>0. cfg \in Configs /\ data \in Datas
  BY DEF StackInvariant, TypeInv
<1>1. cfg' = cfg
  BY ConfigKept
<1>2. RelativeWindow' = RelativeWindow /\ AbsoluteWindow' = AbsoluteWindow
  BY <1>1 DEF RelativeWindow, AbsoluteWindow
<1>3. \A t : SyncSaw(t)' <=> SyncSaw(t)
  BY <1>1, <1>2 DEF SyncSaw
<1>4. \A l : AddLabels(l)' = AddLabels(l)
  BY <1>1 DEF AddLabels
<1>5. CASE Sync
  <2> DEFINE inc(n) == IF n \in DOMAIN cfg.lf.include THEN cfg.lf.include[n] ELSE {}
             exc(n) == IF n \in DOMAIN cfg.lf.exclude THEN cfg.lf.exclude[n] ELSE {}
             dyn(n) == IF n \in cfg.lf.dynamic THEN SyncValues(n) ELSE {}
  <2>1. cfg.lf # NoFilter /\ seen' = data /\ filter' = SyncedFilter
    BY <1>5 DEF Sync
  <2>2. filter' = [n \in cfg.lf.dynamic \cup DOMAIN cfg.lf.include |-> (dyn(n) \cup inc(n)) \ exc(n)]
    BY <2>1 DEF SyncedFilter
  <2>3. ASSUME NEW n \in DOMAIN filter' PROVE IsFiniteSet(filter'[n])
    <3>1. IsFiniteSet(dyn(n))
      BY <1>0, <2>1, SyncLearns, FS_EmptySet
    <3>2. IsFiniteSet(inc(n))
      BY <1>0, <2>1, ConfigsAssumption, FS_EmptySet
    <3>3. filter'[n] = (dyn(n) \cup inc(n)) \ exc(n)
      BY <2>2, <2>3
    <3> HIDE DEF dyn, inc, exc
    <3>4. IsFiniteSet(dyn(n) \cup inc(n))
      BY <3>1, <3>2, FS_Union
    <3> QED
      BY <3>3, <3>4, FS_Subset
  <2>4. ASSUME NEW s \in data, NEW n \in DOMAIN filter' \cap cfg.lf.dynamic,
               Selects(cfg.inject, s.lset), \E t \in s.at : SyncSaw(t),
               n \in DOMAIN AddLabels(s.lset)
        PROVE  \/ AddLabels(s.lset)[n] \in filter'[n]
               \/ n \in DOMAIN cfg.lf.exclude /\ AddLabels(s.lset)[n] \in cfg.lf.exclude[n]
    <3>1. AddLabels(s.lset)[n] \in SyncValues(n)
      BY <1>0, <2>1, <2>4, SyncLearns
    <3> HIDE DEF inc
    <3> QED
      BY <2>2, <2>4, <3>1
  <2> QED
    BY <1>0, <1>1, <1>3, <1>4, <2>1, <2>3, <2>4 DEF FilterKnows, Selects
<1>6. CASE UNCHANGED <<filter, seen>>
  BY <1>1, <1>3, <1>4, <1>6 DEF FilterKnows, NoRules, Selects
<1> QED
  BY <1>5, <1>6, ConfigKept

(* FilterLabelMatchers lets a matcher pass that some known value satisfies: *)
(* its shortcuts by lookup and by size are sound.                          *)
LEMMA FilterSound ==
  ASSUME NEW f, NEW m, IsMatcher(m), NEW v,
         m.name \in DOMAIN f, IsFiniteSet(f[m.name]), v \in f[m.name], Matches(m, v)
  PROVE  FilterLabelMatchers(f, m)
<1> DEFINE known == f[m.name]
<1>1. (m.lits # <<>> => ~m.fold) /\ NotRegex # <<>>
  BY LiteralsAssumption DEF IsMatcher
<1>2. m.lits # <<>> => (v \in m.vals <=> ~m.neg)
  BY <1>1 DEF Matches, Accepts
<1>3. Cardinality(known) \in Nat /\ Cardinality(known) # 0
  BY FS_CardinalityType, FS_EmptySet
<1>4. CASE m.lits = NotRegex /\ ~m.neg
  <2>1. \E x \in m.vals : x \in known
    BY <1>1, <1>2, <1>4
  <2> QED
    BY <1>1, <1>4, <2>1 DEF FilterLabelMatchers
<1>5. CASE m.lits = NotRegex /\ m.neg
  <2>1. Cardinality(known) = 1 => \A x \in m.vals : x \notin known
    <3>1. ASSUME Cardinality(known) = 1 PROVE known = {v}
      BY <3>1, FS_Singleton
    <3> QED
      BY <1>1, <1>2, <1>5, <3>1
  <2> HIDE DEF known
  <2>2. CASE Cardinality(known) = 1
    BY <1>1, <1>3, <1>5, <2>1, <2>2 DEF FilterLabelMatchers, known
  <2>3. CASE Cardinality(known) # 1
    BY <1>1, <1>3, <1>5, <2>3 DEF FilterLabelMatchers, known
  <2> QED
    BY <2>2, <2>3
<1>6. CASE m.lits \notin {NotRegex, <<>>} /\ ~m.neg
  <2>1. \E i \in 1..Len(m.lits) : m.lits[i] \in known
    BY <1>2, <1>6 DEF IsMatcher
  <2> QED
    BY <1>6, <2>1 DEF FilterLabelMatchers
<1>7. CASE m.lits \notin {NotRegex, <<>>} /\ m.neg
  <2> DEFINE P == {x \in known : \E i \in 1..Len(m.lits) : m.lits[i] = x}
  <2>1. v \notin P
    BY <1>2, <1>7 DEF IsMatcher
  <2>2. P \in SUBSET known /\ P # known
    BY <2>1
  <2>3. CountPresent(known, m.lits) = Cardinality(P)
    BY DEF CountPresent
  <2> HIDE DEF P
  <2>4. IsFiniteSet(P) /\ Cardinality(P) <= Cardinality(known) /\ Cardinality(P) # Cardinality(known)
    BY <2>2, FS_Subset
  <2>5. Cardinality(P) < Cardinality(known)
    BY <1>3, <2>4, FS_CardinalityType
  <2> QED
    BY <1>7, <2>3, <2>5 DEF FilterLabelMatchers
<1>8. CASE m.lits = <<>>
  <2>1. \E x \in known : Matches(m, x)
    OBVIOUS
  <2> QED
    BY <1>1, <1>8, <2>1 DEF FilterLabelMatchers
<1> QED
  BY <1>1, <1>4, <1>5, <1>6, <1>7, <1>8

---------------------------------------------------------------------------
(* What the caller gets.                                                   *)

(* Without rules the wanted series are the target's in the group's scope,  *)
(* under the group's labels.                                               *)
LEMMA WantedOf ==
  ASSUME NoRules, data \in Datas, call.op # "Metadata"
  PROVE  /\ \A s \in data :
              Selects(call.sel, AddLabels(s.lset)) /\ Selects(Scope, s.lset) =>
                \E w \in Wanted : w.lset = AddLabels(s.lset) /\ w.at = s.at
         /\ \A w \in Wanted : \E s \in data :
              /\ Selects(call.sel, AddLabels(s.lset)) /\ Selects(Scope, s.lset)
              /\ w.lset = AddLabels(s.lset) /\ w.at = s.at
<1> DEFINE Shown(s) == [lset |-> AddLabels(s.lset), at |-> s.at]
<1>1. \A s \in data : s = [lset |-> s.lset, at |-> s.at]
  BY DatasAssumption DEF IsSeries
<1>2. \A S \in SUBSET data : Unscoped(S) = {Shown(s) : s \in S}
  <2>1. \A S : Unscoped(S) = {[s EXCEPT !.lset = AddLabels(s.lset)] : s \in S}
    BY NothingRelabelled DEF Unscoped
  <2>2. \A s \in data : [s EXCEPT !.lset = AddLabels(s.lset)] = Shown(s)
    BY <1>1
  <2> HIDE DEF Shown
  <2> QED
    BY <2>1, <2>2
<1> DEFINE In == {s \in data : Selects(Scope, s.lset)}
<1>3. Wanted = {w \in {Shown(s) : s \in In} : Selects(call.sel, w.lset)}
  <2>1. CASE call.op = "QueryExemplars"
    <3>1. In = data
      BY <2>1 DEF Scope, Selects
    <3>2. Unscoped(data) = {Shown(s) : s \in data}
      BY <1>2
    <3> QED
      BY <2>1, <3>1, <3>2 DEF Wanted
  <2>2. CASE call.op # "QueryExemplars"
    <3>1. Scope = cfg.inject
      BY <2>2 DEF Scope
    <3>2. In = {t \in data : Selects(cfg.inject, t.lset)}
      BY <3>1
    <3>3. Presented(data) = {Shown(s) : s \in In}
      BY <1>2, <3>2 DEF Presented
    <3> QED
      BY <2>2, <3>3 DEF Wanted
  <2> QED
    BY <2>1, <2>2
<1>4. \A s : Shown(s).lset = AddLabels(s.lset) /\ Shown(s).at = s.at
  OBVIOUS
<1> HIDE DEF Shown
<1>5. ASSUME NEW s \in data, Selects(call.sel, AddLabels(s.lset)), Selects(Scope, s.lset)
      PROVE  \E w \in Wanted : w.lset = AddLabels(s.lset) /\ w.at = s.at
  <2>1. Shown(s) \in Wanted
    BY <1>3, <1>4, <1>5
  <2> QED
    BY <1>4, <2>1
<1>6. ASSUME NEW w \in Wanted
      PROVE  \E s \in data : /\ Selects(call.sel, AddLabels(s.lset)) /\ Selects(Scope, s.lset)
                             /\ w.lset = AddLabels(s.lset) /\ w.at = s.at
  <2>1. PICK s \in In : w = Shown(s) /\ Selects(call.sel, w.lset)
    BY <1>3
  <2> QED
    BY <1>4, <2>1
<1> QED
  BY <1>5, <1>6

(* A sample u of the series s that answers request r at time t. *)
Sampled(r, s, t, u) ==
  /\ s \in Held(r)
  /\ r.op = "Query" => t = r.start /\ u \in AsOf(s, t)
  /\ r.op = "QueryRange" => t \in TargetSteps(r) /\ u \in AsOf(s, t)
  /\ r.op \in {"GetValue", "QueryExemplars"} => u = t /\ t \in s.at /\ r.start <= t /\ t <= r.end

(* The target's answer to a query is those samples. *)
LEMMA TargetSamples ==
  ASSUME NEW r, r.op \in SeriesOps, NEW p
  PROVE  p \in TargetData(r) <=>
           \E s \in data : \E t, u : Sampled(r, s, t, u) /\ p = [lset |-> s.lset, t |-> t, v |-> u]
<1>0. Held(r) \subseteq data
  BY DEF Held
<1>1. CASE r.op = "Query"
  <2>1. TargetData(r) = InstantData(r)
    BY <1>1, TargetOf
  <2>2. p \in InstantData(r) <=>
          \E s \in Held(r) : \E u \in AsOf(s, r.start) : p = [lset |-> s.lset, t |-> r.start, v |-> u]
    BY DEF InstantData, PointsAt
  <2>3. \A s, t, u : Sampled(r, s, t, u) <=> s \in Held(r) /\ t = r.start /\ u \in AsOf(s, t)
    BY <1>1 DEF Sampled
  <2> QED
    BY <1>0, <2>1, <2>2, <2>3
<1>2. CASE r.op = "QueryRange"
  <2>1. TargetData(r) = RangeData(r)
    BY <1>2, TargetOf
  <2>2. p \in RangeData(r) <=>
          \E s \in Held(r) : \E t \in TargetSteps(r) : \E u \in AsOf(s, t) :
            p = [lset |-> s.lset, t |-> t, v |-> u]
    BY DEF RangeData, PointsAt
  <2>3. \A s, t, u : Sampled(r, s, t, u) <=> s \in Held(r) /\ t \in TargetSteps(r) /\ u \in AsOf(s, t)
    BY <1>2 DEF Sampled
  <2> QED
    BY <1>0, <2>1, <2>2, <2>3
<1>3. CASE r.op \in {"GetValue", "QueryExemplars"}
  <2>1. TargetData(r) = RawData(r)
    BY <1>3, TargetOf
  <2>2. p \in RawData(r) <=>
          \E s \in Held(r) : \E t \in s.at :
            r.start <= t /\ t <= r.end /\ p = [lset |-> s.lset, t |-> t, v |-> t]
    BY DEF RawData
  <2>3. \A s, t, u : Sampled(r, s, t, u) <=>
          s \in Held(r) /\ u = t /\ t \in s.at /\ r.start <= t /\ t <= r.end
    BY <1>3 DEF Sampled
  <2> QED
    BY <1>0, <2>1, <2>2, <2>3
<1> QED
  BY <1>1, <1>2, <1>3 DEF SeriesOps

(* The times of a request's samples are times. *)
LEMMA SampleTimes ==
  ASSUME data \in Datas, NEW r, IsRequest(r), r.op \in SeriesOps,
         NEW s \in data, NEW t, NEW u, Sampled(r, s, t, u)
  PROVE  t \in Int /\ u \in Int /\ u \in s.at
<1>1. s.at \subseteq Int /\ r.start \in Int /\ r.step \in Nat \ {0}
  BY DatasAssumption DEF IsSeries, IsRequest
<1>2. AsOf(s, t) \subseteq s.at
  BY DEF AsOf
<1>3. CASE r.op = "Query"
  BY <1>1, <1>2, <1>3 DEF Sampled
<1>4. CASE r.op = "QueryRange"
  <2>1. Floor(r.start, r.step) \in Int
    BY <1>1, FloorOf DEF Floor
  <2>2. t \in Int
    BY <1>1, <1>4, <2>1 DEF Sampled, TargetSteps, StepsFrom
  <2> QED
    BY <1>1, <1>2, <1>4, <2>2 DEF Sampled
<1>5. CASE r.op \in {"GetValue", "QueryExemplars"}
  BY <1>1, <1>5 DEF Sampled
<1> QED
  BY <1>3, <1>4, <1>5 DEF SeriesOps

(* The caller gets them under the group's labels, moved by the shift. *)
LEMMA SamplesReturned ==
  ASSUME NoRules, data \in Datas, IsRequest(call), IsRequest(req), req.op = call.op,
         call.op \in SeriesOps, NEW p
  PROVE  p \in Relabelled(call, Labelled(call, Restamped(call, TargetData(req)))) <=>
           \E s \in data : \E t, u :
             /\ Sampled(req, s, t, u)
             /\ p = [lset |-> AddLabels(s.lset), t |-> t + Shift(call), v |-> u]
<1> DEFINE Pt(l, t, u) == [lset |-> l, t |-> t, v |-> u]
           Move(x) == [x EXCEPT !.t = x.t + Shift(call)]
           Show(x) == [x EXCEPT !.lset = AddLabels(x.lset)]
           Same(x) == [x EXCEPT !.lset = x.lset]
           D == TargetData(req)
           R == Restamped(call, D)
           L == Labelled(call, R)
<1>1. Shift(call) \in Nat
  BY ShiftIsOffset
<1>2. \A q : q \in D <=> \E s \in data : \E t, u : Sampled(req, s, t, u) /\ q = Pt(s.lset, t, u)
  BY TargetSamples
<1>3. \A l, t, u : /\ Move(Pt(l, t, u)) = Pt(l, t + Shift(call), u)
                   /\ Show(Pt(l, t, u)) = Pt(AddLabels(l), t, u)
                   /\ Same(Pt(l, t, u)) = Pt(l, t, u)
  OBVIOUS
<1>4. Shift(call) # 0 => R = {Move(x) : x \in D}
  BY DEF Restamped
<1>5. Shift(call) = 0 => R = D
  BY DEF Restamped
<1>6. L = {Show(x) : x \in R}
  BY LabelledOf
<1>7. Relabelled(call, L) = {Same(x) : x \in L}
  BY RelabelledOf
<1> HIDE DEF Pt, Move, Show, Same, D, R, L
<1>8. \A q : q \in R <=> \E s \in data : \E t, u : Sampled(req, s, t, u) /\ q = Pt(s.lset, t + Shift(call), u)
  <2>1. CASE Shift(call) = 0
    <3>1. \A s \in data : \A t, u : Sampled(req, s, t, u) => t + Shift(call) = t
      BY <2>1, SampleTimes
    <3> QED
      BY <1>2, <1>5, <2>1, <3>1
  <2>2. CASE Shift(call) # 0
    BY <1>2, <1>3, <1>4, <2>2
  <2> QED
    BY <2>1, <2>2
<1>9. \A q : q \in L <=> \E s \in data : \E t, u :
               Sampled(req, s, t, u) /\ q = Pt(AddLabels(s.lset), t + Shift(call), u)
  BY <1>3, <1>6, <1>8
<1>10. \A x \in L : Same(x) = x
  BY <1>3, <1>9
<1>11. Relabelled(call, L) = L
  BY <1>7, <1>10
<1> QED
  BY <1>9, <1>11 DEF L, R, D, Pt

(* A call that did not reach the target gets nothing but, for label names, *)
(* the group's own.                                                        *)
LEMMA NotFromTarget ==
  ASSUME ServedInvariant, NoRules, at = "done", reply.from # "target"
  PROVE  /\ call.op \in SeriesOps \cup {"Series"} => reply.data = {}
         /\ call.op = "LabelNames" => reply.data \subseteq DOMAIN cfg.add
         /\ call.op = "LabelValues" /\ call.label \notin DOMAIN cfg.add => reply.data = {}
<1>1. \/ reply.data = {}
      \/ reply.data = Relabelled(call, {})
      \/ reply.data = Relabelled(call, Labelled(call, Restamped(call, {})))
  BY DEF ServedInvariant, AnswerCarried, Up, Answerers, Through
<1>2. Restamped(call, {}) = {}
  BY DEF Restamped
<1>3. ASSUME call.op \in SeriesOps PROVE reply.data = {}
  <2>1. Labelled(call, {}) = {}
    BY <1>3, LabelledOf
  <2>2. Relabelled(call, {}) = {}
    BY <1>3, RelabelledOf
  <2> QED
    BY <1>1, <1>2, <2>1, <2>2
<1>4. ASSUME call.op = "Series" PROVE reply.data = {}
  <2>1. Labelled(call, {}) = {}
    BY <1>4, LabelledOf
  <2>2. Relabelled(call, {}) = {}
    BY <1>4, RelabelledOf
  <2> QED
    BY <1>1, <1>2, <2>1, <2>2
<1>5. ASSUME call.op = "LabelNames" PROVE reply.data \subseteq DOMAIN cfg.add
  <2>0. Labelled(call, {}) = {} \cup DOMAIN cfg.add
    BY <1>5, LabelledOf, Zenon
  <2>1. Labelled(call, {}) = DOMAIN cfg.add
    BY <2>0
  <2>2. \A d : Relabelled(call, d) = d
    BY <1>5, RelabelledOf
  <2> QED
    BY <1>1, <1>2, <2>1, <2>2
<1>6. ASSUME call.op = "LabelValues", call.label \notin DOMAIN cfg.add PROVE reply.data = {}
  <2>1. Labelled(call, {}) = {}
    BY <1>6, LabelledOf
  <2>2. \A d : Relabelled(call, d) = d
    BY <1>6, RelabelledOf
  <2> QED
    BY <1>1, <1>2, <2>1, <2>2
<1> QED
  BY <1>3, <1>4, <1>5, <1>6

(* What the target's answer has become for the caller. *)
LEMMA FromTarget ==
  ASSUME ServedInvariant, NoRules, at = "done", reply.from = "target"
  PROVE  /\ call.op \in SeriesOps => \A p : p \in reply.data <=>
              \E s \in data : \E t, u :
                /\ Sampled(req, s, t, u)
                /\ p = [lset |-> AddLabels(s.lset), t |-> t + Shift(call), v |-> u]
         /\ call.op = "Series" => reply.data = {AddLabels(s.lset) : s \in HeldIn(req)}
         /\ call.op = "LabelNames" =>
              reply.data = DOMAIN cfg.add \cup UNION {DOMAIN s.lset : s \in HeldIn(req)}
         /\ call.op = "LabelValues" =>
              reply.data = {s.lset[call.label] : s \in {h \in HeldIn(req) : call.label \in DOMAIN h.lset}}
                             \cup {cfg.add[n] : n \in DOMAIN cfg.add \cap {call.label}}
<1>1. reply.data = Relabelled(call, Labelled(call, Restamped(call, TargetData(req))))
  BY DEF ServedInvariant, AnswerCarried, Up, Through
<1>2. /\ data \in Datas /\ IsRequest(call) /\ IsRequest(req)
      /\ req.op = call.op /\ req.label = call.label
  BY CallsAssumption DEF ServedInvariant, StackInvariant, TypeInv
<1>3. \A d : call.op # "QueryRange" => Restamped(call, d) = d
  BY DEF Restamped, Shift
<1>4. ASSUME call.op = "Series" PROVE reply.data = {AddLabels(s.lset) : s \in HeldIn(req)}
  <2>1. TargetData(req) = {s.lset : s \in HeldIn(req)}
    BY <1>2, <1>4, TargetOf
  <2>2. \A d : Relabelled(call, Labelled(call, Restamped(call, d))) = {AddLabels(l) : l \in d}
    BY <1>3, <1>4, LabelledOf, RelabelledOf
  <2> QED
    BY <1>1, <2>1, <2>2
<1>5. ASSUME call.op = "LabelNames"
      PROVE  reply.data = DOMAIN cfg.add \cup UNION {DOMAIN s.lset : s \in HeldIn(req)}
  <2>1. TargetData(req) = UNION {DOMAIN s.lset : s \in HeldIn(req)}
    BY <1>2, <1>5, TargetOf
  <2>2. \A d : Relabelled(call, Labelled(call, Restamped(call, d))) = d \cup DOMAIN cfg.add
    BY <1>3, <1>5, LabelledOf, RelabelledOf
  <2> QED
    BY <1>1, <2>1, <2>2
<1>6. ASSUME call.op = "LabelValues"
      PROVE  reply.data = {s.lset[call.label] : s \in {h \in HeldIn(req) : call.label \in DOMAIN h.lset}}
                            \cup {cfg.add[n] : n \in DOMAIN cfg.add \cap {call.label}}
  <2>1. TargetData(req) = {s.lset[call.label] : s \in {h \in HeldIn(req) : call.label \in DOMAIN h.lset}}
    BY <1>2, <1>6, TargetOf
  <2>2. \A d : Relabelled(call, Labelled(call, Restamped(call, d)))
               = d \cup {cfg.add[n] : n \in DOMAIN cfg.add \cap {call.label}}
    BY <1>3, <1>6, LabelledOf, RelabelledOf
  <2> QED
    BY <1>1, <2>1, <2>2
<1>7. ASSUME call.op \in SeriesOps, NEW p
      PROVE  p \in reply.data <=>
               \E s \in data : \E t, u :
                 /\ Sampled(req, s, t, u)
                 /\ p = [lset |-> AddLabels(s.lset), t |-> t + Shift(call), v |-> u]
  BY <1>1, <1>2, <1>7, SamplesReturned
<1> QED
  BY <1>4, <1>5, <1>6, <1>7

(* A sample the target returned is one the caller asked for. *)
LEMMA SampleAsked ==
  ASSUME ServedInvariant, NoRules, at = "done", reply.from = "target", call.op \in SeriesOps,
         NEW s \in data, NEW t, NEW u, Sampled(req, s, t, u)
  PROVE  /\ u \in s.at
         /\ call.start - Shift(call) - Lookback < u /\ u <= call.end
         /\ call.op \in {"GetValue", "QueryExemplars"} => Requested(t + Shift(call))
<1>1. /\ data \in Datas /\ IsRequest(call) /\ IsRequest(req) /\ call \in Calls
      /\ req.op = call.op /\ req.step = call.step
  BY CallsAssumption DEF ServedInvariant, StackInvariant, TypeInv
<1>2. /\ req.start >= call.start /\ req.end <= call.end
      /\ call.op = "QueryRange" => (req.start - call.start) % call.step = 0
      /\ call.op = "Query" => req.start = call.start
  BY DEF ServedInvariant, StackInvariant, TimesNarrowed, TimesCovered
<1>3. /\ call.start \in Int /\ call.end \in Int /\ req.start \in Int /\ req.end \in Int
      /\ call.step \in Nat \ {0} /\ Shift(call) \in Nat /\ Lookback \in Nat \ {0}
  BY <1>1, ShiftIsOffset, TimesAssumption DEF IsRequest
<1>4. t \in Int /\ u \in Int /\ u \in s.at
  BY <1>1, SampleTimes
<1>5. u \in AsOf(s, t) => u <= t /\ u > t - Lookback
  BY DEF AsOf
<1>6. CASE call.op = "Query"
  <2>1. t = call.start /\ u \in AsOf(s, t) /\ call.start = call.end
    BY <1>1, <1>2, <1>6, CallsAssumption DEF Sampled
  <2> QED
    BY <1>3, <1>4, <1>5, <1>6, <2>1
<1>7. CASE call.op = "QueryRange"
  <2>1. t \in TargetSteps(req) /\ u \in AsOf(s, t)
    BY <1>1, <1>7 DEF Sampled
  <2>2. t + Shift(call) >= call.start
    BY <1>1, <1>2, <1>3, <1>7, <2>1, TargetStepsOnGrid DEF OnGrid
  <2>3. t <= req.end
    <3>1. Floor(req.end, req.step) \in Int /\ Floor(req.end, req.step) <= req.end
          /\ Floor(req.start, req.step) \in Int
      BY <1>1, <1>3, FloorOf DEF Floor
    <3> QED
      BY <1>3, <1>4, <2>1, <3>1 DEF TargetSteps, StepsFrom
  <2> QED
    BY <1>2, <1>3, <1>4, <1>5, <1>7, <2>1, <2>2, <2>3
<1>8. CASE call.op \in {"GetValue", "QueryExemplars"}
  <2>1. u = t /\ req.start <= t /\ t <= req.end /\ Shift(call) = 0
    BY <1>1, <1>8 DEF Sampled, Shift
  <2> QED
    BY <1>2, <1>3, <1>4, <2>1 DEF Requested
<1> QED
  BY <1>6, <1>7, <1>8 DEF SeriesOps

(* A series the target answered for is a wanted one. *)
LEMMA HeldIsWanted ==
  ASSUME ServedInvariant, NoRules, at = "done", reply.from = "target", call.op # "Metadata",
         NEW s \in Held(req)
  PROVE  \E w \in Wanted : w.lset = AddLabels(s.lset) /\ w.at = s.at
<1>1. s \in data /\ Selects(req.sel, s.lset) /\ data \in Datas
  BY DEF Held, ServedInvariant, StackInvariant, TypeInv
<1>2. Selects(call.sel, AddLabels(s.lset)) /\ Selects(Scope, s.lset)
  BY <1>1 DEF ServedInvariant, SelectorKept, Means, Reached, Up
<1> QED
  BY <1>1, <1>2, WantedOf

(* A wanted series was answered for. *)
LEMMA WantedIsHeld ==
  ASSUME ServedInvariant, NoRules, at = "done", reply.from = "target", call.op # "Metadata",
         call.op = "QueryExemplars" => NamesIn(call.sel) \cap DOMAIN cfg.add = {},
         NEW w \in Wanted
  PROVE  \E s \in Held(req) : w.lset = AddLabels(s.lset) /\ w.at = s.at
<1>1. data \in Datas
  BY DEF ServedInvariant, StackInvariant, TypeInv
<1>2. PICK s \in data : /\ Selects(call.sel, AddLabels(s.lset)) /\ Selects(Scope, s.lset)
                        /\ w.lset = AddLabels(s.lset) /\ w.at = s.at
  BY <1>1, WantedOf
<1>3. Name \in DOMAIN s.lset /\ s.lset[Name] # ""
  BY <1>1, DatasAssumption DEF IsSeries
<1>4. Selects(req.sel, s.lset)
  BY <1>2, <1>3 DEF ServedInvariant, SelectorKept, Means, Reached, Up
<1> QED
  BY <1>2, <1>4 DEF Held

(* Every step of the call that its windows allow is one the target answers *)
(* for, before the shift.                                                  *)
LEMMA StepsServed ==
  ASSUME ServedInvariant, at = "done", reply.from = "target", call.op = "QueryRange",
         NEW t \in Steps, Serves(t)
  PROVE  t - Shift(call) \in TargetSteps(req) /\ t \in Int
<1>1. /\ IsRequest(call) /\ IsRequest(req) /\ req.op = call.op /\ req.step = call.step
  BY CallsAssumption DEF ServedInvariant, StackInvariant, TypeInv
<1> DEFINE k == call.step
           c == call.start
           b == req.start
           e == req.end
<1>2. c \in Int /\ b \in Int /\ e \in Int /\ k \in Nat \ {0} /\ req.step = k
  BY <1>1 DEF IsRequest
<1>3. t \in Int /\ (t - c) % k = 0
  BY <1>1 DEF Steps, StepsFrom, IsRequest
<1>4. b <= t /\ t <= e
  BY <1>3 DEF ServedInvariant, TimesCovered, Reached, Up, GridTime
<1>5. (b - c) % k = 0
  BY DEF ServedInvariant, StackInvariant, TimesNarrowed
<1> DEFINE F(x) == x - (x % k)
<1>6. \A x : Floor(x, req.step) = F(x)
  BY <1>2 DEF Floor
<1>7. F(b) \in Int /\ F(e) \in Int /\ F(t) \in Int /\ F(b) % k = 0 /\ F(t) % k = 0
  <2>1. \A x \in Int : (x % k) \in Int /\ (x - (x % k)) % k = 0
    BY <1>2, FloorOf
  <2>2. \A x \in Int : F(x) % k = 0
    BY <2>1
  <2>3. \A x \in Int : F(x) \in Int
    <3> SUFFICES ASSUME NEW x \in Int PROVE x - (x % k) \in Int
      OBVIOUS
    <3>1. x % k \in Int
      BY <2>1
    <3> QED
      BY <3>1
  <2> HIDE DEF F, k
  <2> QED
    BY <1>2, <1>3, <2>2, <2>3
<1>8. F(b) <= F(t) /\ F(t) <= F(e)
  BY <1>2, <1>3, <1>4, FloorMonotone
<1>9. ASSUME cfg.align PROVE t - Shift(call) \in TargetSteps(req)
  <2>1. Shift(call) = c % k
    BY <1>1, <1>9, ShiftIsOffset
  <2>2. c % k \in 0..(k - 1) /\ (c - (c % k)) % k = 0 /\ c - (c % k) \in Int
    BY <1>2, FloorOf
  <2>3. t - c \in Int
    BY <1>2, <1>3
  <2>4. ((t - c) + (c - (c % k))) % k = 0
    BY <1>2, <1>3, <2>2, <2>3, GridAdd
  <2>5. t - (c % k) = (t - c) + (c - (c % k)) /\ t - (c % k) \in Int
    BY <1>2, <1>3, <2>2
  <2>6. PICK q \in Int : t - (c % k) = q * k
    BY <1>2, <2>4, <2>5, MultipleOf
  <2>7. t = q * k + (c % k)
    BY <1>2, <1>3, <2>2, <2>6
  <2>8. t % k = c % k
    BY <1>2, <2>2, <2>7, RemainderOf
  <2>9. t - Shift(call) = F(t)
    BY <2>1, <2>8
  <2>10. (F(t) - F(b)) % k = 0
    BY <1>2, <1>7, GridAdd
  <2>11. TargetSteps(req) = {x \in F(b)..F(e) : (x - F(b)) % k = 0}
    BY <1>2, <1>6, <1>9 DEF TargetSteps, StepsFrom
  <2>12. F(t) \in F(b)..F(e)
    BY <1>7, <1>8
  <2> QED
    BY <2>9, <2>10, <2>11, <2>12
<1>10. ASSUME ~cfg.align PROVE t - Shift(call) \in TargetSteps(req)
  <2>1. Shift(call) = 0 /\ t - 0 = t
    BY <1>3, <1>10 DEF Shift
  <2>2. t - c \in Int /\ b - c \in Int /\ (t - c) - (b - c) = t - b
    BY <1>2, <1>3
  <2>3. ((t - c) - (b - c)) % k = 0
    BY <1>2, <1>3, <1>5, <2>2, GridAdd
  <2>4. t \in b..e
    BY <1>2, <1>3, <1>4
  <2>5. TargetSteps(req) = {x \in b..e : (x - b) % k = 0}
    BY <1>2, <1>10 DEF TargetSteps, StepsFrom
  <2> QED
    BY <2>1, <2>2, <2>3, <2>4, <2>5
<1> QED
  BY <1>3, <1>9, <1>10

(* A call for a wanted series that did not reach the target asked only for *)
(* times its windows do not allow.                                         *)
LEMMA NothingToServe ==
  ASSUME ServedInvariant, NoRules, at = "done", call.op # "Metadata",
         reply.from \notin {"labelfilter", "failure", "target"}, NEW w \in Wanted,
         NEW t \in Int, GridTime(t)
  PROVE  ~Serves(t)
<1>1. data \in Datas /\ at \in Up
  BY DEF ServedInvariant, StackInvariant, TypeInv, Up
<1>2. reply.from # "relabel" /\ reply.from # "addlabel"
  <2>1. \E s \in data : Selects(call.sel, AddLabels(s.lset))
    BY <1>1, WantedOf
  <2> QED
    BY <1>1, <2>1 DEF ServedInvariant, SelectorKept
<1>3. reply.from \in {"relative", "absolute"}
  BY <1>1, <1>2 DEF ServedInvariant, AnswerCarried, Answerers
<1> QED
  BY <1>1, <1>3 DEF ServedInvariant, TimesCovered

---------------------------------------------------------------------------
(* The theorems.                                                           *)

(* Nothing has been asked when the stack is built. *)
LEMMA ServedInitially == Init => ServedInvariant
<1> SUFFICES ASSUME Init PROVE ServedInvariant
  OBVIOUS
<1> QED
  BY StackInitially DEF Init, ServedInvariant, TimesCovered, SelectorKept, AnswerCarried,
     FilterKnows, Reached, Up

(* The strengthened invariant of the stack. *)
THEOREM ServedInvariance == Spec => []ServedInvariant
<1>1. ServedInvariant /\ [Next]_vars => ServedInvariant'
  BY StackNext, CoveredNext, SelectorNext, CarriedNext, FilterNext DEF ServedInvariant
<1> QED
  BY ServedInitially, <1>1, PTL DEF Spec

(* In a group without metric relabelling, a synced label filter lets every *)
(* call pass that a series known to it matches.                            *)
THEOREM FilterHidesNothing == Spec => [](NoRules => FilterHidesNothingKnown)
<1>1. ASSUME ServedInvariant, NoRules PROVE FilterHidesNothingKnown
  <2> SUFFICES ASSUME filter # NoFilter, at = "labelfilter", NEW s \in Presented(seen),
                      KnownTo(filter, s), Selects(call.sel, s.lset), \E t \in s.at : SyncSaw(t),
                      NEW m \in call.sel, m.name \in DOMAIN filter
               PROVE  FilterLabelMatchers(filter, m)
    <3>1. at = "labelfilter" => req.sel = call.sel
      BY <1>1 DEF ServedInvariant, SelectorKept
    <3> QED
      BY <3>1 DEF FilterHidesNothingKnown, LabelFilterRejects, Blocked, KnownLabels,
                  FilterLabelMatchers
  <2>1. PICK h \in seen : Selects(cfg.inject, h.lset) /\ s = [h EXCEPT !.lset = AddLabels(h.lset)]
    BY <1>1, NothingRelabelled DEF Presented, Unscoped
  <2>2. s.lset = AddLabels(h.lset) /\ s.at = h.at
    <3>1. h = [lset |-> h.lset, at |-> h.at]
      BY <1>1, <2>1, DatasAssumption DEF ServedInvariant, FilterKnows, IsSeries
    <3> QED
      BY <2>1, <3>1
  <2> DEFINE n == m.name
  <2>3. /\ n \in DOMAIN AddLabels(h.lset) /\ n \in cfg.lf.dynamic
        /\ n \in DOMAIN cfg.lf.exclude => AddLabels(h.lset)[n] \notin cfg.lf.exclude[n]
    BY <2>2 DEF KnownTo
  <2>4. AddLabels(h.lset)[n] \in filter[n] /\ IsFiniteSet(filter[n])
    BY <1>1, <2>1, <2>2, <2>3 DEF ServedInvariant, FilterKnows
  <2>5. Matches(m, AddLabels(h.lset)[n])
    BY <2>2, <2>3 DEF Selects, ValueOf
  <2>6. IsMatcher(m)
    BY <1>1, CallsAssumption DEF ServedInvariant, StackInvariant, TypeInv
  <2> QED
    BY <2>4, <2>5, <2>6, FilterSound
<1> QED
  BY <1>1, ServedInvariance, PTL

(* In a group without metric relabelling, an answer holds only series and  *)
(* samples that were asked for, whatever windows, injected matchers and    *)
(* added labels the call went through and however it was aligned.          *)
THEOREM OnlyAsked == Spec => [](NoRules => AnswerIsAsked)
<1>1. ASSUME ServedInvariant, NoRules, at = "done" PROVE AnswerIsAsked
  <2>0. /\ call.op \in Ops /\ call \in Calls /\ IsRequest(call) /\ IsRequest(req)
        /\ data \in Datas
    BY <1>1, CallsAssumption DEF ServedInvariant, StackInvariant, TypeInv, IsRequest
  <2>a. Held(req) \subseteq data /\ HeldIn(req) \subseteq Held(req)
    BY DEF Held, HeldIn
  <2>b. \A h \in HeldIn(req) : \E t \in h.at : Requested(t)
    <3>1. req.start >= call.start /\ req.end <= call.end
      BY <1>1 DEF ServedInvariant, StackInvariant, TimesNarrowed
    <3>2. \A h \in HeldIn(req) : \A t \in h.at : t \in Int
      BY <2>0, <2>a, DatasAssumption DEF IsSeries
    <3> QED
      BY <2>0, <3>1, <3>2 DEF HeldIn, Requested, IsRequest
  <2>1. ASSUME call.op \in SeriesOps, NEW p \in reply.data
        PROVE  \E s \in Wanted :
                   /\ s.lset = p.lset /\ p.v \in s.at
                   /\ call.start - Shift(call) - Lookback < p.v /\ p.v <= call.end
                   /\ call.op \in {"GetValue", "QueryExemplars"} => Requested(p.t)
    <3>1. reply.from = "target"
      BY <1>1, <2>1, NotFromTarget
    <3>2. PICK h \in data : \E t, u :
            /\ Sampled(req, h, t, u)
            /\ p = [lset |-> AddLabels(h.lset), t |-> t + Shift(call), v |-> u]
      BY <1>1, <2>1, <3>1, FromTarget
    <3>3. PICK t, u : /\ Sampled(req, h, t, u)
                      /\ p = [lset |-> AddLabels(h.lset), t |-> t + Shift(call), v |-> u]
      BY <3>2
    <3>4. /\ u \in h.at
          /\ call.start - Shift(call) - Lookback < u /\ u <= call.end
          /\ call.op \in {"GetValue", "QueryExemplars"} => Requested(t + Shift(call))
      BY <1>1, <2>1, <3>1, <3>3, SampleAsked
    <3>5. h \in Held(req) /\ call.op # "Metadata"
      BY <2>1, <3>3 DEF Sampled, SeriesOps
    <3>6. PICK w \in Wanted : w.lset = AddLabels(h.lset) /\ w.at = h.at
      BY <1>1, <3>1, <3>5, HeldIsWanted
    <3>7. p.lset = AddLabels(h.lset) /\ p.t = t + Shift(call) /\ p.v = u
      BY <3>3
    <3> QED
      BY <3>4, <3>6, <3>7
  <2>2. ASSUME call.op = "Series", NEW l \in reply.data
        PROVE  \E s \in Wanted : s.lset = l /\ \E t \in s.at : Requested(t)
    <3>1. reply.from = "target"
      BY <1>1, <2>2, NotFromTarget
    <3>2. PICK h \in HeldIn(req) : l = AddLabels(h.lset)
      BY <1>1, <2>2, <3>1, FromTarget
    <3>3. \E t \in h.at : Requested(t)
      BY <2>b, <3>2
    <3>4. PICK w \in Wanted : w.lset = AddLabels(h.lset) /\ w.at = h.at
      BY <1>1, <2>a, <2>2, <3>1, HeldIsWanted
    <3> QED
      BY <3>2, <3>3, <3>4
  <2>3. ASSUME call.op = "LabelNames"
        PROVE  reply.data \subseteq DOMAIN RelabelLabels(cfg.add) \cup UNION {DOMAIN s.lset : s \in Wanted}
    <3>1. RelabelLabels(cfg.add) = cfg.add
      BY <1>1, NothingRelabelled
    <3>2. CASE reply.from # "target"
      BY <1>1, <2>3, <3>1, <3>2, NotFromTarget
    <3>3. CASE reply.from = "target"
      <4> SUFFICES ASSUME NEW n \in reply.data, n \notin DOMAIN cfg.add
                   PROVE  \E w \in Wanted : n \in DOMAIN w.lset
        BY <3>1
      <4>1. PICK h \in HeldIn(req) : n \in DOMAIN h.lset
        BY <1>1, <2>3, <3>3, FromTarget
      <4>2. PICK w \in Wanted : w.lset = AddLabels(h.lset)
        BY <1>1, <2>a, <2>3, <3>3, HeldIsWanted
      <4>3. DOMAIN AddLabels(h.lset) = DOMAIN h.lset \cup DOMAIN cfg.add
        BY PresentedValue
      <4> QED
        BY <4>1, <4>2, <4>3
    <3> QED
      BY <3>2, <3>3
  <2>4. ASSUME call.op = "LabelValues", call.label \notin DOMAIN cfg.add
        PROVE  reply.data \subseteq {ValueOf(s.lset, call.label) : s \in Wanted}
    <3> SUFFICES ASSUME NEW v \in reply.data
                 PROVE  \E w \in Wanted : v = ValueOf(w.lset, call.label)
      OBVIOUS
    <3>1. reply.from = "target"
      BY <1>1, <2>4, NotFromTarget
    <3>2. PICK h \in HeldIn(req) : call.label \in DOMAIN h.lset /\ v = h.lset[call.label]
      BY <1>1, <2>4, <3>1, FromTarget
    <3>3. PICK w \in Wanted : w.lset = AddLabels(h.lset)
      BY <1>1, <2>a, <2>4, <3>1, HeldIsWanted
    <3>4. ValueOf(AddLabels(h.lset), call.label) = ValueOf(h.lset, call.label)
      BY <2>4, PresentedValue
    <3> QED
      BY <3>2, <3>3, <3>4 DEF ValueOf
  <2>5. CASE call.op \in SeriesOps
    <3>1. call.op # "Series" /\ call.op # "LabelNames" /\ call.op # "LabelValues"
      BY <2>5 DEF SeriesOps
    <3> QED
      BY <2>1, <2>5, <3>1, Zenon DEF AnswerIsAsked
  <2>6. CASE call.op = "Series"
    <3>1. call.op \notin SeriesOps /\ call.op # "LabelNames" /\ call.op # "LabelValues"
      BY <2>6 DEF SeriesOps
    <3> QED
      BY <2>2, <2>6, <3>1, Zenon DEF AnswerIsAsked
  <2>7. CASE call.op = "LabelNames"
    <3>1. call.op \notin SeriesOps /\ call.op # "Series" /\ call.op # "LabelValues"
      BY <2>7 DEF SeriesOps
    <3> QED
      BY <2>3, <2>7, <3>1, Zenon DEF AnswerIsAsked
  <2>8. CASE call.op = "LabelValues"
    <3>1. call.op \notin SeriesOps /\ call.op # "Series" /\ call.op # "LabelNames"
      BY <2>8 DEF SeriesOps
    <3> QED
      BY <2>4, <2>8, <3>1, Zenon DEF AnswerIsAsked
  <2>9. CASE call.op = "Metadata"
    <3>1. call.op \notin SeriesOps /\ call.op # "Series" /\ call.op # "LabelNames" /\ call.op # "LabelValues"
      BY <2>9 DEF SeriesOps
    <3> QED
      BY <3>1, Zenon DEF AnswerIsAsked
  <2> QED
    BY <2>0, <2>5, <2>6, <2>7, <2>8, <2>9 DEF Ops, LabelOps
<1>2. at # "done" => AnswerIsAsked
  BY DEF AnswerIsAsked
<1>3. ServedInvariant => (NoRules => AnswerIsAsked)
  BY <1>1, <1>2
<1> QED
  BY <1>3, ServedInvariance, PTL

(* In a group without metric relabelling, nothing the group should serve   *)
(* is missing from an answer: every wanted series has every sample that    *)
(* the time windows allow, on the caller's grid however the target aligns. *)
THEOREM NothingMissing == Spec => [](NoRules => AnswerIsComplete)
<1>1. ASSUME ServedInvariant, NoRules, at = "done", reply.from \notin {"labelfilter", "failure"}
      PROVE  AnswerIsComplete
  <2>0. /\ call.op \in Ops /\ IsRequest(call) /\ IsRequest(req) /\ req.op = call.op
        /\ data \in Datas
    BY <1>1, CallsAssumption DEF ServedInvariant, StackInvariant, TypeInv, IsRequest
  <2>1. ASSUME NEW w \in Wanted, call.op # "Metadata",
               call.op = "QueryExemplars" => NamesIn(call.sel) \cap DOMAIN cfg.add = {},
               NEW t \in Int, GridTime(t), Serves(t)
        PROVE  /\ reply.from = "target" /\ req.start <= t /\ t <= req.end
               /\ \E h \in Held(req) : w.lset = AddLabels(h.lset) /\ w.at = h.at
    <3>1. reply.from = "target"
      BY <1>1, <2>1, NothingToServe
    <3>2. req.start <= t /\ t <= req.end
      BY <1>1, <2>1, <3>1 DEF ServedInvariant, TimesCovered, Reached, Up
    <3>3. \E h \in Held(req) : w.lset = AddLabels(h.lset) /\ w.at = h.at
      BY <1>1, <2>1, <3>1, WantedIsHeld
    <3> QED
      BY <3>1, <3>2, <3>3
  <2>2. call.op # "QueryRange" => \A t : GridTime(t)
    BY DEF GridTime
  <2>3. Held(req) \subseteq data /\ \A h \in Held(req) : h.at \subseteq Int
    BY <2>0, DatasAssumption DEF Held, IsSeries
  <2>a. ASSUME NEW w \in Wanted, call.op # "Metadata" PROVE w.at \subseteq Int
    <3>1. \E h \in data : w.at = h.at
      BY <1>1, <2>0, <2>a, WantedOf
    <3> QED
      BY <2>0, <3>1, DatasAssumption DEF IsSeries
  <2>4. ASSUME NEW w \in Wanted, call.op = "Query", Serves(call.start), NEW u \in AsOf(w, call.start)
        PROVE  [lset |-> w.lset, t |-> call.start, v |-> u] \in reply.data
    <3>1. call.start \in Int /\ Shift(call) = 0
      BY <2>0, <2>4 DEF IsRequest, Shift
    <3>2. PICK h \in Held(req) : w.lset = AddLabels(h.lset) /\ w.at = h.at /\ reply.from = "target"
      BY <2>1, <2>2, <2>4, <3>1
    <3>3. u \in AsOf(h, call.start) /\ req.start = call.start
      BY <1>1, <2>4, <3>2 DEF AsOf, ServedInvariant, TimesCovered
    <3>4. Sampled(req, h, call.start, u)
      BY <2>0, <2>4, <3>2, <3>3 DEF Sampled
    <3>5. call.start + Shift(call) = call.start
      BY <3>1
    <3> QED
      BY <1>1, <2>3, <2>4, <3>2, <3>4, <3>5, FromTarget DEF SeriesOps
  <2>5. ASSUME NEW w \in Wanted, call.op = "QueryRange", NEW t \in Steps, Serves(t),
               NEW u \in AsOf(w, t - Shift(call))
        PROVE  [lset |-> w.lset, t |-> t, v |-> u] \in reply.data
    <3>1. t \in Int /\ GridTime(t) /\ Shift(call) \in Nat
      BY <2>0, <2>5, ShiftIsOffset DEF Steps, StepsFrom, GridTime, IsRequest
    <3>2. PICK h \in Held(req) : w.lset = AddLabels(h.lset) /\ w.at = h.at /\ reply.from = "target"
      BY <2>1, <2>5, <3>1
    <3>3. u \in AsOf(h, t - Shift(call))
      BY <2>5, <3>2 DEF AsOf
    <3>4. t - Shift(call) \in TargetSteps(req)
      BY <1>1, <2>5, <3>2, StepsServed
    <3>5. Sampled(req, h, t - Shift(call), u)
      BY <2>0, <2>5, <3>2, <3>3, <3>4 DEF Sampled
    <3>6. (t - Shift(call)) + Shift(call) = t
      BY <3>1
    <3>7. call.op \in SeriesOps
      BY <2>5 DEF SeriesOps
    <3> QED
      BY <1>1, <2>3, <3>2, <3>5, <3>6, <3>7, FromTarget
  <2>6. ASSUME NEW w \in Wanted, call.op \in {"GetValue", "QueryExemplars"},
               call.op = "QueryExemplars" => NamesIn(call.sel) \cap DOMAIN cfg.add = {},
               NEW t \in w.at, Serves(t)
        PROVE  [lset |-> w.lset, t |-> t, v |-> t] \in reply.data
    <3>1. t \in Int /\ Shift(call) = 0
      BY <2>a, <2>6 DEF Shift
    <3>2. PICK h \in Held(req) : /\ w.lset = AddLabels(h.lset) /\ w.at = h.at
                                 /\ reply.from = "target" /\ req.start <= t /\ t <= req.end
      BY <2>1, <2>2, <2>6, <3>1
    <3>3. Sampled(req, h, t, t)
      BY <2>0, <2>6, <3>2 DEF Sampled
    <3>4. t + Shift(call) = t
      BY <3>1
    <3>5. call.op \in SeriesOps
      BY <2>6 DEF SeriesOps
    <3> QED
      BY <1>1, <2>3, <3>2, <3>3, <3>4, <3>5, FromTarget
  <2>7. ASSUME NEW w \in Wanted, call.op \in {"Series", "LabelNames", "LabelValues"},
               NEW t \in w.at, Serves(t)
        PROVE  reply.from = "target" /\ \E h \in HeldIn(req) : w.lset = AddLabels(h.lset)
    <3>1. t \in Int
      BY <2>a, <2>7
    <3>2. PICK h \in Held(req) : /\ w.lset = AddLabels(h.lset) /\ w.at = h.at
                                 /\ reply.from = "target" /\ req.start <= t /\ t <= req.end
      BY <2>1, <2>2, <2>7, <3>1
    <3> QED
      BY <2>7, <3>2 DEF HeldIn
  <2>8. ASSUME NEW w \in Wanted, call.op = "Series", \E t \in w.at : Serves(t)
        PROVE  w.lset \in reply.data
    BY <1>1, <2>7, <2>8, FromTarget
  <2>9. ASSUME NEW w \in Wanted, call.op = "LabelNames", \E t \in w.at : Serves(t)
        PROVE  DOMAIN w.lset \subseteq reply.data
    <3>1. PICK h \in HeldIn(req) : w.lset = AddLabels(h.lset) /\ reply.from = "target"
      BY <2>7, <2>9
    <3>2. DOMAIN w.lset = DOMAIN h.lset \cup DOMAIN cfg.add
      BY <3>1, PresentedValue
    <3>3. reply.data = DOMAIN cfg.add \cup UNION {DOMAIN s.lset : s \in HeldIn(req)}
      BY <1>1, <2>9, <3>1, FromTarget
    <3> QED
      BY <3>1, <3>2, <3>3
  <2>10. ASSUME NEW w \in Wanted, call.op = "LabelValues", \E t \in w.at : Serves(t),
                call.label \in DOMAIN w.lset
         PROVE  w.lset[call.label] \in reply.data
    <3>1. PICK h \in HeldIn(req) : w.lset = AddLabels(h.lset) /\ reply.from = "target"
      BY <2>7, <2>10
    <3>2. /\ DOMAIN AddLabels(h.lset) = DOMAIN h.lset \cup DOMAIN cfg.add
          /\ call.label \in DOMAIN cfg.add => AddLabels(h.lset)[call.label] = cfg.add[call.label]
          /\ call.label \in DOMAIN h.lset \ DOMAIN cfg.add =>
               AddLabels(h.lset)[call.label] = h.lset[call.label]
      BY PresentedValue
    <3>3. reply.data = {s.lset[call.label] : s \in {x \in HeldIn(req) : call.label \in DOMAIN x.lset}}
                         \cup {cfg.add[n] : n \in DOMAIN cfg.add \cap {call.label}}
      BY <1>1, <2>10, <3>1, FromTarget
    <3> QED
      BY <2>10, <3>1, <3>2, <3>3
  <2> DEFINE Raw == \/ call.op = "GetValue"
                    \/ call.op = "QueryExemplars" /\ NamesIn(call.sel) \cap DOMAIN cfg.add = {}
  <2>11. CASE call.op = "Query"
    <3>1. /\ call.op # "QueryRange" /\ ~Raw /\ call.op # "Series"
          /\ call.op # "LabelNames" /\ call.op # "LabelValues"
      BY <2>11
    <3> QED
      BY <2>4, <2>11, <3>1, Zenon DEF AnswerIsComplete
  <2>12. CASE call.op = "QueryRange"
    <3>1. /\ call.op # "Query" /\ ~Raw /\ call.op # "Series"
          /\ call.op # "LabelNames" /\ call.op # "LabelValues"
      BY <2>12
    <3>2. \A w \in Wanted : \A t \in {u \in Steps : Serves(u)} : \A u \in AsOf(w, t - Shift(call)) :
            [lset |-> w.lset, t |-> t, v |-> u] \in reply.data
      BY <2>5, <2>12
    <3> QED
      BY <2>12, <3>1, <3>2, Zenon DEF AnswerIsComplete
  <2>13. CASE Raw
    <3>1. /\ call.op # "Query" /\ call.op # "QueryRange" /\ call.op # "Series"
          /\ call.op # "LabelNames" /\ call.op # "LabelValues"
      BY <2>13
    <3>2. \A w \in Wanted : \A t \in w.at : Serves(t) => [lset |-> w.lset, t |-> t, v |-> t] \in reply.data
      BY <2>6, <2>13
    <3> QED
      BY <2>13, <3>1, <3>2, Zenon DEF AnswerIsComplete
  <2>14. CASE call.op = "Series"
    <3>1. /\ call.op # "Query" /\ call.op # "QueryRange" /\ ~Raw
          /\ call.op # "LabelNames" /\ call.op # "LabelValues"
      BY <2>14
    <3> QED
      BY <2>8, <2>14, <3>1, Zenon DEF AnswerIsComplete
  <2>15. CASE call.op = "LabelNames"
    <3>1. /\ call.op # "Query" /\ call.op # "QueryRange" /\ ~Raw
          /\ call.op # "Series" /\ call.op # "LabelValues"
      BY <2>15
    <3> QED
      BY <2>9, <2>15, <3>1, Zenon DEF AnswerIsComplete
  <2>16. CASE call.op = "LabelValues"
    <3>1. /\ call.op # "Query" /\ call.op # "QueryRange" /\ ~Raw
          /\ call.op # "Series" /\ call.op # "LabelNames"
      BY <2>16
    <3> QED
      BY <2>10, <2>16, <3>1, Zenon DEF AnswerIsComplete
  <2>17. CASE call.op = "Metadata" \/ (call.op = "QueryExemplars" /\ ~Raw)
    <3>1. /\ call.op # "Query" /\ call.op # "QueryRange" /\ ~Raw
          /\ call.op # "Series" /\ call.op # "LabelNames" /\ call.op # "LabelValues"
      BY <2>17
    <3> QED
      BY <3>1, Zenon DEF AnswerIsComplete
  <2> QED
    BY <2>0, <2>11, <2>12, <2>13, <2>14, <2>15, <2>16, <2>17 DEF Ops, SeriesOps, LabelOps
<1>2. at # "done" \/ reply.from \in {"labelfilter", "failure"} => AnswerIsComplete
  BY DEF AnswerIsComplete
<1>3. ServedInvariant => (NoRules => AnswerIsComplete)
  BY <1>1, <1>2
<1> QED
  BY <1>3, ServedInvariance, PTL
=============================================================================
