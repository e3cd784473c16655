----------------------------- MODULE MultiAPI -----------------------------
(***************************************************************************)
(* One call on a MultiAPI (pkg/promclient/multi_api.go): the constructor's *)
(* check, one goroutine per downstream API, the buffered result channel,   *)
(* the gathering loop with its per-HA-key quorum and early return, the     *)
(* error picker, and the merge.  LabelValues, LabelNames, Series,          *)
(* Metadata, QueryExemplars and scatterMerge (behind Query, QueryRange and *)
(* GetValue) are the same scatter/gather and differ in how the answers are *)
(* merged; op says which of them the call is.                              *)
(*                                                                         *)
(* The goroutines race to send, so the order in which the channel yields   *)
(* results is any order: the channel is the set of APIs whose result is    *)
(* buffered.                                                               *)
(***************************************************************************)
EXTENDS Integers, FiniteSets, SequencesExt

CONSTANTS
  N,         \* number of downstream APIs
  Keys,      \* HA keys (fingerprints of API.Key())
  RequiredCounts, \* the requiredCount arguments: 1 in a server group,
             \* N over the server groups, anything a caller of the package passes
  Ops,       \* the operations called in this instance
  RawErrs,   \* the failures the downstreams may produce in this instance
  Names,     \* what answers contain: label names/values, series, metric names
  NilMap,    \* the nil map, as a wrapper answers for a swallowed error
  Nilable    \* whether downstreams may answer NilMap without an error

Apis == 1..N

(* Operations that fold each answer into the result as it arrives, and     *)
(* operations that park the answers in slots and merge them in API order.  *)
ArrivalOps == {"LabelValues", "LabelNames", "QueryExemplars"}
SlotOps == {"Query", "Series", "Metadata"}

(* Error classes, by the rank errorPicker gives them. *)
Rank == [canceled |-> 0, storage |-> 1, timeout |-> 2, refused |-> 3]
NoErr == "none"

(* Mutant: a request that ran into its deadline taken for a dead downstream. *)
MutDeadlineIsStorage(raw) ==
  CASE raw = "envelope_timeout" -> "timeout"
    [] raw \in {"context_canceled", "envelope_canceled"} -> "canceled"
    [] raw \in {"envelope_bad_data", "envelope_execution", "other"} -> "refused"
    [] OTHER -> "storage"

(* A downstream error as the client returns it, to the class the API       *)
(* server answers with (NormalizePromError and classifyAPIError, then the  *)
(* classification of errorRank).  An "envelope" is a parsed API error body *)
(* of the given type.                                                      *)
NormalizePromError(raw) ==
  CASE raw \in {"http_error", "no_detail", "not_an_envelope", "bad_response",
                "transport_error", "envelope_internal",
                "envelope_unavailable"}                 -> "storage"
    [] raw \in {"deadline_exceeded", "net_timeout",
                "envelope_timeout"}                     -> "timeout"
    [] raw \in {"context_canceled", "envelope_canceled"} -> "canceled"
    [] OTHER                                            -> "refused"

AllRawErrs ==
  {"http_error", "no_detail", "not_an_envelope", "bad_response",
   "transport_error", "envelope_internal", "envelope_unavailable",
   "deadline_exceeded", "net_timeout", "envelope_timeout",
   "context_canceled", "envelope_canceled",
   "envelope_bad_data", "envelope_execution", "other"}

ASSUME NAssumption == N \in Nat
ASSUME RequiredCountsAssumption == RequiredCounts \subseteq 0..N
ASSUME OpsAssumption == Ops \subseteq ArrivalOps \cup SlotOps
ASSUME RawErrsAssumption == RawErrs \subseteq AllRawErrs
ASSUME NilableAssumption == Nilable \in BOOLEAN

Values == {NilMap} \cup SUBSET Names
Replies == [err : DOMAIN Rank \cup {NoErr}, v : Values]

(* What a downstream would answer if nothing interrupted the request. *)
Answers ==
  [err : {NoErr}, v : (IF Nilable THEN {NilMap} ELSE {}) \cup SUBSET Names]
    \cup [err : {NormalizePromError(e) : e \in RawErrs}, v : {NilMap}]

VARIABLES
  apiFingerprints,      \* HA key of each API
  requiredCount,        \* answers required per HA key
  op,                   \* which operation is called
  answer,               \* what each downstream would answer
  ctx,                  \* the caller's context: live, canceled or deadline
  pc,                   \* where the calling goroutine is
  worker,               \* where each API's goroutine is
  reply,                \* what each goroutine got from its API
  resultChan,           \* APIs whose result is in the channel
  received,             \* APIs whose result the loop has taken
  outstandingRequests,  \* per HA key, requests not taken yet
  successMap,           \* per HA key, successful answers taken
  slots,                \* APIs whose answer is merged or parked for merging
  accumulated,          \* union of the answers an ArrivalOp folded so far
  errs,                 \* the errorPicker
  result,               \* what the call returned
  value                 \* the merged answer it returned

vars == <<apiFingerprints, requiredCount, op, answer, ctx, pc, worker, reply,
          resultChan, received, outstandingRequests, successMap, slots,
          accumulated, errs, result, value>>
input == <<apiFingerprints, requiredCount, op, answer>>

NoReply == [err |-> NoErr, v |-> NilMap]
NoErrs == [err |-> NoErr, i |-> 0]

(* What a call returns: the APIs whose answers it merged, or an error and  *)
(* the API it is from.                                                     *)
Return(kind, from, api, err) ==
  [kind |-> kind, from |-> from, api |-> api, err |-> err]
Results ==
  [kind : {"pending", "rejected", "ok", "err", "ctx"}, from : SUBSET Apis,
   api : 0..N, err : DOMAIN Rank \cup {NoErr}]
Pending == Return("pending", {}, 0, NoErr)
NoValue == [kind |-> "none", v |-> <<>>]

(* Mutant: the last error wins. *)
MutLastErrorWins(p, i, e) == [err |-> e, i |-> i]

(* errorPicker.add: a higher rank replaces the error, a tie goes to the    *)
(* lowest API index.                                                       *)
ErrsAdd(p, i, e) ==
  IF \/ p.err = NoErr
     \/ Rank[e] > Rank[p.err]
     \/ Rank[e] = Rank[p.err] /\ i < p.i
  THEN [err |-> e, i |-> i]
  ELSE p

Used == {apiFingerprints[i] : i \in Apis}
Members(S, k) == {i \in S : apiFingerprints[i] = k}
Bucket(k) == Members(Apis, k)

(* Mutant: the child context is not cancelled when the call returns. *)
MutNoDeferredCancel == ctx # "live"

(* The deferred childContextCancel, or the caller's context it derives     *)
(* from, has ended the requests' context.                                  *)
ChildDone == ctx # "live" \/ pc = "returned"

(* Capacity of the result channel. *)
ChanCap == N

Init ==
  /\ apiFingerprints \in [Apis -> Keys]
  /\ requiredCount \in RequiredCounts
  /\ op \in Ops
  /\ answer \in [Apis -> Answers]
  /\ ctx = "live"
  /\ pc = "new"
  /\ worker = [i \in Apis |-> "idle"]
  /\ reply = [i \in Apis |-> NoReply]
  /\ resultChan = {}
  /\ received = {}
  /\ outstandingRequests = [k \in Keys |-> 0]
  /\ successMap = [k \in Keys |-> 0]
  /\ slots = {}
  /\ accumulated = {}
  /\ errs = NoErrs
  /\ result = Pending
  /\ value = NoValue

---------------------------------------------------------------------------
(* The constructor.                                                        *)

EnoughMembers == \A k \in Used : Cardinality(Bucket(k)) >= requiredCount

NewMultiAPI ==
  /\ pc = "new"
  /\ IF EnoughMembers
     THEN pc' = "scatter" /\ UNCHANGED result
     ELSE /\ pc' = "returned"
          /\ result' = Return("rejected", {}, 0, NoErr)
  /\ UNCHANGED <<input, ctx, worker, reply, resultChan, received,
                 outstandingRequests, successMap, slots, accumulated, errs,
                 value>>

---------------------------------------------------------------------------
(* The downstream requests.                                                *)

(* Mutant: the requests of all HA keys counted together. *)
MutScatterCountsAll ==
  /\ pc = "scatter"
  /\ outstandingRequests' = [k \in Keys |-> N]
  /\ worker' = [i \in Apis |-> "calling"]
  /\ pc' = "gather"
  /\ UNCHANGED <<input, ctx, reply, resultChan, received, successMap, slots,
                 accumulated, errs, result, value>>

Scatter ==
  /\ pc = "scatter"
  /\ outstandingRequests' = [k \in Keys |-> Cardinality(Bucket(k))]
  /\ worker' = [i \in Apis |-> "calling"]
  /\ pc' = "gather"
  /\ UNCHANGED <<input, ctx, reply, resultChan, received, successMap, slots,
                 accumulated, errs, result, value>>

(* The API call of goroutine i returns the downstream's answer. *)
ApiAnswers(i) ==
  /\ worker[i] = "calling"
  /\ worker' = [worker EXCEPT ![i] = "sending"]
  /\ reply' = [reply EXCEPT ![i] = answer[i]]
  /\ UNCHANGED <<input, ctx, pc, resultChan, received, outstandingRequests,
                 successMap, slots, accumulated, errs, result, value>>

(* The request's context is done, and the API call gives up on it. *)
ApiInterrupted(i) ==
  /\ worker[i] = "calling"
  /\ ChildDone
  /\ worker' = [worker EXCEPT ![i] = "sending"]
  /\ reply' = [reply EXCEPT ![i].err = NormalizePromError(
                 IF ctx = "deadline" THEN "deadline_exceeded"
                                     ELSE "context_canceled")]
  /\ UNCHANGED <<input, ctx, pc, resultChan, received, outstandingRequests,
                 successMap, slots, accumulated, errs, result, value>>

(* The goroutine sends its result and exits. *)
Send(i) ==
  /\ worker[i] = "sending"
  /\ Cardinality(resultChan) < ChanCap
  /\ resultChan' = resultChan \cup {i}
  /\ worker' = [worker EXCEPT ![i] = "done"]
  /\ UNCHANGED <<input, ctx, pc, reply, received, outstandingRequests,
                 successMap, slots, accumulated, errs, result, value>>

---------------------------------------------------------------------------
(* The gathering loop.                                                     *)

(* Mutant: a result taken without counting it towards the loop's end. *)
MutTakeUncounted(i) ==
  /\ pc = "gather"
  /\ i \in resultChan
  /\ resultChan' = resultChan \ {i}
  /\ outstandingRequests' = [outstandingRequests EXCEPT ![apiFingerprints[i]] = @ - 1]
  /\ UNCHANGED received

Take(i) ==
  /\ pc = "gather"
  /\ i \in resultChan
  /\ resultChan' = resultChan \ {i}
  /\ received' = received \cup {i}
  /\ outstandingRequests' = [outstandingRequests EXCEPT ![apiFingerprints[i]] = @ - 1]

(* Mutants: give up one failure late; forget the answers already held. *)
MutCannotSucceedLate(k) == outstandingRequests'[k] + successMap[k] + 1 < requiredCount
MutCannotSucceedForgets(k) == outstandingRequests'[k] < requiredCount

(* Requests still out plus answers held no longer reach requiredCount. *)
CannotSucceed(k) == outstandingRequests'[k] + successMap[k] < requiredCount

GatherSuccess(i) ==
  /\ Take(i)
  /\ reply[i].err = NoErr
  /\ successMap' = [successMap EXCEPT ![apiFingerprints[i]] = @ + 1]
  /\ slots' = slots \cup {i}
  /\ accumulated' = IF op \in ArrivalOps /\ reply[i].v # NilMap
                    THEN accumulated \cup reply[i].v
                    ELSE accumulated
  /\ UNCHANGED <<input, ctx, pc, worker, reply, errs, result, value>>

(* A failed downstream the call can still do without. *)
GatherError(i) ==
  /\ Take(i)
  /\ reply[i].err # NoErr
  /\ errs' = ErrsAdd(errs, i, reply[i].err)
  /\ ~CannotSucceed(apiFingerprints[i])
  /\ UNCHANGED <<input, ctx, pc, worker, reply, successMap, slots,
                 accumulated, result, value>>

(* A failed downstream that makes quorum impossible: return at once. *)
GatherFail(i) ==
  /\ Take(i)
  /\ reply[i].err # NoErr
  /\ errs' = ErrsAdd(errs, i, reply[i].err)
  /\ CannotSucceed(apiFingerprints[i])
  /\ result' = Return("err", {}, errs'.i, errs'.err)
  /\ pc' = "returned"
  /\ UNCHANGED <<input, ctx, worker, reply, successMap, slots, accumulated,
                 value>>

(* Mutant: a loop that waits on the results only. *)
MutNoCtxDone == FALSE /\ UNCHANGED vars

(* The loop's select takes ctx.Done(), even when a result is ready too. *)
GatherCtxDone ==
  /\ pc = "gather"
  /\ received # Apis
  /\ ctx # "live"
  /\ result' = Return("ctx", {}, 0,
                       IF ctx = "deadline" THEN "timeout" ELSE "canceled")
  /\ pc' = "returned"
  /\ UNCHANGED <<input, ctx, worker, reply, resultChan, received,
                 outstandingRequests, successMap, slots, accumulated, errs,
                 value>>

---------------------------------------------------------------------------
(* The end of the call.                                                    *)

(* The walk over the slots: the APIs of S in the order of the apis slice. *)
InApiOrder(S) ==
  LET walk[n \in 0..N] == IF n = 0 THEN <<>>
                          ELSE IF n \in S THEN Append(walk[n - 1], n) ELSE walk[n - 1]
  IN  walk[N]

(* Mutant: a later answer overwrites the metadata of an earlier one. *)
MutLastWriterWins(owner, i) ==
  LET v == reply[i].v IN
  [kind |-> "map", v |-> [n \in DOMAIN owner.v \cup v |->
                            IF n \in v THEN i ELSE owner.v[n]]]

(* Metadata's merge: the first answer is the result map, later answers add *)
(* the metric names it lacks.  owner maps a metric name to the API whose   *)
(* metadata the result holds.  A write to a nil result map panics.         *)
MergeMetadata(owner, i) ==
  LET v == reply[i].v IN
  IF owner.kind = "panic" THEN owner
  ELSE IF owner.kind = "none"
  THEN [kind |-> IF v = NilMap THEN "nil" ELSE "map",
        v |-> [n \in IF v = NilMap THEN {} ELSE v |-> i]]
  ELSE IF v = NilMap \/ v \subseteq DOMAIN owner.v THEN owner
  ELSE IF owner.kind = "nil" THEN [kind |-> "panic", v |-> owner.v]
  ELSE [kind |-> "map",
        v |-> [n \in DOMAIN owner.v \cup v |->
                 IF n \in DOMAIN owner.v THEN owner.v[n] ELSE i]]

(* The same walk, merging the metadata of the APIs of S. *)
MetadataOf(S) ==
  LET walk[n \in 0..N] == IF n = 0 THEN NoValue
                          ELSE IF n \in S THEN MergeMetadata(walk[n - 1], n) ELSE walk[n - 1]
  IN  walk[N]

Merged ==
  CASE op \in ArrivalOps -> [kind |-> "set", v |-> accumulated]
    [] op = "Metadata"   -> MetadataOf(slots)
    [] OTHER             -> [kind |-> "seq", v |-> InApiOrder(slots)]

(* Every result is in: verify requiredCount for all buckets and merge. *)
Finish ==
  /\ pc = "gather"
  /\ received = Apis
  /\ IF \E k \in Used : successMap[k] < requiredCount
     THEN /\ result' = Return("err", {}, errs.i, errs.err)
          /\ UNCHANGED value
     ELSE /\ result' = Return("ok", slots, 0, NoErr)
          /\ value' = Merged
  /\ pc' = "returned"
  /\ UNCHANGED <<input, ctx, worker, reply, resultChan, received,
                 outstandingRequests, successMap, slots, accumulated, errs>>

---------------------------------------------------------------------------
(* The caller's context ends: the client went away or the query timed out. *)
CtxDone ==
  /\ ctx = "live"
  /\ ctx' \in {"canceled", "deadline"}
  /\ UNCHANGED <<input, pc, worker, reply, resultChan, received,
                 outstandingRequests, successMap, slots, accumulated, errs,
                 result, value>>

WorkersExited == \A i \in Apis : worker[i] \in {"idle", "done"}

(* The call is over and its goroutines are gone. *)
Over ==
  /\ pc = "returned"
  /\ WorkersExited
  /\ UNCHANGED vars

Caller ==
  \/ NewMultiAPI
  \/ Scatter
  \/ \E i \in Apis : GatherSuccess(i) \/ GatherError(i) \/ GatherFail(i)
  \/ GatherCtxDone
  \/ Finish

Next ==
  \/ Caller
  \/ \E i \in Apis : ApiAnswers(i) \/ ApiInterrupted(i) \/ Send(i)
  \/ CtxDone
  \/ Over

(* The Go scheduler runs every runnable goroutine.  A downstream need not  *)
(* ever answer, and an API call need not notice the end of its context.    *)
Fairness ==
  /\ WF_vars(Caller)
  /\ \A i \in Apis : WF_vars(Send(i))

Spec == Init /\ [][Next]_vars /\ Fairness

---------------------------------------------------------------------------
(* Properties.                                                             *)

(* Every variable keeps its type: the counters of the gather loop stay     *)
(* natural numbers and the channel holds results of downstreams.           *)
TypeOK ==
  /\ apiFingerprints \in [Apis -> Keys]
  /\ requiredCount \in RequiredCounts
  /\ op \in Ops
  /\ answer \in [Apis -> Answers]
  /\ ctx \in {"live", "canceled", "deadline"}
  /\ pc \in {"new", "scatter", "gather", "returned"}
  /\ worker \in [Apis -> {"idle", "calling", "sending", "done"}]
  /\ reply \in [Apis -> Replies]
  /\ resultChan \in SUBSET Apis
  /\ received \in SUBSET Apis
  /\ outstandingRequests \in [Keys -> Nat]
  /\ successMap \in [Keys -> Nat]
  /\ slots \in SUBSET Apis
  /\ accumulated \in SUBSET Names
  /\ errs \in [err : DOMAIN Rank \cup {NoErr}, i : 0..N]
  /\ result \in Results

(* The APIs whose downstream answers, and those whose downstream fails. *)
Good == {i \in Apis : answer[i].err = NoErr}
Bad == Apis \ Good

(* The call seen by its caller is a QuorumCall: it succeeds exactly when   *)
(* every HA key can field requiredCount answers, merges every one of them, *)
(* and fails only with the error of a downstream that did fail.            *)
Abstract == INSTANCE QuorumCall WITH
  fingerprint <- apiFingerprints,
  required    <- requiredCount,
  good        <- Good,
  interrupted <- ctx # "live",
  outcome     <- [kind |-> result.kind, from |-> result.from, api |-> result.api]

(* MultiAPI implements QuorumCall whatever order the results arrive in:    *)
(* the early return of the loop never gives up on a reachable quorum.      *)
ImplementsQuorumCall == Abstract!Spec

(* The loop keeps every HA key's quorum reachable, so the check of         *)
(* requiredCount after the loop never fails: each failed request is either *)
(* affordable or has already ended the call.                               *)
QuorumStaysReachable ==
  pc = "gather" =>
    \A k \in Used : outstandingRequests[k] + successMap[k] >= requiredCount

(* The counters count, the channel and the loop account for the goroutines *)
(* that finished, each reply is the downstream's answer or the end of its  *)
(* context, and the picker holds an error of a request that failed.        *)
Bookkeeping ==
  /\ \A k \in Keys : successMap[k] = Cardinality(Members(slots, k))
  /\ pc = "gather" => \A k \in Keys :
       outstandingRequests[k] = Cardinality(Members(Apis \ received, k))
  /\ pc \in {"new", "scatter"} => /\ received = {}
                                  /\ \A i \in Apis : worker[i] = "idle"
  /\ pc = "scatter" => EnoughMembers
  /\ slots = {i \in received : reply[i].err = NoErr}
  /\ received \cap resultChan = {}
  /\ \A i \in Apis : (i \in received \cup resultChan) => worker[i] = "done"
  /\ \A i \in Apis : worker[i] = "done" =>
       \/ reply[i] = answer[i]
       \/ ChildDone /\ reply[i].err # NoErr
  /\ \A i \in Apis : worker[i] = "sending" =>
       \/ reply[i] = answer[i]
       \/ ChildDone /\ reply[i].err # NoErr
  /\ result = Pending <=> pc # "returned"
  /\ errs # NoErrs => /\ errs.i \in received \ slots
                      /\ errs.err = reply[errs.i].err

(* The strengthening of TypeOK and QuorumStaysReachable that every step of *)
(* the call preserves: the loop's counters agree with the sets of requests *)
(* they stand for, so a bucket short of answers is short of downstreams.   *)
InductiveInvariant == TypeOK /\ Bookkeeping /\ QuorumStaysReachable

(* The merged answer depends on what the downstreams answered and not on   *)
(* the order they answered in: set-like results are the union of the       *)
(* answers, series sets are merged in API order, and metadata of a metric  *)
(* is that of the first API that knows it.                                 *)
MergeIndependentOfArrival ==
  (result.kind = "ok" /\ ctx = "live" /\ value.kind # "panic") =>
    LET known(i) == IF answer[i].v = NilMap THEN {} ELSE answer[i].v IN
    CASE op \in ArrivalOps ->
           value.v = UNION {known(i) : i \in Good}
      [] op = "Metadata" ->
           /\ DOMAIN value.v = UNION {known(i) : i \in Good}
           /\ \A n \in DOMAIN value.v :
                /\ n \in known(value.v[n])
                /\ \A i \in Good : n \in known(i) => value.v[n] <= i
      [] OTHER ->
           /\ Range(value.v) = Good
           /\ \A a, b \in DOMAIN value.v : a < b => value.v[a] < value.v[b]

(* An interrupted call never blames a downstream that did not fail: with   *)
(* no failing downstream, an error is the context's own class.             *)
InterruptionNotBlamed ==
  (result.kind = "err" /\ Bad = {}) =>
    /\ ctx # "live"
    /\ result.err = IF ctx = "deadline" THEN "timeout" ELSE "canceled"

(* The error a failed call reports is the one errorPicker would choose     *)
(* from all failing downstreams, so the status does not depend on the      *)
(* order of arrival.  Holds where a call fails only when all downstreams   *)
(* failed: one HA key and requiredCount 1, as a server group is built.     *)
StatusIndependentOfArrival ==
  (result.kind = "err" /\ ctx = "live") =>
    \A i \in Bad :
      \/ Rank[answer[i].err] < Rank[result.err]
      \/ Rank[answer[i].err] = Rank[result.err] /\ result.api <= i

(* The merge of the answers never writes to a nil map. *)
MergeNeverPanics == value.kind # "panic"

(* A call whose context ends returns, whatever its downstreams do. *)
InterruptedCallReturns == (pc = "gather" /\ ctx # "live") ~> (pc = "returned")

(* When every downstream has answered, the call returns. *)
AnsweredCallReturns ==
  (pc = "gather" /\ \A i \in Apis : worker[i] # "calling") ~> (pc = "returned")

(* No goroutine outlives its call for good when API calls return once      *)
(* their context is done, as net/http's do: the deferred cancel ends the   *)
(* requests in flight, and the buffered channel takes every late result.   *)
GoroutinesExit ==
  (\A i \in Apis : WF_vars(ApiInterrupted(i))) =>
    ((pc = "returned") ~> WorkersExited)
=============================================================================
