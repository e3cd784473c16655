---------------------------- MODULE QuorumCall ----------------------------
(***************************************************************************)
(* What one call on a promxy MultiAPI promises its caller, with none of    *)
(* the goroutines, channels or counters of pkg/promclient/multi_api.go.    *)
(*                                                                         *)
(* Every downstream has an answer.  A call whose context stays live        *)
(* succeeds exactly when every HA key has at least requiredCount           *)
(* answering downstreams, and then merges all of them; otherwise it        *)
(* reports the error of some downstream that failed.  Once the caller's    *)
(* context is done the call may still succeed with a quorum of the         *)
(* answers, or report an error.                                            *)
(***************************************************************************)
EXTENDS Integers, FiniteSets

CONSTANTS N,      \* number of downstream APIs of the MultiAPI
          Keys    \* HA keys (fingerprints of API.Key())

Apis == 1..N

VARIABLES
  fingerprint,    \* HA key of each API
  required,       \* answers required per HA key
  good,           \* the APIs whose downstream answers without error
  interrupted,    \* the caller's context is done
  outcome         \* what the call returned

vars == <<fingerprint, required, good, interrupted, outcome>>

(* The members of HA key k within the set S of APIs. *)
Members(S, k) == {i \in S : fingerprint[i] = k}

(* S holds enough answers for every HA key that has a member. *)
Quorum(S) ==
  \A k \in {fingerprint[i] : i \in Apis} : Cardinality(Members(S, k)) >= required

Pending == [kind |-> "pending", from |-> {}, api |-> 0]
Rejected == [kind |-> "rejected", from |-> {}, api |-> 0]
Interrupted == [kind |-> "ctx", from |-> {}, api |-> 0]
Merged(S) == [kind |-> "ok", from |-> S, api |-> 0]
Failed(i) == [kind |-> "err", from |-> {}, api |-> i]

Init ==
  /\ fingerprint \in [Apis -> Keys]
  /\ required \in 0..N
  /\ good \in SUBSET Apis
  /\ interrupted = FALSE
  /\ outcome = Pending

(* The constructor refuses a MultiAPI no call on which could reach quorum. *)
Reject ==
  /\ outcome = Pending
  /\ ~Quorum(Apis)
  /\ outcome' = Rejected
  /\ UNCHANGED <<fingerprint, required, good, interrupted>>

Succeed ==
  /\ outcome = Pending
  /\ \E S \in SUBSET good :
       /\ interrupted \/ S = good
       /\ Quorum(S)
       /\ outcome' = Merged(S)
  /\ UNCHANGED <<fingerprint, required, good, interrupted>>

Fail ==
  /\ outcome = Pending
  /\ \E i \in Apis :
       /\ interrupted \/ (i \notin good /\ ~Quorum(good))
       /\ outcome' = Failed(i)
  /\ UNCHANGED <<fingerprint, required, good, interrupted>>

(* The caller's context is canceled or its deadline passes. *)
Interrupt ==
  /\ ~interrupted
  /\ interrupted' = TRUE
  /\ UNCHANGED <<fingerprint, required, good, outcome>>

Abandon ==
  /\ outcome = Pending
  /\ interrupted
  /\ outcome' = Interrupted
  /\ UNCHANGED <<fingerprint, required, good, interrupted>>

Next == Reject \/ Succeed \/ Fail \/ Interrupt \/ Abandon

Spec == Init /\ [][Next]_vars
=============================================================================
