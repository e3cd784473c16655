--------------------------- MODULE MultiAPIProofs ---------------------------
(***************************************************************************)
(* Proofs about MultiAPI for every number of downstreams, every assignment *)
(* of HA keys, every requiredCount and every set of answers.               *)
(***************************************************************************)
EXTENDS MultiAPI, FiniteSetTheorems, WellFoundedInduction, TLAPS

---------------------------------------------------------------------------
(* Counting the members of an HA key.                                      *)

(* A set of APIs has finitely many members of an HA key. *)
LEMMA MembersFinite ==
  ASSUME NEW S \in SUBSET Apis, NEW k
  PROVE  /\ IsFiniteSet(Members(S, k))
         /\ Cardinality(Members(S, k)) \in Nat
<1>1. IsFiniteSet(Apis)
  BY NAssumption, FS_Interval DEF Apis
<1>2. Members(S, k) \in SUBSET Apis
  BY DEF Members
<1>3. IsFiniteSet(Members(S, k))
  BY <1>1, <1>2, FS_Subset
<1> QED
  BY <1>3, FS_CardinalityType

(* Adding an API to a set counts it in its own HA key only. *)
LEMMA MembersAdd ==
  ASSUME NEW S \in SUBSET Apis, NEW i \in Apis \ S, NEW k
  PROVE  Cardinality(Members(S \cup {i}, k)) =
           IF apiFingerprints[i] = k THEN Cardinality(Members(S, k)) + 1
                                     ELSE Cardinality(Members(S, k))
<1>1. IsFiniteSet(Members(S, k))
  BY MembersFinite
<1>2. CASE apiFingerprints[i] = k
  <2>1. Members(S \cup {i}, k) = Members(S, k) \cup {i}
    BY <1>2 DEF Members
  <2>2. i \notin Members(S, k)
    BY DEF Members
  <2>3. Cardinality(Members(S, k) \cup {i}) = Cardinality(Members(S, k)) + 1
    BY <1>1, <2>2, FS_AddElement
  <2> QED
    BY <1>2, <2>1, <2>3
<1>3. CASE apiFingerprints[i] # k
  <2>1. Members(S \cup {i}, k) = Members(S, k)
    BY <1>3 DEF Members
  <2> QED
    BY <1>3, <2>1
<1> QED
  BY <1>2, <1>3

(* Removing an API from a set takes it out of its own HA key only. *)
LEMMA MembersRemove ==
  ASSUME NEW S \in SUBSET Apis, NEW i \in S, NEW k
  PROVE  Cardinality(Members(S \ {i}, k)) =
           IF apiFingerprints[i] = k THEN Cardinality(Members(S, k)) - 1
                                     ELSE Cardinality(Members(S, k))
<1>1. IsFiniteSet(Members(S, k))
  BY MembersFinite
<1>2. CASE apiFingerprints[i] = k
  <2>1. Members(S \ {i}, k) = Members(S, k) \ {i}
    BY <1>2 DEF Members
  <2>2. i \in Members(S, k)
    BY <1>2 DEF Members
  <2>3. Cardinality(Members(S, k) \ {i}) = Cardinality(Members(S, k)) - 1
    BY <1>1, <2>2, FS_RemoveElement
  <2> QED
    BY <1>2, <2>1, <2>3
<1>3. CASE apiFingerprints[i] # k
  <2>1. Members(S \ {i}, k) = Members(S, k)
    BY <1>3 DEF Members
  <2> QED
    BY <1>3, <2>1
<1> QED
  BY <1>2, <1>3

(* A set covered by two others has no more members than they have. *)
LEMMA MembersCover ==
  ASSUME NEW A \in SUBSET Apis, NEW B \in SUBSET Apis, NEW C \in SUBSET Apis,
         A \subseteq B \cup C, NEW k
  PROVE  Cardinality(Members(A, k)) <=
           Cardinality(Members(B, k)) + Cardinality(Members(C, k))
<1>1. /\ IsFiniteSet(Members(B, k)) /\ Cardinality(Members(B, k)) \in Nat
      /\ IsFiniteSet(Members(C, k)) /\ Cardinality(Members(C, k)) \in Nat
      /\ IsFiniteSet(Members(A, k)) /\ Cardinality(Members(A, k)) \in Nat
  BY MembersFinite
<1>2. /\ IsFiniteSet(Members(B, k) \cup Members(C, k))
      /\ Cardinality(Members(B, k) \cup Members(C, k)) =
           Cardinality(Members(B, k)) + Cardinality(Members(C, k))
             - Cardinality(Members(B, k) \cap Members(C, k))
  BY <1>1, FS_Union
<1>3. Cardinality(Members(B, k) \cap Members(C, k)) \in Nat
  <2>1. Members(B, k) \cap Members(C, k) \in SUBSET Members(B, k)
    OBVIOUS
  <2>2. IsFiniteSet(Members(B, k) \cap Members(C, k))
    BY <1>1, <2>1, FS_Subset
  <2> QED
    BY <2>2, FS_CardinalityType
<1>4. Members(A, k) \in SUBSET (Members(B, k) \cup Members(C, k))
  BY DEF Members
<1>5. Cardinality(Members(A, k)) <= Cardinality(Members(B, k) \cup Members(C, k))
  BY <1>2, <1>4, FS_Subset
<1> QED
  BY <1>1, <1>2, <1>3, <1>5

(* What a downstream answers is a reply. *)
LEMMA AnswersAreReplies == Answers \subseteq Replies
<1>1. \A raw : NormalizePromError(raw) \in {"storage", "timeout", "canceled", "refused"}
  BY DEF NormalizePromError
<1>2. DOMAIN Rank = {"canceled", "storage", "timeout", "refused"}
  BY DEF Rank
<1> QED
  BY <1>1, <1>2 DEF Answers, Replies, Values

(* The picker keeps an error it has or takes the one it is given. *)
LEMMA ErrsAddPicks ==
  ASSUME NEW p, NEW i, NEW e
  PROVE  ErrsAdd(p, i, e) \in {p, [err |-> e, i |-> i]}
BY DEF ErrsAdd

(* A call returns a result. *)
LEMMA ReturnIsResult ==
  ASSUME NEW kind \in {"pending", "rejected", "ok", "err", "ctx"},
         NEW from \in SUBSET Apis, NEW api \in 0..N,
         NEW err \in DOMAIN Rank \cup {NoErr}
  PROVE  Return(kind, from, api, err) \in Results
BY DEF Return, Results

---------------------------------------------------------------------------
(* The invariant.                                                          *)

LEMMA InitInvariant == Init => InductiveInvariant
<1> SUFFICES ASSUME Init PROVE InductiveInvariant
  OBVIOUS
<1>1. TypeOK
  <2>1. requiredCount \in 0..N
    BY RequiredCountsAssumption DEF Init
  <2>2. 0 \in 0..N
    BY NAssumption
  <2> QED
    BY <2>1, <2>2 DEF Init, TypeOK, Replies, Values, NoReply, NoErrs, Pending,
                       Results, Return, NoErr
<1>2. \A k \in Keys : successMap[k] = Cardinality(Members(slots, k))
  <2>1. \A k : Members(slots, k) = {}
    BY DEF Init, Members
  <2> QED
    BY <2>1, FS_EmptySet DEF Init
<1>3. Bookkeeping
  BY <1>2 DEF Init, Bookkeeping
<1>4. QuorumStaysReachable
  BY DEF Init, QuorumStaysReachable
<1> QED
  BY <1>1, <1>3, <1>4 DEF InductiveInvariant

(* A step that changes neither the HA keys nor the answers held keeps the  *)
(* count of successes.                                                     *)
LEMMA SuccessFramed ==
  ASSUME InductiveInvariant, UNCHANGED <<apiFingerprints, slots, successMap>>
  PROVE  \A k \in Keys : (successMap[k] = Cardinality(Members(slots, k)))'
BY DEF InductiveInvariant, Bookkeeping, Members

(* A step that leaves the counters, the sets they count and the call's     *)
(* position alone keeps the counting facts.                                *)
LEMMA CountsFramed ==
  ASSUME InductiveInvariant,
         UNCHANGED <<apiFingerprints, requiredCount, pc, received, slots,
                     outstandingRequests, successMap>>
  PROVE  /\ \A k \in Keys : (successMap[k] = Cardinality(Members(slots, k)))'
         /\ pc' = "gather" => \A k \in Keys :
              (outstandingRequests[k] = Cardinality(Members(Apis \ received, k)))'
         /\ QuorumStaysReachable'
         /\ pc' = "scatter" => EnoughMembers'
<1>1. \A k \in Keys : (successMap[k] = Cardinality(Members(slots, k)))'
  BY SuccessFramed
<1>2. pc' = "gather" => \A k \in Keys :
        (outstandingRequests[k] = Cardinality(Members(Apis \ received, k)))'
  BY DEF InductiveInvariant, Bookkeeping, Members, Apis
<1>3. QuorumStaysReachable'
  BY DEF InductiveInvariant, QuorumStaysReachable, Used, Apis
<1>4. pc = "scatter" => EnoughMembers
  BY DEF InductiveInvariant, Bookkeeping
<1>5. EnoughMembers => EnoughMembers'
  BY DEF EnoughMembers, Used, Bucket, Members, Apis
<1> QED
  BY <1>1, <1>2, <1>3, <1>4, <1>5

(* Taking a result from the channel moves one request of its HA key from   *)
(* outstanding to received.                                                *)
LEMMA TakeCounts ==
  ASSUME InductiveInvariant, NEW i \in Apis, Take(i),
         UNCHANGED apiFingerprints
  PROVE  /\ i \notin received
         /\ outstandingRequests' \in [Keys -> Nat]
         /\ \A k \in Keys : outstandingRequests'[k] =
              IF k = apiFingerprints[i] THEN outstandingRequests[k] - 1
                                        ELSE outstandingRequests[k]
         /\ \A k \in Keys :
              (outstandingRequests[k] = Cardinality(Members(Apis \ received, k)))'
<1> DEFINE Out == Apis \ received
<1>1. /\ i \notin received
      /\ outstandingRequests \in [Keys -> Nat]
      /\ apiFingerprints[i] \in Keys
      /\ \A k \in Keys : outstandingRequests[k] = Cardinality(Members(Out, k))
  BY DEF InductiveInvariant, TypeOK, Bookkeeping, Take
<1>2. Apis \ received' = Out \ {i}
  BY DEF Take
<1>3. \A k \in Keys : outstandingRequests'[k] =
        IF k = apiFingerprints[i] THEN outstandingRequests[k] - 1
                                  ELSE outstandingRequests[k]
  BY <1>1 DEF Take
<1>4. Out \in SUBSET Apis /\ i \in Out
  BY <1>1
<1>5. ASSUME NEW k \in Keys
      PROVE  /\ outstandingRequests'[k] = Cardinality(Members(Out \ {i}, k))
             /\ Cardinality(Members(Out \ {i}, k)) \in Nat
  <2>1. Cardinality(Members(Out \ {i}, k)) =
          IF apiFingerprints[i] = k THEN Cardinality(Members(Out, k)) - 1
                                    ELSE Cardinality(Members(Out, k))
    BY <1>4, MembersRemove
  <2>2. Out \ {i} \in SUBSET Apis
    OBVIOUS
  <2>3. Cardinality(Members(Out \ {i}, k)) \in Nat
    BY <2>2, MembersFinite
  <2> HIDE DEF Out
  <2> QED
    BY <1>1, <1>3, <2>1, <2>3
<1>6. \A k \in Keys : Cardinality(Members(Apis \ received, k))' =
                      Cardinality(Members(Out \ {i}, k))
  BY <1>2 DEF Members, Apis
<1>7. outstandingRequests' \in [Keys -> Nat]
  <2>1. \A k \in Keys : outstandingRequests'[k] \in Nat
    BY <1>5
  <2> QED
    BY <1>1, <2>1 DEF Take
<1> QED
  BY <1>1, <1>3, <1>5, <1>6, <1>7

(* requiredCount and the counters are numbers. *)
LEMMA Numbers ==
  ASSUME InductiveInvariant
  PROVE  /\ requiredCount \in Nat
         /\ \A i \in Apis : apiFingerprints[i] \in Keys
         /\ \A k \in Keys : outstandingRequests[k] \in Nat /\ successMap[k] \in Nat
         /\ Used \subseteq Keys
BY NAssumption, RequiredCountsAssumption DEF InductiveInvariant, TypeOK, Used

LEMMA NextTypeOK ==
  ASSUME InductiveInvariant, [Next]_vars
  PROVE  TypeOK'
<1> USE DEF Apis, NoErr
<1>0. TypeOK
  BY DEF InductiveInvariant
<1>1. CASE NewMultiAPI
  <2>1. 0 \in 0..N
    BY NAssumption
  <2>2. result' \in Results
    BY <1>0, <1>1, <2>1, ReturnIsResult DEF TypeOK, NewMultiAPI
  <2> QED
    BY <1>0, <1>1, <2>2 DEF TypeOK, NewMultiAPI, input
<1>2. CASE Scatter
  <2>1. \A k \in Keys : Cardinality(Bucket(k)) \in Nat
    BY MembersFinite DEF Bucket
  <2> QED
    BY <1>0, <1>2, <2>1 DEF TypeOK, Scatter, input
<1>3. ASSUME NEW i \in Apis, GatherSuccess(i) PROVE TypeOK'
  <2>1. outstandingRequests' \in [Keys -> Nat]
    BY <1>3, TakeCounts DEF GatherSuccess, input
  <2>2. successMap' \in [Keys -> Nat]
    <3>1. successMap \in [Keys -> Nat] /\ apiFingerprints[i] \in Keys
      BY <1>0 DEF TypeOK
    <3>2. successMap' = [successMap EXCEPT ![apiFingerprints[i]] = @ + 1]
      BY <1>3 DEF GatherSuccess
    <3>3. successMap[apiFingerprints[i]] + 1 \in Nat
      BY <3>1
    <3> QED
      BY <3>1, <3>2, <3>3
  <2>3. accumulated' \in SUBSET Names
    BY <1>0, <1>3 DEF TypeOK, GatherSuccess, Replies, Values
  <2> QED
    BY <1>0, <1>3, <2>1, <2>2, <2>3 DEF TypeOK, GatherSuccess, Take, input
<1>4. ASSUME NEW i \in Apis, errs' = ErrsAdd(errs, i, reply[i].err)
      PROVE  errs' \in [err : DOMAIN Rank \cup {NoErr}, i : 0..N]
  <2>1. reply[i].err \in DOMAIN Rank \cup {NoErr} /\ i \in 0..N
    BY <1>0, NAssumption DEF TypeOK, Replies
  <2>2. errs \in [err : DOMAIN Rank \cup {NoErr}, i : 0..N]
    BY <1>0 DEF TypeOK
  <2>3. [err |-> reply[i].err, i |-> i] \in [err : DOMAIN Rank \cup {NoErr}, i : 0..N]
    BY <2>1
  <2> QED
    BY <1>4, <2>2, <2>3, ErrsAddPicks
<1>5. ASSUME NEW i \in Apis, GatherError(i) PROVE TypeOK'
  <2>1. outstandingRequests' \in [Keys -> Nat]
    BY <1>5, TakeCounts DEF GatherError, input
  <2>2. errs' \in [err : DOMAIN Rank \cup {NoErr}, i : 0..N]
    BY <1>4, <1>5 DEF GatherError
  <2> QED
    BY <1>0, <1>5, <2>1, <2>2 DEF TypeOK, GatherError, Take, input
<1>6. ASSUME NEW i \in Apis, GatherFail(i) PROVE TypeOK'
  <2>1. outstandingRequests' \in [Keys -> Nat]
    BY <1>6, TakeCounts DEF GatherFail, input
  <2>2. errs' \in [err : DOMAIN Rank \cup {NoErr}, i : 0..N]
    BY <1>4, <1>6 DEF GatherFail
  <2>3. errs'.err \in DOMAIN Rank \cup {NoErr} /\ errs'.i \in 0..N
    BY <2>2
  <2>4. result' \in Results
    BY <1>6, <2>3, ReturnIsResult DEF GatherFail
  <2> QED
    BY <1>0, <1>6, <2>1, <2>2, <2>4 DEF TypeOK, GatherFail, Take, input
<1>7. CASE GatherCtxDone
  <2>1. 0 \in 0..N /\ {} \in SUBSET Apis /\ {"timeout", "canceled"} \subseteq DOMAIN Rank
    BY NAssumption DEF Rank
  <2>2. result' \in Results
    BY <1>7, <2>1, ReturnIsResult DEF GatherCtxDone
  <2> QED
    BY <1>0, <1>7, <2>2 DEF TypeOK, GatherCtxDone, input
<1>8. CASE Finish
  <2>1. errs.err \in DOMAIN Rank \cup {NoErr} /\ errs.i \in 0..N
    BY <1>0 DEF TypeOK
  <2>2. slots \in SUBSET Apis
    BY <1>0 DEF TypeOK
  <2>3. result' \in Results
    BY <1>8, <2>1, <2>2, NAssumption, ReturnIsResult DEF Finish
  <2> QED
    BY <1>0, <1>8, <2>3 DEF TypeOK, Finish, input
<1>9. ASSUME NEW i \in Apis, ApiAnswers(i) PROVE TypeOK'
  BY <1>0, <1>9, AnswersAreReplies DEF TypeOK, ApiAnswers, input
<1>10. ASSUME NEW i \in Apis, ApiInterrupted(i) PROVE TypeOK'
  <2>1. \A raw : NormalizePromError(raw) \in DOMAIN Rank \cup {NoErr}
    BY DEF NormalizePromError, Rank
  <2>2. reply' \in [Apis -> Replies]
    <3>1. reply \in [Apis -> Replies]
      BY <1>0 DEF TypeOK
    <3> QED
      BY <1>10, <2>1, <3>1 DEF ApiInterrupted, Replies
  <2> QED
    BY <1>0, <1>10, <2>2 DEF TypeOK, ApiInterrupted, input
<1>11. ASSUME NEW i \in Apis, Send(i) PROVE TypeOK'
  BY <1>0, <1>11 DEF TypeOK, Send, input
<1>12. CASE CtxDone
  BY <1>0, <1>12 DEF TypeOK, CtxDone, input
<1>13. CASE UNCHANGED vars
  BY <1>0, <1>13 DEF TypeOK, vars
<1> QED
  BY <1>1, <1>2, <1>3, <1>5, <1>6, <1>7, <1>8, <1>9, <1>10, <1>11, <1>12, <1>13
     DEF Next, Caller, Over

(* A failed request lowers what its HA key can still reach, and the loop   *)
(* goes on only while that is enough.                                      *)
LEMMA NextQuorum ==
  ASSUME InductiveInvariant, [Next]_vars
  PROVE  QuorumStaysReachable'
<1> USE Numbers
<1>0. QuorumStaysReachable
  BY DEF InductiveInvariant
<1>1. CASE Scatter
  <2>1. EnoughMembers
    BY <1>1 DEF InductiveInvariant, Bookkeeping, Scatter
  <2>2. ASSUME NEW k \in Used
        PROVE  outstandingRequests'[k] + successMap'[k] >= requiredCount
    <3>1. outstandingRequests'[k] = Cardinality(Bucket(k)) /\ successMap'[k] = successMap[k]
      BY <1>1 DEF Scatter
    <3>2. Cardinality(Bucket(k)) >= requiredCount /\ Cardinality(Bucket(k)) \in Nat
      BY <2>1, MembersFinite DEF EnoughMembers, Bucket
    <3> QED
      BY <3>1, <3>2
  <2>3. Used' = Used /\ requiredCount' = requiredCount
    BY <1>1 DEF Scatter, input, Used, Apis
  <2> QED
    BY <2>2, <2>3 DEF QuorumStaysReachable
<1>2. ASSUME NEW i \in Apis, GatherSuccess(i) PROVE QuorumStaysReachable'
  <2>1. \A k \in Keys : outstandingRequests'[k] =
          IF k = apiFingerprints[i] THEN outstandingRequests[k] - 1
                                    ELSE outstandingRequests[k]
    BY <1>2, TakeCounts DEF GatherSuccess, input
  <2>2. \A k \in Keys : successMap'[k] =
          IF k = apiFingerprints[i] THEN successMap[k] + 1 ELSE successMap[k]
    BY <1>2 DEF GatherSuccess, InductiveInvariant, TypeOK
  <2>3. Used' = Used /\ requiredCount' = requiredCount /\ pc = "gather"
    BY <1>2 DEF GatherSuccess, Take, input, Used, Apis
  <2>4. \A k \in Used : outstandingRequests'[k] + successMap'[k] >= requiredCount
    BY <1>0, <2>1, <2>2, <2>3 DEF QuorumStaysReachable
  <2> QED
    BY <2>3, <2>4 DEF QuorumStaysReachable
<1>3. ASSUME NEW i \in Apis, GatherError(i) PROVE QuorumStaysReachable'
  <2>1. \A k \in Keys : outstandingRequests'[k] =
          IF k = apiFingerprints[i] THEN outstandingRequests[k] - 1
                                    ELSE outstandingRequests[k]
    BY <1>3, TakeCounts DEF GatherError, input
  <2>2. /\ Used' = Used /\ requiredCount' = requiredCount /\ pc = "gather"
        /\ successMap' = successMap
    BY <1>3 DEF GatherError, Take, input, Used, Apis
  <2>3. outstandingRequests'[apiFingerprints[i]] + successMap[apiFingerprints[i]]
          >= requiredCount
    BY <1>3, <2>1 DEF GatherError, CannotSucceed
  <2>4. \A k \in Used : outstandingRequests'[k] + successMap'[k] >= requiredCount
    BY <1>0, <2>1, <2>2, <2>3 DEF QuorumStaysReachable
  <2> QED
    BY <2>2, <2>4 DEF QuorumStaysReachable
<1>4. CASE NewMultiAPI \/ GatherCtxDone \/ Finish \/ \E i \in Apis : GatherFail(i)
  BY <1>4 DEF QuorumStaysReachable, NewMultiAPI, GatherCtxDone, Finish, GatherFail
<1>5. CASE \/ \E i \in Apis : ApiAnswers(i) \/ ApiInterrupted(i) \/ Send(i)
           \/ CtxDone \/ UNCHANGED vars
  <2>1. UNCHANGED <<apiFingerprints, requiredCount, pc, received, slots,
                    outstandingRequests, successMap>>
    BY <1>5 DEF ApiAnswers, ApiInterrupted, Send, CtxDone, vars, input
  <2> QED
    BY <2>1, CountsFramed
<1> QED
  BY <1>1, <1>2, <1>3, <1>4, <1>5 DEF Next, Caller, Over

(* The parts of Bookkeeping that do not count. *)
Accounts ==
  /\ pc \in {"new", "scatter"} => /\ received = {}
                                  /\ \A i \in Apis : worker[i] = "idle"
  /\ slots = {i \in received : reply[i].err = NoErr}
  /\ received \cap resultChan = {}
  /\ \A i \in Apis : (i \in received \cup resultChan) => worker[i] = "done"
  /\ \A i \in Apis : worker[i] = "done" =>
       \/ reply[i] = answer[i]
       \/ ChildDone /\ reply[i].err # NoErr
  /\ \A i \in Apis : worker[i] = "sending" =>
       \/ reply[i] = answer[i]
       \/ ChildDone /\ reply[i].err # NoErr
  /\ result = Pending <=> pc # "returned"
  /\ errs # NoErrs => /\ errs.i \in received \ slots
                      /\ errs.err = reply[errs.i].err

LEMMA NextAccounts ==
  ASSUME InductiveInvariant, [Next]_vars
  PROVE  Accounts'
<1> USE DEF Accounts, ChildDone
<1>0. TypeOK /\ Accounts
  BY DEF InductiveInvariant, Bookkeeping
<1>a. \A kind \in {"rejected", "ok", "err", "ctx"} : \A from, api, err :
        Return(kind, from, api, err) # Pending
  <2> TAKE kind \in {"rejected", "ok", "err", "ctx"}
  <2> TAKE from, api, err
  <2>1. Return(kind, from, api, err).kind # "pending" /\ Pending.kind = "pending"
    BY DEF Return, Pending
  <2> QED
    BY <2>1
<1>b. \A raw : NormalizePromError(raw) # NoErr
  BY DEF NormalizePromError, NoErr
<1>1. CASE NewMultiAPI
  BY <1>0, <1>1, <1>a DEF NewMultiAPI, input
<1>2. CASE Scatter
  <2>1. received = {} /\ resultChan = {} /\ slots = {}
    BY <1>0, <1>2 DEF Scatter, TypeOK
  <2> QED
    BY <1>0, <1>2, <2>1 DEF Scatter, input, TypeOK
<1>3. ASSUME NEW i \in Apis, GatherSuccess(i) PROVE Accounts'
  BY <1>0, <1>3 DEF GatherSuccess, Take, input, TypeOK
<1>4. ASSUME NEW i \in Apis, Take(i), reply[i].err # NoErr, UNCHANGED <<reply, slots>>,
             errs' = ErrsAdd(errs, i, reply[i].err)
      PROVE  /\ slots' = {j \in received' : reply'[j].err = NoErr}
             /\ errs' # NoErrs => /\ errs'.i \in received' \ slots'
                                  /\ errs'.err = reply'[errs'.i].err
  <2>1. errs' \in {errs, [err |-> reply[i].err, i |-> i]}
    BY <1>4, ErrsAddPicks
  <2>2. i \notin slots
    BY <1>0, <1>4
  <2> QED
    BY <1>0, <1>4, <2>1, <2>2 DEF Take
<1>5. ASSUME NEW i \in Apis, GatherError(i) PROVE Accounts'
  <2>1. /\ slots' = {j \in received' : reply'[j].err = NoErr}
        /\ errs' # NoErrs => /\ errs'.i \in received' \ slots'
                             /\ errs'.err = reply'[errs'.i].err
    BY <1>4, <1>5 DEF GatherError
  <2> QED
    BY <1>0, <1>5, <2>1 DEF GatherError, Take, input, TypeOK
<1>6. ASSUME NEW i \in Apis, GatherFail(i) PROVE Accounts'
  <2>1. /\ slots' = {j \in received' : reply'[j].err = NoErr}
        /\ errs' # NoErrs => /\ errs'.i \in received' \ slots'
                             /\ errs'.err = reply'[errs'.i].err
    BY <1>4, <1>6 DEF GatherFail
  <2>2. result' # Pending
    BY <1>6, <1>a DEF GatherFail
  <2> QED
    BY <1>0, <1>6, <2>1, <2>2 DEF GatherFail, Take, input, TypeOK, Pending, Return
<1>7. CASE GatherCtxDone
  BY <1>0, <1>7, <1>a DEF GatherCtxDone, input
<1>8. CASE Finish
  BY <1>0, <1>8, <1>a DEF Finish, input
<1>9. ASSUME NEW i \in Apis, ApiAnswers(i) PROVE Accounts'
  <2>1. i \notin received
    BY <1>0, <1>9 DEF ApiAnswers, TypeOK
  <2> QED
    BY <1>0, <1>9, <2>1 DEF ApiAnswers, input, TypeOK
<1>10. ASSUME NEW i \in Apis, ApiInterrupted(i) PROVE Accounts'
  <2>1. i \notin received
    BY <1>0, <1>10 DEF ApiInterrupted, TypeOK
  <2>2. reply'[i].err # NoErr
    BY <1>0, <1>10, <1>b DEF ApiInterrupted, TypeOK, Replies
  <2>3. \A j \in Apis : j # i => reply'[j] = reply[j] /\ worker'[j] = worker[j]
    BY <1>0, <1>10 DEF ApiInterrupted, TypeOK
  <2>4. worker'[i] = "sending"
    BY <1>0, <1>10 DEF ApiInterrupted, TypeOK
  <2>5. /\ UNCHANGED <<input, ctx, pc, resultChan, received, slots, errs, result>>
        /\ ChildDone /\ worker[i] = "calling"
    BY <1>10 DEF ApiInterrupted
  <2> QED
    BY <1>0, <2>1, <2>2, <2>3, <2>4, <2>5 DEF input, TypeOK
<1>11. ASSUME NEW i \in Apis, Send(i) PROVE Accounts'
  BY <1>0, <1>11 DEF Send, input, TypeOK
<1>12. CASE CtxDone
  BY <1>0, <1>12 DEF CtxDone, input
<1>13. CASE UNCHANGED vars
  BY <1>0, <1>13 DEF vars
<1> QED
  BY <1>1, <1>2, <1>3, <1>5, <1>6, <1>7, <1>8, <1>9, <1>10, <1>11, <1>12, <1>13
     DEF Next, Caller, Over

(* Every step of the call preserves the invariant. *)
LEMMA NextInvariant ==
  ASSUME InductiveInvariant, [Next]_vars
  PROVE  InductiveInvariant'
<1>1. TypeOK' /\ QuorumStaysReachable' /\ Accounts'
  BY NextTypeOK, NextQuorum, NextAccounts
<1>2. /\ \A k \in Keys : (successMap[k] = Cardinality(Members(slots, k)))'
      /\ pc' = "gather" => \A k \in Keys :
           (outstandingRequests[k] = Cardinality(Members(Apis \ received, k)))'
      /\ pc' = "scatter" => EnoughMembers'
  <2>1. CASE NewMultiAPI
    <3>1. \A k \in Keys : (successMap[k] = Cardinality(Members(slots, k)))'
      BY <2>1, SuccessFramed DEF NewMultiAPI, input
    <3>2. EnoughMembers => EnoughMembers'
      BY <2>1 DEF NewMultiAPI, input, EnoughMembers, Used, Bucket, Members, Apis
    <3> QED
      BY <2>1, <3>1, <3>2 DEF NewMultiAPI
  <2>2. CASE Scatter
    <3>1. \A k \in Keys : (successMap[k] = Cardinality(Members(slots, k)))'
      BY <2>2, SuccessFramed DEF Scatter, input
    <3>2. Apis \ received' = Apis
      BY <2>2 DEF Scatter, InductiveInvariant, Bookkeeping
    <3>3. \A k \in Keys : Cardinality(Members(Apis \ received, k))' = Cardinality(Bucket(k))
      BY <2>2, <3>2 DEF Scatter, input, Members, Bucket, Apis
    <3> QED
      BY <2>2, <3>1, <3>3 DEF Scatter
  <2>3. ASSUME NEW i \in Apis, GatherSuccess(i)
        PROVE  /\ \A k \in Keys : (successMap[k] = Cardinality(Members(slots, k)))'
               /\ \A k \in Keys :
                    (outstandingRequests[k] = Cardinality(Members(Apis \ received, k)))'
               /\ pc' = "gather"
    <3>1. /\ i \notin received
          /\ \A k \in Keys :
               (outstandingRequests[k] = Cardinality(Members(Apis \ received, k)))'
      BY <2>3, TakeCounts DEF GatherSuccess, input
    <3>2. slots \in SUBSET Apis /\ i \in Apis \ slots
      BY <3>1 DEF InductiveInvariant, TypeOK, Bookkeeping
    <3>3. ASSUME NEW k \in Keys
          PROVE  (successMap[k] = Cardinality(Members(slots, k)))'
      <4>1. Cardinality(Members(slots \cup {i}, k)) =
              IF apiFingerprints[i] = k THEN Cardinality(Members(slots, k)) + 1
                                        ELSE Cardinality(Members(slots, k))
        BY <3>2, MembersAdd
      <4>2. successMap'[k] = IF apiFingerprints[i] = k THEN successMap[k] + 1
                                                       ELSE successMap[k]
        BY <2>3 DEF GatherSuccess, InductiveInvariant, TypeOK
      <4>3. successMap[k] = Cardinality(Members(slots, k))
        BY DEF InductiveInvariant, Bookkeeping
      <4>4. Cardinality(Members(slots, k))' = Cardinality(Members(slots \cup {i}, k))
        BY <2>3 DEF GatherSuccess, input, Members
      <4> QED
        BY <4>1, <4>2, <4>3, <4>4
    <3> QED
      BY <2>3, <3>1, <3>3 DEF GatherSuccess, Take
  <2>4. ASSUME NEW i \in Apis, GatherError(i) \/ GatherFail(i)
        PROVE  /\ \A k \in Keys : (successMap[k] = Cardinality(Members(slots, k)))'
               /\ \A k \in Keys :
                    (outstandingRequests[k] = Cardinality(Members(Apis \ received, k)))'
               /\ pc' # "scatter"
    BY <2>4, TakeCounts, SuccessFramed DEF GatherError, GatherFail, Take, input
  <2>5. CASE GatherCtxDone \/ Finish
    BY <2>5, SuccessFramed DEF GatherCtxDone, Finish, input
  <2>6. CASE \/ \E i \in Apis : ApiAnswers(i) \/ ApiInterrupted(i) \/ Send(i)
             \/ CtxDone \/ UNCHANGED vars
    <3>1. UNCHANGED <<apiFingerprints, requiredCount, pc, received, slots,
                      outstandingRequests, successMap>>
      BY <2>6 DEF ApiAnswers, ApiInterrupted, Send, CtxDone, vars, input
    <3> QED
      BY <3>1, CountsFramed
  <2>7. CASE \E i \in Apis : GatherSuccess(i)
    BY <2>3, <2>7
  <2>8. CASE \E i \in Apis : GatherError(i) \/ GatherFail(i)
    BY <2>4, <2>8
  <2> QED
    BY <2>1, <2>2, <2>5, <2>6, <2>7, <2>8 DEF Next, Caller, Over
<1> QED
  BY <1>1, <1>2 DEF InductiveInvariant, Bookkeeping, Accounts

(* The inductive invariant holds in every state of every call. *)
THEOREM Invariance == Spec => []InductiveInvariant
<1>1. InductiveInvariant /\ [Next]_vars => InductiveInvariant'
  BY NextInvariant
<1> QED
  BY InitInvariant, <1>1, PTL DEF Spec

(* The variables of a call keep their types; the counters of outstanding   *)
(* requests never go below zero.                                           *)
THEOREM TypeCorrect == Spec => []TypeOK
<1>1. InductiveInvariant => TypeOK
  BY DEF InductiveInvariant
<1> QED
  BY Invariance, <1>1, PTL

(* While a call gathers, every HA key can still reach requiredCount, for   *)
(* any downstreams: the check after the loop is never the one that fails.  *)
THEOREM QuorumReachable == Spec => []QuorumStaysReachable
<1>1. InductiveInvariant => QuorumStaysReachable
  BY DEF InductiveInvariant
<1> QED
  BY Invariance, <1>1, PTL

---------------------------------------------------------------------------
(* MultiAPI implements QuorumCall.                                         *)

(* While the context is live, what the loop took is what was answered; in  *)
(* any case an answer it holds is a downstream's.                          *)
LEMMA HeldAnswers ==
  ASSUME InductiveInvariant, pc = "gather"
  PROVE  /\ slots \subseteq Good
         /\ ctx = "live" => received \ slots \subseteq Bad
BY DEF InductiveInvariant, TypeOK, Bookkeeping, ChildDone, Good, Bad

(* The two modules count the members of a key alike. *)
LEMMA SameQuorum ==
  ASSUME NEW S
  PROVE  Abstract!Quorum(S) <=>
           \A k \in Used : Cardinality(Members(S, k)) >= requiredCount
<1>1. \A k : Abstract!Members(S, k) = Members(S, k)
  BY DEF Abstract!Members, Members
<1>2. Abstract!Apis = Apis
  BY DEF Abstract!Apis, Apis
<1>3. \A T : Abstract!Cardinality(T) = Cardinality(T)
  BY DEF Abstract!Cardinality, Cardinality
<1> QED
  BY <1>1, <1>2, <1>3 DEF Abstract!Quorum, Used

(* A call that gives up early had no quorum to wait for. *)
LEMMA FailedBucket ==
  ASSUME InductiveInvariant, NEW i \in Apis, GatherFail(i), ctx = "live"
  PROVE  ~Abstract!Quorum(Good) /\ errs'.i \notin Good /\ errs'.i \in Apis
<1> DEFINE k == apiFingerprints[i]
           Left == Apis \ (received \cup {i})
<1>1. k \in Used /\ k \in Keys
  BY Numbers DEF Used
<1>2. outstandingRequests'[k] = Cardinality(Members(Left, k))
  <2>1. (outstandingRequests[k] = Cardinality(Members(Apis \ received, k)))'
    BY <1>1, TakeCounts DEF GatherFail, input
  <2>2. Cardinality(Members(Apis \ received, k))' = Cardinality(Members(Left, k))
    BY DEF GatherFail, Take, input, Members, Apis
  <2> QED
    BY <2>1, <2>2 DEF GatherFail, input
<1>3. successMap[k] = Cardinality(Members(slots, k))
  BY <1>1 DEF InductiveInvariant, Bookkeeping
<1>4. reply[i] = answer[i] /\ i \notin Good
  BY DEF InductiveInvariant, Bookkeeping, GatherFail, Take, ChildDone, Good
<1>5. slots \subseteq Good /\ received \ slots \subseteq Bad
  BY HeldAnswers DEF GatherFail, Take
<1>6. Good \subseteq slots \cup Left
  BY <1>4, <1>5 DEF Good, Bad
<1>7. Good \in SUBSET Apis /\ slots \in SUBSET Apis /\ Left \in SUBSET Apis
  BY DEF Good, InductiveInvariant, TypeOK
<1>8. Cardinality(Members(Good, k)) <=
        Cardinality(Members(slots, k)) + Cardinality(Members(Left, k))
  BY <1>6, <1>7, MembersCover
<1>9. /\ Cardinality(Members(Good, k)) \in Nat
      /\ Cardinality(Members(slots, k)) \in Nat
      /\ Cardinality(Members(Left, k)) \in Nat
  BY <1>7, MembersFinite
<1>10. Cardinality(Members(slots, k)) + Cardinality(Members(Left, k)) < requiredCount
  <2>1. outstandingRequests'[k] + successMap[k] < requiredCount
    BY DEF GatherFail, CannotSucceed
  <2> HIDE DEF k, Left
  <2> QED
    BY <1>2, <1>3, <1>9, <2>1, Numbers
<1>11. ~(Cardinality(Members(Good, k)) >= requiredCount)
  <2> HIDE DEF k, Left
  <2> QED
    BY <1>8, <1>9, <1>10, Numbers
<1>12. ~Abstract!Quorum(Good)
  BY <1>1, <1>11, SameQuorum
<1>13. errs'.i \notin Good /\ errs'.i \in Apis
  <2>1. errs' = errs \/ errs'.i = i
    BY ErrsAddPicks DEF GatherFail
  <2>2. errs # NoErrs => errs.i \in received \ slots
    BY DEF InductiveInvariant, Bookkeeping
  <2>3. errs = NoErrs => errs'.i = i
    BY DEF GatherFail, ErrsAdd, NoErrs
  <2> QED
    BY <1>4, <1>5, <2>1, <2>2, <2>3 DEF Bad, InductiveInvariant, TypeOK
<1> QED
  BY <1>12, <1>13

(* When every result is in, the answers held are a quorum. *)
LEMMA CompleteCall ==
  ASSUME InductiveInvariant, Finish
  PROVE  /\ ~\E k \in Used : successMap[k] < requiredCount
         /\ Abstract!Quorum(slots)
         /\ slots \subseteq Good
         /\ ctx = "live" => slots = Good
<1>1. \A k \in Used : successMap[k] >= requiredCount /\ k \in Keys
  <2> SUFFICES ASSUME NEW k \in Used
               PROVE  successMap[k] >= requiredCount /\ k \in Keys
    OBVIOUS
  <2>1. k \in Keys
    BY Numbers
  <2>2. Members(Apis \ received, k) = {}
    BY DEF Finish, Members
  <2>3. outstandingRequests[k] = 0
    BY <2>1, <2>2, FS_EmptySet DEF InductiveInvariant, Bookkeeping, Finish
  <2> QED
    BY <2>1, <2>3, Numbers DEF InductiveInvariant, QuorumStaysReachable, Finish
<1>2. \A k \in Used : successMap[k] = Cardinality(Members(slots, k))
  BY <1>1 DEF InductiveInvariant, Bookkeeping
<1>3. Abstract!Quorum(slots)
  BY <1>1, <1>2, SameQuorum
<1>4. slots \subseteq Good /\ (ctx = "live" => received \ slots \subseteq Bad)
  BY HeldAnswers DEF Finish
<1>5. ctx = "live" => slots = Good
  BY <1>4 DEF Finish, Good, Bad
<1> QED
  BY <1>1, <1>3, <1>4, <1>5, Numbers

(* Every step of a call is a step of QuorumCall or leaves it unchanged. *)
LEMMA StepImplements ==
  ASSUME InductiveInvariant, [Next]_vars
  PROVE  [Abstract!Next]_(Abstract!vars)
<1> USE DEF Return, Pending
<1>0. Abstract!Apis = Apis /\ (result = Pending <=> pc # "returned")
  BY DEF Abstract!Apis, Apis, InductiveInvariant, Bookkeeping
<1>1. CASE NewMultiAPI
  <2>1. CASE EnoughMembers
    BY <1>1, <2>1 DEF NewMultiAPI, input, Abstract!vars, Good
  <2>2. CASE ~EnoughMembers
    <3>1. ~Abstract!Quorum(Apis)
      BY <2>2, SameQuorum DEF EnoughMembers, Bucket
    <3>2. Abstract!Reject
      BY <1>0, <1>1, <2>2, <3>1
         DEF NewMultiAPI, input, Good, Abstract!Reject, Abstract!Pending, Abstract!Rejected
    <3> QED
      BY <3>2 DEF Abstract!Next
  <2> QED
    BY <2>1, <2>2
<1>2. ASSUME NEW i \in Apis, GatherFail(i) PROVE Abstract!Next
  <2>1. ctx # "live" \/ (errs'.i \notin Good /\ ~Abstract!Quorum(Good))
    BY <1>2, FailedBucket
  <2>2. errs'.i \in Apis
    <3>1. errs' = errs \/ errs'.i = i
      BY <1>2, ErrsAddPicks DEF GatherFail
    <3>2. errs # NoErrs => errs.i \in received
      BY DEF InductiveInvariant, Bookkeeping
    <3>3. errs = NoErrs => errs'.i = i
      BY <1>2 DEF GatherFail, ErrsAdd, NoErrs
    <3> QED
      BY <3>1, <3>2, <3>3 DEF InductiveInvariant, TypeOK
  <2>3. /\ result = Pending /\ result' = Return("err", {}, errs'.i, errs'.err)
        /\ UNCHANGED <<apiFingerprints, requiredCount, answer, ctx>>
    BY <1>0, <1>2 DEF GatherFail, Take, input
  <2>4. UNCHANGED <<apiFingerprints, requiredCount, Good, ctx # "live">>
    BY <2>3 DEF Good, Apis
  <2>5. [kind |-> result.kind, from |-> result.from, api |-> result.api]'
          = Abstract!Failed(errs'.i)
    BY <2>3 DEF Abstract!Failed
  <2>6. Abstract!Fail
    BY <1>0, <2>1, <2>2, <2>3, <2>4, <2>5 DEF Abstract!Fail, Abstract!Pending
  <2> QED
    BY <2>6 DEF Abstract!Next
<1>3. CASE GatherCtxDone
  <2>1. Abstract!Abandon
    BY <1>0, <1>3
       DEF GatherCtxDone, input, Good, Abstract!Abandon, Abstract!Pending, Abstract!Interrupted
  <2> QED
    BY <2>1 DEF Abstract!Next
<1>4. CASE Finish
  <2>1. /\ result' = Return("ok", slots, 0, NoErr)
        /\ Abstract!Quorum(slots) /\ slots \in SUBSET Good
        /\ ctx # "live" \/ slots = Good
        /\ result = Pending
    BY <1>0, <1>4, CompleteCall DEF Finish
  <2>2. Abstract!Succeed
    BY <1>4, <2>1
       DEF Finish, input, Good, Abstract!Succeed, Abstract!Pending, Abstract!Merged
  <2> QED
    BY <2>2 DEF Abstract!Next
<1>5. CASE CtxDone
  <2>1. Abstract!Interrupt
    BY <1>5 DEF CtxDone, input, Good, Abstract!Interrupt
  <2> QED
    BY <2>1 DEF Abstract!Next
<1>6. CASE \/ Scatter \/ UNCHANGED vars
           \/ \E i \in Apis : \/ GatherSuccess(i) \/ GatherError(i)
                              \/ ApiAnswers(i) \/ ApiInterrupted(i) \/ Send(i)
  <2>1. UNCHANGED <<apiFingerprints, requiredCount, answer, ctx, result>>
    BY <1>6 DEF Scatter, vars, GatherSuccess, GatherError, ApiAnswers,
                ApiInterrupted, Send, input
  <2> QED
    BY <2>1 DEF Abstract!vars, Good, Apis
<1> QED
  BY <1>1, <1>2, <1>3, <1>4, <1>5, <1>6 DEF Next, Caller, Over

(* Seen by its caller, a MultiAPI call is a QuorumCall for any number of   *)
(* downstreams: it succeeds exactly when every HA key fields requiredCount *)
(* answers, merges all of them, and fails only with the error of a         *)
(* downstream that failed, whatever the order the results arrive in.       *)
THEOREM Refinement == Spec => ImplementsQuorumCall
<1>1. Init => Abstract!Init
  <2> SUFFICES ASSUME Init PROVE Abstract!Init
    OBVIOUS
  <2>1. requiredCount \in 0..N /\ Good \in SUBSET Apis
    BY RequiredCountsAssumption DEF Init, Good
  <2> QED
    BY <2>1 DEF Init, Abstract!Init, Abstract!Apis, Apis, Abstract!Pending, Pending, Return
<1>2. InductiveInvariant /\ [Next]_vars => [Abstract!Next]_(Abstract!vars)
  BY StepImplements
<1> QED
  BY <1>1, <1>2, Invariance, PTL DEF Spec, ImplementsQuorumCall, Abstract!Spec

---------------------------------------------------------------------------
(* What a call returns: the error it reports and the union an ArrivalOp    *)
(* answers with do not depend on the order in which the channel yields the *)
(* results.                                                                *)

(* The class of error a request reports when the caller's context ends. *)
ContextErr == IF ctx = "deadline" THEN "timeout" ELSE "canceled"

(* err of api is reported in preference to e of i, or is it: a higher rank, *)
(* or the same rank and an index no higher.                                *)
Outranks(err, api, e, i) ==
  \/ Rank[e] < Rank[err]
  \/ Rank[e] = Rank[err] /\ api <= i

(* Until the call returns, a goroutine holds what its downstream answered, *)
(* or the end of the caller's context.                                     *)
HonestReplies ==
  pc # "returned" =>
    \A i \in Apis : worker[i] \in {"sending", "done"} =>
      \/ reply[i] = answer[i]
      \/ ctx # "live" /\ reply[i].err = ContextErr

(* The picker outranks every failure the loop has taken. *)
PickedBest ==
  \A i \in received \ slots :
    /\ errs.err # NoErr
    /\ Outranks(errs.err, errs.i, reply[i].err, i)

(* What an ArrivalOp accumulates is the union of the answers it holds. *)
Known(i) == IF answer[i].v = NilMap THEN {} ELSE answer[i].v
AccumulatedUnion ==
  (op \in ArrivalOps /\ pc # "returned") =>
    accumulated = UNION {Known(i) : i \in slots}

(* The strengthening of InterruptionNotBlamed and                          *)
(* MergeIndependentOfArrival that every step preserves, beside MultiAPI's  *)
(* InductiveInvariant.                                                     *)
AnswerInvariant ==
  /\ HonestReplies
  /\ PickedBest
  /\ AccumulatedUnion
  /\ MergeIndependentOfArrival
  /\ InterruptionNotBlamed

---------------------------------------------------------------------------
(* The error picker.                                                       *)

(* Ranks are numbers, and NoErr has none. *)
LEMMA Ranks ==
  /\ DOMAIN Rank = {"canceled", "storage", "timeout", "refused"}
  /\ \A e \in DOMAIN Rank : Rank[e] \in Nat /\ e # NoErr
BY DEF Rank, NoErr

(* A picker that is given an error outranks it and all it outranked. *)
LEMMA ErrsAddOutranks ==
  ASSUME NEW p \in [err : DOMAIN Rank \cup {NoErr}, i : Nat],
         NEW i \in Nat, NEW e \in DOMAIN Rank
  PROVE  /\ ErrsAdd(p, i, e).err # NoErr
         /\ Outranks(ErrsAdd(p, i, e).err, ErrsAdd(p, i, e).i, e, i)
         /\ \A f \in DOMAIN Rank, j \in Nat :
              p.err # NoErr /\ Outranks(p.err, p.i, f, j) =>
                Outranks(ErrsAdd(p, i, e).err, ErrsAdd(p, i, e).i, f, j)
<1>1. Rank[e] \in Nat /\ e # NoErr /\ p.i \in Nat
  BY Ranks
<1>2. p.err # NoErr => p.err \in DOMAIN Rank /\ Rank[p.err] \in Nat
  BY Ranks
<1>3. CASE ErrsAdd(p, i, e) = p
  <2>1. p.err # NoErr
    BY <1>1, <1>3 DEF ErrsAdd
  <2>2. ~(Rank[e] > Rank[p.err]) /\ ~(Rank[e] = Rank[p.err] /\ i < p.i)
    <3>1. SUFFICES ASSUME Rank[e] > Rank[p.err] \/ (Rank[e] = Rank[p.err] /\ i < p.i)
                   PROVE  FALSE
      OBVIOUS
    <3>2. p = [err |-> e, i |-> i]
      BY <1>3, <3>1 DEF ErrsAdd
    <3>3. p.err = e /\ p.i = i
      BY <3>2
    <3> QED
      BY <1>1, <3>1, <3>3
  <2> QED
    BY <1>1, <1>2, <1>3, <2>1, <2>2 DEF Outranks
<1>4. CASE ErrsAdd(p, i, e) # p
  <2>1. /\ ErrsAdd(p, i, e) = [err |-> e, i |-> i]
        /\ \/ p.err = NoErr
           \/ Rank[e] > Rank[p.err]
           \/ Rank[e] = Rank[p.err] /\ i < p.i
    BY <1>4 DEF ErrsAdd
  <2>2. ErrsAdd(p, i, e).err = e /\ ErrsAdd(p, i, e).i = i
    BY <2>1
  <2>3. Outranks(e, i, e, i)
    BY <1>1 DEF Outranks
  <2>4. ASSUME NEW f \in DOMAIN Rank, NEW j \in Nat, p.err # NoErr,
               Outranks(p.err, p.i, f, j)
        PROVE  Outranks(e, i, f, j)
    <3>1. Rank[f] \in Nat
      BY Ranks
    <3> QED
      BY <1>1, <1>2, <2>1, <2>4, <3>1 DEF Outranks
  <2> QED
    BY <1>1, <2>2, <2>3, <2>4
<1> QED
  BY <1>3, <1>4

---------------------------------------------------------------------------
(* The invariant.                                                          *)

(* The results other than errors name no class of error. *)
LEMMA ReturnKind ==
  ASSUME NEW kind, NEW from, NEW api, NEW err
  PROVE  /\ Return(kind, from, api, err).kind = kind
         /\ Return(kind, from, api, err).api = api
         /\ Return(kind, from, api, err).err = err
BY DEF Return

(* Nothing has been answered, taken or merged when a call starts. *)
LEMMA AnswerInitially == Init => AnswerInvariant
<1> SUFFICES ASSUME Init PROVE AnswerInvariant
  OBVIOUS
<1>1. HonestReplies
  BY DEF Init, HonestReplies
<1>2. PickedBest
  BY DEF Init, PickedBest
<1>3. AccumulatedUnion
  BY DEF Init, AccumulatedUnion
<1>4. result.kind = "pending"
  BY ReturnKind DEF Init, Pending
<1> QED
  BY <1>1, <1>2, <1>3, <1>4 DEF AnswerInvariant, MergeIndependentOfArrival, InterruptionNotBlamed

(* A goroutine reports the end of the caller's context by its own class,   *)
(* and the deferred cancel interrupts requests only after the call.        *)
LEMMA RepliesStayHonest ==
  ASSUME InductiveInvariant, HonestReplies, [Next]_vars
  PROVE  HonestReplies'
<1>0. TypeOK /\ Accounts
  BY DEF InductiveInvariant, Bookkeeping, Accounts
<1>1. CASE pc' = "returned"
  BY <1>1 DEF HonestReplies
<1>2. CASE pc' # "returned"
  <2>1. CASE Scatter
    BY <2>1 DEF Scatter, HonestReplies
  <2>2. ASSUME NEW i \in Apis, ApiAnswers(i) PROVE HonestReplies'
    BY <1>0, <2>2 DEF ApiAnswers, HonestReplies, TypeOK, input, ContextErr, Apis
  <2>3. ASSUME NEW i \in Apis, ApiInterrupted(i) PROVE HonestReplies'
    <3>1. /\ ctx # "live" /\ pc # "returned"
          /\ UNCHANGED <<answer, ctx, pc>>
      BY <1>2, <2>3 DEF ApiInterrupted, ChildDone, input
    <3>2. reply'[i].err = ContextErr
      <4>1. reply \in [Apis -> Replies]
        BY <1>0 DEF TypeOK
      <4>2. /\ NormalizePromError("deadline_exceeded") = "timeout"
            /\ NormalizePromError("context_canceled") = "canceled"
        BY DEF NormalizePromError
      <4> QED
        BY <2>3, <4>1, <4>2 DEF ApiInterrupted, ContextErr, Replies
    <3>3. \A j \in Apis : j # i => reply'[j] = reply[j] /\ worker'[j] = worker[j]
      BY <1>0, <2>3 DEF ApiInterrupted, TypeOK
    <3> QED
      BY <3>1, <3>2, <3>3 DEF HonestReplies, ContextErr, Apis
  <2>4. ASSUME NEW i \in Apis, Send(i) PROVE HonestReplies'
    BY <1>0, <2>4 DEF Send, HonestReplies, TypeOK, input, ContextErr, Apis
  <2>5. CASE CtxDone
    BY <2>5 DEF CtxDone, HonestReplies, input, Apis
  <2>6. CASE \/ NewMultiAPI \/ UNCHANGED vars
             \/ \E i \in Apis : GatherSuccess(i) \/ GatherError(i)
    <3>1. /\ UNCHANGED <<answer, ctx, worker, reply>>
          /\ pc # "returned"
      BY <1>2, <2>6 DEF NewMultiAPI, vars, GatherSuccess, GatherError, Take, input
    <3> QED
      BY <3>1 DEF HonestReplies, ContextErr, Apis
  <2>7. ~GatherCtxDone /\ ~Finish /\ \A i \in Apis : ~GatherFail(i)
    BY <1>2 DEF GatherCtxDone, Finish, GatherFail
  <2> QED
    BY <2>1, <2>2, <2>3, <2>4, <2>5, <2>6, <2>7 DEF Next, Caller, Over
<1> QED
  BY <1>1, <1>2

(* Taking a failure keeps the picker ahead of every failure taken. *)
LEMMA PickerStaysBest ==
  ASSUME InductiveInvariant, PickedBest, [Next]_vars
  PROVE  PickedBest'
<1>0. TypeOK /\ Accounts
  BY DEF InductiveInvariant, Bookkeeping, Accounts
<1>1. ASSUME NEW i \in Apis, GatherSuccess(i) PROVE PickedBest'
  <2>1. /\ received' \ slots' \subseteq received \ slots
        /\ UNCHANGED <<errs, reply>>
    BY <1>1 DEF GatherSuccess, Take
  <2> QED
    BY <2>1 DEF PickedBest, Outranks
<1>2. ASSUME NEW i \in Apis, GatherError(i) \/ GatherFail(i) PROVE PickedBest'
  <2>1. /\ errs' = ErrsAdd(errs, i, reply[i].err)
        /\ received' \ slots' \subseteq (received \ slots) \cup {i}
        /\ reply[i].err # NoErr
        /\ UNCHANGED reply
    BY <1>2 DEF GatherError, GatherFail, Take
  <2>2. /\ errs \in [err : DOMAIN Rank \cup {NoErr}, i : Nat]
        /\ i \in Nat /\ reply[i].err \in DOMAIN Rank
    BY <1>0, <2>1, NAssumption DEF TypeOK, Apis, Replies
  <2>3. \A j \in received \ slots : j \in Nat /\ reply[j].err \in DOMAIN Rank
    BY <1>0, NAssumption DEF TypeOK, Accounts, Apis, Replies
  <2>4. /\ errs'.err # NoErr
        /\ Outranks(errs'.err, errs'.i, reply[i].err, i)
        /\ \A f \in DOMAIN Rank, j \in Nat :
             errs.err # NoErr /\ Outranks(errs.err, errs.i, f, j) =>
               Outranks(errs'.err, errs'.i, f, j)
    BY <2>1, <2>2, ErrsAddOutranks
  <2>5. \A j \in received \ slots : Outranks(errs'.err, errs'.i, reply[j].err, j)
    BY <2>3, <2>4 DEF PickedBest
  <2> QED
    BY <2>1, <2>4, <2>5 DEF PickedBest, Outranks
<1>3. ASSUME NEW i \in Apis, ApiAnswers(i) \/ ApiInterrupted(i) PROVE PickedBest'
  <2>1. /\ UNCHANGED <<received, slots, errs>>
        /\ \A j \in received : reply'[j] = reply[j]
    BY <1>0, <1>3 DEF ApiAnswers, ApiInterrupted, TypeOK, Accounts
  <2> QED
    BY <2>1 DEF PickedBest, Outranks
<1>4. CASE \/ NewMultiAPI \/ Scatter \/ GatherCtxDone \/ Finish \/ CtxDone
           \/ UNCHANGED vars \/ \E i \in Apis : Send(i)
  <2>1. UNCHANGED <<received, slots, errs, reply>>
    BY <1>4 DEF NewMultiAPI, Scatter, GatherCtxDone, Finish, CtxDone, vars, Send
  <2> QED
    BY <2>1 DEF PickedBest, Outranks
<1> QED
  BY <1>1, <1>2, <1>3, <1>4 DEF Next, Caller, Over

(* A taken answer is the downstream's, so each one adds what it knows. *)
LEMMA UnionStays ==
  ASSUME InductiveInvariant, HonestReplies, AccumulatedUnion, [Next]_vars
  PROVE  AccumulatedUnion'
<1>0. TypeOK /\ Accounts
  BY DEF InductiveInvariant, Bookkeeping, Accounts
<1>1. ASSUME NEW i \in Apis, GatherSuccess(i) PROVE AccumulatedUnion'
  <2>1. reply[i].err = NoErr /\ ContextErr # NoErr
    BY <1>1 DEF GatherSuccess, ContextErr, NoErr
  <2>2. reply[i] = answer[i]
    BY <1>0, <1>1, <2>1 DEF HonestReplies, GatherSuccess, Take, Accounts
  <2>3. /\ UNCHANGED <<op, answer, pc>>
        /\ slots' = slots \cup {i}
        /\ accumulated' = IF op \in ArrivalOps /\ reply[i].v # NilMap
                          THEN accumulated \cup reply[i].v ELSE accumulated
    BY <1>1 DEF GatherSuccess, Take, input
  <2>4. op \in ArrivalOps => accumulated' = accumulated \cup Known(i)
    BY <2>2, <2>3 DEF Known
  <2> DEFINE Held(S) == UNION {Known(j) : j \in S}
  <2>5. Held(slots \cup {i}) = Held(slots) \cup Known(i)
    <3>1. \A S, x : x \in Held(S) <=> \E j \in S : x \in Known(j)
      OBVIOUS
    <3> HIDE DEF Held
    <3>2. \A x : x \in Held(slots \cup {i}) <=> x \in Held(slots) \/ x \in Known(i)
      BY <3>1, Zenon
    <3> QED
      BY <3>2
  <2>6. \A j : Known(j)' = Known(j)
    BY <2>3 DEF Known
  <2> QED
    BY <2>3, <2>4, <2>5, <2>6 DEF AccumulatedUnion
<1>2. CASE ~\E i \in Apis : GatherSuccess(i)
  <2>1. /\ UNCHANGED <<op, answer, slots, accumulated>>
        /\ pc' # "returned" => pc # "returned"
    BY <1>2 DEF Next, Caller, Over, NewMultiAPI, Scatter, GatherError, GatherFail, Take,
                GatherCtxDone, Finish, ApiAnswers, ApiInterrupted, Send, CtxDone,
                vars, input
  <2> QED
    BY <2>1 DEF AccumulatedUnion, Known
<1> QED
  BY <1>1, <1>2

---------------------------------------------------------------------------
(* The merges that walk over the slots.                                    *)

(* A non-empty set of naturals has a least element. *)
LEMMA Least ==
  ASSUME NEW T \in SUBSET Nat, T # {}
  PROVE  \E n \in T : \A m \in T : n <= m
<1> DEFINE R == OpToRel(<, Nat)
<1>1. \E x \in T : \A y \in T : ~(<<y, x>> \in R)
  BY WFMin, NatLessThanWellFounded
<1>2. \A x, y \in Nat : <<y, x>> \in R <=> y < x
  BY DEF OpToRel
<1> HIDE DEF R
<1>3. PICK x \in T : \A y \in T : ~(<<y, x>> \in R)
  BY <1>1
<1>4. \A y \in T : ~(y < x)
  BY <1>2, <1>3
<1> QED
  BY <1>4

(* What holds of 0 and of n whenever of n - 1 holds up to m: the set B of  *)
(* the numbers of which it does not hold is empty.                         *)
LEMMA NoneFails ==
  ASSUME NEW m \in Nat, NEW B \in SUBSET (0..m), 0 \notin B,
         \A n \in 1..m : n - 1 \notin B => n \notin B
  PROVE  B = {}
<1> SUFFICES ASSUME B # {} PROVE FALSE
  OBVIOUS
<1>1. B \in SUBSET Nat
  OBVIOUS
<1>2. PICK n \in B : \A k \in B : n <= k
  BY <1>1, Least
<1>3. n \in 1..m /\ n - 1 \in Nat /\ ~(n <= n - 1)
  BY <1>1, <1>2
<1> QED
  BY <1>2, <1>3

(* A walk of m steps from v, in V. *)
Steps(m, V, v, step) ==
  m \in Nat /\ v \in V /\ \A n \in 1..m : \A x \in V : step[n][x] \in V
IsWalk(f, m, V, v, step) ==
  f \in [0..m -> V] /\ f[0] = v /\ \A n \in 1..m : f[n] = step[n][f[n - 1]]

LEMMA WalkExists ==
  ASSUME NEW m, NEW V, NEW v, NEW step, Steps(m, V, v, step)
  PROVE  \E f : IsWalk(f, m, V, v, step)
<1>0. m \in Nat /\ v \in V /\ \A n \in 1..m : \A x \in V : step[n][x] \in V
  BY DEF Steps
<1> DEFINE Walk(f, k) == f[0] = v /\ \A n \in 1..k : f[n] = step[n][f[n - 1]]
           B == {k \in 0..m : ~\E f \in [0..m -> V] : Walk(f, k)}
<1>1. 0 \notin B
  <2>1. [n \in 0..m |-> v] \in [0..m -> V] /\ Walk([n \in 0..m |-> v], 0)
    BY <1>0
  <2> QED
    BY <2>1
<1>2. ASSUME NEW k \in 1..m, k - 1 \notin B PROVE k \notin B
  <2>1. k - 1 \in 0..m
    BY <1>0
  <2>2. PICK f \in [0..m -> V] : Walk(f, k - 1)
    BY <1>2, <2>1
  <2> DEFINE g == [f EXCEPT ![k] = step[k][f[k - 1]]]
  <2>3. g \in [0..m -> V]
    BY <1>0, <2>1
  <2>4. /\ g[0] = f[0] /\ g[k] = step[k][f[k - 1]]
        /\ \A n \in 0..m : n # k => g[n] = f[n]
    BY <1>0, <2>1
  <2>5. \A n \in 1..k : n = k \/ n \in 1..(k - 1)
    BY <1>0
  <2>6. \A n \in 1..k : n - 1 \in 0..m /\ n - 1 # k /\ n \in 0..m
    BY <1>0
  <2> HIDE DEF g
  <2>7. Walk(g, k)
    <3> SUFFICES ASSUME NEW n \in 1..k PROVE g[n] = step[n][g[n - 1]]
      BY <2>2, <2>4
    <3>1. g[n - 1] = f[n - 1]
      BY <2>4, <2>6
    <3>2. CASE n = k
      BY <2>4, <3>1, <3>2
    <3>3. CASE n # k
      BY <2>2, <2>4, <2>5, <2>6, <3>1, <3>3
    <3> QED
      BY <3>2, <3>3
  <2> QED
    BY <2>3, <2>7
<1>3. B = {}
  <2> HIDE DEF B
  <2>1. B \in SUBSET (0..m)
    BY DEF B
  <2> QED
    BY <1>0, <1>1, <1>2, <2>1, NoneFails
<1>4. \E f \in [0..m -> V] : Walk(f, m)
  <2>1. m \in 0..m
    BY <1>0
  <2>2. m \notin B
    BY <1>3, Zenon
  <2> QED
    BY <2>1, <2>2
<1> QED
  BY <1>4 DEF IsWalk

(* The walk over the slots lists their APIs in order. *)
LEMMA OrderOfApis ==
  ASSUME NEW S \in SUBSET Apis
  PROVE  /\ Range(InApiOrder(S)) = S
         /\ \A i, j \in DOMAIN InApiOrder(S) : i < j => InApiOrder(S)[i] < InApiOrder(S)[j]
<1> DEFINE V == Seq(Nat)
           W(f) == f = [n \in 0..N |-> IF n = 0 THEN <<>>
                                       ELSE IF n \in S THEN Append(f[n - 1], n) ELSE f[n - 1]]
           step == [n \in 1..N |-> [x \in V |-> IF n \in S THEN Append(x, n) ELSE x]]
           walk == CHOOSE f : W(f)
<1>0. N \in Nat
  BY NAssumption
<1>1. \E f : W(f)
  <2>1. Steps(N, V, <<>>, step)
    BY <1>0 DEF Steps
  <2>2. \A n \in 1..N, x \in V : step[n][x] = IF n \in S THEN Append(x, n) ELSE x
    OBVIOUS
  <2> HIDE DEF step, V
  <2>0. PICK f : IsWalk(f, N, V, <<>>, step)
    BY <2>1, WalkExists
  <2>3. f \in [0..N -> V] /\ f[0] = <<>> /\ \A n \in 1..N : f[n] = step[n][f[n - 1]]
    BY <2>0 DEF IsWalk
  <2>4. \A n \in 1..N : f[n - 1] \in V
    BY <1>0, <2>3
  <2>5. \A n \in 0..N : n # 0 => n \in 1..N
    BY <1>0
  <2>6. \A n \in 0..N : f[n] = IF n = 0 THEN <<>>
                               ELSE IF n \in S THEN Append(f[n - 1], n) ELSE f[n - 1]
    BY <2>2, <2>3, <2>4, <2>5
  <2>7. f = [n \in 0..N |-> f[n]]
    BY <2>3
  <2> QED
    BY <2>6, <2>7
<1>2. W(walk)
  BY <1>1
<1>3. InApiOrder(S) = walk[N]
  BY DEF InApiOrder
<1> HIDE DEF walk
<1> DEFINE InOrder(s, n) == /\ s \in Seq(Nat)
                          /\ Range(s) = S \cap (1..n)
                          /\ \A i, j \in DOMAIN s : i < j => s[i] < s[j]
           B == {n \in 0..N : ~InOrder(walk[n], n)}
<1>4. 0 \notin B
  <2>1. walk[0] = <<>>
    BY <1>0, <1>2
  <2>2. InOrder(<<>>, 0)
    BY <1>0 DEF Range
  <2> QED
    BY <2>1, <2>2
<1>5. ASSUME NEW n \in 1..N, n - 1 \notin B PROVE n \notin B
  <2>1. n - 1 \in 0..N /\ n \in 0..N /\ n # 0
    BY <1>0
  <2>2. InOrder(walk[n - 1], n - 1)
    BY <1>5, <2>1
  <2>3. walk[n] = IF n \in S THEN Append(walk[n - 1], n) ELSE walk[n - 1]
    BY <1>2, <2>1
  <2> DEFINE s == walk[n - 1]
  <2>4. 1..n = (1..(n - 1)) \cup {n} /\ n \in Nat
    BY <1>0
  <2> HIDE DEF s
  <2>5. CASE n \in S
    <3>1. s \in Seq(Nat) /\ Len(s) \in Nat /\ DOMAIN s = 1..Len(s)
      BY <2>2 DEF s
    <3> DEFINE u == Append(s, n)
    <3>2. /\ u \in Seq(Nat) /\ DOMAIN u = 1..(Len(s) + 1) /\ u[Len(s) + 1] = n
          /\ \A i \in 1..Len(s) : u[i] = s[i]
      BY <2>4, <3>1
    <3> HIDE DEF u
    <3>3. DOMAIN u = (DOMAIN s) \cup {Len(s) + 1}
      BY <3>1, <3>2
    <3>4. Range(u) = Range(s) \cup {n}
      BY <3>1, <3>2, <3>3 DEF Range
    <3>5. \A i \in DOMAIN s : s[i] \in Range(s) /\ s[i] \in Nat /\ s[i] < n
      <4>1. \A i \in DOMAIN s : s[i] \in Range(s)
        BY DEF Range
      <4>2. \A x \in Range(s) : x \in Nat /\ x < n
        BY <2>2, <2>4 DEF s
      <4> QED
        BY <4>1, <4>2
    <3>6. \A i, j \in DOMAIN u : i < j => u[i] < u[j]
      <4> SUFFICES ASSUME NEW i \in DOMAIN u, NEW j \in DOMAIN u, i < j
                   PROVE  u[i] < u[j]
        OBVIOUS
      <4>1. i \in 1..Len(s) /\ (j \in 1..Len(s) \/ j = Len(s) + 1)
        BY <3>1, <3>2
      <4>2. \A k, l \in DOMAIN s : k < l => s[k] < s[l]
        BY <2>2 DEF s
      <4> QED
        BY <3>1, <3>2, <3>5, <4>1, <4>2
    <3>7. Range(u) = S \cap (1..n)
      BY <2>2, <2>4, <2>5, <3>4 DEF s
    <3>8. walk[n] = u
      BY <2>3, <2>5 DEF u, s
    <3> QED
      BY <3>2, <3>6, <3>7, <3>8
  <2>6. CASE n \notin S
    <3>1. S \cap (1..n) = S \cap (1..(n - 1))
      BY <2>4, <2>6
    <3> QED
      BY <2>2, <2>3, <2>6, <3>1
  <2> QED
    BY <2>5, <2>6
<1>6. B = {}
  <2>1. B \in SUBSET (0..N)
    OBVIOUS
  <2> HIDE DEF B
  <2> QED
    BY <1>0, <1>4, <1>5, <2>1, NoneFails
<1>7. InOrder(walk[N], N)
  BY <1>0, <1>6
<1> QED
  BY <1>3, <1>7 DEF Apis
(* Merged metadata, and those of the APIs T merged in order: a name has    *)
(* the metadata of the first API of T that knows it.                       *)
Metadatas ==
  [kind : {"none", "nil", "map", "panic"}, v : UNION {[D -> Apis] : D \in SUBSET Names}]
HeldBy(i) == IF reply[i].v = NilMap THEN {} ELSE reply[i].v
FirstKnown(x, T) ==
  /\ x \in Metadatas
  /\ x.kind = "none" => T = {}
  /\ x.kind # "panic" =>
       /\ \A n : n \in DOMAIN x.v <=> \E i \in T : n \in HeldBy(i)
       /\ \A n \in DOMAIN x.v :
            /\ x.v[n] \in T /\ n \in HeldBy(x.v[n])
            /\ \A i \in T : n \in HeldBy(i) => x.v[n] <= i

LEMMA MergeOne ==
  ASSUME NEW T \in SUBSET Apis, NEW i \in Apis, \A j \in T : j < i, reply[i].v \in Values,
         NEW x, FirstKnown(x, T)
  PROVE  FirstKnown(MergeMetadata(x, i), T \cup {i})
<1> DEFINE y == MergeMetadata(x, i)
           K == HeldBy(i)
           z == [n \in DOMAIN x.v \cup K |-> IF n \in DOMAIN x.v THEN x.v[n] ELSE i]
<1> SUFFICES FirstKnown(y, T \cup {i})
  OBVIOUS
<1>0. Apis \subseteq Nat
  BY NAssumption DEF Apis
<1>1. K \in SUBSET Names
  BY DEF Values, HeldBy
<1>2. /\ x.kind \in {"none", "nil", "map", "panic"}
      /\ x.v \in [DOMAIN x.v -> Apis] /\ DOMAIN x.v \in SUBSET Names
      /\ x = [kind |-> x.kind, v |-> x.v]
  BY DEF FirstKnown, Metadatas
<1>3. /\ z \in [DOMAIN x.v \cup K -> Apis] /\ DOMAIN x.v \cup K \in SUBSET Names
  BY <1>1, <1>2
<1>4. \A k \in {"none", "nil", "map", "panic"} : [kind |-> k, v |-> z] \in Metadatas
  BY <1>3 DEF Metadatas
<1>5. \/ x.kind = "panic" /\ y = x
      \/ x.kind # "panic" /\ y = [kind |-> "panic", v |-> x.v]
      \/ x.kind # "panic" /\ y.kind # "none" /\ y = [kind |-> y.kind, v |-> z] /\ y.kind \in {"nil", "map"}
  <2>1. CASE x.kind = "panic"
    BY <2>1 DEF MergeMetadata
  <2>2. CASE x.kind = "none"
    <3>1. DOMAIN x.v = {}
      BY <2>2 DEF FirstKnown
    <3>2. z = [n \in K |-> i]
      BY <3>1
    <3>3. y = [kind |-> IF reply[i].v = NilMap THEN "nil" ELSE "map", v |-> [n \in K |-> i]]
      BY <2>2 DEF MergeMetadata, HeldBy
    <3> QED
      BY <2>2, <3>2, <3>3
  <2>3. CASE x.kind \in {"nil", "map"} /\ (reply[i].v = NilMap \/ reply[i].v \subseteq DOMAIN x.v)
    <3>1. y = x
      BY <2>3 DEF MergeMetadata
    <3>2. K \subseteq DOMAIN x.v
      BY <2>3 DEF HeldBy
    <3>3. z = x.v
      BY <1>2, <3>2
    <3> HIDE DEF z, K, y
    <3> QED
      BY <1>2, <2>3, <3>1, <3>3
  <2>4. CASE x.kind \in {"nil", "map"} /\ ~(reply[i].v = NilMap \/ reply[i].v \subseteq DOMAIN x.v)
    <3>1. K = reply[i].v
      BY <2>4 DEF HeldBy
    <3>2. y = IF x.kind = "nil" THEN [kind |-> "panic", v |-> x.v] ELSE [kind |-> "map", v |-> z]
      BY <2>4, <3>1 DEF MergeMetadata
    <3> HIDE DEF z, K, y
    <3> QED
      BY <2>4, <3>2
  <2> QED
    BY <1>2, <2>1, <2>2, <2>3, <2>4
<1>6. [kind |-> "panic", v |-> x.v] \in Metadatas
  BY <1>2 DEF Metadatas
<1>7. CASE y.kind = "panic"
  <2>1. y \in Metadatas
    BY <1>5, <1>6, <1>7 DEF FirstKnown
  <2> HIDE DEF y
  <2> QED
    BY <1>7, <2>1 DEF FirstKnown
<1>8. CASE x.kind # "panic" /\ y.kind \in {"nil", "map"} /\ y.v = z /\ y \in Metadatas
  <2>1. \A n : n \in DOMAIN z <=> n \in DOMAIN x.v \/ n \in K
    OBVIOUS
  <2>2. \A n \in DOMAIN z : z[n] = IF n \in DOMAIN x.v THEN x.v[n] ELSE i
    OBVIOUS
  <2> HIDE DEF z, y
  <2>3. /\ \A n : n \in DOMAIN x.v <=> \E j \in T : n \in HeldBy(j)
        /\ \A n \in DOMAIN x.v :
            /\ x.v[n] \in T /\ n \in HeldBy(x.v[n])
            /\ \A j \in T : n \in HeldBy(j) => x.v[n] <= j
    BY <1>8 DEF FirstKnown
  <2>4. \A n : n \in DOMAIN z <=> \E j \in T \cup {i} : n \in HeldBy(j)
    BY <2>1, <2>3
  <2>5. \A n \in DOMAIN z :
            /\ z[n] \in T \cup {i} /\ n \in HeldBy(z[n])
            /\ \A j \in T \cup {i} : n \in HeldBy(j) => z[n] <= j
    <3> SUFFICES ASSUME NEW n \in DOMAIN z
                 PROVE  /\ z[n] \in T \cup {i} /\ n \in HeldBy(z[n])
                        /\ \A j \in T \cup {i} : n \in HeldBy(j) => z[n] <= j
      OBVIOUS
    <3>1. CASE n \in DOMAIN x.v
      <4>1. z[n] = x.v[n] /\ x.v[n] \in T /\ x.v[n] < i
        BY <2>2, <2>3, <3>1
      <4>2. x.v[n] <= i
        <5>1. x.v[n] \in Nat /\ i \in Nat
          BY <1>0, <4>1
        <5> QED
          BY <4>1, <5>1
      <4> QED
        BY <2>3, <3>1, <4>1, <4>2
    <3>2. CASE n \notin DOMAIN x.v
      <4>1. z[n] = i /\ n \in HeldBy(i) /\ \A j \in T : n \notin HeldBy(j)
        BY <2>1, <2>2, <2>3, <3>2
      <4>2. i <= i
        BY <1>0
      <4> QED
        BY <4>1, <4>2
    <3> QED
      BY <3>1, <3>2
  <2>6. y.v = z
    BY <1>8
  <2> QED
    BY <1>8, <2>4, <2>5, <2>6 DEF FirstKnown
<1>9. y.kind = "panic" \/ (x.kind # "panic" /\ y.kind \in {"nil", "map"} /\ y.v = z /\ y \in Metadatas)
  <2> HIDE DEF y, z
  <2> QED
    BY <1>4, <1>5
<1> QED
  BY <1>7, <1>8, <1>9

(* The walk over the slots that merges their metadata. *)
LEMMA FirstApiWins ==
  ASSUME NEW S \in SUBSET Apis, \A i \in S : reply[i].v \in Values
  PROVE  FirstKnown(MetadataOf(S), S)
<1> DEFINE V == Metadatas
           W(f) == f = [n \in 0..N |-> IF n = 0 THEN NoValue
                                       ELSE IF n \in S THEN MergeMetadata(f[n - 1], n) ELSE f[n - 1]]
           SoFar(n) == {x \in V : FirstKnown(x, S \cap (1..n))}
           step == [n \in 1..N |-> [x \in V |->
                      IF x \notin SoFar(n - 1) THEN x
                      ELSE IF n \in S THEN MergeMetadata(x, n) ELSE x]]
           walk == CHOOSE f : W(f)
<1>0. N \in Nat
  BY NAssumption
<1>1. FirstKnown(NoValue, S \cap (1..0))
  <2>1. S \cap (1..0) = {}
    OBVIOUS
  <2>2. <<>> \in [{} -> Apis] /\ DOMAIN <<>> = {} /\ {} \in SUBSET Names
    OBVIOUS
  <2>3. NoValue \in Metadatas
    BY <2>2 DEF NoValue, Metadatas
  <2> QED
    BY <2>1, <2>2, <2>3 DEF NoValue, FirstKnown
<1>2. \A n \in 1..N : \A x : FirstKnown(x, S \cap (1..(n - 1))) =>
        FirstKnown(IF n \in S THEN MergeMetadata(x, n) ELSE x, S \cap (1..n))
  <2> SUFFICES ASSUME NEW n \in 1..N, NEW x, FirstKnown(x, S \cap (1..(n - 1)))
               PROVE  FirstKnown(IF n \in S THEN MergeMetadata(x, n) ELSE x, S \cap (1..n))
    OBVIOUS
  <2>1. 1..n = (1..(n - 1)) \cup {n} /\ \A j \in 1..(n - 1) : j < n
    BY <1>0
  <2>2. CASE n \in S
    <3>1. S \cap (1..n) = (S \cap (1..(n - 1))) \cup {n}
      BY <2>1, <2>2
    <3>2. S \cap (1..(n - 1)) \in SUBSET Apis /\ n \in Apis
          /\ \A j \in S \cap (1..(n - 1)) : j < n
      BY <2>1, <2>2
    <3> QED
      BY <2>2, <3>1, <3>2, MergeOne
  <2>3. CASE n \notin S
    <3>1. S \cap (1..n) = S \cap (1..(n - 1))
      BY <2>1, <2>3
    <3> QED
      BY <2>3, <3>1
  <2> QED
    BY <2>2, <2>3
<1>3. \A n : \A x : FirstKnown(x, S \cap (1..n)) => x \in V
  BY DEF FirstKnown
<1>4. \E f : W(f)
  <2>1. \A n \in 1..N : \A x \in V : step[n][x] \in V
    <3> SUFFICES ASSUME NEW n \in 1..N, NEW x \in V
                 PROVE  step[n][x] \in V
      OBVIOUS
    <3>1. step[n][x] = IF x \notin SoFar(n - 1) THEN x
                       ELSE IF n \in S THEN MergeMetadata(x, n) ELSE x
      OBVIOUS
    <3> HIDE DEF step, V
    <3> QED
      BY <1>2, <1>3, <3>1
  <2>2. NoValue \in V
    BY <1>1, <1>3
  <2>3. Steps(N, V, NoValue, step)
    <3> HIDE DEF step, V
    <3> QED
      BY <1>0, <2>1, <2>2 DEF Steps
  <2>4. \A n \in 1..N, x \in V : x \in SoFar(n - 1) =>
           step[n][x] = IF n \in S THEN MergeMetadata(x, n) ELSE x
    OBVIOUS
  <2>5. \A n : \A x : x \in SoFar(n) <=> FirstKnown(x, S \cap (1..n))
    BY <1>3
  <2> HIDE DEF step, V, SoFar
  <2>6. PICK f : IsWalk(f, N, V, NoValue, step)
    BY <2>3, WalkExists
  <2>7. f \in [0..N -> V] /\ f[0] = NoValue /\ \A n \in 1..N : f[n] = step[n][f[n - 1]]
    BY <2>6 DEF IsWalk
  <2> DEFINE B == {n \in 0..N : f[n] \notin SoFar(n)}
  <2>8. B = {}
    <3>1. 0 \notin B
      BY <1>1, <2>5, <2>7
    <3>2. ASSUME NEW n \in 1..N, n - 1 \notin B PROVE n \notin B
      <4>1. n - 1 \in 0..N
        BY <1>0
      <4>2. f[n - 1] \in SoFar(n - 1) /\ f[n - 1] \in V
        BY <2>7, <3>2, <4>1
      <4>3. f[n] = IF n \in S THEN MergeMetadata(f[n - 1], n) ELSE f[n - 1]
        BY <2>4, <2>7, <4>2
      <4>4. FirstKnown(f[n], S \cap (1..n))
        BY <1>2, <2>5, <4>2, <4>3
      <4> QED
        BY <2>5, <4>4
    <3>3. B \in SUBSET (0..N)
      OBVIOUS
    <3> HIDE DEF B
    <3> QED
      BY <1>0, <3>1, <3>2, <3>3, NoneFails
  <2>9. \A n \in 0..N : f[n] \in SoFar(n)
    BY <2>8
  <2>10. \A n \in 1..N : n - 1 \in 0..N
    BY <1>0
  <2>11. \A n \in 0..N : n # 0 => n \in 1..N
    BY <1>0
  <2>12. \A n \in 0..N : f[n] = IF n = 0 THEN NoValue
                               ELSE IF n \in S THEN MergeMetadata(f[n - 1], n) ELSE f[n - 1]
    BY <2>4, <2>7, <2>9, <2>10, <2>11
  <2>13. f = [n \in 0..N |-> f[n]]
    BY <2>7
  <2> QED
    BY <2>12, <2>13
<1>5. W(walk)
  BY <1>4
<1>6. MetadataOf(S) = walk[N]
  BY DEF MetadataOf
<1> HIDE DEF walk
<1> DEFINE B == {n \in 0..N : ~FirstKnown(walk[n], S \cap (1..n))}
<1>7. 0 \notin B
  <2>1. walk[0] = NoValue
    BY <1>0, <1>5
  <2> QED
    BY <1>1, <2>1
<1>8. ASSUME NEW n \in 1..N, n - 1 \notin B PROVE n \notin B
  <2>1. n - 1 \in 0..N /\ n \in 0..N /\ n # 0
    BY <1>0
  <2>2. FirstKnown(walk[n - 1], S \cap (1..(n - 1)))
    BY <1>8, <2>1
  <2>3. walk[n] = IF n \in S THEN MergeMetadata(walk[n - 1], n) ELSE walk[n - 1]
    BY <1>5, <2>1
  <2>4. FirstKnown(walk[n], S \cap (1..n))
    BY <1>2, <2>2, <2>3
  <2> QED
    BY <2>4
<1>9. B = {}
  <2>1. B \in SUBSET (0..N)
    OBVIOUS
  <2> HIDE DEF B
  <2> QED
    BY <1>0, <1>7, <1>8, <2>1, NoneFails
<1>10. FirstKnown(walk[N], S \cap (1..N))
  <2>1. N \in 0..N
    BY <1>0
  <2>2. N \notin B
    BY <1>9, Zenon
  <2> QED
    BY <2>1, <2>2
<1>11. S \cap (1..N) = S
  BY DEF Apis
<1> QED
  BY <1>6, <1>10, <1>11

(* A call that succeeds uninterrupted merges every good answer, each as it *)
(* was given: those of an ArrivalOp are accumulated, the others lie in     *)
(* their slots.                                                            *)
LEMMA GoodMerged ==
  ASSUME InductiveInvariant, HonestReplies, AccumulatedUnion, Finish, ctx = "live"
  PROVE  /\ value' = Merged /\ slots = Good /\ slots \in SUBSET Apis
         /\ op \in ArrivalOps => accumulated = UNION {Known(i) : i \in Good}
         /\ \A i \in slots : reply[i].v \in Values /\ HeldBy(i) = Known(i)
<1>1. value' = Merged /\ slots = Good /\ pc = "gather"
  BY CompleteCall DEF Finish
<1>2. op \in ArrivalOps => accumulated = UNION {Known(i) : i \in Good}
  BY <1>1 DEF AccumulatedUnion
<1>3. slots \in SUBSET Apis /\ \A i \in Apis : reply[i].v \in Values
  BY DEF InductiveInvariant, TypeOK, Replies
<1>4. \A i \in slots : worker[i] = "done"
  BY <1>3 DEF InductiveInvariant, Bookkeeping, TypeOK
<1>5. \A i \in slots : reply[i] = answer[i]
  BY <1>1, <1>3, <1>4 DEF HonestReplies
<1> QED
  BY <1>1, <1>2, <1>3, <1>5 DEF HeldBy, Known

(* What is merged of the good answers is what they say together. *)
LEMMA MergeIsReturned ==
  ASSUME InductiveInvariant, HonestReplies, AccumulatedUnion, MergeIndependentOfArrival,
         [Next]_vars
  PROVE  MergeIndependentOfArrival'
<1>1. CASE Finish
  <2> SUFFICES ASSUME ctx' = "live", value'.kind # "panic"
               PROVE  MergeIndependentOfArrival'
    BY DEF MergeIndependentOfArrival
  <2>1. UNCHANGED <<op, answer, ctx>>
    BY <1>1 DEF Finish, input
  <2>2. /\ value' = Merged /\ slots = Good /\ slots \in SUBSET Apis
        /\ op \in ArrivalOps => accumulated = UNION {Known(i) : i \in Good}
        /\ \A i \in slots : reply[i].v \in Values /\ HeldBy(i) = Known(i)
    BY <1>1, <2>1, GoodMerged
  <2>3. Good' = Good /\ \A i : Known(i)' = Known(i)
    BY <2>1 DEF Good, Apis, Known
  <2>4. CASE op \in ArrivalOps
    <3>1. Merged = [kind |-> "set", v |-> accumulated] /\ op # "Metadata"
      BY <2>4, Zenon DEF Merged, ArrivalOps
    <3>2. value'.v = UNION {Known(i) : i \in Good}
      BY <2>2, <2>4, <3>1
    <3>3. (value.v = UNION {IF answer[i].v = NilMap THEN {} ELSE answer[i].v : i \in Good})'
      BY <2>1, <2>3, <3>2 DEF Known
    <3>4. op' \in ArrivalOps /\ op' # "Metadata"
      BY <2>1, <2>4, <3>1
    <3> QED
      BY <3>3, <3>4, Zenon DEF MergeIndependentOfArrival
  <2>5. CASE op = "Metadata"
    <3>1. op \notin ArrivalOps
      BY <2>5 DEF ArrivalOps
    <3>2. value' = MetadataOf(slots)
      BY <2>2, <2>5, <3>1, Zenon DEF Merged
    <3>3. FirstKnown(value', slots)
      BY <2>2, <3>2, FirstApiWins
    <3>4. /\ \A n : n \in DOMAIN value'.v <=> \E i \in slots : n \in HeldBy(i)
          /\ \A n \in DOMAIN value'.v :
               /\ value'.v[n] \in slots /\ n \in HeldBy(value'.v[n])
               /\ \A i \in slots : n \in HeldBy(i) => value'.v[n] <= i
      BY <3>3 DEF FirstKnown
    <3>5. \A n : n \in DOMAIN value'.v <=> \E i \in Good : n \in Known(i)
      BY <2>2, <3>4
    <3>6. DOMAIN value'.v = UNION {Known(i) : i \in Good}
      BY <3>5
    <3>7. \A n \in DOMAIN value'.v :
               /\ n \in Known(value'.v[n])
               /\ \A i \in Good : n \in Known(i) => value'.v[n] <= i
      BY <2>2, <3>4
    <3> QED
      BY <2>1, <2>3, <2>5, <3>1, <3>6, <3>7 DEF MergeIndependentOfArrival, Known
  <2>6. CASE op \notin ArrivalOps /\ op # "Metadata"
    <3>1. Merged = [kind |-> "seq", v |-> InApiOrder(slots)]
      BY <2>6, Zenon DEF Merged
    <3>2. value'.v = InApiOrder(slots)
      BY <2>2, <3>1
    <3>3. /\ Range(value'.v) = Good
          /\ \A i, j \in DOMAIN value'.v : i < j => value'.v[i] < value'.v[j]
      BY <2>2, <3>2, OrderOfApis
    <3> QED
      BY <2>1, <2>3, <2>6, <3>3 DEF MergeIndependentOfArrival
  <2> QED
    BY <2>4, <2>5, <2>6
<1>2. CASE ~Finish
  <2>1. /\ UNCHANGED <<op, answer, value>>
        /\ ctx' = "live" => ctx = "live"
        /\ result'.kind = "ok" => result.kind = "ok"
    BY <1>2, ReturnKind DEF Next, Caller, Over, NewMultiAPI, Scatter, GatherSuccess,
         GatherError, GatherFail, GatherCtxDone, ApiAnswers, ApiInterrupted,
         Send, CtxDone, vars, input
  <2>2. Good' = Good
    BY <2>1 DEF Good, Apis
  <2> QED
    BY <2>1, <2>2 DEF MergeIndependentOfArrival
<1> QED
  BY <1>1, <1>2

(* A call fails only in GatherFail, with an error the picker took. *)
LEMMA ErrorStep ==
  ASSUME InductiveInvariant, [Next]_vars, result'.kind = "err", result.kind # "err"
  PROVE  \E i \in Apis : GatherFail(i)
<1>1. ~Finish
  BY CompleteCall, ReturnKind DEF Finish
<1> QED
  BY <1>1, ReturnKind DEF Next, Caller, Over, NewMultiAPI, Scatter, GatherSuccess,
     GatherError, GatherCtxDone, ApiAnswers, ApiInterrupted, Send, CtxDone, vars

(* A result stays, and so does what it was judged by. *)
LEMMA ErrorKept ==
  ASSUME InductiveInvariant, [Next]_vars, result.kind = "err"
  PROVE  /\ UNCHANGED <<answer, result>>
         /\ ctx' = ctx \/ ctx = "live"
<1>1. pc = "returned"
  BY ReturnKind DEF InductiveInvariant, Bookkeeping, Pending
<1> QED
  BY <1>1 DEF Next, Caller, Over, NewMultiAPI, Scatter, GatherSuccess, GatherError,
     GatherFail, Take, GatherCtxDone, Finish, ApiAnswers, ApiInterrupted, Send,
     CtxDone, vars, input

(* A failure that no downstream caused is the end of the context. *)
LEMMA NotBlamedStays ==
  ASSUME InductiveInvariant, HonestReplies, InterruptionNotBlamed, [Next]_vars
  PROVE  InterruptionNotBlamed'
<1>1. CASE result.kind = "err"
  <2>1. /\ UNCHANGED <<answer, result>>
        /\ ctx' = ctx \/ ctx = "live"
    BY <1>1, ErrorKept
  <2>2. Bad' = Bad
    BY <2>1 DEF Bad, Good, Apis
  <2> QED
    BY <2>1, <2>2, <1>1 DEF InterruptionNotBlamed
<1>2. CASE result.kind # "err" /\ result'.kind = "err" /\ Bad' = {}
  <2>1. PICK i \in Apis : GatherFail(i)
    BY <1>2, ErrorStep
  <2>2. UNCHANGED <<answer, ctx>>
    BY <2>1 DEF GatherFail, input
  <2>3. Bad = {}
    BY <1>2, <2>2 DEF Bad, Good, Apis
  <2>4. \A j \in Apis : answer[j].err = NoErr
    BY <2>3 DEF Bad, Good
  <2>5. \A j \in Apis : worker[j] = "done" /\ reply[j].err # NoErr =>
          ctx # "live" /\ reply[j].err = ContextErr
    BY <2>1, <2>4 DEF HonestReplies, GatherFail, Take
  <2>6. worker[i] = "done" /\ reply[i].err # NoErr
    BY <2>1 DEF InductiveInvariant, Bookkeeping, GatherFail, Take
  <2>7. errs' = errs \/ errs'.err = reply[i].err
    BY <2>1, ErrsAddPicks DEF GatherFail
  <2>8. errs # NoErrs => errs.err = ContextErr
    <3>1. errs # NoErrs => errs.i \in received \ slots /\ errs.err = reply[errs.i].err
      BY DEF InductiveInvariant, Bookkeeping
    <3>2. \A j \in received \ slots : j \in Apis /\ worker[j] = "done" /\ reply[j].err # NoErr
      BY DEF InductiveInvariant, TypeOK, Bookkeeping
    <3> QED
      BY <2>5, <3>1, <3>2
  <2>9. errs = NoErrs => errs'.err = reply[i].err
    BY <2>1 DEF GatherFail, ErrsAdd, NoErrs
  <2>10. result'.err = ContextErr /\ ctx # "live"
    BY <2>1, <2>5, <2>6, <2>7, <2>8, <2>9, ReturnKind DEF GatherFail
  <2> QED
    BY <2>2, <2>10 DEF InterruptionNotBlamed, ContextErr
<1> QED
  BY <1>1, <1>2 DEF InterruptionNotBlamed

(* Every step preserves what the answers rest on. *)
LEMMA AnswerNext ==
  ASSUME InductiveInvariant, AnswerInvariant, [Next]_vars
  PROVE  AnswerInvariant'
BY RepliesStayHonest, PickerStaysBest, UnionStays, MergeIsReturned, NotBlamedStays
   DEF AnswerInvariant

(* The picker, the replies and the accumulated union are as they should be *)
(* in every state of every call.                                           *)
THEOREM AnswerInvariance == Spec => []AnswerInvariant
<1>1. InductiveInvariant /\ AnswerInvariant /\ [Next]_vars => AnswerInvariant'
  BY AnswerNext
<1> QED
  BY AnswerInitially, Invariance, <1>1, PTL DEF Spec

(* A call whose downstreams are all healthy fails only when the caller's   *)
(* context ended, and with the class of that end: never with an error      *)
(* blamed on a downstream, for any number of downstreams and HA keys.      *)
THEOREM HealthyNotBlamed == Spec => []InterruptionNotBlamed
<1>1. AnswerInvariant => InterruptionNotBlamed
  BY DEF AnswerInvariant
<1> QED
  BY AnswerInvariance, <1>1, PTL

(* Whatever operation is called: the answer depends on what the healthy    *)
(* downstreams know, and not on the order they answered in.  What one      *)
(* arrival after another is folded into is their union; what lies in the   *)
(* slots is merged in API order, and metadata is that of the first API     *)
(* that knows a metric.                                                    *)
THEOREM AnswerIndependentOfArrival == Spec => []MergeIndependentOfArrival
<1>1. AnswerInvariant => MergeIndependentOfArrival
  BY DEF AnswerInvariant
<1> QED
  BY AnswerInvariance, <1>1, PTL

---------------------------------------------------------------------------
(* The status of a failed call of a server group: one HA key, one answer   *)
(* required.                                                               *)

(* A call that may not succeed has taken every result, all failures. *)
LEMMA NothingLeft ==
  ASSUME \A a, b \in Keys : a = b, RequiredCounts = {1},
         InductiveInvariant, NEW i \in Apis, GatherFail(i)
  PROVE  received' = Apis /\ slots = {}
<1> DEFINE k == apiFingerprints[i]
           Left == Apis \ (received \cup {i})
<1>1. k \in Keys /\ requiredCount = 1 /\ \A j \in Apis : apiFingerprints[j] = k
  BY Numbers DEF InductiveInvariant, TypeOK
<1>2. outstandingRequests'[k] = Cardinality(Members(Left, k))
  <2>1. (outstandingRequests[k] = Cardinality(Members(Apis \ received, k)))'
    BY <1>1, TakeCounts DEF GatherFail, input
  <2>2. Cardinality(Members(Apis \ received, k))' = Cardinality(Members(Left, k))
    BY DEF GatherFail, Take, input, Members, Apis
  <2> QED
    BY <2>1, <2>2 DEF GatherFail, input
<1>3. successMap[k] = Cardinality(Members(slots, k)) /\ slots \in SUBSET Apis
  BY <1>1 DEF InductiveInvariant, Bookkeeping, TypeOK
<1>4. /\ IsFiniteSet(Members(slots, k)) /\ Cardinality(Members(slots, k)) \in Nat
      /\ IsFiniteSet(Members(Left, k)) /\ Cardinality(Members(Left, k)) \in Nat
  BY <1>3, MembersFinite
<1>5. outstandingRequests'[k] + successMap[k] < requiredCount
  BY DEF GatherFail, CannotSucceed
<1>6. Cardinality(Members(Left, k)) = 0 /\ Cardinality(Members(slots, k)) = 0
  <2> HIDE DEF k, Left
  <2> QED
    BY <1>1, <1>2, <1>3, <1>4, <1>5
<1>7. Members(Left, k) = {} /\ Members(slots, k) = {}
  BY <1>4, <1>6, FS_EmptySet
<1>8. Left = {} /\ slots = {}
  BY <1>1, <1>3, <1>7 DEF Members
<1> QED
  BY <1>8 DEF GatherFail, Take, InductiveInvariant, TypeOK

(* The failure of a server group's call is the best of all its failures,   *)
(* and stays it.                                                           *)
LEMMA StatusStays ==
  ASSUME \A a, b \in Keys : a = b, RequiredCounts = {1},
         InductiveInvariant, AnswerInvariant, StatusIndependentOfArrival,
         [Next]_vars
  PROVE  StatusIndependentOfArrival'
<1>1. CASE result.kind = "err"
  <2>1. /\ UNCHANGED <<answer, result>>
        /\ ctx' = ctx \/ ctx = "live"
    BY <1>1, ErrorKept
  <2>2. Bad' = Bad
    BY <2>1 DEF Bad, Good, Apis
  <2> QED
    BY <1>1, <2>1, <2>2 DEF StatusIndependentOfArrival
<1>2. CASE result.kind # "err" /\ result'.kind = "err" /\ ctx' = "live"
  <2>1. PICK i \in Apis : GatherFail(i)
    BY <1>2, ErrorStep
  <2>2. /\ UNCHANGED <<answer, ctx, reply, slots>>
        /\ pc = "gather" /\ worker[i] = "done"
        /\ received' = received \cup {i}
        /\ result'.err = errs'.err /\ result'.api = errs'.i
    BY <2>1, ReturnKind DEF GatherFail, Take, input, InductiveInvariant, Bookkeeping
  <2>3. received' = Apis /\ slots = {}
    BY <2>1, NothingLeft
  <2>4. \A j \in Apis : worker[j] = "done"
    BY <2>2, <2>3 DEF InductiveInvariant, Bookkeeping
  <2>5. \A j \in Apis : reply[j] = answer[j]
    BY <1>2, <2>2, <2>4 DEF AnswerInvariant, HonestReplies
  <2>6. PickedBest'
    BY PickerStaysBest DEF AnswerInvariant
  <2>7. \A j \in Apis : Outranks(errs'.err, errs'.i, answer[j].err, j)
    BY <2>2, <2>3, <2>5, <2>6 DEF PickedBest, Outranks
  <2> QED
    BY <2>2, <2>7 DEF StatusIndependentOfArrival, Outranks, Bad, Apis
<1> QED
  BY <1>1, <1>2 DEF StatusIndependentOfArrival

(* In a server group, whose targets share one HA key and need one answer,  *)
(* a failed call reports the error errorPicker ranks first among all the   *)
(* failing targets: the status is the same for every order of arrival.     *)
THEOREM StatusOfServerGroup ==
  ASSUME \A a, b \in Keys : a = b, RequiredCounts = {1}
  PROVE  Spec => []StatusIndependentOfArrival
<1>1. Init => StatusIndependentOfArrival
  BY ReturnKind DEF Init, Pending, StatusIndependentOfArrival
<1>2. InductiveInvariant /\ AnswerInvariant /\ StatusIndependentOfArrival
        /\ [Next]_vars => StatusIndependentOfArrival'
  BY StatusStays
<1> QED
  BY <1>1, <1>2, Invariance, AnswerInvariance, PTL DEF Spec
=============================================================================
