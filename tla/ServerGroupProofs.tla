------------------------- MODULE ServerGroupProofs -------------------------
(***************************************************************************)
(* Proofs about ServerGroup for every set of targets, target maps and      *)
(* configs, however ApplyConfig, Sync, the label_filter loops, the cache   *)
(* and the requests interleave.                                            *)
(***************************************************************************)
EXTENDS ServerGroup, TLAPS

TypeOK ==
  /\ ctxDone \in BOOLEAN
  /\ config \in [Versions -> Configs]
  /\ client \in Nat /\ cfg \in 0..MaxApplies
  /\ applyPc \in {"idle", "publish", "manager", "cache"}
  /\ managed \in BOOLEAN /\ triggerSend \in BOOLEAN
  /\ discovered \in SUBSET Targets
  /\ syncPc \in {"waiting", "failed", "building", "retire", "exited"}
  /\ held \in SUBSET Targets /\ todo \in SUBSET Targets
  /\ building \in Gens \cup {None}
  /\ oldState \in Gens \cup {None}
  /\ state \in Gens \cup {None}
  /\ ready \in BOOLEAN
  /\ live \in [Gens -> BOOLEAN]
  /\ stateCfg \in [Gens -> 0..MaxApplies]
  /\ targets \in [Gens -> SUBSET Targets]
  /\ filters \in [Gens -> SUBSET Targets]
  /\ loops \in [Gens -> SUBSET Targets]
  /\ up \in SUBSET Usable
  /\ cachePc \in {"off", "refresh", "fetch", "tick", "exited"}
  /\ fetching \in Gens \cup {None} /\ names \in SUBSET Targets
  /\ snapshot \in BOOLEAN
  /\ rtPc \in {"idle", "config", "send"}
  /\ rtCfg \in Nat /\ rtClient \in Nat

(* A config is published after the client that was built from it. *)
ClientFirst ==
  /\ client = IF applyPc = "publish" THEN cfg + 1 ELSE cfg
  /\ applyPc = "publish" => cfg < MaxApplies

(* The states the Sync goroutine has in hand. *)
StatesInHand ==
  /\ building # None <=> syncPc = "building"
  /\ syncPc = "building" => live[building] /\ building # state /\ oldState = state
  /\ syncPc = "retire" => state # None /\ state # oldState
  /\ oldState # None => syncPc \in {"building", "retire"}
  /\ ready => state # None

(* A state is live when it is published, being built or about to be        *)
(* cancelled, and only then.                                               *)
LiveStates ==
  /\ state # None => live[state]
  /\ \A g \in Gens : live[g] =>
       g \in {state, building} \/ (syncPc = "retire" /\ g = oldState)

(* A live state was built from a config that was published, for targets    *)
(* that can be queried; a cancelled one has nothing, unless the cache      *)
(* still asks it.                                                          *)
StateContents ==
  \A g \in Gens :
    /\ live[g] => stateCfg[g] \in 1..cfg
    /\ ~live[g] /\ g # fetching => targets[g] = {}
    /\ targets[g] \cap (Dropped \cup Unusable) = {}

(* The cache has a state in hand while it fetches. *)
FetchUnderWay == fetching # None <=> cachePc = "fetch"

(* A request is under way only with a client published. *)
RequestUnderWay ==
  /\ rtPc = "config" => client > 0 /\ client >= rtCfg
  /\ RequestSeesClient

GroupInvariant ==
  /\ TypeOK
  /\ ClientFirst
  /\ StatesInHand
  /\ LiveStates
  /\ StateContents
  /\ FetchUnderWay
  /\ UnsyncedFilterRetried
  /\ RequestUnderWay

---------------------------------------------------------------------------
(* The steps that leave the states alone.                                  *)

(* A step that changes neither the states nor the Sync goroutine, takes no *)
(* config back and leaves the cache's fetch alone keeps what is said about *)
(* the states.                                                             *)
LEMMA StatesUntouched ==
  ASSUME GroupInvariant, UNCHANGED <<config, syncing, states, filtering, fetching>>,
         cfg' \in {cfg, cfg + 1}
  PROVE  StatesInHand' /\ LiveStates' /\ StateContents' /\ UnsyncedFilterRetried'
<1> USE DEF GroupInvariant, syncing, states, filtering
<1>1. StatesInHand' /\ LiveStates'
  BY DEF StatesInHand, LiveStates
<1>2. StateContents'
  BY MaxAppliesAssumption DEF StateContents, TypeOK
<1>3. UnsyncedFilterRetried'
  BY DEF UnsyncedFilterRetried, Filter
<1> QED
  BY <1>1, <1>2, <1>3

(* ApplyConfig publishes the client, then the config. *)
LEMMA ApplyConfigStep ==
  ASSUME GroupInvariant, ApplyConfig
  PROVE  GroupInvariant'
<1> USE MaxAppliesAssumption
    DEF GroupInvariant, PublishFirst, PublishSecond, Publish, PublishOrder,
        ConfigureDiscovery, StartCache
<1>1. /\ UNCHANGED <<config, syncing, states, filtering, fetching>>
      /\ cfg' \in {cfg, cfg + 1}
  BY DEF ApplyConfig, cache
<1>2. UNCHANGED roundTrip /\ client' \in {client, client + 1}
  BY DEF ApplyConfig
<1>3. ClientFirst'
  BY DEF ApplyConfig, ClientFirst, TypeOK
<1>4. client' \in Nat /\ cfg' \in 0..MaxApplies
  BY <1>1, <1>2 DEF ApplyConfig, ClientFirst, TypeOK
<1>5. TypeOK'
  <2>1. /\ applyPc' \in {"idle", "publish", "manager", "cache"}
        /\ cachePc' \in {"off", "refresh", "fetch", "tick", "exited"}
    BY DEF ApplyConfig, TypeOK, cache
  <2>2. managed' \in BOOLEAN /\ triggerSend' \in BOOLEAN
    BY DEF ApplyConfig, TypeOK, discovery
  <2>3. UNCHANGED <<ctxDone, discovered, up, fetching, snapshot, names>>
    BY DEF ApplyConfig, discovery, cache
  <2> QED
    BY <1>1, <1>2, <1>4, <2>1, <2>2, <2>3
    DEF TypeOK, syncing, states, filtering, roundTrip
<1>6. RequestUnderWay'
  BY <1>2 DEF RequestUnderWay, RequestSeesClient, roundTrip, TypeOK
<1>7. FetchUnderWay'
  BY DEF ApplyConfig, FetchUnderWay, cache
<1> QED
  BY <1>1, <1>3, <1>5, <1>6, <1>7, StatesUntouched

(* Service discovery and the targets change behind the group's back. *)
LEMMA EnvironmentStep ==
  ASSUME GroupInvariant,
         (\E m \in Maps : Discover(m)) \/ (\E t \in Usable : TargetChanges(t)) \/ Cancel
  PROVE  GroupInvariant'
<1> USE DEF GroupInvariant
<1>1. UNCHANGED <<apply, syncing, states, filtering, cache, roundTrip>>
  BY DEF Discover, TargetChanges, Cancel
<1>2. discovered' \in SUBSET Targets /\ up' \in SUBSET Usable
  BY TargetsAssumption DEF Discover, TargetChanges, Cancel, discovery, TypeOK
<1>3. /\ ctxDone' \in BOOLEAN /\ managed' \in BOOLEAN
      /\ triggerSend' \in BOOLEAN
  BY DEF Discover, TargetChanges, Cancel, discovery, TypeOK
<1>4. TypeOK'
  BY <1>1, <1>2, <1>3 DEF TypeOK, apply, syncing, states, filtering, cache, roundTrip
<1>5. ClientFirst' /\ RequestUnderWay' /\ FetchUnderWay'
  BY <1>1 DEF ClientFirst, RequestUnderWay, RequestSeesClient, FetchUnderWay, apply,
     cache, roundTrip
<1> QED
  BY <1>1, <1>4, <1>5, StatesUntouched DEF apply, cache

(* What is said of the states when one, or none, is forgotten. *)
LEMMA ForgetKeepsOthers ==
  ASSUME GroupInvariant, NEW g \in Gens \cup {None}, Forget(g)
  PROVE  /\ stateCfg' \in [Gens -> 0..MaxApplies]
         /\ targets' \in [Gens -> SUBSET Targets]
         /\ filters' \in [Gens -> SUBSET Targets]
         /\ \A h \in Gens \ {g} : /\ stateCfg'[h] = stateCfg[h]
                                  /\ targets'[h] = targets[h]
                                  /\ filters'[h] = filters[h]
         /\ g \in Gens => targets'[g] = {}
<1> USE DEF GroupInvariant, Forget, TypeOK
<1>1. stateCfg' \in [Gens -> 0..MaxApplies]
  BY MaxAppliesAssumption
<1>2. /\ targets' \in [Gens -> SUBSET Targets]
      /\ filters' \in [Gens -> SUBSET Targets]
  OBVIOUS
<1>3. \A h \in Gens \ {g} : /\ stateCfg'[h] = stateCfg[h]
                             /\ targets'[h] = targets[h]
                             /\ filters'[h] = filters[h]
  OBVIOUS
<1> QED
  BY <1>1, <1>2, <1>3

(* A fetch ends: what it asked is forgotten if it was cancelled meanwhile. *)
LEMMA CacheFetchedStep ==
  ASSUME GroupInvariant, CacheFetched
  PROVE  GroupInvariant'
<1> USE DEF GroupInvariant, CacheFetched
<1> DEFINE g == IF live[fetching] THEN None ELSE fetching
<1>1. /\ UNCHANGED <<ctxDone, apply, discovery, syncing, live, loops, up, roundTrip>>
      /\ fetching' = None /\ cachePc' = "tick"
  OBVIOUS
<1>2. fetching \in Gens
  BY DEF FetchUnderWay, TypeOK
<1>3. g \in Gens \cup {None} /\ Forget(g)
  BY <1>2
<1>4. /\ stateCfg' \in [Gens -> 0..MaxApplies]
      /\ targets' \in [Gens -> SUBSET Targets]
      /\ filters' \in [Gens -> SUBSET Targets]
      /\ \A h \in Gens \ {g} : /\ stateCfg'[h] = stateCfg[h]
                               /\ targets'[h] = targets[h]
                               /\ filters'[h] = filters[h]
      /\ g \in Gens => targets'[g] = {}
  BY <1>3, ForgetKeepsOthers
<1>5. \A h \in Gens : live[h] => h # g
  BY NoneAssumption
<1> HIDE DEF g
<1>6. names' \in SUBSET Targets
  BY <1>2 DEF TypeOK
<1>7. snapshot' \in BOOLEAN
  BY DEF TypeOK
<1>8. TypeOK'
  BY <1>1, <1>4, <1>6, <1>7 DEF TypeOK, apply, discovery, syncing, roundTrip
<1>9. StatesInHand' /\ LiveStates' /\ FetchUnderWay'
  BY <1>1 DEF StatesInHand, LiveStates, FetchUnderWay, syncing
<1>10. StateContents'
  <2> SUFFICES ASSUME NEW h \in Gens
               PROVE  /\ live[h] => stateCfg'[h] \in 1..cfg
                      /\ ~live[h] => targets'[h] = {}
                      /\ targets'[h] \cap (Dropped \cup Unusable) = {}
    BY <1>1 DEF StateContents, apply
  <2>1. CASE h = g
    BY <1>4, <1>5, <2>1
  <2>2. CASE h # g
    BY <1>4, <2>2 DEF StateContents, g
  <2> QED
    BY <2>1, <2>2
<1>11. UnsyncedFilterRetried'
  <2> SUFFICES ASSUME NEW h \in Gens, live[h], Filter(h)' # "none"
               PROVE  targets'[h] \ filters'[h] \subseteq loops[h]
    BY <1>1 DEF UnsyncedFilterRetried
  <2>1. stateCfg'[h] = stateCfg[h] /\ targets'[h] = targets[h] /\ filters'[h] = filters[h]
    BY <1>4, <1>5
  <2> QED
    BY <1>1, <2>1 DEF UnsyncedFilterRetried, Filter, apply
<1>12. ClientFirst' /\ RequestUnderWay'
  BY <1>1 DEF ClientFirst, RequestUnderWay, RequestSeesClient, apply, roundTrip
<1> QED
  BY <1>8, <1>9, <1>10, <1>11, <1>12

(* The cache asks the published state. *)
LEMMA CacheStep ==
  ASSUME GroupInvariant, Cache
  PROVE  GroupInvariant'
<1> USE DEF GroupInvariant, CacheRefresh, CacheTick, CacheExits
<1>1. CASE CacheFetched
  BY <1>1, CacheFetchedStep
<1>2. CASE CacheRefresh \/ CacheTick \/ CacheExits
  <2>1. UNCHANGED <<ctxDone, apply, discovery, syncing, states, filtering, up, names,
                    snapshot, roundTrip>>
    BY <1>2
  <2>2. /\ cachePc' \in {"refresh", "fetch", "tick", "exited"}
        /\ fetching' \in Gens \cup {None}
    BY <1>2 DEF TypeOK
  <2>3. TypeOK'
    BY <2>1, <2>2 DEF TypeOK, apply, discovery, syncing, states, filtering, roundTrip
  <2>4. ClientFirst' /\ RequestUnderWay'
    BY <2>1 DEF ClientFirst, RequestUnderWay, RequestSeesClient, apply, roundTrip
  <2>5. fetching = None /\ FetchUnderWay'
    BY <1>2 DEF FetchUnderWay
  <2>6. StatesInHand' /\ LiveStates'
    BY <2>1 DEF StatesInHand, LiveStates, syncing, states
  <2>7. StateContents'
    BY <2>1, <2>5, NoneAssumption DEF StateContents, apply, states
  <2>8. UnsyncedFilterRetried'
    BY <2>1 DEF UnsyncedFilterRetried, Filter, apply, states, filtering
  <2> QED
    BY <2>3, <2>4, <2>5, <2>6, <2>7, <2>8
<1> QED
  BY <1>1, <1>2 DEF Cache

(* A request reads the config and later the client. *)
LEMMA RequestStep ==
  ASSUME GroupInvariant, ReadConfig \/ ReadClient \/ SendRequest
  PROVE  GroupInvariant'
<1> USE DEF GroupInvariant, ReadConfig, ReadClient, SendRequest
<1>1. UNCHANGED <<ctxDone, apply, discovery, syncing, states, filtering, up, cache>>
  OBVIOUS
<1>2. TypeOK'
  BY <1>1 DEF TypeOK, apply, discovery, syncing, states, filtering, cache
<1>3. ClientFirst'
  BY <1>1 DEF ClientFirst, apply
<1>4. RequestUnderWay'
  <2>1. CASE ReadConfig
    <3>1. PICK g \in Gens : live[g]
      BY <2>1
    <3>2. client >= cfg /\ cfg > 0
      BY <3>1, MaxAppliesAssumption DEF StateContents, ClientFirst, TypeOK
    <3> QED
      BY <1>1, <2>1, <3>2, MaxAppliesAssumption
      DEF RequestUnderWay, RequestSeesClient, apply, TypeOK
  <2>2. CASE ReadClient
    BY <1>1, <2>2 DEF RequestUnderWay, RequestSeesClient
  <2>3. CASE SendRequest
    BY <2>3 DEF RequestUnderWay, RequestSeesClient
  <2> QED
    BY <2>1, <2>2, <2>3
<1>5. FetchUnderWay'
  BY <1>1 DEF FetchUnderWay, cache
<1> QED
  BY <1>1, <1>2, <1>3, <1>4, <1>5, StatesUntouched DEF apply, cache

---------------------------------------------------------------------------
(* The Sync goroutine.                                                     *)

(* A step of Sync or of a loop publishes no config and is no request. *)
LEMMA SyncUntouched ==
  ASSUME GroupInvariant, UNCHANGED <<apply, cache, roundTrip>>
  PROVE  ClientFirst' /\ RequestUnderWay' /\ FetchUnderWay'
BY DEF GroupInvariant, ClientFirst, RequestUnderWay, RequestSeesClient, FetchUnderWay,
       apply, cache, roundTrip

(* A load makes a new state from garbage, or fails without a config. *)
LEMMA LoadStarts ==
  ASSUME GroupInvariant, syncPc \in {"waiting", "failed"},
         NEW m \in SUBSET Targets, Load(m), UNCHANGED <<apply, state, ready, loops, cache>>
  PROVE  /\ held' \in SUBSET Targets /\ todo' \in SUBSET Targets
         /\ syncPc' \in {"failed", "building"}
         /\ building' \in Gens \cup {None} /\ oldState' \in Gens \cup {None}
         /\ live' \in [Gens -> BOOLEAN] /\ stateCfg' \in [Gens -> 0..MaxApplies]
         /\ UNCHANGED <<targets, filters>>
         /\ StatesInHand' /\ LiveStates' /\ StateContents' /\ UnsyncedFilterRetried'
<1> USE DEF GroupInvariant, Load, apply, cache
<1>1. building = None /\ oldState = None
  BY DEF StatesInHand
<1>2. CASE cfg = 0
  <2>1. syncPc' = "failed" /\ UNCHANGED <<todo, building, oldState, states, filters>>
    BY <1>2
  <2>2. StatesInHand' /\ LiveStates'
    BY <1>1, <2>1 DEF StatesInHand, LiveStates, states
  <2>3. StateContents' /\ UnsyncedFilterRetried'
    BY <2>1 DEF StateContents, UnsyncedFilterRetried, Filter, states
  <2> QED
    BY <2>1, <2>2, <2>3 DEF states, TypeOK
<1>3. CASE cfg # 0
  <2>1. PICK g \in Gens :
          /\ Garbage(g)
          /\ syncPc' = "building"
          /\ todo' = m
          /\ building' = g
          /\ oldState' = state
          /\ live' = [live EXCEPT ![g] = TRUE]
          /\ stateCfg' = [stateCfg EXCEPT ![g] = cfg]
          /\ UNCHANGED <<targets, filters>>
    BY <1>3
  <2>2. ~live[g] /\ g # None /\ g # state /\ g # fetching
    BY <2>1, NoneAssumption DEF Garbage, LiveStates
  <2>3. StatesInHand' /\ LiveStates'
    <3>1. \A h \in Gens : live'[h] <=> live[h] \/ h = g
      BY <2>1 DEF TypeOK
    <3>2. StatesInHand'
      BY <2>1, <2>2, <3>1 DEF StatesInHand
    <3>3. LiveStates'
      <4>1. state' # None => live'[state']
        BY <3>1 DEF LiveStates, TypeOK
      <4>2. \A h \in Gens : live[h] => h = state
        BY <1>1, NoneAssumption DEF LiveStates
      <4> QED
        BY <2>1, <3>1, <4>1, <4>2 DEF LiveStates
    <3> QED
      BY <3>2, <3>3
  <2>4. StateContents'
    BY <1>3, <2>1, <2>2, MaxAppliesAssumption DEF StateContents, TypeOK
  <2>5. UnsyncedFilterRetried'
    <3> SUFFICES ASSUME NEW h \in Gens, live'[h], Filter(h)' # "none"
                 PROVE  targets[h] \ filters[h] \subseteq loops[h]
      BY <2>1 DEF UnsyncedFilterRetried
    <3>1. CASE h = g
      BY <2>2, <3>1 DEF StateContents
    <3>2. CASE h # g
      BY <2>1, <3>2 DEF UnsyncedFilterRetried, Filter, TypeOK
    <3> QED
      BY <3>1, <3>2
  <2> QED
    BY <2>1, <2>3, <2>4, <2>5 DEF TypeOK
<1> QED
  BY <1>2, <1>3

(* Sync receives a map, or tries the one it holds again. *)
LEMMA ReceiveStep ==
  ASSUME GroupInvariant, Receive \/ Retry
  PROVE  GroupInvariant'
<1> USE DEF GroupInvariant
<1>1. PICK m \in SUBSET Targets : Load(m)
  BY DEF Receive, Retry, TypeOK
<1>2. /\ UNCHANGED <<ctxDone, apply, managed, discovered, state, ready, loops, up,
                     cache, roundTrip>>
      /\ syncPc \in {"waiting", "failed"}
  BY DEF Receive, Retry, discovery
<1>3. triggerSend' \in BOOLEAN
  BY DEF Receive, Retry, discovery, TypeOK
<1>4. /\ held' \in SUBSET Targets /\ todo' \in SUBSET Targets
      /\ syncPc' \in {"failed", "building"}
      /\ building' \in Gens \cup {None} /\ oldState' \in Gens \cup {None}
      /\ live' \in [Gens -> BOOLEAN] /\ stateCfg' \in [Gens -> 0..MaxApplies]
      /\ UNCHANGED <<targets, filters>>
      /\ StatesInHand' /\ LiveStates' /\ StateContents' /\ UnsyncedFilterRetried'
  BY <1>1, <1>2, LoadStarts
<1>5. TypeOK'
  BY <1>2, <1>3, <1>4 DEF TypeOK, apply, cache, roundTrip
<1> QED
  BY <1>2, <1>4, <1>5, SyncUntouched

(* A dropped target is passed over. *)
LEMMA SkipTargetStep ==
  ASSUME GroupInvariant, NEW t \in Targets, SkipTarget(t)
  PROVE  GroupInvariant'
<1> USE DEF GroupInvariant, SkipTarget
<1>1. TypeOK'
  BY DEF TypeOK, apply, discovery, states, filtering, cache, roundTrip
<1>2. StatesInHand' /\ LiveStates'
  BY DEF StatesInHand, LiveStates, states
<1>3. StateContents' /\ UnsyncedFilterRetried'
  BY DEF StateContents, UnsyncedFilterRetried, Filter, apply, states, filtering, cache
<1> QED
  BY <1>1, <1>2, <1>3, SyncUntouched

(* What is said of the other states when one, or none, is cancelled. *)
LEMMA CancelKeepsOthers ==
  ASSUME GroupInvariant, NEW g \in Gens \cup {None}, CancelState(g),
         UNCHANGED <<apply, loops, cache>>
  PROVE  /\ live' \in [Gens -> BOOLEAN] /\ stateCfg' \in [Gens -> 0..MaxApplies]
         /\ targets' \in [Gens -> SUBSET Targets]
         /\ filters' \in [Gens -> SUBSET Targets]
         /\ \A h \in Gens : live'[h] <=> live[h] /\ h # g
         /\ StateContents' /\ UnsyncedFilterRetried'
<1> USE DEF GroupInvariant, CancelState, apply, cache
<1> DEFINE f == IF g = fetching THEN None ELSE g
<1>1. live' \in [Gens -> BOOLEAN]
  BY DEF TypeOK
<1>2. f \in Gens \cup {None} /\ Forget(f)
  OBVIOUS
<1>3. /\ stateCfg' \in [Gens -> 0..MaxApplies]
      /\ targets' \in [Gens -> SUBSET Targets]
      /\ filters' \in [Gens -> SUBSET Targets]
      /\ \A h \in Gens \ {f} : /\ stateCfg'[h] = stateCfg[h]
                               /\ targets'[h] = targets[h]
                               /\ filters'[h] = filters[h]
      /\ f \in Gens => targets'[f] = {}
  BY <1>2, ForgetKeepsOthers
<1>4. \A h \in Gens : live'[h] <=> live[h] /\ h # g
  OBVIOUS
<1>5. \A h \in Gens : (h = f => h = g) /\ (h = g /\ h # fetching => h = f)
  BY NoneAssumption
<1> HIDE DEF f
<1>6. StateContents'
  <2> SUFFICES ASSUME NEW h \in Gens
               PROVE  /\ live'[h] => stateCfg'[h] \in 1..cfg
                      /\ ~live'[h] /\ h # fetching => targets'[h] = {}
                      /\ targets'[h] \cap (Dropped \cup Unusable) = {}
    BY DEF StateContents
  <2>1. CASE h = f
    BY <1>3, <1>4, <1>5, <2>1
  <2>2. CASE h # f
    BY <1>3, <1>4, <1>5, <2>2 DEF StateContents
  <2> QED
    BY <2>1, <2>2
<1>7. UnsyncedFilterRetried'
  <2> SUFFICES ASSUME NEW h \in Gens, live'[h], Filter(h)' # "none"
               PROVE  targets'[h] \ filters'[h] \subseteq loops[h]
    BY DEF UnsyncedFilterRetried
  <2>1. h # f /\ live[h]
    BY <1>4, <1>5
  <2> QED
    BY <1>3, <2>1 DEF UnsyncedFilterRetried, Filter
<1> QED
  BY <1>1, <1>3, <1>4, <1>6, <1>7

(* A rejected target cancels the state being built. *)
LEMMA RejectTargetStep ==
  ASSUME GroupInvariant, NEW t \in Targets, RejectTarget(t)
  PROVE  GroupInvariant'
<1> USE DEF GroupInvariant, RejectTarget
<1>1. building \in Gens \cup {None} /\ UNCHANGED <<apply, loops, cache, roundTrip>>
  BY DEF TypeOK
<1>2. TypeOK'
  BY <1>1, CancelKeepsOthers
  DEF TypeOK, apply, discovery, cache, roundTrip
<1>3. StatesInHand' /\ LiveStates'
  BY <1>1, CancelKeepsOthers DEF StatesInHand, LiveStates, TypeOK
<1>4. StateContents' /\ UnsyncedFilterRetried'
  BY <1>1, CancelKeepsOthers
<1> QED
  BY <1>1, <1>2, <1>3, <1>4, SyncUntouched

(* A target is added to the state being built. *)
LEMMA BuildTargetStep ==
  ASSUME GroupInvariant, NEW t \in Targets, BuildTarget(t)
  PROVE  GroupInvariant'
<1> USE DEF GroupInvariant, BuildTarget
<1>1. building \in Gens
  BY DEF StatesInHand, TypeOK
<1>2. /\ targets' \in [Gens -> SUBSET Targets]
      /\ filters' \in [Gens -> SUBSET Targets]
      /\ loops' \in [Gens -> SUBSET Targets]
  BY <1>1 DEF TypeOK
<1>3. TypeOK'
  BY <1>2 DEF TypeOK, apply, discovery, cache, roundTrip
<1>4. StatesInHand' /\ LiveStates'
  BY DEF StatesInHand, LiveStates
<1>5. t \notin Dropped \cup Unusable
  BY DEF Rejected
<1>6. StateContents'
  <2> SUFFICES ASSUME NEW g \in Gens
               PROVE  /\ ~live[g] /\ g # fetching => targets'[g] = {}
                      /\ targets'[g] \cap (Dropped \cup Unusable) = {}
    BY DEF StateContents, apply, cache
  <2>1. CASE g = building
    BY <1>1, <1>5, <2>1 DEF StateContents, StatesInHand, TypeOK
  <2>2. CASE g # building
    BY <1>1, <2>2 DEF StateContents, TypeOK
  <2> QED
    BY <2>1, <2>2
<1>7. UnsyncedFilterRetried'
  <2> SUFFICES ASSUME NEW g \in Gens, live[g], Filter(g) # "none"
               PROVE  targets'[g] \ filters'[g] \subseteq loops'[g]
    BY DEF UnsyncedFilterRetried, Filter, apply
  <2>1. targets[g] \ filters[g] \subseteq loops[g]
    BY DEF UnsyncedFilterRetried
  <2>2. CASE g = building
    <3>1. targets'[g] = targets[g] \cup {t}
      BY <1>1, <2>2 DEF TypeOK
    <3>2. filters'[g] = IF t \in up THEN filters[g] \cup {t} ELSE filters[g]
      BY <1>1, <2>2 DEF TypeOK
    <3>3. loops'[g] = IF NeedsLoop(t) THEN loops[g] \cup {t} ELSE loops[g]
      BY <1>1, <2>2 DEF TypeOK
    <3> QED
      BY <2>1, <3>1, <3>2, <3>3 DEF NeedsLoop
  <2>3. CASE g # building
    BY <1>1, <2>1, <2>3 DEF TypeOK
  <2> QED
    BY <2>2, <2>3
<1> QED
  BY <1>3, <1>4, <1>6, <1>7, SyncUntouched

(* The state that was built is published. *)
LEMMA StoreStateStep ==
  ASSUME GroupInvariant, StoreState
  PROVE  GroupInvariant'
<1> USE DEF GroupInvariant, StoreState
<1>1. TypeOK'
  BY DEF TypeOK, apply, discovery, states, filtering, cache, roundTrip
<1>2. StatesInHand' /\ LiveStates'
  BY DEF StatesInHand, LiveStates, states, TypeOK
<1>3. StateContents' /\ UnsyncedFilterRetried'
  BY DEF StateContents, UnsyncedFilterRetried, Filter, apply, states, filtering, cache
<1> QED
  BY <1>1, <1>2, <1>3, SyncUntouched

(* The replaced state is cancelled. *)
LEMMA RetireStateStep ==
  ASSUME GroupInvariant, RetireState
  PROVE  GroupInvariant'
<1> USE DEF GroupInvariant, RetireState
<1>1. oldState \in Gens \cup {None} /\ UNCHANGED <<apply, loops, cache, roundTrip>>
  BY DEF TypeOK
<1>2. TypeOK'
  BY <1>1, CancelKeepsOthers
  DEF TypeOK, apply, discovery, cache, roundTrip
<1>3. StatesInHand' /\ LiveStates'
  BY <1>1, CancelKeepsOthers DEF StatesInHand, LiveStates, TypeOK
<1>4. StateContents' /\ UnsyncedFilterRetried'
  BY <1>1, CancelKeepsOthers
<1> QED
  BY <1>1, <1>2, <1>3, <1>4, SyncUntouched

(* Sync ends between two loads. *)
LEMMA SyncExitsStep ==
  ASSUME GroupInvariant, SyncExits
  PROVE  GroupInvariant'
<1> USE DEF GroupInvariant, SyncExits
<1>1. TypeOK'
  BY DEF TypeOK, apply, discovery, states, filtering, cache, roundTrip
<1>2. StatesInHand' /\ LiveStates'
  BY DEF StatesInHand, LiveStates, states
<1>3. StateContents' /\ UnsyncedFilterRetried'
  BY DEF StateContents, UnsyncedFilterRetried, Filter, apply, states, filtering, cache
<1> QED
  BY <1>1, <1>2, <1>3, SyncUntouched

(* A loop syncs its filter, or ends with its state. *)
LEMMA LoopStep ==
  ASSUME GroupInvariant, NEW g \in Gens, NEW t \in Targets,
         LoopTick(g, t) \/ LoopExits(g, t)
  PROVE  GroupInvariant'
<1> USE DEF GroupInvariant
<1>1. UNCHANGED <<ctxDone, apply, discovery, syncing, states, up, cache, roundTrip>>
  BY DEF LoopTick, LoopExits
<1>2. /\ filters' \in [Gens -> SUBSET Targets]
      /\ loops' \in [Gens -> SUBSET Targets]
  BY DEF LoopTick, LoopExits, TypeOK
<1>3. TypeOK'
  BY <1>1, <1>2 DEF TypeOK, apply, discovery, syncing, states, cache, roundTrip
<1>4. StatesInHand' /\ LiveStates' /\ StateContents'
  BY <1>1 DEF StatesInHand, LiveStates, StateContents, apply, syncing, states, cache
<1>5. UnsyncedFilterRetried'
  <2> SUFFICES ASSUME NEW h \in Gens, live[h], Filter(h) # "none"
               PROVE  targets[h] \ filters'[h] \subseteq loops'[h]
    BY <1>1 DEF UnsyncedFilterRetried, Filter, apply, states
  <2>1. targets[h] \ filters[h] \subseteq loops[h]
    BY DEF UnsyncedFilterRetried
  <2>2. CASE h # g
    BY <2>1, <2>2 DEF LoopTick, LoopExits, TypeOK
  <2>3. CASE h = g
    <3>1. /\ filters'[g] = filters[g] \cup {t}
          /\ loops[g] \ {t} \subseteq loops'[g]
      BY <2>3 DEF LoopTick, LoopExits, TypeOK
    <3> QED
      BY <2>1, <2>3, <3>1
  <2> QED
    BY <2>2, <2>3
<1> QED
  BY <1>1, <1>3, <1>4, <1>5, SyncUntouched

---------------------------------------------------------------------------
(* The theorems.                                                           *)

(* The group starts without a config and without a state. *)
LEMMA GroupInitially == Init => GroupInvariant
<1> SUFFICES ASSUME Init PROVE GroupInvariant
  OBVIOUS
<1> USE DEF Init
<1>1. /\ client \in Nat /\ cfg \in 0..MaxApplies
      /\ rtCfg \in Nat /\ rtClient \in Nat
  BY MaxAppliesAssumption
<1>2. /\ ctxDone \in BOOLEAN /\ managed \in BOOLEAN /\ triggerSend \in BOOLEAN
      /\ ready \in BOOLEAN /\ snapshot \in BOOLEAN
  OBVIOUS
<1>3. /\ live \in [Gens -> BOOLEAN] /\ stateCfg \in [Gens -> 0..MaxApplies]
      /\ targets \in [Gens -> SUBSET Targets]
      /\ filters \in [Gens -> SUBSET Targets]
      /\ loops \in [Gens -> SUBSET Targets]
  BY MaxAppliesAssumption
<1>4. TypeOK
  BY <1>1, <1>2, <1>3 DEF TypeOK
<1>5. ClientFirst /\ StatesInHand /\ LiveStates /\ StateContents
  BY DEF ClientFirst, StatesInHand, LiveStates, StateContents
<1>6. UnsyncedFilterRetried /\ RequestUnderWay /\ FetchUnderWay
  BY DEF UnsyncedFilterRetried, RequestUnderWay, RequestSeesClient, FetchUnderWay
<1> QED
  BY <1>4, <1>5, <1>6 DEF GroupInvariant

(* Every step of every goroutine keeps the invariant. *)
LEMMA GroupNext == GroupInvariant /\ [Next]_vars => GroupInvariant'
<1> SUFFICES ASSUME GroupInvariant, [Next]_vars PROVE GroupInvariant'
  OBVIOUS
<1>1. CASE Sync
  BY <1>1, ReceiveStep, SkipTargetStep, RejectTargetStep, BuildTargetStep,
     StoreStateStep, RetireStateStep, SyncExitsStep DEF Sync, LoadStep
<1>2. CASE UNCHANGED vars
  <2>1. UNCHANGED <<apply, cache, roundTrip, config, cfg, syncing, states, filtering,
                    fetching>>
    BY <1>2 DEF vars, apply, cache
  <2>2. TypeOK'
    BY <1>2 DEF GroupInvariant, TypeOK, vars, apply, discovery, syncing, states,
       filtering, cache, roundTrip
  <2> QED
    BY <2>1, <2>2, StatesUntouched, SyncUntouched DEF GroupInvariant
<1> QED
  BY <1>1, <1>2, ApplyConfigStep, EnvironmentStep, LoopStep, CacheStep, RequestStep
  DEF Next

(* The inductive invariant of a server group. *)
THEOREM GroupInvariance == Spec => []GroupInvariant
BY GroupInitially, GroupNext, PTL DEF Spec

(* However loads fail and are retried, a query gets a state whose context  *)
(* is not cancelled and whose targets are usable, and there is one once    *)
(* Ready is closed.                                                        *)
THEOREM StateLive == Spec => []PublishedStateLive
<1>1. GroupInvariant => PublishedStateLive
  BY DEF GroupInvariant, PublishedStateLive, StatesInHand, LiveStates, StateContents,
         TypeOK
<1> QED
  BY <1>1, GroupInvariance, PTL

(* However loads fail and are retried, a loop that is not being told to    *)
(* stop belongs to a state in use.                                         *)
THEOREM LoopsNotOrphaned == Spec => []NoOrphanLoops
<1>1. GroupInvariant => NoOrphanLoops
  BY DEF GroupInvariant, NoOrphanLoops, LiveStates
<1> QED
  BY <1>1, GroupInvariance, PTL

(* Whenever a target's filter sync fails and whatever fail-open, fail-     *)
(* closed and sync_interval say, an unsynced filter of a live state has a  *)
(* loop.                                                                   *)
THEOREM FiltersRetried == Spec => []UnsyncedFilterRetried
<1>1. GroupInvariant => UnsyncedFilterRetried
  BY DEF GroupInvariant
<1> QED
  BY <1>1, GroupInvariance, PTL

(* Wherever the two reads of a request fall between the two stores of any  *)
(* number of ApplyConfig calls, it gets a client no older than its config. *)
THEOREM RequestsSeeClient == Spec => []RequestSeesClient
<1>1. GroupInvariant => RequestSeesClient
  BY DEF GroupInvariant, RequestUnderWay
<1> QED
  BY <1>1, GroupInvariance, PTL

(* No step of any goroutine takes the cache's snapshot away.  It is        *)
(* replaced only by the answer for the targets of the state that was       *)
(* asked, or by nothing where a label filter of that state refused,        *)
(* however loads, cancellations, filter syncs and outages fall during the  *)
(* fetch.                                                                  *)
THEOREM SnapshotsKept == Spec => SnapshotKept
<1>1. ASSUME [Next]_vars
      PROVE  [/\ snapshot => snapshot'
              /\ names' # names =>
                   \/ names' = targets[fetching] /\ Answered(fetching)
                   \/ names' = {} /\ Refused(fetching)]_vars
  <2>1. CASE CacheFetched
    BY <2>1 DEF CacheFetched
  <2>2. CASE UNCHANGED <<snapshot, names>>
    BY <2>2
  <2> QED
    BY <1>1, <2>1, <2>2 DEF Next, vars, cache, ApplyConfig, PublishFirst, PublishSecond,
       Publish, ConfigureDiscovery, StartCache, Discover, TargetChanges, Sync, Receive,
       Retry, LoadStep, SkipTarget, RejectTarget, BuildTarget, StoreState, RetireState,
       SyncExits, LoopTick, LoopExits, Cache, CacheRefresh, CacheTick, CacheExits,
       ReadConfig, ReadClient, SendRequest, Cancel
<1> QED
  BY <1>1, PTL DEF Spec, SnapshotKept
=============================================================================
