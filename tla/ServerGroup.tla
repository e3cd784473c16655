---------------------------- MODULE ServerGroup ----------------------------
(***************************************************************************)
(* A server group (pkg/servergroup): ApplyConfig publishing a client and a *)
(* config, the Sync goroutine that turns the target maps of the discovery  *)
(* manager into ServerGroupStates, the label_filter sync loops a state     *)
(* starts for its targets, the histogram metadata cache, RoundTrip, and    *)
(* Cancel.  They all run concurrently.                                     *)
(*                                                                         *)
(* A ServerGroupState and its context are a member of Gens; one whose      *)
(* context is cancelled and which no goroutine uses any more is garbage    *)
(* and used again.  A target map is the set of targets in it.              *)
(***************************************************************************)
EXTENDS Naturals, FiniteSets

CONSTANTS
  Targets,     \* discoverable targets
  Dropped,     \* targets the relabel rules drop
  Unusable,    \* targets no client can be built for (no address label, ...)
  Maps,        \* target maps service discovery may produce
  Configs,     \* group configs: label_filter mode, whether it filters
               \* __name__, sync_interval > 0, metadata refresh interval > 0
  MaxApplies,  \* bound: ApplyConfig calls on this group (one in production)
  Gens,        \* bound: ServerGroupStates alive at the same time
  Requests,    \* bound: RoundTrips at the same time, 0 or 1
  None

FilterModes == {"none", "abort", "open", "closed"}

ASSUME TargetsAssumption ==
  /\ Dropped \cup Unusable \subseteq Targets
  /\ Maps \subseteq SUBSET Targets
ASSUME ConfigsAssumption ==
  Configs \subseteq [filter : FilterModes, onName : BOOLEAN, periodic : BOOLEAN,
                      refresh : BOOLEAN]
ASSUME MaxAppliesAssumption == MaxApplies \in Nat
ASSUME RequestsAssumption == Requests \in 0..1
ASSUME NoneAssumption == None \notin Gens

Versions == 1..MaxApplies
Usable == Targets \ (Dropped \cup Unusable)

VARIABLES
  ctxDone,      \* the group's context is cancelled
  config,       \* the successive configs ApplyConfig is called with
  client,       \* version of the http.Client published, 0 for none
  cfg,          \* version of the Config published, 0 for none
  applyPc,      \* where ApplyConfig is
  managed,      \* the discovery manager has a config
  discovered,   \* the discovery manager's current target map
  triggerSend,  \* it has an update to send
  syncPc,       \* where the Sync goroutine is
  held,         \* the target map it is loading
  todo,         \* targets of that map not looked at yet
  building,     \* the state it is building
  oldState,     \* the state it replaces
  state,        \* the published ServerGroupState
  ready,        \* loaded: the Ready channel is closed
  live,         \* per state, its context is not cancelled
  stateCfg,     \* per state, the config version it was built from
  targets,      \* per state, the targets it queries
  filters,      \* per state, targets whose label filter is loaded
  loops,        \* per state, targets with a running label_filter sync loop
  up,           \* targets that answer
  cachePc,      \* where the histogram cache goroutine is
  fetching,     \* the state it fetches metadata from
  snapshot,     \* it has a snapshot
  names,        \* targets the snapshot was fetched from
  rtPc,         \* where a RoundTrip is
  rtCfg,        \* the config version it read
  rtClient      \* the client version it read

apply == <<config, client, cfg, applyPc>>
discovery == <<managed, discovered, triggerSend>>
syncing == <<syncPc, held, todo, building, oldState, state, ready>>
states == <<live, stateCfg, targets>>
filtering == <<filters, loops>>
cache == <<cachePc, fetching, snapshot, names>>
roundTrip == <<rtPc, rtCfg, rtClient>>
vars == <<ctxDone, apply, discovery, syncing, states, filtering, up, cache,
          roundTrip>>

Init ==
  /\ ctxDone = FALSE
  /\ config \in [Versions -> Configs]
  /\ client = 0 /\ cfg = 0 /\ applyPc = "idle"
  /\ managed = FALSE /\ discovered = {} /\ triggerSend = FALSE
  /\ syncPc = "waiting" /\ held = {} /\ todo = {}
  /\ building = None /\ oldState = None /\ state = None /\ ready = FALSE
  /\ live = [g \in Gens |-> FALSE]
  /\ stateCfg = [g \in Gens |-> 0]
  /\ targets = [g \in Gens |-> {}]
  /\ filters = [g \in Gens |-> {}]
  /\ loops = [g \in Gens |-> {}]
  /\ up \in SUBSET Usable
  /\ cachePc = "off" /\ fetching = None /\ snapshot = FALSE /\ names = {}
  /\ rtPc = "idle" /\ rtCfg = 0 /\ rtClient = 0

---------------------------------------------------------------------------
(* ApplyConfig, up to each of its effects on shared state.                 *)

(* Mutant: the config published before the client built from it. *)
MutPublishConfigFirst == <<"config", "client">>

(* The order ApplyConfig publishes its two pointers in. *)
PublishOrder == <<"client", "config">>

Publish(what) ==
  /\ client' = IF what = "client" THEN client + 1 ELSE client
  /\ cfg' = IF what = "config" THEN cfg + 1 ELSE cfg
  /\ UNCHANGED <<ctxDone, config, discovery, syncing, states, filtering, up,
                 cache, roundTrip>>

(* The transport is built and the first pointer stored, then the second. *)
PublishFirst ==
  /\ applyPc = "idle"
  /\ cfg < MaxApplies
  /\ applyPc' = "publish"
  /\ Publish(PublishOrder[1])

PublishSecond ==
  /\ applyPc = "publish"
  /\ applyPc' = "manager"
  /\ Publish(PublishOrder[2])

(* targetManager.ApplyConfig registers the providers and asks for a send. *)
ConfigureDiscovery ==
  /\ applyPc = "manager"
  /\ managed' = TRUE
  /\ triggerSend' = TRUE
  /\ applyPc' = "cache"
  /\ UNCHANGED <<ctxDone, config, client, cfg, discovered, syncing, states,
                 filtering, up, cache, roundTrip>>

(* histogramCache.start: the first time a refresh interval is set. *)
StartCache ==
  /\ applyPc = "cache"
  /\ cachePc' = IF cachePc = "off" /\ config[cfg].refresh
                THEN "refresh" ELSE cachePc
  /\ applyPc' = "idle"
  /\ UNCHANGED <<ctxDone, config, client, cfg, discovery, syncing, states,
                 filtering, up, fetching, snapshot, names, roundTrip>>

ApplyConfig == PublishFirst \/ PublishSecond \/ ConfigureDiscovery \/ StartCache

---------------------------------------------------------------------------
(* The discovery manager (vendored) and the targets.                       *)

Discover(m) ==
  /\ managed /\ ~ctxDone
  /\ discovered' = m
  /\ triggerSend' = TRUE
  /\ UNCHANGED <<ctxDone, apply, managed, syncing, states, filtering, up,
                 cache, roundTrip>>

TargetChanges(t) ==
  /\ up' = IF t \in up THEN up \ {t} ELSE up \cup {t}
  /\ UNCHANGED <<ctxDone, apply, discovery, syncing, states, filtering, cache,
                 roundTrip>>

---------------------------------------------------------------------------
(* The Sync goroutine.                                                     *)

Garbage(g) == ~live[g] /\ loops[g] = {} /\ g # fetching

(* Nothing reads state g (none if g is None) any more but the queries that *)
(* still use it.                                                           *)
Forget(g) ==
  /\ stateCfg' = [h \in Gens |-> IF h = g THEN 0 ELSE stateCfg[h]]
  /\ targets' = [h \in Gens |-> IF h = g THEN {} ELSE targets[h]]
  /\ filters' = [h \in Gens |-> IF h = g THEN {} ELSE filters[h]]

(* Cancel the context of state g.  A fetch of the histogram cache goes on  *)
(* with the clients of the state it asked.                                 *)
CancelState(g) ==
  /\ live' = [h \in Gens |-> live[h] /\ h # g]
  /\ Forget(IF g = fetching THEN None ELSE g)

(* loadTargetGroupMap begins: it snapshots the config, without which it    *)
(* fails, makes the new state's context and remembers the old state.       *)
Load(m) ==
  /\ held' = m
  /\ IF cfg = 0
     THEN syncPc' = "failed" /\ UNCHANGED <<todo, building, oldState, states, filters>>
     ELSE \E g \in Gens :
            /\ Garbage(g)
            /\ syncPc' = "building"
            /\ todo' = m
            /\ building' = g
            /\ oldState' = state
            /\ live' = [live EXCEPT ![g] = TRUE]
            /\ stateCfg' = [stateCfg EXCEPT ![g] = cfg]
            /\ UNCHANGED <<targets, filters>>

(* The unbuffered syncCh: the manager sends its latest map when Sync       *)
(* receives, and tries again on its next tick when it does not.            *)
Receive ==
  /\ syncPc = "waiting"
  /\ triggerSend
  /\ triggerSend' = FALSE
  /\ Load(discovered)
  /\ UNCHANGED <<ctxDone, apply, managed, discovered, state, ready, loops, up,
                 cache, roundTrip>>

(* Mutant: a failed load gives up on its map. *)
MutNoRetry ==
  /\ syncPc = "failed"
  /\ syncPc' = "waiting"
  /\ UNCHANGED <<ctxDone, apply, discovery, held, todo, building, oldState,
                 state, ready, states, filtering, up, cache, roundTrip>>

(* A second after a failed load, the same map is loaded again. *)
Retry ==
  /\ syncPc = "failed"
  /\ Load(held)
  /\ UNCHANGED <<ctxDone, apply, discovery, state, ready, loops, up, cache,
                 roundTrip>>

Filter(g) == config[stateCfg[g]].filter
Periodic(g) == config[stateCfg[g]].periodic

(* No client can be built for the target, or its initial label_filter sync *)
(* fails and aborts the load.                                              *)
Rejected(t) ==
  t \in Unusable \/ (Filter(building) = "abort" /\ t \notin up)

SkipTarget(t) ==
  /\ syncPc = "building"
  /\ t \in todo /\ t \in Dropped
  /\ todo' = todo \ {t}
  /\ UNCHANGED <<ctxDone, apply, discovery, syncPc, held, building, oldState,
                 state, ready, states, filtering, up, cache, roundTrip>>

(* Mutant: a failed load leaves its context alive. *)
MutLoadErrorKeepsContext(t) ==
  /\ syncPc = "building"
  /\ t \in todo \ Dropped
  /\ Rejected(t)
  /\ syncPc' = "failed"
  /\ building' = None /\ oldState' = None /\ todo' = {}
  /\ UNCHANGED <<ctxDone, apply, discovery, held, state, ready, states,
                 filtering, up, cache, roundTrip>>

(* A target fails the load: the deferred ctxCancel ends the loops of the   *)
(* targets before it.                                                      *)
RejectTarget(t) ==
  /\ syncPc = "building"
  /\ t \in todo \ Dropped
  /\ Rejected(t)
  /\ CancelState(building)
  /\ syncPc' = "failed"
  /\ building' = None /\ oldState' = None /\ todo' = {}
  /\ UNCHANGED <<ctxDone, apply, discovery, held, state, ready, loops, up,
                 cache, roundTrip>>

(* Mutant: a loop only where a sync_interval is configured. *)
MutLoopOnlyPeriodic(t) == Periodic(building)

(* A label filter keeps a loop to sync periodically, or to sync at last.   *)
NeedsLoop(t) == Periodic(building) \/ t \notin up

(* The target's client is built; its label filter, if it has one, is       *)
(* synced once.                                                            *)
BuildTarget(t) ==
  /\ syncPc = "building"
  /\ t \in todo \ Dropped
  /\ ~Rejected(t)
  /\ todo' = todo \ {t}
  /\ targets' = [targets EXCEPT ![building] = @ \cup {t}]
  /\ filters' = [filters EXCEPT ![building] =
       IF Filter(building) # "none" /\ t \in up THEN @ \cup {t} ELSE @]
  /\ loops' = [loops EXCEPT ![building] =
       IF Filter(building) # "none" /\ NeedsLoop(t) THEN @ \cup {t} ELSE @]
  /\ UNCHANGED <<ctxDone, apply, discovery, syncPc, held, building, oldState,
                 state, ready, live, stateCfg, up, cache, roundTrip>>

(* Every target is in: the new state is stored. *)
StoreState ==
  /\ syncPc = "building"
  /\ todo = {}
  /\ state' = building
  /\ building' = None
  /\ syncPc' = "retire"
  /\ UNCHANGED <<ctxDone, apply, discovery, held, todo, oldState, ready,
                 states, filtering, up, cache, roundTrip>>

(* Mutant: the state just stored is cancelled. *)
MutRetireCurrent ==
  /\ syncPc = "retire"
  /\ CancelState(state)
  /\ oldState' = None
  /\ ready' = TRUE
  /\ syncPc' = "waiting"
  /\ UNCHANGED <<ctxDone, apply, discovery, held, todo, building, state,
                 loops, up, cache, roundTrip>>

(* The old state is cancelled and the first load closes Ready. *)
RetireState ==
  /\ syncPc = "retire"
  /\ CancelState(oldState)
  /\ oldState' = None
  /\ ready' = TRUE
  /\ syncPc' = "waiting"
  /\ UNCHANGED <<ctxDone, apply, discovery, held, todo, building, state,
                 loops, up, cache, roundTrip>>

(* Mutant: the retry loop does not watch the group's context. *)
MutRetryIgnoresCtx ==
  /\ ctxDone
  /\ syncPc = "waiting"
  /\ syncPc' = "exited"
  /\ UNCHANGED <<ctxDone, apply, discovery, held, todo, building, oldState,
                 state, ready, states, filtering, up, cache, roundTrip>>

(* Sync returns: the group is cancelled while it waits for a map or for    *)
(* its next try.                                                           *)
SyncExits ==
  /\ ctxDone
  /\ syncPc \in {"waiting", "failed"}
  /\ syncPc' = "exited"
  /\ UNCHANGED <<ctxDone, apply, discovery, held, todo, building, oldState,
                 state, ready, states, filtering, up, cache, roundTrip>>

LoadStep ==
  \/ \E t \in Targets : SkipTarget(t) \/ RejectTarget(t) \/ BuildTarget(t)
  \/ StoreState
  \/ RetireState
Sync == Receive \/ Retry \/ LoadStep \/ SyncExits

---------------------------------------------------------------------------
(* The label_filter sync loops (LabelFilterClient.syncLoop).               *)

(* A tick: the filter is loaded when the target answers, and a loop that   *)
(* only waits for the first filter ends.                                   *)
LoopTick(g, t) ==
  /\ t \in loops[g]
  /\ live[g]
  /\ t \in up
  /\ filters' = [filters EXCEPT ![g] = @ \cup {t}]
  /\ loops' = [loops EXCEPT ![g] = IF Periodic(g) THEN @ ELSE @ \ {t}]
  /\ UNCHANGED <<ctxDone, apply, discovery, syncing, states, up, cache,
                 roundTrip>>

(* The state's context is cancelled. *)
LoopExits(g, t) ==
  /\ t \in loops[g]
  /\ ~live[g]
  /\ loops' = [loops EXCEPT ![g] = @ \ {t}]
  /\ UNCHANGED <<ctxDone, apply, discovery, syncing, states, filters, up,
                 cache, roundTrip>>

---------------------------------------------------------------------------
(* The histogram metadata cache.                                           *)

(* Mutant: the cache gives up when the group has no state yet. *)
MutCacheGivesUp ==
  /\ cachePc = "refresh"
  /\ IF state = None
     THEN cachePc' = "exited" /\ UNCHANGED fetching
     ELSE cachePc' = "fetch" /\ fetching' = state
  /\ UNCHANGED <<ctxDone, apply, discovery, syncing, states, filtering, up,
                 snapshot, names, roundTrip>>

(* A refresh asks for the current state's client; without one it waits for *)
(* the next tick.                                                          *)
CacheRefresh ==
  /\ cachePc = "refresh"
  /\ IF state = None
     THEN cachePc' = "tick" /\ UNCHANGED fetching
     ELSE cachePc' = "fetch" /\ fetching' = state
  /\ UNCHANGED <<ctxDone, apply, discovery, syncing, states, filtering, up,
                 snapshot, names, roundTrip>>

(* LabelFilterClient.Metadata answers with nothing and no error: the       *)
(* filter of target t in state g has never synced and fails closed, or it  *)
(* filters __name__ and the metric asked for is "".                        *)
Refuses(g, t) ==
  /\ Filter(g) # "none"
  /\ IF t \in filters[g] THEN config[stateCfg[g]].onName ELSE Filter(g) = "closed"

Refused(g) == \E t \in targets[g] : Refuses(g, t)

Answered(g) == targets[g] = {} \/ \E t \in targets[g] \cap up : ~Refuses(g, t)

(* Mutant: a failed fetch stores the empty map it returned. *)
MutCacheStoresFailure ==
  /\ cachePc = "fetch"
  /\ snapshot' = TRUE
  /\ names' = targets[fetching] \cap up
  /\ Forget(IF live[fetching] THEN None ELSE fetching)
  /\ fetching' = None
  /\ cachePc' = "tick"
  /\ UNCHANGED <<ctxDone, apply, discovery, syncing, live, loops, up, roundTrip>>

(* MetadataOnePerKey asks the targets of the state, which share one HA     *)
(* key, in turn from a moving offset, and takes the first that returns no  *)
(* error: one that answers, or one whose label filter refuses, whose       *)
(* nothing is stored as well.  Only when each returns an error, because it *)
(* is down or because one that hangs uses up the call's time, is the       *)
(* previous snapshot kept.                                                 *)
CacheFetched ==
  /\ cachePc = "fetch"
  /\ \/ Answered(fetching) /\ names' = targets[fetching] /\ snapshot' = TRUE
     \/ Refused(fetching) /\ names' = {} /\ snapshot' = TRUE
     \/ /\ ~Refused(fetching) /\ targets[fetching] # {}
        /\ ctxDone \/ ~(targets[fetching] \subseteq up)
        /\ UNCHANGED <<names, snapshot>>
  /\ Forget(IF live[fetching] THEN None ELSE fetching)
  /\ fetching' = None
  /\ cachePc' = "tick"
  /\ UNCHANGED <<ctxDone, apply, discovery, syncing, live, loops, up, roundTrip>>

CacheTick ==
  /\ cachePc = "tick"
  /\ cachePc' = "refresh"
  /\ UNCHANGED <<ctxDone, apply, discovery, syncing, states, filtering, up,
                 fetching, snapshot, names, roundTrip>>

CacheExits ==
  /\ cachePc = "tick"
  /\ ctxDone
  /\ cachePc' = "exited"
  /\ UNCHANGED <<ctxDone, apply, discovery, syncing, states, filtering, up,
                 fetching, snapshot, names, roundTrip>>

Cache == CacheRefresh \/ CacheFetched \/ CacheTick \/ CacheExits

---------------------------------------------------------------------------
(* A downstream request of a client built for some state.                  *)

ReadConfig ==
  /\ rtPc = "idle" /\ Requests = 1
  /\ \E g \in Gens : live[g]
  /\ rtCfg' = cfg
  /\ rtPc' = "config"
  /\ UNCHANGED <<ctxDone, apply, discovery, syncing, states, filtering, up,
                 cache, rtClient>>

ReadClient ==
  /\ rtPc = "config"
  /\ rtClient' = client
  /\ rtPc' = "send"
  /\ UNCHANGED <<ctxDone, apply, discovery, syncing, states, filtering, up,
                 cache, rtCfg>>

SendRequest ==
  /\ rtPc = "send"
  /\ rtPc' = "idle" /\ rtCfg' = 0 /\ rtClient' = 0
  /\ UNCHANGED <<ctxDone, apply, discovery, syncing, states, filtering, up,
                 cache>>

---------------------------------------------------------------------------
Cancel ==
  /\ ~ctxDone
  /\ ctxDone' = TRUE
  /\ UNCHANGED <<apply, discovery, syncing, states, filtering, up, cache,
                 roundTrip>>

Next ==
  \/ ApplyConfig
  \/ \E m \in Maps : Discover(m)
  \/ \E t \in Usable : TargetChanges(t)
  \/ Sync
  \/ \E g \in Gens, t \in Targets : LoopTick(g, t) \/ LoopExits(g, t)
  \/ Cache
  \/ ReadConfig \/ ReadClient \/ SendRequest
  \/ Cancel

(* The goroutines run; of two ready cases of a select neither is passed    *)
(* over for ever; the discovery manager's ticker offers its update again   *)
(* until it is taken; calls to a target return.                            *)
Fairness ==
  /\ WF_vars(ApplyConfig)
  /\ WF_vars(Sync) /\ SF_vars(SyncExits)
  /\ WF_vars(Cache) /\ SF_vars(CacheExits)
  /\ \A g \in Gens, t \in Targets : WF_vars(LoopTick(g, t)) /\ WF_vars(LoopExits(g, t))

Spec == Init /\ [][Next]_vars /\ Fairness

---------------------------------------------------------------------------
(* Properties.                                                             *)

(* A query never gets a state whose context has been cancelled: the new    *)
(* state is published before the old one is cancelled, and a failed load   *)
(* cancels only the state it was building.  Once Ready is closed there is  *)
(* always such a state, and its targets passed relabelling and have usable *)
(* clients.                                                                *)
PublishedStateLive ==
  /\ ready => state # None
  /\ state # None => /\ live[state]
                     /\ targets[state] \cap (Dropped \cup Unusable) = {}

(* No label_filter sync loop is left behind: a loop whose context is not   *)
(* cancelled belongs to the published state, to the one being built or to  *)
(* the one about to be cancelled, however loads failed and were retried.   *)
NoOrphanLoops ==
  \A g \in Gens : loops[g] # {} =>
    \/ ~live[g]
    \/ g \in {state, building}
    \/ syncPc = "retire" /\ g = oldState

(* A label filter that has never synced, letting every query through or    *)
(* none, has a loop that will sync it: no state of a live context is stuck *)
(* open or closed.                                                         *)
UnsyncedFilterRetried ==
  \A g \in Gens : (live[g] /\ Filter(g) # "none") =>
    targets[g] \ filters[g] \subseteq loops[g]

(* A request of a state's client always finds an http.Client, and one that *)
(* sees a new config sees the client that was built from it, whenever      *)
(* ApplyConfig publishes the two.                                          *)
RequestSeesClient ==
  rtPc = "send" => rtClient > 0 /\ rtClient >= rtCfg

(* The group follows service discovery: when the targets stop changing and *)
(* answer, the published state is built from the current target map and    *)
(* the current config.  The map Sync holds must be loadable: a map that    *)
(* never loads is retried for ever and shadows newer ones.                 *)
Settled(m) ==
  /\ ~ctxDone /\ managed /\ applyPc = "idle"
  /\ discovered = m /\ up = Usable /\ m \cap Unusable = {}
  /\ syncPc # "waiting" => held \cap Unusable = {}
Serving(m) ==
  state # None /\ targets[state] = m \ Dropped /\ stateCfg[state] = cfg
FollowsDiscovery ==
  \A m \in Maps : (<>[]Settled(m)) => (<>[]Serving(m))

(* The histogram cache follows the state: when the targets stop changing   *)
(* and answer, its snapshot is the one of the targets being queried, also  *)
(* after a fail-closed filter wiped it.  Only under a label filter on      *)
(* __name__, which refuses to be asked about every metric, does it end     *)
(* empty.                                                                  *)
CacheFollowsState ==
  \A m \in Maps :
    (<>[](Settled(m) /\ cachePc # "off")) =>
      <>[](snapshot /\ names = IF config[cfg].filter # "none" /\ config[cfg].onName
                               THEN {} ELSE m \ Dropped)

(* A failed refresh keeps the previous snapshot: an outage takes nothing   *)
(* away.  What the cache holds is the complete answer for the targets of a *)
(* state that was published, whatever became of that state while it was    *)
(* asked, and it is emptied in one case only: a label filter of such a     *)
(* target refused to ask.                                                  *)
SnapshotKept ==
  [][/\ snapshot => snapshot'
     /\ names' # names =>
          \/ names' = targets[fetching] /\ Answered(fetching)
          \/ names' = {} /\ Refused(fetching)]_vars

(* Cancel stops the group's own goroutines for good, even between two      *)
(* tries of a load that keeps failing.                                     *)
GroupGoroutinesStop ==
  ctxDone ~> [](syncPc = "exited" /\ cachePc \in {"off", "exited"})
=============================================================================
