---------------------------- MODULE ProxyStorage ----------------------------
(***************************************************************************)
(* The reload of promxy's storage (ProxyStorage.ApplyConfig of             *)
(* pkg/proxystorage/proxy.go, called from main's loop, one reload at a     *)
(* time): server groups are created and configured, remote_write storage   *)
(* is reused or opened, the new state waits for its groups to be ready, is *)
(* published, and the old state is cancelled.  Queries and the rule        *)
(* manager's appender take the published state at any moment.  Module Main *)
(* is the caller.                                                          *)
(*                                                                         *)
(* A proxyStorageState is named by the reload that built it, a remote      *)
(* storage (with its agent WAL and directory) by the reload that opened    *)
(* it.  A server group is running from NewServerGroup to Cancel; module    *)
(* ServerGroup models what it does meanwhile.                              *)
(***************************************************************************)
EXTENDS Naturals

CONSTANTS
  MaxReloads,   \* bound: calls of ApplyConfig
  MaxGroups,    \* bound: server groups in a config
  Faults        \* the steps that may fail in this instance

AllFaults == {"create", "configure", "remote_apply", "mkdir", "wal_open"}

ASSUME MaxReloadsAssumption == MaxReloads \in Nat
ASSUME MaxGroupsAssumption == MaxGroups \in Nat
ASSUME FaultsAssumption == Faults \subseteq AllFaults

Reloads == 1..MaxReloads
Groups == 1..MaxGroups

VARIABLES
  pc,            \* where main is: in which part of ApplyConfig, if any
  reload,        \* number of the latest ApplyConfig call
  size,          \* per reload, the number of server groups in its config
  remoteWrite,   \* per reload, its config has remote_write
  next,          \* the server group the loop is at
  failed,        \* the loop's failed flag
  oldState,      \* the state published when ApplyConfig began
  sgs,           \* per reload and group: none, running or cancelled
  readySgs,      \* per reload, groups whose Ready channel is closed
  remoteStorage, \* per reload, the remote storage its state uses, 0 for none
  storage,       \* per remote storage: none, open, closed, or unclosed when
                 \* opening its WAL failed and nobody closes the rest
  walDirs,       \* remote storages whose WAL directory exists
  ephemeral,     \* no --storage.path: WAL directories are temporary
  registered,    \* remote.NewStorage has registered its metrics
  current,       \* the published state, 0 for none
  outcome        \* per reload, how its ApplyConfig ended

loop == <<size, remoteWrite, next, failed, oldState>>
groups == <<sgs, readySgs>>
remote == <<remoteStorage, storage, walDirs, registered>>
vars == <<pc, reload, loop, groups, remote, ephemeral, current, outcome>>

Init ==
  /\ pc = "idle" /\ reload = 0
  /\ size = [r \in Reloads |-> 0]
  /\ remoteWrite = [r \in Reloads |-> FALSE]
  /\ next = 1 /\ failed = FALSE /\ oldState = 0
  /\ sgs = [r \in Reloads |-> [i \in Groups |-> "none"]]
  /\ readySgs = [r \in Reloads |-> {}]
  /\ remoteStorage = [r \in Reloads |-> 0]
  /\ storage = [r \in Reloads |-> "none"]
  /\ walDirs = {}
  /\ ephemeral \in BOOLEAN
  /\ registered = FALSE
  /\ current = 0
  /\ outcome = [r \in Reloads |-> "none"]

Configured(r) == 1..size[r]
OldStorage == IF oldState = 0 THEN 0 ELSE remoteStorage[oldState]

(* ApplyConfig returns an error; main goes on with the old state. *)
Fail(where) ==
  /\ outcome' = [outcome EXCEPT ![reload] = where]
  /\ pc' = "idle"

---------------------------------------------------------------------------
(* A reload begins with a config of n server groups.  The first load must  *)
(* succeed for main to go on.                                              *)
BeginReload(n, rw) ==
  /\ pc = "idle"
  /\ reload < MaxReloads
  /\ reload > 0 => current # 0
  /\ reload' = reload + 1
  /\ size' = [size EXCEPT ![reload + 1] = n]
  /\ remoteWrite' = [remoteWrite EXCEPT ![reload + 1] = rw]
  /\ next' = 1 /\ failed' = FALSE /\ oldState' = current
  /\ pc' = "groups"
  /\ UNCHANGED <<groups, remote, ephemeral, current, outcome>>

(* NewServerGroup and its ApplyConfig: a group that cannot be created      *)
(* stays nil in sgs, one that cannot be configured is running.             *)
CreateGroup ==
  /\ pc = "groups"
  /\ next <= size[reload]
  /\ next' = next + 1
  /\ \/ /\ "create" \in Faults
        /\ failed' = TRUE
        /\ UNCHANGED sgs
     \/ /\ failed' \in {failed} \cup IF "configure" \in Faults THEN {TRUE} ELSE {}
        /\ sgs' = [sgs EXCEPT ![reload][next] = "running"]
  /\ UNCHANGED <<pc, reload, size, remoteWrite, oldState, readySgs, remote,
                 ephemeral, current, outcome>>

(* Mutant: the groups of a failed config are left to themselves. *)
MutCancelNoGroups(r) == sgs

(* proxyStorageState.Cancel, the server groups' part. *)
CancelGroups(r) ==
  [sgs EXCEPT ![r] = [i \in Groups |-> IF @[i] = "running" THEN "cancelled" ELSE @[i]]]

(* A group failed: cancel the new state.  A nil entry of sgs panics. *)
CancelFailed ==
  /\ pc = "groups"
  /\ next > size[reload]
  /\ failed
  /\ IF \E i \in Configured(reload) : sgs[reload][i] = "none"
     THEN pc' = "panicked" /\ UNCHANGED <<sgs, outcome>>
     ELSE sgs' = CancelGroups(reload) /\ Fail("groups_failed")
  /\ UNCHANGED <<reload, loop, readySgs, remote, ephemeral, current>>

(* NewMultiAPI over the groups: they carry no key, so requiredCount, their *)
(* number, is always met.                                                  *)
GroupsBuilt ==
  /\ pc = "groups"
  /\ next > size[reload]
  /\ ~failed
  /\ pc' = "remote"
  /\ UNCHANGED <<reload, loop, groups, remote, ephemeral, current, outcome>>

---------------------------------------------------------------------------
(* remote_write.                                                           *)

NoRemoteWrite ==
  /\ pc = "remote"
  /\ ~remoteWrite[reload]
  /\ pc' = "ready"
  /\ UNCHANGED <<reload, loop, groups, remote, ephemeral, current, outcome>>

ReuseStorage ==
  /\ pc = "remote"
  /\ remoteWrite[reload]
  /\ OldStorage # 0
  /\ remoteStorage' = [remoteStorage EXCEPT ![reload] = OldStorage]
  /\ pc' = "ready"
  /\ UNCHANGED <<reload, loop, groups, storage, walDirs, registered,
                 ephemeral, current, outcome>>

(* The old storage refuses the new config. *)
ReuseRefused ==
  /\ pc = "remote"
  /\ remoteWrite[reload]
  /\ OldStorage # 0
  /\ "remote_apply" \in Faults
  /\ Fail("remote_failed")
  /\ UNCHANGED <<reload, loop, groups, remote, ephemeral, current>>

MkdirFails ==
  /\ pc = "remote"
  /\ remoteWrite[reload]
  /\ OldStorage = 0
  /\ ephemeral /\ "mkdir" \in Faults
  /\ Fail("remote_failed")
  /\ UNCHANGED <<reload, loop, groups, remote, ephemeral, current>>

(* remote.NewStorage registers its metrics with the default registerer and *)
(* never unregisters them: a second one panics.                            *)
OpenPanics ==
  /\ pc = "remote"
  /\ remoteWrite[reload]
  /\ OldStorage = 0
  /\ registered
  /\ pc' = "panicked"
  /\ walDirs' = walDirs \cup {reload}
  /\ UNCHANGED <<reload, loop, groups, remoteStorage, storage, registered,
                 ephemeral, current, outcome>>

(* agent.Open or the storage's first ApplyConfig fails: a temporary        *)
(* directory is removed again, the remote.Storage is not closed.           *)
OpenFails ==
  /\ pc = "remote"
  /\ remoteWrite[reload]
  /\ OldStorage = 0
  /\ ~registered
  /\ Faults \cap {"wal_open", "remote_apply"} # {}
  /\ registered' = TRUE
  /\ storage' = [storage EXCEPT ![reload] = "unclosed"]
  /\ walDirs' = IF ephemeral THEN walDirs ELSE walDirs \cup {reload}
  /\ Fail("remote_failed")
  /\ UNCHANGED <<reload, loop, groups, remoteStorage, ephemeral, current>>

OpenStorage ==
  /\ pc = "remote"
  /\ remoteWrite[reload]
  /\ OldStorage = 0
  /\ ~registered
  /\ registered' = TRUE
  /\ remoteStorage' = [remoteStorage EXCEPT ![reload] = reload]
  /\ storage' = [storage EXCEPT ![reload] = "open"]
  /\ walDirs' = walDirs \cup {reload}
  /\ pc' = "ready"
  /\ UNCHANGED <<reload, loop, groups, ephemeral, current, outcome>>

Remote ==
  \/ NoRemoteWrite \/ ReuseStorage \/ ReuseRefused
  \/ MkdirFails \/ OpenPanics \/ OpenFails \/ OpenStorage

---------------------------------------------------------------------------
(* A server group loads its first targets (module ServerGroup). *)
GroupReady(r, i) ==
  /\ sgs[r][i] = "running"
  /\ i \notin readySgs[r]
  /\ readySgs' = [readySgs EXCEPT ![r] = @ \cup {i}]
  /\ UNCHANGED <<pc, reload, loop, sgs, remote, ephemeral, current, outcome>>

(* Mutant: Ready stops waiting at the first group. *)
MutFirstReady(r) == 1 \in readySgs[r] \/ size[r] = 0

AllReady(r) == Configured(r) \subseteq readySgs[r]

(* newState.Ready() has seen every group ready; the new state is stored. *)
StoreState ==
  /\ pc = "ready"
  /\ AllReady(reload)
  /\ pc' = "retire"
  /\ current' = reload
  /\ UNCHANGED <<reload, loop, groups, remote, ephemeral, outcome>>

(* Mutants: the remote storage is closed whoever uses it, or never. *)
MutAlwaysClose == OldStorage # 0
MutNeverClose == FALSE

(* Cancel closes the old state's storage unless the new state reuses it. *)
ClosesStorage == OldStorage # 0 /\ OldStorage # remoteStorage[reload]

(* oldState.Cancel(newState); the first reload has an empty old state. *)
RetireState ==
  /\ pc = "retire"
  /\ sgs' = IF oldState = 0 THEN sgs ELSE CancelGroups(oldState)
  /\ storage' = IF ClosesStorage THEN [storage EXCEPT ![OldStorage] = "closed"]
                ELSE storage
  /\ walDirs' = IF ClosesStorage /\ ephemeral THEN walDirs \ {OldStorage}
                ELSE walDirs
  /\ pc' = "idle"
  /\ outcome' = [outcome EXCEPT ![reload] = "ok"]
  /\ UNCHANGED <<reload, loop, readySgs, remoteStorage, registered, ephemeral,
                 current>>

---------------------------------------------------------------------------
(* main ends: after SIGTERM, or when the first reload failed. *)
Exit ==
  /\ pc = "idle"
  /\ pc' = "exited"
  /\ UNCHANGED <<reload, loop, groups, remote, ephemeral, current, outcome>>

(* ProxyStorage.Appender before any state is published: its appendable is  *)
(* nil and the call panics.  Rules run before that only when the first     *)
(* reload failed in the storage, on the way to the end of main.            *)
NilAppender ==
  /\ pc = "idle"
  /\ reload > 0 /\ current = 0
  /\ pc' = "panicked"
  /\ UNCHANGED <<reload, loop, groups, remote, ephemeral, current, outcome>>

(* The process is gone. *)
Gone == pc \in {"panicked", "exited"} /\ UNCHANGED vars

Reload ==
  \/ CreateGroup \/ CancelFailed \/ GroupsBuilt
  \/ Remote
  \/ StoreState \/ RetireState

Next ==
  \/ \E n \in 0..MaxGroups, rw \in BOOLEAN : BeginReload(n, rw)
  \/ Reload
  \/ \E r \in Reloads, i \in Groups : GroupReady(r, i)
  \/ Exit \/ NilAppender
  \/ Gone

Spec == Init /\ [][Next]_vars

---------------------------------------------------------------------------
(* Properties.                                                             *)

(* Every state a query can get consists of running server groups that have *)
(* loaded their targets: a reload publishes its state only when all of its *)
(* groups are ready, and neither a failed reload nor the cancelling of the *)
(* old state touches the groups of the published one.  The appender the    *)
(* rule manager gets from it writes to an open storage when the config has *)
(* remote_write and to the stub when it has none, however often            *)
(* remote_write is kept, dropped and added.                                *)
PublishedStateServes ==
  current # 0 =>
    /\ \A i \in Configured(current) :
         sgs[current][i] = "running" /\ i \in readySgs[current]
    /\ IF remoteWrite[current]
       THEN /\ remoteStorage[current] # 0
            /\ storage[remoteStorage[current]] = "open"
            /\ remoteStorage[current] \in walDirs
       ELSE remoteStorage[current] = 0

(* Between reloads no WAL is left open but the published state's, whatever *)
(* failed: dropping remote_write closes it, keeping it does not.           *)
NoStrayStorage ==
  pc = "idle" => \A r \in Reloads :
    storage[r] = "open" => current # 0 /\ r = remoteStorage[current]

(* Between reloads, the groups of every replaced state and of every reload *)
(* that failed in its groups are cancelled; only a reload that failed in   *)
(* its remote_write part may leave its groups behind.                      *)
ReplacedGroupsCancelled ==
  pc = "idle" => \A r \in Reloads, i \in Groups :
    sgs[r][i] = "running" => r = current \/ outcome[r] = "remote_failed"

(* A failure anywhere cancels the new state: between reloads the server    *)
(* groups that run are the published state's.                              *)
FailedReloadLeavesNothing ==
  pc = "idle" => \A r \in Reloads, i \in Groups :
    sgs[r][i] = "running" => r = current
=============================================================================
