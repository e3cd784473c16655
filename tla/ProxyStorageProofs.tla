------------------------- MODULE ProxyStorageProofs -------------------------
(***************************************************************************)
(* Proofs about ProxyStorage for every number of reloads and server        *)
(* groups, every config and every set of steps that may fail.              *)
(***************************************************************************)
EXTENDS ProxyStorage, TLAPS

Building == pc \in {"groups", "remote", "ready"}

TypeOK ==
  /\ pc \in {"idle", "groups", "remote", "ready", "retire", "panicked", "exited"}
  /\ reload \in 0..MaxReloads
  /\ size \in [Reloads -> 0..MaxGroups]
  /\ remoteWrite \in [Reloads -> BOOLEAN]
  /\ next \in 1..(MaxGroups + 1)
  /\ failed \in BOOLEAN
  /\ oldState \in 0..MaxReloads
  /\ sgs \in [Reloads -> [Groups -> {"none", "running", "cancelled"}]]
  /\ readySgs \in [Reloads -> SUBSET Groups]
  /\ remoteStorage \in [Reloads -> 0..MaxReloads]
  /\ storage \in [Reloads -> {"none", "open", "closed", "unclosed"}]
  /\ walDirs \in SUBSET Reloads
  /\ ephemeral \in BOOLEAN
  /\ registered \in BOOLEAN
  /\ current \in 0..MaxReloads
  /\ outcome \in [Reloads -> {"none", "ok", "groups_failed", "remote_failed"}]

(* The state a reload replaces is the published one until it publishes its *)
(* own.                                                                    *)
CallInProgress ==
  /\ current <= reload
  /\ Building => oldState = current /\ current < reload
  /\ pc = "retire" => oldState < current /\ current = reload

(* What the reload in progress has built. *)
GroupsSoFar ==
  /\ pc = "groups" /\ ~failed =>
       \A i \in Groups : i < next => sgs[reload][i] = "running"
  /\ pc \in {"remote", "ready"} =>
       \A i \in Configured(reload) : sgs[reload][i] = "running"

(* State r writes to an open storage, or its config has no remote_write. *)
HasStorage(r) ==
  IF remoteWrite[r]
  THEN /\ remoteStorage[r] # 0
       /\ storage[remoteStorage[r]] = "open"
       /\ remoteStorage[r] \in walDirs
  ELSE remoteStorage[r] = 0

(* The storage of the reload in progress: none before its turn, then the   *)
(* old state's where there is one to reuse.                                *)
StorageInHand ==
  /\ \A r \in Reloads :
       r > reload \/ (r = reload /\ pc \in {"groups", "remote"}) => remoteStorage[r] = 0
  /\ pc = "ready" => HasStorage(reload)
  /\ pc \in {"ready", "retire"} /\ remoteWrite[reload] /\ OldStorage # 0 =>
       remoteStorage[reload] = OldStorage

(* A storage is open for the published state, for the one about to be      *)
(* published or for the one about to be cancelled.                         *)
OpenStorages ==
  \A r \in Reloads : storage[r] = "open" =>
    \/ current # 0 /\ r = remoteStorage[current]
    \/ pc = "ready" /\ r = remoteStorage[reload]
    \/ pc = "retire" /\ r = OldStorage

(* The same for server groups, but for the reloads that failed in their    *)
(* remote_write part and the one that panicked.                            *)
RunningGroups ==
  \A r \in Reloads, i \in Groups : sgs[r][i] = "running" =>
    \/ r = current \/ outcome[r] = "remote_failed"
    \/ r = reload /\ (Building \/ pc = "panicked")
    \/ r = oldState /\ pc = "retire"

(* The outcomes tell which states have been published. *)
Published(r) == outcome[r] = "ok" \/ r = current

Outcomes ==
  /\ \A r \in Reloads : outcome[r] = "ok" => r <= current
  /\ \A r \in Reloads : r > reload \/ (r = reload /\ Building) => outcome[r] = "none"
  /\ current # 0 /\ pc # "retire" => outcome[current] = "ok"
  /\ pc = "retire" /\ oldState # 0 => outcome[oldState] = "ok"
  /\ pc = "retire" => \A r \in Reloads : outcome[r] = "ok" => r <= oldState

(* The storage of a state that was published is open until a config        *)
(* without remote_write is published.                                      *)
StorageOutlives(s) ==
  \/ remoteStorage[s] = 0
  \/ storage[remoteStorage[s]] = "open"
  \/ \E r \in (s + 1)..current : ~remoteWrite[r] /\ Published(r)

StorageInvariant ==
  /\ TypeOK
  /\ CallInProgress
  /\ GroupsSoFar
  /\ StorageInHand
  /\ OpenStorages
  /\ RunningGroups
  /\ Outcomes
  /\ PublishedStateServes
  /\ \A s \in Reloads : Published(s) => StorageOutlives(s)

(* A reload that starts finds the published state of the previous one,     *)
(* which stays published.                                                  *)
LEMMA BeginReloadStep ==
  ASSUME StorageInvariant, NEW n \in 0..MaxGroups, NEW rw \in BOOLEAN, BeginReload(n, rw)
  PROVE  StorageInvariant'
<1> USE MaxReloadsAssumption, MaxGroupsAssumption DEF StorageInvariant,
        Reloads, Groups, loop, groups, remote, BeginReload
<1>1. TypeOK'
  <2>3. remoteWrite' \in [Reloads -> BOOLEAN]
    BY DEF TypeOK
  <2>5. failed' \in BOOLEAN
    OBVIOUS
  <2> QED
    BY <2>3, <2>5 DEF TypeOK
<1>2. CallInProgress'
  BY DEF CallInProgress, TypeOK
<1>3. GroupsSoFar'
  BY DEF GroupsSoFar
<1>4. StorageInHand'
  BY DEF StorageInHand, TypeOK
<1>5. OpenStorages'
  BY DEF OpenStorages
<1>6. RunningGroups'
  BY DEF Building, RunningGroups
<1>7. Outcomes'
  BY DEF Outcomes, TypeOK
<1>8. PublishedStateServes'
  BY DEF CallInProgress, Configured, PublishedStateServes, TypeOK
<1>9. (\A s \in Reloads : Published(s) => StorageOutlives(s))'
  BY DEF CallInProgress, HasStorage, Outcomes, Published,
     PublishedStateServes, StorageInHand, StorageOutlives, TypeOK
<1> QED
  BY <1>1, <1>2, <1>3, <1>4, <1>5, <1>6, <1>7, <1>8, <1>9

(* A group that starts belongs to the reload under way, not to the         *)
(* published state.                                                        *)
LEMMA CreateGroupStep ==
  ASSUME StorageInvariant, CreateGroup
  PROVE  StorageInvariant'
<1> USE MaxReloadsAssumption, MaxGroupsAssumption DEF StorageInvariant,
        Reloads, Groups, loop, groups, remote, CreateGroup
<1>0. reload \in Reloads
  BY DEF CallInProgress, Building, TypeOK
<1>1. TypeOK'
  <2>1. next \in Groups
    BY <1>0 DEF TypeOK
  <2>2. [sgs[reload] EXCEPT ![next] = "running"] \in [Groups -> {"none", "running", "cancelled"}]
    BY <1>0 DEF TypeOK
  <2>3. sgs' \in [Reloads -> [Groups -> {"none", "running", "cancelled"}]]
    BY <2>2 DEF TypeOK
  <2>5. next' \in 1..(MaxGroups + 1)
    BY <2>1
  <2> QED
    BY <2>3, <2>5 DEF TypeOK
<1>2. CallInProgress'
  BY DEF Building, CallInProgress
<1>3. GroupsSoFar'
  <2> SUFFICES ASSUME ~failed', NEW i \in Groups, i < next'
               PROVE  sgs'[reload][i] = "running"
    BY DEF GroupsSoFar
  <2>2. sgs' = [sgs EXCEPT ![reload][next] = "running"] /\ ~failed
    OBVIOUS
  <2>3. CASE i = next
    BY <1>0, <2>2, <2>3 DEF TypeOK
  <2>4. CASE i # next
    <3>1. i < next
      BY <2>4 DEF TypeOK
    <3> QED
      BY <2>2, <3>1 DEF GroupsSoFar
  <2> QED
    BY <2>3, <2>4
<1>4. StorageInHand'
  BY DEF StorageInHand
<1>5. OpenStorages'
  BY DEF OpenStorages
<1>6. RunningGroups'
  BY DEF Building, RunningGroups, TypeOK
<1>7. Outcomes'
  BY DEF Building, Outcomes
<1>8. PublishedStateServes'
  <2>1. sgs' = sgs \/ sgs' = [sgs EXCEPT ![reload] = [@ EXCEPT ![next] = "running"]]
    OBVIOUS
  <2>2. current # reload /\ current' = current
    BY DEF TypeOK, CallInProgress, Building
  <2>3. current # 0 => sgs'[current] = sgs[current]
    BY <2>1, <2>2 DEF TypeOK
  <2> QED
    BY <2>3 DEF PublishedStateServes, Configured
<1>9. (\A s \in Reloads : Published(s) => StorageOutlives(s))'
  BY DEF Published, StorageOutlives
<1> QED
  BY <1>1, <1>2, <1>3, <1>4, <1>5, <1>6, <1>7, <1>8, <1>9

(* A failed reload cancels the groups it created, or panics on one it      *)
(* could not create; the published state is another.                       *)
LEMMA CancelFailedStep ==
  ASSUME StorageInvariant, CancelFailed
  PROVE  StorageInvariant'
<1> USE MaxReloadsAssumption, MaxGroupsAssumption DEF StorageInvariant,
        Reloads, Groups, loop, groups, remote, CancelFailed
<1>0. reload \in Reloads
  BY DEF CallInProgress, Building, TypeOK
<1>1. TypeOK'
  <2>1. CancelGroups(reload) \in [Reloads -> [Groups -> {"none", "running", "cancelled"}]]
    BY <1>0 DEF TypeOK, CancelGroups
  <2> QED
    BY <2>1 DEF TypeOK, Fail
<1>2. CallInProgress'
  BY DEF Building, CallInProgress, Fail
<1>3. GroupsSoFar'
  BY DEF Fail, GroupsSoFar
<1>4. StorageInHand'
  BY DEF Fail, StorageInHand
<1>5. OpenStorages'
  BY DEF OpenStorages
<1>a. /\ pc = "groups" /\ pc' \in {"panicked", "idle"}
      /\ UNCHANGED <<reload, oldState, current, size, remoteWrite, remoteStorage, storage, walDirs>>
  BY DEF Fail
<1>b. \A r \in Reloads : r # reload => sgs'[r] = sgs[r]
  BY <1>0 DEF TypeOK, CancelGroups
<1>c. \A i \in Groups : sgs'[reload][i] = "running" => pc' = "panicked"
  <2>1. CASE sgs' = CancelGroups(reload)
    <3>1. sgs'[reload] = [i \in Groups |-> IF sgs[reload][i] = "running"
                                          THEN "cancelled" ELSE sgs[reload][i]]
      BY <1>0, <2>1 DEF TypeOK, CancelGroups
    <3> HIDE DEF CancelFailed, StorageInvariant
    <3> QED
      BY <3>1
  <2> QED
    BY <2>1
<1>d. \A r \in Reloads : r # reload => outcome'[r] = outcome[r]
  BY <1>0 DEF TypeOK, Fail
<1>6. RunningGroups'
  <2> SUFFICES ASSUME NEW r \in Reloads, NEW i \in Groups, sgs'[r][i] = "running"
               PROVE  \/ r = current \/ outcome'[r] = "remote_failed"
                      \/ r = reload /\ pc' = "panicked"
    BY <1>a DEF RunningGroups, Building
  <2>1. CASE r = reload
    BY <1>c, <2>1
  <2>2. CASE r # reload
    BY <1>a, <1>b, <1>d, <2>2 DEF RunningGroups
  <2> QED
    BY <2>1, <2>2
<1>7. Outcomes'
  <2>1. CASE outcome' = outcome
    BY <2>1 DEF Outcomes, Building, Fail
  <2>2. CASE outcome' = [outcome EXCEPT ![reload] = "groups_failed"]
    <3>1. \A r \in Reloads : outcome'[r] = IF r = reload THEN "groups_failed" ELSE outcome[r]
      BY <2>2 DEF TypeOK
    <3>2. current # reload /\ pc' # "retire" /\ ~Building'
      BY <1>a DEF CallInProgress, Building, TypeOK
    <3>3. current \in Reloads \/ current = 0
      BY DEF TypeOK
    <3> QED
      BY <1>0, <1>a, <3>1, <3>2, <3>3 DEF Outcomes
  <2> QED
    BY <2>1, <2>2 DEF Fail
<1>8. PublishedStateServes'
  <2>1. current # reload /\ (current = 0 \/ current \in Reloads)
    BY <1>a DEF CallInProgress, Building, TypeOK
  <2>2. current # 0 => sgs'[current] = sgs[current]
    BY <1>b, <2>1
  <2> QED
    BY <1>a, <2>2 DEF PublishedStateServes, Configured
<1>9. (\A s \in Reloads : Published(s) => StorageOutlives(s))'
  <2>1. \A s \in Reloads : Published(s)' <=> Published(s)
    BY DEF Published, Outcomes, Building, Fail, TypeOK
  <2>2. \A s \in Reloads : StorageOutlives(s) => StorageOutlives(s)'
    BY <2>1 DEF StorageOutlives, TypeOK
  <2> QED
    BY <2>1, <2>2
<1> QED
  BY <1>1, <1>2, <1>3, <1>4, <1>5, <1>6, <1>7, <1>8, <1>9

(* A reload goes on to the storage only with every configured group        *)
(* running.                                                                *)
LEMMA GroupsBuiltStep ==
  ASSUME StorageInvariant, GroupsBuilt
  PROVE  StorageInvariant'
<1> USE MaxReloadsAssumption, MaxGroupsAssumption DEF StorageInvariant,
        Reloads, Groups, loop, groups, remote, GroupsBuilt
<1>1. TypeOK'
  BY DEF TypeOK
<1>2. CallInProgress'
  BY DEF Building, CallInProgress
<1>3. GroupsSoFar'
  BY DEF Building, CallInProgress, Configured, GroupsSoFar, TypeOK
<1>4. StorageInHand'
  BY DEF StorageInHand
<1>5. OpenStorages'
  BY DEF OpenStorages
<1>6. RunningGroups'
  BY DEF Building, RunningGroups
<1>7. Outcomes'
  BY DEF Building, Outcomes
<1>8. PublishedStateServes'
  BY DEF Configured, PublishedStateServes
<1>9. (\A s \in Reloads : Published(s) => StorageOutlives(s))'
  BY DEF Published, StorageOutlives
<1> QED
  BY <1>1, <1>2, <1>3, <1>4, <1>5, <1>6, <1>7, <1>8, <1>9

(* Without remote_write the new state has no storage of its own. *)
LEMMA NoRemoteWriteStep ==
  ASSUME StorageInvariant, NoRemoteWrite
  PROVE  StorageInvariant'
<1> USE MaxReloadsAssumption, MaxGroupsAssumption DEF StorageInvariant,
        Reloads, Groups, loop, groups, remote, NoRemoteWrite
<1>1. TypeOK'
  BY DEF TypeOK
<1>2. CallInProgress'
  BY DEF Building, CallInProgress
<1>3. GroupsSoFar'
  BY DEF Configured, GroupsSoFar
<1>4. StorageInHand'
  BY DEF Building, CallInProgress, HasStorage, StorageInHand, TypeOK
<1>5. OpenStorages'
  BY DEF OpenStorages
<1>6. RunningGroups'
  BY DEF Building, RunningGroups
<1>7. Outcomes'
  BY DEF Building, Outcomes
<1>8. PublishedStateServes'
  BY DEF Configured, PublishedStateServes
<1>9. (\A s \in Reloads : Published(s) => StorageOutlives(s))'
  BY DEF Published, StorageOutlives
<1> QED
  BY <1>1, <1>2, <1>3, <1>4, <1>5, <1>6, <1>7, <1>8, <1>9

(* A storage is reused only from the published state, where it is open. *)
LEMMA ReuseStorageStep ==
  ASSUME StorageInvariant, ReuseStorage
  PROVE  StorageInvariant'
<1> USE MaxReloadsAssumption, MaxGroupsAssumption DEF StorageInvariant,
        Reloads, Groups, loop, groups, remote, ReuseStorage
<1>0. reload \in Reloads
  BY DEF CallInProgress, Building, TypeOK
<1>1. TypeOK'
  BY <1>0 DEF TypeOK, OldStorage
<1>2. CallInProgress'
  BY DEF Building, CallInProgress
<1>3. GroupsSoFar'
  BY DEF Configured, GroupsSoFar
<1>4. StorageInHand'
  BY DEF Building, CallInProgress, HasStorage, OldStorage,
     PublishedStateServes, StorageInHand, TypeOK
<1>5. OpenStorages'
  BY DEF HasStorage, OpenStorages, StorageInHand, TypeOK
<1>6. RunningGroups'
  BY DEF Building, RunningGroups
<1>7. Outcomes'
  BY DEF Building, Outcomes
<1>8. PublishedStateServes'
  BY DEF Building, CallInProgress, Configured, PublishedStateServes, TypeOK
<1>9. (\A s \in Reloads : Published(s) => StorageOutlives(s))'
  BY DEF Building, CallInProgress, HasStorage, OldStorage, Published,
     PublishedStateServes, StorageOutlives
<1> QED
  BY <1>1, <1>2, <1>3, <1>4, <1>5, <1>6, <1>7, <1>8, <1>9

(* A storage that refuses the new configuration stays with the published   *)
(* state.                                                                  *)
LEMMA ReuseRefusedStep ==
  ASSUME StorageInvariant, ReuseRefused
  PROVE  StorageInvariant'
<1> USE MaxReloadsAssumption, MaxGroupsAssumption DEF StorageInvariant,
        Reloads, Groups, loop, groups, remote, ReuseRefused
<1>1. TypeOK'
  BY DEF Fail, TypeOK
<1>2. CallInProgress'
  BY DEF Building, CallInProgress, Fail
<1>3. GroupsSoFar'
  BY DEF Fail, GroupsSoFar
<1>4. StorageInHand'
  BY DEF Fail, StorageInHand
<1>5. OpenStorages'
  BY DEF OpenStorages
<1>6. RunningGroups'
  BY DEF Fail, RunningGroups, TypeOK
<1>7. Outcomes'
  BY DEF Building, Fail, Outcomes, TypeOK
<1>8. PublishedStateServes'
  BY DEF Configured, PublishedStateServes
<1>9. (\A s \in Reloads : Published(s) => StorageOutlives(s))'
  BY DEF Building, CallInProgress, Fail, HasStorage, Published,
     StorageOutlives
<1> QED
  BY <1>1, <1>2, <1>3, <1>4, <1>5, <1>6, <1>7, <1>8, <1>9

(* A reload whose directory cannot be made has opened nothing. *)
LEMMA MkdirFailsStep ==
  ASSUME StorageInvariant, MkdirFails
  PROVE  StorageInvariant'
<1> USE MaxReloadsAssumption, MaxGroupsAssumption DEF StorageInvariant,
        Reloads, Groups, loop, groups, remote, MkdirFails
<1>1. TypeOK'
  BY DEF Fail, TypeOK
<1>2. CallInProgress'
  BY DEF Building, CallInProgress, Fail
<1>3. GroupsSoFar'
  BY DEF Fail, GroupsSoFar
<1>4. StorageInHand'
  BY DEF Fail, StorageInHand
<1>5. OpenStorages'
  BY DEF OpenStorages
<1>6. RunningGroups'
  BY DEF Fail, RunningGroups, TypeOK
<1>7. Outcomes'
  BY DEF Building, Fail, Outcomes, TypeOK
<1>8. PublishedStateServes'
  BY DEF Configured, PublishedStateServes
<1>9. (\A s \in Reloads : Published(s) => StorageOutlives(s))'
  BY DEF Building, CallInProgress, Fail, Published, StorageOutlives
<1> QED
  BY <1>1, <1>2, <1>3, <1>4, <1>5, <1>6, <1>7, <1>8, <1>9

(* A second remote.Storage panics before the reload has published          *)
(* anything.                                                               *)
LEMMA OpenPanicsStep ==
  ASSUME StorageInvariant, OpenPanics
  PROVE  StorageInvariant'
<1> USE MaxReloadsAssumption, MaxGroupsAssumption DEF StorageInvariant,
        Reloads, Groups, loop, groups, remote, OpenPanics
<1>0. reload \in Reloads
  BY DEF CallInProgress, Building, TypeOK
<1>1. TypeOK'
  BY <1>0 DEF TypeOK
<1>2. CallInProgress'
  BY DEF Building, CallInProgress
<1>3. GroupsSoFar'
  BY DEF GroupsSoFar
<1>4. StorageInHand'
  BY DEF StorageInHand
<1>5. OpenStorages'
  BY DEF OpenStorages
<1>6. RunningGroups'
  BY DEF RunningGroups
<1>7. Outcomes'
  BY DEF Building, Outcomes
<1>8. PublishedStateServes'
  BY DEF Configured, PublishedStateServes
<1>9. (\A s \in Reloads : Published(s) => StorageOutlives(s))'
  BY DEF Published, StorageOutlives
<1> QED
  BY <1>1, <1>2, <1>3, <1>4, <1>5, <1>6, <1>7, <1>8, <1>9

(* A storage that fails to open is in no state. *)
LEMMA OpenFailsStep ==
  ASSUME StorageInvariant, OpenFails
  PROVE  StorageInvariant'
<1> USE MaxReloadsAssumption, MaxGroupsAssumption DEF StorageInvariant,
        Reloads, Groups, loop, groups, remote, OpenFails
<1>0. reload \in Reloads
  BY DEF CallInProgress, Building, TypeOK
<1>1. TypeOK'
  BY <1>0 DEF TypeOK, Fail
<1>2. CallInProgress'
  BY DEF Building, CallInProgress, Fail
<1>3. GroupsSoFar'
  BY DEF Fail, GroupsSoFar
<1>4. StorageInHand'
  BY DEF Fail, StorageInHand
<1>5. OpenStorages'
  BY DEF OpenStorages
<1>6. RunningGroups'
  BY DEF Fail, RunningGroups, TypeOK
<1>7. Outcomes'
  BY DEF Building, Fail, Outcomes, TypeOK
<1>8. PublishedStateServes'
  BY DEF Building, CallInProgress, Configured, OldStorage,
     PublishedStateServes
<1>9. (\A s \in Reloads : Published(s) => StorageOutlives(s))'
  BY DEF Building, CallInProgress, Fail, OldStorage, Outcomes, Published,
     PublishedStateServes, StorageOutlives, TypeOK
<1> QED
  BY <1>1, <1>2, <1>3, <1>4, <1>5, <1>6, <1>7, <1>8, <1>9

(* A storage that is opened is the one in hand. *)
LEMMA OpenStorageStep ==
  ASSUME StorageInvariant, OpenStorage
  PROVE  StorageInvariant'
<1> USE MaxReloadsAssumption, MaxGroupsAssumption DEF StorageInvariant,
        Reloads, Groups, loop, groups, remote, OpenStorage
<1>0. reload \in Reloads
  BY DEF CallInProgress, Building, TypeOK
<1>1. TypeOK'
  BY <1>0 DEF TypeOK
<1>2. CallInProgress'
  BY DEF Building, CallInProgress
<1>3. GroupsSoFar'
  BY DEF Configured, GroupsSoFar
<1>4. StorageInHand'
  BY DEF Building, CallInProgress, HasStorage, OldStorage, StorageInHand,
     TypeOK
<1>5. OpenStorages'
  BY DEF OpenStorages, StorageInHand, TypeOK
<1>6. RunningGroups'
  BY DEF Building, RunningGroups
<1>7. Outcomes'
  BY DEF Building, Outcomes
<1>8. PublishedStateServes'
  BY DEF Configured, HasStorage, OldStorage, PublishedStateServes, TypeOK
<1>9. (\A s \in Reloads : Published(s) => StorageOutlives(s))'
  BY DEF Building, CallInProgress, OldStorage, Published, StorageOutlives,
     TypeOK
<1> QED
  BY <1>1, <1>2, <1>3, <1>4, <1>5, <1>6, <1>7, <1>8, <1>9

(* A group that has loaded its targets stays as ready as it was running. *)
LEMMA GroupReadyStep ==
  ASSUME StorageInvariant, NEW r \in Reloads, NEW i \in Groups, GroupReady(r, i)
  PROVE  StorageInvariant'
<1> USE MaxReloadsAssumption, MaxGroupsAssumption DEF StorageInvariant,
        Reloads, Groups, loop, groups, remote, GroupReady
<1>1. TypeOK'
  BY DEF TypeOK
<1>2. CallInProgress'
  BY DEF Building, CallInProgress
<1>3. GroupsSoFar'
  BY DEF Configured, GroupsSoFar
<1>4. StorageInHand'
  BY DEF HasStorage, OldStorage, StorageInHand
<1>5. OpenStorages'
  BY DEF OldStorage, OpenStorages
<1>6. RunningGroups'
  BY DEF Building, RunningGroups
<1>7. Outcomes'
  BY DEF Building, Outcomes
<1>8. PublishedStateServes'
  BY DEF Configured, PublishedStateServes
<1>9. (\A s \in Reloads : Published(s) => StorageOutlives(s))'
  BY DEF Published, StorageOutlives
<1> QED
  BY <1>1, <1>2, <1>3, <1>4, <1>5, <1>6, <1>7, <1>8, <1>9

(* The state that is published has its groups running and its storage      *)
(* open.                                                                   *)
LEMMA StoreStateStep ==
  ASSUME StorageInvariant, StoreState
  PROVE  StorageInvariant'
<1> USE MaxReloadsAssumption, MaxGroupsAssumption DEF StorageInvariant,
        Reloads, Groups, loop, groups, remote, StoreState
<1>1. TypeOK'
  BY DEF TypeOK
<1>2. CallInProgress'
  BY DEF Building, CallInProgress, TypeOK
<1>3. GroupsSoFar'
  BY DEF GroupsSoFar
<1>4. StorageInHand'
  BY DEF OldStorage, StorageInHand
<1>5. OpenStorages'
  BY DEF Building, CallInProgress, OldStorage, OpenStorages,
     PublishedStateServes, TypeOK
<1>6. RunningGroups'
  BY DEF Building, CallInProgress, RunningGroups
<1>7. Outcomes'
  BY DEF Building, CallInProgress, Outcomes, TypeOK
<1>8. PublishedStateServes'
  BY DEF AllReady, Configured, GroupsSoFar, HasStorage, PublishedStateServes,
     StorageInHand
<1>9. (\A s \in Reloads : Published(s) => StorageOutlives(s))'
  BY DEF Building, CallInProgress, HasStorage, Outcomes, Published,
     StorageInHand, StorageOutlives, TypeOK
<1> QED
  BY <1>1, <1>2, <1>3, <1>4, <1>5, <1>6, <1>7, <1>8, <1>9

(* Retiring the replaced state cancels its groups and closes its storage   *)
(* only if the new state does not use it.                                  *)
LEMMA RetireStateStep ==
  ASSUME StorageInvariant, RetireState
  PROVE  StorageInvariant'
<1> USE MaxReloadsAssumption, MaxGroupsAssumption DEF StorageInvariant,
        Reloads, Groups, loop, groups, remote, RetireState
<1>0. reload \in Reloads
  BY DEF CallInProgress, TypeOK
<1>1. TypeOK'
  BY DEF CancelGroups, TypeOK
<1>2. CallInProgress'
  BY DEF Building, CallInProgress
<1>3. GroupsSoFar'
  BY DEF GroupsSoFar
<1>4. StorageInHand'
  BY DEF StorageInHand
<1>5. OpenStorages'
  BY DEF CallInProgress, ClosesStorage, HasStorage, OpenStorages, TypeOK
<1>6. RunningGroups'
  BY DEF CallInProgress, CancelGroups, RunningGroups, TypeOK
<1>7. Outcomes'
  BY DEF Building, CallInProgress, Outcomes, TypeOK
<1>8. PublishedStateServes'
  BY DEF Building, CallInProgress, CancelGroups, ClosesStorage, Configured,
     GroupsSoFar, HasStorage, PublishedStateServes, TypeOK
<1>9. (\A s \in Reloads : Published(s) => StorageOutlives(s))'
  <2> SUFFICES ASSUME NEW s \in Reloads, Published(s)'
               PROVE  StorageOutlives(s)'
    OBVIOUS
  <2>1. \A r \in Reloads : Published(r)' <=> Published(r)
    BY DEF Published, CallInProgress
  <2>2. StorageOutlives(s)
    BY <2>1
  <2>3. CASE \E r \in (s + 1)..current : ~remoteWrite[r] /\ Published(r)
    BY <2>1, <2>3 DEF StorageOutlives, TypeOK
  <2>4. CASE ClosesStorage /\ remoteStorage[s] = OldStorage
    <3>1. ~remoteWrite[reload] /\ s # reload
      BY <2>4 DEF ClosesStorage, StorageInHand
    <3>2. s < current /\ current = reload
      BY <1>0, <3>1 DEF Published, Outcomes, CallInProgress
    <3>3. reload \in (s + 1)..current'
      BY <1>0, <3>2
    <3> QED
      BY <3>1, <3>3 DEF StorageOutlives, Published, TypeOK
  <2>5. CASE ~(ClosesStorage /\ remoteStorage[s] = OldStorage)
    <3>1. remoteStorage[s] # 0 => storage'[remoteStorage[s]] = storage[remoteStorage[s]]
      BY <2>5
    <3> QED
      BY <2>2, <2>3, <3>1 DEF StorageOutlives
  <2> QED
    BY <2>4, <2>5
<1> QED
  BY <1>1, <1>2, <1>3, <1>4, <1>5, <1>6, <1>7, <1>8, <1>9

(* The end of main leaves the published state in place. *)
LEMMA ExitStep ==
  ASSUME StorageInvariant, Exit
  PROVE  StorageInvariant'
<1> USE MaxReloadsAssumption, MaxGroupsAssumption DEF StorageInvariant,
        Reloads, Groups, loop, groups, remote, Exit
<1>1. TypeOK'
  BY DEF TypeOK
<1>2. CallInProgress'
  BY DEF Building, CallInProgress
<1>3. GroupsSoFar'
  BY DEF GroupsSoFar
<1>4. StorageInHand'
  BY DEF StorageInHand
<1>5. OpenStorages'
  BY DEF OpenStorages
<1>6. RunningGroups'
  BY DEF Building, RunningGroups
<1>7. Outcomes'
  BY DEF Building, Outcomes
<1>8. PublishedStateServes'
  BY DEF Configured, PublishedStateServes
<1>9. (\A s \in Reloads : Published(s) => StorageOutlives(s))'
  BY DEF Published, StorageOutlives
<1> QED
  BY <1>1, <1>2, <1>3, <1>4, <1>5, <1>6, <1>7, <1>8, <1>9

(* An appender asked for before any state is published panics, and no      *)
(* reload is under way.                                                    *)
LEMMA NilAppenderStep ==
  ASSUME StorageInvariant, NilAppender
  PROVE  StorageInvariant'
<1> USE MaxReloadsAssumption, MaxGroupsAssumption DEF StorageInvariant,
        Reloads, Groups, loop, groups, remote, NilAppender
<1>1. TypeOK'
  BY DEF TypeOK
<1>2. CallInProgress'
  BY DEF Building, CallInProgress
<1>3. GroupsSoFar'
  BY DEF GroupsSoFar
<1>4. StorageInHand'
  BY DEF StorageInHand
<1>5. OpenStorages'
  BY DEF OpenStorages
<1>6. RunningGroups'
  BY DEF RunningGroups
<1>7. Outcomes'
  BY DEF Building, Outcomes
<1>8. PublishedStateServes'
  BY DEF PublishedStateServes
<1>9. (\A s \in Reloads : Published(s) => StorageOutlives(s))'
  BY DEF Published, StorageOutlives
<1> QED
  BY <1>1, <1>2, <1>3, <1>4, <1>5, <1>6, <1>7, <1>8, <1>9

---------------------------------------------------------------------------
(* The theorems.                                                           *)

(* Nothing is loaded at startup. *)
LEMMA StorageInitially == Init => StorageInvariant
<1> USE MaxReloadsAssumption, MaxGroupsAssumption DEF Init, Reloads, Groups
<1> SUFFICES ASSUME Init PROVE StorageInvariant
  OBVIOUS
<1>1. TypeOK
  <2>3. failed \in BOOLEAN /\ registered \in BOOLEAN
    OBVIOUS
  <2> QED
    BY <2>3 DEF TypeOK
<1>2. CallInProgress /\ GroupsSoFar /\ Outcomes
  BY DEF CallInProgress, GroupsSoFar, Outcomes, Building
<1>3. StorageInHand /\ OpenStorages /\ RunningGroups /\ PublishedStateServes
  BY DEF StorageInHand, OpenStorages, RunningGroups, PublishedStateServes
<1>4. \A s \in Reloads : Published(s) => StorageOutlives(s)
  BY DEF StorageOutlives
<1> QED
  BY <1>1, <1>2, <1>3, <1>4 DEF StorageInvariant

(* Every step of a reload, of a server group and of the end of main keeps  *)
(* the invariant.                                                          *)
LEMMA StorageNext == StorageInvariant /\ [Next]_vars => StorageInvariant'
<1> SUFFICES ASSUME StorageInvariant, [Next]_vars PROVE StorageInvariant'
  OBVIOUS
<1>1. CASE \E n \in 0..MaxGroups, rw \in BOOLEAN : BeginReload(n, rw)
  BY <1>1, BeginReloadStep
<1>2. CASE Reload
  <2>1. CASE Remote
    BY <2>1, NoRemoteWriteStep, ReuseStorageStep, ReuseRefusedStep,
       MkdirFailsStep, OpenPanicsStep, OpenFailsStep, OpenStorageStep DEF
       Remote
  <2> QED
    BY <1>2, <2>1, CreateGroupStep, CancelFailedStep, GroupsBuiltStep,
       StoreStateStep, RetireStateStep DEF Reload
<1>3. CASE \E r \in Reloads, i \in Groups : GroupReady(r, i)
  BY <1>3, GroupReadyStep
<1>4. CASE Exit \/ NilAppender
  BY <1>4, ExitStep, NilAppenderStep
<1>5. CASE UNCHANGED vars
  BY <1>5 DEF vars, loop, groups, remote, StorageInvariant, TypeOK,
     CallInProgress, Building, GroupsSoFar, Configured, StorageInHand,
     HasStorage, OldStorage, OpenStorages, RunningGroups, Outcomes, Published,
     StorageOutlives, PublishedStateServes
<1> QED
  BY <1>1, <1>2, <1>3, <1>4, <1>5 DEF Next, Gone

(* The inductive invariant of the storage's reload. *)
THEOREM StorageInvariance == Spec => []StorageInvariant
BY StorageInitially, StorageNext, PTL DEF Spec

(* What the inductive invariant says between reloads. *)
LEMMA BetweenReloads ==
  StorageInvariant => NoStrayStorage /\ ReplacedGroupsCancelled
BY DEF StorageInvariant, NoStrayStorage, ReplacedGroupsCancelled,
   OpenStorages, RunningGroups, Building

(* Whatever the configs and the failures, a query or an appender gets a    *)
(* state whose server groups run and are ready and whose storage is open.  *)
THEOREM StateServes == Spec => []PublishedStateServes
<1>1. StorageInvariant => PublishedStateServes
  BY DEF StorageInvariant
<1> QED
  BY <1>1, StorageInvariance, PTL

(* Whatever the configs and the failures, a WAL stays open between reloads *)
(* only for the published state.                                           *)
THEOREM StorageNotStray == Spec => []NoStrayStorage
BY BetweenReloads, StorageInvariance, PTL

(* Whatever the configs and the failures, a replaced state's groups are    *)
(* cancelled when its reload ends.                                         *)
THEOREM GroupsCancelled == Spec => []ReplacedGroupsCancelled
BY BetweenReloads, StorageInvariance, PTL
=============================================================================
