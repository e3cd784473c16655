----------------------------- MODULE MainProofs -----------------------------
(***************************************************************************)
(* Proofs about Main for every sequence of config files, signals and HTTP  *)
(* requests, and every component that may refuse a config.                 *)
(***************************************************************************)
EXTENDS Main, ProxyStorageProofs

Reloading ==
  main \in {"storage", "before_rules", "rules", "update_rules", "after_rules"}

MainTypeOK ==
  /\ file \in Seq(Configs) /\ Len(file) > 0
  /\ main \in {"load", "storage", "before_rules", "rules", "update_rules",
               "after_rules", "select", "stop_rules", "drain", "exited"}
  /\ trigger \in {"boot", "hup", "none"} \cup Clients
  /\ anyFailed \in BOOLEAN
  /\ read \in 0..Len(file)
  /\ applied \in [Components -> Nat]
  /\ configSuccess \in BOOLEAN
  /\ sigs \in {<<>>, <<"hup">>, <<"term">>}
  /\ sent \in 0..MaxRequests
  /\ hupAt \in 0..Len(file)
  /\ clients \in [Clients -> {"idle", "waiting", "served", "ok", "err"}]
  /\ asked \in [Clients -> 0..Len(file)]
  /\ rules \in {"off", "idle", "evaluating"}
  /\ evalState \in 0..MaxReloads

(* No component runs with a version newer than the one read last. *)
AppliedWasRead == \A k \in Components : applied[k] <= read

(* The client whose request is being served waits for it, and the reload   *)
(* in progress has read the file it asked for.                             *)
RequestInService ==
  trigger \in Clients =>
    /\ clients[trigger] = "served"
    /\ main = "load" \/ Reloading
    /\ Reloading => asked[trigger] <= read

(* The storage's reload is for the config that was read. *)
StorageConfig ==
  Reloading => read > 0 /\ reload > 0 /\ remoteWrite[reload] = Content(read).rw

(* What the reload in progress has applied, as long as nothing failed. *)
AppliedSoFar ==
  ~anyFailed =>
    /\ main \in {"before_rules", "rules", "update_rules", "after_rules"} =>
         applied["storage"] = read /\ current = reload
    /\ main \in {"rules", "update_rules", "after_rules"} =>
         \A k \in BeforeRules : applied[k] = read
    /\ main = "after_rules" => applied["rules"] = read /\ ~Unsupported(read)

(* After a reload that reported success. *)
AfterSuccess ==
  main = "select" /\ configSuccess =>
    /\ \A k \in Components : applied[k] = read
    /\ read > 0 /\ ~Unsupported(read)
    /\ current > 0 /\ remoteWrite[current] = Content(read).rw

(* The state an evaluation writes to was published. *)
EvaluationState ==
  rules = "evaluating" => evalState \in Reloads /\ Published(evalState)

MainInvariant ==
  /\ StorageInvariant
  /\ MainTypeOK
  /\ AppliedWasRead
  /\ RequestInService
  /\ StorageConfig
  /\ AppliedSoFar
  /\ AfterSuccess
  /\ AnsweredReloadHolds
  /\ EvaluationState

(* A reload of the storage is for the config it began with. *)
LEMMA ReloadKeepsConfig == Reload => UNCHANGED <<reload, size, remoteWrite>>
BY DEF Reload, Remote, loop, CreateGroup, CancelFailed, GroupsBuilt,
   NoRemoteWrite, ReuseStorage, ReuseRefused, MkdirFails, OpenPanics,
   OpenFails, OpenStorage, StoreState, RetireState

(* A published state stays one that was published. *)
LEMMA PublishedStays ==
  ASSUME StorageInvariant, [Next]_vars
  PROVE  \A r \in Reloads : Published(r) => Published(r)'
<1> USE MaxReloadsAssumption DEF StorageInvariant
<1> SUFFICES ASSUME NEW r \in Reloads, Published(r) PROVE Published(r)'
  OBVIOUS
<1>1. CASE outcome' = outcome /\ current' = current
  BY <1>1 DEF Published
<1>2. CASE Building /\ current' = current /\ \E w : outcome' = [outcome EXCEPT ![reload] = w]
  <2>1. r # reload
    BY <1>2 DEF Published, Outcomes, Building, Reloads
  <2> QED
    BY <1>2, <2>1 DEF Published
<1>3. CASE StoreState
  BY <1>3 DEF StoreState, Published, Outcomes, Reloads
<1>4. CASE RetireState
  BY <1>4 DEF RetireState, Published
<1> QED
  BY <1>1, <1>2, <1>3, <1>4 DEF Next, Reload, Remote, vars, BeginReload,
     CreateGroup, CancelFailed, GroupsBuilt, NoRemoteWrite, ReuseStorage,
     ReuseRefused, MkdirFails, OpenPanics, OpenFails, OpenStorage, GroupReady,
     Exit, NilAppender, Gone, Fail, Building

(* A signal is taken by the idle loop, which has yet to read the file. *)
LEMMA TakeHupStep ==
  ASSUME MainInvariant, TakeHup, StorageInvariant'
  PROVE  MainInvariant'
<1> USE DEF MainInvariant, TakeHup, vars, loop, groups, remote, request,
        signals, http, evaluation
<1>1. MainTypeOK'
  BY DEF MainTypeOK
<1>2. AppliedWasRead'
  BY DEF AppliedWasRead
<1>3. RequestInService'
  BY ClientsAssumption DEF RequestInService
<1>4. StorageConfig'
  BY DEF StorageConfig, Reloading
<1>5. AppliedSoFar'
  BY DEF AppliedSoFar
<1>6. AfterSuccess'
  BY DEF AfterSuccess
<1>7. AnsweredReloadHolds'
  BY DEF AnsweredReloadHolds
<1>8. EvaluationState'
  BY DEF EvaluationState, Published
<1> QED
  BY <1>1, <1>2, <1>3, <1>4, <1>5, <1>6, <1>7, <1>8

(* A termination signal starts the shutdown. *)
LEMMA TakeTermStep ==
  ASSUME MainInvariant, TakeTerm, StorageInvariant'
  PROVE  MainInvariant'
<1> USE DEF MainInvariant, TakeTerm, vars, loop, groups, remote, request,
        signals, http, evaluation
<1>1. MainTypeOK'
  BY DEF MainTypeOK
<1>2. AppliedWasRead'
  BY DEF AppliedWasRead
<1>3. RequestInService'
  BY DEF RequestInService, Reloading
<1>4. StorageConfig'
  BY DEF StorageConfig, Reloading
<1>5. AppliedSoFar'
  BY DEF AppliedSoFar
<1>6. AfterSuccess'
  BY DEF AfterSuccess
<1>7. AnsweredReloadHolds'
  BY DEF AnsweredReloadHolds
<1>8. EvaluationState'
  BY DEF EvaluationState, Published
<1> QED
  BY <1>1, <1>2, <1>3, <1>4, <1>5, <1>6, <1>7, <1>8

(* A client's request is taken by the idle loop, which has yet to read     *)
(* the file: it will read the version asked for or a later one.            *)
LEMMA TakeRequestStep ==
  ASSUME MainInvariant, NEW c \in Clients, TakeRequest(c), StorageInvariant'
  PROVE  MainInvariant'
<1> USE DEF MainInvariant, TakeRequest, vars, loop, groups, remote, request,
        signals, http, evaluation
<1>1. MainTypeOK'
  BY DEF MainTypeOK
<1>2. AppliedWasRead'
  BY DEF AppliedWasRead
<1>3. RequestInService'
  BY DEF RequestInService, Reloading, MainTypeOK
<1>4. StorageConfig'
  BY DEF StorageConfig, Reloading
<1>5. AppliedSoFar'
  BY DEF AppliedSoFar
<1>6. AfterSuccess'
  BY DEF AfterSuccess
<1>7. AnsweredReloadHolds'
  BY DEF AnsweredReloadHolds
<1>8. EvaluationState'
  BY DEF EvaluationState, Published
<1> QED
  BY <1>1, <1>2, <1>3, <1>4, <1>5, <1>6, <1>7, <1>8

(* A file that does not load fails the reload, and its client is told so. *)
LEMMA LoadFailsStep ==
  ASSUME MainInvariant, LoadFails, StorageInvariant'
  PROVE  MainInvariant'
<1> USE DEF MainInvariant, LoadFails, vars, loop, groups, remote, request,
        signals, http, evaluation
<1>1. MainTypeOK'
  <2>1. read' \in 0..Len(file)
    OBVIOUS
  <2> QED
    BY <2>1 DEF MainTypeOK, EndReload
<1>2. AppliedWasRead'
  BY DEF AppliedWasRead, MainTypeOK
<1>3. RequestInService'
  BY ClientsAssumption DEF RequestInService, EndReload
<1>4. StorageConfig'
  BY DEF StorageConfig, Reloading, EndReload
<1>5. AppliedSoFar'
  BY DEF AppliedSoFar, EndReload
<1>6. AfterSuccess'
  BY DEF AfterSuccess, EndReload
<1>7. AnsweredReloadHolds'
  BY DEF AnsweredReloadHolds, EndReload
<1>8. EvaluationState'
  BY DEF EvaluationState, Published
<1> QED
  BY <1>1, <1>2, <1>3, <1>4, <1>5, <1>6, <1>7, <1>8

(* A loaded configuration is the version every component of this reload    *)
(* is given.                                                               *)
LEMMA LoadConfigStep ==
  ASSUME MainInvariant, LoadConfig, StorageInvariant'
  PROVE  MainInvariant'
<1> USE DEF MainInvariant, LoadConfig, vars, loop, groups, remote, request,
        signals, http, evaluation
<1>1. MainTypeOK'
  <2>1. read' \in 0..Len(file) /\ anyFailed' = FALSE /\ main' = "storage"
    OBVIOUS
  <2> QED
    BY <2>1 DEF MainTypeOK
<1>2. AppliedWasRead'
  BY DEF AppliedWasRead, MainTypeOK
<1>3. RequestInService'
  BY DEF RequestInService, Reloading, MainTypeOK
<1>4. StorageConfig'
  <2>1. read' > 0 /\ reload' > 0 /\ reload' = reload + 1 /\ reload' \in Reloads
    BY DEF MainTypeOK, BeginReload, StorageInvariant, TypeOK
  <2>2. remoteWrite' = [remoteWrite EXCEPT ![reload + 1] = Content(read').rw]
    BY DEF BeginReload
  <2>3. remoteWrite'[reload'] = Content(read').rw
    BY <2>1, <2>2 DEF StorageInvariant, TypeOK
  <2> QED
    BY <2>1, <2>3 DEF StorageConfig, Content
<1>5. AppliedSoFar'
  BY DEF AppliedSoFar
<1>6. AfterSuccess'
  BY DEF AfterSuccess
<1>7. AnsweredReloadHolds'
  BY DEF AnsweredReloadHolds
<1>8. EvaluationState'
  BY DEF EvaluationState, Published, BeginReload
<1> QED
  BY <1>1, <1>2, <1>3, <1>4, <1>5, <1>6, <1>7, <1>8

(* The steps of the storage's reload leave the other components' versions  *)
(* alone.                                                                  *)
LEMMA InStorageStep ==
  ASSUME MainInvariant, InStorage, StorageInvariant'
  PROVE  MainInvariant'
<1> USE DEF MainInvariant, InStorage, vars, loop, groups, remote, request,
        signals, http, evaluation
<1>1. MainTypeOK'
  BY DEF MainTypeOK
<1>2. AppliedWasRead'
  BY DEF AppliedWasRead
<1>3. RequestInService'
  BY DEF RequestInService, Reloading
<1>4. StorageConfig'
  BY ReloadKeepsConfig DEF StorageConfig, Reloading, Content
<1>5. AppliedSoFar'
  BY DEF AppliedSoFar
<1>6. AfterSuccess'
  BY DEF AfterSuccess
<1>7. AnsweredReloadHolds'
  BY DEF AnsweredReloadHolds
<1>8. EvaluationState'
  <2>1. [Next]_vars
    BY DEF Next
  <2> QED
    BY <2>1, PublishedStays DEF EvaluationState
<1> QED
  BY <1>1, <1>2, <1>3, <1>4, <1>5, <1>6, <1>7, <1>8

(* The storage has applied the version if its reload published a state. *)
LEMMA LeaveStorageStep ==
  ASSUME MainInvariant, LeaveStorage, StorageInvariant'
  PROVE  MainInvariant'
<1> USE DEF MainInvariant, LeaveStorage, vars, loop, groups, remote, request,
        signals, http, evaluation
<1>1. MainTypeOK'
  BY DEF MainTypeOK, Apply, Advance
<1>2. AppliedWasRead'
  BY DEF AppliedWasRead, Apply, Advance, MainTypeOK
<1>3. RequestInService'
  BY DEF RequestInService, Reloading, Advance
<1>4. StorageConfig'
  BY DEF StorageConfig, Reloading, Content, Advance
<1>5. AppliedSoFar'
  <2> SUFFICES ASSUME ~anyFailed'
               PROVE  applied'["storage"] = read /\ current = reload
    BY DEF AppliedSoFar, Advance
  <2>1. outcome[reload] = "ok"
    BY DEF Advance
  <2>2. applied'["storage"] = read
    BY <2>1 DEF Apply, Components
  <2>4. current = reload
    BY <2>1 DEF StorageInvariant, Outcomes, TypeOK, Reloads
  <2> QED
    BY <2>2, <2>4
<1>6. AfterSuccess'
  BY DEF AfterSuccess, Advance
<1>7. AnsweredReloadHolds'
  BY DEF AnsweredReloadHolds, AppliedWasRead, Apply, MainTypeOK
<1>8. EvaluationState'
  BY DEF EvaluationState, Published
<1> QED
  BY <1>1, <1>2, <1>3, <1>4, <1>5, <1>6, <1>7, <1>8

(* A component that applies the configuration is at the version of this    *)
(* reload.                                                                 *)
LEMMA ApplyBeforeRulesStep ==
  ASSUME MainInvariant, ApplyBeforeRules, StorageInvariant'
  PROVE  MainInvariant'
<1> USE DEF MainInvariant, ApplyBeforeRules, vars, loop, groups, remote,
        request, signals, http, evaluation
<1>1. MainTypeOK'
  BY DEF MainTypeOK, Apply, Advance
<1>2. AppliedWasRead'
  BY DEF AppliedWasRead, Apply, Advance, MainTypeOK
<1>3. RequestInService'
  BY DEF RequestInService, Reloading, Advance
<1>4. StorageConfig'
  BY DEF StorageConfig, Reloading, Content, Advance
<1>5. AppliedSoFar'
  BY DEF AppliedSoFar, Components, Apply, Advance
<1>6. AfterSuccess'
  BY DEF AfterSuccess, Advance
<1>7. AnsweredReloadHolds'
  BY DEF AnsweredReloadHolds, AppliedWasRead, Apply, MainTypeOK
<1>8. EvaluationState'
  BY DEF EvaluationState, Published
<1> QED
  BY <1>1, <1>2, <1>3, <1>4, <1>5, <1>6, <1>7, <1>8

(* Rules that load wait for the update of the rule manager. *)
LEMMA LoadRulesStep ==
  ASSUME MainInvariant, LoadRules, StorageInvariant'
  PROVE  MainInvariant'
<1> USE DEF MainInvariant, LoadRules, vars, loop, groups, remote, request,
        signals, http, evaluation
<1>1. MainTypeOK'
  BY DEF MainTypeOK
<1>2. AppliedWasRead'
  BY DEF AppliedWasRead
<1>3. RequestInService'
  BY DEF RequestInService, Reloading
<1>4. StorageConfig'
  BY DEF StorageConfig, Reloading, Content
<1>5. AppliedSoFar'
  BY DEF AppliedSoFar
<1>6. AfterSuccess'
  BY DEF AfterSuccess
<1>7. AnsweredReloadHolds'
  BY DEF AnsweredReloadHolds
<1>8. EvaluationState'
  BY DEF EvaluationState, Published
<1> QED
  BY <1>1, <1>2, <1>3, <1>4, <1>5, <1>6, <1>7, <1>8

(* Updated rules are at the version of this reload. *)
LEMMA UpdateRulesStep ==
  ASSUME MainInvariant, UpdateRules, StorageInvariant'
  PROVE  MainInvariant'
<1> USE DEF MainInvariant, UpdateRules, vars, loop, groups, remote, request,
        signals, http, evaluation
<1>1. MainTypeOK'
  BY DEF MainTypeOK, Apply, Advance
<1>2. AppliedWasRead'
  BY DEF AppliedWasRead, Apply, Advance, MainTypeOK
<1>3. RequestInService'
  BY DEF RequestInService, Reloading, Advance
<1>4. StorageConfig'
  BY DEF StorageConfig, Reloading, Content, Advance
<1>5. AppliedSoFar'
  BY DEF AppliedSoFar, Unsupported, RulesOf, Content, Components, Apply,
     Advance
<1>6. AfterSuccess'
  BY DEF AfterSuccess, Advance
<1>7. AnsweredReloadHolds'
  BY DEF AnsweredReloadHolds, AppliedWasRead, Apply, MainTypeOK
<1>8. EvaluationState'
  BY DEF EvaluationState, Published
<1> QED
  BY <1>1, <1>2, <1>3, <1>4, <1>5, <1>6, <1>7, <1>8

(* Refused rules make the reload fail. *)
LEMMA RulesRefusedStep ==
  ASSUME MainInvariant, RulesRefused, StorageInvariant'
  PROVE  MainInvariant'
<1> USE DEF MainInvariant, RulesRefused, vars, loop, groups, remote, request,
        signals, http, evaluation
<1>1. MainTypeOK'
  BY DEF MainTypeOK, Advance
<1>2. AppliedWasRead'
  BY DEF AppliedWasRead, Advance
<1>3. RequestInService'
  BY DEF RequestInService, Reloading, Advance
<1>4. StorageConfig'
  BY DEF StorageConfig, Reloading, Content, Advance
<1>5. AppliedSoFar'
  BY DEF AppliedSoFar, Advance
<1>6. AfterSuccess'
  BY DEF AfterSuccess, Advance
<1>7. AnsweredReloadHolds'
  BY DEF AnsweredReloadHolds
<1>8. EvaluationState'
  BY DEF EvaluationState, Published
<1> QED
  BY <1>1, <1>2, <1>3, <1>4, <1>5, <1>6, <1>7, <1>8

(* A reload is reported a success only if every component has applied its  *)
(* version.                                                                *)
LEMMA FinishReloadStep ==
  ASSUME MainInvariant, FinishReload, StorageInvariant'
  PROVE  MainInvariant'
<1> USE DEF MainInvariant, FinishReload, vars, loop, groups, remote, request,
        signals, http, evaluation
<1> PICK refused \in SUBSET (AfterRules \cap ComponentFaults) :
      LET ok == ~anyFailed /\ refused = {} IN
      /\ Apply(AfterRules \cup {"interval"},
               refused \cup IF ok THEN {} ELSE {"interval"})
      /\ EndReload(ok)
  OBVIOUS
<1> DEFINE ok == ~anyFailed /\ refused = {}
<1>a. /\ Apply(AfterRules \cup {"interval"}, refused \cup IF ok THEN {} ELSE {"interval"})
      /\ EndReload(ok)
  OBVIOUS
<1>b. \A k \in Components : applied'[k] \in {applied[k], read}
  BY DEF Apply
<1>c. ok => \A k \in Components : applied'[k] = read
  BY DEF Apply, AppliedSoFar, Components
<1>d. ok \in BOOLEAN /\ configSuccess' = ok /\ trigger' = "none" /\ main' \in {"select", "exited"}
  BY DEF EndReload
<1> HIDE DEF ok
<1>1. MainTypeOK'
  <2>1. applied' \in [Components -> Nat]
    BY DEF MainTypeOK, Apply
  <2> QED
    BY <2>1 DEF MainTypeOK, EndReload
<1>2. AppliedWasRead'
  BY DEF AppliedWasRead, Apply, MainTypeOK
<1>3. RequestInService'
  BY ClientsAssumption DEF RequestInService, EndReload
<1>4. StorageConfig'
  BY DEF StorageConfig, Reloading, EndReload
<1>5. AppliedSoFar'
  BY DEF AppliedSoFar, EndReload
<1>6. AfterSuccess'
  <2> SUFFICES ASSUME ok
               PROVE  /\ \A k \in Components : applied'[k] = read
                      /\ read > 0 /\ ~Unsupported(read)
                      /\ current > 0 /\ remoteWrite[current] = Content(read).rw
    BY <1>d DEF AfterSuccess, Unsupported, RulesOf, Content
  <2>1. ~anyFailed
    BY DEF ok
  <2> QED
    BY <1>c, <2>1 DEF AppliedSoFar, StorageConfig, Reloading
<1>7. AnsweredReloadHolds'
  <2> SUFFICES ASSUME NEW c \in Clients, clients'[c] = "ok", NEW k \in Components
               PROVE  applied'[k] >= asked[c]
    BY DEF AnsweredReloadHolds, EndReload
  <2>1. applied'[k] >= applied[k]
    BY <1>b DEF AppliedWasRead, MainTypeOK
  <2>2. CASE c # trigger
    <3>1. clients[c] = "ok"
      BY <2>2 DEF EndReload
    <3>2. applied[k] >= asked[c]
      BY <3>1 DEF AnsweredReloadHolds
    <3>3. applied'[k] \in Nat /\ applied[k] \in Nat /\ asked[c] \in Nat
      BY <1>b DEF MainTypeOK
    <3> QED
      BY <2>1, <3>2, <3>3
  <2>3. CASE c = trigger
    <3>1. ok
      BY <1>a, <2>3 DEF EndReload, MainTypeOK
    <3> QED
      BY <1>c, <2>3, <3>1 DEF RequestInService
  <2> QED
    BY <2>2, <2>3
<1>8. EvaluationState'
  BY DEF EvaluationState, Published
<1> QED
  BY <1>1, <1>2, <1>3, <1>4, <1>5, <1>6, <1>7, <1>8

(* The rule group stops once its evaluation is over. *)
LEMMA StopRulesStep ==
  ASSUME MainInvariant, StopRules, StorageInvariant'
  PROVE  MainInvariant'
<1> USE DEF MainInvariant, StopRules, vars, loop, groups, remote, request,
        signals, http, evaluation
<1>1. MainTypeOK'
  BY DEF MainTypeOK
<1>2. AppliedWasRead'
  BY DEF AppliedWasRead
<1>3. RequestInService'
  BY DEF RequestInService, Reloading
<1>4. StorageConfig'
  BY DEF StorageConfig, Reloading
<1>5. AppliedSoFar'
  BY DEF AppliedSoFar
<1>6. AfterSuccess'
  BY DEF AfterSuccess
<1>7. AnsweredReloadHolds'
  BY DEF AnsweredReloadHolds
<1>8. EvaluationState'
  BY DEF EvaluationState
<1> QED
  BY <1>1, <1>2, <1>3, <1>4, <1>5, <1>6, <1>7, <1>8

(* main ends with every reload over. *)
LEMMA ServerDownStep ==
  ASSUME MainInvariant, ServerDown, StorageInvariant'
  PROVE  MainInvariant'
<1> USE DEF MainInvariant, ServerDown, vars, loop, groups, remote, request,
        signals, http, evaluation
<1>1. MainTypeOK'
  BY DEF MainTypeOK
<1>2. AppliedWasRead'
  BY DEF AppliedWasRead
<1>3. RequestInService'
  BY DEF RequestInService, Reloading
<1>4. StorageConfig'
  BY DEF StorageConfig, Reloading
<1>5. AppliedSoFar'
  BY DEF AppliedSoFar
<1>6. AfterSuccess'
  BY DEF AfterSuccess
<1>7. AnsweredReloadHolds'
  BY DEF AnsweredReloadHolds
<1>8. EvaluationState'
  BY DEF EvaluationState, Published
<1> QED
  BY <1>1, <1>2, <1>3, <1>4, <1>5, <1>6, <1>7, <1>8

(* The process exits between two reloads. *)
LEMMA ExitProcessStep ==
  ASSUME MainInvariant, ExitProcess, StorageInvariant'
  PROVE  MainInvariant'
<1> USE DEF MainInvariant, ExitProcess, vars, loop, groups, remote, request,
        signals, http, evaluation
<1>1. MainTypeOK'
  BY DEF MainTypeOK
<1>2. AppliedWasRead'
  BY DEF AppliedWasRead
<1>3. RequestInService'
  BY DEF RequestInService, Reloading
<1>4. StorageConfig'
  BY DEF StorageConfig, Reloading
<1>5. AppliedSoFar'
  BY DEF AppliedSoFar
<1>6. AfterSuccess'
  BY DEF AfterSuccess
<1>7. AnsweredReloadHolds'
  BY DEF AnsweredReloadHolds
<1>8. EvaluationState'
  BY DEF EvaluationState, Published, Exit
<1> QED
  BY <1>1, <1>2, <1>3, <1>4, <1>5, <1>6, <1>7, <1>8

(* A new version of the file is newer than what is read, asked for or      *)
(* applied.                                                                *)
LEMMA EditFileStep ==
  ASSUME MainInvariant, NEW c \in Configs, EditFile(c), StorageInvariant'
  PROVE  MainInvariant'
<1> USE DEF MainInvariant, EditFile, vars, loop, groups, remote, request,
        signals, http, evaluation
<1>1. MainTypeOK'
  BY DEF MainTypeOK
<1>2. AppliedWasRead'
  BY DEF AppliedWasRead
<1>3. RequestInService'
  BY DEF RequestInService, Reloading
<1>4. StorageConfig'
  BY DEF StorageConfig, Reloading, Content, MainTypeOK
<1>5. AppliedSoFar'
  BY DEF AppliedSoFar, Unsupported, RulesOf, Content, MainTypeOK
<1>6. AfterSuccess'
  BY DEF AfterSuccess, Unsupported, RulesOf, Content, MainTypeOK
<1>7. AnsweredReloadHolds'
  BY DEF AnsweredReloadHolds
<1>8. EvaluationState'
  BY DEF EvaluationState, Published
<1> QED
  BY <1>1, <1>2, <1>3, <1>4, <1>5, <1>6, <1>7, <1>8

(* A signal waits for the reload loop. *)
LEMMA SignalStep ==
  ASSUME MainInvariant, NEW s \in {"hup", "term"}, Signal(s), StorageInvariant'
  PROVE  MainInvariant'
<1> USE DEF MainInvariant, Signal, vars, loop, groups, remote, request,
        signals, http, evaluation
<1>1. MainTypeOK'
  <2>1. sent' \in 0..MaxRequests
    BY ReloadsSuffice DEF MainTypeOK
  <2> QED
    BY <2>1 DEF MainTypeOK
<1>2. AppliedWasRead'
  BY DEF AppliedWasRead
<1>3. RequestInService'
  BY DEF RequestInService, Reloading
<1>4. StorageConfig'
  BY DEF StorageConfig, Reloading, Content
<1>5. AppliedSoFar'
  BY DEF AppliedSoFar, Unsupported, RulesOf, Content
<1>6. AfterSuccess'
  BY DEF AfterSuccess, Unsupported, RulesOf, Content
<1>7. AnsweredReloadHolds'
  BY DEF AnsweredReloadHolds
<1>8. EvaluationState'
  BY DEF EvaluationState, Published
<1> QED
  BY <1>1, <1>2, <1>3, <1>4, <1>5, <1>6, <1>7, <1>8

(* A client asks for the newest version of the file. *)
LEMMA AskReloadStep ==
  ASSUME MainInvariant, NEW c \in Clients, AskReload(c), StorageInvariant'
  PROVE  MainInvariant'
<1> USE DEF MainInvariant, AskReload, vars, loop, groups, remote, request,
        signals, http, evaluation
<1>1. MainTypeOK'
  <2>1. sent' \in 0..MaxRequests
    BY ReloadsSuffice DEF MainTypeOK
  <2> QED
    BY <2>1 DEF MainTypeOK
<1>2. AppliedWasRead'
  BY DEF AppliedWasRead
<1>3. RequestInService'
  BY DEF RequestInService, Reloading
<1>4. StorageConfig'
  BY DEF StorageConfig, Reloading, Content
<1>5. AppliedSoFar'
  BY DEF AppliedSoFar, Unsupported, RulesOf, Content
<1>6. AfterSuccess'
  BY DEF AfterSuccess, Unsupported, RulesOf, Content
<1>7. AnsweredReloadHolds'
  BY DEF AnsweredReloadHolds
<1>8. EvaluationState'
  BY DEF EvaluationState, Published
<1> QED
  BY <1>1, <1>2, <1>3, <1>4, <1>5, <1>6, <1>7, <1>8

(* An evaluation takes its appender from the published state. *)
LEMMA TakeAppenderStep ==
  ASSUME MainInvariant, TakeAppender, StorageInvariant'
  PROVE  MainInvariant'
<1> USE DEF MainInvariant, TakeAppender, vars, loop, groups, remote, request,
        signals, http, evaluation
<1>1. MainTypeOK'
  BY DEF MainTypeOK, StorageInvariant, TypeOK
<1>2. AppliedWasRead'
  BY DEF AppliedWasRead
<1>3. RequestInService'
  BY DEF RequestInService, Reloading
<1>4. StorageConfig'
  BY DEF StorageConfig, Reloading, Content
<1>5. AppliedSoFar'
  BY DEF AppliedSoFar, Unsupported, RulesOf, Content
<1>6. AfterSuccess'
  BY DEF AfterSuccess, Unsupported, RulesOf, Content
<1>7. AnsweredReloadHolds'
  BY DEF AnsweredReloadHolds
<1>8. EvaluationState'
  BY DEF EvaluationState, Published, StorageInvariant, TypeOK, Reloads
<1> QED
  BY <1>1, <1>2, <1>3, <1>4, <1>5, <1>6, <1>7, <1>8

(* An evaluation before any state is published panics and writes nothing. *)
LEMMA AppenderNilStep ==
  ASSUME MainInvariant, AppenderNil, StorageInvariant'
  PROVE  MainInvariant'
<1> USE DEF MainInvariant, AppenderNil, vars, loop, groups, remote, request,
        signals, http, evaluation
<1>1. MainTypeOK'
  BY DEF MainTypeOK
<1>2. AppliedWasRead'
  BY DEF AppliedWasRead
<1>3. RequestInService'
  BY DEF RequestInService, Reloading
<1>4. StorageConfig'
  BY DEF StorageConfig, Reloading, Content, NilAppender
<1>5. AppliedSoFar'
  BY DEF AppliedSoFar, NilAppender
<1>6. AfterSuccess'
  BY DEF AfterSuccess, NilAppender
<1>7. AnsweredReloadHolds'
  BY DEF AnsweredReloadHolds
<1>8. EvaluationState'
  BY DEF EvaluationState
<1> QED
  BY <1>1, <1>2, <1>3, <1>4, <1>5, <1>6, <1>7, <1>8

(* The end of an evaluation gives up its state. *)
LEMMA CommitSamplesStep ==
  ASSUME MainInvariant, CommitSamples, StorageInvariant'
  PROVE  MainInvariant'
<1> USE DEF MainInvariant, CommitSamples, vars, loop, groups, remote, request,
        signals, http, evaluation
<1>1. MainTypeOK'
  BY MaxReloadsAssumption DEF MainTypeOK
<1>2. AppliedWasRead'
  BY DEF AppliedWasRead
<1>3. RequestInService'
  BY DEF RequestInService, Reloading
<1>4. StorageConfig'
  BY DEF StorageConfig, Reloading, Content
<1>5. AppliedSoFar'
  BY DEF AppliedSoFar, Unsupported, RulesOf, Content
<1>6. AfterSuccess'
  BY DEF AfterSuccess, Unsupported, RulesOf, Content
<1>7. AnsweredReloadHolds'
  BY DEF AnsweredReloadHolds
<1>8. EvaluationState'
  BY DEF EvaluationState
<1> QED
  BY <1>1, <1>2, <1>3, <1>4, <1>5, <1>6, <1>7, <1>8

(* A server group that loads its targets is a step of the storage alone. *)
LEMMA LoadGroupStep ==
  ASSUME MainInvariant, NEW r \in Reloads, NEW i \in Groups, LoadGroup(r, i), StorageInvariant'
  PROVE  MainInvariant'
<1> USE DEF MainInvariant, LoadGroup, vars, loop, groups, remote, request,
        signals, http, evaluation
<1>1. MainTypeOK'
  BY DEF MainTypeOK
<1>2. AppliedWasRead'
  BY DEF AppliedWasRead
<1>3. RequestInService'
  BY DEF RequestInService, Reloading
<1>4. StorageConfig'
  BY DEF StorageConfig, Reloading, Content, GroupReady
<1>5. AppliedSoFar'
  BY DEF AppliedSoFar, Unsupported, RulesOf, Content, GroupReady
<1>6. AfterSuccess'
  BY DEF AfterSuccess, Unsupported, RulesOf, Content, GroupReady
<1>7. AnsweredReloadHolds'
  BY DEF AnsweredReloadHolds
<1>8. EvaluationState'
  BY DEF EvaluationState, Published, GroupReady
<1> QED
  BY <1>1, <1>2, <1>3, <1>4, <1>5, <1>6, <1>7, <1>8

---------------------------------------------------------------------------
(* The theorems.                                                           *)

(* What main and its environment do to the storage are the storage's own   *)
(* steps.                                                                  *)
LEMMA MainTakesStorageSteps ==
  ASSUME MainTypeOK, [MainNext]_mainVars
  PROVE  [Next]_vars
<1> SUFFICES ASSUME vars' # vars PROVE Next
  OBVIOUS
<1>1. LoadConfig \/ InStorage \/ ExitProcess \/ AppenderNil
        \/ \E r \in Reloads, i \in Groups : LoadGroup(r, i)
  BY DEF MainNext, MainStep, mainVars, TakeHup, TakeTerm, TakeRequest,
     LoadFails, LeaveStorage, ApplyBeforeRules, LoadRules, UpdateRules,
     RulesRefused, FinishReload, StopRules, ServerDown, EditFile, Signal,
     AskReload, TakeAppender, CommitSamples, Stopped
<1>2. CASE LoadConfig
  <2>1. Content(Len(file)) \in Configs
    BY DEF MainTypeOK, Content
  <2>2. Content(Len(file)).groups \in 0..MaxGroups /\ Content(Len(file)).rw \in BOOLEAN
    BY <2>1, ConfigsAssumption
  <2>3. BeginReload(Content(Len(file)).groups, Content(Len(file)).rw)
    BY <1>2 DEF LoadConfig
  <2> QED
    BY <2>2, <2>3 DEF Next
<1>3. CASE InStorage
  BY <1>3 DEF InStorage, Next
<1>4. CASE ExitProcess
  BY <1>4 DEF ExitProcess, Next
<1>5. CASE AppenderNil
  BY <1>5 DEF AppenderNil, Next
<1>6. CASE \E r \in Reloads, i \in Groups : LoadGroup(r, i)
  BY <1>6 DEF LoadGroup, Next
<1> QED
  BY <1>1, <1>2, <1>3, <1>4, <1>5, <1>6

(* At startup no component runs with a config and nobody has asked. *)
LEMMA MainInitially == MainInit => MainInvariant
<1> SUFFICES ASSUME MainInit PROVE MainInvariant
  OBVIOUS
<1> USE DEF MainInit
<1>1. StorageInvariant
  BY StorageInitially
<1>2. MainTypeOK
  <2>1. file \in Seq(Configs) /\ Len(file) = 1
    <3>1. PICK c \in Configs : file = <<c>>
      OBVIOUS
    <3> QED
      BY <3>1
  <2>3. sent \in 0..MaxRequests /\ evalState \in 0..MaxReloads
    BY ReloadsSuffice, MaxReloadsAssumption
  <2>4. anyFailed \in BOOLEAN /\ configSuccess \in BOOLEAN
    OBVIOUS
  <2> QED
    BY <2>1, <2>3, <2>4 DEF MainTypeOK
<1>3. AppliedWasRead /\ StorageConfig /\ AppliedSoFar /\ AfterSuccess
  BY DEF AppliedWasRead, StorageConfig, AppliedSoFar, AfterSuccess, Reloading
<1>4. RequestInService
  BY ClientsAssumption DEF RequestInService
<1>5. AnsweredReloadHolds /\ EvaluationState
  BY DEF AnsweredReloadHolds, EvaluationState
<1> QED
  BY <1>1, <1>2, <1>3, <1>4, <1>5 DEF MainInvariant

(* Every step of main, of the rule group and of the environment keeps the  *)
(* invariant.                                                              *)
LEMMA MainNextKeeps == MainInvariant /\ [MainNext]_mainVars => MainInvariant'
<1> SUFFICES ASSUME MainInvariant, [MainNext]_mainVars PROVE MainInvariant'
  OBVIOUS
<1>1. StorageInvariant'
  BY MainTakesStorageSteps, StorageNext DEF MainInvariant
<1>2. CASE MainStep
  BY <1>1, <1>2, TakeHupStep, TakeTermStep, TakeRequestStep, LoadFailsStep,
     LoadConfigStep, InStorageStep, LeaveStorageStep, ApplyBeforeRulesStep,
     LoadRulesStep, UpdateRulesStep, RulesRefusedStep, FinishReloadStep,
     StopRulesStep, ServerDownStep, ExitProcessStep DEF MainStep
<1>3. CASE UNCHANGED mainVars
  BY <1>1, <1>3 DEF mainVars, vars, loop, request, signals, http, evaluation,
     MainInvariant, MainTypeOK, AppliedWasRead, RequestInService, Reloading,
     StorageConfig, AppliedSoFar, AfterSuccess, AnsweredReloadHolds,
     EvaluationState, Published, Unsupported, RulesOf, Content
<1> QED
  BY <1>1, <1>2, <1>3, EditFileStep, SignalStep, AskReloadStep,
     TakeAppenderStep, AppenderNilStep, CommitSamplesStep, LoadGroupStep DEF
     MainNext, Stopped

(* The inductive invariant of main. *)
THEOREM MainInvariance == MainSpec => []MainInvariant
BY MainInitially, MainNextKeeps, PTL DEF MainSpec

(* The storage serves whatever main asks of it. *)
THEOREM StorageUnderMain ==
  MainSpec => []PublishedStateServes /\ []NoStrayStorage /\ []ReplacedGroupsCancelled
<1>1. MainInvariant => PublishedStateServes /\ NoStrayStorage /\ ReplacedGroupsCancelled
  BY BetweenReloads DEF MainInvariant, StorageInvariant
<1> QED
  BY <1>1, MainInvariance, PTL

(* Whatever components refused in earlier reloads, after a reload that     *)
(* reported success every component runs with the file it read.            *)
THEOREM SuccessTellsTheTruth == MainSpec => []SuccessMeansAllApplied
<1>1. MainInvariant => SuccessMeansAllApplied
  BY DEF MainInvariant, AfterSuccess, SuccessMeansAllApplied
<1> QED
  BY <1>1, MainInvariance, PTL

(* A client answered without an error can rely on the file it asked for,   *)
(* whatever the later reloads refuse.                                      *)
THEOREM AnswersHold == MainSpec => []AnsweredReloadHolds
<1>1. MainInvariant => AnsweredReloadHolds
  BY DEF MainInvariant
<1> QED
  BY <1>1, MainInvariance, PTL

(* After a successful reload recording rules write to an open WAL. *)
THEOREM RecordingRulesHaveStorage == MainSpec => []RecordingRulesWrite
<1>1. MainInvariant => RecordingRulesWrite
  <2> SUFFICES ASSUME MainInvariant, main = "select", configSuccess,
                      RulesOf(applied["rules"]) = "recording"
               PROVE  /\ remoteStorage[current] # 0
                      /\ storage[remoteStorage[current]] = "open"
    BY DEF RecordingRulesWrite
  <2>1. applied["rules"] = read /\ ~Unsupported(read) /\ current > 0
          /\ remoteWrite[current] = Content(read).rw
    BY DEF MainInvariant, AfterSuccess, Components
  <2>2. remoteWrite[current]
    BY <2>1 DEF Unsupported
  <2> QED
    BY <2>1, <2>2 DEF MainInvariant, StorageInvariant, PublishedStateServes
<1> QED
  BY <1>1, MainInvariance, PTL

(* An appender held across reloads, however many, is closed under the      *)
(* evaluation only by a config without remote_write.                       *)
THEOREM AppenderKept == MainSpec => []AppenderOutlivesReload
<1>1. MainInvariant => AppenderOutlivesReload
  BY DEF MainInvariant, StorageInvariant, EvaluationState, StorageOutlives,
     Published, AppenderOutlivesReload
<1> QED
  BY <1>1, MainInvariance, PTL
=============================================================================
