-------------------------------- MODULE Main --------------------------------
(***************************************************************************)
(* promxy's main program (cmd/promxy/main.go): the startup reload, the     *)
(* select loop over signals and HTTP reload requests, reloadConfig over    *)
(* every component, and the graceful shutdown.  The storage is the first   *)
(* component: its ApplyConfig is module ProxyStorage, whose actions are    *)
(* taken here while main is in that call.  Beside main run a rule group,   *)
(* which asks the storage for an appender and commits to it later, the     *)
(* operating system's signals, HTTP clients of /-/reload, and an operator  *)
(* who edits the config file.                                              *)
(***************************************************************************)
EXTENDS ProxyStorage, Sequences

CONSTANTS
  Configs,          \* contents the config file may have
  MaxEdits,         \* bound: versions of the config file
  MaxRequests,      \* bound: signals and HTTP reload requests
  Clients,          \* HTTP clients, each asks for a reload once
  ComponentFaults,  \* the other components that may refuse a config
  ShutdownTimeout   \* --http.shutdown-timeout is positive

(* The reloadables, in the order main appends them: the storage, those     *)
(* before the rules, the rules, those after.  "interval" is the subquery   *)
(* interval, which reloadConfig itself sets after a success.               *)
BeforeRules == {"notifier", "notify_discovery", "alert_templates"}
AfterRules == {"query_log", "web", "federate"}
Components == {"storage", "rules", "interval"} \cup BeforeRules \cup AfterRules

ASSUME ConfigsAssumption ==
  Configs \subseteq [valid : BOOLEAN, groups : 0..MaxGroups, rw : BOOLEAN,
                     rules : {"none", "alerting", "recording"}]
ASSUME ComponentFaultsAssumption ==
  ComponentFaults \subseteq {"notifier", "alert_templates", "rules", "query_log"}
ASSUME ClientsAssumption == Clients \cap {"boot", "hup", "none"} = {}
ASSUME ReloadsSuffice ==
  MaxEdits \in Nat /\ MaxRequests \in Nat /\ ShutdownTimeout \in BOOLEAN
  /\ MaxReloads > MaxRequests

VARIABLES
  file,          \* versions of the config file, the last one is in place
  main,          \* where main is
  trigger,       \* who asked for the reload: boot, hup or a client
  anyFailed,     \* reloadConfig's failed flag
  read,          \* version of the file the latest reload read
  applied,       \* per component, version of the config it runs with
  configSuccess, \* the gauge, and the absence of the "reload failed" banner
  sigs,          \* the signal channel
  sent,          \* signals and requests sent so far
  hupAt,         \* version in place when the latest SIGHUP was sent
  clients,       \* per client, where its request is
  asked,         \* per client, version in place when it asked
  rules,         \* the rule group: off, idle, or evaluating
  evalState      \* the state whose appender the evaluation holds

request == <<trigger, anyFailed, read>>
signals == <<sigs, sent, hupAt>>
http == <<clients, asked>>
evaluation == <<rules, evalState>>
mainVars == <<vars, file, main, request, applied, configSuccess, signals, http,
              evaluation>>

Content(v) == file[v]
Alive == pc \notin {"panicked", "exited"}
ShuttingDown == main \in {"stop_rules", "drain"}

(* The HTTP server accepts requests: from the first good reload until      *)
(* Shutdown closes its listener.                                           *)
Serving == trigger # "boot" /\ main \notin {"drain", "exited"}

MainInit ==
  /\ Init
  /\ file \in {<<c>> : c \in Configs}
  /\ main = "load"
  /\ trigger = "boot" /\ anyFailed = FALSE /\ read = 0
  /\ applied = [c \in Components |-> 0]
  /\ configSuccess = FALSE
  /\ sigs = <<>> /\ sent = 0 /\ hupAt = 0
  /\ clients = [c \in Clients |-> "idle"]
  /\ asked = [c \in Clients |-> 0]
  /\ rules = "off" /\ evalState = 0

---------------------------------------------------------------------------
(* The environment.                                                        *)

EditFile(c) ==
  /\ Alive
  /\ Len(file) < MaxEdits
  /\ file' = Append(file, c)
  /\ UNCHANGED <<vars, main, request, applied, configSuccess, signals, http,
                 evaluation>>

(* The runtime drops a signal when the channel, of capacity 1, is full. *)
Signal(s) ==
  /\ Alive
  /\ sent < MaxRequests
  /\ sent' = sent + 1
  /\ sigs' = IF sigs = <<>> THEN <<s>> ELSE sigs
  /\ hupAt' = IF s = "hup" THEN Len(file) ELSE hupAt
  /\ UNCHANGED <<vars, file, main, request, applied, configSuccess, http,
                 evaluation>>

(* POST /-/reload: the handler blocks until main receives its channel. *)
AskReload(c) ==
  /\ Alive /\ Serving
  /\ clients[c] = "idle"
  /\ sent < MaxRequests
  /\ sent' = sent + 1
  /\ clients' = [clients EXCEPT ![c] = "waiting"]
  /\ asked' = [asked EXCEPT ![c] = Len(file)]
  /\ UNCHANGED <<vars, file, main, request, applied, configSuccess, sigs, hupAt,
                 evaluation>>

---------------------------------------------------------------------------
(* The select loop.                                                        *)

TakeRequest(c) ==
  /\ main = "select" /\ Alive
  /\ clients[c] = "waiting"
  /\ clients' = [clients EXCEPT ![c] = "served"]
  /\ main' = "load" /\ trigger' = c
  /\ UNCHANGED <<vars, file, anyFailed, read, applied,
                 configSuccess, signals, asked, evaluation>>

TakeHup ==
  /\ main = "select" /\ Alive
  /\ sigs = <<"hup">>
  /\ sigs' = <<>>
  /\ main' = "load" /\ trigger' = "hup"
  /\ UNCHANGED <<vars, file, anyFailed, read, applied,
                 configSuccess, sent, hupAt, http, evaluation>>

(* SIGTERM or SIGINT: healthchecks fail from here on, the notifier stops.  *)
TakeTerm ==
  /\ main = "select" /\ Alive
  /\ sigs = <<"term">>
  /\ sigs' = <<>>
  /\ main' = "stop_rules"
  /\ UNCHANGED <<vars, file, request, applied, configSuccess, sent, hupAt,
                 http, evaluation>>

---------------------------------------------------------------------------
(* reloadConfig.                                                           *)

(* Mutants: a client is answered with success once the file was read, or   *)
(* is not answered when the reload failed.                                 *)
MutAnswerNil(ok) ==
  /\ configSuccess' = ok
  /\ main' = IF trigger = "boot" /\ ~ok THEN "exited" ELSE "select"
  /\ clients' = IF trigger \in Clients
                THEN [clients EXCEPT ![trigger] = "ok"]
                ELSE clients
  /\ trigger' = "none"
  /\ UNCHANGED asked

MutAnswerOnSuccess(ok) ==
  /\ configSuccess' = ok
  /\ main' = IF trigger = "boot" /\ ~ok THEN "exited" ELSE "select"
  /\ clients' = IF trigger \in Clients /\ ok
                THEN [clients EXCEPT ![trigger] = "ok"]
                ELSE clients
  /\ trigger' = "none"
  /\ UNCHANGED asked

(* Its deferred function and what the caller does with the error. *)
EndReload(ok) ==
  /\ configSuccess' = ok
  /\ main' = IF trigger = "boot" /\ ~ok THEN "exited" ELSE "select"
  /\ clients' = IF trigger \in Clients
                THEN [clients EXCEPT ![trigger] = IF ok THEN "ok" ELSE "err"]
                ELSE clients
  /\ trigger' = "none"
  /\ UNCHANGED asked

(* ConfigFromFile fails. *)
LoadFails ==
  /\ main = "load" /\ Alive
  /\ ~Content(Len(file)).valid
  /\ read' = Len(file)
  /\ EndReload(FALSE)
  /\ UNCHANGED <<vars, file, anyFailed, applied, signals, evaluation>>

(* The config is read, and ps.ApplyConfig called with it. *)
LoadConfig ==
  /\ main = "load"
  /\ LET v == Len(file) IN
       /\ Content(v).valid
       /\ read' = v
       /\ BeginReload(Content(v).groups, Content(v).rw)
  /\ anyFailed' = FALSE
  /\ main' = "storage"
  /\ UNCHANGED <<file, trigger, applied, configSuccess, signals, http,
                 evaluation>>

InStorage ==
  /\ main = "storage"
  /\ Reload
  /\ UNCHANGED <<file, main, request, applied, configSuccess, signals, http,
                 evaluation>>

(* The components of S that do not refuse the config run with it. *)
Apply(S, refused) ==
  applied' = [c \in Components |-> IF c \in S \ refused THEN read ELSE applied[c]]

(* Mutant: the outcome of the last component decides. *)
MutLastOutcome(ok, stage) ==
  /\ main' = stage
  /\ anyFailed' = ~ok
  /\ UNCHANGED <<trigger, read>>

(* The loop goes on whatever a component returned. *)
Advance(ok, stage) ==
  /\ main' = stage
  /\ anyFailed' = (anyFailed \/ ~ok)
  /\ UNCHANGED <<trigger, read>>

LeaveStorage ==
  /\ main = "storage"
  /\ pc = "idle"
  /\ Apply({"storage"}, IF outcome[reload] = "ok" THEN {} ELSE {"storage"})
  /\ Advance(outcome[reload] = "ok", "before_rules")
  /\ UNCHANGED <<vars, file, configSuccess, signals, http, evaluation>>

(* The components before the rules each take the config as a whole or keep *)
(* the old one; nothing else looks at them between two of these calls.     *)
ApplyBeforeRules ==
  /\ main = "before_rules" /\ Alive
  /\ \E refused \in SUBSET (BeforeRules \cap ComponentFaults) :
       Apply(BeforeRules, refused) /\ Advance(refused = {}, "rules")
  /\ UNCHANGED <<vars, file, configSuccess, signals, http, evaluation>>

RulesOf(v) == IF v = 0 THEN "none" ELSE Content(v).rules

(* Mutant: the check is made at startup only. *)
MutCheckedAtStartup(v) ==
  trigger = "boot" /\ RulesOf(v) = "recording" /\ ~Content(v).rw

(* The recording rules of this config have nowhere to write. *)
Unsupported(v) == RulesOf(v) = "recording" /\ ~Content(v).rw

(* ruleManager.Update has loaded the rules and stops the group that        *)
(* changed.                                                                *)
LoadRules ==
  /\ main = "rules" /\ Alive
  /\ main' = "update_rules"
  /\ UNCHANGED <<vars, file, request, applied, configSuccess, signals, http,
                 evaluation>>

RulesChanged == RulesOf(read) # RulesOf(applied["rules"])

(* Mutant: the rule manager's Stop waits without telling the group. *)
MutStopNotTold == main = "update_rules" /\ RulesChanged

(* The group asked to stop ends with its current evaluation and starts no  *)
(* other.                                                                  *)
StopRequested ==
  \/ main = "stop_rules"
  \/ main = "update_rules" /\ RulesChanged

(* The old group has ended, the new one runs; then the check for recording *)
(* rules, which are not taken back.                                        *)
UpdateRules ==
  /\ main = "update_rules" /\ Alive
  /\ RulesChanged => rules # "evaluating"
  /\ Apply({"rules"}, {})
  /\ rules' = IF RulesOf(read) = "none" THEN "off"
              ELSE IF rules = "off" THEN "idle" ELSE rules
  /\ Advance(~Unsupported(read), "after_rules")
  /\ UNCHANGED <<vars, file, configSuccess, signals, http, evalState>>

(* The rules do not load: the previous rule set is kept. *)
RulesRefused ==
  /\ main = "rules" /\ Alive
  /\ "rules" \in ComponentFaults
  /\ Advance(FALSE, "after_rules")
  /\ UNCHANGED <<vars, file, applied, configSuccess, signals, http,
                 evaluation>>

(* Mutant: signals that arrived during the reload are thrown away. *)
MutDrainSignals ==
  /\ main = "after_rules" /\ Alive
  /\ \E refused \in SUBSET (AfterRules \cap ComponentFaults) :
       LET ok == ~anyFailed /\ refused = {} IN
       /\ Apply(AfterRules \cup {"interval"},
                refused \cup IF ok THEN {} ELSE {"interval"})
       /\ EndReload(ok)
  /\ anyFailed' = FALSE
  /\ sigs' = <<>>
  /\ UNCHANGED <<vars, file, read, sent, hupAt, evaluation>>

(* The components after the rules, the end of the loop and the caller.     *)
(* After a failed startup reload main ends the process, after a good one   *)
(* it starts the HTTP server.                                              *)
FinishReload ==
  /\ main = "after_rules" /\ Alive
  /\ \E refused \in SUBSET (AfterRules \cap ComponentFaults) :
       LET ok == ~anyFailed /\ refused = {} IN
       /\ Apply(AfterRules \cup {"interval"},
                refused \cup IF ok THEN {} ELSE {"interval"})
       /\ EndReload(ok)
  /\ anyFailed' = FALSE
  /\ UNCHANGED <<vars, file, read, signals, evaluation>>

---------------------------------------------------------------------------
(* Shutdown.                                                               *)

(* ruleManager.Stop waits for the evaluation that runs. *)
StopRules ==
  /\ main = "stop_rules"
  /\ rules # "evaluating"
  /\ rules' = "off"
  /\ main' = "drain"
  /\ UNCHANGED <<vars, file, request, applied, configSuccess, signals, http,
                 evalState>>

(* Fatalf after a failed startup reload, or the end of main. *)
ExitProcess ==
  /\ main = "exited"
  /\ Exit
  /\ UNCHANGED <<file, main, request, applied, configSuccess, signals, http,
                 evaluation>>

(* srv.Shutdown waits for the requests being served; /-/reload requests    *)
(* that nobody takes any more end with the timeout only.                   *)
Drained == ShutdownTimeout \/ \A c \in Clients : clients[c] # "waiting"

ServerDown ==
  /\ main = "drain"
  /\ Drained
  /\ main' = "exited"
  /\ UNCHANGED <<vars, file, request, applied, configSuccess, signals, http,
                 evaluation>>

---------------------------------------------------------------------------
(* The rule group: it asks the published state for an appender and commits *)
(* the samples later.  Before the first state is published the appendable  *)
(* is nil.                                                                 *)

TakeAppender ==
  /\ Alive
  /\ rules = "idle" /\ ~StopRequested
  /\ current # 0
  /\ rules' = "evaluating" /\ evalState' = current
  /\ UNCHANGED <<vars, file, main, request, applied, configSuccess, signals,
                 http>>

AppenderNil ==
  /\ rules = "idle" /\ ~StopRequested
  /\ NilAppender
  /\ UNCHANGED <<file, main, request, applied, configSuccess, signals, http,
                 evaluation>>

CommitSamples ==
  /\ Alive
  /\ rules = "evaluating"
  /\ rules' = "idle" /\ evalState' = 0
  /\ UNCHANGED <<vars, file, main, request, applied, configSuccess, signals,
                 http>>

LoadGroup(r, i) ==
  /\ Alive
  /\ GroupReady(r, i)
  /\ UNCHANGED <<file, main, request, applied, configSuccess, signals, http,
                 evaluation>>

Stopped == ~Alive /\ UNCHANGED mainVars

---------------------------------------------------------------------------
MainStep ==
  \/ TakeHup \/ TakeTerm
  \/ \E c \in Clients : TakeRequest(c)
  \/ LoadFails \/ LoadConfig \/ InStorage \/ LeaveStorage \/ ApplyBeforeRules
  \/ LoadRules \/ UpdateRules \/ RulesRefused \/ FinishReload
  \/ StopRules \/ ServerDown \/ ExitProcess

MainNext ==
  \/ MainStep
  \/ \E c \in Configs : EditFile(c)
  \/ \E s \in {"hup", "term"} : Signal(s)
  \/ \E c \in Clients : AskReload(c)
  \/ TakeAppender \/ AppenderNil \/ CommitSamples
  \/ \E r \in Reloads, i \in Groups : LoadGroup(r, i)
  \/ Stopped

(* main is one goroutine and keeps running; an evaluation ends (queries    *)
(* have a timeout); a server group loads its first targets.                *)
MainFairness ==
  /\ WF_mainVars(MainStep)
  /\ WF_mainVars(CommitSamples)
  /\ \A r \in Reloads, i \in Groups : WF_mainVars(LoadGroup(r, i))

MainSpec == MainInit /\ [][MainNext]_mainVars /\ MainFairness

---------------------------------------------------------------------------
(* Properties.                                                             *)

Ended == ~Alive \/ main = "exited" \/ ShuttingDown

(* prometheus_config_last_reload_successful and the banner tell the truth: *)
(* while main waits for work after a reload that reported success, every   *)
(* component runs with the version of the file that reload read, although  *)
(* components that accepted an earlier, partly refused config kept it.     *)
SuccessMeansAllApplied ==
  main = "select" /\ configSuccess => \A c \in Components : applied[c] = read

(* A client whose POST /-/reload was answered without an error can rely on *)
(* it: from then on every component runs with the file that was in place   *)
(* when it asked, or with a newer one, whatever later reloads refuse.      *)
AnsweredReloadHolds ==
  \A c \in Clients : clients[c] = "ok" =>
    \A k \in Components : applied[k] >= asked[c]

(* Recording rules never evaluate into the stub appender without promxy    *)
(* saying so: after a reload that reported success, the published storage  *)
(* of a config with recording rules is an open WAL.                        *)
RecordingRulesWrite ==
  main = "select" /\ configSuccess /\ RulesOf(applied["rules"]) = "recording" =>
    /\ remoteStorage[current] # 0
    /\ storage[remoteStorage[current]] = "open"

(* An evaluation that holds an appender across a reload finds its storage  *)
(* closed only if a config without remote_write was published meanwhile.   *)
AppenderOutlivesReload ==
  rules = "evaluating" /\ remoteStorage[evalState] # 0
    /\ storage[remoteStorage[evalState]] # "open" =>
  \E r \in (evalState + 1)..current :
    ~remoteWrite[r] /\ (outcome[r] = "ok" \/ r = current)

(* Signals that are dropped cost nothing but time: after a SIGHUP, queued  *)
(* or dropped, a reload reads the file that was in place or a newer one,   *)
(* unless promxy ends.                                                     *)
HupTakesEffect ==
  (hupAt > read) ~> (hupAt <= read \/ Ended)

(* Every reload request is answered unless promxy shuts down meanwhile.    *)
RequestsAnswered ==
  \A c \in Clients : (clients[c] = "waiting") ~> (clients[c] \in {"ok", "err"} \/ Ended)

(* A SIGTERM in the channel ends the process: the reload that is running,  *)
(* the evaluation that is running and the requests that are waiting do not *)
(* hold it up for ever.                                                    *)
TermEnds == (sigs = <<"term">>) ~> ~Alive
=============================================================================
