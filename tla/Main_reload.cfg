\* Reloads by SIGHUP and HTTP while the file is edited, steps fail and a rule
\* group evaluates; shutdown.
SPECIFICATION MainSpec
CONSTANTS
  MaxReloads = 3
  MaxGroups = 2
  Faults = {"create", "configure", "remote_apply", "mkdir"}
  Configs <- FileContents
  MaxEdits = 2
  MaxRequests = 2
  Clients = {c1}
  ComponentFaults = {"rules"}
  ShutdownTimeout = TRUE
INVARIANTS
  PublishedStateServes
  NoStrayStorage
  ReplacedGroupsCancelled
  SuccessMeansAllApplied
  AnsweredReloadHolds
  RecordingRulesWrite
  AppenderOutlivesReload
PROPERTIES
  HupTakesEffect
  RequestsAnswered
  TermEnds
