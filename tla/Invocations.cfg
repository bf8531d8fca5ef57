CONSTANTS
  Agents = {a1, a2}
  DeadlineTasks = {d1, d2}
  WatchdogTasks = {w1}
  MaxEpoch = 3
  MaxStarted = 2
  TaskFaults = {"crash", "writes", "config", "auth", "broker", "analyst", "walltime", "stop", "store_lost", "unhalt"}
SPECIFICATION TasksSpec
INVARIANTS OneTerminal NothingLeftBehind NeverSilent RejectionsHalt TakeoverReportIsTrue DiagnosticsSurvive
CHECK_DEADLOCK FALSE
