---------------------------- MODULE Invocations -----------------------------
(***************************************************************************)
(* The one-shot processes around the gateway: the scheduled agent with its *)
(* startup (src/src/shell/agent-cli.ts, agent-runtime.ts, startup.ts), the *)
(* Friday entries (deadline-cli.ts, deadline-runtime.ts, deadline.ts) and  *)
(* the watchdog (watchdog-cli.ts, watchdog-runtime.ts, watchdog.ts), as    *)
(* they meet at the epoch store, the holder record, the journal, the       *)
(* diagnostic sink and the dead-man check.                                 *)
(*                                                                         *)
(* A step is what lies between two uses of what the processes share: reads *)
(* of the broker and pings are part of the step they lead to.  Gateway has *)
(* every durable write of an acquisition or an append as a step of its     *)
(* own; here each is one step that may be refused or may fail.  What a     *)
(* cycle trades is EntryLifecycle's and CloseLadder's subject.             *)
(***************************************************************************)
EXTENDS Integers, FiniteSets

CONSTANTS Agents, DeadlineTasks, WatchdogTasks, \* the processes that start, each once
          MaxEpoch,                             \* bound: the last epoch a taker can win
          MaxStarted,                           \* bound: how many of the processes start
          TaskFaults                            \* input: what may go wrong

ASSUME TasksAssumption ==
    /\ Agents \cap DeadlineTasks = {}
    /\ (Agents \cup DeadlineTasks) \cap WatchdogTasks = {}
ASSUME BoundsAssumption == MaxEpoch \in Nat \ {0} /\ MaxStarted \in Nat
ASSUME TaskFaultsAssumption ==
    TaskFaults \subseteq {"crash", "writes", "config", "auth", "broker", "analyst", "walltime",
                          "stop", "store_lost", "unhalt"}

Tasks == Agents \cup DeadlineTasks \cup WatchdogTasks

VARIABLES
    epoch,      \* the epoch store's number, 0 without a store
    writer,     \* the holder id in the epoch store
    encumbered, \* its reset obligation is outstanding
    holder,     \* the holder record: by whom, and whether its heartbeat is fresh
    halt,       \* the standing halt's reason, "none" without one
    landed,     \* the entries each process got into the journal
    sink,       \* the diagnostic sink's records, each named for its writer
    imported,   \* the records that became journal lines
    lost,       \* history: records a death or an overlapping writer cost
    task        \* each process's own state

store == <<epoch, writer, encumbered, holder>>
taskVars == <<store, halt, landed, sink, imported, lost, task>>

-----------------------------------------------------------------------------
Nobody == <<"nobody", "none">>
Main(t) == <<t, "main">>
\* The gateway of the startup's refusal and of its imports has an id of its own.
StartupInstance(t) == <<t, "startup">>
NoHolder == [by |-> Nobody, fresh |-> FALSE]
Fault(f) == f \in TaskFaults

FreshTask == [pc |-> "new", epoch |-> 0, seen |-> 0, command |-> "none", why |-> "none", got |-> {},
              sawHalt |-> FALSE, claim |-> FALSE, child |-> FALSE, auth |-> FALSE, unsaid |-> FALSE,
              hit |-> FALSE, outrun |-> FALSE, admitted |-> FALSE, diagnosed |-> FALSE, cleared |-> FALSE,
              lifted |-> FALSE, plan |-> "none", pings |-> {}, exit |-> 0]

TasksInit ==
    /\ epoch \in 0..1
    /\ writer = Nobody
    /\ encumbered = FALSE
    /\ holder = NoHolder
    /\ halt = "none"
    /\ landed = [t \in Tasks |-> {}]
    /\ sink = {}
    /\ imported = {}
    /\ lost = {}
    /\ task = [t \in Tasks |-> FreshTask]

At(t, pc) == task[t].pc = pc
Become(t, r) == task' = [task EXCEPT ![t] = r]
Goto(t, pc) == Become(t, [task[t] EXCEPT !.pc = pc])
\* What a process keeps in memory ends with it; the rest is what is known of it.
Over(r, code) == [r EXCEPT !.pc = "ended", !.exit = code, !.epoch = 0, !.seen = 0, !.why = "none",
                           !.command = "none", !.plan = "none", !.got = {}, !.sawHalt = FALSE]
Exit(t, code) == Become(t, Over(task[t], code))
\* Which of the not yet started processes of a kind is next makes no difference.
Starts(t, kind) ==
    /\ At(t, "new")
    /\ t = CHOOSE u \in kind : At(u, "new")
    /\ Cardinality({u \in Tasks : ~At(u, "new")}) < MaxStarted

(***************************************************************************)
(* The gateway as these processes see it.  A failing write is an answer    *)
(* like any other refusal; nothing throws out of it.                       *)
(***************************************************************************)
Verdict(id, seen) ==
    IF epoch # seen THEN "LOST"
    ELSE IF holder.by \notin {Nobody, id} /\ holder.fresh THEN "SUPPRESSED"
    ELSE IF epoch = MaxEpoch THEN "REFUSED"
    ELSE IF epoch = 0 \/ encumbered THEN "GAP_HALT"
    ELSE "WON"
Authority(verdict) == verdict \in {"WON", "GAP_HALT"}
Verdicts == {"WON", "GAP_HALT", "LOST", "SUPPRESSED", "REFUSED"}

\* The store, the holder record and the reset pair land.
Take(id, verdict) ==
    /\ epoch' = epoch + 1
    /\ writer' = id
    /\ encumbered' = FALSE
    /\ holder' = [by |-> id, fresh |-> TRUE]
    /\ halt' = IF verdict = "GAP_HALT" THEN "EPOCH_STORE_RESET" ELSE halt

\* A write fails after the store named the taker: what was due remains due.
TakeFails(id, verdict) ==
    /\ Fault("writes")
    /\ epoch' = epoch + 1
    /\ writer' = id
    /\ encumbered' = (verdict = "GAP_HALT")
    /\ holder' \in {holder, [by |-> id, fresh |-> TRUE]}
    /\ UNCHANGED halt

\* A process that saw an epoch asks under an id: its answer, and whether a write failed.
Acquire(id, seen, answer, failed) ==
    LET verdict == Verdict(id, seen)
    IN  \/ Authority(verdict) /\ Take(id, verdict) /\ answer = verdict /\ ~failed
        \/ Authority(verdict) /\ TakeFails(id, verdict) /\ answer = "REFUSED" /\ failed
        \/ ~Authority(verdict) /\ UNCHANGED <<store, halt>> /\ answer = verdict /\ ~failed

\* Mutant: the number alone says who may write.
IsWriter_numberOnly(id, own) == own # 0 /\ epoch = own

IsWriter(id, own) == own # 0 /\ epoch = own /\ writer = id /\ ~encumbered

\* A write fails or not; the answers an append may get.
WriteFails == {FALSE} \cup (IF Fault("writes") THEN {TRUE} ELSE {})
Appends(may) == {may} \cup (IF Fault("writes") THEN {FALSE} ELSE {})

HaltReasons == {"CONFIG_INVALID", "AUTH_FAILURE", "ACCOUNT_BINDING_MISMATCH", "WATCHDOG_TAKEOVER",
                "EPOCH_STORE_RESET"}
Entries == {"TERMINAL", "DEADLINE_RECONCILIATION"}
\* A line lands or not; what is kept of it is a Friday entry, or the halt it raises.
Write(t, ok, kind) ==
    /\ landed' = IF ok /\ kind \in Entries THEN [landed EXCEPT ![t] = @ \cup {kind}] ELSE landed
    /\ halt' = IF ok /\ kind \in HaltReasons THEN kind ELSE halt

ReleaseHolder(id) ==
    /\ holder' = IF holder.by = id THEN NoHolder ELSE holder
    /\ UNCHANGED <<epoch, writer, encumbered>>

\* openJournal refreshes the writer's own heartbeat.
OpenJournal(t) ==
    /\ holder' = IF IsWriter(Main(t), task[t].epoch) THEN [by |-> Main(t), fresh |-> TRUE] ELSE holder
    /\ UNCHANGED <<epoch, writer, encumbered>>

TerminalStands == \E t \in Tasks : "TERMINAL" \in landed[t]
\* How an agent, and a Friday entry, that stopped at a stage exits.
agentCliExitCode(stage) == IF stage = "suppressed" THEN 0 ELSE 1
deadlineCliExitCode(stage) ==
    IF stage = "suppressed" THEN 3 ELSE IF stage = "entry_already_stands" THEN 4 ELSE 1

diagnostics == <<sink, imported, lost>>
journal == <<halt, landed>>

(***************************************************************************)
(* S-CYC-11: the configuration is validated before any broker call.  An    *)
(* unusable STATE_DIR or a store that takes no line leaves the record in   *)
(* the sink (the first may be met over any store); otherwise the refusal   *)
(* is a HALT.                                                              *)
(***************************************************************************)
journalable == epoch # 0 /\ ~encumbered

\* The failure-only ping, and exit code 1.
RefusedToArm(r) == Over([r EXCEPT !.pings = @ \cup {"fail"}, !.claim = FALSE], 1)

runStartup(t) ==
    /\ t \in Agents /\ Starts(t, Agents)
    /\ \/ /\ Fault("config")
          /\ \/ /\ sink' = sink \cup {t}
                /\ Become(t, RefusedToArm([task[t] EXCEPT !.diagnosed = TRUE]))
             \/ /\ journalable
                /\ Become(t, [task[t] EXCEPT !.pc = "startup_acquire", !.why = "config", !.seen = epoch])
                /\ UNCHANGED sink
       \/ Goto(t, IF journalable THEN "drain" ELSE "prepare") /\ UNCHANGED sink
    /\ UNCHANGED <<store, journal, imported, lost>>

\* drainPending reads the file ...
drainPending(t) ==
    /\ At(t, "drain")
    /\ Become(t, [task[t] EXCEPT !.pc = IF sink = {} THEN "prepare" ELSE "truncate", !.got = sink])
    /\ UNCHANGED <<store, journal, diagnostics>>

\* ... and empties it, whatever came in between.
Truncate(t) ==
    /\ At(t, "truncate")
    /\ sink' = {}
    /\ lost' = lost \cup (sink \ task[t].got)
    /\ Goto(t, "import")
    /\ UNCHANGED <<store, journal, imported>>

ImportNext(t) ==
    /\ At(t, "import")
    /\ Become(t, IF task[t].got = {} THEN [task[t] EXCEPT !.pc = "prepare"]
                 ELSE [task[t] EXCEPT !.pc = "startup_acquire", !.why = "import", !.seen = epoch])
    /\ UNCHANGED <<store, journal, diagnostics>>

StartupAcquire(t) ==
    /\ At(t, "startup_acquire")
    /\ \E answer \in Verdicts, failed \in BOOLEAN :
         /\ Acquire(StartupInstance(t), task[t].seen, answer, failed)
         /\ Become(t, [task[t] EXCEPT !.pc = IF Authority(answer) THEN "startup_append" ELSE "startup_release",
                                      !.epoch = IF Authority(answer) THEN epoch' ELSE 0,
                                      !.claim = FALSE])
    /\ UNCHANGED <<landed, diagnostics>>

StartupAppend(t) ==
    /\ At(t, "startup_append")
    /\ \E ok \in Appends(IsWriter(StartupInstance(t), task[t].epoch)) :
         /\ Write(t, ok, IF task[t].why = "config" THEN "CONFIG_INVALID" ELSE "IMPORT")
         /\ Become(t, [task[t] EXCEPT !.pc = "startup_release", !.claim = ok])
    /\ UNCHANGED <<store, diagnostics>>

\* Mutant: what could not be imported is not put back.
afterAppend_dropped(t, d) ==
    /\ sink' = sink
    /\ imported' = IF task[t].claim THEN imported \cup {d} ELSE imported

\* A refused import, and a refusal that could not be journaled, go (back) to the sink.
afterAppend(t, d) ==
    /\ sink' = IF task[t].claim THEN sink ELSE sink \cup {d}
    /\ imported' = IF task[t].claim /\ task[t].why = "import" THEN imported \cup {d} ELSE imported

StartupRelease(t) ==
    /\ At(t, "startup_release")
    /\ ReleaseHolder(StartupInstance(t))
    /\ \/ /\ task[t].why = "config"
          /\ afterAppend(t, t)
          /\ Become(t, RefusedToArm([task[t] EXCEPT !.diagnosed = ~task[t].claim]))
       \/ /\ task[t].why = "import"
          /\ \E d \in task[t].got :
               /\ afterAppend(t, d)
               /\ Become(t, [task[t] EXCEPT !.pc = "import", !.got = @ \ {d}, !.epoch = 0, !.claim = FALSE])
    /\ UNCHANGED <<journal, lost>>

(***************************************************************************)
(* Before the fence: credentials and the composition; nothing is journaled *)
(* and no broker is asked.  acquireAuthority reads the store first.        *)
(***************************************************************************)
buildRuntime(t) ==
    /\ At(t, "prepare")
    /\ \/ Fault("config") /\ Exit(t, agentCliExitCode("credentials"))
       \/ Become(t, [task[t] EXCEPT !.pc = "acquire", !.seen = epoch, !.why = "none"])
    /\ UNCHANGED <<store, journal, diagnostics>>

composeDeadline(t) ==
    /\ t \in DeadlineTasks /\ Starts(t, DeadlineTasks)
    /\ \/ Fault("config") /\ Exit(t, deadlineCliExitCode("configuration"))
       \/ \E command \in {"TERMINAL", "DEADLINE_RECONCILIATION"} :
            Become(t, [task[t] EXCEPT !.pc = "acquire", !.seen = epoch, !.command = command])
    /\ UNCHANGED <<store, journal, diagnostics>>

\* The watchdog reads the journal and is quiet after a TERMINAL, outside the session and over a fresh journal.
assessStaleness(t) ==
    /\ t \in WatchdogTasks /\ Starts(t, WatchdogTasks)
    /\ \/ Exit(t, 0)
       \/ /\ ~TerminalStands
          /\ Become(t, [task[t] EXCEPT !.pc = "acquire", !.seen = epoch, !.admitted = TRUE,
                                       !.sawHalt = (halt # "none"), !.cleared = FALSE])
    /\ UNCHANGED <<store, journal, diagnostics>>

AfterFence(t) == IF t \in Agents THEN "observe" ELSE IF t \in DeadlineTasks THEN "calendar" ELSE "takeover"

AfterAcquisition(t, r, answer) ==
    IF Authority(answer) THEN [r EXCEPT !.pc = AfterFence(t)]
    ELSE IF t \in WatchdogTasks THEN [r EXCEPT !.pc = "ping", !.plan = "fail", !.epoch = 0]
    ELSE IF t \in Agents /\ answer \in {"SUPPRESSED", "LOST"} THEN [r EXCEPT !.pc = "witness", !.epoch = 0]
    ELSE Over(r, IF t \in DeadlineTasks /\ answer = "SUPPRESSED" THEN deadlineCliExitCode("suppressed") ELSE 1)

acquireAuthority(t) ==
    /\ At(t, "acquire")
    /\ \E answer \in Verdicts, failed \in BOOLEAN :
         /\ Acquire(Main(t), task[t].seen, answer, failed)
         /\ Become(t, AfterAcquisition(t, [task[t] EXCEPT !.hit = @ \/ failed, !.epoch = epoch', !.seen = 0], answer))
    /\ UNCHANGED <<landed, diagnostics>>

\* S-G12-01: a suppressed agent leaves a witness line, without authority, and exits 0.
dispatchWitness(t) ==
    /\ At(t, "witness")
    /\ \E ok \in Appends(TRUE) :
         Write(t, ok, "SUPPRESSED") /\ Exit(t, agentCliExitCode(IF ok THEN "suppressed" ELSE "authority"))
    /\ UNCHANGED <<store, diagnostics>>

(***************************************************************************)
(* The agent under its epoch.                                              *)
(***************************************************************************)
Refused(t, reason) ==
    Become(t, [task[t] EXCEPT !.pc = "fence", !.why = reason, !.auth = @ \/ reason = "AUTH_FAILURE", !.exit = 1])
Withdraw(t, code) == Become(t, [task[t] EXCEPT !.pc = "release", !.exit = code])

\* The account's identity and the calendar, both before the analyst is touched.
verifyActiveAccount(t) ==
    /\ At(t, "observe")
    /\ \/ Goto(t, "analyst")
       \/ Fault("auth") /\ \E reason \in {"AUTH_FAILURE", "ACCOUNT_BINDING_MISMATCH"} : Refused(t, reason)
       \/ Fault("broker") /\ Withdraw(t, 1)
    /\ UNCHANGED <<store, journal, diagnostics>>

\* The launch, the digests, the arming certificate, the token.
LaunchAndArm(t) ==
    /\ At(t, "analyst")
    /\ \/ Become(t, [task[t] EXCEPT !.pc = "index", !.child = TRUE])
       \/ /\ Fault("analyst")
          /\ \/ Become(t, [task[t] EXCEPT !.pc = "config_halt", !.exit = 1])
             \/ \E pc \in {"config_halt", "shutdown"} :
                  Become(t, [task[t] EXCEPT !.pc = pc, !.child = TRUE, !.exit = 1])
    /\ UNCHANGED <<store, journal, diagnostics>>

haltForAnalyst(t) ==
    /\ At(t, "config_halt")
    /\ \E ok \in Appends(IsWriter(Main(t), task[t].epoch)) :
         Write(t, ok, "CONFIG_INVALID")
    /\ Goto(t, IF task[t].child THEN "shutdown" ELSE "release")
    /\ UNCHANGED <<store, diagnostics>>

CountCycles(t) ==
    /\ At(t, "index")
    /\ \/ OpenJournal(t) /\ Goto(t, "cycle")
       \/ /\ Fault("writes")
          /\ Become(t, [task[t] EXCEPT !.pc = "shutdown", !.exit = 1])
          /\ UNCHANGED store
    /\ UNCHANGED <<journal, diagnostics>>

\* A rejection inside the cycle halts unless a halt stands, whatever its reason.
haltForAuthFailure(t) ==
    /\ At(t, "cycle")
    /\ Fault("auth")
    /\ ~task[t].auth
    /\ \/ /\ halt # "none"
          /\ Become(t, [task[t] EXCEPT !.auth = TRUE])
          /\ UNCHANGED journal
       \/ /\ halt = "none"
          /\ \E failed \in WriteFails :
               LET may == IsWriter(Main(t), task[t].epoch)
                   ok == may /\ ~failed
               IN  /\ Write(t, ok, "AUTH_FAILURE")
                   /\ Become(t, [task[t] EXCEPT !.auth = TRUE, !.unsaid = ~ok, !.hit = @ \/ failed,
                                                !.outrun = ~may])
    /\ UNCHANGED <<store, diagnostics>>

planPing(landing, alarms) == IF alarms THEN "fail" ELSE IF landing THEN "success" ELSE "none"

\* The primary entry; an append that did not land is the cycle's journalFailure.
runCycle(t) ==
    /\ At(t, "cycle")
    /\ \E ok \in Appends(IsWriter(Main(t), task[t].epoch)), alarms \in BOOLEAN :
         LET whole == ok /\ ~task[t].unsaid
         IN  /\ Write(t, ok, "CYCLE")
             /\ \/ Become(t, [task[t] EXCEPT !.pc = "ping", !.plan = planPing(whole, alarms),
                                             !.exit = IF whole THEN 0 ELSE 1])
                \/ /\ Fault("walltime") \* the outer deadline wins; nothing of the cycle's answer is used
                   /\ Become(t, [task[t] EXCEPT !.pc = "shutdown", !.exit = 1])
    /\ UNCHANGED <<store, diagnostics>>

(***************************************************************************)
(* A Friday entry under its epoch.                                         *)
(***************************************************************************)
admitDeadlineEntry(t) == task[t].command = "TERMINAL" => ~TerminalStands

\* Only the agent fences a rejection of the calendar read.
ReadCalendar(t) ==
    /\ At(t, "calendar")
    /\ \/ Goto(t, "admit")
       \/ Fault("broker") /\ Withdraw(t, 1)
       \/ Fault("auth") /\ Become(t, [task[t] EXCEPT !.pc = "release", !.auth = TRUE, !.exit = 1])
    /\ UNCHANGED <<store, journal, diagnostics>>

OpenAndAdmit(t) ==
    /\ At(t, "admit")
    /\ \/ /\ OpenJournal(t)
          /\ \/ /\ admitDeadlineEntry(t)
                /\ Become(t, [task[t] EXCEPT !.pc = "assemble", !.admitted = TRUE])
             \/ ~admitDeadlineEntry(t) /\ Withdraw(t, deadlineCliExitCode("entry_already_stands"))
       \/ Fault("writes") /\ Withdraw(t, 1) /\ UNCHANGED store
    /\ UNCHANGED <<journal, diagnostics>>

\* A read that throws: the fence of a rejection, the fail ping in any case, exit code 1.
EntryAborted(t) ==
    \/ Fault("auth") /\ Refused(t, "AUTH_FAILURE")
    \/ /\ Fault("broker")
       /\ Become(t, [task[t] EXCEPT !.pc = "release", !.pings = @ \cup {"fail"},
                                    !.exit = deadlineCliExitCode("entry_aborted")])

\* Account, positions, orders, the observation; a snapshot the pure assembly refuses is handed over.
assembleForEntry(t) ==
    /\ At(t, "assemble")
    /\ \/ OpenJournal(t) /\ Goto(t, "append")
       \/ OpenJournal(t) /\ Become(t, [task[t] EXCEPT !.pc = "ping", !.plan = planPing(FALSE, TRUE), !.exit = 1])
       \/ EntryAborted(t) /\ UNCHANGED store
    /\ UNCHANGED <<journal, diagnostics>>

\* Mutant: a refused append raises no condition of its own.
appendAndPing_plan_quiet(ok, remainder) == planPing(ok, remainder)

appendAndPing_plan(ok, remainder) == planPing(ok, remainder \/ ~ok)

appendAndPing(t) ==
    /\ At(t, "append")
    /\ \E ok \in Appends(IsWriter(Main(t), task[t].epoch)), remainder \in BOOLEAN :
         /\ remainder => task[t].command = "TERMINAL"
         /\ Write(t, ok, task[t].command)
         /\ Become(t, [task[t] EXCEPT !.pc = "ping", !.plan = appendAndPing_plan(ok, remainder),
                                      !.exit = IF ok THEN 0 ELSE 1])
    /\ UNCHANGED <<store, diagnostics>>

(***************************************************************************)
(* The watchdog under its epoch.  It keeps the holder record.              *)
(***************************************************************************)
\* Mutant: the halt is reported because it was asked for.
takeoverClaim_intent(saw, ok) == TRUE

takeoverClaim(saw, ok) == saw \/ ok

haltForTakeover(t) ==
    /\ At(t, "takeover")
    /\ \/ /\ task[t].sawHalt
          /\ Become(t, [task[t] EXCEPT !.pc = "recover", !.claim = takeoverClaim(TRUE, FALSE)])
          /\ UNCHANGED journal
       \/ /\ ~task[t].sawHalt
          /\ \E ok \in Appends(IsWriter(Main(t), task[t].epoch)) :
               /\ Write(t, ok, "WATCHDOG_TAKEOVER")
               /\ Become(t, [task[t] EXCEPT !.pc = "recover", !.claim = takeoverClaim(FALSE, ok)])
    /\ UNCHANGED <<store, diagnostics>>

\* Whether the composition has a broker: one that is degraded fences and halts all the same.
composeWatchdog == {TRUE} \cup (IF Fault("config") THEN {FALSE} ELSE {})

\* What throws in the snapshot's reads is an alarm, but a rejection goes to the fence; so it
\* does out of a close's read, and there any other error ends the process before its ping.
recoverBook(t) ==
    /\ At(t, "recover")
    /\ \E book \in composeWatchdog :
         \/ Become(t, [task[t] EXCEPT !.pc = "ping", !.plan = planPing(FALSE, TRUE)])
         \/ book /\ Fault("auth") /\ Refused(t, "AUTH_FAILURE")
         \/ book /\ Fault("broker") /\ Exit(t, 1)
    /\ UNCHANGED <<store, journal, diagnostics>>

(***************************************************************************)
(* A credential rejection becomes a durable halt: the agent asks for a     *)
(* safety halt, the other two for recordStartupBrokerFence, which acquires *)
(* where no store took the halt, and asks again where it could not.        *)
(***************************************************************************)
\* Mutant: the safety halt takes an epoch, like any other line.
TakesSafetyHalt_asWriter(t) == IsWriter(Main(t), task[t].epoch)

\* A safety halt needs a store, and no authority over it.
TakesSafetyHalt(t) == epoch # 0

dispatchSafetyHalt(t, ok) ==
    IF ok /\ halt # task[t].why THEN Write(t, TRUE, task[t].why) ELSE UNCHANGED journal

persistBrokerFence(t) ==
    /\ At(t, "fence")
    /\ \E failed \in WriteFails :
         LET ok == TakesSafetyHalt(t) /\ ~failed
         IN  /\ dispatchSafetyHalt(t, ok)
             /\ Become(t, [task[t] EXCEPT !.pc = IF ok \/ t \in Agents THEN "fence_ping" ELSE "fence_acquire",
                                          !.hit = @ \/ failed \/ (t \in Agents /\ epoch = 0), !.seen = epoch])
    /\ UNCHANGED <<store, diagnostics>>

FenceAcquire(t) ==
    /\ At(t, "fence_acquire")
    /\ \E answer \in Verdicts, failed \in BOOLEAN :
         /\ Acquire(Main(t), task[t].seen, answer, failed)
         /\ Become(t, [task[t] EXCEPT !.pc = IF Authority(answer) THEN "fence_append" ELSE "fence_retry",
                                      !.epoch = IF Authority(answer) THEN epoch' ELSE @, !.hit = @ \/ failed])
    /\ UNCHANGED <<landed, diagnostics>>

FenceAppend(t) ==
    /\ At(t, "fence_append")
    /\ \E failed \in WriteFails :
         /\ Write(t, IsWriter(Main(t), task[t].epoch) /\ ~failed, task[t].why)
         /\ Become(t, [task[t] EXCEPT !.pc = "fence_ping", !.hit = @ \/ failed])
    /\ UNCHANGED <<store, diagnostics>>

FenceRetry(t) ==
    /\ At(t, "fence_retry")
    /\ \E failed \in WriteFails :
         /\ dispatchSafetyHalt(t, TakesSafetyHalt(t) /\ ~failed)
         /\ Become(t, [task[t] EXCEPT !.pc = "fence_ping", !.hit = @ \/ failed \/ epoch = 0])
    /\ UNCHANGED <<store, diagnostics>>

\* recordStartupBrokerFence releases the holder itself; the Friday entry pings once more.
FencePing(t) ==
    /\ At(t, "fence_ping")
    /\ ReleaseHolder(Main(t))
    /\ Become(t, Over([task[t] EXCEPT !.pings = @ \cup {"fail"}], 1))
    /\ UNCHANGED <<journal, diagnostics>>

(***************************************************************************)
(* The end of an invocation.  A ping is best effort; a watchdog leaves its *)
(* holder record to age out.                                               *)
(***************************************************************************)
deliverPing(t) ==
    /\ At(t, "ping")
    /\ LET pinged == [task[t] EXCEPT !.pings = @ \cup ({task[t].plan} \ {"none"})]
       IN  Become(t, IF t \in Agents THEN [pinged EXCEPT !.pc = "shutdown"]
                     ELSE IF t \in DeadlineTasks THEN [pinged EXCEPT !.pc = "release"]
                     ELSE Over(pinged, 0))
    /\ UNCHANGED <<store, journal, diagnostics>>

Release(t) ==
    /\ At(t, "release")
    /\ ReleaseHolder(Main(t))
    /\ Exit(t, task[t].exit)
    /\ UNCHANGED <<journal, diagnostics>>

\* Mutant: a child that would not stop keeps the holder record.
shutdownRuntimeResources_inOrder(t) ==
    /\ At(t, "shutdown")
    /\ \/ Become(t, Over([task[t] EXCEPT !.child = FALSE], task[t].exit)) /\ ReleaseHolder(Main(t))
       \/ Fault("stop") /\ Exit(t, 1) /\ UNCHANGED store
    /\ UNCHANGED <<journal, diagnostics>>

\* Both are tried, whatever becomes of the other; a failure of either is the exit code's.
shutdownRuntimeResources(t) ==
    /\ At(t, "shutdown")
    /\ \/ Become(t, Over([task[t] EXCEPT !.child = FALSE], task[t].exit))
       \/ Fault("stop") /\ Exit(t, 1)
    /\ ReleaseHolder(Main(t))
    /\ UNCHANGED <<journal, diagnostics>>

(***************************************************************************)
(* The environment.                                                        *)
(***************************************************************************)
\* A heartbeat grows older than the bound, its process slow or dead.
HolderAges ==
    /\ holder.fresh
    /\ holder' = [holder EXCEPT !.fresh = FALSE]
    /\ UNCHANGED <<epoch, writer, encumbered, journal, diagnostics, task>>

\* bound: the store is lost under a process that acquired it; otherwise it might as well be absent from the start.
StoreLost ==
    /\ Fault("store_lost")
    /\ epoch # 0 /\ \E t \in Tasks : task[t].epoch = epoch
    /\ epoch' = 0 /\ writer' = Nobody /\ encumbered' = FALSE
    /\ UNCHANGED <<holder, journal, diagnostics, task>>

HumanUnhalt ==
    /\ Fault("unhalt")
    /\ halt # "none" /\ epoch # 0 /\ ~encumbered
    /\ halt' = "none"
    /\ task' = [t \in Tasks |-> [task[t] EXCEPT !.cleared = t \in WatchdogTasks, !.lifted = task[t].auth]]
    /\ UNCHANGED <<store, landed, diagnostics>>

Running == {t \in Tasks : task[t].pc \notin {"new", "ended"}}

ProcessDies(t) ==
    /\ Fault("crash")
    /\ lost' = lost \cup task[t].got
    /\ Become(t, Over([task[t] EXCEPT !.child = FALSE], -1))
    /\ UNCHANGED <<store, journal, sink, imported>>

Start(t) == runStartup(t) \/ composeDeadline(t) \/ assessStaleness(t)

TaskStep(t) ==
    \/ drainPending(t) \/ Truncate(t) \/ ImportNext(t) \/ StartupAcquire(t)
    \/ StartupAppend(t) \/ StartupRelease(t) \/ buildRuntime(t)
    \/ acquireAuthority(t) \/ dispatchWitness(t) \/ verifyActiveAccount(t)
    \/ ReadCalendar(t) \/ LaunchAndArm(t) \/ haltForAnalyst(t) \/ CountCycles(t)
    \/ haltForAuthFailure(t) \/ runCycle(t) \/ OpenAndAdmit(t) \/ assembleForEntry(t)
    \/ appendAndPing(t) \/ haltForTakeover(t) \/ recoverBook(t) \/ persistBrokerFence(t)
    \/ FenceAcquire(t) \/ FenceAppend(t) \/ FenceRetry(t) \/ FencePing(t)
    \/ deliverPing(t) \/ Release(t) \/ shutdownRuntimeResources(t)
    \/ ProcessDies(t)

TasksNext ==
    \/ \E t \in Tasks : Start(t)
    \/ \E t \in Running : TaskStep(t)
    \/ HolderAges \/ StoreLost \/ HumanUnhalt

TasksSpec == TasksInit /\ [][TasksNext]_taskVars

-----------------------------------------------------------------------------
Ended(t) == task[t].pc = "ended" /\ task[t].exit # -1

(***************************************************************************)
(* The controlled end is written once, however many processes are started  *)
(* for it, die, are taken for dead while they still run, or find the epoch *)
(* store gone (S-G11-04; deadline-runtime.ts:344 reads the journal once).  *)
(***************************************************************************)
OneTerminal == Cardinality({t \in Tasks : "TERMINAL" \in landed[t]}) <= 1

(***************************************************************************)
(* An agent or a Friday entry that came to its end holds nothing the next  *)
(* invocation would have to wait out, and no child survives it, unless a   *)
(* write or the stopping itself failed.                                    *)
(***************************************************************************)
NothingLeftBehind ==
    \A t \in Agents \cup DeadlineTasks : Ended(t) =>
      /\ ~task[t].hit => holder.by \notin {Main(t), StartupInstance(t)}
      /\ task[t].exit = 0 => ~task[t].child

(***************************************************************************)
(* Whoever was admitted to write a Friday entry, or found the journal      *)
(* stale, and ends without the entry or the takeover's halt has raised the *)
(* fail ping: it "landed, or the active fail-signal was raised".  Not so   *)
(* the watchdog where the read of a close throws: its exit code alone      *)
(* tells of it (watchdog.ts:214, :234).                                    *)
(***************************************************************************)
NeverSilent ==
    \A t \in DeadlineTasks \cup WatchdogTasks :
      Ended(t) /\ task[t].admitted =>
        \/ "fail" \in task[t].pings
        \/ {"TERMINAL", "DEADLINE_RECONCILIATION"} \cap landed[t] # {}
        \/ t \in WatchdogTasks /\ task[t].exit # 0

(***************************************************************************)
(* S-G12-06: trading is halted when a process that met a rejection of the  *)
(* credentials ends, whoever held the epoch and whether or not there was a *)
(* store, unless a human has lifted a halt since, a write failed, or the   *)
(* store was gone when it asked for the last time.  The code makes two     *)
(* exceptions: a Friday entry's calendar read, and a cycle that had lost   *)
(* the epoch, whose halt is an ordinary line.                              *)
(***************************************************************************)
RejectionsHalt ==
    \A t \in Tasks :
      Ended(t) /\ task[t].auth /\ ~task[t].hit =>
        \/ halt # "none"
        \/ task[t].lifted
        \/ t \in DeadlineTasks /\ ~task[t].admitted
        \/ t \in Agents /\ task[t].outrun

(***************************************************************************)
(* What the watchdog reports as halted is halted when it ends, unless a    *)
(* human lifted it meanwhile (watchdog.ts:155).                            *)
(***************************************************************************)
TakeoverReportIsTrue ==
    \A t \in WatchdogTasks : Ended(t) /\ task[t].claim /\ ~task[t].cleared => halt # "none"

(***************************************************************************)
(* S-CYC-11: a diagnostic of a refused start stays in the sink or with one *)
(* importer until a line carries it; only a death in the middle of an      *)
(* import, or a record that arrives between an importer's read and its     *)
(* truncation, loses one.                                                  *)
(***************************************************************************)
DiagnosticsSurvive ==
    \A t \in Agents : task[t].diagnosed =>
      \/ t \in sink \cup imported \cup lost
      \/ \E u \in Agents : t \in task[u].got
=============================================================================
