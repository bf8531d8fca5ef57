-------------------------- MODULE InvocationProofs --------------------------
(***************************************************************************)
(* What the one-shot processes leave behind, for every number of agents,   *)
(* deadline tasks and watchdogs, every number of them started, every limit *)
(* of the epoch and every fault.                                           *)
(***************************************************************************)
EXTENDS Invocations, FiniteSetTheorems, TLAPS

Fencing == {"fence", "fence_acquire", "fence_append", "fence_retry"}
Importing == {"truncate", "import", "startup_acquire", "startup_append", "startup_release"}
Beginning == {"new", "drain", "prepare", "acquire", "witness"} \cup Importing
AgentPcs == Beginning \cup {"observe", "analyst", "config_halt", "index", "cycle", "ping", "shutdown",
                            "release", "fence", "fence_ping", "ended"}
DeadlinePcs == {"new", "acquire", "calendar", "admit", "assemble", "append", "ping", "release",
                "fence_ping", "ended"} \cup Fencing
WatchdogPcs == {"new", "acquire", "takeover", "recover", "ping", "fence_ping", "ended"} \cup Fencing
Pcs == AgentPcs \cup DeadlinePcs \cup WatchdogPcs

Reasons == {"none", "config", "import", "AUTH_FAILURE", "ACCOUNT_BINDING_MISMATCH"}
Commands == {"none", "TERMINAL", "DEADLINE_RECONCILIATION"}
Plans == {"none", "fail", "success"}
ExitCodes == {-1, 0, 1, 3, 4}

TaskRecord ==
    [pc : Pcs, epoch : Nat, seen : Nat, command : Commands, why : Reasons, got : SUBSET Agents,
     sawHalt : BOOLEAN, claim : BOOLEAN, child : BOOLEAN, auth : BOOLEAN, unsaid : BOOLEAN,
     hit : BOOLEAN, outrun : BOOLEAN, admitted : BOOLEAN, diagnosed : BOOLEAN, cleared : BOOLEAN,
     lifted : BOOLEAN, plan : Plans, pings : SUBSET Plans, exit : ExitCodes]

Holders == {Nobody} \cup {Main(t) : t \in Tasks} \cup {StartupInstance(t) : t \in Tasks}

SharedTyped ==
    /\ epoch \in Nat
    /\ encumbered \in BOOLEAN
    /\ holder \in [by : Holders, fresh : BOOLEAN]
    /\ landed \in [Tasks -> SUBSET Entries]
    /\ sink \subseteq Agents /\ imported \subseteq Agents /\ lost \subseteq Agents

Typed == SharedTyped /\ task \in [Tasks -> TaskRecord]

-----------------------------------------------------------------------------
(***************************************************************************)
(* What is true of a process t, if r is all it is and knows: first of      *)
(* itself ...                                                              *)
(***************************************************************************)
Died(r) == r.pc = "ended" /\ r.exit = -1

Placed(t, r) ==
    /\ t \in Agents => r.pc \in AgentPcs
    /\ t \in DeadlineTasks => r.pc \in DeadlinePcs
    /\ t \in WatchdogTasks => r.pc \in WatchdogPcs

\* What a process asks to be halted for, and that it met no rejection before it had the epoch.
Answered(t, r) ==
    /\ r.pc \in Fencing => r.why \in {"AUTH_FAILURE", "ACCOUNT_BINDING_MISMATCH"}
    /\ r.pc \in Fencing /\ t \notin Agents => r.auth
    /\ r.pc \in Beginning \cup {"calendar", "admit"} => ~r.auth

Childless(t, r) ==
    /\ r.child => t \in Agents /\ r.pc \in {"index", "config_halt", "cycle", "ping", "shutdown", "ended"}
    /\ r.child /\ r.pc = "ended" => r.exit # 0

\* Records in the hands of a process: only while it imports, and not while it refuses.
Carried(t, r) ==
    /\ r.got # {} => t \in Agents /\ r.pc \in Importing
    /\ r.pc \in {"startup_acquire", "startup_append", "startup_release"} =>
         /\ r.why \in {"config", "import"}
         /\ r.why = "config" => r.got = {}

Alone(t, r) == Placed(t, r) /\ Answered(t, r) /\ Childless(t, r) /\ Carried(t, r)

(***************************************************************************)
(* ... and then of what it shares.  A duty that was taken on is signalled  *)
(* as failed, done, or still going on.                                     *)
(***************************************************************************)
Entered(t) == {"TERMINAL", "DEADLINE_RECONCILIATION"} \cap landed[t] # {}
Dutiful(t, r) ==
    /\ r.admitted => t \notin Agents /\ r.pc # "new"
    /\ r.admitted /\ t \in DeadlineTasks => r.pc \notin {"acquire", "calendar", "admit"}
    /\ t \in DeadlineTasks /\ r.pc \in {"acquire", "calendar", "admit", "assemble", "append"} =>
         r.command \in {"TERMINAL", "DEADLINE_RECONCILIATION"}
    /\ r.admitted /\ r.pc = "ping" => r.plan = "fail" \/ Entered(t)
    /\ r.admitted /\ r.pc \in {"release", "ended"} /\ ~Died(r) =>
         \/ "fail" \in r.pings \/ Entered(t)
         \/ t \in WatchdogTasks /\ r.exit # 0

\* Nobody lifted the halt a watchdog saw or wrote without the watchdog being marked.
Reported(t, r) ==
    t \in WatchdogTasks =>
      /\ r.pc \in {"new", "acquire", "takeover"} => ~r.claim
      /\ (r.claim \/ r.sawHalt) /\ ~r.cleared => halt # "none"

\* A rejection has become a halt that stands or that a human lifted, unless it is still being
\* fenced; who acquires for the fence finds no store, and the reset is a halt of its own.
Halted(t, r) ==
    /\ r.auth /\ ~r.hit =>
         \/ halt # "none" \/ r.lifted
         \/ r.pc \in Fencing \ {"fence_append"} \/ Died(r)
         \/ t \in DeadlineTasks /\ ~r.admitted
         \/ t \in Agents /\ r.outrun
    /\ r.pc = "fence_acquire" /\ ~r.hit => r.seen = 0

\* The holder record names a process only from its acquisition to its release.
Holding(t, r) ==
    /\ holder.by = Main(t) /\ t \notin WatchdogTasks =>
         /\ r.pc \notin Beginning
         /\ r.pc = "ended" => r.hit \/ Died(r)
    /\ holder.by = StartupInstance(t) => r.pc \in {"startup_append", "startup_release"} \/ Died(r)

\* Who was admitted for the controlled end, and still may write, is the first to write it.
First(t, r) ==
    r.pc \in {"assemble", "append"} /\ r.command = "TERMINAL" /\ IsWriter(Main(t), r.epoch)
      => ~TerminalStands

Among(t, r) == Dutiful(t, r) /\ Reported(t, r) /\ Halted(t, r) /\ Holding(t, r) /\ First(t, r)

Sound(t, r) == Alone(t, r) /\ Among(t, r)

Single == \A t, u \in Tasks : "TERMINAL" \in landed[t] /\ "TERMINAL" \in landed[u] => t = u

TInv == Typed /\ (\A t \in Tasks : Sound(t, task[t])) /\ Single /\ DiagnosticsSurvive

-----------------------------------------------------------------------------
(***************************************************************************)
(* What a step of one process may do to what it shares with the others.    *)
(***************************************************************************)
Considerate(t) ==
    /\ UNCHANGED <<epoch, writer, encumbered>> \/ writer' \in {Main(t), StartupInstance(t)}
    /\ holder'.by \in {holder.by, Nobody, Main(t), StartupInstance(t)}
    /\ halt' = halt \/ halt' # "none"
    /\ \A u \in Tasks \ {t} : landed'[u] = landed[u]
    /\ landed[t] \subseteq landed'[t]
    /\ "TERMINAL" \in landed'[t] =>
         \/ "TERMINAL" \in landed[t]
         \/ writer = Main(t) /\ UNCHANGED writer /\ ~TerminalStands

\* No diagnostic gets lost unnoticed, r being what becomes of the process.
Careful(t, r) ==
    /\ sink \cup imported \cup lost \cup task[t].got \subseteq sink' \cup imported' \cup lost' \cup r.got
    /\ r.diagnosed => task[t].diagnosed \/ t \in sink'
    /\ r.got # {} => t \in Agents

Step(t) ==
    \E r \in TaskRecord :
      /\ Become(t, r)
      /\ SharedTyped' /\ Considerate(t) /\ Careful(t, r)
      /\ Alone(t, r) /\ Among(t, r)'

LEMMA Names ==
    ASSUME NEW t \in Tasks, NEW u \in Tasks
    PROVE  /\ Main(t) # StartupInstance(u) /\ Main(t) # Nobody /\ StartupInstance(t) # Nobody
           /\ t # u => Main(t) # Main(u) /\ StartupInstance(t) # StartupInstance(u)
BY DEF Main, StartupInstance, Nobody

LEMMA OthersKept ==
    ASSUME TInv, NEW t \in Tasks, Considerate(t), NEW u \in Tasks, u # t, NEW r, r = task[u]
    PROVE  Sound(u, r)'
<1>1. landed'[u] = landed[u] /\ Sound(u, r)
  BY DEF Considerate, TInv
<1>2. Alone(u, r)'
  BY <1>1 DEF Sound, Alone, Placed, Answered, Childless, Carried, Died
<1>3. Dutiful(u, r)'
  BY <1>1 DEF Sound, Among, Dutiful, Entered, Died
<1>4. Reported(u, r)'
  BY <1>1 DEF Sound, Among, Reported, Considerate
<1>7. Halted(u, r)'
  BY <1>1 DEF Sound, Among, Halted, Considerate, Died
<1>5. Holding(u, r)'
  BY <1>1, Names DEF Sound, Among, Holding, Considerate, Died
<1>6. First(u, r)'
  <2>. SUFFICES ASSUME r.pc \in {"assemble", "append"}, r.command = "TERMINAL",
                       IsWriter(Main(u), r.epoch)'
                PROVE  ~TerminalStands'
    BY DEF First
  <2>1. writer' = Main(u) /\ writer' # Main(t) /\ writer' # StartupInstance(t)
    BY Names DEF IsWriter
  <2>2. UNCHANGED <<epoch, writer, encumbered>> /\ writer # Main(t)
    BY <2>1 DEF Considerate
  <2>3. ~TerminalStands
    BY <1>1, <2>2 DEF Sound, Among, First, IsWriter
  <2>4. "TERMINAL" \notin landed'[t]
    BY <2>2, <2>3 DEF Considerate, TerminalStands
  <2>. QED
    BY <2>3, <2>4 DEF Considerate, TerminalStands
<1>. QED
  BY <1>2, <1>3, <1>4, <1>5, <1>6, <1>7 DEF Sound, Among

LEMMA StepKeeps ==
    ASSUME TInv, NEW t \in Tasks, Step(t)
    PROVE  TInv'
<1>1. PICK r \in TaskRecord : /\ Become(t, r)
                              /\ SharedTyped' /\ Considerate(t) /\ Careful(t, r)
                              /\ Alone(t, r) /\ Among(t, r)'
  BY DEF Step
<1>2. /\ task' \in [Tasks -> TaskRecord] /\ task'[t] = r
      /\ \A u \in Tasks \ {t} : task'[u] = task[u]
  BY <1>1 DEF TInv, Typed, Become
<1>3. Typed'
  BY <1>1, <1>2 DEF Typed
<1>4. \A u \in Tasks : Sound(u, task[u])'
  <2>. SUFFICES ASSUME NEW u \in Tasks
                PROVE  Sound(u, task[u])'
    OBVIOUS
  <2>1. CASE u = t
    BY <1>1, <1>2, <2>1 DEF Sound, Alone, Among, Placed, Answered, Childless, Carried, Died,
       Dutiful, Reported, Halted, Holding, First, Entered, IsWriter, TerminalStands
  <2>2. CASE u # t
    <3>1. PICK q : q = task[u]
      OBVIOUS
    <3>2. Sound(u, q)' /\ task'[u] = q
      BY <1>1, <1>2, <2>2, <3>1, OthersKept
    <3>. QED
      BY <3>2 DEF Sound, Alone, Among, Placed, Answered, Childless, Carried, Died,
         Dutiful, Reported, Halted, Holding, First, Entered, IsWriter, TerminalStands
  <2>. QED
    BY <2>1, <2>2
<1>5. Single'
  <2>1. CASE "TERMINAL" \in landed'[t] /\ "TERMINAL" \notin landed[t]
    BY <1>1, <2>1 DEF Considerate, Single, TerminalStands
  <2>2. CASE "TERMINAL" \notin landed'[t] \/ "TERMINAL" \in landed[t]
    BY <1>1, <2>2 DEF Considerate, Single, TInv
  <2>. QED
    BY <2>1, <2>2
<1>6. DiagnosticsSurvive'
  <2>. SUFFICES ASSUME NEW d \in Agents, task'[d].diagnosed
                PROVE  d \in sink' \cup imported' \cup lost' \/ \E u \in Agents : d \in task'[u].got
    BY DEF DiagnosticsSurvive
  <2>1. d \in Tasks
    BY DEF Tasks
  <2>2. CASE ~task[d].diagnosed
    BY <1>1, <1>2, <2>1, <2>2 DEF Careful
  <2>3. CASE d \in sink \cup imported \cup lost \cup task[t].got
    BY <1>1, <1>2, <2>3 DEF Careful
  <2>4. CASE \E u \in Agents : u # t /\ d \in task[u].got
    BY <1>2, <2>4 DEF Tasks
  <2>. QED
    BY <2>2, <2>3, <2>4 DEF TInv, DiagnosticsSurvive
<1>. QED
  BY <1>3, <1>4, <1>5, <1>6 DEF TInv

-----------------------------------------------------------------------------
(***************************************************************************)
(* The vocabulary of the actions.                                          *)
(***************************************************************************)
LEMMA Kinds ==
    ASSUME TInv, NEW t \in Tasks
    PROVE  /\ task[t] \in TaskRecord /\ Sound(t, task[t]) /\ SharedTyped
           /\ task[t].pc \in {"drain", "prepare", "witness", "observe", "analyst", "config_halt", "index",
                              "cycle", "shutdown"} \cup Importing => t \in Agents
           /\ task[t].pc \in {"calendar", "admit", "assemble", "append"} => t \in DeadlineTasks
           /\ task[t].pc \in {"takeover", "recover"} => t \in WatchdogTasks
           /\ task[t].pc \in {"fence_acquire", "fence_append", "fence_retry"} => t \notin Agents
           /\ t \in Agents => t \notin DeadlineTasks /\ t \notin WatchdogTasks
           /\ t \in DeadlineTasks => t \notin WatchdogTasks
           /\ t \in Agents \/ t \in DeadlineTasks \/ t \in WatchdogTasks
<1>1. task[t] \in TaskRecord /\ Sound(t, task[t]) /\ SharedTyped
  BY DEF TInv, Typed
<1>2. t \in Agents \/ t \in DeadlineTasks \/ t \in WatchdogTasks
  BY DEF Tasks
<1>. QED
  BY <1>1, <1>2, TasksAssumption
     DEF Sound, Alone, Placed, AgentPcs, DeadlinePcs, WatchdogPcs, Beginning, Importing, Fencing

LEMMA Places ==
    /\ {"drain", "prepare", "acquire", "witness", "truncate", "import", "startup_acquire", "startup_append",
        "startup_release", "observe", "analyst", "config_halt", "index", "cycle", "ping", "shutdown",
        "release", "calendar", "admit", "assemble", "append", "takeover", "recover", "fence",
        "fence_acquire", "fence_append", "fence_retry", "fence_ping"} \subseteq Pcs
    /\ {"none", "config", "import", "AUTH_FAILURE", "ACCOUNT_BINDING_MISMATCH"} \subseteq Reasons
    /\ {"none", "TERMINAL", "DEADLINE_RECONCILIATION"} \subseteq Commands
    /\ {"none", "fail", "success"} \subseteq Plans
    /\ -1 \in ExitCodes /\ 0 \in ExitCodes /\ 1 \in ExitCodes /\ 3 \in ExitCodes /\ 4 \in ExitCodes
BY DEF Pcs, AgentPcs, DeadlinePcs, WatchdogPcs, Beginning, Importing, Fencing, Reasons, Commands,
   Plans,
   ExitCodes

LEMMA OverTyped ==
    ASSUME NEW r \in TaskRecord, NEW code \in ExitCodes
    PROVE  Over(r, code) \in TaskRecord
<1>1. "ended" \in Pcs /\ "none" \in Reasons /\ "none" \in Commands /\ "none" \in Plans
  BY DEF Pcs, AgentPcs, Reasons, Commands, Plans
<1>. QED
  BY <1>1 DEF Over, TaskRecord

LEMMA Answers ==
    ASSUME NEW may \in BOOLEAN, NEW ok \in Appends(may)
    PROVE  ok \in BOOLEAN /\ (ok => may)
BY DEF Appends

LEMMA Wrote ==
    ASSUME SharedTyped, NEW t \in Tasks, NEW ok, NEW kind, Write(t, ok, kind)
    PROVE  /\ landed' \in [Tasks -> SUBSET Entries]
           /\ \A u \in Tasks \ {t} : landed'[u] = landed[u]
           /\ landed[t] \subseteq landed'[t] /\ landed'[t] \subseteq landed[t] \cup {kind}
           /\ ok /\ kind \in Entries => kind \in landed'[t]
           /\ ~ok \/ kind \notin Entries => landed' = landed
           /\ halt' = halt \/ halt' # "none"
           /\ ok /\ kind \in HaltReasons => halt' # "none"
BY DEF SharedTyped, Write, HaltReasons

LEMMA Recorded ==
    ASSUME NEW id \in Holders, NEW fresh \in BOOLEAN
    PROVE  [by |-> id, fresh |-> fresh] \in [by : Holders, fresh : BOOLEAN]
OBVIOUS

-----------------------------------------------------------------------------
(***************************************************************************)
(* Steps by what they share: nothing, ...                                  *)
(***************************************************************************)
LEMMA QuietStep ==
    ASSUME TInv, NEW t \in Tasks, NEW r \in TaskRecord, Become(t, r), Sound(t, r),
           UNCHANGED <<store, journal, diagnostics>>,
           r.diagnosed => task[t].diagnosed, task[t].got \subseteq r.got
    PROVE  Step(t)
<1>1. UNCHANGED <<epoch, writer, encumbered, holder, halt, landed, sink, imported, lost>>
  BY DEF store, journal, diagnostics
<1>2. SharedTyped'
  BY <1>1 DEF TInv, Typed, SharedTyped
<1>3. Considerate(t)
  BY <1>1 DEF Considerate
<1>4. Careful(t, r)
  BY <1>1 DEF Careful, Sound, Alone, Carried
<1>5. Alone(t, r) /\ Among(t, r)'
  BY <1>1 DEF Sound, Among, Dutiful, Reported, Halted, Holding, First, Entered, IsWriter, TerminalStands,
     Died
<1>. QED
  BY <1>2, <1>3, <1>4, <1>5 DEF Step

\* ... the holder record alone, ...
LEMMA HolderStep ==
    ASSUME TInv, NEW t \in Tasks, NEW r \in TaskRecord, Become(t, r), Sound(t, r)',
           ReleaseHolder(Main(t)) \/ OpenJournal(t),
           UNCHANGED <<journal, diagnostics>>,
           r.diagnosed => task[t].diagnosed, task[t].got \subseteq r.got
    PROVE  Step(t)
<1>1. UNCHANGED <<epoch, writer, encumbered, halt, landed, sink, imported, lost>>
  BY DEF ReleaseHolder, OpenJournal, journal, diagnostics
<1>2. holder' \in {holder, NoHolder, [by |-> Main(t), fresh |-> TRUE]}
  BY DEF ReleaseHolder, OpenJournal
<1>3. SharedTyped'
  <2>1. Main(t) \in Holders /\ Nobody \in Holders /\ holder \in [by : Holders, fresh : BOOLEAN]
    BY DEF Holders, TInv, Typed, SharedTyped
  <2>2. holder' \in [by : Holders, fresh : BOOLEAN]
    BY <1>2, <2>1, Recorded DEF NoHolder
  <2>. QED
    BY <1>1, <2>2 DEF TInv, Typed, SharedTyped
<1>4. Considerate(t)
  BY <1>1, <1>2 DEF Considerate, NoHolder
<1>5. Alone(t, r) /\ Among(t, r)'
  BY DEF Sound, Alone, Placed, Answered, Childless, Carried, Died
<1>6. Careful(t, r)
  BY <1>1, <1>5 DEF Careful, Alone, Carried
<1>. QED
  BY <1>3, <1>4, <1>5, <1>6 DEF Step

\* ... the journal, ...
LEMMA WriteStep ==
    ASSUME TInv, NEW t \in Tasks, NEW r \in TaskRecord, Become(t, r), Sound(t, r)',
           NEW ok, NEW kind, Write(t, ok, kind),
           ok /\ kind = "TERMINAL" => writer = Main(t) /\ ~TerminalStands,
           UNCHANGED <<store, diagnostics>>,
           r.diagnosed => task[t].diagnosed, task[t].got \subseteq r.got
    PROVE  Step(t)
<1>1. UNCHANGED <<epoch, writer, encumbered, holder, sink, imported, lost>>
  BY DEF store, diagnostics
<1>2. SharedTyped
  BY DEF TInv, Typed
<1>3. SharedTyped'
  BY <1>1, <1>2, Wrote DEF SharedTyped
<1>4. Considerate(t)
  BY <1>1, <1>2, Wrote DEF Considerate
<1>5. Alone(t, r) /\ Among(t, r)'
  BY DEF Sound, Alone, Placed, Answered, Childless, Carried, Died
<1>6. Careful(t, r)
  BY <1>1, <1>5 DEF Careful, Alone, Carried
<1>. QED
  BY <1>3, <1>4, <1>5, <1>6 DEF Step

\* ... the right to write.
LEMMA Acquired ==
    ASSUME SharedTyped, NEW id, NEW seen, NEW answer, NEW failed \in BOOLEAN,
           Acquire(id, seen, answer, failed)
    PROVE  /\ epoch' \in Nat /\ encumbered' \in BOOLEAN
           /\ holder' \in {holder, [by |-> id, fresh |-> TRUE]}
           /\ UNCHANGED <<epoch, writer, encumbered>> \/ writer' = id
           /\ halt' = halt \/ halt' # "none"
           /\ failed => answer = "REFUSED"
           /\ ~Authority(answer) /\ ~failed => UNCHANGED <<store, halt>>
<1>. DEFINE verdict == Verdict(id, seen)
<1>1. CASE Authority(verdict) /\ Take(id, verdict) /\ answer = verdict /\ ~failed
  <2>1. Authority(answer) /\ ~failed
    BY <1>1 DEF Authority
  <2>2. /\ epoch' = epoch + 1 /\ writer' = id /\ encumbered' = FALSE
        /\ holder' = [by |-> id, fresh |-> TRUE] /\ (halt' = halt \/ halt' = "EPOCH_STORE_RESET")
    BY <1>1 DEF Take
  <2>3. epoch' \in Nat
    BY <2>2 DEF SharedTyped
  <2>4. encumbered' \in BOOLEAN
    BY <2>2
  <2>. QED
    BY <2>1, <2>2, <2>3, <2>4
<1>2. CASE Authority(verdict) /\ TakeFails(id, verdict) /\ answer = "REFUSED" /\ failed
  <2>1. encumbered' \in BOOLEAN /\ epoch' = epoch + 1 /\ writer' = id /\ halt' = halt
    BY <1>2 DEF TakeFails
  <2>2. holder' \in {holder, [by |-> id, fresh |-> TRUE]}
    BY <1>2 DEF TakeFails
  <2>. QED
    BY <1>2, <2>1, <2>2 DEF SharedTyped
<1>3. CASE ~Authority(verdict) /\ UNCHANGED <<store, halt>> /\ answer = verdict /\ ~failed
  BY <1>3 DEF store, SharedTyped
<1>. QED
  BY <1>1, <1>2, <1>3 DEF Acquire

LEMMA TakeStep ==
    ASSUME TInv, NEW t \in Tasks, NEW r \in TaskRecord, Become(t, r), Sound(t, r)',
           NEW id \in {Main(t), StartupInstance(t)}, NEW seen, NEW answer, NEW failed \in BOOLEAN,
           Acquire(id, seen, answer, failed), UNCHANGED <<landed, diagnostics>>,
           r.diagnosed => task[t].diagnosed, task[t].got \subseteq r.got
    PROVE  Step(t)
<1>1. UNCHANGED <<landed, sink, imported, lost>> /\ SharedTyped
  BY DEF diagnostics, TInv, Typed
<1>2. SharedTyped'
  <2>1. /\ epoch' \in Nat /\ encumbered' \in BOOLEAN
        /\ holder' \in {holder, [by |-> id, fresh |-> TRUE]}
    BY <1>1, Acquired
  <2>2. id \in Holders
    BY DEF Holders
  <2>3. holder' \in [by : Holders, fresh : BOOLEAN]
    BY <1>1, <2>1, <2>2, Recorded DEF SharedTyped
  <2>. QED
    BY <1>1, <2>1, <2>3 DEF SharedTyped
<1>3. Considerate(t)
  BY <1>1, Acquired DEF Considerate
<1>4. Alone(t, r) /\ Among(t, r)'
  BY DEF Sound, Alone, Placed, Answered, Childless, Carried, Died
<1>5. Careful(t, r)
  BY <1>1, <1>4 DEF Careful, Alone, Carried
<1>. QED
  BY <1>2, <1>3, <1>4, <1>5 DEF Step

\* What becomes of the diagnostics, and of the holder record at most its end.
LEMMA SinkStep ==
    ASSUME TInv, NEW t \in Tasks, NEW r \in TaskRecord, Become(t, r), Sound(t, r)',
           UNCHANGED <<epoch, writer, encumbered, halt, landed>>, holder' \in {holder, NoHolder},
           sink' \subseteq Agents, imported' \subseteq Agents, lost' \subseteq Agents, Careful(t, r)
    PROVE  Step(t)
<1>1. SharedTyped'
  <2>1. Nobody \in Holders /\ holder \in [by : Holders, fresh : BOOLEAN]
    BY DEF Holders, TInv, Typed, SharedTyped
  <2>2. holder' \in [by : Holders, fresh : BOOLEAN]
    BY <2>1, Recorded DEF NoHolder
  <2>. QED
    BY <2>2 DEF TInv, Typed, SharedTyped
<1>2. Considerate(t)
  BY DEF Considerate, NoHolder
<1>3. Alone(t, r) /\ Among(t, r)'
  BY DEF Sound, Alone, Placed, Answered, Childless, Carried, Died
<1>. QED
  BY <1>1, <1>2, <1>3 DEF Step

-----------------------------------------------------------------------------
(***************************************************************************)
(* One process, action by action: first what it does alone, ...            *)
(***************************************************************************)
USE DEF Alone, Placed, Answered, Childless, Carried, Among, Dutiful, Reported, Halted, Holding, First,
        Died, AgentPcs, DeadlinePcs, WatchdogPcs, Beginning, Importing, Fencing

LEMMA Preparing ==
    ASSUME TInv, NEW t \in Tasks, buildRuntime(t)
    PROVE  Step(t)
<1>1. /\ task[t].pc = "prepare" /\ task[t] \in TaskRecord /\ Sound(t, task[t]) /\ SharedTyped
      /\ t \in Agents /\ t \notin DeadlineTasks /\ t \notin WatchdogTasks
  BY Kinds DEF buildRuntime, At
<1>2. task[t].got = {}
  BY <1>1 DEF Sound
<1>3. ASSUME NEW r, Become(t, r), UNCHANGED <<store, journal, diagnostics>>,
             r = Over(task[t], 1)
      PROVE  Step(t)
  <2>1. r \in TaskRecord
    BY <1>1, <1>3, Places, OverTyped DEF TaskRecord
  <2>2. Sound(t, r)
    BY <1>1, <1>3 DEF Sound, TaskRecord, Over
  <2>. QED
    BY <1>1, <1>3, <1>2, <2>1, <2>2, QuietStep DEF TaskRecord, Over
<1>4. ASSUME NEW r, Become(t, r), UNCHANGED <<store, journal, diagnostics>>,
             r = [task[t] EXCEPT !.pc = "acquire", !.seen = epoch, !.why = "none"]
      PROVE  Step(t)
  <2>1. r \in TaskRecord
    BY <1>1, <1>4, Places DEF TaskRecord, SharedTyped
  <2>2. Sound(t, r)
    BY <1>1, <1>4 DEF Sound, TaskRecord
  <2>. QED
    BY <1>1, <1>4, <1>2, <2>1, <2>2, QuietStep DEF TaskRecord
<1>. QED
  BY <1>3, <1>4 DEF buildRuntime, Exit, agentCliExitCode

LEMMA Draining ==
    ASSUME TInv, NEW t \in Tasks, drainPending(t)
    PROVE  Step(t)
<1>1. /\ task[t].pc = "drain" /\ task[t] \in TaskRecord /\ Sound(t, task[t]) /\ SharedTyped
      /\ t \in Agents /\ t \notin DeadlineTasks /\ t \notin WatchdogTasks
  BY Kinds DEF drainPending, At
<1>2. task[t].got = {}
  BY <1>1 DEF Sound
<1>3. ASSUME NEW r, Become(t, r), UNCHANGED <<store, journal, diagnostics>>, sink = {},
             r = [task[t] EXCEPT !.pc = "prepare", !.got = sink]
      PROVE  Step(t)
  <2>1. r \in TaskRecord
    BY <1>1, <1>3, Places DEF TaskRecord, SharedTyped
  <2>2. Sound(t, r)
    BY <1>1, <1>3 DEF Sound, TaskRecord
  <2>. QED
    BY <1>1, <1>3, <1>2, <2>1, <2>2, QuietStep DEF TaskRecord
<1>4. ASSUME NEW r, Become(t, r), UNCHANGED <<store, journal, diagnostics>>,
             r = [task[t] EXCEPT !.pc = "truncate", !.got = sink]
      PROVE  Step(t)
  <2>1. r \in TaskRecord
    BY <1>1, <1>4, Places DEF TaskRecord, SharedTyped
  <2>2. Sound(t, r)
    BY <1>1, <1>4 DEF Sound, TaskRecord
  <2>. QED
    BY <1>1, <1>4, <1>2, <2>1, <2>2, QuietStep DEF TaskRecord
<1>. QED
  BY <1>3, <1>4 DEF drainPending, Become

LEMMA Importation ==
    ASSUME TInv, NEW t \in Tasks, ImportNext(t)
    PROVE  Step(t)
<1>1. /\ task[t].pc = "import" /\ task[t] \in TaskRecord /\ Sound(t, task[t]) /\ SharedTyped
      /\ t \in Agents /\ t \notin DeadlineTasks /\ t \notin WatchdogTasks
  BY Kinds DEF ImportNext, At
<1>2. ASSUME NEW r, Become(t, r), UNCHANGED <<store, journal, diagnostics>>, task[t].got = {},
             r = [task[t] EXCEPT !.pc = "prepare"]
      PROVE  Step(t)
  <2>1. r \in TaskRecord
    BY <1>1, <1>2, Places DEF TaskRecord
  <2>2. Sound(t, r)
    BY <1>1, <1>2 DEF Sound, TaskRecord
  <2>. QED
    BY <1>1, <1>2, <2>1, <2>2, QuietStep DEF TaskRecord
<1>3. ASSUME NEW r, Become(t, r), UNCHANGED <<store, journal, diagnostics>>,
             r = [task[t] EXCEPT !.pc = "startup_acquire", !.why = "import", !.seen = epoch]
      PROVE  Step(t)
  <2>1. r \in TaskRecord
    BY <1>1, <1>3, Places DEF TaskRecord, SharedTyped
  <2>2. Sound(t, r)
    BY <1>1, <1>3 DEF Sound, TaskRecord
  <2>. QED
    BY <1>1, <1>3, <2>1, <2>2, QuietStep DEF TaskRecord
<1>. QED
  BY <1>2, <1>3 DEF ImportNext, Become

LEMMA Composing ==
    ASSUME TInv, NEW t \in Tasks, composeDeadline(t)
    PROVE  Step(t)
<1>1. /\ task[t].pc = "new" /\ task[t] \in TaskRecord /\ Sound(t, task[t]) /\ SharedTyped
      /\ t \in DeadlineTasks /\ t \notin Agents /\ t \notin WatchdogTasks
  BY Kinds DEF composeDeadline, At, Starts
<1>2. task[t].got = {}
  BY <1>1 DEF Sound
<1>3. ASSUME NEW r, Become(t, r), UNCHANGED <<store, journal, diagnostics>>,
             r = Over(task[t], 1)
      PROVE  Step(t)
  <2>1. r \in TaskRecord
    BY <1>1, <1>3, Places, OverTyped DEF TaskRecord
  <2>2. Sound(t, r)
    BY <1>1, <1>3 DEF Sound, TaskRecord, Over
  <2>. QED
    BY <1>1, <1>3, <1>2, <2>1, <2>2, QuietStep DEF TaskRecord, Over
<1>4. ASSUME NEW r, Become(t, r), UNCHANGED <<store, journal, diagnostics>>,
             NEW command \in {"TERMINAL", "DEADLINE_RECONCILIATION"},
             r = [task[t] EXCEPT !.pc = "acquire", !.seen = epoch, !.command = command]
      PROVE  Step(t)
  <2>1. r \in TaskRecord
    BY <1>1, <1>4, Places DEF TaskRecord, SharedTyped
  <2>2. Sound(t, r)
    BY <1>1, <1>4 DEF Sound, TaskRecord
  <2>. QED
    BY <1>1, <1>4, <1>2, <2>1, <2>2, QuietStep DEF TaskRecord
<1>. QED
  BY <1>3, <1>4 DEF composeDeadline, Exit, deadlineCliExitCode

LEMMA Assessing ==
    ASSUME TInv, NEW t \in Tasks, assessStaleness(t)
    PROVE  Step(t)
<1>1. /\ task[t].pc = "new" /\ task[t] \in TaskRecord /\ Sound(t, task[t]) /\ SharedTyped
      /\ t \in WatchdogTasks /\ t \notin Agents /\ t \notin DeadlineTasks
  BY Kinds DEF assessStaleness, At, Starts
<1>2. task[t].got = {}
  BY <1>1 DEF Sound
<1>3. ASSUME NEW r, Become(t, r), UNCHANGED <<store, journal, diagnostics>>,
             r = Over(task[t], 0)
      PROVE  Step(t)
  <2>1. r \in TaskRecord
    BY <1>1, <1>3, Places, OverTyped DEF TaskRecord
  <2>2. Sound(t, r)
    BY <1>1, <1>3 DEF Sound, TaskRecord, Over
  <2>. QED
    BY <1>1, <1>3, <1>2, <2>1, <2>2, QuietStep DEF TaskRecord, Over
<1>4. ASSUME NEW r, Become(t, r), UNCHANGED <<store, journal, diagnostics>>,
             r = [task[t] EXCEPT !.pc = "acquire", !.seen = epoch, !.admitted = TRUE,
                                !.sawHalt = (halt # "none"), !.cleared = FALSE]
      PROVE  Step(t)
  <2>1. r \in TaskRecord
    BY <1>1, <1>4, Places DEF TaskRecord, SharedTyped
  <2>2. Sound(t, r)
    BY <1>1, <1>4 DEF Sound, TaskRecord
  <2>. QED
    BY <1>1, <1>4, <1>2, <2>1, <2>2, QuietStep DEF TaskRecord
<1>. QED
  BY <1>3, <1>4 DEF assessStaleness, Exit

LEMMA Observing ==
    ASSUME TInv, NEW t \in Tasks, verifyActiveAccount(t)
    PROVE  Step(t)
<1>1. /\ task[t].pc = "observe" /\ task[t] \in TaskRecord /\ Sound(t, task[t]) /\ SharedTyped
      /\ t \in Agents /\ t \notin DeadlineTasks /\ t \notin WatchdogTasks
  BY Kinds DEF verifyActiveAccount, At
<1>2. task[t].got = {}
  BY <1>1 DEF Sound
<1>3. ASSUME NEW r, Become(t, r), UNCHANGED <<store, journal, diagnostics>>,
             r = [task[t] EXCEPT !.pc = "analyst"]
      PROVE  Step(t)
  <2>1. r \in TaskRecord
    BY <1>1, <1>3, Places DEF TaskRecord
  <2>2. Sound(t, r)
    BY <1>1, <1>3 DEF Sound, TaskRecord
  <2>. QED
    BY <1>1, <1>3, <1>2, <2>1, <2>2, QuietStep DEF TaskRecord
<1>4. ASSUME NEW r, Become(t, r), UNCHANGED <<store, journal, diagnostics>>,
             NEW reason \in {"AUTH_FAILURE", "ACCOUNT_BINDING_MISMATCH"},
             r = [task[t] EXCEPT !.pc = "fence", !.why = reason,
                                !.auth = @ \/ reason = "AUTH_FAILURE", !.exit = 1]
      PROVE  Step(t)
  <2>1. r \in TaskRecord
    BY <1>1, <1>4, Places DEF TaskRecord
  <2>2. Sound(t, r)
    BY <1>1, <1>4 DEF Sound, TaskRecord
  <2>. QED
    BY <1>1, <1>4, <1>2, <2>1, <2>2, QuietStep DEF TaskRecord
<1>5. ASSUME NEW r, Become(t, r), UNCHANGED <<store, journal, diagnostics>>,
             r = [task[t] EXCEPT !.pc = "release", !.exit = 1]
      PROVE  Step(t)
  <2>1. r \in TaskRecord
    BY <1>1, <1>5, Places DEF TaskRecord
  <2>2. Sound(t, r)
    BY <1>1, <1>5 DEF Sound, TaskRecord
  <2>. QED
    BY <1>1, <1>5, <1>2, <2>1, <2>2, QuietStep DEF TaskRecord
<1>. QED
  BY <1>3, <1>4, <1>5 DEF verifyActiveAccount, Goto, Refused, Withdraw

LEMMA Launching ==
    ASSUME TInv, NEW t \in Tasks, LaunchAndArm(t)
    PROVE  Step(t)
<1>1. /\ task[t].pc = "analyst" /\ task[t] \in TaskRecord /\ Sound(t, task[t]) /\ SharedTyped
      /\ t \in Agents /\ t \notin DeadlineTasks /\ t \notin WatchdogTasks
  BY Kinds DEF LaunchAndArm, At
<1>2. task[t].got = {}
  BY <1>1 DEF Sound
<1>3. ASSUME NEW r, Become(t, r), UNCHANGED <<store, journal, diagnostics>>,
             r = [task[t] EXCEPT !.pc = "index", !.child = TRUE]
      PROVE  Step(t)
  <2>1. r \in TaskRecord
    BY <1>1, <1>3, Places DEF TaskRecord
  <2>2. Sound(t, r)
    BY <1>1, <1>3 DEF Sound, TaskRecord
  <2>. QED
    BY <1>1, <1>3, <1>2, <2>1, <2>2, QuietStep DEF TaskRecord
<1>4. ASSUME NEW r, Become(t, r), UNCHANGED <<store, journal, diagnostics>>,
             r = [task[t] EXCEPT !.pc = "config_halt", !.exit = 1]
      PROVE  Step(t)
  <2>1. r \in TaskRecord
    BY <1>1, <1>4, Places DEF TaskRecord
  <2>2. Sound(t, r)
    BY <1>1, <1>4 DEF Sound, TaskRecord
  <2>. QED
    BY <1>1, <1>4, <1>2, <2>1, <2>2, QuietStep DEF TaskRecord
<1>5. ASSUME NEW r, Become(t, r), UNCHANGED <<store, journal, diagnostics>>,
             NEW pc \in {"config_halt", "shutdown"},
             r = [task[t] EXCEPT !.pc = pc, !.child = TRUE, !.exit = 1]
      PROVE  Step(t)
  <2>1. r \in TaskRecord
    BY <1>1, <1>5, Places DEF TaskRecord
  <2>2. Sound(t, r)
    BY <1>1, <1>5 DEF Sound, TaskRecord
  <2>. QED
    BY <1>1, <1>5, <1>2, <2>1, <2>2, QuietStep DEF TaskRecord
<1>. QED
  BY <1>3, <1>4, <1>5 DEF LaunchAndArm, Become

LEMMA ReadingCalendar ==
    ASSUME TInv, NEW t \in Tasks, ReadCalendar(t)
    PROVE  Step(t)
<1>1. /\ task[t].pc = "calendar" /\ task[t] \in TaskRecord /\ Sound(t, task[t]) /\ SharedTyped
      /\ t \in DeadlineTasks /\ t \notin Agents /\ t \notin WatchdogTasks
  BY Kinds DEF ReadCalendar, At
<1>2. task[t].got = {}
  BY <1>1 DEF Sound
<1>3. ASSUME NEW r, Become(t, r), UNCHANGED <<store, journal, diagnostics>>,
             r = [task[t] EXCEPT !.pc = "admit"]
      PROVE  Step(t)
  <2>1. r \in TaskRecord
    BY <1>1, <1>3, Places DEF TaskRecord
  <2>2. Sound(t, r)
    BY <1>1, <1>3 DEF Sound, TaskRecord
  <2>. QED
    BY <1>1, <1>3, <1>2, <2>1, <2>2, QuietStep DEF TaskRecord
<1>4. ASSUME NEW r, Become(t, r), UNCHANGED <<store, journal, diagnostics>>,
             r = [task[t] EXCEPT !.pc = "release", !.exit = 1]
      PROVE  Step(t)
  <2>1. r \in TaskRecord
    BY <1>1, <1>4, Places DEF TaskRecord
  <2>2. Sound(t, r)
    BY <1>1, <1>4 DEF Sound, TaskRecord
  <2>. QED
    BY <1>1, <1>4, <1>2, <2>1, <2>2, QuietStep DEF TaskRecord
<1>5. ASSUME NEW r, Become(t, r), UNCHANGED <<store, journal, diagnostics>>,
             r = [task[t] EXCEPT !.pc = "release", !.auth = TRUE, !.exit = 1]
      PROVE  Step(t)
  <2>1. r \in TaskRecord
    BY <1>1, <1>5, Places DEF TaskRecord
  <2>2. Sound(t, r)
    BY <1>1, <1>5 DEF Sound, TaskRecord
  <2>. QED
    BY <1>1, <1>5, <1>2, <2>1, <2>2, QuietStep DEF TaskRecord
<1>. QED
  BY <1>3, <1>4, <1>5 DEF ReadCalendar, Goto, Withdraw

LEMMA Recovering ==
    ASSUME TInv, NEW t \in Tasks, recoverBook(t)
    PROVE  Step(t)
<1>1. /\ task[t].pc = "recover" /\ task[t] \in TaskRecord /\ Sound(t, task[t]) /\ SharedTyped
      /\ t \in WatchdogTasks /\ t \notin Agents /\ t \notin DeadlineTasks
  BY Kinds DEF recoverBook, At
<1>2. task[t].got = {}
  BY <1>1 DEF Sound
<1>3. ASSUME NEW r, Become(t, r), UNCHANGED <<store, journal, diagnostics>>,
             r = [task[t] EXCEPT !.pc = "ping", !.plan = "fail"]
      PROVE  Step(t)
  <2>1. r \in TaskRecord
    BY <1>1, <1>3, Places DEF TaskRecord
  <2>2. Sound(t, r)
    BY <1>1, <1>3 DEF Sound, TaskRecord
  <2>. QED
    BY <1>1, <1>3, <1>2, <2>1, <2>2, QuietStep DEF TaskRecord
<1>4. ASSUME NEW r, Become(t, r), UNCHANGED <<store, journal, diagnostics>>,
             r = [task[t] EXCEPT !.pc = "fence", !.why = "AUTH_FAILURE",
                                !.auth = @ \/ "AUTH_FAILURE" = "AUTH_FAILURE", !.exit = 1]
      PROVE  Step(t)
  <2>1. r \in TaskRecord
    BY <1>1, <1>4, Places DEF TaskRecord
  <2>2. Sound(t, r)
    BY <1>1, <1>4 DEF Sound, TaskRecord
  <2>. QED
    BY <1>1, <1>4, <1>2, <2>1, <2>2, QuietStep DEF TaskRecord
<1>5. ASSUME NEW r, Become(t, r), UNCHANGED <<store, journal, diagnostics>>,
             r = Over(task[t], 1)
      PROVE  Step(t)
  <2>1. r \in TaskRecord
    BY <1>1, <1>5, Places, OverTyped DEF TaskRecord
  <2>2. Sound(t, r)
    BY <1>1, <1>5 DEF Sound, TaskRecord, Over
  <2>. QED
    BY <1>1, <1>5, <1>2, <2>1, <2>2, QuietStep DEF TaskRecord, Over
<1>. QED
  BY <1>3, <1>4, <1>5 DEF recoverBook, planPing, Refused, Exit

LEMMA Pinging ==
    ASSUME TInv, NEW t \in Tasks, deliverPing(t)
    PROVE  Step(t)
<1>1. /\ task[t].pc = "ping" /\ task[t] \in TaskRecord /\ Sound(t, task[t]) /\ SharedTyped
  BY Kinds DEF deliverPing, At
<1>2. task[t].got = {}
  BY <1>1 DEF Sound
<1>3. t \in Agents => t \notin DeadlineTasks /\ t \notin WatchdogTasks
  BY Kinds
<1>4. ASSUME NEW r, Become(t, r), UNCHANGED <<store, journal, diagnostics>>, t \in Agents,
             t \notin DeadlineTasks, t \notin WatchdogTasks,
             r = [task[t] EXCEPT !.pings = @ \cup ({task[t].plan} \ {"none"}), !.pc = "shutdown"]
      PROVE  Step(t)
  <2>1. r \in TaskRecord
    BY <1>1, <1>4, Places DEF TaskRecord
  <2>2. Sound(t, r)
    BY <1>1, <1>4 DEF Sound, TaskRecord
  <2>. QED
    BY <1>1, <1>4, <1>2, <2>1, <2>2, QuietStep DEF TaskRecord
<1>5. ASSUME NEW r, Become(t, r), UNCHANGED <<store, journal, diagnostics>>, t \notin Agents,
             t \in DeadlineTasks, t \notin WatchdogTasks,
             r = [task[t] EXCEPT !.pings = @ \cup ({task[t].plan} \ {"none"}), !.pc = "release"]
      PROVE  Step(t)
  <2>1. r \in TaskRecord
    BY <1>1, <1>5, Places DEF TaskRecord
  <2>2. Sound(t, r)
    BY <1>1, <1>5 DEF Sound, TaskRecord
  <2>. QED
    BY <1>1, <1>5, <1>2, <2>1, <2>2, QuietStep DEF TaskRecord
<1>6. ASSUME NEW r, Become(t, r), UNCHANGED <<store, journal, diagnostics>>, t \in WatchdogTasks,
             t \notin Agents, t \notin DeadlineTasks,
             r = Over([task[t] EXCEPT !.pings = @ \cup ({task[t].plan} \ {"none"})], 0)
      PROVE  Step(t)
  <2>1. [task[t] EXCEPT !.pings = @ \cup ({task[t].plan} \ {"none"})] \in TaskRecord
    BY <1>1, <1>6, Places DEF TaskRecord
  <2>2. r \in TaskRecord
    BY <1>1, <1>6, <2>1, Places, OverTyped DEF TaskRecord
  <2>3. Sound(t, r)
    BY <1>1, <1>6 DEF Sound, TaskRecord, Over
  <2>. QED
    BY <1>1, <1>6, <1>2, <2>2, <2>3, QuietStep DEF TaskRecord, Over
<1>. QED
  BY Kinds, <1>1, <1>4, <1>5, <1>6 DEF deliverPing, Become

-----------------------------------------------------------------------------
(***************************************************************************)
(* ... then what it does to the holder record once it has the epoch, ...   *)
(***************************************************************************)
LEMMA Counting ==
    ASSUME TInv, NEW t \in Tasks, CountCycles(t)
    PROVE  Step(t)
<1>1. /\ task[t].pc = "index" /\ task[t] \in TaskRecord /\ Sound(t, task[t]) /\ SharedTyped
      /\ t \in Agents /\ t \notin DeadlineTasks /\ t \notin WatchdogTasks
  BY Kinds DEF CountCycles, At
<1>2. task[t].got = {}
  BY <1>1 DEF Sound
<1>3. UNCHANGED <<halt, landed, sink, imported, lost>>
  BY DEF CountCycles, journal, diagnostics
<1>4. ASSUME NEW r, Become(t, r), OpenJournal(t), UNCHANGED <<journal, diagnostics>>,
             r = [task[t] EXCEPT !.pc = "cycle"]
      PROVE  Step(t)
  <2>1. r \in TaskRecord
    BY <1>1, <1>4, <1>3, Places DEF TaskRecord
  <2>2. holder' \in {holder, [by |-> Main(t), fresh |-> TRUE]} /\ UNCHANGED <<epoch, writer, encumbered>>
    BY <1>4 DEF OpenJournal
  <2>3. Sound(t, r)'
    BY <1>1, <1>4, <1>3, <2>2, Names DEF Sound, TaskRecord, Entered, IsWriter, TerminalStands
  <2>. QED
    BY <1>1, <1>4, <1>2, <1>3, <2>2, <2>1, <2>3, HolderStep DEF TaskRecord
<1>5. ASSUME NEW r, Become(t, r), UNCHANGED <<store, journal, diagnostics>>,
             r = [task[t] EXCEPT !.pc = "shutdown", !.exit = 1]
      PROVE  Step(t)
  <2>1. r \in TaskRecord
    BY <1>1, <1>5, Places DEF TaskRecord
  <2>2. Sound(t, r)
    BY <1>1, <1>5 DEF Sound, TaskRecord
  <2>. QED
    BY <1>1, <1>5, <1>2, <2>1, <2>2, QuietStep DEF TaskRecord
<1>. QED
  BY <1>4, <1>5 DEF CountCycles, Goto

LEMMA Admitting ==
    ASSUME TInv, NEW t \in Tasks, OpenAndAdmit(t)
    PROVE  Step(t)
<1>1. /\ task[t].pc = "admit" /\ task[t] \in TaskRecord /\ Sound(t, task[t]) /\ SharedTyped
      /\ t \in DeadlineTasks /\ t \notin Agents /\ t \notin WatchdogTasks
  BY Kinds DEF OpenAndAdmit, At
<1>2. task[t].got = {}
  BY <1>1 DEF Sound
<1>3. UNCHANGED <<halt, landed, sink, imported, lost>>
  BY DEF OpenAndAdmit, journal, diagnostics
<1>4. ASSUME NEW r, Become(t, r), OpenJournal(t), UNCHANGED <<journal, diagnostics>>,
             admitDeadlineEntry(t),
             r = [task[t] EXCEPT !.pc = "assemble", !.admitted = TRUE]
      PROVE  Step(t)
  <2>1. r \in TaskRecord
    BY <1>1, <1>4, <1>3, Places DEF TaskRecord
  <2>2. holder' \in {holder, [by |-> Main(t), fresh |-> TRUE]} /\ UNCHANGED <<epoch, writer, encumbered>>
    BY <1>4 DEF OpenJournal
  <2>3. Sound(t, r)'
    BY <1>1, <1>4, <1>3, <2>2, Names DEF Sound, TaskRecord, Entered, IsWriter, TerminalStands,
       admitDeadlineEntry
  <2>. QED
    BY <1>1, <1>4, <1>2, <1>3, <2>2, <2>1, <2>3, HolderStep DEF TaskRecord
<1>5. ASSUME NEW r, Become(t, r), OpenJournal(t), UNCHANGED <<journal, diagnostics>>,
             r = [task[t] EXCEPT !.pc = "release", !.exit = 4]
      PROVE  Step(t)
  <2>1. r \in TaskRecord
    BY <1>1, <1>5, <1>3, Places DEF TaskRecord
  <2>2. holder' \in {holder, [by |-> Main(t), fresh |-> TRUE]} /\ UNCHANGED <<epoch, writer, encumbered>>
    BY <1>5 DEF OpenJournal
  <2>3. Sound(t, r)'
    BY <1>1, <1>5, <1>3, <2>2, Names DEF Sound, TaskRecord, Entered, IsWriter, TerminalStands
  <2>. QED
    BY <1>1, <1>5, <1>2, <1>3, <2>2, <2>1, <2>3, HolderStep DEF TaskRecord
<1>6. ASSUME NEW r, Become(t, r), UNCHANGED <<store, journal, diagnostics>>,
             r = [task[t] EXCEPT !.pc = "release", !.exit = 1]
      PROVE  Step(t)
  <2>1. r \in TaskRecord
    BY <1>1, <1>6, Places DEF TaskRecord
  <2>2. Sound(t, r)
    BY <1>1, <1>6 DEF Sound, TaskRecord
  <2>. QED
    BY <1>1, <1>6, <1>2, <2>1, <2>2, QuietStep DEF TaskRecord
<1>. QED
  BY <1>4, <1>5, <1>6 DEF OpenAndAdmit, Withdraw, deadlineCliExitCode

LEMMA Assembling ==
    ASSUME TInv, NEW t \in Tasks, assembleForEntry(t)
    PROVE  Step(t)
<1>1. /\ task[t].pc = "assemble" /\ task[t] \in TaskRecord /\ Sound(t, task[t]) /\ SharedTyped
      /\ t \in DeadlineTasks /\ t \notin Agents /\ t \notin WatchdogTasks
  BY Kinds DEF assembleForEntry, At
<1>2. task[t].got = {}
  BY <1>1 DEF Sound
<1>3. UNCHANGED <<halt, landed, sink, imported, lost>>
  BY DEF assembleForEntry, journal, diagnostics
<1>4. ASSUME NEW r, Become(t, r), OpenJournal(t), UNCHANGED <<journal, diagnostics>>,
             r = [task[t] EXCEPT !.pc = "append"]
      PROVE  Step(t)
  <2>1. r \in TaskRecord
    BY <1>1, <1>4, <1>3, Places DEF TaskRecord
  <2>2. holder' \in {holder, [by |-> Main(t), fresh |-> TRUE]} /\ UNCHANGED <<epoch, writer, encumbered>>
    BY <1>4 DEF OpenJournal
  <2>3. Sound(t, r)'
    BY <1>1, <1>4, <1>3, <2>2, Names DEF Sound, TaskRecord, Entered, IsWriter, TerminalStands
  <2>. QED
    BY <1>1, <1>4, <1>2, <1>3, <2>2, <2>1, <2>3, HolderStep DEF TaskRecord
<1>5. ASSUME NEW r, Become(t, r), OpenJournal(t), UNCHANGED <<journal, diagnostics>>,
             r = [task[t] EXCEPT !.pc = "ping", !.plan = "fail", !.exit = 1]
      PROVE  Step(t)
  <2>1. r \in TaskRecord
    BY <1>1, <1>5, <1>3, Places DEF TaskRecord
  <2>2. holder' \in {holder, [by |-> Main(t), fresh |-> TRUE]} /\ UNCHANGED <<epoch, writer, encumbered>>
    BY <1>5 DEF OpenJournal
  <2>3. Sound(t, r)'
    BY <1>1, <1>5, <1>3, <2>2, Names DEF Sound, TaskRecord, Entered, IsWriter, TerminalStands
  <2>. QED
    BY <1>1, <1>5, <1>2, <1>3, <2>2, <2>1, <2>3, HolderStep DEF TaskRecord
<1>6. ASSUME NEW r, Become(t, r), UNCHANGED <<store, journal, diagnostics>>,
             r = [task[t] EXCEPT !.pc = "fence", !.why = "AUTH_FAILURE",
                                !.auth = @ \/ "AUTH_FAILURE" = "AUTH_FAILURE", !.exit = 1]
      PROVE  Step(t)
  <2>1. r \in TaskRecord
    BY <1>1, <1>6, Places DEF TaskRecord
  <2>2. Sound(t, r)
    BY <1>1, <1>6 DEF Sound, TaskRecord
  <2>. QED
    BY <1>1, <1>6, <1>2, <2>1, <2>2, QuietStep DEF TaskRecord
<1>7. ASSUME NEW r, Become(t, r), UNCHANGED <<store, journal, diagnostics>>,
             r = [task[t] EXCEPT !.pc = "release", !.pings = @ \cup {"fail"}, !.exit = 1]
      PROVE  Step(t)
  <2>1. r \in TaskRecord
    BY <1>1, <1>7, Places DEF TaskRecord
  <2>2. Sound(t, r)
    BY <1>1, <1>7 DEF Sound, TaskRecord
  <2>. QED
    BY <1>1, <1>7, <1>2, <2>1, <2>2, QuietStep DEF TaskRecord
<1>. QED
  BY <1>4, <1>5, <1>6, <1>7 DEF assembleForEntry, Goto, EntryAborted, Refused, planPing,
     deadlineCliExitCode

LEMMA PingingFence ==
    ASSUME TInv, NEW t \in Tasks, FencePing(t)
    PROVE  Step(t)
<1>1. /\ task[t].pc = "fence_ping" /\ task[t] \in TaskRecord /\ Sound(t, task[t]) /\ SharedTyped
  BY Kinds DEF FencePing, At
<1>2. task[t].got = {}
  BY <1>1 DEF Sound
<1>3. UNCHANGED <<halt, landed, sink, imported, lost>>
  BY DEF FencePing, journal, diagnostics
<1>4. ASSUME NEW r, Become(t, r), ReleaseHolder(Main(t)), UNCHANGED <<journal, diagnostics>>,
             r = Over([task[t] EXCEPT !.pings = @ \cup {"fail"}], 1)
      PROVE  Step(t)
  <2>1. [task[t] EXCEPT !.pings = @ \cup {"fail"}] \in TaskRecord
    BY <1>1, <1>4, <1>3, Places DEF TaskRecord
  <2>2. r \in TaskRecord
    BY <1>1, <1>4, <2>1, Places, OverTyped DEF TaskRecord
  <2>3. holder'.by # Main(t) /\ holder'.by \in {holder.by, Nobody} /\ UNCHANGED <<epoch, writer, encumbered>>
    BY <1>4, Names DEF ReleaseHolder, NoHolder
  <2>4. Sound(t, r)'
    BY <1>1, <1>4, <1>3, <2>3, Names DEF Sound, TaskRecord, Over, Entered, IsWriter,
       TerminalStands
  <2>. QED
    BY <1>1, <1>4, <1>2, <1>3, <2>3, <2>2, <2>4, HolderStep DEF TaskRecord, Over
<1>. QED
  BY <1>4 DEF FencePing, Become

LEMMA Releasing ==
    ASSUME TInv, NEW t \in Tasks, Release(t)
    PROVE  Step(t)
<1>1. /\ task[t].pc = "release" /\ task[t] \in TaskRecord /\ Sound(t, task[t]) /\ SharedTyped
  BY Kinds DEF Release, At
<1>2. task[t].got = {}
  BY <1>1 DEF Sound
<1>3. UNCHANGED <<halt, landed, sink, imported, lost>>
  BY DEF Release, journal, diagnostics
<1>4. ASSUME NEW r, Become(t, r), ReleaseHolder(Main(t)), UNCHANGED <<journal, diagnostics>>,
             r = Over(task[t], task[t].exit)
      PROVE  Step(t)
  <2>1. r \in TaskRecord
    BY <1>1, <1>4, Places, OverTyped DEF TaskRecord
  <2>2. holder'.by # Main(t) /\ holder'.by \in {holder.by, Nobody} /\ UNCHANGED <<epoch, writer, encumbered>>
    BY <1>4, Names DEF ReleaseHolder, NoHolder
  <2>3. Sound(t, r)'
    BY <1>1, <1>4, <1>3, <2>2, Names DEF Sound, TaskRecord, Over, Entered, IsWriter,
       TerminalStands
  <2>. QED
    BY <1>1, <1>4, <1>2, <1>3, <2>2, <2>1, <2>3, HolderStep DEF TaskRecord, Over
<1>. QED
  BY <1>4 DEF Release, Exit

LEMMA ShuttingDown ==
    ASSUME TInv, NEW t \in Tasks, shutdownRuntimeResources(t)
    PROVE  Step(t)
<1>1. /\ task[t].pc = "shutdown" /\ task[t] \in TaskRecord /\ Sound(t, task[t]) /\ SharedTyped
      /\ t \in Agents /\ t \notin DeadlineTasks /\ t \notin WatchdogTasks
  BY Kinds DEF shutdownRuntimeResources, At
<1>2. task[t].got = {}
  BY <1>1 DEF Sound
<1>3. UNCHANGED <<halt, landed, sink, imported, lost>>
  BY DEF shutdownRuntimeResources, journal, diagnostics
<1>4. ASSUME NEW r, Become(t, r), ReleaseHolder(Main(t)), UNCHANGED <<journal, diagnostics>>,
             r = Over([task[t] EXCEPT !.child = FALSE], task[t].exit)
      PROVE  Step(t)
  <2>1. [task[t] EXCEPT !.child = FALSE] \in TaskRecord
    BY <1>1, <1>4, <1>3, Places DEF TaskRecord
  <2>2. r \in TaskRecord
    BY <1>1, <1>4, <2>1, Places, OverTyped DEF TaskRecord
  <2>3. holder'.by # Main(t) /\ holder'.by \in {holder.by, Nobody} /\ UNCHANGED <<epoch, writer, encumbered>>
    BY <1>4, Names DEF ReleaseHolder, NoHolder
  <2>4. Sound(t, r)'
    BY <1>1, <1>4, <1>3, <2>3, Names DEF Sound, TaskRecord, Over, Entered, IsWriter,
       TerminalStands
  <2>. QED
    BY <1>1, <1>4, <1>2, <1>3, <2>3, <2>2, <2>4, HolderStep DEF TaskRecord, Over
<1>5. ASSUME NEW r, Become(t, r), ReleaseHolder(Main(t)), UNCHANGED <<journal, diagnostics>>,
             r = Over(task[t], 1)
      PROVE  Step(t)
  <2>1. r \in TaskRecord
    BY <1>1, <1>5, Places, OverTyped DEF TaskRecord
  <2>2. holder'.by # Main(t) /\ holder'.by \in {holder.by, Nobody} /\ UNCHANGED <<epoch, writer, encumbered>>
    BY <1>5, Names DEF ReleaseHolder, NoHolder
  <2>3. Sound(t, r)'
    BY <1>1, <1>5, <1>3, <2>2, Names DEF Sound, TaskRecord, Over, Entered, IsWriter,
       TerminalStands
  <2>. QED
    BY <1>1, <1>5, <1>2, <1>3, <2>2, <2>1, <2>3, HolderStep DEF TaskRecord, Over
<1>. QED
  BY <1>4, <1>5 DEF shutdownRuntimeResources, Exit

-----------------------------------------------------------------------------
(***************************************************************************)
(* ... the lines it writes, ...                                            *)
(***************************************************************************)
LEMMA StartupAppending ==
    ASSUME TInv, NEW t \in Tasks, StartupAppend(t)
    PROVE  Step(t)
<1>1. /\ task[t].pc = "startup_append" /\ task[t] \in TaskRecord /\ Sound(t, task[t]) /\ SharedTyped
      /\ t \in Agents /\ t \notin DeadlineTasks /\ t \notin WatchdogTasks
  BY Kinds DEF StartupAppend, At
<1>2. UNCHANGED <<epoch, writer, encumbered, holder, sink, imported, lost>>
  BY DEF StartupAppend, store, diagnostics
<1>3. ASSUME NEW r, Become(t, r), UNCHANGED <<store, diagnostics>>, NEW ok \in BOOLEAN,
             NEW kind \in {"CONFIG_INVALID", "IMPORT"}, Write(t, ok, kind),
             r = [task[t] EXCEPT !.pc = "startup_release", !.claim = ok]
      PROVE  Step(t)
  <2>1. r \in TaskRecord
    BY <1>1, <1>3, <1>2, Places DEF TaskRecord
  <2>2. /\ halt' = halt \/ halt' # "none"
        /\ landed[t] \subseteq landed'[t]
        /\ ok /\ kind \in Entries => kind \in landed'[t]
        /\ ok /\ kind \in HaltReasons => halt' # "none"
    BY <1>1, <1>3, Wrote
  <2>3. Sound(t, r)'
    BY <1>1, <1>3, <1>2, <2>2 DEF Sound, TaskRecord, Entered, HaltReasons, Entries
  <2>. QED
    BY <1>1, <1>3, <1>2, <2>2, <2>1, <2>3, WriteStep DEF TaskRecord
<1>4. IsWriter(StartupInstance(t), task[t].epoch) \in BOOLEAN
  BY DEF IsWriter
<1>. QED
  BY <1>4, Answers, <1>3 DEF StartupAppend, Become

LEMMA Witnessing ==
    ASSUME TInv, NEW t \in Tasks, dispatchWitness(t)
    PROVE  Step(t)
<1>1. /\ task[t].pc = "witness" /\ task[t] \in TaskRecord /\ Sound(t, task[t]) /\ SharedTyped
      /\ t \in Agents /\ t \notin DeadlineTasks /\ t \notin WatchdogTasks
  BY Kinds DEF dispatchWitness, At
<1>2. task[t].got = {}
  BY <1>1 DEF Sound
<1>3. UNCHANGED <<epoch, writer, encumbered, holder, sink, imported, lost>>
  BY DEF dispatchWitness, store, diagnostics
<1>4. ASSUME NEW r, Become(t, r), UNCHANGED <<store, diagnostics>>, NEW ok \in BOOLEAN,
             NEW code \in {0, 1}, Write(t, ok, "SUPPRESSED"),
             r = Over(task[t], code)
      PROVE  Step(t)
  <2>1. r \in TaskRecord
    BY <1>1, <1>4, Places, OverTyped DEF TaskRecord
  <2>2. /\ halt' = halt \/ halt' # "none"
        /\ landed[t] \subseteq landed'[t]
        /\ ok /\ "SUPPRESSED" \in Entries => "SUPPRESSED" \in landed'[t]
        /\ ok /\ "SUPPRESSED" \in HaltReasons => halt' # "none"
    BY <1>1, <1>4, Wrote
  <2>3. Sound(t, r)'
    BY <1>1, <1>4, <1>3, <2>2 DEF Sound, TaskRecord, Over, Entered, HaltReasons, Entries
  <2>. QED
    BY <1>1, <1>4, <1>2, <1>3, <2>2, <2>1, <2>3, WriteStep DEF TaskRecord, Over
<1>. QED
  BY Answers, <1>4 DEF dispatchWitness, Exit, agentCliExitCode

LEMMA HaltingForAnalyst ==
    ASSUME TInv, NEW t \in Tasks, haltForAnalyst(t)
    PROVE  Step(t)
<1>1. /\ task[t].pc = "config_halt" /\ task[t] \in TaskRecord /\ Sound(t, task[t]) /\ SharedTyped
      /\ t \in Agents /\ t \notin DeadlineTasks /\ t \notin WatchdogTasks
  BY Kinds DEF haltForAnalyst, At
<1>2. task[t].got = {}
  BY <1>1 DEF Sound
<1>3. UNCHANGED <<epoch, writer, encumbered, holder, sink, imported, lost>>
  BY DEF haltForAnalyst, store, diagnostics
<1>4. ASSUME NEW r, Become(t, r), UNCHANGED <<store, diagnostics>>, NEW ok \in BOOLEAN,
             task[t].child, Write(t, ok, "CONFIG_INVALID"),
             r = [task[t] EXCEPT !.pc = "shutdown"]
      PROVE  Step(t)
  <2>1. r \in TaskRecord
    BY <1>1, <1>4, <1>3, Places DEF TaskRecord
  <2>2. /\ halt' = halt \/ halt' # "none"
        /\ landed[t] \subseteq landed'[t]
        /\ ok /\ "CONFIG_INVALID" \in Entries => "CONFIG_INVALID" \in landed'[t]
        /\ ok /\ "CONFIG_INVALID" \in HaltReasons => halt' # "none"
    BY <1>1, <1>4, Wrote
  <2>3. Sound(t, r)'
    BY <1>1, <1>4, <1>3, <2>2 DEF Sound, TaskRecord, Entered, HaltReasons, Entries
  <2>. QED
    BY <1>1, <1>4, <1>2, <1>3, <2>2, <2>1, <2>3, WriteStep DEF TaskRecord
<1>5. ASSUME NEW r, Become(t, r), UNCHANGED <<store, diagnostics>>, NEW ok \in BOOLEAN,
             ~task[t].child, Write(t, ok, "CONFIG_INVALID"),
             r = [task[t] EXCEPT !.pc = "release"]
      PROVE  Step(t)
  <2>1. r \in TaskRecord
    BY <1>1, <1>5, <1>3, Places DEF TaskRecord
  <2>2. /\ halt' = halt \/ halt' # "none"
        /\ landed[t] \subseteq landed'[t]
        /\ ok /\ "CONFIG_INVALID" \in Entries => "CONFIG_INVALID" \in landed'[t]
        /\ ok /\ "CONFIG_INVALID" \in HaltReasons => halt' # "none"
    BY <1>1, <1>5, Wrote
  <2>3. Sound(t, r)'
    BY <1>1, <1>5, <1>3, <2>2 DEF Sound, TaskRecord, Entered, HaltReasons, Entries
  <2>. QED
    BY <1>1, <1>5, <1>2, <1>3, <2>2, <2>1, <2>3, WriteStep DEF TaskRecord
<1>6. IsWriter(Main(t), task[t].epoch) \in BOOLEAN
  BY DEF IsWriter
<1>. QED
  BY <1>6, Answers, <1>4, <1>5 DEF haltForAnalyst, Goto

LEMMA RejectedInCycle ==
    ASSUME TInv, NEW t \in Tasks, haltForAuthFailure(t)
    PROVE  Step(t)
<1>1. /\ task[t].pc = "cycle" /\ task[t] \in TaskRecord /\ Sound(t, task[t]) /\ SharedTyped
      /\ t \in Agents /\ t \notin DeadlineTasks /\ t \notin WatchdogTasks
  BY Kinds DEF haltForAuthFailure, At
<1>2. task[t].got = {}
  BY <1>1 DEF Sound
<1>3. UNCHANGED <<epoch, writer, encumbered, holder, sink, imported, lost>>
  BY DEF haltForAuthFailure, store, diagnostics
<1>4. ASSUME NEW r, Become(t, r), UNCHANGED <<store, journal, diagnostics>>, halt # "none",
             r = [task[t] EXCEPT !.auth = TRUE]
      PROVE  Step(t)
  <2>1. r \in TaskRecord
    BY <1>1, <1>4, Places DEF TaskRecord
  <2>2. Sound(t, r)
    BY <1>1, <1>4 DEF Sound, TaskRecord
  <2>. QED
    BY <1>1, <1>4, <1>2, <2>1, <2>2, QuietStep DEF TaskRecord
<1>5. ASSUME NEW r, Become(t, r), UNCHANGED <<store, diagnostics>>, NEW ok \in BOOLEAN,
             NEW failed \in BOOLEAN, NEW may \in BOOLEAN, ok = (may /\ ~failed),
             Write(t, ok, "AUTH_FAILURE"),
             r = [task[t] EXCEPT !.auth = TRUE, !.unsaid = ~ok, !.hit = @ \/ failed,
                                 !.outrun = ~may]
      PROVE  Step(t)
  <2>4. PICK unsaid \in BOOLEAN, hit \in BOOLEAN, outrun \in BOOLEAN :
          unsaid = ~ok /\ hit = (task[t].hit \/ failed) /\ outrun = ~may
    BY Zenon
  <2>5. r = [task[t] EXCEPT !.auth = TRUE, !.unsaid = unsaid, !.hit = hit, !.outrun = outrun]
    BY <1>5, <2>4, Zenon
  <2>1. r \in TaskRecord
    BY <1>1, <2>5 DEF TaskRecord
  <2>2. /\ halt' = halt \/ halt' # "none"
        /\ landed[t] \subseteq landed'[t]
        /\ ok /\ "AUTH_FAILURE" \in Entries => "AUTH_FAILURE" \in landed'[t]
        /\ ok /\ "AUTH_FAILURE" \in HaltReasons => halt' # "none"
    BY <1>1, <1>5, Wrote
  <2>3. Sound(t, r)'
    BY <1>1, <1>5, <1>3, <2>2 DEF Sound, TaskRecord, Entered, HaltReasons, Entries
  <2>. QED
    BY <1>1, <1>5, <1>2, <1>3, <2>2, <2>1, <2>3, WriteStep DEF TaskRecord
<1>6. IsWriter(Main(t), task[t].epoch) \in BOOLEAN
  BY DEF IsWriter
<1>7. CASE halt # "none"
  BY <1>7, <1>4 DEF haltForAuthFailure
<1>8. CASE halt = "none"
  <2>1. PICK failed \in WriteFails :
          LET may == IsWriter(Main(t), task[t].epoch)
              ok == may /\ ~failed
          IN  /\ Write(t, ok, "AUTH_FAILURE")
              /\ Become(t, [task[t] EXCEPT !.auth = TRUE, !.unsaid = ~ok, !.hit = @ \/ failed,
                                           !.outrun = ~may])
    BY <1>8 DEF haltForAuthFailure
  <2>2. failed \in BOOLEAN
    BY DEF WriteFails
  <2>3. UNCHANGED <<store, diagnostics>>
    BY DEF haltForAuthFailure
  <2>. QED
    BY <1>6, <2>1, <2>2, <2>3, <1>5
<1>. QED
  BY <1>7, <1>8

LEMMA Cycling ==
    ASSUME TInv, NEW t \in Tasks, runCycle(t)
    PROVE  Step(t)
<1>1. /\ task[t].pc = "cycle" /\ task[t] \in TaskRecord /\ Sound(t, task[t]) /\ SharedTyped
      /\ t \in Agents /\ t \notin DeadlineTasks /\ t \notin WatchdogTasks
  BY Kinds DEF runCycle, At
<1>2. task[t].got = {}
  BY <1>1 DEF Sound
<1>3. UNCHANGED <<epoch, writer, encumbered, holder, sink, imported, lost>>
  BY DEF runCycle, store, diagnostics
<1>4. ASSUME NEW r, Become(t, r), UNCHANGED <<store, diagnostics>>, NEW ok \in BOOLEAN,
             NEW plan \in Plans, NEW code \in {0, 1}, Write(t, ok, "CYCLE"),
             r = [task[t] EXCEPT !.pc = "ping", !.plan = plan, !.exit = code]
      PROVE  Step(t)
  <2>1. r \in TaskRecord
    BY <1>1, <1>4, <1>3, Places DEF TaskRecord
  <2>2. /\ halt' = halt \/ halt' # "none"
        /\ landed[t] \subseteq landed'[t]
        /\ ok /\ "CYCLE" \in Entries => "CYCLE" \in landed'[t]
        /\ ok /\ "CYCLE" \in HaltReasons => halt' # "none"
    BY <1>1, <1>4, Wrote
  <2>3. Sound(t, r)'
    BY <1>1, <1>4, <1>3, <2>2 DEF Sound, TaskRecord, Entered, HaltReasons, Entries
  <2>. QED
    BY <1>1, <1>4, <1>2, <1>3, <2>2, <2>1, <2>3, WriteStep DEF TaskRecord
<1>5. ASSUME NEW r, Become(t, r), UNCHANGED <<store, diagnostics>>, NEW ok \in BOOLEAN,
             Write(t, ok, "CYCLE"),
             r = [task[t] EXCEPT !.pc = "shutdown", !.exit = 1]
      PROVE  Step(t)
  <2>1. r \in TaskRecord
    BY <1>1, <1>5, <1>3, Places DEF TaskRecord
  <2>2. /\ halt' = halt \/ halt' # "none"
        /\ landed[t] \subseteq landed'[t]
        /\ ok /\ "CYCLE" \in Entries => "CYCLE" \in landed'[t]
        /\ ok /\ "CYCLE" \in HaltReasons => halt' # "none"
    BY <1>1, <1>5, Wrote
  <2>3. Sound(t, r)'
    BY <1>1, <1>5, <1>3, <2>2 DEF Sound, TaskRecord, Entered, HaltReasons, Entries
  <2>. QED
    BY <1>1, <1>5, <1>2, <1>3, <2>2, <2>1, <2>3, WriteStep DEF TaskRecord
<1>6. IsWriter(Main(t), task[t].epoch) \in BOOLEAN
  BY DEF IsWriter
<1>7. \A landing, alarms \in BOOLEAN : planPing(landing, alarms) \in Plans
  BY DEF planPing, Plans
<1>. QED
  BY <1>6, <1>7, Answers, <1>4, <1>5 DEF runCycle, Plans

LEMMA Reporting ==
    ASSUME TInv, NEW t \in Tasks, appendAndPing(t)
    PROVE  Step(t)
<1>1. /\ task[t].pc = "append" /\ task[t] \in TaskRecord /\ Sound(t, task[t]) /\ SharedTyped
      /\ t \in DeadlineTasks /\ t \notin Agents /\ t \notin WatchdogTasks
  BY Kinds DEF appendAndPing, At
<1>2. task[t].got = {}
  BY <1>1 DEF Sound
<1>3. UNCHANGED <<epoch, writer, encumbered, holder, sink, imported, lost>>
  BY DEF appendAndPing, store, diagnostics
<1>4. ASSUME NEW r, Become(t, r), UNCHANGED <<store, diagnostics>>, NEW ok \in BOOLEAN,
             ok => IsWriter(Main(t), task[t].epoch), NEW plan \in Plans, NEW code \in {0, 1},
             ~ok => plan = "fail", Write(t, ok, task[t].command),
             r = [task[t] EXCEPT !.pc = "ping", !.plan = plan, !.exit = code]
      PROVE  Step(t)
  <2>1. r \in TaskRecord
    BY <1>1, <1>4, <1>3, Places DEF TaskRecord
  <2>2. /\ halt' = halt \/ halt' # "none"
        /\ landed[t] \subseteq landed'[t]
        /\ ok /\ task[t].command \in Entries => task[t].command \in landed'[t]
        /\ ok /\ task[t].command \in HaltReasons => halt' # "none"
    BY <1>1, <1>4, Wrote
  <2>3. /\ task[t].command \in Entries
        /\ ok /\ task[t].command = "TERMINAL" => writer = Main(t) /\ ~TerminalStands
    BY <1>1, <1>4 DEF Sound, IsWriter, Entries
  <2>4. Sound(t, r)'
    BY <1>1, <1>4, <1>3, <2>2, <2>3 DEF Sound, TaskRecord, Entered, HaltReasons, Entries
  <2>. QED
    BY <1>1, <1>4, <1>2, <1>3, <2>2, <2>3, <2>1, <2>4, WriteStep DEF TaskRecord
<1>5. IsWriter(Main(t), task[t].epoch) \in BOOLEAN
  BY DEF IsWriter
<1>6. PICK ok \in BOOLEAN, remainder \in BOOLEAN :
        /\ ok => IsWriter(Main(t), task[t].epoch)
        /\ Write(t, ok, task[t].command) /\ UNCHANGED <<store, diagnostics>>
        /\ Become(t, [task[t] EXCEPT !.pc = "ping", !.plan = appendAndPing_plan(ok, remainder),
                                   !.exit = IF ok THEN 0 ELSE 1])
  BY <1>5, Answers DEF appendAndPing
<1>7. (IF ok THEN 0 ELSE 1) \in {0, 1}
  OBVIOUS
<1>8. /\ appendAndPing_plan(ok, remainder) \in Plans
      /\ ~ok => appendAndPing_plan(ok, remainder) = "fail"
  BY DEF planPing, appendAndPing_plan, Plans
<1>. QED
  BY <1>6, <1>7, <1>8, <1>4

LEMMA TakingOver ==
    ASSUME TInv, NEW t \in Tasks, haltForTakeover(t)
    PROVE  Step(t)
<1>1. /\ task[t].pc = "takeover" /\ task[t] \in TaskRecord /\ Sound(t, task[t]) /\ SharedTyped
      /\ t \in WatchdogTasks /\ t \notin Agents /\ t \notin DeadlineTasks
  BY Kinds DEF haltForTakeover, At
<1>2. task[t].got = {}
  BY <1>1 DEF Sound
<1>3. UNCHANGED <<epoch, writer, encumbered, holder, sink, imported, lost>>
  BY DEF haltForTakeover, store, diagnostics
<1>4. ASSUME NEW r, Become(t, r), UNCHANGED <<store, journal, diagnostics>>, task[t].sawHalt,
             r = [task[t] EXCEPT !.pc = "recover", !.claim = TRUE]
      PROVE  Step(t)
  <2>1. r \in TaskRecord
    BY <1>1, <1>4, Places DEF TaskRecord
  <2>2. Sound(t, r)
    BY <1>1, <1>4 DEF Sound, TaskRecord
  <2>. QED
    BY <1>1, <1>4, <1>2, <2>1, <2>2, QuietStep DEF TaskRecord
<1>5. ASSUME NEW r, Become(t, r), UNCHANGED <<store, diagnostics>>, NEW ok \in BOOLEAN,
             Write(t, ok, "WATCHDOG_TAKEOVER"),
             r = [task[t] EXCEPT !.pc = "recover", !.claim = ok]
      PROVE  Step(t)
  <2>1. r \in TaskRecord
    BY <1>1, <1>5, <1>3, Places DEF TaskRecord
  <2>2. /\ halt' = halt \/ halt' # "none"
        /\ landed[t] \subseteq landed'[t]
        /\ ok /\ "WATCHDOG_TAKEOVER" \in Entries => "WATCHDOG_TAKEOVER" \in landed'[t]
        /\ ok /\ "WATCHDOG_TAKEOVER" \in HaltReasons => halt' # "none"
    BY <1>1, <1>5, Wrote
  <2>3. Sound(t, r)'
    BY <1>1, <1>5, <1>3, <2>2 DEF Sound, TaskRecord, Entered, HaltReasons, Entries
  <2>. QED
    BY <1>1, <1>5, <1>2, <1>3, <2>2, <2>1, <2>3, WriteStep DEF TaskRecord
<1>6. IsWriter(Main(t), task[t].epoch) \in BOOLEAN
  BY DEF IsWriter
<1>. QED
  BY <1>6, Answers, <1>4, <1>5 DEF haltForTakeover, takeoverClaim, store, journal, diagnostics

LEMMA SafetyHalt ==
    ASSUME SharedTyped, NEW t \in Tasks, NEW ok \in BOOLEAN, dispatchSafetyHalt(t, ok)
    PROVE  \E landing \in BOOLEAN :
             /\ Write(t, landing, task[t].why)
             /\ ok => landing \/ halt = task[t].why
<1>1. CASE halt = task[t].why
  <2>. SUFFICES Write(t, FALSE, task[t].why)
    BY <1>1
  <2>. QED
    BY <1>1 DEF dispatchSafetyHalt, journal, Write
<1>2. CASE halt # task[t].why /\ ok
  BY <1>2 DEF dispatchSafetyHalt
<1>3. CASE ~ok
  <2>. SUFFICES Write(t, FALSE, task[t].why)
    BY <1>3
  <2>. QED
    BY <1>3 DEF dispatchSafetyHalt, journal, Write
<1>. QED
  BY <1>1, <1>2, <1>3

\* What is asked to be halted for is a halt, and no Friday entry.
LEMMA Fenced ==
    ASSUME SharedTyped, NEW t \in Tasks, task[t].why \in {"AUTH_FAILURE", "ACCOUNT_BINDING_MISMATCH"},
           NEW landing \in BOOLEAN, Write(t, landing, task[t].why)
    PROVE  /\ landed' = landed /\ task[t].why # "TERMINAL"
           /\ halt' = halt \/ halt' # "none"
           /\ landing \/ halt = task[t].why => halt' # "none"
<1>1. task[t].why \in HaltReasons /\ task[t].why \notin Entries /\ task[t].why # "none"
  BY DEF HaltReasons, Entries
<1>. QED
  BY <1>1 DEF Write

LEMMA Persisting ==
    ASSUME TInv, NEW t \in Tasks, persistBrokerFence(t)
    PROVE  Step(t)
<1>1. /\ task[t].pc = "fence" /\ task[t] \in TaskRecord /\ Sound(t, task[t]) /\ SharedTyped
  BY Kinds DEF persistBrokerFence, At
<1>2. task[t].got = {} /\ task[t].why \in {"AUTH_FAILURE", "ACCOUNT_BINDING_MISMATCH"}
  BY <1>1 DEF Sound
<1>3. UNCHANGED <<epoch, writer, encumbered, holder, sink, imported, lost>>
  BY DEF persistBrokerFence, store, diagnostics
<1>4. ASSUME NEW r, Become(t, r), UNCHANGED <<store, diagnostics>>, NEW failed \in BOOLEAN,
             NEW landing \in BOOLEAN, Write(t, landing, task[t].why),
             epoch # 0 /\ ~failed => landing \/ halt = task[t].why,
             (epoch # 0 /\ ~failed) \/ t \in Agents,
             r = [task[t] EXCEPT !.pc = "fence_ping",
                                 !.hit = @ \/ failed \/ (t \in Agents /\ epoch = 0), !.seen = epoch]
      PROVE  Step(t)
  <2>1. r \in TaskRecord
    BY <1>1, <1>4, <1>3, Places DEF TaskRecord, SharedTyped
  <2>2. /\ landed' = landed /\ task[t].why # "TERMINAL" /\ (halt' = halt \/ halt' # "none")
        /\ epoch # 0 /\ ~failed => halt' # "none"
    BY <1>1, <1>2, <1>4, Fenced
  <2>3. ~r.hit => epoch # 0 /\ ~failed
    BY <1>1, <1>4 DEF TaskRecord
  <2>4. Sound(t, r)'
    BY <1>1, <1>4, <1>3, <2>2, <2>3 DEF Sound, TaskRecord, Entered
  <2>. QED
    BY <1>1, <1>4, <1>2, <1>3, <2>2, <2>1, <2>4, WriteStep DEF TaskRecord
<1>5. ASSUME NEW r, Become(t, r), UNCHANGED <<store, diagnostics>>, NEW failed \in BOOLEAN,
             NEW landing \in BOOLEAN, Write(t, landing, task[t].why),
             ~(epoch # 0 /\ ~failed), t \notin Agents,
             r = [task[t] EXCEPT !.pc = "fence_acquire",
                                 !.hit = @ \/ failed \/ (t \in Agents /\ epoch = 0), !.seen = epoch]
      PROVE  Step(t)
  <2>1. r \in TaskRecord
    BY <1>1, <1>5, <1>3, Places DEF TaskRecord, SharedTyped
  <2>2. landed' = landed /\ task[t].why # "TERMINAL" /\ (halt' = halt \/ halt' # "none")
    BY <1>1, <1>2, <1>5, Fenced
  <2>3. ~r.hit => r.seen = 0
    BY <1>1, <1>5 DEF TaskRecord
  <2>4. Sound(t, r)'
    BY <1>1, <1>5, <1>3, <2>2, <2>3 DEF Sound, TaskRecord, Entered
  <2>. QED
    BY <1>1, <1>5, <1>2, <1>3, <2>2, <2>1, <2>4, WriteStep DEF TaskRecord
<1>6. PICK failed \in WriteFails :
        LET ok == TakesSafetyHalt(t) /\ ~failed
        IN  /\ dispatchSafetyHalt(t, ok)
            /\ Become(t, [task[t] EXCEPT !.pc = IF ok \/ t \in Agents THEN "fence_ping" ELSE "fence_acquire",
                                         !.hit = @ \/ failed \/ (t \in Agents /\ epoch = 0), !.seen = epoch])
  BY DEF persistBrokerFence
<1>. DEFINE ok == epoch # 0 /\ ~failed
<1>7. /\ failed \in BOOLEAN /\ ok \in BOOLEAN /\ dispatchSafetyHalt(t, ok)
      /\ UNCHANGED <<store, diagnostics>>
      /\ Become(t, [task[t] EXCEPT !.pc = IF ok \/ t \in Agents THEN "fence_ping" ELSE "fence_acquire",
                                   !.hit = @ \/ failed \/ (t \in Agents /\ epoch = 0), !.seen = epoch])
  BY <1>6 DEF WriteFails, TakesSafetyHalt, persistBrokerFence
<1>8. PICK landing \in BOOLEAN : Write(t, landing, task[t].why) /\ (ok => landing \/ halt = task[t].why)
  BY <1>1, <1>7, SafetyHalt
<1>9. CASE ok \/ t \in Agents
  BY <1>7, <1>8, <1>9, <1>4
<1>10. CASE ~ok /\ t \notin Agents
  BY <1>7, <1>8, <1>10, <1>5
<1>. QED
  BY <1>9, <1>10

LEMMA FenceAppending ==
    ASSUME TInv, NEW t \in Tasks, FenceAppend(t)
    PROVE  Step(t)
<1>1. /\ task[t].pc = "fence_append" /\ task[t] \in TaskRecord /\ Sound(t, task[t]) /\ SharedTyped
      /\ t \notin Agents
  BY Kinds DEF FenceAppend, At
<1>2. task[t].got = {} /\ task[t].why \in {"AUTH_FAILURE", "ACCOUNT_BINDING_MISMATCH"}
  BY <1>1 DEF Sound
<1>3. UNCHANGED <<epoch, writer, encumbered, holder, sink, imported, lost>>
  BY DEF FenceAppend, store, diagnostics
<1>4. ASSUME NEW r, Become(t, r), UNCHANGED <<store, diagnostics>>, NEW failed \in BOOLEAN,
             NEW landing \in BOOLEAN, Write(t, landing, task[t].why),
             r = [task[t] EXCEPT !.pc = "fence_ping", !.hit = @ \/ failed]
      PROVE  Step(t)
  <2>1. r \in TaskRecord
    BY <1>1, <1>4, <1>3, Places DEF TaskRecord, SharedTyped
  <2>2. landed' = landed /\ task[t].why # "TERMINAL" /\ (halt' = halt \/ halt' # "none")
    BY <1>1, <1>2, <1>4, Fenced
  <2>3. Sound(t, r)'
    BY <1>1, <1>4, <1>3, <2>2 DEF Sound, TaskRecord, Entered
  <2>. QED
    BY <1>1, <1>4, <1>2, <1>3, <2>2, <2>1, <2>3, WriteStep DEF TaskRecord
<1>5. PICK failed \in WriteFails :
        /\ Write(t, IsWriter(Main(t), task[t].epoch) /\ ~failed, task[t].why)
        /\ Become(t, [task[t] EXCEPT !.pc = "fence_ping", !.hit = @ \/ failed])
        /\ UNCHANGED <<store, diagnostics>>
  BY DEF FenceAppend
<1>6. failed \in BOOLEAN /\ (IsWriter(Main(t), task[t].epoch) /\ ~failed) \in BOOLEAN
  BY DEF WriteFails
<1>. QED
  BY <1>4, <1>5, <1>6

LEMMA FenceRetrying ==
    ASSUME TInv, NEW t \in Tasks, FenceRetry(t)
    PROVE  Step(t)
<1>1. /\ task[t].pc = "fence_retry" /\ task[t] \in TaskRecord /\ Sound(t, task[t]) /\ SharedTyped
      /\ t \notin Agents
  BY Kinds DEF FenceRetry, At
<1>2. task[t].got = {} /\ task[t].why \in {"AUTH_FAILURE", "ACCOUNT_BINDING_MISMATCH"}
  BY <1>1 DEF Sound
<1>3. UNCHANGED <<epoch, writer, encumbered, holder, sink, imported, lost>>
  BY DEF FenceRetry, store, diagnostics
<1>4. ASSUME NEW r, Become(t, r), UNCHANGED <<store, diagnostics>>, NEW failed \in BOOLEAN,
             NEW landing \in BOOLEAN, Write(t, landing, task[t].why),
             epoch # 0 /\ ~failed => landing \/ halt = task[t].why,
             r = [task[t] EXCEPT !.pc = "fence_ping", !.hit = @ \/ failed \/ epoch = 0]
      PROVE  Step(t)
  <2>1. r \in TaskRecord
    BY <1>1, <1>4, <1>3, Places DEF TaskRecord, SharedTyped
  <2>2. /\ landed' = landed /\ task[t].why # "TERMINAL" /\ (halt' = halt \/ halt' # "none")
        /\ epoch # 0 /\ ~failed => halt' # "none"
    BY <1>1, <1>2, <1>4, Fenced
  <2>3. ~r.hit => epoch # 0 /\ ~failed
    BY <1>1, <1>4 DEF TaskRecord
  <2>4. Sound(t, r)'
    BY <1>1, <1>4, <1>3, <2>2, <2>3 DEF Sound, TaskRecord, Entered
  <2>. QED
    BY <1>1, <1>4, <1>2, <1>3, <2>2, <2>1, <2>4, WriteStep DEF TaskRecord
<1>5. PICK failed \in WriteFails :
        /\ dispatchSafetyHalt(t, TakesSafetyHalt(t) /\ ~failed)
        /\ Become(t, [task[t] EXCEPT !.pc = "fence_ping", !.hit = @ \/ failed \/ epoch = 0])
        /\ UNCHANGED <<store, diagnostics>>
  BY DEF FenceRetry
<1>. DEFINE ok == epoch # 0 /\ ~failed
<1>6. failed \in BOOLEAN /\ ok \in BOOLEAN /\ dispatchSafetyHalt(t, ok)
  BY <1>5 DEF WriteFails, TakesSafetyHalt
<1>7. PICK landing \in BOOLEAN : Write(t, landing, task[t].why) /\ (ok => landing \/ halt = task[t].why)
  BY <1>1, <1>6, SafetyHalt
<1>. QED
  BY <1>4, <1>5, <1>6, <1>7

-----------------------------------------------------------------------------
(***************************************************************************)
(* ... its acquisitions, ...                                               *)
(***************************************************************************)
LEMMA StartupAcquiring ==
    ASSUME TInv, NEW t \in Tasks, StartupAcquire(t)
    PROVE  Step(t)
<1>1. /\ task[t].pc = "startup_acquire" /\ task[t] \in TaskRecord /\ Sound(t, task[t]) /\ SharedTyped
      /\ t \in Agents /\ t \notin DeadlineTasks /\ t \notin WatchdogTasks
  BY Kinds DEF StartupAcquire, At
<1>2. ASSUME NEW r, Become(t, r), epoch' \in Nat, NEW answer \in Verdicts, NEW failed \in BOOLEAN,
             Acquire(StartupInstance(t), task[t].seen, answer, failed),
             UNCHANGED <<landed, diagnostics>>, Authority(answer),
             r = [task[t] EXCEPT !.pc = "startup_append", !.epoch = epoch', !.claim = FALSE]
      PROVE  Step(t)
  <2>1. r \in TaskRecord
    BY <1>1, <1>2, Places DEF TaskRecord
  <2>2. /\ holder' \in {holder, [by |-> StartupInstance(t), fresh |-> TRUE]}
        /\ halt' = halt \/ halt' # "none"
        /\ failed => answer = "REFUSED"
        /\ ~Authority(answer) /\ ~failed => UNCHANGED <<store, halt>>
        /\ UNCHANGED <<landed, sink, imported, lost>>
    BY <1>1, <1>2, Acquired DEF diagnostics
  <2>3. Sound(t, r)'
    BY <1>1, <1>2, <2>2, Names DEF Sound, TaskRecord, Entered, store
  <2>4. (r.diagnosed => task[t].diagnosed) /\ task[t].got \subseteq r.got
    BY <1>1, <1>2 DEF TaskRecord
  <2>. QED
    BY <1>2, <2>1, <2>3, <2>4, TakeStep
<1>3. ASSUME NEW r, Become(t, r), epoch' \in Nat, NEW answer \in Verdicts, NEW failed \in BOOLEAN,
             Acquire(StartupInstance(t), task[t].seen, answer, failed),
             UNCHANGED <<landed, diagnostics>>, ~Authority(answer),
             r = [task[t] EXCEPT !.pc = "startup_release", !.epoch = 0, !.claim = FALSE]
      PROVE  Step(t)
  <2>1. r \in TaskRecord
    BY <1>1, <1>3, Places DEF TaskRecord
  <2>2. /\ holder' \in {holder, [by |-> StartupInstance(t), fresh |-> TRUE]}
        /\ halt' = halt \/ halt' # "none"
        /\ failed => answer = "REFUSED"
        /\ ~Authority(answer) /\ ~failed => UNCHANGED <<store, halt>>
        /\ UNCHANGED <<landed, sink, imported, lost>>
    BY <1>1, <1>3, Acquired DEF diagnostics
  <2>3. Sound(t, r)'
    BY <1>1, <1>3, <2>2, Names DEF Sound, TaskRecord, Entered, store
  <2>4. (r.diagnosed => task[t].diagnosed) /\ task[t].got \subseteq r.got
    BY <1>1, <1>3 DEF TaskRecord
  <2>. QED
    BY <1>3, <2>1, <2>3, <2>4, TakeStep
<1>4. PICK answer \in Verdicts, failed \in BOOLEAN :
        /\ Acquire(StartupInstance(t), task[t].seen, answer, failed) /\ UNCHANGED <<landed, diagnostics>>
        /\ Become(t, [task[t] EXCEPT !.pc = IF Authority(answer) THEN "startup_append" ELSE "startup_release",
                                     !.epoch = IF Authority(answer) THEN epoch' ELSE 0,
                                     !.claim = FALSE])
  BY DEF StartupAcquire
<1>5. epoch' \in Nat
  BY <1>1, <1>4, Acquired
<1>6. CASE Authority(answer)
  BY <1>1, <1>4, <1>5, <1>2, <1>6 DEF Become, TaskRecord
<1>7. CASE ~Authority(answer)
  BY <1>1, <1>4, <1>5, <1>3, <1>7 DEF Become, TaskRecord
<1>. QED
  BY <1>6, <1>7

\* Who acquires having seen no store resets it.
LEMMA Reset ==
    ASSUME NEW id, NEW answer, NEW failed \in BOOLEAN, Acquire(id, 0, answer, failed),
           Authority(answer)
    PROVE  halt' # "none"
<1>1. CASE Authority(Verdict(id, 0)) /\ Take(id, Verdict(id, 0))
  <2>1. Verdict(id, 0) = "GAP_HALT"
    BY <1>1 DEF Verdict, Authority
  <2>. QED
    BY <1>1, <2>1 DEF Take
<1>2. CASE answer = "REFUSED"
  BY <1>2 DEF Authority
<1>3. CASE ~Authority(Verdict(id, 0)) /\ answer = Verdict(id, 0)
  BY <1>3
<1>. QED
  BY <1>1, <1>2, <1>3 DEF Acquire

LEMMA FenceAcquiring ==
    ASSUME TInv, NEW t \in Tasks, FenceAcquire(t)
    PROVE  Step(t)
<1>1. /\ task[t].pc = "fence_acquire" /\ task[t] \in TaskRecord /\ Sound(t, task[t]) /\ SharedTyped
      /\ t \notin Agents
  BY Kinds DEF FenceAcquire, At
<1>2. task[t].got = {}
  BY <1>1 DEF Sound
<1>3. ASSUME NEW r, Become(t, r), epoch' \in Nat, NEW answer \in Verdicts, NEW failed \in BOOLEAN,
             Acquire(Main(t), task[t].seen, answer, failed), UNCHANGED <<landed, diagnostics>>,
             Authority(answer),
             r = [task[t] EXCEPT !.pc = "fence_append", !.epoch = epoch', !.hit = @ \/ failed]
      PROVE  Step(t)
  <2>1. r \in TaskRecord
    BY <1>1, <1>3, Places DEF TaskRecord
  <2>5. ~r.hit => halt' # "none"
    BY <1>1, <1>3, Reset DEF Sound, TaskRecord
  <2>2. /\ holder' \in {holder, [by |-> Main(t), fresh |-> TRUE]}
        /\ halt' = halt \/ halt' # "none"
        /\ failed => answer = "REFUSED"
        /\ ~Authority(answer) /\ ~failed => UNCHANGED <<store, halt>>
        /\ UNCHANGED <<landed, sink, imported, lost>>
    BY <1>1, <1>3, Acquired DEF diagnostics
  <2>3. Sound(t, r)'
    BY <1>1, <1>3, <2>2, <2>5, Names DEF Sound, TaskRecord, Entered, store
  <2>4. (r.diagnosed => task[t].diagnosed) /\ task[t].got \subseteq r.got
    BY <1>1, <1>3, <1>2 DEF TaskRecord
  <2>. QED
    BY <1>3, <2>1, <2>3, <2>4, TakeStep
<1>4. ASSUME NEW r, Become(t, r), epoch' \in Nat, NEW answer \in Verdicts, NEW failed \in BOOLEAN,
             Acquire(Main(t), task[t].seen, answer, failed), UNCHANGED <<landed, diagnostics>>,
             ~Authority(answer),
             r = [task[t] EXCEPT !.pc = "fence_retry", !.hit = @ \/ failed]
      PROVE  Step(t)
  <2>1. r \in TaskRecord
    BY <1>1, <1>4, Places DEF TaskRecord
  <2>2. /\ holder' \in {holder, [by |-> Main(t), fresh |-> TRUE]}
        /\ halt' = halt \/ halt' # "none"
        /\ failed => answer = "REFUSED"
        /\ ~Authority(answer) /\ ~failed => UNCHANGED <<store, halt>>
        /\ UNCHANGED <<landed, sink, imported, lost>>
    BY <1>1, <1>4, Acquired DEF diagnostics
  <2>3. Sound(t, r)'
    BY <1>1, <1>4, <2>2, Names DEF Sound, TaskRecord, Entered, store
  <2>4. (r.diagnosed => task[t].diagnosed) /\ task[t].got \subseteq r.got
    BY <1>1, <1>4, <1>2 DEF TaskRecord
  <2>. QED
    BY <1>4, <2>1, <2>3, <2>4, TakeStep
<1>5. PICK answer \in Verdicts, failed \in BOOLEAN :
        /\ Acquire(Main(t), task[t].seen, answer, failed) /\ UNCHANGED <<landed, diagnostics>>
        /\ Become(t, [task[t] EXCEPT !.pc = IF Authority(answer) THEN "fence_append" ELSE "fence_retry",
                                     !.epoch = IF Authority(answer) THEN epoch' ELSE @,
                                     !.hit = @ \/ failed])
  BY DEF FenceAcquire
<1>6. epoch' \in Nat
  BY <1>1, <1>5, Acquired
<1>7. CASE Authority(answer)
  BY <1>1, <1>5, <1>6, <1>3, <1>7 DEF Become, TaskRecord
<1>8. CASE ~Authority(answer)
  BY <1>1, <1>5, <1>6, <1>4, <1>8 DEF Become, TaskRecord
<1>. QED
  BY <1>7, <1>8

LEMMA Acquiring ==
    ASSUME TInv, NEW t \in Tasks, acquireAuthority(t)
    PROVE  Step(t)
<1>1. /\ task[t].pc = "acquire" /\ task[t] \in TaskRecord /\ Sound(t, task[t]) /\ SharedTyped
  BY Kinds DEF acquireAuthority, At
<1>2. task[t].got = {}
  BY <1>1 DEF Sound
<1>3. ASSUME NEW r, Become(t, r), epoch' \in Nat, NEW answer \in Verdicts, NEW failed \in BOOLEAN,
             Acquire(Main(t), task[t].seen, answer, failed), UNCHANGED <<landed, diagnostics>>,
             Authority(answer), t \in Agents /\ t \notin DeadlineTasks /\ t \notin WatchdogTasks,
             r = [task[t] EXCEPT !.hit = @ \/ failed, !.epoch = epoch', !.seen = 0, !.pc = "observe"]
      PROVE  Step(t)
  <2>1. r \in TaskRecord
    BY <1>1, <1>3, Places DEF TaskRecord
  <2>2. /\ holder' \in {holder, [by |-> Main(t), fresh |-> TRUE]}
        /\ halt' = halt \/ halt' # "none"
        /\ failed => answer = "REFUSED"
        /\ ~Authority(answer) /\ ~failed => UNCHANGED <<store, halt>>
        /\ UNCHANGED <<landed, sink, imported, lost>>
    BY <1>1, <1>3, Acquired DEF diagnostics
  <2>3. Sound(t, r)'
    BY <1>1, <1>3, <2>2, Names DEF Sound, TaskRecord, Entered, store
  <2>4. (r.diagnosed => task[t].diagnosed) /\ task[t].got \subseteq r.got
    BY <1>1, <1>3, <1>2 DEF TaskRecord
  <2>. QED
    BY <1>3, <2>1, <2>3, <2>4, TakeStep
<1>4. ASSUME NEW r, Become(t, r), epoch' \in Nat, NEW answer \in Verdicts, NEW failed \in BOOLEAN,
             Acquire(Main(t), task[t].seen, answer, failed), UNCHANGED <<landed, diagnostics>>,
             Authority(answer), t \in DeadlineTasks /\ t \notin Agents /\ t \notin WatchdogTasks,
             r = [task[t] EXCEPT !.hit = @ \/ failed, !.epoch = epoch', !.seen = 0, !.pc = "calendar"]
      PROVE  Step(t)
  <2>1. r \in TaskRecord
    BY <1>1, <1>4, Places DEF TaskRecord
  <2>2. /\ holder' \in {holder, [by |-> Main(t), fresh |-> TRUE]}
        /\ halt' = halt \/ halt' # "none"
        /\ failed => answer = "REFUSED"
        /\ ~Authority(answer) /\ ~failed => UNCHANGED <<store, halt>>
        /\ UNCHANGED <<landed, sink, imported, lost>>
    BY <1>1, <1>4, Acquired DEF diagnostics
  <2>3. Sound(t, r)'
    BY <1>1, <1>4, <2>2, Names DEF Sound, TaskRecord, Entered, store
  <2>4. (r.diagnosed => task[t].diagnosed) /\ task[t].got \subseteq r.got
    BY <1>1, <1>4, <1>2 DEF TaskRecord
  <2>. QED
    BY <1>4, <2>1, <2>3, <2>4, TakeStep
<1>5. ASSUME NEW r, Become(t, r), epoch' \in Nat, NEW answer \in Verdicts, NEW failed \in BOOLEAN,
             Acquire(Main(t), task[t].seen, answer, failed), UNCHANGED <<landed, diagnostics>>,
             Authority(answer), t \in WatchdogTasks /\ t \notin Agents /\ t \notin DeadlineTasks,
             r = [task[t] EXCEPT !.hit = @ \/ failed, !.epoch = epoch', !.seen = 0, !.pc = "takeover"]
      PROVE  Step(t)
  <2>1. r \in TaskRecord
    BY <1>1, <1>5, Places DEF TaskRecord
  <2>2. /\ holder' \in {holder, [by |-> Main(t), fresh |-> TRUE]}
        /\ halt' = halt \/ halt' # "none"
        /\ failed => answer = "REFUSED"
        /\ ~Authority(answer) /\ ~failed => UNCHANGED <<store, halt>>
        /\ UNCHANGED <<landed, sink, imported, lost>>
    BY <1>1, <1>5, Acquired DEF diagnostics
  <2>3. Sound(t, r)'
    BY <1>1, <1>5, <2>2, Names DEF Sound, TaskRecord, Entered, store
  <2>4. (r.diagnosed => task[t].diagnosed) /\ task[t].got \subseteq r.got
    BY <1>1, <1>5, <1>2 DEF TaskRecord
  <2>. QED
    BY <1>5, <2>1, <2>3, <2>4, TakeStep
<1>6. ASSUME NEW r, Become(t, r), epoch' \in Nat, NEW answer \in Verdicts, NEW failed \in BOOLEAN,
             Acquire(Main(t), task[t].seen, answer, failed), UNCHANGED <<landed, diagnostics>>,
             ~Authority(answer), t \in WatchdogTasks /\ t \notin Agents /\ t \notin DeadlineTasks,
             r = [task[t] EXCEPT !.hit = @ \/ failed, !.seen = 0, !.pc = "ping", !.plan = "fail", !.epoch = 0]
      PROVE  Step(t)
  <2>1. r \in TaskRecord
    BY <1>1, <1>6, Places DEF TaskRecord
  <2>2. /\ holder' \in {holder, [by |-> Main(t), fresh |-> TRUE]}
        /\ halt' = halt \/ halt' # "none"
        /\ failed => answer = "REFUSED"
        /\ ~Authority(answer) /\ ~failed => UNCHANGED <<store, halt>>
        /\ UNCHANGED <<landed, sink, imported, lost>>
    BY <1>1, <1>6, Acquired DEF diagnostics
  <2>3. Sound(t, r)'
    BY <1>1, <1>6, <2>2, Names DEF Sound, TaskRecord, Entered, store
  <2>4. (r.diagnosed => task[t].diagnosed) /\ task[t].got \subseteq r.got
    BY <1>1, <1>6, <1>2 DEF TaskRecord
  <2>. QED
    BY <1>6, <2>1, <2>3, <2>4, TakeStep
<1>7. ASSUME NEW r, Become(t, r), epoch' \in Nat, NEW answer \in Verdicts, NEW failed \in BOOLEAN,
             Acquire(Main(t), task[t].seen, answer, failed), UNCHANGED <<landed, diagnostics>>,
             answer \in {"SUPPRESSED", "LOST"}, ~Authority(answer),
             t \in Agents /\ t \notin DeadlineTasks /\ t \notin WatchdogTasks,
             r = [task[t] EXCEPT !.hit = @ \/ failed, !.seen = 0, !.pc = "witness", !.epoch = 0]
      PROVE  Step(t)
  <2>1. r \in TaskRecord
    BY <1>1, <1>7, Places DEF TaskRecord
  <2>2. /\ holder' \in {holder, [by |-> Main(t), fresh |-> TRUE]}
        /\ halt' = halt \/ halt' # "none"
        /\ failed => answer = "REFUSED"
        /\ ~Authority(answer) /\ ~failed => UNCHANGED <<store, halt>>
        /\ UNCHANGED <<landed, sink, imported, lost>>
    BY <1>1, <1>7, Acquired DEF diagnostics
  <2>3. Sound(t, r)'
    BY <1>1, <1>7, <2>2, Names DEF Sound, TaskRecord, Entered, store
  <2>4. (r.diagnosed => task[t].diagnosed) /\ task[t].got \subseteq r.got
    BY <1>1, <1>7, <1>2 DEF TaskRecord
  <2>. QED
    BY <1>7, <2>1, <2>3, <2>4, TakeStep
<1>8. ASSUME NEW r, Become(t, r), epoch' \in Nat, NEW answer \in Verdicts, NEW failed \in BOOLEAN,
             Acquire(Main(t), task[t].seen, answer, failed), UNCHANGED <<landed, diagnostics>>,
             ~Authority(answer), t \notin WatchdogTasks, t \in Agents \/ t \in DeadlineTasks,
             NEW code \in ExitCodes, code \in {1, 3},
             r = Over([task[t] EXCEPT !.hit = @ \/ failed, !.epoch = epoch', !.seen = 0], code)
      PROVE  Step(t)
  <2>1. [task[t] EXCEPT !.hit = @ \/ failed, !.epoch = epoch', !.seen = 0] \in TaskRecord
    BY <1>1, <1>8, Places DEF TaskRecord
  <2>2. r \in TaskRecord
    BY <1>1, <1>8, <2>1, Places, OverTyped DEF TaskRecord
  <2>3. /\ holder' \in {holder, [by |-> Main(t), fresh |-> TRUE]}
        /\ halt' = halt \/ halt' # "none"
        /\ failed => answer = "REFUSED"
        /\ ~Authority(answer) /\ ~failed => UNCHANGED <<store, halt>>
        /\ UNCHANGED <<landed, sink, imported, lost>>
    BY <1>1, <1>8, Acquired DEF diagnostics
  <2>4. Sound(t, r)'
    BY <1>1, <1>8, <2>3, Names DEF Sound, TaskRecord, Over, Entered, store
  <2>5. (r.diagnosed => task[t].diagnosed) /\ task[t].got \subseteq r.got
    BY <1>1, <1>8, <1>2 DEF TaskRecord, Over
  <2>. QED
    BY <1>8, <2>2, <2>4, <2>5, TakeStep
<1>9. /\ t \in Agents => t \notin DeadlineTasks /\ t \notin WatchdogTasks
      /\ t \in DeadlineTasks => t \notin WatchdogTasks
      /\ t \in Agents \/ t \in DeadlineTasks \/ t \in WatchdogTasks
  BY Kinds
<1>10. PICK answer \in Verdicts, failed \in BOOLEAN :
        /\ Acquire(Main(t), task[t].seen, answer, failed) /\ UNCHANGED <<landed, diagnostics>>
        /\ Become(t, AfterAcquisition(t, [task[t] EXCEPT !.hit = @ \/ failed, !.epoch = epoch', !.seen = 0], answer))
  BY DEF acquireAuthority
<1>11. epoch' \in Nat
  BY <1>1, <1>10, Acquired
<1>12. CASE Authority(answer) /\ t \in Agents
  BY <1>1, <1>9, <1>10, <1>11, <1>3, <1>12 DEF AfterAcquisition, AfterFence, TaskRecord
<1>13. CASE Authority(answer) /\ t \in DeadlineTasks
  BY <1>1, <1>9, <1>10, <1>11, <1>4, <1>13 DEF AfterAcquisition, AfterFence, TaskRecord
<1>14. CASE Authority(answer) /\ t \in WatchdogTasks
  BY <1>1, <1>9, <1>10, <1>11, <1>5, <1>14 DEF AfterAcquisition, AfterFence, TaskRecord
<1>15. CASE ~Authority(answer) /\ t \in WatchdogTasks
  BY <1>1, <1>9, <1>10, <1>11, <1>6, <1>15 DEF AfterAcquisition, AfterFence, TaskRecord
<1>16. CASE ~Authority(answer) /\ t \in Agents /\ answer \in {"SUPPRESSED", "LOST"}
  BY <1>1, <1>9, <1>10, <1>11, <1>7, <1>16 DEF AfterAcquisition, AfterFence, TaskRecord
<1>17. CASE ~Authority(answer) /\ t \notin WatchdogTasks /\ ~(t \in Agents /\ answer \in {"SUPPRESSED", "LOST"})
  BY <1>1, <1>9, <1>10, <1>11, <1>8, <1>17, Places DEF AfterAcquisition, AfterFence, TaskRecord,
     deadlineCliExitCode
<1>. QED
  BY <1>9, <1>12, <1>13, <1>14, <1>15, <1>16, <1>17

-----------------------------------------------------------------------------
(***************************************************************************)
(* ... and the diagnostics it leaves, imports or takes with it.            *)
(***************************************************************************)
LEMMA Starting ==
    ASSUME TInv, NEW t \in Tasks, runStartup(t)
    PROVE  Step(t)
<1>1. /\ task[t].pc = "new" /\ task[t] \in TaskRecord /\ Sound(t, task[t]) /\ SharedTyped
      /\ t \in Agents /\ t \notin DeadlineTasks /\ t \notin WatchdogTasks
  BY Kinds DEF runStartup, At, Starts
<1>2. task[t].got = {}
  BY <1>1 DEF Sound
<1>3. ASSUME NEW r, Become(t, r), UNCHANGED <<store, journal>>, UNCHANGED <<imported, lost>>,
             sink' = sink \cup {t},
             r = Over([task[t] EXCEPT !.diagnosed = TRUE, !.pings = @ \cup {"fail"}, !.claim = FALSE], 1)
      PROVE  Step(t)
  <2>1. [task[t] EXCEPT !.diagnosed = TRUE, !.pings = @ \cup {"fail"}, !.claim = FALSE] \in TaskRecord
    BY <1>1, <1>3, Places DEF TaskRecord
  <2>2. r \in TaskRecord
    BY <1>1, <1>3, <2>1, Places, OverTyped DEF TaskRecord
  <2>3. UNCHANGED <<epoch, writer, encumbered, halt, landed>> /\ holder' = holder
    BY <1>3 DEF store, journal
  <2>4. Sound(t, r)'
    BY <1>1, <1>3, <1>2, <2>3, Names DEF Sound, TaskRecord, Over, Entered, IsWriter,
       TerminalStands
  <2>5. Careful(t, r)
    BY <1>1, <1>3, <1>2 DEF Careful, Sound, TaskRecord, Over
  <2>6. sink' \subseteq Agents /\ imported' \subseteq Agents /\ lost' \subseteq Agents
    BY <1>1, <1>3 DEF SharedTyped, TaskRecord
  <2>. QED
    BY <1>3, <2>2, <2>3, <2>4, <2>5, <2>6, SinkStep
<1>4. ASSUME NEW r, Become(t, r), UNCHANGED <<store, journal, diagnostics>>,
             r = [task[t] EXCEPT !.pc = "startup_acquire", !.why = "config", !.seen = epoch]
      PROVE  Step(t)
  <2>1. r \in TaskRecord
    BY <1>1, <1>4, Places DEF TaskRecord, SharedTyped
  <2>2. Sound(t, r)
    BY <1>1, <1>4 DEF Sound, TaskRecord
  <2>. QED
    BY <1>1, <1>4, <1>2, <2>1, <2>2, QuietStep DEF TaskRecord
<1>5. ASSUME NEW r, Become(t, r), UNCHANGED <<store, journal, diagnostics>>,
             NEW pc \in {"drain", "prepare"},
             r = [task[t] EXCEPT !.pc = pc]
      PROVE  Step(t)
  <2>1. r \in TaskRecord
    BY <1>1, <1>5, Places DEF TaskRecord
  <2>2. Sound(t, r)
    BY <1>1, <1>5 DEF Sound, TaskRecord
  <2>. QED
    BY <1>1, <1>5, <1>2, <2>1, <2>2, QuietStep DEF TaskRecord
<1>. QED
  BY <1>1, <1>3, <1>4, <1>5 DEF runStartup, Become, Goto, RefusedToArm, diagnostics

LEMMA Truncating ==
    ASSUME TInv, NEW t \in Tasks, Truncate(t)
    PROVE  Step(t)
<1>1. /\ task[t].pc = "truncate" /\ task[t] \in TaskRecord /\ Sound(t, task[t]) /\ SharedTyped
      /\ t \in Agents /\ t \notin DeadlineTasks /\ t \notin WatchdogTasks
  BY Kinds DEF Truncate, At
<1>2. ASSUME NEW r, Become(t, r), UNCHANGED <<store, journal>>, UNCHANGED imported, sink' = {},
             lost' = lost \cup (sink \ task[t].got),
             r = [task[t] EXCEPT !.pc = "import"]
      PROVE  Step(t)
  <2>1. task[t].got \subseteq Agents
    BY <1>1 DEF TaskRecord
  <2>2. r \in TaskRecord
    BY <1>1, <1>2, <2>1, Places DEF TaskRecord
  <2>3. UNCHANGED <<epoch, writer, encumbered, halt, landed>> /\ holder' = holder
    BY <1>2 DEF store, journal
  <2>4. Sound(t, r)'
    BY <1>1, <1>2, <2>3, Names DEF Sound, TaskRecord, Entered, IsWriter, TerminalStands
  <2>5. Careful(t, r)
    BY <1>1, <1>2 DEF Careful, Sound, TaskRecord
  <2>6. sink' \subseteq Agents /\ imported' \subseteq Agents /\ lost' \subseteq Agents
    BY <1>1, <1>2 DEF SharedTyped, TaskRecord
  <2>. QED
    BY <1>2, <2>2, <2>3, <2>4, <2>5, <2>6, SinkStep
<1>. QED
  BY <1>2 DEF Truncate, Goto, store, journal

LEMMA StartupReleasing ==
    ASSUME TInv, NEW t \in Tasks, StartupRelease(t)
    PROVE  Step(t)
<1>1. /\ task[t].pc = "startup_release" /\ task[t] \in TaskRecord /\ Sound(t, task[t]) /\ SharedTyped
      /\ t \in Agents /\ t \notin DeadlineTasks /\ t \notin WatchdogTasks
  BY Kinds DEF StartupRelease, At
<1>2. ASSUME NEW r, Become(t, r), UNCHANGED <<journal, lost, imported, sink>>,
             ReleaseHolder(StartupInstance(t)), task[t].why = "config", task[t].claim,
             r = Over([task[t] EXCEPT !.diagnosed = FALSE, !.pings = @ \cup {"fail"}, !.claim = FALSE], 1)
      PROVE  Step(t)
  <2>1. [task[t] EXCEPT !.diagnosed = FALSE, !.pings = @ \cup {"fail"}, !.claim = FALSE] \in TaskRecord
    BY <1>1, <1>2, Places DEF TaskRecord
  <2>2. r \in TaskRecord
    BY <1>1, <1>2, <2>1, Places, OverTyped DEF TaskRecord
  <2>3. UNCHANGED <<epoch, writer, encumbered, halt, landed>> /\ holder' \in {holder, NoHolder}
        /\ holder'.by \in {holder.by, Nobody} /\ holder'.by # StartupInstance(t)
    BY <1>2, Names DEF ReleaseHolder, NoHolder, journal
  <2>4. Sound(t, r)'
    BY <1>1, <1>2, <2>3, Names DEF Sound, TaskRecord, Over, Entered, IsWriter, TerminalStands
  <2>5. Careful(t, r)
    BY <1>1, <1>2 DEF Careful, Sound, TaskRecord, Over
  <2>6. sink' \subseteq Agents /\ imported' \subseteq Agents /\ lost' \subseteq Agents
    BY <1>1, <1>2 DEF SharedTyped, TaskRecord
  <2>. QED
    BY <1>2, <2>2, <2>3, <2>4, <2>5, <2>6, SinkStep
<1>3. ASSUME NEW r, Become(t, r), UNCHANGED <<journal, lost, imported>>,
             ReleaseHolder(StartupInstance(t)), task[t].why = "config", ~task[t].claim,
             sink' = sink \cup {t},
             r = Over([task[t] EXCEPT !.diagnosed = TRUE, !.pings = @ \cup {"fail"}, !.claim = FALSE], 1)
      PROVE  Step(t)
  <2>1. [task[t] EXCEPT !.diagnosed = TRUE, !.pings = @ \cup {"fail"}, !.claim = FALSE] \in TaskRecord
    BY <1>1, <1>3, Places DEF TaskRecord
  <2>2. r \in TaskRecord
    BY <1>1, <1>3, <2>1, Places, OverTyped DEF TaskRecord
  <2>3. UNCHANGED <<epoch, writer, encumbered, halt, landed>> /\ holder' \in {holder, NoHolder}
        /\ holder'.by \in {holder.by, Nobody} /\ holder'.by # StartupInstance(t)
    BY <1>3, Names DEF ReleaseHolder, NoHolder, journal
  <2>4. Sound(t, r)'
    BY <1>1, <1>3, <2>3, Names DEF Sound, TaskRecord, Over, Entered, IsWriter, TerminalStands
  <2>5. Careful(t, r)
    BY <1>1, <1>3 DEF Careful, Sound, TaskRecord, Over
  <2>6. sink' \subseteq Agents /\ imported' \subseteq Agents /\ lost' \subseteq Agents
    BY <1>1, <1>3 DEF SharedTyped, TaskRecord
  <2>. QED
    BY <1>3, <2>2, <2>3, <2>4, <2>5, <2>6, SinkStep
<1>4. ASSUME NEW r, Become(t, r), UNCHANGED <<journal, lost>>, ReleaseHolder(StartupInstance(t)),
             task[t].why = "import", NEW d \in task[t].got,
             imported' = IF task[t].claim THEN imported \cup {d} ELSE imported,
             sink' = IF task[t].claim THEN sink ELSE sink \cup {d},
             r = [task[t] EXCEPT !.pc = "import", !.got = @ \ {d}, !.epoch = 0, !.claim = FALSE]
      PROVE  Step(t)
  <2>1. task[t].got \subseteq Agents
    BY <1>1 DEF TaskRecord
  <2>2. r \in TaskRecord
    BY <1>1, <1>4, <2>1, Places DEF TaskRecord
  <2>3. UNCHANGED <<epoch, writer, encumbered, halt, landed>> /\ holder' \in {holder, NoHolder}
        /\ holder'.by \in {holder.by, Nobody} /\ holder'.by # StartupInstance(t)
    BY <1>4, Names DEF ReleaseHolder, NoHolder, journal
  <2>4. Sound(t, r)'
    BY <1>1, <1>4, <2>3, Names DEF Sound, TaskRecord, Entered, IsWriter, TerminalStands
  <2>5. Careful(t, r)
    BY <1>1, <1>4 DEF Careful, Sound, TaskRecord
  <2>6. sink' \subseteq Agents /\ imported' \subseteq Agents /\ lost' \subseteq Agents
    BY <1>1, <1>4 DEF SharedTyped, TaskRecord
  <2>. QED
    BY <1>4, <2>2, <2>3, <2>4, <2>5, <2>6, SinkStep
<1>. QED
  BY <1>2, <1>3, <1>4 DEF StartupRelease, Become, RefusedToArm, afterAppend

LEMMA Dying ==
    ASSUME TInv, NEW t \in Tasks, t \in Running, ProcessDies(t)
    PROVE  Step(t)
<1>1. task[t] \in TaskRecord /\ Sound(t, task[t]) /\ SharedTyped /\ task[t].pc # "new"
  BY Kinds DEF Running
<1>2. ASSUME NEW r, Become(t, r), UNCHANGED <<store, journal, sink, imported>>,
             lost' = lost \cup task[t].got,
             r = Over([task[t] EXCEPT !.child = FALSE], -1)
      PROVE  Step(t)
  <2>1. [task[t] EXCEPT !.child = FALSE] \in TaskRecord
    BY <1>1, <1>2, Places DEF TaskRecord
  <2>2. r \in TaskRecord
    BY <1>1, <1>2, <2>1, Places, OverTyped DEF TaskRecord
  <2>3. UNCHANGED <<epoch, writer, encumbered, halt, landed>> /\ holder' = holder
    BY <1>2 DEF store, journal
  <2>4. Sound(t, r)'
    BY <1>1, <1>2, <2>3, Names DEF Sound, TaskRecord, Over, Entered, IsWriter, TerminalStands
  <2>5. Careful(t, r)
    BY <1>1, <1>2 DEF Careful, Sound, TaskRecord, Over
  <2>6. sink' \subseteq Agents /\ imported' \subseteq Agents /\ lost' \subseteq Agents
    BY <1>1, <1>2 DEF SharedTyped, TaskRecord
  <2>. QED
    BY <1>2, <2>2, <2>3, <2>4, <2>5, <2>6, SinkStep
<1>. QED
  BY <1>2 DEF ProcessDies, Become, store, journal

HIDE DEF Alone, Placed, Answered, Childless, Carried, Among, Dutiful, Reported, Halted, Holding, First,
         Died, AgentPcs, DeadlinePcs, WatchdogPcs, Beginning, Importing, Fencing

-----------------------------------------------------------------------------
(***************************************************************************)
(* The environment.                                                        *)
(***************************************************************************)
LEMMA Aside ==
    ASSUME TInv, SharedTyped', UNCHANGED <<task, halt, landed, sink, imported, lost>>,
           holder'.by = holder.by,
           UNCHANGED <<epoch, writer, encumbered>> \/ writer' = Nobody
    PROVE  TInv'
<1>1. Typed' /\ Single' /\ DiagnosticsSurvive'
  BY DEF TInv, Typed, Single, DiagnosticsSurvive
<1>2. ASSUME NEW u \in Tasks
      PROVE  Sound(u, task[u])'
  <2>1. Sound(u, task[u])
    BY DEF TInv
  <2>2. /\ Alone(u, task[u])' /\ Dutiful(u, task[u])' /\ Reported(u, task[u])'
        /\ Halted(u, task[u])' /\ Holding(u, task[u])'
    BY <2>1 DEF Sound, Alone, Placed, Answered, Childless, Carried, Among, Dutiful, Reported, Halted,
       Holding,
       Died, Entered
  <2>3. First(u, task[u])'
    BY <2>1, Names DEF Sound, Among, First, IsWriter, TerminalStands
  <2>. QED
    BY <2>2, <2>3 DEF Sound, Among
<1>. QED
  BY <1>1, <1>2 DEF TInv

LEMMA EnvironmentKeeps ==
    ASSUME TInv, HolderAges \/ StoreLost \/ UNCHANGED taskVars
    PROVE  TInv'
<1>. USE DEF TInv, Typed
<1>1. CASE HolderAges
  <2>1. /\ UNCHANGED <<epoch, writer, encumbered, halt, landed, sink, imported, lost, task>>
        /\ holder' = [holder EXCEPT !.fresh = FALSE]
    BY <1>1 DEF HolderAges, journal, diagnostics
  <2>2. holder'.by = holder.by /\ holder' \in [by : Holders, fresh : BOOLEAN]
    BY <2>1 DEF SharedTyped
  <2>3. SharedTyped'
    BY <2>1, <2>2 DEF SharedTyped
  <2>. QED
    BY <2>1, <2>2, <2>3, Aside
<1>2. CASE StoreLost
  <2>1. /\ UNCHANGED <<holder, halt, landed, sink, imported, lost, task>>
        /\ epoch' = 0 /\ writer' = Nobody /\ encumbered' = FALSE
    BY <1>2 DEF StoreLost, journal, diagnostics
  <2>2. SharedTyped'
    BY <2>1 DEF SharedTyped
  <2>. QED
    BY <2>1, <2>2, Aside
<1>3. CASE UNCHANGED taskVars
  <2>1. UNCHANGED <<epoch, writer, encumbered, holder, halt, landed, sink, imported, lost, task>>
    BY <1>3 DEF taskVars, store
  <2>2. SharedTyped'
    BY <2>1 DEF SharedTyped
  <2>. QED
    BY <2>1, <2>2, Aside
<1>. QED
  BY <1>1, <1>2, <1>3

\* Whoever lifts a halt marks the watchdogs that may still report it.
LEMMA UnhaltKeeps ==
    ASSUME TInv, HumanUnhalt
    PROVE  TInv'
<1>1. /\ UNCHANGED <<epoch, writer, encumbered, holder, landed, sink, imported, lost>>
      /\ task' = [t \in Tasks |-> [task[t] EXCEPT !.cleared = t \in WatchdogTasks, !.lifted = task[t].auth]]
  BY DEF HumanUnhalt, store, diagnostics
<1>2. ASSUME NEW u \in Tasks
      PROVE  \E mark \in BOOLEAN :
               /\ mark <=> u \in WatchdogTasks
               /\ task'[u] = [task[u] EXCEPT !.cleared = mark, !.lifted = task[u].auth]
               /\ task'[u] \in TaskRecord
  <2>1. /\ task[u] \in TaskRecord
        /\ task'[u] = [task[u] EXCEPT !.cleared = u \in WatchdogTasks, !.lifted = task[u].auth]
    BY <1>1 DEF TInv, Typed
  <2>2. CASE u \in WatchdogTasks
    <3>1. task'[u] = [task[u] EXCEPT !.cleared = TRUE, !.lifted = task[u].auth]
      BY <2>1, <2>2
    <3>. QED
      BY <2>1, <2>2, <3>1 DEF TaskRecord
  <2>3. CASE u \notin WatchdogTasks
    <3>1. (u \in WatchdogTasks) = FALSE
      BY <2>3
    <3>2. task'[u] = [task[u] EXCEPT !.cleared = FALSE, !.lifted = task[u].auth]
      BY <2>1, <3>1, Zenon
    <3>. QED
      BY <2>1, <2>3, <3>2 DEF TaskRecord
  <2>. QED
    BY <2>2, <2>3
<1>3. Typed'
  BY <1>1, <1>2 DEF TInv, Typed, SharedTyped
<1>4. ASSUME NEW u \in Tasks
      PROVE  Sound(u, task[u])'
  <2>1. PICK mark \in BOOLEAN : /\ mark <=> u \in WatchdogTasks
                                /\ task'[u] = [task[u] EXCEPT !.cleared = mark, !.lifted = task[u].auth]
    BY <1>2
  <2>2. Sound(u, task[u]) /\ task[u] \in TaskRecord
    BY DEF TInv, Typed
  <2>3. PICK q : q = task[u]
    OBVIOUS
  <2>4. PICK r : r = [q EXCEPT !.cleared = mark, !.lifted = q.auth]
    OBVIOUS
  <2>5. /\ r.pc = q.pc /\ r.why = q.why /\ r.auth = q.auth /\ r.hit = q.hit /\ r.exit = q.exit
        /\ r.child = q.child /\ r.got = q.got /\ r.admitted = q.admitted /\ r.outrun = q.outrun
        /\ r.seen = q.seen /\ r.epoch = q.epoch /\ r.command = q.command /\ r.plan = q.plan
        /\ r.pings = q.pings /\ r.claim = q.claim /\ r.sawHalt = q.sawHalt
        /\ r.cleared = mark /\ r.lifted = q.auth
    BY <2>2, <2>3, <2>4 DEF TaskRecord
  <2>6. Sound(u, q) /\ task'[u] = r
    BY <2>1, <2>2, <2>3, <2>4
  <2>7. Alone(u, r)'
    BY <2>5, <2>6 DEF Sound, Alone, Placed, Answered, Childless, Carried, Died
  <2>8. Dutiful(u, r)'
    BY <1>1, <2>5, <2>6 DEF Sound, Among, Dutiful, Died, Entered
  <2>9. Reported(u, r)' /\ Halted(u, r)'
    BY <2>1, <2>5, <2>6 DEF Sound, Among, Reported, Halted, Died
  <2>10. Holding(u, r)' /\ First(u, r)'
    BY <1>1, <2>5, <2>6 DEF Sound, Among, Holding, First, Died, IsWriter, TerminalStands
  <2>11. Sound(u, r)'
    BY <2>7, <2>8, <2>9, <2>10 DEF Sound, Among
  <2>. QED
    BY <2>6, <2>11 DEF Sound, Alone, Placed, Answered, Childless, Carried, Among, Dutiful,
       Reported, Halted, Holding, First, Died, Entered, IsWriter, TerminalStands
<1>5. Single'
  BY <1>1 DEF TInv, Single
<1>6. \A u \in Tasks : task'[u].diagnosed = task[u].diagnosed /\ task'[u].got = task[u].got
  BY <1>2 DEF TInv, Typed, TaskRecord
<1>7. DiagnosticsSurvive'
  BY <1>1, <1>6 DEF TInv, DiagnosticsSurvive, Tasks
<1>. QED
  BY <1>3, <1>4, <1>5, <1>7 DEF TInv

-----------------------------------------------------------------------------
LEMMA TInvInitially ==
    TasksInit => TInv
<1>. SUFFICES ASSUME TasksInit
              PROVE  TInv
  OBVIOUS
<1>1. FreshTask \in TaskRecord
  <2>1. "new" \in Pcs
    BY DEF Pcs, AgentPcs, Beginning
  <2>. QED
    BY <2>1, Places DEF FreshTask, TaskRecord
<1>2. SharedTyped
  <2>1. holder \in [by : Holders, fresh : BOOLEAN]
    BY Recorded DEF TasksInit, NoHolder, Holders
  <2>2. epoch \in Nat
    BY DEF TasksInit
  <2>3. encumbered \in BOOLEAN
    BY DEF TasksInit
  <2>4. landed \in [Tasks -> SUBSET Entries] /\ sink = {} /\ imported = {} /\ lost = {}
    BY DEF TasksInit
  <2>. QED
    BY <2>1, <2>2, <2>3, <2>4 DEF SharedTyped
<1>3. ASSUME NEW t \in Tasks
      PROVE  Sound(t, task[t])
  <2>1. task[t] = FreshTask /\ holder.by = Nobody
    BY DEF TasksInit, NoHolder
  <2>. QED
    BY <2>1, Names DEF Sound, Alone, Placed, Answered, Childless, Carried, Among, Dutiful,
       Reported, Halted,
       Holding, First, Died, AgentPcs, DeadlinePcs, WatchdogPcs, Beginning, Importing, Fencing, FreshTask
<1>. QED
  BY <1>1, <1>2, <1>3 DEF TInv, Typed, TasksInit, Single, DiagnosticsSurvive, FreshTask, Tasks

LEMMA EveryStep ==
    ASSUME TInv, NEW t \in Tasks, Start(t) \/ (t \in Running /\ TaskStep(t))
    PROVE  Step(t)
BY Starting, Composing, Assessing, Draining, Truncating, Importation, StartupAcquiring,
   StartupAppending, StartupReleasing, Preparing, Acquiring, Witnessing, Observing, ReadingCalendar,
   Launching, HaltingForAnalyst, Counting, RejectedInCycle, Cycling, Admitting, Assembling, Reporting,
   TakingOver, Recovering, Persisting, FenceAcquiring, FenceAppending, FenceRetrying, PingingFence,
   Pinging, Releasing, ShuttingDown, Dying
   DEF Start, TaskStep

LEMMA TInvKept ==
    TInv /\ [TasksNext]_taskVars => TInv'
<1>. SUFFICES ASSUME TInv, [TasksNext]_taskVars
              PROVE  TInv'
  OBVIOUS
<1>1. ASSUME NEW t \in Tasks, Start(t) \/ (t \in Running /\ TaskStep(t))
      PROVE  TInv'
  BY <1>1, EveryStep, StepKeeps
<1>2. CASE HumanUnhalt
  BY <1>2, UnhaltKeeps
<1>3. CASE HolderAges \/ StoreLost \/ UNCHANGED taskVars
  BY <1>3, EnvironmentKeeps
<1>. QED
  BY <1>1, <1>2, <1>3 DEF TasksNext, Running

LEMMA TInvAlways ==
    TasksSpec => []TInv
BY TInvInitially, TInvKept, PTL DEF TasksSpec

-----------------------------------------------------------------------------
(***************************************************************************)
(* However many processes are started for the controlled end, die, stall   *)
(* or lose the epoch store under their feet: one TERMINAL (S-G11-04;       *)
(* deadline-runtime.ts:344).                                               *)
(***************************************************************************)
THEOREM TerminalIsUnique == TasksSpec => []OneTerminal
<1>. DEFINE S == {t \in Tasks : "TERMINAL" \in landed[t]}
<1>1. TInv => OneTerminal
  <2>. SUFFICES ASSUME TInv
                PROVE  Cardinality(S) <= 1
    BY DEF OneTerminal
  <2>1. CASE S = {}
    BY <2>1, FS_EmptySet
  <2>2. CASE S # {}
    <3>1. PICK t \in S : TRUE
      BY <2>2
    <3>2. S = {t}
      BY <3>1 DEF TInv, Single
    <3>3. Cardinality({t}) = 1
      BY FS_Singleton
    <3>. QED
      BY <3>2, <3>3
  <2>. QED
    BY <2>1, <2>2
<1>. QED
  BY <1>1, TInvAlways, PTL

(***************************************************************************)
(* An agent or a Friday entry leaves no holder record and no child behind  *)
(* it (agent-runtime.ts, shutdownRuntimeResources; deadline-runtime.ts).   *)
(***************************************************************************)
THEOREM NothingIsLeftBehind == TasksSpec => []NothingLeftBehind
<1>1. TInv => NothingLeftBehind
  <2>. SUFFICES ASSUME TInv, NEW t \in Agents \cup DeadlineTasks, Ended(t)
                PROVE  /\ ~task[t].hit => holder.by \notin {Main(t), StartupInstance(t)}
                       /\ task[t].exit = 0 => ~task[t].child
    BY DEF NothingLeftBehind
  <2>1. t \in Tasks /\ t \notin WatchdogTasks
    BY TasksAssumption DEF Tasks
  <2>2. Sound(t, task[t])
    BY <2>1 DEF TInv
  <2>. QED
    BY <2>1, <2>2 DEF Sound, Alone, Childless, Among, Holding, Died, Ended
<1>. QED
  BY <1>1, TInvAlways, PTL

(***************************************************************************)
(* A duty that was taken on and not done raises the fail ping              *)
(* (deadline-runtime.ts, watchdog-runtime.ts: "landed, or the active       *)
(* fail-signal was raised"), unless it is a watchdog's and its exit code    *)
(* tells of it.                                                            *)
(***************************************************************************)
THEOREM FailureIsNeverSilent == TasksSpec => []NeverSilent
<1>1. TInv => NeverSilent
  <2>. SUFFICES ASSUME TInv, NEW t \in DeadlineTasks \cup WatchdogTasks, Ended(t),
                       task[t].admitted
                PROVE  \/ "fail" \in task[t].pings \/ Entered(t)
                       \/ t \in WatchdogTasks /\ task[t].exit # 0
    BY DEF NeverSilent, Entered
  <2>1. t \in Tasks
    BY DEF Tasks
  <2>2. Sound(t, task[t])
    BY <2>1 DEF TInv
  <2>. QED
    BY <2>2 DEF Sound, Among, Dutiful, Died, Ended
<1>. QED
  BY <1>1, TInvAlways, PTL

(***************************************************************************)
(* Once a process that met a rejection of the credentials has ended, and   *)
(* no write failed it, trading is halted until a human lifts that          *)
(* (S-G12-06; startup-broker-fence.ts, mutation-gateway.ts:399), the two   *)
(* exceptions the code makes apart.  The argument is the store's: a safety *)
(* halt wants one and no authority over it, and who finds none and may     *)
(* acquire resets it, which halts.                                         *)
(***************************************************************************)
THEOREM RejectionsAlwaysHalt == TasksSpec => []RejectionsHalt
<1>1. TInv => RejectionsHalt
  <2>. SUFFICES ASSUME TInv, NEW t \in Tasks, Ended(t), task[t].auth, ~task[t].hit
                PROVE  \/ halt # "none"
                       \/ task[t].lifted
                       \/ t \in DeadlineTasks /\ ~task[t].admitted
                       \/ t \in Agents /\ task[t].outrun
    BY DEF RejectionsHalt
  <2>. QED
    BY DEF TInv, Sound, Among, Halted, Died, Ended, Fencing
<1>. QED
  BY <1>1, TInvAlways, PTL

(***************************************************************************)
(* What a watchdog reports as halted is halted, unless a human lifted it   *)
(* in between (watchdog.ts:155).                                           *)
(***************************************************************************)
THEOREM TakeoversAreTrue == TasksSpec => []TakeoverReportIsTrue
<1>1. TInv => TakeoverReportIsTrue
  BY DEF TInv, Sound, Among, Reported, TakeoverReportIsTrue, Tasks
<1>. QED
  BY <1>1, TInvAlways, PTL

(***************************************************************************)
(* A diagnostic of a refused start stays in the sink, in an importer's     *)
(* hands or in the journal until a death or an overlapping writer costs it *)
(* (S-CYC-11; diagnostic-sink.ts:57).                                      *)
(***************************************************************************)
THEOREM DiagnosticsAreKept == TasksSpec => []DiagnosticsSurvive
<1>1. TInv => DiagnosticsSurvive
  BY DEF TInv
<1>. QED
  BY <1>1, TInvAlways, PTL
=============================================================================
