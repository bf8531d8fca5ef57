# Glass Box Trading: a TLA+ model

The repository is an options-trading agent that runs in short cycles against a broker
and keeps everything it decides in an append-only journal. Its promise is not profit but
accountability: nothing reaches the broker that the journal does not explain, nothing
opens risk while trading is halted, and after any crash the journal and the broker can
be brought to agree again. This directory models the parts that carry that promise,
checks them with TLC and proves the central ones with TLAPS. Paths below are relative to
the repository's `src/`.

## Inventory

| component | state it keeps | operations | talks to |
|---|---|---|---|
| mutation gateway (`shell/mutation-gateway.ts`, `core/authority.ts`, `shell/epoch-store.ts`, `shell/halt-state.ts`, `shell/journal-store.ts`) | `epoch.json`, `holder.json`, `journal.jsonl`, `halt.json`, `ownEpoch` in memory, a kernel mutex | acquire, dispatch (append, submit, cancel, witness), safety halt, manual un-halt, open, heartbeat, release | every process; the only way to the broker's write side |
| journal core (`core/journal.ts`) | none; folds | halt state, entry kinds, validation | gateway, runner |
| cycle runner (`shell/cycle-runner.ts`, `core/execution.ts`) | none beyond one cycle; the fold of the journal, two broker books | phase 0 (re-read own orders), snapshot, classification, decision, INTENT / re-check / submit / OUTCOME, management, kill | gateway, broker reads, analyst |
| close management (`shell/cycle-runner.ts`, `core/lifecycle.ts`, `core/order-identity.ts`) | close attempts per lifecycle and generation | structure and residue closes, escalation, cancel and replace, expiry holds, kill | gateway, broker reads |
| decision core (`core/decision.ts`, pricing in `core/execution.ts`, `core/qualification.ts`) | none | gates, budgets, pricing, qualification window | runner |
| watchdog (`shell/watchdog.ts`, `shell/watchdog-runtime.ts`) | none | staleness, takeover of the epoch, HALT, recovery closes, ping | gateway, broker |
| startup and arming (`shell/startup.ts`, `shell/agent-runtime.ts`, `core/startup.ts`, `shell/arming-gate.ts`, `shell/startup-broker-fence.ts`) | invocation locals, the diagnostic sink | refusals, import of diagnostics, acquisition, account binding, certificate gate, release | gateway, broker reads |
| deadline and terminal report (`shell/deadline.ts`, `shell/deadline-runtime.ts`) | the TERMINAL and DEADLINE_RECONCILIATION lines | admission, assembly, append, ping, release | gateway, ping |
| publisher (`shell/publisher.ts`, `core/publish.ts`) | `publish-state.json`, `deployments.json` | commit, push, build, candidate, probe, promote, verify, rollback | git, hosting, journal |
| certificates (`shell/certificate-run.ts`, `core/certificate.ts`) | the certificate file | supervised run with the credential drill, recovery, evidence, validation, gate | agent cycles, gateway, human |
| provenance (`core/lifecycle.ts`, start of `shell/cycle-runner.ts`) | the BOOTSTRAP and PROVENANCE_BROKEN lines | proof over account, orders and ledger | broker reads, gateway |
| broker adapter (`shell/alpaca-broker.ts`, `core/alpaca-mapping.ts`) | none | paged reads, full snapshot, mapping | broker |
| analyst's tool server (`shell/analyst-mcp-launcher.ts`, `shell/mcp-environment.ts`) | the child process | pin, purge, scan, digest, spawn, inventory | startup |
| projection and rendering, argument parsing, paths | none the promise rests on | formatting | |

What is hard about it: several processes (agent, watchdog, deadline task, a human's
command) share the files and may die between any two durable writes; each of them may be
slow and come back after another took over; a broker call may be acknowledged, lost,
answered late or answered twice; the journal append that must precede or follow a broker
call may fail; and the reader of all this is a later process that has only the journal
and the broker. `PROJECT.json` lists the places where that bites, line by line, each
with the property that would notice it going wrong.

## Modules

| module | what it is |
|---|---|
| `Authority`, `Journal` | the pure rules of `core/authority.ts`; lines, halt fold and reset pair of `core/journal.ts` |
| `Gateway` | the gateway and its files: one action per operation, every durable write a step of its own |
| `HaltInterlock`, `GatewayRefinement` | what the gateway promises without files, epochs or a mutex, and the mapping that shows it |
| `EntryRecord`, `EntryLifecycle` | one entry order as data and its fold; the entry orders of the cycle runner with the broker and the human |
| `CloseOrders`, `CloseLadder` | the pure core of closing; phase 0, kill management, the ladder and the watchdog's recovery on one account |
| `PublishCycle` | the publisher, its two files and the hosting |
| `Invocations` | agent, deadline tasks and watchdog from start to exit, on one epoch, journal and diagnostic file |
| `CertificateRun` | the supervised certificate run and its recovery, among other processes |
| `Structures`, `CloseLimits` | option structures, their risk and limits; the price a close rests at, cycle after cycle |
| `Decisions` | gates, budgets and batch decision over several cycles of a session |
| `FillEvidence` | the journal's fill evidence, read by the fold and by the count of unresolved entries |
| `BrokerReads` | paged listings and the full snapshot of a moving account |
| `Provenance` | the first cycles of an account |
| `CertificateRules` | the evidence of a live test, its certificate and the arming gate |
| `ArmedTimers` | the configuration's numeric rules and a day of invocations under it |
| `AnalystLaunch` | the launch of the analyst's tool server in a directory others may change |
| `MCGateway`, `MCEntryLifecycle`, `MCCloseLadder`, `MCRules` | instances for TLC |
| `GatewayProofs` | theorems about the gateway: halts, fencing, resets, and that it implements `HaltInterlock` |
| `EntryProofs`, `CloseProofs` | theorems about the orders: entries, and the close orders of runner and watchdog |
| `PublishProofs`, `InvocationProofs`, `CertificateProofs` | theorems about the publisher, the invocations and the supervised run |
| `RiskProofs` | theorems about `Decisions` and `CloseLimits`: budgets, and what a close may cost |
| `RuleProofs` | theorems about `FillEvidence`, `BrokerReads`, `Provenance`, `AnalystLaunch` and `ArmedTimers` |

`EntryLifecycle`, `CloseLadder`, `Invocations`, `PublishCycle` and `CertificateRun` are
detailed at different places of the same program. Each takes what another one shows as a
guard: the gateway's fencing in the runner's modules, the runner's accounting in the
certificate run. `CloseLadder` composes runner and watchdog on one account,
`Invocations` all kinds of process on one gateway.

### How state and actions correspond to the code

**Gateway.** An operation of the gateway runs under a kernel mutex. The model lets the
decision of an operation (every guard and early return of the handler) take effect
together with its first durable write; the remaining writes are the sequence `todo`, and
`Continue` makes them one at a time, in the code's order. Between two of them the
process may die (`Crash`) or the write may throw (`WriteFails`), which is where the
interrupted acquisitions, seeds, resets and halts come from. A refusal changes nothing
and is a stuttering step. The fold of the journal, `halt`, is carried along with every
append, as `haltStateFrom(entries)` recomputes it. `flag` is `halt.json` as
`readHaltState` returns it, and may be damaged or deleted at any time. The history
variables (`gen`, `life`, `claims`, `lossAt`) are read by properties only. `Crash` also
stands for a normal exit and restart of a process under the same instance id.
`HeartbeatExpires` is unconditional: a heartbeat may be old because its writer is dead
or merely slow, which is the case that fencing is for.

**Entries.** `EntryLifecycle` follows `runCycle` from `openJournal` to the management
step. `pc` names the place in it; `cur`, `seen` and `answer` are the locals of the loop
body, `todo` what the loop still has to visit, `entriesBlocked` and `journalFailure` the
flags of the cycle. Nothing of this outlives a cycle (`EndCycle`); what does is `rec`,
the journal as `foldLifecycles` reads it. A step is one awaited call: whatever the
broker, a human or the end of the process may do, it may do between any two. `order`,
`request` and `position` are the broker's: a request whose answer is lost is
`on_its_way` and may arrive at any time or never; a lookup may find nothing although the
order is there (`unseen`); fills, cancels and rejections happen whenever the order
works. Quantities are lots; of prices only "worse than the submitted limit" is kept. The
gateway's promises enter as a guard.

**Closes.** `CloseLadder` has two processes, `runner` and `watchdog`, each with the
book, the fold and the order records it read (`run[p]`), which are stale as soon as the
broker moves. An attempt is a close lifecycle and a generation, as `order-identity.ts`
derives it, so the two processes meet in the same ids. `CancelRiskIncreasing` is kill
management's cancel pass; the entries are all filled in this module, so what it cancels
are closes that a moved book turned risk-increasing. A fenced process is cut at its next
step (`Fenced`).

**Publisher.** A revision is its number of journal lines, a page its revision, a
candidate's address the number of its deployment. Every call of the hosting throws, or
takes effect with or without an answer. `drifted` marks the cases in which the publisher
could not know what its call did.

**Invocations.** A step lies between two uses of what the processes share. Acquisition,
append and release are one step each here (`Gateway` has their inside) and may be
refused or fail half way. `task[t]` holds what the process remembers; what ended keeps
only what is known of it. `CertificateRun` is built alike, with a cycle as one step and
a bracket (open, read, reopen) around every proof of flatness.

**Rules.** The modules behind `MCRules` are pure functions of the code with a small
state machine around each that feeds them what the program could meet: a market that
moves between requotes, cycles that reserve and fill, a journal that grows line by line,
an account that changes between two pages, a drill that deviates from the perfect one, a
day of invocations with one death, a directory that changes during a launch. They share
one run because they share the constants; `topic` picks one.

## Runs

| run | question | shows |
|---|---|---|
| `gateway_fencing` | can two processes act under one epoch? may anything open risk after a reset before a human un-halts? | no, from a virgin seed or a reset through takeovers, crashes, restarts under the same id and a lost or unreadable store |
| `gateway_halt` | does an entry leave under a halt? does one ever leave after a KILL? does the gateway implement `HaltInterlock`? | no; no, whatever halt, un-halt or takeover follows; yes, with failing writes, crashes between line and flag, and damaged flags |
| `gateway_reset_liveness` | is a reset that was begun completed? | yes, under the fairness below |
| `entry_safety` | does the journal count all the broker may fill? can the runner append what its own fold refuses? is anything submitted beside an order of unclear fate? | yes; no; no: through crashes, failing appends and reads, lost answers, lagging lookups, refusals, breaches, and cancels racing fills |
| `entry_liveness` | does the broker's truth reach the journal? | yes, under the fairness below |
| `close_safety` | can a lifecycle have two children, can closes reverse a position? | no, as long as closes fill whole and between invocations; runner and watchdog crash, are fenced, and lose submits and lines |
| `close_overclose` | and if a close fills in part? | the position is reversed: finding |
| `close_liveness` | does the truth about closes reach the journal, does the account end flat? | yes; yes, but for a lifecycle that has used up its generations or whose submitted close never reached the broker |
| `publish` | are the records of what is pushed and live true? does every line get pushed? | yes, but for the drifts named below |
| `invocations` | one TERMINAL? nothing held or running afterwards? a signal for every failed duty? a halt after every rejection? no takeover or diagnostic misreported or lost? | yes, but for the exceptions named below |
| `certificate` | is what the supervised run states about the account true when it states it? does it submit beside what is still open? | yes; no; with a second process in every gap |
| `rules` | are risks bounded by what was reserved, readers consistent, reads complete, evidence sufficient, timers fitting, the child pinned? | yes |

Three properties need a word. `NoEntryAfterKill` speaks of the lines of the journal and
the orders that leave, not of the halt state between them: it breaks when the fold, the
repair of the flag or the order of an operation's writes loses the KILL. `RejectionsHalt`
asks for a halt that stands when the process ends, whoever wrote it, and excepts the two
ways on which the code writes none (see Findings). `OneBatchAtATime` says what is left of
"one structure at a time": the runner submits every approved candidate of a batch, but
nothing beside an earlier entry that is in flight, working or filled.

What the properties of `rules` say in one line each: `CloseCostBounded`, the close of an
intact structure never costs more than its entry was charged with, and a short residue
is bid for at the ask; `BudgetsHold`, what the entries of a session can really lose at
the worst price stays within every sleeve and concentration budget; `ReadersAgree`, the
fold and the unresolved count never disagree about an order the fold can rebuild;
`EvidenceIsJudged`, an honest broker's fills are believed and a worse increment is
always a recorded breach; `ReadsAreTrue`, a complete listing missed nothing, and a
snapshot's orders were all true together; `ProvenanceIsTrue`, a seeded store sends no
first order without a proof over an unused account paid in with exactly the capital, and
nothing is latched without a reason; `ArmsOnlyWhenProven`, the gate opens only over a drill
that shows the five things S-ARM-01 lists: quotes of every leg with sizes and the broker's
own instants of that day, one credit order accepted, filled and held as intended, the
fence with its 401 or 403 and its canceled orders, and a twice-read flat end; `TimersFit`, no dead-man alarm over a
recovering system and no live holder robbed; `ChildIsPinned`, the child runs what was
digested.

### Bounds

Two instances are enough for every race in the gateway: a property is violated by one
instance against its successor, and a third would repeat the role of one of them.
`MaxEpoch` is the code's own limit (`MAX_SAFE_INTEGER`), set to 2 or 3 so that
exhaustion happens; `MaxJournal`, `MaxSends`, `MaxCrashes` and `MaxLosses` bound the
runs, each large enough for a complete acquisition or reset plus the lines of the
hazard. `gateway_fencing` starts from virgin and from used accounts: with the latter the
journal begins with a reset pair, so that the store can be lost while an old pair is at
the tail; witness lines between an interrupted pair and its completion are in
`gateway_reset_liveness`. Inputs are switched per run (`WriterLines`, `Faults`, ...) so that each question
gets the faults it is about.

Two entry orders are enough, because every property is about one order or about one
beside another; two lots are the least with a partial fill. Nothing else is bounded:
crashes, cycles, un-halts and lookups may repeat without end.

The close runs have one spread of one unit, held whole or with its short leg gone: the
structure's lifecycle and the residues of its legs are then three lifecycles over the
same two contracts, which is what the over-close hazard needs. `MaxGeneration` 1 gives
each a first attempt and one replacement. One unit and no `"fill_any_time"` in
`close_safety` are not only a matter of size: `NeverReverses` is violated with two units
(partial fills) and with fills in the middle of an invocation, which are the two findings
below. `OneChildPerLifecycle` has no such limit and is proved for any number of units and
every fault.

`publish` grows the journal to three lines, which is two deployments beyond the first,
the least in which a rollback finds a withdrawn candidate among the receipts.
`invocations` starts any two of five processes; the third that matters, one that
finished before, is the initial epoch and the lost store. `certificate` has two entries
and one line or trade of another process, besides a takeover. The constants of `rules`
(four contracts, two strikes on each side; three cycles; two lots; five journal lines;
three orders on pages of two; two deviations; a day of 24 steps; one change during a
launch) are each the least at which the mutants of the respective rule are seen. The
capital is 3 and accounts open with 2, 3 or 4, so that one opens below it and a later
payment can make the sum exact, which the proof of provenance accepts: the code sums the
journals, however many there are.

Deadlock checking is off where the bounds or the invocation's end stop a behaviour
(gateway, publisher, invocations, certificate, rules), and on for entries and closes.

### Fairness

`gateway_reset_liveness`: a process in the gateway goes on or dies: the code has no
waiting point there. The scheduler starts agent, watchdog and deadline task again and
again, so takeovers are tried again and again; and while a reset is pending nobody can
refresh the holder record, so its heartbeat grows old. Nothing is assumed about crashes
except that there are finitely many.

`entry_liveness`: the scheduler starts cycles for ever and each ends, at the latest by
its walltime: weak fairness of the runner. Crashes, failing reads and failing appends
are not bounded, so it must also be assumed that what is tried in cycle after cycle
succeeds once: strong fairness of the lookup of an unresolved order and of the append
(and the HALT before it) that follows with the broker's record in hand. A broker or a
disk that fails every time would make the property false, and should.

`close_liveness`: the same for the close side, and of the broker that it answers
lookups and fills what rests again and again. What is on its way ends sooner or later, but
its end may be that it never arrives. An account on which no price is ever quoted, or that
expires every order, is not flattened; the property says `Exhausted` for the latter. It
says `Unanswered` for the attempt that never arrived, which the code keeps for ever (see
Findings). Crashes are not in this run.

`publish`: the scheduler starts the publisher again and again, and commit, push and the
state file, tried for ever, succeed at some point.

## Findings

One is run. `close_overclose`: all closeable quantity that is in flight should be
subtracted before a close is sent (S-G7-01), but the code subtracts within one close
lifecycle. When the resting close of a two-lot structure has filled one lot, the rest of
the structure is no longer intact (`core/lifecycle.ts:106`); nothing cancels or re-prices
what rests of its close, and its legs are closed as residue under lifecycles of their own
(`shell/cycle-runner.ts:1043`). Both can fill, and the position is reversed. The run needs
no fault.

A second one ends alike and shows with one unit and `Faults = {"fill_any_time"}` in the
same configuration: management reads the book once for all targets and the close attempts
of a lifecycle afterwards; a resting close that fills in between is seen as filled, and
the lifecycle is planned and judged against the stale book, so the same exposure is
closed twice (`shell/cycle-runner.ts:955`; S-G7-01 says no child may reverse).

The following departures from a document or comment were met while modelling. The models
contain them, with the fault that leads there either excluded from the passing runs or
named as an exception in the property.

Gateway.

* `resetPairPresent` looks at the last two lines. A witness or a safety HALT between an
  interrupted pair and its completion makes a second pair
  (`shell/mutation-gateway.ts:302-325`), and a second loss right after a completed reset
  takes the old pair for its own and promotes without a new line
  (`docs/SPEC.md:908-910`).
* A crash between the BOOTSTRAP line and the store write leaves `seedPending`; every
  later request is refused with SEED_NOT_JOURNALED (`core/authority.ts:20`,
  `shell/mutation-gateway.ts:271-273`). A SUPPRESSED witness written while the seed's
  BOOTSTRAP is due (`shell/agent-runtime.ts:247`) does the same to the journal.

Entries.

* OUTCOME and HALT of a price breach are two appends (`shell/cycle-runner.ts:764`,
  `:781`), and the record is terminal after the first: a crash in between leaves a
  breach nobody halts for (`docs/SPEC.md:1182-1185`). The cancel loop at `:1025` writes
  no HALT at all.
* A broker record that contradicts itself (a rejection with fills) of an acknowledged
  order becomes a `confirmation_unclear` the fold refuses, for ever
  (`core/execution.ts:753`, `:800`; `docs/SPEC.md:762-763`); and entries are blocked
  only when nothing could be derived (`shell/cycle-runner.ts:426`;
  `docs/SPEC.md:415-419`).
* The re-check before a submit counts the plan's own INTENT and the candidate again
  (`shell/cycle-runner.ts:717-735`): an entry above half the remaining headroom is
  always voided.
* `exposureLifecyclesFrom` ignores closes: what was closed keeps counting as filled.
* The breach test compares exact decimals, so a broker's rounded average can be a
  `BROKER_PRICE_BREACH` nothing was worse for.

Closes.

* Phase 0 probes emergency closes of filled lifecycles only
  (`shell/cycle-runner.ts:431`), so a residue close of kill management whose INTENT was
  lost gets an OUTCOME without INTENT, which the fold refuses (`core/execution.ts:816`).
* The ladder's zero floor prices a debit structure with inverted mids as an uncapped
  debit (`core/lifecycle.ts:494-524`; `docs/SPEC.md:1200-1209`), and the kill close has
  no width cap (`shell/cycle-runner.ts:872`) though S-X-05 shares the ladder with the
  kill switch. `CloseCostBounded` is about the intact structures the cap is for, and
  excepts the inverted mids.
* The expiry hold is evaluated before any close attempt (`shell/cycle-runner.ts:1064`;
  `core/lifecycle.ts:604`).
* A partially filled working emergency close that ends in AUDIT_GAP is not read again.
* A close whose submit never reached the broker is never resolved: phase 0 takes its
  absence for no outcome (`shell/cycle-runner.ts:484-488`), the ladder adopts the attempt
  (`:861`) and returns CANCEL_UNCLEAR, because there is nothing to cancel (`:937`). No
  later generation is planned, so the structure stays open past the deadline;
  `EventuallyFlat` excepts its lifecycle.

Invocations.

* A rejection of the deadline task's calendar read releases without the AUTH_FAILURE
  halt and ping that `shell/deadline-runtime.ts:115-122` demands (`:401-403`); "nothing
  is appended on any path that returns ok:false" (`:242-247`) is false when the
  acquisition itself wrote a reset pair.
* A cycle's AUTH_FAILURE halt is skipped under any standing halt
  (`shell/cycle-runner.ts:362`), so the journal need not have a line for a rejection. It is
  an ordinary append besides: a cycle that was overtaken meanwhile halts nothing.
* The watchdog's recovery reads its closes outside its try block
  (`shell/watchdog.ts:214`, `:234`). A broker error there ends the takeover before the ping
  of `:262`; `shell/watchdog-cli.ts:48-53` exits with 1 and pings only for a rejection.
  `NeverSilent` excepts a watchdog whose exit code is not 0.
* A diagnostic that arrives between `drainPending`'s read and its truncation is lost
  (`shell/diagnostic-sink.ts:57`), as is what an importer holds when it dies.
* An agent already running appends its CYCLE after TERMINAL, and so may a watchdog that
  looked before it. A human un-halt between the watchdog's look and its takeover leaves
  no halt, although one is reported.

Publisher and certificates.

* A pushed revision whose deployment failed is not deployed until the journal grows; a
  failed rollback is recorded like a successful one (`shell/publisher.ts:303`); a crash
  after the promotion (`:288`) leaves the old record.
* The run means to have "one structure at a time" (`shell/certificate-run.ts:53`), but a
  cycle submits every approved candidate of its batch (`shell/cycle-runner.ts:699-784`);
  the veto of a second live entry is the competition's, in its qualification window
  (`core/qualification.ts:144`).
* The drill takes another process's AUTH_FAILURE halt for its own, and
  `unresolvedEntryExists` looks at the run's own window only.

Startup, provenance, timers.

* Over a store that outlived its journal, a failed proof is a GAP and HALT, and after a
  human un-halt orders leave without a proof (`docs/SPEC.md` S-CYC-09;
  `DECISIONS.md:2036-2070` acknowledges a part). An incomplete ledger page, or a funding
  booked in two parts, latches PROVENANCE_BROKEN for good.
* S-G12-02's inequality (`docs/SPEC.md:839-856`) has no room for the launch time of the
  invocations; `TimersFit` grants two launches.
* A page full of orders of one millisecond cannot be passed (the listing fails closed),
  and positions may change and change back between the two reads of a snapshot.
* A runtime lock whose removal patterns leave out `*.pyc` is accepted
  (`core/startup.ts:511-541`), and bytecode created after the scan is not seen.

## Proofs

All theorems hold for every value of the constants under the named assumptions of the
modules. Where a theorem needs more, its statement says so (`HonestBroker`,
`StoreIsKept`, `AveragesAreExact`, `LaunchesInTime`).

`GatewayProofs`: `TypeCorrect`, `EntriesOnlyUnhalted` (`Spec => NoEntryUnderHalt`),
`KillsAreFinal` (`Spec => NoEntryAfterKill`). `TypeOK` is inductive.
`NoEntryUnderHalt` is not: an entry order may leave in a later step than the one that
tested the halt, because the repair of `halt.json` comes first. The inductive invariant
`IInv` adds three things to it: `Remembered`, that `halt` is indeed the fold of a
journal (no transition, no halt); `Pending`, that a `Send("entry")` that is still to be
made was decided while the reconciled halt state was clear and nothing before it in
`todo` can change that; and `Lasting`, what a pending operation of the mutex holder may
rely on. Nothing else can interfere while `mutex` is taken, except damage to
`halt.json`, which waits for the mutex in the model. For `KillsAreFinal`, `FlagsClear` says
that a journal with a KILL or PROVENANCE_BROKEN line folds to a sticky halt, whatever
lines follow and whichever operation wrote them. LEMMA `Stepwise` is the case
analysis over all actions; the two action properties follow from it.

Fencing, in the same module: `EpochsAreExclusive` (`Spec => []OneProcessPerEpoch`). A claim is a
mutation made under an epoch: the store's generation, the epoch, the instance and its
life. The invariant `FInv` adds `Fenced` to `IInv`: claims of the current generation are
not beyond the store's epoch, whoever claimed that very epoch is its holder and, as long
as it remembers it, in the same life (`Belongs`), because a restart forgets the epoch
and the next acquisition writes a higher one before it is remembered; and what an
acquisition under way has still to write names the epoch the store already carries,
under which nobody has acted (`Unclaimed`). A lost store begins a new generation, so its
numbers may come again. Which writes an operation leaves in `todo` is fixed by lemmas
about the write sequences (`PlainSteps`), which the halts need too.

The refinement, in the same module: `GatewayImplementsInterlock`
(`Spec => ImplementsInterlock`) and `ResetsWaitForAHuman` (`Spec => ResetNeedsHuman`).
The mapping takes as the one who may write the store's holder, while it remembers the
store's epoch; a step then grants that right, takes it away, sends, or is invisible. What makes
an acquisition a revocation and a later grant is `Low`, that nobody remembers an epoch
above the store's: its first durable write raises the epoch past everybody, and only
the holder ever remembers the new one. `Authorised` says that an order that is still to
be sent is its mutex holder's to send. The theorem assumes `StoreIsKept`, no loss and no
unreadable store: after a loss the numbers begin again, an old process may remember one
that is yet to come, and the right is handed to it without being taken away first.
`ResetsWaitForAHuman` has no such assumption. Its invariant `MInv` says that the last
halt transition behind the loss is a HALT as long as nobody has un-halted (`Held`), and
that no pending write can lift it (`Calm`), except those that complete the reset, which
write the HALT before the store (`Completing`).

`EntryProofs`: `TypeCorrect`, `ExposureAlwaysCovered` (`Spec => []ExposureCovered`),
contradictory broker records included. `ExposureCovered` alone is not inductive: that a
canceled or voided entry counts nothing is right only because nothing of it can be at
the broker any more. `IInv` adds `Consistent`, per order (no record at the broker before
the request is settled, no request before the INTENT, no fills in an honest rejection),
`InWork`, what each place of the cycle knows of the order in work, and `SeenIsTrue`: a
terminal record that was read stays true, while a working one may be stale at once. The
lemmas `FoldCounts` and `OutcomeCounts` say what the fold counts after each line, and
`LandedLine` that appending it keeps the invariant if that is enough; the broker's steps
rest on `FullyCounted`: an order that may still reach its whole quantity is counted with
it.

Under `HonestBroker` (`"contradictory"` is no fault) there are two more.
`JournalAlwaysFolds` (`Spec => []FoldNeverFails`) and `NothingBesideUnclear`
(`Spec => NoEntryWhileUnclear`) fail with a record that contradicts itself, which is the
finding above, so the assumption is theirs and not one of the module. `HInv` adds to
`IInv` that the journal never says more than the broker and that what may still fill is
open in it (`Truthful`); that what the loops of a cycle still have to visit is open and
not in work, and that the record in hand lies between journal and broker (`Visited`);
and that an order whose fate is unclear is still to be visited or in work, or the cycle
has stopped for good (`Remembered`). One conjunct was found by a failed proof: where the
record in hand is absent, the journal's own cannot be fillable any more.

`CloseProofs`: `OneChildAtATime` (`Spec => []OneChildPerLifecycle`), under every fault and
from `GenerationAssumption` alone. A generation is chosen from a fold that was read
earlier and from one lookup that may have failed, and the order under it leaves several
steps later. So the invariant `KInv` has to say what the journal and a reader of it are
good for. The fold *covers* a lifecycle (`Covers`): every order that can still fill is
pending there, or it is `Behind` the last line, where there is room for exactly the
attempt of an emergency close that left no line, and for one more once the broker has
finished with that. From it LEMMA `PlannedIsFree` concludes that a planned generation is
`Free`: the only one that can fill, or one the broker already knows and refuses, even if
the lookup failed and was taken for absence. `Sound` says what the process that holds
the epoch may rely on at its place: a plan to send is still free and its line, once
written, is pending (`Ready`); the fold in its hands agrees with the journal on every
lifecycle it will not read again (`Knows`), and covers those it has still to work on
(`Sees`); and a fold that was read whole stays whole, because the reader is the only
writer (`Steady`). Nothing is said of the other process: it has no step but its end. The
steps of the broker and the cancels only ever end orders (`Calm`), and keep all of it at
once (LEMMA `CalmStep`).

`InvocationProofs`: `TerminalIsUnique`, `NothingIsLeftBehind`, `FailureIsNeverSilent`,
`RejectionsAlwaysHalt`, `TakeoversAreTrue`, `DiagnosticsAreKept`, from one invariant
`TInv`. Most of it (`Sound`) is about one process: where its record allows it to be, what
it still owes there, which child and pings it has, and when the holder record names it.
Three parts relate processes: as long
as the epoch of a process that was admitted for TERMINAL is still the store's, nobody has
written one (`First`, from which `Single` follows); a rejection is a standing halt, or was
one until a human lifted it, unless its process is still fencing it (`Halted`); and a
diagnostic is in the sink, in the hands of an importer that still lives, or in the
journal. `Halted` is where the ways of the fence meet: a safety halt needs a store and no
authority (LEMMA `SafetyHalt`), and whoever must acquire for the fence found no store, so
that the acquisition is a reset and halts by itself (LEMMA `Reset`). TLC found the
strengthening that matters: a process may die in the middle of fencing a rejection, so the
debt ends with `Died` and not with the exit.

`CertificateProofs`: `BatchesOneAtATime` (`CertSpec => OneBatchAtATime`),
`UnhaltsAreInformed`, `PassesAreTrue`, `RecoveriesAreTrue`. The last three
say that the account is flat at a moment when nobody looks at the broker, so `CInv` has
to say why a proof of flatness lasts. `Recorded`: every order has its INTENT in the
journal, and an end in the journal is true at the broker, so a journal without an open
entry is an account over which nothing may arrive (LEMMA `ResolvedIsSettled`).
`StaysFlat`: from the opening of the first bracket to the end of the run nothing rests,
and from the first believed snapshot on nothing is held, as long as the epoch is the
run's: only its holder submits, a taker's trades end the claim, and what rests nowhere
cannot fill. `InPhase` keeps the cycles that trade before the brackets. For
`OneBatchAtATime`, `NoneFilled` adds that an entry cycle only begins when no entry of the
run is recorded as filled; with a window that has no open entry either (the guard), nothing of the
run is live (LEMMA `WindowFree`). Each step is a batch (`Submits`) or `Settles` (LEMMA
`StepMoves`), so journal and orders
are argued about once and not per action. The set of entries must be finite
(`EntriesAssumption`).

`PublishProofs`: `PushesAreTrue`, `RecordIsTrue`, `AliasIsProbed`, `WithdrawnIsFinal`,
from one invariant `PInv` of four parts. `Pushing`: what the file or a running
invocation calls pushed is not beyond the remote, and one that is still to push holds a
revision at least as new, because the journal only grows. `Recording`: record and alias
agree, or an invocation between promotion and record knows better, or the drift is
marked. `Deploying` carries the other two: a candidate on its way is the newest page, so
everything ever recorded is older (`Older`) and it was never withdrawn; the latest
accepted receipt was never taken down (`Standing`); and while a candidate is verified,
what a rollback would pick is exactly the latest receipt accepted before it. That is why
the rollback must write a receipt of its own, as `stateAfterStableVerification` does:
without it the next rollback would find the withdrawn one.

`RiskProofs`, `BudgetsAreHonoured` (`DecisionInit /\ [][DecisionNext] => []BudgetsHold`):
a budget is tested against reserves computed from a limit, the loss happens at whatever
price the market settles. A structure's payoff is linear between two neighbouring
strikes (`PayoffIsLinear`), and behind the last one it does not fall, or the exposure is
undefined; so it is lowest at a breakpoint (`LowestAtBreakpoint`), and the code, which
looks at breakpoints only, finds the worst (`FloorIsLowest`). `BudgetInv` says of every
recorded entry that it is `SoundEntry`: what was paid is within the limit, and within
what the journal's conservative fill price makes of the lots it knows. Then its loss is
within its cap, and the cap within what the gates count for it (`WorstWithinCap`,
`CountedCoversCap`). The other parts
relate it to the cycle: `PlansFit`, a plan is new or its INTENT was the last that
happened, and `CapsHold`, the caps of every sleeve and underlying fit together. A plan
was decided over an older book, and what keeps `CapsHold` is the re-check before it is
executed. The proof found that an exposure the code cannot compute had to make snapshot
and re-check fail closed, which the model did not say.

`ClosesAreBounded` (`[]CloseCostBounded`), from `LadderInv`: a structure's rung is always
one the ladder reaches from an admitted entry. `CapIsWidth` ties the two ends together:
the width the close is capped with is the depth of the payoff the entry was charged
with. What the candidates and quotes look like is `CandidatesAssumption` and
`LadderAssumption`: parsed fields, prices that are whole and not negative.

`RuleProofs` has the other safety properties of the `rules` run but one, each for every
size of its constants.

* `ReadersAlwaysAgree` (`[]ReadersAgree`): the fold keeps states, the count of unresolved
  entries keeps flags of its own. `Agreeing` relates them line by line, with the same
  story of fills in both (`SameStory`); for a journal the fold refuses, nothing is said.
* `EvidenceIsTrusted` (`AveragesAreExact => ... []EvidenceIsJudged`): a reader sees
  rounded cents and a decimal, never the fills. `Told` says between which totals the
  truth lies after each report, and `Believed` that the next report fits between them and
  that a worse increment cannot hide there. The hypothesis is that every average has an
  exact decimal (`PriceScale` is divisible by every count of lots). Without it the
  statement is false: of lots at 1, 1 and 2 under a limit of 2 a truncated 1.33... makes
  the last one look worse than the limit, which is the finding about rounded averages.
  The broker's totals are kept as running sums (`booked`, `reported`), because the sum of
  a sequence of arbitrary length could only be reasoned about by induction over data.
* `ReadsAreSound` (`[]ReadsAreTrue`): `ReadInv` says what an unfinished listing still owes
  (`Covers`: what is wanted and not seen lies beyond its cursor, also where orders share
  a millisecond), and why two listings that agree show one moment (`Collected`: each
  matches the books as they were when it ended, and an order that ended stays so).
* `ProvenanceIsProven` (`[]ProvenanceIsTrue`): the account, the ledger and the agent's
  lines change independently, and a cycle judges a snapshot that is old. `AccountTrue`
  says what the ledger shows of a use and of the funding; `StartTrue` that a store is out
  of its seed only behind a proof (`Granted`), that a latch had a reason which never goes
  away (`Latched`), and what a snapshot under judgement says of the account it was taken
  of (`SnapshotShows`).
* `LaunchesArePinned` (`[]ChildIsPinned`): `LaunchInv` says, phase by phase, which files
  were looked at (`Looked`), that a deviating file that was looked at is in the evidence
  or came later (`Judged`), and in which phases a child may run (`Supervised`).
* `TimersAreSafe` (`LaunchesInTime => ... []TimersFit`): `OnTime` bounds, for each part of
  the day (`Resting`, `Launching`, `Cycling`, `Silent`), how far the last ping and the
  last heartbeat can lie back, before and after the one death. The hypothesis is that a
  launch is no longer than the bound of the lock's takeover: a heartbeat is first written
  when the invocation starts and refreshed when its cycle begins, and the validated
  inequalities leave no room for a longer launch (see Findings).

Only model-checked: `NeverReverses` of `CloseLadder`, which the code keeps only for closes
that fill whole and between invocations, so that there is no theorem to state for every
value of the constants;
`ArmsOnlyWhenProven`, whose subject, the record of one complete drill, is a fixed piece
of data that TLC perturbs and not a parameter, so a proof would repeat the enumeration.
The liveness properties
(`ResetCompletes`, both `TruthReachesJournal`, `EventuallyFlat`, `JournalIsPushed`) rest
on fairness and are out of the prover's reach, as is what a definition that recurses
over data computes for every input.

## Plan

Done: gateway, entries, closes with the watchdog, publisher, invocations, certificates,
rules; the theorems above. Open: two spreads over shared contracts in `CloseLadder`.

## Not modelled

* Projection and rendering (`core/projection.ts`, `shell/render-*.ts`,
  `shell/dashboard-build.ts`): pure functions from a journal to pages, without state.
* The journal's byte format: canonical encoding, hash chain, torn tail and entry
  validation. A line lands or it does not.
* SHA-256, identifiers and digests: injective constructors.
* HTTP, credentials on the wire, quotes and contract fields of the adapter; argument
  parsing, paths and wording of refusals.
* The analyst's prompt and answer: its candidates are an input of `Decisions`.
* Calendars and market windows: dates that come, and instants. Wall-clock arithmetic
  appears in `ArmedTimers` only; elsewhere a bound "may expire".
* `shell/fake-broker.ts` and the tests are the repository's own doubles.
