---------------------------- MODULE CloseLadder ----------------------------
(***************************************************************************)
(* The close orders: the cycle runner's phase 0, kill management and close *)
(* ladder (src/src/shell/cycle-runner.ts) and the watchdog's recovery      *)
(* (src/src/shell/watchdog.ts) on one account.  Each process works on what *)
(* it read: the book, the fold of the journaled attempts, the order        *)
(* records.  The broker moves between any two of its steps.                *)
(*                                                                         *)
(* Who holds the epoch, and that nobody else gets a line or an order       *)
(* through, is Gateway's business: here `writer' names the holder, and a   *)
(* fenced process is cut at its next step.  Entries are all filled before  *)
(* (EntryLifecycle); a filled entry's structure is held Units times.       *)
(***************************************************************************)
EXTENDS CloseOrders

CONSTANTS Contracts, Structures,
          Legs,      \* [Structures -> [Contracts -> signed ratio]]
          Units,     \* filled quantity of each structure
          Books,     \* positions the account may start with
          MaxGeneration, \* bound: a lifecycle's last re-price leaves its order resting
          Faults     \* input: the faults that happen

ASSUME UnitsAssumption == Units \in Nat \ {0}
ASSUME GenerationAssumption == MaxGeneration \in Nat
ASSUME FaultsAssumption ==
    Faults \subseteq {"crash", "append_fails", "read_fails", "lost", "rejected", "expired",
                      "fill_any_time", "no_price", "stale"}
ASSUME BooksAssumption == Books \subseteq [Contracts -> Int]
ASSUME LegsAssumption == Legs \in [Structures -> [Contracts -> {-1, 0, 1}]]
ASSUME SubjectsAssumption == Structures \cap Contracts = {}

VARIABLES
    held,      \* the account's positions
    order,     \* the broker's record of each attempt
    onTheWay,  \* the legs and quantity of a submit whose effect is still to come
    rec,       \* the journal's fold of each attempt
    halted,    \* the halt state
    writer,    \* the process whose epoch the store carries
    run        \* one invocation of each process

vars == <<held, order, onTheWay, rec, halted, writer, run>>
broker == <<held, order, onTheWay>>

-----------------------------------------------------------------------------
(***************************************************************************)
(* A close lifecycle belongs to a structure or, as residue, to a contract. *)
(***************************************************************************)
Processes == {"runner", "watchdog"}
Subjects == Structures \cup Contracts
Generations == 0..MaxGeneration
Attempts == Subjects \X Generations
NoLegs == [c \in Contracts |-> 0]
NoOrder == [status |-> "none", quantity |-> 0, filled |-> 0, legs |-> NoLegs]
NoRequest == [quantity |-> 0, legs |-> NoLegs]
NoRecord == [status |-> "none", quantity |-> 0, filled |-> 0]

Abs(n) == IF n < 0 THEN -n ELSE n
Sign(n) == IF n < 0 THEN -1 ELSE IF n > 0 THEN 1 ELSE 0

\* The entries in the order of the journal.
FilledEntries == LET ids == SetToSeq(Structures)
                 IN  [i \in DOMAIN ids |-> [id |-> ids[i], legs |-> Legs[ids[i]], filled |-> Units]]
Closure(book) == planBookClosure(book, FilledEntries)
closingLegs(subject, book) ==
    IF subject \in Structures THEN [c \in Contracts |-> -Legs[subject][c]]
    ELSE [c \in Contracts |-> IF c = subject THEN -Sign(Closure(book).residue[c]) ELSE 0]
exposureOf(subject, book) ==
    IF subject \in Structures THEN Units ELSE Abs(Closure(book).residue[subject])

Working(a) == order[a].status = "working"
\* An invocation that is not running, and what one knows.
Idle == [pc |-> "idle", mode |-> "ladder", journalFailure |-> FALSE, journaled |-> TRUE,
         book |-> NoLegs, closes |-> [a \in Attempts |-> NoRecord], todo |-> {},
         cur |-> <<>>, exposure |-> 0, plan |-> 0,
         answer |-> "none", sawHalt |-> FALSE]

\* A fold that failed stays failed, and a reader keeps the one it had.
foldOk == \A a \in Attempts : rec[a].status # "broken"
Fold(previous) == IF foldOk THEN rec ELSE previous

\* The step of process p at label pc; a fenced process has no step but its end.
At(p, pc) == writer = p /\ run[p].pc = pc

\* What a process knows, with some of it anew.
With(fields, known) == [f \in DOMAIN known |-> IF f \in DOMAIN fields THEN fields[f] ELSE known[f]]
Goto(p, fields) == run' = [run EXCEPT ![p] = With(fields, run[p])]

\* Keys of the work list: attempts in phase 0 and in a cancel pass, subjects else.
SubjectsFirst(todo) ==
    IF todo \cap Structures # {} THEN todo \cap Structures ELSE todo

(***************************************************************************)
(* A lookup by client order id may fail; the runner takes that for absent. *)
(***************************************************************************)
Lookup(a) == {order[a]} \cup (IF "read_fails" \in Faults THEN {NoOrder} ELSE {})

\* An append lands, or fails and the cycle remembers it.
AppendFails == "append_fails" \in Faults

-----------------------------------------------------------------------------
(***************************************************************************)
(* The broker.  A fill moves the positions; without "fill_any_time" it     *)
(* comes only while no process is at work.                                 *)
(***************************************************************************)
Init ==
    /\ held \in Books
    /\ order = [a \in Attempts |-> NoOrder]
    /\ onTheWay = [a \in Attempts |-> NoRequest]
    /\ rec = [a \in Attempts |-> NoRecord]
    /\ halted \in BOOLEAN
    /\ writer = "runner"
    /\ run = [p \in Processes |-> Idle]

Quiet == \A p \in Processes : run[p].pc = "idle"

Fill(a) ==
    /\ Working(a)
    /\ Quiet \/ "fill_any_time" \in Faults
    /\ \E n \in 1..(order[a].quantity - order[a].filled) :
          /\ order' = [order EXCEPT ![a].filled = @ + n,
                          ![a].status = IF order[a].filled + n = order[a].quantity
                                        THEN "filled" ELSE "working"]
          /\ held' = [c \in Contracts |-> held[c] + order[a].legs[c] * n]
    /\ UNCHANGED <<onTheWay, rec, halted, writer, run>>

\* A request whose answer was lost takes effect late, is refused, or never arrives.
Arrive(a) ==
    /\ onTheWay[a] # NoRequest
    /\ onTheWay' = [onTheWay EXCEPT ![a] = NoRequest]
    /\ \/ \E status \in {"working", "rejected"} :
            order' = [order EXCEPT ![a] = [status |-> status, quantity |-> onTheWay[a].quantity,
                                           filled |-> 0, legs |-> onTheWay[a].legs]]
       \/ UNCHANGED order
    /\ UNCHANGED <<held, rec, halted, writer, run>>

Expire(a) ==
    /\ "expired" \in Faults
    /\ Working(a)
    /\ order' = [order EXCEPT ![a].status = "canceled"]
    /\ UNCHANGED <<held, onTheWay, rec, halted, writer, run>>

ManualUnhalt ==
    /\ halted
    /\ halted' = FALSE
    /\ UNCHANGED <<broker, rec, writer, run>>

-----------------------------------------------------------------------------
(***************************************************************************)
(* Phase 0 of a cycle.  First the attempt an unjournaled emergency close   *)
(* would have used is looked for, once for every filled entry; what is     *)
(* found is journaled after the fact (AUDIT_GAP).                          *)
(***************************************************************************)
nextJournaled(closes, subject) ==
    LET journaled == {g \in Generations : closes[<<subject, g>>].status # "none"}
    IN  IF journaled = {} THEN 0 ELSE 1 + (CHOOSE g \in journaled : \A h \in journaled : h <= g)

StartCycle ==
    /\ writer = "runner"
    /\ run["runner"].pc = "idle"
    /\ foldOk
    /\ Goto("runner", [pc |-> "probe", closes |-> rec, todo |-> Structures])
    /\ UNCHANGED <<broker, rec, halted, writer>>

auditGapStatus(record) ==
    IF closeStateOf(record) \in CloseState \ {"accepted"} THEN closeStateOf(record) ELSE "submitted"

ProbeEmergency(s) ==
    /\ At("runner", "probe")
    /\ s \in run["runner"].todo
    /\ LET a == <<s, nextJournaled(run["runner"].closes, s)>>
           rest == run["runner"].todo \ {s}
       IN  \/ /\ a \in Attempts => NoOrder \in Lookup(a)
              /\ Goto("runner", [todo |-> rest])
              /\ UNCHANGED rec
           \/ /\ a \in Attempts
              /\ order[a] # NoOrder
              /\ rec' = [rec EXCEPT ![a] = [status |-> auditGapStatus(order[a]),
                                            quantity |-> order[a].quantity,
                                            filled |-> order[a].filled]]
              /\ Goto("runner", [todo |-> rest])
           \/ /\ a \in Attempts
              /\ order[a] # NoOrder
              /\ AppendFails
              /\ Goto("runner", [todo |-> {}, journalFailure |-> TRUE])
              /\ UNCHANGED rec
    /\ UNCHANGED <<broker, halted, writer>>

\* Mutant: only attempts without an OUTCOME are read again.
closeAttemptsAwaitingOutcome_submitted(closes) ==
    {a \in Attempts : closes[a].status = "submitted"}

closeAttemptsAwaitingOutcome(closes) ==
    {a \in Attempts : closes[a].status \in {"submitted", "confirmation_unclear"}}

ProbesDone ==
    /\ At("runner", "probe")
    /\ run["runner"].todo = {}
    /\ Goto("runner", [pc |-> "reread",
                       todo |-> IF run["runner"].journalFailure THEN {}
                                ELSE closeAttemptsAwaitingOutcome(run["runner"].closes)])
    /\ UNCHANGED <<broker, rec, halted, writer>>

\* The fold of a close's OUTCOME: it takes the place of what was known, and breaks
\* the fold where nothing was.
foldOutcome(a, status, filled) ==
    rec' = [rec EXCEPT ![a].status = IF @ \in {"none", "broken"} THEN "broken" ELSE status,
                       ![a].filled = filled]

Outcome(a, record) ==
    foldOutcome(a, closeOutcome(record),
                IF closeOutcome(record) \in {"filled", "partially_filled"} THEN record.filled ELSE 0)

\* An attempt the broker has not settled, or denies, stays reserved.
reconcileCloseAttempt(a) ==
    /\ At("runner", "reread")
    /\ a \in run["runner"].todo
    /\ \E record \in Lookup(a) :
          \/ /\ \/ record.status \notin TerminalCloseStatus
                \/ closeOutcome(record) = run["runner"].closes[a].status
             /\ Goto("runner", [todo |-> run["runner"].todo \ {a}])
             /\ UNCHANGED rec
          \/ /\ record.status \in TerminalCloseStatus
             /\ closeOutcome(record) # run["runner"].closes[a].status
             /\ \/ /\ Outcome(a, record)
                   /\ Goto("runner", [todo |-> run["runner"].todo \ {a}])
                \/ /\ AppendFails
                   /\ Goto("runner", [todo |-> {}, journalFailure |-> TRUE])
                   /\ UNCHANGED rec
    /\ UNCHANGED <<broker, halted, writer>>

-----------------------------------------------------------------------------
(***************************************************************************)
(* Phase 1: the book, then the kill predicate.  A kill halts first; if its *)
(* HALT does not land, only emergency closes without a line may follow.    *)
(***************************************************************************)
TakeBook ==
    /\ At("runner", "reread")
    /\ run["runner"].todo = {}
    /\ \/ /\ "read_fails" \in Faults \/ ~foldOk
          /\ Goto("runner", [pc |-> "done"])
       \/ \E killTriggered \in BOOLEAN :
             /\ foldOk
             /\ Goto("runner", [book |-> held, closes |-> rec,
                                pc |-> IF killTriggered THEN "kill"
                                       ELSE IF run["runner"].journalFailure THEN "done"
                                       ELSE "manage"])
    /\ UNCHANGED <<broker, rec, halted, writer>>

\* What a cancel pass takes: working orders that could increase risk by this book.
riskIncreasing(book) == {a \in Attempts : Working(a) /\ ~riskReducing(order[a], book)}

KillHalt ==
    /\ At("runner", "kill")
    /\ \/ /\ halted' = TRUE
          /\ Goto("runner", [pc |-> "cancels", mode |-> "kill", journaled |-> TRUE,
                             todo |-> riskIncreasing(run["runner"].book)])
       \/ /\ AppendFails
          /\ Goto("runner", [pc |-> "cancels", mode |-> "kill", journaled |-> FALSE,
                             journalFailure |-> TRUE, todo |-> {}])
          /\ UNCHANGED halted
    /\ UNCHANGED <<broker, rec, writer>>

\* The post-cancel book decides what a kill flattens; the ladder keeps the book it took.
Targets(book) == Closure(book).intact \cup DOMAIN Closure(book).residue

\* Closes that increase risk have no entry record: their OUTCOME waits for phase 0.
\* Cancels of several orders and fills of others commute, so the pass is one step; one
\* that dies half way leaves the rest of it to the next cycle's.
CancelRiskIncreasing ==
    /\ At("runner", "cancels")
    /\ order' = [a \in Attempts |-> IF a \in run["runner"].todo /\ Working(a)
                                    THEN [order[a] EXCEPT !.status = "canceled"] ELSE order[a]]
    /\ IF run["runner"].mode = "ladder"
       THEN Goto("runner", [pc |-> "targets", todo |-> Targets(run["runner"].book)])
       ELSE \E book \in {held} \cup (IF "read_fails" \in Faults THEN {run["runner"].book} ELSE {}) :
               Goto("runner", [pc |-> "targets", book |-> book, todo |-> Targets(book),
                               closes |-> IF run["runner"].journaled THEN Fold(run["runner"].closes)
                                          ELSE run["runner"].closes])
    /\ UNCHANGED <<held, onTheWay, rec, halted, writer>>

(***************************************************************************)
(* The ladder takes a book of its own.  Before the deadline it closes the  *)
(* structures about to expire and the residue; from the deadline on it     *)
(* first cancels what increases risk, and closes everything.               *)
(***************************************************************************)
Manage(pc, todo) ==
    /\ At("runner", "manage")
    /\ Goto("runner", [pc |-> pc, todo |-> todo, mode |-> "ladder", journaled |-> TRUE,
                       book |-> held, closes |-> Fold(run["runner"].closes)])
    /\ UNCHANGED <<broker, rec, halted, writer>>

ManageExpiries ==
    \E expiring \in SUBSET Structures :
        Manage("targets", evictionTargets(held, FilledEntries, expiring)
                              \cup DOMAIN Closure(held).residue)

ManageFlatten == Manage("cancels", riskIncreasing(held))

ManagementBookUnreadable ==
    /\ At("runner", "manage")
    /\ "read_fails" \in Faults
    /\ Goto("runner", [pc |-> "done"])
    /\ UNCHANGED <<broker, rec, halted, writer>>

-----------------------------------------------------------------------------
(***************************************************************************)
(* The watchdog: it reads the journal and finds it stale, takes the epoch, *)
(* halts unless the journal it read was halted, and takes the book.        *)
(***************************************************************************)
ObserveStale ==
    /\ "stale" \in Faults
    /\ writer = "runner"
    /\ run["watchdog"].pc = "idle"
    /\ Goto("watchdog", [pc |-> "acquire", mode |-> "watchdog", sawHalt |-> halted])
    /\ UNCHANGED <<broker, rec, halted, writer>>

acquireAuthority ==
    /\ writer = "runner"
    /\ run["watchdog"].pc = "acquire"
    /\ writer' = "watchdog"
    /\ Goto("watchdog", [pc |-> "halt"])
    /\ UNCHANGED <<broker, rec, halted>>

\* The store refuses, or a rival was faster: a ping, and nothing else.
AuthorityRefused ==
    /\ run["watchdog"].pc = "acquire"
    /\ Goto("watchdog", Idle)
    /\ UNCHANGED <<broker, rec, halted, writer>>

WatchdogHalt ==
    /\ At("watchdog", "halt")
    /\ \/ /\ run["watchdog"].sawHalt
          /\ Goto("watchdog", [pc |-> "book"])
          /\ UNCHANGED halted
       \/ /\ ~run["watchdog"].sawHalt
          /\ halted' = TRUE
          /\ Goto("watchdog", [pc |-> "book"])
       \/ /\ ~run["watchdog"].sawHalt
          /\ AppendFails
          /\ Goto("watchdog", [pc |-> "book"])
          /\ UNCHANGED halted
    /\ UNCHANGED <<broker, rec, writer>>

WatchdogBook ==
    /\ At("watchdog", "book")
    /\ \/ /\ "read_fails" \in Faults \/ ~foldOk
          /\ Goto("watchdog", [pc |-> "done"])
       \/ /\ foldOk
          /\ Goto("watchdog", [pc |-> "targets", book |-> held, closes |-> rec, todo |-> Targets(held)])
    /\ UNCHANGED <<broker, rec, halted, writer>>

-----------------------------------------------------------------------------
(***************************************************************************)
(* One target after the other, structures before residue.                  *)
(***************************************************************************)
\* Mutant: an attempt the broker does not show is taken for one that is over.
attemptState_absentIsOver(known, record) ==
    IF record # NoOrder THEN closeStateOf(record)
    ELSE IF known.status = "submitted" THEN "rejected" ELSE known.status

attemptState(known, record) ==
    IF record # NoOrder THEN closeStateOf(record)
    ELSE IF known.status = "submitted" THEN "confirmation_unclear" ELSE known.status

\* closeLifecycleSnapshot: every journaled generation and the one behind it.
closeLifecycleSnapshot(closes, subject, records) ==
    {[generation |-> g,
      requested  |-> IF records[g] # NoOrder THEN records[g].quantity ELSE closes[<<subject, g>>].quantity,
      filled     |-> IF records[g] # NoOrder THEN records[g].filled ELSE closes[<<subject, g>>].filled,
      state      |-> attemptState(closes[<<subject, g>>], records[g])] :
        g \in {g \in Generations : /\ g <= nextJournaled(closes, subject)
                                   /\ \/ closes[<<subject, g>>].status # "none"
                                      \/ records[g] # NoOrder}}

\* The target is done with, its line perhaps lost; the ladder reads the journal again
\* before the next.
NextTarget(p, failed) ==
    Goto(p, [pc |-> "targets", cur |-> <<>>, exposure |-> 0, plan |-> 0, answer |-> "none",
             todo |-> run[p].todo \ {run[p].cur[1]},
             journalFailure |-> failed \/ run[p].journalFailure])

\* The attempts are read one by one; a failed read ends the watchdog's run.
PlanTarget(p, subject) ==
    /\ At(p, "targets")
    /\ subject \in SubjectsFirst(run[p].todo)
    /\ \/ \E records \in {f \in [Generations -> {order[a] : a \in Attempts} \cup {NoOrder}] :
                            \A g \in Generations :
                               f[g] \in IF p = "watchdog" THEN {order[<<subject, g>>]}
                                        ELSE Lookup(<<subject, g>>)} :
             LET closes == IF run[p].mode = "ladder" THEN Fold(run[p].closes) ELSE run[p].closes
                 exposure == exposureOf(subject, run[p].book)
                 plan == planCloseLifecycle(exposure, closeLifecycleSnapshot(closes, subject, records))
                 Try(pc, quantity) ==
                     Goto(p, [pc |-> pc, closes |-> closes, exposure |-> exposure,
                              cur |-> <<subject, plan.generation>>, plan |-> quantity])
             IN  CASE plan.kind = "SUBMIT" /\ plan.generation \in Generations ->
                        Try("intent", plan.quantity)
                   [] plan.kind = "ADOPT" /\ run[p].mode = "ladder" /\ plan.generation < MaxGeneration ->
                        Try("cancel", 0)
                   [] OTHER -> Goto(p, [todo |-> run[p].todo \ {subject}])
       \/ /\ p = "watchdog"
          /\ "read_fails" \in Faults
          /\ Goto(p, [pc |-> "done"])
    /\ UNCHANGED <<broker, rec, halted, writer>>

\* ADOPT in the ladder: the resting attempt is canceled ...
CancelResting ==
    /\ At("runner", "cancel")
    /\ LET a == run["runner"].cur
       IN  order' = IF Working(a) THEN [order EXCEPT ![a].status = "canceled"] ELSE order
    /\ Goto("runner", [pc |-> "canceled"])
    /\ UNCHANGED <<held, onTheWay, rec, halted, writer>>

\* ... read back, its OUTCOME journaled if it has one ...
ReadCanceled ==
    /\ At("runner", "canceled")
    /\ \E record \in Lookup(run["runner"].cur) :
          LET remaining == remainingCloseExposure(run["runner"].exposure, record)
              goesOn == /\ reconcileCancel(record) \in {"CANCELED", "PARTIALLY_FILLED_DURING_CANCEL"}
                        /\ remaining > 0
              Continue(failed) ==
                  IF goesOn
                  THEN Goto("runner", [pc |-> "replan", exposure |-> remaining,
                                       journalFailure |-> failed \/ run["runner"].journalFailure])
                  ELSE NextTarget("runner", failed)
          IN  \/ /\ IF record.status \in TerminalCloseStatus THEN Outcome(run["runner"].cur, record)
                    ELSE UNCHANGED rec
                 /\ Continue(FALSE)
              \/ /\ record.status \in TerminalCloseStatus
                 /\ AppendFails
                 /\ Continue(TRUE)
                 /\ UNCHANGED rec
    /\ UNCHANGED <<broker, halted, writer>>

\* ... and the lifecycle is planned again over what it leaves.
PlanAgain ==
    /\ At("runner", "replan")
    /\ LET subject == run["runner"].cur[1]
       IN  \E records \in {f \in [Generations -> {order[a] : a \in Attempts} \cup {NoOrder}] :
                             \A g \in Generations : f[g] \in Lookup(<<subject, g>>)} :
              LET closes == Fold(run["runner"].closes)
                  plan == planCloseLifecycle(run["runner"].exposure,
                                             closeLifecycleSnapshot(closes, subject, records))
              IN  IF plan.kind = "SUBMIT" /\ plan.generation \in Generations
                  THEN Goto("runner", [pc |-> "intent", closes |-> closes, plan |-> plan.quantity,
                                       cur |-> <<subject, plan.generation>>])
                  ELSE NextTarget("runner", FALSE)
    /\ UNCHANGED <<broker, rec, halted, writer>>

-----------------------------------------------------------------------------
(***************************************************************************)
(* A submission: price and eligibility by the process's own book, the      *)
(* INTENT (an emergency close has none), the order, its OUTCOME.           *)
(***************************************************************************)
eligible(p) ==
    emergencyCloseEligibility(run[p].book, closingLegs(run[p].cur[1], run[p].book), run[p].plan)

RefuseSubmission(p) ==
    /\ At(p, "intent")
    /\ "no_price" \in Faults \/ ~eligible(p)
    /\ NextTarget(p, FALSE)
    /\ UNCHANGED <<broker, rec, halted, writer>>

\* At its cap the ladder halts before the INTENT.
AppendIntent(p) ==
    /\ At(p, "intent")
    /\ eligible(p)
    /\ \/ UNCHANGED halted
       \/ run[p].mode = "ladder" /\ halted' = TRUE
    /\ \/ /\ run[p].journaled
          /\ rec' = [rec EXCEPT ![run[p].cur] =
                        [status |-> IF @.status = "broken" THEN "broken" ELSE "submitted",
                         quantity |-> run[p].plan, filled |-> 0]]
          /\ Goto(p, [pc |-> "submit"])
       \/ /\ ~run[p].journaled
          /\ Goto(p, [pc |-> "submit"])
          /\ UNCHANGED rec
       \/ /\ run[p].journaled
          /\ AppendFails
          /\ NextTarget(p, TRUE)
          /\ UNCHANGED rec
    /\ UNCHANGED <<broker, writer>>

\* The broker takes one order per client order id.
SubmitOrder(p) ==
    /\ At(p, "submit")
    /\ LET a == run[p].cur
           legs == closingLegs(a[1], run[p].book)
           request == [quantity |-> run[p].plan, legs |-> legs]
       IN  \/ /\ order[a] = NoOrder
              /\ onTheWay[a] = NoRequest
              /\ order' = [order EXCEPT ![a] = [status |-> "working", quantity |-> run[p].plan,
                                                filled |-> 0, legs |-> legs]]
              /\ Goto(p, [pc |-> "observe", answer |-> "acknowledged"])
              /\ UNCHANGED onTheWay
           \/ /\ order[a] = NoOrder
              /\ "lost" \in Faults
              /\ onTheWay' = IF onTheWay[a] = NoRequest THEN [onTheWay EXCEPT ![a] = request]
                             ELSE onTheWay
              /\ Goto(p, [pc |-> "observe", answer |-> "acknowledgement_lost"])
              /\ UNCHANGED order
           \/ /\ order[a] = NoOrder
              /\ onTheWay[a] = NoRequest
              /\ "rejected" \in Faults
              /\ Goto(p, [pc |-> "observe", answer |-> "rejected"])
              /\ UNCHANGED <<order, onTheWay>>
           \/ /\ order[a] # NoOrder
              /\ Goto(p, [pc |-> "observe", answer |-> "duplicate"])
              /\ UNCHANGED <<order, onTheWay>>
    /\ UNCHANGED <<held, rec, halted, writer>>

\* The line behind a submission; a working order has none yet.
outcomeFromSubmit(a, answer, record) ==
    CASE answer = "rejected" -> foldOutcome(a, "rejected", 0)
      [] answer # "rejected" /\ record = NoOrder -> foldOutcome(a, "confirmation_unclear", 0)
      [] answer # "rejected" /\ record.status \in TerminalCloseStatus -> Outcome(a, record)
      [] answer # "rejected" /\ record.status = "working" -> UNCHANGED rec

\* The watchdog takes every refusal for a lost answer and reads nothing back then.
ObserveSubmit(p) ==
    /\ At(p, "observe")
    /\ LET a == run[p].cur
           lost == run[p].answer = "acknowledgement_lost"
                      \/ (p = "watchdog" /\ run[p].answer # "acknowledged")
           answer == IF lost THEN "acknowledgement_lost" ELSE run[p].answer
       IN  \/ /\ ~run[p].journaled
              /\ NextTarget(p, FALSE)
              /\ UNCHANGED rec
           \/ /\ run[p].journaled
              /\ \E record \in (IF lost THEN {NoOrder} ELSE IF p = "watchdog" THEN {order[a]} ELSE Lookup(a)) :
                    outcomeFromSubmit(a, answer, record)
              /\ NextTarget(p, FALSE)
           \/ /\ run[p].journaled
              /\ AppendFails
              /\ NextTarget(p, TRUE)
              /\ UNCHANGED rec
           \/ /\ p = "watchdog"
              /\ "read_fails" \in Faults
              /\ ~lost
              /\ Goto(p, [pc |-> "done"])
              /\ UNCHANGED rec
    /\ UNCHANGED <<broker, halted, writer>>

\* A kill goes on to the management step unless a line of this cycle failed.
TargetsDone(p) ==
    /\ At(p, "targets")
    /\ run[p].todo = {}
    /\ Goto(p, [pc |-> IF run[p].mode = "kill" /\ ~run[p].journalFailure THEN "manage" ELSE "done"])
    /\ UNCHANGED <<broker, rec, halted, writer>>

-----------------------------------------------------------------------------
\* The invocation is over, crashes, or finds itself fenced.
Ends(p) ==
    /\ run[p].pc = "done"
    /\ Goto(p, Idle)
    /\ UNCHANGED <<broker, rec, halted, writer>>

Crash(p) ==
    /\ "crash" \in Faults
    /\ run[p].pc # "idle"
    /\ Goto(p, Idle)
    /\ UNCHANGED <<broker, rec, halted, writer>>

Fenced(p) ==
    /\ writer # p
    /\ run[p].pc \notin {"idle", "acquire", "done"}
    /\ Goto(p, Idle)
    /\ UNCHANGED <<broker, rec, halted, writer>>

\* The next scheduled runner takes the epoch from a watchdog that ended or hangs.
RunnerAcquires ==
    /\ writer = "watchdog"
    /\ run["runner"].pc = "idle"
    /\ writer' = "runner"
    /\ UNCHANGED <<broker, rec, halted, run>>

WorkOnTargets(p) ==
    \/ \E s \in Subjects : PlanTarget(p, s)
    \/ RefuseSubmission(p) \/ AppendIntent(p) \/ SubmitOrder(p) \/ ObserveSubmit(p)
    \/ TargetsDone(p) \/ Ends(p)

RunnerStep ==
    \/ StartCycle \/ ProbesDone \/ TakeBook \/ KillHalt \/ CancelRiskIncreasing
    \/ ManageExpiries \/ ManageFlatten \/ ManagementBookUnreadable
    \/ \E s \in Structures : ProbeEmergency(s)
    \/ \E a \in Attempts : reconcileCloseAttempt(a)
    \/ WorkOnTargets("runner")
    \/ CancelResting \/ ReadCanceled \/ PlanAgain

Next ==
    \/ \E a \in Attempts : Fill(a) \/ Arrive(a) \/ Expire(a)
    \/ ManualUnhalt
    \/ RunnerStep
    \/ ObserveStale \/ acquireAuthority \/ AuthorityRefused \/ WatchdogHalt \/ WatchdogBook
    \/ WorkOnTargets("watchdog")
    \/ \E p \in Processes : Crash(p) \/ Fenced(p)
    \/ RunnerAcquires

Spec == Init /\ [][Next]_vars

(***************************************************************************)
(* Invocations of the runner keep coming and go on; what may fail, a read  *)
(* or a price, does not fail for ever; the broker settles requests and     *)
(* fills what rests between cycles; and the deadline comes.  An order or a *)
(* request settles once, so fairness for some is fairness for each.        *)
(***************************************************************************)
Settles(a) == reconcileCloseAttempt(a) /\ rec' # rec
LiveSpec ==
    /\ Spec
    /\ WF_vars(RunnerStep)
    /\ SF_vars(TakeBook /\ run["runner"]'.pc # "done")
    /\ SF_vars(ManageFlatten)
    /\ SF_vars(AppendIntent("runner"))
    /\ WF_vars(\E a \in Attempts : Arrive(a))
    /\ SF_vars(\E a \in Attempts : Fill(a))
    /\ SF_vars(\E a \in Attempts : Settles(a))

-----------------------------------------------------------------------------
(***************************************************************************)
(* No close lifecycle ever has two attempts that can still fill, whatever  *)
(* answers, lines or processes are lost, and although runner and watchdog  *)
(* share the ids (S-G7-01: no parallel child).                             *)
(***************************************************************************)
OneChildPerLifecycle ==
    \A s \in Subjects : \A g, h \in Generations :
        LET Fillable(a) == Working(a) \/ onTheWay[a] # NoRequest
        IN  Fillable(<<s, g>>) /\ Fillable(<<s, h>>) => g = h

(***************************************************************************)
(* No fill takes a position beyond zero or enlarges it: what closes have   *)
(* in flight never adds up to more than what is held.  The code keeps this *)
(* where a close fills whole and between two invocations.  A structure's   *)
(* close that rests with a part filled is not counted when the legs that   *)
(* are left are closed as residue, and a fill in the middle of a step is   *)
(* judged against the book from before it.                                 *)
(***************************************************************************)
NeverReverses ==
    [][\A c \in Contracts : /\ Abs(held'[c]) <= Abs(held[c])
                             /\ held'[c] * held[c] >= 0]_vars

(***************************************************************************)
(* The broker's last word on a journaled attempt reaches the journal, even *)
(* when it is spoken while no step looks at that lifecycle (S-CYC-04, A5). *)
(***************************************************************************)
TruthReachesJournal ==
    []<>(\A a \in Attempts :
            rec[a].status # "none" /\ order[a].status \in TerminalCloseStatus
                => rec[a].status = closeOutcome(order[a]))

(***************************************************************************)
(* From the deadline on every contract ends flat, but for those of a       *)
(* lifecycle that has used up its generations, or whose journaled attempt  *)
(* the broker never got: its absence is no outcome to phase 0, and the     *)
(* ladder waits for the cancel of what does not rest (CANCEL_UNCLEAR).     *)
(***************************************************************************)
Exhausted(s) == rec[<<s, MaxGeneration>>].status \in {"canceled", "rejected"}
Unanswered(s) ==
    \E g \in Generations : /\ rec[<<s, g>>].status \in {"submitted", "confirmation_unclear"}
                           /\ order[<<s, g>>] = NoOrder
                           /\ onTheWay[<<s, g>>] = NoRequest
Closes(s, c) == s = c \/ (s \in Structures /\ Legs[s][c] # 0)
EventuallyFlat ==
    \A c \in Contracts :
        <>[](held[c] = 0 \/ \E s \in Subjects : Closes(s, c) /\ (Exhausted(s) \/ Unanswered(s)))
=============================================================================
