--------------------------- MODULE EntryLifecycle ---------------------------
(***************************************************************************)
(* The entry orders of the cycle runner (src/src/shell/cycle-runner.ts):   *)
(* phase 0 re-reads every unresolved order at the broker, phase 1 takes    *)
(* the book and classifies it, phase 4 takes each plan through INTENT,     *)
(* revalidation, submission and OUTCOME, and a deadline cycle cancels what *)
(* still works.  The journal is kept as the fold of its lines: the record  *)
(* of every entry.  The runner keeps nothing between cycles, and a crash   *)
(* ends a cycle at any point.                                              *)
(*                                                                         *)
(* That only the current writer gets a line or an order through, and no    *)
(* entry under a halt, is Gateway's business: here the gateway is the      *)
(* guard on `halted' and the refusals it may answer.  The closes of the    *)
(* management step are abstracted to PositionCloses.                       *)
(***************************************************************************)
EXTENDS EntryRecord, FiniteSets

CONSTANTS Orders,   \* client order ids, each of a structure of its own
          NoId,     \* "no order"
          Faults    \* input: the faults that happen

ASSUME FaultsAssumption ==
    Faults \subseteq {"crash", "append_fails", "read_fails", "unseen", "refused",
                      "lost", "worse_fill", "contradictory"}
ASSUME NoIdAssumption == NoId \notin Orders

VARIABLES
    order,         \* the broker's record of each order
    request,       \* the submit request: "none", "on_its_way" (answer lost) or "settled"
    position,      \* lots of each order's structure held in the account
    rec,           \* the journal's fold
    halted,        \* the halt state
    deadline,      \* the trading day has reached FLATTEN_DATE
    \* one cycle of the runner
    pc,            \* where it is
    todo,          \* the ids the current loop still has to look at
    cur, seen,     \* the order in work, and the record the broker gave for it
    answer,        \* submitObservation
    book,          \* the phase 1 book
    entriesBlocked,
    journalFailure

broker == <<order, request, position>>
local == <<pc, todo, cur, seen, answer, book, entriesBlocked, journalFailure>>
vars == <<broker, rec, halted, local, deadline>>

foldOk == \A o \in Orders : rec[o].state # "broken"

\* What the fingerprints of the claimset tell of a book.
fingerprint(o) ==
    [position |-> position[o],
     open |-> IF order[o].status = "working" THEN order[o].filled ELSE -1]
Book == [o \in Orders |-> fingerprint(o)]
NoBook == [o \in Orders |-> [position |-> 0, open |-> -1]]

-----------------------------------------------------------------------------
(***************************************************************************)
(* Appends.  A line lands and is folded, or it does not and the cycle      *)
(* remembers that its journal failed.                                      *)
(***************************************************************************)
AppendFails ==
    /\ "append_fails" \in Faults
    /\ journalFailure' = TRUE
    /\ UNCHANGED rec

Lands(o, line) ==
    /\ rec' = [rec EXCEPT ![o] = foldLine(@, line)]
    /\ UNCHANGED journalFailure

\* haltFor and haltForPriceBreach: one HALT line unless a halt stands.
haltFor ==
    \/ /\ halted
       /\ UNCHANGED <<halted, journalFailure>>
    \/ /\ ~halted
       /\ halted' = TRUE
       /\ UNCHANGED journalFailure
    \/ /\ ~halted
       /\ "append_fails" \in Faults
       /\ journalFailure' = TRUE
       /\ UNCHANGED halted

Goto(label) == pc' = label

\* The order in work is done with, and the loop it belongs to goes on.
Return(label) ==
    /\ pc' = label
    /\ cur' = NoId
    /\ seen' = NoOrder
    /\ answer' = "none"

\* The cycle is over, and what it knew is gone.
EndCycle ==
    /\ Return("idle")
    /\ todo' = {}
    /\ book' = NoBook
    /\ entriesBlocked' = FALSE
    /\ journalFailure' = FALSE

-----------------------------------------------------------------------------
(***************************************************************************)
(* Phase 0.  A journal whose fold fails ends the cycle before it begins.   *)
(***************************************************************************)
\* Mutant: every entry is read again, settled or not.
Unresolved_all == {o \in Orders : rec[o].state # "none"}

\* Mutant: a resting order is taken for settled by its acknowledgement.
Unresolved_restingForgotten == {o \in Orders : rec[o].state \in Unclear}

Unresolved == {o \in Orders : rec[o].state \in Unclear \cup {"fillable"}}

StartCycle ==
    /\ pc = "idle"
    /\ foldOk
    /\ todo' = Unresolved
    /\ Goto("phase0")
    /\ UNCHANGED <<broker, rec, halted, cur, seen, answer, book, entriesBlocked,
                   journalFailure, deadline>>

\* What a lookup answers: the record, or, while the broker's read side lags, nothing.
Answers(o) == {order[o]} \cup (IF "unseen" \in Faults THEN {NoOrder} ELSE {})
Vanished(o, record) == record = NoOrder /\ rec[o].state = "fillable"

\* The broker does not answer, or denies an order it once confirmed: entries stay blocked.
LookupUnresolved(o) ==
    /\ pc = "phase0"
    /\ o \in todo
    /\ \/ "read_fails" \in Faults
       \/ \E record \in Answers(o) : Vanished(o, record)
    /\ todo' = todo \ {o}
    /\ entriesBlocked' = TRUE
    /\ UNCHANGED <<broker, rec, halted, pc, cur, seen, answer, book, journalFailure, deadline>>

\* entryFillTransitionBreachesLimit, together with what earlier lines recorded.
BreachSeen(o, record) == rec[o].priceBreach \/ record.worse

orderByClientId(o, record) ==
    /\ pc = "phase0"
    /\ o \in todo
    /\ record \in Answers(o)
    /\ ~Vanished(o, record)
    /\ todo' = todo \ {o}
    /\ cur' = o
    /\ seen' = record
    /\ entriesBlocked' = (entriesBlocked \/ BreachSeen(o, record))
    /\ Goto(IF BreachSeen(o, record) THEN "breach0" ELSE "resolve")
    /\ UNCHANGED <<broker, rec, halted, answer, book, journalFailure, deadline>>

\* The HALT comes before the OUTCOME here ...
HaltBeforeResolution ==
    /\ pc = "breach0"
    /\ haltFor
    /\ Goto("resolve")
    /\ UNCHANGED <<broker, rec, todo, cur, seen, answer, book, entriesBlocked, deadline>>

StillWorking ==
    /\ seen.status = "working"
    /\ rec[cur].state = "fillable"
    /\ seen.filled = rec[cur].filled

resolutionLine ==
    IF isTerminalBrokerStatus(seen) THEN outcomeFromOrder(seen)
    ELSE IF seen = NoOrder THEN Plain("NOT_AT_BROKER") ELSE WorkingLine("MATCHED_WORKING", seen)

\* Only what the broker still leaves open blocks: a derived OUTCOME never does.
BlocksEntries ==
    ~isTerminalBrokerStatus(seen) /\ (seen = NoOrder \/ rec[cur].state \in Unclear)

\* ... and is tried once more behind it.
Resolve ==
    /\ pc = "resolve"
    /\ \/ /\ StillWorking
          /\ Return("phase0")
          /\ UNCHANGED <<rec, todo, entriesBlocked, journalFailure>>
       \/ /\ ~StillWorking
          /\ Lands(cur, resolutionLine)
          /\ entriesBlocked' = (entriesBlocked \/ BlocksEntries)
          /\ Return(IF BreachSeen(cur, seen) THEN "breach0again" ELSE "phase0")
          /\ UNCHANGED todo
       \/ /\ ~StillWorking
          /\ AppendFails
          /\ todo' = {}
          /\ Return("phase0")
          /\ UNCHANGED entriesBlocked
    /\ UNCHANGED <<broker, halted, book, deadline>>

HaltAfterResolution ==
    /\ pc = "breach0again"
    /\ haltFor
    /\ Goto("phase0")
    /\ UNCHANGED <<broker, rec, todo, cur, seen, answer, book, entriesBlocked, deadline>>

-----------------------------------------------------------------------------
(***************************************************************************)
(* Phase 1.  The whole book is read at once.  A held lot that no record in *)
(* state "filled" explains is RESIDUE: a HALT, unless one stands, and no   *)
(* entries.  A journal that failed in phase 0 ends the cycle here.         *)
(***************************************************************************)
Intact(o) == rec[o].state = "filled" /\ position[o] >= rec[o].filled
Residue(o) == IF Intact(o) THEN position[o] > rec[o].filled ELSE position[o] > 0

Snapshot ==
    /\ pc = "phase0"
    /\ todo = {}
    /\ \/ /\ journalFailure \/ "read_fails" \in Faults \/ ~foldOk
          /\ EndCycle
          /\ UNCHANGED halted
       \/ /\ ~journalFailure
          /\ foldOk
          /\ book' = Book
          /\ IF \E o \in Orders : Residue(o)
             THEN haltFor ELSE UNCHANGED <<halted, journalFailure>>
          /\ entriesBlocked' = (entriesBlocked \/ halted \/ \E o \in Orders : Residue(o))
          /\ Goto("primary")
          /\ UNCHANGED <<todo, cur, seen, answer>>
    /\ UNCHANGED <<broker, rec, deadline>>

\* The primary entry precedes every order.  From FLATTEN_DATE on every entry is vetoed.
AppendPrimary ==
    /\ pc = "primary"
    /\ \/ /\ ~journalFailure
          /\ \/ ~deadline /\ Goto("entries") /\ UNCHANGED book
             \/ deadline /\ Goto("flatten") /\ book' = NoBook
          /\ UNCHANGED <<todo, cur, seen, answer, entriesBlocked, journalFailure>>
       \/ /\ journalFailure \/ "append_fails" \in Faults
          /\ EndCycle
    /\ UNCHANGED <<broker, rec, halted, deadline>>

-----------------------------------------------------------------------------
(***************************************************************************)
(* Phase 4: one plan after the other.                                      *)
(***************************************************************************)
\* G7 vetoes an id that already has an INTENT.
AppendIntent(o) ==
    /\ pc = "entries"
    /\ ~entriesBlocked
    /\ ~journalFailure
    /\ rec[o].state = "none"
    /\ \/ /\ Lands(o, Plain("INTENT"))
          /\ cur' = o
          /\ Goto("recheck")
       \/ /\ AppendFails
          /\ UNCHANGED <<cur, pc>>
    /\ UNCHANGED <<broker, halted, todo, seen, answer, book, entriesBlocked, deadline>>

\* The claimset on a fresh book.
ClaimsHold == ~halted /\ Book = book

Revalidate ==
    /\ pc = "recheck"
    /\ ClaimsHold
    /\ Goto("submit")
    /\ UNCHANGED <<broker, rec, halted, todo, cur, seen, answer, book, entriesBlocked,
                   journalFailure, deadline>>

\* A claim is violated: one of these, or one about equity, gates or the read itself.
RevalidationVoid ==
    /\ pc = "recheck"
    /\ Lands(cur, Plain("REVALIDATION_VOID")) \/ AppendFails
    /\ Return("entries")
    /\ UNCHANGED <<broker, halted, todo, book, entriesBlocked, deadline>>

\* The gateway refuses before the port: nothing was sent, and nothing is journaled.
SubmitRefused ==
    /\ pc = "submit"
    /\ halted \/ "refused" \in Faults
    /\ Return("entries")
    /\ UNCHANGED <<broker, rec, halted, todo, book, entriesBlocked, journalFailure, deadline>>

\* The port is called.  A duplicate answer means the broker has had this id before.
SubmitOrder(how) ==
    /\ pc = "submit"
    /\ ~halted
    /\ how \in {"lost", "duplicate"} => "lost" \in Faults
    /\ request' = [request EXCEPT ![cur] = IF how = "lost" THEN "on_its_way" ELSE "settled"]
    /\ order' = [order EXCEPT ![cur] =
                    CASE how = "lost" -> @ [] how = "rejected" -> NoOrder [] OTHER -> Working]
    /\ answer' = how
    /\ Goto(IF how \in {"acknowledged", "duplicate"} THEN "observe" ELSE "record")
    /\ UNCHANGED <<position, rec, halted, todo, cur, seen, book, entriesBlocked,
                   journalFailure, deadline>>

\* The read-back behind an answer that names an order; without it the answer counts as lost.
Observe ==
    /\ pc = "observe"
    /\ \/ seen' = order[cur] /\ UNCHANGED answer
       \/ /\ Faults \cap {"read_fails", "unseen"} # {}
          /\ answer' = "lost"
          /\ UNCHANGED seen
    /\ Goto("record")
    /\ UNCHANGED <<broker, rec, halted, todo, cur, book, entriesBlocked, journalFailure, deadline>>

submitLine ==
    CASE answer = "rejected" -> Outcome("rejected", 0, FALSE)
      [] answer = "lost" -> UnclearOutcome
      [] answer \in {"acknowledged", "duplicate"} ->
           IF isTerminalBrokerStatus(seen) THEN outcomeFromOrder(seen)
           ELSE WorkingLine(IF answer = "acknowledged" THEN "ACKNOWLEDGED_WORKING"
                                                       ELSE "MATCHED_WORKING", seen)

\* Mutant: an unclear answer does not stop the rest of the batch.
BlocksSiblings_never == FALSE

BlocksSiblings ==
    \/ submitLine.status = "confirmation_unclear"
    \/ submitLine.type = "MATCHED_WORKING"

RecordSubmit ==
    /\ pc = "record"
    /\ Lands(cur, submitLine) \/ AppendFails
    /\ entriesBlocked' = (entriesBlocked \/ BlocksSiblings \/ submitLine.breach)
    /\ Return(IF submitLine.breach THEN "breach4" ELSE "entries")
    /\ UNCHANGED <<broker, halted, todo, book, deadline>>

HaltAfterSubmit ==
    /\ pc = "breach4"
    /\ haltFor
    /\ Goto("entries")
    /\ UNCHANGED <<broker, rec, todo, cur, seen, answer, book, entriesBlocked, deadline>>

-----------------------------------------------------------------------------
(***************************************************************************)
(* Management on a deadline cycle: every working entry of a fresh book is  *)
(* canceled, re-read and, once terminal, journaled.                        *)
(***************************************************************************)
FlattenBook ==
    /\ pc = "flatten"
    /\ todo = {}
    /\ todo' = {o \in Orders : order[o].status = "working"}
    /\ Goto("cancels")
    /\ UNCHANGED <<broker, rec, halted, cur, seen, answer, book, entriesBlocked,
                   journalFailure, deadline>>

\* The cancel arrives in time, late, or never; then the order is read again.
CancelOrder(o) ==
    /\ pc = "cancels"
    /\ o \in todo
    /\ todo' = todo \ {o}
    /\ \/ order[o].status = "working" /\ order' = [order EXCEPT ![o].status = "canceled"]
       \/ UNCHANGED order
    /\ \/ /\ isTerminalBrokerStatus(order'[o])
          /\ seen' = order'[o]
          /\ cur' = o
          /\ Goto("canceled")
       \/ /\ ~isTerminalBrokerStatus(order'[o]) \/ Faults \cap {"read_fails", "unseen"} # {}
          /\ UNCHANGED <<seen, cur, pc>>
    /\ UNCHANGED <<request, position, rec, halted, answer, book, entriesBlocked,
                   journalFailure, deadline>>

RecordCancel ==
    /\ pc = "canceled"
    /\ Lands(cur, outcomeFromOrder(seen)) \/ AppendFails
    /\ Return("cancels")
    /\ UNCHANGED <<broker, halted, todo, book, entriesBlocked, deadline>>

FinishCycle ==
    /\ pc = "entries" \/ (pc = "cancels" /\ todo = {})
    /\ EndCycle
    /\ UNCHANGED <<broker, rec, halted, deadline>>

Crash ==
    /\ "crash" \in Faults
    /\ pc # "idle"
    /\ EndCycle
    /\ UNCHANGED <<broker, rec, halted, deadline>>

-----------------------------------------------------------------------------
(***************************************************************************)
(* The broker and the human.                                               *)
(***************************************************************************)
RequestArrives(o) ==
    /\ request[o] = "on_its_way"
    /\ request' = [request EXCEPT ![o] = "settled"]
    /\ order' = [order EXCEPT ![o] = Working]
    /\ UNCHANGED <<position, rec, halted, local, deadline>>

Fill(o, lots, worse) ==
    /\ order[o].status = "working"
    /\ order[o].filled + lots <= Qty
    /\ worse => "worse_fill" \in Faults
    /\ order' = [order EXCEPT ![o].filled = @ + lots, ![o].worse = @ \/ worse,
                    ![o].status = IF order[o].filled + lots = Qty THEN "filled" ELSE @]
    /\ position' = [position EXCEPT ![o] = @ + lots]
    /\ UNCHANGED <<request, rec, halted, local, deadline>>

\* The order ends otherwise; rejected with fills or filled short of its quantity is contradictory.
OrderEnds(o, status, contradictory) ==
    /\ order[o].status = "working"
    /\ contradictory => "contradictory" \in Faults
    /\ (status = "rejected" /\ order[o].filled > 0) \/ status = "filled" => contradictory
    /\ order' = [order EXCEPT ![o].status = status, ![o].contradictory = contradictory,
                              ![o].worse = @ /\ ~contradictory]
    /\ UNCHANGED <<request, position, rec, halted, local, deadline>>

PositionCloses(o) ==
    /\ position[o] > 0
    /\ position' = [position EXCEPT ![o] = 0]
    /\ UNCHANGED <<order, request, rec, halted, local, deadline>>

Unhalt ==
    /\ halted
    /\ halted' = FALSE
    /\ UNCHANGED <<broker, rec, deadline, local>>

\* The trading day of a cycle is fixed when it begins.
FlattenDateComes ==
    /\ pc = "idle"
    /\ ~deadline
    /\ deadline' = TRUE
    /\ UNCHANGED <<broker, rec, halted, local>>

-----------------------------------------------------------------------------
Init ==
    /\ order = [o \in Orders |-> NoOrder]
    /\ request = [o \in Orders |-> "none"]
    /\ position = [o \in Orders |-> 0]
    /\ rec = [o \in Orders |-> NoRecord]
    /\ halted = FALSE
    /\ deadline = FALSE
    /\ pc = "idle"
    /\ todo = {}
    /\ cur = NoId
    /\ seen = NoOrder
    /\ answer = "none"
    /\ book = NoBook
    /\ entriesBlocked = FALSE
    /\ journalFailure = FALSE

Submission == \E how \in {"acknowledged", "lost", "rejected", "duplicate"} : SubmitOrder(how)

Runner ==
    \/ StartCycle
    \/ \E o \in Orders :
         LookupUnresolved(o) \/ \E record \in {order[o], NoOrder} : orderByClientId(o, record)
    \/ HaltBeforeResolution \/ Resolve \/ HaltAfterResolution
    \/ Snapshot \/ AppendPrimary
    \/ \E o \in Orders : AppendIntent(o)
    \/ Revalidate \/ RevalidationVoid
    \/ SubmitRefused \/ Submission \/ Observe \/ RecordSubmit \/ HaltAfterSubmit
    \/ FlattenBook \/ \E o \in Orders : CancelOrder(o)
    \/ RecordCancel \/ FinishCycle

Environment ==
    \/ Crash
    \/ Unhalt \/ FlattenDateComes
    \/ \E o \in Orders :
         \/ RequestArrives(o)
         \/ \E lots \in 1..Qty, worse \in BOOLEAN : Fill(o, lots, worse)
         \/ \E status \in TerminalStatus, contradictory \in BOOLEAN :
               OrderEnds(o, status, contradictory)
         \/ PositionCloses(o)

Next == Runner \/ Environment

Spec == Init /\ [][Next]_vars

(***************************************************************************)
(* Fairness.  The scheduler starts cycles for ever and a cycle ends, if    *)
(* only by the walltime.  What is tried in cycle after cycle succeeds some *)
(* time: the lookup, and with its answer in hand the way to the append.    *)
(***************************************************************************)
HoldsTruth(o) == cur = o /\ seen = order[o]
Fairness ==
    /\ WF_vars(Runner)
    /\ \A o \in Orders :
         /\ SF_vars(orderByClientId(o, order[o]))
         /\ SF_vars(HoldsTruth(o) /\ HaltBeforeResolution)
         /\ SF_vars(HoldsTruth(o) /\ Resolve /\ rec' # rec)

FairSpec == Spec /\ Fairness

-----------------------------------------------------------------------------
Labels == {"idle", "phase0", "breach0", "resolve", "breach0again", "primary", "entries",
           "recheck", "submit", "observe", "record", "breach4", "flatten", "cancels", "canceled"}

TypeOK ==
    /\ order \in [Orders -> Order]
    /\ request \in [Orders -> {"none", "on_its_way", "settled"}]
    /\ position \in [Orders -> 0..Qty]
    /\ rec \in [Orders -> Record]
    /\ halted \in BOOLEAN
    /\ deadline \in BOOLEAN
    /\ pc \in Labels
    /\ todo \subseteq Orders
    /\ cur \in Orders \cup {NoId}
    /\ seen \in Order
    /\ answer \in {"none", "acknowledged", "lost", "rejected", "duplicate"}
    /\ book \in [Orders -> [position : 0..Qty, open : -1..Qty]]
    /\ entriesBlocked \in BOOLEAN
    /\ journalFailure \in BOOLEAN

(***************************************************************************)
(* The journal counts at least the lots the broker has filled or may still *)
(* fill: through crashes around the submission, requests that arrive long  *)
(* after the runner gave them up, appends that fail, and cancels that race *)
(* fills.  A journal whose fold fails counts nothing, and trades nothing.  *)
(***************************************************************************)
Reachable(o) ==
    IF order[o].status = "working" \/ request[o] = "on_its_way" THEN Qty ELSE order[o].filled
ExposureCovered == foldOk => \A o \in Orders : Reachable(o) <= exposureOf(rec[o])

(***************************************************************************)
(* The lines the runner appends never break its own fold: no second        *)
(* terminal OUTCOME, no weakening, no shrinking fill, whatever the order   *)
(* of fills, cancels, crashes and re-reads.  SPEC S-G10-04 says so of a    *)
(* cancel or rejection after a partial fill, too: a CLAIM that fails once  *)
(* the broker's terminal record may be contradictory.                      *)
(***************************************************************************)
FoldNeverFails == foldOk

(***************************************************************************)
(* No order is handed to the broker while the fate of another one that was *)
(* handed over is unclear: neither within the batch nor in a later cycle.  *)
(* SPEC S-G10-04 calls every CONFIRMATION_UNCLEAR lifecycle entry-blocking:*)
(* a CLAIM that fails for one whose terminal record is contradictory.      *)
(***************************************************************************)
NoEntryWhileUnclear ==
    [][(pc = "submit" /\ request' # request)
         => \A o \in Orders \ {cur} :
               request[o] # "none" => rec[o].state \notin Unclear]_vars

(***************************************************************************)
(* What the broker has settled about an order gets into the journal, with  *)
(* the exact quantity, however often cycles die on the way.                *)
(***************************************************************************)
Settled(o) == isTerminalBrokerStatus(order[o]) /\ ~order[o].contradictory
Told(o) ==
    /\ rec[o].state = outcomeFromOrder(order[o]).status
    /\ rec[o].filled = order[o].filled
TruthReachesJournal == \A o \in Orders : Settled(o) ~> Told(o)

=============================================================================
