---------------------------- MODULE EntryProofs ----------------------------
(***************************************************************************)
(* Theorems about the entry orders, for every set of orders, every         *)
(* quantity and every set of faults.                                       *)
(***************************************************************************)
EXTENDS EntryLifecycle, TLAPS

(***************************************************************************)
(* The inductive invariant.  Of each order: nothing is at the broker       *)
(* before its request is settled, nothing is requested before its INTENT,  *)
(* and what it may reach is counted, unless its fold is broken.            *)
(***************************************************************************)
Counted(o) == rec[o].state # "broken" => Reachable(o) <= exposureOf(rec[o])

Consistent(o) ==
    /\ request[o] # "settled" => order[o] = NoOrder
    /\ rec[o].state = "none" => request[o] = "none"
    /\ position[o] <= order[o].filled
    /\ order[o].status = "rejected" /\ ~order[o].contradictory => order[o].filled = 0
    /\ Counted(o)

(***************************************************************************)
(* Of the order in work: what the place in the cycle knows about it.  A    *)
(* terminal record that was read is still the broker's.                    *)
(***************************************************************************)
Busy == {"breach0", "resolve", "recheck", "submit", "observe", "record", "canceled"}

InWork ==
    /\ pc \in Busy => cur \in Orders
    /\ pc \notin Busy => seen = NoOrder
    /\ pc \in {"recheck", "submit"} =>
          rec[cur].state = "intent" /\ request[cur] = "none" /\ seen = NoOrder
    /\ pc = "observe" => answer \in {"acknowledged", "duplicate"}
    /\ pc = "record" => answer # "none"
    /\ pc = "record" /\ answer = "rejected" => order[cur] = NoOrder /\ request[cur] = "settled"
    /\ pc = "canceled" => isTerminalBrokerStatus(seen)

SeenIsTrue == isTerminalBrokerStatus(seen) => cur \in Orders /\ seen = order[cur]

IInv ==
    /\ TypeOK
    /\ InWork
    /\ SeenIsTrue
    /\ \A o \in Orders : Consistent(o)

-----------------------------------------------------------------------------
(***************************************************************************)
(* The lines the runner appends, and what the fold makes of them.          *)
(***************************************************************************)
EntryLine == {line \in JournalLine :
                line.type = "OUTCOME" =>
                  line.status # "none" /\ (line.status \in {"canceled", "rejected"} => line.filled = 0)}

LEMMA PlainLines ==
    ASSUME NEW type \in {"INTENT", "NOT_AT_BROKER", "REVALIDATION_VOID"}
    PROVE  Plain(type) \in EntryLine /\ Plain(type).type = type
BY QtyAssumption DEF Plain, EntryLine, JournalLine, TerminalState

LEMMA WorkingLines ==
    ASSUME NEW type \in {"ACKNOWLEDGED_WORKING", "MATCHED_WORKING"}, NEW ord \in Order
    PROVE  WorkingLine(type, ord) \in EntryLine /\ WorkingLine(type, ord).type = type
BY DEF WorkingLine, EntryLine, JournalLine, Order

LEMMA OutcomeLines ==
    ASSUME NEW ord \in Order, isTerminalBrokerStatus(ord)
    PROVE  outcomeFromOrder(ord) \in EntryLine /\ outcomeFromOrder(ord).type = "OUTCOME"
BY QtyAssumption DEF outcomeFromOrder, UnclearOutcome, Outcome, EntryLine, JournalLine, Order,
   isTerminalBrokerStatus, TerminalStatus, TerminalState

LEMMA SubmitLines ==
    /\ UnclearOutcome \in EntryLine
    /\ Outcome("rejected", 0, FALSE) \in EntryLine
BY QtyAssumption DEF UnclearOutcome, Outcome, EntryLine, JournalLine, TerminalState

LEMMA LineShape ==
    ASSUME NEW line \in EntryLine
    PROVE  /\ line.type \in {"INTENT", "OUTCOME", "ACKNOWLEDGED_WORKING", "MATCHED_WORKING",
                              "NOT_AT_BROKER", "REVALIDATION_VOID"}
           /\ line.status \in {"none", "confirmation_unclear", "filled", "canceled", "rejected"}
           /\ line.filled \in 0..Qty
           /\ line.breach \in BOOLEAN
           /\ line.type = "OUTCOME" =>
                 line.status # "none" /\ (line.status \in {"canceled", "rejected"} => line.filled = 0)
BY DEF EntryLine, JournalLine, TerminalState

LEMMA RecordShape ==
    ASSUME NEW r \in Record
    PROVE  /\ r.state \in {"none", "intent", "canceled", "rejected", "broken",
                            "filled", "fillable", "confirmation_unclear"}
           /\ r.filled \in 0..Qty
           /\ r.priceBreach \in BOOLEAN
           /\ r.state \notin {"filled", "fillable", "confirmation_unclear"} => r.filled = 0
           /\ r = [state |-> r.state, filled |-> r.filled, priceBreach |-> r.priceBreach]
BY QtyAssumption DEF Record

LEMMA IsRecord ==
    ASSUME NEW state \in {"none", "intent", "canceled", "rejected", "broken",
                          "filled", "fillable", "confirmation_unclear"},
           NEW filled \in 0..Qty, NEW breach \in BOOLEAN,
           state \notin {"filled", "fillable", "confirmation_unclear"} => filled = 0
    PROVE  [state |-> state, filled |-> filled, priceBreach |-> breach] \in Record
BY DEF Record

LEMMA BrokenIsRecord == Broken \in Record /\ Broken.state = "broken"
BY QtyAssumption DEF Broken, NoRecord, Record

LEMMA FoldShape ==
    ASSUME NEW r \in Record, NEW line \in EntryLine, foldable(r, line)
    PROVE  /\ foldLine(r, line) =
                 [state |-> foldLine(r, line).state, filled |-> foldLine(r, line).filled,
                  priceBreach |-> foldLine(r, line).priceBreach]
           /\ foldLine(r, line).priceBreach \in BOOLEAN
           /\ line.type = "INTENT" =>
                 foldLine(r, line).state = "intent" /\ foldLine(r, line).filled = 0
           /\ line.type = "OUTCOME" =>
                 foldLine(r, line).state = line.status /\ foldLine(r, line).filled = line.filled
           /\ line.type \in {"ACKNOWLEDGED_WORKING", "MATCHED_WORKING"} =>
                 /\ foldLine(r, line).state \in {"fillable", "confirmation_unclear"}
                 /\ foldLine(r, line).filled = line.filled
           /\ line.type = "NOT_AT_BROKER" =>
                 /\ foldLine(r, line).state = "confirmation_unclear"
                 /\ foldLine(r, line).filled = r.filled
           /\ line.type = "REVALIDATION_VOID" =>
                 foldLine(r, line).state = "canceled" /\ foldLine(r, line).filled = 0
<1>1. r = [state |-> r.state, filled |-> r.filled, priceBreach |-> r.priceBreach]
  BY RecordShape
<1>2. (r.priceBreach \/ line.breach) \in BOOLEAN /\ r.priceBreach \in BOOLEAN
  BY RecordShape
<1>3. CASE line.type = "INTENT"
  BY <1>2, <1>3 DEF foldLine, NoRecord
<1>4. CASE line.type = "OUTCOME"
  BY <1>2, <1>4 DEF foldLine
<1>5. CASE line.type \in {"ACKNOWLEDGED_WORKING", "MATCHED_WORKING"}
  <2>1. foldLine(r, line) =
          [state |-> IF line.type = "ACKNOWLEDGED_WORKING" \/ r.state = "fillable"
                     THEN "fillable" ELSE "confirmation_unclear",
           filled |-> line.filled,
           priceBreach |-> r.priceBreach \/ line.breach]
    BY <1>5 DEF foldLine
  <2> QED
    BY <1>2, <1>5, <2>1
<1>6. CASE line.type = "NOT_AT_BROKER"
  BY <1>1, <1>2, <1>6 DEF foldLine
<1>7. CASE line.type = "REVALIDATION_VOID"
  <2>1. r.state = "intent"
    BY <1>7 DEF foldable
  <2>2. r.filled = 0
    BY <2>1, RecordShape
  <2> QED
    BY <1>1, <1>2, <1>7, <2>2 DEF foldLine
<1> QED
  BY <1>3, <1>4, <1>5, <1>6, <1>7, LineShape

LEMMA FoldKeepsType ==
    ASSUME NEW r \in Record, NEW line \in EntryLine
    PROVE  foldLine(r, line) \in Record /\ foldLine(r, line).state # "none"
<1>1. CASE ~foldable(r, line)
  BY <1>1, BrokenIsRecord DEF foldLine
<1>2. CASE foldable(r, line)
  <2> DEFINE f == foldLine(r, line)
  <2>1. /\ f = [state |-> f.state, filled |-> f.filled, priceBreach |-> f.priceBreach]
        /\ f.priceBreach \in BOOLEAN
        /\ f.state \in {"intent", "canceled", "rejected", "filled", "fillable", "confirmation_unclear"}
        /\ f.filled \in 0..Qty
        /\ f.state \notin {"filled", "fillable", "confirmation_unclear"} => f.filled = 0
    BY <1>2, FoldShape, LineShape, RecordShape, QtyAssumption
  <2> HIDE DEF f
  <2>2. [state |-> f.state, filled |-> f.filled, priceBreach |-> f.priceBreach] \in Record
    BY <2>1, IsRecord
  <2>3. f \in Record /\ f.state # "none"
    BY <2>1, <2>2
  <2> QED
    BY <2>3 DEF f
<1> QED
  BY <1>1, <1>2

(***************************************************************************)
(* All of an order stays counted under every line but a terminal OUTCOME   *)
(* and a void; a terminal OUTCOME counts the quantity the broker reports.  *)
(***************************************************************************)
LEMMA FoldCounts ==
    ASSUME NEW r \in Record, NEW line \in EntryLine, foldLine(r, line).state # "broken"
    PROVE  /\ line.type \in {"INTENT", "NOT_AT_BROKER", "ACKNOWLEDGED_WORKING", "MATCHED_WORKING"}
                => exposureOf(foldLine(r, line)) = Qty
           /\ line.type = "OUTCOME" /\ line.status = "confirmation_unclear"
                => exposureOf(foldLine(r, line)) = Qty
           /\ line.type = "OUTCOME" /\ line.status = "filled"
                => exposureOf(foldLine(r, line)) = line.filled
           /\ exposureOf(foldLine(r, line)) >= 0
<1>1. foldable(r, line)
  BY BrokenIsRecord DEF foldLine
<1>2. foldLine(r, line) \in Record
  BY FoldKeepsType
<1> QED
  BY <1>1, <1>2, FoldShape, LineShape, RecordShape, QtyAssumption DEF exposureOf, Unclear

LEMMA OutcomeCounts ==
    ASSUME NEW r \in Record, NEW ord \in Order, isTerminalBrokerStatus(ord),
           ord.status = "rejected" /\ ~ord.contradictory => ord.filled = 0,
           foldLine(r, outcomeFromOrder(ord)).state # "broken"
    PROVE  ord.filled <= exposureOf(foldLine(r, outcomeFromOrder(ord)))
<1> DEFINE line == outcomeFromOrder(ord)
<1>1. line \in EntryLine /\ line.type = "OUTCOME"
  BY OutcomeLines
<1>2. /\ line.status = "confirmation_unclear" => exposureOf(foldLine(r, line)) = Qty
      /\ line.status = "filled" => exposureOf(foldLine(r, line)) = line.filled
      /\ exposureOf(foldLine(r, line)) >= 0
  BY <1>1, FoldCounts
<1>3. \/ line.status = "confirmation_unclear"
      \/ line.status = "filled" /\ line.filled = ord.filled
      \/ ord.filled = 0
  <2>1. CASE ord.contradictory
    BY <2>1 DEF outcomeFromOrder, UnclearOutcome, Outcome
  <2>2. CASE ~ord.contradictory /\ ord.status = "rejected"
    BY <2>2
  <2>3. CASE ~ord.contradictory /\ ord.status # "rejected"
    <3>1. line = Outcome(IF ord.filled > 0 THEN "filled" ELSE "canceled", ord.filled, ord.worse)
      BY <2>3 DEF outcomeFromOrder
    <3>2. ord.filled \in Nat
      BY QtyAssumption DEF Order
    <3> QED
      BY <3>1, <3>2 DEF Outcome
  <2> QED
    BY <2>1, <2>2, <2>3
<1>4. ord.filled \in 0..Qty
  BY DEF Order
<1> HIDE DEF line
<1>5. ord.filled <= exposureOf(foldLine(r, line))
  BY <1>2, <1>3, <1>4, QtyAssumption
<1> QED
  BY <1>5 DEF line

-----------------------------------------------------------------------------
LEMMA BareOrders == NoOrder \in Order /\ Working \in Order
<1>1. 0 \in 0..Qty
  BY QtyAssumption
<1>2. NoOrder \in Order
  BY <1>1 DEF NoOrder, Order
<1>3. Working \in Order
  BY <1>2 DEF Working, Order
<1> QED
  BY <1>2, <1>3

LEMMA OrderShape ==
    ASSUME NEW ord \in Order
    PROVE  /\ ord.status \in {"none", "working", "filled", "canceled", "rejected"}
           /\ ord.filled \in 0..Qty
           /\ ord.worse \in BOOLEAN
           /\ ord.contradictory \in BOOLEAN
BY DEF Order, TerminalStatus

LEMMA NoRecordCounts == NoRecord \in Record
BY QtyAssumption DEF NoRecord, Record

(***************************************************************************)
(* Steps that touch neither the broker nor the journal's lines keep what   *)
(* is known of every order.                                                *)
(***************************************************************************)
LEMMA OrdersKept ==
    ASSUME IInv, UNCHANGED <<broker, rec>>
    PROVE  \A o \in Orders : Consistent(o)'
BY DEF IInv, Consistent, Counted, Reachable, broker

(***************************************************************************)
(* A line that lands keeps it if the new record counts what the order may  *)
(* still reach.                                                            *)
(***************************************************************************)
LEMMA LandedLine ==
    ASSUME IInv, UNCHANGED broker, NEW o \in Orders, NEW line \in EntryLine, Lands(o, line),
           foldLine(rec[o], line).state # "broken" =>
             Reachable(o) <= exposureOf(foldLine(rec[o], line))
    PROVE  /\ rec' \in [Orders -> Record]
           /\ rec'[o] = foldLine(rec[o], line)
           /\ \A p \in Orders \ {o} : rec'[p] = rec[p]
           /\ \A p \in Orders : Consistent(p)'
<1>1. rec \in [Orders -> Record]
  BY DEF IInv, TypeOK
<1>2. foldLine(rec[o], line) \in Record /\ foldLine(rec[o], line).state # "none"
  BY <1>1, FoldKeepsType
<1>3. rec' = [rec EXCEPT ![o] = foldLine(rec[o], line)]
  BY DEF Lands
<1>4. /\ rec' \in [Orders -> Record]
      /\ rec'[o] = foldLine(rec[o], line)
      /\ \A p \in Orders \ {o} : rec'[p] = rec[p]
  BY <1>1, <1>2, <1>3
<1>5. ASSUME NEW p \in Orders
      PROVE  Consistent(p)'
  <2>1. Consistent(p)
    BY DEF IInv
  <2>2. order' = order /\ request' = request /\ position' = position
    BY DEF broker
  <2>3. Reachable(p)' = Reachable(p)
    BY <2>2 DEF Reachable
  <2>4. CASE p = o
    BY <1>2, <1>4, <2>1, <2>2, <2>3, <2>4 DEF Consistent, Counted
  <2>5. CASE p # o
    BY <1>4, <2>1, <2>2, <2>3, <2>5 DEF Consistent, Counted
  <2> QED
    BY <2>4, <2>5
<1> QED
  BY <1>4, <1>5

(***************************************************************************)
(* What an order may reach, and what is known of a terminal record that    *)
(* was read.                                                               *)
(***************************************************************************)
LEMMA ReachableShape ==
    ASSUME TypeOK, NEW o \in Orders
    PROVE  Reachable(o) \in 0..Qty
BY OrderShape, QtyAssumption DEF TypeOK, Reachable

LEMMA TerminalReaches ==
    ASSUME IInv, isTerminalBrokerStatus(seen)
    PROVE  /\ cur \in Orders
           /\ Reachable(cur) = seen.filled
           /\ seen.status = "rejected" /\ ~seen.contradictory => seen.filled = 0
<1>1. cur \in Orders /\ seen = order[cur]
  BY DEF IInv, SeenIsTrue
<1>2. Consistent(cur)
  BY <1>1 DEF IInv
<1>3. order[cur] # NoOrder /\ order[cur].status # "working"
  BY <1>1 DEF isTerminalBrokerStatus, TerminalStatus, NoOrder
<1> QED
  BY <1>1, <1>2, <1>3 DEF Consistent, Reachable

-----------------------------------------------------------------------------
(***************************************************************************)
(* Steps of the runner that append no line about an order and leave the    *)
(* broker alone; and the human.                                            *)
(***************************************************************************)
LEMMA BookShape ==
    ASSUME TypeOK
    PROVE  /\ Book \in [Orders -> [position : 0..Qty, open : -1..Qty]]
           /\ NoBook \in [Orders -> [position : 0..Qty, open : -1..Qty]]
<1>1. ASSUME NEW o \in Orders
      PROVE  fingerprint(o) \in [position : 0..Qty, open : -1..Qty]
  <2>1. order[o].filled \in 0..Qty /\ position[o] \in 0..Qty
    BY OrderShape DEF TypeOK
  <2> QED
    BY <2>1, QtyAssumption DEF fingerprint
<1>2. [position |-> 0, open |-> -1] \in [position : 0..Qty, open : -1..Qty]
  BY QtyAssumption
<1> QED
  BY <1>1, <1>2 DEF Book, NoBook

LEMMA HaltKeeps ==
    ASSUME TypeOK, haltFor
    PROVE  halted' \in BOOLEAN /\ journalFailure' \in BOOLEAN
BY DEF TypeOK, haltFor

LEMMA CycleEnds ==
    ASSUME IInv, EndCycle, UNCHANGED <<broker, rec, halted, deadline>>
    PROVE  IInv'
<1>1. TypeOK'
  BY BareOrders, BookShape DEF IInv, TypeOK, EndCycle, Return, broker, Labels
<1>2. InWork'
  BY DEF InWork, EndCycle, Return, Busy
<1>3. SeenIsTrue'
  BY DEF SeenIsTrue, EndCycle, Return, isTerminalBrokerStatus, TerminalStatus, NoOrder
<1> QED
  BY <1>1, <1>2, <1>3, OrdersKept DEF IInv

(***************************************************************************)
(* A step that only moves between places where no order is in work.        *)
(***************************************************************************)
LEMMA QuietStep ==
    ASSUME IInv, UNCHANGED <<broker, rec, cur, seen, answer>>, TypeOK',
           pc \notin Busy, pc' \notin Busy
    PROVE  IInv'
<1>1. InWork'
  BY DEF IInv, InWork, Busy
<1>2. SeenIsTrue'
  BY DEF IInv, SeenIsTrue, broker
<1> QED
  BY <1>1, <1>2, OrdersKept DEF IInv

LEMMA PhaseZeroSteps ==
    ASSUME IInv,
           \/ StartCycle
           \/ \E o \in Orders : LookupUnresolved(o)
           \/ \E o \in Orders : \E record \in {order[o], NoOrder} : orderByClientId(o, record)
           \/ HaltBeforeResolution
           \/ HaltAfterResolution
    PROVE  IInv'
<1>1. CASE StartCycle
  <2>1. TypeOK'
    BY <1>1 DEF IInv, TypeOK, StartCycle, Unresolved, Goto, Labels, broker
  <2> QED
    BY <1>1, <2>1, QuietStep DEF StartCycle, Goto, Busy
<1>2. ASSUME NEW o \in Orders, LookupUnresolved(o)
      PROVE  IInv'
  <2>1. TypeOK'
    BY <1>2 DEF IInv, TypeOK, LookupUnresolved, broker
  <2> QED
    BY <1>2, <2>1, QuietStep DEF LookupUnresolved, Busy
<1>3. ASSUME NEW o \in Orders, NEW record \in {order[o], NoOrder}, orderByClientId(o, record)
      PROVE  IInv'
  <2>1. record \in Order /\ record.worse \in BOOLEAN /\ rec[o].priceBreach \in BOOLEAN
    BY BareOrders, OrderShape, RecordShape DEF IInv, TypeOK
  <2>2. TypeOK'
    BY <1>3, <2>1 DEF IInv, TypeOK, orderByClientId, BreachSeen, Goto, Labels, broker
  <2>3. InWork'
    BY <1>3 DEF InWork, orderByClientId, Goto, Busy
  <2>4. SeenIsTrue'
    BY <1>3 DEF SeenIsTrue, orderByClientId, isTerminalBrokerStatus, TerminalStatus, NoOrder, broker
  <2> QED
    BY <1>3, <2>2, <2>3, <2>4, OrdersKept DEF IInv, orderByClientId
<1>4. CASE HaltBeforeResolution
  <2>1. TypeOK'
    BY <1>4, HaltKeeps DEF IInv, TypeOK, HaltBeforeResolution, Goto, Labels, broker
  <2>2. InWork'
    BY <1>4 DEF IInv, InWork, HaltBeforeResolution, Goto, Busy
  <2>3. SeenIsTrue'
    BY <1>4 DEF IInv, SeenIsTrue, HaltBeforeResolution, broker
  <2> QED
    BY <1>4, <2>1, <2>2, <2>3, OrdersKept DEF IInv, HaltBeforeResolution
<1>5. CASE HaltAfterResolution
  <2>1. TypeOK'
    BY <1>5, HaltKeeps DEF IInv, TypeOK, HaltAfterResolution, Goto, Labels, broker
  <2> QED
    BY <1>5, <2>1, QuietStep DEF HaltAfterResolution, Goto, Busy
<1> QED
  BY <1>1, <1>2, <1>3, <1>4, <1>5

LEMMA SnapshotSteps ==
    ASSUME IInv, Snapshot \/ AppendPrimary \/ FinishCycle \/ Crash
    PROVE  IInv'
<1>1. CASE EndCycle /\ UNCHANGED <<broker, rec, halted, deadline>>
  BY <1>1, CycleEnds
<1>2. CASE Snapshot /\ ~EndCycle
  <2>1. /\ halted' \in BOOLEAN
        /\ journalFailure' \in BOOLEAN
    BY <1>2, HaltKeeps DEF IInv, TypeOK, Snapshot
  <2>2. (entriesBlocked \/ halted \/ \E o \in Orders : Residue(o)) \in BOOLEAN
    OBVIOUS
  <2>3. TypeOK'
    BY <1>2, <2>1, <2>2, BookShape DEF IInv, TypeOK, Snapshot, Goto, Labels, broker
  <2> QED
    BY <1>2, <2>3, QuietStep DEF Snapshot, Goto, Busy
<1>3. CASE AppendPrimary /\ ~EndCycle
  <2>1. TypeOK'
    BY <1>3, BookShape DEF IInv, TypeOK, AppendPrimary, Goto, Labels, broker
  <2> QED
    BY <1>3, <2>1, QuietStep DEF AppendPrimary, Goto, Busy
<1>4. CASE Snapshot /\ EndCycle
  <2>1. pc' # "primary"
    BY <1>4 DEF EndCycle, Return
  <2>2. UNCHANGED <<broker, rec, halted, deadline>>
    BY <1>4, <2>1 DEF Snapshot, Goto
  <2> QED
    BY <1>1, <1>4, <2>2
<1>5. (AppendPrimary /\ EndCycle) \/ FinishCycle \/ Crash
         => EndCycle /\ UNCHANGED <<broker, rec, halted, deadline>>
  BY DEF AppendPrimary, FinishCycle, Crash
<1> QED
  BY <1>1, <1>2, <1>3, <1>4, <1>5

LEMMA PlanSteps ==
    ASSUME IInv, Revalidate \/ SubmitRefused \/ Observe \/ HaltAfterSubmit \/ FlattenBook
    PROVE  IInv'
<1>1. CASE Revalidate
  <2>1. TypeOK'
    BY <1>1 DEF IInv, TypeOK, Revalidate, Goto, Labels, broker
  <2>2. InWork'
    BY <1>1 DEF IInv, InWork, Revalidate, Goto, Busy, broker
  <2>3. SeenIsTrue'
    BY <1>1 DEF IInv, SeenIsTrue, Revalidate, broker
  <2> QED
    BY <1>1, <2>1, <2>2, <2>3, OrdersKept DEF IInv, Revalidate
<1>2. CASE SubmitRefused
  <2>1. TypeOK'
    BY <1>2, BareOrders DEF IInv, TypeOK, SubmitRefused, Return, Labels, broker
  <2>2. InWork'
    BY <1>2 DEF InWork, SubmitRefused, Return, Busy
  <2>3. SeenIsTrue'
    BY <1>2 DEF SeenIsTrue, SubmitRefused, Return, isTerminalBrokerStatus, TerminalStatus, NoOrder
  <2> QED
    BY <1>2, <2>1, <2>2, <2>3, OrdersKept DEF IInv, SubmitRefused
<1>3. CASE Observe
  <2>1. pc = "observe" /\ cur \in Orders
    BY <1>3 DEF IInv, InWork, Observe, Busy
  <2>2. TypeOK'
    BY <1>3, <2>1 DEF IInv, TypeOK, Observe, Goto, Labels, broker
  <2>3. InWork'
    BY <1>3, <2>1 DEF IInv, InWork, Observe, Goto, Busy, broker
  <2>4. SeenIsTrue'
    BY <1>3, <2>1 DEF IInv, SeenIsTrue, Observe, broker
  <2> QED
    BY <1>3, <2>2, <2>3, <2>4, OrdersKept DEF IInv, Observe
<1>4. CASE HaltAfterSubmit
  <2>1. TypeOK'
    BY <1>4, HaltKeeps DEF IInv, TypeOK, HaltAfterSubmit, Goto, Labels, broker
  <2> QED
    BY <1>4, <2>1, QuietStep DEF HaltAfterSubmit, Goto, Busy
<1>5. CASE FlattenBook
  <2>1. TypeOK'
    BY <1>5 DEF IInv, TypeOK, FlattenBook, Goto, Labels, broker
  <2> QED
    BY <1>5, <2>1, QuietStep DEF FlattenBook, Goto, Busy
<1> QED
  BY <1>1, <1>2, <1>3, <1>4, <1>5

-----------------------------------------------------------------------------
(***************************************************************************)
(* Steps that append a line.                                               *)
(***************************************************************************)
\* A line may also fail to land; then nothing is known that was not before.
LEMMA LineOrNot ==
    ASSUME IInv, UNCHANGED broker, NEW o \in Orders, NEW line \in EntryLine,
           Lands(o, line) \/ AppendFails,
           foldLine(rec[o], line).state # "broken" =>
             Reachable(o) <= exposureOf(foldLine(rec[o], line))
    PROVE  /\ rec' \in [Orders -> Record]
           /\ journalFailure' \in BOOLEAN
           /\ \A p \in Orders : Consistent(p)'
<1>1. CASE Lands(o, line)
  <2>1. rec' \in [Orders -> Record] /\ \A p \in Orders : Consistent(p)'
    BY <1>1, LandedLine
  <2> QED
    BY <1>1, <2>1 DEF Lands, IInv, TypeOK
<1>2. CASE AppendFails
  <2>1. UNCHANGED <<broker, rec>> /\ journalFailure' \in BOOLEAN
    BY <1>2 DEF AppendFails
  <2> QED
    BY <2>1, OrdersKept DEF IInv, TypeOK
<1> QED
  BY <1>1, <1>2

LEMMA ResolutionCounts ==
    ASSUME IInv, cur \in Orders
    PROVE  /\ resolutionLine \in EntryLine
           /\ foldLine(rec[cur], resolutionLine).state # "broken" =>
                Reachable(cur) <= exposureOf(foldLine(rec[cur], resolutionLine))
<1>1. seen \in Order /\ rec[cur] \in Record
  BY DEF IInv, TypeOK
<1>2. Reachable(cur) \in 0..Qty
  BY ReachableShape DEF IInv
<1>3. CASE isTerminalBrokerStatus(seen)
  <2>1. resolutionLine = outcomeFromOrder(seen)
    BY <1>3 DEF resolutionLine
  <2>2. outcomeFromOrder(seen) \in EntryLine
    BY <1>1, <1>3, OutcomeLines
  <2>3. /\ Reachable(cur) = seen.filled
        /\ seen.status = "rejected" /\ ~seen.contradictory => seen.filled = 0
    BY <1>3, TerminalReaches
  <2> QED
    BY <1>1, <1>3, <2>1, <2>2, <2>3, OutcomeCounts
<1>4. CASE ~isTerminalBrokerStatus(seen)
  <2>1. /\ resolutionLine \in EntryLine
        /\ resolutionLine.type \in {"NOT_AT_BROKER", "MATCHED_WORKING"}
    BY <1>1, <1>4, PlainLines, WorkingLines DEF resolutionLine
  <2>2. foldLine(rec[cur], resolutionLine).state # "broken" =>
           exposureOf(foldLine(rec[cur], resolutionLine)) = Qty
    BY <1>1, <2>1, FoldCounts
  <2> QED
    BY <1>2, <2>1, <2>2, QtyAssumption
<1> QED
  BY <1>3, <1>4

LEMMA SubmitCounts ==
    ASSUME IInv, pc = "record"
    PROVE  /\ cur \in Orders
           /\ submitLine \in EntryLine
           /\ foldLine(rec[cur], submitLine).state # "broken" =>
                Reachable(cur) <= exposureOf(foldLine(rec[cur], submitLine))
<1>1. cur \in Orders /\ seen \in Order /\ rec[cur] \in Record
  BY DEF IInv, TypeOK, InWork, Busy
<1>2. Reachable(cur) \in 0..Qty
  BY <1>1, ReachableShape DEF IInv
<1>3. answer \in {"acknowledged", "lost", "rejected", "duplicate"}
  BY DEF IInv, TypeOK, InWork
<1>4. CASE answer = "rejected"
  <2>1. submitLine = Outcome("rejected", 0, FALSE)
    BY <1>4 DEF submitLine
  <2>2. Reachable(cur) = 0
    BY <1>4 DEF IInv, InWork, Reachable, NoOrder
  <2>3. foldLine(rec[cur], submitLine).state # "broken" =>
           exposureOf(foldLine(rec[cur], submitLine)) >= 0
    BY <1>1, <2>1, SubmitLines, FoldCounts
  <2> QED
    BY <1>1, <2>1, <2>2, <2>3, SubmitLines
<1>5. CASE answer = "lost"
  <2>1. submitLine = UnclearOutcome
    BY <1>5 DEF submitLine
  <2>2. foldLine(rec[cur], submitLine).state # "broken" =>
           exposureOf(foldLine(rec[cur], submitLine)) = Qty
    BY <1>1, <2>1, SubmitLines, FoldCounts DEF UnclearOutcome, Outcome
  <2> QED
    BY <1>1, <1>2, <2>1, <2>2, SubmitLines, QtyAssumption
<1>6. CASE answer \in {"acknowledged", "duplicate"} /\ isTerminalBrokerStatus(seen)
  <2>1. submitLine = outcomeFromOrder(seen)
    BY <1>6 DEF submitLine
  <2>2. /\ Reachable(cur) = seen.filled
        /\ seen.status = "rejected" /\ ~seen.contradictory => seen.filled = 0
    BY <1>6, TerminalReaches
  <2> QED
    BY <1>1, <1>6, <2>1, <2>2, OutcomeLines, OutcomeCounts
<1>7. CASE answer \in {"acknowledged", "duplicate"} /\ ~isTerminalBrokerStatus(seen)
  <2>1. /\ submitLine \in EntryLine
        /\ submitLine.type \in {"ACKNOWLEDGED_WORKING", "MATCHED_WORKING"}
    BY <1>1, <1>7, WorkingLines DEF submitLine
  <2>2. foldLine(rec[cur], submitLine).state # "broken" =>
           exposureOf(foldLine(rec[cur], submitLine)) = Qty
    BY <1>1, <2>1, FoldCounts
  <2> QED
    BY <1>1, <1>2, <2>1, <2>2, QtyAssumption
<1> QED
  BY <1>3, <1>4, <1>5, <1>6, <1>7

LEMMA AppendingSteps ==
    ASSUME IInv,
           Resolve \/ (\E o \in Orders : AppendIntent(o)) \/ RevalidationVoid
             \/ RecordSubmit \/ RecordCancel
    PROVE  IInv'
<1>1. CASE Resolve
  <2>1. pc = "resolve" /\ cur \in Orders
    BY <1>1 DEF IInv, InWork, Resolve, Busy
  <2>2. /\ rec' \in [Orders -> Record]
        /\ journalFailure' \in BOOLEAN
        /\ \A p \in Orders : Consistent(p)'
    <3>1. CASE UNCHANGED <<rec, journalFailure>>
      BY <1>1, <3>1, OrdersKept DEF IInv, TypeOK, Resolve
    <3>2. CASE Lands(cur, resolutionLine) \/ AppendFails
      BY <1>1, <2>1, <3>2, LineOrNot, ResolutionCounts DEF Resolve
    <3> QED
      BY <1>1, <3>1, <3>2 DEF Resolve
  <2>3. (entriesBlocked \/ BlocksEntries) \in BOOLEAN
    OBVIOUS
  <2>4. TypeOK'
    BY <1>1, <2>2, <2>3, BareOrders DEF IInv, TypeOK, Resolve, Return, Labels, broker
  <2>5. InWork'
    BY <1>1 DEF InWork, Resolve, Return, Busy
  <2>6. SeenIsTrue'
    BY <1>1 DEF SeenIsTrue, Resolve, Return, isTerminalBrokerStatus, TerminalStatus, NoOrder
  <2> QED
    BY <2>2, <2>4, <2>5, <2>6 DEF IInv
<1>2. ASSUME NEW o \in Orders, AppendIntent(o)
      PROVE  IInv'
  <2>1. pc = "entries" /\ seen = NoOrder /\ rec[o].state = "none" /\ rec[o] \in Record
    BY <1>2 DEF IInv, TypeOK, InWork, AppendIntent, Busy
  <2>2. Plain("INTENT") \in EntryLine /\ Plain("INTENT").type = "INTENT"
    BY PlainLines
  <2>3. foldLine(rec[o], Plain("INTENT")).state # "broken" =>
           Reachable(o) <= exposureOf(foldLine(rec[o], Plain("INTENT")))
    BY <2>1, <2>2, FoldCounts, ReachableShape, QtyAssumption DEF IInv
  <2>4. /\ rec' \in [Orders -> Record]
        /\ journalFailure' \in BOOLEAN
        /\ \A p \in Orders : Consistent(p)'
    BY <1>2, <2>2, <2>3, LineOrNot DEF AppendIntent
  <2>5. TypeOK'
    BY <1>2, <2>4 DEF IInv, TypeOK, AppendIntent, Goto, Labels, broker
  <2>6. InWork'
    <3>1. CASE Lands(o, Plain("INTENT")) /\ cur' = o /\ Goto("recheck")
      <4>1. foldable(rec[o], Plain("INTENT"))
        BY <2>1, <2>2 DEF foldable
      <4>2. rec'[o].state = "intent"
        BY <2>1, <2>2, <2>3, <3>1, <4>1, <1>2, LandedLine, FoldShape DEF AppendIntent
      <4>3. request'[o] = "none"
        BY <1>2, <2>1 DEF IInv, Consistent, AppendIntent, broker
      <4> QED
        BY <1>2, <2>1, <3>1, <4>2, <4>3 DEF InWork, AppendIntent, Goto, Busy
    <3>2. CASE UNCHANGED <<cur, pc>>
      BY <1>2, <2>1, <3>2 DEF IInv, InWork, AppendIntent, Busy, broker
    <3> QED
      BY <1>2, <3>1, <3>2 DEF AppendIntent
  <2>7. SeenIsTrue'
    BY <1>2, <2>1 DEF SeenIsTrue, AppendIntent, isTerminalBrokerStatus, TerminalStatus, NoOrder
  <2> QED
    BY <2>4, <2>5, <2>6, <2>7 DEF IInv
<1>3. CASE RevalidationVoid
  <2>1. /\ cur \in Orders
        /\ rec[cur] \in Record
        /\ rec[cur].state = "intent"
        /\ request[cur] = "none"
    BY <1>3 DEF IInv, TypeOK, InWork, RevalidationVoid, Busy
  <2>2. Reachable(cur) = 0
    BY <2>1 DEF IInv, Consistent, Reachable, NoOrder
  <2>3. Plain("REVALIDATION_VOID") \in EntryLine
    BY PlainLines
  <2>4. foldLine(rec[cur], Plain("REVALIDATION_VOID")).state # "broken" =>
           Reachable(cur) <= exposureOf(foldLine(rec[cur], Plain("REVALIDATION_VOID")))
    BY <2>1, <2>2, <2>3, FoldCounts
  <2>5. /\ rec' \in [Orders -> Record]
        /\ journalFailure' \in BOOLEAN
        /\ \A p \in Orders : Consistent(p)'
    BY <1>3, <2>1, <2>3, <2>4, LineOrNot DEF RevalidationVoid
  <2>6. TypeOK'
    BY <1>3, <2>5, BareOrders DEF IInv, TypeOK, RevalidationVoid, Return, Labels, broker
  <2>7. InWork'
    BY <1>3 DEF InWork, RevalidationVoid, Return, Busy
  <2>8. SeenIsTrue'
    BY <1>3 DEF SeenIsTrue, RevalidationVoid, Return, isTerminalBrokerStatus, TerminalStatus, NoOrder
  <2> QED
    BY <2>5, <2>6, <2>7, <2>8 DEF IInv
<1>4. CASE RecordSubmit
  <2>1. /\ cur \in Orders
        /\ submitLine \in EntryLine
        /\ foldLine(rec[cur], submitLine).state # "broken" =>
             Reachable(cur) <= exposureOf(foldLine(rec[cur], submitLine))
    BY <1>4, SubmitCounts DEF RecordSubmit
  <2>2. /\ rec' \in [Orders -> Record]
        /\ journalFailure' \in BOOLEAN
        /\ \A p \in Orders : Consistent(p)'
    BY <1>4, <2>1, LineOrNot DEF RecordSubmit
  <2>3. (entriesBlocked \/ BlocksSiblings \/ submitLine.breach) \in BOOLEAN
    OBVIOUS
  <2>4. TypeOK'
    BY <1>4, <2>2, <2>3, BareOrders DEF IInv, TypeOK, RecordSubmit, Return, Labels, broker
  <2>5. InWork'
    BY <1>4 DEF InWork, RecordSubmit, Return, Busy
  <2>6. SeenIsTrue'
    BY <1>4 DEF SeenIsTrue, RecordSubmit, Return, isTerminalBrokerStatus, TerminalStatus, NoOrder
  <2> QED
    BY <2>2, <2>4, <2>5, <2>6 DEF IInv
<1>5. CASE RecordCancel
  <2>1. pc = "canceled" /\ isTerminalBrokerStatus(seen)
    BY <1>5 DEF IInv, InWork, RecordCancel
  <2>2. /\ cur \in Orders
        /\ Reachable(cur) = seen.filled
        /\ seen.status = "rejected" /\ ~seen.contradictory => seen.filled = 0
    BY <2>1, TerminalReaches
  <2>3. seen \in Order /\ rec[cur] \in Record
    BY <2>2 DEF IInv, TypeOK
  <2>4. /\ outcomeFromOrder(seen) \in EntryLine
        /\ foldLine(rec[cur], outcomeFromOrder(seen)).state # "broken" =>
             Reachable(cur) <= exposureOf(foldLine(rec[cur], outcomeFromOrder(seen)))
    BY <2>1, <2>2, <2>3, OutcomeLines, OutcomeCounts
  <2>5. /\ rec' \in [Orders -> Record]
        /\ journalFailure' \in BOOLEAN
        /\ \A p \in Orders : Consistent(p)'
    BY <1>5, <2>2, <2>4, LineOrNot DEF RecordCancel
  <2>6. TypeOK'
    BY <1>5, <2>5, BareOrders DEF IInv, TypeOK, RecordCancel, Return, Labels, broker
  <2>7. InWork'
    BY <1>5 DEF InWork, RecordCancel, Return, Busy
  <2>8. SeenIsTrue'
    BY <1>5 DEF SeenIsTrue, RecordCancel, Return, isTerminalBrokerStatus, TerminalStatus, NoOrder
  <2> QED
    BY <2>5, <2>6, <2>7, <2>8 DEF IInv
<1> QED
  BY <1>1, <1>2, <1>3, <1>4, <1>5

-----------------------------------------------------------------------------
(***************************************************************************)
(* Steps of the broker: the record of one order changes, and what it may   *)
(* reach does not grow beyond what is counted.                             *)
(***************************************************************************)
LEMMA OneOrder ==
    ASSUME IInv, UNCHANGED rec, NEW o \in Orders,
           order' \in [Orders -> Order], request' \in [Orders -> {"none", "on_its_way", "settled"}],
           position' \in [Orders -> 0..Qty],
           \A p \in Orders \ {o} :
             order'[p] = order[p] /\ request'[p] = request[p] /\ position'[p] = position[p],
           request'[o] # "settled" => order'[o] = NoOrder,
           rec[o].state # "none",
           position'[o] <= order'[o].filled,
           order'[o].status = "rejected" /\ ~order'[o].contradictory => order'[o].filled = 0,
           Counted(o)'
    PROVE  \A p \in Orders : Consistent(p)'
<1>1. ASSUME NEW p \in Orders, p # o
      PROVE  Consistent(p)'
  <2>1. Consistent(p)
    BY DEF IInv
  <2>2. order'[p] = order[p] /\ request'[p] = request[p] /\ position'[p] = position[p]
    BY <1>1
  <2> QED
    BY <2>1, <2>2 DEF Consistent, Counted, Reachable
<1>2. Consistent(o)'
  BY DEF Consistent
<1> QED
  BY <1>1, <1>2

LEMMA FullyCounted ==
    ASSUME IInv, NEW o \in Orders, Reachable(o) = Qty, UNCHANGED rec,
           order' \in [Orders -> Order]
    PROVE  Counted(o)' /\ rec[o].state # "none"
<1>1. Consistent(o)
  BY DEF IInv
<1>2. Reachable(o)' \in 0..Qty
  BY OrderShape, QtyAssumption DEF Reachable
<1>3. rec[o].state # "none"
  <2>1. SUFFICES ASSUME rec[o].state = "none" PROVE FALSE
    OBVIOUS
  <2>2. request[o] = "none" /\ order[o] = NoOrder
    BY <1>1, <2>1 DEF Consistent
  <2> QED
    BY <2>2, QtyAssumption DEF Reachable, NoOrder
<1>4. rec[o].state # "broken" => exposureOf(rec[o]) \in Int
  BY RecordShape, QtyAssumption DEF IInv, TypeOK, exposureOf, Unclear
<1> QED
  BY <1>1, <1>2, <1>3, <1>4, QtyAssumption DEF Consistent, Counted

LEMMA WorkingOrder ==
    ASSUME IInv, NEW o \in Orders, order[o].status = "working"
    PROVE  /\ request[o] = "settled"
           /\ Reachable(o) = Qty
           /\ order[o] # NoOrder
           /\ ~isTerminalBrokerStatus(order[o])
           /\ position[o] <= order[o].filled
BY DEF IInv, Consistent, Reachable, NoOrder, isTerminalBrokerStatus, TerminalStatus

(***************************************************************************)
(* The record of a working order changes: the order in work is another     *)
(* one, or was not read as settled.                                        *)
(***************************************************************************)
LEMMA LocalsKept ==
    ASSUME IInv, NEW o \in Orders, UNCHANGED <<rec, pc, cur, seen, answer>>,
           request[o] # "none", ~isTerminalBrokerStatus(order[o]),
           order[o] # NoOrder \/ request[o] # "settled",
           \A p \in Orders \ {o} : order'[p] = order[p] /\ request'[p] = request[p]
    PROVE  InWork' /\ SeenIsTrue'
<1>1. InWork'
  BY DEF IInv, InWork, Busy
<1>2. SeenIsTrue'
  BY DEF IInv, SeenIsTrue
<1> QED
  BY <1>1, <1>2

LEMMA BrokerSteps ==
    ASSUME IInv, NEW o \in Orders,
           \/ RequestArrives(o)
           \/ \E lots \in 1..Qty, worse \in BOOLEAN : Fill(o, lots, worse)
           \/ \E status \in TerminalStatus, contradictory \in BOOLEAN :
                 OrderEnds(o, status, contradictory)
           \/ PositionCloses(o)
    PROVE  IInv'
<1> USE DEF local
<1>1. CASE RequestArrives(o)
  <2>1. /\ order[o] = NoOrder
        /\ position[o] <= 0
        /\ Reachable(o) = Qty
    BY <1>1 DEF IInv, Consistent, RequestArrives, Reachable, NoOrder
  <2>2. /\ order' \in [Orders -> Order]
        /\ order'[o] = Working
        /\ request' \in [Orders -> {"none", "on_its_way", "settled"}]
        /\ request'[o] = "settled"
    BY <1>1, BareOrders DEF IInv, TypeOK, RequestArrives
  <2>3. Working.filled = 0 /\ Working.status = "working"
    BY DEF Working, NoOrder
  <2>4. \A p \in Orders \ {o} : order'[p] = order[p] /\ request'[p] = request[p]
    BY <1>1 DEF IInv, TypeOK, RequestArrives
  <2>5. TypeOK'
    BY <1>1, <2>2 DEF IInv, TypeOK, RequestArrives
  <2>6. Counted(o)' /\ rec[o].state # "none"
    BY <1>1, <2>1, <2>2, FullyCounted DEF RequestArrives
  <2>7. \A p \in Orders : Consistent(p)'
    BY <1>1, <2>1, <2>2, <2>3, <2>4, <2>6, OneOrder DEF IInv, TypeOK, RequestArrives
  <2>8. InWork' /\ SeenIsTrue'
    BY <1>1, <2>1, <2>4, LocalsKept
       DEF RequestArrives, isTerminalBrokerStatus, TerminalStatus, NoOrder
  <2> QED
    BY <2>5, <2>7, <2>8 DEF IInv
<1>2. ASSUME NEW lots \in 1..Qty, NEW worse \in BOOLEAN, Fill(o, lots, worse)
      PROVE  IInv'
  <2>1. order[o].status = "working" /\ order[o].filled + lots <= Qty
    BY <1>2 DEF Fill
  <2>2. order[o] \in Order /\ position[o] \in 0..Qty /\ position[o] <= order[o].filled
    BY <2>1, WorkingOrder DEF IInv, TypeOK
  <2>a. order[o].filled \in Nat /\ position[o] \in Nat /\ lots \in Nat /\ Qty \in Nat
    BY <2>2, OrderShape, QtyAssumption
  <2>3. /\ order' = [order EXCEPT ![o] = order'[o]]
        /\ order'[o] = [order[o] EXCEPT !.filled = @ + lots, !.worse = @ \/ worse,
                          !.status = IF order[o].filled + lots = Qty THEN "filled" ELSE @]
    BY <1>2 DEF Fill, IInv, TypeOK
  <2>4. /\ order'[o] \in Order
        /\ order'[o].filled = order[o].filled + lots
        /\ order'[o].status # "rejected"
    <3>1. order[o].filled + lots \in 0..Qty
      BY <2>1, <2>a
    <3>2. (order[o].worse \/ worse) \in BOOLEAN
      OBVIOUS
    <3> QED
      BY <2>1, <2>2, <2>3, <3>1, <3>2 DEF Order, TerminalStatus
  <2>b. position[o] + lots \in 0..Qty
    BY <2>1, <2>2, <2>a
  <2>5. /\ position' = [position EXCEPT ![o] = position[o] + lots]
        /\ position[o] + lots \in 0..Qty
    BY <1>2, <2>b DEF Fill
  <2>6. order' \in [Orders -> Order] /\ position' \in [Orders -> 0..Qty]
    BY <2>3, <2>4, <2>5 DEF IInv, TypeOK
  <2>7. position'[o] <= order'[o].filled
    BY <2>2, <2>4, <2>5, OrderShape, QtyAssumption DEF IInv, TypeOK
  <2>8. \A p \in Orders \ {o} : order'[p] = order[p] /\ position'[p] = position[p]
    BY <2>3, <2>5 DEF IInv, TypeOK
  <2>9. Counted(o)' /\ rec[o].state # "none"
    BY <1>2, <2>1, <2>6, WorkingOrder, FullyCounted DEF Fill
  <2>10. TypeOK'
    BY <1>2, <2>6 DEF IInv, TypeOK, Fill
  <2>11. \A p \in Orders : Consistent(p)'
    BY <1>2, <2>1, <2>4, <2>6, <2>7, <2>8, <2>9, WorkingOrder, OneOrder DEF IInv, TypeOK, Fill
  <2>12. InWork' /\ SeenIsTrue'
    BY <1>2, <2>1, <2>8, WorkingOrder, LocalsKept DEF Fill
  <2> QED
    BY <2>10, <2>11, <2>12 DEF IInv
<1>3. ASSUME NEW status \in TerminalStatus, NEW contradictory \in BOOLEAN,
             OrderEnds(o, status, contradictory)
      PROVE  IInv'
  <2>1. order[o].status = "working"
    BY <1>3 DEF OrderEnds
  <2>2. order[o] \in Order /\ position[o] <= order[o].filled
    BY <2>1, WorkingOrder DEF IInv, TypeOK
  <2>3. /\ order' = [order EXCEPT ![o] = order'[o]]
        /\ order'[o] = [order[o] EXCEPT !.status = status, !.contradictory = contradictory,
                          !.worse = @ /\ ~contradictory]
    BY <1>3 DEF OrderEnds, IInv, TypeOK
  <2>4. /\ order'[o] \in Order
        /\ order'[o].filled = order[o].filled
        /\ order'[o].status = status
        /\ order'[o].contradictory = contradictory
    <3>1. (order[o].worse /\ ~contradictory) \in BOOLEAN
      OBVIOUS
    <3> QED
      BY <2>2, <2>3, <3>1 DEF Order
  <2>5. order' \in [Orders -> Order]
    BY <2>3, <2>4 DEF IInv, TypeOK
  <2>a. status = "rejected" /\ order[o].filled > 0 => contradictory
    BY <1>3 DEF OrderEnds
  <2>b. order[o].filled \in Nat
    BY <2>2, OrderShape, QtyAssumption
  <2>6. status = "rejected" /\ ~contradictory => order[o].filled = 0
    BY <2>a, <2>b
  <2>7. \A p \in Orders \ {o} : order'[p] = order[p]
    BY <2>3 DEF IInv, TypeOK
  <2>8. Counted(o)' /\ rec[o].state # "none"
    BY <1>3, <2>1, <2>5, WorkingOrder, FullyCounted DEF OrderEnds
  <2>9. TypeOK'
    BY <1>3, <2>5 DEF IInv, TypeOK, OrderEnds
  <2>10. \A p \in Orders : Consistent(p)'
    BY <1>3, <2>1, <2>2, <2>4, <2>5, <2>6, <2>7, <2>8, WorkingOrder, OneOrder DEF IInv, TypeOK, OrderEnds
  <2>11. InWork' /\ SeenIsTrue'
    BY <1>3, <2>1, <2>7, WorkingOrder, LocalsKept DEF OrderEnds
  <2> QED
    BY <2>9, <2>10, <2>11 DEF IInv
<1>4. CASE PositionCloses(o)
  <2>1. position' \in [Orders -> 0..Qty]
    BY <1>4, QtyAssumption DEF IInv, TypeOK, PositionCloses
  <2>2. TypeOK'
    BY <1>4, <2>1 DEF IInv, TypeOK, PositionCloses
  <2>3. InWork' /\ SeenIsTrue'
    BY <1>4 DEF IInv, InWork, SeenIsTrue, PositionCloses
  <2>4. ASSUME NEW p \in Orders
        PROVE  Consistent(p)'
    <3>1. Consistent(p) /\ 0 <= order[p].filled
      BY OrderShape, QtyAssumption DEF IInv, TypeOK
    <3>2. position'[p] = IF p = o THEN 0 ELSE position[p]
      BY <1>4 DEF PositionCloses, IInv, TypeOK
    <3> QED
      BY <1>4, <3>1, <3>2 DEF Consistent, Counted, Reachable, PositionCloses
  <2> QED
    BY <2>2, <2>3, <2>4 DEF IInv
<1> QED
  BY <1>1, <1>2, <1>3, <1>4

LEMMA CancelSteps ==
    ASSUME IInv, NEW o \in Orders, CancelOrder(o)
    PROVE  IInv'
<1>1. CASE order' = order
  <2>1. UNCHANGED <<broker, rec>>
    BY <1>1 DEF CancelOrder, broker
  <2>2. TypeOK'
    BY <1>1 DEF IInv, TypeOK, CancelOrder, Goto, Labels
  <2>3. InWork'
    BY <1>1 DEF IInv, InWork, CancelOrder, Goto, Busy
  <2>4. SeenIsTrue'
    BY <1>1 DEF IInv, SeenIsTrue, CancelOrder
  <2> QED
    BY <2>1, <2>2, <2>3, <2>4, OrdersKept DEF IInv
<1>2. CASE order[o].status = "working" /\ order' = [order EXCEPT ![o].status = "canceled"]
  <2>1. order[o] \in Order /\ order' = [order EXCEPT ![o] = order'[o]]
        /\ order'[o] = [order[o] EXCEPT !.status = "canceled"]
    BY <1>2 DEF IInv, TypeOK
  <2>2. order'[o] \in Order /\ order'[o].filled = order[o].filled /\ order'[o].status = "canceled"
    BY <2>1 DEF Order, TerminalStatus
  <2>3. order' \in [Orders -> Order]
    BY <2>1, <2>2 DEF IInv, TypeOK
  <2>4. \A p \in Orders \ {o} : order'[p] = order[p]
    BY <2>1 DEF IInv, TypeOK
  <2>5. Counted(o)' /\ rec[o].state # "none"
    BY <1>2, <2>3, WorkingOrder, FullyCounted DEF CancelOrder
  <2>6. \A p \in Orders : Consistent(p)'
    BY <1>2, <2>2, <2>3, <2>4, <2>5, WorkingOrder, OneOrder DEF IInv, TypeOK, CancelOrder
  <2>7. TypeOK'
    BY <2>3 DEF IInv, TypeOK, CancelOrder, Goto, Labels
  <2>8. InWork'
    BY DEF IInv, InWork, CancelOrder, Goto, Busy
  <2>9. SeenIsTrue'
    <3>1. seen = NoOrder
      BY DEF IInv, InWork, CancelOrder, Busy
    <3> QED
      BY <3>1 DEF SeenIsTrue, CancelOrder, isTerminalBrokerStatus, TerminalStatus, NoOrder
  <2> QED
    BY <2>6, <2>7, <2>8, <2>9 DEF IInv
<1> QED
  BY <1>1, <1>2 DEF CancelOrder

LEMMA SubmitSteps ==
    ASSUME IInv, NEW how \in {"acknowledged", "lost", "rejected", "duplicate"}, SubmitOrder(how)
    PROVE  IInv'
<1>1. /\ pc = "submit"
      /\ cur \in Orders
      /\ rec[cur].state = "intent"
      /\ request[cur] = "none"
      /\ seen = NoOrder
  BY DEF IInv, InWork, SubmitOrder, Busy
<1>2. order[cur] = NoOrder /\ position[cur] <= 0
  BY <1>1 DEF IInv, Consistent, NoOrder
<1>3. /\ request' = [request EXCEPT ![cur] = request'[cur]]
      /\ request'[cur] = IF how = "lost" THEN "on_its_way" ELSE "settled"
  BY <1>1 DEF SubmitOrder, IInv, TypeOK
<1>4. /\ order' = [order EXCEPT ![cur] = order'[cur]]
      /\ how = "lost" => order'[cur] = order[cur]
      /\ how = "rejected" => order'[cur] = NoOrder
      /\ how \in {"acknowledged", "duplicate"} => order'[cur] = Working
  BY <1>1 DEF SubmitOrder, IInv, TypeOK
<1>5. order'[cur] \in {NoOrder, Working}
  BY <1>2, <1>4
<1>6. order' \in [Orders -> Order] /\ request' \in [Orders -> {"none", "on_its_way", "settled"}]
  BY <1>3, <1>4, <1>5, BareOrders DEF IInv, TypeOK
<1>7. TypeOK'
  BY <1>6 DEF IInv, TypeOK, SubmitOrder, Goto, Labels
<1>8. \A p \in Orders \ {cur} : order'[p] = order[p] /\ request'[p] = request[p]
  BY <1>3, <1>4 DEF IInv, TypeOK
<1>9. order'[cur].filled = 0 /\ order'[cur].status # "rejected"
  BY <1>5 DEF NoOrder, Working
<1>10. Counted(cur)'
  <2>1. Reachable(cur)' \in 0..Qty
    BY <1>1, <1>7, OrderShape, QtyAssumption DEF TypeOK, Reachable, SubmitOrder
  <2>2. exposureOf(rec[cur]) = Qty
    BY <1>1 DEF exposureOf, Unclear
  <2> QED
    BY <2>1, <2>2, QtyAssumption DEF Counted, SubmitOrder
<1>11. request'[cur] # "settled" => order'[cur] = NoOrder
  BY <1>2, <1>3, <1>4
<1>12. \A p \in Orders : Consistent(p)'
  BY <1>1, <1>2, <1>6, <1>8, <1>9, <1>10, <1>11, OneOrder DEF IInv, TypeOK, SubmitOrder
<1>13. InWork'
  BY <1>1, <1>3, <1>4 DEF InWork, SubmitOrder, Goto, Busy
<1>14. SeenIsTrue'
  BY <1>1 DEF SeenIsTrue, SubmitOrder, isTerminalBrokerStatus, TerminalStatus, NoOrder
<1> QED
  BY <1>7, <1>12, <1>13, <1>14 DEF IInv

LEMMA HumanSteps ==
    ASSUME IInv, Unhalt \/ FlattenDateComes \/ UNCHANGED vars
    PROVE  IInv'
<1>1. UNCHANGED <<broker, rec, pc, cur, seen, answer>>
  BY DEF Unhalt, FlattenDateComes, vars, local
<1>2. TypeOK'
  BY DEF IInv, TypeOK, Unhalt, FlattenDateComes, vars, local, broker
<1>3. InWork' /\ SeenIsTrue'
  BY <1>1 DEF IInv, InWork, SeenIsTrue, broker
<1> QED
  BY <1>1, <1>2, <1>3, OrdersKept DEF IInv

-----------------------------------------------------------------------------
LEMMA Initially == Init => IInv
<1> SUFFICES ASSUME Init PROVE IInv
  OBVIOUS
<1>1. TypeOK
  <2>1. NoBook \in [Orders -> [position : 0..Qty, open : -1..Qty]]
    BY QtyAssumption DEF NoBook
  <2>2. 0 \in 0..Qty
    BY QtyAssumption
  <2>3. /\ order \in [Orders -> Order]
        /\ request \in [Orders -> {"none", "on_its_way", "settled"}]
        /\ position \in [Orders -> 0..Qty]
        /\ rec \in [Orders -> Record]
        /\ seen \in Order
    BY <2>2, BareOrders, NoRecordCounts DEF Init
  <2> QED
    BY <2>1, <2>3 DEF Init, TypeOK, Labels
<1>2. InWork /\ SeenIsTrue
  BY DEF Init, InWork, SeenIsTrue, Busy, isTerminalBrokerStatus, TerminalStatus, NoOrder
<1>3. ASSUME NEW o \in Orders
      PROVE  Consistent(o)
  <2>1. order[o] = NoOrder /\ request[o] = "none" /\ position[o] = 0 /\ rec[o] = NoRecord
    BY DEF Init
  <2> QED
    BY <2>1 DEF Consistent, Counted, Reachable, exposureOf, NoOrder, NoRecord, Unclear
<1> QED
  BY <1>1, <1>2, <1>3 DEF IInv

(***************************************************************************)
(* Every step keeps the invariant.                                         *)
(***************************************************************************)
LEMMA Stepwise == IInv /\ [Next]_vars => IInv'
<1> SUFFICES ASSUME IInv, [Next]_vars PROVE IInv'
  OBVIOUS
<1>1. CASE Runner
  <2>1. CASE Submission
    BY <2>1, SubmitSteps DEF Submission
  <2>2. CASE \E o \in Orders : CancelOrder(o)
    BY <2>2, CancelSteps
  <2>3. CASE ~Submission /\ ~(\E o \in Orders : CancelOrder(o))
    BY <1>1, <2>3, PhaseZeroSteps, SnapshotSteps, PlanSteps, AppendingSteps DEF Runner
  <2> QED
    BY <2>1, <2>2, <2>3
<1>2. CASE Environment
  BY <1>2, SnapshotSteps, HumanSteps, BrokerSteps DEF Environment
<1>3. CASE UNCHANGED vars
  BY <1>3, HumanSteps
<1> QED
  BY <1>1, <1>2, <1>3 DEF Next

(***************************************************************************)
(* Every reachable state is well typed.                                    *)
(***************************************************************************)
THEOREM TypeCorrect == Spec => []TypeOK
<1>1. IInv => TypeOK
  BY DEF IInv
<1> QED
  BY Initially, Stepwise, <1>1, PTL DEF Spec

(***************************************************************************)
(* While the journal folds, it counts at least what the broker has filled  *)
(* or may still fill, for every number of orders and lots, under every     *)
(* fault: crashes, failing appends and reads, lost and late requests,      *)
(* lagging lookups, contradictory records.                                 *)
(***************************************************************************)
THEOREM ExposureAlwaysCovered == Spec => []ExposureCovered
<1>1. IInv => ExposureCovered
  BY DEF IInv, Consistent, Counted, ExposureCovered, foldOk
<1> QED
  BY Initially, Stepwise, <1>1, PTL DEF Spec

-----------------------------------------------------------------------------
(***************************************************************************)
(* What needs a broker whose terminal records fit together.  Of each       *)
(* order: the journal never says more than the broker, and what may still  *)
(* fill is not settled in it.                                              *)
(***************************************************************************)
HonestBroker == "contradictory" \notin Faults

Open == Unclear \cup {"fillable"}

Truthful(o) ==
    /\ ~order[o].contradictory
    /\ rec[o].state # "broken"
    /\ rec[o].filled <= order[o].filled
    /\ order[o].status = "working" \/ request[o] = "on_its_way" => rec[o].state \in Open

(***************************************************************************)
(* What a loop still has to visit is open and not in work, and the record  *)
(* in hand is between the journal and the broker.                          *)
(***************************************************************************)
Reading == {"phase0", "breach0", "resolve", "breach0again"}
Batch == {"primary", "entries", "recheck", "submit", "observe", "record", "breach4"}

Visited ==
    /\ pc \notin Busy => cur = NoId
    /\ pc \in Reading \cup {"cancels", "canceled"} => \A o \in todo : rec[o].state \in Open /\ o # cur
    /\ pc \in {"breach0", "resolve", "canceled"} => rec[cur].state \in Open
    /\ pc \in {"breach0", "resolve"} =>
         IF seen = NoOrder THEN rec[cur].state # "fillable" ELSE rec[cur].filled <= seen.filled
    /\ pc \in {"observe", "record"} => rec[cur].state = "intent"
    /\ cur \in Orders => seen.filled <= order[cur].filled

(***************************************************************************)
(* A requested order of unclear fate is still to be looked at, is in work, *)
(* or the cycle sends no entry any more.                                   *)
(***************************************************************************)
Unsure == {o \in Orders : request[o] # "none" /\ rec[o].state \in Unclear}
Stopped == entriesBlocked \/ journalFailure

Remembered ==
    /\ pc \in Reading => Stopped \/ Unsure \subseteq todo \cup {cur}
    /\ pc \in Batch => Stopped \/ Unsure \subseteq {cur}
    /\ pc \in {"recheck", "submit"} => ~Stopped

HInv ==
    /\ IInv
    /\ \A o \in Orders : Truthful(o)
    /\ Visited
    /\ Remembered

-----------------------------------------------------------------------------
LEMMA MatchedStays ==
    ASSUME NEW r \in Record, NEW line \in EntryLine, foldable(r, line),
           \/ line.type = "ACKNOWLEDGED_WORKING"
           \/ line.type = "MATCHED_WORKING" /\ r.state = "fillable"
    PROVE  foldLine(r, line).state = "fillable"
BY DEF foldLine

(***************************************************************************)
(* A line the fold accepts, that says no more than the broker and settles  *)
(* nothing open, keeps the journal truthful, whether it lands or not.      *)
(***************************************************************************)
LEMMA LineTold ==
    ASSUME HInv, UNCHANGED broker, NEW o \in Orders, NEW line \in EntryLine,
           Lands(o, line) \/ AppendFails,
           foldable(rec[o], line),
           foldLine(rec[o], line).filled <= order[o].filled,
           order[o].status = "working" \/ request[o] = "on_its_way"
             => foldLine(rec[o], line).state \in Open
    PROVE  /\ \A p \in Orders : Truthful(p)'
           /\ \A p \in Orders \ {o} : rec'[p] = rec[p]
           /\ \/ rec'[o] = foldLine(rec[o], line) /\ UNCHANGED journalFailure
              \/ UNCHANGED rec /\ journalFailure' = TRUE
<1>1. rec \in [Orders -> Record] /\ \A p \in Orders : Truthful(p)
  BY DEF HInv, IInv, TypeOK
<1>2. CASE AppendFails
  BY <1>1, <1>2 DEF AppendFails, Truthful, broker
<1>3. CASE Lands(o, line)
  <2>1. foldLine(rec[o], line).state # "broken"
    BY <1>1, FoldShape, LineShape
  <2>2. rec' = [rec EXCEPT ![o] = foldLine(rec[o], line)] /\ UNCHANGED journalFailure
    BY <1>3 DEF Lands
  <2>3. rec'[o] = foldLine(rec[o], line) /\ \A p \in Orders \ {o} : rec'[p] = rec[p]
    BY <1>1, <2>2
  <2>4. Truthful(o)'
    BY <1>1, <2>1, <2>3 DEF Truthful, broker
  <2>5. \A p \in Orders \ {o} : Truthful(p)'
    BY <1>1, <2>3 DEF Truthful, broker
  <2> QED
    BY <2>2, <2>3, <2>4, <2>5
<1> QED
  BY <1>2, <1>3

LEMMA TerminalFits ==
    ASSUME HInv, isTerminalBrokerStatus(seen), rec[cur].state \in Open
    PROVE  /\ cur \in Orders
           /\ outcomeFromOrder(seen) \in EntryLine
           /\ foldable(rec[cur], outcomeFromOrder(seen))
           /\ foldLine(rec[cur], outcomeFromOrder(seen)).filled <= order[cur].filled
           /\ foldLine(rec[cur], outcomeFromOrder(seen)).state \notin Open
           /\ order[cur].status # "working" /\ request[cur] = "settled"
<1> DEFINE line == outcomeFromOrder(seen)
<1>1. /\ cur \in Orders /\ seen = order[cur] /\ seen \in Order /\ rec[cur] \in Record
      /\ seen.status = "rejected" /\ ~seen.contradictory => seen.filled = 0
  BY TerminalReaches DEF HInv, IInv, SeenIsTrue, TypeOK
<1>2. ~seen.contradictory /\ rec[cur].filled <= seen.filled
  BY <1>1 DEF HInv, Truthful
<1>3. order[cur].status # "working" /\ request[cur] = "settled"
  <2>1. order[cur] # NoOrder /\ order[cur].status # "working"
    BY <1>1 DEF isTerminalBrokerStatus, TerminalStatus, NoOrder
  <2> QED
    BY <1>1, <2>1 DEF HInv, IInv, Consistent
<1>4. line \in EntryLine /\ line.type = "OUTCOME"
  BY <1>1, OutcomeLines
<1>5. line.filled = seen.filled /\ line.status \in {"filled", "canceled", "rejected"}
  <2>1. CASE seen.status = "rejected"
    BY <1>1, <1>2, <2>1 DEF outcomeFromOrder, Outcome
  <2>2. CASE seen.status # "rejected"
    <3>1. line = Outcome(IF seen.filled > 0 THEN "filled" ELSE "canceled", seen.filled, seen.worse)
      BY <1>2, <2>2 DEF outcomeFromOrder
    <3> QED
      BY <3>1 DEF Outcome
  <2> QED
    BY <2>1, <2>2
<1>6. foldable(rec[cur], line)
  <2>1. line.filled >= rec[cur].filled
    BY <1>1, <1>2, <1>5, OrderShape, RecordShape, QtyAssumption
  <2> HIDE DEF line
  <2> QED
    BY <1>4, <1>5, <2>1 DEF foldable, Open
<1> HIDE DEF line
<1>7. foldLine(rec[cur], line).filled = seen.filled /\ foldLine(rec[cur], line).state = line.status
  BY <1>1, <1>4, <1>5, <1>6, FoldShape
<1>8. seen.filled <= order[cur].filled
  BY <1>1, OrderShape, QtyAssumption
<1>9. foldLine(rec[cur], line).state \notin Open
  BY <1>5, <1>7 DEF Open, Unclear
<1> QED
  BY <1>1, <1>3, <1>4, <1>6, <1>7, <1>8, <1>9 DEF line

LEMMA ResolutionFits ==
    ASSUME HInv, pc = "resolve"
    PROVE  /\ cur \in Orders
           /\ resolutionLine \in EntryLine
           /\ foldable(rec[cur], resolutionLine)
           /\ foldLine(rec[cur], resolutionLine).filled <= order[cur].filled
           /\ order[cur].status = "working" \/ request[cur] = "on_its_way"
                => foldLine(rec[cur], resolutionLine).state \in Open
           /\ foldLine(rec[cur], resolutionLine).state \in Unclear => BlocksEntries
<1>1. /\ cur \in Orders /\ rec[cur] \in Record /\ seen \in Order /\ order[cur] \in Order
      /\ rec[cur].state \in Open
      /\ seen.filled <= order[cur].filled
      /\ rec[cur].filled <= order[cur].filled
      /\ seen = NoOrder => rec[cur].state # "fillable"
      /\ seen # NoOrder => rec[cur].filled <= seen.filled
  BY DEF HInv, IInv, TypeOK, InWork, Busy, Visited, Truthful
<1>2. CASE isTerminalBrokerStatus(seen)
  <2>1. resolutionLine = outcomeFromOrder(seen)
    BY <1>2 DEF resolutionLine
  <2> QED
    BY <1>1, <1>2, <2>1, TerminalFits DEF Open
<1>3. CASE ~isTerminalBrokerStatus(seen) /\ seen = NoOrder
  <2>1. resolutionLine = Plain("NOT_AT_BROKER")
    BY <1>3 DEF resolutionLine
  <2>2. resolutionLine \in EntryLine /\ resolutionLine.type = "NOT_AT_BROKER"
    BY <2>1, PlainLines
  <2>3. foldable(rec[cur], resolutionLine)
    BY <1>1, <1>3, <2>2 DEF foldable, Open
  <2>4. /\ foldLine(rec[cur], resolutionLine).state = "confirmation_unclear"
        /\ foldLine(rec[cur], resolutionLine).filled = rec[cur].filled
    BY <1>1, <2>2, <2>3, FoldShape
  <2>5. BlocksEntries
    BY <1>3 DEF BlocksEntries
  <2> QED
    BY <1>1, <2>2, <2>3, <2>4, <2>5 DEF Open, Unclear
<1>4. CASE ~isTerminalBrokerStatus(seen) /\ seen # NoOrder
  <2>2. /\ resolutionLine = WorkingLine("MATCHED_WORKING", seen)
        /\ rec[cur].filled <= seen.filled
    BY <1>1, <1>4 DEF resolutionLine
  <2>3. /\ resolutionLine \in EntryLine
        /\ resolutionLine.type = "MATCHED_WORKING"
        /\ resolutionLine.filled = seen.filled
    BY <1>1, <2>2, WorkingLines DEF WorkingLine
  <2>4. foldable(rec[cur], resolutionLine)
    BY <1>1, <2>2, <2>3, OrderShape, RecordShape, QtyAssumption DEF foldable, Open
  <2>5. /\ foldLine(rec[cur], resolutionLine).state \in {"fillable", "confirmation_unclear"}
        /\ foldLine(rec[cur], resolutionLine).filled = seen.filled
    BY <1>1, <2>3, <2>4, FoldShape
  <2>6. rec[cur].state = "fillable" => foldLine(rec[cur], resolutionLine).state = "fillable"
    BY <1>1, <2>3, <2>4, MatchedStays
  <2>7. foldLine(rec[cur], resolutionLine).state \in Unclear => BlocksEntries
    BY <1>1, <1>4, <2>6 DEF BlocksEntries, Open, Unclear
  <2> QED
    BY <1>1, <2>3, <2>4, <2>5, <2>7 DEF Open, Unclear
<1> QED
  BY <1>2, <1>3, <1>4

LEMMA SubmitFits ==
    ASSUME HInv, pc = "record"
    PROVE  /\ cur \in Orders
           /\ submitLine \in EntryLine
           /\ foldable(rec[cur], submitLine)
           /\ foldLine(rec[cur], submitLine).filled <= order[cur].filled
           /\ order[cur].status = "working" \/ request[cur] = "on_its_way"
                => foldLine(rec[cur], submitLine).state \in Open
           /\ foldLine(rec[cur], submitLine).state \in Unclear => BlocksSiblings
<1>1. /\ cur \in Orders /\ rec[cur] \in Record /\ seen \in Order /\ order[cur] \in Order
      /\ rec[cur].state = "intent" /\ rec[cur].filled = 0
      /\ seen.filled <= order[cur].filled
      /\ answer \in {"acknowledged", "lost", "rejected", "duplicate"}
      /\ answer = "rejected" => order[cur] = NoOrder /\ request[cur] = "settled"
  <2>1. cur \in Orders /\ rec[cur].state = "intent"
    BY DEF HInv, IInv, InWork, Busy, Visited
  <2> QED
    BY <2>1, RecordShape DEF HInv, IInv, TypeOK, InWork, Visited
<1>2. 0 <= order[cur].filled /\ seen.filled \in 0..Qty
  BY <1>1, OrderShape, QtyAssumption
<1>3. CASE answer = "rejected"
  <2>1. submitLine = Outcome("rejected", 0, FALSE)
    BY <1>3 DEF submitLine
  <2>2. /\ submitLine \in EntryLine
        /\ submitLine.type = "OUTCOME" /\ submitLine.status = "rejected" /\ submitLine.filled = 0
    BY <2>1, SubmitLines DEF Outcome
  <2>3. foldable(rec[cur], submitLine)
    BY <1>1, <2>2 DEF foldable, Unclear
  <2>4. foldLine(rec[cur], submitLine).filled = 0 /\ foldLine(rec[cur], submitLine).state = "rejected"
    BY <1>1, <2>2, <2>3, FoldShape
  <2> QED
    BY <1>1, <1>2, <1>3, <2>2, <2>3, <2>4 DEF NoOrder, Unclear
<1>4. CASE answer = "lost"
  <2>1. submitLine = UnclearOutcome
    BY <1>4 DEF submitLine
  <2>2. /\ submitLine \in EntryLine
        /\ submitLine.type = "OUTCOME" /\ submitLine.status = "confirmation_unclear"
        /\ submitLine.filled = 0
    BY <2>1, SubmitLines DEF UnclearOutcome, Outcome
  <2>3. foldable(rec[cur], submitLine)
    BY <1>1, <2>2 DEF foldable, Unclear
  <2>4. /\ foldLine(rec[cur], submitLine).filled = 0
        /\ foldLine(rec[cur], submitLine).state = "confirmation_unclear"
    BY <1>1, <2>2, <2>3, FoldShape
  <2> QED
    BY <1>1, <1>2, <2>2, <2>3, <2>4 DEF Open, Unclear, BlocksSiblings
<1>5. CASE answer \in {"acknowledged", "duplicate"} /\ isTerminalBrokerStatus(seen)
  <2>1. submitLine = outcomeFromOrder(seen)
    BY <1>5 DEF submitLine
  <2>2. rec[cur].state \in Open
    BY <1>1 DEF Open, Unclear
  <2> QED
    BY <1>5, <2>1, <2>2, TerminalFits DEF Open
<1>6. CASE answer \in {"acknowledged", "duplicate"} /\ ~isTerminalBrokerStatus(seen)
  <2>1. submitLine = WorkingLine(IF answer = "acknowledged" THEN "ACKNOWLEDGED_WORKING"
                                                            ELSE "MATCHED_WORKING", seen)
    BY <1>6 DEF submitLine
  <2>2. /\ submitLine \in EntryLine /\ submitLine.filled = seen.filled
        /\ submitLine.type = IF answer = "acknowledged" THEN "ACKNOWLEDGED_WORKING"
                                                        ELSE "MATCHED_WORKING"
    BY <1>1, <2>1, WorkingLines DEF WorkingLine
  <2>3. foldable(rec[cur], submitLine)
    <3>1. submitLine.filled >= rec[cur].filled
      BY <1>1, <1>2, <2>2
    <3> QED
      BY <1>1, <2>2, <3>1 DEF foldable, Unclear
  <2>4. /\ foldLine(rec[cur], submitLine).state \in {"fillable", "confirmation_unclear"}
        /\ foldLine(rec[cur], submitLine).filled = seen.filled
    BY <1>1, <2>2, <2>3, FoldShape
  <2>5. answer = "acknowledged" => foldLine(rec[cur], submitLine).state = "fillable"
    BY <1>1, <2>2, <2>3, MatchedStays
  <2>6. foldLine(rec[cur], submitLine).state \in Unclear => BlocksSiblings
    BY <1>6, <2>2, <2>5 DEF BlocksSiblings, Unclear
  <2> QED
    BY <1>1, <2>2, <2>3, <2>4, <2>6 DEF Open, Unclear
<1> QED
  BY <1>1, <1>3, <1>4, <1>5, <1>6

-----------------------------------------------------------------------------
(***************************************************************************)
(* Steps that append no line and leave the broker alone.                   *)
(***************************************************************************)
LEMMA NothingTold ==
    ASSUME HInv, UNCHANGED <<broker, rec>>
    PROVE  (\A p \in Orders : Truthful(p)') /\ Unsure' = Unsure
BY DEF HInv, Truthful, Unsure, broker

LEMMA HonestEnds ==
    ASSUME HInv, EndCycle
    PROVE  Visited' /\ Remembered'
BY NoIdAssumption DEF EndCycle, Return, Visited, Remembered, Busy, Reading, Batch

LEMMA HaltStops ==
    ASSUME haltFor
    PROVE  journalFailure => journalFailure'
BY DEF haltFor

LEMMA HonestReading ==
    ASSUME HInv,
           \/ StartCycle
           \/ \E o \in Orders : LookupUnresolved(o)
           \/ \E o \in Orders : \E record \in {order[o], NoOrder} : orderByClientId(o, record)
           \/ HaltBeforeResolution
           \/ HaltAfterResolution
    PROVE  (\A p \in Orders : Truthful(p)') /\ Visited' /\ Remembered'
<1> USE DEF Reading, Batch, Busy, Stopped
<1>1. UNCHANGED <<broker, rec>>
  BY DEF StartCycle, LookupUnresolved, orderByClientId, HaltBeforeResolution, HaltAfterResolution
<1>2. (\A p \in Orders : Truthful(p)') /\ Unsure' = Unsure
  BY <1>1, NothingTold
<1>3. CASE StartCycle
  <2>1. cur = NoId /\ Unsure \subseteq todo'
    BY <1>3 DEF HInv, Visited, StartCycle, Unsure, Unresolved
  <2>2. Visited'
    BY <1>3, <2>1, NoIdAssumption DEF Visited, StartCycle, Unresolved, Open, Goto
  <2>3. Remembered'
    BY <1>2, <1>3, <2>1 DEF Remembered, StartCycle, Goto
  <2> QED
    BY <1>2, <2>2, <2>3
<1>4. ASSUME NEW o \in Orders, LookupUnresolved(o)
      PROVE  Visited' /\ Remembered'
  <2>1. Visited'
    BY <1>4 DEF HInv, Visited, LookupUnresolved, broker
  <2>2. Remembered'
    BY <1>4 DEF Remembered, LookupUnresolved
  <2> QED
    BY <2>1, <2>2
<1>5. ASSUME NEW o \in Orders, NEW record \in {order[o], NoOrder}, orderByClientId(o, record)
      PROVE  Visited' /\ Remembered'
  <2>1. cur = NoId /\ o \in todo /\ rec[o].state \in Open
    BY <1>5 DEF HInv, Visited, orderByClientId
  <2>2. /\ cur' = o /\ seen' = record /\ todo' = todo \ {o}
        /\ UNCHANGED <<order, rec>>
        /\ pc' \in {"breach0", "resolve"}
    BY <1>5 DEF orderByClientId, Goto, broker
  <2>3. record = NoOrder => rec[o].state # "fillable"
    BY <1>5 DEF orderByClientId, Vanished
  <2>4. record.filled <= order[o].filled /\ (record # NoOrder => rec[o].filled <= record.filled)
    <3>1. 0 <= order[o].filled /\ order[o].filled <= order[o].filled /\ rec[o].filled <= order[o].filled
      BY OrderShape, QtyAssumption DEF HInv, IInv, TypeOK, Truthful
    <3> QED
      BY <3>1 DEF NoOrder
  <2>5. Visited'
    BY <1>5, <2>1, <2>2, <2>3, <2>4 DEF HInv, Visited, orderByClientId
  <2>6. Remembered'
    <3>1. pc = "phase0" /\ (entriesBlocked \/ journalFailure => entriesBlocked' \/ journalFailure')
      BY <1>5 DEF orderByClientId
    <3>2. entriesBlocked \/ journalFailure \/ Unsure \subseteq todo
      BY <2>1, <3>1, NoIdAssumption DEF HInv, Remembered, Unsure
    <3>3. todo \subseteq todo' \cup {cur'}
      BY <2>2
    <3> QED
      BY <1>2, <2>2, <3>1, <3>2, <3>3 DEF Remembered
  <2> QED
    BY <2>5, <2>6
<1>6. CASE HaltBeforeResolution
  <2>1. Visited'
    BY <1>6 DEF HInv, Visited, HaltBeforeResolution, Goto, broker
  <2>2. Remembered'
    BY <1>2, <1>6, HaltStops DEF HInv, Remembered, HaltBeforeResolution, Goto
  <2> QED
    BY <1>2, <2>1, <2>2
<1>7. CASE HaltAfterResolution
  <2>1. Visited'
    BY <1>7 DEF HInv, Visited, HaltAfterResolution, Goto, broker
  <2>2. Remembered'
    BY <1>2, <1>7, HaltStops DEF HInv, Remembered, HaltAfterResolution, Goto
  <2> QED
    BY <1>2, <2>1, <2>2
<1> QED
  BY <1>2, <1>3, <1>4, <1>5, <1>6, <1>7

LEMMA HonestPlans ==
    ASSUME HInv,
           \/ Snapshot \/ AppendPrimary \/ FinishCycle \/ Crash
           \/ Revalidate \/ SubmitRefused \/ Observe \/ HaltAfterSubmit \/ FlattenBook
    PROVE  (\A p \in Orders : Truthful(p)') /\ Visited' /\ Remembered'
<1> USE DEF Reading, Batch, Busy, Stopped
<1>1. UNCHANGED <<broker, rec>>
  BY DEF Snapshot, AppendPrimary, FinishCycle, Crash, Revalidate, SubmitRefused, Observe,
         HaltAfterSubmit, FlattenBook
<1>2. (\A p \in Orders : Truthful(p)') /\ Unsure' = Unsure
  BY <1>1, NothingTold
<1>3. CASE EndCycle
  BY <1>2, <1>3, HonestEnds
<1>4. CASE Snapshot /\ ~EndCycle
  <2>1. pc' = "primary" /\ todo' = {} /\ UNCHANGED <<cur, seen, order, rec>> /\ cur = NoId
    BY <1>4 DEF HInv, Visited, Snapshot, Goto, broker
  <2>2. Visited'
    BY <2>1, NoIdAssumption DEF Visited
  <2>3. entriesBlocked' \/ Unsure \subseteq {cur}
    BY <1>4 DEF HInv, Remembered, Snapshot
  <2>4. Remembered'
    BY <1>2, <2>1, <2>3 DEF Remembered
  <2> QED
    BY <1>2, <2>2, <2>4
<1>5. CASE AppendPrimary /\ ~EndCycle
  <2>1. /\ pc = "primary" /\ pc' \in {"entries", "flatten"}
        /\ UNCHANGED <<cur, seen, order, rec, entriesBlocked, journalFailure>> /\ cur = NoId
    BY <1>5 DEF HInv, Visited, AppendPrimary, Goto, broker
  <2>2. Visited'
    BY <2>1, NoIdAssumption DEF Visited
  <2>3. Remembered'
    BY <1>2, <2>1 DEF HInv, Remembered
  <2> QED
    BY <1>2, <2>2, <2>3
<1>6. CASE Revalidate
  <2>1. Visited'
    BY <1>6 DEF HInv, Visited, Revalidate, Goto, broker
  <2>2. Remembered'
    BY <1>2, <1>6 DEF HInv, Remembered, Revalidate, Goto
  <2> QED
    BY <1>2, <2>1, <2>2
<1>7. CASE SubmitRefused
  <2>1. Visited'
    BY <1>7, NoIdAssumption DEF HInv, Visited, SubmitRefused, Return
  <2>2. cur \notin Unsure
    BY <1>7 DEF HInv, IInv, InWork, SubmitRefused, Unsure
  <2>3. Remembered'
    BY <1>2, <1>7, <2>2 DEF HInv, Remembered, SubmitRefused, Return
  <2> QED
    BY <1>2, <2>1, <2>3
<1>8. CASE Observe
  <2>1. cur \in Orders /\ order[cur].filled <= order[cur].filled
    BY <1>8, OrderShape, QtyAssumption DEF HInv, IInv, TypeOK, InWork, Observe
  <2>2. Visited'
    BY <1>8, <2>1 DEF HInv, Visited, Observe, Goto, broker
  <2>3. Remembered'
    BY <1>2, <1>8 DEF HInv, Remembered, Observe, Goto
  <2> QED
    BY <1>2, <2>2, <2>3
<1>9. CASE HaltAfterSubmit
  <2>1. Visited'
    BY <1>9 DEF HInv, Visited, HaltAfterSubmit, Goto, broker
  <2>2. Remembered'
    BY <1>2, <1>9, HaltStops DEF HInv, Remembered, HaltAfterSubmit, Goto
  <2> QED
    BY <1>2, <2>1, <2>2
<1>10. CASE FlattenBook
  <2>1. \A o \in todo' : rec[o].state \in Open
    BY <1>10 DEF HInv, Truthful, FlattenBook
  <2>2. Visited'
    BY <1>10, <2>1, NoIdAssumption DEF HInv, Visited, FlattenBook, Goto, broker
  <2>3. Remembered'
    BY <1>10 DEF Remembered, FlattenBook, Goto
  <2> QED
    BY <1>2, <2>2, <2>3
<1> QED
  BY <1>2, <1>3, <1>4, <1>5, <1>6, <1>7, <1>8, <1>9, <1>10 DEF FinishCycle, Crash

-----------------------------------------------------------------------------
(***************************************************************************)
(* Steps that append a line.                                               *)
(***************************************************************************)
\* When the line of the order in work has landed or failed, and the loop goes on.
LEMMA LoopGoesOn ==
    ASSUME HInv, cur' = NoId,
           pc' \in {"phase0", "breach0again", "entries", "breach4", "cancels"},
           todo' \subseteq todo,
           cur \in Orders, \A p \in Orders \ {cur} : rec'[p] = rec[p],
           pc' \in Reading \cup {"cancels"} => pc \in Reading \cup {"cancels", "canceled"}
    PROVE  Visited'
<1>1. \A o \in todo' : \/ o \in Orders /\ rec'[o] = rec[o]
                       \/ pc' \notin Reading \cup {"cancels", "canceled"}
  BY DEF HInv, IInv, TypeOK, Visited
<1>2. pc' \in Reading \cup {"cancels", "canceled"} =>
         \A o \in todo' : rec'[o].state \in Open /\ o # cur'
  BY <1>1, NoIdAssumption DEF HInv, IInv, TypeOK, Visited, Reading
<1> QED
  BY <1>2, NoIdAssumption DEF Visited, Busy

LEMMA HonestLines ==
    ASSUME HInv,
           Resolve \/ (\E o \in Orders : AppendIntent(o)) \/ RevalidationVoid
             \/ RecordSubmit \/ RecordCancel
    PROVE  (\A p \in Orders : Truthful(p)') /\ Visited' /\ Remembered'
<1>1. CASE Resolve /\ StillWorking
  <2>1. UNCHANGED <<broker, rec, todo, entriesBlocked, journalFailure>> /\ cur \in Orders
        /\ pc = "resolve" /\ pc' = "phase0" /\ cur' = NoId
    BY <1>1 DEF HInv, IInv, InWork, Busy, Resolve, Return
  <2>2. (\A p \in Orders : Truthful(p)') /\ Unsure' = Unsure
    BY <2>1, NothingTold
  <2>3. Visited'
    BY <2>1, LoopGoesOn DEF Reading
  <2>4. cur \notin Unsure
    BY <1>1 DEF StillWorking, Unsure, Unclear
  <2>5. Remembered'
    BY <2>1, <2>2, <2>4 DEF HInv, Remembered, Reading, Batch, Stopped
  <2> QED
    BY <2>2, <2>3, <2>5
<1>2. CASE Resolve /\ ~StillWorking
  <2>1. /\ pc = "resolve" /\ pc' \in {"phase0", "breach0again"} /\ cur' = NoId
        /\ UNCHANGED broker
        /\ \/ /\ Lands(cur, resolutionLine)
              /\ entriesBlocked' = (entriesBlocked \/ BlocksEntries)
              /\ UNCHANGED todo
           \/ AppendFails /\ todo' = {}
    BY <1>2 DEF Resolve, Return
  <2>2. /\ cur \in Orders
        /\ \A p \in Orders : Truthful(p)'
        /\ \A p \in Orders \ {cur} : rec'[p] = rec[p]
        /\ \/ rec'[cur] = foldLine(rec[cur], resolutionLine) /\ UNCHANGED journalFailure
           \/ UNCHANGED rec /\ journalFailure' = TRUE
    BY <2>1, ResolutionFits, LineTold
  <2>3. Visited'
    BY <2>1, <2>2, LoopGoesOn DEF Reading
  <2>4. Stopped' \/ Unsure' \subseteq todo'
    <3>1. CASE AppendFails
      BY <3>1 DEF AppendFails, Stopped
    <3>2. CASE ~AppendFails /\ (entriesBlocked \/ journalFailure \/ BlocksEntries)
      BY <2>1, <3>2 DEF Lands, Stopped
    <3>3. CASE ~AppendFails /\ ~entriesBlocked /\ ~journalFailure /\ ~BlocksEntries
      <4>1. /\ rec' = [rec EXCEPT ![cur] = foldLine(rec[cur], resolutionLine)]
            /\ UNCHANGED <<todo, request>>
        BY <2>1, <3>3 DEF Lands, broker
      <4>2. rec'[cur].state \notin Unclear
        BY <2>1, <2>2, <3>3, <4>1, ResolutionFits DEF HInv, IInv, TypeOK
      <4>3. Unsure \subseteq todo \cup {cur}
        BY <2>1, <3>3 DEF HInv, Remembered, Reading, Stopped
      <4> QED
        BY <2>2, <4>1, <4>2, <4>3 DEF Unsure
    <3> QED
      BY <3>1, <3>2, <3>3
  <2>5. Remembered'
    BY <2>1, <2>4 DEF Remembered, Reading, Batch
  <2> QED
    BY <2>2, <2>3, <2>5
<1>3. ASSUME NEW o \in Orders, AppendIntent(o)
      PROVE  (\A p \in Orders : Truthful(p)') /\ Visited' /\ Remembered'
  <2> DEFINE line == Plain("INTENT")
  <2>1. /\ pc = "entries" /\ rec[o].state = "none" /\ rec[o] \in Record /\ order[o] \in Order
        /\ request[o] = "none" /\ order[o] = NoOrder /\ seen = NoOrder /\ cur = NoId
        /\ ~Stopped
    BY <1>3 DEF HInv, IInv, TypeOK, InWork, Consistent, AppendIntent, Visited, Busy, Stopped
  <2>2. line \in EntryLine /\ line.type = "INTENT"
    BY PlainLines
  <2> HIDE DEF line
  <2>3. foldable(rec[o], line)
    BY <2>1, <2>2 DEF foldable
  <2>4. foldLine(rec[o], line).state = "intent" /\ foldLine(rec[o], line).filled = 0
    BY <2>1, <2>2, <2>3, FoldShape
  <2>5. NoOrder.filled = 0 /\ NoOrder.status # "working" /\ 0 <= 0
    BY DEF NoOrder
  <2>6. UNCHANGED broker /\ (Lands(o, line) \/ AppendFails)
    BY <1>3 DEF AppendIntent, line
  <2>7. /\ \A p \in Orders : Truthful(p)'
        /\ \A p \in Orders \ {o} : rec'[p] = rec[p]
        /\ \/ rec'[o] = foldLine(rec[o], line) /\ UNCHANGED journalFailure
           \/ UNCHANGED rec /\ journalFailure' = TRUE
    BY <2>1, <2>2, <2>3, <2>4, <2>5, <2>6, LineTold
  <2>8. Unsure' = Unsure
    BY <2>1, <2>6, <2>7 DEF Unsure, broker
  <2>9. Unsure = {}
    BY <2>1, NoIdAssumption DEF HInv, Remembered, Batch, Unsure
  <2>10. \/ pc' = "recheck" /\ cur' = o /\ UNCHANGED <<journalFailure, entriesBlocked>>
         \/ pc' = "entries" /\ cur' = cur
    BY <1>3, <2>1 DEF AppendIntent, Goto, Lands
  <2>11. Visited'
    BY <1>3, <2>1, <2>5, <2>10, NoIdAssumption
       DEF Visited, AppendIntent, Reading, Busy, broker
  <2>12. Remembered'
    BY <2>1, <2>8, <2>9, <2>10 DEF Remembered, Stopped, Reading
  <2> QED
    BY <2>7, <2>11, <2>12
<1>4. CASE RevalidationVoid
  <2> DEFINE line == Plain("REVALIDATION_VOID")
  <2>1. /\ pc = "recheck" /\ cur \in Orders /\ rec[cur].state = "intent" /\ rec[cur] \in Record
        /\ request[cur] = "none" /\ order[cur] = NoOrder
    BY <1>4 DEF HInv, IInv, TypeOK, InWork, Consistent, RevalidationVoid, Busy
  <2>2. line \in EntryLine /\ line.type = "REVALIDATION_VOID"
    BY PlainLines
  <2> HIDE DEF line
  <2>3. foldable(rec[cur], line)
    BY <2>1, <2>2 DEF foldable
  <2>4. foldLine(rec[cur], line).filled = 0
    BY <2>1, <2>2, <2>3, FoldShape
  <2>5. NoOrder.filled = 0 /\ NoOrder.status # "working" /\ 0 <= 0
    BY DEF NoOrder
  <2>6. UNCHANGED <<broker, todo, entriesBlocked>> /\ (Lands(cur, line) \/ AppendFails)
        /\ cur' = NoId /\ pc' = "entries"
    BY <1>4 DEF RevalidationVoid, Return, line
  <2>7. /\ \A p \in Orders : Truthful(p)'
        /\ \A p \in Orders \ {cur} : rec'[p] = rec[p]
    BY <2>1, <2>2, <2>3, <2>4, <2>5, <2>6, LineTold
  <2>8. Visited'
    BY <2>1, <2>6, <2>7, LoopGoesOn DEF Reading
  <2>9. Unsure' \subseteq Unsure \ {cur}
    BY <2>1, <2>6, <2>7 DEF Unsure, broker
  <2>10. Remembered'
    BY <2>1, <2>6, <2>9 DEF HInv, Remembered, Batch, Reading, Stopped
  <2> QED
    BY <2>7, <2>8, <2>10
<1>5. CASE RecordSubmit
  <2>1. /\ pc = "record" /\ pc' \in {"entries", "breach4"} /\ cur' = NoId
        /\ UNCHANGED <<broker, todo>>
        /\ Lands(cur, submitLine) \/ AppendFails
        /\ entriesBlocked' = (entriesBlocked \/ BlocksSiblings \/ submitLine.breach)
    BY <1>5 DEF RecordSubmit, Return
  <2>2. /\ cur \in Orders
        /\ \A p \in Orders : Truthful(p)'
        /\ \A p \in Orders \ {cur} : rec'[p] = rec[p]
        /\ \/ rec'[cur] = foldLine(rec[cur], submitLine) /\ UNCHANGED journalFailure
           \/ UNCHANGED rec /\ journalFailure' = TRUE
    BY <2>1, SubmitFits, LineTold
  <2>3. Visited'
    BY <2>1, <2>2, LoopGoesOn DEF Reading
  <2>4. Stopped' \/ Unsure' = {}
    <3>1. CASE journalFailure' \/ entriesBlocked'
      BY <3>1 DEF Stopped
    <3>2. CASE ~journalFailure' /\ ~entriesBlocked'
      <4>1. /\ rec'[cur] = foldLine(rec[cur], submitLine)
            /\ ~journalFailure /\ ~entriesBlocked /\ ~BlocksSiblings
            /\ UNCHANGED request
        <5>1. ~(entriesBlocked \/ BlocksSiblings \/ submitLine.breach)
          BY <2>1, <3>2
        <5>2. rec'[cur] = foldLine(rec[cur], submitLine) /\ UNCHANGED journalFailure
          BY <2>2, <3>2
        <5> QED
          BY <2>1, <3>2, <5>1, <5>2 DEF broker
      <4>2. rec'[cur].state \notin Unclear
        BY <2>1, <4>1, SubmitFits
      <4>3. Unsure \subseteq {cur}
        BY <2>1, <4>1 DEF HInv, Remembered, Batch, Stopped
      <4> QED
        BY <2>2, <4>1, <4>2, <4>3 DEF Unsure
    <3> QED
      BY <3>1, <3>2
  <2>5. Remembered'
    BY <2>1, <2>4 DEF Remembered, Reading, Batch
  <2> QED
    BY <2>2, <2>3, <2>5
<1>6. CASE RecordCancel
  <2>1. /\ pc = "canceled" /\ pc' = "cancels" /\ cur' = NoId
        /\ UNCHANGED <<broker, todo>>
        /\ Lands(cur, outcomeFromOrder(seen)) \/ AppendFails
        /\ isTerminalBrokerStatus(seen) /\ rec[cur].state \in Open
    BY <1>6 DEF HInv, IInv, InWork, Visited, RecordCancel, Return
  <2>2. /\ cur \in Orders
        /\ \A p \in Orders : Truthful(p)'
        /\ \A p \in Orders \ {cur} : rec'[p] = rec[p]
    BY <2>1, TerminalFits, LineTold
  <2>3. Visited'
    BY <2>1, <2>2, LoopGoesOn DEF Reading
  <2>4. Remembered'
    BY <2>1 DEF Remembered, Reading, Batch
  <2> QED
    BY <2>2, <2>3, <2>4
<1> QED
  BY <1>1, <1>2, <1>3, <1>4, <1>5, <1>6

-----------------------------------------------------------------------------
(***************************************************************************)
(* Steps of the broker.  An order that may still fill is not settled in    *)
(* the journal, and what it fills only takes the broker further ahead.     *)
(***************************************************************************)
LEMMA OneTruthful ==
    ASSUME HInv, UNCHANGED rec, NEW o \in Orders, rec[o].state \in Open,
           \A p \in Orders \ {o} : order'[p] = order[p] /\ request'[p] = request[p],
           ~order'[o].contradictory,
           rec[o].filled <= order'[o].filled
    PROVE  \A p \in Orders : Truthful(p)'
BY DEF HInv, Truthful

LEMMA GrowingOrder ==
    ASSUME HInv, NEW o \in Orders, UNCHANGED <<rec, local, deadline>>,
           order[o].status = "working" \/ request[o] = "on_its_way",
           \A p \in Orders \ {o} : order'[p] = order[p] /\ request'[p] = request[p],
           order'[o] \in Order, ~order'[o].contradictory,
           order[o].filled <= order'[o].filled,
           request'[o] # "none"
    PROVE  (\A p \in Orders : Truthful(p)') /\ Visited' /\ Remembered'
<1>1. /\ rec[o].state \in Open /\ rec[o].filled <= order[o].filled
      /\ order[o] \in Order /\ rec[o] \in Record /\ seen \in Order
  BY DEF HInv, Truthful, IInv, TypeOK
<1>2. rec[o].filled <= order'[o].filled
  BY <1>1, OrderShape, RecordShape, QtyAssumption
<1>3. \A p \in Orders : Truthful(p)'
  BY <1>1, <1>2, OneTruthful
<1>4. cur = o => seen.filled <= order'[o].filled
  BY <1>1, OrderShape, QtyAssumption DEF HInv, Visited
<1>5. Visited'
  BY <1>4 DEF HInv, Visited, local
<1>6. request[o] # "none"
  <2>1. order[o].status = "working" => request[o] = "settled"
    BY WorkingOrder DEF HInv
  <2> QED
    BY <2>1
<1>7. Unsure' = Unsure
  BY <1>6 DEF Unsure
<1>8. Remembered'
  BY <1>7 DEF HInv, Remembered, Stopped, local
<1> QED
  BY <1>3, <1>5, <1>8

LEMMA HonestBrokerSteps ==
    ASSUME HonestBroker, HInv, NEW o \in Orders,
           \/ RequestArrives(o)
           \/ \E lots \in 1..Qty, worse \in BOOLEAN : Fill(o, lots, worse)
           \/ \E status \in TerminalStatus, contradictory \in BOOLEAN :
                 OrderEnds(o, status, contradictory)
           \/ PositionCloses(o)
    PROVE  (\A p \in Orders : Truthful(p)') /\ Visited' /\ Remembered'
<1>a. order \in [Orders -> Order] /\ request \in [Orders -> {"none", "on_its_way", "settled"}]
  BY DEF HInv, IInv, TypeOK
<1>b. /\ order[o] \in Order /\ order[o].filled \in Nat /\ ~order[o].contradictory
      /\ order[o].status = "working" => request[o] = "settled"
  BY <1>a, OrderShape, WorkingOrder, QtyAssumption DEF HInv, Truthful
<1>1. CASE RequestArrives(o)
  <2>1. order[o] = NoOrder
    BY <1>1 DEF HInv, IInv, Consistent, RequestArrives
  <2>2. order'[o] = Working /\ request'[o] = "settled"
        /\ \A p \in Orders \ {o} : order'[p] = order[p] /\ request'[p] = request[p]
    BY <1>1, <1>a DEF RequestArrives
  <2>3. /\ Working \in Order /\ ~Working.contradictory
        /\ NoOrder.filled <= Working.filled
    BY BareOrders DEF Working, NoOrder
  <2> QED
    BY <1>1, <2>1, <2>2, <2>3, GrowingOrder DEF RequestArrives
<1>2. ASSUME NEW lots \in 1..Qty, NEW worse \in BOOLEAN, Fill(o, lots, worse)
      PROVE  (\A p \in Orders : Truthful(p)') /\ Visited' /\ Remembered'
  <2>1. order'[o] = [order[o] EXCEPT !.filled = @ + lots, !.worse = @ \/ worse,
                       !.status = IF order[o].filled + lots = Qty THEN "filled" ELSE @]
        /\ \A p \in Orders \ {o} : order'[p] = order[p]
    BY <1>2, <1>a DEF Fill
  <2>2. order'[o] \in Order
    BY <1>2, BrokerSteps DEF HInv, IInv, TypeOK
  <2>3. order'[o].filled = order[o].filled + lots /\ order'[o].contradictory = order[o].contradictory
    BY <1>b, <2>1 DEF Order
  <2>4. order[o].filled <= order'[o].filled
    BY <1>b, <2>3, QtyAssumption
  <2> QED
    BY <1>2, <1>b, <2>1, <2>2, <2>3, <2>4, GrowingOrder DEF Fill
<1>3. ASSUME NEW status \in TerminalStatus, NEW contradictory \in BOOLEAN,
             OrderEnds(o, status, contradictory)
      PROVE  (\A p \in Orders : Truthful(p)') /\ Visited' /\ Remembered'
  <2>1. order'[o] = [order[o] EXCEPT !.status = status, !.contradictory = contradictory,
                       !.worse = @ /\ ~contradictory]
        /\ \A p \in Orders \ {o} : order'[p] = order[p]
    BY <1>3, <1>a DEF OrderEnds
  <2>2. order'[o] \in Order
    BY <1>3, BrokerSteps DEF HInv, IInv, TypeOK
  <2>3. ~contradictory
    BY <1>3 DEF OrderEnds, HonestBroker
  <2>4. order'[o].filled = order[o].filled /\ order'[o].contradictory = contradictory
    BY <1>b, <2>1 DEF Order
  <2>5. order[o].filled <= order'[o].filled
    BY <1>b, <2>4
  <2> QED
    BY <1>3, <1>b, <2>1, <2>2, <2>3, <2>4, <2>5, GrowingOrder DEF OrderEnds
<1>4. CASE PositionCloses(o)
  <2>1. UNCHANGED <<order, request, rec, local>>
    BY <1>4 DEF PositionCloses
  <2> QED
    BY <2>1 DEF HInv, Truthful, Visited, Remembered, Unsure, Stopped, local
<1> QED
  BY <1>1, <1>2, <1>3, <1>4

LEMMA HonestCancels ==
    ASSUME HInv, NEW o \in Orders, CancelOrder(o)
    PROVE  (\A p \in Orders : Truthful(p)') /\ Visited' /\ Remembered'
<1>1. /\ order \in [Orders -> Order] /\ order[o] \in Order
      /\ pc = "cancels" /\ cur = NoId /\ o \in todo
      /\ rec[o].state \in Open /\ rec[o].filled <= order[o].filled
      /\ ~order[o].contradictory
      /\ UNCHANGED <<rec, request>>
  BY DEF HInv, IInv, TypeOK, Visited, Truthful, CancelOrder, Busy
<1>2. /\ order'[o].filled = order[o].filled
      /\ order'[o].contradictory = order[o].contradictory
      /\ \A p \in Orders \ {o} : order'[p] = order[p]
  <2>1. CASE UNCHANGED order
    BY <2>1
  <2>2. CASE order' = [order EXCEPT ![o].status = "canceled"]
    BY <1>1, <2>2 DEF Order
  <2> QED
    BY <2>1, <2>2 DEF CancelOrder
<1>3. \A p \in Orders : Truthful(p)'
  BY <1>1, <1>2, OneTruthful
<1>4. order'[o].filled <= order'[o].filled
  BY <1>1, <1>2, OrderShape, QtyAssumption
<1>5. \/ pc' = "canceled" /\ cur' = o /\ seen' = order'[o] /\ todo' = todo \ {o}
      \/ UNCHANGED <<pc, cur, seen>> /\ todo' = todo \ {o}
  BY DEF CancelOrder, Goto
<1>6. Visited'
  BY <1>1, <1>4, <1>5, NoIdAssumption DEF HInv, Visited, Reading, Busy
<1>7. Remembered'
  BY <1>1, <1>5 DEF Remembered, Reading, Batch
<1> QED
  BY <1>3, <1>6, <1>7

LEMMA HonestSubmits ==
    ASSUME HInv, NEW how \in {"acknowledged", "lost", "rejected", "duplicate"}, SubmitOrder(how)
    PROVE  (\A p \in Orders : Truthful(p)') /\ Visited' /\ Remembered'
<1>1. /\ order \in [Orders -> Order] /\ request \in [Orders -> {"none", "on_its_way", "settled"}]
      /\ pc = "submit" /\ cur \in Orders /\ seen = NoOrder
      /\ rec[cur].state = "intent" /\ rec[cur] \in Record /\ order[cur] = NoOrder
      /\ ~Stopped
  BY DEF HInv, IInv, TypeOK, InWork, Consistent, Remembered, SubmitOrder, Busy
<1>2. /\ \A p \in Orders \ {cur} : order'[p] = order[p] /\ request'[p] = request[p]
      /\ order'[cur] \in {NoOrder, Working}
  BY <1>1 DEF SubmitOrder
<1>3. /\ ~order'[cur].contradictory /\ order'[cur].filled = 0
      /\ NoOrder.filled = 0
  BY <1>2 DEF NoOrder, Working
<1>4. rec[cur].filled = 0 /\ 0 <= 0
  BY <1>1, RecordShape
<1>5. UNCHANGED <<rec, cur, seen, todo, entriesBlocked, journalFailure>>
      /\ pc' \in {"observe", "record"}
  BY DEF SubmitOrder, Goto
<1>6. \A p \in Orders : Truthful(p)'
  <2>1. rec[cur].state \in Open
    BY <1>1 DEF Open, Unclear
  <2> QED
    BY <1>1, <1>2, <1>3, <1>4, <1>5, <2>1, OneTruthful
<1>7. Visited'
  BY <1>1, <1>3, <1>4, <1>5, NoIdAssumption DEF Visited, Reading, Busy
<1>8. Unsure' \subseteq Unsure \cup {cur}
  BY <1>2, <1>5 DEF Unsure
<1>9. Remembered'
  BY <1>1, <1>5, <1>8 DEF HInv, Remembered, Reading, Batch, Stopped
<1> QED
  BY <1>6, <1>7, <1>9

LEMMA HonestHumans ==
    ASSUME HInv, Unhalt \/ FlattenDateComes \/ UNCHANGED vars
    PROVE  (\A p \in Orders : Truthful(p)') /\ Visited' /\ Remembered'
<1>1. UNCHANGED <<broker, rec, local>>
  BY DEF Unhalt, FlattenDateComes, vars, local
<1> QED
  BY <1>1, NothingTold DEF HInv, Visited, Remembered, Stopped, local, broker

-----------------------------------------------------------------------------
LEMMA HonestInitially == Init => HInv
<1> SUFFICES ASSUME Init PROVE HInv
  OBVIOUS
<1>1. ASSUME NEW o \in Orders
      PROVE  Truthful(o)
  <2>1. order[o] = NoOrder /\ request[o] = "none" /\ rec[o] = NoRecord
    BY DEF Init
  <2> QED
    BY <2>1 DEF Truthful, NoOrder, NoRecord
<1>2. Visited /\ Remembered
  BY NoIdAssumption DEF Init, Visited, Remembered, Reading, Batch, Busy
<1> QED
  BY <1>1, <1>2, Initially DEF HInv

LEMMA HonestSteps ==
    ASSUME HonestBroker, HInv, [Next]_vars
    PROVE  HInv'
<1>1. IInv'
  BY Stepwise DEF HInv
<1>2. CASE Runner
  <2>1. CASE Submission
    BY <1>1, <2>1, HonestSubmits DEF Submission, HInv
  <2>2. CASE \E o \in Orders : CancelOrder(o)
    BY <1>1, <2>2, HonestCancels DEF HInv
  <2>3. CASE Resolve \/ (\E o \in Orders : AppendIntent(o)) \/ RevalidationVoid
               \/ RecordSubmit \/ RecordCancel
    BY <1>1, <2>3, HonestLines DEF HInv
  <2>4. CASE \/ StartCycle
             \/ \E o \in Orders : LookupUnresolved(o)
             \/ \E o \in Orders : \E record \in {order[o], NoOrder} : orderByClientId(o, record)
             \/ HaltBeforeResolution \/ HaltAfterResolution
    BY <1>1, <2>4, HonestReading DEF HInv
  <2>5. CASE \/ Snapshot \/ AppendPrimary \/ FinishCycle
             \/ Revalidate \/ SubmitRefused \/ Observe \/ HaltAfterSubmit \/ FlattenBook
    BY <1>1, <2>5, HonestPlans DEF HInv
  <2> QED
    BY <1>2, <2>1, <2>2, <2>3, <2>4, <2>5 DEF Runner
<1>3. CASE Environment
  <2>1. CASE Crash
    BY <1>1, <2>1, HonestPlans DEF HInv
  <2>2. CASE Unhalt \/ FlattenDateComes
    BY <1>1, <2>2, HonestHumans DEF HInv
  <2>3. CASE ~Crash /\ ~Unhalt /\ ~FlattenDateComes
    BY <1>1, <1>3, <2>3, HonestBrokerSteps DEF Environment, HInv
  <2> QED
    BY <2>1, <2>2, <2>3
<1>4. CASE UNCHANGED vars
  BY <1>1, <1>4, HonestHumans DEF HInv
<1> QED
  BY <1>2, <1>3, <1>4 DEF Next

LEMMA HonestAlways ==
    ASSUME HonestBroker
    PROVE  Spec => []HInv
<1>1. HInv /\ [Next]_vars => HInv'
  BY HonestSteps
<1> QED
  BY HonestInitially, <1>1, PTL DEF Spec

(***************************************************************************)
(* As long as the broker's terminal records fit together, the runner never *)
(* appends a line its own fold refuses: no second OUTCOME, no weakening,   *)
(* no shrinking fill, for every number of orders and lots and every order  *)
(* of fills, cancels, crashes, re-reads and failing appends.               *)
(***************************************************************************)
THEOREM JournalAlwaysFolds ==
    ASSUME HonestBroker
    PROVE  Spec => []FoldNeverFails
<1>1. HInv => FoldNeverFails
  BY DEF HInv, Truthful, FoldNeverFails, foldOk
<1> QED
  BY HonestAlways, <1>1, PTL

(***************************************************************************)
(* Under the same condition no entry is handed to the broker while the     *)
(* fate of another one is unclear, be it of the same batch or of an        *)
(* earlier cycle that died or failed anywhere.                             *)
(***************************************************************************)
THEOREM NothingBesideUnclear ==
    ASSUME HonestBroker
    PROVE  Spec => NoEntryWhileUnclear
<1>1. HInv /\ pc = "submit" => \A o \in Orders \ {cur} : request[o] # "none" => rec[o].state \notin Unclear
  BY DEF HInv, Remembered, Batch, Unsure
<1>2. HInv => [(pc = "submit" /\ request' # request)
                 => \A o \in Orders \ {cur} : request[o] # "none" => rec[o].state \notin Unclear]_vars
  BY <1>1
<1> QED
  BY HonestAlways, <1>2, PTL DEF NoEntryWhileUnclear
=============================================================================
