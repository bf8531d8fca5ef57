---------------------------- MODULE EntryRecord ----------------------------
(***************************************************************************)
(* What an entry order is to the broker and what the journal makes of it   *)
(* (src/src/core/execution.ts): the OUTCOME derived from a broker record,  *)
(* and the fold that rebuilds a lifecycle from its lines.  A quantity is a *)
(* number of lots; of prices only this is kept: whether a fill was worse   *)
(* than the submitted limit.  "canceled" stands for expired, too: the code *)
(* treats the two alike.                                                   *)
(***************************************************************************)
EXTENDS Integers

CONSTANT Qty   \* the quantity of an entry

ASSUME QtyAssumption == Qty \in Nat \ {0}

(***************************************************************************)
(* The broker's record.  A terminal record is contradictory when its fill  *)
(* evidence does not fit its status: rejected with fills, filled without a *)
(* price, a price without fills.                                           *)
(***************************************************************************)
TerminalStatus == {"filled", "canceled", "rejected"}
Order == [status : {"none", "working"} \cup TerminalStatus, filled : 0..Qty,
          worse : BOOLEAN, contradictory : BOOLEAN]
NoOrder == [status |-> "none", filled |-> 0, worse |-> FALSE, contradictory |-> FALSE]
Working == [NoOrder EXCEPT !.status = "working"]

isTerminalBrokerStatus(order) == order.status \in TerminalStatus

(***************************************************************************)
(* The fold's record of an entry: EntryReservationState, with "none" for   *)
(* an id without INTENT and "broken" for a line the fold refuses.  Only    *)
(* the states that still count as exposure carry fills.                    *)
(***************************************************************************)
TerminalState == {"filled", "canceled", "rejected"}
Unclear == {"intent", "confirmation_unclear"}
Record == [state : {"filled", "fillable", "confirmation_unclear"}, filled : 0..Qty,
           priceBreach : BOOLEAN]
            \cup [state : {"none", "intent", "canceled", "rejected", "broken"},
                  filled : {0}, priceBreach : BOOLEAN]
NoRecord == [state |-> "none", filled |-> 0, priceBreach |-> FALSE]
Broken == [NoRecord EXCEPT !.state = "broken"]

JournalLine == [type : {"INTENT", "OUTCOME", "ACKNOWLEDGED_WORKING", "MATCHED_WORKING",
                        "NOT_AT_BROKER", "REVALIDATION_VOID"},
                status : {"none", "confirmation_unclear"} \cup TerminalState,
                filled : 0..Qty, breach : BOOLEAN]
Plain(type) == [type |-> type, status |-> "none", filled |-> 0, breach |-> FALSE]
Outcome(status, filled, breach) ==
    [type |-> "OUTCOME", status |-> status, filled |-> filled, breach |-> breach]
UnclearOutcome == Outcome("confirmation_unclear", 0, FALSE)
WorkingLine(type, order) ==
    [type |-> type, status |-> "none", filled |-> order.filled, breach |-> order.worse]

\* Mutant: the broker's status is copied, a partial fill is released as canceled.
outcomeFromOrder_verbatim(order) ==
    IF order.contradictory THEN UnclearOutcome
    ELSE Outcome(order.status, order.filled, order.worse)

(***************************************************************************)
(* The OUTCOME of a terminal record.  A partial fill that ended any other  *)
(* way than by rejection is "filled" with the quantity it reached.         *)
(***************************************************************************)
outcomeFromOrder(order) ==
    IF order.contradictory THEN UnclearOutcome
    ELSE IF order.status = "rejected" THEN Outcome("rejected", 0, FALSE)
    ELSE Outcome(IF order.filled > 0 THEN "filled" ELSE "canceled", order.filled, order.worse)

(***************************************************************************)
(* The fold of one line.  Terminal truth is never overwritten, working     *)
(* truth never weakened, fills never decrease; NOT_AT_BROKER settles       *)
(* nothing, and only a line from before the submission releases an intent. *)
(***************************************************************************)
\* Mutant: an order the broker does not know is taken for one that was never sent.
foldLine_releases(rec, line) ==
    IF line.type = "NOT_AT_BROKER" THEN [rec EXCEPT !.state = "canceled"]
    ELSE CASE line.type = "INTENT" -> [NoRecord EXCEPT !.state = "intent"]
           [] line.type = "OUTCOME" -> [state |-> line.status, filled |-> line.filled,
                                        priceBreach |-> rec.priceBreach \/ line.breach]
           [] line.type = "REVALIDATION_VOID" -> [rec EXCEPT !.state = "canceled"]
           [] OTHER -> [state |-> "fillable", filled |-> line.filled,
                        priceBreach |-> rec.priceBreach \/ line.breach]

foldable(rec, line) ==
    CASE line.type = "INTENT" -> rec.state = "none"
      [] line.type = "OUTCOME" ->
           /\ rec.state \in Unclear \cup {"fillable"}
           /\ ~(rec.state = "fillable" /\ line.status = "confirmation_unclear")
           /\ line.filled >= rec.filled
      [] line.type = "ACKNOWLEDGED_WORKING" ->
           rec.state \in {"intent", "fillable"} /\ line.filled >= rec.filled
      [] line.type = "MATCHED_WORKING" ->
           rec.state \in Unclear \cup {"fillable"} /\ line.filled >= rec.filled
      [] line.type = "NOT_AT_BROKER" -> rec.state \in Unclear
      [] line.type = "REVALIDATION_VOID" -> rec.state = "intent"

foldLine(rec, line) ==
    IF ~foldable(rec, line) THEN Broken
    ELSE CASE line.type = "INTENT" -> [NoRecord EXCEPT !.state = "intent"]
           [] line.type = "OUTCOME" ->
                [state |-> line.status, filled |-> line.filled,
                 priceBreach |-> rec.priceBreach \/ line.breach]
           [] line.type \in {"ACKNOWLEDGED_WORKING", "MATCHED_WORKING"} ->
                [state |-> IF line.type = "ACKNOWLEDGED_WORKING" \/ rec.state = "fillable"
                           THEN "fillable" ELSE "confirmation_unclear",
                 filled |-> line.filled,
                 priceBreach |-> rec.priceBreach \/ line.breach]
           [] line.type = "NOT_AT_BROKER" -> [rec EXCEPT !.state = "confirmation_unclear"]
           [] line.type = "REVALIDATION_VOID" -> [rec EXCEPT !.state = "canceled"]

(***************************************************************************)
(* The quantity the gates count against the budgets for a lifecycle: all   *)
(* of an unclear one, the filled part of a filled one, and the filled and  *)
(* the resting part, each once, of a fillable one.                         *)
(***************************************************************************)
exposureOf(rec) ==
    CASE rec.state \in Unclear -> Qty
      [] rec.state = "fillable" -> rec.filled + (Qty - rec.filled)
      [] rec.state = "filled" -> rec.filled
      [] OTHER -> 0
=============================================================================
