---------------------------- MODULE CloseOrders ----------------------------
(***************************************************************************)
(* The pure core of closing (src/src/core/order-identity.ts, execution.ts, *)
(* lifecycle.ts): which attempt a close lifecycle may make next, what a    *)
(* broker record says about an attempt, what a canceled attempt leaves to  *)
(* close, which orders reduce risk, and which part of a book the journaled *)
(* structures explain.  A book maps contracts to signed quantities, the    *)
(* legs of an order map contracts to signed quantities per unit (0 for a   *)
(* contract it does not touch).  "canceled" stands for expired, too.       *)
(***************************************************************************)
EXTENDS Integers, FiniteSets, SequencesExt

LOCAL Least(a, b) == IF a < b THEN a ELSE b
LOCAL Size(n) == IF n < 0 THEN -n ELSE n

-----------------------------------------------------------------------------
(***************************************************************************)
(* Close lifecycles.  An attempt snapshot is a record [generation,         *)
(* requested, filled, state]; a working record is "accepted" or, with      *)
(* fills, "partially_filled".                                              *)
(***************************************************************************)
ActiveCloseState == {"accepted", "partially_filled", "confirmation_unclear"}
CloseState == ActiveCloseState \cup {"filled", "rejected", "canceled"}

WellFormedAttempt(exposure, a) ==
    /\ a.requested > 0
    /\ a.filled \in 0..a.requested
    /\ a.state \in {"accepted", "rejected"} => a.filled = 0
    /\ a.state = "partially_filled" => a.filled \in 1..(a.requested - 1)
    /\ a.state = "filled" => a.filled = a.requested
    /\ a.state = "canceled" => a.filled < a.requested
    /\ a.state \in ActiveCloseState => a.requested - a.filled \in 1..exposure

\* Mutant: a new attempt is planned beside an active one.
planCloseLifecycle_beside(exposure, attempts) ==
    IF exposure = 0 THEN [kind |-> "COMPLETE", generation |-> 0, quantity |-> 0]
    ELSE [kind |-> "SUBMIT", generation |-> Cardinality(attempts), quantity |-> exposure]

\* Mutant: a lifecycle with a terminal attempt is taken for complete.
planCloseLifecycle_oneAttempt(exposure, attempts) ==
    [kind |-> IF attempts = {} THEN "SUBMIT" ELSE "COMPLETE", generation |-> 0, quantity |-> exposure]

(***************************************************************************)
(* An invalid snapshot or a second active attempt vetoes; an active        *)
(* attempt is adopted; otherwise all that is exposed is submitted under    *)
(* the generation behind the highest one seen.                             *)
(***************************************************************************)
planCloseLifecycle(exposure, attempts) ==
    LET active == {a \in attempts : a.state \in ActiveCloseState}
        next   == IF attempts = {} THEN 0
                  ELSE 1 + (CHOOSE n \in {a.generation : a \in attempts} :
                                \A a \in attempts : a.generation <= n)
        Plan(kind, generation, quantity) ==
            [kind |-> kind, generation |-> generation, quantity |-> quantity]
    IN  IF \/ \E a \in attempts : ~WellFormedAttempt(exposure, a)
           \/ \E a, b \in active : a # b
        THEN Plan("VETO", 0, 0)
        ELSE IF active # {} THEN Plan("ADOPT", (CHOOSE a \in active : TRUE).generation, exposure)
        ELSE IF exposure = 0 THEN Plan("COMPLETE", 0, 0)
        ELSE Plan("SUBMIT", next, exposure)

-----------------------------------------------------------------------------
(***************************************************************************)
(* Broker records of close orders: [status, quantity, filled, legs].       *)
(***************************************************************************)
TerminalCloseStatus == {"filled", "canceled", "rejected"}

closeStateOf(order) ==
    IF order.status # "working" THEN order.status
    ELSE IF order.filled = 0 THEN "accepted" ELSE "partially_filled"

\* The status of the OUTCOME of a terminal record.
closeOutcome(order) ==
    IF order.status = "canceled" /\ order.filled >= order.quantity THEN "confirmation_unclear"
    ELSE IF order.status = "canceled" /\ order.filled > 0 THEN "partially_filled"
    ELSE order.status

reconcileCancel(order) ==
    CASE order.status \notin TerminalCloseStatus -> "CANCEL_UNCLEAR"
      [] order.status = "filled" -> "FILLED_DURING_CANCEL"
      [] order.status \in {"canceled", "rejected"} ->
            IF order.filled > 0 THEN "PARTIALLY_FILLED_DURING_CANCEL" ELSE "CANCELED"

(***************************************************************************)
(* What the next generation may close: the fresh exposure already knows    *)
(* the attempt's earlier fills, its unfilled part bounds it from above.    *)
(***************************************************************************)
remainingCloseExposure(exposure, order) ==
    Least(exposure, IF order.filled < order.quantity THEN order.quantity - order.filled ELSE 0)

-----------------------------------------------------------------------------
(***************************************************************************)
(* Eligibility: every leg offsets a held position of the opposite sign by  *)
(* at most its size.  The same test tells risk-reducing working orders.    *)
(***************************************************************************)
emergencyCloseEligibility(held, legs, quantity) ==
    /\ \E c \in DOMAIN legs : legs[c] # 0
    /\ \A c \in DOMAIN legs : legs[c] # 0 =>
          /\ held[c] * legs[c] < 0
          /\ Size(legs[c]) * quantity \in 1..Size(held[c])

riskReducing(order, held) ==
    emergencyCloseEligibility(held, order.legs, order.quantity - order.filled)

-----------------------------------------------------------------------------
(***************************************************************************)
(* The journaled filled structures, a sequence of records [id, legs,       *)
(* filled], are taken off the book one after the other, each only when     *)
(* what is left still holds all of its legs.                               *)
(***************************************************************************)
Covered(remaining, record) ==
    /\ record.filled > 0
    /\ \A c \in DOMAIN remaining :
          LET needed == record.legs[c] * record.filled
          IN  IF record.legs[c] >= 0 THEN needed = 0 \/ remaining[c] >= needed
              ELSE remaining[c] <= needed

subtractIntact(held, lifecycles) ==
    FoldLeft(LAMBDA acc, r :
                IF Covered(acc.remaining, r)
                THEN [intact |-> acc.intact \cup {r},
                      remaining |-> [c \in DOMAIN held |->
                                        acc.remaining[c] - r.legs[c] * r.filled]]
                ELSE acc,
             [intact |-> {}, remaining |-> held], lifecycles)

\* planBookClosure, and the same book as planKillManagement sees it.
planBookClosure(held, lifecycles) ==
    LET split == subtractIntact(held, lifecycles)
    IN  [intact  |-> {r.id : r \in split.intact},
         residue |-> [c \in {c \in DOMAIN held : split.remaining[c] # 0} |-> split.remaining[c]]]

evictionTargets(held, lifecycles, expiring) ==
    planBookClosure(held, lifecycles).intact \cap expiring

=============================================================================
