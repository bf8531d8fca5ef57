---------------------------- MODULE FillEvidence ----------------------------
(***************************************************************************)
(* What a journal says of one entry order (src/src/core/execution.ts), read*)
(* twice: by the fold that rebuilds the lifecycle for the cycle, and by the*)
(* count of unresolved entries that the certificates rest on.  Both judge  *)
(* cumulative fill evidence: a quantity, an average in cents, and the raw  *)
(* decimal the broker reported, here in units of 1/PriceScale cent.        *)
(***************************************************************************)
EXTENDS Integers

CONSTANTS Quantity,    \* lots of the entry
          LimitPrice,  \* its submitted limit, in cents
          LotPrices,   \* what a lot may be filled at, in cents
          PriceScale,  \* raw price units per cent
          RawPrices,   \* raw averages an arbitrary line may carry
          BrokerIds,   \* broker order ids
          MaxLines,    \* bound: lines of one journal
          NoAudit      \* no journal is being read

None == -1             \* the code's null, for prices and for the broker id

ASSUME EvidenceAssumption ==
    /\ Quantity \in Nat \ {0} /\ LimitPrice \in Nat /\ LotPrices \subseteq Nat /\ PriceScale \in Nat \ {0}
    /\ RawPrices \subseteq Nat /\ None \notin BrokerIds

VARIABLE audit         \* the two readers' states, and the broker's fills

(***************************************************************************)
(* Prices.                                                                 *)
(***************************************************************************)
Worse(kind, a, b) == IF kind = "debit" THEN a > b ELSE a < b
RoundedCents(raw) == (2 * raw + PriceScale) \div (2 * PriceScale)
exactRawRoundsToCents(raw, cents) == RoundedCents(raw) = cents
classifyBrokerFillPrice(kind, price, raw) ==
    CASE price = None \/ raw = None -> "UNJUDGED"
      [] price # None /\ raw # None /\ ~exactRawRoundsToCents(raw, price) -> "UNJUDGED"
      [] OTHER -> IF raw = LimitPrice * PriceScale THEN "AT_LIMIT"
                  ELSE IF Worse(kind, raw, LimitPrice * PriceScale) THEN "BROKER_PRICE_BREACH"
                  ELSE "PRICE_IMPROVED"

(***************************************************************************)
(* The lines about an entry.  INTENT lines carry the quantity; an OUTCOME  *)
(* a status and evidence; a RECONCILIATION item a classification and, when *)
(* it reports a working order, evidence.                                   *)
(***************************************************************************)
OutcomeStatus == {"filled", "partially_filled", "rejected", "canceled", "expired", "confirmation_unclear"}
Line(kind, filled, raw, id, flagged) ==
    [kind |-> kind, filled |-> filled, raw |-> raw, brokerOrderId |-> id, flagged |-> flagged,
     price |-> IF raw = None THEN None ELSE RoundedCents(raw)]

Sound(line) == (line.price = None) = (line.raw = None)
outcomeEvidence(line) ==
    /\ line.kind \in OutcomeStatus
    /\ Sound(line)
    /\ CASE line.kind \in {"filled", "partially_filled"} ->
                line.filled >= 1 /\ line.price # None /\ line.brokerOrderId # None
         [] line.kind \in {"canceled", "expired"} ->
                line.filled = 0 /\ line.price = None /\ line.brokerOrderId # None
         [] line.kind \in {"rejected", "confirmation_unclear"} -> line.filled = 0 /\ line.price = None
workingEvidence(line) ==
    /\ Sound(line)
    /\ line.brokerOrderId # None
    /\ (line.filled = 0) = (line.price = None)

(***************************************************************************)
(* Cumulative evidence.  A rounded average bounds the total within half a  *)
(* cent per lot, so totals are kept doubled; the raw decimals are exact.   *)
(***************************************************************************)
roundedFillTotalLower(filled, price) ==
    IF filled = 0 \/ price = 0 THEN 0 ELSE filled * (2 * price - 1)
roundedFillTotalUpper(filled, price) == filled * (2 * price + 1)

nextFillTotalLowerBound(seen, next) ==
    CASE next.filled < seen.filled -> None
      [] next.filled = 0 /\ seen.filled = 0 -> seen.lower
      [] next.filled >= seen.filled /\ next.filled > 0 ->
            IF next.price = None \/ (seen.filled > 0 /\ seen.price = None) THEN None
            ELSE IF next.filled = seen.filled
            THEN (IF next.price = seen.price THEN seen.lower ELSE None)
            ELSE IF roundedFillTotalUpper(next.filled, next.price) <= seen.lower THEN None
            ELSE LET lower == roundedFillTotalLower(next.filled, next.price)
                 IN  IF lower > seen.lower THEN lower ELSE seen.lower

exactFillEvidenceRegressed(seen, next) ==
    /\ seen.filled > 0 /\ seen.raw # None
    /\ \/ next.raw = None
       \/ IF next.filled = seen.filled THEN next.raw # seen.raw
          ELSE next.filled * next.raw < seen.filled * seen.raw
Regressed(seen, next) ==
    nextFillTotalLowerBound(seen, next) = None \/ exactFillEvidenceRegressed(seen, next)

\* Mutant: the average is compared with the limit, not what was added to it.
entryFillTransitionBreachesLimit_average(kind, seen, next) ==
    next.filled > seen.filled /\ next.price # None
        /\ classifyBrokerFillPrice(kind, next.price, next.raw) = "BROKER_PRICE_BREACH"

entryFillTransitionBreachesLimit(kind, seen, next) ==
    /\ next.filled > seen.filled /\ next.price # None
    /\ IF seen.filled = 0 \/ seen.price = None
       THEN classifyBrokerFillPrice(kind, next.price, next.raw) = "BROKER_PRICE_BREACH"
       ELSE Worse(kind, next.filled * next.raw - seen.filled * seen.raw,
                  (next.filled - seen.filled) * LimitPrice * PriceScale)

(***************************************************************************)
(* The lifecycle fold.  A line it cannot apply fails the whole fold.       *)
(***************************************************************************)
NoEvidence == [filled |-> 0, price |-> None, raw |-> None, lower |-> 0, brokerOrderId |-> None]
Absent == [ok |-> TRUE, state |-> "none", seen |-> NoEvidence, priceBreach |-> FALSE]
Failed == [Absent EXCEPT !.ok = FALSE]
isTerminalEntryState(state) == state \in {"filled", "rejected", "canceled", "expired"}
IdentityKept(seen, line) == seen.brokerOrderId \in {None, line.brokerOrderId}

applyOutcomeToEntry(kind, rec, line) ==
    IF \/ ~outcomeEvidence(line)
       \/ line.filled > Quantity \/ Regressed(rec.seen, line)
       \/ line.kind = "filled" /\ line.filled # Quantity
       \/ line.kind = "partially_filled" /\ line.filled >= Quantity
    THEN Failed
    ELSE [ok |-> TRUE, state |-> IF line.kind = "partially_filled" THEN "filled" ELSE line.kind,
          seen |-> [filled |-> line.filled, price |-> line.price, raw |-> line.raw,
                    lower |-> nextFillTotalLowerBound(rec.seen, line),
                    brokerOrderId |-> line.brokerOrderId],
          priceBreach |-> rec.priceBreach \/ line.flagged
                            \/ entryFillTransitionBreachesLimit(kind, rec.seen, line)]

\* What is kept of an item about a working order.
WorkingSeen(seen, line) ==
    [filled |-> line.filled,
     price |-> IF line.price = None THEN seen.price ELSE line.price,
     raw |-> IF line.raw = None THEN seen.raw ELSE line.raw,
     lower |-> nextFillTotalLowerBound(seen, line), brokerOrderId |-> line.brokerOrderId]

applyWorking(kind, rec, line) ==
    IF \/ isTerminalEntryState(rec.state) \/ ~workingEvidence(line)
       \/ line.filled > Quantity \/ Regressed(rec.seen, line) \/ ~IdentityKept(rec.seen, line)
       \/ line.kind = "ACKNOWLEDGED_WORKING" /\ rec.state \notin {"intent", "fillable"}
    THEN Failed
    ELSE [ok |-> TRUE,
          state |-> IF line.kind = "ACKNOWLEDGED_WORKING" \/ rec.state = "fillable"
                    THEN "fillable" ELSE "confirmation_unclear",
          seen |-> WorkingSeen(rec.seen, line),
          priceBreach |-> rec.priceBreach \/ entryFillTransitionBreachesLimit(kind, rec.seen, line)]

foldLifecycles(kind, rec, line) ==
    CASE ~rec.ok -> rec
      [] rec.ok /\ line.kind = "INTENT" ->
            IF rec.state # "none" THEN Failed ELSE [rec EXCEPT !.state = "intent"]
      [] rec.ok /\ line.kind # "INTENT" /\ rec.state = "none" -> Failed
      [] rec.ok /\ rec.state # "none" /\ line.kind \in OutcomeStatus ->
            IF \/ isTerminalEntryState(rec.state)
               \/ rec.state = "fillable" /\ line.kind = "confirmation_unclear"
               \/ ~IdentityKept(rec.seen, line)
            THEN Failed ELSE applyOutcomeToEntry(kind, rec, line)
      [] rec.ok /\ rec.state # "none" /\ line.kind \in {"ACKNOWLEDGED_WORKING", "MATCHED_WORKING"} ->
            applyWorking(kind, rec, line)
      [] rec.ok /\ rec.state # "none" /\ line.kind = "NOT_AT_BROKER" ->
            IF rec.state \notin {"intent", "confirmation_unclear"} THEN Failed
            ELSE [rec EXCEPT !.state = "confirmation_unclear"]
      [] rec.ok /\ rec.state # "none" /\ line.kind = "REVALIDATION_VOID" ->
            IF rec.state # "intent" THEN Failed ELSE [rec EXCEPT !.state = "canceled"]

(***************************************************************************)
(* The count of unresolved entries keeps going where the fold fails: what  *)
(* it cannot apply makes the entry invalid, and invalid stays unresolved.  *)
(***************************************************************************)
Unknown == [known |-> FALSE, terminal |-> FALSE, uncertain |-> TRUE, acknowledged |-> FALSE,
            invalid |-> TRUE, quantity |-> None, seen |-> NoEvidence]
FreshEntry == [Unknown EXCEPT !.known = TRUE, !.uncertain = FALSE, !.invalid = FALSE, !.quantity = Quantity]

Merged(seen, line) ==
    [filled |-> line.filled, price |-> line.price,
     raw |-> IF line.raw = None THEN seen.raw ELSE line.raw,
     lower |-> IF nextFillTotalLowerBound(seen, line) = None THEN seen.lower
               ELSE nextFillTotalLowerBound(seen, line),
     brokerOrderId |-> IF seen.brokerOrderId = None THEN line.brokerOrderId ELSE seen.brokerOrderId]
Contradicts(s, line) ==
    \/ s.quantity # None /\ line.filled > s.quantity
    \/ Regressed(s.seen, line)

terminalityOfOutcome(s, line) ==
    LET invalid == \/ s.invalid \/ s.terminal \/ ~IdentityKept(s.seen, line) \/ Contradicts(s, line)
        misfit == \/ s.quantity = None
                  \/ line.kind = "filled" /\ line.filled # s.quantity
                  \/ line.kind = "partially_filled" /\ line.filled >= s.quantity
    IN  IF ~outcomeEvidence(line) THEN [s EXCEPT !.terminal = FALSE, !.invalid = TRUE]
        ELSE IF line.kind = "confirmation_unclear"
        THEN [s EXCEPT !.terminal = FALSE, !.uncertain = TRUE, !.invalid = invalid,
                       !.seen = Merged(s.seen, line)]
        ELSE [s EXCEPT !.terminal = ~(invalid \/ misfit), !.invalid = invalid \/ misfit,
                       !.seen = Merged(s.seen, line)]

terminalityOfWorking(s, line) ==
    LET valid == workingEvidence(line)
        changed == /\ valid /\ s.seen.brokerOrderId # None
                   /\ line.brokerOrderId # s.seen.brokerOrderId
        seen == IF ~valid THEN s.seen
                ELSE [WorkingSeen(s.seen, line) EXCEPT
                        !.lower = Merged(s.seen, line).lower,
                        !.brokerOrderId = Merged(s.seen, line).brokerOrderId]
    IN  [s EXCEPT !.terminal = FALSE,
                  !.acknowledged = @ \/ line.kind = "ACKNOWLEDGED_WORKING",
                  !.uncertain = @ \/ (line.kind = "MATCHED_WORKING" /\ ~s.acknowledged),
                  !.invalid = \/ @ \/ s.terminal \/ ~valid \/ changed
                              \/ valid /\ Contradicts(s, line)
                              \/ line.kind = "ACKNOWLEDGED_WORKING" /\ s.uncertain,
                  !.seen = seen]

\* Mutant: an order the broker does not know is settled.
terminalityOfAbsence_settles(s) == [s EXCEPT !.known = TRUE, !.terminal = ~s.invalid]

terminalityOfAbsence(s) ==
    [s EXCEPT !.known = TRUE, !.terminal = FALSE, !.uncertain = TRUE, !.invalid = @ \/ s.terminal]

terminalityOfVoid(s) ==
    LET doubt == s.invalid \/ s.uncertain \/ s.acknowledged
    IN  [s EXCEPT !.known = TRUE, !.terminal = ~doubt, !.invalid = doubt \/ s.terminal]

terminality(s, line) ==
    CASE line.kind = "INTENT" ->
            IF s.known THEN [FreshEntry EXCEPT !.uncertain = TRUE, !.invalid = TRUE,
                                !.seen = [s.seen EXCEPT !.brokerOrderId = None]]
            ELSE FreshEntry
      [] line.kind \in OutcomeStatus -> terminalityOfOutcome([s EXCEPT !.known = TRUE], line)
      [] line.kind \in {"ACKNOWLEDGED_WORKING", "MATCHED_WORKING"} ->
            terminalityOfWorking([s EXCEPT !.known = TRUE], line)
      [] line.kind = "NOT_AT_BROKER" -> terminalityOfAbsence(s)
      [] line.kind = "REVALIDATION_VOID" -> terminalityOfVoid(s)

unresolvedEntryLifecycleIds(s) == s.known /\ (s.invalid \/ ~s.terminal)

(***************************************************************************)
(* Two sources of lines: anything at all, and a broker that fills lot by   *)
(* lot and reports what it did, read at any moment.                        *)
(***************************************************************************)
Read(a, line) ==
    [a EXCEPT !.fold = foldLifecycles(a.limitKind, a.fold, line),
              !.unresolved = terminality(a.unresolved, line)]
\* Lots, and what they were filled for together.
NoLots == [lots |-> 0, cents |-> 0]
EvidenceInit ==
    \E kind \in {"debit", "credit"}, honest \in BOOLEAN :
        audit = [limitKind |-> kind, honest |-> honest, fold |-> Absent, unresolved |-> Unknown,
                 booked |-> NoLots, reported |-> NoLots, worse |-> FALSE, ended |-> FALSE, lines |-> 0]

Lines ==
    {Line("INTENT", 0, None, None, FALSE)}
      \cup {Line(k, 0, None, None, FALSE) : k \in {"NOT_AT_BROKER", "REVALIDATION_VOID"}}
      \cup {Line(k, f, r, b, FALSE) :
                k \in OutcomeStatus \cup {"ACKNOWLEDGED_WORKING", "MATCHED_WORKING"},
                f \in 0..(Quantity + 1), r \in RawPrices \cup {None}, b \in BrokerIds \cup {None}}
AnyLine ==
    /\ audit # NoAudit /\ ~audit.honest /\ audit.fold.ok /\ audit.lines < MaxLines
    /\ \E line \in Lines : audit' = [Read(audit, line) EXCEPT !.lines = @ + 1]

\* The honest broker.
AverageRaw == IF audit.booked.lots = 0 THEN None ELSE (audit.booked.cents * PriceScale) \div audit.booked.lots
HonestIntent ==
    /\ audit # NoAudit /\ audit.honest /\ audit.fold.state = "none"
    /\ audit' = Read(audit, Line("INTENT", 0, None, None, FALSE))
LotFilled ==
    /\ audit # NoAudit /\ audit.honest /\ audit.fold.state # "none" /\ ~audit.ended
    /\ audit.booked.lots < Quantity
    /\ \E price \in LotPrices : audit' = [audit EXCEPT !.booked.lots = @ + 1, !.booked.cents = @ + price]
\* What was filled since the last report, judged by the prices the lots really had.
ReallyWorse ==
    /\ audit.booked.lots > audit.reported.lots
    /\ Worse(audit.limitKind, audit.booked.cents - audit.reported.cents,
             (audit.booked.lots - audit.reported.lots) * LimitPrice)
Reported(line) == [Read(audit, line) EXCEPT !.reported = audit.booked, !.worse = @ \/ ReallyWorse]
WorkingReport ==
    /\ audit # NoAudit /\ audit.honest /\ audit.fold.state # "none" /\ ~audit.ended
    /\ \E kind \in {"MATCHED_WORKING", "ACKNOWLEDGED_WORKING"}, id \in BrokerIds :
        /\ kind = "ACKNOWLEDGED_WORKING" => audit.fold.state \in {"intent", "fillable"}
        /\ audit.fold.seen.brokerOrderId \in {None, id}
        /\ audit' = Reported(Line(kind, audit.booked.lots, AverageRaw, id, FALSE))
\* A terminal record: a partial fill that ended reports what it reached.
TerminalReport ==
    /\ audit # NoAudit /\ audit.honest /\ audit.fold.state # "none" /\ ~audit.ended
    /\ \E id \in BrokerIds :
        /\ audit.fold.seen.brokerOrderId \in {None, id}
        /\ LET n == audit.booked.lots
               price == IF n = 0 THEN None ELSE RoundedCents(AverageRaw)
               status == IF n = Quantity THEN "filled" ELSE IF n > 0 THEN "partially_filled" ELSE "canceled"
               breach == classifyBrokerFillPrice(audit.limitKind, price, AverageRaw) = "BROKER_PRICE_BREACH"
           IN  audit' = [Reported(Line(status, n, AverageRaw, id, breach)) EXCEPT !.ended = TRUE]

EvidenceNext == AnyLine \/ HonestIntent \/ LotFilled \/ WorkingReport \/ TerminalReport

(***************************************************************************)
(* Properties                                                              *)
(***************************************************************************)
\* Whatever lines a journal holds, an entry the cycle's fold can rebuild is unresolved for
\* the certificates exactly when the fold has no terminal state for it: the two readers,
\* written apart, never disagree about an order that may still fill.
ReadersAgree ==
    (audit # NoAudit /\ audit.fold.ok /\ audit.fold.state # "none") =>
        (unresolvedEntryLifecycleIds(audit.unresolved) = ~isTerminalEntryState(audit.fold.state))

\* A broker that reports what it filled is believed, whenever it is read, and a breach of
\* the limit is recorded exactly when what it filled between two readings was worse than
\* the limit, even if the average of the whole order was not.
EvidenceIsJudged ==
    (audit # NoAudit /\ audit.honest) =>
        audit.fold.ok /\ (audit.fold.priceBreach = audit.worse)
=============================================================================
