---------------------------- MODULE RuleProofs ----------------------------
(***************************************************************************)
(* What the rules around the book are worth for every value of their       *)
(* constants: the readers of the journal's fill evidence, the reads of the *)
(* broker, the first cycles of an account, the launch of the analyst and   *)
(* the timers of a day.                                                    *)
(***************************************************************************)
EXTENDS FillEvidence, BrokerReads, Provenance, AnalystLaunch, ArmedTimers, FiniteSetTheorems,
        WellFoundedInduction, TLAPS
(***************************************************************************)
(* The readers of fill evidence (FillEvidence).  As long as the fold can   *)
(* apply what it reads, the count of unresolved entries holds the same     *)
(* evidence, has nothing to call invalid, and has heard of the broker what *)
(* the fold's state says it has.                                           *)
(***************************************************************************)
Evidence ==
    [filled : Nat, price : Int, raw : Int, lower : Int, brokerOrderId : BrokerIds \cup {None}]
Reports ==
    [kind : OutcomeStatus \cup {"INTENT", "ACKNOWLEDGED_WORKING", "MATCHED_WORKING", "NOT_AT_BROKER", "REVALIDATION_VOID"},
     filled : Nat, raw : Int, brokerOrderId : BrokerIds \cup {None}, flagged : BOOLEAN, price : Int]
EntryStates == {"none", "intent", "fillable", "confirmation_unclear", "filled", "rejected", "canceled", "expired"}
Folds == [ok : BOOLEAN, state : EntryStates, seen : Evidence, priceBreach : BOOLEAN]
Counts ==
    [known : BOOLEAN, terminal : BOOLEAN, uncertain : BOOLEAN, acknowledged : BOOLEAN, invalid : BOOLEAN,
     quantity : {None, Quantity}, seen : Evidence]

\* Evidence of no fill has no price.
Priceless(seen) == seen.filled = 0 => seen.raw = None
SameStory(fold, s) ==
    /\ s.known /\ ~s.invalid /\ s.quantity = Quantity /\ s.seen = fold.seen /\ Priceless(fold.seen)
    /\ s.terminal <=> isTerminalEntryState(fold.state)
    /\ fold.state = "intent" => ~s.uncertain /\ ~s.acknowledged
    /\ fold.state = "fillable" => ~s.uncertain /\ s.acknowledged
Agreeing(fold, s) ==
    fold.ok =>
        /\ fold \in Folds /\ s \in Counts
        /\ fold.state = "none" => fold.seen = NoEvidence /\ s = Unknown
        /\ fold.state # "none" => SameStory(fold, s)

LEMMA EvidenceStarts ==
    NoEvidence \in Evidence /\ Absent \in Folds /\ Failed \in Folds /\ ~Failed.ok /\ Unknown \in Counts
        /\ FreshEntry \in Counts /\ Agreeing(Absent, Unknown)
<1>1. NoEvidence \in Evidence
  BY DEF NoEvidence, Evidence, None
<1>2. Absent \in Folds /\ Absent.state = "none" /\ Absent.seen = NoEvidence
  BY <1>1 DEF Absent, Folds, EntryStates
<1>3. Failed \in Folds /\ ~Failed.ok
  BY <1>2 DEF Failed, Folds
<1>4. Unknown \in Counts
  BY <1>1 DEF Unknown, Counts
<1>5. FreshEntry \in Counts
  BY <1>4 DEF FreshEntry, Counts
<1>. QED
  BY <1>1, <1>2, <1>3, <1>4, <1>5 DEF Agreeing

LEMMA LowerIsKnown ==
    ASSUME NEW seen \in Evidence, NEW line \in Reports
    PROVE  nextFillTotalLowerBound(seen, line) \in Int
<1>1. /\ seen.filled \in Nat /\ seen.price \in Int /\ seen.lower \in Int
      /\ line.filled \in Nat /\ line.price \in Int /\ None \in Int
  BY DEF Evidence, Reports, None
<1>2. roundedFillTotalLower(line.filled, line.price) \in Int
  <2>1. \A n \in Nat, p \in Int : n * (2 * p - 1) \in Int
    OBVIOUS
  <2>2. line.filled * (2 * line.price - 1) \in Int
    BY <1>1, <2>1
  <2>. QED
    BY <2>2 DEF roundedFillTotalLower

<1>. QED
  BY <1>1, <1>2 DEF nextFillTotalLowerBound

\* What the count keeps of a line that neither regresses nor changes the order's identity is
\* what the fold keeps of it.
LEMMA MergedIsRead ==
    ASSUME NEW seen \in Evidence, NEW line \in Reports,
           Priceless(seen), ~Regressed(seen, line), IdentityKept(seen, line)
    PROVE  /\ Merged(seen, line) = [filled |-> line.filled, price |-> line.price, raw |-> line.raw,
                                    lower |-> nextFillTotalLowerBound(seen, line), brokerOrderId |-> line.brokerOrderId]
           /\ Merged(seen, line) \in Evidence
<1>1. /\ seen.filled \in Nat /\ seen.raw \in Int /\ line.filled \in Nat /\ line.raw \in Int /\ line.price \in Int
      /\ seen.brokerOrderId \in BrokerIds \cup {None} /\ line.brokerOrderId \in BrokerIds \cup {None}
  BY DEF Evidence, Reports
<1>2. nextFillTotalLowerBound(seen, line) # None /\ ~exactFillEvidenceRegressed(seen, line)
  BY DEF Regressed
<1>3. nextFillTotalLowerBound(seen, line) \in Int
  BY LowerIsKnown
<1>4. line.raw = None => seen.raw = None
  BY <1>1, <1>2 DEF exactFillEvidenceRegressed, Priceless
<1>5. seen.brokerOrderId # None => seen.brokerOrderId = line.brokerOrderId
  BY DEF IdentityKept
<1>. DEFINE raw == IF line.raw = None THEN seen.raw ELSE line.raw
            lower == IF nextFillTotalLowerBound(seen, line) = None THEN seen.lower
                     ELSE nextFillTotalLowerBound(seen, line)
            id == IF seen.brokerOrderId = None THEN line.brokerOrderId ELSE seen.brokerOrderId
<1>6. raw = line.raw /\ lower = nextFillTotalLowerBound(seen, line) /\ id = line.brokerOrderId
  BY <1>2, <1>4, <1>5
<1>7. Merged(seen, line) = [filled |-> line.filled, price |-> line.price, raw |-> raw, lower |-> lower,
                            brokerOrderId |-> id]
  BY DEF Merged
<1>. HIDE DEF raw, lower, id
<1>. QED
  BY <1>1, <1>3, <1>6, <1>7 DEF Evidence

LEMMA OutcomeApplied ==
    ASSUME NEW kind, NEW fold \in Folds, NEW line \in Reports, applyOutcomeToEntry(kind, fold, line).ok,
           Priceless(fold.seen), IdentityKept(fold.seen, line), line.kind \in OutcomeStatus
    PROVE  /\ applyOutcomeToEntry(kind, fold, line) \in Folds
           /\ applyOutcomeToEntry(kind, fold, line).state
                = IF line.kind = "partially_filled" THEN "filled" ELSE line.kind
           /\ applyOutcomeToEntry(kind, fold, line).seen = Merged(fold.seen, line)
           /\ applyOutcomeToEntry(kind, fold, line).priceBreach
                <=> (fold.priceBreach \/ line.flagged \/ entryFillTransitionBreachesLimit(kind, fold.seen, line))
           /\ outcomeEvidence(line) /\ ~(line.filled > Quantity) /\ ~Regressed(fold.seen, line)
           /\ ~(line.kind = "filled" /\ line.filled # Quantity)
           /\ ~(line.kind = "partially_filled" /\ line.filled >= Quantity)
<1>. DEFINE bad == \/ ~outcomeEvidence(line)
                   \/ line.filled > Quantity \/ Regressed(fold.seen, line)
                   \/ line.kind = "filled" /\ line.filled # Quantity
                   \/ line.kind = "partially_filled" /\ line.filled >= Quantity
            breach == fold.priceBreach \/ line.flagged \/ entryFillTransitionBreachesLimit(kind, fold.seen, line)
            state == IF line.kind = "partially_filled" THEN "filled" ELSE line.kind
            seen == [filled |-> line.filled, price |-> line.price, raw |-> line.raw,
                     lower |-> nextFillTotalLowerBound(fold.seen, line), brokerOrderId |-> line.brokerOrderId]
            new == applyOutcomeToEntry(kind, fold, line)
<1>1. new = IF bad THEN Failed ELSE [ok |-> TRUE, state |-> state, seen |-> seen, priceBreach |-> breach]
  BY Zenon DEF applyOutcomeToEntry
<1>2. ~bad
  <2>1. SUFFICES ASSUME bad PROVE FALSE
    OBVIOUS
  <2>2. new = Failed
    BY <1>1, <2>1, Zenon
  <2>. QED
    BY <2>2, EvidenceStarts
<1>3. outcomeEvidence(line) /\ ~(line.filled > Quantity) /\ ~Regressed(fold.seen, line)
      /\ ~(line.kind = "filled" /\ line.filled # Quantity)
      /\ ~(line.kind = "partially_filled" /\ line.filled >= Quantity)
  BY <1>2
<1>4. Merged(fold.seen, line) = seen /\ seen \in Evidence
  <2>1. fold.seen \in Evidence
    BY DEF Folds
  <2>. QED
    BY <1>3, <2>1, MergedIsRead
<1>5. breach \in BOOLEAN
  BY Zenon
<1>6. state \in EntryStates
  BY DEF EntryStates, OutcomeStatus
<1>7. new = [ok |-> TRUE, state |-> state, seen |-> seen, priceBreach |-> breach]
  BY <1>1, <1>2, Zenon
<1>. HIDE DEF new, seen, state, breach, bad
<1>8. new \in Folds /\ new.state = state /\ new.seen = seen /\ new.priceBreach = breach
  BY <1>4, <1>5, <1>6, <1>7 DEF Folds
<1>. QED
  BY <1>3, <1>4, <1>8 DEF new, breach, state

LEMMA WorkingApplied ==
    ASSUME NEW kind, NEW fold \in Folds, NEW line \in Reports, applyWorking(kind, fold, line).ok,
           Priceless(fold.seen)
    PROVE  /\ applyWorking(kind, fold, line) \in Folds
           /\ applyWorking(kind, fold, line).state
                = IF line.kind = "ACKNOWLEDGED_WORKING" \/ fold.state = "fillable"
                  THEN "fillable" ELSE "confirmation_unclear"
           /\ applyWorking(kind, fold, line).seen = WorkingSeen(fold.seen, line)
           /\ WorkingSeen(fold.seen, line) \in Evidence /\ Priceless(WorkingSeen(fold.seen, line))
           /\ applyWorking(kind, fold, line).priceBreach
                <=> (fold.priceBreach \/ entryFillTransitionBreachesLimit(kind, fold.seen, line))
           /\ ~isTerminalEntryState(fold.state) /\ workingEvidence(line)
           /\ ~(line.filled > Quantity) /\ ~Regressed(fold.seen, line) /\ IdentityKept(fold.seen, line)
           /\ ~(line.kind = "ACKNOWLEDGED_WORKING" /\ fold.state \notin {"intent", "fillable"})
<1>. DEFINE bad == \/ isTerminalEntryState(fold.state) \/ ~workingEvidence(line)
                   \/ line.filled > Quantity \/ Regressed(fold.seen, line) \/ ~IdentityKept(fold.seen, line)
                   \/ line.kind = "ACKNOWLEDGED_WORKING" /\ fold.state \notin {"intent", "fillable"}
            breach == fold.priceBreach \/ entryFillTransitionBreachesLimit(kind, fold.seen, line)
            state == IF line.kind = "ACKNOWLEDGED_WORKING" \/ fold.state = "fillable"
                     THEN "fillable" ELSE "confirmation_unclear"
            seen == WorkingSeen(fold.seen, line)
            new == applyWorking(kind, fold, line)
<1>1. new = IF bad THEN Failed ELSE [ok |-> TRUE, state |-> state, seen |-> seen, priceBreach |-> breach]
  BY Zenon DEF applyWorking
<1>2. ~bad
  <2>1. SUFFICES ASSUME bad PROVE FALSE
    OBVIOUS
  <2>2. new = Failed
    BY <1>1, <2>1, Zenon
  <2>. QED
    BY <2>2, EvidenceStarts
<1>3. /\ ~isTerminalEntryState(fold.state) /\ workingEvidence(line)
      /\ ~(line.filled > Quantity) /\ ~Regressed(fold.seen, line) /\ IdentityKept(fold.seen, line)
      /\ ~(line.kind = "ACKNOWLEDGED_WORKING" /\ fold.state \notin {"intent", "fillable"})
  BY <1>2
<1>4. fold.seen \in Evidence
  BY DEF Folds
<1>5. seen \in Evidence /\ Priceless(seen)
  <2>1. /\ fold.seen.price \in Int /\ fold.seen.raw \in Int /\ fold.seen.filled \in Nat
        /\ line.price \in Int /\ line.raw \in Int /\ line.filled \in Nat /\ line.brokerOrderId \in BrokerIds \cup {None}
    BY <1>4 DEF Evidence, Reports
  <2>2. nextFillTotalLowerBound(fold.seen, line) \in Int
    BY <1>4, LowerIsKnown
  <2>3. seen \in Evidence
    <3>. DEFINE price == IF line.price = None THEN fold.seen.price ELSE line.price
                raw == IF line.raw = None THEN fold.seen.raw ELSE line.raw
    <3>1. seen = [filled |-> line.filled, price |-> price, raw |-> raw,
                  lower |-> nextFillTotalLowerBound(fold.seen, line), brokerOrderId |-> line.brokerOrderId]
      BY DEF WorkingSeen
    <3>2. price \in Int /\ raw \in Int
      BY <2>1
    <3>. HIDE DEF price, raw, seen
    <3>. QED
      BY <2>1, <2>2, <3>1, <3>2 DEF Evidence
  <2>4. nextFillTotalLowerBound(fold.seen, line) # None
    BY <1>3 DEF Regressed
  <2>5. ~(line.filled < fold.seen.filled)
    BY <2>1, <2>4 DEF nextFillTotalLowerBound
  <2>6. seen.filled = 0 => seen.raw = None
    <3>1. seen.filled = line.filled /\ seen.raw = IF line.raw = None THEN fold.seen.raw ELSE line.raw
      BY DEF WorkingSeen
    <3>2. line.filled = 0 => line.raw = None /\ fold.seen.filled = 0
      BY <1>3, <2>1, <2>5 DEF workingEvidence, Sound
    <3>. HIDE DEF seen
    <3>. QED
      BY <3>1, <3>2 DEF Priceless
  <2>. QED
    BY <2>3, <2>6 DEF Priceless
<1>6. breach \in BOOLEAN
  BY Zenon
<1>7. state \in EntryStates
  BY DEF EntryStates
<1>8. new = [ok |-> TRUE, state |-> state, seen |-> seen, priceBreach |-> breach]
  BY <1>1, <1>2, Zenon
<1>. HIDE DEF new, seen, state, breach, bad
<1>9. new \in Folds /\ new.state = state /\ new.seen = seen /\ new.priceBreach = breach
  BY <1>5, <1>6, <1>7, <1>8 DEF Folds
<1>. QED
  BY <1>3, <1>5, <1>9 DEF new, breach, state, seen

LEMMA WorkingAgrees ==
    ASSUME NEW kind, NEW fold \in Folds, NEW s \in Counts, NEW line \in Reports, fold.ok, fold.state # "none",
           SameStory(fold, s), line.kind \in {"ACKNOWLEDGED_WORKING", "MATCHED_WORKING"},
           applyWorking(kind, fold, line).ok
    PROVE  Agreeing(applyWorking(kind, fold, line), terminalityOfWorking(s, line))
<1>. DEFINE new == applyWorking(kind, fold, line)
            count == terminalityOfWorking(s, line)
            valid == workingEvidence(line)
            changed == valid /\ s.seen.brokerOrderId # None /\ line.brokerOrderId # s.seen.brokerOrderId
            merged == [WorkingSeen(s.seen, line) EXCEPT
                          !.lower = Merged(s.seen, line).lower, !.brokerOrderId = Merged(s.seen, line).brokerOrderId]
            acknowledged == s.acknowledged \/ line.kind = "ACKNOWLEDGED_WORKING"
            uncertain == s.uncertain \/ (line.kind = "MATCHED_WORKING" /\ ~s.acknowledged)
            invalid == \/ s.invalid \/ s.terminal \/ ~valid \/ changed \/ (valid /\ Contradicts(s, line))
                       \/ line.kind = "ACKNOWLEDGED_WORKING" /\ s.uncertain
<1>1. /\ s.known /\ ~s.invalid /\ s.quantity = Quantity /\ s.seen = fold.seen /\ Priceless(fold.seen)
      /\ s.terminal <=> isTerminalEntryState(fold.state)
      /\ fold.state = "intent" => ~s.uncertain /\ ~s.acknowledged
      /\ fold.state = "fillable" => ~s.uncertain /\ s.acknowledged
  BY DEF SameStory
<1>2. /\ new \in Folds
      /\ new.state = IF line.kind = "ACKNOWLEDGED_WORKING" \/ fold.state = "fillable"
                     THEN "fillable" ELSE "confirmation_unclear"
      /\ new.seen = WorkingSeen(fold.seen, line)
      /\ WorkingSeen(fold.seen, line) \in Evidence /\ Priceless(WorkingSeen(fold.seen, line))
      /\ ~isTerminalEntryState(fold.state) /\ valid
      /\ ~(line.filled > Quantity) /\ ~Regressed(fold.seen, line) /\ IdentityKept(fold.seen, line)
      /\ ~(line.kind = "ACKNOWLEDGED_WORKING" /\ fold.state \notin {"intent", "fillable"})
  BY <1>1, WorkingApplied
<1>3. ~changed
  BY <1>1, <1>2 DEF IdentityKept
<1>4. ~Contradicts(s, line)
  BY <1>1, <1>2 DEF Contradicts
<1>5. ~invalid
  BY <1>1, <1>2, <1>3, <1>4
<1>6. count = [s EXCEPT !.terminal = FALSE, !.acknowledged = acknowledged, !.uncertain = uncertain,
                        !.invalid = FALSE, !.seen = merged]
  <2>1. count = [s EXCEPT !.terminal = FALSE, !.acknowledged = @ \/ line.kind = "ACKNOWLEDGED_WORKING",
                          !.uncertain = @ \/ (line.kind = "MATCHED_WORKING" /\ ~s.acknowledged),
                          !.invalid = \/ @ \/ s.terminal \/ ~valid \/ changed \/ (valid /\ Contradicts(s, line))
                                      \/ line.kind = "ACKNOWLEDGED_WORKING" /\ s.uncertain,
                          !.seen = IF ~valid THEN s.seen ELSE merged]
    BY Zenon DEF terminalityOfWorking
  <2>2. invalid = FALSE
    BY <1>5, Zenon
  <2>3. (IF ~valid THEN s.seen ELSE merged) = merged
    BY <1>2, Zenon
  <2>. HIDE DEF merged
  <2>. QED
    BY <2>1, <2>2, <2>3, Zenon
<1>7. acknowledged \in BOOLEAN /\ uncertain \in BOOLEAN
  BY Zenon
<1>8. merged = WorkingSeen(fold.seen, line)
  <2>1. fold.seen \in Evidence
    BY DEF Folds
  <2>2. /\ Merged(fold.seen, line).lower = nextFillTotalLowerBound(fold.seen, line)
        /\ Merged(fold.seen, line).brokerOrderId = line.brokerOrderId
    BY <1>1, <1>2, <2>1, MergedIsRead
  <2>3. /\ WorkingSeen(fold.seen, line).lower = nextFillTotalLowerBound(fold.seen, line)
        /\ WorkingSeen(fold.seen, line).brokerOrderId = line.brokerOrderId
    BY DEF WorkingSeen
  <2>. DEFINE w == WorkingSeen(fold.seen, line)
              l == Merged(fold.seen, line).lower
              i == Merged(fold.seen, line).brokerOrderId
  <2>4. merged = [w EXCEPT !.lower = l, !.brokerOrderId = i]
    BY <1>1
  <2>5. l = w.lower /\ i = w.brokerOrderId /\ w \in Evidence
    BY <1>2, <2>2, <2>3
  <2>. HIDE DEF w, l, i, merged
  <2>6. merged = w
    BY <2>4, <2>5 DEF Evidence
  <2>. QED
    BY <2>6 DEF w
<1>. HIDE DEF new, count, acknowledged, uncertain, merged, invalid, changed, valid
<1>9. merged \in Evidence /\ merged = new.seen
  BY <1>2, <1>8
<1>10. /\ count \in Counts /\ count.known = s.known /\ count.quantity = s.quantity /\ count.terminal = FALSE
       /\ count.acknowledged = acknowledged /\ count.uncertain = uncertain /\ count.invalid = FALSE
       /\ count.seen = merged
  BY <1>6, <1>7, <1>9 DEF Counts
<1>11. new.state \in {"fillable", "confirmation_unclear"}
  BY <1>2
<1>12. new.state = "fillable" => ~uncertain /\ acknowledged
  <2>1. new.state = "fillable" =>
          \/ line.kind = "ACKNOWLEDGED_WORKING" /\ fold.state \in {"intent", "fillable"}
          \/ fold.state = "fillable"
    BY <1>2
  <2>. QED
    BY <1>1, <2>1 DEF uncertain, acknowledged
<1>13. SameStory(new, count)
  BY <1>1, <1>2, <1>9, <1>10, <1>11, <1>12 DEF SameStory, isTerminalEntryState
<1>. QED
  BY <1>2, <1>10, <1>11, <1>13 DEF Agreeing, new, count

LEMMA OutcomeAgrees ==
    ASSUME NEW kind, NEW fold \in Folds, NEW s \in Counts, NEW line \in Reports, fold.ok, fold.state # "none",
           SameStory(fold, s), line.kind \in OutcomeStatus, IdentityKept(fold.seen, line),
           ~isTerminalEntryState(fold.state), applyOutcomeToEntry(kind, fold, line).ok
    PROVE  Agreeing(applyOutcomeToEntry(kind, fold, line), terminalityOfOutcome(s, line))
<1>. DEFINE new == applyOutcomeToEntry(kind, fold, line)
            count == terminalityOfOutcome(s, line)
            invalid == \/ s.invalid \/ s.terminal \/ ~IdentityKept(s.seen, line) \/ Contradicts(s, line)
            misfit == \/ s.quantity = None
                      \/ line.kind = "filled" /\ line.filled # s.quantity
                      \/ line.kind = "partially_filled" /\ line.filled >= s.quantity
            seen == Merged(s.seen, line)
<1>1. /\ s.known /\ ~s.invalid /\ s.quantity = Quantity /\ s.seen = fold.seen /\ Priceless(fold.seen)
      /\ s.terminal <=> isTerminalEntryState(fold.state)
  BY DEF SameStory
<1>2. /\ new \in Folds
      /\ new.state = IF line.kind = "partially_filled" THEN "filled" ELSE line.kind
      /\ new.seen = Merged(fold.seen, line)
      /\ outcomeEvidence(line) /\ ~(line.filled > Quantity) /\ ~Regressed(fold.seen, line)
      /\ ~(line.kind = "filled" /\ line.filled # Quantity)
      /\ ~(line.kind = "partially_filled" /\ line.filled >= Quantity)
  BY <1>1, OutcomeApplied
<1>3. ~invalid
  BY <1>1, <1>2 DEF Contradicts
<1>4. ~misfit
  <2>1. Quantity # None
    BY EvidenceAssumption DEF None
  <2>. QED
    BY <1>1, <1>2, <2>1
<1>5. seen = new.seen /\ seen \in Evidence
  BY <1>1, <1>2 DEF Folds
<1>6. Priceless(new.seen)
  <2>1. fold.seen \in Evidence /\ line.filled \in Nat /\ line.kind \in OutcomeStatus
    BY DEF Folds, Reports
  <2>2. new.seen.filled = line.filled /\ new.seen.raw = line.raw
    BY <1>1, <1>2, <2>1, MergedIsRead
  <2>3. line.filled = 0 => line.price = None /\ line.raw = None
    <3>1. Sound(line) /\ (line.kind \in {"filled", "partially_filled"} => line.filled >= 1)
          /\ (line.kind \in {"canceled", "expired"} => line.price = None)
          /\ (line.kind \in {"rejected", "confirmation_unclear"} => line.price = None)
      BY <1>2 DEF outcomeEvidence
    <3>. QED
      BY <2>1, <3>1 DEF Sound, OutcomeStatus
  <2>. QED
    BY <2>2, <2>3 DEF Priceless
<1>7. CASE line.kind = "confirmation_unclear"
  <2>1. count = [s EXCEPT !.terminal = FALSE, !.uncertain = TRUE, !.invalid = invalid, !.seen = seen]
    BY <1>2, <1>7, Zenon DEF terminalityOfOutcome
  <2>2. invalid = FALSE
    BY <1>3, Zenon
  <2>. HIDE DEF invalid, seen, count
  <2>3. count = [s EXCEPT !.terminal = FALSE, !.uncertain = TRUE, !.invalid = FALSE, !.seen = seen]
    BY <2>1, <2>2, Zenon
  <2>4. /\ count \in Counts /\ count.known = s.known /\ count.quantity = s.quantity /\ count.terminal = FALSE
        /\ count.invalid = FALSE /\ count.seen = seen
    BY <1>5, <2>3 DEF Counts
  <2>5. new.state = "confirmation_unclear"
    BY <1>2, <1>7
  <2>. HIDE DEF new
  <2>6. SameStory(new, count)
    BY <1>1, <1>5, <1>6, <2>4, <2>5 DEF SameStory, isTerminalEntryState
  <2>. QED
    BY <1>2, <2>4, <2>5, <2>6 DEF Agreeing, new, count
<1>8. CASE line.kind # "confirmation_unclear"
  <2>1. count = [s EXCEPT !.terminal = ~(invalid \/ misfit), !.invalid = invalid \/ misfit, !.seen = seen]
    BY <1>2, <1>8, Zenon DEF terminalityOfOutcome
  <2>2. (invalid \/ misfit) = FALSE /\ (~(invalid \/ misfit)) = TRUE
    BY <1>3, <1>4, Zenon
  <2>. HIDE DEF invalid, misfit, seen, count
  <2>3. count = [s EXCEPT !.terminal = TRUE, !.invalid = FALSE, !.seen = seen]
    BY <2>1, <2>2, Zenon
  <2>4. /\ count \in Counts /\ count.known = s.known /\ count.quantity = s.quantity /\ count.terminal = TRUE
        /\ count.invalid = FALSE /\ count.seen = seen
    BY <1>5, <2>3 DEF Counts
  <2>5. new.state \in {"filled", "rejected", "canceled", "expired"}
    BY <1>2, <1>8 DEF OutcomeStatus
  <2>. HIDE DEF new
  <2>6. SameStory(new, count)
    BY <1>1, <1>5, <1>6, <2>4, <2>5 DEF SameStory, isTerminalEntryState
  <2>. QED
    BY <1>2, <2>4, <2>5, <2>6 DEF Agreeing, new, count
<1>. QED
  BY <1>7, <1>8

LEMMA LineAgrees ==
    ASSUME NEW kind, NEW fold, NEW s, NEW line \in Reports, Agreeing(fold, s)
    PROVE  Agreeing(foldLifecycles(kind, fold, line), terminality(s, line))
<1>. DEFINE new == foldLifecycles(kind, fold, line)
            count == terminality(s, line)
<1>. SUFFICES ASSUME new.ok PROVE Agreeing(new, count)
  BY DEF Agreeing
<1>1. fold.ok
  <2>1. ~fold.ok => new = fold
    BY DEF foldLifecycles
  <2>. QED
    BY <2>1
<1>2. fold \in Folds /\ s \in Counts /\ (fold.state = "none" => fold.seen = NoEvidence /\ s = Unknown)
      /\ (fold.state # "none" => SameStory(fold, s))
  BY <1>1 DEF Agreeing
<1>3. ~Failed.ok
  BY EvidenceStarts
<1>4. CASE line.kind = "INTENT"
  <2>1. fold.state = "none" /\ new = [fold EXCEPT !.state = "intent"]
    BY <1>1, <1>3, <1>4 DEF foldLifecycles, OutcomeStatus
  <2>2. s.known = FALSE
    BY <1>2, <2>1 DEF Unknown
  <2>3. count = FreshEntry
    BY <1>4, <2>2 DEF terminality, OutcomeStatus
  <2>4. /\ FreshEntry.known = TRUE /\ FreshEntry.invalid = FALSE /\ FreshEntry.quantity = Quantity
        /\ FreshEntry.seen = NoEvidence /\ FreshEntry.terminal = FALSE /\ FreshEntry.uncertain = FALSE
        /\ FreshEntry.acknowledged = FALSE
    BY DEF FreshEntry, Unknown
  <2>5. new \in Folds /\ new.state = "intent" /\ new.seen = NoEvidence
    BY <1>2, <2>1 DEF Folds, EntryStates
  <2>6. Priceless(NoEvidence)
    BY DEF Priceless, NoEvidence
  <2>. HIDE DEF new, count
  <2>7. SameStory(new, count)
    BY <2>3, <2>4, <2>5, <2>6 DEF SameStory, isTerminalEntryState
  <2>. QED
    BY <2>3, <2>5, <2>7, EvidenceStarts DEF Agreeing
<1>5. CASE line.kind # "INTENT"
  <2>1. fold.state # "none"
    BY <1>1, <1>3, <1>5 DEF foldLifecycles
  <2>2. SameStory(fold, s) /\ [s EXCEPT !.known = TRUE] = s
    <3>1. SameStory(fold, s)
      BY <1>2, <2>1
    <3>2. s.known = TRUE
      BY <1>2, <3>1 DEF SameStory, Counts
    <3>. QED
      BY <1>2, <3>1, <3>2 DEF Counts
  <2>3. CASE line.kind \in OutcomeStatus
    <3>1. ~isTerminalEntryState(fold.state) /\ IdentityKept(fold.seen, line)
          /\ new = applyOutcomeToEntry(kind, fold, line)
      BY <1>1, <1>3, <1>5, <2>1, <2>3 DEF foldLifecycles, OutcomeStatus
    <3>2. count = terminalityOfOutcome(s, line)
      BY <2>2, <2>3 DEF terminality, OutcomeStatus
    <3>. QED
      BY <1>1, <1>2, <2>1, <2>2, <2>3, <3>1, <3>2, OutcomeAgrees
  <2>4. CASE line.kind \in {"ACKNOWLEDGED_WORKING", "MATCHED_WORKING"}
    <3>1. new = applyWorking(kind, fold, line)
      BY <1>1, <1>5, <2>1, <2>4 DEF foldLifecycles, OutcomeStatus
    <3>2. count = terminalityOfWorking(s, line)
      BY <2>2, <2>4 DEF terminality, OutcomeStatus
    <3>. QED
      BY <1>1, <1>2, <2>1, <2>2, <2>4, <3>1, <3>2, WorkingAgrees
  <2>5. CASE line.kind = "NOT_AT_BROKER"
    <3>1. fold.state \in {"intent", "confirmation_unclear"} /\ new = [fold EXCEPT !.state = "confirmation_unclear"]
      BY <1>1, <1>3, <2>1, <2>5 DEF foldLifecycles, OutcomeStatus
    <3>2. s.invalid = FALSE /\ s.terminal = FALSE
      BY <1>2, <2>2, <3>1 DEF SameStory, isTerminalEntryState, Counts
    <3>3. count = [s EXCEPT !.known = TRUE, !.terminal = FALSE, !.uncertain = TRUE, !.invalid = FALSE]
      <4>1. count = [s EXCEPT !.known = TRUE, !.terminal = FALSE, !.uncertain = TRUE, !.invalid = @ \/ s.terminal]
        BY <2>5 DEF terminality, terminalityOfAbsence, OutcomeStatus
      <4>2. (s.invalid \/ s.terminal) = FALSE
        BY <3>2, Zenon
      <4>. QED
        BY <4>1, <4>2, Zenon
    <3>4. count \in Counts /\ count.known /\ ~count.invalid /\ count.quantity = s.quantity /\ count.seen = s.seen
          /\ ~count.terminal
      BY <1>2, <3>3 DEF Counts
    <3>5. new \in Folds /\ new.state = "confirmation_unclear" /\ new.seen = fold.seen
      BY <1>2, <3>1 DEF Folds, EntryStates
    <3>. HIDE DEF new, count
    <3>6. SameStory(new, count)
      BY <2>2, <3>4, <3>5 DEF SameStory, isTerminalEntryState
    <3>. QED
      BY <3>4, <3>5, <3>6 DEF Agreeing
  <2>6. CASE line.kind = "REVALIDATION_VOID"
    <3>1. fold.state = "intent" /\ new = [fold EXCEPT !.state = "canceled"]
      BY <1>1, <1>3, <2>1, <2>6 DEF foldLifecycles, OutcomeStatus
    <3>. DEFINE doubt == s.invalid \/ s.uncertain \/ s.acknowledged
    <3>2. s.invalid = FALSE /\ s.terminal = FALSE /\ ~doubt
      BY <1>2, <2>2, <3>1 DEF SameStory, isTerminalEntryState, Counts
    <3>3. count = [s EXCEPT !.known = TRUE, !.terminal = TRUE, !.invalid = FALSE]
      <4>1. count = [s EXCEPT !.known = TRUE, !.terminal = ~doubt, !.invalid = doubt \/ s.terminal]
        BY <2>6, Zenon DEF terminality, terminalityOfVoid, OutcomeStatus
      <4>2. (doubt \/ s.terminal) = FALSE /\ (~doubt) = TRUE
        BY <3>2, Zenon
      <4>. QED
        BY <4>1, <4>2, Zenon
    <3>4. count \in Counts /\ count.known /\ ~count.invalid /\ count.quantity = s.quantity /\ count.seen = s.seen
          /\ count.terminal
      BY <1>2, <3>3 DEF Counts
    <3>5. new \in Folds /\ new.state = "canceled" /\ new.seen = fold.seen
      BY <1>2, <3>1 DEF Folds, EntryStates
    <3>. HIDE DEF new, count
    <3>6. SameStory(new, count)
      BY <2>2, <3>4, <3>5 DEF SameStory, isTerminalEntryState
    <3>. QED
      BY <3>4, <3>5, <3>6 DEF Agreeing
  <2>. QED
    BY <1>5, <2>3, <2>4, <2>5, <2>6 DEF Reports
<1>. QED
  BY <1>4, <1>5

(***************************************************************************)
(* The steps of an audit.                                                  *)
(***************************************************************************)
Audited(a) ==
    a \in [limitKind : {"debit", "credit"}, honest : BOOLEAN, fold : {a.fold}, unresolved : {a.unresolved},
           booked : [lots : Nat, cents : Nat], reported : [lots : Nat, cents : Nat], worse : BOOLEAN,
           ended : BOOLEAN, lines : Nat]
AuditInv == audit # NoAudit => Audited(audit) /\ Agreeing(audit.fold, audit.unresolved)

LEMMA NoneIsRead == None \in Int /\ FALSE \in BOOLEAN /\ 0 \in Nat
BY DEF None

LEMMA LineIsReport ==
    ASSUME NEW kind \in OutcomeStatus \cup {"INTENT", "ACKNOWLEDGED_WORKING", "MATCHED_WORKING", "NOT_AT_BROKER",
                                            "REVALIDATION_VOID"},
           NEW filled \in Nat, NEW raw \in Int, NEW id \in BrokerIds \cup {None}, NEW flagged \in BOOLEAN
    PROVE  Line(kind, filled, raw, id, flagged) \in Reports
<1>1. \A x \in Int, n \in Nat \ {0} : (2 * x + n) \div (2 * n) \in Int
  OBVIOUS
<1>2. RoundedCents(raw) \in Int
  BY <1>1, EvidenceAssumption DEF RoundedCents
<1>. QED
  BY <1>2 DEF Line, Reports, None

LEMMA LinesAre ==
    ASSUME NEW line \in Lines
    PROVE  \/ line = Line("INTENT", 0, None, None, FALSE)
           \/ \E k \in {"NOT_AT_BROKER", "REVALIDATION_VOID"} : line = Line(k, 0, None, None, FALSE)
           \/ \E k \in OutcomeStatus \cup {"ACKNOWLEDGED_WORKING", "MATCHED_WORKING"},
                 f \in 0..(Quantity + 1), r \in RawPrices \cup {None}, b \in BrokerIds \cup {None} :
                 line = Line(k, f, r, b, FALSE)
<1>. DEFINE Told(k, f, r, b) == Line(k, f, r, b, FALSE)
            Intents == {Told("INTENT", 0, None, None)}
            Settled == {Told(k, 0, None, None) : k \in {"NOT_AT_BROKER", "REVALIDATION_VOID"}}
            Heard == {Told(k, f, r, b) :
                        k \in OutcomeStatus \cup {"ACKNOWLEDGED_WORKING", "MATCHED_WORKING"},
                        f \in 0..(Quantity + 1), r \in RawPrices \cup {None}, b \in BrokerIds \cup {None}}
<1>1. Lines = Intents \cup Settled \cup Heard
  BY SMT DEF Lines
<1>2. line \in Intents \/ line \in Settled \/ line \in Heard
  <2>. HIDE DEF Intents, Settled, Heard
  <2>. QED
    BY <1>1
<1>. HIDE DEF Told
<1>3. \/ line = Told("INTENT", 0, None, None)
      \/ \E k \in {"NOT_AT_BROKER", "REVALIDATION_VOID"} : line = Told(k, 0, None, None)
      \/ \E k \in OutcomeStatus \cup {"ACKNOWLEDGED_WORKING", "MATCHED_WORKING"},
            f \in 0..(Quantity + 1), r \in RawPrices \cup {None}, b \in BrokerIds \cup {None} :
            line = Told(k, f, r, b)
  BY <1>2
<1>. QED
  BY <1>3, Zenon DEF Told

LEMMA AverageIsRaw ==
    ASSUME NEW a, Audited(a), a = audit
    PROVE  AverageRaw \in Int
<1>1. a.booked.lots \in Nat /\ a.booked.cents \in Nat
  BY DEF Audited
<1>2. \A c, n \in Nat, p \in Nat \ {0} : n # 0 => (c * p) \div n \in Int
  <2>1. \A c \in Nat, p \in Nat \ {0} : c * p \in Int
    OBVIOUS
  <2>2. \A x \in Int, n \in Nat : n # 0 => x \div n \in Int
    OBVIOUS
  <2>. QED
    BY <2>1, <2>2
<1>. QED
  BY <1>1, <1>2, EvidenceAssumption DEF AverageRaw, None

LEMMA ReadAgrees ==
    ASSUME NEW a, NEW line \in Reports, Audited(a), Agreeing(a.fold, a.unresolved)
    PROVE  LET b == Read(a, line)
           IN  /\ Audited(b) /\ Agreeing(b.fold, b.unresolved)
               /\ b.fold = foldLifecycles(a.limitKind, a.fold, line)
               /\ b.limitKind = a.limitKind /\ b.honest = a.honest /\ b.booked = a.booked /\ b.reported = a.reported
               /\ b.worse = a.worse /\ b.ended = a.ended /\ b.lines = a.lines
<1>. DEFINE fold == foldLifecycles(a.limitKind, a.fold, line)
            count == terminality(a.unresolved, line)
            b == Read(a, line)
<1>1. Agreeing(fold, count)
  BY LineAgrees
<1>2. b = [a EXCEPT !.fold = fold, !.unresolved = count]
  BY DEF Read
<1>. HIDE DEF b, fold, count
<1>3. /\ Audited(b) /\ b.fold = fold /\ b.unresolved = count
      /\ b.limitKind = a.limitKind /\ b.honest = a.honest /\ b.booked = a.booked /\ b.reported = a.reported
      /\ b.worse = a.worse /\ b.ended = a.ended /\ b.lines = a.lines
  BY <1>2 DEF Audited
<1>. QED
  BY <1>1, <1>3 DEF b, fold

LEMMA ReportedAgrees ==
    ASSUME NEW line \in Reports, Audited(audit), Agreeing(audit.fold, audit.unresolved)
    PROVE  LET b == Reported(line)
           IN  /\ Audited(b) /\ Agreeing(b.fold, b.unresolved)
               /\ b.fold = foldLifecycles(audit.limitKind, audit.fold, line)
               /\ b.limitKind = audit.limitKind /\ b.honest = audit.honest /\ b.booked = audit.booked
               /\ b.reported = audit.booked /\ (b.worse <=> audit.worse \/ ReallyWorse)
               /\ b.ended = audit.ended
<1>. DEFINE b == Read(audit, line)
            worse == audit.worse \/ ReallyWorse
            c == [b EXCEPT !.reported = audit.booked, !.worse = worse]
<1>1. /\ Audited(b) /\ Agreeing(b.fold, b.unresolved)
      /\ b.fold = foldLifecycles(audit.limitKind, audit.fold, line)
      /\ b.limitKind = audit.limitKind /\ b.honest = audit.honest /\ b.booked = audit.booked
      /\ b.worse = audit.worse /\ b.ended = audit.ended
  BY ReadAgrees
<1>2. worse \in BOOLEAN
  BY Zenon
<1>3. Reported(line) = c
  <2>1. Reported(line) = [b EXCEPT !.reported = audit.booked, !.worse = @ \/ ReallyWorse]
    BY Zenon DEF Reported
  <2>2. (b.worse \/ ReallyWorse) = worse
    BY <1>1, Zenon
  <2>. HIDE DEF b, worse
  <2>. QED
    BY <2>1, <2>2, Zenon
<1>. HIDE DEF b, worse
<1>4. audit.booked \in [lots : Nat, cents : Nat]
  BY DEF Audited
<1>5. /\ Audited(c) /\ c.fold = b.fold /\ c.unresolved = b.unresolved /\ c.limitKind = b.limitKind
      /\ c.honest = b.honest /\ c.booked = b.booked /\ c.reported = audit.booked /\ c.worse = worse
      /\ c.ended = b.ended
  BY <1>1, <1>2, <1>4 DEF Audited
<1>. HIDE DEF c
<1>. QED
  BY <1>1, <1>3, <1>5 DEF worse

LEMMA TerminalAgrees ==
    ASSUME NEW d \in Reports, Audited(audit), Agreeing(audit.fold, audit.unresolved)
    PROVE  LET b == [Reported(d) EXCEPT !.ended = TRUE]
           IN  /\ Audited(b) /\ Agreeing(b.fold, b.unresolved)
               /\ b.fold = foldLifecycles(audit.limitKind, audit.fold, d)
               /\ b.limitKind = audit.limitKind /\ b.honest = audit.honest /\ b.booked = audit.booked
               /\ b.reported = audit.booked /\ (b.worse <=> audit.worse \/ ReallyWorse)
               /\ b.ended = TRUE
<1>. DEFINE c == Reported(d)
            b == [c EXCEPT !.ended = TRUE]
<1>1. /\ Audited(c) /\ Agreeing(c.fold, c.unresolved)
      /\ c.fold = foldLifecycles(audit.limitKind, audit.fold, d)
      /\ c.limitKind = audit.limitKind /\ c.honest = audit.honest /\ c.booked = audit.booked
      /\ c.reported = audit.booked /\ (c.worse <=> audit.worse \/ ReallyWorse)
  BY ReportedAgrees
<1>. HIDE DEF c
<1>2. /\ Audited(b) /\ b.fold = c.fold /\ b.unresolved = c.unresolved /\ b.limitKind = c.limitKind
      /\ b.honest = c.honest /\ b.booked = c.booked /\ b.reported = c.reported /\ b.worse = c.worse /\ b.ended = TRUE
  BY <1>1 DEF Audited
<1>. HIDE DEF b
<1>3. /\ Audited(b) /\ Agreeing(b.fold, b.unresolved)
      /\ b.fold = foldLifecycles(audit.limitKind, audit.fold, d)
      /\ b.limitKind = audit.limitKind /\ b.honest = audit.honest /\ b.booked = audit.booked
      /\ b.reported = audit.booked /\ (b.worse <=> audit.worse \/ ReallyWorse)
      /\ b.ended = TRUE
  BY <1>1, <1>2
<1>. QED
  BY <1>3 DEF b, c

\* What a broker's reports say.
Status == IF audit.booked.lots = Quantity THEN "filled" ELSE IF audit.booked.lots > 0 THEN "partially_filled" ELSE "canceled"
Price == IF audit.booked.lots = 0 THEN None ELSE RoundedCents(AverageRaw)
Breach == classifyBrokerFillPrice(audit.limitKind, Price, AverageRaw) = "BROKER_PRICE_BREACH"

LEMMA TerminalLine ==
    ASSUME audit # NoAudit, Audited(audit), TerminalReport
    PROVE  \E id \in BrokerIds :
              /\ audit.fold.seen.brokerOrderId \in {None, id}
              /\ audit' = [Reported(Line(Status, audit.booked.lots, AverageRaw, id, Breach)) EXCEPT !.ended = TRUE]
              /\ Line(Status, audit.booked.lots, AverageRaw, id, Breach) \in Reports
<1>1. PICK id \in BrokerIds :
        /\ audit.fold.seen.brokerOrderId \in {None, id}
        /\ audit' = [Reported(Line(Status, audit.booked.lots, AverageRaw, id, Breach)) EXCEPT !.ended = TRUE]
  BY Zenon DEF TerminalReport, Status, Price, Breach
<1>2. Breach \in BOOLEAN /\ AverageRaw \in Int /\ audit.booked.lots \in Nat
  <2>1. Breach \in BOOLEAN
    BY Zenon DEF Breach
  <2>2. AverageRaw \in Int
    BY AverageIsRaw
  <2>. QED
    BY <2>1, <2>2 DEF Audited
<1>3. Status \in OutcomeStatus
  BY DEF Status, OutcomeStatus
<1>4. Line(Status, audit.booked.lots, AverageRaw, id, Breach) \in Reports
  BY <1>2, <1>3, LineIsReport
<1>. QED
  BY <1>1, <1>4

LEMMA AuditInitially == EvidenceInit => AuditInv
<1>. SUFFICES ASSUME EvidenceInit PROVE Audited(audit) /\ Agreeing(audit.fold, audit.unresolved)
  BY DEF AuditInv
<1>1. PICK kind \in {"debit", "credit"}, honest \in BOOLEAN :
        audit = [limitKind |-> kind, honest |-> honest, fold |-> Absent, unresolved |-> Unknown,
                 booked |-> NoLots, reported |-> NoLots, worse |-> FALSE, ended |-> FALSE, lines |-> 0]
  BY DEF EvidenceInit
<1>2. NoLots \in [lots : Nat, cents : Nat]
  BY DEF NoLots
<1>3. audit.fold = Absent /\ audit.unresolved = Unknown
  BY <1>1
<1>4. Audited(audit)
  BY <1>1, <1>2 DEF Audited
<1>. QED
  BY <1>3, <1>4, EvidenceStarts

LEMMA AuditStep == AuditInv /\ [EvidenceNext]_audit => AuditInv'
<1>. SUFFICES ASSUME AuditInv, [EvidenceNext]_audit PROVE AuditInv'
  OBVIOUS
<1>1. CASE AnyLine
  <2>1. PICK line \in Lines : audit' = [Read(audit, line) EXCEPT !.lines = @ + 1]
    BY <1>1 DEF AnyLine
  <2>2. Audited(audit) /\ Agreeing(audit.fold, audit.unresolved)
    BY <1>1 DEF AnyLine, AuditInv
  <2>3. line \in Reports
    <3>1. Line("INTENT", 0, None, None, FALSE) \in Reports
      BY NoneIsRead, LineIsReport
    <3>2. \A k \in {"NOT_AT_BROKER", "REVALIDATION_VOID"} : Line(k, 0, None, None, FALSE) \in Reports
      BY NoneIsRead, LineIsReport
    <3>3. ASSUME NEW k \in OutcomeStatus \cup {"ACKNOWLEDGED_WORKING", "MATCHED_WORKING"},
                 NEW f \in 0..(Quantity + 1), NEW r \in RawPrices \cup {None}, NEW b \in BrokerIds \cup {None}
          PROVE  Line(k, f, r, b, FALSE) \in Reports
      <4>1. f \in Nat /\ r \in Int
        BY EvidenceAssumption, NoneIsRead
      <4>. QED
        BY <4>1, LineIsReport
    <3>4. \/ line = Line("INTENT", 0, None, None, FALSE)
          \/ \E k \in {"NOT_AT_BROKER", "REVALIDATION_VOID"} : line = Line(k, 0, None, None, FALSE)
          \/ \E k \in OutcomeStatus \cup {"ACKNOWLEDGED_WORKING", "MATCHED_WORKING"},
                f \in 0..(Quantity + 1), r \in RawPrices \cup {None}, b \in BrokerIds \cup {None} :
                line = Line(k, f, r, b, FALSE)
      BY <2>1, LinesAre
    <3>. QED
      BY <3>1, <3>2, <3>3, <3>4
  <2>. DEFINE b == Read(audit, line)
  <2>4. Audited(b) /\ Agreeing(b.fold, b.unresolved)
    BY <2>2, <2>3, ReadAgrees
  <2>. HIDE DEF b
  <2>5. audit' = [b EXCEPT !.lines = @ + 1]
    BY <2>1 DEF b
  <2>6. b.lines + 1 \in Nat
    BY <2>4 DEF Audited
  <2>7. Audited(audit') /\ audit'.fold = b.fold /\ audit'.unresolved = b.unresolved
    BY <2>4, <2>5, <2>6 DEF Audited
  <2>. QED
    BY <2>4, <2>7 DEF AuditInv
<1>2. CASE HonestIntent
  <2>1. Line("INTENT", 0, None, None, FALSE) \in Reports
    BY NoneIsRead, LineIsReport
  <2>2. audit' = Read(audit, Line("INTENT", 0, None, None, FALSE))
        /\ Audited(audit) /\ Agreeing(audit.fold, audit.unresolved)
    BY <1>2 DEF HonestIntent, AuditInv
  <2>3. Audited(audit') /\ Agreeing(audit'.fold, audit'.unresolved)
    BY <2>1, <2>2, ReadAgrees
  <2>. QED
    BY <2>3 DEF AuditInv
<1>3. CASE LotFilled
  <2>1. PICK price \in LotPrices : audit' = [audit EXCEPT !.booked.lots = @ + 1, !.booked.cents = @ + price]
    BY <1>3 DEF LotFilled
  <2>2. Audited(audit) /\ Agreeing(audit.fold, audit.unresolved)
    BY <1>3 DEF LotFilled, AuditInv
  <2>. DEFINE booked == [audit.booked EXCEPT !.lots = @ + 1, !.cents = @ + price]
  <2>3. booked \in [lots : Nat, cents : Nat]
    <3>1. audit.booked \in [lots : Nat, cents : Nat] /\ price \in Nat
      BY <2>2, EvidenceAssumption DEF Audited
    <3>2. audit.booked.lots + 1 \in Nat /\ audit.booked.cents + price \in Nat
      BY <3>1
    <3>. QED
      BY <3>1, <3>2
  <2>4. audit' = [audit EXCEPT !.booked = booked]
    BY <2>1, <2>2 DEF Audited
  <2>. HIDE DEF booked
  <2>5. Audited(audit') /\ audit'.fold = audit.fold /\ audit'.unresolved = audit.unresolved
    BY <2>2, <2>3, <2>4 DEF Audited
  <2>. QED
    BY <2>2, <2>5 DEF AuditInv
<1>4. CASE WorkingReport
  <2>1. PICK kind \in {"MATCHED_WORKING", "ACKNOWLEDGED_WORKING"}, id \in BrokerIds :
          audit' = Reported(Line(kind, audit.booked.lots, AverageRaw, id, FALSE))
    BY <1>4 DEF WorkingReport
  <2>2. Audited(audit) /\ Agreeing(audit.fold, audit.unresolved)
    BY <1>4 DEF WorkingReport, AuditInv
  <2>3. audit.booked.lots \in Nat /\ AverageRaw \in Int
    BY <2>2, AverageIsRaw DEF Audited
  <2>4. Line(kind, audit.booked.lots, AverageRaw, id, FALSE) \in Reports
    BY <2>3, LineIsReport
  <2>5. Audited(audit') /\ Agreeing(audit'.fold, audit'.unresolved)
    BY <2>1, <2>2, <2>4, ReportedAgrees
  <2>. QED
    BY <2>5 DEF AuditInv
<1>5. CASE TerminalReport
  <2>1. audit # NoAudit /\ Audited(audit) /\ Agreeing(audit.fold, audit.unresolved)
    BY <1>5 DEF TerminalReport, AuditInv
  <2>2. PICK id \in BrokerIds :
              /\ audit' = [Reported(Line(Status, audit.booked.lots, AverageRaw, id, Breach)) EXCEPT !.ended = TRUE]
              /\ Line(Status, audit.booked.lots, AverageRaw, id, Breach) \in Reports
    BY <1>5, <2>1, TerminalLine
  <2>3. Audited(audit') /\ Agreeing(audit'.fold, audit'.unresolved)
    BY <2>1, <2>2, TerminalAgrees
  <2>. QED
    BY <2>3 DEF AuditInv
<1>6. CASE UNCHANGED audit
  BY <1>6 DEF AuditInv, Audited, Agreeing
<1>. QED
  BY <1>1, <1>2, <1>3, <1>4, <1>5, <1>6 DEF EvidenceNext

LEMMA AuditFollows == AuditInv => ReadersAgree
<1>. SUFFICES ASSUME Agreeing(audit.fold, audit.unresolved), audit.fold.ok, audit.fold.state # "none"
     PROVE unresolvedEntryLifecycleIds(audit.unresolved) = ~isTerminalEntryState(audit.fold.state)
  BY Zenon DEF AuditInv, ReadersAgree
<1>1. SameStory(audit.fold, audit.unresolved)
  BY DEF Agreeing
<1>2. unresolvedEntryLifecycleIds(audit.unresolved) <=> ~isTerminalEntryState(audit.fold.state)
  BY <1>1 DEF SameStory, unresolvedEntryLifecycleIds
<1>. QED
  BY <1>2, Zenon DEF unresolvedEntryLifecycleIds

(***************************************************************************)
(* Whatever lines a journal holds, as long as the cycle's fold can apply   *)
(* them, the certificates count an entry as unresolved exactly when the    *)
(* fold has no terminal state for it (execution.ts foldLifecycles and      *)
(* unresolvedEntryLifecycleIds).                                           *)
(***************************************************************************)
THEOREM ReadersAlwaysAgree == EvidenceInit /\ [][EvidenceNext]_audit => []ReadersAgree
BY AuditInitially, AuditStep, AuditFollows, PTL

(***************************************************************************)
(* The honest broker.  Every average of its fills has a raw decimal.       *)
(***************************************************************************)
AveragesAreExact == \A n \in 1..Quantity : PriceScale % n = 0

LEMMA Division == \A x \in Int, d \in Nat \ {0} : x \div d \in Int /\ d * (x \div d) <= x /\ x < d * (x \div d) + d
OBVIOUS

LEMMA CancelLess == \A a, b \in Int, s \in Nat \ {0} : a * s < b * s <=> a < b
<1>. SUFFICES ASSUME NEW a \in Int, NEW b \in Int, NEW s \in Nat \ {0} PROVE a * s < b * s <=> a < b
  OBVIOUS
<1>1. \A d \in Nat \ {0} : d * s > 0
  OBVIOUS
<1>2. \A d \in Nat : d * s >= 0
  OBVIOUS
<1>3. b * s = a * s + (b - a) * s
  OBVIOUS
<1>4. a * s \in Int /\ b * s \in Int /\ (b - a) * s \in Int /\ a * s = b * s + (a - b) * s /\ (a - b) * s \in Int
  OBVIOUS
<1>5. CASE a < b
  <2>1. b - a \in Nat \ {0}
    BY <1>5
  <2>2. (b - a) * s > 0
    BY <1>1, <2>1
  <2>. QED
    BY <1>3, <1>4, <1>5, <2>2
<1>6. CASE ~(a < b)
  <2>1. a - b \in Nat
    BY <1>6
  <2>2. (a - b) * s >= 0
    BY <1>2, <2>1
  <2>. QED
    BY <1>4, <1>6, <2>2
<1>. QED
  BY <1>5, <1>6

LEMMA CancelEqual == \A a, b \in Int, s \in Nat \ {0} : a * s = b * s => a = b
<1>. SUFFICES ASSUME NEW a \in Int, NEW b \in Int, NEW s \in Nat \ {0}, a * s = b * s PROVE a = b
  OBVIOUS
<1>1. a * s \in Int /\ b * s \in Int
  OBVIOUS
<1>2. ~(a < b) /\ ~(b < a)
  BY <1>1, CancelLess
<1>. QED
  BY <1>2

Average(b) == IF b.lots = 0 THEN None ELSE (b.cents * PriceScale) \div b.lots

LEMMA AverageIsExact ==
    ASSUME AveragesAreExact, NEW b \in [lots : Nat, cents : Nat], b.lots > 0, b.lots <= Quantity
    PROVE  Average(b) \in Nat /\ Average(b) * b.lots = b.cents * PriceScale
<1>. DEFINE n == b.lots
            c == b.cents
            q == PriceScale \div n
<1>1. n \in Nat \ {0} /\ c \in Nat /\ PriceScale \in Nat \ {0} /\ Quantity \in Nat
  BY EvidenceAssumption
<1>2. PriceScale % n = 0
  BY <1>1 DEF AveragesAreExact
<1>3. Average(b) = (c * PriceScale) \div n
  BY <1>1 DEF Average
<1>. HIDE DEF n, c
<1>4. q \in Nat /\ PriceScale = n * q
  <2>1. \A x \in Nat \ {0}, d \in Nat \ {0} : x % d = 0 => x \div d \in Nat /\ x = d * (x \div d)
    OBVIOUS
  <2>. QED
    BY <1>1, <1>2, <2>1
<1>. HIDE DEF q
<1>5. c * PriceScale = n * (c * q)
  <2>1. \A x, y, z \in Nat : x * (y * z) = y * (x * z)
    OBVIOUS
  <2>. QED
    BY <1>1, <1>4, <2>1
<1>6. c * q \in Nat
  BY <1>1, <1>4
<1>7. \A x \in Nat, d \in Nat \ {0} : (d * x) \div d = x
  <2>. SUFFICES ASSUME NEW x \in Nat, NEW d \in Nat \ {0} PROVE (d * x) \div d = x
    OBVIOUS
  <2>. DEFINE y == (d * x) \div d
  <2>1. d * x \in Int
    OBVIOUS
  <2>2. y \in Int /\ d * y <= d * x /\ d * x < d * y + d
    BY <2>1, Division
  <2>. HIDE DEF y
  <2>3. d * y = y * d /\ d * x = x * d /\ d * y + d = (y + 1) * d /\ y + 1 \in Int /\ x * d \in Int /\ y * d \in Int
    BY <2>2
  <2>4. ~(x < y)
    BY <2>2, <2>3, CancelLess
  <2>5. x < y + 1
    BY <2>2, <2>3, CancelLess
  <2>6. x = y
    BY <2>2, <2>4, <2>5
  <2>. QED
    BY <2>6 DEF y
<1>8. Average(b) = c * q
  BY <1>1, <1>3, <1>5, <1>6, <1>7
<1>9. (c * q) * n = n * (c * q)
  BY <1>1, <1>6
<1>. QED
  BY <1>5, <1>6, <1>8, <1>9 DEF n, c

\* A rounded average brackets the total.
LEMMA RoundingBrackets ==
    ASSUME NEW raw \in Nat, NEW n \in Nat \ {0}, NEW c \in Nat, raw * n = c * PriceScale
    PROVE  /\ RoundedCents(raw) \in Nat
           /\ n * (2 * RoundedCents(raw) - 1) <= 2 * c
           /\ 2 * c < n * (2 * RoundedCents(raw) + 1)
<1>. DEFINE S == PriceScale
            p == RoundedCents(raw)
<1>1. S \in Nat \ {0} /\ 2 * S \in Nat \ {0} /\ 2 * raw + S \in Nat
  BY EvidenceAssumption
<1>2. p = (2 * raw + S) \div (2 * S)
  BY DEF RoundedCents
<1>. HIDE DEF S, p
<1>3. p \in Int /\ (2 * S) * p <= 2 * raw + S /\ 2 * raw + S < (2 * S) * p + 2 * S
  <2>. DEFINE x == 2 * raw + S
              d == 2 * S
  <2>1. x \in Int /\ d \in Nat \ {0} /\ p = x \div d
    BY <1>1, <1>2
  <2>. HIDE DEF x, d
  <2>2. p \in Int /\ d * p <= x /\ x < d * p + d
    BY <2>1, Division
  <2>. QED
    BY <2>2 DEF x, d
<1>4. p >= 0
  <2>1. \A x \in Nat, d \in Nat \ {0} : x \div d >= 0
    OBVIOUS
  <2>. QED
    BY <1>1, <1>2, <2>1
<1>5. (2 * S) * p = (2 * p) * S /\ (2 * p) * S \in Int /\ 2 * p \in Int
  BY <1>1, <1>3
<1>6. (2 * p - 1) * S = (2 * p) * S - S /\ (2 * p + 1) * S = (2 * p) * S + S
  BY <1>1, <1>5
<1>7. (2 * p - 1) * S <= 2 * raw /\ 2 * raw < (2 * p + 1) * S
  BY <1>1, <1>3, <1>5, <1>6
<1>8. /\ ((2 * p - 1) * S) * n <= (2 * raw) * n /\ (2 * raw) * n < ((2 * p + 1) * S) * n
  <2>1. (2 * p - 1) * S \in Int /\ (2 * p + 1) * S \in Int /\ 2 * raw \in Int
    BY <1>1, <1>3
  <2>2. (2 * raw) * n < ((2 * p + 1) * S) * n
    BY <1>7, <2>1, CancelLess
  <2>3. ~((2 * raw) * n < ((2 * p - 1) * S) * n)
    BY <1>7, <2>1, CancelLess
  <2>4. (2 * raw) * n \in Int /\ ((2 * p - 1) * S) * n \in Int
    BY <2>1
  <2>. QED
    BY <2>2, <2>3, <2>4
<1>9. (2 * raw) * n = (2 * c) * S
  BY <1>1 DEF S
<1>10. /\ ((2 * p - 1) * S) * n = (n * (2 * p - 1)) * S
       /\ ((2 * p + 1) * S) * n = (n * (2 * p + 1)) * S
  <2>1. \A x \in Int : (x * S) * n = (n * x) * S
    BY <1>1
  <2>2. 2 * p - 1 \in Int /\ 2 * p + 1 \in Int
    BY <1>3
  <2>. QED
    BY <2>1, <2>2
<1>11. n * (2 * p - 1) \in Int /\ n * (2 * p + 1) \in Int /\ 2 * c \in Int
  BY <1>3
<1>12. ~(2 * c < n * (2 * p - 1)) /\ 2 * c < n * (2 * p + 1)
  <2>1. ~((2 * c) * S < (n * (2 * p - 1)) * S)
    <3>1. (2 * c) * S \in Int /\ (n * (2 * p - 1)) * S \in Int
      BY <1>1, <1>11
    <3>. QED
      BY <1>8, <1>9, <1>10, <3>1
  <2>2. (2 * c) * S < (n * (2 * p + 1)) * S
    BY <1>8, <1>9, <1>10
  <2>. QED
    BY <1>1, <1>11, <2>1, <2>2, CancelLess
<1>. QED
  BY <1>3, <1>4, <1>11, <1>12 DEF p

\* Evidence that is what the broker had filled when it was last asked.
Told(seen, r) ==
    /\ seen.filled = r.lots
    /\ r.lots = 0 => r.cents = 0 /\ seen.price = None /\ seen.raw = None /\ seen.lower = 0
    /\ r.lots > 0 =>
          /\ seen.raw \in Nat /\ seen.raw * r.lots = r.cents * PriceScale /\ seen.price = RoundedCents(seen.raw)
          /\ seen.lower \in Nat /\ seen.lower <= 2 * r.cents
Tells(line, b) ==
    /\ line.filled = b.lots /\ line.raw = Average(b)
    /\ line.price = IF b.lots = 0 THEN None ELSE RoundedCents(Average(b))
Since(r, b) == r.lots <= b.lots /\ r.cents <= b.cents /\ (r.lots = b.lots => r.cents = b.cents)
WorseSince(kind, r, b) == r.lots < b.lots /\ Worse(kind, b.cents - r.cents, (b.lots - r.lots) * LimitPrice)

\* An exact average is worse than the limit exactly when the total is.
LEMMA AverageIsWorse ==
    ASSUME NEW kind, NEW raw \in Nat, NEW n \in Nat, n > 0, NEW c \in Nat, raw * n = c * PriceScale
    PROVE  Worse(kind, raw, LimitPrice * PriceScale) <=> Worse(kind, c, n * LimitPrice)
<1>. DEFINE S == PriceScale
            L == LimitPrice
<1>0. S \in Nat \ {0} /\ L \in Nat
  BY EvidenceAssumption
<1>. HIDE DEF S, L
<1>1. L * S \in Nat /\ n * L \in Nat /\ n \in Nat \ {0} /\ (L * S) * n = (n * L) * S /\ raw * n = c * S
  <2>1. \A x, y, z \in Nat : (x * y) * z = (z * x) * y
    OBVIOUS
  <2>. QED
    BY <1>0, <2>1 DEF S
<1>2. (L * S) * n < raw * n <=> L * S < raw
  BY <1>1, CancelLess
<1>3. raw * n < (L * S) * n <=> raw < L * S
  BY <1>1, CancelLess
<1>4. (n * L) * S < c * S <=> n * L < c
  BY <1>0, <1>1, CancelLess
<1>5. c * S < (n * L) * S <=> c < n * L
  BY <1>0, <1>1, CancelLess
<1>6. (L * S < raw <=> n * L < c) /\ (raw < L * S <=> c < n * L)
  BY <1>1, <1>2, <1>3, <1>4, <1>5
<1>7. Worse(kind, raw, L * S) <=> Worse(kind, c, n * L)
  BY <1>0, <1>1, <1>6 DEF Worse
<1>. QED
  BY <1>7 DEF S, L

\* What an honest report is to the evidence before it: no regression, and a breach exactly
\* when what was filled in between was worse than the limit.
LEMMA HonestLine ==
    ASSUME AveragesAreExact, NEW kind, NEW seen \in Evidence, NEW line \in Reports,
           NEW r \in [lots : Nat, cents : Nat], NEW b \in [lots : Nat, cents : Nat], b.lots <= Quantity,
           Told(seen, r), Tells(line, b), Since(r, b)
    PROVE  /\ ~Regressed(seen, line)
           /\ b.lots > 0 => line.raw \in Nat /\ line.raw * b.lots = b.cents * PriceScale /\ line.price \in Nat
                            /\ line.price = RoundedCents(line.raw)
           /\ b.lots = 0 => line.raw = None /\ line.price = None /\ r.lots = 0 /\ b.cents = 0
           /\ nextFillTotalLowerBound(seen, line) \in Nat /\ nextFillTotalLowerBound(seen, line) <= 2 * b.cents
           /\ (b.lots = 0 => nextFillTotalLowerBound(seen, line) = 0)
           /\ (entryFillTransitionBreachesLimit(kind, seen, line) <=> WorseSince(kind, r, b))
<1>. DEFINE n == b.lots
            c == b.cents
            m == r.lots
            e == r.cents
            S == PriceScale
            L == LimitPrice
            lower == nextFillTotalLowerBound(seen, line)
<1>1. n \in Nat /\ c \in Nat /\ m \in Nat /\ e \in Nat /\ S \in Nat \ {0} /\ L \in Nat /\ Quantity \in Nat
  BY EvidenceAssumption
<1>2. m <= n /\ e <= c /\ (m = n => e = c) /\ n <= Quantity
  BY DEF Since
<1>3. /\ seen.filled = m
      /\ m = 0 => e = 0 /\ seen.price = None /\ seen.raw = None /\ seen.lower = 0
      /\ m > 0 => /\ seen.raw \in Nat /\ seen.raw * m = e * S /\ seen.price = RoundedCents(seen.raw)
                  /\ seen.lower \in Nat /\ seen.lower <= 2 * e
  BY DEF Told
<1>4. line.filled = n /\ line.raw = Average(b)
      /\ line.price = IF n = 0 THEN None ELSE RoundedCents(Average(b))
  BY DEF Tells
<1>5. None = -1
  BY DEF None
<1>6. WorseSince(kind, r, b) <=> (m < n /\ Worse(kind, c - e, (n - m) * L))
  BY DEF WorseSince
<1>7. n > 0 => line.raw \in Nat /\ line.raw * n = c * S /\ line.price = RoundedCents(line.raw)
  BY <1>1, <1>2, <1>4, AverageIsExact
<1>8. CASE n = 0
  <2>1. line.raw = None /\ line.price = None /\ m = 0 /\ e = 0 /\ c = 0
    BY <1>1, <1>2, <1>3, <1>4, <1>8 DEF Average
  <2>2. line.filled = 0 /\ seen.filled = 0
    BY <1>3, <1>4, <1>8, <2>1
  <2>3. lower = seen.lower /\ seen.lower = 0
    BY <1>3, <2>1, <2>2 DEF nextFillTotalLowerBound
  <2>4. ~Regressed(seen, line)
    BY <1>5, <2>2, <2>3 DEF Regressed, exactFillEvidenceRegressed
  <2>5. ~entryFillTransitionBreachesLimit(kind, seen, line)
    BY <2>2 DEF entryFillTransitionBreachesLimit
  <2>. HIDE DEF lower
  <2>. QED
    BY <1>1, <1>6, <1>8, <2>1, <2>3, <2>4, <2>5 DEF lower
<1>9. CASE n > 0
  <2>. DEFINE p == line.price
              raw == line.raw
  <2>1. raw \in Nat /\ raw * n = c * S /\ p = RoundedCents(raw)
    BY <1>7, <1>9
  <2>2. /\ p \in Nat /\ n * (2 * p - 1) <= 2 * c /\ 2 * c < n * (2 * p + 1)
    BY <1>1, <1>9, <2>1, RoundingBrackets
  <2>. DEFINE low == roundedFillTotalLower(n, p)
              up == roundedFillTotalUpper(n, p)
  <2>3. low \in Nat /\ low <= 2 * c
    <3>1. CASE p = 0
      BY <1>1, <3>1 DEF roundedFillTotalLower
    <3>2. CASE p # 0
      <4>1. low = n * (2 * p - 1)
        BY <1>9, <3>2 DEF roundedFillTotalLower
      <4>2. 2 * p - 1 \in Nat
        <5>1. \A x \in Nat : x # 0 => 2 * x - 1 \in Nat
          OBVIOUS
        <5>. QED
          BY <2>2, <3>2, <5>1
      <4>3. n * (2 * p - 1) \in Nat
        BY <1>1, <4>2
      <4>. QED
        BY <2>2, <4>1, <4>3
    <3>. QED
      BY <3>1, <3>2
  <2>4. up = n * (2 * p + 1) /\ up \in Nat /\ up > 2 * c
    <3>1. n * (2 * p + 1) \in Nat
      BY <1>1, <2>2
    <3>. QED
      BY <2>2, <3>1 DEF roundedFillTotalUpper
  <2>5. CASE m = 0
    <3>1. seen.filled = 0 /\ line.filled = n /\ e = 0 /\ seen.lower = 0 /\ seen.raw = None /\ line.price = p
      BY <1>3, <1>4, <2>5
    <3>2. p # None /\ ~(up <= 0)
      BY <1>1, <1>5, <2>2, <2>4
    <3>3. lower = IF low > 0 THEN low ELSE 0
      <4>. HIDE DEF p
      <4>. QED
        BY <1>1, <1>9, <3>1, <3>2 DEF nextFillTotalLowerBound
    <3>4. lower \in Nat /\ lower <= 2 * c
      <4>. HIDE DEF low, lower
      <4>. QED
        BY <1>1, <2>3, <3>3
    <3>5. ~Regressed(seen, line)
      BY <1>5, <3>1, <3>4 DEF Regressed, exactFillEvidenceRegressed
    <3>6. raw # None /\ exactRawRoundsToCents(raw, p)
      BY <1>5, <2>1 DEF exactRawRoundsToCents
    <3>7. classifyBrokerFillPrice(kind, p, raw) = "BROKER_PRICE_BREACH" <=> Worse(kind, raw, L * S)
      <4>1. raw = L * S => ~Worse(kind, raw, L * S)
        <5>1. L * S \in Int
          BY <1>1
        <5>. QED
          BY <5>1 DEF Worse
      <4>. HIDE DEF p, raw
      <4>. QED
        BY <3>2, <3>6, <4>1 DEF classifyBrokerFillPrice
    <3>8. entryFillTransitionBreachesLimit(kind, seen, line) <=> Worse(kind, raw, L * S)
      BY <1>9, <3>1, <3>2, <3>7 DEF entryFillTransitionBreachesLimit
    <3>9. Worse(kind, raw, L * S) <=> Worse(kind, c, n * L)
      BY <1>1, <1>9, <2>1, AverageIsWorse
    <3>10. c - e = c /\ (n - m) * L = n * L
      BY <1>1, <2>5, <3>1
    <3>. HIDE DEF lower, p, raw
    <3>11. entryFillTransitionBreachesLimit(kind, seen, line) <=> WorseSince(kind, r, b)
      BY <1>6, <1>9, <2>5, <3>8, <3>9, <3>10
    <3>. QED
      BY <1>9, <2>1, <2>2, <3>4, <3>5, <3>11 DEF raw, p, lower
  <2>6. CASE m > 0
    <3>1. /\ seen.filled = m /\ line.filled = n /\ seen.raw \in Nat /\ seen.raw * m = e * S
          /\ seen.price = RoundedCents(seen.raw) /\ seen.lower \in Nat /\ seen.lower <= 2 * e
      BY <1>3, <1>4, <2>6
    <3>2. seen.price \in Nat /\ seen.price # None /\ p # None /\ raw # None /\ seen.raw # None
      <4>1. seen.price \in Nat
        BY <1>1, <2>6, <3>1, RoundingBrackets
      <4>. QED
        BY <1>5, <2>1, <2>2, <3>1, <4>1
    <3>3. CASE m = n
      <4>1. e = c /\ seen.raw * n = raw * n
        BY <1>2, <2>1, <3>1, <3>3
      <4>2. seen.raw = raw /\ seen.price = p
        <5>. DEFINE x == seen.raw
        <5>1. x \in Int /\ raw \in Int /\ n \in Nat \ {0} /\ x * n = raw * n
          BY <1>1, <1>9, <2>1, <3>1, <4>1
        <5>. HIDE DEF x, raw, p
        <5>2. x = raw
          BY <5>1, CancelEqual
        <5>3. seen.raw = x
          BY DEF x
        <5>. QED
          BY <2>1, <3>1, <5>2, <5>3
      <4>3. lower = seen.lower
        BY <1>1, <1>9, <3>1, <3>2, <3>3, <4>2 DEF nextFillTotalLowerBound
      <4>4. lower \in Nat /\ lower # None /\ lower <= 2 * c
        <5>. HIDE DEF lower
        <5>. QED
          BY <1>5, <3>1, <4>1, <4>3
      <4>5. ~Regressed(seen, line)
        BY <3>1, <3>2, <3>3, <4>2, <4>4 DEF Regressed, exactFillEvidenceRegressed
      <4>6. ~entryFillTransitionBreachesLimit(kind, seen, line) /\ ~WorseSince(kind, r, b)
        BY <1>1, <1>6, <3>1, <3>3 DEF entryFillTransitionBreachesLimit
      <4>. HIDE DEF lower, p, raw
      <4>. QED
        BY <1>9, <2>1, <2>2, <4>4, <4>5, <4>6 DEF raw, p, lower
    <3>4. CASE m < n
      <4>1. ~(up <= seen.lower)
        BY <1>1, <1>2, <2>4, <3>1
      <4>2. lower = IF low > seen.lower THEN low ELSE seen.lower
        <5>1. ~(n < m) /\ n >= m /\ n > 0 /\ n # m
          BY <1>1, <3>4, <1>9
        <5>. HIDE DEF p
        <5>. QED
          BY <3>1, <3>2, <4>1, <5>1 DEF nextFillTotalLowerBound, p
      <4>3. lower \in Nat /\ lower <= 2 * c
        <5>. HIDE DEF low, lower
        <5>. QED
          BY <1>1, <1>2, <2>3, <3>1, <4>2
      <4>4. raw * n \in Int /\ seen.raw * m \in Int /\ n * raw = raw * n /\ m * seen.raw = seen.raw * m
        BY <1>1, <2>1, <3>1
      <4>5. ~(n * raw < m * seen.raw)
        <5>1. ~(c * S < e * S)
          BY <1>1, <1>2, CancelLess
        <5>. QED
          BY <2>1, <3>1, <4>4, <5>1
      <4>6. ~Regressed(seen, line)
        <5>1. lower # None
          <6>. HIDE DEF lower
          <6>. QED
            BY <1>5, <4>3
        <5>2. ~(line.filled * line.raw < seen.filled * seen.raw) /\ line.filled # seen.filled
          BY <1>1, <3>1, <3>4, <4>5
        <5>. QED
          BY <3>2, <5>1, <5>2 DEF Regressed, exactFillEvidenceRegressed
      <4>7. entryFillTransitionBreachesLimit(kind, seen, line)
              <=> Worse(kind, n * raw - m * seen.raw, (n - m) * L * S)
        <5>1. line.filled > seen.filled /\ seen.filled # 0
          BY <1>1, <2>6, <3>1, <3>4
        <5>. QED
          BY <3>1, <3>2, <5>1 DEF entryFillTransitionBreachesLimit
      <4>8. n * raw - m * seen.raw = (c - e) * S
        <5>1. (c - e) * S = c * S - e * S
          BY <1>1
        <5>. QED
          BY <2>1, <3>1, <4>4, <5>1
      <4>9. Worse(kind, (c - e) * S, (n - m) * L * S) <=> Worse(kind, c - e, (n - m) * L)
        <5>1. c - e \in Int /\ (n - m) * L \in Int
          BY <1>1
        <5>2. /\ (c - e) * S < ((n - m) * L) * S <=> c - e < (n - m) * L
              /\ ((n - m) * L) * S < (c - e) * S <=> (n - m) * L < c - e
          BY <1>1, <5>1, CancelLess
        <5>. DEFINE x == c - e
                    y == (n - m) * L
                    u == (c - e) * S
                    v == (n - m) * L * S
        <5>3. x \in Int /\ y \in Int /\ u \in Int /\ v \in Int /\ (u < v <=> x < y) /\ (v < u <=> y < x)
          BY <1>1, <5>1, <5>2
        <5>. HIDE DEF x, y, u, v
        <5>4. Worse(kind, u, v) <=> Worse(kind, x, y)
          BY <5>3 DEF Worse
        <5>. QED
          BY <5>4 DEF x, y, u, v
      <4>10. entryFillTransitionBreachesLimit(kind, seen, line) <=> WorseSince(kind, r, b)
        BY <1>6, <3>4, <4>7, <4>8, <4>9
      <4>. HIDE DEF lower, p, raw
      <4>. QED
        BY <1>9, <2>1, <2>2, <4>3, <4>6, <4>10 DEF raw, p, lower
    <3>. QED
      BY <1>1, <1>2, <3>3, <3>4
  <2>. QED
    BY <1>1, <2>5, <2>6
<1>. QED
  BY <1>1, <1>8, <1>9

(***************************************************************************)
(* The honest broker's evidence, as the fold has it.                       *)
(***************************************************************************)
Unworsened(a) == Worse(a.limitKind, a.reported.cents, a.reported.lots * LimitPrice) => a.worse
Believed(a) ==
    /\ a.fold.ok /\ (a.fold.priceBreach <=> a.worse)
    /\ a.booked.lots <= Quantity /\ (a.booked.lots = 0 => a.booked.cents = 0) /\ Since(a.reported, a.booked)
    /\ Told(a.fold.seen, a.reported) /\ Unworsened(a)
    /\ a.fold.state = "none" => a.booked.lots = 0 /\ ~a.ended
    /\ ~a.ended => ~isTerminalEntryState(a.fold.state)
BeliefInv == AuditInv /\ (audit # NoAudit /\ audit.honest => Believed(audit))

LEMMA UnworsenedAfter ==
    ASSUME NEW kind, NEW r \in [lots : Nat, cents : Nat], NEW b \in [lots : Nat, cents : Nat], Since(r, b),
           Worse(kind, b.cents, b.lots * LimitPrice), ~Worse(kind, r.cents, r.lots * LimitPrice)
    PROVE  WorseSince(kind, r, b)
<1>. DEFINE n == b.lots
            c == b.cents
            m == r.lots
            e == r.cents
            L == LimitPrice
<1>1. n \in Nat /\ c \in Nat /\ m \in Nat /\ e \in Nat /\ L \in Nat /\ m <= n /\ e <= c /\ (m = n => e = c)
  BY EvidenceAssumption DEF Since
<1>. HIDE DEF n, c, m, e, L
<1>2. (n - m) * L = n * L - m * L /\ n * L \in Nat /\ m * L \in Nat
  BY <1>1
<1>3. Worse(kind, c, n * L) /\ ~Worse(kind, e, m * L)
  BY DEF n, c, m, e, L
<1>4. m # n
  BY <1>1, <1>3
<1>5. (kind = "debit" => c > n * L /\ ~(e > m * L)) /\ (kind # "debit" => c < n * L /\ ~(e < m * L))
  BY <1>3 DEF Worse
<1>6. (kind = "debit" => c - e > n * L - m * L) /\ (kind # "debit" => c - e < n * L - m * L)
  BY <1>1, <1>2, <1>5
<1>7. Worse(kind, c - e, (n - m) * L)
  BY <1>2, <1>6 DEF Worse
<1>8. m < n
  BY <1>1, <1>4
<1>. QED
  BY <1>7, <1>8 DEF WorseSince, n, c, m, e, L

LEMMA BeliefInitially == EvidenceInit => BeliefInv
<1>. SUFFICES ASSUME EvidenceInit PROVE Believed(audit)
  BY AuditInitially DEF BeliefInv
<1>1. PICK kind \in {"debit", "credit"}, honest \in BOOLEAN :
        audit = [limitKind |-> kind, honest |-> honest, fold |-> Absent, unresolved |-> Unknown,
                 booked |-> NoLots, reported |-> NoLots, worse |-> FALSE, ended |-> FALSE, lines |-> 0]
  BY DEF EvidenceInit
<1>2. /\ audit.fold = Absent /\ audit.booked = NoLots /\ audit.reported = NoLots /\ ~audit.worse /\ ~audit.ended
      /\ audit.limitKind = kind
  BY <1>1
<1>3. Absent.ok /\ ~Absent.priceBreach /\ Absent.seen = NoEvidence /\ Absent.state = "none"
  BY DEF Absent
<1>4. NoLots.lots = 0 /\ NoLots.cents = 0
  BY DEF NoLots
<1>5. Told(NoEvidence, NoLots)
  BY <1>4 DEF Told, NoEvidence
<1>6. Since(NoLots, NoLots) /\ 0 <= Quantity
  BY <1>4, EvidenceAssumption DEF Since
<1>7. ~Worse(kind, 0, 0 * LimitPrice)
  BY EvidenceAssumption DEF Worse
<1>. QED
  BY <1>2, <1>3, <1>4, <1>5, <1>6, <1>7 DEF Believed, Unworsened, isTerminalEntryState

\* The state after an honest report.
LEMMA HonestReport ==
    ASSUME AveragesAreExact, BeliefInv, audit # NoAudit, audit.honest, audit.fold.state # "none",
           NEW line \in Reports, Tells(line, audit.booked),
           NEW b, Audited(b), b.limitKind = audit.limitKind, b.booked = audit.booked, b.reported = audit.booked,
           b.worse <=> audit.worse \/ ReallyWorse,
           b.fold.ok, b.fold.seen \in Evidence, b.fold.seen.filled = line.filled,
           line.filled > 0 => b.fold.seen.price = line.price /\ b.fold.seen.raw = line.raw,
           line.filled = 0 => b.fold.seen.price = None /\ b.fold.seen.raw = None,
           b.fold.seen.lower = nextFillTotalLowerBound(audit.fold.seen, line),
           b.fold.state # "none", ~b.ended => ~isTerminalEntryState(b.fold.state),
           NEW flagged \in BOOLEAN,
           flagged => Worse(audit.limitKind, audit.booked.cents, audit.booked.lots * LimitPrice),
           b.fold.priceBreach <=> (\/ audit.fold.priceBreach \/ flagged
                                   \/ entryFillTransitionBreachesLimit(audit.limitKind, audit.fold.seen, line))
    PROVE  Believed(b)
<1>1. Believed(audit) /\ Audited(audit) /\ Agreeing(audit.fold, audit.unresolved)
  BY DEF BeliefInv, AuditInv
<1>2. audit.fold.seen \in Evidence
  BY <1>1 DEF Believed, Agreeing, Folds
<1>3. audit.booked \in [lots : Nat, cents : Nat] /\ audit.reported \in [lots : Nat, cents : Nat]
  BY <1>1 DEF Audited
<1>4. /\ audit.booked.lots <= Quantity /\ Told(audit.fold.seen, audit.reported)
      /\ Since(audit.reported, audit.booked) /\ Unworsened(audit)
      /\ (audit.fold.priceBreach <=> audit.worse)
  BY <1>1 DEF Believed
<1>5. /\ audit.booked.lots > 0 =>
            line.raw \in Nat /\ line.raw * audit.booked.lots = audit.booked.cents * PriceScale /\ line.price \in Nat
              /\ line.price = RoundedCents(line.raw)
      /\ audit.booked.lots = 0 => line.raw = None /\ line.price = None /\ audit.booked.cents = 0
      /\ nextFillTotalLowerBound(audit.fold.seen, line) \in Nat
      /\ nextFillTotalLowerBound(audit.fold.seen, line) <= 2 * audit.booked.cents
      /\ (audit.booked.lots = 0 => nextFillTotalLowerBound(audit.fold.seen, line) = 0)
      /\ (entryFillTransitionBreachesLimit(audit.limitKind, audit.fold.seen, line)
            <=> WorseSince(audit.limitKind, audit.reported, audit.booked))
  <2>. DEFINE kind == audit.limitKind
              seen == audit.fold.seen
              r == audit.reported
              n == audit.booked
  <2>1. /\ seen \in Evidence /\ r \in [lots : Nat, cents : Nat] /\ n \in [lots : Nat, cents : Nat]
        /\ n.lots <= Quantity /\ Told(seen, r) /\ Tells(line, n) /\ Since(r, n)
    BY <1>2, <1>3, <1>4
  <2>. HIDE DEF kind, seen, r, n
  <2>2. /\ ~Regressed(seen, line)
        /\ n.lots > 0 => line.raw \in Nat /\ line.raw * n.lots = n.cents * PriceScale /\ line.price \in Nat
                         /\ line.price = RoundedCents(line.raw)
        /\ n.lots = 0 => line.raw = None /\ line.price = None /\ r.lots = 0 /\ n.cents = 0
        /\ nextFillTotalLowerBound(seen, line) \in Nat /\ nextFillTotalLowerBound(seen, line) <= 2 * n.cents
        /\ (n.lots = 0 => nextFillTotalLowerBound(seen, line) = 0)
        /\ (entryFillTransitionBreachesLimit(kind, seen, line) <=> WorseSince(kind, r, n))
    BY <2>1, HonestLine
  <2>. QED
    BY <2>2, Zenon DEF kind, seen, r, n
<1>6. line.filled = audit.booked.lots
  BY DEF Tells
<1>7. ReallyWorse <=> WorseSince(audit.limitKind, audit.reported, audit.booked)
  <2>1. audit.booked.lots > audit.reported.lots <=> audit.reported.lots < audit.booked.lots
    BY <1>3
  <2>. QED
    BY <2>1 DEF ReallyWorse, WorseSince
<1>8. Worse(audit.limitKind, audit.booked.cents, audit.booked.lots * LimitPrice) => audit.worse \/ ReallyWorse
  <2>. SUFFICES ASSUME Worse(audit.limitKind, audit.booked.cents, audit.booked.lots * LimitPrice), ~audit.worse
       PROVE ReallyWorse
    OBVIOUS
  <2>1. ~Worse(audit.limitKind, audit.reported.cents, audit.reported.lots * LimitPrice)
    BY <1>4 DEF Unworsened
  <2>2. WorseSince(audit.limitKind, audit.reported, audit.booked)
    BY <1>3, <1>4, <2>1, UnworsenedAfter
  <2>. QED
    BY <1>7, <2>2
<1>9. b.fold.priceBreach <=> b.worse
  BY <1>4, <1>5, <1>7, <1>8
<1>10. Told(b.fold.seen, b.reported)
  <2>1. b.fold.seen.filled = audit.booked.lots
    BY <1>6
  <2>2. audit.booked.lots = 0 =>
          b.fold.seen.price = None /\ b.fold.seen.raw = None /\ b.fold.seen.lower = 0 /\ audit.booked.cents = 0
    BY <1>5, <1>6
  <2>3. audit.booked.lots > 0 =>
          /\ b.fold.seen.raw \in Nat /\ b.fold.seen.raw * audit.booked.lots = audit.booked.cents * PriceScale
          /\ b.fold.seen.price = RoundedCents(b.fold.seen.raw)
          /\ b.fold.seen.lower \in Nat /\ b.fold.seen.lower <= 2 * audit.booked.cents
    BY <1>5, <1>6
  <2>. QED
    BY <2>1, <2>2, <2>3 DEF Told
<1>11. Since(b.reported, b.booked)
  BY <1>3 DEF Since
<1>12. Unworsened(b)
  BY <1>8 DEF Unworsened
<1>13. b.booked.lots <= Quantity /\ (b.booked.lots = 0 => b.booked.cents = 0)
  BY <1>4, <1>5
<1>. QED
  BY <1>9, <1>10, <1>11, <1>12, <1>13 DEF Believed

LEMMA HonestTells ==
    ASSUME AveragesAreExact, Audited(audit), audit.booked.lots <= Quantity, NEW kind, NEW id, NEW flagged
    PROVE  LET line == Line(kind, audit.booked.lots, AverageRaw, id, flagged)
           IN  /\ Tells(line, audit.booked) /\ Sound(line) /\ ((line.filled = 0) = (line.price = None))
               /\ line.kind = kind /\ line.brokerOrderId = id /\ line.flagged = flagged
               /\ line.price = Price
               /\ audit.booked.lots > 0 => line.price # None /\ line.raw # None
<1>. DEFINE line == Line(kind, audit.booked.lots, AverageRaw, id, flagged)
            price == IF AverageRaw = None THEN None ELSE RoundedCents(AverageRaw)
<1>1. /\ line.kind = kind /\ line.filled = audit.booked.lots /\ line.raw = AverageRaw /\ line.brokerOrderId = id
      /\ line.flagged = flagged /\ line.price = price
  BY DEF Line
<1>2. AverageRaw = Average(audit.booked) /\ audit.booked \in [lots : Nat, cents : Nat]
  BY DEF AverageRaw, Average, Audited
<1>. HIDE DEF line, price
<1>3. CASE audit.booked.lots = 0
  <2>1. AverageRaw = None /\ price = None /\ Price = None
    BY <1>3 DEF AverageRaw, Price, price
  <2>2. (line.price = None) /\ (line.raw = None) /\ (line.filled = 0)
    BY <1>1, <1>3, <2>1
  <2>. QED
    BY <1>1, <1>2, <1>3, <2>1, <2>2 DEF Tells, Sound, line
<1>4. CASE audit.booked.lots > 0
  <2>1. AverageRaw \in Nat /\ AverageRaw * audit.booked.lots = audit.booked.cents * PriceScale
    BY <1>2, <1>4, AverageIsExact
  <2>2. RoundedCents(AverageRaw) \in Nat
    BY <1>2, <1>4, <2>1, RoundingBrackets
  <2>3. AverageRaw # None /\ RoundedCents(AverageRaw) # None /\ price = RoundedCents(AverageRaw)
    BY <2>1, <2>2 DEF None, price
  <2>4. ~(line.price = None) /\ ~(line.raw = None) /\ ~(line.filled = 0) /\ audit.booked.lots # 0
    BY <1>1, <1>2, <1>4, <2>3
  <2>5. Price = RoundedCents(AverageRaw)
    BY <2>4 DEF Price
  <2>6. Tells(line, audit.booked)
    BY <1>1, <1>2, <2>3, <2>4 DEF Tells
  <2>. QED
    BY <1>1, <2>3, <2>4, <2>5, <2>6 DEF Sound, line
<1>. QED
  BY <1>2, <1>3, <1>4

LEMMA WorkingBelieved ==
    ASSUME AveragesAreExact, BeliefInv, WorkingReport
    PROVE  Believed(audit')
<1>1. /\ audit # NoAudit /\ audit.honest /\ audit.fold.state # "none" /\ ~audit.ended
      /\ Believed(audit) /\ Audited(audit) /\ Agreeing(audit.fold, audit.unresolved)
  BY DEF WorkingReport, BeliefInv, AuditInv
<1>2. PICK kind \in {"MATCHED_WORKING", "ACKNOWLEDGED_WORKING"}, id \in BrokerIds :
        /\ kind = "ACKNOWLEDGED_WORKING" => audit.fold.state \in {"intent", "fillable"}
        /\ audit.fold.seen.brokerOrderId \in {None, id}
        /\ audit' = Reported(Line(kind, audit.booked.lots, AverageRaw, id, FALSE))
  BY DEF WorkingReport
<1>. DEFINE line == Line(kind, audit.booked.lots, AverageRaw, id, FALSE)
            fold == audit.fold
            new == applyWorking(audit.limitKind, fold, line)
            b == Reported(line)
<1>3. /\ fold.ok /\ fold \in Folds /\ fold.seen \in Evidence /\ Priceless(fold.seen) /\ ~isTerminalEntryState(fold.state)
      /\ audit.booked.lots <= Quantity /\ Since(audit.reported, audit.booked) /\ Told(fold.seen, audit.reported)
      /\ audit.booked \in [lots : Nat, cents : Nat] /\ audit.reported \in [lots : Nat, cents : Nat]
  BY <1>1 DEF Believed, Agreeing, SameStory, Folds, Audited
<1>4. line \in Reports
  <2>1. AverageRaw \in Int /\ audit.booked.lots \in Nat
    BY <1>1, <1>3, AverageIsRaw
  <2>. QED
    BY <2>1, NoneIsRead, LineIsReport
<1>5. /\ Tells(line, audit.booked) /\ Sound(line) /\ ((line.filled = 0) = (line.price = None))
      /\ line.kind = kind /\ line.brokerOrderId = id
      /\ audit.booked.lots > 0 => line.price # None /\ line.raw # None
  <2>. DEFINE told == FALSE
              said == Line(kind, audit.booked.lots, AverageRaw, id, told)
  <2>1. said = line
    OBVIOUS
  <2>. HIDE DEF told, line
  <2>2. /\ Tells(said, audit.booked) /\ Sound(said) /\ ((said.filled = 0) = (said.price = None))
        /\ said.kind = kind /\ said.brokerOrderId = id
        /\ audit.booked.lots > 0 => said.price # None /\ said.raw # None
    BY <1>1, <1>3, HonestTells
  <2>. HIDE DEF said
  <2>. QED
    BY <2>1, <2>2
<1>6. /\ Audited(b) /\ b.fold = foldLifecycles(audit.limitKind, audit.fold, line)
      /\ b.limitKind = audit.limitKind /\ b.honest = audit.honest /\ b.booked = audit.booked
      /\ b.reported = audit.booked /\ (b.worse <=> audit.worse \/ ReallyWorse) /\ b.ended = audit.ended
  BY <1>1, <1>4, ReportedAgrees
<1>7. audit' = b
  BY <1>2
<1>. HIDE DEF line, b
<1>8. b.fold = new
  <2>1. line.kind \in {"ACKNOWLEDGED_WORKING", "MATCHED_WORKING"}
    BY <1>2, <1>5
  <2>. QED
    BY <1>1, <1>3, <1>6, <2>1 DEF foldLifecycles, OutcomeStatus
<1>9. line.filled = audit.booked.lots /\ line.filled \in Nat
  BY <1>3, <1>5 DEF Tells
<1>10. new.ok
  <2>. DEFINE bad == \/ isTerminalEntryState(fold.state) \/ ~workingEvidence(line)
                     \/ line.filled > Quantity \/ Regressed(fold.seen, line) \/ ~IdentityKept(fold.seen, line)
                     \/ line.kind = "ACKNOWLEDGED_WORKING" /\ fold.state \notin {"intent", "fillable"}
  <2>1. workingEvidence(line)
    BY <1>2, <1>5, EvidenceAssumption DEF workingEvidence
  <2>2. ~(line.filled > Quantity)
    BY <1>3, <1>9, EvidenceAssumption
  <2>3. ~Regressed(fold.seen, line)
    BY <1>3, <1>4, <1>5, HonestLine
  <2>4. IdentityKept(fold.seen, line)
    BY <1>2, <1>5 DEF IdentityKept
  <2>5. ~bad
    BY <1>2, <1>3, <1>5, <2>1, <2>2, <2>3, <2>4
  <2>. HIDE DEF bad
  <2>6. applyWorking(audit.limitKind, fold, line)
          = IF bad THEN Failed
            ELSE [ok |-> TRUE,
                  state |-> IF line.kind = "ACKNOWLEDGED_WORKING" \/ fold.state = "fillable"
                            THEN "fillable" ELSE "confirmation_unclear",
                  seen |-> WorkingSeen(fold.seen, line),
                  priceBreach |-> fold.priceBreach
                                    \/ entryFillTransitionBreachesLimit(audit.limitKind, fold.seen, line)]
    BY Zenon DEF applyWorking, bad
  <2>7. new = [ok |-> TRUE,
               state |-> IF line.kind = "ACKNOWLEDGED_WORKING" \/ fold.state = "fillable"
                         THEN "fillable" ELSE "confirmation_unclear",
               seen |-> WorkingSeen(fold.seen, line),
               priceBreach |-> fold.priceBreach
                                 \/ entryFillTransitionBreachesLimit(audit.limitKind, fold.seen, line)]
    BY <2>5, <2>6, Zenon
  <2>. QED
    BY <2>7
<1>11. /\ new.state \in {"fillable", "confirmation_unclear"} /\ new.seen = WorkingSeen(fold.seen, line)
       /\ new.seen \in Evidence
       /\ new.priceBreach <=> (fold.priceBreach \/ entryFillTransitionBreachesLimit(audit.limitKind, fold.seen, line))
  <2>1. /\ new.state = IF line.kind = "ACKNOWLEDGED_WORKING" \/ fold.state = "fillable"
                       THEN "fillable" ELSE "confirmation_unclear"
        /\ new.seen = WorkingSeen(fold.seen, line) /\ WorkingSeen(fold.seen, line) \in Evidence
        /\ new.priceBreach <=> (fold.priceBreach \/ entryFillTransitionBreachesLimit(audit.limitKind, fold.seen, line))
    BY <1>3, <1>4, <1>10, WorkingApplied
  <2>. HIDE DEF new
  <2>. QED
    BY <2>1
<1>12. /\ new.seen.filled = line.filled
       /\ new.seen.price = IF line.price = None THEN fold.seen.price ELSE line.price
       /\ new.seen.raw = IF line.raw = None THEN fold.seen.raw ELSE line.raw
       /\ new.seen.lower = nextFillTotalLowerBound(fold.seen, line)
  <2>. HIDE DEF new
  <2>. QED
    BY <1>11 DEF WorkingSeen
<1>13. line.filled > 0 => new.seen.price = line.price /\ new.seen.raw = line.raw
  BY <1>5, <1>9, <1>12
<1>14. line.filled = 0 => new.seen.price = None /\ new.seen.raw = None
  <2>. SUFFICES ASSUME line.filled = 0 PROVE new.seen.price = None /\ new.seen.raw = None
    OBVIOUS
  <2>1. audit.reported.lots = 0 /\ fold.seen.price = None /\ fold.seen.raw = None
    BY <1>3, <1>9 DEF Since, Told
  <2>2. line.price = None /\ line.raw = None
    BY <1>5, <1>9 DEF Tells, Average
  <2>. QED
    BY <1>12, <2>1, <2>2
<1>15. b.fold.ok /\ b.fold.seen \in Evidence /\ b.fold.state # "none" /\ ~isTerminalEntryState(b.fold.state)
  BY <1>8, <1>10, <1>11 DEF isTerminalEntryState
<1>16. b.fold.priceBreach <=> (\/ audit.fold.priceBreach \/ FALSE
                               \/ entryFillTransitionBreachesLimit(audit.limitKind, audit.fold.seen, line))
  BY <1>8, <1>11
<1>. HIDE DEF new
<1>17. Believed(b)
  BY <1>1, <1>4, <1>5, <1>6, <1>8, <1>12, <1>13, <1>14, <1>15, <1>16, HonestReport
<1>. QED
  BY <1>7, <1>17

LEMMA BreachIsWorse ==
    ASSUME AveragesAreExact, Audited(audit), audit.booked.lots <= Quantity, Breach
    PROVE  Worse(audit.limitKind, audit.booked.cents, audit.booked.lots * LimitPrice)
<1>1. audit.booked \in [lots : Nat, cents : Nat] /\ AverageRaw = Average(audit.booked)
  BY DEF Audited, AverageRaw, Average
<1>2. Price # None /\ AverageRaw # None
  BY DEF Breach, classifyBrokerFillPrice
<1>3. audit.booked.lots > 0
  BY <1>1, <1>2 DEF Average
<1>4. AverageRaw \in Nat /\ AverageRaw * audit.booked.lots = audit.booked.cents * PriceScale
  BY <1>1, <1>3, AverageIsExact
<1>5. Worse(audit.limitKind, AverageRaw, LimitPrice * PriceScale)
  BY DEF Breach, classifyBrokerFillPrice
<1>6. audit.booked.lots \in Nat /\ audit.booked.cents \in Nat
  BY <1>1
<1>. QED
  BY <1>3, <1>4, <1>5, <1>6, AverageIsWorse

LEMMA TerminalBelieved ==
    ASSUME AveragesAreExact, BeliefInv, TerminalReport
    PROVE  audit.honest /\ Believed(audit')
<1>1. /\ audit # NoAudit /\ audit.honest /\ audit.fold.state # "none" /\ ~audit.ended
      /\ Believed(audit) /\ Audited(audit) /\ Agreeing(audit.fold, audit.unresolved)
  BY DEF TerminalReport, BeliefInv, AuditInv
<1>2. PICK id \in BrokerIds :
              /\ audit.fold.seen.brokerOrderId \in {None, id}
              /\ audit' = [Reported(Line(Status, audit.booked.lots, AverageRaw, id, Breach)) EXCEPT !.ended = TRUE]
              /\ Line(Status, audit.booked.lots, AverageRaw, id, Breach) \in Reports
  BY <1>1, TerminalLine
<1>. DEFINE flagged == Breach
            line == Line(Status, audit.booked.lots, AverageRaw, id, flagged)
            fold == audit.fold
            new == applyOutcomeToEntry(audit.limitKind, fold, line)
            b == [Reported(line) EXCEPT !.ended = TRUE]
<1>3. /\ fold.ok /\ fold \in Folds /\ fold.seen \in Evidence /\ Priceless(fold.seen) /\ ~isTerminalEntryState(fold.state)
      /\ audit.booked.lots <= Quantity /\ Since(audit.reported, audit.booked) /\ Told(fold.seen, audit.reported)
      /\ audit.booked \in [lots : Nat, cents : Nat] /\ audit.reported \in [lots : Nat, cents : Nat]
      /\ Quantity \in Nat \ {0}
  BY <1>1, EvidenceAssumption DEF Believed, Agreeing, SameStory, Folds, Audited
<1>4. flagged \in BOOLEAN
  BY Zenon DEF Breach
<1>5. flagged => Worse(audit.limitKind, audit.booked.cents, audit.booked.lots * LimitPrice)
  BY <1>1, <1>3, BreachIsWorse
<1>6. audit' = b /\ line \in Reports
  BY <1>2
<1>. HIDE DEF flagged
<1>7. /\ Tells(line, audit.booked) /\ Sound(line)
      /\ line.kind = Status /\ line.brokerOrderId = id /\ line.flagged = flagged
      /\ audit.booked.lots > 0 => line.price # None /\ line.raw # None
  BY <1>1, <1>3, HonestTells
<1>8. /\ Audited(b) /\ b.fold = foldLifecycles(audit.limitKind, audit.fold, line)
      /\ b.limitKind = audit.limitKind /\ b.honest = audit.honest /\ b.booked = audit.booked
      /\ b.reported = audit.booked /\ (b.worse <=> audit.worse \/ ReallyWorse)
      /\ b.ended = TRUE
  BY <1>1, <1>6, TerminalAgrees
<1>. HIDE DEF line, b
<1>9. line.filled = audit.booked.lots /\ line.filled \in Nat
      /\ (line.filled = 0 => line.price = None /\ line.raw = None)
  BY <1>3, <1>7 DEF Tells, Average
<1>10. /\ line.kind \in {"filled", "partially_filled", "canceled"}
       /\ line.kind = "filled" <=> line.filled = Quantity
       /\ line.kind = "partially_filled" <=> line.filled > 0 /\ line.filled # Quantity
  BY <1>3, <1>7, <1>9 DEF Status
<1>11. IdentityKept(fold.seen, line)
  BY <1>2, <1>7 DEF IdentityKept
<1>12. b.fold = new
  BY <1>1, <1>3, <1>8, <1>10, <1>11 DEF foldLifecycles, OutcomeStatus
<1>13. new.ok
  <2>. DEFINE bad == \/ ~outcomeEvidence(line)
                     \/ line.filled > Quantity \/ Regressed(fold.seen, line)
                     \/ line.kind = "filled" /\ line.filled # Quantity
                     \/ line.kind = "partially_filled" /\ line.filled >= Quantity
  <2>1. outcomeEvidence(line)
    <3>1. id # None
      BY EvidenceAssumption
    <3>2. line.filled > 0 => line.filled >= 1
      BY <1>9
    <3>3. line.filled = 0 \/ line.filled > 0
      BY <1>9
    <3>. QED
      BY <1>3, <1>7, <1>9, <1>10, <3>1, <3>2, <3>3 DEF outcomeEvidence, OutcomeStatus
  <2>2. ~(line.filled > Quantity) /\ (line.filled # Quantity => ~(line.filled >= Quantity))
    BY <1>3, <1>9
  <2>3. ~Regressed(fold.seen, line)
    BY <1>3, <1>6, <1>7, HonestLine
  <2>4. ~bad
    BY <1>10, <2>1, <2>2, <2>3
  <2>. HIDE DEF bad
  <2>5. new = IF bad THEN Failed
              ELSE [ok |-> TRUE, state |-> IF line.kind = "partially_filled" THEN "filled" ELSE line.kind,
                    seen |-> [filled |-> line.filled, price |-> line.price, raw |-> line.raw,
                              lower |-> nextFillTotalLowerBound(fold.seen, line),
                              brokerOrderId |-> line.brokerOrderId],
                    priceBreach |-> fold.priceBreach \/ line.flagged
                                      \/ entryFillTransitionBreachesLimit(audit.limitKind, fold.seen, line)]
    BY Zenon DEF applyOutcomeToEntry, bad
  <2>6. new = [ok |-> TRUE, state |-> IF line.kind = "partially_filled" THEN "filled" ELSE line.kind,
               seen |-> [filled |-> line.filled, price |-> line.price, raw |-> line.raw,
                         lower |-> nextFillTotalLowerBound(fold.seen, line),
                         brokerOrderId |-> line.brokerOrderId],
               priceBreach |-> fold.priceBreach \/ line.flagged
                                 \/ entryFillTransitionBreachesLimit(audit.limitKind, fold.seen, line)]
    BY <2>4, <2>5, Zenon
  <2>. QED
    BY <2>6
<1>14. /\ new.state = IF line.kind = "partially_filled" THEN "filled" ELSE line.kind
       /\ new.seen = Merged(fold.seen, line) /\ ~Regressed(fold.seen, line)
       /\ new.priceBreach <=> (fold.priceBreach \/ line.flagged
                                 \/ entryFillTransitionBreachesLimit(audit.limitKind, fold.seen, line))
  <2>1. line.kind \in OutcomeStatus
    BY <1>10 DEF OutcomeStatus
  <2>. QED
    BY <1>3, <1>6, <1>11, <1>13, <2>1, OutcomeApplied
<1>. HIDE DEF new
<1>15. new.seen = [filled |-> line.filled, price |-> line.price, raw |-> line.raw,
                   lower |-> nextFillTotalLowerBound(fold.seen, line), brokerOrderId |-> line.brokerOrderId]
       /\ new.seen \in Evidence
  BY <1>3, <1>6, <1>11, <1>14, MergedIsRead
<1>16. /\ b.fold.seen.filled = line.filled /\ b.fold.seen.price = line.price /\ b.fold.seen.raw = line.raw
       /\ b.fold.seen.lower = nextFillTotalLowerBound(audit.fold.seen, line)
  BY <1>12, <1>15
<1>17. b.fold.ok /\ b.fold.seen \in Evidence /\ b.fold.state # "none"
  BY <1>10, <1>12, <1>13, <1>14, <1>15
<1>18. b.fold.priceBreach <=> (\/ audit.fold.priceBreach \/ flagged
                               \/ entryFillTransitionBreachesLimit(audit.limitKind, audit.fold.seen, line))
  BY <1>7, <1>12, <1>14
<1>19. Believed(b)
  BY <1>1, <1>4, <1>5, <1>6, <1>7, <1>8, <1>9, <1>16, <1>17, <1>18, HonestReport
<1>. QED
  BY <1>1, <1>6, <1>19

LEMMA BeliefStep == AveragesAreExact /\ BeliefInv /\ [EvidenceNext]_audit => BeliefInv'
<1>. SUFFICES ASSUME AveragesAreExact, BeliefInv, [EvidenceNext]_audit, audit' # NoAudit, audit'.honest
     PROVE Believed(audit')
  BY AuditStep DEF BeliefInv
<1>1. CASE AnyLine
  <2>1. PICK line \in Lines : audit' = [Read(audit, line) EXCEPT !.lines = @ + 1]
    BY <1>1 DEF AnyLine
  <2>2. ~audit.honest /\ Audited(audit)
    BY <1>1 DEF AnyLine, BeliefInv, AuditInv
  <2>3. audit'.honest = audit.honest
    BY <2>1, <2>2 DEF Read, Audited
  <2>. QED
    BY <2>2, <2>3
<1>2. CASE HonestIntent
  <2>. DEFINE line == Line("INTENT", 0, None, None, FALSE)
              b == Read(audit, line)
  <2>1. /\ audit' = b /\ audit.fold.state = "none" /\ Believed(audit)
        /\ Audited(audit) /\ Agreeing(audit.fold, audit.unresolved)
    BY <1>2 DEF HonestIntent, BeliefInv, AuditInv
  <2>2. line \in Reports /\ line.kind = "INTENT"
    BY NoneIsRead, LineIsReport DEF Line
  <2>. HIDE DEF line
  <2>3. /\ b.fold = foldLifecycles(audit.limitKind, audit.fold, line)
        /\ b.limitKind = audit.limitKind /\ b.booked = audit.booked /\ b.reported = audit.reported
        /\ b.worse = audit.worse /\ b.ended = audit.ended
    BY <2>1, <2>2, ReadAgrees
  <2>. HIDE DEF b
  <2>4. b.fold = [audit.fold EXCEPT !.state = "intent"]
    BY <2>1, <2>2, <2>3 DEF foldLifecycles, Believed, OutcomeStatus
  <2>5. audit.fold \in Folds
    BY <2>1 DEF Believed, Agreeing
  <2>6. /\ b.fold.ok = audit.fold.ok /\ b.fold.seen = audit.fold.seen /\ b.fold.priceBreach = audit.fold.priceBreach
        /\ b.fold.state = "intent"
    BY <2>4, <2>5 DEF Folds
  <2>. QED
    BY <2>1, <2>3, <2>6 DEF Believed, Unworsened, isTerminalEntryState
<1>3. CASE LotFilled
  <2>1. PICK price \in LotPrices : audit' = [audit EXCEPT !.booked.lots = @ + 1, !.booked.cents = @ + price]
    BY <1>3 DEF LotFilled
  <2>2. /\ Audited(audit) /\ audit.honest /\ Believed(audit) /\ audit.fold.state # "none" /\ ~audit.ended
        /\ audit.booked.lots < Quantity
    BY <1>3 DEF LotFilled, BeliefInv, AuditInv
  <2>3. /\ audit'.booked.lots = audit.booked.lots + 1 /\ audit'.booked.cents = audit.booked.cents + price
        /\ audit'.fold = audit.fold /\ audit'.worse = audit.worse /\ audit'.reported = audit.reported
        /\ audit'.limitKind = audit.limitKind /\ audit'.ended = audit.ended
    BY <2>1, <2>2 DEF Audited
  <2>4. /\ audit.booked.lots \in Nat /\ audit.booked.cents \in Nat /\ price \in Nat /\ Quantity \in Nat
        /\ audit.reported.lots \in Nat /\ audit.reported.cents \in Nat
    BY <2>2, EvidenceAssumption DEF Audited
  <2>5. Since(audit.reported, audit'.booked) /\ audit'.booked.lots <= Quantity /\ audit'.booked.lots # 0
    <3>1. Since(audit.reported, audit.booked)
      BY <2>2 DEF Believed
    <3>. QED
      BY <2>2, <2>3, <2>4, <3>1 DEF Since
  <2>. QED
    BY <2>2, <2>3, <2>5 DEF Believed, Unworsened
<1>4. CASE WorkingReport
  BY <1>4, WorkingBelieved
<1>5. CASE TerminalReport
  BY <1>5, TerminalBelieved
<1>6. CASE UNCHANGED audit
  BY <1>6 DEF BeliefInv, Believed, Unworsened
<1>. QED
  BY <1>1, <1>2, <1>3, <1>4, <1>5, <1>6 DEF EvidenceNext

LEMMA BeliefFollows == BeliefInv => EvidenceIsJudged
<1>. SUFFICES ASSUME Believed(audit), Audited(audit), Agreeing(audit.fold, audit.unresolved)
     PROVE audit.fold.ok /\ (audit.fold.priceBreach = audit.worse)
  BY Zenon DEF BeliefInv, AuditInv, EvidenceIsJudged
<1>1. audit.fold.priceBreach \in BOOLEAN /\ audit.worse \in BOOLEAN
  BY DEF Believed, Agreeing, Folds, Audited
<1>. QED
  BY <1>1 DEF Believed

(***************************************************************************)
(* A broker whose averages have exact decimals is believed, whenever it is *)
(* read and in whatever order its lots fill, for every quantity, limit and *)
(* price; and a breach of the limit is recorded exactly when something it  *)
(* filled between two readings was worse than the limit (execution.ts      *)
(* nextFillTotalLowerBound and entryFillTransitionBreachesLimit).          *)
(***************************************************************************)
THEOREM EvidenceIsTrusted == AveragesAreExact => (EvidenceInit /\ [][EvidenceNext]_audit => []EvidenceIsJudged)
<1>. SUFFICES ASSUME AveragesAreExact PROVE EvidenceInit /\ [][EvidenceNext]_audit => []EvidenceIsJudged
  OBVIOUS
<1>1. EvidenceInit => BeliefInv
  BY BeliefInitially
<1>2. BeliefInv /\ [EvidenceNext]_audit => BeliefInv'
  BY BeliefStep
<1>3. BeliefInv => EvidenceIsJudged
  BY BeliefFollows
<1>. QED
  BY <1>1, <1>2, <1>3, PTL

-----------------------------------------------------------------------------
(***************************************************************************)
(* The reads of the broker.  A set of naturals has a least member, and a   *)
(* greatest one when it is bounded.                                        *)
(***************************************************************************)
LEMMA LeastNatural ==
    ASSUME NEW U \in SUBSET Nat, U # {}
    PROVE  \E u \in U : \A v \in U : u <= v
<1>. DEFINE R == OpToRel(<, Nat)
<1>1. R = {pair \in Nat \X Nat : pair[1] < pair[2]}
  BY DEF OpToRel
<1>2. PICK u \in U : \A v \in U : <<v, u>> \notin R
  <2>1. IsWellFoundedOn(R, Nat)
    BY NatLessThanWellFounded
  <2>. HIDE DEF R
  <2>. QED
    BY <2>1, WFMin
<1>. HIDE DEF R
<1>3. \A v \in U : u <= v
  <2>. TAKE v \in U
  <2>1. <<v, u>> \notin R /\ v \in Nat /\ u \in Nat
    BY <1>2
  <2>. QED
    BY <1>1, <2>1
<1>. QED
  BY <1>3

LEMMA GreatestNatural ==
    ASSUME NEW U \in SUBSET Nat, U # {}, NEW b \in Nat, \A u \in U : u <= b
    PROVE  Max(U) \in U /\ \A u \in U : u <= Max(U)
<1>. DEFINE D == {d \in 0..b : b - d \in U}
<1>1. PICK d \in D : \A e \in D : d <= e
  <2>1. PICK u \in U : TRUE
    OBVIOUS
  <2>2. b - u \in 0..b /\ b - (b - u) = u
    BY <2>1
  <2>3. b - u \in D
    BY <2>1, <2>2
  <2>4. D \in SUBSET Nat /\ D # {}
    BY <2>3
  <2>. HIDE DEF D
  <2>. QED
    BY <2>4, LeastNatural
<1>2. b - d \in U /\ d \in 0..b
  BY <1>1
<1>3. \A u \in U : u <= b - d
  <2>. TAKE u \in U
  <2>1. b - u \in 0..b /\ b - (b - u) = u
    OBVIOUS
  <2>2. b - u \in D
    BY <2>1
  <2>3. d <= b - u
    BY <1>1, <2>2
  <2>. QED
    BY <1>2, <2>1, <2>3
<1>4. \E m \in U : \A u \in U : m >= u
  <2>1. \A u \in U : b - d >= u
    BY <1>2, <1>3
  <2>. QED
    BY <1>2, <2>1
<1>5. Max(U) \in U /\ \A u \in U : Max(U) >= u
  BY <1>4 DEF Max
<1>. QED
  BY <1>5

(***************************************************************************)
(* A page is an initial segment of what is listed, and a page that is not  *)
(* full is all of it.                                                      *)
(***************************************************************************)
LEMMA PagesAreInitial ==
    ASSUME NEW F \in SUBSET Nat, IsFiniteSet(F), NEW n \in Nat
    PROVE  /\ FirstOf(F, n) \subseteq F
           /\ \A i \in FirstOf(F, n), j \in F : j <= i => j \in FirstOf(F, n)
<1>1. FirstOf(F, n) \subseteq F
  BY DEF FirstOf
<1>2. ASSUME NEW i \in FirstOf(F, n), NEW j \in F, j <= i
      PROVE  j \in FirstOf(F, n)
  <2>. DEFINE Ti == {k \in F : k <= i}
              Tj == {k \in F : k <= j}
  <2>1. Tj \subseteq Ti
    <3>. SUFFICES ASSUME NEW k \in F, k <= j PROVE k <= i
      OBVIOUS
    <3>1. k \in Nat /\ j \in Nat /\ i \in Nat
      BY <1>1
    <3>. QED
      BY <1>2, <3>1
  <2>2. IsFiniteSet(Ti)
    <3>1. Ti \subseteq F
      OBVIOUS
    <3>. HIDE DEF Ti
    <3>. QED
      BY <3>1, FS_Subset
  <2>3. Cardinality(Tj) <= Cardinality(Ti) /\ Cardinality(Tj) \in Nat /\ Cardinality(Ti) \in Nat
    <3>. HIDE DEF Ti, Tj
    <3>. QED
      BY <2>1, <2>2, FS_Subset, FS_CardinalityType
  <2>4. Cardinality(Ti) <= n
    BY DEF FirstOf
  <2>5. Cardinality(Tj) <= n
    <3>. HIDE DEF Ti, Tj
    <3>. QED
      BY <2>3, <2>4
  <2>. QED
    BY <2>5 DEF FirstOf
<1>. QED
  BY <1>1, <1>2

LEMMA ShortPagesAreAll ==
    ASSUME NEW F \in SUBSET Nat, IsFiniteSet(F), NEW n \in Nat, Cardinality(FirstOf(F, n)) < n
    PROVE  FirstOf(F, n) = F
<1>. DEFINE G == FirstOf(F, n)
<1>1. G \subseteq F /\ IsFiniteSet(G) /\ Cardinality(G) \in Nat
  BY PagesAreInitial, FS_Subset, FS_CardinalityType
<1>. SUFFICES ASSUME F \ G # {} PROVE FALSE
  BY <1>1
<1>2. PICK x \in F \ G : \A y \in F \ G : x <= y
  <2>1. F \ G \in SUBSET Nat
    OBVIOUS
  <2>. HIDE DEF G
  <2>. QED
    BY <2>1, LeastNatural
<1>. DEFINE T == {j \in F : j <= x}
<1>3. T \subseteq G \cup {x}
  <2>. SUFFICES ASSUME NEW j \in F, j <= x, j \notin G PROVE j = x
    OBVIOUS
  <2>1. x <= j /\ x \in Nat /\ j \in Nat
    BY <1>2
  <2>. QED
    BY <2>1
<1>4. IsFiniteSet(G \cup {x}) /\ Cardinality(G \cup {x}) = Cardinality(G) + 1
  <2>. HIDE DEF G
  <2>. QED
    BY <1>1, <1>2, FS_AddElement
<1>5. Cardinality(T) <= Cardinality(G) + 1 /\ Cardinality(T) \in Nat
  <2>. HIDE DEF G, T
  <2>. QED
    BY <1>3, <1>4, FS_Subset, FS_CardinalityType
<1>6. Cardinality(T) <= n
  <2>1. Cardinality(G) < n
    OBVIOUS
  <2>. HIDE DEF G, T
  <2>. QED
    BY <1>1, <1>5, <2>1
<1>. QED
  BY <1>2, <1>6 DEF FirstOf

(***************************************************************************)
(* The account: orders stand in the order of their submission.             *)
(***************************************************************************)
ReadOrder == [at : Nat, stamped : BOOLEAN, state : {"open", "filled", "canceled"}]
AccountOK ==
    /\ orders \in Seq(ReadOrder) /\ ledger \in Seq(Nat)
    /\ \A i, j \in DOMAIN orders : i <= j => orders[i].at <= orders[j].at

LEMMA AccountFacts ==
    ASSUME AccountOK
    PROVE  /\ Len(orders) \in Nat /\ DOMAIN orders = 1..Len(orders)
           /\ Len(ledger) \in Nat /\ DOMAIN ledger = 1..Len(ledger)
           /\ \A id \in DOMAIN orders : orders[id] \in ReadOrder /\ id \in Nat /\ id <= Len(orders)
           /\ \A id \in DOMAIN ledger : id \in Nat /\ id <= Len(ledger)
BY DEF AccountOK

ReadKinds == {"open", "all", "fills"}
Cursor == Nat \cup {Missing}

LEMMA ListedIsFinite ==
    ASSUME AccountOK, NEW kind \in ReadKinds, NEW after \in Cursor
    PROVE  /\ Listed(kind, after) \in SUBSET Nat /\ IsFiniteSet(Listed(kind, after))
           /\ kind = "fills" => Listed(kind, after) = {i \in DOMAIN ledger : i > after}
           /\ kind # "fills" => Listed(kind, after) =
                {id \in DOMAIN orders : (kind = "open" => orders[id].state = "open")
                                        /\ (after # Missing => orders[id].at > 2 * after)}
<1>. DEFINE L == Listed(kind, after)
<1>1. CASE kind = "fills"
  <2>1. L = {i \in DOMAIN ledger : i > after}
    BY <1>1 DEF Listed
  <2>2. L \in SUBSET Nat /\ \A i \in L : i <= Len(ledger)
    BY <2>1, AccountFacts
  <2>3. IsFiniteSet(L)
    <3>. HIDE DEF L
    <3>. QED
      BY <2>2, AccountFacts, FS_BoundedSetOfNaturals
  <2>. QED
    BY <1>1, <2>1, <2>2, <2>3
<1>2. CASE kind # "fills"
  <2>1. L = {id \in DOMAIN orders : (kind = "open" => orders[id].state = "open")
                                     /\ (after # Missing => orders[id].at > 2 * after)}
    BY <1>2 DEF Listed
  <2>2. L \in SUBSET Nat /\ \A i \in L : i <= Len(orders)
    BY <2>1, AccountFacts
  <2>3. IsFiniteSet(L)
    <3>. HIDE DEF L
    <3>. QED
      BY <2>2, AccountFacts, FS_BoundedSetOfNaturals
  <2>. QED
    BY <1>2, <2>1, <2>2, <2>3
<1>. QED
  BY <1>1, <1>2

\* A page, the last order of it, and that what is listed beyond it comes later.
LEMMA PageFacts ==
    ASSUME AccountOK, NEW kind \in ReadKinds, NEW after \in Cursor
    PROVE  LET page == Page(kind, after)
           IN  /\ page \subseteq Listed(kind, after) /\ page \in SUBSET Nat
               /\ Cardinality(page) \in Nat
               /\ Cardinality(page) < PageLimit => page = Listed(kind, after)
               /\ Cardinality(page) >= PageLimit =>
                     /\ Max(page) \in page
                     /\ \A id \in Listed(kind, after) : id \in page \/ id > Max(page)
<1>. DEFINE F == Listed(kind, after)
            page == Page(kind, after)
<1>1. F \in SUBSET Nat /\ IsFiniteSet(F)
  BY ListedIsFinite
<1>2. page = FirstOf(F, PageLimit) /\ PageLimit \in Nat /\ PageLimit > 0
  BY PageAssumption DEF Page
<1>. HIDE DEF F, page
<1>3. page \subseteq F /\ \A i \in page, j \in F : j <= i => j \in page
  BY <1>1, <1>2, PagesAreInitial
<1>4. IsFiniteSet(page) /\ Cardinality(page) \in Nat
  BY <1>1, <1>3, FS_Subset, FS_CardinalityType
<1>5. Cardinality(page) < PageLimit => page = F
  BY <1>1, <1>2, ShortPagesAreAll
<1>6. ASSUME Cardinality(page) >= PageLimit
      PROVE  /\ Max(page) \in page
             /\ \A id \in F : id \in page \/ id > Max(page)
  <2>1. page # {}
    BY <1>2, <1>4, <1>6, FS_EmptySet
  <2>2. PICK b \in Nat : \A i \in page : i <= b
    <3>1. \E b \in Nat : \A i \in F : i <= b
      <4>1. CASE kind = "fills"
        <5>1. \A i \in F : i <= Len(ledger)
          BY <4>1, ListedIsFinite, AccountFacts DEF F
        <5>. QED
          BY <5>1, AccountFacts
      <4>2. CASE kind # "fills"
        <5>1. \A i \in F : i <= Len(orders)
          BY <4>2, ListedIsFinite, AccountFacts DEF F
        <5>. QED
          BY <5>1, AccountFacts
      <4>. QED
        BY <4>1, <4>2
    <3>. QED
      BY <1>3, <3>1
  <2>3. Max(page) \in page /\ \A i \in page : i <= Max(page)
    BY <1>1, <1>3, <2>1, <2>2, GreatestNatural
  <2>4. ASSUME NEW id \in F, id \notin page PROVE id > Max(page)
    <3>1. ~(id <= Max(page))
      BY <1>3, <2>3, <2>4
    <3>. DEFINE m == Max(page)
    <3>2. id \in Nat /\ m \in Nat /\ ~(id <= m)
      BY <1>1, <1>3, <2>3, <3>1
    <3>. HIDE DEF m
    <3>3. id > m
      BY <3>2
    <3>. QED
      BY <3>3 DEF m
  <2>. QED
    BY <2>3, <2>4
<1>. QED
  BY <1>1, <1>3, <1>4, <1>5, <1>6 DEF F, page

(***************************************************************************)
(* A listing, as its records carry it, and one page of it.                 *)
(***************************************************************************)
ListingShape(l) ==
    /\ DOMAIN l = {"after", "pages", "complete", "over", "seen"}
    /\ l.after \in Cursor /\ l.complete \in BOOLEAN /\ l.over \in BOOLEAN
    /\ l.complete => l.over
    /\ l.seen = [id \in DOMAIN l.seen |-> l.seen[id]]

NextCursor(kind, page) ==
    IF kind = "fills" THEN nextActivityPageAfter(page) ELSE nextOrderPageAfter(page)

\* Where the next page starts, the orders on this one and those after it leave no gap.
LEMMA CursorFacts ==
    ASSUME AccountOK, NEW kind \in ReadKinds, NEW after \in Cursor
    PROVE  LET page == Page(kind, after)
               next == NextCursor(kind, page)
           IN  /\ next.kind \in {"end", "unpageable", "after"}
               /\ next.kind = "end" => page = Listed(kind, after)
               /\ next.kind = "after" /\ kind = "fills" =>
                     /\ next.after \in Nat
                     /\ \A id \in Listed(kind, after) : id \in page \/ id > next.after
               /\ next.kind = "after" /\ kind # "fills" =>
                     /\ next.after \in Nat
                     /\ orders # <<>> /\ orders[Len(orders)].at > 2 * next.after
                     /\ \A id \in Listed(kind, after) : id \in page \/ orders[id].at > 2 * next.after
<1>. DEFINE page == Page(kind, after)
            F == Listed(kind, after)
            next == NextCursor(kind, page)
            z == Max(page)
<1>1. /\ page \subseteq F /\ page \in SUBSET Nat /\ Cardinality(page) \in Nat
      /\ Cardinality(page) < PageLimit => page = F
      /\ Cardinality(page) >= PageLimit =>
            /\ z \in page
            /\ \A id \in F : id \in page \/ id > z
  BY PageFacts
<1>2. PageLimit \in Nat
  BY PageAssumption
<1>3. CASE Cardinality(page) < PageLimit
  <2>1. next = End
    <3>. HIDE DEF page
    <3>1. ~(Cardinality(page) >= PageLimit)
      BY <1>1, <1>2, <1>3
    <3>. QED
      BY <1>3, <3>1 DEF NextCursor, nextActivityPageAfter, nextOrderPageAfter
  <2>. HIDE DEF next, page, F
  <2>. QED
    BY <1>1, <1>3, <2>1 DEF End, page, next, F
<1>4. CASE Cardinality(page) >= PageLimit /\ kind = "fills"
  <2>1. next = After(z)
    <3>. HIDE DEF page
    <3>1. ~(Cardinality(page) < PageLimit)
      BY <1>1, <1>2, <1>4
    <3>. QED
      BY <1>4, <3>1 DEF NextCursor, nextActivityPageAfter, page
  <2>2. next.kind = "after" /\ next.after = z
    BY <2>1 DEF After
  <2>. HIDE DEF next, page, F, z
  <2>3. z \in Nat /\ \A id \in F : id \in page \/ id > z
    BY <1>1, <1>4
  <2>. QED
    BY <1>4, <2>2, <2>3 DEF page, next, F
<1>5. CASE Cardinality(page) >= PageLimit /\ kind # "fills"
  <2>. DEFINE lastInstant == mapOrder(z).submitted
              earlier == {mapOrder(id).submitted : id \in page} \ {Missing}
              before == {t \in earlier : t < lastInstant}
              c == Max(before)
  <2>1. ~(Cardinality(page) < PageLimit)
    <3>. HIDE DEF page
    <3>. QED
      BY <1>1, <1>2, <1>5
  <2>2. next = IF before = {} THEN Unpageable ELSE After(c)
    <3>1. next = nextOrderPageAfter(page)
      BY <1>5 DEF NextCursor
    <3>. HIDE DEF page, next
    <3>2. CASE before = {}
      BY <1>5, <2>1, <3>1, <3>2 DEF nextOrderPageAfter
    <3>3. CASE before # {}
      BY <1>5, <2>1, <3>1, <3>3 DEF nextOrderPageAfter
    <3>. QED
      BY <3>2, <3>3
  <2>3. CASE before = {}
    <3>1. next = Unpageable
      BY <2>2, <2>3
    <3>. HIDE DEF next, page, F
    <3>2. next.kind = "unpageable"
      BY <3>1 DEF Unpageable
    <3>. QED
      BY <3>2 DEF page, next, F
  <2>4. CASE before # {}
    <3>1. next.kind = "after" /\ next.after = c
      <4>1. next = After(c)
        BY <2>2, <2>4
      <4>. HIDE DEF next, c
      <4>. QED
        BY <4>1 DEF After
    <3>2. \A id \in page : /\ id \in DOMAIN orders /\ orders[id].at \in Nat
                           /\ mapOrder(id).submitted \in Cursor
                           /\ mapOrder(id).submitted # Missing =>
                                 mapOrder(id).submitted = orders[id].at \div 2
      <4>. TAKE id \in page
      <4>1. id \in DOMAIN orders
        BY <1>1, <1>5, ListedIsFinite
      <4>2. orders[id] \in ReadOrder
        BY <4>1, AccountFacts
      <4>3. orders[id].at \in Nat /\ orders[id].at \div 2 \in Nat
        BY <4>2 DEF ReadOrder
      <4>. QED
        BY <4>1, <4>3 DEF mapOrder, normalizeBrokerIso, Cursor
    <3>3. z \in page
      BY <1>1, <1>5
    <3>4. earlier \in SUBSET Nat /\ lastInstant \in Cursor
      BY <3>2, <3>3 DEF Cursor
    <3>5. lastInstant \in Nat /\ lastInstant # Missing
      <4>. HIDE DEF earlier, lastInstant
      <4>1. PICK t \in before : TRUE
        BY <2>4
      <4>2. t \in Nat /\ t < lastInstant
        BY <3>4, <4>1
      <4>. QED
        BY <3>4, <4>2 DEF Cursor, Missing
    <3>6. c \in before
      <4>1. before \in SUBSET Nat /\ \A t \in before : t <= lastInstant
        BY <3>4, <3>5
      <4>. HIDE DEF before, lastInstant
      <4>. QED
        BY <2>4, <3>5, <4>1, GreatestNatural
    <3>7. c \in Nat /\ c < lastInstant
      <4>. HIDE DEF c, earlier, lastInstant
      <4>. QED
        BY <3>4, <3>6
    <3>8. orders[z].at \in Nat /\ orders[z].at > 2 * c /\ z \in DOMAIN orders
      <4>. DEFINE x == orders[z].at
      <4>1. lastInstant = x \div 2 /\ x \in Nat /\ z \in DOMAIN orders
        BY <3>2, <3>3, <3>5
      <4>. HIDE DEF c, lastInstant, x
      <4>2. x > 2 * c
        BY <3>7, <4>1
      <4>. QED
        BY <4>1, <4>2 DEF x
    <3>9. ASSUME NEW id \in DOMAIN orders, z <= id
          PROVE  orders[id].at > 2 * c
      <4>. HIDE DEF c, z
      <4>1. orders[z].at <= orders[id].at
        BY <3>8, <3>9 DEF AccountOK
      <4>2. orders[id].at \in Nat
        BY AccountFacts DEF ReadOrder
      <4>. QED
        BY <3>7, <3>8, <4>1, <4>2
    <3>10. \A id \in F : id \in page \/ orders[id].at > 2 * c
      <4>. SUFFICES ASSUME NEW id \in F, id \notin page PROVE orders[id].at > 2 * c
        OBVIOUS
      <4>1. id > z
        BY <1>1, <1>5
      <4>2. id \in DOMAIN orders /\ id \in Nat /\ z \in Nat
        BY <1>1, <1>5, <3>3, ListedIsFinite
      <4>3. z <= id
        <5>. HIDE DEF z
        <5>. QED
          BY <4>1, <4>2
      <4>. QED
        BY <3>9, <4>2, <4>3
    <3>11. orders # <<>> /\ orders[Len(orders)].at > 2 * c
      <4>1. Len(orders) \in DOMAIN orders /\ z <= Len(orders) /\ orders # <<>>
        <5>1. z \in 1..Len(orders) /\ Len(orders) \in Nat
          BY <3>8, AccountFacts
        <5>. HIDE DEF z
        <5>2. Len(orders) >= 1 /\ z <= Len(orders)
          BY <5>1
        <5>3. orders # <<>>
          BY <5>2
        <5>. QED
          BY <5>1, <5>2, <5>3, AccountFacts
      <4>. QED
        BY <3>9, <4>1
    <3>. HIDE DEF c, z, before, lastInstant, earlier
    <3>. QED
      BY <1>5, <3>1, <3>7, <3>10, <3>11
  <2>. QED
    BY <2>3, <2>4
<1>. QED
  <2>1. Cardinality(page) < PageLimit \/ Cardinality(page) >= PageLimit
    <3>. HIDE DEF page
    <3>. QED
      BY <1>1, <1>2
  <2>. QED
    BY <1>3, <1>4, <1>5, <2>1

\* What lies beyond the cursor of a listing; and what one more page does to it.
Beyond(kind, after, id) ==
    IF kind = "fills" THEN id > after ELSE after # Missing => orders[id].at > 2 * after
Ahead(kind, l) ==
    (kind # "fills" /\ ~l.over /\ l.after # Missing) =>
        orders # <<>> /\ orders[Len(orders)].at > 2 * l.after

LEMMA PageReadCovers ==
    ASSUME AccountOK, NEW kind \in ReadKinds, NEW l, ListingShape(l), ~l.over,
           NEW W, \A id \in W : id \in DOMAIN l.seen \/ id \in Listed(kind, l.after)
    PROVE  LET m == PageRead(l, kind)
               page == Page(kind, l.after)
           IN  /\ ListingShape(m) /\ Ahead(kind, m)
               /\ DOMAIN m.seen = DOMAIN l.seen \cup page
               /\ \A id \in DOMAIN m.seen :
                     m.seen[id] = IF id \in DOMAIN l.seen THEN l.seen[id] ELSE Record(kind, id)
               /\ m.complete => W \subseteq DOMAIN m.seen
               /\ ~m.over => \A id \in W : id \in DOMAIN m.seen \/ Beyond(kind, m.after, id)
<1>. DEFINE page == Page(kind, l.after)
            F == Listed(kind, l.after)
            next == NextCursor(kind, page)
            m == PageRead(l, kind)
            full == [id \in DOMAIN l.seen \cup page |->
                        IF id \in DOMAIN l.seen THEN l.seen[id] ELSE Record(kind, id)]
            found == [l EXCEPT !.pages = @ + 1, !.seen = full]
<1>1. l.after \in Cursor /\ ~l.complete /\ l.complete \in BOOLEAN
  BY DEF ListingShape
<1>2. /\ next.kind \in {"end", "unpageable", "after"}
      /\ next.kind = "end" => page = F
      /\ next.kind = "after" /\ kind = "fills" =>
            /\ next.after \in Nat
            /\ \A id \in F : id \in page \/ id > next.after
      /\ next.kind = "after" /\ kind # "fills" =>
            /\ next.after \in Nat
            /\ orders # <<>> /\ orders[Len(orders)].at > 2 * next.after
            /\ \A id \in F : id \in page \/ orders[id].at > 2 * next.after
  BY <1>1, CursorFacts
<1>3. m = CASE next.kind = "end" -> [found EXCEPT !.over = TRUE, !.complete = TRUE]
            [] next.kind = "unpageable" -> [found EXCEPT !.over = TRUE]
            [] next.kind = "after" ->
                 IF next.after = l.after \/ found.pages > PageCap
                 THEN [found EXCEPT !.over = TRUE] ELSE [found EXCEPT !.after = next.after]
  BY Zenon DEF PageRead, NextCursor
<1>4. /\ DOMAIN found = {"after", "pages", "complete", "over", "seen"}
      /\ found.after = l.after /\ found.complete = l.complete /\ found.over = l.over
      /\ found.seen = full
  <2>. HIDE DEF full
  <2>. QED
    BY DEF ListingShape
<1>5. /\ DOMAIN full = DOMAIN l.seen \cup page /\ full = [id \in DOMAIN full |-> full[id]]
      /\ \A id \in DOMAIN full : full[id] = IF id \in DOMAIN l.seen THEN l.seen[id] ELSE Record(kind, id)
  OBVIOUS
<1>6. \A id \in W : id \in DOMAIN full \/ (id \in F /\ id \notin page)
  <2>. HIDE DEF full, page
  <2>. QED
    BY <1>5 DEF F
<1>. HIDE DEF found, full, page, next, F
<1>7. CASE next.kind = "end"
  <2>1. m = [found EXCEPT !.over = TRUE, !.complete = TRUE]
    BY <1>3, <1>7
  <2>. HIDE DEF m
  <2>2. /\ DOMAIN m = {"after", "pages", "complete", "over", "seen"}
        /\ m.after = l.after /\ m.complete /\ m.over /\ m.complete = TRUE /\ m.over = TRUE /\ m.seen = full
    BY <1>4, <2>1
  <2>3. W \subseteq DOMAIN m.seen
    BY <1>2, <1>6, <1>7, <2>2
  <2>4. ListingShape(m)
    BY <1>1, <1>5, <2>2 DEF ListingShape
  <2>. QED
    BY <1>5, <2>2, <2>3, <2>4 DEF Ahead, page, m
<1>8. CASE next.kind = "unpageable" \/ (next.kind = "after" /\ (next.after = l.after \/ found.pages > PageCap))
  <2>1. m = [found EXCEPT !.over = TRUE]
    BY <1>3, <1>8
  <2>. HIDE DEF m
  <2>2. /\ DOMAIN m = {"after", "pages", "complete", "over", "seen"}
        /\ m.after = l.after /\ m.complete = l.complete /\ m.over = TRUE /\ m.over /\ m.seen = full
    BY <1>4, <2>1
  <2>4. ListingShape(m)
    BY <1>1, <1>5, <2>2 DEF ListingShape
  <2>. QED
    BY <1>1, <1>5, <2>2, <2>4 DEF Ahead, page, m
<1>9. CASE next.kind = "after" /\ ~(next.after = l.after \/ found.pages > PageCap)
  <2>1. m = [found EXCEPT !.after = next.after]
    BY <1>3, <1>9
  <2>. HIDE DEF m
  <2>2. /\ DOMAIN m = {"after", "pages", "complete", "over", "seen"}
        /\ m.after = next.after /\ m.complete = l.complete /\ m.over = l.over /\ m.seen = full
    BY <1>4, <2>1
  <2>3. next.after \in Nat
    BY <1>2, <1>9
  <2>4. ListingShape(m)
    BY <1>1, <1>5, <2>2, <2>3 DEF ListingShape, Cursor
  <2>5. Ahead(kind, m)
    BY <1>2, <1>9, <2>2 DEF Ahead
  <2>6. \A id \in W : id \in DOMAIN m.seen \/ Beyond(kind, m.after, id)
    BY <1>2, <1>6, <1>9, <2>2 DEF Beyond
  <2>. QED
    BY <1>1, <1>5, <2>2, <2>4, <2>5, <2>6 DEF page, m
<1>. QED
  BY <1>2, <1>7, <1>8, <1>9

(***************************************************************************)
(* The invariant.  What a listing that has not ended still owes lies       *)
(* beyond its cursor; what the listings of a snapshot found was so when    *)
(* they found it, and an order that has terminated stays as it is.         *)
(***************************************************************************)
ReaderShape(r) ==
    /\ DOMAIN r = {"kind", "listing", "position", "previous", "attempt", "outcome", "then",
                   "ended", "open", "before", "snapshot"}
    /\ r.kind \in ReadKinds /\ r.outcome \in {"reading", "done"}
    /\ ListingShape(r.listing)

Wanted(r) ==
    IF r.kind = "all" THEN DOMAIN orders ELSE IF r.kind = "open" THEN r.open ELSE r.before
Covers(r) ==
    /\ Ahead(r.kind, r.listing)
    /\ r.open \subseteq OpenNow /\ r.before \subseteq DOMAIN ledger
    /\ ~r.listing.over => \A id \in Wanted(r) : id \in DOMAIN r.listing.seen
                                                \/ Beyond(r.kind, r.listing.after, id)
    /\ r.kind # "all" /\ r.listing.complete => Wanted(r) \subseteq DOMAIN r.listing.seen
    /\ r.kind = "open" /\ r.outcome = "done" => r.listing.complete

EarlierBook(book) ==
    /\ DOMAIN book \subseteq DOMAIN orders /\ book = [id \in DOMAIN book |-> book[id]]
    /\ \A id \in DOMAIN book : orders[id].state = "open" => book[id] = "open"
Matches(seen, book) == \A id \in DOMAIN seen : id \in DOMAIN book /\ (seen[id] # "open" => seen[id] = book[id])
Collected(r) ==
    /\ EarlierBook(r.then)
    /\ \A id \in DOMAIN r.listing.seen \cap DOMAIN r.then : r.listing.seen[id] = "open" => r.then[id] = "open"
    /\ ~r.listing.over => Matches(r.listing.seen, Statuses)
    /\ r.listing.over => EarlierBook(r.ended) /\ Matches(r.listing.seen, r.ended)
    /\ r.listing.complete => DOMAIN r.listing.seen = DOMAIN r.ended
    /\ r.previous # Unread /\ r.previous[3] =>
          DOMAIN r.previous[2] = DOMAIN r.then /\ Matches(r.previous[2], r.then)

ReaderOK(r) ==
    /\ ReaderShape(r) /\ Covers(r)
    /\ r.kind = "all" => Collected(r)
    /\ r.kind # "fills" => r.snapshot = Unread
ReadInv == AccountOK /\ (reader # NoReader => ReaderOK(reader)) /\ SnapshotWasTrue

LEMMA ReadInvInit == ReadInit => ReadInv
<1>. SUFFICES ASSUME ReadInit PROVE ReadInv
  OBVIOUS
<1>1. <<>> \in Seq(ReadOrder) /\ <<>> \in Seq(Nat) /\ DOMAIN <<>> = {}
  OBVIOUS
<1>2. AccountOK
  BY <1>1 DEF ReadInit, AccountOK
<1>. QED
  BY <1>2 DEF ReadInit, ReadInv, SnapshotWasTrue

LEMMA ReadsAreTrueFollows == ReadInv => ReadsAreTrue
BY DEF ReadInv, ReaderOK, Covers, ReadsAreTrue, ListingIsComplete, Wanted

LEMMA StatusFacts ==
    ASSUME AccountOK
    PROVE  /\ DOMAIN Statuses = DOMAIN orders /\ EarlierBook(Statuses)
           /\ \A id \in DOMAIN orders : Statuses[id] = orders[id].state
BY DEF Statuses, EarlierBook

\* A step of the reader that leaves the account alone.
LEMMA AccountStays ==
    ASSUME AccountOK, UNCHANGED <<orders, ledger>>, NEW r, reader' = r, ReaderOK(r),
           r.snapshot # Unread /\ r.snapshot[1].complete => r.snapshot[1].seen = r.then
    PROVE  ReadInv'
<1>1. AccountOK'
  BY DEF AccountOK
<1>2. orders' = orders /\ ledger' = ledger /\ reader' = r
  OBVIOUS
<1>3. OpenNow' = OpenNow /\ Statuses' = Statuses
  BY <1>2 DEF OpenNow, Statuses
<1>4. Covers(reader)'
  <2>1. Covers(r)
    BY DEF ReaderOK
  <2>. QED
    BY <1>2, <1>3, <2>1 DEF Covers, Wanted, Ahead, Beyond
<1>5. ReaderShape(reader)'
  BY <1>2 DEF ReaderOK, ReaderShape
<1>6. ASSUME r.kind = "all" PROVE Collected(reader)'
  <2>1. Collected(r)
    BY <1>6 DEF ReaderOK
  <2>. QED
    BY <1>2, <1>3, <2>1 DEF Collected, EarlierBook
<1>7. ReaderOK(reader)'
  BY <1>2, <1>4, <1>5, <1>6 DEF ReaderOK
<1>8. SnapshotWasTrue'
  BY <1>2 DEF SnapshotWasTrue
<1>. QED
  BY <1>1, <1>7, <1>8 DEF ReadInv

\* A reader that gives up.
LEMMA ReaderGoes ==
    ASSUME AccountOK, UNCHANGED <<orders, ledger>>, reader' = NoReader
    PROVE  ReadInv'
BY DEF AccountOK, ReadInv, SnapshotWasTrue

LEMMA BeginKeepsInv ==
    ASSUME ReadInv, NEW kind \in {"open", "all"}, Begin(kind)
    PROVE  ReadInv'
<1>. DEFINE r == [Reading(kind) EXCEPT !.open = IF kind = "open" THEN OpenNow ELSE {}]
<1>1. reader' = r /\ UNCHANGED <<orders, ledger>> /\ AccountOK
  BY DEF Begin, ReadInv
<1>2. /\ DOMAIN r = {"kind", "listing", "position", "previous", "attempt", "outcome", "then",
                     "ended", "open", "before", "snapshot"}
      /\ r.kind = kind /\ r.listing = NoListing /\ r.previous = Unread /\ r.outcome = "reading"
      /\ r.then = Unread /\ r.open = (IF kind = "open" THEN OpenNow ELSE {})
      /\ r.before = DOMAIN ledger /\ r.snapshot = Unread
  BY DEF Reading
<1>3. /\ ListingShape(NoListing) /\ ~NoListing.over /\ ~NoListing.complete /\ NoListing.after = Missing
      /\ DOMAIN NoListing.seen = {}
  BY DEF NoListing, ListingShape, Cursor, Missing
<1>4. DOMAIN Unread = {} /\ Unread = [id \in DOMAIN Unread |-> Unread[id]]
  BY DEF Unread
<1>. HIDE DEF r
<1>6. ReaderShape(r)
  BY <1>2, <1>3 DEF ReaderShape, ReadKinds
<1>7. Covers(r)
  BY <1>2, <1>3 DEF Covers, Ahead, Beyond, Wanted
<1>8. Collected(r)
  BY <1>2, <1>3, <1>4 DEF Collected, EarlierBook, Matches
<1>9. ReaderOK(r)
  BY <1>2, <1>6, <1>7, <1>8 DEF ReaderOK
<1>. QED
  BY <1>1, <1>2, <1>9, AccountStays

LEMMA PageKeepsInv ==
    ASSUME ReadInv, ordersByStatus
    PROVE  ReadInv'
<1>. DEFINE l == reader.listing
            kind == reader.kind
            m == PageRead(l, kind)
            r == [reader EXCEPT !.listing = m, !.ended = IF m.over THEN Statuses ELSE @]
<1>1. /\ AccountOK /\ UNCHANGED <<orders, ledger>> /\ ReaderOK(reader) /\ SnapshotWasTrue
      /\ reader # NoReader /\ ~l.over /\ reader.outcome = "reading"
  BY DEF ordersByStatus, Busy, ReadInv
<1>2. reader' = r
  BY Zenon DEF ordersByStatus
<1>3. ReaderShape(reader) /\ kind \in ReadKinds /\ ListingShape(l) /\ Covers(reader)
  BY <1>1 DEF ReaderOK, ReaderShape
<1>4. \A id \in Wanted(reader) : id \in DOMAIN l.seen \/ id \in Listed(kind, l.after)
  <2>. SUFFICES ASSUME NEW id \in Wanted(reader), id \notin DOMAIN l.seen
                PROVE  id \in Listed(kind, l.after)
    OBVIOUS
  <2>1. Beyond(kind, l.after, id) /\ l.after \in Cursor
    BY <1>1, <1>3 DEF Covers, ListingShape
  <2>2. kind = "fills" => id \in DOMAIN ledger
    BY <1>3 DEF Covers, Wanted
  <2>3. kind = "all" => id \in DOMAIN orders
    BY DEF Wanted
  <2>4. kind = "open" => id \in DOMAIN orders /\ orders[id].state = "open"
    BY <1>3 DEF Covers, Wanted, OpenNow
  <2>. HIDE DEF l, kind
  <2>5. CASE kind = "fills"
    BY <1>1, <1>3, <2>1, <2>2, <2>5, ListedIsFinite DEF Beyond
  <2>6. CASE kind # "fills"
    BY <1>1, <1>3, <2>1, <2>3, <2>4, <2>6, ListedIsFinite DEF Beyond, ReadKinds
  <2>. QED
    BY <2>5, <2>6
<1>5. /\ ListingShape(m) /\ Ahead(kind, m)
      /\ DOMAIN m.seen = DOMAIN l.seen \cup Page(kind, l.after)
      /\ \A id \in DOMAIN m.seen :
            m.seen[id] = IF id \in DOMAIN l.seen THEN l.seen[id] ELSE Record(kind, id)
      /\ m.complete => Wanted(reader) \subseteq DOMAIN m.seen
      /\ ~m.over => \A id \in Wanted(reader) : id \in DOMAIN m.seen \/ Beyond(kind, m.after, id)
  <2>. HIDE DEF l, kind
  <2>. QED
    BY <1>1, <1>3, <1>4, PageReadCovers
<1>. HIDE DEF m
<1>6. /\ DOMAIN r = DOMAIN reader /\ r.listing = m /\ r.kind = kind /\ r.outcome = "reading"
      /\ r.then = reader.then /\ r.previous = reader.previous /\ r.open = reader.open
      /\ r.before = reader.before /\ r.snapshot = reader.snapshot
      /\ r.ended = IF m.over THEN Statuses ELSE reader.ended
  BY <1>1, <1>3 DEF ReaderShape
<1>. HIDE DEF r
<1>7. ReaderShape(r)
  BY <1>3, <1>5, <1>6 DEF ReaderShape
<1>8. Covers(r)
  BY <1>3, <1>5, <1>6 DEF Covers, Wanted
<1>9. ASSUME kind = "all" PROVE Collected(r)
  <2>1. Collected(reader)
    BY <1>1, <1>9 DEF ReaderOK
  <2>2. /\ EarlierBook(Statuses) /\ DOMAIN Statuses = DOMAIN orders
        /\ \A id \in DOMAIN orders : Statuses[id] = orders[id].state
    BY <1>1, StatusFacts
  <2>3. Page(kind, l.after) \subseteq DOMAIN orders
    <3>1. l.after \in Cursor
      BY <1>3 DEF ListingShape
    <3>. HIDE DEF l
    <3>. QED
      BY <1>1, <1>3, <1>9, <3>1, PageFacts, ListedIsFinite
  <2>4. \A id \in DOMAIN m.seen : id \notin DOMAIN l.seen => id \in DOMAIN orders /\ m.seen[id] = orders[id].state
    BY <1>5, <1>9, <2>3 DEF Record, mapOrder
  <2>5. Matches(m.seen, Statuses)
    <3>1. Matches(l.seen, Statuses)
      BY <1>1, <2>1 DEF Collected
    <3>. HIDE DEF l
    <3>. QED
      BY <1>5, <2>2, <2>4, <3>1 DEF Matches
  <2>6. \A id \in DOMAIN m.seen \cap DOMAIN reader.then : m.seen[id] = "open" => reader.then[id] = "open"
    <3>1. \A id \in DOMAIN l.seen \cap DOMAIN reader.then : l.seen[id] = "open" => reader.then[id] = "open"
      BY <2>1 DEF Collected
    <3>2. \A id \in DOMAIN reader.then : orders[id].state = "open" => reader.then[id] = "open"
      BY <2>1 DEF Collected, EarlierBook
    <3>. HIDE DEF l
    <3>. QED
      BY <1>5, <2>4, <3>1, <3>2
  <2>7. m.complete => m.over /\ DOMAIN m.seen = DOMAIN Statuses
    <3>1. m.complete => m.over /\ DOMAIN orders \subseteq DOMAIN m.seen
      BY <1>5, <1>9 DEF Wanted, ListingShape
    <3>. QED
      BY <2>2, <2>5, <3>1 DEF Matches
  <2>. QED
    BY <1>6, <2>1, <2>2, <2>5, <2>6, <2>7 DEF Collected
<1>10. ReaderOK(r)
  BY <1>1, <1>6, <1>7, <1>8, <1>9 DEF ReaderOK
<1>11. r.snapshot # Unread /\ r.snapshot[1].complete => r.snapshot[1].seen = r.then
  BY <1>1, <1>6 DEF SnapshotWasTrue
<1>. QED
  BY <1>1, <1>2, <1>10, <1>11, AccountStays

\* The reader moves on without reading a page.
LEMMA MovesKeepInv ==
    ASSUME ReadInv, positions \/ openOrders \/ provenanceBundle \/ ReadFails
    PROVE  ReadInv'
<1>1. /\ AccountOK /\ UNCHANGED <<orders, ledger>> /\ ReaderOK(reader) /\ SnapshotWasTrue
      /\ reader # NoReader
  BY DEF positions, openOrders, provenanceBundle, ReadFails, Busy, ReadInv
<1>2. ReaderShape(reader) /\ Covers(reader)
  BY <1>1 DEF ReaderOK
<1>3. CASE reader' = NoReader
  BY <1>1, <1>3, ReaderGoes
<1>4. CASE positions
  <2>. DEFINE r == [reader EXCEPT !.position = <<Position>>]
  <2>1. reader' = r
    BY <1>4 DEF positions
  <2>2. /\ DOMAIN r = DOMAIN reader /\ r.listing = reader.listing /\ r.kind = reader.kind
        /\ r.outcome = reader.outcome /\ r.then = reader.then /\ r.previous = reader.previous
        /\ r.open = reader.open /\ r.before = reader.before /\ r.snapshot = reader.snapshot
        /\ r.ended = reader.ended
    BY <1>2 DEF ReaderShape
  <2>. HIDE DEF r
  <2>3. ReaderShape(r) /\ Covers(r)
    BY <1>2, <2>2 DEF ReaderShape, Covers, Wanted
  <2>4. reader.kind = "all" => Collected(r)
    BY <1>1, <2>2 DEF ReaderOK, Collected
  <2>5. ReaderOK(r) /\ (r.snapshot # Unread /\ r.snapshot[1].complete => r.snapshot[1].seen = r.then)
    BY <1>1, <2>2, <2>3, <2>4 DEF ReaderOK, SnapshotWasTrue
  <2>. QED
    BY <1>1, <2>1, <2>5, AccountStays
<1>5. CASE reader' # NoReader /\ (openOrders \/ provenanceBundle)
  <2>. DEFINE r == [reader EXCEPT !.outcome = "done"]
  <2>1. reader' = r /\ (reader.kind = "open" => reader.listing.complete) /\ reader.kind # "all"
    BY <1>5 DEF openOrders, provenanceBundle
  <2>2. /\ DOMAIN r = DOMAIN reader /\ r.listing = reader.listing /\ r.kind = reader.kind
        /\ r.outcome = "done" /\ r.then = reader.then /\ r.previous = reader.previous
        /\ r.open = reader.open /\ r.before = reader.before /\ r.snapshot = reader.snapshot
        /\ r.ended = reader.ended
    BY <1>2 DEF ReaderShape
  <2>. HIDE DEF r
  <2>3. ReaderShape(r) /\ Covers(r)
    BY <1>2, <2>1, <2>2 DEF ReaderShape, Covers, Wanted
  <2>5. ReaderOK(r) /\ (r.snapshot # Unread /\ r.snapshot[1].complete => r.snapshot[1].seen = r.then)
    BY <1>1, <2>1, <2>2, <2>3 DEF ReaderOK, SnapshotWasTrue
  <2>. QED
    BY <1>1, <2>1, <2>5, AccountStays
<1>. QED
  BY <1>3, <1>4, <1>5 DEF ReadFails

(***************************************************************************)
(* Two reads that agree.  What ended in the meantime was open in the       *)
(* first, and what was open in the second was so before.                   *)
(***************************************************************************)
LEMMA SnapshotKeepsInv ==
    ASSUME ReadInv, fullSnapshot
    PROVE  ReadInv'
<1>. DEFINE l == reader.listing
            again == [reader EXCEPT !.listing = NoListing, !.position = Unread, !.then = reader.ended,
                                    !.previous = snapshotFingerprint, !.attempt = @ + 1]
            agreed == [again EXCEPT !.kind = "fills", !.then = reader.then, !.snapshot = <<reader.listing>>]
<1>1. /\ AccountOK /\ UNCHANGED <<orders, ledger>> /\ ReaderOK(reader) /\ SnapshotWasTrue
      /\ reader # NoReader /\ l.over /\ reader.kind = "all"
  BY DEF fullSnapshot, Busy, ReadInv
<1>2. (reader' = agreed /\ reader.previous = snapshotFingerprint) \/ reader' = again \/ reader' = NoReader
  <2>. HIDE DEF agreed, again
  <2>. QED
    BY DEF fullSnapshot, agreed, again
<1>3. ReaderShape(reader) /\ Covers(reader) /\ Collected(reader) /\ ListingShape(l)
  BY <1>1 DEF ReaderOK, ReaderShape
<1>4. snapshotFingerprint = <<reader.position, l.seen, l.complete>>
  BY DEF snapshotFingerprint
<1>5. /\ ListingShape(NoListing) /\ ~NoListing.over /\ ~NoListing.complete /\ NoListing.after = Missing
      /\ DOMAIN NoListing.seen = {}
  BY DEF NoListing, ListingShape, Cursor, Missing
<1>6. /\ DOMAIN again = DOMAIN reader /\ again.listing = NoListing /\ again.kind = "all"
      /\ again.outcome = reader.outcome /\ again.then = reader.ended /\ again.previous = snapshotFingerprint
      /\ again.open = reader.open /\ again.before = reader.before /\ again.snapshot = reader.snapshot
  BY <1>1, <1>3 DEF ReaderShape
<1>. HIDE DEF again
<1>7. CASE reader' = again
  <2>1. ReaderShape(again)
    BY <1>3, <1>5, <1>6 DEF ReaderShape, ReadKinds
  <2>2. Covers(again)
    BY <1>3, <1>5, <1>6 DEF Covers, Ahead, Beyond, Wanted
  <2>3. EarlierBook(reader.ended) /\ Matches(l.seen, reader.ended)
        /\ (l.complete => DOMAIN l.seen = DOMAIN reader.ended)
    BY <1>1, <1>3 DEF Collected
  <2>4. again.previous[2] = l.seen /\ again.previous[3] = l.complete
    BY <1>4, <1>6
  <2>5. Collected(again)
    <3>. HIDE DEF l
    <3>1. Matches(NoListing.seen, Statuses)
      BY <1>5 DEF Matches
    <3>. QED
      BY <1>5, <1>6, <2>3, <2>4, <3>1 DEF Collected
  <2>6. ReaderOK(again) /\ ~(again.snapshot # Unread)
    BY <1>1, <1>6, <2>1, <2>2, <2>5 DEF ReaderOK
  <2>. QED
    BY <1>1, <1>7, <2>6, AccountStays
<1>8. CASE reader' = agreed /\ reader.previous = snapshotFingerprint
  <2>1. /\ DOMAIN agreed = DOMAIN reader /\ agreed.listing = NoListing /\ agreed.kind = "fills"
        /\ agreed.outcome = reader.outcome /\ agreed.then = reader.then
        /\ agreed.open = reader.open /\ agreed.before = reader.before /\ agreed.snapshot = <<l>>
    BY <1>3, <1>6 DEF ReaderShape
  <2>. HIDE DEF agreed
  <2>2. ReaderShape(agreed)
    BY <1>3, <1>5, <1>6, <2>1 DEF ReaderShape, ReadKinds
  <2>3. Covers(agreed)
    <3>1. \A i \in DOMAIN ledger : i > Missing
      BY <1>1, AccountFacts DEF Missing
    <3>. QED
      BY <1>3, <1>5, <2>1, <3>1 DEF Covers, Ahead, Beyond, Wanted
  <2>4. ASSUME l.complete PROVE l.seen = reader.then
    <3>1. reader.previous # Unread
      BY <1>4, <1>8 DEF Unread
    <3>2. reader.previous[2] = l.seen /\ reader.previous[3]
      BY <1>4, <1>8, <2>4
    <3>3. DOMAIN l.seen = DOMAIN reader.then /\ Matches(l.seen, reader.then)
      BY <1>3, <3>1, <3>2 DEF Collected
    <3>4. \A id \in DOMAIN l.seen : l.seen[id] = "open" => reader.then[id] = "open"
      BY <1>3, <3>3 DEF Collected
    <3>5. \A id \in DOMAIN l.seen : l.seen[id] = reader.then[id]
      BY <3>3, <3>4 DEF Matches
    <3>6. l.seen = [id \in DOMAIN l.seen |-> l.seen[id]]
      BY <1>3 DEF ListingShape
    <3>7. reader.then = [id \in DOMAIN reader.then |-> reader.then[id]]
      BY <1>3 DEF Collected, EarlierBook
    <3>. DEFINE u == l.seen
                v == reader.then
    <3>. HIDE DEF u, v
    <3>8. u = [id \in DOMAIN u |-> u[id]] /\ v = [id \in DOMAIN v |-> v[id]]
          /\ DOMAIN u = DOMAIN v /\ \A id \in DOMAIN u : u[id] = v[id]
      BY <3>3, <3>5, <3>6, <3>7 DEF u, v
    <3>9. u = v
      BY <3>8
    <3>. QED
      BY <3>9 DEF u, v
  <2>5. agreed.snapshot[1] = l
    BY <2>1
  <2>6. ReaderOK(agreed)
    BY <2>1, <2>2, <2>3 DEF ReaderOK
  <2>. QED
    BY <1>1, <1>8, <2>1, <2>4, <2>5, <2>6, AccountStays
<1>9. CASE reader' = NoReader
  BY <1>1, <1>9, ReaderGoes
<1>. QED
  BY <1>2, <1>7, <1>8, <1>9

(***************************************************************************)
(* The broker's own steps.                                                 *)
(***************************************************************************)
LEMMA ArrivalKeepsAccount ==
    ASSUME AccountOK, OrderArrives
    PROVE  /\ AccountOK'
           /\ \E o \in ReadOrder :
                 /\ o.state = "open" /\ \A id \in DOMAIN orders : orders[id].at <= o.at
                 /\ Len(orders') = Len(orders) + 1 /\ orders'[Len(orders) + 1] = o
                 /\ DOMAIN orders \subseteq DOMAIN orders' /\ Len(orders) + 1 \in DOMAIN orders'
                 /\ \A id \in DOMAIN orders' : id \in DOMAIN orders \/ id = Len(orders) + 1
                 /\ \A id \in DOMAIN orders : orders'[id] = orders[id]
<1>. DEFINE n == Len(orders)
<1>1. AccountOK /\ ledger' = ledger
  BY DEF OrderArrives
<1>2. /\ n \in Nat /\ DOMAIN orders = 1..n
      /\ \A id \in DOMAIN orders : orders[id] \in ReadOrder /\ id \in Nat /\ id <= n
  BY <1>1, AccountFacts
<1>3. LastInstant \in Nat /\ \A id \in DOMAIN orders : orders[id].at <= LastInstant
  <2>1. CASE orders = <<>>
    <3>1. n = 0
      BY <2>1
    <3>. QED
      BY <1>2, <2>1, <3>1 DEF LastInstant
  <2>2. CASE orders # <<>>
    <3>1. n # 0
      BY <1>1, <2>2 DEF AccountOK
    <3>2. n \in DOMAIN orders
      BY <1>2, <3>1
    <3>. QED
      BY <1>1, <1>2, <2>2, <3>2 DEF LastInstant, AccountOK, ReadOrder
  <2>. QED
    BY <2>1, <2>2
<1>4. PICK stamped \in BOOLEAN, at \in LastInstant..MaxInstant :
        orders' = Append(orders, [at |-> at, stamped |-> stamped, state |-> "open"])
  BY DEF OrderArrives
<1>. DEFINE o == [at |-> at, stamped |-> stamped, state |-> "open"]
<1>5. at \in Nat /\ LastInstant <= at
  BY <1>3, <1>4, PageAssumption
<1>6. o \in ReadOrder /\ o.at = at /\ o.state = "open"
  BY <1>5 DEF ReadOrder
<1>. HIDE DEF o
<1>7. /\ orders' \in Seq(ReadOrder) /\ Len(orders') = n + 1 /\ DOMAIN orders' = 1..(n + 1)
      /\ \A id \in DOMAIN orders : orders'[id] = orders[id]
      /\ orders'[n + 1] = o
  BY <1>1, <1>4, <1>6 DEF AccountOK, o
<1>8. /\ DOMAIN orders \subseteq DOMAIN orders' /\ n + 1 \in DOMAIN orders'
      /\ \A id \in DOMAIN orders' : id \in DOMAIN orders \/ id = n + 1
  <2>. HIDE DEF n
  <2>. QED
    BY <1>2, <1>7
<1>9. AccountOK'
  <2>1. \A i, j \in DOMAIN orders' : i <= j => orders'[i].at <= orders'[j].at
    <3>. TAKE i, j \in DOMAIN orders'
    <3>. HAVE i <= j
    <3>1. CASE i \in DOMAIN orders /\ j \in DOMAIN orders
      BY <1>1, <1>7, <3>1 DEF AccountOK
    <3>2. CASE i \in DOMAIN orders /\ j = n + 1
      <4>1. orders[i].at \in Nat /\ orders[i].at <= LastInstant /\ orders'[i] = orders[i] /\ orders'[j].at = at
        BY <1>2, <1>3, <1>6, <1>7, <3>2 DEF ReadOrder
      <4>. QED
        BY <1>3, <1>5, <4>1
    <3>3. CASE i = n + 1 /\ j \in DOMAIN orders
      BY <1>2, <3>3
    <3>4. CASE i = n + 1 /\ j = n + 1
      BY <1>5, <1>6, <1>7, <3>4
    <3>. QED
      BY <1>8, <3>1, <3>2, <3>3, <3>4
  <2>. QED
    BY <1>1, <1>7, <2>1 DEF AccountOK
<1>10. \A id \in DOMAIN orders : orders[id].at <= o.at
  <2>. TAKE id \in DOMAIN orders
  <2>1. orders[id].at \in Nat /\ orders[id].at <= LastInstant
    BY <1>2, <1>3 DEF ReadOrder
  <2>. QED
    BY <1>3, <1>5, <1>6, <2>1
<1>. QED
  BY <1>6, <1>7, <1>8, <1>9, <1>10

LEMMA ArrivalKeepsInv ==
    ASSUME ReadInv, OrderArrives, Busy
    PROVE  ReadInv'
<1>. DEFINE l == reader.listing
            n == Len(orders)
<1>1. /\ AccountOK /\ ledger' = ledger /\ reader' = reader /\ ReaderOK(reader) /\ SnapshotWasTrue
      /\ reader # NoReader
  BY DEF OrderArrives, Busy, ReadInv
<1>2. /\ n \in Nat /\ DOMAIN orders = 1..n
      /\ \A id \in DOMAIN orders : orders[id] \in ReadOrder /\ id \in Nat /\ id <= n
  BY <1>1, AccountFacts
<1>3. AccountOK'
  BY <1>1, ArrivalKeepsAccount
<1>4. PICK o \in ReadOrder :
        /\ o.state = "open" /\ \A id \in DOMAIN orders : orders[id].at <= o.at
        /\ Len(orders') = n + 1 /\ orders'[n + 1] = o
        /\ DOMAIN orders \subseteq DOMAIN orders' /\ n + 1 \in DOMAIN orders'
        /\ \A id \in DOMAIN orders' : id \in DOMAIN orders \/ id = n + 1
        /\ \A id \in DOMAIN orders : orders'[id] = orders[id]
  BY <1>1, ArrivalKeepsAccount
<1>10. ReaderShape(reader) /\ Covers(reader) /\ ListingShape(l)
  BY <1>1 DEF ReaderOK, ReaderShape
<1>11. ASSUME reader.kind # "fills", ~l.over, l.after # Missing
       PROVE  o.at > 2 * l.after
  <2>1. orders # <<>> /\ orders[n].at > 2 * l.after /\ l.after \in Nat
    BY <1>10, <1>11 DEF Covers, Ahead, ListingShape, Cursor
  <2>2. n \in DOMAIN orders
    <3>1. n # 0
      BY <1>1, <2>1 DEF AccountOK
    <3>. QED
      BY <1>2, <3>1
  <2>3. orders[n].at \in Nat /\ orders[n].at <= o.at /\ o.at \in Nat
    BY <1>2, <1>4, <2>2 DEF ReadOrder
  <2>. HIDE DEF n, l
  <2>. QED
    BY <2>1, <2>3
<1>12. Ahead(reader.kind, l)'
  <2>1. orders' # <<>> /\ orders'[Len(orders')].at = o.at
    BY <1>2, <1>3, <1>4 DEF AccountOK
  <2>. QED
    BY <1>1, <1>11, <2>1 DEF Ahead
<1>13. (~l.over => \A id \in Wanted(reader) : id \in DOMAIN l.seen \/ Beyond(reader.kind, l.after, id))'
  <2>. SUFFICES ASSUME ~l.over, NEW id \in Wanted(reader)', id \notin DOMAIN l.seen
                PROVE  Beyond(reader.kind, l.after, id)'
    BY <1>1
  <2>1. CASE id \in Wanted(reader)
    <3>1. Beyond(reader.kind, l.after, id)
      BY <1>10, <2>1 DEF Covers
    <3>2. reader.kind # "fills" => id \in DOMAIN orders
      BY <1>10, <2>1 DEF Covers, Wanted, OpenNow, ReaderShape, ReadKinds
    <3>. QED
      BY <1>1, <1>4, <3>1, <3>2 DEF Beyond
  <2>2. CASE id \notin Wanted(reader)
    <3>1. reader.kind = "all" /\ id = n + 1
      BY <1>1, <1>4, <2>2 DEF Wanted
    <3>. QED
      BY <1>1, <1>4, <1>11, <3>1 DEF Beyond
  <2>. QED
    BY <2>1, <2>2
<1>14. Covers(reader)'
  <2>1. OpenNow \subseteq OpenNow'
    BY <1>4 DEF OpenNow
  <2>2. reader.kind # "all" => Wanted(reader)' = Wanted(reader)
    BY <1>1 DEF Wanted
  <2>. QED
    BY <1>1, <1>10, <1>12, <1>13, <2>1, <2>2 DEF Covers
<1>15. \A book : EarlierBook(book) => EarlierBook(book)'
  BY <1>4 DEF EarlierBook
<1>16. \A seen : Matches(seen, Statuses) => Matches(seen, Statuses')
  <2>1. /\ DOMAIN Statuses \subseteq DOMAIN Statuses'
        /\ \A id \in DOMAIN Statuses : Statuses'[id] = Statuses[id]
    BY <1>4 DEF Statuses
  <2>. QED
    BY <2>1 DEF Matches
<1>17. ASSUME reader.kind = "all" PROVE Collected(reader)'
  <2>1. Collected(reader)
    BY <1>1, <1>17 DEF ReaderOK
  <2>. QED
    BY <1>1, <1>15, <1>16, <2>1 DEF Collected
<1>18. ReaderOK(reader)'
  BY <1>1, <1>10, <1>14, <1>17 DEF ReaderOK, ReaderShape
<1>. QED
  BY <1>1, <1>3, <1>18 DEF ReadInv, SnapshotWasTrue

LEMMA TerminationKeepsAccount ==
    ASSUME AccountOK, NEW x \in DOMAIN orders, OrderTerminates(x)
    PROVE  /\ AccountOK' /\ orders[x].state = "open" /\ orders'[x].state # "open"
           /\ DOMAIN orders' = DOMAIN orders /\ Len(orders') = Len(orders)
           /\ (orders = <<>> <=> orders' = <<>>)
           /\ \A id \in DOMAIN orders : id # x => orders'[id] = orders[id]
           /\ \A id \in DOMAIN orders : orders'[id].at = orders[id].at
           /\ DOMAIN ledger \subseteq DOMAIN ledger'
<1>1. AccountOK /\ orders[x].state = "open" /\ (ledger' = ledger \/ ledger' = Append(ledger, x))
  BY DEF OrderTerminates
<1>2. PICK end \in {"filled", "canceled"} : orders' = [orders EXCEPT ![x].state = end]
  BY DEF OrderTerminates
<1>3. \A id \in DOMAIN orders : orders[id] \in ReadOrder
  BY <1>1, AccountFacts
<1>4. /\ DOMAIN orders' = DOMAIN orders /\ Len(orders') = Len(orders) /\ orders' \in Seq(ReadOrder)
      /\ (orders = <<>> <=> orders' = <<>>)
      /\ \A id \in DOMAIN orders : id # x => orders'[id] = orders[id]
      /\ orders'[x].state = end /\ orders'[x].at = orders[x].at
  <2>. DEFINE o == [orders[x] EXCEPT !.state = end]
  <2>1. o \in ReadOrder /\ o.state = end /\ o.at = orders[x].at
    BY <1>3 DEF ReadOrder
  <2>2. orders' = [orders EXCEPT ![x] = o]
    BY <1>2
  <2>. HIDE DEF o
  <2>3. orders \in Seq(ReadOrder)
    BY <1>1 DEF AccountOK
  <2>4. DOMAIN orders' = DOMAIN orders /\ Len(orders') = Len(orders) /\ orders' \in Seq(ReadOrder)
        /\ orders'[x] = o /\ \A id \in DOMAIN orders : id # x => orders'[id] = orders[id]
    BY <2>1, <2>2, <2>3
  <2>5. orders # <<>> /\ orders' # <<>>
    BY <2>3, <2>4
  <2>. QED
    BY <2>1, <2>4, <2>5
<1>5. \A id \in DOMAIN orders : orders'[id].at = orders[id].at
  BY <1>4
<1>6. ledger' \in Seq(Nat) /\ DOMAIN ledger \subseteq DOMAIN ledger'
  <2>1. x \in Nat /\ ledger \in Seq(Nat)
    BY <1>1, AccountFacts DEF AccountOK
  <2>2. CASE ledger' = ledger
    BY <2>1, <2>2
  <2>3. CASE ledger' = Append(ledger, x)
    <3>1. Append(ledger, x) \in Seq(Nat) /\ DOMAIN ledger \subseteq DOMAIN Append(ledger, x)
      BY <2>1
    <3>. QED
      BY <2>3, <3>1
  <2>. QED
    BY <1>1, <2>2, <2>3
<1>7. AccountOK'
  BY <1>1, <1>4, <1>5, <1>6 DEF AccountOK
<1>. QED
  BY <1>1, <1>4, <1>5, <1>6, <1>7

LEMMA TerminationKeepsInv ==
    ASSUME ReadInv, NEW x \in DOMAIN orders, OrderTerminates(x), Busy
    PROVE  ReadInv'
<1>. DEFINE l == reader.listing
            r == [reader EXCEPT !.open = @ \ {x}]
<1>1. AccountOK /\ reader' = r /\ ReaderOK(reader) /\ SnapshotWasTrue /\ reader # NoReader
  BY DEF OrderTerminates, Busy, ReadInv
<1>2. /\ AccountOK' /\ orders[x].state = "open" /\ orders'[x].state # "open"
      /\ DOMAIN orders' = DOMAIN orders /\ Len(orders') = Len(orders)
      /\ (orders = <<>> <=> orders' = <<>>)
      /\ \A id \in DOMAIN orders : id # x => orders'[id] = orders[id]
      /\ \A id \in DOMAIN orders : orders'[id].at = orders[id].at
      /\ DOMAIN ledger \subseteq DOMAIN ledger'
  BY <1>1, TerminationKeepsAccount
<1>8. ReaderShape(reader) /\ Covers(reader) /\ ListingShape(l)
  BY <1>1 DEF ReaderOK, ReaderShape
<1>9. /\ DOMAIN r = DOMAIN reader /\ r.listing = l /\ r.kind = reader.kind /\ r.outcome = reader.outcome
      /\ r.then = reader.then /\ r.previous = reader.previous /\ r.open = reader.open \ {x}
      /\ r.before = reader.before /\ r.snapshot = reader.snapshot /\ r.ended = reader.ended
  BY <1>8 DEF ReaderShape
<1>. HIDE DEF r
<1>10. ReaderShape(reader)'
  BY <1>1, <1>8, <1>9 DEF ReaderShape
<1>11. Ahead(reader.kind, reader.listing)'
  <2>1. Ahead(reader.kind, l)
    BY <1>8 DEF Covers
  <2>2. orders # <<>> => orders'[Len(orders)].at = orders[Len(orders)].at
    <3>1. orders # <<>> => Len(orders) \in DOMAIN orders
      BY <1>1 DEF AccountOK
    <3>. QED
      BY <1>2, <3>1
  <2>. QED
    BY <1>1, <1>2, <1>9, <2>1, <2>2 DEF Ahead
<1>12. Wanted(reader)' \subseteq Wanted(reader)
  BY <1>1, <1>2, <1>9 DEF Wanted
<1>13. reader.open \ {x} \subseteq OpenNow'
  BY <1>2, <1>8 DEF Covers, OpenNow
<1>14. \A id \in Wanted(reader)' : Beyond(reader.kind, l.after, id) => Beyond(reader.kind, l.after, id)'
  <2>. SUFFICES ASSUME NEW id \in Wanted(reader)', Beyond(reader.kind, l.after, id)
                PROVE  Beyond(reader.kind, l.after, id)'
    OBVIOUS
  <2>1. reader.kind # "fills" => id \in DOMAIN orders
    BY <1>8, <1>12 DEF Covers, Wanted, OpenNow, ReaderShape, ReadKinds
  <2>. QED
    BY <1>1, <1>2, <1>9, <2>1 DEF Beyond
<1>15. Covers(reader)'
  <2>1. ~l.over => \A id \in Wanted(reader)' : id \in DOMAIN l.seen \/ Beyond(reader.kind, l.after, id)'
    BY <1>8, <1>12, <1>14 DEF Covers
  <2>2. reader.kind # "all" /\ l.complete => Wanted(reader)' \subseteq DOMAIN l.seen
    BY <1>8, <1>12 DEF Covers
  <2>3. r.open \subseteq OpenNow' /\ r.before \subseteq DOMAIN ledger'
    BY <1>2, <1>8, <1>9, <1>13 DEF Covers
  <2>4. r.kind = "open" /\ r.outcome = "done" => r.listing.complete
    BY <1>8, <1>9 DEF Covers
  <2>. QED
    BY <1>1, <1>9, <1>11, <2>1, <2>2, <2>3, <2>4 DEF Covers
<1>16. \A book : EarlierBook(book) => EarlierBook(book)'
  BY <1>2 DEF EarlierBook
<1>17. ASSUME reader.kind = "all" PROVE Collected(reader)'
  <2>1. Collected(reader)
    BY <1>1, <1>17 DEF ReaderOK
  <2>2. Matches(l.seen, Statuses) => Matches(l.seen, Statuses')
    BY <1>1, <1>2 DEF Matches, Statuses
  <2>. QED
    BY <1>1, <1>9, <1>16, <2>1, <2>2 DEF Collected
<1>18. ReaderOK(reader)'
  BY <1>1, <1>9, <1>10, <1>15, <1>17 DEF ReaderOK
<1>. QED
  BY <1>1, <1>2, <1>9, <1>18 DEF ReadInv, SnapshotWasTrue

\* Nobody reads while the account changes.
LEMMA UnreadChangesKeepInv ==
    ASSUME ReadInv, reader = NoReader, OrderArrives \/ \E x \in DOMAIN orders : OrderTerminates(x)
    PROVE  ReadInv'
<1>1. AccountOK'
  BY ArrivalKeepsAccount, TerminationKeepsAccount DEF ReadInv
<1>2. reader' = NoReader
  BY DEF OrderArrives, OrderTerminates, Busy
<1>. QED
  BY <1>1, <1>2 DEF ReadInv, SnapshotWasTrue

(***************************************************************************)
(* What the adapter reads is so: a complete listing has missed nothing     *)
(* that was there all the time, and the orders of a snapshot were true     *)
(* together (alpaca-broker.ts), for every page size, every number of       *)
(* orders and shared instants and everything the broker does in between.   *)
(***************************************************************************)
THEOREM ReadsAreSound == ReadInit /\ [][ReadNext]_readVars => []ReadsAreTrue
<1>1. ASSUME ReadInv, [ReadNext]_readVars PROVE ReadInv'
  <2>1. CASE UNCHANGED readVars
    <3>1. AccountOK /\ UNCHANGED <<orders, ledger>> /\ reader' = reader
      BY <1>1, <2>1 DEF readVars, ReadInv
    <3>2. CASE reader = NoReader
      BY <3>1, <3>2, ReaderGoes
    <3>3. CASE reader # NoReader
      BY <1>1, <3>1, <3>3, AccountStays DEF ReadInv, SnapshotWasTrue
    <3>. QED
      BY <3>2, <3>3
  <2>2. CASE \E kind \in {"open", "all"} : Begin(kind)
    BY <1>1, <2>2, BeginKeepsInv
  <2>3. CASE ordersByStatus
    BY <1>1, <2>3, PageKeepsInv
  <2>4. CASE positions \/ openOrders \/ provenanceBundle \/ ReadFails
    BY <1>1, <2>4, MovesKeepInv
  <2>5. CASE fullSnapshot
    BY <1>1, <2>5, SnapshotKeepsInv
  <2>6. CASE Busy /\ OrderArrives
    BY <1>1, <2>6, ArrivalKeepsInv
  <2>7. CASE Busy /\ \E x \in DOMAIN orders : OrderTerminates(x)
    BY <1>1, <2>7, TerminationKeepsInv
  <2>8. CASE reader = NoReader /\ (OrderArrives \/ \E x \in DOMAIN orders : OrderTerminates(x))
    BY <1>1, <2>8, UnreadChangesKeepInv
  <2>. QED
    BY <1>1, <2>1, <2>2, <2>3, <2>4, <2>5, <2>6, <2>7, <2>8 DEF ReadNext
<1>. QED
  BY <1>1, ReadInvInit, ReadsAreTrueFollows, PTL

-----------------------------------------------------------------------------
(***************************************************************************)
(* The first cycles of an account.  The sum over one journal is its amount. *)
(***************************************************************************)
LEMMA FundedByOne ==
    ASSUME NEW a, a.netAmountCents \in Int, isOpeningFundingJournal(a), NEW L,
           {x \in L : isOpeningFundingJournal(x)} = {a}
    PROVE  Funded(L) = a.netAmountCents
<1>. DEFINE S == {a}
            body(f) == [s \in SUBSET S |->
                          IF s = {} THEN 0
                          ELSE LET x == CHOOSE x \in s : TRUE IN x.netAmountCents + f[s \ {x}]]
            f == CHOOSE iter : iter = body(iter)
            g == [s \in SUBSET S |-> IF s = {} THEN 0 ELSE a.netAmountCents]
<1>1. Funded(L) = f[S]
  <2>1. Funded(L) = MapThenSumSet(LAMBDA x : x.netAmountCents, S)
    BY DEF Funded
  <2>. QED
    BY <2>1 DEF MapThenSumSet, MapThenFoldSet
<1>2. g = body(g)
  <2>1. ASSUME NEW s \in SUBSET S
        PROVE  g[s] = IF s = {} THEN 0
                      ELSE LET x == CHOOSE x \in s : TRUE IN x.netAmountCents + g[s \ {x}]
    <3>1. CASE s = {}
      BY <3>1
    <3>2. CASE s # {}
      <4>1. s = {a}
        BY <3>2
      <4>. DEFINE x == CHOOSE x \in s : TRUE
      <4>2. x = a
        BY <4>1
      <4>3. s \ {x} = {} /\ s \ {x} \in SUBSET S
        BY <4>1, <4>2
      <4>4. g[s] = a.netAmountCents /\ g[s \ {x}] = 0
        BY <3>2, <4>3
      <4>. HIDE DEF x, g
      <4>5. x.netAmountCents + g[s \ {x}] = a.netAmountCents
        BY <4>2, <4>4
      <4>. QED
        BY <3>2, <4>4, <4>5 DEF x
    <3>. QED
      BY <3>1, <3>2
  <2>2. g = [s \in SUBSET S |-> g[s]]
    OBVIOUS
  <2>. HIDE DEF g
  <2>. QED
    BY <2>1, <2>2
<1>3. f = body(f)
  <2>. HIDE DEF g, body
  <2>. QED
    BY <1>2
<1>4. f[S] = LET x == CHOOSE x \in S : TRUE IN x.netAmountCents + f[S \ {x}]
  <2>. HIDE DEF f
  <2>. QED
    BY <1>3
<1>5. (CHOOSE x \in S : TRUE) = a /\ S \ {a} = {}
  OBVIOUS
<1>6. f[S] = a.netAmountCents + f[{}]
  <2>. HIDE DEF f, S
  <2>. QED
    BY <1>4, <1>5
<1>7. f[{}] = 0
  <2>. HIDE DEF f
  <2>. QED
    BY <1>3
<1>. HIDE DEF f
<1>. QED
  BY <1>1, <1>6, <1>7

(***************************************************************************)
(* The account: what the ledger and the orders show of a use, and what an  *)
(* unused account looks like.                                              *)
(***************************************************************************)
TheOpening == Activity("opening", "JNLC", "executed", "USD", Capital)
WatchedAccount ==
    /\ DOMAIN account = {"opening", "early", "equity", "paid", "orders", "fills", "working",
                         "position", "ledger", "used"}
    /\ account.opening \in Nat /\ account.equity \in Int /\ account.paid \in Int
    /\ account.orders \in Nat /\ account.fills \in Int /\ account.working \in Int /\ account.position \in Int
    /\ account.early \in BOOLEAN /\ account.used \in BOOLEAN
UsesShow ==
    /\ account.orders # 0 \/ account.working # 0 \/ account.position # 0 \/ account.fills # 0 => account.used
    /\ account.used => account.orders > 0 \/ \E a \in account.ledger : isCashJournalOut(a)
    /\ ~account.used => account.equity = account.paid
    /\ account.paid >= account.opening
    /\ \A a \in account.ledger : Spent(a) => account.used
FundingShows ==
    account.opening = Capital /\ account.paid = Capital =>
        \A a \in account.ledger : isOpeningFundingJournal(a) => a = TheOpening
AccountTrue == WatchedAccount /\ UsesShow /\ FundingShows
Tainted ==
    \/ account.used \/ account.early
    \/ account.opening # Capital \/ account.paid # Capital

\* Every step of the broker and of the human keeps it so, and undoes nothing.
Onwards ==
    /\ account'.early = account.early /\ account.ledger \subseteq account'.ledger
    /\ account.used => account'.used
    /\ Tainted => Tainted'

LEMMA BookingKeepsAccount ==
    ASSUME AccountTrue, BookOpening \/ BookRetry
    PROVE  AccountTrue' /\ Onwards /\ start' = start
<1>. DEFINE o == Activity("opening", "JNLC", "executed", "USD", account.opening)
            c == Activity("retry", "JNLC", "canceled", "USD", account.opening)
<1>1. PICK a \in {o, c} : account' = [account EXCEPT !.ledger = @ \cup {a}] /\ start' = start
  BY DEF BookOpening, BookRetry, Books
<1>2. WatchedAccount /\ UsesShow /\ FundingShows /\ account.opening \in Nat
  BY DEF AccountTrue, WatchedAccount
<1>3. /\ DOMAIN account' = DOMAIN account /\ account'.ledger = account.ledger \cup {a}
      /\ account'.opening = account.opening /\ account'.early = account.early
      /\ account'.equity = account.equity /\ account'.paid = account.paid
      /\ account'.orders = account.orders /\ account'.fills = account.fills
      /\ account'.working = account.working /\ account'.position = account.position
      /\ account'.used = account.used
  BY <1>1, <1>2 DEF WatchedAccount
<1>4. ~Spent(a) /\ (isOpeningFundingJournal(a) => a = o)
  BY <1>2 DEF Activity, Spent, isCashJournalOut, isOpeningFundingJournal
<1>5. account.opening = Capital => o = TheOpening
  BY DEF TheOpening
<1>. HIDE DEF o, c
<1>6. WatchedAccount' /\ UsesShow'
  BY <1>2, <1>3, <1>4 DEF WatchedAccount, UsesShow
<1>7. FundingShows'
  BY <1>2, <1>3, <1>4, <1>5 DEF FundingShows
<1>. QED
  BY <1>1, <1>3, <1>6, <1>7 DEF AccountTrue, Onwards, Tainted

LEMMA MoneyKeepsAccount ==
    ASSUME AccountTrue, MoveCash
    PROVE  AccountTrue' /\ Onwards /\ start' = start
<1>1. PICK amount \in {-1, 1} :
        account' = [account EXCEPT !.equity = @ + amount, !.paid = IF amount > 0 THEN @ + amount ELSE @,
                                   !.used = @ \/ amount < 0,
                                   !.ledger = @ \cup {Activity("moved", "JNLC", "executed", "USD", amount)}]
  BY DEF MoveCash
<1>. DEFINE a == Activity("moved", "JNLC", "executed", "USD", amount)
            touched == account.used \/ amount < 0
<1>2. WatchedAccount /\ UsesShow /\ FundingShows /\ account.paid \in Int /\ account.equity \in Int
      /\ account.used \in BOOLEAN /\ account.opening \in Nat
  BY DEF AccountTrue, WatchedAccount
<1>3. /\ DOMAIN account' = DOMAIN account /\ account'.ledger = account.ledger \cup {a}
      /\ account'.opening = account.opening /\ account'.early = account.early
      /\ account'.orders = account.orders /\ account'.fills = account.fills
      /\ account'.working = account.working /\ account'.position = account.position
      /\ account'.equity = account.equity + amount
      /\ account'.paid = (IF amount > 0 THEN account.paid + amount ELSE account.paid)
      /\ account'.used = touched
  <2>1. account' = [account EXCEPT !.equity = @ + amount, !.paid = IF amount > 0 THEN @ + amount ELSE @,
                                   !.used = touched, !.ledger = @ \cup {a}]
    BY <1>1
  <2>. HIDE DEF a, touched
  <2>. QED
    BY <1>2, <2>1 DEF WatchedAccount
<1>4. start' = start
  BY DEF MoveCash
<1>5. (isCashJournalOut(a) <=> amount = -1) /\ (Spent(a) <=> amount = -1) /\ a.netAmountCents = amount
  BY DEF Activity, Spent, isCashJournalOut
<1>. HIDE DEF a
<1>6. account.paid >= account.opening
  BY <1>2 DEF UsesShow
<1>7. CASE amount = -1
  <2>1. account'.used /\ account'.used \in BOOLEAN /\ account'.paid = account.paid /\ account'.equity \in Int
    <3>1. amount < 0 /\ ~(amount > 0) /\ account.equity + amount \in Int
      BY <1>2, <1>7
    <3>2. touched /\ touched \in BOOLEAN
      BY <3>1
    <3>. HIDE DEF touched
    <3>. QED
      BY <1>3, <3>1, <3>2
  <2>2. isCashJournalOut(a) /\ ~isOpeningFundingJournal(a)
    BY <1>5, <1>7 DEF isCashJournalOut, isOpeningFundingJournal
  <2>3. WatchedAccount' /\ UsesShow'
    BY <1>2, <1>3, <2>1, <2>2 DEF WatchedAccount, UsesShow
  <2>4. FundingShows'
    BY <1>2, <1>3, <2>1, <2>2 DEF FundingShows
  <2>. QED
    BY <1>3, <1>4, <2>1, <2>3, <2>4 DEF AccountTrue, Onwards, Tainted
<1>8. CASE amount = 1
  <2>1. /\ account'.used = account.used /\ account'.paid = account.paid + 1
        /\ account'.equity = account.equity + 1
    <3>1. ~(amount < 0)
      BY <1>8
    <3>2. touched = account.used
      BY <1>2, <3>1
    <3>. HIDE DEF touched
    <3>. QED
      BY <1>2, <1>3, <1>8, <3>2
  <2>2. ~isCashJournalOut(a) /\ ~Spent(a)
    BY <1>5, <1>8
  <2>3. account'.paid > account.opening
    BY <1>2, <1>6, <2>1
  <2>4. WatchedAccount'
    BY <1>2, <1>3, <2>1 DEF WatchedAccount
  <2>5. UsesShow'
    BY <1>2, <1>3, <2>1, <2>2, <2>3, <2>4 DEF WatchedAccount, UsesShow
  <2>6. FundingShows'
    BY <1>2, <1>3, <2>3, CapitalAssumption DEF FundingShows
  <2>7. Tainted'
    BY <1>2, <1>3, <2>3, CapitalAssumption DEF Tainted
  <2>. QED
    BY <1>3, <1>4, <2>1, <2>4, <2>5, <2>6, <2>7 DEF AccountTrue, Onwards
<1>. QED
  BY <1>7, <1>8

LEMMA HumanKeepsAccount ==
    ASSUME AccountTrue, HumanOrders \/ HumanOrderEnds
    PROVE  AccountTrue' /\ Onwards /\ start' = start
<1>1. WatchedAccount /\ UsesShow /\ FundingShows
  BY DEF AccountTrue
<1>2. CASE HumanOrders
  <2>1. account' = [account EXCEPT !.orders = @ + 1, !.working = @ + 1, !.used = TRUE] /\ start' = start
    BY <1>2 DEF HumanOrders
  <2>2. /\ DOMAIN account' = DOMAIN account /\ account'.ledger = account.ledger
        /\ account'.opening = account.opening /\ account'.early = account.early
        /\ account'.orders = account.orders + 1 /\ account'.fills = account.fills
        /\ account'.working = account.working + 1 /\ account'.position = account.position
        /\ account'.equity = account.equity /\ account'.paid = account.paid /\ account'.used = TRUE
    BY <1>1, <2>1 DEF WatchedAccount
  <2>3. WatchedAccount'
    <3>1. account.orders \in Nat /\ account.working \in Int
      BY <1>1 DEF WatchedAccount
    <3>2. account'.orders = account.orders + 1 /\ account'.working = account.working + 1
      BY <2>2, Zenon
    <3>3. account'.orders \in Nat /\ account'.working \in Int
      BY <3>1, <3>2
    <3>4. account'.used \in BOOLEAN
      BY <2>2, Zenon
    <3>. QED
      BY <1>1, <2>2, <3>3, <3>4 DEF WatchedAccount
  <2>4. account'.orders > 0 /\ account'.used
    BY <1>1, <2>2 DEF WatchedAccount
  <2>. QED
    BY <1>1, <2>1, <2>2, <2>3, <2>4 DEF AccountTrue, UsesShow, FundingShows, Onwards, Tainted
<1>3. CASE HumanOrderEnds
  <2>. DEFINE a == Activity("fill", "FILL", "", "", 0)
  <2>1. account.used
    BY <1>1, <1>3 DEF HumanOrderEnds, UsesShow, WatchedAccount
  <2>2. start' = start
    BY <1>3 DEF HumanOrderEnds
  <2>3. /\ DOMAIN account' = DOMAIN account /\ account'.ledger \in {account.ledger, account.ledger \cup {a}}
        /\ account'.opening = account.opening /\ account'.early = account.early
        /\ account'.orders = account.orders /\ account'.fills \in Int
        /\ account'.working \in Int /\ account'.position \in Int
        /\ account'.equity = account.equity /\ account'.paid = account.paid /\ account'.used = account.used
    <3>1. CASE account' = [account EXCEPT !.working = @ - 1]
      BY <1>1, <3>1 DEF WatchedAccount
    <3>2. CASE account' = [account EXCEPT !.working = @ - 1, !.fills = @ + 1, !.position = 1 - @,
                                           !.ledger = @ \cup {a}]
      <4>. HIDE DEF a
      <4>. QED
        BY <1>1, <3>2 DEF WatchedAccount
    <3>. QED
      BY <1>3, <3>1, <3>2 DEF HumanOrderEnds
  <2>4. ~isOpeningFundingJournal(a)
    BY DEF Activity, isOpeningFundingJournal
  <2>. HIDE DEF a
  <2>5. WatchedAccount' /\ UsesShow'
    BY <1>1, <2>1, <2>3 DEF WatchedAccount, UsesShow
  <2>6. FundingShows'
    BY <1>1, <2>3, <2>4 DEF FundingShows
  <2>. QED
    BY <2>1, <2>2, <2>3, <2>5, <2>6 DEF AccountTrue, Onwards, Tainted
<1>. QED
  BY <1>2, <1>3

(***************************************************************************)
(* The agent's side.  Who owes no BOOTSTRAP any more has proven the        *)
(* account; what a snapshot was taken of is still to be seen.              *)
(***************************************************************************)
StartFields == {"profile", "seeded", "seedPending", "lines", "halt", "phase", "snapshot", "proven", "ordered"}
WatchedStart(s) ==
    /\ DOMAIN s = StartFields /\ s.profile \in {"dev", "competition"}
    /\ s.seeded \in BOOLEAN /\ s.seedPending \in BOOLEAN /\ s.ordered \in BOOLEAN /\ s.proven \in BOOLEAN
Granted(s) ==
    /\ s.seeded /\ ~s.seedPending => s.proven /\ (s.profile = "competition" => ~account.early)
    /\ s.ordered /\ s.seeded => ~s.seedPending
Latched(s) == s.halt = "PROVENANCE_BROKEN" => Tainted
SnapshotShows(shot) ==
    /\ shot.evidence.createdEarly = account.early /\ shot.evidence.orders \in Nat
    /\ shot.evidence.orders > 0 \/ shot.evidence.working # 0 \/ shot.evidence.positions # 0 => account.used
    /\ shot.used => shot.evidence.orders > 0 \/ \E a \in account.ledger : isCashJournalOut(a)
    /\ ~shot.used => shot.evidence.equity = shot.paid
StartTrue(s) ==
    /\ WatchedStart(s) /\ Granted(s) /\ Latched(s)
    /\ s.phase = "proving" => SnapshotShows(s.snapshot)

LEMMA LinesAreFree ==
    ASSUME NEW s, StartTrue(s), NEW t, DOMAIN t = DOMAIN s,
           \A f \in StartFields \ {"lines"} : t[f] = s[f]
    PROVE  StartTrue(t)
<1>1. /\ t.profile = s.profile /\ t.seeded = s.seeded /\ t.seedPending = s.seedPending /\ t.halt = s.halt
      /\ t.phase = s.phase /\ t.snapshot = s.snapshot /\ t.proven = s.proven /\ t.ordered = s.ordered
  BY DEF StartFields
<1>. QED
  BY <1>1 DEF StartTrue, WatchedStart, Granted, Latched

LEMMA AppendKeeps ==
    ASSUME NEW s, StartTrue(s), NEW type, type # "BOOTSTRAP"
    PROVE  StartTrue(append(s, type))
<1>. DEFINE t == [s EXCEPT !.lines = @ \cup {type}, !.seedPending = FALSE]
<1>1. CASE s.seedPending
  <2>1. append(s, type) = s
    BY <1>1 DEF append, Appends
  <2>. QED
    BY <2>1
<1>2. CASE ~s.seedPending
  <2>1. append(s, type) = t
    BY <1>2 DEF append, Appends
  <2>2. DOMAIN s = StartFields /\ s.seedPending = FALSE
    BY <1>2 DEF StartTrue, WatchedStart
  <2>3. DOMAIN t = DOMAIN s /\ \A f \in StartFields \ {"lines"} : t[f] = s[f]
    BY <2>2 DEF StartFields
  <2>. HIDE DEF t
  <2>. QED
    BY <2>1, <2>3, LinesAreFree
<1>. QED
  BY <1>1, <1>2

LEMMA HaltKeeps ==
    ASSUME NEW s, StartTrue(s), NEW reason, reason = "PROVENANCE_BROKEN" => Tainted
    PROVE  StartTrue(haltFor(s, reason))
<1>1. StartTrue(append(s, "HALT"))
  BY AppendKeeps
<1>. DEFINE h == append(s, "HALT")
            t == [h EXCEPT !.halt = reason]
<1>2. haltFor(s, reason) = s \/ haltFor(s, reason) = t
  BY DEF haltFor
<1>. HIDE DEF h
<1>3. WatchedStart(h)
  BY <1>1 DEF StartTrue, h
<1>4. /\ DOMAIN t = DOMAIN h /\ t.profile = h.profile /\ t.seeded = h.seeded /\ t.seedPending = h.seedPending
      /\ t.phase = h.phase /\ t.snapshot = h.snapshot /\ t.proven = h.proven /\ t.ordered = h.ordered
      /\ t.halt = reason
  BY <1>3 DEF WatchedStart, StartFields
<1>. HIDE DEF t
<1>5. StartTrue(h)
  BY <1>1 DEF h
<1>6. StartTrue(t)
  BY <1>4, <1>5 DEF StartTrue, WatchedStart, Granted, Latched
<1>. QED
  BY <1>2, <1>6

LEMMA IdleKeeps ==
    ASSUME NEW s, StartTrue(s)
    PROVE  StartTrue(Idle(s))
<1>. DEFINE t == Idle(s)
<1>1. /\ DOMAIN t = DOMAIN s /\ t.profile = s.profile /\ t.seeded = s.seeded /\ t.seedPending = s.seedPending
      /\ t.halt = s.halt /\ t.proven = s.proven /\ t.ordered = s.ordered /\ t.phase = "idle"
  BY DEF StartTrue, WatchedStart, StartFields, Idle
<1>. HIDE DEF t
<1>2. StartTrue(t)
  BY <1>1 DEF StartTrue, WatchedStart, Granted, Latched
<1>. QED
  BY <1>2 DEF t

LEMMA BootstrapKeeps ==
    ASSUME NEW s, StartTrue(s), NEW v, v = TRUE, s.profile = "competition" => ~account.early
    PROVE  StartTrue([append(s, "BOOTSTRAP") EXCEPT !.proven = v])
<1>. DEFINE b == append(s, "BOOTSTRAP")
            t == [b EXCEPT !.proven = v]
<1>1. b = [s EXCEPT !.lines = @ \cup {"BOOTSTRAP"}, !.seedPending = FALSE]
  BY DEF append, Appends
<1>2. DOMAIN s = StartFields
  BY DEF StartTrue, WatchedStart
<1>. HIDE DEF b
<1>3. /\ DOMAIN t = DOMAIN s /\ t.profile = s.profile /\ t.seeded = s.seeded /\ t.seedPending = FALSE
      /\ t.halt = s.halt /\ t.phase = s.phase /\ t.snapshot = s.snapshot /\ t.ordered = s.ordered
      /\ t.proven = v
  BY <1>1, <1>2 DEF StartFields
<1>. HIDE DEF t
<1>4. t.proven /\ t.proven \in BOOLEAN
  BY <1>3
<1>5. ~t.seedPending /\ t.seedPending \in BOOLEAN
  BY <1>3
<1>6. WatchedStart(t)
  BY <1>3, <1>4, <1>5 DEF StartTrue, WatchedStart
<1>7. Granted(t)
  BY <1>3, <1>4, <1>5 DEF Granted
<1>8. Latched(t) /\ (t.phase = "proving" => SnapshotShows(t.snapshot))
  BY <1>3 DEF StartTrue, Latched
<1>9. StartTrue(t)
  BY <1>6, <1>7, <1>8 DEF StartTrue
<1>. QED
  BY <1>9 DEF t, b

LEMMA PhaseKeeps ==
    ASSUME NEW s, StartTrue(s)
    PROVE  StartTrue([s EXCEPT !.phase = "trading"])
<1>. DEFINE t == [s EXCEPT !.phase = "trading"]
<1>1. /\ DOMAIN t = DOMAIN s /\ t.profile = s.profile /\ t.seeded = s.seeded /\ t.seedPending = s.seedPending
      /\ t.halt = s.halt /\ t.proven = s.proven /\ t.ordered = s.ordered /\ t.phase = "trading"
  BY DEF StartTrue, WatchedStart, StartFields
<1>. HIDE DEF t
<1>2. StartTrue(t)
  BY <1>1 DEF StartTrue, WatchedStart, Granted, Latched
<1>. QED
  BY <1>2 DEF t

LEMMA ProceedsKeeps ==
    ASSUME NEW s, StartTrue(s)
    PROVE  StartTrue(Proceeds(s))
<1>1. StartTrue(append(s, "CYCLE"))
  BY AppendKeeps
<1>2. StartTrue(Idle(append(s, "CYCLE")))
  BY <1>1, IdleKeeps
<1>. QED
  BY <1>2, PhaseKeeps DEF Proceeds

LEMMA ClassificationKeeps ==
    ASSUME AccountTrue, NEW s, StartTrue(s)
    PROVE  StartTrue(AfterClassification(s))
<1>. DEFINE latched == IF account.position # 0 /\ s.profile = "competition"
                       THEN haltFor(s, "PROVENANCE_BROKEN") ELSE s
<1>1. StartTrue(latched)
  <2>1. CASE account.position # 0 /\ s.profile = "competition"
    <3>1. Tainted
      BY <2>1 DEF AccountTrue, UsesShow, Tainted
    <3>. QED
      BY <2>1, <3>1, HaltKeeps
  <2>2. CASE ~(account.position # 0 /\ s.profile = "competition")
    BY <2>2
  <2>. QED
    BY <2>1, <2>2
<1>. HIDE DEF latched
<1>2. StartTrue(haltFor(latched, "RESIDUE_UNRESOLVED"))
  BY <1>1, HaltKeeps
<1>3. StartTrue(Idle(haltFor(latched, "RESIDUE_UNRESOLVED")))
  BY <1>2, IdleKeeps
<1>. QED
  BY <1>3 DEF AfterClassification, latched

\* What a bundle may show, of the snapshot taken before and of the ledger read after it.
LEMMA BundleFacts ==
    ASSUME NEW b \in Bundles
    PROVE  LET e == start.snapshot.evidence
           IN  /\ b.createdEarly = e.createdEarly /\ b.equity = e.equity
               /\ b.positions = e.positions /\ b.working = e.working
               /\ b.orders \in {e.orders, 0} /\ b.fills \in {account.fills, 0}
               /\ b.ledger \subseteq account.ledger
               /\ b.complete => b.ledger = account.ledger /\ b.orders = e.orders
<1>. DEFINE e == start.snapshot.evidence
            done(all, shown) == all /\ shown = account.ledger
            Bundle(s, all, readable, shown) ==
              [createdEarly |-> s.createdEarly, equity |-> s.equity, positions |-> s.positions,
               working |-> s.working, orders |-> IF all THEN s.orders ELSE 0,
               fills |-> IF all THEN account.fills ELSE 0, ledger |-> shown,
               complete |-> done(all, shown), readable |-> readable]
<1>1. PICK s \in {e}, all \in BOOLEAN, readable \in BOOLEAN, shown \in SUBSET account.ledger :
        b = Bundle(s, all, readable, shown)
  <2>1. b \in {Bundle(s, all, readable, shown) :
                 s \in {e}, all \in BOOLEAN, readable \in BOOLEAN, shown \in SUBSET account.ledger}
    <3>1. Bundles = {Bundle(s, all, readable, shown) :
                 s \in {e}, all \in BOOLEAN, readable \in BOOLEAN, shown \in SUBSET account.ledger}
      BY DEF Bundles
    <3>. HIDE DEF Bundle
    <3>. QED
      BY <3>1
  <2>. HIDE DEF Bundle
  <2>. QED
    BY <2>1
<1>. HIDE DEF done, e
<1>2. /\ b.createdEarly = s.createdEarly /\ b.equity = s.equity /\ b.positions = s.positions
      /\ b.working = s.working /\ b.ledger = shown /\ b.complete = done(all, shown)
      /\ b.orders = (IF all THEN s.orders ELSE 0) /\ b.fills = (IF all THEN account.fills ELSE 0)
  BY <1>1
<1>3. s = e
  BY <1>1
<1>4. b.complete => all /\ shown = account.ledger
  BY <1>2 DEF done
<1>. QED
  BY <1>2, <1>3, <1>4 DEF e

\* A proof that succeeds is right, and so is one that finds the account reused.
LEMMA VerdictIsTrue ==
    ASSUME AccountTrue, SnapshotShows(start.snapshot), NEW b \in Bundles
    PROVE  LET verdict == validateCompetitionProvenance(b)
           IN  /\ verdict.ok => /\ ~start.snapshot.used /\ start.snapshot.paid = Capital
                                /\ account.early = FALSE
               /\ verdict.reuse => Tainted
<1>. DEFINE e == start.snapshot.evidence
            verdict == validateCompetitionProvenance(b)
            sound == /\ ~Reused(b) /\ b.readable /\ b.complete
                     /\ b.equity = Capital /\ FundingShown(b)
                     /\ \A a \in b.ledger : ~Uncountable(a)
            reused == Reused(b)
<1>1. /\ b.createdEarly = e.createdEarly /\ b.equity = e.equity
      /\ b.positions = e.positions /\ b.working = e.working
      /\ b.orders \in {e.orders, 0} /\ b.fills \in {account.fills, 0}
      /\ b.ledger \subseteq account.ledger
      /\ b.complete => b.ledger = account.ledger /\ b.orders = e.orders
  BY BundleFacts
<1>2. verdict.ok = sound /\ verdict.reuse = reused
  <2>1. verdict = [reuse |-> reused, ok |-> sound]
    BY Zenon DEF validateCompetitionProvenance
  <2>. HIDE DEF reused, sound, verdict
  <2>. QED
    BY <2>1
<1>3. /\ e.createdEarly = account.early /\ e.orders \in Nat
      /\ e.orders > 0 \/ e.working # 0 \/ e.positions # 0 => account.used
      /\ start.snapshot.used => e.orders > 0 \/ \E a \in account.ledger : isCashJournalOut(a)
      /\ ~start.snapshot.used => e.equity = start.snapshot.paid
  BY DEF SnapshotShows
<1>4. WatchedAccount /\ UsesShow /\ FundingShows
  BY DEF AccountTrue
<1>. HIDE DEF e
<1>5. ASSUME sound PROVE ~start.snapshot.used /\ start.snapshot.paid = Capital /\ account.early = FALSE
  <2>1. b.ledger = account.ledger /\ b.orders = e.orders /\ b.equity = Capital
    BY <1>1, <1>5
  <2>2. ~b.createdEarly /\ ~(b.orders > 0) /\ \A a \in b.ledger : ~Spent(a)
    BY <1>5 DEF Reused
  <2>3. \A a \in account.ledger : ~isCashJournalOut(a)
    BY <2>1, <2>2 DEF Spent
  <2>4. ~start.snapshot.used
    BY <1>3, <2>1, <2>2, <2>3
  <2>5. account.early = FALSE
    <3>1. ~account.early
      BY <1>1, <1>3, <2>2
    <3>. QED
      BY <1>4, <3>1 DEF WatchedAccount
  <2>. QED
    BY <1>1, <1>3, <2>1, <2>4, <2>5
<1>6. ASSUME reused PROVE Tainted
  <2>1. CASE b.createdEarly
    BY <1>1, <1>3, <2>1 DEF Tainted
  <2>2. CASE b.positions # 0 \/ b.working # 0 \/ b.orders > 0
    BY <1>1, <1>3, <2>2 DEF Tainted
  <2>3. CASE b.fills > 0
    <3>1. account.fills # 0
      BY <1>1, <2>3
    <3>. QED
      BY <1>4, <3>1 DEF UsesShow, Tainted
  <2>4. CASE \E a \in b.ledger : Spent(a)
    BY <1>1, <1>4, <2>4 DEF UsesShow, Tainted
  <2>5. CASE (\E a \in b.ledger : isOpeningFundingJournal(a)) /\ Funded(b.ledger) # Capital
    <3>. SUFFICES ASSUME account.opening = Capital, account.paid = Capital PROVE FALSE
      BY DEF Tainted
    <3>1. \A a \in b.ledger : isOpeningFundingJournal(a) => a = TheOpening
      BY <1>1, <1>4 DEF FundingShows
    <3>2. PICK a \in b.ledger : isOpeningFundingJournal(a)
      BY <2>5
    <3>3. a = TheOpening /\ a.netAmountCents = Capital /\ Capital \in Int
      BY <3>1, <3>2, CapitalAssumption DEF TheOpening, Activity
    <3>4. {x \in b.ledger : isOpeningFundingJournal(x)} = {a}
      BY <3>1, <3>2, <3>3
    <3>5. Funded(b.ledger) = a.netAmountCents
      BY <3>2, <3>3, <3>4, FundedByOne
    <3>. QED
      BY <2>5, <3>3, <3>5
  <2>. QED
    BY <1>6, <2>1, <2>2, <2>3, <2>4, <2>5 DEF Reused
<1>. HIDE DEF sound, reused, verdict
<1>. QED
  BY <1>2, <1>5, <1>6 DEF verdict

ProvenanceInv == start # NoAccount => AccountTrue /\ StartTrue(start)

LEMMA ProvenanceInvInit == ProvenanceInit => ProvenanceInv
<1>. SUFFICES ASSUME ProvenanceInit PROVE ProvenanceInv
  OBVIOUS
<1>1. PICK profile \in {"dev", "competition"}, opening \in Openings, early \in BOOLEAN, seeded \in BOOLEAN :
        Opened(profile, opening, early, seeded)
  BY DEF ProvenanceInit
<1>2. opening \in Nat
  BY CapitalAssumption
<1>3. account = [opening |-> opening, early |-> early, equity |-> opening, paid |-> opening, orders |-> 0,
                 fills |-> 0, working |-> 0, position |-> 0, ledger |-> {}, used |-> FALSE]
  BY <1>1 DEF Opened
<1>4. /\ DOMAIN account = {"opening", "early", "equity", "paid", "orders", "fills", "working",
                           "position", "ledger", "used"}
      /\ account.opening = opening /\ account.early = early /\ account.equity = opening
      /\ account.paid = opening /\ account.orders = 0 /\ account.fills = 0 /\ account.working = 0
      /\ account.position = 0 /\ account.ledger = {}
  BY <1>3
<1>5. account.used = FALSE
  BY <1>3
<1>6. ~account.used /\ account.used \in BOOLEAN
  BY <1>5
<1>7. AccountTrue
  BY <1>2, <1>4, <1>6 DEF AccountTrue, WatchedAccount, UsesShow, FundingShows
<1>8. start = [profile |-> profile, seeded |-> seeded, seedPending |-> seeded, lines |-> {},
               halt |-> "none", phase |-> "idle", snapshot |-> NoSnapshot, proven |-> FALSE, ordered |-> FALSE]
  BY <1>1 DEF Opened
<1>9. /\ DOMAIN start = StartFields /\ start.profile = profile /\ start.seeded = seeded
      /\ start.seedPending = seeded /\ start.halt = "none" /\ start.phase = "idle"
  BY <1>8 DEF StartFields
<1>10. start.proven = FALSE /\ start.ordered = FALSE
  BY <1>8
<1>11. StartTrue(start)
  <2>1. start.proven \in BOOLEAN /\ start.ordered \in BOOLEAN /\ ~start.ordered
    BY <1>10
  <2>. QED
    BY <1>9, <2>1 DEF StartTrue, WatchedStart, Granted, Latched
<1>. QED
  BY <1>7, <1>11 DEF ProvenanceInv

LEMMA BrokerKeepsStart ==
    ASSUME AccountTrue', Onwards, StartTrue(start), start' = start
    PROVE  ProvenanceInv'
<1>1. account'.early = account.early /\ account.ledger \subseteq account'.ledger
      /\ (account.used => account'.used) /\ (Tainted => Tainted')
  BY DEF Onwards
<1>2. StartTrue(start)'
  BY <1>1 DEF StartTrue, WatchedStart, Granted, Latched, SnapshotShows
<1>. QED
  BY <1>2 DEF ProvenanceInv

\* An agent's step leaves the account as it is.
LEMMA AccountRests ==
    ASSUME AccountTrue, account' = account, NEW s, start' = s, StartTrue(s)
    PROVE  ProvenanceInv'
<1>1. AccountTrue'
  BY DEF AccountTrue, WatchedAccount, UsesShow, FundingShows
<1>2. StartTrue(start)'
  BY DEF StartTrue, WatchedStart, Granted, Latched, SnapshotShows, Tainted
<1>. QED
  BY <1>1, <1>2 DEF ProvenanceInv

LEMMA BeginKeepsProvenance ==
    ASSUME AccountTrue, StartTrue(start), BeginCycle
    PROVE  ProvenanceInv'
<1>1. account' = account
  BY DEF BeginCycle
<1>. DEFINE shot == [evidence |-> SnapshotEvidence, used |-> account.used, paid |-> account.paid]
            proving == [start EXCEPT !.phase = "proving", !.snapshot = shot]
            foreign == haltFor(append(start, "GAP"), "GAP")
            adopted == Proceeds([append(start, "BOOTSTRAP") EXCEPT !.proven = TRUE])
            late == Idle(AfterClassification(append(start, "GAP")))
            cycle == IF BookVirgin THEN Proceeds(start) ELSE AfterClassification(start)
<1>2. PICK stale \in BOOLEAN :
        start' = CASE planPrimaryEntry(stale) = "FOREIGN_BOOK_GAP" -> foreign
                   [] planPrimaryEntry(stale) = "BOOTSTRAP" /\ start.profile = "competition" -> proving
                   [] planPrimaryEntry(stale) = "BOOTSTRAP" /\ start.profile = "dev" -> adopted
                   [] planPrimaryEntry(stale) = "GAP" -> late
                   [] planPrimaryEntry(stale) = "CYCLE" -> cycle
  BY Zenon DEF BeginCycle
<1>. DEFINE plan == planPrimaryEntry(stale)
<1>3. plan \in {"BOOTSTRAP", "FOREIGN_BOOK_GAP", "GAP", "CYCLE"}
  BY DEF planPrimaryEntry
<1>4. start.profile \in {"dev", "competition"} /\ DOMAIN start = StartFields
  BY DEF StartTrue, WatchedStart
<1>5. StartTrue(foreign)
  BY AppendKeeps, HaltKeeps
<1>6. start.profile = "dev" => StartTrue(adopted)
  <2>. DEFINE v == TRUE
              s == [append(start, "BOOTSTRAP") EXCEPT !.proven = v]
  <2>1. v = TRUE
    OBVIOUS
  <2>. HIDE DEF v
  <2>2. start.profile = "dev" => StartTrue(s)
    BY <2>1, BootstrapKeeps
  <2>3. start.profile = "dev" => StartTrue(Proceeds(s))
    <3>. HIDE DEF s
    <3>. QED
      BY <2>2, ProceedsKeeps
  <2>. QED
    BY <2>3 DEF v
<1>7. StartTrue(late)
  BY AppendKeeps, ClassificationKeeps, IdleKeeps
<1>8. StartTrue(cycle)
  BY ProceedsKeeps, ClassificationKeeps
<1>9. StartTrue(proving)
  <2>1. /\ shot.evidence = SnapshotEvidence /\ shot.used = account.used /\ shot.paid = account.paid
    OBVIOUS
  <2>2. /\ SnapshotEvidence.createdEarly = account.early /\ SnapshotEvidence.orders = account.orders
        /\ SnapshotEvidence.working = account.working /\ SnapshotEvidence.positions = account.position
        /\ SnapshotEvidence.equity = account.equity
    BY DEF SnapshotEvidence
  <2>. HIDE DEF shot
  <2>3. SnapshotShows(shot)
    BY <2>1, <2>2 DEF AccountTrue, WatchedAccount, UsesShow, SnapshotShows
  <2>4. /\ DOMAIN proving = DOMAIN start /\ proving.profile = start.profile /\ proving.seeded = start.seeded
        /\ proving.seedPending = start.seedPending /\ proving.halt = start.halt
        /\ proving.proven = start.proven /\ proving.ordered = start.ordered /\ proving.snapshot = shot
    BY <1>4 DEF StartFields
  <2>. HIDE DEF proving
  <2>. QED
    BY <2>3, <2>4 DEF StartTrue, WatchedStart, Granted, Latched
<1>. HIDE DEF plan, foreign, proving, adopted, late, cycle
<1>10. \/ start' = foreign \/ start' = proving \/ (start' = adopted /\ start.profile = "dev")
       \/ start' = late \/ start' = cycle
  <2>1. CASE plan = "FOREIGN_BOOK_GAP"
    BY <1>2, <2>1 DEF plan
  <2>2. CASE plan = "BOOTSTRAP"
    BY <1>2, <1>4, <2>2 DEF plan
  <2>3. CASE plan = "GAP"
    BY <1>2, <2>3 DEF plan
  <2>4. CASE plan = "CYCLE"
    BY <1>2, <2>4 DEF plan
  <2>. QED
    BY <1>3, <2>1, <2>2, <2>3, <2>4
<1>. QED
  BY <1>1, <1>5, <1>6, <1>7, <1>8, <1>9, <1>10, AccountRests

LEMMA ProveKeepsProvenance ==
    ASSUME AccountTrue, StartTrue(start), Prove
    PROVE  ProvenanceInv'
<1>1. account' = account /\ start.phase = "proving" /\ SnapshotShows(start.snapshot)
  BY DEF Prove, StartTrue
<1>. DEFINE right == ~start.snapshot.used /\ start.snapshot.paid = Capital
            proven == Proceeds([append(start, "BOOTSTRAP") EXCEPT !.proven = right])
            none == [reuse |-> FALSE, ok |-> FALSE]
            refused(reason) == Idle(haltFor(append(start, "GAP"), reason))
<1>2. PICK verdict \in {validateCompetitionProvenance(b) : b \in Bundles} \cup {none} :
        start' = IF verdict.ok THEN proven
                 ELSE refused(IF verdict.reuse THEN "PROVENANCE_BROKEN" ELSE "GAP")
  BY Zenon DEF Prove
<1>3. /\ verdict.ok => right /\ account.early = FALSE
      /\ verdict.reuse => Tainted
  <2>1. CASE verdict = none
    <3>1. verdict.ok = FALSE /\ verdict.reuse = FALSE
      BY <2>1
    <3>. QED
      BY <3>1
  <2>2. CASE verdict # none
    <3>1. PICK b \in Bundles : verdict = validateCompetitionProvenance(b)
      <4>. HIDE DEF none
      <4>. QED
        BY <1>2, <2>2
    <3>. QED
      BY <1>1, <3>1, VerdictIsTrue
  <2>. QED
    BY <2>1, <2>2
<1>4. ASSUME verdict.ok PROVE StartTrue(proven)
  <2>1. right = TRUE /\ ~account.early
    BY <1>3, <1>4
  <2>. DEFINE s == [append(start, "BOOTSTRAP") EXCEPT !.proven = right]
  <2>. HIDE DEF right
  <2>2. StartTrue(s)
    BY <2>1, BootstrapKeeps
  <2>. HIDE DEF s
  <2>3. StartTrue(Proceeds(s))
    BY <2>2, ProceedsKeeps
  <2>. QED
    BY <2>3 DEF s
<1>5. verdict.reuse => StartTrue(refused("PROVENANCE_BROKEN"))
  BY <1>3, AppendKeeps, HaltKeeps, IdleKeeps
<1>6. StartTrue(refused("GAP"))
  BY AppendKeeps, HaltKeeps, IdleKeeps
<1>. HIDE DEF proven, refused
<1>7. \/ verdict.ok /\ start' = proven
      \/ verdict.reuse /\ start' = refused("PROVENANCE_BROKEN")
      \/ start' = refused("GAP")
  BY <1>2
<1>. QED
  BY <1>1, <1>4, <1>5, <1>6, <1>7, AccountRests

LEMMA AgentKeepsProvenance ==
    ASSUME AccountTrue, StartTrue(start), Trade \/ CycleEnds \/ Crash \/ Witness \/ ManualUnhalt
    PROVE  ProvenanceInv'
<1>1. account' = account
  BY DEF Trade, CycleEnds, Crash, Witness, ManualUnhalt
<1>. DEFINE ended == Idle(append(start, "CYCLE"))
            ordered == [ended EXCEPT !.ordered = TRUE]
            witnessed == [start EXCEPT !.lines = @ \cup {"SUPPRESSED"}]
            lifted == [start EXCEPT !.halt = "none", !.lines = @ \cup {"UNHALT"}]
<1>2. WatchedStart(start) /\ DOMAIN start = StartFields
  BY DEF StartTrue, WatchedStart
<1>3. StartTrue(Idle(start)) /\ StartTrue(ended)
  BY AppendKeeps, IdleKeeps
<1>4. ASSUME ~start.seedPending PROVE StartTrue(ordered)
  <2>1. ~ended.seedPending /\ ended.phase = "idle"
    <3>1. append(start, "CYCLE") = [start EXCEPT !.lines = @ \cup {"CYCLE"}, !.seedPending = FALSE]
      BY <1>4 DEF append, Appends
    <3>. DEFINE a == append(start, "CYCLE")
    <3>. HIDE DEF a
    <3>2. DOMAIN a = StartFields /\ a.seedPending = FALSE
      BY <1>2, <3>1 DEF StartFields, a
    <3>3. ended = Idle(a)
      BY DEF a
    <3>4. ended.seedPending = a.seedPending /\ ended.phase = "idle"
      BY <3>2, <3>3 DEF Idle, StartFields
    <3>. HIDE DEF ended
    <3>. QED
      BY <3>2, <3>4
  <2>. HIDE DEF ended
  <2>2. StartTrue(ended)
    BY <1>3 DEF ended
  <2>3. /\ DOMAIN ordered = DOMAIN ended /\ ordered.profile = ended.profile /\ ordered.seeded = ended.seeded
        /\ ordered.seedPending = ended.seedPending /\ ordered.halt = ended.halt
        /\ ordered.proven = ended.proven /\ ordered.phase = "idle"
    BY <2>1, <2>2 DEF StartTrue, WatchedStart, StartFields
  <2>4. ordered.ordered \in BOOLEAN
    BY <2>2 DEF StartTrue, WatchedStart, StartFields
  <2>. HIDE DEF ordered
  <2>. QED
    BY <2>1, <2>2, <2>3, <2>4 DEF StartTrue, WatchedStart, Granted, Latched
<1>5. StartTrue(witnessed)
  <2>1. DOMAIN witnessed = DOMAIN start /\ \A f \in StartFields \ {"lines"} : witnessed[f] = start[f]
    BY <1>2
  <2>. HIDE DEF witnessed
  <2>. QED
    BY <2>1, LinesAreFree
<1>6. StartTrue(lifted)
  <2>1. /\ DOMAIN lifted = DOMAIN start /\ lifted.profile = start.profile /\ lifted.seeded = start.seeded
        /\ lifted.seedPending = start.seedPending /\ lifted.halt = "none" /\ lifted.phase = start.phase
        /\ lifted.snapshot = start.snapshot /\ lifted.proven = start.proven /\ lifted.ordered = start.ordered
    BY <1>2 DEF StartFields
  <2>. HIDE DEF lifted
  <2>. QED
    BY <2>1 DEF StartTrue, WatchedStart, Granted, Latched
<1>7. \/ start' = Idle(start) \/ start' = ended \/ (start' = ordered /\ ~start.seedPending)
      \/ start' = witnessed \/ start' = lifted
  BY Zenon DEF Trade, CycleEnds, Crash, Witness, ManualUnhalt
<1>. HIDE DEF ended, ordered, witnessed, lifted
<1>. QED
  BY <1>1, <1>3, <1>4, <1>5, <1>6, <1>7, AccountRests

(***************************************************************************)
(* The provenance latch tells the truth both ways (lifecycle.ts,           *)
(* cycle-runner.ts): the first order of a seeded store follows a proof     *)
(* over an account that was unused, created in time and paid in with       *)
(* exactly the capital, and PROVENANCE_BROKEN is latched on no other, for  *)
(* every capital, opening balance and order of bookings and crashes.       *)
(***************************************************************************)
THEOREM ProvenanceIsProven == ProvenanceInit /\ [][ProvenanceNext]_provenanceVars => []ProvenanceIsTrue
<1>1. ASSUME ProvenanceInv, [ProvenanceNext]_provenanceVars PROVE ProvenanceInv'
  <2>1. CASE start = NoAccount
    <3>1. start' = start
      BY <1>1, <2>1 DEF ProvenanceNext, provenanceVars, Watched, BeginCycle, Prove, Trade, CycleEnds, Crash,
                        Witness, ManualUnhalt, BookOpening, BookRetry, MoveCash, HumanOrders, HumanOrderEnds
    <3>. QED
      BY <2>1, <3>1 DEF ProvenanceInv
  <2>2. CASE start # NoAccount
    <3>1. AccountTrue /\ StartTrue(start)
      BY <1>1, <2>2 DEF ProvenanceInv
    <3>2. CASE UNCHANGED provenanceVars
      BY <3>1, <3>2, AccountRests DEF provenanceVars
    <3>3. CASE BeginCycle
      BY <3>1, <3>3, BeginKeepsProvenance
    <3>4. CASE Prove
      BY <3>1, <3>4, ProveKeepsProvenance
    <3>5. CASE Trade \/ CycleEnds \/ Crash \/ Witness \/ ManualUnhalt
      BY <3>1, <3>5, AgentKeepsProvenance
    <3>6. CASE BookOpening \/ BookRetry
      BY <3>1, <3>6, BookingKeepsAccount, BrokerKeepsStart
    <3>7. CASE MoveCash
      BY <3>1, <3>7, MoneyKeepsAccount, BrokerKeepsStart
    <3>8. CASE HumanOrders \/ HumanOrderEnds
      BY <3>1, <3>8, HumanKeepsAccount, BrokerKeepsStart
    <3>. QED
      BY <1>1, <3>2, <3>3, <3>4, <3>5, <3>6, <3>7, <3>8 DEF ProvenanceNext
  <2>. QED
    BY <2>1, <2>2
<1>2. ProvenanceInv => ProvenanceIsTrue
  BY DEF ProvenanceInv, StartTrue, WatchedStart, Granted, Latched, Tainted, ProvenanceIsTrue
<1>. QED
  BY <1>1, <1>2, ProvenanceInvInit, PTL
(***************************************************************************)
(* The launch (AnalystLaunch).  What has been judged and is not as pinned  *)
(* was reported, or changed since; and what has to be judged before the    *)
(* spawn has been.                                                         *)
(***************************************************************************)
Phases == {"documents", "remove", "scan", "gather", "verify", "connect", "inventory", "stop", "over"}
Launches ==
    [phase : Phases, manifest : Manifests, lock : RuntimeLocks, childEnv : {childEnvironment(h) : h \in SUBSET HostNames},
     env : [Kinds -> {"pinned", "other"}], evidence : [DOMAIN Looks -> SUBSET Kinds], part : 1..7,
     surviving : SUBSET Kinds, child : {"none", "running", "stopped"},
     ran : [Importable -> {NotRead, "pinned", "other"}], looked : SUBSET Kinds, late : SUBSET Kinds, changes : Nat,
     outcome : {"none", "refused", "accepted", "failed", "cleanup_incomplete"}]
Proving == DOMAIN Looks \ {"launchArtifactsSha256"}
Disclosed(l, k) == k \in l.surviving \/ \E p \in Proving : k \in l.evidence[p]

Judged(l) == \A k \in l.looked : l.env[k] = "other" => k \in l.late \/ Disclosed(l, k)
Looked(l) ==
    /\ l.phase \in {"documents", "remove", "scan"} => l.looked = {}
    /\ l.phase \in {"gather", "verify"} =>
          /\ Removable(l.lock) \subseteq l.looked
          /\ \A n \in 1..6 : n < l.part => gather[n] \notin Proving \/ Looks[gather[n]] \subseteq l.looked
    /\ l.phase \in {"documents", "remove", "scan"} => l.part = 1
    /\ l.phase \in {"documents", "remove", "scan", "gather"} =>
          \A n \in 1..6 : l.part <= n => l.evidence[gather[n]] = {}
    /\ l.phase = "gather" => l.part \in 1..6
    /\ l.phase = "verify" => l.part = 7
Supervised(l) ==
    /\ l.phase \in {"documents", "remove", "scan", "gather", "verify"} => l.child = "none" /\ l.outcome = "none"
    /\ l.phase \in {"connect", "inventory"} => l.child = "running" /\ l.outcome = "none"
    /\ l.phase = "stop" => l.child = "running" /\ l.outcome \in {"refused", "failed"}
    /\ l.phase = "over" /\ l.child = "running" => l.outcome \in {"accepted", "cleanup_incomplete"}
    /\ l.outcome = "accepted" => l.phase = "over" /\ l.child = "running" /\ l.lock.version = l.manifest.version
    /\ l.phase \notin {"documents", "over"} => l.lock.version = l.manifest.version
Pinned(l) ==
    l.child # "none" /\ "pyc" \in l.lock.removeBeforeSpawn =>
        \A k \in Importable : l.ran[k] = "pinned" \/ k \in l.late
Sure(l) == l \in Launches /\ Judged(l) /\ Looked(l) /\ Supervised(l) /\ Pinned(l)
LaunchInv == launch # NoLaunch => Sure(launch)

LEMMA GatherIs ==
    /\ DOMAIN Looks = {"sourceCommit", "dependencyLockMatchesPin", "dependencyContentMatchesPin",
                       "immutableFileMismatches", "launchArtifactsSha256", "interpreter"}
    /\ \A p \in DOMAIN Looks : Looks[p] \subseteq Kinds
    /\ gather[3] = "dependencyContentMatchesPin" /\ gather[4] = "immutableFileMismatches" /\ gather[6] = "interpreter"
    /\ \A n \in 1..6 : gather[n] \in DOMAIN Looks
    /\ \A n, k \in 1..6 : gather[n] = gather[k] => n = k
    /\ Len(gather) = 6
    /\ "dependency" \in Looks["dependencyContentMatchesPin"] /\ "package" \in Looks["immutableFileMismatches"]
    /\ "runtime" \in Looks["interpreter"]
<1>1. DOMAIN Looks = {"sourceCommit", "dependencyLockMatchesPin", "dependencyContentMatchesPin",
                       "immutableFileMismatches", "launchArtifactsSha256", "interpreter"}
  BY DEF Looks
<1>2. \A p \in DOMAIN Looks : Looks[p] \subseteq Kinds
  BY <1>1 DEF Looks, Kinds, SiteKinds, Bytecode
<1>3. \A n \in 1..6 : gather[n] \in DOMAIN Looks
  BY <1>1 DEF gather
<1>4. \A n, k \in 1..6 : gather[n] = gather[k] => n = k
  BY DEF gather
<1>. QED
  BY <1>1, <1>2, <1>3, <1>4 DEF gather, Looks

LEMMA RemovableKinds == \A l : Removable(l) \in SUBSET Kinds
BY DEF Removable, Kinds, SiteKinds

LEMMA LaunchInitially == LaunchInit => LaunchInv
<1>. SUFFICES ASSUME LaunchInit PROVE Sure(launch)
  BY DEF LaunchInv
<1>1. launch \in Launches
  BY DEF LaunchInit, Launches, Phases
<1>2. /\ launch.phase = "documents" /\ launch.looked = {} /\ launch.child = "none" /\ launch.outcome = "none"
      /\ launch.part = 1
  BY DEF LaunchInit
<1>3. \A p \in DOMAIN Looks : launch.evidence[p] = {}
  BY DEF LaunchInit
<1>. QED
  BY <1>1, <1>2, <1>3, GatherIs DEF Sure, Judged, Looked, Supervised, Pinned

\* A step that leaves what was judged, and the child, alone.
LEMMA SameLaunch ==
    ASSUME NEW l \in Launches, NEW m \in Launches, Judged(l), Pinned(l),
           m.env = l.env /\ m.evidence = l.evidence /\ m.surviving = l.surviving,
           m.looked = l.looked /\ m.late = l.late /\ m.lock = l.lock,
           m.ran = l.ran /\ (l.child = "none" => m.child = "none")
    PROVE  Judged(m) /\ Pinned(m)
BY DEF Judged, Pinned, Disclosed

LEMMA LaunchStep == LaunchInv /\ [LaunchNext]_launch => LaunchInv'
<1>. SUFFICES ASSUME LaunchInv, [LaunchNext]_launch PROVE LaunchInv'
  OBVIOUS
<1>. USE GatherIs
<1>0. CASE UNCHANGED launch
  BY <1>0 DEF LaunchInv, Sure, Judged, Disclosed, Looked, Supervised, Pinned
<1>. SUFFICES ASSUME launch # NoLaunch, Sure(launch), LaunchNext PROVE Sure(launch')
  BY <1>0 DEF LaunchInv, LaunchNext, ReadDocuments, removeBytecode, scanBytecode, GatherPart,
              launchVerifiedAnalystChild, Connect, ListTools, Fail, StopChild, Change
<1>. DEFINE l == launch
            m == launch'
<1>1. l \in Launches /\ Judged(l) /\ Looked(l) /\ Supervised(l) /\ Pinned(l)
  BY DEF Sure
<1>2. CASE ReadDocuments
  <2>1. m \in Launches
    BY <1>1, <1>2 DEF ReadDocuments, Ends, Launches, Phases
  <2>2. /\ m.env = l.env /\ m.evidence = l.evidence /\ m.surviving = l.surviving /\ m.part = l.part
        /\ m.looked = l.looked /\ m.late = l.late /\ m.lock = l.lock /\ m.manifest = l.manifest
        /\ m.ran = l.ran /\ m.child = l.child
        /\ \/ m.phase = "remove" /\ m.outcome = l.outcome /\ verifyManifestLockAgreement(l.manifest, l.lock)
           \/ m.phase = "over" /\ m.outcome = "refused"
    BY <1>1, <1>2 DEF ReadDocuments, Ends, Launches
  <2>3. l.phase = "documents"
    BY <1>2 DEF ReadDocuments
  <2>4. Judged(m) /\ Pinned(m)
    BY <1>1, <2>1, <2>2, SameLaunch
  <2>5. Looked(m) /\ Supervised(m)
    BY <1>1, <2>2, <2>3 DEF Looked, Supervised, verifyManifestLockAgreement
  <2>. QED
    BY <2>1, <2>4, <2>5 DEF Sure
<1>3. CASE removeBytecode
  <2>. PICK left \in SUBSET Found(Removable(l.lock)) :
         m = [l EXCEPT !.phase = "scan",
                       !.env = [k \in Kinds |-> IF k \in Removable(l.lock) \ left THEN "pinned" ELSE @[k]]]
    BY <1>3 DEF removeBytecode
  <2>0. l.phase = "remove"
    BY <1>3 DEF removeBytecode
  <2>1. m \in Launches
    BY <1>1 DEF Launches, Phases
  <2>2. /\ m.phase = "scan" /\ m.evidence = l.evidence /\ m.looked = l.looked /\ m.lock = l.lock /\ m.manifest = l.manifest /\ m.part = l.part
        /\ m.ran = l.ran /\ m.child = l.child /\ m.late = l.late /\ m.outcome = l.outcome
    BY <1>1 DEF Launches
  <2>3. m.looked = {}
    BY <1>1, <2>0, <2>2 DEF Looked
  <2>4. Judged(m) /\ Pinned(m)
    BY <1>1, <2>2, <2>3 DEF Judged, Pinned
  <2>5. Looked(m) /\ Supervised(m)
    BY <1>1, <2>0, <2>2 DEF Looked, Supervised
  <2>. QED
    BY <2>1, <2>4, <2>5 DEF Sure
<1>4. CASE scanBytecode
  <2>. DEFINE R == Removable(l.lock)
  <2>0. l.phase = "scan" /\ R \in SUBSET Kinds /\ Found(R) \in SUBSET Kinds
    BY <1>4, RemovableKinds DEF scanBytecode, Found
  <2>1. m = [[l EXCEPT !.phase = "gather", !.surviving = Found(R)] EXCEPT !.looked = @ \cup R, !.late = @ \ R]
    BY <1>4 DEF scanBytecode, Judges
  <2>. HIDE DEF R
  <2>2. m \in Launches
    BY <1>1, <2>0, <2>1 DEF Launches, Phases
  <2>3. /\ m.phase = "gather" /\ m.looked = l.looked \cup R /\ m.lock = l.lock /\ m.manifest = l.manifest
        /\ m.ran = l.ran /\ m.child = l.child /\ m.outcome = l.outcome /\ m.env = l.env /\ m.surviving = Found(R)
        /\ m.part = l.part /\ m.evidence = l.evidence
    BY <1>1, <2>1 DEF Launches
  <2>4. l.looked = {} /\ l.child = "none" /\ l.part = 1
    BY <1>1, <2>0 DEF Looked, Supervised
  <2>5. Judged(m)
    BY <2>3, <2>4 DEF Judged, Disclosed, Found
  <2>6. Looked(m)
    BY <1>1, <2>0, <2>3, <2>4 DEF Looked, R
  <2>7. Supervised(m) /\ Pinned(m)
    BY <1>1, <2>0, <2>3, <2>4 DEF Supervised, Pinned
  <2>. QED
    BY <2>2, <2>5, <2>6, <2>7 DEF Sure
<1>5. CASE GatherPart
  <2>. DEFINE part == gather[l.part]
              F == Found(Looks[part])
              next == IF l.part = 6 THEN "verify" ELSE "gather"
              L == IF part \in Proving THEN Looks[part] ELSE {}
  <2>0. l.phase = "gather" /\ l.part \in 1..6 /\ part \in DOMAIN Looks /\ L \in SUBSET Kinds /\ F \in SUBSET Kinds
    BY <1>1, <1>5 DEF GatherPart, Looked, Found
  <2>1. /\ m \in Launches
        /\ m.phase = next /\ m.part = l.part + 1 /\ m.looked = l.looked \cup L /\ m.late = l.late \ L
        /\ m.env = l.env /\ m.surviving = l.surviving /\ m.lock = l.lock /\ m.manifest = l.manifest
        /\ m.ran = l.ran /\ m.child = l.child /\ m.outcome = l.outcome
        /\ m.evidence = [l.evidence EXCEPT ![part] = F]
    <3>. DEFINE seen == [l EXCEPT !.evidence[part] = F, !.part = @ + 1,
                                  !.phase = IF l.part = Len(gather) THEN "verify" ELSE @]
    <3>1. m = IF part = "launchArtifactsSha256" THEN seen ELSE Judges(seen, Looks[part])
      BY <1>5 DEF GatherPart
    <3>. HIDE DEF F, part
    <3>2. /\ seen \in Launches
          /\ seen.phase = next /\ seen.part = l.part + 1 /\ seen.looked = l.looked /\ seen.late = l.late
          /\ seen.env = l.env /\ seen.surviving = l.surviving /\ seen.lock = l.lock /\ seen.manifest = l.manifest
          /\ seen.ran = l.ran /\ seen.child = l.child /\ seen.outcome = l.outcome
          /\ seen.evidence = [l.evidence EXCEPT ![part] = F]
      <4>. DEFINE ev == [l.evidence EXCEPT ![part] = F]
      <4>1. seen = [l EXCEPT !.evidence = ev, !.part = l.part + 1, !.phase = next]
        BY <1>1, <2>0 DEF Launches
      <4>2. ev \in [DOMAIN Looks -> SUBSET Kinds] /\ l.part + 1 \in 1..7 /\ next \in Phases
        BY <1>1, <2>0 DEF Launches, Phases
      <4>. HIDE DEF ev, next, seen
      <4>3. /\ seen \in Launches
            /\ seen.phase = next /\ seen.part = l.part + 1 /\ seen.looked = l.looked /\ seen.late = l.late
            /\ seen.env = l.env /\ seen.surviving = l.surviving /\ seen.lock = l.lock
            /\ seen.manifest = l.manifest /\ seen.ran = l.ran /\ seen.child = l.child
            /\ seen.outcome = l.outcome /\ seen.evidence = ev
        BY <1>1, <4>1, <4>2 DEF Launches
      <4>. QED
        BY <4>3 DEF ev
    <3>. HIDE DEF seen
    <3>3. CASE part = "launchArtifactsSha256"
      <4>1. m = seen /\ L = {}
        BY <3>1, <3>3 DEF Proving
      <4>. QED
        BY <3>2, <4>1
    <3>4. CASE part # "launchArtifactsSha256"
      <4>1. L = Looks[part]
        BY <2>0, <3>4 DEF Proving
      <4>2. m = [seen EXCEPT !.looked = @ \cup L, !.late = @ \ L]
        BY <3>1, <3>4, <4>1 DEF Judges
      <4>. HIDE DEF L
      <4>. QED
        BY <2>0, <3>2, <4>2 DEF Launches
    <3>. QED
      BY <3>3, <3>4
  <2>2. \A p \in DOMAIN Looks : m.evidence[p] = IF p = part THEN F ELSE l.evidence[p]
    BY <1>1, <2>1 DEF Launches
  <2>3. Judged(m)
    <3>. SUFFICES ASSUME NEW k \in m.looked, m.env[k] = "other" PROVE k \in m.late \/ Disclosed(m, k)
      BY DEF Judged
    <3>1. CASE k \in L
      <4>1. part \in Proving /\ k \in F
        BY <2>1, <3>1 DEF Found
      <4>. QED
        BY <2>2, <4>1 DEF Disclosed, Proving
    <3>2. CASE k \notin L
      <4>1. k \in l.late \/ Disclosed(l, k)
        BY <1>1, <2>1, <3>2 DEF Judged
      <4>2. CASE k \in l.late
        BY <2>1, <3>2, <4>2
      <4>3. CASE k \in l.surviving
        BY <2>1, <4>3 DEF Disclosed
      <4>4. ASSUME NEW p \in Proving, k \in l.evidence[p] PROVE Disclosed(m, k)
        <5>1. l.evidence[part] = {}
          BY <1>1, <2>0 DEF Looked
        <5>. QED
          BY <2>2, <4>4, <5>1 DEF Disclosed, Proving
      <4>. QED
        BY <4>1, <4>2, <4>3, <4>4 DEF Disclosed
    <3>. QED
      BY <3>1, <3>2
  <2>4. Looked(m)
    <3>1. l.part \in Nat /\ m.part = l.part + 1 /\ (m.phase = "verify" <=> l.part = 6)
          /\ m.phase \in {"gather", "verify"}
      BY <2>0, <2>1
    <3>2. Removable(m.lock) \subseteq m.looked
      BY <1>1, <2>0, <2>1 DEF Looked
    <3>3. ASSUME NEW n \in 1..6, n < m.part PROVE gather[n] \notin Proving \/ Looks[gather[n]] \subseteq m.looked
      <4>1. CASE n = l.part
        BY <2>1, <4>1
      <4>2. CASE n # l.part
        <5>1. n < l.part
          BY <3>1, <3>3, <4>2
        <5>. QED
          BY <1>1, <2>0, <2>1, <5>1 DEF Looked
      <4>. QED
        BY <4>1, <4>2
    <3>4. ASSUME NEW n \in 1..6, m.part <= n PROVE m.evidence[gather[n]] = {}
      <4>1. l.part <= n /\ n # l.part
        BY <3>1, <3>4
      <4>2. gather[n] # part /\ gather[n] \in DOMAIN Looks
        BY <2>0, <4>1
      <4>. QED
        BY <1>1, <2>0, <2>2, <4>1, <4>2 DEF Looked
    <3>5. (m.phase = "gather" => m.part \in 1..6) /\ (m.phase = "verify" => m.part = 7)
      BY <2>0, <3>1
    <3>. QED
      BY <3>1, <3>2, <3>3, <3>4, <3>5 DEF Looked
  <2>5. Supervised(m) /\ Pinned(m)
    BY <1>1, <2>0, <2>1 DEF Supervised, Pinned
  <2>. QED
    BY <2>1, <2>3, <2>4, <2>5 DEF Sure
<1>6. CASE launchVerifiedAnalystChild
  <2>0. l.phase = "verify" /\ l.part = 7 /\ l.child = "none" /\ l.lock.version = l.manifest.version
    BY <1>1, <1>6 DEF launchVerifiedAnalystChild, Looked, Supervised
  <2>1. CASE verifyMcpLaunch(l)
    <3>1. m = [l EXCEPT !.phase = "connect", !.child = "running", !.ran = [k \in Importable |-> l.env[k]]]
      BY <1>6, <2>1 DEF launchVerifiedAnalystChild
    <3>2. \A k \in Importable : l.env[k] \in {"pinned", "other"}
      BY <1>1 DEF Launches, Importable, Kinds, SiteKinds, Bytecode
    <3>3. m \in Launches
      BY <1>1, <3>1, <3>2 DEF Launches, Phases
    <3>4. /\ m.phase = "connect" /\ m.child = "running" /\ m.outcome = l.outcome /\ m.looked = l.looked
          /\ m.late = l.late /\ m.env = l.env /\ m.evidence = l.evidence /\ m.surviving = l.surviving
          /\ m.lock = l.lock /\ m.manifest = l.manifest /\ m.part = l.part
      BY <1>1, <3>1 DEF Launches
    <3>5. \A k \in Importable : m.ran[k] = l.env[k]
      BY <1>1, <3>1 DEF Launches
    <3>6. Judged(m)
      BY <1>1, <3>4 DEF Judged, Disclosed
    <3>7. Looked(m)
      BY <3>4 DEF Looked
    <3>8. Supervised(m)
      BY <1>1, <2>0, <3>4 DEF Supervised
    <3>9. Pinned(m)
      <4>1. \A k \in Kinds : ~Disclosed(l, k)
        BY <2>1 DEF verifyMcpLaunch, Disclosed, Proving
      <4>2. ASSUME "pyc" \in l.lock.removeBeforeSpawn PROVE Importable \subseteq l.looked
        <5>1. Removable(l.lock) \subseteq l.looked
          BY <1>1, <2>0 DEF Looked
        <5>2. "pycache" \in Removable(l.lock) /\ "pyc" \in Removable(l.lock)
          BY <4>2 DEF Removable, Bytecode, matchesPattern
        <5>3. \A n \in 1..6 : gather[n] \notin Proving \/ Looks[gather[n]] \subseteq l.looked
          BY <1>1, <2>0 DEF Looked
        <5>4. \A n \in {3, 4, 6} : Looks[gather[n]] \subseteq l.looked
          BY <5>3 DEF Proving
        <5>5. "dependency" \in l.looked /\ "package" \in l.looked /\ "runtime" \in l.looked
          BY <5>4
        <5>. QED
          BY <5>1, <5>2, <5>5 DEF Importable, Bytecode
      <4>3. Importable \subseteq Kinds
        BY DEF Importable, Kinds, SiteKinds, Bytecode
      <4>. QED
        BY <1>1, <3>2, <3>4, <3>5, <4>1, <4>2, <4>3 DEF Pinned, Judged
    <3>. QED
      BY <3>3, <3>6, <3>7, <3>8, <3>9 DEF Sure
  <2>2. CASE ~verifyMcpLaunch(l)
    <3>1. m = [l EXCEPT !.phase = "over", !.outcome = "refused"]
      BY <1>6, <2>2 DEF launchVerifiedAnalystChild, Ends
    <3>2. m \in Launches
      BY <1>1, <3>1 DEF Launches, Phases
    <3>3. /\ m.phase = "over" /\ m.child = l.child /\ m.outcome = "refused" /\ m.looked = l.looked
          /\ m.late = l.late /\ m.env = l.env /\ m.evidence = l.evidence /\ m.surviving = l.surviving
          /\ m.lock = l.lock /\ m.manifest = l.manifest /\ m.part = l.part /\ m.ran = l.ran
      BY <1>1, <3>1 DEF Launches
    <3>4. Judged(m) /\ Pinned(m)
      BY <1>1, <3>2, <3>3, SameLaunch
    <3>5. Looked(m) /\ Supervised(m)
      BY <2>0, <3>3 DEF Looked, Supervised
    <3>. QED
      BY <3>2, <3>4, <3>5 DEF Sure
  <2>. QED
    BY <2>1, <2>2
\* The child is spawned or gone: the rest concerns phase, child and outcome only.
<1>7. CASE Connect \/ ListTools \/ Fail \/ StopChild
  <2>1. /\ m \in Launches
        /\ m.looked = l.looked /\ m.late = l.late /\ m.env = l.env /\ m.evidence = l.evidence
        /\ m.surviving = l.surviving /\ m.lock = l.lock /\ m.manifest = l.manifest /\ m.part = l.part
        /\ m.ran = l.ran
        /\ \/ l.phase = "connect" /\ m.phase = "inventory" /\ m.child = l.child /\ m.outcome = l.outcome
           \/ l.phase = "inventory" /\ m.phase = "over" /\ m.child = l.child /\ m.outcome = "accepted"
           \/ l.phase = "inventory" /\ m.phase = "stop" /\ m.child = l.child /\ m.outcome = "refused"
           \/ /\ l.phase \in {"remove", "scan", "gather", "connect", "inventory"} /\ l.child = "none"
              /\ m.phase = "over" /\ m.child = l.child /\ m.outcome = "failed"
           \/ /\ l.phase \in {"remove", "scan", "gather", "connect", "inventory"} /\ l.child # "none"
              /\ m.phase = "stop" /\ m.child = l.child /\ m.outcome = "failed"
           \/ l.phase = "stop" /\ m.phase = "over" /\ m.child = "stopped" /\ m.outcome = l.outcome
           \/ l.phase = "stop" /\ m.phase = "over" /\ m.child = l.child /\ m.outcome = "cleanup_incomplete"
    <3>1. CASE Connect
      BY <1>1, <3>1 DEF Connect, Launches, Phases
    <3>2. CASE ListTools
      <4>1. l.phase = "inventory"
        BY <3>2 DEF ListTools
      <4>2. CASE m = [l EXCEPT !.phase = "over", !.outcome = "accepted"]
        BY <1>1, <4>1, <4>2 DEF Launches, Phases
      <4>3. CASE m = [l EXCEPT !.phase = "stop", !.outcome = "refused"]
        BY <1>1, <4>1, <4>3 DEF Launches, Phases
      <4>. QED
        BY <3>2, <4>2, <4>3 DEF ListTools, Ends
    <3>3. CASE Fail
      <4>1. l.phase \in {"remove", "scan", "gather", "connect", "inventory"}
        BY <3>3 DEF Fail
      <4>2. CASE l.child = "none" /\ m = [l EXCEPT !.phase = "over", !.outcome = "failed"]
        BY <1>1, <4>1, <4>2 DEF Launches, Phases
      <4>3. CASE l.child # "none" /\ m = [l EXCEPT !.phase = "stop", !.outcome = "failed"]
        BY <1>1, <4>1, <4>3 DEF Launches, Phases
      <4>. QED
        BY <3>3, <4>2, <4>3 DEF Fail, Ends
    <3>4. CASE StopChild
      <4>1. l.phase = "stop"
        BY <3>4 DEF StopChild
      <4>2. CASE m = [l EXCEPT !.phase = "over", !.child = "stopped"]
        BY <1>1, <4>1, <4>2 DEF Launches, Phases
      <4>3. CASE m = [l EXCEPT !.phase = "over", !.outcome = "cleanup_incomplete"]
        BY <1>1, <4>1, <4>3 DEF Launches, Phases
      <4>. QED
        BY <3>4, <4>2, <4>3 DEF StopChild, Ends
    <3>. QED
      BY <1>7, <3>1, <3>2, <3>3, <3>4
  <2>2. l.child = "none" => m.child = "none"
    BY <1>1, <2>1 DEF Supervised
  <2>3. Judged(m) /\ Pinned(m)
    BY <1>1, <2>1, <2>2, SameLaunch
  <2>4. Looked(m)
    BY <2>1 DEF Looked
  <2>5. Supervised(m)
    BY <1>1, <2>1 DEF Supervised
  <2>. QED
    BY <2>1, <2>3, <2>4, <2>5 DEF Sure
<1>8. CASE Change
  <2>7. PICK k \in Kinds :
         m = [l EXCEPT !.env[k] = IF @ = "pinned" THEN "other" ELSE "pinned", !.changes = @ + 1,
                       !.late = IF k \in l.looked THEN @ \cup {k} ELSE @]
    BY <1>8 DEF Change
  <2>. DEFINE env == [l.env EXCEPT ![k] = IF l.env[k] = "pinned" THEN "other" ELSE "pinned"]
              late == IF k \in l.looked THEN l.late \cup {k} ELSE l.late
  <2>0. m = [l EXCEPT !.env = env, !.changes = l.changes + 1, !.late = late]
    BY <1>1, <2>7 DEF Launches
  <2>9. env \in [Kinds -> {"pinned", "other"}] /\ late \in SUBSET Kinds /\ l.changes + 1 \in Nat
    BY <1>1 DEF Launches
  <2>8. \A j \in Kinds : j # k => env[j] = l.env[j]
    BY <1>1 DEF Launches
  <2>. HIDE DEF env, late
  <2>1. m \in Launches /\ m.env = env /\ m.late = late
    <3>. DEFINE n == l.changes + 1
    <3>1. m = [l EXCEPT !.env = env, !.changes = n, !.late = late] /\ n \in Nat
      BY <2>0, <2>9
    <3>. HIDE DEF n
    <3>2. m.env = env /\ m.late = late
      BY <1>1, <3>1 DEF Launches
    <3>. QED
      BY <1>1, <2>9, <3>1, <3>2 DEF Launches
  <2>2. /\ m.phase = l.phase /\ m.child = l.child /\ m.outcome = l.outcome /\ m.looked = l.looked
        /\ m.evidence = l.evidence /\ m.surviving = l.surviving
        /\ m.lock = l.lock /\ m.manifest = l.manifest /\ m.part = l.part /\ m.ran = l.ran
        /\ m.late = IF k \in l.looked THEN l.late \cup {k} ELSE l.late
        /\ \A j \in Kinds : j # k => m.env[j] = l.env[j]
    BY <1>1, <2>0, <2>1, <2>8 DEF Launches, late
  <2>3. Judged(m)
    <3>1. l.looked \in SUBSET Kinds
      BY <1>1 DEF Launches
    <3>. QED
      BY <1>1, <2>2, <3>1 DEF Judged, Disclosed
  <2>4. Looked(m) /\ Supervised(m) /\ Pinned(m)
    BY <1>1, <2>2 DEF Looked, Supervised, Pinned
  <2>. QED
    BY <2>1, <2>3, <2>4 DEF Sure
<1>. QED
  BY <1>2, <1>3, <1>4, <1>5, <1>6, <1>7, <1>8 DEF LaunchNext

LEMMA LaunchFollows == LaunchInv => ChildIsPinned
BY DEF LaunchInv, Sure, Supervised, Pinned, Launches, ChildIsPinned

\* Whatever the environment holds at first, whoever changes it during a launch and whatever
\* fails: what an accepted or running child imports is pinned, unless it changed after it was
\* judged, and no refused child is left running silently (analyst-mcp-launcher.ts).
THEOREM LaunchesArePinned == LaunchInit /\ [][LaunchNext]_launch => []ChildIsPinned
BY LaunchInitially, LaunchStep, LaunchFollows, PTL
(***************************************************************************)
(* A day (ArmedTimers).  A day's numbers are those of its configuration,   *)
(* read; a launch takes no longer than a silent holder is waited for.      *)
(***************************************************************************)
LaunchesInTime ==
    \A raw \in RawConfigs : validateStartupConfig(raw) => Launch <= raw["LOCK_TAKEOVER_BOUND_MS"]

Days ==
    [raw : RawConfigs, armed : BOOLEAN, now : Nat, due : Nat, ping : Nat, beat : Nat \cup {NoBeat},
     run : [phase : {"none", "launching", "cycle"}, since : Nat], died : BOOLEAN, robbed : BOOLEAN]
Interval(d) == d.raw["CYCLE_INTERVAL_MS"]
Walltime(d) == d.raw["CYCLE_WALLTIME_BUDGET_MS"]
Takeover(d) == d.raw["LOCK_TAKEOVER_BOUND_MS"]

\* The last invocation before the one that runs, or is due, pinged at most this long before.
Latest(d) ==
    IF d.died THEN d.ping + Takeover(d) + 2 * Interval(d) + Launch + Walltime(d) ELSE d.ping + Interval(d)
Resting(d) == d.run = Nothing /\ d.beat = NoBeat => d.due <= d.ping + Interval(d)
Launching(d) ==
    d.run.phase = "launching" =>
        d.run.since <= d.now /\ d.now <= d.run.since + Launch /\ d.beat = d.run.since /\ d.run.since <= Latest(d)
Cycling(d) ==
    d.run.phase = "cycle" =>
        /\ d.run.since <= d.beat /\ d.beat <= d.now /\ d.now <= d.run.since + Walltime(d)
        /\ d.run.since <= Latest(d) + Launch
Silent(d) ==
    d.run = Nothing /\ d.beat # NoBeat =>
        /\ d.died /\ d.beat <= d.ping + Interval(d) + Launch + Walltime(d)
        /\ d.due <= d.beat + Takeover(d) + Interval(d)
OnTime(d) ==
    /\ d \in Days
    /\ d.armed => validateStartupConfig(d.raw)
    /\ ~d.armed => d.run = Nothing
    /\ d.run.phase = "none" => d.run = Nothing
    /\ d.armed =>
        /\ d.ping <= d.now /\ d.now <= d.due /\ d.due <= d.now + Interval(d)
        /\ Resting(d) /\ Launching(d) /\ Cycling(d) /\ Silent(d) /\ ~d.robbed

LEMMA ConfigBounds ==
    ASSUME NEW d \in Days, validateStartupConfig(d.raw)
    PROVE  /\ Interval(d) \in Nat /\ Walltime(d) \in Nat /\ Takeover(d) \in Nat
           /\ d.raw["DEAD_MAN_BOUND_MS"] \in Nat /\ d.raw["ALERT_DELIVERY_BUDGET_MS"] \in Nat
           /\ d.raw["SNAPSHOT_STALENESS_BOUND_MS"] \in Nat
           /\ Takeover(d) > Walltime(d)
           /\ Takeover(d) + 2 * (Interval(d) + Walltime(d)) <= d.raw["DEAD_MAN_BOUND_MS"]
           /\ d.raw["DEAD_MAN_BOUND_MS"] + d.raw["ALERT_DELIVERY_BUDGET_MS"] <= AlertSla
           /\ Walltime(d) <= d.raw["SNAPSHOT_STALENESS_BOUND_MS"]
<1>. DEFINE fields == {"CYCLE_INTERVAL_MS", "CYCLE_WALLTIME_BUDGET_MS", "LOCK_TAKEOVER_BOUND_MS", "DEAD_MAN_BOUND_MS",
                       "ALERT_DELIVERY_BUDGET_MS", "SNAPSHOT_STALENESS_BOUND_MS"}
<1>1. d.raw \in RawConfigs
  BY DEF Days
<1>2. fields \subseteq positiveFields
  BY DEF positiveFields
<1>3. \A f \in fields : d.raw[f] \in Int
  <2>1. positiveFields \subseteq DOMAIN d.raw
    BY DEF validateStartupConfig, requiredFields
  <2>. QED
    BY <1>1, <1>2, <2>1, ArmedTimersAssumption DEF integerFields
<1>4. \A f \in fields : d.raw[f] >= 1
  BY <1>2 DEF validateStartupConfig, readInteger
<1>5. \A f \in fields : d.raw[f] \in Nat
  <2>. HIDE DEF fields
  <2>1. \A x \in Int : x >= 1 => x \in Nat
    OBVIOUS
  <2>. QED
    BY <1>3, <1>4, <2>1
<1>. QED
  BY <1>5 DEF validateStartupConfig, validateSchedulingBounds, Interval, Walltime, Takeover

LEMMA DayInitially == DayInit => OnTime(day)
<1>. SUFFICES ASSUME DayInit PROVE OnTime(day)
  OBVIOUS
<1>1. PICK raw \in RawConfigs :
        day = [raw |-> raw, armed |-> validateStartupConfig(raw), now |-> 0, due |-> 0, ping |-> 0,
               beat |-> NoBeat, run |-> Nothing, died |-> FALSE, robbed |-> FALSE]
  BY DEF DayInit
<1>. DEFINE armed == validateStartupConfig(raw)
<1>2. armed \in BOOLEAN
  BY DEF validateStartupConfig
<1>3. day = [raw |-> raw, armed |-> armed, now |-> 0, due |-> 0, ping |-> 0,
             beat |-> NoBeat, run |-> Nothing, died |-> FALSE, robbed |-> FALSE]
  BY <1>1
<1>4. day.armed => validateStartupConfig(day.raw)
  BY <1>1
<1>. HIDE DEF armed
<1>5. day \in Days
  BY <1>2, <1>3 DEF Days, Nothing
<1>6. /\ day.now = 0 /\ day.due = 0 /\ day.ping = 0 /\ day.beat = NoBeat /\ day.run = Nothing /\ ~day.robbed
      /\ day.run.phase = "none"
  BY <1>3 DEF Nothing
<1>7. day.armed => Interval(day) \in Nat
  BY <1>4, <1>5, ConfigBounds
<1>. QED
  BY <1>4, <1>5, <1>6, <1>7 DEF OnTime, Resting, Launching, Cycling, Silent

LEMMA DayFollows == OnTime(day) => TimersFit
<1>. SUFFICES ASSUME OnTime(day), day.armed PROVE
        /\ Age(day.ping) <= day.raw["DEAD_MAN_BOUND_MS"] + 2 * Launch
        /\ Age(day.ping) + day.raw["ALERT_DELIVERY_BUDGET_MS"] <= AlertSla + 2 * Launch
        /\ ~day.robbed
        /\ (day.run.phase = "cycle" => Age(day.run.since) <= day.raw["SNAPSHOT_STALENESS_BOUND_MS"])
  BY DEF TimersFit
<1>. DEFINE I == Interval(day)
            W == Walltime(day)
            T == Takeover(day)
            D == day.raw["DEAD_MAN_BOUND_MS"]
            A == day.raw["ALERT_DELIVERY_BUDGET_MS"]
            S == day.raw["SNAPSHOT_STALENESS_BOUND_MS"]
<1>1. /\ I \in Nat /\ W \in Nat /\ T \in Nat /\ D \in Nat /\ A \in Nat /\ S \in Nat
      /\ T + 2 * (I + W) <= D /\ D + A <= AlertSla /\ W <= S
  BY ConfigBounds DEF OnTime
<1>2. /\ day.now \in Nat /\ day.due \in Nat /\ day.ping \in Nat /\ day.run.since \in Nat /\ Launch \in Nat
      /\ AlertSla \in Int
      /\ day.run.phase \in {"none", "launching", "cycle"} /\ day.beat \in Nat \cup {NoBeat}
      /\ day.beat # NoBeat => day.beat \in Nat
  BY ArmedTimersAssumption DEF OnTime, Days
<1>3. day.now <= day.due /\ day.ping <= day.now /\ Resting(day) /\ Launching(day) /\ Cycling(day) /\ Silent(day)
      /\ ~day.robbed
  BY DEF OnTime
<1>4. Latest(day) \in Nat /\ Latest(day) <= day.ping + T + 2 * I + Launch + W
  <2>1. Latest(day) = IF day.died THEN day.ping + T + 2 * I + Launch + W ELSE day.ping + I
    BY DEF Latest
  <2>. HIDE DEF I, T, W
  <2>. QED
    BY <1>1, <1>2, <2>1
<1>5. day.now <= day.ping + T + 2 * I + 2 * Launch + 2 * W
  <2>1. CASE day.run = Nothing /\ day.beat = NoBeat
    <3>1. day.due <= day.ping + I
      BY <1>3, <2>1 DEF Resting
    <3>. HIDE DEF I, T, W
    <3>. QED
      BY <1>1, <1>2, <1>3, <3>1
  <2>2. CASE day.run = Nothing /\ day.beat # NoBeat
    <3>1. day.beat <= day.ping + I + Launch + W /\ day.due <= day.beat + T + I
      BY <1>3, <2>2 DEF Silent
    <3>. HIDE DEF I, T, W
    <3>. QED
      BY <1>1, <1>2, <1>3, <2>2, <3>1
  <2>3. CASE day.run.phase = "launching"
    <3>1. day.now <= day.run.since + Launch /\ day.run.since <= Latest(day)
      BY <1>3, <2>3 DEF Launching
    <3>. HIDE DEF I, T, W
    <3>. QED
      BY <1>1, <1>2, <1>3, <1>4, <3>1
  <2>4. CASE day.run.phase = "cycle"
    <3>1. day.now <= day.run.since + W /\ day.run.since <= Latest(day) + Launch
      BY <1>3, <2>4 DEF Cycling
    <3>. HIDE DEF I, T, W
    <3>. QED
      BY <1>1, <1>2, <1>3, <1>4, <3>1
  <2>. QED
    BY <1>2, <2>1, <2>2, <2>3, <2>4 DEF OnTime
<1>6. day.run.phase = "cycle" => day.now - day.run.since <= W
  <2>1. day.run.phase = "cycle" => day.now <= day.run.since + W
    BY <1>3 DEF Cycling
  <2>. HIDE DEF W
  <2>. QED
    BY <1>1, <1>2, <2>1
<1>7. Age(day.ping) = day.now - day.ping /\ Age(day.run.since) = day.now - day.run.since
  BY DEF Age
<1>. HIDE DEF I, T, W, D, A, S
<1>8. day.now - day.ping <= D + 2 * Launch /\ day.now - day.ping + A <= AlertSla + 2 * Launch
  BY <1>1, <1>2, <1>5
<1>9. day.run.phase = "cycle" => day.now - day.run.since <= S
  BY <1>1, <1>2, <1>6
<1>. QED
  BY <1>3, <1>7, <1>8, <1>9 DEF D, A, S

\* The bounds of a day's numbers, as the steps below use them.
Bounded(d) ==
    /\ Interval(d) \in Nat /\ Walltime(d) \in Nat /\ Takeover(d) \in Nat /\ Launch \in Nat
    /\ d.now \in Nat /\ d.due \in Nat /\ d.ping \in Nat /\ d.run.since \in Nat
    /\ Walltime(d) < Takeover(d) /\ Launch <= Takeover(d)
    /\ d.ping <= d.now /\ d.now <= d.due /\ d.due <= d.now + Interval(d)

LEMMA DayIsBounded ==
    ASSUME LaunchesInTime, NEW d, OnTime(d), d.armed
    PROVE  Bounded(d)
<1>1. d \in Days /\ validateStartupConfig(d.raw) /\ d.raw \in RawConfigs
  BY DEF OnTime, Days
<1>2. Launch <= Takeover(d)
  BY <1>1 DEF LaunchesInTime, Takeover
<1>3. /\ Interval(d) \in Nat /\ Walltime(d) \in Nat /\ Takeover(d) \in Nat
      /\ Takeover(d) > Walltime(d)
  BY <1>1, ConfigBounds
<1>4. Launch \in Nat
  BY ArmedTimersAssumption
<1>5. d.now \in Nat /\ d.due \in Nat /\ d.ping \in Nat /\ d.run.since \in Nat
  BY <1>1 DEF Days
<1>6. d.ping <= d.now /\ d.now <= d.due /\ d.due <= d.now + Interval(d)
  BY DEF OnTime
<1>7. Walltime(d) < Takeover(d)
  BY <1>3
<1>. QED
  BY <1>2, <1>3, <1>4, <1>5, <1>6, <1>7 DEF Bounded

\* No invocation that runs is silent for longer than the takeover waits.
LEMMA RunIsHeard ==
    ASSUME LaunchesInTime, NEW d, OnTime(d), d.armed, d.run # Nothing
    PROVE  /\ d.beat \in Nat /\ d.beat <= d.now /\ d.now <= d.beat + Takeover(d)
           /\ d.beat <= Latest(d) + Launch + Walltime(d)
<1>1. Bounded(d)
  BY DayIsBounded
<1>2. d.run.phase \in {"launching", "cycle"} /\ d.beat \in Nat \cup {NoBeat}
  BY DEF OnTime, Days
<1>3. Latest(d) \in Nat
  BY <1>1 DEF Bounded, Latest
<1>4. CASE d.run.phase = "launching"
  <2>1. /\ d.run.since <= d.now /\ d.now <= d.run.since + Launch /\ d.beat = d.run.since
        /\ d.run.since <= Latest(d)
    BY <1>4 DEF OnTime, Launching
  <2>. QED
    BY <1>1, <1>3, <2>1 DEF Bounded
<1>5. CASE d.run.phase = "cycle"
  <2>1. /\ d.run.since <= d.beat /\ d.beat <= d.now /\ d.now <= d.run.since + Walltime(d)
        /\ d.run.since <= Latest(d) + Launch
    BY <1>5 DEF OnTime, Cycling
  <2>2. d.beat \in Nat
    BY <1>1, <1>2, <2>1 DEF Bounded, NoBeat
  <2>. QED
    BY <1>1, <1>3, <2>1, <2>2 DEF Bounded
<1>. QED
  BY <1>2, <1>4, <1>5

LEMMA DaySuppressed ==
    ASSUME LaunchesInTime, OnTime(day), day.armed, day.now = day.due, day.beat # NoBeat,
           ~shouldAttemptTakeover(Age(day.beat)), day' = [day EXCEPT !.due = @ + day.raw["CYCLE_INTERVAL_MS"]]
    PROVE  OnTime(day')
<1>1. Bounded(day) /\ day \in Days /\ day.beat \in Nat
  BY DayIsBounded DEF OnTime, Days
<1>2. day' = [day EXCEPT !.due = @ + Interval(day)]
  BY DEF Interval
<1>3. day' \in Days
  BY <1>1, <1>2 DEF Bounded, Days
<1>4. /\ day'.raw = day.raw /\ day'.armed = day.armed /\ day'.now = day.now /\ day'.ping = day.ping
      /\ day'.beat = day.beat /\ day'.run = day.run /\ day'.died = day.died /\ day'.robbed = day.robbed
      /\ day'.due = day.now + Interval(day)
  BY <1>1, <1>2 DEF Days
<1>5. /\ Interval(day') = Interval(day) /\ Walltime(day') = Walltime(day) /\ Takeover(day') = Takeover(day)
      /\ Latest(day') = Latest(day)
  BY <1>4 DEF Interval, Walltime, Takeover, Latest
<1>6. Resting(day') /\ Launching(day') /\ Cycling(day')
  BY <1>4, <1>5 DEF OnTime, Resting, Launching, Cycling
<1>7. day.now <= day.beat + Takeover(day)
  <2>1. ~(day.now - day.beat > Takeover(day))
    BY DEF shouldAttemptTakeover, Age, Takeover
  <2>. QED
    BY <1>1, <2>1 DEF Bounded
<1>8. Silent(day')
  <2>1. day'.due <= day.beat + Takeover(day) + Interval(day)
    BY <1>1, <1>4, <1>7 DEF Bounded
  <2>. QED
    BY <1>4, <1>5, <2>1 DEF OnTime, Silent
<1>9. day'.ping <= day'.now /\ day'.now <= day'.due /\ day'.due <= day'.now + Interval(day')
  BY <1>1, <1>4, <1>5 DEF Bounded
<1>. QED
  BY <1>3, <1>4, <1>6, <1>8, <1>9 DEF OnTime

LEMMA DayWith ==
    ASSUME NEW d \in Days, NEW due \in Nat, NEW beat \in Nat \cup {NoBeat}, NEW robbed \in BOOLEAN,
           NEW run \in [phase : {"none", "launching", "cycle"}, since : Nat]
    PROVE  [d EXCEPT !.due = due, !.beat = beat, !.run = run, !.robbed = robbed] \in Days
BY DEF Days

LEMMA DayTaken ==
    ASSUME LaunchesInTime, OnTime(day), day.armed, day.now = day.due,
           ~(day.beat # NoBeat /\ ~shouldAttemptTakeover(Age(day.beat))),
           NEW lost \in BOOLEAN, lost <=> (day.robbed \/ day.run # Nothing),
           day' = [day EXCEPT !.due = @ + day.raw["CYCLE_INTERVAL_MS"], !.beat = day.now,
                              !.run = [phase |-> "launching", since |-> day.now], !.robbed = lost]
    PROVE  OnTime(day')
<1>1. Bounded(day) /\ day \in Days /\ day.beat \in Nat \cup {NoBeat}
  BY DayIsBounded DEF OnTime, Days
<1>. DEFINE run == [phase |-> "launching", since |-> day.now]
            next == day.now + Interval(day)
<1>2. run \in [phase : {"none", "launching", "cycle"}, since : Nat] /\ next \in Nat
  BY <1>1 DEF Bounded
<1>3. run.phase = "launching" /\ run.since = day.now
  OBVIOUS
<1>4. day' = [day EXCEPT !.due = next, !.beat = day.now, !.run = run, !.robbed = lost]
  BY DEF Interval
<1>. HIDE DEF run, next
<1>5. day' \in Days
  <2>. DEFINE v == lost
              beat == day.now
  <2>1. /\ day \in Days /\ next \in Nat /\ beat \in Nat \cup {NoBeat} /\ v \in BOOLEAN
        /\ run \in [phase : {"none", "launching", "cycle"}, since : Nat]
        /\ day' = [day EXCEPT !.due = next, !.beat = beat, !.run = run, !.robbed = v]
    BY <1>1, <1>2, <1>4 DEF Bounded
  <2>. HIDE DEF v, beat
  <2>2. [day EXCEPT !.due = next, !.beat = beat, !.run = run, !.robbed = v] \in Days
    BY <2>1, DayWith, Zenon
  <2>. QED
    BY <2>1, <2>2, Zenon
<1>6. /\ day'.raw = day.raw /\ day'.armed = day.armed /\ day'.now = day.now /\ day'.ping = day.ping
       /\ day'.beat = day.now /\ day'.died = day.died /\ day'.robbed = lost
       /\ day'.run = run /\ day'.due = next
  BY <1>1, <1>4 DEF Days
<1>7. /\ day'.raw = day.raw /\ day'.armed = day.armed /\ day'.now = day.now /\ day'.ping = day.ping
      /\ day'.beat = day.now /\ day'.died = day.died /\ day'.robbed = lost
      /\ day'.run.phase = "launching" /\ day'.run.since = day.now
      /\ day'.due = day.now + Interval(day)
  BY <1>3, <1>6 DEF next
<1>8. /\ Interval(day') = Interval(day) /\ Latest(day') = Latest(day)
  BY <1>7 DEF Interval, Walltime, Takeover, Latest
<1>9. day.beat \in Nat => day.now > day.beat + Takeover(day)
  <2>1. day.beat \in Nat => day.now - day.beat > Takeover(day)
    BY DEF shouldAttemptTakeover, Age, Takeover, NoBeat
  <2>. QED
    BY <1>1, <2>1 DEF Bounded
<1>10. day.run = Nothing
  <2>. SUFFICES ASSUME day.run # Nothing PROVE FALSE
    OBVIOUS
  <2>1. day.beat \in Nat /\ day.now <= day.beat + Takeover(day)
    BY RunIsHeard
  <2>. QED
    BY <1>1, <1>9, <2>1 DEF Bounded
<1>11. ~lost
  BY <1>10 DEF OnTime
<1>12. day.now <= Latest(day)
  <2>1. CASE day.beat = NoBeat
    <3>1. day.now <= day.ping + Interval(day)
      BY <1>10, <2>1 DEF OnTime, Resting
    <3>. QED
      BY <1>1, <3>1 DEF Bounded, Latest
  <2>2. CASE day.beat # NoBeat
    <3>1. /\ day.died /\ day.beat <= day.ping + Interval(day) + Launch + Walltime(day)
          /\ day.now <= day.beat + Takeover(day) + Interval(day) /\ day.beat \in Nat
      BY <1>1, <1>10, <2>2 DEF OnTime, Silent
    <3>2. Latest(day) = day.ping + Takeover(day) + 2 * Interval(day) + Launch + Walltime(day)
      BY <3>1 DEF Latest
    <3>. QED
      BY <1>1, <3>1, <3>2 DEF Bounded
  <2>. QED
    BY <2>1, <2>2
<1>13. /\ day'.ping <= day'.now /\ day'.now <= day'.due /\ day'.due <= day'.now + Interval(day')
       /\ day'.now <= day'.run.since + Launch /\ day'.run.since <= day'.now
  BY <1>1, <1>7, <1>8 DEF Bounded
<1>14. Launching(day')
  BY <1>7, <1>8, <1>12, <1>13 DEF Launching
<1>15. day'.run # Nothing
  BY <1>7 DEF Nothing
<1>16. Resting(day') /\ Cycling(day') /\ Silent(day')
  BY <1>7, <1>15 DEF Resting, Cycling, Silent
<1>. QED
  BY <1>5, <1>7, <1>11, <1>13, <1>14, <1>16 DEF OnTime

LEMMA DayInvoked == LaunchesInTime /\ OnTime(day) /\ Invoke => OnTime(day')
<1>. SUFFICES ASSUME LaunchesInTime, OnTime(day), Invoke PROVE OnTime(day')
  OBVIOUS
<1>. DEFINE lost == (day.robbed = TRUE) \/ day.run # Nothing
<1>1. day.armed /\ day.now = day.due /\ day.robbed \in BOOLEAN
  BY DEF Invoke, OnTime, Days
<1>2. CASE day.beat # NoBeat /\ ~shouldAttemptTakeover(Age(day.beat))
  <2>1. day' = [day EXCEPT !.due = @ + day.raw["CYCLE_INTERVAL_MS"]]
    BY <1>2 DEF Invoke
  <2>. QED
    BY <1>1, <1>2, <2>1, DaySuppressed
<1>3. CASE ~(day.beat # NoBeat /\ ~shouldAttemptTakeover(Age(day.beat)))
  <2>. DEFINE again == [day EXCEPT !.due = @ + day.raw["CYCLE_INTERVAL_MS"]]
  <2>1. day' = [again EXCEPT !.beat = day.now, !.run = [phase |-> "launching", since |-> day.now],
                             !.robbed = @ \/ day.run # Nothing]
    BY <1>3 DEF Invoke
  <2>2. (again.robbed \/ day.run # Nothing) = lost
    BY <1>1 DEF OnTime, Days
  <2>3. lost \in BOOLEAN /\ (lost <=> (day.robbed \/ day.run # Nothing))
    BY <1>1
  <2>4. day' = [again EXCEPT !.beat = day.now, !.run = [phase |-> "launching", since |-> day.now], !.robbed = lost]
    BY <2>1, <2>2, Zenon
  <2>. HIDE DEF lost
  <2>5. day' = [day EXCEPT !.due = @ + day.raw["CYCLE_INTERVAL_MS"], !.beat = day.now,
                           !.run = [phase |-> "launching", since |-> day.now], !.robbed = lost]
    BY <2>4
  <2>. QED
    BY <1>1, <1>3, <2>3, <2>5, DayTaken
<1>. QED
  BY <1>2, <1>3

LEMMA DayCycleStarted == LaunchesInTime /\ OnTime(day) /\ StartCycle => OnTime(day')
<1>. SUFFICES ASSUME LaunchesInTime, OnTime(day), StartCycle PROVE OnTime(day')
  OBVIOUS
<1>. DEFINE run == [phase |-> "cycle", since |-> day.now]
<1>1. day.run.phase = "launching" /\ day' = [day EXCEPT !.run = run, !.beat = day.now] /\ day \in Days
  BY DEF StartCycle, OnTime
<1>2. day.armed
  BY <1>1 DEF OnTime, Nothing
<1>3. Bounded(day)
  BY <1>2, DayIsBounded
<1>4. run \in [phase : {"none", "launching", "cycle"}, since : Nat] /\ day.now \in Nat
  BY <1>3 DEF Bounded
<1>5. run.phase = "cycle" /\ run.since = day.now /\ run # Nothing
  BY DEF Nothing
<1>. HIDE DEF run
<1>6. day' \in Days
  BY <1>1, <1>4 DEF Days
<1>7. /\ day'.raw = day.raw /\ day'.armed = day.armed /\ day'.now = day.now /\ day'.due = day.due
      /\ day'.ping = day.ping /\ day'.beat = day.now /\ day'.died = day.died /\ day'.robbed = day.robbed
      /\ day'.run = run
  BY <1>1 DEF Days
<1>8. /\ Interval(day') = Interval(day) /\ Walltime(day') = Walltime(day) /\ Latest(day') = Latest(day)
  BY <1>7 DEF Interval, Walltime, Takeover, Latest
<1>9. day.run.since <= Latest(day) /\ day.now <= day.run.since + Launch
  BY <1>1, <1>2 DEF OnTime, Launching
<1>10. Latest(day) \in Nat
  BY <1>3 DEF Bounded, Latest
<1>11. day.now <= Latest(day) + Launch /\ day.now <= day.now + Walltime(day)
  BY <1>3, <1>9, <1>10 DEF Bounded
<1>12. Cycling(day')
  BY <1>4, <1>5, <1>7, <1>8, <1>11 DEF Cycling
<1>13. Resting(day') /\ Launching(day') /\ Silent(day')
  BY <1>5, <1>7 DEF Resting, Launching, Silent
<1>. QED
  BY <1>2, <1>5, <1>6, <1>7, <1>8, <1>12, <1>13 DEF OnTime

LEMMA DayHeartbeat == LaunchesInTime /\ OnTime(day) /\ heartbeat => OnTime(day')
<1>. SUFFICES ASSUME LaunchesInTime, OnTime(day), heartbeat PROVE OnTime(day')
  OBVIOUS
<1>1. day.run.phase = "cycle" /\ day' = [day EXCEPT !.beat = day.now] /\ day \in Days
  BY DEF heartbeat, OnTime
<1>2. day.armed /\ day.run # Nothing
  BY <1>1 DEF OnTime, Nothing
<1>3. Bounded(day)
  BY <1>2, DayIsBounded
<1>4. day' \in Days
  BY <1>1, <1>3 DEF Days, Bounded
<1>5. /\ day'.raw = day.raw /\ day'.armed = day.armed /\ day'.now = day.now /\ day'.due = day.due
      /\ day'.ping = day.ping /\ day'.beat = day.now /\ day'.died = day.died /\ day'.robbed = day.robbed
      /\ day'.run = day.run
  BY <1>1 DEF Days
<1>6. /\ Interval(day') = Interval(day) /\ Walltime(day') = Walltime(day) /\ Latest(day') = Latest(day)
  BY <1>5 DEF Interval, Walltime, Takeover, Latest
<1>7. /\ day.run.since <= day.beat /\ day.beat <= day.now /\ day.now <= day.run.since + Walltime(day)
      /\ day.run.since <= Latest(day) + Launch
  BY <1>1, <1>2 DEF OnTime, Cycling
<1>8. day.run.since <= day.now /\ day.now <= day.now
  <2>1. day.beat \in Nat
    BY <1>2, RunIsHeard
  <2>. QED
    BY <1>3, <1>7, <2>1 DEF Bounded
<1>9. Cycling(day')
  BY <1>5, <1>6, <1>7, <1>8 DEF Cycling
<1>10. Resting(day') /\ Launching(day') /\ Silent(day')
  BY <1>1, <1>2, <1>5 DEF Resting, Launching, Silent
<1>. QED
  BY <1>2, <1>1, <1>4, <1>5, <1>6, <1>9, <1>10 DEF OnTime

LEMMA DayCycleEnded == LaunchesInTime /\ OnTime(day) /\ EndCycle => OnTime(day')
<1>. SUFFICES ASSUME LaunchesInTime, OnTime(day), EndCycle PROVE OnTime(day')
  OBVIOUS
<1>1. /\ day.run.phase = "cycle" /\ day \in Days
      /\ day' = [day EXCEPT !.run = Nothing, !.beat = NoBeat, !.ping = day.now]
  BY DEF EndCycle, OnTime
<1>2. day.armed
  BY <1>1 DEF OnTime, Nothing
<1>3. Bounded(day)
  BY <1>2, DayIsBounded
<1>4. Nothing \in [phase : {"none", "launching", "cycle"}, since : Nat] /\ Nothing.phase = "none"
  BY DEF Nothing
<1>5. day' \in Days
  BY <1>1, <1>3, <1>4 DEF Days, Bounded
<1>6. /\ day'.raw = day.raw /\ day'.armed = day.armed /\ day'.now = day.now /\ day'.due = day.due
      /\ day'.ping = day.now /\ day'.beat = NoBeat /\ day'.robbed = day.robbed /\ day'.run = Nothing
  BY <1>1 DEF Days
<1>7. Interval(day') = Interval(day)
  BY <1>6 DEF Interval
<1>8. Resting(day') /\ day'.ping <= day'.now
  BY <1>3, <1>6, <1>7 DEF Bounded, Resting
<1>9. Launching(day') /\ Cycling(day') /\ Silent(day')
  BY <1>4, <1>6 DEF Launching, Cycling, Silent
<1>. QED
  BY <1>2, <1>5, <1>6, <1>7, <1>8, <1>9 DEF OnTime

LEMMA DayHolderDied == LaunchesInTime /\ OnTime(day) /\ Die => OnTime(day')
<1>. SUFFICES ASSUME LaunchesInTime, OnTime(day), Die PROVE OnTime(day')
  OBVIOUS
<1>1. day.run # Nothing /\ ~day.died /\ day' = [day EXCEPT !.run = Nothing, !.died = TRUE] /\ day \in Days
  BY DEF Die, OnTime
<1>2. day.armed
  BY <1>1 DEF OnTime
<1>3. Bounded(day)
  BY <1>2, DayIsBounded
<1>4. Nothing \in [phase : {"none", "launching", "cycle"}, since : Nat] /\ Nothing.phase = "none"
  BY DEF Nothing
<1>5. day' \in Days
  BY <1>1, <1>4 DEF Days
<1>6. /\ day'.raw = day.raw /\ day'.armed = day.armed /\ day'.now = day.now /\ day'.due = day.due
      /\ day'.ping = day.ping /\ day'.beat = day.beat /\ day'.robbed = day.robbed /\ day'.run = Nothing /\ day'.died
  BY <1>1 DEF Days
<1>7. Interval(day') = Interval(day) /\ Walltime(day') = Walltime(day) /\ Takeover(day') = Takeover(day)
  BY <1>6 DEF Interval, Walltime, Takeover
<1>8. /\ day.beat \in Nat /\ day.now <= day.beat + Takeover(day)
      /\ day.beat <= Latest(day) + Launch + Walltime(day)
  BY <1>1, <1>2, RunIsHeard
<1>9. Latest(day) = day.ping + Interval(day)
  BY <1>1 DEF Latest
<1>10. /\ day.beat <= day.ping + Interval(day) + Launch + Walltime(day)
       /\ day.due <= day.beat + Takeover(day) + Interval(day)
  BY <1>3, <1>8, <1>9 DEF Bounded
<1>11. Silent(day')
  BY <1>6, <1>7, <1>10 DEF Silent
<1>12. Resting(day') /\ Launching(day') /\ Cycling(day')
  <2>1. day'.beat # NoBeat
    BY <1>6, <1>8 DEF NoBeat
  <2>. QED
    BY <1>4, <1>6, <2>1 DEF Resting, Launching, Cycling
<1>. QED
  BY <1>2, <1>3, <1>5, <1>6, <1>7, <1>11, <1>12 DEF OnTime, Bounded

LEMMA DayTicked == LaunchesInTime /\ OnTime(day) /\ Tick => OnTime(day')
<1>. SUFFICES ASSUME LaunchesInTime, OnTime(day), Tick PROVE OnTime(day')
  OBVIOUS
<1>1. /\ day.armed /\ day.now < day.due /\ (day.run # Nothing => Age(day.run.since) < Limit)
      /\ day' = [day EXCEPT !.now = @ + 1] /\ day \in Days
  BY DEF Tick, OnTime
<1>2. Bounded(day)
  BY <1>1, DayIsBounded
<1>3. day' \in Days
  BY <1>1, <1>2 DEF Days, Bounded
<1>4. /\ day'.raw = day.raw /\ day'.armed = day.armed /\ day'.now = day.now + 1 /\ day'.due = day.due
      /\ day'.ping = day.ping /\ day'.beat = day.beat /\ day'.died = day.died /\ day'.robbed = day.robbed
      /\ day'.run = day.run
  BY <1>1 DEF Days
<1>5. /\ Interval(day') = Interval(day) /\ Walltime(day') = Walltime(day) /\ Takeover(day') = Takeover(day)
      /\ Latest(day') = Latest(day)
  BY <1>4 DEF Interval, Walltime, Takeover, Latest
<1>6. /\ day'.ping <= day'.now /\ day'.now <= day'.due /\ day'.due <= day'.now + Interval(day')
  BY <1>1, <1>2, <1>4, <1>5 DEF Bounded
<1>7. Resting(day') /\ Silent(day')
  BY <1>1, <1>4, <1>5 DEF OnTime, Resting, Silent
<1>8. Launching(day')
  <2>. SUFFICES ASSUME day.run.phase = "launching" PROVE Launching(day')
    BY <1>4 DEF Launching
  <2>1. day.now - day.run.since < Launch
    BY <1>1 DEF Age, Limit, Nothing
  <2>2. day.now + 1 <= day.run.since + Launch
    BY <1>2, <2>1 DEF Bounded
  <2>3. day.run.since <= day.now /\ day.beat = day.run.since /\ day.run.since <= Latest(day)
    BY <1>1 DEF OnTime, Launching
  <2>4. day.run.since <= day.now + 1
    BY <1>2, <2>3 DEF Bounded
  <2>. QED
    BY <1>4, <1>5, <2>2, <2>3, <2>4 DEF Launching
<1>9. Cycling(day')
  <2>. SUFFICES ASSUME day.run.phase = "cycle" PROVE Cycling(day')
    BY <1>4 DEF Cycling
  <2>1. day.now - day.run.since < Walltime(day) /\ day.run # Nothing
    BY <1>1 DEF Age, Limit, Nothing, Walltime
  <2>2. day.now + 1 <= day.run.since + Walltime(day)
    BY <1>2, <2>1 DEF Bounded
  <2>3. day.run.since <= day.beat /\ day.beat <= day.now /\ day.run.since <= Latest(day) + Launch
    BY <1>1 DEF OnTime, Cycling
  <2>4. day.beat <= day.now + 1
    <3>1. day.beat \in Nat
      BY <1>1, <2>1, RunIsHeard
    <3>. QED
      BY <1>2, <2>3, <3>1 DEF Bounded
  <2>. QED
    BY <1>4, <1>5, <2>2, <2>3, <2>4 DEF Cycling
<1>. QED
  BY <1>1, <1>3, <1>4, <1>6, <1>7, <1>8, <1>9 DEF OnTime

LEMMA DayStep == LaunchesInTime /\ OnTime(day) /\ [DayNext]_day => OnTime(day')
<1>. SUFFICES ASSUME LaunchesInTime, OnTime(day), [DayNext]_day PROVE OnTime(day')
  OBVIOUS
<1>1. CASE Invoke
  BY <1>1, DayInvoked
<1>2. CASE StartCycle
  BY <1>2, DayCycleStarted
<1>3. CASE heartbeat
  BY <1>3, DayHeartbeat
<1>4. CASE EndCycle
  BY <1>4, DayCycleEnded
<1>5. CASE Die
  BY <1>5, DayHolderDied
<1>6. CASE Tick
  BY <1>6, DayTicked
<1>7. CASE UNCHANGED day
  BY <1>7
<1>. QED
  BY <1>1, <1>2, <1>3, <1>4, <1>5, <1>6, <1>7 DEF DayNext

(***************************************************************************)
(* The timers of every configuration that arms fit together, whatever the  *)
(* configuration and the moment of the one death: the silence the dead-man *)
(* check sees ends within its bound and two launches, a real alert is      *)
(* delivered within the SLA, no live holder is taken for dead, and a cycle *)
(* ends before its snapshot is stale (startup.ts validateSchedulingBounds, *)
(* lock.ts shouldAttemptTakeover).                                         *)
(***************************************************************************)
THEOREM TimersAreSafe == LaunchesInTime => (DayInit /\ [][DayNext]_day => []TimersFit)
<1>. SUFFICES ASSUME LaunchesInTime PROVE DayInit /\ [][DayNext]_day => []TimersFit
  OBVIOUS
<1>1. DayInit => OnTime(day)
  BY DayInitially
<1>2. OnTime(day) /\ [DayNext]_day => OnTime(day)'
  BY DayStep
<1>3. OnTime(day) => TimersFit
  BY DayFollows
<1>. QED
  BY <1>1, <1>2, <1>3, PTL
=============================================================================
