----------------------------- MODULE Decisions -----------------------------
(***************************************************************************)
(* From candidates to orders: pricing, the eight gates and the decision    *)
(* over a batch (src/src/core/decision.ts), the lifecycle and              *)
(* qualification vetoes behind it, the revalidation before the submission, *)
(* and the fills that turn a reserve into a position, over several cycles  *)
(* of one session.  Everything a gate reads is in the snapshot; the clock  *)
(* counts cycles.                                                          *)
(***************************************************************************)
EXTENDS Structures

CONSTANTS config,       \* the validated configuration
          contractsById,\* the fetched option chain: id -> contract
          Candidates,   \* what the analyst may propose
          Worlds,       \* what a cycle may find: quotes, spot, halt, session, equity
          PriorSamples, \* the samples of an earlier cycle the journal may hold
          MaxCycle,     \* bound: cycles
          MaxEntries,   \* bound: INTENTs
          NoWorld       \* no cycle has run yet

DecisionConfig ==
    [sleeveBudgetCents : [Sleeve -> Nat], maxLossPerPositionBps : Nat,
     maxUnderlyingExposureCents : Nat, maxRelativeSpreadBps : Nat, minQuoteSize : Nat,
     quoteMaxAge : Nat, snapshotStalenessBound : Nat, cycleInterval : Nat,
     underlyingUniverse : SUBSET STRING, structureWhitelist : SUBSET STRING,
     expirySessions : SUBSET Nat, maxStrikeDistanceBps : Nat, maxCandidateQuantity : Nat,
     limitTolerance : Nat, killEquityThreshold : Nat, convexBudgetBasis : Nat,
     nextTradingDay : Nat, flattenDay : Nat, tradingDay : Nat,
     qualification : [checkpoint : Nat, windowEnd : Nat, maxLossCents : Nat]]

\* S-G13-02: losing the convex budget alone never triggers the kill.
validateKillThreshold(c) ==
    /\ c.killEquityThreshold > 0
    /\ c.killEquityThreshold <= c.convexBudgetBasis - c.sleeveBudgetCents["convex"]

ASSUME ConfigAssumption == config \in DecisionConfig /\ validateKillThreshold(config)

\* The analyst's output is parsed field by field (parseCandidate); a batch is bounded here.
ASSUME CandidatesAssumption == Candidates \subseteq EntryCandidate

VARIABLES clock,    \* the cycle index
          world,    \* what this cycle fetched
          prior,    \* the quote sample the journal holds of an earlier cycle
          plans,    \* approved actions this cycle has not executed yet
          book,     \* the broker's orders as this cycle's snapshot saw them
          entries   \* entry lifecycles by client order id

decisionVars == <<clock, world, prior, plans, book, entries>>

(***************************************************************************)
(* An entry lifecycle: what the journal says of it, and what the broker    *)
(* has done with it.  total is what all filled lots cost.                  *)
(***************************************************************************)
Released == {"rejected", "canceled", "expired"}
Live == {"intent", "fillable", "confirmation_unclear"}
Unsent == [working |-> FALSE, filled |-> 0, total |-> 0]
Intent(plan) == [candidate |-> plan.candidate, reserved |-> plan.reserved, state |-> "intent",
                 filled |-> 0, price |-> 0, broker |-> Unsent]

\* S-G7-01: day, cycle and the structure whatever the order of its legs.
entryClientOrderId(c, cycle) ==
    <<cycle, {<<c.legs[i].contractId, c.legs[i].side, c.legs[i].ratio>> : i \in DOMAIN c.legs}>>

(***************************************************************************)
(* The risk an entry still counts against the budgets: the whole reserve   *)
(* while its state is open, the filled part at a price one cent worse than *)
(* the rounded average, and the resting part at the limit.                 *)
(***************************************************************************)
conservativeRiskFillPrice(kind, price) ==
    IF kind = "debit" THEN price + 1 ELSE Larger(price - 1, 0)
FilledRisk(e) ==
    IF e.filled = 0 THEN 0
    ELSE definedRisk(e.candidate, e.filled,
                     conservativeRiskFillPrice(e.candidate.entryLimit.kind, e.price))
RestingRisk(e) ==
    definedRisk(e.candidate, e.candidate.quantity - e.filled, e.candidate.entryLimit.priceCents)

\* Mutant: a filled order is left to the positions, which the budgets do not read.
countedRisk_filledIsFree(e) ==
    CASE e.state \in Released \cup {"filled"} -> 0
      [] e.state \in {"intent", "confirmation_unclear"} -> e.reserved
      [] OTHER -> FilledRisk(e) + RestingRisk(e)

countedRisk(e) ==
    CASE e.state \in Released -> 0
      [] e.state \in {"intent", "confirmation_unclear"} -> e.reserved
      [] e.state = "fillable" -> FilledRisk(e) + RestingRisk(e)
      [] e.state = "filled" -> FilledRisk(e)

underlyingOf(c) == c.legs[1].underlying
riskBySleeve(es, sleeve) ==
    SumFunctionOnSet([id \in DOMAIN es |-> countedRisk(es[id])],
                     {id \in DOMAIN es : es[id].candidate.sleeve = sleeve})
riskByUnderlying(es, underlying) ==
    SumFunctionOnSet([id \in DOMAIN es |-> countedRisk(es[id])],
                     {id \in DOMAIN es : underlyingOf(es[id].candidate) = underlying})

(***************************************************************************)
(* The snapshot of a cycle (assembleDecisionSnapshot).  Quotes of          *)
(* contracts that are not in the chain refuse the whole snapshot, and so   *)
(* does an entry whose risk cannot be computed.                            *)
(***************************************************************************)
exposureLifecyclesFrom(es) ==
    \A id \in DOMAIN es :
        /\ es[id].state \in {"fillable", "filled"} => FilledRisk(es[id]) # Undefined
        /\ es[id].state = "fillable" => RestingRisk(es[id]) # Undefined
Assembled(w, es) == DOMAIN w.quotes \subseteq DOMAIN contractsById /\ exposureLifecyclesFrom(es)
Snapshot(w, old, es, cycle) ==
    [quotes |-> w.quotes, prior |-> old, spot |-> w.spot, halt |-> w.halt, open |-> w.open,
     snapshotAt |-> w.observedAt, cycleIndex |-> cycle, entries |-> es]

(***************************************************************************)
(* The gates.                                                              *)
(***************************************************************************)
Accepted == [sleeve |-> [s \in Sleeve |-> 0], underlying |-> [u \in config.underlyingUniverse |-> 0],
             ids |-> {}, actions |-> <<>>]

\* G2: what the snapshot holds, what this batch has accepted, and this candidate.
WithinBudget(snapshot, acc, c, risk) ==
    riskBySleeve(snapshot.entries, c.sleeve) + acc.sleeve[c.sleeve] + risk
        <= config.sleeveBudgetCents[c.sleeve]
WithinPositionSize(c, risk) ==
    risk * 10000 <= config.sleeveBudgetCents[c.sleeve] * config.maxLossPerPositionBps
WithinConcentration(snapshot, acc, c, risk) ==
    riskByUnderlying(snapshot.entries, underlyingOf(c)) + acc.underlying[underlyingOf(c)] + risk
        <= config.maxUnderlyingExposureCents

LiquidQuote(q, now) ==
    /\ q.bidCents > 0 /\ q.askCents >= q.bidCents
    /\ (q.askCents - q.bidCents) * 20000 <= (q.askCents + q.bidCents) * config.maxRelativeSpreadBps
    /\ q.size >= config.minQuoteSize
    /\ now - q.quotedAt \in 0..config.quoteMaxAge
evaluateLiquidity(snapshot, c, now) ==
    Quoted(c.legs, snapshot.quotes)
        /\ \A i \in DOMAIN c.legs : LiquidQuote(snapshot.quotes[c.legs[i].contractId], now)

\* G6: an open session, fresh quotes, a recent sample of every leg, and not all of them frozen.
Frozen(new, old) == new.quotedAt > old.quotedAt /\ [new EXCEPT !.quotedAt = 0] = [old EXCEPT !.quotedAt = 0]
evaluateSession(snapshot, c, now) ==
    /\ snapshot.open
    /\ Quoted(c.legs, snapshot.quotes) /\ Quoted(c.legs, snapshot.prior.quotes)
    /\ \A i \in DOMAIN c.legs : now - snapshot.quotes[c.legs[i].contractId].quotedAt \in 0..config.quoteMaxAge
    /\ now - snapshot.prior.observedAt \in 0..(2 * config.cycleInterval)
    /\ \E i \in DOMAIN c.legs : ~Frozen(snapshot.quotes[c.legs[i].contractId],
                                        snapshot.prior.quotes[c.legs[i].contractId])

\* G8: legs of the fetched chain, the configured bounds, and a sleeve the premium confirms.
KnownContract(leg) ==
    /\ leg.contractId \in DOMAIN contractsById
    /\ OptionLeg(contractsById[leg.contractId], leg.side, leg.ratio) = leg
NearSpot(leg, spot) ==
    spot > 0 /\ Magnitude(leg.strikeCents - spot) * 10000 <= spot * config.maxStrikeDistanceBps
SleeveMatches(c, quotes) ==
    LET sign == netMidTwice(c.legs, quotes)
    IN  (sign < 0 /\ c.sleeve = "income") \/ (sign > 0 /\ c.sleeve = "convex")
evaluateWhitelist(snapshot, c) ==
    /\ \A i \in DOMAIN c.legs : KnownContract(c.legs[i]) /\ NearSpot(c.legs[i], snapshot.spot)
                                /\ c.legs[i].underlying \in config.underlyingUniverse
    /\ c.declaredStructureType \in config.structureWhitelist
    /\ c.remainingTradingSessions \in config.expirySessions
    /\ c.quantity <= config.maxCandidateQuantity
    /\ Quoted(c.legs, snapshot.quotes) /\ SleeveMatches(c, snapshot.quotes)

gateVector(snapshot, acc, c, now) ==
    LET risk == definedRisk(c, c.quantity, c.entryLimit.priceCents)
    IN  [G1 |-> risk # Undefined,
         G2 |-> risk # Undefined /\ WithinBudget(snapshot, acc, c, risk),
         G3 |-> risk # Undefined /\ WithinPositionSize(c, risk),
         G4 |-> risk # Undefined /\ WithinConcentration(snapshot, acc, c, risk),
         G5 |-> evaluateLiquidity(snapshot, c, now),
         G6 |-> evaluateSession(snapshot, c, now),
         G7 |-> entryClientOrderId(c, snapshot.cycleIndex) \notin acc.ids \cup DOMAIN snapshot.entries,
         G8 |-> evaluateWhitelist(snapshot, c)]
Passed(gates) == \A g \in DOMAIN gates : gates[g]

(***************************************************************************)
(* decide: candidate by candidate, each seeing what was accepted before    *)
(* it.  A stale or halted snapshot records the verdicts and plans nothing. *)
(***************************************************************************)
EntryActionPlan(c, cycle) ==
    [candidate |-> c, id |-> entryClientOrderId(c, cycle),
     reserved |-> definedRisk(c, c.quantity, c.entryLimit.priceCents)]

evaluateCandidate(snapshot, acc, c, now) ==
    LET plan == EntryActionPlan(c, snapshot.cycleIndex)
    IN  IF ~Passed(gateVector(snapshot, acc, c, now)) THEN acc
        ELSE [sleeve |-> [acc.sleeve EXCEPT ![c.sleeve] = @ + plan.reserved],
              underlying |-> [acc.underlying EXCEPT ![underlyingOf(c)] = @ + plan.reserved],
              ids |-> acc.ids \cup {plan.id},
              actions |-> Append(acc.actions, plan)]

decide(snapshot, batch, now) ==
    LET after[n \in 0..Len(batch)] ==
          IF n = 0 THEN Accepted ELSE evaluateCandidate(snapshot, after[n - 1], batch[n], now)
    IN  IF \/ snapshot.halt \/ now - snapshot.snapshotAt > config.snapshotStalenessBound
           \/ \E i, j \in DOMAIN batch : i # j /\ batch[i].candidateId = batch[j].candidateId
        THEN <<>> ELSE after[Len(batch)].actions

\* Every candidate that can be priced is priced from the snapshot's own quotes (S-X-01).
priceAndDecide(snapshot, batch, now) ==
    LET priced[n \in 0..Len(batch)] ==
          IF n = 0 THEN <<>>
          ELSE IF ~Priceable(batch[n], snapshot.quotes, config.limitTolerance) THEN priced[n - 1]
          ELSE Append(priced[n - 1], priceEntryLimit(batch[n], snapshot.quotes, config.limitTolerance))
    IN  decide(snapshot, priced[Len(batch)], now)

(***************************************************************************)
(* The vetoes behind the gates: the deadline, an expiry that would be      *)
(* evicted at once, and the qualification window, in which one lot of one  *)
(* entry at a time may be tried until the account has a fill.              *)
(***************************************************************************)
deadlineRegime ==
    CASE config.tradingDay < config.flattenDay -> "normal"
      [] config.tradingDay = config.flattenDay -> "flatten"
      [] OTHER -> "post_flatten"
lifecycleEntryVeto(c) ==
    \/ deadlineRegime # "normal"
    \/ \E i \in DOMAIN c.legs : c.legs[i].expiry <= config.nextTradingDay

qualifyingFills(es) == {id \in DOMAIN es : es[id].state = "filled"}
projectQualification(now, es) ==
    CASE qualifyingFills(es) # {} -> "QUALIFIED"
      [] qualifyingFills(es) = {} /\ now < config.qualification.checkpoint -> "NOT_DUE"
      [] qualifyingFills(es) = {} /\ now >= config.qualification.checkpoint
            /\ now < config.qualification.windowEnd -> "COMPETITIVENESS_AT_RISK"
      [] OTHER -> "WINNING_ACCEPTANCE_FAILED"
windowOpen(now, es) == projectQualification(now, es) = "COMPETITIVENESS_AT_RISK"
liveEntryLifecycles(es) == {id \in DOMAIN es : es[id].state \in Live}
qualificationEntryVeto(plan, now, es, live) ==
    windowOpen(now, es) /\ (\/ live > 0 \/ plan.candidate.quantity # 1
                        \/ plan.reserved > config.qualification.maxLossCents)

\* The plans that survive, in order; each one kept counts as live for the next.
Surviving(actions, now, es) ==
    LET kept[n \in 0..Len(actions)] ==
          IF n = 0 THEN <<>>
          ELSE IF \/ lifecycleEntryVeto(actions[n].candidate)
                  \/ qualificationEntryVeto(actions[n], now, es,
                                            Cardinality(liveEntryLifecycles(es)) + Len(kept[n - 1]))
          THEN kept[n - 1] ELSE Append(kept[n - 1], actions[n])
    IN  kept[Len(actions)]

(***************************************************************************)
(* Init and actions.                                                       *)
(***************************************************************************)
DecisionIdle ==
    /\ clock = 0 /\ world = NoWorld /\ plans = <<>> /\ entries = <<>> /\ book = <<>>
    /\ prior = [observedAt |-> 0, quotes |-> <<>>]
DecisionInit ==
    /\ clock = 0 /\ world = NoWorld /\ plans = <<>> /\ entries = <<>> /\ book = <<>>
    /\ prior \in PriorSamples

killTriggered(w) == w.equity < config.killEquityThreshold
Book == [id \in DOMAIN entries |-> entries[id].broker]

\* Phase 0 reads every open order.  A working one keeps the doubt it is under, an ended
\* one is filled with what it reached, or released.
AverageCents(broker) == (2 * broker.total + broker.filled) \div (2 * broker.filled)
Reconciled(e) ==
    LET seen == [e EXCEPT !.filled = e.broker.filled,
                          !.price = IF e.broker.filled = 0 THEN 0 ELSE AverageCents(e.broker)]
    IN  CASE e.state \notin {"fillable", "confirmation_unclear"} \/ e.broker = Unsent -> e
          [] e.broker.working -> seen
          [] OTHER -> [seen EXCEPT !.state = IF e.broker.filled > 0 THEN "filled" ELSE "canceled"]
Unresolved(es) == \E id \in DOMAIN es : es[id].state \in {"intent", "confirmation_unclear"}

\* A cycle: reconcile, fetch, decide over the analyst's batch, journal the sample.  An
\* unresolved entry, a snapshot that cannot be assembled, and an account that has lost
\* too much plan nothing.
Cycle(w, batch) ==
    /\ clock < MaxCycle
    /\ clock' = clock + 1
    /\ world' = w
    /\ book' = Book
    /\ entries' = [id \in DOMAIN entries |-> Reconciled(entries[id])]
    /\ LET snapshot == Snapshot(w, prior, entries', clock + 1)
       IN  plans' = IF ~Assembled(w, entries') \/ killTriggered(w) \/ Unresolved(entries') THEN <<>>
                    ELSE Surviving(priceAndDecide(snapshot, batch, clock + 1), clock + 1, entries')
    /\ prior' = IF Assembled(w, entries') THEN [observedAt |-> clock + 1, quotes |-> w.quotes] ELSE prior

\* Phase 4, the INTENT of the next plan.
RecordIntent ==
    /\ plans # <<>>
    /\ Head(plans).id \notin DOMAIN entries
    /\ Cardinality(DOMAIN entries) < MaxEntries
    /\ entries' = [id \in DOMAIN entries \cup {Head(plans).id} |->
                      IF id = Head(plans).id THEN Intent(Head(plans)) ELSE entries[id]]
    /\ UNCHANGED <<clock, world, prior, plans, book>>

\* S-CYC-05: the claims of the plan against what the broker and the journal say now.
\* The snapshot of the recheck already counts the plan's own INTENT; one that cannot be
\* assembled fails the claims.
claimsHold(plan, w) ==
    LET gates == gateVector(Snapshot(w, prior, entries, clock), Accepted, plan.candidate, clock)
    IN  /\ ~killTriggered(w) /\ ~w.halt
        /\ [id \in DOMAIN book |-> Book[id]] = book
        /\ \A id \in DOMAIN Book \ DOMAIN book : Book[id] = Unsent
        /\ exposureLifecyclesFrom(entries)
        /\ \A g \in {"G1", "G2", "G3", "G4"} : gates[g]

Answer(id, state, broker) ==
    entries' = [entries EXCEPT ![id].state = state, ![id].broker = broker]

\* The order leaves, and the broker acknowledges it, refuses it, or is not heard, in which
\* case no other plan of the cycle is executed.
Submit ==
    /\ plans # <<>> /\ Head(plans).id \in DOMAIN entries
    /\ \E halt \in {world.halt, TRUE}, equity \in {world.equity, 0} :
        LET now == [world EXCEPT !.halt = halt, !.equity = equity]
        IN  IF ~claimsHold(Head(plans), now)
            THEN /\ Answer(Head(plans).id, "canceled", Unsent)
                 /\ plans' = IF killTriggered(now) THEN <<>> ELSE Tail(plans)
            ELSE \/ /\ Answer(Head(plans).id, "fillable", [Unsent EXCEPT !.working = TRUE])
                    /\ plans' = Tail(plans)
                 \/ /\ Answer(Head(plans).id, "rejected", Unsent)
                    /\ plans' = Tail(plans)
                 \/ /\ \E arrived \in BOOLEAN :
                            Answer(Head(plans).id, "confirmation_unclear",
                                   [Unsent EXCEPT !.working = arrived])
                    /\ plans' = <<>>
    /\ UNCHANGED <<clock, world, prior, book>>

\* Between any two steps the broker may fill a lot, at the limit or one cent better.
FillLot(id) ==
    LET e == entries[id]
        limit == e.candidate.entryLimit
    IN  /\ e.broker.working
        /\ \E price \in {limit.priceCents,
                         IF limit.kind = "debit" THEN Larger(limit.priceCents - 1, 0)
                         ELSE limit.priceCents + 1} :
             /\ definedRisk(e.candidate, 1, price) # Undefined
             /\ entries' = [entries EXCEPT ![id].broker =
                    [working |-> e.broker.filled + 1 < e.candidate.quantity,
                     filled |-> e.broker.filled + 1, total |-> e.broker.total + price]]
        /\ UNCHANGED <<clock, world, prior, plans, book>>

\* The session ends the order with what it has.
OrderEnds(id) ==
    /\ entries[id].broker.working
    /\ entries' = [entries EXCEPT ![id].broker.working = FALSE]
    /\ UNCHANGED <<clock, world, prior, plans, book>>

Batches == {<<>>} \cup {<<c>> : c \in Candidates} \cup {<<c, d>> : c, d \in Candidates}
DecisionNext ==
    \/ plans = <<>> /\ \E w \in Worlds : \E batch \in Batches : Cycle(w, batch)
    \/ RecordIntent \/ Submit
    \/ \E id \in DOMAIN entries : FillLot(id) \/ OrderEnds(id)

(***************************************************************************)
(* Properties                                                              *)
(***************************************************************************)
\* What an entry can really cost: every lot at the price it was filled at, and the lots
\* the broker may still fill at the limit, at the worst price of the underlying.
WorstLoss(e) ==
    LET c == e.candidate
        resting == IF e.broker.working THEN c.quantity - e.broker.filled ELSE 0
        paid == e.broker.total + resting * c.entryLimit.priceCents
        Loss(spot) == -((IF c.entryLimit.kind = "debit" THEN -paid ELSE paid)
                        + (e.broker.filled + resting) * ExpiryPnl(c.legs, "debit", 0, spot))
        top == 2 * Max(Breakpoints(c.legs)) + 1
    IN  LotSize * Larger(0, Max({Loss(spot) : spot \in 0..top}))

\* The entries of a sleeve together never stand to lose more than its budget, nor those of
\* one underlying more than the concentration cap, whatever was accepted in one batch, is
\* resting, half filled, unclear or filled at a better price: the budgets are honoured by
\* what is held, not by what the gates believed (S-G2-03..07, S-G4).
BudgetsHold ==
    /\ \A s \in Sleeve :
        SumFunctionOnSet([id \in DOMAIN entries |-> WorstLoss(entries[id])],
                         {id \in DOMAIN entries : entries[id].candidate.sleeve = s})
            <= config.sleeveBudgetCents[s]
    /\ \A u \in config.underlyingUniverse :
        SumFunctionOnSet([id \in DOMAIN entries |-> WorstLoss(entries[id])],
                         {id \in DOMAIN entries : underlyingOf(entries[id].candidate) = u})
            <= config.maxUnderlyingExposureCents
=============================================================================
