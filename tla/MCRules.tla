------------------------------ MODULE MCRules ------------------------------
(***************************************************************************)
(* A small market for the rules: one underlying with two strikes below and *)
(* two above its price, and a few ways to quote them.                      *)
(***************************************************************************)
EXTENDS CloseLimits, Decisions, FillEvidence, BrokerReads, Provenance, CertificateRules,
        ArmedTimers, AnalystLaunch, TLC

Option(id, strike, right) ==
    [contractId |-> id, underlying |-> "SPY", expiry |-> 3, strikeCents |-> strike, right |-> right]
P2 == Option("P2", 2, "put")
P4 == Option("P4", 4, "put")
C6 == Option("C6", 6, "call")
C8 == Option("C8", 8, "call")

Candidate(id, type, sleeve, quantity, kind, price, legs) ==
    [candidateId |-> id, declaredStructureType |-> type, sleeve |-> sleeve, quantity |-> quantity,
     remainingTradingSessions |-> 2, legs |-> legs,
     entryLimit |-> [kind |-> kind, priceCents |-> price]]
Bought(c) == OptionLeg(c, "buy", 1)
Sold(c) == OptionLeg(c, "sell", 1)

LongPut == Candidate(1, "long_option", "convex", 1, "debit", 3, <<Bought(P4)>>)
CallSpread == Candidate(2, "vertical_debit", "convex", 1, "debit", 2, <<Bought(C6), Sold(C8)>>)
PutSpread == Candidate(3, "vertical_credit", "income", 1, "credit", 1, <<Sold(P4), Bought(P2)>>)
Condor == Candidate(4, "iron_condor", "income", 1, "credit", 2,
                    <<Bought(P2), Sold(P4), Sold(C6), Bought(C8)>>)
MCOpenable == {LongPut, CallSpread, PutSpread, Condor}

Quote(bid, ask) == [bidCents |-> bid, askCents |-> ask, size |-> 1, quotedAt |-> 0]
MCLadderMarkets(contracts) == [contracts -> {Quote(0, 1), Quote(1, 2), Quote(2, 5)}]
MCPieces == {P4, C6}

(***************************************************************************)
(* Budgets that hold two or three entries, and an analyst who may propose  *)
(* too much at once.                                                       *)
(***************************************************************************)
MCContracts == [id \in {"P2", "P4", "C6", "C8"} |->
                  CASE id = "P2" -> P2 [] id = "P4" -> P4 [] id = "C6" -> C6 [] id = "C8" -> C8]
MCConfig ==
    [sleeveBudgetCents |-> [s \in Sleeve |-> IF s = "convex" THEN 800 ELSE 300],
     maxLossPerPositionBps |-> 10000, maxUnderlyingExposureCents |-> 900,
     maxRelativeSpreadBps |-> 5000, minQuoteSize |-> 1, quoteMaxAge |-> 1,
     snapshotStalenessBound |-> 1, cycleInterval |-> 1,
     underlyingUniverse |-> {"SPY"},
     structureWhitelist |-> {"long_option", "vertical_debit", "vertical_credit", "iron_condor"},
     expirySessions |-> {1, 2, 3}, maxStrikeDistanceBps |-> 7000, maxCandidateQuantity |-> 2,
     limitTolerance |-> 1, killEquityThreshold |-> 1000, convexBudgetBasis |-> 2000,
     nextTradingDay |-> 2, flattenDay |-> 9, tradingDay |-> 1,
     qualification |-> [checkpoint |-> 2, windowEnd |-> 4, maxLossCents |-> 300]]
MCCandidates == {CallSpread, [CallSpread EXCEPT !.quantity = 2], PutSpread,
                 [Condor EXCEPT !.declaredStructureType = "vertical_credit"]}

At(t, mids) == [id \in DOMAIN mids |-> [bidCents |-> mids[id], askCents |-> mids[id],
                                        size |-> 1, quotedAt |-> t]]
World(t, mids, open) == [quotes |-> At(t, mids), spot |-> 5, halt |-> FALSE, open |-> open,
                   observedAt |-> t, equity |-> 1500]
Calm == [P2 |-> 2, P4 |-> 3, C6 |-> 2, C8 |-> 1]
Warm == [P2 |-> 1, P4 |-> 3, C6 |-> 3, C8 |-> 2]
MCWorlds == {World(1, Calm, TRUE), World(2, Warm, TRUE), World(3, Calm, TRUE),
             World(2, [P2 |-> 1, P9 |-> 1], TRUE)}
MCPriorSamples == {[observedAt |-> 0, quotes |-> At(0, Warm)], [observedAt |-> 0, quotes |-> <<>>]}

(***************************************************************************)
(* What an operator may write into the configuration: a sound one, one     *)
(* with timers that do not fit, and one with any field wrong or missing.   *)
(***************************************************************************)
SoundConfig ==
    [f \in requiredFields \cup {"PRE_ARM_CERTIFICATE"} |->
        CASE f \in {"INITIAL_CAPITAL_CENTS"} -> 9
          [] f \in {"KILL_EQUITY_THRESHOLD_CENTS"} -> 6
          [] f \in {"CONVEX_BUDGET_CENTS", "INCOME_BUDGET_CENTS", "QUALIFICATION_WINDOW_END"} -> 3
          [] f \in {"QUALIFICATION_MAX_LOSS_CENTS", "QUALIFYING_ACTIVITY_CHECKPOINT",
                    "ALERT_DELIVERY_BUDGET_MS", "CYCLE_INTERVAL_MS", "LOCK_TAKEOVER_BOUND_MS"} \cup sessionFields -> 2
          [] f = "DEAD_MAN_BOUND_MS" -> 8
          [] f \in basisPointFields -> 10000
          [] f = "LIMIT_TOLERANCE_CENTS" -> 0
          [] f = "ALPACA_TRADING_ORIGIN" -> "paper"
          [] f = "STATE_DIR" -> "absolute"
          [] f = "ALPACA_PROFILE" -> "competition"
          [] f \in stringFields \ {"ALPACA_TRADING_ORIGIN", "STATE_DIR", "ALPACA_PROFILE"} -> "dev"
          [] f \in listFields -> {"long_option"}
          [] f = "PRE_ARM_CERTIFICATE" -> "file"
          [] OTHER -> 1]
Timed ==
    {[SoundConfig EXCEPT !.CYCLE_INTERVAL_MS = i, !.CYCLE_WALLTIME_BUDGET_MS = w, !.SNAPSHOT_STALENESS_BOUND_MS = s,
                   !.LOCK_TAKEOVER_BOUND_MS = b, !.DEAD_MAN_BOUND_MS = d] :
        i \in {2, 3}, w \in {1, 2}, s \in 1..3, b \in 1..3, d \in 9..13}
Wrong ==
    {[SoundConfig EXCEPT ![f] = -1] : f \in positiveFields \cup basisPointFields \cup sessionFields \cup naturalFields}
        \cup {[SoundConfig EXCEPT ![f] = ""] : f \in stringFields}
        \cup {[SoundConfig EXCEPT ![f] = {}] : f \in listFields}
        \cup {[f \in DOMAIN SoundConfig \ {g} |-> SoundConfig[f]] : g \in DOMAIN SoundConfig}
        \cup {SoundConfig @@ [NEW_FIELD |-> 1],
              [SoundConfig EXCEPT !.STRUCTURE_WHITELIST = {"long_option", "vertical_credit"}],
              [SoundConfig EXCEPT !.STRUCTURE_WHITELIST = {"vertical_credit"}] @@ [SHORT_ASSIGNMENT_CAPABILITY |-> TRUE]}
MCRawConfigs == {SoundConfig} \cup Timed \cup Wrong

(***************************************************************************)
(* The documents of the analyst's environment.                             *)
(***************************************************************************)
Manifest ==
    [schemaVersion |-> 1, package |-> "alpaca", version |-> 1, analystProfile |-> "dev",
     inventoryPolicy |-> "exact", alpacaToolsets |-> {"data"}, allowedTools |-> <<"quotes", "chain">>, unknown |-> {}]
MCManifests == {Manifest, [Manifest EXCEPT !.version = 2]}
Lock ==
    [schemaVersion |-> 1, pins |-> TRUE, package |-> "alpaca", version |-> 1, policy |-> policySwitches,
     removeBeforeSpawn |-> {"pycache", "pyc", "bin"}, unknown |-> {}]
MCLocks == {Lock, [Lock EXCEPT !.policy = @ \ {"frozenDependencyLock"}],
            [Lock EXCEPT !.removeBeforeSpawn = {"pyc"}], [Lock EXCEPT !.removeBeforeSpawn = {"bin"}]}

(***************************************************************************)
(* One topic at a time; the others are idle.                               *)
(***************************************************************************)
VARIABLE topic
Topics == {"ladder", "decision", "evidence", "reads", "provenance", "arming", "day", "launch"}
Starts(t, init, idle) == IF topic = t THEN init ELSE idle
MCInit ==
    /\ topic \in Topics
    /\ Starts("ladder", LadderInit, ladder = NoLadder)
    /\ Starts("decision", DecisionInit, DecisionIdle)
    /\ Starts("evidence", EvidenceInit, audit = NoAudit)
    /\ ReadInit
    /\ Starts("provenance", ProvenanceInit, ProvenanceIdle)
    /\ Starts("arming", ArmingInit, arming = NoDrill)
    /\ Starts("day", DayInit, day = NoDay)
    /\ Starts("launch", LaunchInit, launch = NoLaunch)

MCNext ==
    \/ topic = "ladder" /\ LadderNext /\ UNCHANGED <<topic, decisionVars, audit, readVars, provenanceVars, arming, day, launch>>
    \/ topic = "decision" /\ DecisionNext /\ UNCHANGED <<topic, ladder, audit, readVars, provenanceVars, arming, day, launch>>
    \/ topic = "evidence" /\ EvidenceNext /\ UNCHANGED <<topic, ladder, decisionVars, readVars, provenanceVars, arming, day, launch>>
    \/ topic = "reads" /\ ReadNext /\ UNCHANGED <<topic, ladder, decisionVars, audit, provenanceVars, arming, day, launch>>
    \/ topic = "provenance" /\ ProvenanceNext /\ UNCHANGED <<topic, ladder, decisionVars, audit, readVars, arming, day, launch>>
    \/ topic = "arming" /\ ArmingNext /\ UNCHANGED <<topic, ladder, decisionVars, audit, readVars, provenanceVars, day, launch>>
    \/ topic = "day" /\ DayNext /\ UNCHANGED <<topic, ladder, decisionVars, audit, readVars, provenanceVars, arming, launch>>
    \/ topic = "launch" /\ LaunchNext /\ UNCHANGED <<topic, ladder, decisionVars, audit, readVars, provenanceVars, arming, day>>
=============================================================================
