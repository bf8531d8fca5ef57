----------------------------- MODULE ArmedTimers -----------------------------
(***************************************************************************)
(* What configuration arms (src/src/core/startup.ts) and what its timers   *)
(* are worth: a scheduler starts one invocation every CYCLE_INTERVAL, a    *)
(* holder dies once at the worst moment, and the silence the dead-man      *)
(* check sees until another invocation has taken over and pinged is what   *)
(* the scheduling inequalities must bound (S-G12-02, KGV-17).              *)
(***************************************************************************)
EXTENDS Integers

CONSTANTS RawConfigs, \* the configurations an operator may write
          AlertSla,   \* alertSlaMs
          Launch,     \* bound: the time an invocation may need before its cycle
          Horizon,    \* bound: the last instant of the day
          NoDay       \* no day is run (the other topics of a run)

VARIABLE day

(***************************************************************************)
(* The closed field set, by the reader of each field.  A field of another  *)
(* type, an empty string and an empty list are malformed values: -1, ""    *)
(* and {}.                                                                 *)
(***************************************************************************)
positiveFields ==
    {"INCOME_BUDGET_CENTS", "CONVEX_BUDGET_CENTS", "INITIAL_CAPITAL_CENTS", "MAX_UNDERLYING_EXPOSURE_CENTS",
     "MAX_REL_SPREAD_BPS", "MIN_QUOTE_SIZE", "QUOTE_MAX_AGE_MS", "SNAPSHOT_STALENESS_BOUND_MS",
     "KILL_EQUITY_THRESHOLD_CENTS", "DEAD_MAN_BOUND_MS", "ALERT_DELIVERY_BUDGET_MS", "CYCLE_INTERVAL_MS",
     "MAX_CANDIDATE_QTY", "CLOSE_ESCALATION_STEP_CENTS", "RESIDUE_MAX_SESSIONS", "ANALYST_TIMEOUT_MS",
     "CYCLE_WALLTIME_BUDGET_MS", "LOCK_TAKEOVER_BOUND_MS", "QUALIFICATION_MAX_LOSS_CENTS"}
basisPointFields == {"MAX_LOSS_PER_POSITION_BPS", "MAX_STRIKE_DISTANCE_BPS"}
sessionFields == {"EXPIRY_MIN_SESSIONS", "EXPIRY_MAX_SESSIONS"}
naturalFields == {"LIMIT_TOLERANCE_CENTS"}
stringFields ==
    {"EXPECTED_ACCOUNT_ID", "ALPACA_PROFILE", "ALPACA_TRADING_ORIGIN", "STATE_DIR", "BOOTSTRAP_DIAGNOSTIC_SINK",
     "ANALYST_MODEL", "ANALYST_MCP_CAPABILITY_MANIFEST", "ANALYST_MCP_RUNTIME_LOCK", "ANALYST_ALPACA_PROFILE"}
listFields == {"UNDERLYING_UNIVERSE", "STRUCTURE_WHITELIST"}
instantFields == {"QUALIFYING_ACTIVITY_CHECKPOINT", "QUALIFICATION_WINDOW_END", "COMPETITION_START", "FLATTEN_DATE"}
optionalFields == {"SHORT_ASSIGNMENT_CAPABILITY", "PRE_ARM_CERTIFICATE"}
requiredFields ==
    positiveFields \cup basisPointFields \cup sessionFields \cup naturalFields
        \cup stringFields \cup listFields \cup instantFields
knownFields == requiredFields \cup optionalFields

\* An integer field that is there is read as an integer, the malformed value -1 included.
integerFields == positiveFields \cup basisPointFields \cup sessionFields \cup naturalFields
ASSUME ArmedTimersAssumption ==
    /\ Launch \in Nat /\ AlertSla \in Int
    /\ \A raw \in RawConfigs : \A f \in integerFields \cap DOMAIN raw : raw[f] \in Int

readInteger(raw) ==
    /\ \A f \in positiveFields \cup basisPointFields : raw[f] >= 1
    /\ \A f \in basisPointFields : raw[f] <= 10000
    /\ \A f \in sessionFields : raw[f] >= 2
    /\ \A f \in naturalFields : raw[f] >= 0
readString(raw) == \A f \in stringFields : raw[f] # ""
readStringArray(raw) == \A f \in listFields : raw[f] # {}
readUtcIso(raw) == \A f \in instantFields : raw[f] >= 0

structureTypes == {"long_option", "vertical_debit", "vertical_credit", "iron_condor"}
isShortCapableStructure(type) == type \in structureTypes \ {"long_option"}
validateTradingOrigin(origin) == origin = "paper"
isAbsolutePathLiteral(path) == path = "absolute"

\* Mutant: the takeover window forgets the cycle the holder died in.
validateSchedulingBounds_single(raw) ==
    /\ raw["LOCK_TAKEOVER_BOUND_MS"] > raw["CYCLE_WALLTIME_BUDGET_MS"]
    /\ raw["LOCK_TAKEOVER_BOUND_MS"] + raw["CYCLE_INTERVAL_MS"] + raw["CYCLE_WALLTIME_BUDGET_MS"]
          <= raw["DEAD_MAN_BOUND_MS"]

validateSchedulingBounds(raw) ==
    /\ raw["LOCK_TAKEOVER_BOUND_MS"] > raw["CYCLE_WALLTIME_BUDGET_MS"]
    /\ raw["LOCK_TAKEOVER_BOUND_MS"] + 2 * (raw["CYCLE_INTERVAL_MS"] + raw["CYCLE_WALLTIME_BUDGET_MS"])
          <= raw["DEAD_MAN_BOUND_MS"]
validateKillThresholdOf(raw) ==
    raw["KILL_EQUITY_THRESHOLD_CENTS"] <= raw["INITIAL_CAPITAL_CENTS"] - raw["CONVEX_BUDGET_CENTS"]
strictlyBelowCap(raw, budget) ==
    raw["QUALIFICATION_MAX_LOSS_CENTS"] * 10000 < raw[budget] * raw["MAX_LOSS_PER_POSITION_BPS"]

\* One violation of any kind refuses to arm; a coupling is judged only between fields that
\* could be read.
validateStartupConfig(raw) ==
    /\ requiredFields \subseteq DOMAIN raw /\ DOMAIN raw \subseteq knownFields
    /\ readInteger(raw) /\ readString(raw) /\ readStringArray(raw) /\ readUtcIso(raw)
    /\ raw["ALPACA_PROFILE"] \in {"dev", "competition"} /\ raw["ANALYST_ALPACA_PROFILE"] = "dev"
    /\ validateTradingOrigin(raw["ALPACA_TRADING_ORIGIN"]) /\ isAbsolutePathLiteral(raw["STATE_DIR"])
    /\ raw["STRUCTURE_WHITELIST"] \subseteq structureTypes
    /\ (\E type \in raw["STRUCTURE_WHITELIST"] : isShortCapableStructure(type))
          => "SHORT_ASSIGNMENT_CAPABILITY" \in DOMAIN raw /\ raw["SHORT_ASSIGNMENT_CAPABILITY"]
    /\ raw["EXPIRY_MIN_SESSIONS"] <= raw["EXPIRY_MAX_SESSIONS"]
    /\ raw["CYCLE_WALLTIME_BUDGET_MS"] <= raw["SNAPSHOT_STALENESS_BOUND_MS"]
    /\ raw["SNAPSHOT_STALENESS_BOUND_MS"] <= raw["CYCLE_INTERVAL_MS"]
    /\ raw["ANALYST_TIMEOUT_MS"] <= raw["CYCLE_WALLTIME_BUDGET_MS"]
    /\ validateSchedulingBounds(raw)
    /\ raw["DEAD_MAN_BOUND_MS"] + raw["ALERT_DELIVERY_BUDGET_MS"] <= AlertSla
    /\ raw["COMPETITION_START"] < raw["QUALIFYING_ACTIVITY_CHECKPOINT"]
    /\ raw["QUALIFYING_ACTIVITY_CHECKPOINT"] < raw["QUALIFICATION_WINDOW_END"]
    /\ strictlyBelowCap(raw, "INCOME_BUDGET_CENTS") /\ strictlyBelowCap(raw, "CONVEX_BUDGET_CENTS")
    /\ (raw["ALPACA_PROFILE"] = "competition" => "PRE_ARM_CERTIFICATE" \in DOMAIN raw)
    /\ validateKillThresholdOf(raw)

(***************************************************************************)
(* An armed day.  beat is the holder's heartbeat, NoBeat once it is released *)
(* (or before); run is the live invocation: launching, or in its cycle.    *)
(* The book is what it may have lost by the day's end.                     *)
(***************************************************************************)
NoBeat == -1
Nothing == [phase |-> "none", since |-> 0]
DayInit ==
    \E raw \in RawConfigs :
        day = [raw |-> raw, armed |-> validateStartupConfig(raw), now |-> 0, due |-> 0, ping |-> 0,
               beat |-> NoBeat, run |-> Nothing, died |-> FALSE, robbed |-> FALSE]

Age(since) == day.now - since
shouldAttemptTakeover(age) == age > day.raw["LOCK_TAKEOVER_BOUND_MS"]

\* The scheduler's next invocation: suppressed under a live rival holder, or the writer.
Invoke ==
    /\ day.armed /\ day.now = day.due
    /\ LET again == [day EXCEPT !.due = @ + day.raw["CYCLE_INTERVAL_MS"]]
       IN  day' = IF day.beat # NoBeat /\ ~shouldAttemptTakeover(Age(day.beat)) THEN again
                  ELSE [again EXCEPT !.beat = day.now, !.run = [phase |-> "launching", since |-> day.now],
                                     !.robbed = @ \/ day.run # Nothing]
StartCycle ==
    /\ day.run.phase = "launching"
    /\ day' = [day EXCEPT !.run = [phase |-> "cycle", since |-> day.now], !.beat = day.now]
\* A heartbeat at a phase boundary.
heartbeat ==
    /\ day.run.phase = "cycle" /\ day.beat # day.now
    /\ day' = [day EXCEPT !.beat = day.now]
\* The cycle ends in its walltime and pings; the process releases the holder record.
EndCycle ==
    /\ day.run.phase = "cycle"
    /\ day' = [day EXCEPT !.run = Nothing, !.beat = NoBeat, !.ping = day.now]
Die ==
    /\ day.run # Nothing /\ ~day.died
    /\ day' = [day EXCEPT !.run = Nothing, !.died = TRUE]

Limit == IF day.run.phase = "cycle" THEN day.raw["CYCLE_WALLTIME_BUDGET_MS"] ELSE Launch
Tick ==
    /\ day.armed /\ day.now < Horizon /\ day.now < day.due
    /\ day.run # Nothing => Age(day.run.since) < Limit
    /\ day' = [day EXCEPT !.now = @ + 1]

DayNext == Invoke \/ StartCycle \/ heartbeat \/ EndCycle \/ Die \/ Tick

(***************************************************************************)
(* Properties                                                              *)
(***************************************************************************)
\* The timers of every configuration that arms fit together.  After one death, at whatever
\* moment, the silence ends within the dead-man bound (and the launches of the invocation
\* that died and of its successor, for which the inequalities leave no room), so the check
\* never fires on a system that is recovering, and a real alert is delivered within the
\* SLA; no live holder is ever taken for dead; and within a cycle its snapshot stays fresh.
TimersFit ==
    day # NoDay /\ day.armed =>
        /\ Age(day.ping) <= day.raw["DEAD_MAN_BOUND_MS"] + 2 * Launch
        /\ Age(day.ping) + day.raw["ALERT_DELIVERY_BUDGET_MS"] <= AlertSla + 2 * Launch
        /\ ~day.robbed
        /\ (day.run.phase = "cycle" => Age(day.run.since) <= day.raw["SNAPSHOT_STALENESS_BOUND_MS"])
=============================================================================
