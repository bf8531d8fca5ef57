--------------------------- MODULE CertificateRun ---------------------------
(***************************************************************************)
(* The supervised certificate run (src/src/shell/certificate-run.ts): live *)
(* cycles until an entry fills, flatten cycles until the book is flat, the *)
(* credential-fence drill with its human un-halt, the final snapshot; and  *)
(* the recovery after any failure.  Every proof of flatness is a bracket:  *)
(* the journal is opened as writer, the broker is read, the journal is     *)
(* opened again and must not have moved.                                   *)
(*                                                                         *)
(* The other processes are here by what they may do to the run: take over  *)
(* its epoch, trade and append under it, append without authority, halt,   *)
(* and lift a halt.  What a cycle does in detail is EntryLifecycle's and   *)
(* CloseLadder's subject; here a cycle is one step.                        *)
(***************************************************************************)
EXTENDS Integers, Sequences, FiniteSets, SequencesExt

CONSTANTS Entries,          \* the entry lifecycles there may be
          MaxEntryCycles,   \* options.maxEntryCycles
          MaxFlattenCycles, \* options.maxFlattenCycles
          PatienceCycles,   \* options.patienceCycles
          MaxOthers,        \* bound: journal lines and trades of the other processes
          RunFaults         \* input: what may go wrong at the broker and in an append

ASSUME EntriesAssumption == IsFiniteSet(Entries) /\ Entries # {}
ASSUME OptionsAssumption ==
    MaxEntryCycles \in Nat /\ MaxFlattenCycles \in Nat /\ PatienceCycles \in Nat /\ MaxOthers \in Nat
ASSUME RunFaultsAssumption ==
    RunFaults \subseteq {"lost_ack", "throws", "torn_snapshot", "not_fenced", "denied", "append_fails"}

VARIABLES
    lines,    \* the journal
    entryOrders, \* the entry orders at the broker
    position, \* the entries whose contracts are held
    closing,  \* those of them with a resting close
    writer,   \* whose the epoch and the holder record are
    run,      \* the run's own state
    others    \* what the other processes appended and traded

certVars == <<lines, entryOrders, position, closing, writer, run, others>>
broker == <<entryOrders, position, closing>>

-----------------------------------------------------------------------------
LineOf(type, of) == [type |-> type, of |-> of]
IntentOf(id) == LineOf("INTENT", id)
Halt(reason) == LineOf("HALT", reason)
Unhalt == LineOf("UNHALT", "none")
CycleLine == LineOf("CYCLE", "none")
Last0(S) == IF S = {} THEN 0 ELSE Max(S)

\* Mutant: what the broker does not know is over.
unresolvedEntryIds_absentIsOver(js) ==
    {id \in Entries : \E i \in DOMAIN js : js[i] = IntentOf(id)}
      \ {id \in Entries : \E i \in DOMAIN js : js[i].type \in {"filled", "canceled", "not_at_broker"} /\ js[i].of = id}

\* NOT_AT_BROKER is no end: the request may still arrive.
unresolvedEntryIds(js) ==
    {id \in Entries : \E i \in DOMAIN js : js[i] = IntentOf(id)}
      \ {id \in Entries : \E i \in DOMAIN js : js[i].type \in {"filled", "canceled"} /\ js[i].of = id}

\* Mutant: the analyst is asked whatever rests.
unresolvedEntryExists_never(window) == FALSE

unresolvedEntryExists(window) == unresolvedEntryIds(window) # {}

filledEntryExists(window) ==
    \E id \in Entries : \E i, j \in DOMAIN window :
        window[i] = IntentOf(id) /\ window[j] = LineOf("filled", id)

terminalJournalSeq(js) == Len(js)

terminalHaltTransitionSeq(js) == Last0({i \in DOMAIN js : js[i].type \in {"HALT", "UNHALT"}})

Halted(js) == terminalHaltTransitionSeq(js) # 0 /\ js[terminalHaltTransitionSeq(js)].type = "HALT"

HaltReason(js) == IF Halted(js) THEN js[terminalHaltTransitionSeq(js)].of ELSE "none"

latestHaltSeq(js) == IF Halted(js) THEN terminalHaltTransitionSeq(js) ELSE 0

inCurrentWindow(js) == SubSeq(js, run.startedAt + 1, Len(js))

-----------------------------------------------------------------------------
Fault(f) == f \in RunFaults
Working(id) == entryOrders[id] = "working"
Flat == position = {} /\ closing = {} /\ \A id \in Entries : ~Working(id)
IsWriter == writer = "run"

Fresh == [pc |-> "entry", stage |-> "before", attempt |-> 0, startedAt |-> 0,
          resting |-> [id \in Entries |-> 0], seen |-> 0, beforeFence |-> 0, haltSeq |-> 0,
          unhaltSeq |-> 0, flat |-> FALSE, verdict |-> "none"]

CertInit ==
    \* bound: at most one entry of an earlier run is open
    \E old \in SUBSET {CHOOSE id \in Entries : TRUE} :
      /\ lines = IF old = {} THEN <<>> ELSE <<IntentOf(CHOOSE id \in Entries : TRUE)>>
      /\ entryOrders \in [Entries -> {"none", "in_flight", "working"}]
      /\ \A id \in Entries : entryOrders[id] = "none" <=> id \notin old
      /\ position = {}
      /\ closing = {}
      /\ writer = "run"
      /\ run = [Fresh EXCEPT !.startedAt = Len(lines)]
      /\ others = 0

Become(r) == run' = r
Goto(pc) == run' = [run EXCEPT !.pc = pc]
\* A throw anywhere before the end is answered by the recovery.
Throw == Become([Fresh EXCEPT !.pc = "recover", !.startedAt = run.startedAt])

(***************************************************************************)
(* A cycle.  Reconciliation writes what the broker says of every open      *)
(* entry; a flatten cycle cancels entries and rests closes; a trading one  *)
(* submits a batch.                                                        *)
(***************************************************************************)
OutcomeOf(id) ==
    IF entryOrders[id] \in {"filled", "canceled"} THEN {LineOf(entryOrders[id], id)}
    ELSE IF entryOrders[id] = "in_flight" /\ \A i \in DOMAIN lines : lines[i] # LineOf("not_at_broker", id)
         THEN {LineOf("not_at_broker", id)} ELSE {}
CycleReconciles == lines \o SetToSeq(UNION {OutcomeOf(id) : id \in unresolvedEntryIds(lines)})

Quiet == lines' = Append(CycleReconciles, CycleLine) /\ UNCHANGED broker

\* No entry is submitted under a halt, nor beside one phase 0 could not find at the broker.
EntriesAdmitted ==
    ~Halted(lines) /\ \A id \in unresolvedEntryIds(lines) : entryOrders[id] # "in_flight"

\* Every approved candidate of the batch, in turn, up to one whose acknowledgement is lost;
\* which of the unused entries they are makes no difference.
Unused == {id \in Entries : entryOrders[id] = "none"}
SubmitBatch ==
    /\ EntriesAdmitted
    /\ \E n \in 1..Cardinality(Unused), unclear \in {FALSE} \cup (IF Fault("lost_ack") THEN {TRUE} ELSE {}) :
         LET batch == SubSeq(SetToSeq(Unused), 1, n)
         IN  /\ entryOrders' = [id \in Entries |->
                  IF id \notin ToSet(batch) THEN entryOrders[id]
                  ELSE IF unclear /\ id = Last(batch) THEN "in_flight" ELSE "working"]
             /\ lines' = Append(CycleReconciles, CycleLine) \o [i \in 1..n |-> IntentOf(batch[i])]
    /\ UNCHANGED <<position, closing>>

Flatten ==
    /\ entryOrders' = [id \in Entries |-> IF Working(id) THEN "canceled" ELSE entryOrders[id]]
    /\ closing' = position
    /\ lines' = Append(CycleReconciles, CycleLine)
    /\ UNCHANGED position

\* runLiveCycle: the heartbeat before it fails or the cycle throws; the one after it is the next step's.
LiveCycle(body, next) ==
    \/ IsWriter /\ body /\ Become(next)
    \/ ~IsWriter /\ Throw /\ UNCHANGED <<lines, broker>>
    \/ Fault("throws") /\ Throw /\ UNCHANGED <<lines, broker>>

(***************************************************************************)
(* Phase A.                                                                *)
(***************************************************************************)
EntryPhaseOver == run.attempt = MaxEntryCycles

EntryCycle ==
    /\ run.pc = "entry"
    /\ IF EntryPhaseOver
       THEN Become([run EXCEPT !.pc = "flatten", !.attempt = 0, !.resting = Fresh.resting]) /\ UNCHANGED <<lines, broker>>
       ELSE LiveCycle(\/ Quiet
                      \/ ~unresolvedEntryExists(inCurrentWindow(lines)) /\ SubmitBatch,
                      [run EXCEPT !.pc = "observe", !.attempt = @ + 1])
    /\ UNCHANGED <<writer, others>>

\* observeOrders, then the harness's cancel of an entry that has rested for PatienceCycles.
Resting(id) ==
    IF Working(id) /\ (\E i \in DOMAIN inCurrentWindow(lines) : inCurrentWindow(lines)[i] = IntentOf(id))
    THEN IF run.resting[id] = 0 THEN run.attempt ELSE run.resting[id]
    ELSE 0
ObserveOrders ==
    /\ run.pc = "observe"
    /\ \/ ~IsWriter /\ Throw /\ UNCHANGED entryOrders
       \/ /\ IsWriter /\ filledEntryExists(inCurrentWindow(lines))
          /\ Goto("last_entry") /\ UNCHANGED entryOrders
       \/ /\ IsWriter /\ ~filledEntryExists(inCurrentWindow(lines))
          /\ LET resting == [id \in Entries |-> Resting(id)]
             IN  /\ Become([run EXCEPT !.pc = "entry", !.resting = resting])
                 /\ entryOrders' = [id \in Entries |->
                      IF resting[id] # 0 /\ run.attempt - resting[id] >= PatienceCycles
                      THEN "canceled" ELSE entryOrders[id]]
    /\ UNCHANGED <<lines, position, closing, writer, others>>

\* One more cycle reconciles the fill.
LastEntryCycle ==
    /\ run.pc = "last_entry"
    /\ LiveCycle(Quiet, [run EXCEPT !.pc = "flatten", !.attempt = 0, !.resting = Fresh.resting])
    /\ UNCHANGED <<writer, others>>

(***************************************************************************)
(* Phase B.                                                                *)
(***************************************************************************)
FlattenCycle ==
    /\ run.pc = "flatten"
    /\ IF Flat \/ run.attempt = MaxFlattenCycles
       THEN Become([run EXCEPT !.pc = "open", !.attempt = 0]) /\ UNCHANGED <<lines, broker>>
       ELSE LiveCycle(Flatten, [run EXCEPT !.attempt = @ + 1])
    /\ UNCHANGED <<writer, others>>

(***************************************************************************)
(* The brackets.  openJournalAsWriter answers null once the epoch is       *)
(* another's.                                                              *)
(***************************************************************************)
DrillHaltStands == HaltReason(lines) = "AUTH_FAILURE" /\ terminalHaltTransitionSeq(lines) = run.haltSeq

\* The latest AUTH_FAILURE halt since the drill began.
AuthHalt == Last0({i \in DOMAIN lines : i > run.beforeFence /\ lines[i] = Halt("AUTH_FAILURE")})

OpensWell(stage) ==
    /\ IsWriter
    /\ stage = "before" => unresolvedEntryIds(lines) = {}
    /\ stage = "reconcile" => AuthHalt # 0 /\ HaltReason(lines) = "AUTH_FAILURE"
    /\ stage = "approved" => DrillHaltStands /\ terminalJournalSeq(lines) = run.seen
    /\ stage = "final" => /\ ~Halted(lines)
                          /\ terminalHaltTransitionSeq(lines) = run.unhaltSeq
                          /\ unresolvedEntryIds(lines) = {}

OpenJournal ==
    /\ run.pc = "open"
    /\ IF OpensWell(run.stage)
       THEN Become([run EXCEPT !.pc = "snapshot", !.seen = terminalJournalSeq(lines),
                               !.haltSeq = IF run.stage = "reconcile" THEN AuthHalt ELSE @])
       ELSE Throw
    /\ UNCHANGED <<lines, broker, writer, others>>

\* fullSnapshot: pages that do not fit together, another account, or a throw prove nothing.
Snapshots == {Flat} \cup (IF Fault("torn_snapshot") THEN {FALSE} ELSE {})

FullSnapshot ==
    /\ run.pc = "snapshot"
    /\ \/ \E flat \in Snapshots :
            IF flat \/ run.stage = "final"
            THEN Become([run EXCEPT !.pc = "reopen", !.flat = flat])
            ELSE Throw
       \/ Fault("throws") /\ Throw
    /\ UNCHANGED <<lines, broker, writer, others>>

\* Mutant: the journal is not opened a second time.
StillAsOpened_once(stage) == TRUE

StillAsOpened(stage) ==
    /\ IsWriter
    /\ terminalJournalSeq(lines) = run.seen
    /\ stage = "before" => unresolvedEntryIds(lines) = {} /\ ~Halted(lines)
    /\ stage \in {"reconcile", "approved"} => DrillHaltStands
    /\ stage = "final" => /\ ~Halted(lines)
                          /\ terminalHaltTransitionSeq(lines) = run.unhaltSeq
                          /\ unresolvedEntryIds(lines) = {}

NextOf == [before |-> "fence", reconcile |-> "approval", approved |-> "unhalt", final |-> "certify"]

ReopenJournal ==
    /\ run.pc = "reopen"
    /\ IF StillAsOpened(run.stage)
       THEN Become([run EXCEPT !.pc = NextOf[run.stage],
                               !.beforeFence = IF run.stage = "before" THEN terminalJournalSeq(lines) ELSE @])
       ELSE Throw
    /\ UNCHANGED <<lines, broker, writer, others>>

(***************************************************************************)
(* Phase C: a cycle over rejected credentials halts; working orders are    *)
(* canceled and confirmed; a human approves.                               *)
(***************************************************************************)
FenceCycle ==
    /\ run.pc = "fence"
    /\ LiveCycle(/\ \E halts \in {TRUE} \cup (IF Fault("not_fenced") THEN {FALSE} ELSE {}) :
                      lines' = lines \o (IF halts /\ ~Halted(lines) THEN <<Halt("AUTH_FAILURE"), CycleLine>>
                                         ELSE <<CycleLine>>)
                 /\ UNCHANGED broker,
                 [run EXCEPT !.pc = "fence_orders"])
    /\ UNCHANGED <<writer, others>>

FenceOrders ==
    /\ run.pc = "fence_orders"
    /\ \/ /\ IsWriter
          /\ entryOrders' = [id \in Entries |-> IF Working(id) THEN "canceled" ELSE entryOrders[id]]
          /\ Become([run EXCEPT !.pc = "open", !.stage = "reconcile"])
       \/ /\ ~IsWriter \/ Fault("throws") \/ Fault("not_fenced") \/ \E id \in Entries : Working(id)
          /\ Throw /\ UNCHANGED entryOrders
    /\ UNCHANGED <<lines, position, closing, writer, others>>

\* The wait ends with the answer; a heartbeat is due before, during and after it.
AwaitHumanApproval ==
    /\ run.pc = "approval"
    /\ \/ IsWriter /\ Become([run EXCEPT !.pc = "open", !.stage = "approved"])
       \/ (~IsWriter \/ Fault("denied")) /\ Throw
    /\ UNCHANGED <<lines, broker, writer, others>>

UnhaltAdmits ==
    /\ IsWriter
    /\ terminalJournalSeq(lines) = run.seen
    /\ DrillHaltStands

manualUnhalt ==
    /\ run.pc = "unhalt"
    /\ \/ /\ UnhaltAdmits
          /\ lines' = Append(lines, Unhalt)
          /\ Become([run EXCEPT !.pc = "open", !.stage = "final", !.unhaltSeq = Len(lines')])
       \/ /\ ~UnhaltAdmits \/ Fault("append_fails")
          /\ Throw /\ UNCHANGED lines
    /\ UNCHANGED <<broker, writer, others>>

(***************************************************************************)
(* Phase D: buildCertificate passes over a filled entry and a flat book.   *)
(***************************************************************************)
BuildCertificate ==
    /\ run.pc = "certify"
    /\ Become([run EXCEPT !.pc = "ended",
                          !.verdict = IF run.flat /\ filledEntryExists(inCurrentWindow(lines))
                                      THEN "PASS" ELSE "FAIL"])
    /\ UNCHANGED <<lines, broker, writer, others>>

(***************************************************************************)
(* recoverCertificateAfterFailure: halt, prove flatness in a bracket, else *)
(* flatten and try again.                                                  *)
(***************************************************************************)
RecoveryBarrier ==
    /\ run.pc = "recover"
    /\ \/ /\ IsWriter
          /\ lines' = IF Halted(lines) THEN lines ELSE Append(lines, Halt("MANUAL"))
          /\ Become([run EXCEPT !.pc = IF unresolvedEntryIds(lines) = {} THEN "recover_snapshot" ELSE "recover_cycle",
                                !.haltSeq = latestHaltSeq(lines'), !.seen = terminalJournalSeq(lines')])
       \/ /\ ~IsWriter \/ (Fault("append_fails") /\ ~Halted(lines))
          /\ Goto("recover_cycle") /\ UNCHANGED lines
    /\ UNCHANGED <<broker, writer, others>>

RecoverySnapshot ==
    /\ run.pc = "recover_snapshot"
    /\ \E flat \in Snapshots : Goto(IF flat THEN "recover_reopen" ELSE "recover_cycle")
    /\ UNCHANGED <<lines, broker, writer, others>>

\* Mutant: a flat snapshot is proof enough.
RecoveryProven_bySnapshot == TRUE

RecoveryProven ==
    /\ IsWriter
    /\ latestHaltSeq(lines) = run.haltSeq
    /\ terminalJournalSeq(lines) = run.seen
    /\ unresolvedEntryIds(lines) = {}

RecoveryReopen ==
    /\ run.pc = "recover_reopen"
    /\ IF RecoveryProven THEN Become([run EXCEPT !.pc = "ended", !.verdict = "recovered"])
       ELSE Goto("recover_cycle")
    /\ UNCHANGED <<lines, broker, writer, others>>

\* What the flatten cycle throws is logged; after the last attempt the exposure is reported unresolved.
RecoveryCycle ==
    /\ run.pc = "recover_cycle"
    /\ \/ IsWriter /\ Flatten
       \/ (~IsWriter \/ Fault("throws")) /\ UNCHANGED <<lines, broker>>
    /\ Become(IF run.attempt + 1 < MaxFlattenCycles THEN [run EXCEPT !.pc = "recover", !.attempt = @ + 1]
              ELSE [run EXCEPT !.pc = "ended", !.verdict = "unresolved"])
    /\ UNCHANGED <<writer, others>>

(***************************************************************************)
(* The broker and the other processes.                                     *)
(***************************************************************************)
EntryArrives(id) ==
    /\ entryOrders[id] = "in_flight"
    /\ entryOrders' = [entryOrders EXCEPT ![id] = "working"]
    /\ UNCHANGED <<lines, position, closing, writer, run, others>>

OrderFills(id) ==
    /\ Working(id)
    /\ entryOrders' = [entryOrders EXCEPT ![id] = "filled"]
    /\ position' = position \cup {id}
    /\ UNCHANGED <<lines, closing, writer, run, others>>

CloseFills(id) ==
    /\ id \in closing
    /\ position' = position \ {id}
    /\ closing' = closing \ {id}
    /\ UNCHANGED <<lines, entryOrders, writer, run, others>>

Other == run.pc # "ended" /\ others < MaxOthers /\ others' = others + 1 /\ UNCHANGED run
OtherLine(line) == Other /\ lines' = Append(lines, line)

\* A taker finds the heartbeat too old; the run is never asked again.
TakeOver == run.pc # "ended" /\ IsWriter /\ writer' = "other" /\ UNCHANGED <<lines, broker, run, others>>

OtherTrades ==
    /\ ~IsWriter
    /\ Other
    /\ SubmitBatch
    /\ UNCHANGED writer

\* Neither a witness nor a safety halt needs authority.
OtherAppends ==
    /\ \/ OtherLine(CycleLine)
       \/ \E reason \in {"AUTH_FAILURE", "ACCOUNT_BINDING_MISMATCH"} :
            HaltReason(lines) # reason /\ OtherLine(Halt(reason))
    /\ UNCHANGED <<broker, writer>>

HumanUnhalts == Halted(lines) /\ OtherLine(Unhalt) /\ UNCHANGED <<broker, writer>>

CertNext ==
    \/ EntryCycle \/ ObserveOrders \/ LastEntryCycle \/ FlattenCycle
    \/ OpenJournal \/ FullSnapshot \/ ReopenJournal
    \/ FenceCycle \/ FenceOrders \/ AwaitHumanApproval \/ manualUnhalt \/ BuildCertificate
    \/ RecoveryBarrier \/ RecoverySnapshot \/ RecoveryReopen \/ RecoveryCycle
    \/ TakeOver \/ OtherTrades \/ OtherAppends \/ HumanUnhalts
    \/ run.pc # "ended" /\ \E id \in Entries : EntryArrives(id) \/ OrderFills(id) \/ CloseFills(id)

CertSpec == CertInit /\ [][CertNext]_certVars

-----------------------------------------------------------------------------
(***************************************************************************)
(* The run's un-halt is informed: in the very step it lands the account is *)
(* flat and nothing of an entry may still arrive (not only at the time of  *)
(* the snapshots), it lifts the halt that was shown to the human, and      *)
(* nothing has been journaled since (certificate-run.ts:267-300).          *)
(***************************************************************************)
NothingOpen == Flat /\ \A id \in Entries : entryOrders[id] # "in_flight"
UnhaltIsInformed ==
    [][run'.unhaltSeq > run.unhaltSeq =>
         /\ NothingOpen
         /\ terminalHaltTransitionSeq(lines) = run.haltSeq
         /\ Len(lines') = run.seen + 1]_certVars

(***************************************************************************)
(* When the last read of the journal lets a passing certificate be built,  *)
(* the account is flat then, and the only halt since the drill is the one  *)
(* the drill lifted.                                                       *)
(***************************************************************************)
PassIsTrue ==
    [][run.pc = "reopen" /\ run'.pc = "certify" /\ run.flat =>
         NothingOpen /\ terminalHaltTransitionSeq(lines) = run.unhaltSeq]_certVars

(***************************************************************************)
(* A run that failed says recovered only over a flat account under a       *)
(* standing halt, and as the writer.                                       *)
(***************************************************************************)
RecoveredIsTrue ==
    [][run'.verdict = "recovered" /\ run.verdict # "recovered" => NothingOpen /\ Halted(lines) /\ IsWriter]_certVars

(***************************************************************************)
(* "While one rests, the supervised run proposes nothing new": as long as  *)
(* it has the epoch, a cycle submits its batch only when no earlier entry  *)
(* of the run rests, may still arrive, or has filled                       *)
(* (certificate-run.ts:53, 160-164).                                       *)
(***************************************************************************)
LiveInRun(id) ==
    /\ entryOrders[id] \in {"in_flight", "working", "filled"}
    /\ \E i \in (run.startedAt + 1)..Len(lines) : lines[i] = IntentOf(id)
OneBatchAtATime ==
    [][IsWriter /\ (\E id \in Entries : entryOrders[id] = "none" /\ entryOrders'[id] # "none") =>
         \A id \in Entries : ~LiveInRun(id)]_certVars
=============================================================================
