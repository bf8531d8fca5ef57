------------------------------ MODULE Gateway ------------------------------
(***************************************************************************)
(* The single mutation gateway (src/src/shell/mutation-gateway.ts) with    *)
(* the files it keeps in STATE_DIR: the epoch store, the holder record,    *)
(* the journal and the halt flag.  Several gateway instances (the agent,   *)
(* the watchdog, the deadline task, a human's un-halt command) share those *)
(* files; a kernel mutex serialises their operations.                      *)
(*                                                                         *)
(* An operation is a decision and the writes it makes.  The decision reads *)
(* everything under the mutex and takes effect together with the first     *)
(* write; the remaining writes are separate steps (Continue), because the  *)
(* process may die, or a write may throw, between any two of them.  A      *)
(* crash before the first write is the operation not happening, and so is  *)
(* a line torn by a crash: the next reader quarantines it.  A refused      *)
(* request changes nothing and is a stuttering step.                       *)
(***************************************************************************)
EXTENDS Journal, FiniteSets

CONSTANTS WriterLines,    \* input: entry types and halt reasons a writer appends
          SafetyReasons,  \* input: reasons of the authority-free safety halt
          VirginEvidence, \* input: may a taker vouch for a virgin account?
          Witnesses,      \* input: instances that append a witness line
          Faults,         \* input: the faults that happen
          MaxJournal,     \* bound: lines in the journal
          MaxSends,       \* bound: orders handed to the broker
          MaxCrashes,     \* bound: crashes of one instance
          MaxLosses       \* bound: losses of the epoch store

ASSUME InputsAssumption ==
    /\ WriterLines \subseteq {"BOOTSTRAP", "CYCLE", "RUNNER", "KILL"}
    /\ SafetyReasons \subseteq {"AUTH_FAILURE", "ACCOUNT_BINDING_MISMATCH"}
    /\ VirginEvidence \subseteq BOOLEAN
    /\ Witnesses \subseteq Instances
    /\ Faults \subseteq {"crash", "write_fails", "absent", "unreadable", "flag_damaged"}

VARIABLES
    store,      \* epoch.json
    holder,     \* holder.json: the instance, and whether its heartbeat is younger than the takeover bound
    journal,    \* journal.jsonl
    halt,       \* haltStateFrom(journal): the fold, carried along with every append
    flag,       \* halt.json as readHaltState returns it
    own,        \* ownEpoch of each instance, in memory; 0 is null
    observed,   \* the store an instance read before it asked for the mutex
    mutex,      \* the instance in the gateway, or NoOne
    todo,       \* the writes that operation still has to make
    sent,       \* the orders handed to the broker, in order
    \* history, read by the properties only
    gen,        \* how often the epoch store was lost
    life,       \* how often each instance was restarted
    claims,     \* who acted as the writer, and under which epoch
    lossAt      \* the length of the journal when the store was last lost

files == <<store, holder, journal, halt, flag>>
history == <<gen, life, claims, lossAt>>
vars == <<files, own, observed, mutex, todo, sent, history>>

NothingObserved == [kind |-> "none", epoch |-> 0]
NoHolder == [id |-> NoOne, fresh |-> FALSE]
OrderKinds == {"entry", "close"}

-----------------------------------------------------------------------------
(***************************************************************************)
(* Durable writes, the in-memory ownEpoch, and the call of the broker.     *)
(***************************************************************************)
WriteStore(s) == [op |-> "store", store |-> s]
WriteHolder == [op |-> "holder"]
WriteLine(line) == [op |-> "line", line |-> line]
WriteFlag == [op |-> "flag"]
SetOwn(epoch) == [op |-> "own", epoch |-> epoch]
Send(kind) == [op |-> "send", kind |-> kind]

Write == [op : {"store"}, store : PresentStore] \cup [op : {"line"}, line : Line]
           \cup [op : {"own"}, epoch : Epochs] \cup [op : {"send"}, kind : OrderKinds]
           \cup {WriteHolder, WriteFlag}

ApplyStore(w) ==
    /\ w.op = "store"
    /\ store' = w.store
    /\ UNCHANGED <<holder, journal, halt, flag, own, sent>>

ApplyHolder(i, w) ==
    /\ w.op = "holder"
    /\ holder' = [id |-> i, fresh |-> TRUE]
    /\ UNCHANGED <<store, journal, halt, flag, own, sent>>

ApplyLine(w) ==
    /\ w.op = "line"
    /\ journal' = Append(journal, w.line)
    /\ halt' = haltStateAfter(halt, w.line)
    /\ UNCHANGED <<store, holder, flag, own, sent>>

ApplyFlag(w) ==
    /\ w.op = "flag"
    /\ flag' = halt
    /\ UNCHANGED <<store, holder, journal, halt, own, sent>>

ApplyOwn(i, w) ==
    /\ w.op = "own"
    /\ own' = [own EXCEPT ![i] = w.epoch]
    /\ UNCHANGED <<files, sent>>

ApplySend(w) ==
    /\ w.op = "send"
    /\ sent' = Append(sent, w.kind)
    /\ UNCHANGED <<files, own>>

Apply(i, w) ==
    \/ ApplyStore(w)
    \/ ApplyHolder(i, w)
    \/ ApplyLine(w)
    \/ ApplyFlag(w)
    \/ ApplyOwn(i, w)
    \/ ApplySend(w)

\* Instance i makes the first of these writes and keeps the mutex while there are more.
Make(i, writes) ==
    /\ Apply(i, Head(writes))
    /\ todo' = Tail(writes)
    /\ mutex' = IF Tail(writes) = <<>> THEN NoOne ELSE i

\* An operation begins: it takes the free mutex, and its lines fit the model's bound.
Begin(i, writes) ==
    /\ mutex = NoOne
    /\ Len(journal) + Cardinality({k \in DOMAIN writes : writes[k].op = "line"}) <= MaxJournal
    /\ Make(i, writes)

Continue ==
    /\ mutex # NoOne
    /\ Make(mutex, todo)
    /\ UNCHANGED <<observed, history>>

-----------------------------------------------------------------------------
(***************************************************************************)
(* Halt state as a caller sees it.  With a transition in the journal the   *)
(* journal decides and the flag is repaired; without one the persisted     *)
(* flag stands, so that an unreadable flag keeps the system halted.        *)
(***************************************************************************)
\* Mutant: the projection is believed as it stands.
reconciledHalt_trustsFlag == flag

reconciledHalt == IF HasTransition(journal) THEN halt ELSE flag
repairFlag == IF flag # reconciledHalt THEN <<WriteFlag>> ELSE <<>>

appendLine(line) ==
    <<WriteLine(line)>> \o (IF IsTransition(line) THEN <<WriteFlag>> ELSE <<>>)

(***************************************************************************)
(* Acquisition.                                                            *)
(***************************************************************************)
liveRivalHolder(i) == holder.id \notin {NoOne, i} /\ holder.fresh

\* Mutant: the pair lands, the store is never promoted.
completeReset_neverPromotes(i, epoch) ==
    (IF resetPairPresent(journal)
     THEN <<WriteFlag>>
     ELSE appendLine(Authoritative("GAP", epoch))
            \o appendLine(HaltLine(epoch, "EPOCH_STORE_RESET")))
      \o <<SetOwn(epoch)>>

completeReset(i, epoch) ==
    (IF resetPairPresent(journal)
     THEN <<WriteFlag>>
     ELSE appendLine(Authoritative("GAP", epoch))
            \o appendLine(HaltLine(epoch, "EPOCH_STORE_RESET")))
      \o <<WriteStore(Present(epoch, i, FALSE, FALSE)), SetOwn(epoch)>>

\* Mutant: the taker considers itself the writer before the store names it.
acquisitionWrites_ownFirst(i, plan) ==
    IF plan.resetPending
    THEN <<WriteStore(Present(plan.epoch, i, plan.seedPending, TRUE)), WriteHolder>>
           \o completeReset(i, plan.epoch)
    ELSE <<SetOwn(plan.epoch),
           WriteStore(Present(plan.epoch, i, plan.seedPending, FALSE)), WriteHolder>>

acquisitionWrites(i, plan) ==
    <<WriteStore(Present(plan.epoch, i, plan.seedPending, plan.resetPending)),
      WriteHolder>>
      \o (IF plan.resetPending THEN completeReset(i, plan.epoch)
                               ELSE <<SetOwn(plan.epoch)>>)

\* acquireAuthority reads the epoch store before it asks for the mutex ...
ObserveStore(i) ==
    /\ mutex # i
    /\ observed[i] = NothingObserved
    /\ observed' = [observed EXCEPT ![i] = Observed(store)]
    /\ UNCHANGED <<files, own, mutex, todo, sent, history>>

\* ... loses if another taker was faster, is suppressed by a live holder, or is refused ...
AcquisitionDenied(i) ==
    /\ mutex = NoOne
    /\ observed[i] # NothingObserved
    /\ \/ LostRace(observed[i], store)
       \/ liveRivalHolder(i)
       \/ planEpochAcquisition(store, FALSE, journal = <<>>).kind = "REFUSE"
    /\ observed' = [observed EXCEPT ![i] = NothingObserved]
    /\ UNCHANGED <<files, own, mutex, todo, sent, history>>

\* ... or takes the next epoch.
acquireUnderLock(i, virgin) ==
    LET plan == planEpochAcquisition(store, virgin, journal = <<>>)
    IN  /\ observed[i] # NothingObserved
        /\ ~LostRace(observed[i], store)
        /\ ~liveRivalHolder(i)
        /\ plan.kind # "REFUSE"
        /\ Begin(i, acquisitionWrites(i, plan))
        /\ observed' = [observed EXCEPT ![i] = NothingObserved]
        /\ UNCHANGED history

(***************************************************************************)
(* Dispatch of authoritative requests: the epoch must be current, in the   *)
(* store under this instance's name, and acquired in this process.         *)
(***************************************************************************)
\* Mutant: the holder id in the store is taken for an acquisition.
IsWriter_byHolderId(i) ==
    /\ store.kind = "present"
    /\ ~store.resetPending
    /\ store.holderId = i

IsWriter(i) ==
    /\ authorizeMutation(own[i], store)
    /\ store.holderId = i

\* What a broker mutation or an ordinary append needs: no seed outstanding either.
MayAct(i) == IsWriter(i) /\ ~store.seedPending

Claim(i) == claims' = claims \cup {<<gen, store.epoch, i, life[i]>>}

\* A primary entry, a fact or a HALT.  Under an unjournaled seed only the BOOTSTRAP may land.
dispatchAppend(i, line) ==
    /\ IsWriter(i)
    /\ store.seedPending => line.type = "BOOTSTRAP"
    /\ line.epoch = own[i]
    /\ Begin(i, appendLine(line)
                  \o (IF store.seedPending
                      THEN <<WriteStore(Present(store.epoch, store.holderId, FALSE, FALSE))>>
                      ELSE <<>>))
    /\ Claim(i)
    /\ UNCHANGED <<observed, gen, life, lossAt>>

\* A broker mutation.  Only a close (and a cancel) may leave under a halt.
dispatchMutation(i, kind) ==
    /\ MayAct(i)
    /\ kind = "entry" => ~reconciledHalt.halted
    /\ Len(sent) < MaxSends
    /\ Begin(i, (IF kind = "entry" THEN repairFlag ELSE <<>>) \o <<Send(kind)>>)
    /\ Claim(i)
    /\ UNCHANGED <<observed, gen, life, lossAt>>

\* A mutation or an INTENT/OUTCOME for another account, or the port finding another account.
haltForBindingMismatch(i) ==
    LET standing == /\ reconciledHalt.halted
                    /\ reconciledHalt.reason = "ACCOUNT_BINDING_MISMATCH"
        writes == repairFlag \o
                    (IF standing THEN <<>>
                     ELSE appendLine(HaltLine(own[i], "ACCOUNT_BINDING_MISMATCH")))
    IN  /\ MayAct(i)
        /\ writes # <<>>
        /\ Begin(i, writes)
        /\ Claim(i)
        /\ UNCHANGED <<observed, gen, life, lossAt>>

(***************************************************************************)
(* Requests that need no authority.                                        *)
(***************************************************************************)
dispatchWitness(i) ==
    /\ i \in Witnesses
    /\ ~WitnessRecorded(journal, i)
    /\ Begin(i, appendLine(WitnessLine(i)))
    /\ UNCHANGED <<observed, history>>

dispatchSafetyHalt(i, reason) ==
    /\ store.kind = "present"
    /\ Begin(i, IF halt.halted /\ halt.reason = reason
                THEN <<WriteFlag>>
                ELSE appendLine(HaltLine(store.epoch, reason)))
    /\ UNCHANGED <<observed, history>>

\* The human path.  Its optional expectations only narrow when it may run.
dispatchManualUnhalt(i) ==
    /\ store.kind = "present"
    /\ ~store.resetPending
    /\ ~store.seedPending
    /\ reconciledHalt.halted
    /\ ~reconciledHalt.sticky
    /\ Begin(i, repairFlag \o appendLine(Authoritative("UNHALT", store.epoch)))
    /\ UNCHANGED <<observed, history>>

(***************************************************************************)
(* Opening the journal, and the holder record.                             *)
(***************************************************************************)
openJournal(i) ==
    /\ repairFlag # <<>>
    /\ Begin(i, repairFlag)
    /\ UNCHANGED <<observed, history>>

openJournalAsWriter(i) ==
    /\ MayAct(i)
    /\ Begin(i, <<WriteHolder>> \o repairFlag)
    /\ UNCHANGED <<observed, history>>

heartbeat(i) ==
    /\ store.kind = "present"
    /\ own[i] # 0
    /\ store.epoch = own[i]
    /\ Begin(i, <<WriteHolder>>)
    /\ UNCHANGED <<observed, history>>

releaseHolder(i) ==
    /\ mutex = NoOne
    /\ holder.id = i
    /\ holder' = NoHolder
    /\ UNCHANGED <<store, journal, halt, flag, own, observed, mutex, todo, sent, history>>

-----------------------------------------------------------------------------
(***************************************************************************)
(* The environment: time, dying processes, failing writes, damaged files.  *)
(***************************************************************************)
\* The heartbeat grows older than lockTakeoverBoundMs, whether its writer is dead or only slow.
HeartbeatExpires ==
    /\ holder.fresh
    /\ holder' = [holder EXCEPT !.fresh = FALSE]
    /\ UNCHANGED <<store, journal, halt, flag, own, observed, mutex, todo, sent, history>>

LeaveGateway(i) ==
    IF mutex = i THEN mutex' = NoOne /\ todo' = <<>>
                 ELSE UNCHANGED <<mutex, todo>>

\* The process dies and a new one starts under the same id; the kernel frees its mutex.
Crash(i) ==
    /\ "crash" \in Faults
    /\ life[i] < MaxCrashes
    /\ LeaveGateway(i)
    /\ own' = [own EXCEPT ![i] = 0]
    /\ observed' = [observed EXCEPT ![i] = NothingObserved]
    /\ life' = [life EXCEPT ![i] = @ + 1]
    /\ UNCHANGED <<files, sent, gen, claims, lossAt>>

\* A write throws: the operation is refused, the writes made so far stay.
WriteFails ==
    /\ "write_fails" \in Faults
    /\ mutex # NoOne
    /\ LeaveGateway(mutex)
    /\ UNCHANGED <<files, own, observed, sent, history>>

\* The epoch store disappears or becomes unreadable between two operations.
StoreLost(kind) ==
    /\ kind \in Faults
    /\ mutex = NoOne
    /\ gen < MaxLosses
    /\ store # Blank(kind)
    /\ store' = Blank(kind)
    /\ gen' = gen + 1
    /\ lossAt' = Len(journal)
    /\ UNCHANGED <<holder, journal, halt, flag, own, observed, mutex, todo, sent,
                   life, claims>>

\* halt.json is deleted (no file reads as "not halted") or can no longer be parsed.
FlagDamaged(readsAs) ==
    /\ "flag_damaged" \in Faults
    /\ mutex = NoOne
    /\ flag' = readsAs
    /\ UNCHANGED <<store, holder, journal, halt, own, observed, mutex, todo, sent, history>>

-----------------------------------------------------------------------------
Init ==
    /\ store = Blank("absent")
    /\ holder = NoHolder
    /\ journal = <<>>
    /\ halt = notHalted
    /\ flag = notHalted
    /\ own = [i \in Instances |-> 0]
    /\ observed = [i \in Instances |-> NothingObserved]
    /\ mutex = NoOne
    /\ todo = <<>>
    /\ sent = <<>>
    /\ gen = 0
    /\ life = [i \in Instances |-> 0]
    /\ claims = {}
    /\ lossAt = 0

WriterLine(i, what) ==
    IF what \in AuthoritativeTypes THEN Authoritative(what, own[i]) ELSE HaltLine(own[i], what)

Acquisition(i) ==
    \/ ObserveStore(i)
    \/ AcquisitionDenied(i)
    \/ \E virgin \in VirginEvidence : acquireUnderLock(i, virgin)

GatewayStep(i) ==
    \/ Acquisition(i)
    \/ \E what \in WriterLines : dispatchAppend(i, WriterLine(i, what))
    \/ \E kind \in OrderKinds : dispatchMutation(i, kind)
    \/ haltForBindingMismatch(i)
    \/ dispatchWitness(i)
    \/ \E reason \in SafetyReasons : dispatchSafetyHalt(i, reason)
    \/ dispatchManualUnhalt(i)
    \/ openJournal(i)
    \/ openJournalAsWriter(i)
    \/ heartbeat(i)
    \/ releaseHolder(i)

Environment ==
    \/ HeartbeatExpires
    \/ \E i \in Instances : Crash(i)
    \/ WriteFails
    \/ \E kind \in {"absent", "unreadable"} : StoreLost(kind)
    \/ \E readsAs \in {notHalted, Halt(FlagUnreadable, FALSE)} : FlagDamaged(readsAs)

Next ==
    \/ Continue
    \/ \E i \in Instances : GatewayStep(i)
    \/ Environment

Spec == Init /\ [][Next]_vars

(***************************************************************************)
(* Fairness.  A process that is in the gateway goes on or dies.  While a   *)
(* reset is pending nobody can refresh the holder record, so its heartbeat *)
(* grows old; and the scheduler starts the agent, the watchdog and the     *)
(* deadline task again and again, so a takeover is tried again and again.  *)
(***************************************************************************)
Fairness ==
    /\ WF_vars(Continue)
    /\ WF_vars(store.resetPending /\ HeartbeatExpires)
    /\ \A i \in Instances : WF_vars(Acquisition(i))

FairSpec == Spec /\ Fairness

-----------------------------------------------------------------------------
TypeOK ==
    /\ store \in EpochStoreState
    /\ holder \in [id : Instances \cup {NoOne}, fresh : BOOLEAN]
    /\ journal \in Seq(Line)
    /\ halt \in HaltState
    /\ flag \in HaltState
    /\ own \in [Instances -> 0..MaxEpoch]
    /\ observed \in [Instances -> [kind : {"none", "absent", "unreadable", "present"},
                                   epoch : 0..MaxEpoch]]
    /\ mutex \in Instances \cup {NoOne}
    /\ todo \in Seq(Write)
    /\ (mutex = NoOne) <=> (todo = <<>>)
    /\ sent \in Seq(OrderKinds)
    /\ gen \in Nat
    /\ life \in [Instances -> Nat]
    /\ claims \subseteq (Nat \X (1..MaxEpoch) \X Instances \X Nat)
    /\ lossAt \in Nat

(***************************************************************************)
(* An order that opens risk leaves only while the journal's own halt state *)
(* is clear: not after a HALT another instance wrote between this          *)
(* instance's snapshot and its submission, not after a crash left halt.json*)
(* behind the journal, and not on the word of an unreadable flag.          *)
(***************************************************************************)
NoEntryUnderHalt ==
    [][(sent' # sent /\ sent'[Len(sent')] = "entry")
         => /\ ~halt.halted
            /\ HasTransition(journal) \/ flag = notHalted]_vars

(***************************************************************************)
(* One epoch of one epoch store is used by one process at most: whoever    *)
(* wrote or sent anything under it is the same instance in the same life,  *)
(* also when a holder is fenced while it still believes in its epoch, and  *)
(* when a process restarts under the id the store still names.             *)
(***************************************************************************)
OneProcessPerEpoch ==
    \A c, d \in claims : (c[1] = d[1] /\ c[2] = d[2]) => c = d

(***************************************************************************)
(* After the epoch store was lost under a journal in use, no entry order   *)
(* leaves before a human has un-halted: the reset is completed by somebody,*)
(* under whatever epoch, however often its completion is interrupted.      *)
(***************************************************************************)
AwaitsHuman ==
    /\ gen > 0
    /\ lossAt > 0
    /\ \A k \in (lossAt + 1)..Len(journal) : journal[k].type # "UNHALT"
ResetNeedsHuman ==
    [][(sent' # sent /\ sent'[Len(sent')] = "entry") => ~AwaitsHuman]_vars

(***************************************************************************)
(* After a KILL or a broken provenance no entry order leaves any more,     *)
(* whatever halts are written over it, whoever un-halts or takes over, and *)
(* whatever becomes of halt.json (journal.ts:615).                         *)
(***************************************************************************)
Killed(lines) ==
    \E k \in 1..Len(lines) : lines[k].type = "HALT" /\ lines[k].reason \in StickyReasons
NoEntryAfterKill ==
    [][(sent' # sent /\ sent'[Len(sent')] = "entry") => ~Killed(journal)]_vars

(***************************************************************************)
(* A reset that was begun is completed, by its taker or, after a crash at  *)
(* any point of it, by a later one, unless the model's journal is full.    *)
(* A takeover that is cut short costs one epoch, so the instance checked   *)
(* has more epochs than crashes.                                           *)
(***************************************************************************)
OutOfRoom == Len(journal) + 2 > MaxJournal
ResetCompletes == store.resetPending ~> (~store.resetPending \/ OutOfRoom)

=============================================================================
