------------------------------ MODULE Journal ------------------------------
(***************************************************************************)
(* The append-only journal and the halt state it determines                *)
(* (src/src/core/journal.ts).  A line keeps what later decisions read:     *)
(* its type, the epoch it claims (0 on a witness line), the reason of a    *)
(* HALT and the instance a witness line names.  Every other authoritative  *)
(* entry type is "CYCLE".  "RUNNER" stands for each halt reason that the   *)
(* runner and the watchdog give and that is not sticky (GAP,               *)
(* RESIDUE_UNRESOLVED, BROKER_PRICE_BREACH, ...).                          *)
(***************************************************************************)
EXTENDS Authority, Sequences

StickyReasons == {"KILL", "PROVENANCE_BROKEN"}
WeakReasons == {"AUTH_FAILURE", "ACCOUNT_BINDING_MISMATCH",
                "EPOCH_STORE_RESET", "RUNNER"}
FlagUnreadable == "HALT_FLAG_UNREADABLE"
NoReason == "none"
Reasons == StickyReasons \cup WeakReasons \cup {NoReason}

WitnessTypes == {"WITNESS"}
AuthoritativeTypes == {"BOOTSTRAP", "GAP", "HALT", "UNHALT", "CYCLE"}

Line == [type : AuthoritativeTypes \cup WitnessTypes,
         epoch : 0..MaxEpoch, reason : Reasons, inst : Instances \cup {NoOne}]

Authoritative(type, epoch) ==
    [type |-> type, epoch |-> epoch, reason |-> NoReason, inst |-> NoOne]
HaltLine(epoch, reason) ==
    [type |-> "HALT", epoch |-> epoch, reason |-> reason, inst |-> NoOne]
WitnessLine(i) ==
    [type |-> "WITNESS", epoch |-> 0, reason |-> NoReason, inst |-> i]

IsTransition(line) == line.type \in {"HALT", "UNHALT"}
HasTransition(journal) == \E k \in 1..Len(journal) : IsTransition(journal[k])
WitnessRecorded(journal, i) ==
    \E k \in 1..Len(journal) : /\ journal[k].type \in WitnessTypes
                               /\ journal[k].inst = i

(***************************************************************************)
(* HaltState and its fold over the journal: a sticky halt is final, any    *)
(* other HALT replaces the cause, a human UNHALT clears.                   *)
(***************************************************************************)
HaltState == [halted : BOOLEAN, reason : Reasons \cup {FlagUnreadable},
              sticky : BOOLEAN]
Halt(reason, sticky) == [halted |-> TRUE, reason |-> reason, sticky |-> sticky]
notHalted == [halted |-> FALSE, reason |-> NoReason, sticky |-> FALSE]

\* Mutant: a halt takes over the stickiness of the one before it, not that of its own reason.
haltStateAfter_carried(current, line) ==
    IF current.sticky \/ ~IsTransition(line) THEN current
    ELSE IF line.type = "HALT" THEN Halt(line.reason, current.sticky)
                               ELSE notHalted

haltStateAfter(current, line) ==
    IF current.sticky \/ ~IsTransition(line) THEN current
    ELSE IF line.type = "HALT" THEN Halt(line.reason, line.reason \in StickyReasons)
                               ELSE notHalted

(***************************************************************************)
(* A reset is durable when the journal ENDS in the pair GAP, HALT(reset).  *)
(***************************************************************************)
\* Mutant: the pair of an earlier reset will do.
resetPairPresent_anywhere(journal) ==
    \E n \in 2..Len(journal) :
      /\ journal[n - 1].type = "GAP"
      /\ journal[n].type = "HALT"
      /\ journal[n].reason = "EPOCH_STORE_RESET"

resetPairPresent(journal) ==
    LET n == Len(journal)
    IN  /\ n >= 2
        /\ journal[n - 1].type = "GAP"
        /\ journal[n].type = "HALT"
        /\ journal[n].reason = "EPOCH_STORE_RESET"
=============================================================================
