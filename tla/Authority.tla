----------------------------- MODULE Authority -----------------------------
(***************************************************************************)
(* The pure writer-authority core (src/src/core/authority.ts): what the    *)
(* persisted control epoch allows.  An epoch store is a record of one      *)
(* shape; the fields of an absent or unreadable store are blank.           *)
(* MaxEpoch stands for Number.MAX_SAFE_INTEGER: it is the code's own limit *)
(* and not only a bound of the model.                                      *)
(***************************************************************************)
EXTENDS Integers

CONSTANTS Instances,   \* gateway instance ids
          NoOne,       \* "no instance"
          MaxEpoch     \* the largest epoch the store can hold

ASSUME MaxEpochAssumption == MaxEpoch \in Nat \ {0}
ASSUME NoOneAssumption == NoOne \notin Instances

Epochs == 1..MaxEpoch

(***************************************************************************)
(* EpochStoreState.  acquiredAt is a timestamp nothing decides on.         *)
(***************************************************************************)
PresentStore == [kind : {"present"}, epoch : Epochs, holderId : Instances,
                 seedPending : BOOLEAN, resetPending : BOOLEAN]
Blank(kind) == [kind |-> kind, epoch |-> 0, holderId |-> NoOne,
                seedPending |-> FALSE, resetPending |-> FALSE]
EpochStoreState == PresentStore \cup {Blank("absent"), Blank("unreadable")}

Present(epoch, holderId, seedPending, resetPending) ==
    [kind |-> "present", epoch |-> epoch, holderId |-> holderId,
     seedPending |-> seedPending, resetPending |-> resetPending]

Plan(kind, epoch, seedPending, resetPending) ==
    [kind |-> kind, epoch |-> epoch,
     seedPending |-> seedPending, resetPending |-> resetPending]

(***************************************************************************)
(* Mutant of the plan: the exhaustion test is off by one.                  *)
(***************************************************************************)
planEpochAcquisition_exhaustedLate(store, virgin, journalEmpty) ==
    CASE store.kind = "unreadable" -> Plan("REFUSE", 0, FALSE, FALSE)
      [] store.kind = "absent" -> IF virgin /\ journalEmpty THEN Plan("SEED_BOOTSTRAP", 1, TRUE, FALSE)
                                                            ELSE Plan("SEED_GAP", 1, FALSE, TRUE)
      [] store.kind = "present" ->
           IF store.epoch > MaxEpoch THEN Plan("REFUSE", 0, FALSE, FALSE)
           ELSE Plan("INCREMENT", store.epoch + 1, store.seedPending, store.resetPending)

(***************************************************************************)
(* The acquisition plan.  Only a virgin account with an empty journal may  *)
(* be seeded silently; every other absence is a reset.  A present store    *)
(* passes its unfinished obligations on to the next epoch.                 *)
(***************************************************************************)
planEpochAcquisition(store, virgin, journalEmpty) ==
    CASE store.kind = "unreadable" -> Plan("REFUSE", 0, FALSE, FALSE)
      [] store.kind = "absent" ->
           IF virgin /\ journalEmpty
           THEN Plan("SEED_BOOTSTRAP", 1, TRUE, FALSE)
           ELSE Plan("SEED_GAP", 1, FALSE, TRUE)
      [] store.kind = "present" ->
           IF store.epoch >= MaxEpoch
           THEN Plan("REFUSE", 0, FALSE, FALSE)
           ELSE Plan("INCREMENT", store.epoch + 1,
                     store.seedPending, store.resetPending)

(***************************************************************************)
(* The single authorization rule for authoritative requests: the exact     *)
(* current epoch, in a store that has no reset outstanding.                *)
(***************************************************************************)
authorizeMutation(epoch, store) ==
    /\ epoch >= 1
    /\ store.kind = "present"
    /\ store.epoch = epoch
    /\ ~store.resetPending

(***************************************************************************)
(* What a taker remembers of the store it read before it had the mutex,    *)
(* and the test it makes on the store it reads once it has it: of two      *)
(* concurrent takers only one still sees the epoch it expects.             *)
(***************************************************************************)
Observed(store) == [kind |-> store.kind, epoch |-> store.epoch]
LostRace(observed, fresh) ==
    /\ fresh.kind = "present"
    /\ ~(observed.kind = "present" /\ observed.epoch = fresh.epoch)
=============================================================================
