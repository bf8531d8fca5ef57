---------------------------- MODULE Provenance ----------------------------
(***************************************************************************)
(* The first cycles of an account (src/src/core/lifecycle.ts and the start *)
(* of src/src/shell/cycle-runner.ts): what an empty journal means, and the *)
(* proof that a competition account was never used, taken over evidence    *)
(* that is read in two steps while the broker books the opening capital    *)
(* late and a human may touch the account.                                 *)
(***************************************************************************)
EXTENDS Integers, FiniteSets, FiniteSetsExt

CONSTANTS Capital,   \* INITIAL_CAPITAL
          Openings,  \* the balances an account may have been opened with
          NoAccount  \* no account is watched (the other topics of a run)

ASSUME CapitalAssumption == Capital \in Nat \ {0} /\ Openings \subseteq Nat

(***************************************************************************)
(* account is the broker's truth: how it was opened, its equity, the money *)
(* ever paid in, what was ever ordered and filled, what is open now, its   *)
(* activity ledger, and whether a human ordered or took money out.         *)
(* start is the agent's side: the store (a seed whose BOOTSTRAP is due, or *)
(* a store that outlived its journal), the types of the journal's lines,   *)
(* the halt, the phase of the cycle and the snapshot it has read.          *)
(***************************************************************************)
VARIABLES account, start
provenanceVars == <<account, start>>

NoSnapshot == [evidence |-> <<>>, used |-> FALSE, paid |-> 0]
Opened(profile, opening, early, seeded) ==
    /\ account = [opening |-> opening, early |-> early, equity |-> opening, paid |-> opening, orders |-> 0,
                  fills |-> 0, working |-> 0, position |-> 0, ledger |-> {}, used |-> FALSE]
    /\ start = [profile |-> profile, seeded |-> seeded, seedPending |-> seeded, lines |-> {},
                halt |-> "none", phase |-> "idle", snapshot |-> NoSnapshot, proven |-> FALSE, ordered |-> FALSE]
ProvenanceIdle == account = NoAccount /\ start = NoAccount
ProvenanceInit ==
    \E profile \in {"dev", "competition"}, opening \in Openings, early, seeded \in BOOLEAN :
        Opened(profile, opening, early, seeded)

(***************************************************************************)
(* The ledger, as the proof classifies it.  An absent amount is 0.         *)
(***************************************************************************)
Activity(id, type, status, currency, amount) ==
    [id |-> id, activityType |-> type, status |-> status, currency |-> currency, netAmountCents |-> amount]
isOpeningFundingJournal(a) ==
    a.activityType = "JNLC" /\ a.status = "executed" /\ a.currency = "USD" /\ a.netAmountCents > 0
isCashJournalOut(a) == a.activityType = "JNLC" /\ a.status = "executed" /\ a.netAmountCents < 0
Spent(a) == a.activityType # "JNLC" \/ isCashJournalOut(a)
Uncountable(a) == a.activityType = "JNLC" /\ ~isCashJournalOut(a) /\ ~isOpeningFundingJournal(a)
Funded(activities) ==
    MapThenSumSet(LAMBDA a : a.netAmountCents, {a \in activities : isOpeningFundingJournal(a)})

(***************************************************************************)
(* The proof.  A bundle may be incomplete or unreadable; what it does show *)
(* may be evidence that the account was used, which is irreversible.       *)
(***************************************************************************)
Reused(b) ==
    \/ b.createdEarly \/ b.positions # 0 \/ b.working # 0 \/ b.orders > 0 \/ b.fills > 0
    \/ \E a \in b.ledger : Spent(a)
    \/ (\E a \in b.ledger : isOpeningFundingJournal(a)) /\ Funded(b.ledger) # Capital
\* An empty complete ledger is what the broker shows before it books the opening capital.
FundingShown(b) == b.ledger = {} \/ Funded(b.ledger) = Capital

\* Mutant: a funding journal that was canceled counts as use of the account.
validateCompetitionProvenance_lumped(b) ==
    [reuse |-> Reused(b) \/ \E a \in b.ledger : Uncountable(a),
     ok |-> /\ ~Reused(b) /\ b.readable /\ b.complete
            /\ b.equity = Capital /\ FundingShown(b)
            /\ \A a \in b.ledger : ~Uncountable(a)]

validateCompetitionProvenance(b) ==
    [reuse |-> Reused(b),
     ok |-> /\ ~Reused(b) /\ b.readable /\ b.complete
            /\ b.equity = Capital /\ FundingShown(b)
            /\ \A a \in b.ledger : ~Uncountable(a)]

\* The full snapshot comes first, the ledger after it; a listing that stopped early shows a part.
SnapshotEvidence ==
    [createdEarly |-> account.early, equity |-> account.equity, positions |-> account.position,
     working |-> account.working, orders |-> account.orders]
Bundles ==
    {[createdEarly |-> s.createdEarly, equity |-> s.equity, positions |-> s.positions, working |-> s.working,
      orders |-> IF all THEN s.orders ELSE 0, fills |-> IF all THEN account.fills ELSE 0,
      ledger |-> ledger, complete |-> all /\ ledger = account.ledger, readable |-> readable] :
        s \in {start.snapshot.evidence}, all, readable \in BOOLEAN, ledger \in SUBSET account.ledger}

(***************************************************************************)
(* The journal under the gateway: while a seed's BOOTSTRAP is due nothing  *)
(* else may be appended.  Halts do not stack.                              *)
(***************************************************************************)
Appends(s, type) == type = "BOOTSTRAP" \/ ~s.seedPending
append(s, type) ==
    IF Appends(s, type) THEN [s EXCEPT !.lines = @ \cup {type}, !.seedPending = FALSE] ELSE s
haltFor(s, reason) ==
    IF s.halt # "none" \/ ~Appends(s, "HALT") THEN s ELSE [append(s, "HALT") EXCEPT !.halt = reason]
Idle(s) == [s EXCEPT !.phase = "idle", !.snapshot = NoSnapshot]

BookVirgin == account.position = 0 /\ account.working = 0
planPrimaryEntry(stale) ==
    CASE start.lines = {} /\ BookVirgin -> "BOOTSTRAP"
      [] start.lines = {} /\ ~BookVirgin -> "FOREIGN_BOOK_GAP"
      [] start.lines # {} /\ stale /\ start.lines \cap {"BOOTSTRAP", "GAP", "CYCLE"} # {} -> "GAP"
      [] OTHER -> "CYCLE"

\* The journal traded nothing yet: a position is a human's, a working order unknown.
AfterClassification(s) ==
    LET latched == IF account.position # 0 /\ s.profile = "competition"
                   THEN haltFor(s, "PROVENANCE_BROKEN") ELSE s
    IN  IF BookVirgin THEN s ELSE Idle(haltFor(latched, "RESIDUE_UNRESOLVED"))

Proceeds(s) == IF s.halt # "none" THEN Idle(append(s, "CYCLE")) ELSE [s EXCEPT !.phase = "trading"]

Watched == start # NoAccount /\ ~start.ordered
BeginCycle ==
    /\ Watched /\ start.phase = "idle"
    /\ \E stale \in BOOLEAN :
        start' = CASE planPrimaryEntry(stale) = "FOREIGN_BOOK_GAP" -> haltFor(append(start, "GAP"), "GAP")
                   [] planPrimaryEntry(stale) = "BOOTSTRAP" /\ start.profile = "competition" ->
                        [start EXCEPT !.phase = "proving",
                                      !.snapshot = [evidence |-> SnapshotEvidence, used |-> account.used, paid |-> account.paid]]
                   [] planPrimaryEntry(stale) = "BOOTSTRAP" /\ start.profile = "dev" ->
                        Proceeds([append(start, "BOOTSTRAP") EXCEPT !.proven = TRUE])
                   [] planPrimaryEntry(stale) = "GAP" -> Idle(AfterClassification(append(start, "GAP")))
                   [] planPrimaryEntry(stale) = "CYCLE" ->
                        IF BookVirgin THEN Proceeds(start) ELSE AfterClassification(start)
    /\ UNCHANGED account

\* The proof over the bundle, or over none when it could not be fetched.
Prove ==
    /\ Watched /\ start.phase = "proving"
    /\ \E verdict \in {validateCompetitionProvenance(b) : b \in Bundles} \cup {[reuse |-> FALSE, ok |-> FALSE]} :
        start' = IF verdict.ok
                 THEN Proceeds([append(start, "BOOTSTRAP") EXCEPT
                                  !.proven = ~start.snapshot.used /\ start.snapshot.paid = Capital])
                 ELSE Idle(haltFor(append(start, "GAP"), IF verdict.reuse THEN "PROVENANCE_BROKEN" ELSE "GAP"))
    /\ UNCHANGED account

\* A cycle that may trade sends its first entry, or has none; the gateway asks again.
Trade ==
    /\ Watched /\ start.phase = "trading"
    /\ start' = IF start.seedPending THEN Idle(start)
                ELSE [Idle(append(start, "CYCLE")) EXCEPT !.ordered = TRUE]
    /\ UNCHANGED account
CycleEnds ==
    /\ Watched /\ start.phase = "trading"
    /\ start' = Idle(append(start, "CYCLE"))
    /\ UNCHANGED account
\* The process dies; the next one begins a cycle of its own.
Crash == Watched /\ start.phase # "idle" /\ start' = Idle(start) /\ UNCHANGED account
\* A suppressed invocation leaves its witness line, whatever the seed owes.
Witness == Watched /\ start' = [start EXCEPT !.lines = @ \cup {"SUPPRESSED"}] /\ UNCHANGED account
ManualUnhalt ==
    /\ Watched /\ start.halt \notin {"none", "PROVENANCE_BROKEN"} /\ ~start.seedPending
    /\ start' = [start EXCEPT !.halt = "none", !.lines = @ \cup {"UNHALT"}]
    /\ UNCHANGED account

(***************************************************************************)
(* The broker and the human (external).                                    *)
(***************************************************************************)
Books(a) == account' = [account EXCEPT !.ledger = @ \cup {a}] /\ UNCHANGED start
BookOpening == Watched /\ Books(Activity("opening", "JNLC", "executed", "USD", account.opening))
BookRetry == Watched /\ Books(Activity("retry", "JNLC", "canceled", "USD", account.opening))
\* Money is paid in or taken out after the opening.
MoveCash ==
    /\ Watched /\ account.equity = account.opening
    /\ \E amount \in {-1, 1} :
        account' = [account EXCEPT !.equity = @ + amount, !.paid = IF amount > 0 THEN @ + amount ELSE @,
                                   !.used = @ \/ amount < 0,
                                   !.ledger = @ \cup {Activity("moved", "JNLC", "executed", "USD", amount)}]
    /\ UNCHANGED start
HumanOrders ==
    /\ Watched /\ account.orders < 2
    /\ account' = [account EXCEPT !.orders = @ + 1, !.working = @ + 1, !.used = TRUE]
    /\ UNCHANGED start
HumanOrderEnds ==
    /\ Watched /\ account.working > 0
    /\ \/ account' = [account EXCEPT !.working = @ - 1]
       \/ account' = [account EXCEPT !.working = @ - 1, !.fills = @ + 1, !.position = 1 - @,
                                     !.ledger = @ \cup {Activity("fill", "FILL", "", "", 0)}]
    /\ UNCHANGED start

ProvenanceNext ==
    \/ BeginCycle \/ Prove \/ Trade \/ CycleEnds \/ Crash \/ Witness \/ ManualUnhalt
    \/ BookOpening \/ BookRetry \/ MoveCash \/ HumanOrders \/ HumanOrderEnds

(***************************************************************************)
(* Properties                                                              *)
(***************************************************************************)
\* The provenance latch tells the truth both ways.  An account whose store was seeded sends
\* its first order only after a cycle whose proof saw it unused, created in time and paid in
\* with exactly the prescribed capital, however late the opening was booked and whatever was
\* retried, witnessed or un-halted in between; and the irreversible halt is latched only on
\* an account that really was used, created too early, or funded otherwise than by one
\* opening with that capital.
ProvenanceIsTrue ==
    start # NoAccount =>
        /\ start.ordered /\ start.seeded =>
              start.proven /\ (start.profile = "competition" => ~account.early)
        /\ start.halt = "PROVENANCE_BROKEN" =>
              \/ account.used \/ account.early
              \/ account.opening # Capital \/ account.paid # Capital
=============================================================================
