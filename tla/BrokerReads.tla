---------------------------- MODULE BrokerReads ----------------------------
(***************************************************************************)
(* How the adapter reads a moving account (src/src/shell/alpaca-broker.ts): *)
(* page by page, with a cursor the broker applies to instants finer than   *)
(* the ones the core keeps, twice over until two reads agree, and then the *)
(* activity ledger.  Between any two requests the broker takes, fills and  *)
(* cancels orders.  Instants count half milliseconds.                      *)
(***************************************************************************)
EXTENDS Integers, Sequences, FiniteSets, FiniteSetsExt, Functions

CONSTANTS PageLimit,  \* ORDER_PAGE_LIMIT, ACTIVITY_PAGE_LIMIT
          PageCap,    \* pages after which a listing gives up (200)
          MaxOrders,  \* bound: orders the broker takes
          MaxInstant, \* bound: the last instant of a submission
          AttemptCap, \* second reads of a snapshot (3)
          NoReader    \* the adapter reads nothing (the other topics of a run)

ASSUME PageAssumption == PageLimit \in Nat \ {0} /\ PageCap \in Nat \ {0} /\ MaxInstant \in Nat

VARIABLES orders,   \* the broker's orders in the order of submission
          ledger,   \* its fill activities: the order each one is of
          reader    \* what the adapter has read

readVars == <<orders, ledger, reader>>

Missing == -1        \* no usable submitted_at, and the cursor of the first page
Unread == <<>>       \* a value that has not been read; one that has is a singleton

(***************************************************************************)
(* The broker (external): a listing is ascending by submission and starts  *)
(* strictly after the cursor; a status filter looks at the present state.  *)
(***************************************************************************)
\* Broker timestamps are truncated to the millisecond, never rounded.
normalizeBrokerIso(at) == at \div 2

mapOrder(id) ==
    [id |-> id, state |-> orders[id].state,
     submitted |-> IF orders[id].stamped THEN normalizeBrokerIso(orders[id].at) ELSE Missing]
Listed(kind, after) ==
    CASE kind = "fills" -> {i \in DOMAIN ledger : i > after}
      [] kind # "fills" -> {id \in DOMAIN orders : (kind = "open" => orders[id].state = "open")
                                                   /\ (after # Missing => orders[id].at > 2 * after)}
FirstOf(S, n) == {i \in S : Cardinality({j \in S : j <= i}) <= n}
Page(kind, after) == FirstOf(Listed(kind, after), PageLimit)

(***************************************************************************)
(* The cursor of the next page.  Orders that share the page's last instant *)
(* may straddle the boundary, so the next page re-reads them all; activity *)
(* ids are unique, so the last one will do.                                *)
(***************************************************************************)
End == [kind |-> "end"]
Unpageable == [kind |-> "unpageable"]
After(cursor) == [kind |-> "after", after |-> cursor]

\* Mutant: the cursor is the last instant of the page.
nextOrderPageAfter_last(page) ==
    LET lastInstant == mapOrder(Max(page)).submitted
    IN  CASE Cardinality(page) < PageLimit -> End
          [] Cardinality(page) >= PageLimit /\ lastInstant = Missing -> Unpageable
          [] OTHER -> After(lastInstant)

nextOrderPageAfter(page) ==
    LET lastInstant == mapOrder(Max(page)).submitted
        earlier == {mapOrder(id).submitted : id \in page} \ {Missing}
        before == {t \in earlier : t < lastInstant}
    IN  CASE Cardinality(page) < PageLimit -> End
          [] Cardinality(page) >= PageLimit /\ before = {} -> Unpageable
          [] OTHER -> After(Max(before))
nextActivityPageAfter(page) ==
    IF Cardinality(page) < PageLimit THEN End ELSE After(Max(page))

(***************************************************************************)
(* A listing: seen maps what it has found to the record of the page it was *)
(* found on first.                                                         *)
(***************************************************************************)
NoListing == [after |-> Missing, pages |-> 0, complete |-> FALSE, over |-> FALSE, seen |-> <<>>]
Record(kind, id) == IF kind = "fills" THEN ledger[id] ELSE mapOrder(id).state
PageRead(listing, kind) ==
    LET page == Page(kind, listing.after)
        next == IF kind = "fills" THEN nextActivityPageAfter(page) ELSE nextOrderPageAfter(page)
        found == [listing EXCEPT !.pages = @ + 1,
                    !.seen = [id \in DOMAIN @ \cup page |->
                                IF id \in DOMAIN @ THEN @[id] ELSE Record(kind, id)]]
    IN  CASE next.kind = "end" -> [found EXCEPT !.over = TRUE, !.complete = TRUE]
          [] next.kind = "unpageable" -> [found EXCEPT !.over = TRUE]
          [] next.kind = "after" ->
               IF next.after = listing.after \/ found.pages > PageCap
               THEN [found EXCEPT !.over = TRUE] ELSE [found EXCEPT !.after = next.after]

(***************************************************************************)
(* The reader: one listing of the open orders, or the provenance bundle,   *)
(* which is a full snapshot and then the fills of the ledger.  A snapshot  *)
(* reads positions and orders side by side and starts again until two      *)
(* reads in a row agree.  then and open are history: the book when the     *)
(* order listing before this one ended, and the orders open throughout.    *)
(***************************************************************************)
Statuses == [id \in DOMAIN orders |-> orders[id].state]
OpenNow == {id \in DOMAIN orders : orders[id].state = "open"}
Position == Cardinality({id \in DOMAIN orders : orders[id].state = "filled"})
Reading(kind) ==
    [kind |-> kind, listing |-> NoListing, position |-> Unread, previous |-> Unread, attempt |-> 0,
     outcome |-> "reading", then |-> Unread, ended |-> Unread, open |-> {}, before |-> DOMAIN ledger,
     snapshot |-> Unread]
ReadInit == orders = <<>> /\ ledger = <<>> /\ reader = NoReader

Begin(kind) ==
    /\ reader = NoReader
    /\ reader' = [Reading(kind) EXCEPT !.open = IF kind = "open" THEN OpenNow ELSE {}]
    /\ UNCHANGED <<orders, ledger>>

Busy == reader # NoReader /\ reader.outcome = "reading"
ordersByStatus ==
    /\ Busy /\ ~reader.listing.over
    /\ reader' = [reader EXCEPT !.listing = PageRead(@, reader.kind),
                    !.ended = IF PageRead(reader.listing, reader.kind).over THEN Statuses ELSE @]
    /\ UNCHANGED <<orders, ledger>>

positions ==
    /\ Busy /\ reader.kind = "all" /\ reader.position = Unread
    /\ reader' = [reader EXCEPT !.position = <<Position>>]
    /\ UNCHANGED <<orders, ledger>>

\* An open listing that could not be paged to its end is an error, not a short list.
openOrders ==
    /\ Busy /\ reader.kind = "open" /\ reader.listing.over
    /\ reader' = IF reader.listing.complete THEN [reader EXCEPT !.outcome = "done"] ELSE NoReader
    /\ UNCHANGED <<orders, ledger>>

snapshotFingerprint == <<reader.position, reader.listing.seen, reader.listing.complete>>
fullSnapshot ==
    /\ Busy /\ reader.kind = "all" /\ reader.listing.over /\ reader.position # Unread
    /\ LET again == [reader EXCEPT !.listing = NoListing, !.position = Unread, !.then = reader.ended,
                                   !.previous = snapshotFingerprint, !.attempt = @ + 1]
       IN  reader' = CASE reader.previous = snapshotFingerprint ->
                            [again EXCEPT !.kind = "fills", !.then = reader.then,
                                          !.snapshot = <<reader.listing>>]
                       [] reader.previous # snapshotFingerprint /\ reader.attempt < AttemptCap -> again
                       [] OTHER -> NoReader
    /\ UNCHANGED <<orders, ledger>>

provenanceBundle ==
    /\ Busy /\ reader.kind = "fills" /\ reader.listing.over
    /\ reader' = [reader EXCEPT !.outcome = "done"]
    /\ UNCHANGED <<orders, ledger>>

\* A request fails, a document is malformed or the deadline of the read passes: the reader
\* gets an error, and may read again.
ReadFails ==
    /\ Busy
    /\ reader' = NoReader
    /\ UNCHANGED <<orders, ledger>>

LastInstant == IF orders = <<>> THEN 0 ELSE orders[Len(orders)].at
OrderArrives ==
    /\ Len(orders) < MaxOrders
    /\ \E stamped \in BOOLEAN, at \in LastInstant..MaxInstant :
         orders' = Append(orders, [at |-> at, stamped |-> stamped, state |-> "open"])
    /\ UNCHANGED <<ledger, reader>>
OrderTerminates(id) ==
    /\ orders[id].state = "open"
    /\ \/ orders' = [orders EXCEPT ![id].state = "filled"] /\ ledger' = Append(ledger, id)
       \/ orders' = [orders EXCEPT ![id].state = "canceled"] /\ UNCHANGED ledger
    /\ reader' = IF Busy THEN [reader EXCEPT !.open = @ \ {id}] ELSE reader

ReadNext ==
    \/ \E kind \in {"open", "all"} : Begin(kind)
    \/ ordersByStatus \/ positions \/ openOrders \/ fullSnapshot \/ provenanceBundle \/ ReadFails
    \/ (reader = NoReader \/ Busy)
       /\ (OrderArrives \/ \E id \in DOMAIN orders : OrderTerminates(id))

(***************************************************************************)
(* Properties                                                              *)
(***************************************************************************)
\* A listing that calls itself complete has missed nothing that was there all the time:
\* an order open from the first page to the last is in the list of open orders, and every
\* fill booked before the reads began is in the ledger, however many orders share an
\* instant, arrive or end while the pages are read (S-CYC-09, gate finding G3-N6).
ListingIsComplete ==
    reader # NoReader =>
        /\ reader.kind = "open" /\ reader.outcome = "done" => reader.open \subseteq DOMAIN reader.listing.seen
        /\ reader.kind = "fills" /\ reader.listing.complete => reader.before \subseteq DOMAIN reader.listing.seen

\* The orders of a snapshot, collected over many requests, were all true together: what
\* two agreeing complete reads list is exactly the book at the moment the first of the
\* two order listings ended.
SnapshotWasTrue ==
    reader # NoReader /\ reader.snapshot # Unread /\ reader.snapshot[1].complete
        => reader.snapshot[1].seen = reader.then

ReadsAreTrue == ListingIsComplete /\ SnapshotWasTrue
=============================================================================
