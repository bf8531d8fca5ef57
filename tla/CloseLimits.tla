---------------------------- MODULE CloseLimits ----------------------------
(***************************************************************************)
(* The price a close rests at, cycle after cycle, while the market moves:  *)
(* the ladder of an intact structure that was opened at some fill price,   *)
(* and the requoted limit of a residue that is no structure any more       *)
(* (src/src/core/lifecycle.ts).                                            *)
(***************************************************************************)
EXTENDS Structures

CONSTANTS Openable,     \* candidates that may have been opened
          FillPrices,   \* average fill prices of an entry
          Pieces,       \* contracts a residue may be of
          LadderMarkets(_), \* the quotes of a set of contracts, as sets of functions
          LadderSpots,  \* prices of the underlying
          KillTolerance, \* LIMIT_TOLERANCE
          Step,         \* CLOSE_ESCALATION_STEP
          MaxRung,      \* bound: generations of one close
          NoLadder      \* the state in which nothing is being closed

VARIABLE ladder         \* what is being closed, the latest quotes and the limit it rests at

Contracts(legs) == {legs[i].contractId : i \in DOMAIN legs}

\* Parsed candidates and contracts, prices of a broker that are whole and not negative, and
\* settings the configuration bounds from below.
ASSUME LadderAssumption ==
    /\ Openable \subseteq EntryCandidate /\ FillPrices \subseteq Nat /\ Pieces \subseteq OptionContract
    /\ LadderSpots \subseteq Nat /\ KillTolerance \in Nat /\ Step \in Nat
    /\ \A contracts \in {Contracts(c.legs) : c \in Openable} \cup {{p.contractId} : p \in Pieces} :
          \A quotes \in LadderMarkets(contracts) : \A id \in DOMAIN quotes :
              quotes[id].bidCents \in Nat /\ quotes[id].askCents \in Nat

\* The reserve an entry filled at price is charged with, per share.
ReservePerShare(c, price) == expiryPayoffBound(c.legs, c.entryLimit.kind, price)

\* A fill is at the submitted limit or better.
FillsOf(c) == {p \in FillPrices : IF c.entryLimit.kind = "debit" THEN p <= c.entryLimit.priceCents
                                  ELSE p >= c.entryLimit.priceCents}

OpenStructure(c, price, quotes, rung) ==
    [kind |-> "structure", of |-> c, paid |-> price, quotes |-> quotes, rung |-> rung,
     limit |-> escalateCloseLimit(reversedLegs(c.legs), quotes, rung, Step, closeCapFor(c))]

\* A kill closes at a plain limit, once.
KillStructure(c, price, quotes) ==
    [OpenStructure(c, price, quotes, 0) EXCEPT !.kind = "kill",
        !.limit = priceCloseLimit(reversedLegs(c.legs), quotes, KillTolerance)]

(***************************************************************************)
(* A residue is one contract held long or short, alone or beside another   *)
(* liability; its closing leg offsets the held sign.                       *)
(***************************************************************************)
residueClosingLeg(contract, quantity) ==
    OptionLeg(contract, IF quantity > 0 THEN "sell" ELSE "buy", 1)
HoldEvidence(contract, quantity, paired, protected, quotes, spot) ==
    [contract |-> contract, quantity |-> quantity, pairedShortOrLiability |-> paired,
     exerciseProtectionConfirmed |-> protected, spotCents |-> spot,
     quoted |-> contract.contractId \in DOMAIN quotes,
     quote |-> IF contract.contractId \in DOMAIN quotes THEN quotes[contract.contractId]
               ELSE [bidCents |-> 0, askCents |-> 0, size |-> 0, quotedAt |-> 0]]
Residue(contract, quantity, paired, protected, quotes, spot, rung) ==
    [kind |-> IF evaluateExpiryHold(HoldEvidence(contract, quantity, paired, protected, quotes, spot), 0, 0)
              THEN "held" ELSE "residue",
     of |-> contract, quantity |-> quantity, paired |-> paired, protected |-> protected,
     quotes |-> quotes, rung |-> rung, spot |-> spot,
     limit |-> LET legs == <<residueClosingLeg(contract, quantity)>>
               IN  IF quantity > 0 THEN escalateCloseLimit(legs, quotes, rung, Step, ZeroFloor)
                   ELSE marketableCloseLimit(legs, quotes, rung, Step)]

LadderInit ==
    \/ \E c \in Openable : \E price \in FillsOf(c), quotes \in LadderMarkets(Contracts(c.legs)) :
        /\ definedRisk(c, 1, price) # Undefined
        /\ ladder \in {OpenStructure(c, price, quotes, 0), KillStructure(c, price, quotes)}
    \/ \E contract \in Pieces, quantity \in {-1, 1}, paired, protected \in BOOLEAN, spot \in LadderSpots :
        \E quotes \in LadderMarkets({contract.contractId}) :
            ladder = Residue(contract, quantity, paired, protected, quotes, spot, 0)

\* The next cycle cancels the unfilled close and requotes it one generation on.
Requote ==
    /\ ladder # NoLadder /\ ladder.kind = "structure" /\ ladder.rung < MaxRung
    /\ \E quotes \in LadderMarkets(Contracts(ladder.of.legs)) :
        ladder' = OpenStructure(ladder.of, ladder.paid, quotes, ladder.rung + 1)

RequoteResidue ==
    /\ ladder # NoLadder /\ ladder.kind = "residue" /\ ladder.rung < MaxRung
    /\ \E quotes \in LadderMarkets({ladder.of.contractId}), spot \in LadderSpots :
        ladder' = Residue(ladder.of, ladder.quantity, ladder.paired, ladder.protected,
                          quotes, spot, ladder.rung + 1)

LadderNext == Requote \/ RequoteResidue

(***************************************************************************)
(* Properties                                                              *)
(***************************************************************************)
\* What a share of the structure has cost once its close fills at the limit.
RealizedLoss ==
    LET entry == IF ladder.of.entryLimit.kind = "debit" THEN ladder.paid ELSE -ladder.paid
        close == IF ladder.limit.kind = "debit" THEN ladder.limit.price ELSE -ladder.limit.price
    IN  entry + close

\* An intact structure is never closed at a loss beyond the reserve its entry was
\* charged with, whatever the market does and however often the close is requoted
\* (the net guarantee of S-X-05), as long as closing what was paid for still pays.
NetLossWithinReserve ==
    ladder.kind = "structure" /\ ladder.limit.ok =>
        \/ RealizedLoss <= ReservePerShare(ladder.of, ladder.paid)
        \/ ladder.of.entryLimit.kind = "debit" /\ ladder.limit.kind = "debit"

\* A short residue is bid for at the ask or above, however often it is requoted, and a
\* long one is left to expire only when nothing that can happen until then costs money.
ResidueCloses ==
    /\ ladder.kind = "residue" /\ ladder.quantity < 0 /\ ladder.limit.ok =>
          /\ ladder.limit.kind = "debit"
          /\ ladder.limit.price >= ladder.quotes[ladder.of.contractId].askCents
    /\ ladder.kind = "held" =>
          /\ ~ladder.paired
          /\ ladder.quotes[ladder.of.contractId].bidCents = 0
          /\ expiryPayoffBound(<<OptionLeg(ladder.of, IF ladder.quantity > 0 THEN "buy" ELSE "sell", 1)>>,
                               "credit", 0) = 0

\* Closing costs what the entry reserved and no more, for whole structures and for what
\* is left of them.
CloseCostBounded == ladder # NoLadder => NetLossWithinReserve /\ ResidueCloses
=============================================================================
