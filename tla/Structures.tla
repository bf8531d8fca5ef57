----------------------------- MODULE Structures -----------------------------
(***************************************************************************)
(* Option structures, what they can lose, and the limits they are opened   *)
(* and closed at (src/src/core/decision.ts, execution.ts, lifecycle.ts).   *)
(* Prices and strikes are cents per share; a lot is LotSize shares.        *)
(***************************************************************************)
EXTENDS Integers, Sequences, FiniteSetsExt, Functions

CONSTANTS LotSize,   \* 100 in the code
          MaxSafe    \* Number.MAX_SAFE_INTEGER in the code

ASSUME StructuresAssumption == LotSize \in Nat \ {0} /\ MaxSafe \in Nat \ {0}

Undefined == -1      \* the code's null for an amount that is never negative

Sleeve == {"income", "convex"}

(***************************************************************************)
(* A leg is an OptionContract with a side and a ratio, a candidate a       *)
(* structure with the limit it may be opened at, a quote one contract's    *)
(* two-sided market.  A quote absent from a market is one the broker did   *)
(* not return, or one that is not four non-negative integers.              *)
(***************************************************************************)
OptionContract ==
    [contractId : STRING, underlying : STRING, expiry : Nat, strikeCents : Nat, right : {"call", "put"}]
OptionLegs ==
    [contractId : STRING, underlying : STRING, expiry : Nat, strikeCents : Nat, right : {"call", "put"},
     side : {"buy", "sell"}, ratio : Nat \ {0}]
EntryCandidate ==
    [candidateId : Nat, declaredStructureType : STRING, sleeve : Sleeve, quantity : Nat \ {0},
     remainingTradingSessions : Nat, legs : Seq(OptionLegs),
     entryLimit : [kind : {"debit", "credit"}, priceCents : Nat]]
OptionLeg(c, side, ratio) ==
    [contractId |-> c.contractId, underlying |-> c.underlying, expiry |-> c.expiry,
     strikeCents |-> c.strikeCents, right |-> c.right, side |-> side, ratio |-> ratio]

\* The sum of f over the legs.
OverLegs(legs, f(_)) == SumFunction([i \in DOMAIN legs |-> f(legs[i])])
Signed(leg, n) == IF leg.side = "buy" THEN n ELSE -n
Larger(a, b) == IF a > b THEN a ELSE b
Smaller(a, b) == IF a < b THEN a ELSE b

reversedLegs(legs) ==
    [i \in DOMAIN legs |->
        [legs[i] EXCEPT !.side = IF legs[i].side = "buy" THEN "sell" ELSE "buy"]]

(***************************************************************************)
(* What a structure of unit ratios can lose at expiry.  Its profit is      *)
(* piecewise linear in the price of the underlying, so it is lowest at     *)
(* zero, at a strike, or, if it falls beyond the last strike, nowhere.     *)
(***************************************************************************)
Intrinsic(leg, spot) ==
    Larger(0, IF leg.right = "call" THEN spot - leg.strikeCents ELSE leg.strikeCents - spot)
ExpiryPnl(legs, kind, price, spot) ==
    (IF kind = "debit" THEN -price ELSE price)
      + OverLegs(legs, LAMBDA l : Signed(l, Intrinsic(l, spot)) * l.ratio)
SlopeBeyondHighestStrike(legs) ==
    OverLegs(legs, LAMBDA l : IF l.right = "call" THEN Signed(l, l.ratio) ELSE 0)
Breakpoints(legs) == {0} \cup {legs[i].strikeCents : i \in DOMAIN legs}

expiryPayoffBound(legs, kind, price) ==
    IF SlopeBeyondHighestStrike(legs) < 0 THEN Undefined
    ELSE Larger(0, -Min({ExpiryPnl(legs, kind, price, spot) : spot \in Breakpoints(legs)}))

reserveFromPayoff(legs, kind, price, quantity) ==
    LET perShare == expiryPayoffBound(legs, kind, price)
    IN  IF perShare = Undefined \/ perShare * LotSize * quantity > MaxSafe
        THEN Undefined ELSE perShare * LotSize * quantity

(***************************************************************************)
(* The declared structures.  A declaration only admits leg patterns; the   *)
(* amount is always the payoff's.                                          *)
(***************************************************************************)
Strikes(legs, right) ==
    {legs[i].strikeCents : i \in {j \in DOMAIN legs : legs[j].right = right}}
Width(strikes) == IF strikes = {} THEN 0 ELSE Max(strikes) - Min(strikes)

sameContractShape(legs) ==
    /\ legs # <<>>
    /\ \A i \in DOMAIN legs : /\ legs[i].underlying = legs[1].underlying
                              /\ legs[i].expiry = legs[1].expiry
                              /\ legs[i].ratio = 1
                              /\ \A j \in DOMAIN legs :
                                    legs[i].contractId = legs[j].contractId => i = j

LongOption(c) ==
    Len(c.legs) = 1 /\ c.legs[1].side = "buy" /\ c.entryLimit.kind = "debit"

Vertical(c, price) ==
    /\ Len(c.legs) = 2
    /\ c.legs[1].right = c.legs[2].right
    /\ \E long, short \in {1, 2} :
        LET bought == c.legs[long].strikeCents
            sold == c.legs[short].strikeCents
            isLongPayoff == IF c.legs[1].right = "call" THEN bought < sold ELSE bought > sold
        IN  /\ c.legs[long].side = "buy" /\ c.legs[short].side = "sell"
            /\ bought # sold
            /\ \/ c.declaredStructureType = "vertical_debit"
                  /\ c.entryLimit.kind = "debit" /\ isLongPayoff
               \/ c.declaredStructureType = "vertical_credit"
                  /\ c.entryLimit.kind = "credit" /\ ~isLongPayoff
                  /\ price <= Width({bought, sold})

\* Puts bought below sold, calls sold below bought, the puts below the calls.
\* Two legs of one right at one strike sort by position: the first counts as the lower.
IronCondor(c, price) ==
    /\ Len(c.legs) = 4
    /\ c.entryLimit.kind = "credit"
    /\ \E order \in [1..4 -> 1..4] :
        LET leg(n) == c.legs[order[n]]
            Below(m, n) == \/ leg(m).strikeCents < leg(n).strikeCents
                           \/ leg(m).strikeCents = leg(n).strikeCents /\ order[m] < order[n]
        IN  /\ \A n \in 1..4 : leg(n).right = IF n <= 2 THEN "put" ELSE "call"
            /\ Below(1, 2) /\ Below(3, 4)
            /\ [n \in 1..4 |-> leg(n).side] = <<"buy", "sell", "sell", "buy">>
            /\ leg(2).strikeCents < leg(3).strikeCents
    /\ LET widestWing == Larger(Width(Strikes(c.legs, "put")), Width(Strikes(c.legs, "call")))
       IN  widestWing > 0 /\ price <= widestWing

\* The declared shape of a candidate, priced at price.
Admitted(c, price) ==
    /\ sameContractShape(c.legs)
    /\ CASE c.declaredStructureType = "long_option" -> LongOption(c)
         [] c.declaredStructureType \in {"vertical_debit", "vertical_credit"} -> Vertical(c, price)
         [] c.declaredStructureType = "iron_condor" -> IronCondor(c, price)
         [] OTHER -> FALSE

\* definedRisk, and definedRiskAt, for a quantity of the candidate entered at price.
definedRisk(c, quantity, price) ==
    IF Admitted(c, price)
    THEN reserveFromPayoff(c.legs, c.entryLimit.kind, price, quantity) ELSE Undefined

(***************************************************************************)
(* Pricing from quotes (S-X-01).  The net mid is kept doubled: its sign    *)
(* says whether the structure pays or receives.  A debit rounds its mid up *)
(* and adds the tolerance, a credit rounds down and subtracts it.          *)
(***************************************************************************)
Quoted(legs, quotes) == \A i \in DOMAIN legs : legs[i].contractId \in DOMAIN quotes
netMidTwice(legs, quotes) ==
    OverLegs(legs, LAMBDA l :
        Signed(l, (quotes[l.contractId].bidCents + quotes[l.contractId].askCents) * l.ratio))
KindOf(mid2) == IF mid2 > 0 THEN "debit" ELSE "credit"
Magnitude(mid2) == IF mid2 < 0 THEN -mid2 ELSE mid2

RoundedUp(mid2) == (Magnitude(mid2) + 1) \div 2
RoundedDown(mid2) == Magnitude(mid2) \div 2
limitFromNetMid(mid2, tolerance) ==
    IF mid2 > 0 THEN RoundedUp(mid2) + tolerance ELSE RoundedDown(mid2) - tolerance

Priceable(c, quotes, tolerance) ==
    /\ Quoted(c.legs, quotes)
    /\ LET mid2 == netMidTwice(c.legs, quotes)
       IN  /\ mid2 # 0
           /\ KindOf(mid2) = c.entryLimit.kind
           /\ limitFromNetMid(mid2, tolerance) \in (IF mid2 < 0 THEN 1 ELSE 0)..MaxSafe
           /\ Magnitude(mid2) <= MaxSafe
priceEntryLimit(c, quotes, tolerance) ==
    [c EXCEPT !.entryLimit.priceCents = limitFromNetMid(netMidTwice(c.legs, quotes), tolerance)]

(***************************************************************************)
(* Closing limits: [ok, kind, price, atCap].  Every one takes the legs     *)
(* already reversed.                                                       *)
(***************************************************************************)
NoLimit == [ok |-> FALSE, kind |-> "credit", price |-> 0, atCap |-> FALSE]
CloseLimit(kind, price, atCap) ==
    IF price > MaxSafe THEN NoLimit
    ELSE [ok |-> TRUE, kind |-> kind, price |-> price, atCap |-> atCap]

\* The plain limit of a kill close: a credit close asks for one cent at least.
priceCloseLimit(legs, quotes, tolerance) ==
    LET mid2 == netMidTwice(legs, quotes)
        raw == limitFromNetMid(mid2, tolerance)
    IN  IF ~Quoted(legs, quotes) \/ mid2 = 0 THEN NoLimit
        ELSE CloseLimit(KindOf(mid2), IF mid2 < 0 THEN Larger(raw, 1) ELSE raw, FALSE)

ZeroFloor == [kind |-> "zero_floor", widthCents |-> 0]
closeCapFor(c) ==
    IF c.entryLimit.kind = "debit" THEN ZeroFloor
    ELSE [kind |-> "width_debit_cap",
          widthCents |->
             IF c.declaredStructureType = "iron_condor"
             THEN Larger(Width(Strikes(c.legs, "put")), Width(Strikes(c.legs, "call")))
             ELSE Width({c.legs[i].strikeCents : i \in DOMAIN c.legs})]

(***************************************************************************)
(* The ladder (S-X-05): the mid, then a step worse each generation, resting*)
(* at the cap when it is reached: the structure's width for a debit, one   *)
(* cent for a credit.                                                      *)
(***************************************************************************)
\* Mutant: the width bounds only later generations.
escalateCloseLimit_capsLate(legs, quotes, generation, step, cap) ==
    LET mid2 == netMidTwice(legs, quotes)
        dearer == RoundedUp(mid2) + generation * step
        cheaper == RoundedDown(mid2) - generation * step
    IN  IF ~Quoted(legs, quotes) \/ mid2 = 0 THEN NoLimit
        ELSE IF mid2 < 0 THEN CloseLimit("credit", Larger(cheaper, 1), cheaper <= 0)
        ELSE IF cap.kind # "width_debit_cap" \/ generation = 0 THEN CloseLimit("debit", dearer, FALSE)
        ELSE CloseLimit("debit", Smaller(dearer, cap.widthCents), dearer >= cap.widthCents)

escalateCloseLimit(legs, quotes, generation, step, cap) ==
    LET mid2 == netMidTwice(legs, quotes)
        dearer == RoundedUp(mid2) + generation * step
        cheaper == RoundedDown(mid2) - generation * step
    IN  IF ~Quoted(legs, quotes) \/ mid2 = 0 THEN NoLimit
        ELSE IF mid2 < 0
        THEN CloseLimit("credit", Larger(cheaper, 1),
                        cap.kind # "uncapped_marketable" /\ cheaper <= 0)
        ELSE IF cap.kind # "width_debit_cap" THEN CloseLimit("debit", dearer, FALSE)
        ELSE IF cap.widthCents < 1 THEN NoLimit
        ELSE CloseLimit("debit", Smaller(dearer, cap.widthCents), dearer >= cap.widthCents)

\* S-X-06: at or past the opposing quote of every leg, without a cap.
marketableCloseLimit(legs, quotes, generation, step) ==
    LET signed == OverLegs(legs, LAMBDA l :
                     (IF l.side = "buy" THEN quotes[l.contractId].askCents
                      ELSE -quotes[l.contractId].bidCents) * l.ratio)
    IN  IF ~Quoted(legs, quotes) THEN NoLimit
        ELSE IF signed >= 0
        THEN CloseLimit("debit", Larger(signed + generation * step, 1), FALSE)
        ELSE CloseLimit("credit", Larger(-signed - generation * step, 1), FALSE)

(***************************************************************************)
(* S-X-06: when a long residue may be left to expire instead of closed.    *)
(***************************************************************************)
evaluateExpiryHold(e, now, maxAge) ==
    /\ e.quantity > 0
    /\ ~e.pairedShortOrLiability
    /\ e.quoted
    /\ now - e.quote.quotedAt \in 0..maxAge
    /\ e.quote.bidCents = 0
    /\ e.spotCents > 0
    /\ IF e.contract.right = "call" THEN e.contract.strikeCents > e.spotCents
       ELSE e.contract.strikeCents < e.spotCents
    /\ e.exerciseProtectionConfirmed
=============================================================================
