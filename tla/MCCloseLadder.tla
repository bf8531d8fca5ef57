--------------------------- MODULE MCCloseLadder ---------------------------
(***************************************************************************)
(* One spread: a long and a short leg, held whole or with its short leg    *)
(* gone.                                                                   *)
(***************************************************************************)
EXTENDS CloseLadder

CONSTANTS spread, long, short

MCContracts == {long, short}
MCStructures == {spread}
MCLegs == [s \in MCStructures |-> long :> 1 @@ short :> -1]
MCBooks == {long :> Units @@ short :> -Units, long :> Units @@ short :> 0}
MCIntact == {long :> Units @@ short :> -Units}
=============================================================================
