--------------------------- MODULE HaltInterlock ---------------------------
(***************************************************************************)
(* What the gateway promises, without files, epochs or a mutex: there is   *)
(* at most one writer; the right to write is never handed over, it is      *)
(* taken away first and granted afterwards; orders leave only through the  *)
(* writer, and orders that open risk only while trading is not halted;     *)
(* anybody may halt; a halt is lifted deliberately, a latched one never.   *)
(***************************************************************************)
EXTENDS Sequences

CONSTANTS Writers, Nobody

VARIABLES writer,   \* the process that may act, or Nobody
          halted,
          latched,
          orders    \* what left for the broker, in order

ilvars == <<writer, halted, latched, orders>>

Init ==
    /\ writer = Nobody
    /\ halted = FALSE
    /\ latched = FALSE
    /\ orders = <<>>

Grant ==
    /\ writer = Nobody
    /\ writer' \in Writers
    /\ UNCHANGED <<halted, latched, orders>>

Revoke ==
    /\ writer' = Nobody
    /\ UNCHANGED <<halted, latched, orders>>

RaiseHalt ==
    /\ halted' = TRUE
    /\ latched' \in {latched, TRUE}
    /\ UNCHANGED <<writer, orders>>

LiftHalt ==
    /\ ~latched
    /\ halted' = FALSE
    /\ UNCHANGED <<writer, latched, orders>>

SendOrder(kind) ==
    /\ writer # Nobody
    /\ kind = "entry" => ~halted
    /\ orders' = Append(orders, kind)
    /\ UNCHANGED <<writer, halted, latched>>

Next == Grant \/ Revoke \/ RaiseHalt \/ LiftHalt
          \/ \E kind \in {"entry", "close"} : SendOrder(kind)

Spec == Init /\ [][Next]_ilvars
=============================================================================
