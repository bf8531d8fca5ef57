------------------------- MODULE GatewayRefinement -------------------------
(***************************************************************************)
(* The gateway implements HaltInterlock.  The abstract writer is the       *)
(* instance a dispatch would let pass: named by the store, in possession   *)
(* of its epoch in memory, with no seed or reset outstanding.  The epoch   *)
(* store must not be lost: epochs restart at 1 then, and a number that an  *)
(* instance still remembers may come round again.                          *)
(***************************************************************************)
EXTENDS Gateway

writerOf == IF store.holderId \in Instances /\ MayAct(store.holderId) 
            THEN store.holderId ELSE NoOne

Interlock == INSTANCE HaltInterlock
    WITH Writers <- Instances, Nobody <- NoOne,
         writer <- writerOf, halted <- halt.halted, latched <- halt.sticky,
         orders <- sent

(***************************************************************************)
(* Every step of the gateway is a step of the interlock or invisible to    *)
(* it, however the durable writes of one operation are cut short and       *)
(* whoever takes over in between.                                          *)
(***************************************************************************)
ImplementsInterlock == Interlock!Spec
=============================================================================
