----------------------------- MODULE MCGateway -----------------------------
(***************************************************************************)
(* Instances of Gateway for TLC.                                           *)
(***************************************************************************)
EXTENDS GatewayRefinement, TLC

CONSTANTS agent, watchdog

MCInstances == {agent, watchdog}
InstanceSymmetry == Permutations(MCInstances)

\* States that differ only in the history of claims, which no action reads.
WithoutClaims == <<files, own, observed, mutex, todo, sent, gen, life, lossAt>>
=============================================================================
