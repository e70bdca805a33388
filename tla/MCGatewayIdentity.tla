---- MODULE MCGatewayIdentity ----
(***************************************************************************)
(* GatewayIdentity for TLC.  An exit is only ever compared with another    *)
(* one, so the addresses are interchangeable; the providers are not, since *)
(* some have the header and some do not.                                   *)
(***************************************************************************)
EXTENDS GatewayIdentity, TLC

Exits == Permutations(Addresses)
====
