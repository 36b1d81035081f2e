-------------------------- MODULE MCIdentityWatch --------------------------
(* One name, created three times; one tombstone may be kept. Roles feed no *)
(* property here, so there is one.                                         *)
EXTENDS IdentityWatch

CONSTANTS a1, a2, a3, web

MCName           == {web}
MCUID            == {a1, a2, a3}
MCNameOf         == [u \in MCUID |-> web]
MCIncarnations   == [n \in MCName |-> <<a1, a2, a3>>]
=============================================================================
