------------------------- MODULE AttestorRegistry -------------------------
(***************************************************************************)
(* contracts/attestor-registry/src/lib.rs: who may attest.  Both actions   *)
(* are the admin's (admin.require_auth()).  Every contract call is one     *)
(* transaction, hence one step; a call that returns an error or panics     *)
(* changes nothing and is not a step.                                      *)
(***************************************************************************)
EXTENDS ZKreditShared

VARIABLE attestor       \* DataKey::Attestor(a); an absent key reads as FALSE

RegistryTypeOK == attestor \in [Attestors -> BOOLEAN]

RegistryInit == attestor = [a \in Attestors |-> FALSE]

Authorize(a) == attestor' = [attestor EXCEPT ![a] = TRUE]

Revoke(a) == attestor' = [attestor EXCEPT ![a] = FALSE]

is_attestor(a) == attestor[a]

RegistryNext == \E a \in Attestors : Authorize(a) \/ Revoke(a)
=============================================================================
