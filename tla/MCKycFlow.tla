----------------------------- MODULE MCKycFlow -----------------------------
(* The webhook on a small instance: one human approved under two            *)
(* commitments, a redelivery, and a late result that is not approved.       *)
EXTENDS KycFlow, TLC

CONSTANTS w1, c1, c2, n1, a1, m1, vk1, d1, d2, d3, d4

MCEvent ==
    d1 :> [commitment |-> c1, nullifier |-> n1, status |-> "approved"] @@
    d2 :> [commitment |-> c2, nullifier |-> n1, status |-> "approved"] @@
    d3 :> [commitment |-> c1, nullifier |-> n1, status |-> "approved"] @@
    d4 :> [commitment |-> c1, nullifier |-> n1, status |-> "in_review"]

\* The provider delivers one approval twice.
MCRedelivery ==
    d1 :> [commitment |-> c1, nullifier |-> n1, status |-> "approved"] @@
    d2 :> [commitment |-> c1, nullifier |-> n1, status |-> "approved"]
=============================================================================
