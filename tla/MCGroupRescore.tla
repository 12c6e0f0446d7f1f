--------------------------- MODULE MCGroupRescore ---------------------------
(* The service on small instances: wallets that can hold two secrets, one   *)
(* KYC approval, and two re-scores that can overlap it and each other.      *)
EXTENDS GroupRescore, TLC

CONSTANTS w1, w2, c1, c2, n1, a1, m1, vk1, d1, r1, r2, r3

MCEvent == d1 :> [commitment |-> c1, nullifier |-> n1, status |-> "approved"]

NoEvent == << >>

MCProofs == [vk : {vk1}, commitment : Commitments, wallet : Wallets]

MCUnionBucket == [S \in SUBSET Wallets |-> Cardinality(S)]

MCGroupScores ==
    {[risk_bucket |-> b, distilled_model_hash |-> m1, zk_verified |-> FALSE,
      attestor |-> a1, issued_at |-> 0, expires_at |-> 0, kyc_verified |-> k,
      identity_commitment |-> c] :
         b \in 1..2, k \in BOOLEAN, c \in Commitments}
=============================================================================
