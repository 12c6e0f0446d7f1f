-------------------------- MODULE MCWalletIdentity --------------------------
(* WalletIdentity on a small instance, from freshly constructed contracts.  *)
EXTENDS WalletIdentity, TLC

CONSTANTS w1, w2, w3, c1, c2, n1, n2, a1, m1, vk1, vk2

\* w1 can prove both secrets, w2 and w3 one each; w3's proof was made under
\* the first key only.
MCProofs ==
    {[vk |-> v, commitment |-> c, wallet |-> w1] : v \in {vk1, vk2}, c \in {c1, c2}}
    \cup {[vk |-> v, commitment |-> c1, wallet |-> w2] : v \in {vk1, vk2}}
    \cup {[vk |-> vk1, commitment |-> c2, wallet |-> w3]}

\* Two submitted group scores that differ in the KYC status the attestor read.
MCGroupScores ==
    {[risk_bucket |-> 1, distilled_model_hash |-> m1, zk_verified |-> TRUE,
      attestor |-> a1, issued_at |-> 1, expires_at |-> 2, kyc_verified |-> k,
      identity_commitment |-> None] : k \in BOOLEAN}
=============================================================================
