---------------------------- MODULE MCContracts ----------------------------
(* The four contracts on a small instance.                                  *)
EXTENDS ZKreditContracts, TLC

CONSTANTS w1, w2, c1, c2, n1, a1, m1, vk1, mvk1, image1, image2

Data(bucket, zk, issued, expires, commitment) ==
    [risk_bucket |-> bucket, distilled_model_hash |-> m1, zk_verified |-> zk,
     attestor |-> a1, issued_at |-> issued, expires_at |-> expires,
     kyc_verified |-> FALSE, identity_commitment |-> commitment]

\* A wallet claims the best bucket, proven, with or without a commitment.
MCSubmittedData ==
    {Data(0, TRUE, i, 2, c) : i \in {1, 2}, c \in {None, c1}}

\* A proven LOW that expires early and a hash-anchored VERY_HIGH, read as
\* verified.
MCGroupScores ==
    {Data(1, TRUE, 1, 1, None), [Data(4, FALSE, 1, 2, None) EXCEPT !.kyc_verified = TRUE]}

MCIdentityProofs == [vk : {vk1}, commitment : {c1, c2}, wallet : {w1, w2}]

Receipt(id, bucket, c, len) ==
    [image |-> id, journal_len |-> len,
     journal |-> [risk_bucket |-> bucket, identity_commitment |-> c,
                  distilled_model_hash |-> m1]]

\* The whitelisted image proves buckets 3 and 4; another image proves bucket 0,
\* and so does a journal of the wrong length.
MCReceipts ==
    {Receipt(image1, 3, c1, 72), Receipt(image1, 4, c1, 72), Receipt(image1, 4, c2, 72),
     Receipt(image2, 0, c1, 72), Receipt(image1, 0, c1, 10)}

MCModelProofs == {[vk |-> mvk1], [vk |-> vk1]}
=============================================================================
