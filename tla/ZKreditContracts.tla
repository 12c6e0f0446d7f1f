------------------------- MODULE ZKreditContracts -------------------------
(***************************************************************************)
(* The four contracts on one ledger.  A transaction is one step of one     *)
(* contract; cross-contract calls are reads inside that step.  The         *)
(* attestors are the API's: they certify KYC for a group only when it is   *)
(* bound (api/services/group_rescore.py:74-77), and never on a wallet's    *)
(* own record (api/contract_stub.py:176).                                  *)
(***************************************************************************)
EXTENDS MockLendingPool

ASSUME OwnRecordsUncertified == \A data \in SubmittedData : ~data.kyc_verified

vars == <<identityVars, raVars, poolVars>>

TypeOK == WITypeOK /\ RATypeOK /\ PoolTypeOK

Init == IdentityInit /\ RAInit /\ PoolInit

(* The ledger as infra/scripts/deploy-testnet.sh leaves it: contracts      *)
(* wired, attestors authorized, the identity key and the guest image set.  *)
DeployedInit ==
    /\ attestor = [a \in Attestors |-> TRUE]
    /\ wiRegistrySet = TRUE /\ raRegistrySet = TRUE
    /\ walletIdentitySet = TRUE /\ riskAttestationSet = TRUE
    /\ identityVk \in IdentityVKs
    /\ risc0ImageId \in Images
    /\ now = 0
    /\ GroupsInit
    /\ NothingAttested

(* group_rescore.py:74-77: the row the API reads the KYC status from has a  *)
(* bind_tx_hash only after bind_kyc succeeded for this commitment.          *)
AttestedScore(a, c, data) ==
    (data.kyc_verified => is_kyc_verified(c)) /\ UpdateGroupScore(a, c, data)

IdentityCalls ==
    \/ WICalls
    \/ \E a \in Attestors, c \in Commitments, data \in GroupScores :
           AttestedScore(a, c, data)

Next ==
    \/ RegistryNext /\ UNCHANGED <<wiVars, raVars, poolVars>>
    \/ IdentityCalls /\ UNCHANGED <<attestor, raVars, poolVars>>
    \/ RANext /\ UNCHANGED <<identityVars, poolVars>>
    \/ PoolNext /\ UNCHANGED <<identityVars, raVars>>

Spec == Init /\ [][Next]_vars

DeployedSpec == DeployedInit /\ [][Next]_vars
-----------------------------------------------------------------------------
(* Real credit always traces to a verified human: whoever gets more than    *)
(* thin-file terms has a record whose commitment some KYC nullifier is      *)
(* bound to, and the score that priced it is the group's, still valid.      *)
RealTermsNeedBoundHuman ==
    \A w \in Wallets : RealTerms(w) =>
        LET c == attestation[w].identity_commitment IN
        /\ \E n \in Nullifiers : c # None /\ nullifierCommitment[n] = c
        /\ identityAttestation[c] # None /\ now <= identityAttestation[c].expires_at

(* One human, one price: wallets whose records carry the commitment a human *)
(* is bound to are offered the same terms, whatever their own scores, so a  *)
(* bad wallet cannot be hidden behind a better one.                         *)
OneHumanOneOffer ==
    \A n \in Nullifiers, w, v \in Wallets :
        ( /\ nullifierCommitment[n] # None
          /\ attestation[w] # None /\ attestation[v] # None
          /\ attestation[w].identity_commitment = nullifierCommitment[n]
          /\ attestation[v].identity_commitment = nullifierCommitment[n] )
            => get_loan_terms(w) = get_loan_terms(v)

(* Thin-file terms are "strictly worse than any legitimate KYC'd history":  *)
(* every offer the pool makes on a real score beats them in principal, in   *)
(* collateral and in rate, an unproven VERY_HIGH included.                  *)
RealTermsBeatThinFile ==
    \A w \in Wallets : RealTerms(w) =>
        /\ get_loan_terms(w).max_principal > thin_file_terms.max_principal
        /\ get_loan_terms(w).collateral_ratio_basis_points
               < thin_file_terms.collateral_ratio_basis_points
        /\ get_loan_terms(w).apr_basis_points < thin_file_terms.apr_basis_points
=============================================================================
