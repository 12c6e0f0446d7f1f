-------------------------- MODULE MockLendingPool --------------------------
(***************************************************************************)
(* contracts/mock-lending-pool/src/lib.rs: the consumer.  get_loan_terms   *)
(* is a read of the two contracts below it at the ledger's time;           *)
(* execute_loan is a stub that changes nothing.                            *)
(***************************************************************************)
EXTENDS RiskAttestation

CONSTANT MaxNow     \* bound on the ledger clock

VARIABLES
    now,                    \* env.ledger().timestamp()
    riskAttestationSet      \* DataKey::RiskAttestation is stored

poolVars == <<now, riskAttestationSet>>

PoolTypeOK == now \in Nat /\ riskAttestationSet \in BOOLEAN

PoolInit == now = 0 /\ riskAttestationSet = FALSE

Tick == now < MaxNow /\ now' = now + 1 /\ UNCHANGED riskAttestationSet

SetRiskAttestation == riskAttestationSet' = TRUE /\ UNCHANGED now

PoolNext == Tick \/ SetRiskAttestation

Offer(principal, collateral, apr) ==
    [max_principal |-> principal, collateral_ratio_basis_points |-> collateral,
     apr_basis_points |-> apr]

thin_file_terms == Offer(100, 25000, 3500)

(* The price list: buckets 0 (VERY_LOW) to 4 (VERY_HIGH), MEDIUM for any   *)
(* other value, 200 basis points more for a score that is not proven.      *)
Collateral(bucket) == CASE bucket = 0 -> 12000 [] bucket = 1 -> 13500
                        [] bucket = 3 -> 17500 [] bucket = 4 -> 20000
                        [] OTHER -> 15000

BaseApr(bucket) == CASE bucket = 0 -> 800  [] bucket = 1 -> 1000
                     [] bucket = 3 -> 2200 [] bucket = 4 -> 3000
                     [] OTHER -> 1500

terms_from_bucket_surcharged(att) ==    \* mutant: the surcharge of 200 read as 2000
    Offer(1000, Collateral(att.risk_bucket),
          BaseApr(att.risk_bucket) + (IF att.zk_verified THEN 0 ELSE 2000))

terms_from_bucket(att) ==
    Offer(1000, Collateral(att.risk_bucket),
          BaseApr(att.risk_bucket) + (IF att.zk_verified THEN 0 ELSE 200))

CreditGate_NoExpiry(att) == att # None /\ att.kyc_verified      \* mutant

CreditGate(att) == att # None /\ att.kyc_verified /\ now <= att.expires_at

(* get_loan_terms: None is the AttestationNotFound error of a pool that is *)
(* not wired yet.                                                          *)
get_loan_terms(w) ==
    IF ~riskAttestationSet THEN None
    ELSE IF CreditGate(get_attestation(w)) THEN terms_from_bucket(get_attestation(w))
    ELSE thin_file_terms

RealTerms(w) == get_loan_terms(w) \notin {None, thin_file_terms}
=============================================================================
