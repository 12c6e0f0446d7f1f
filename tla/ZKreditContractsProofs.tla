---------------------- MODULE ZKreditContractsProofs ----------------------
(***************************************************************************)
(* Proofs about the four contracts together, from a fresh ledger or from a *)
(* deployed one.  The invariant that makes the credit gate sound adds two  *)
(* facts to IdentityInv: a wallet's own record never claims KYC, and a     *)
(* group's record claims it only for a bound group.                        *)
(***************************************************************************)
EXTENDS ZKreditContracts, WalletIdentityRefinement

OwnNeverCertified ==
    \A w \in Wallets : attestation[w] # None => ~attestation[w].kyc_verified

GroupKycIsBound ==
    \A c \in Commitments :
        (identityAttestation[c] # None /\ identityAttestation[c].kyc_verified)
            => is_kyc_verified(c)

ContractsInv == IdentityInv /\ RATypeOK /\ GroupKycIsBound /\ OwnNeverCertified
-----------------------------------------------------------------------------
LEMMA ContractsInit == Init \/ DeployedInit => ContractsInv
<1>1. ASSUME Init PROVE ContractsInv
  <2>1. IdentityInv
    BY <1>1, InitInv DEF Init
  <2>2. RATypeOK /\ GroupKycIsBound /\ OwnNeverCertified
    BY <1>1 DEF Init, IdentityInit, WIInit, GroupsInit, RAInit, NothingAttested,
        RATypeOK, GroupKycIsBound, OwnNeverCertified
  <2>3. QED
    BY <2>1, <2>2 DEF ContractsInv
<1>2. ASSUME DeployedInit PROVE ContractsInv
  <2> USE <1>2 DEF DeployedInit, GroupsInit, NothingAttested
  <2>1. WITypeOK /\ RATypeOK
    BY DEF WITypeOK, RegistryTypeOK, RATypeOK
  <2>2. MemberCountExact
    <3>1. \A c \in Commitments : Members(c) = {}
      BY SharedAssumption DEF Members
    <3>2. QED
      BY <3>1, FS_EmptySet DEF MemberCountExact
  <2>3. ScoredGroupHasMember /\ KycFlagBacked
    BY SharedAssumption DEF ScoredGroupHasMember, KycFlagBacked
  <2>4. GroupKycIsBound /\ OwnNeverCertified
    BY DEF GroupKycIsBound, OwnNeverCertified
  <2>5. QED
    BY <2>1, <2>2, <2>3, <2>4 DEF ContractsInv, IdentityInv
<1>3. QED
  BY <1>1, <1>2

(* The identity half of a step is a step of IdentitySpec.                   *)
LEMMA IdentityHalf == [Next]_vars => [IdentityNext]_identityVars
<1> SUFFICES ASSUME [Next]_vars PROVE [IdentityNext]_identityVars
  OBVIOUS
<1>1. CASE RegistryNext /\ UNCHANGED <<wiVars, raVars, poolVars>>
  BY <1>1 DEF IdentityNext
<1>2. CASE IdentityCalls /\ UNCHANGED <<attestor, raVars, poolVars>>
  BY <1>2 DEF IdentityNext, IdentityCalls, AttestedScore, WINext
<1>3. CASE UNCHANGED identityVars
  BY <1>3
<1>4. QED
  BY <1>1, <1>2, <1>3 DEF Next, vars

(* Steps that touch a stored group score keep it backed by the KYC flag.    *)
LEMMA GroupKycStep ==
    ASSUME ContractsInv, [Next]_vars
    PROVE  GroupKycIsBound'
<1> USE DEF ContractsInv, IdentityInv
<1>1. CASE UNCHANGED <<identityAttestation, kycVerified>>
  BY <1>1 DEF GroupKycIsBound, is_kyc_verified
<1>2. ASSUME NEW w \in Wallets, LeaveGroup(w) PROVE GroupKycIsBound'
  <2>1. kycVerified' = kycVerified
    BY <1>2 DEF LeaveGroup, kycVars
  <2>2. \A c \in Commitments : identityAttestation'[c] \in {None, identityAttestation[c]}
    <3>1. PICK d \in Commitments : walletCommitment[w] = d
      BY <1>2 DEF LeaveGroup, WITypeOK
    <3>2. \/ identityAttestation' = identityAttestation
          \/ identityAttestation' = [identityAttestation EXCEPT ![d] = None]
      BY <1>2, <3>1 DEF LeaveGroup
    <3>3. QED
      BY <3>2 DEF WITypeOK
  <2>3. QED
    BY <2>1, <2>2 DEF GroupKycIsBound, is_kyc_verified
<1>3. ASSUME NEW a \in Attestors, NEW c \in Commitments, NEW n \in Nullifiers,
             nullifierCommitment[n] = None, BindKyc(a, c, n)
      PROVE  GroupKycIsBound'
  <2>1. /\ kycVerified' = [kycVerified EXCEPT ![c] = TRUE]
        /\ \A d \in Commitments \ {c} : identityAttestation'[d] = identityAttestation[d]
    BY <1>3, SharedAssumption DEF BindKyc, WITypeOK
  <2>2. QED
    BY <2>1 DEF GroupKycIsBound, is_kyc_verified, WITypeOK
<1>4. ASSUME NEW a \in Attestors, NEW c \in Commitments, NEW data \in GroupScores,
             AttestedScore(a, c, data)
      PROVE  GroupKycIsBound'
  <2>1. /\ data.kyc_verified => kycVerified[c]
        /\ identityAttestation' = [identityAttestation EXCEPT ![c] = data]
        /\ kycVerified' = kycVerified
    BY <1>4 DEF AttestedScore, UpdateGroupScore, is_kyc_verified, kycVars
  <2>2. QED
    BY <2>1 DEF GroupKycIsBound, is_kyc_verified, WITypeOK
<1>5. ASSUME IdentityCalls PROVE GroupKycIsBound'
  <2>1. CASE SetAttestorRegistryWI
    BY <1>1, <2>1 DEF SetAttestorRegistryWI, groupVars, kycVars
  <2>2. ASSUME NEW vk \in IdentityVKs, SetIdentityVk(vk) PROVE GroupKycIsBound'
    BY <1>1, <2>2 DEF SetIdentityVk, groupVars, kycVars
  <2>3. ASSUME NEW w \in Wallets, NEW c \in Commitments,
               NEW p \in IdentityProofs \cup {None}, RegisterWallet(w, c, p)
        PROVE  GroupKycIsBound'
    BY <1>1, <2>3 DEF RegisterWallet, kycVars
  <2>4. ASSUME NEW a \in Attestors, NEW c \in Commitments, NEW n \in Nullifiers,
               BindKyc(a, c, n)
        PROVE  GroupKycIsBound'
    <3>1. CASE nullifierCommitment[n] = None
      BY <1>3, <2>4, <3>1
    <3>2. CASE nullifierCommitment[n] # None
      BY <1>1, <2>4, <3>2 DEF BindKyc, wiVars, groupVars, kycVars
    <3>3. QED
      BY <3>1, <3>2
  <2>5. QED
    BY <1>2, <1>4, <1>5, <2>1, <2>2, <2>3, <2>4 DEF IdentityCalls, WICalls
<1>6. QED
  BY <1>1, <1>5 DEF Next, vars, identityVars, wiVars, groupVars, kycVars

(* The three attest calls keep records well formed and uncertified.         *)
LEMMA StoreTyped ==
    ASSUME RATypeOK, OwnNeverCertified, NEW w \in Wallets, NEW data \in AttestationData,
           ~data.kyc_verified, Store(w, data)
    PROVE  RATypeOK' /\ OwnNeverCertified'
BY DEF Store, raConfigVars, RATypeOK, OwnNeverCertified

LEMMA RiskStep ==
    ASSUME RATypeOK, OwnNeverCertified, RANext
    PROVE  RATypeOK' /\ OwnNeverCertified'
<1>1. CASE SetAttestorRegistryRA \/ SetWalletIdentity
  BY <1>1 DEF SetAttestorRegistryRA, SetWalletIdentity, RATypeOK, OwnNeverCertified
<1>2. ASSUME NEW id \in Images, SetRisc0ImageId(id) PROVE RATypeOK' /\ OwnNeverCertified'
  BY <1>2 DEF SetRisc0ImageId, RATypeOK, OwnNeverCertified
<1>3. ASSUME NEW m \in Models, NEW vk \in ModelVKs, RegisterVerificationKey(m, vk)
      PROVE  RATypeOK' /\ OwnNeverCertified'
  BY <1>3 DEF RegisterVerificationKey, RATypeOK, OwnNeverCertified
<1>4. ASSUME NEW w \in Wallets, NEW data \in SubmittedData, NEW r \in Receipts,
             AttestWithRisc0(w, data, r)
      PROVE  RATypeOK' /\ OwnNeverCertified'
  <2>1. parse_journal(r) \in Journal
    BY <1>4, RiskAssumption DEF AttestWithRisc0, parse_journal
  <2>2. PICK j \in Journal : Store(w, BindJournal(data, j))
    BY <1>4, <2>1 DEF AttestWithRisc0
  <2>3. data \in AttestationData /\ ~data.kyc_verified
    BY RiskAssumption, OwnRecordsUncertified
  <2>4. BindJournal(data, j) \in AttestationData /\ ~BindJournal(data, j).kyc_verified
    BY <2>3 DEF BindJournal, Journal, AttestationData
  <2>5. QED
    BY <2>2, <2>4, StoreTyped
<1>5. ASSUME NEW w \in Wallets, NEW data \in SubmittedData, NEW zk \in BOOLEAN,
             Store(w, [data EXCEPT !.zk_verified = zk])
      PROVE  RATypeOK' /\ OwnNeverCertified'
  <2>1. data \in AttestationData /\ ~data.kyc_verified
    BY RiskAssumption, OwnRecordsUncertified
  <2>2. /\ [data EXCEPT !.zk_verified = zk] \in AttestationData
        /\ ~[data EXCEPT !.zk_verified = zk].kyc_verified
    BY <2>1 DEF AttestationData
  <2>3. QED
    BY <1>5, <2>2, StoreTyped
<1>6. ASSUME NEW w \in Wallets, NEW data \in SubmittedData, AttestWithHash(w, data)
      PROVE  RATypeOK' /\ OwnNeverCertified'
  BY <1>5, <1>6 DEF AttestWithHash
<1>7. ASSUME NEW w \in Wallets, NEW data \in SubmittedData, NEW p \in ModelProofs,
             AttestWithProof(w, data, p)
      PROVE  RATypeOK' /\ OwnNeverCertified'
  BY <1>5, <1>7 DEF AttestWithProof
<1>8. QED
  BY <1>1, <1>2, <1>3, <1>4, <1>6, <1>7 DEF RANext

LEMMA ContractsStep == ContractsInv /\ [Next]_vars => ContractsInv'
<1> SUFFICES ASSUME ContractsInv, [Next]_vars PROVE ContractsInv'
  OBVIOUS
<1>1. IdentityInv'
  BY IdentityHalf, NextInv DEF ContractsInv
<1>2. GroupKycIsBound'
  BY GroupKycStep
<1>3. RATypeOK' /\ OwnNeverCertified'
  <2>1. CASE RANext
    BY <2>1, RiskStep DEF ContractsInv
  <2>2. CASE UNCHANGED raVars
    BY <2>2 DEF raVars, raConfigVars, ContractsInv, RATypeOK, OwnNeverCertified
  <2>3. QED
    BY <2>1, <2>2 DEF Next, vars
<1>4. QED
  BY <1>1, <1>2, <1>3 DEF ContractsInv

(* The invariant holds in every reachable state of either deployment.       *)
THEOREM ContractsInvariant == Spec \/ DeployedSpec => []ContractsInv
BY ContractsInit, ContractsStep, PTL DEF Spec, DeployedSpec

(* The contracts around it keep WalletIdentity's promise: the ledger, fresh *)
(* or deployed, implements the abstract identity groups.                    *)
THEOREM ContractsRefineGroups == Spec \/ DeployedSpec => ImplementsIdentityGroups
<1>1. Init \/ DeployedInit => Abstract!Init
  BY InitMaps DEF Init, IdentityInit, WIInit, DeployedInit
<1>2. ContractsInv /\ [Next]_vars => [Abstract!Next]_(Abstract!absVars)
  BY IdentityHalf, StepMaps DEF ContractsInv
<1>3. QED
  BY <1>1, <1>2, ContractsInvariant, PTL
     DEF Spec, DeployedSpec, ImplementsIdentityGroups, Abstract!Spec
-----------------------------------------------------------------------------
(* A record that passes the credit gate is the group's, read through a      *)
(* bound commitment: a wallet's own record never passes.                    *)
LEMMA GateNeedsGroup ==
    ASSUME ContractsInv, NEW w \in Wallets, CreditGate(get_attestation(w))
    PROVE  LET c == attestation[w].identity_commitment IN
           /\ attestation[w] # None
           /\ c \in Commitments
           /\ identityAttestation[c] # None
           /\ get_attestation(w) = get_group_attestation(c)
           /\ kycVerified[c]
           /\ now <= identityAttestation[c].expires_at
<1> USE DEF ContractsInv, IdentityInv
<1>1. attestation[w] # None
  BY DEF CreditGate, get_attestation
<1>2. PICK own \in AttestationData : attestation[w] = own
  BY <1>1 DEF RATypeOK
<1>3. ~own.kyc_verified
  BY <1>1, <1>2 DEF OwnNeverCertified
<1>4. /\ own.identity_commitment # None
      /\ get_attestation(w) = get_group_attestation(own.identity_commitment)
  BY <1>2, <1>3 DEF CreditGate, get_attestation
<1>5. PICK c \in Commitments : own.identity_commitment = c
  BY <1>2, <1>4 DEF AttestationData
<1>6. get_group_attestation(c) # None
  BY <1>4, <1>5 DEF CreditGate
<1>7. identityAttestation[c] # None
  BY <1>6 DEF get_group_attestation
<1>8. PICK g \in AttestationData : identityAttestation[c] = g
  BY <1>7 DEF WITypeOK
<1>9. kycVerified[c]
  <2>1. CASE ~kycVerified[c]
    <3>1. get_group_attestation(c) = g
      BY <1>8, <2>1 DEF get_group_attestation, is_kyc_verified
    <3>2. g.kyc_verified
      BY <1>4, <1>5, <3>1 DEF CreditGate
    <3>3. QED
      BY <1>7, <1>8, <3>2 DEF GroupKycIsBound, is_kyc_verified
  <2>2. QED
    BY <2>1 DEF WITypeOK
<1>10. get_group_attestation(c) = [g EXCEPT !.kyc_verified = TRUE]
  BY <1>7, <1>8, <1>9 DEF get_group_attestation, is_kyc_verified
<1>11. now <= g.expires_at
  <2>1. [g EXCEPT !.kyc_verified = TRUE].expires_at = g.expires_at
    BY DEF AttestationData
  <2>2. QED
    BY <1>4, <1>5, <1>10, <2>1 DEF CreditGate
<1>12. QED
  BY <1>1, <1>2, <1>4, <1>5, <1>7, <1>8, <1>9, <1>11

(* Real terms are only ever quoted behind the gate.                         *)
LEMMA RealTermsGated ==
    ASSUME NEW w \in Wallets, RealTerms(w)
    PROVE  /\ CreditGate(get_attestation(w))
           /\ get_loan_terms(w) = terms_from_bucket(get_attestation(w))
BY DEF RealTerms, get_loan_terms

(* Credit beyond thin-file terms always traces to a human bound to the      *)
(* commitment the record carries, and to a group score still valid.         *)
THEOREM RealCreditNeedsBoundHuman == Spec \/ DeployedSpec => []RealTermsNeedBoundHuman
<1>1. ContractsInv => RealTermsNeedBoundHuman
  <2> SUFFICES ASSUME ContractsInv, NEW w \in Wallets, RealTerms(w)
               PROVE  LET c == attestation[w].identity_commitment IN
                      /\ \E n \in Nullifiers : c # None /\ nullifierCommitment[n] = c
                      /\ identityAttestation[c] # None
                      /\ now <= identityAttestation[c].expires_at
    BY DEF RealTermsNeedBoundHuman
  <2>1. CreditGate(get_attestation(w))
    BY RealTermsGated
  <2>2. PICK c \in Commitments : attestation[w].identity_commitment = c
    BY <2>1, GateNeedsGroup
  <2>3. kycVerified[c] /\ identityAttestation[c] # None
            /\ now <= identityAttestation[c].expires_at
    BY <2>1, <2>2, GateNeedsGroup
  <2>4. \E n \in Nullifiers : nullifierCommitment[n] = c
    BY <2>3 DEF ContractsInv, IdentityInv, KycFlagBacked
  <2>5. QED
    BY <2>2, <2>3, <2>4, SharedAssumption
<1>2. QED
  BY <1>1, ContractsInvariant, PTL

(* Wallets whose records carry one human's commitment are quoted the same   *)
(* terms, whatever each scored alone.                                       *)
THEOREM OneOfferPerHuman == Spec \/ DeployedSpec => []OneHumanOneOffer
<1>1. ContractsInv => OneHumanOneOffer
  <2> SUFFICES ASSUME ContractsInv, NEW n \in Nullifiers, NEW w \in Wallets,
                      NEW v \in Wallets, nullifierCommitment[n] # None,
                      attestation[w] # None, attestation[v] # None,
                      attestation[w].identity_commitment = nullifierCommitment[n],
                      attestation[v].identity_commitment = nullifierCommitment[n]
               PROVE  get_loan_terms(w) = get_loan_terms(v)
    BY DEF OneHumanOneOffer
  <2>1. ASSUME NEW x \in {w, v}, get_attestation(x) # get_group_attestation(nullifierCommitment[n])
        PROVE  ~CreditGate(get_attestation(x))
    BY <2>1, GateNeedsGroup
  <2>2. CASE get_attestation(w) = get_attestation(v)
    BY <2>2 DEF get_loan_terms
  <2>3. CASE get_attestation(w) # get_attestation(v)
    <3>1. get_attestation(w) = attestation[w] /\ get_attestation(v) = attestation[v]
      BY <2>3 DEF get_attestation
    <3>2. ~CreditGate(get_attestation(w)) /\ ~CreditGate(get_attestation(v))
      BY <3>1 DEF ContractsInv, OwnNeverCertified, CreditGate
    <3>3. QED
      BY <3>2 DEF get_loan_terms
  <2>4. QED
    BY <2>2, <2>3
<1>2. QED
  BY <1>1, ContractsInvariant, PTL

(* Every real offer beats the thin-file one on all three terms, for every   *)
(* bucket an attestation can hold.                                          *)
THEOREM RealOffersBeatThinFile == Spec \/ DeployedSpec => []RealTermsBeatThinFile
<1>1. ASSUME NEW att
      PROVE  /\ Collateral(att.risk_bucket) \in {12000, 13500, 15000, 17500, 20000}
             /\ BaseApr(att.risk_bucket) \in {800, 1000, 1500, 2200, 3000}
  BY DEF Collateral, BaseApr
<1>2. RealTermsBeatThinFile
  <2> SUFFICES ASSUME NEW w \in Wallets, RealTerms(w)
               PROVE  /\ get_loan_terms(w).max_principal > thin_file_terms.max_principal
                      /\ get_loan_terms(w).collateral_ratio_basis_points
                             < thin_file_terms.collateral_ratio_basis_points
                      /\ get_loan_terms(w).apr_basis_points
                             < thin_file_terms.apr_basis_points
    BY DEF RealTermsBeatThinFile
  <2>1. PICK att : get_loan_terms(w) = terms_from_bucket(att)
    BY RealTermsGated
  <2>2. QED
    BY <1>1, <2>1 DEF terms_from_bucket, thin_file_terms, Offer
<1>3. QED
  BY <1>2, PTL
-----------------------------------------------------------------------------
(* Each attest call keeps every zk_verified record proven: the risc0 path   *)
(* by its receipt, the proof path by the registered key, the hash path by   *)
(* never claiming it.                                                       *)
LEMMA Risc0KeepsProven ==
    ASSUME RATypeOK, ZkRecordIsProven, NEW w \in Wallets, NEW data \in SubmittedData,
           NEW r \in Receipts, AttestWithRisc0(w, data, r)
    PROVE  ZkRecordIsProven'
<1>1. r.image \in Images /\ r.journal_len = 72 /\ parse_journal(r) = r.journal
  BY DEF AttestWithRisc0, verify_receipt, parse_journal, RATypeOK
<1>2. PICK rec : rec = BindJournal(data, r.journal)
  OBVIOUS
<1>3. attestation' = [attestation EXCEPT ![w] = rec] /\ verificationKey' = verificationKey
  BY <1>1, <1>2 DEF AttestWithRisc0, Store, raConfigVars
<1>4. /\ rec.risk_bucket = r.journal.risk_bucket
      /\ rec.identity_commitment = r.journal.identity_commitment
      /\ rec.distilled_model_hash = r.journal.distilled_model_hash
  BY <1>2, RiskAssumption DEF BindJournal, AttestationData, Journal
<1>5. QED
  BY <1>1, <1>3, <1>4 DEF ZkRecordIsProven, RATypeOK

LEMMA HashKeepsProven ==
    ASSUME RATypeOK, ZkRecordIsProven, NEW w \in Wallets, NEW data \in SubmittedData,
           AttestWithHash(w, data)
    PROVE  ZkRecordIsProven'
<1>1. PICK rec : rec = [data EXCEPT !.zk_verified = FALSE]
  OBVIOUS
<1>2. ~rec.zk_verified
  BY <1>1, RiskAssumption DEF AttestationData
<1>3. attestation' = [attestation EXCEPT ![w] = rec] /\ verificationKey' = verificationKey
  BY <1>1 DEF AttestWithHash, Store, raConfigVars
<1>4. QED
  BY <1>2, <1>3 DEF ZkRecordIsProven, RATypeOK

LEMMA ProofKeepsProven ==
    ASSUME RATypeOK, ZkRecordIsProven, NEW w \in Wallets, NEW data \in SubmittedData,
           NEW p \in ModelProofs, AttestWithProof(w, data, p)
    PROVE  ZkRecordIsProven'
<1>1. PICK rec :
          rec = [data EXCEPT !.zk_verified =
                                 (verificationKey[data.distilled_model_hash] # None)]
  OBVIOUS
<1>2. rec.zk_verified => verificationKey[rec.distilled_model_hash] # None
  BY <1>1, RiskAssumption DEF AttestationData
<1>3. attestation' = [attestation EXCEPT ![w] = rec] /\ verificationKey' = verificationKey
  BY <1>1 DEF AttestWithProof, Store, raConfigVars
<1>4. QED
  BY <1>2, <1>3 DEF ZkRecordIsProven, RATypeOK

LEMMA ProvenStep ==
    ContractsInv /\ ZkRecordIsProven /\ [Next]_vars => ZkRecordIsProven'
<1> SUFFICES ASSUME RATypeOK, ZkRecordIsProven, [Next]_vars PROVE ZkRecordIsProven'
  BY DEF ContractsInv
<1>1. CASE UNCHANGED <<attestation, verificationKey>>
  BY <1>1 DEF ZkRecordIsProven
<1>2. ASSUME NEW m \in Models, NEW vk \in ModelVKs, RegisterVerificationKey(m, vk)
      PROVE  ZkRecordIsProven'
  <2>1. \A k \in Models : verificationKey[k] # None => verificationKey'[k] # None
    BY <1>2, RiskAssumption DEF RegisterVerificationKey, RATypeOK
  <2>2. attestation' = attestation
    BY <1>2 DEF RegisterVerificationKey
  <2>3. QED
    BY <2>1, <2>2 DEF ZkRecordIsProven, RATypeOK, AttestationData
<1>3. CASE RANext
  BY <1>1, <1>2, <1>3, Risc0KeepsProven, HashKeepsProven, ProofKeepsProven
     DEF RANext, SetAttestorRegistryRA, SetWalletIdentity, SetRisc0ImageId
<1>4. QED
  BY <1>1, <1>3 DEF Next, vars, raVars, raConfigVars

(* A record flagged zk_verified holds what some whitelisted run proved, or  *)
(* names a model with a registered key, for any receipts in circulation.    *)
THEOREM ZkRecordsAreProven == Spec \/ DeployedSpec => []ZkRecordIsProven
<1>1. Init \/ DeployedInit => ZkRecordIsProven
  BY DEF Init, DeployedInit, RAInit, NothingAttested, ZkRecordIsProven
<1>2. QED
  BY <1>1, ProvenStep, ContractsInvariant, PTL DEF Spec, DeployedSpec

(* A stored record only ever gives way to a proven one issued later.        *)
THEOREM ScoresOnlyMoveForward == Spec \/ DeployedSpec => OnlyNewerReplaces
<1> DEFINE Newer ==
        \A w \in Wallets :
            (attestation[w] # None /\ attestation'[w] # attestation[w]) =>
                /\ attestation'[w] # None
                /\ attestation'[w].zk_verified
                /\ attestation'[w].issued_at > attestation[w].issued_at
<1>1. ContractsInv /\ [Next]_vars => [Newer]_attestation
  <2> SUFFICES ASSUME RATypeOK, [Next]_vars, NEW v \in Wallets,
                      attestation[v] # None, attestation'[v] # attestation[v]
               PROVE  /\ attestation'[v] # None
                      /\ attestation'[v].zk_verified
                      /\ attestation'[v].issued_at > attestation[v].issued_at
    BY DEF ContractsInv
  <2>1. RANext
    BY DEF Next, vars, raVars
  <2>2. PICK w \in Wallets, data \in SubmittedData :
            \/ \E r \in Receipts : AttestWithRisc0(w, data, r)
            \/ AttestWithHash(w, data)
            \/ \E p \in ModelProofs : AttestWithProof(w, data, p)
    BY <2>1 DEF RANext, SetAttestorRegistryRA, SetWalletIdentity, SetRisc0ImageId,
        RegisterVerificationKey
  <2>3. \A rec : Store(w, rec) => v = w /\ attestation'[v] = rec
    BY DEF Store, RATypeOK
  <2>4. PICK r \in Receipts : AttestWithRisc0(w, data, r)
    BY <2>2, <2>3 DEF AttestWithHash, AttestWithProof
  <2>5. parse_journal(r) \in Journal
    BY <2>4, RiskAssumption DEF AttestWithRisc0, parse_journal
  <2>6. PICK j \in Journal : Store(w, BindJournal(data, j))
    BY <2>4, <2>5 DEF AttestWithRisc0
  <2>7. v = w /\ attestation'[v] = BindJournal(data, j)
    BY <2>3, <2>6
  <2>8. data.issued_at > attestation[v].issued_at
    BY <2>4, <2>7 DEF AttestWithRisc0, Fresh
  <2>9. data \in AttestationData
    BY RiskAssumption
  <2>10. /\ BindJournal(data, j) \in AttestationData
         /\ BindJournal(data, j).zk_verified
         /\ BindJournal(data, j).issued_at = data.issued_at
    BY <2>9 DEF BindJournal, AttestationData, Journal
  <2>11. QED
    BY <2>7, <2>8, <2>10, SharedAssumption
<1>2. QED
  BY <1>1, ContractsInvariant, PTL DEF Spec, DeployedSpec, OnlyNewerReplaces
=============================================================================
