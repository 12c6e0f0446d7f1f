-------------------------- MODULE RiskAttestation --------------------------
(***************************************************************************)
(* contracts/risk-attestation/src/lib.rs: one attestation per wallet,      *)
(* written once by the hash and proof paths and replaced only by a newer   *)
(* RISC Zero receipt, and the read that resolves it to the group's score.  *)
(* Every write is signed by the wallet and by a registered attestor.       *)
(***************************************************************************)
EXTENDS WalletIdentity

CONSTANTS
    Images,         \* guest images the admin may whitelist
    Receipts,       \* the receipts in existence: [image, journal, journal_len]
    ModelVKs,       \* Groth16 keys the admin may register for a model
    ModelProofs,    \* the model proofs in existence: [vk]
    SubmittedData   \* the attestations wallets and attestors co-sign

Journal == [risk_bucket : Nat, identity_commitment : Commitments,
            distilled_model_hash : Models]

ASSUME RiskAssumption ==
    /\ \A r \in Receipts : r.journal \in Journal
    /\ SubmittedData \subseteq AttestationData
    /\ None \notin Images \cup ModelVKs \cup Journal

VARIABLES
    raRegistrySet,      \* DataKey::AttestorRegistry is stored
    walletIdentitySet,  \* DataKey::WalletIdentityContract is stored
    risc0ImageId,       \* DataKey::Risc0ImageId
    verificationKey,    \* DataKey::VerificationKey(m)
    attestation         \* DataKey::Attestation(w)

raConfigVars == <<raRegistrySet, walletIdentitySet, risc0ImageId, verificationKey>>
raVars == <<raConfigVars, attestation>>

RATypeOK ==
    /\ raRegistrySet \in BOOLEAN
    /\ walletIdentitySet \in BOOLEAN
    /\ risc0ImageId \in Images \cup {None}
    /\ verificationKey \in [Models -> ModelVKs \cup {None}]
    /\ attestation \in [Wallets -> AttestationData \cup {None}]

NothingAttested ==
    /\ verificationKey = [m \in Models |-> None]
    /\ attestation = [w \in Wallets |-> None]

RAInit ==
    /\ raRegistrySet = FALSE
    /\ walletIdentitySet = FALSE
    /\ risc0ImageId = None
    /\ NothingAttested
-----------------------------------------------------------------------------
(* Configuration, by the admin.                                            *)

SetAttestorRegistryRA ==
    /\ raRegistrySet' = TRUE
    /\ UNCHANGED <<walletIdentitySet, risc0ImageId, verificationKey, attestation>>

SetWalletIdentity ==
    /\ walletIdentitySet' = TRUE
    /\ UNCHANGED <<raRegistrySet, risc0ImageId, verificationKey, attestation>>

SetRisc0ImageId(id) ==
    /\ risc0ImageId' = id
    /\ UNCHANGED <<raRegistrySet, walletIdentitySet, verificationKey, attestation>>

RegisterVerificationKey(m, vk) ==
    /\ verificationKey' = [verificationKey EXCEPT ![m] = vk]
    /\ UNCHANGED <<raRegistrySet, walletIdentitySet, risc0ImageId, attestation>>

(* Guards and writes shared by the three attest calls.                     *)
AttestorAllowed(data) == raRegistrySet /\ is_attestor(data.attestor)

Store(w, data) ==
    /\ attestation' = [attestation EXCEPT ![w] = data]
    /\ UNCHANGED raConfigVars

Fresh_OrEqual(w, data) ==       \* mutant: < instead of <= in the stale test
    attestation[w] # None => data.issued_at >= attestation[w].issued_at

Fresh(w, data) == attestation[w] # None => data.issued_at > attestation[w].issued_at

BindJournal_KeepBucket(data, j) ==      \* mutant: risk_bucket left to the caller
    [data EXCEPT !.identity_commitment = j.identity_commitment,
                 !.distilled_model_hash = j.distilled_model_hash,
                 !.zk_verified = TRUE]

(* What attest_with_risc0 stores: the caller's metadata with every proven  *)
(* field overwritten from the journal.                                     *)
BindJournal(data, j) ==
    [data EXCEPT !.risk_bucket = j.risk_bucket,
                 !.identity_commitment = j.identity_commitment,
                 !.distilled_model_hash = j.distilled_model_hash,
                 !.zk_verified = TRUE]

AttestWithRisc0(w, data, receipt) ==
    /\ Fresh(w, data)
    /\ AttestorAllowed(data)
    /\ risc0ImageId # None
    /\ verify_receipt(receipt, risc0ImageId)
    /\ parse_journal(receipt) # None
    /\ Store(w, BindJournal(data, parse_journal(receipt)))

AttestWithHash_Spoof(w, data) ==        \* mutant: the caller's zk_verified is kept
    /\ attestation[w] = None
    /\ AttestorAllowed(data)
    /\ Store(w, data)

AttestWithHash(w, data) ==
    /\ attestation[w] = None
    /\ AttestorAllowed(data)
    /\ Store(w, [data EXCEPT !.zk_verified = FALSE])

AttestWithProof(w, data, proof) ==
    /\ attestation[w] = None
    /\ AttestorAllowed(data)
    /\ LET vk == verificationKey[data.distilled_model_hash] IN
       /\ vk # None => verify_groth16(vk, proof)
       /\ Store(w, [data EXCEPT !.zk_verified = (vk # None)])

(* get_attestation: the record a consumer reads for a wallet.              *)
get_attestation_best(w) ==      \* mutant: the better of own and group score
    LET own == attestation[w]
        group == get_group_attestation(own.identity_commitment)
    IN  IF own = None \/ own.identity_commitment = None \/ group = None THEN own
        ELSE IF own.risk_bucket < group.risk_bucket
             THEN [own EXCEPT !.kyc_verified = group.kyc_verified]
             ELSE group

get_attestation(w) ==
    LET own == attestation[w]
        group == get_group_attestation(own.identity_commitment)
    IN  IF /\ own # None
           /\ own.identity_commitment # None
           /\ walletIdentitySet
           /\ group # None
        THEN group
        ELSE own

RANext ==
    \/ SetAttestorRegistryRA
    \/ SetWalletIdentity
    \/ \E id \in Images : SetRisc0ImageId(id)
    \/ \E m \in Models, vk \in ModelVKs : RegisterVerificationKey(m, vk)
    \/ \E w \in Wallets, data \in SubmittedData :
           \/ \E r \in Receipts : AttestWithRisc0(w, data, r)
           \/ AttestWithHash(w, data)
           \/ \E p \in ModelProofs : AttestWithProof(w, data, p)
-----------------------------------------------------------------------------
(* A zk_verified record shows either exactly what a run of a whitelisted    *)
(* image proved (the caller's own bucket, commitment and model discarded),  *)
(* or a model that has a registered key; a receipt of another image or with *)
(* a journal of another length never gets there.                            *)
ZkRecordIsProven ==
    \A w \in Wallets :
        (attestation[w] # None /\ attestation[w].zk_verified) =>
            \/ verificationKey[attestation[w].distilled_model_hash] # None
            \/ \E r \in Receipts :
                  /\ r.image \in Images /\ r.journal_len = 72
                  /\ r.journal.risk_bucket = attestation[w].risk_bucket
                  /\ r.journal.identity_commitment = attestation[w].identity_commitment
                  /\ r.journal.distilled_model_hash = attestation[w].distilled_model_hash

(* A stored score is never lost, and what replaces it is a receipt-backed   *)
(* record issued strictly later: no order of the three calls brings an      *)
(* older score back ("an older (possibly better) signed attestation cannot  *)
(* be replayed").                                                           *)
OnlyNewerReplaces ==
    [][\A w \in Wallets :
          (attestation[w] # None /\ attestation'[w] # attestation[w]) =>
              /\ attestation'[w] # None
              /\ attestation'[w].zk_verified
              /\ attestation'[w].issued_at > attestation[w].issued_at]_attestation
=============================================================================
