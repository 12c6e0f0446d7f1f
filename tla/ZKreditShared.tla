--------------------------- MODULE ZKreditShared ---------------------------
(***************************************************************************)
(* The types every contract shares (contracts/shared/src): the attestation *)
(* record, and the two verifiers the contracts call.  Cryptography is      *)
(* modelled by what it promises: a proof verifies under a key, and a       *)
(* receipt under an image id, exactly when it was produced for that key or *)
(* image, and its public values are then the ones it was produced with.    *)
(*                                                                         *)
(* The fields of AttestationData left out (wallet, confidence,             *)
(* full_model_hash, proof_or_hash) are stored and returned without any     *)
(* contract looking at them; confidence travels with risk_bucket.          *)
(***************************************************************************)
EXTENDS Naturals, FiniteSets

CONSTANTS
    Wallets,        \* Stellar accounts that can be attested
    Attestors,      \* accounts the admin may register as attestors
    Commitments,    \* Poseidon(secret) values: the keys of identity groups
    Models,         \* distilled_model_hash values
    None            \* the absent value of an Option

AttestationData ==
    [risk_bucket : Nat, distilled_model_hash : Models, zk_verified : BOOLEAN,
     attestor : Attestors, issued_at : Nat, expires_at : Nat,
     kyc_verified : BOOLEAN, identity_commitment : Commitments \cup {None}]

ASSUME SharedAssumption ==
    /\ IsFiniteSet(Wallets)
    /\ None \notin Commitments
    /\ None \notin AttestationData

(* groth16::verify_groth16: a proof carries the key it was made for.       *)
verify_groth16(vk, proof) == proof.vk = vk

(* risc0::verify_receipt: a receipt carries the image whose run it proves. *)
verify_receipt(receipt, imageId) == receipt.image = imageId

(* risc0::parse_journal: a journal that is not 72 bytes long parses to     *)
(* None; otherwise the four proven fields are read out of it.              *)
parse_journal(receipt) == IF receipt.journal_len = 72 THEN receipt.journal ELSE None
=============================================================================
