-------------------------- MODULE WalletIdentity --------------------------
(***************************************************************************)
(* contracts/wallet-identity/src/lib.rs: identity groups, their shared     *)
(* score and the KYC nullifier registry.  A require_auth() on an address   *)
(* says whose action it is: a wallet registers and leaves for itself, an   *)
(* attestor scores and binds, the admin configures.                        *)
(***************************************************************************)
EXTENDS AttestorRegistry

CONSTANTS
    Nullifiers,     \* HMAC(pepper, country | document number): one per human
    IdentityVKs,    \* verification keys of the identity circuit
    IdentityProofs, \* the proofs in existence: [vk, commitment, wallet]
    GroupScores     \* the attestations attestors submit for a group

ASSUME IdentityAssumption ==
    /\ IdentityProofs \subseteq
           [vk : IdentityVKs, commitment : Commitments, wallet : Wallets]
    /\ GroupScores \subseteq AttestationData
    /\ None \notin IdentityVKs \cup IdentityProofs

VARIABLES
    wiRegistrySet,          \* DataKey::AttestorRegistry is stored
    identityVk,             \* DataKey::IdentityVerificationKey
    walletCommitment,       \* DataKey::WalletCommitment(w)
    memberCount,            \* DataKey::IdentityMemberCount(c); absent reads as 0
    identityAttestation,    \* DataKey::IdentityAttestation(c)
    nullifierCommitment,    \* DataKey::NullifierCommitment(n)
    kycVerified             \* DataKey::KycVerified(c)

configVars == <<wiRegistrySet, identityVk>>
groupVars  == <<walletCommitment, memberCount, identityAttestation>>
kycVars    == <<nullifierCommitment, kycVerified>>
wiVars     == <<configVars, groupVars, kycVars>>
identityVars == <<attestor, wiVars>>

WITypeOK ==
    /\ RegistryTypeOK
    /\ wiRegistrySet \in BOOLEAN
    /\ identityVk \in IdentityVKs \cup {None}
    /\ walletCommitment \in [Wallets -> Commitments \cup {None}]
    /\ memberCount \in [Commitments -> Nat]
    /\ identityAttestation \in [Commitments -> AttestationData \cup {None}]
    /\ nullifierCommitment \in [Nullifiers -> Commitments \cup {None}]
    /\ kycVerified \in [Commitments -> BOOLEAN]

GroupsInit ==
    /\ walletCommitment = [w \in Wallets |-> None]
    /\ memberCount = [c \in Commitments |-> 0]
    /\ identityAttestation = [c \in Commitments |-> None]
    /\ nullifierCommitment = [n \in Nullifiers |-> None]
    /\ kycVerified = [c \in Commitments |-> FALSE]

WIInit == wiRegistrySet = FALSE /\ identityVk = None /\ GroupsInit
-----------------------------------------------------------------------------
(* Configuration, by the admin.                                            *)

SetAttestorRegistryWI ==
    /\ wiRegistrySet' = TRUE
    /\ UNCHANGED <<identityVk, groupVars, kycVars>>

SetIdentityVk(vk) ==
    /\ identityVk' = vk
    /\ UNCHANGED <<wiRegistrySet, groupVars, kycVars>>

(* Guards shared by the calls below.                                       *)
require_registered_attestor(a) == wiRegistrySet /\ is_attestor(a)

ProofBinds_AnyWallet(p, w, c) ==        \* mutant: public input 1 unchecked
    p # None /\ verify_groth16(identityVk, p) /\ p.commitment = c

\* The proof verifies, public input 0 is the commitment being registered and
\* public input 1 is addr_to_fr of the wallet registering.
ProofBinds(p, w, c) ==
    p # None /\ verify_groth16(identityVk, p) /\ p.commitment = c /\ p.wallet = w

RegisterWallet_Conflict(w, c, p) ==     \* mutant: only AlreadyInGroup is tested
    /\ identityVk # None => ProofBinds(p, w, c)
    /\ walletCommitment[w] # c
    /\ walletCommitment' = [walletCommitment EXCEPT ![w] = c]
    /\ memberCount' = [memberCount EXCEPT ![c] = @ + 1]
    /\ UNCHANGED <<configVars, identityAttestation, kycVars>>

(* register_wallet: the two errors for a wallet that is already in a group *)
(* (AlreadyInGroup, CommitmentConflict) leave the same state: none.        *)
RegisterWallet(w, c, p) ==
    /\ identityVk # None => ProofBinds(p, w, c)
    /\ walletCommitment[w] = None
    /\ walletCommitment' = [walletCommitment EXCEPT ![w] = c]
    /\ memberCount' = [memberCount EXCEPT ![c] = @ + 1]
    /\ UNCHANGED <<configVars, identityAttestation, kycVars>>

UpdateGroupScore_NoMembers(a, c, data) ==       \* mutant: count == 0 unchecked
    /\ require_registered_attestor(a)
    /\ identityAttestation' = [identityAttestation EXCEPT ![c] = data]
    /\ UNCHANGED <<configVars, walletCommitment, memberCount, kycVars>>

UpdateGroupScore(a, c, data) ==
    /\ require_registered_attestor(a)
    /\ memberCount[c] # 0
    /\ identityAttestation' = [identityAttestation EXCEPT ![c] = data]
    /\ UNCHANGED <<configVars, walletCommitment, memberCount, kycVars>>

BindKyc_Rebind(a, c, n) ==      \* mutant: a bound nullifier moves to the new group
    /\ require_registered_attestor(a)
    /\ nullifierCommitment' = [nullifierCommitment EXCEPT ![n] = c]
    /\ kycVerified' = [kycVerified EXCEPT ![c] = TRUE]
    /\ UNCHANGED <<configVars, groupVars>>

(* bind_kyc: a nullifier bound to another commitment is an error, one      *)
(* bound to the same commitment returns Ok without a write.                *)
BindKyc(a, c, n) ==
    /\ require_registered_attestor(a)
    /\ \/ /\ nullifierCommitment[n] = c
          /\ UNCHANGED wiVars
       \/ /\ nullifierCommitment[n] = None
          /\ nullifierCommitment' = [nullifierCommitment EXCEPT ![n] = c]
          /\ kycVerified' = [kycVerified EXCEPT ![c] = TRUE]
          /\ identityAttestation' =
                 IF identityAttestation[c] = None THEN identityAttestation
                 ELSE [identityAttestation EXCEPT ![c].kyc_verified = TRUE]
          /\ UNCHANGED <<configVars, walletCommitment, memberCount>>

LeaveGroup_DropsKyc(w) ==       \* mutant: the last leaver also clears KycVerified
    /\ walletCommitment[w] # None
    /\ walletCommitment' = [walletCommitment EXCEPT ![w] = None]
    /\ LET c == walletCommitment[w] IN
       /\ memberCount' = [memberCount EXCEPT ![c] = @ - 1]
       /\ IF memberCount[c] > 1 THEN UNCHANGED <<identityAttestation, kycVerified>>
          ELSE /\ identityAttestation' = [identityAttestation EXCEPT ![c] = None]
               /\ kycVerified' = [kycVerified EXCEPT ![c] = FALSE]
    /\ UNCHANGED <<configVars, nullifierCommitment>>

LeaveGroup_KeepsWallet(w) ==    \* mutant: WalletCommitment is not removed
    /\ walletCommitment[w] # None
    /\ memberCount' = [memberCount EXCEPT ![walletCommitment[w]] = @ - 1]
    /\ UNCHANGED <<configVars, walletCommitment, identityAttestation, kycVars>>

(* leave_group: the count the code reads is Some(n) with n >= 1 for every  *)
(* group that has a member (MemberCountExact), so its unwrap_or(1) never   *)
(* stands in for a missing key.                                            *)
LeaveGroup(w) ==
    /\ walletCommitment[w] # None
    /\ walletCommitment' = [walletCommitment EXCEPT ![w] = None]
    /\ LET c == walletCommitment[w] IN
       \/ /\ memberCount[c] <= 1
          /\ memberCount' = [memberCount EXCEPT ![c] = 0]
          /\ identityAttestation' = [identityAttestation EXCEPT ![c] = None]
       \/ /\ memberCount[c] > 1
          /\ memberCount' = [memberCount EXCEPT ![c] = @ - 1]
          /\ UNCHANGED identityAttestation
    /\ UNCHANGED <<configVars, kycVars>>

is_kyc_verified(c) == kycVerified[c]

get_group_attestation_raw(c) == identityAttestation[c]  \* mutant: no KYC overlay

get_group_attestation(c) ==
    IF identityAttestation[c] # None /\ is_kyc_verified(c)
    THEN [identityAttestation[c] EXCEPT !.kyc_verified = TRUE]
    ELSE identityAttestation[c]

(* Everything but the attestor's re-score, which ZKreditContracts restricts *)
(* to what the API submits.                                                *)
WICalls ==
    \/ SetAttestorRegistryWI
    \/ \E vk \in IdentityVKs : SetIdentityVk(vk)
    \/ \E w \in Wallets, c \in Commitments, p \in IdentityProofs \cup {None} :
           RegisterWallet(w, c, p)
    \/ \E a \in Attestors, c \in Commitments, n \in Nullifiers : BindKyc(a, c, n)
    \/ \E w \in Wallets : LeaveGroup(w)

WINext ==
    \/ WICalls
    \/ \E a \in Attestors, c \in Commitments, data \in GroupScores :
           UpdateGroupScore(a, c, data)

(* The contract beside the registry it calls.                              *)
IdentityInit == RegistryInit /\ WIInit

IdentityNext ==
    \/ RegistryNext /\ UNCHANGED wiVars
    \/ WINext /\ UNCHANGED attestor

IdentitySpec == IdentityInit /\ [][IdentityNext]_identityVars
-----------------------------------------------------------------------------
Members(c) == {w \in Wallets : walletCommitment[w] = c}

(* The stored counter is the number of wallets whose commitment is c, after *)
(* any sequence of joins and leaves: leave_group deletes the group's score  *)
(* on the strength of this counter alone.                                   *)
MemberCountExact == \A c \in Commitments : memberCount[c] = Cardinality(Members(c))

(* A group score never outlives the group: no commitment without a member   *)
(* keeps a score that a wallet's own record could still resolve to.         *)
ScoredGroupHasMember ==
    \A c \in Commitments : identityAttestation[c] # None => Members(c) # {}

(* The KYC flag of a group and the nullifier registry agree: a group is     *)
(* verified exactly when some human's nullifier is bound to it, also after  *)
(* every member has left.                                                   *)
KycFlagBacked ==
    \A c \in Commitments :
        kycVerified[c] <=> \E n \in Nullifiers : nullifierCommitment[n] = c

(* "KYC, once bound, is not silently dropped by a re-score": while the      *)
(* group has a score, every read of it says verified.                       *)
BoundKycIsRead ==
    \A n \in Nullifiers :
        LET c == nullifierCommitment[n] IN
        (c # None /\ identityAttestation[c] # None) => get_group_attestation(c).kyc_verified

(* Once the circuit's key is set, a wallet enters a group only on a proof   *)
(* made for that wallet and that commitment, whatever proofs of others it   *)
(* can see on the ledger, and across a change of the key.                   *)
JoinIsProven ==
    [][\A w \in Wallets :
          (identityVk # None /\ walletCommitment'[w] # walletCommitment[w]
                             /\ walletCommitment'[w] # None)
              => [vk |-> identityVk, commitment |-> walletCommitment'[w], wallet |-> w]
                     \in IdentityProofs]_identityVars

IdentityInv ==
    /\ WITypeOK
    /\ MemberCountExact
    /\ ScoredGroupHasMember
    /\ KycFlagBacked

(* What the contract promises, with groups as sets of members and a human's *)
(* identity chosen once (IdentityGroups).                                   *)
Abstract == INSTANCE IdentityGroups WITH
    members    <- [c \in Commitments |-> Members(c)],
    scored     <- {c \in Commitments : identityAttestation[c] # None},
    identityOf <- nullifierCommitment,
    verified   <- {c \in Commitments : kycVerified[c]}

ImplementsIdentityGroups == Abstract!Spec
=============================================================================
