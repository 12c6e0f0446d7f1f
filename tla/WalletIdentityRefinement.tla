--------------------- MODULE WalletIdentityRefinement ---------------------
(***************************************************************************)
(* WalletIdentity implements IdentityGroups: counters, keys, attestors and *)
(* stored scores map to sets of members, of scored groups and of verified  *)
(* groups, and every call is one abstract step or a stutter.  CallMaps and  *)
(* UpdateGroupScoreMaps say so of a call whoever makes it, so the composed  *)
(* contracts and the service refine IdentityGroups by the same lemmas.      *)
(***************************************************************************)
EXTENDS WalletIdentityProofs

\* Whatever is configured, a ledger without groups maps to one without groups.
LEMMA InitMaps == GroupsInit => Abstract!Init
<1> SUFFICES ASSUME GroupsInit PROVE Abstract!Init
  OBVIOUS
<1> USE DEF GroupsInit
<1>1. \A c \in Commitments : Members(c) = {}
  BY SharedAssumption DEF Members
<1>2. QED
  BY <1>1 DEF Abstract!Init

(* A call that leaves members, scores, nullifiers and flags alone stutters. *)
LEMMA QuietStepMaps ==
    ASSUME UNCHANGED <<walletCommitment, nullifierCommitment, kycVerified>>,
           \A c \in Commitments :
               (identityAttestation'[c] # None) <=> (identityAttestation[c] # None)
    PROVE  UNCHANGED Abstract!absVars
<1>1. \A c \in Commitments : Members(c)' = Members(c)
  BY DEF Members
<1>2. QED
  BY <1>1 DEF Abstract!absVars

(* Registering is Join: the wallet was in no group.                         *)
LEMMA RegisterWalletMaps ==
    ASSUME IdentityInv, NEW w \in Wallets, NEW c \in Commitments,
           NEW p \in IdentityProofs \cup {None}, RegisterWallet(w, c, p)
    PROVE  Abstract!Join(w, c)
<1> USE DEF IdentityInv
<1>0. /\ walletCommitment[w] = None
      /\ walletCommitment' = [walletCommitment EXCEPT ![w] = c]
      /\ UNCHANGED <<identityAttestation, nullifierCommitment, kycVerified>>
  BY DEF RegisterWallet, configVars, kycVars
<1>1. /\ Members(c)' = Members(c) \cup {w}
      /\ \A d \in Commitments \ {c} : Members(d)' = Members(d)
  BY <1>0, JoinMembers
<1>2. \A d \in Commitments : w \notin Members(d)
  BY <1>0, SharedAssumption DEF Members
<1>3. [d \in Commitments |-> Members(d)]'
          = [[d \in Commitments |-> Members(d)] EXCEPT ![c] = @ \cup {w}]
  BY <1>1
<1>4. QED
  BY <1>0, <1>2, <1>3 DEF Abstract!Join

(* Leaving is Leave: the counter is exact, so the score goes exactly when   *)
(* the group empties.                                                       *)
LEMMA LeaveGroupMaps ==
    ASSUME IdentityInv, NEW w \in Wallets, NEW c \in Commitments,
           walletCommitment[w] = c, LeaveGroup(w)
    PROVE  Abstract!Leave(w, c)
<1> USE DEF IdentityInv
<1>0. /\ walletCommitment' = [walletCommitment EXCEPT ![w] = None]
      /\ UNCHANGED <<nullifierCommitment, kycVerified>>
  BY DEF LeaveGroup, kycVars
<1>1. /\ Members(c)' = Members(c) \ {w}
      /\ w \in Members(c)
      /\ \A d \in Commitments \ {c} : Members(d)' = Members(d)
  BY <1>0, LeaveMembers
<1>2. [d \in Commitments |-> Members(d)]'
          = [[d \in Commitments |-> Members(d)] EXCEPT ![c] = @ \ {w}]
  BY <1>1
<1>3. memberCount[c] \in Nat /\ memberCount[c] = Cardinality(Members(c))
  BY DEF WITypeOK, MemberCountExact
<1>4. Members(c) = {w} <=> memberCount[c] <= 1
  <2>1. IsFiniteSet(Members(c))
    BY MembersFinite
  <2>2. Cardinality(Members(c) \ {w}) = Cardinality(Members(c)) - 1
    BY <1>1, <2>1, FS_RemoveElement
  <2>3. IsFiniteSet(Members(c) \ {w})
    BY <2>1, FS_RemoveElement
  <2>4. Cardinality(Members(c) \ {w}) = 0 <=> Members(c) \ {w} = {}
    BY <2>3, FS_EmptySet
  <2>5. Cardinality(Members(c) \ {w}) \in Nat
    BY <2>3, FS_CardinalityType
  <2>6. Cardinality(Members(c) \ {w}) = 0 <=> memberCount[c] <= 1
    BY <1>3, <2>2, <2>5
  <2>7. QED
    BY <1>1, <2>4, <2>6
<1>5. {d \in Commitments : identityAttestation[d] # None}'
          = IF Members(c) = {w}
            THEN {d \in Commitments : identityAttestation[d] # None} \ {c}
            ELSE {d \in Commitments : identityAttestation[d] # None}
  <2>1. CASE memberCount[c] <= 1
    <3>1. identityAttestation' = [identityAttestation EXCEPT ![c] = None]
      BY <1>3, <2>1 DEF LeaveGroup
    <3>2. QED
      BY <1>4, <2>1, <3>1 DEF WITypeOK
  <2>2. CASE memberCount[c] > 1
    <3>1. identityAttestation' = identityAttestation
      BY <1>3, <2>2 DEF LeaveGroup
    <3>2. Members(c) # {w}
      BY <1>3, <1>4, <2>2
    <3>3. QED
      BY <3>1, <3>2
  <2>3. QED
    BY <1>3, <2>1, <2>2
<1>6. QED
  BY <1>0, <1>1, <1>2, <1>5 DEF Abstract!Leave

(* A re-score is Score: the stored counter says the group has members.      *)
LEMMA UpdateGroupScoreMaps ==
    ASSUME IdentityInv, NEW a \in Attestors, NEW c \in Commitments,
           NEW data \in AttestationData, UpdateGroupScore(a, c, data)
    PROVE  Abstract!Score(c)
<1> USE DEF IdentityInv
<1>0. /\ memberCount[c] # 0
      /\ identityAttestation' = [identityAttestation EXCEPT ![c] = data]
      /\ UNCHANGED <<walletCommitment, nullifierCommitment, kycVerified>>
  BY DEF UpdateGroupScore, kycVars
<1>1. Members(c) # {}
  BY <1>0, CountZero
<1>2. \A d \in Commitments : Members(d)' = Members(d)
  BY <1>0 DEF Members
<1>3. data # None
  BY SharedAssumption
<1>4. {d \in Commitments : identityAttestation[d] # None}'
          = {d \in Commitments : identityAttestation[d] # None} \cup {c}
  BY <1>0, <1>3 DEF WITypeOK
<1>5. QED
  BY <1>0, <1>1, <1>2, <1>4 DEF Abstract!Score

(* Binding a fresh nullifier is Verify.                                     *)
LEMMA BindKycMaps ==
    ASSUME IdentityInv, NEW a \in Attestors, NEW c \in Commitments,
           NEW n \in Nullifiers, nullifierCommitment[n] = None, BindKyc(a, c, n)
    PROVE  Abstract!Verify(n, c)
<1> USE DEF IdentityInv
<1>0. /\ nullifierCommitment' = [nullifierCommitment EXCEPT ![n] = c]
      /\ kycVerified' = [kycVerified EXCEPT ![c] = TRUE]
      /\ identityAttestation' =
             IF identityAttestation[c] = None THEN identityAttestation
             ELSE [identityAttestation EXCEPT ![c].kyc_verified = TRUE]
      /\ walletCommitment' = walletCommitment
  BY SharedAssumption DEF BindKyc
<1>1. \A d \in Commitments : Members(d)' = Members(d)
  BY <1>0 DEF Members
<1>2. {d \in Commitments : identityAttestation[d] # None}'
          = {d \in Commitments : identityAttestation[d] # None}
  <2>1. CASE identityAttestation[c] = None
    BY <1>0, <2>1
  <2>2. CASE identityAttestation[c] # None
    <3>1. identityAttestation[c] \in AttestationData
      BY <2>2 DEF WITypeOK
    <3>2. identityAttestation'[c] # None
      <4>1. PICK d \in AttestationData : identityAttestation[c] = d
        BY <3>1
      <4>2. identityAttestation'[c] = [d EXCEPT !.kyc_verified = TRUE]
        BY <1>0, <2>2, <4>1 DEF WITypeOK
      <4>3. QED
        BY <4>1, <4>2, KycFieldTyped, SharedAssumption
    <3>3. \A d \in Commitments \ {c} : identityAttestation'[d] = identityAttestation[d]
      BY <1>0, <2>2 DEF WITypeOK
    <3>4. QED
      BY <2>2, <3>2, <3>3
  <2>3. QED
    BY <2>1, <2>2
<1>3. {d \in Commitments : kycVerified[d]}' = {d \in Commitments : kycVerified[d]} \cup {c}
  BY <1>0 DEF WITypeOK
<1>4. QED
  BY <1>0, <1>1, <1>2, <1>3 DEF Abstract!Verify

(* Any call, on whatever ledger the contract is.                            *)
LEMMA CallMaps ==
    ASSUME IdentityInv, WICalls
    PROVE  [Abstract!Next]_(Abstract!absVars)
<1>1. CASE SetAttestorRegistryWI
  BY <1>1, QuietStepMaps DEF SetAttestorRegistryWI, groupVars, kycVars
<1>2. ASSUME NEW vk \in IdentityVKs, SetIdentityVk(vk)
      PROVE  [Abstract!Next]_(Abstract!absVars)
  BY <1>2, QuietStepMaps DEF SetIdentityVk, groupVars, kycVars
<1>3. ASSUME NEW w \in Wallets, NEW c \in Commitments,
             NEW p \in IdentityProofs \cup {None}, RegisterWallet(w, c, p)
      PROVE  Abstract!Next
  BY <1>3, RegisterWalletMaps DEF Abstract!Next
<1>4. ASSUME NEW a \in Attestors, NEW c \in Commitments, NEW n \in Nullifiers,
             BindKyc(a, c, n)
      PROVE  [Abstract!Next]_(Abstract!absVars)
  <2>1. CASE nullifierCommitment[n] = None
    BY <1>4, <2>1, BindKycMaps DEF Abstract!Next
  <2>2. CASE nullifierCommitment[n] # None
    BY <1>4, <2>2, QuietStepMaps DEF BindKyc, wiVars, groupVars, kycVars
  <2>3. QED
    BY <2>1, <2>2
<1>5. ASSUME NEW w \in Wallets, LeaveGroup(w) PROVE Abstract!Next
  <2>1. PICK c \in Commitments : walletCommitment[w] = c
    BY <1>5 DEF LeaveGroup, IdentityInv, WITypeOK
  <2>2. QED
    BY <1>5, <2>1, LeaveGroupMaps DEF Abstract!Next
<1>6. QED
  BY <1>1, <1>2, <1>3, <1>4, <1>5 DEF WICalls

LEMMA UnchangedMaps == UNCHANGED wiVars => UNCHANGED Abstract!absVars
BY QuietStepMaps DEF wiVars, groupVars, kycVars

LEMMA StepMaps ==
    IdentityInv /\ [IdentityNext]_identityVars => [Abstract!Next]_(Abstract!absVars)
<1> SUFFICES ASSUME IdentityInv, [IdentityNext]_identityVars
             PROVE  [Abstract!Next]_(Abstract!absVars)
  OBVIOUS
<1>1. ASSUME NEW a \in Attestors, NEW c \in Commitments, NEW data \in GroupScores,
             UpdateGroupScore(a, c, data)
      PROVE  Abstract!Next
  BY <1>1, UpdateGroupScoreMaps, IdentityAssumption DEF Abstract!Next
<1>2. QED
  BY <1>1, CallMaps, UnchangedMaps DEF IdentityNext, WINext, identityVars

(* Every behaviour of the contract and its registry, for any wallets,       *)
(* groups and humans, is a behaviour of the abstract identity groups.       *)
THEOREM IdentityRefines == IdentitySpec => ImplementsIdentityGroups
<1>1. IdentityInit => Abstract!Init
  BY InitMaps DEF IdentityInit, WIInit
<1>2. QED
  BY <1>1, StepMaps, IdentityInvariant, PTL
     DEF IdentitySpec, ImplementsIdentityGroups, Abstract!Spec
=============================================================================
