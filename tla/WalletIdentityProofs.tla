----------------------- MODULE WalletIdentityProofs -----------------------
(***************************************************************************)
(* Proofs about WalletIdentity for any sets of wallets, groups, nullifiers *)
(* and attestors.  IdentityInv is inductive as it stands: the counter is   *)
(* exact, a scored group has a member, and the KYC flags are the image of  *)
(* the nullifier registry.                                                 *)
(***************************************************************************)
EXTENDS WalletIdentity, TLAPS, FiniteSetTheorems

(* Setting one field of a stored attestation leaves it an attestation.     *)
LEMMA KycFieldTyped ==
    ASSUME NEW d \in AttestationData
    PROVE  [d EXCEPT !.kyc_verified = TRUE] \in AttestationData
BY DEF AttestationData

(* Groups are finite, so their counters can be compared with cardinalities. *)
LEMMA MembersFinite ==
    ASSUME NEW c \in Commitments
    PROVE  IsFiniteSet(Members(c)) /\ Cardinality(Members(c)) \in Nat
<1>1. IsFiniteSet(Wallets)
  BY SharedAssumption
<1>2. Members(c) \subseteq Wallets
  BY DEF Members
<1>3. QED
  BY <1>1, <1>2, FS_Subset, FS_CardinalityType

(* A wallet outside every group that registers under c enlarges Members(c)  *)
(* by itself and touches no other group.                                    *)
LEMMA JoinMembers ==
    ASSUME WITypeOK, NEW w \in Wallets, NEW c \in Commitments,
           walletCommitment[w] = None,
           walletCommitment' = [walletCommitment EXCEPT ![w] = c]
    PROVE  /\ Members(c)' = Members(c) \cup {w}
           /\ w \notin Members(c)
           /\ \A d \in Commitments \ {c} : Members(d)' = Members(d)
BY SharedAssumption DEF Members, WITypeOK

(* A wallet that leaves group c shrinks Members(c) by itself and touches no *)
(* other group.                                                             *)
LEMMA LeaveMembers ==
    ASSUME WITypeOK, NEW w \in Wallets, NEW c \in Commitments,
           walletCommitment[w] = c,
           walletCommitment' = [walletCommitment EXCEPT ![w] = None]
    PROVE  /\ Members(c)' = Members(c) \ {w}
           /\ w \in Members(c)
           /\ \A d \in Commitments \ {c} : Members(d)' = Members(d)
BY SharedAssumption DEF Members, WITypeOK

(* No group without a member has a counter above zero, and conversely.      *)
LEMMA CountZero ==
    ASSUME MemberCountExact, NEW c \in Commitments
    PROVE  memberCount[c] = 0 <=> Members(c) = {}
BY MembersFinite, FS_EmptySet DEF MemberCountExact

-----------------------------------------------------------------------------
LEMMA InitInv == IdentityInit => IdentityInv
<1> SUFFICES ASSUME IdentityInit PROVE IdentityInv
  OBVIOUS
<1> USE DEF IdentityInit, RegistryInit, WIInit, GroupsInit
<1>1. WITypeOK
  BY DEF WITypeOK, RegistryTypeOK
<1>2. MemberCountExact
  <2>1. \A c \in Commitments : Members(c) = {}
    BY SharedAssumption DEF Members
  <2>2. QED
    BY <2>1, FS_EmptySet DEF MemberCountExact
<1>3. ScoredGroupHasMember
  BY DEF ScoredGroupHasMember
<1>4. KycFlagBacked
  BY SharedAssumption DEF KycFlagBacked
<1>5. QED
  BY <1>1, <1>2, <1>3, <1>4 DEF IdentityInv

(* One lemma per call: each preserves the invariant.                        *)
LEMMA RegisterWalletInv ==
    ASSUME IdentityInv, UNCHANGED attestor,
           NEW w \in Wallets, NEW c \in Commitments, NEW p \in IdentityProofs \cup {None},
           RegisterWallet(w, c, p)
    PROVE  IdentityInv'
<1> USE DEF IdentityInv
<1>0. /\ walletCommitment[w] = None
      /\ walletCommitment' = [walletCommitment EXCEPT ![w] = c]
      /\ memberCount' = [memberCount EXCEPT ![c] = @ + 1]
      /\ UNCHANGED <<wiRegistrySet, identityVk, identityAttestation,
                     nullifierCommitment, kycVerified>>
  BY DEF RegisterWallet, configVars, kycVars
<1>1. WITypeOK'
  BY <1>0 DEF WITypeOK, RegistryTypeOK
<1>2. /\ Members(c)' = Members(c) \cup {w}
      /\ w \notin Members(c)
      /\ \A d \in Commitments \ {c} : Members(d)' = Members(d)
  BY <1>0, JoinMembers
<1>3. MemberCountExact'
  <2>1. Cardinality(Members(c)') = Cardinality(Members(c)) + 1
    BY <1>2, MembersFinite, FS_AddElement, ZenonT(60)
  <2>2. QED
    BY <1>0, <1>2, <2>1 DEF MemberCountExact, WITypeOK
<1>4. ScoredGroupHasMember'
  BY <1>0, <1>2 DEF ScoredGroupHasMember
<1>5. KycFlagBacked'
  BY <1>0 DEF KycFlagBacked
<1>6. QED
  BY <1>1, <1>3, <1>4, <1>5

LEMMA LeaveGroupInv ==
    ASSUME IdentityInv, UNCHANGED attestor, NEW w \in Wallets, LeaveGroup(w)
    PROVE  IdentityInv'
<1> USE DEF IdentityInv
<1>1. PICK c \in Commitments : walletCommitment[w] = c
  BY DEF LeaveGroup, WITypeOK
<1>0. /\ walletCommitment[w] # None
      /\ walletCommitment' = [walletCommitment EXCEPT ![w] = None]
      /\ UNCHANGED <<attestor, wiRegistrySet, identityVk, nullifierCommitment, kycVerified>>
  BY DEF LeaveGroup, configVars, kycVars
<1>2. /\ Members(c)' = Members(c) \ {w}
      /\ w \in Members(c)
      /\ \A d \in Commitments \ {c} : Members(d)' = Members(d)
  BY <1>0, <1>1, LeaveMembers
<1>3. /\ Cardinality(Members(c)') = Cardinality(Members(c)) - 1
      /\ memberCount[c] = Cardinality(Members(c))
      /\ memberCount[c] \in Nat
  <2>1. IsFiniteSet(Members(c))
    BY MembersFinite
  <2>2. Cardinality(Members(c) \ {w}) = Cardinality(Members(c)) - 1
    BY <1>2, <2>1, FS_RemoveElement
  <2>3. QED
    BY <1>2, <2>2 DEF MemberCountExact, WITypeOK
<1>4. memberCount[c] # 0
  BY <1>1, <1>2, CountZero
<1>5. CASE memberCount[c] <= 1
  <2>1. /\ memberCount' = [memberCount EXCEPT ![c] = 0]
        /\ identityAttestation' = [identityAttestation EXCEPT ![c] = None]
    BY <1>1, <1>3, <1>5 DEF LeaveGroup
  <2>2. WITypeOK'
    BY <1>0, <1>1, <2>1 DEF WITypeOK, RegistryTypeOK
  <2>3. memberCount[c] = 1
    BY <1>3, <1>4, <1>5
  <2>4. MemberCountExact'
    BY <1>1, <1>2, <1>3, <2>1, <2>3, SMTT(30) DEF MemberCountExact, WITypeOK
  <2>5. ScoredGroupHasMember'
    BY <1>1, <1>2, <2>1 DEF ScoredGroupHasMember, WITypeOK
  <2>6. KycFlagBacked'
    BY <1>0 DEF KycFlagBacked
  <2>7. QED
    BY <2>2, <2>4, <2>5, <2>6
<1>6. CASE memberCount[c] > 1
  <2>1. /\ memberCount' = [memberCount EXCEPT ![c] = @ - 1]
        /\ UNCHANGED identityAttestation
    BY <1>1, <1>3, <1>6 DEF LeaveGroup
  <2>2. WITypeOK'
    BY <1>0, <1>1, <1>3, <1>6, <2>1 DEF WITypeOK, RegistryTypeOK
  <2>3. MemberCountExact'
    BY <1>1, <1>2, <1>3, <2>1 DEF MemberCountExact, WITypeOK
  <2>4. Members(c)' # {}
    <3>1. Cardinality(Members(c)') # 0
      BY <1>3, <1>6
    <3>2. QED
      BY <3>1, FS_EmptySet
  <2>5. ScoredGroupHasMember'
    BY <1>1, <1>2, <2>1, <2>4 DEF ScoredGroupHasMember
  <2>6. KycFlagBacked'
    BY <1>0 DEF KycFlagBacked
  <2>7. QED
    BY <2>2, <2>3, <2>5, <2>6
<1>7. QED
  BY <1>3, <1>5, <1>6

LEMMA UpdateGroupScoreInv ==
    ASSUME IdentityInv, UNCHANGED attestor,
           NEW a \in Attestors, NEW c \in Commitments, NEW data \in AttestationData,
           UpdateGroupScore(a, c, data)
    PROVE  IdentityInv'
<1> USE DEF IdentityInv
<1>0. /\ memberCount[c] # 0
      /\ identityAttestation' = [identityAttestation EXCEPT ![c] = data]
      /\ UNCHANGED <<attestor, wiRegistrySet, identityVk, walletCommitment, memberCount,
                     nullifierCommitment, kycVerified>>
  BY DEF UpdateGroupScore, configVars, kycVars
<1>1. WITypeOK'
  BY <1>0 DEF WITypeOK, RegistryTypeOK
<1>2. \A d \in Commitments : Members(d)' = Members(d)
  BY <1>0 DEF Members
<1>3. MemberCountExact'
  BY <1>0, <1>2 DEF MemberCountExact
<1>4. Members(c) # {}
  BY <1>0, CountZero
<1>5. ScoredGroupHasMember'
  BY <1>0, <1>2, <1>4 DEF ScoredGroupHasMember, WITypeOK
<1>6. KycFlagBacked'
  BY <1>0 DEF KycFlagBacked
<1>7. QED
  BY <1>1, <1>3, <1>5, <1>6

LEMMA BindKycInv ==
    ASSUME IdentityInv, UNCHANGED attestor,
           NEW a \in Attestors, NEW c \in Commitments, NEW n \in Nullifiers,
           nullifierCommitment[n] = None,
           BindKyc(a, c, n)
    PROVE  IdentityInv'
<1> USE DEF IdentityInv
<1>0. /\ nullifierCommitment' = [nullifierCommitment EXCEPT ![n] = c]
      /\ kycVerified' = [kycVerified EXCEPT ![c] = TRUE]
      /\ identityAttestation' =
             IF identityAttestation[c] = None THEN identityAttestation
             ELSE [identityAttestation EXCEPT ![c].kyc_verified = TRUE]
      /\ UNCHANGED <<attestor, wiRegistrySet, identityVk, walletCommitment, memberCount>>
  BY SharedAssumption DEF BindKyc, configVars
<1>1. identityAttestation' \in [Commitments -> AttestationData \cup {None}]
  <2>1. CASE identityAttestation[c] = None
    BY <1>0, <2>1 DEF WITypeOK
  <2>2. CASE identityAttestation[c] # None
    <3>1. identityAttestation[c] \in AttestationData
      BY <2>2 DEF WITypeOK
    <3>2. [identityAttestation[c] EXCEPT !.kyc_verified = TRUE] \in AttestationData
      BY <3>1, KycFieldTyped
    <3>3. identityAttestation' = [identityAttestation EXCEPT
              ![c] = [identityAttestation[c] EXCEPT !.kyc_verified = TRUE]]
      BY <1>0, <2>2
    <3>4. QED
      BY <3>2, <3>3 DEF WITypeOK
  <2>3. QED
    BY <2>1, <2>2
<1>2. WITypeOK'
  BY <1>0, <1>1 DEF WITypeOK, RegistryTypeOK
<1>3. \A d \in Commitments : Members(d)' = Members(d)
  BY <1>0 DEF Members
<1>4. MemberCountExact'
  BY <1>0, <1>3 DEF MemberCountExact
<1>5. ScoredGroupHasMember'
  BY <1>0, <1>3 DEF ScoredGroupHasMember, WITypeOK
<1>6. KycFlagBacked'
  BY <1>0, SharedAssumption DEF KycFlagBacked, WITypeOK
<1>7. QED
  BY <1>2, <1>4, <1>5, <1>6

(* Configuration, the registry, an idempotent bind and stuttering leave the *)
(* groups and the nullifiers as they were.                                  *)
LEMMA QuietStepInv ==
    ASSUME IdentityInv, RegistryTypeOK', wiRegistrySet' \in BOOLEAN,
           identityVk' \in IdentityVKs \cup {None}, UNCHANGED <<groupVars, kycVars>>
    PROVE  IdentityInv'
<1> USE DEF IdentityInv, groupVars, kycVars
<1>1. \A d \in Commitments : Members(d)' = Members(d)
  BY DEF Members
<1>2. WITypeOK'
  BY DEF WITypeOK
<1>3. MemberCountExact' /\ ScoredGroupHasMember' /\ KycFlagBacked'
  BY <1>1 DEF MemberCountExact, ScoredGroupHasMember, KycFlagBacked
<1>4. QED
  BY <1>2, <1>3

LEMMA NextInv == IdentityInv /\ [IdentityNext]_identityVars => IdentityInv'
<1> SUFFICES ASSUME IdentityInv, [IdentityNext]_identityVars PROVE IdentityInv'
  OBVIOUS
<1>0. WITypeOK
  BY DEF IdentityInv
<1>1. CASE RegistryNext /\ UNCHANGED wiVars
  <2>1. RegistryTypeOK'
    BY <1>0, <1>1 DEF RegistryNext, Authorize, Revoke, RegistryTypeOK, WITypeOK
  <2>2. QED
    BY <1>0, <1>1, <2>1, QuietStepInv DEF WITypeOK, wiVars, configVars
<1>2. ASSUME WINext, UNCHANGED attestor PROVE IdentityInv'
  <2>0. RegistryTypeOK'
    BY <1>0, <1>2 DEF RegistryTypeOK, WITypeOK
  <2>1. CASE SetAttestorRegistryWI
    BY <1>0, <2>0, <2>1, QuietStepInv DEF SetAttestorRegistryWI, WITypeOK
  <2>2. ASSUME NEW vk \in IdentityVKs, SetIdentityVk(vk) PROVE IdentityInv'
    BY <1>0, <2>0, <2>2, QuietStepInv DEF SetIdentityVk, WITypeOK
  <2>3. ASSUME NEW w \in Wallets, NEW c \in Commitments,
               NEW p \in IdentityProofs \cup {None}, RegisterWallet(w, c, p)
        PROVE  IdentityInv'
    BY <1>2, <2>3, RegisterWalletInv
  <2>4. ASSUME NEW a \in Attestors, NEW c \in Commitments, NEW data \in GroupScores,
               UpdateGroupScore(a, c, data)
        PROVE  IdentityInv'
    BY <1>2, <2>4, UpdateGroupScoreInv, IdentityAssumption
  <2>5. ASSUME NEW a \in Attestors, NEW c \in Commitments, NEW n \in Nullifiers,
               BindKyc(a, c, n)
        PROVE  IdentityInv'
    <3>1. CASE nullifierCommitment[n] = None
      BY <1>2, <2>5, <3>1, BindKycInv
    <3>2. CASE nullifierCommitment[n] # None
      <4>1. UNCHANGED wiVars
        BY <2>5, <3>2 DEF BindKyc
      <4>2. QED
        BY <1>0, <2>0, <4>1, QuietStepInv DEF WITypeOK, wiVars, configVars
    <3>3. QED
      BY <3>1, <3>2
  <2>6. ASSUME NEW w \in Wallets, LeaveGroup(w) PROVE IdentityInv'
    BY <1>2, <2>6, LeaveGroupInv
  <2>7. QED
    BY <1>2, <2>1, <2>2, <2>3, <2>4, <2>5, <2>6 DEF WINext, WICalls
<1>3. CASE UNCHANGED identityVars
  <2>1. RegistryTypeOK'
    BY <1>0, <1>3 DEF identityVars, RegistryTypeOK, WITypeOK
  <2>2. QED
    BY <1>0, <1>3, <2>1, QuietStepInv DEF WITypeOK, identityVars, wiVars, configVars
<1>4. QED
  BY <1>1, <1>2, <1>3 DEF IdentityNext

(* The whole inductive invariant, for every instance of the contract.       *)
THEOREM IdentityInvariant == IdentitySpec => []IdentityInv
BY InitInv, NextInv, PTL DEF IdentitySpec

(* Type correctness of the identity contract and its registry.              *)
THEOREM IdentityTypeCorrect == IdentitySpec => []WITypeOK
<1>1. IdentityInv => WITypeOK
  BY DEF IdentityInv
<1>2. QED
  BY <1>1, IdentityInvariant, PTL

(* The stored member counter is exact, so leave_group clears a group's      *)
(* score when the group empties and at no other time.                       *)
THEOREM MemberCounterCorrect == IdentitySpec => []MemberCountExact
<1>1. IdentityInv => MemberCountExact
  BY DEF IdentityInv
<1>2. QED
  BY <1>1, IdentityInvariant, PTL

(* No score outlives its group.                                             *)
THEOREM ScoreHasGroup == IdentitySpec => []ScoredGroupHasMember
<1>1. IdentityInv => ScoredGroupHasMember
  BY DEF IdentityInv
<1>2. QED
  BY <1>1, IdentityInvariant, PTL

(* Every KYC flag is backed by a nullifier, and every bound nullifier shows *)
(* as a flag.                                                               *)
THEOREM KycFlagsCorrect == IdentitySpec => []KycFlagBacked
<1>1. IdentityInv => KycFlagBacked
  BY DEF IdentityInv
<1>2. QED
  BY <1>1, IdentityInvariant, PTL

(* A bound human's group never reads as unverified, whatever scores are     *)
(* submitted for it afterwards.                                             *)
THEOREM BoundKycAlwaysRead == IdentitySpec => []BoundKycIsRead
<1>1. IdentityInv => BoundKycIsRead
  <2> SUFFICES ASSUME IdentityInv, NEW n \in Nullifiers,
                      nullifierCommitment[n] # None,
                      identityAttestation[nullifierCommitment[n]] # None
               PROVE  get_group_attestation(nullifierCommitment[n]).kyc_verified
    BY DEF BoundKycIsRead
  <2>1. PICK c \in Commitments : nullifierCommitment[n] = c
    BY DEF IdentityInv, WITypeOK
  <2>2. kycVerified[c]
    BY <2>1 DEF IdentityInv, KycFlagBacked
  <2>3. identityAttestation[c] \in AttestationData
    BY <2>1 DEF IdentityInv, WITypeOK
  <2>4. get_group_attestation(c)
            = [identityAttestation[c] EXCEPT !.kyc_verified = TRUE]
    BY <2>1, <2>2 DEF get_group_attestation, is_kyc_verified
  <2>5. QED
    BY <2>1, <2>3, <2>4 DEF AttestationData
<1>2. QED
  BY <1>1, IdentityInvariant, PTL

(* Once the circuit's key is set, nobody joins a group without a proof made *)
(* for that wallet, that commitment and the current key.                    *)
THEOREM JoinsAreProven == IdentitySpec => JoinIsProven
<1> DEFINE Proven ==
        \A w \in Wallets :
            (identityVk # None /\ walletCommitment'[w] # walletCommitment[w]
                               /\ walletCommitment'[w] # None)
                => [vk |-> identityVk, commitment |-> walletCommitment'[w], wallet |-> w]
                       \in IdentityProofs
<1>1. IdentityInv /\ [IdentityNext]_identityVars => [Proven]_identityVars
  <2> SUFFICES ASSUME IdentityInv, [IdentityNext]_identityVars, NEW v \in Wallets,
                      identityVk # None, walletCommitment'[v] # walletCommitment[v],
                      walletCommitment'[v] # None
               PROVE  [vk |-> identityVk, commitment |-> walletCommitment'[v],
                       wallet |-> v] \in IdentityProofs
    OBVIOUS
  <2>0. walletCommitment \in [Wallets -> Commitments \cup {None}]
    BY DEF IdentityInv, WITypeOK
  <2>1. walletCommitment' # walletCommitment
    OBVIOUS
  <2>2. WINext
    BY <2>1 DEF IdentityNext, identityVars, wiVars, groupVars
  <2>3. ~ \E w \in Wallets : LeaveGroup(w)
    BY <2>0 DEF LeaveGroup
  <2>4. PICK w \in Wallets, c \in Commitments, p \in IdentityProofs \cup {None} :
            RegisterWallet(w, c, p)
    BY <2>1, <2>2, <2>3 DEF WINext, WICalls, SetAttestorRegistryWI, SetIdentityVk,
        UpdateGroupScore, BindKyc, wiVars, groupVars
  <2>5. v = w /\ walletCommitment'[v] = c
    BY <2>0, <2>4 DEF RegisterWallet
  <2>6. p \in IdentityProofs /\ p.vk = identityVk /\ p.commitment = c /\ p.wallet = w
    BY <2>4 DEF RegisterWallet, ProofBinds, verify_groth16
  <2>7. p = [vk |-> identityVk, commitment |-> c, wallet |-> w]
    BY <2>6, IdentityAssumption
  <2>8. QED
    BY <2>5, <2>6, <2>7
<1>2. QED
  BY <1>1, IdentityInvariant, PTL DEF IdentitySpec, JoinIsProven
=============================================================================
