------------------------- MODULE GroupRescoreProofs -------------------------
(***************************************************************************)
(* Proofs about GroupRescore for any wallets, groups, deliveries, jobs and *)
(* number of restarts.  A job reads its KYC claim from Postgres and submits *)
(* it some steps later: the claim stays true because the chain never       *)
(* unbinds a group, and it was true because KycFlow's invariant holds of   *)
(* the service too, whose other steps leave the webhook's state alone.  So *)
(* what the service asks of the contract is what the contract theorems     *)
(* assume, and the service implements the abstract IdentityGroups.         *)
(***************************************************************************)
EXTENDS GroupRescore, KycFlowProofs, WalletIdentityRefinement

JobRecord ==
    [stage : JobStages, group : Commitments \cup {None},
     members : SUBSET Wallets, kyc : BOOLEAN]

\* A job has a group from its queueing on, its thread runs while it submits
\* and never before it is queued, and a claim of KYC it read is of a bound
\* group.
JobOK(r) ==
    /\ job[r].stage = "free" <=> job[r].group = None
    /\ job[r].stage # "submitting" => call[r].stage \in {"idle", "returned", "raised"}
    /\ job[r].stage = "free" => call[r].stage = "idle"
    /\ job[r].kyc => job[r].group \in Commitments /\ is_kyc_verified(job[r].group)

\* A stored score that claims KYC is of a bound group.
ScoresBacked ==
    \A c \in Commitments :
        (identityAttestation[c] # None /\ identityAttestation[c].kyc_verified)
            => is_kyc_verified(c)

JobsInv ==
    /\ membership \in [Wallets -> Commitments \cup {None}]
    /\ linking \in [Wallets -> Commitments \cup {None}]
    /\ job \in [Rescores -> JobRecord]
    /\ \A r \in Rescores : JobOK(r)
    /\ ScoresBacked

ServiceInv == KycInv /\ JobsInv

\* What a step owes the jobs on chain: no group is unbound, and no score
\* claims more than is bound.
ChainKept ==
    /\ \A c \in Commitments : is_kyc_verified(c) => is_kyc_verified(c)'
    /\ ScoresBacked'
-----------------------------------------------------------------------------
(* A call that leaves the KYC flags alone and at most removes scores.       *)
LEMMA ScoresDropped ==
    ASSUME ScoresBacked, UNCHANGED kycVerified,
           \A c \in Commitments : identityAttestation'[c] \in {None, identityAttestation[c]}
    PROVE  ChainKept
<1>1. \A c \in Commitments : is_kyc_verified(c) <=> is_kyc_verified(c)'
  BY DEF is_kyc_verified
<1>2. QED
  BY <1>1 DEF ScoresBacked, ChainKept

(* bind_kyc raises the flag with the score's copy of it.                    *)
LEMMA BindKeepsChain ==
    ASSUME IdentityInv, ScoresBacked, NEW c \in Commitments, NEW n \in Nullifiers,
           BindKyc(Service, c, n)
    PROVE  ChainKept
<1>0. /\ kycVerified \in [Commitments -> BOOLEAN]
      /\ DOMAIN identityAttestation = Commitments
  BY DEF IdentityInv, WITypeOK
<1>1. CASE UNCHANGED wiVars
  BY <1>1, ScoresDropped DEF wiVars, groupVars, kycVars
<1>2. CASE /\ kycVerified' = [kycVerified EXCEPT ![c] = TRUE]
           /\ identityAttestation' =
                  IF identityAttestation[c] = None THEN identityAttestation
                  ELSE [identityAttestation EXCEPT ![c].kyc_verified = TRUE]
  <2>1. is_kyc_verified(c)' /\ \A b \in Commitments : b # c => kycVerified'[b] = kycVerified[b]
    BY <1>0, <1>2 DEF is_kyc_verified
  <2>2. \A b \in Commitments : b # c => identityAttestation'[b] = identityAttestation[b]
    BY <1>0, <1>2
  <2>3. ASSUME NEW b \in Commitments, is_kyc_verified(b) PROVE is_kyc_verified(b)'
    BY <2>1, <2>3 DEF is_kyc_verified
  <2>4. ASSUME NEW b \in Commitments, b # c, identityAttestation'[b] # None,
               identityAttestation'[b].kyc_verified
        PROVE  is_kyc_verified(b)'
    BY <2>1, <2>2, <2>3, <2>4 DEF ScoresBacked
  <2>5. QED
    BY <2>1, <2>3, <2>4 DEF ChainKept, ScoresBacked
<1>3. QED
  BY <1>1, <1>2 DEF BindKyc

(* update_group_score stores a claim that is backed.                        *)
LEMMA ScoreKeepsChain ==
    ASSUME IdentityInv, ScoresBacked, NEW c \in Commitments, NEW data,
           data.kyc_verified => is_kyc_verified(c), UpdateGroupScore(Service, c, data)
    PROVE  ChainKept
<1>0. /\ DOMAIN identityAttestation = Commitments
      /\ identityAttestation' = [identityAttestation EXCEPT ![c] = data]
      /\ kycVerified' = kycVerified
  BY DEF IdentityInv, WITypeOK, UpdateGroupScore, kycVars
<1>1. /\ \A b \in Commitments : is_kyc_verified(b) <=> is_kyc_verified(b)'
      /\ identityAttestation'[c] = data
      /\ \A b \in Commitments : b # c => identityAttestation'[b] = identityAttestation[b]
  BY <1>0 DEF is_kyc_verified
<1>2. ASSUME NEW b \in Commitments, identityAttestation'[b] # None,
             identityAttestation'[b].kyc_verified
      PROVE  is_kyc_verified(b)'
  <2>1. CASE b = c
    BY <1>1, <1>2, <2>1
  <2>2. CASE b # c
    BY <1>1, <1>2, <2>2 DEF ScoresBacked
  <2>3. QED
    BY <2>1, <2>2
<1>3. QED
  BY <1>1, <1>2 DEF ChainKept, ScoresBacked

(* One job moves.                                                           *)
LEMMA JobMoves ==
    ASSUME job \in [Rescores -> JobRecord], NEW r \in Rescores, NEW q \in JobRecord,
           job' = [job EXCEPT ![r] = q]
    PROVE  /\ job' \in [Rescores -> JobRecord]
           /\ job'[r] = q
           /\ \A s \in Rescores : s # r => job'[s] = job[s]
OBVIOUS

(* Enough for the jobs' invariant: a job that has not moved, nor its        *)
(* thread, is as sound as it was while the chain keeps what it binds.       *)
LEMMA JobsStand ==
    ASSUME JobsInv, ChainKept, job' \in [Rescores -> JobRecord],
           membership' \in [Wallets -> Commitments \cup {None}],
           linking' \in [Wallets -> Commitments \cup {None}],
           \A r \in Rescores :
               JobOK(r)' \/ (job'[r] = job[r] /\ call'[r].stage = call[r].stage)
    PROVE  JobsInv'
<1>1. ASSUME NEW r \in Rescores, job'[r] = job[r], call'[r].stage = call[r].stage
      PROVE  JobOK(r)'
  <2>1. JobOK(r)
    BY DEF JobsInv
  <2>2. job[r].kyc => job[r].group \in Commitments /\ kycVerified'[job[r].group]
    <3>1. SUFFICES ASSUME job[r].kyc
                   PROVE  job[r].group \in Commitments /\ kycVerified'[job[r].group]
      OBVIOUS
    <3>2. job[r].group \in Commitments /\ is_kyc_verified(job[r].group)
      BY <2>1, <3>1 DEF JobOK
    <3>3. QED
      BY <3>2 DEF ChainKept, is_kyc_verified
  <2>3. QED
    BY <1>1, <2>1, <2>2 DEF JobOK, is_kyc_verified
<1>2. \A r \in Rescores : JobOK(r)'
  BY <1>1
<1>3. QED
  BY <1>2 DEF JobsInv, ChainKept

-----------------------------------------------------------------------------
LEMMA InitEstablishesServiceInv == ServiceInit => ServiceInv
<1> SUFFICES ASSUME KycFlowInit, RescoreInit PROVE ServiceInv
  BY DEF ServiceInit
<1>1. KycInv
  BY InitEstablishesKycInv
<1>2. /\ membership \in [Wallets -> Commitments \cup {None}]
      /\ linking \in [Wallets -> Commitments \cup {None}]
  BY DEF RescoreInit
<1>3. NoJob \in JobRecord
  BY DEF NoJob, JobRecord, JobStages
<1>4. job \in [Rescores -> JobRecord] /\ \A r \in Rescores : job[r] = NoJob
  BY <1>3 DEF RescoreInit
<1>5. ASSUME NEW r \in Rescores PROVE JobOK(r)
  <2>1. call[r].stage = "idle"
    BY RescoreAssumption DEF KycFlowInit, SubmitInit
  <2>2. job[r].stage = "free" /\ job[r].group = None /\ job[r].kyc = FALSE
    BY <1>4 DEF NoJob
  <2>3. QED
    BY <2>1, <2>2 DEF JobOK
<1>6. ScoresBacked
  BY DEF ScoresBacked, KycFlowInit, GroupsInit
<1>7. QED
  BY <1>1, <1>2, <1>4, <1>5, <1>6 DEF ServiceInv, JobsInv

(* What the handlers of deliveries do to the jobs: nothing but bind.        *)
LEMMA DeliveryStepSeenByJobs ==
    ASSUME KycInv, ScoresBacked, NEW d \in Deliveries,
           HookStep(d) \/ BindRpcFails(d) \/ BindApplied(d)
    PROVE  ChainKept /\ \A k \in Calls : k # d => call'[k] = call[k]
<1>0. SubmitInv /\ IdentityInv /\ d \in Calls
  BY KycAssumption DEF KycInv
<1>a. UNCHANGED wiVars => ChainKept
  BY ScoresDropped DEF wiVars, groupVars, kycVars
<1>1. CASE RecordOther(d) \/ SelectNullifier(d) \/ InsertApproved(d) \/ SetBindTx(d)
  <2>1. UNCHANGED wiVars /\ UNCHANGED submitVars
    BY <1>1 DEF RecordOther, SelectNullifier, InsertApproved, SetBindTx
  <2>2. QED
    BY <1>a, <2>1 DEF submitVars
<1>2. CASE BindThread(d) \/ BindRpcFails(d)
  <2>1. \/ LoadAccount(d) \/ Prepare(d, BindAccepted(d)) \/ Send(d) \/ PollTx(d)
        \/ RpcFails(d)
    BY <1>2 DEF BindThread, BindRpcFails
  <2>2. UNCHANGED wiVars
    BY <1>2 DEF BindThread, BindRpcFails
  <2>3. QED
    BY <1>0, <1>a, <2>1, <2>2, ThreadStep
<1>3. CASE BindApplied(d)
  <2>1. PICK x \in {"success", "failed", "dropped"} :
            /\ call' = [call EXCEPT ![d].tx = x]
            /\ accountSeq' \in {accountSeq, call[d].seq}
    BY <1>3 DEF BindApplied, Applied, Drop
  <2>2. call[d].tx = "pending"
    BY <1>3 DEF BindApplied
  <2>3. \A k \in Calls : k # d => call'[k] = call[k]
    BY <1>0, <2>1, <2>2, LedgerStep
  <2>4. ChainKept
    <3>1. CASE UNCHANGED wiVars
      BY <1>a, <3>1
    <3>2. CASE BindKyc(Service, Event[d].commitment, Event[d].nullifier)
      <4>1. NeedsBind(d)
        BY <1>0, <2>2 DEF KycInv, HooksInv, SubmitInv
      <4>2. Event[d].commitment \in Commitments /\ Event[d].nullifier \in Nullifiers
        BY <4>1, KycAssumption DEF NeedsBind
      <4>3. QED
        BY <1>0, <3>2, <4>2, BindKeepsChain
    <3>3. QED
      BY <1>3, <3>1, <3>2 DEF BindApplied
  <2>5. QED
    BY <2>3, <2>4
<1>4. QED
  BY <1>1, <1>2, <1>3 DEF HookStep

LEMMA DeliveryStepKeepsService ==
    ASSUME ServiceInv, NEW d \in Deliveries,
           HookStep(d) \/ BindRpcFails(d) \/ BindApplied(d), UNCHANGED <<attestor, rescoreVars>>
    PROVE  ServiceInv'
<1>1. KycInv'
  BY DeliveryStepKeepsInv DEF ServiceInv
<1>2. ChainKept /\ \A k \in Calls : k # d => call'[k] = call[k]
  BY DeliveryStepSeenByJobs DEF ServiceInv, JobsInv
<1>3. \A r \in Rescores : r \in Calls /\ r # d
  BY RescoreAssumption
<1>4. JobsInv'
  BY <1>2, <1>3, JobsStand DEF ServiceInv, JobsInv, rescoreVars
<1>5. QED
  BY <1>1, <1>4 DEF ServiceInv

-----------------------------------------------------------------------------
(* Enqueueing takes a free job, whose thread has not run.                   *)
LEMMA EnqueueKeepsJobs ==
    ASSUME JobsInv, NEW r \in Rescores, NEW c \in Commitments, Enqueue(r, c),
           UNCHANGED <<wiVars, submitVars>>,
           membership' \in [Wallets -> Commitments \cup {None}],
           linking' \in [Wallets -> Commitments \cup {None}]
    PROVE  JobsInv'
<1> DEFINE q == [NoJob EXCEPT !.stage = "queued", !.group = c]
<1>1. /\ q \in JobRecord /\ q.stage = "queued" /\ q.group = c /\ q.kyc = FALSE
  BY DEF JobRecord, JobStages, NoJob
<1>2. job' = [job EXCEPT ![r] = q] /\ job[r].stage = "free"
  BY DEF Enqueue
<1> HIDE DEF q
<1>3. /\ job' \in [Rescores -> JobRecord] /\ job'[r] = q
      /\ \A s \in Rescores : s # r => job'[s] = job[s]
  BY <1>1, <1>2, JobMoves DEF JobsInv
<1>4. JobOK(r)'
  <2>1. call'[r].stage = "idle"
    BY <1>2 DEF JobsInv, JobOK, submitVars
  <2>2. ~job'[r].kyc
    BY <1>1, <1>3
  <2>3. QED
    BY <1>1, <1>3, <2>1, <2>2, SharedAssumption DEF JobOK
<1>5. ChainKept
  BY ScoresDropped DEF JobsInv, wiVars, groupVars, kycVars
<1>6. \A s \in Rescores : call'[s] = call[s]
  BY DEF submitVars
<1>7. QED
  BY <1>3, <1>4, <1>5, <1>6, JobsStand

LEMMA UserStepKeepsService ==
    ASSUME ServiceInv, UserStep, UNCHANGED <<attestor, submitVars, kycDbVars>>
    PROVE  ServiceInv'
<1> USE DEF ServiceInv
<1>0. /\ KycInv /\ JobsInv /\ IdentityInv
      /\ membership \in [Wallets -> Commitments \cup {None}]
      /\ linking \in [Wallets -> Commitments \cup {None}]
      /\ walletCommitment \in [Wallets -> Commitments \cup {None}]
      /\ DOMAIN identityAttestation = Commitments
  BY DEF JobsInv, KycInv, IdentityInv, WITypeOK
<1>a. ASSUME [WICalls]_wiVars, UNCHANGED nullifierCommitment PROVE KycInv'
  <2>1. IdentityInv'
    BY <1>0, <1>a, NextInv DEF IdentityNext, WINext, identityVars
  <2>2. SubmitInv'
    BY DEF KycInv, SubmitInv, SubmitTypeOK, submitVars
  <2>3. \A d \in Deliveries : call'[d] = call[d]
    BY DEF submitVars
  <2>4. QED
    BY <1>0, <1>a, <2>1, <2>2, <2>3, OthersKeepInv
<1>b. ASSUME UNCHANGED job, ChainKept,
             membership' \in [Wallets -> Commitments \cup {None}],
             linking' \in [Wallets -> Commitments \cup {None}]
      PROVE  JobsInv'
  <2>1. job' \in [Rescores -> JobRecord]
    BY <1>0, <1>b DEF JobsInv
  <2>2. \A r \in Rescores : job'[r] = job[r] /\ call'[r].stage = call[r].stage
    BY <1>b DEF submitVars
  <2>3. QED
    BY <1>0, <1>b, <2>1, <2>2, JobsStand
<1>c. UNCHANGED wiVars => KycInv' /\ ChainKept
  BY <1>a, <1>0, ScoresDropped DEF JobsInv, wiVars, groupVars, kycVars
<1>1. ASSUME NEW w \in Wallets, NEW c \in Commitments, NEW p \in IdentityProofs, Link(w, c, p)
      PROVE  ServiceInv'
  <2>1. /\ RegisterWallet(w, c, p) /\ linking' = [linking EXCEPT ![w] = c]
        /\ UNCHANGED <<membership, job>>
    BY <1>1 DEF Link
  <2>2. KycInv'
    BY <1>a, <2>1 DEF WICalls, RegisterWallet, kycVars
  <2>3. ChainKept
    BY <1>0, <2>1, ScoresDropped DEF JobsInv, RegisterWallet, kycVars
  <2>4. QED
    BY <1>0, <1>b, <2>1, <2>2, <2>3
<1>2. ASSUME NEW w \in Wallets, NEW r \in Rescores, RecordMembership(w, r)
      PROVE  ServiceInv'
  <2>1. linking[w] \in Commitments /\ Enqueue(r, linking[w]) /\ UNCHANGED wiVars
    BY <1>0, <1>2 DEF RecordMembership
  <2>2. /\ membership' \in [Wallets -> Commitments \cup {None}]
        /\ linking' \in [Wallets -> Commitments \cup {None}]
    BY <1>0, <1>2, <2>1 DEF RecordMembership
  <2>3. QED
    BY <1>0, <1>c, <2>1, <2>2, EnqueueKeepsJobs
<1>3. ASSUME NEW w \in Wallets, NEW r \in Rescores, ReattestDone(w, r)
      PROVE  ServiceInv'
  <2>1. /\ membership[w] \in Commitments /\ Enqueue(r, membership[w])
        /\ UNCHANGED <<wiVars, membership, linking>>
    BY <1>0, <1>3 DEF ReattestDone
  <2>2. QED
    BY <1>0, <1>c, <2>1, EnqueueKeepsJobs
<1>4. ASSUME NEW w \in Wallets, RecordFails(w) PROVE ServiceInv'
  <2>1. linking' = [linking EXCEPT ![w] = None] /\ UNCHANGED <<wiVars, membership, job>>
    BY <1>4 DEF RecordFails
  <2>2. QED
    BY <1>0, <1>b, <1>c, <2>1
<1>5. ASSUME NEW w \in Wallets, Leave(w) PROVE ServiceInv'
  <2>1. LeaveGroup(w) /\ UNCHANGED <<membership, linking, job>>
    BY <1>5 DEF Leave, rescoreVars
  <2>2. KycInv'
    BY <1>a, <2>1 DEF WICalls, LeaveGroup, kycVars
  <2>3. UNCHANGED kycVerified
    BY <2>1 DEF LeaveGroup, kycVars
  <2>4. \A c \in Commitments : identityAttestation'[c] \in {None, identityAttestation[c]}
    BY <1>0, <2>1 DEF LeaveGroup
  <2>5. ChainKept
    BY <1>0, <2>3, <2>4, ScoresDropped DEF JobsInv
  <2>6. QED
    BY <1>0, <1>b, <2>1, <2>2, <2>5
<1>6. QED
  BY <1>1, <1>2, <1>3, <1>4, <1>5 DEF UserStep

-----------------------------------------------------------------------------
(* What the steps of one job share: they leave the webhook's state alone,   *)
(* and the other jobs.                                                      *)
LEMMA JobStepKeepsService ==
    ASSUME ServiceInv, NEW r \in Rescores, IdentityInv', SubmitInv', ChainKept,
           UNCHANGED <<kycDbVars, nullifierCommitment, membership, linking>>,
           \A k \in Calls : k # r => call'[k] = call[k],
           job' \in [Rescores -> JobRecord],
           \A s \in Rescores : s # r => job'[s] = job[s],
           JobOK(r)'
    PROVE  ServiceInv'
<1>1. KycInv'
  <2>1. \A d \in Deliveries : call'[d] = call[d]
    BY KycAssumption, RescoreAssumption
  <2>2. QED
    BY <2>1, OthersKeepInv DEF ServiceInv
<1>2. JobsInv'
  <2>1. \A s \in Rescores : JobOK(s)' \/ (job'[s] = job[s] /\ call'[s].stage = call[s].stage)
    BY RescoreAssumption
  <2>2. QED
    BY <2>1, JobsStand DEF ServiceInv, JobsInv
<1>3. QED
  BY <1>1, <1>2 DEF ServiceInv

(* The reads: the members, the union's score, and last the KYC row, which   *)
(* says verified of a bound group only (VerifiedRowIsBound).                *)
LEMMA ReadsKeepService ==
    ASSUME ServiceInv, NEW r \in Rescores, RescoreReads(r), UNCHANGED <<attestor, kycDbVars>>
    PROVE  ServiceInv'
<1> USE DEF ServiceInv
<1>0. /\ KycInv /\ JobOK(r) /\ job \in [Rescores -> JobRecord] /\ ScoresBacked
      /\ UNCHANGED <<wiVars, membership, linking, submitVars, identityVars>>
      /\ job[r].stage \in {"queued", "scoring", "scored"}
  BY DEF JobsInv, RescoreReads, ReadMembers, AttestGroup, ReadKyc, identityVars
<1>1. job[r].group \in Commitments /\ call[r].stage \in {"idle", "returned", "raised"}
  BY <1>0 DEF JobOK, JobRecord
<1>2. /\ IdentityInv' /\ SubmitInv' /\ ChainKept
      /\ \A k \in Calls : k # r => call'[k] = call[k]
      /\ UNCHANGED <<nullifierCommitment, kycVerified, call>>
  BY <1>0, NextInv, ScoresDropped
     DEF KycInv, SubmitInv, SubmitTypeOK, submitVars, wiVars, groupVars, kycVars
<1>3. ASSUME NEW q \in JobRecord, job' = [job EXCEPT ![r] = q],
             q.group = job[r].group,
             q.stage \in {"scoring", "scored", "submitting", "done"},
             q.kyc => is_kyc_verified(job[r].group)
      PROVE  ServiceInv'
  <2>1. /\ job' \in [Rescores -> JobRecord] /\ job'[r] = q
        /\ \A s \in Rescores : s # r => job'[s] = job[s]
    BY <1>0, <1>3, JobMoves
  <2>2. q.kyc => kycVerified'[q.group]
    BY <1>2, <1>3 DEF is_kyc_verified
  <2>3. JobOK(r)'
    BY <1>1, <1>2, <1>3, <2>1, <2>2, SharedAssumption DEF JobOK, is_kyc_verified
  <2>4. QED
    BY <1>0, <1>2, <2>1, <2>3, JobStepKeepsService
<1>4. job[r] \in JobRecord /\ (job[r].kyc => is_kyc_verified(job[r].group))
  BY <1>0 DEF JobOK
<1>5. CASE ReadMembers(r)
  <2> DEFINE ms == MirroredMembers(job[r].group)
             q == [job[r] EXCEPT !.members = ms,
                                 !.stage = IF ms = {} THEN "done" ELSE "scoring"]
  <2>1. ms \in SUBSET Wallets
    BY DEF MirroredMembers
  <2>2. job' = [job EXCEPT ![r] = q]
    BY <1>5 DEF ReadMembers
  <2> HIDE DEF ms
  <2>3. /\ q \in JobRecord /\ q.group = job[r].group /\ q.kyc = job[r].kyc
        /\ q.stage \in {"scoring", "done"}
    BY <1>4, <2>1 DEF JobRecord, JobStages
  <2> HIDE DEF q
  <2>4. QED
    BY <1>3, <1>4, <2>2, <2>3
<1>6. CASE AttestGroup(r)
  <2>1. PICK stage \in {"scored", "done"} : job' = [job EXCEPT ![r].stage = stage]
    BY <1>6 DEF AttestGroup
  <2> DEFINE q == [job[r] EXCEPT !.stage = stage]
  <2>2. /\ q \in JobRecord /\ q.group = job[r].group /\ q.kyc = job[r].kyc
        /\ q.stage = stage /\ job' = [job EXCEPT ![r] = q]
    BY <1>4, <2>1 DEF JobRecord, JobStages
  <2> HIDE DEF q
  <2>3. QED
    BY <1>3, <1>4, <2>2
<1>7. CASE ReadKyc(r)
  <2> DEFINE k == kyc_status_verified(job[r].group)
             q == [job[r] EXCEPT !.stage = "submitting", !.kyc = k]
  <2>1. job' = [job EXCEPT ![r] = q]
    BY <1>7 DEF ReadKyc
  <2>2. k => is_kyc_verified(job[r].group)
    BY <1>0, <1>1, VerifiedRowIsBound
  <2>3. k \in BOOLEAN
    BY Zenon DEF kyc_status_verified
  <2> HIDE DEF k
  <2>4. /\ q \in JobRecord /\ q.group = job[r].group /\ q.kyc = k
        /\ q.stage = "submitting"
    BY <1>4, <2>3 DEF JobRecord, JobStages
  <2> HIDE DEF q
  <2>5. q.kyc => is_kyc_verified(job[r].group)
    BY <2>2, <2>4, Zenon
  <2>6. QED
    BY <1>3, <2>1, <2>4, <2>5
<1>8. QED
  BY <1>5, <1>6, <1>7 DEF RescoreReads

(* The thread, while the job submits; the job is done only once it ended.   *)
LEMMA ThreadKeepsService ==
    ASSUME ServiceInv, NEW r \in Rescores, RescoreThread(r) \/ RescoreRpcFails(r),
           UNCHANGED <<attestor, kycDbVars>>
    PROVE  ServiceInv'
<1> USE DEF ServiceInv
<1>0. /\ KycInv /\ JobOK(r) /\ job \in [Rescores -> JobRecord] /\ ScoresBacked
      /\ job[r].stage = "submitting" /\ job[r] \in JobRecord
      /\ UNCHANGED <<wiVars, membership, linking, identityVars>>
      /\ r \in Calls
  BY RescoreAssumption
     DEF JobsInv, RescoreThread, RescoreRpcFails, identityVars, rescoreVars
<1>1. /\ IdentityInv' /\ ChainKept
      /\ UNCHANGED <<nullifierCommitment, kycVerified>>
  BY <1>0, NextInv, ScoresDropped DEF KycInv, wiVars, groupVars, kycVars
<1>2. CASE /\ \/ LoadAccount(r) \/ Prepare(r, UpdateAccepted(r)) \/ Send(r) \/ PollTx(r)
              \/ RpcFails(r)
           /\ UNCHANGED job
  <2>1. SubmitInv' /\ \A j \in Calls : j # r => call'[j] = call[j]
    BY <1>0, <1>2, ThreadStep DEF KycInv
  <2>2. JobOK(r)'
    BY <1>0, <1>1, <1>2 DEF JobOK, is_kyc_verified
  <2>3. QED
    BY <1>0, <1>1, <1>2, <2>1, <2>2, JobStepKeepsService
<1>3. CASE Ended(r) /\ job' = [job EXCEPT ![r].stage = "done"] /\ UNCHANGED submitVars
  <2>1. SubmitInv' /\ UNCHANGED call
    BY <1>0, <1>3 DEF KycInv, SubmitInv, SubmitTypeOK, submitVars
  <2> DEFINE q == [job[r] EXCEPT !.stage = "done"]
  <2>2. /\ q \in JobRecord /\ q.group = job[r].group /\ q.kyc = job[r].kyc
        /\ q.stage = "done" /\ job' = [job EXCEPT ![r] = q]
    BY <1>0, <1>3 DEF JobRecord, JobStages
  <2> HIDE DEF q
  <2>3. /\ job' \in [Rescores -> JobRecord] /\ job'[r] = q
        /\ \A s \in Rescores : s # r => job'[s] = job[s]
    BY <1>0, <2>2, JobMoves
  <2>4. JobOK(r)'
    BY <1>0, <1>1, <1>3, <2>1, <2>2, <2>3 DEF JobOK, Ended, is_kyc_verified
  <2>5. QED
    BY <1>0, <1>1, <2>1, <2>3, <2>4, JobStepKeepsService
<1>4. QED
  BY <1>0, <1>2, <1>3 DEF RescoreThread, RescoreRpcFails, rescoreVars

(* The score a job has submitted is of its group, and claims what is bound.  *)
LEMMA ClaimIsBacked ==
    ASSUME ServiceInv, NEW r \in Rescores, call[r].tx = "pending"
    PROVE  /\ job[r].group \in Commitments /\ GroupData(r) \in AttestationData
           /\ GroupData(r).kyc_verified => is_kyc_verified(job[r].group)
<1>1. JobOK(r) /\ job[r] \in JobRecord /\ SubmitInv /\ r \in Calls
  BY RescoreAssumption DEF ServiceInv, JobsInv, KycInv
<1>2. job[r].group \in Commitments
  BY <1>1 DEF SubmitInv, JobOK, JobRecord
<1>3. GroupData(r) \in AttestationData /\ GroupData(r).kyc_verified = job[r].kyc
  <2>1. UnionBucket[job[r].members] \in Nat /\ job[r].kyc \in BOOLEAN
    BY <1>1, RescoreAssumption DEF JobRecord
  <2>2. QED
    BY <1>2, <2>1, KycAssumption, RescoreAssumption DEF GroupData, AttestationData
<1>4. QED
  BY <1>1, <1>2, <1>3 DEF JobOK

(* The ledger stores a score some steps after its claim was read.           *)
LEMMA UpdateAppliedKeepsService ==
    ASSUME ServiceInv, NEW r \in Rescores, UpdateApplied(r), UNCHANGED <<attestor, kycDbVars>>
    PROVE  ServiceInv'
<1> USE DEF ServiceInv
<1>0. /\ KycInv /\ IdentityInv /\ SubmitInv /\ JobOK(r) /\ job \in [Rescores -> JobRecord]
      /\ ScoresBacked /\ call[r].tx = "pending" /\ job[r] \in JobRecord
      /\ UNCHANGED <<membership, linking, job>> /\ r \in Calls
  BY RescoreAssumption DEF KycInv, JobsInv, UpdateApplied, rescoreVars
<1>1. job[r].group \in Commitments
  BY <1>0, ClaimIsBacked
<1>2. PICK x \in {"success", "failed", "dropped"} :
          /\ call' = [call EXCEPT ![r].tx = x]
          /\ accountSeq' \in {accountSeq, call[r].seq}
  BY DEF UpdateApplied, Applied, Drop
<1>3. /\ SubmitInv' /\ call'[r].stage = call[r].stage
      /\ \A j \in Calls : j # r => call'[j] = call[j]
  BY <1>0, <1>2, LedgerStep
<1>4. IdentityInv' /\ ChainKept /\ UNCHANGED nullifierCommitment
  <2>1. CASE UNCHANGED wiVars
    BY <1>0, <2>1, NextInv, ScoresDropped DEF identityVars, wiVars, groupVars, kycVars
  <2>2. CASE UpdateGroupScore(Service, job[r].group, GroupData(r))
    <3>1. /\ GroupData(r) \in AttestationData
          /\ GroupData(r).kyc_verified => is_kyc_verified(job[r].group)
      BY <1>0, ClaimIsBacked
    <3>2. IdentityInv'
      BY <1>0, <1>1, <2>2, <3>1, UpdateGroupScoreInv, KycAssumption
    <3>3. ChainKept
      BY <1>0, <1>1, <2>2, <3>1, ScoreKeepsChain
    <3>4. QED
      BY <2>2, <3>2, <3>3 DEF UpdateGroupScore, kycVars
  <2>3. QED
    BY <2>1, <2>2 DEF UpdateApplied
<1>5. JobOK(r)'
  <2>1. job[r].kyc => kycVerified'[job[r].group]
    BY <1>0, <1>4 DEF JobOK, ChainKept, is_kyc_verified
  <2>2. QED
    BY <1>0, <1>3, <2>1 DEF JobOK, is_kyc_verified
<1>6. QED
  BY <1>0, <1>3, <1>4, <1>5, JobStepKeepsService

(* A restart ends every job that was queued, and its thread with it.        *)
LEMMA RestartKeepsService ==
    ASSUME ServiceInv, Restart, UNCHANGED attestor
    PROVE  ServiceInv'
<1>0. /\ KycInv /\ JobsInv /\ Crash /\ UNCHANGED <<membership, linking>>
      /\ job' = [r \in Rescores |-> IF job[r].stage = "free" THEN job[r]
                                    ELSE [job[r] EXCEPT !.stage = "done"]]
      /\ call' = CallsAfterCrash /\ UNCHANGED wiVars
  BY DEF ServiceInv, Restart, Crash
<1>1. KycInv'
  BY <1>0, CrashKeepsInv
<1>2. ChainKept /\ UNCHANGED kycVerified
  BY <1>0, ScoresDropped DEF JobsInv, wiVars, groupVars, kycVars
<1>3. ASSUME NEW r \in Rescores PROVE job'[r] \in JobRecord /\ JobOK(r)'
  <2> DEFINE q == [job[r] EXCEPT !.stage = "done"]
  <2>0. job[r] \in JobRecord /\ JobOK(r) /\ r \in Calls /\ call[r].stage \in Stages
    BY <1>0, RescoreAssumption DEF JobsInv, KycInv, SubmitInv, SubmitTypeOK
  <2>1. q \in JobRecord /\ q.stage = "done" /\ q.group = job[r].group /\ q.kyc = job[r].kyc
    BY <2>0 DEF JobRecord, JobStages
  <2>2. job'[r] = IF job[r].stage = "free" THEN job[r] ELSE q
    BY <1>0
  <2> HIDE DEF q
  <2>3. /\ call'[r].stage \in {"idle", "returned", "raised"}
        /\ call[r].stage = "idle" => call'[r].stage = "idle"
    <3>1. call'[r] = IF call[r].stage \in {"loaded", "prepared", "sent"}
                     THEN [call[r] EXCEPT !.stage = "raised"] ELSE call[r]
      BY <1>0, <2>0 DEF CallsAfterCrash
    <3>2. call[r] \in [stage : Stages, seq : Nat, tx : TxStates]
      BY <1>0, <2>0 DEF KycInv, SubmitInv, SubmitTypeOK
    <3>3. QED
      BY <3>1, <3>2 DEF Stages
  <2>4. CASE job[r].stage = "free"
    BY <1>2, <2>0, <2>2, <2>3, <2>4 DEF JobOK, is_kyc_verified
  <2>5. CASE job[r].stage # "free"
    BY <1>2, <2>0, <2>1, <2>2, <2>3, <2>5 DEF JobOK, is_kyc_verified
  <2>6. QED
    BY <2>0, <2>1, <2>2, <2>4, <2>5
<1>4. job' \in [Rescores -> JobRecord]
  <2>1. job' = [r \in Rescores |-> job'[r]]
    BY <1>0
  <2>2. QED
    BY <1>3, <2>1
<1>5. JobsInv'
  BY <1>0, <1>2, <1>3, <1>4, JobsStand DEF JobsInv
<1>6. QED
  BY <1>1, <1>5 DEF ServiceInv

-----------------------------------------------------------------------------
LEMMA ServiceStepKeepsInv == ServiceInv /\ [ServiceNext]_serviceVars => ServiceInv'
<1> SUFFICES ASSUME ServiceInv, [ServiceNext]_serviceVars PROVE ServiceInv'
  OBVIOUS
<1>1. CASE UserStep /\ UNCHANGED <<attestor, submitVars, kycDbVars>>
  BY <1>1, UserStepKeepsService
<1>2. ASSUME NEW r \in Rescores, RescoreStep(r) \/ RescoreRpcFails(r),
             UNCHANGED <<attestor, kycDbVars>>
      PROVE  ServiceInv'
  BY <1>2, ReadsKeepService, ThreadKeepsService DEF RescoreStep
<1>3. ASSUME NEW r \in Rescores, UpdateApplied(r), UNCHANGED <<attestor, kycDbVars>>
      PROVE  ServiceInv'
  BY <1>3, UpdateAppliedKeepsService
<1>4. ASSUME NEW d \in Deliveries, HookStep(d) \/ BindRpcFails(d) \/ BindApplied(d),
             UNCHANGED <<attestor, rescoreVars>>
      PROVE  ServiceInv'
  BY <1>4, DeliveryStepKeepsService
<1>5. CASE Restart /\ UNCHANGED attestor
  BY <1>5, RestartKeepsService
<1>6. CASE UNCHANGED serviceVars
  <2>1. UNCHANGED kycFlowVars /\ UNCHANGED rescoreVars
    BY <1>6 DEF serviceVars
  <2>2. KycInv'
    BY <2>1, KycStepKeepsInv DEF ServiceInv
  <2>3. ChainKept /\ UNCHANGED call
    BY <2>1, ScoresDropped DEF ServiceInv, JobsInv, kycFlowVars, identityVars, submitVars,
        wiVars, groupVars, kycVars
  <2>4. JobsInv'
    BY <2>1, <2>3, JobsStand DEF ServiceInv, JobsInv, rescoreVars
  <2>5. QED
    BY <2>2, <2>4 DEF ServiceInv
<1>7. QED
  BY <1>1, <1>2, <1>3, <1>4, <1>5, <1>6 DEF ServiceNext

LEMMA ServiceInvHolds == ServiceSpec => []ServiceInv
<1>1. ServiceInit => ServiceInv
  BY InitEstablishesServiceInv
<1>2. ServiceInv /\ [ServiceNext]_serviceVars => ServiceInv'
  BY ServiceStepKeepsInv
<1>3. QED
  BY <1>1, <1>2, PTL DEF ServiceSpec

(* Types of the whole service, and that no job ends, or has yet to submit,  *)
(* with its thread running: the await of refresh_group holds.               *)
THEOREM ServiceTypeCorrect == ServiceSpec => []ServiceTypeOK
<1>1. ServiceInv => ServiceTypeOK
  <2> SUFFICES ASSUME ServiceInv PROVE ServiceTypeOK
    OBVIOUS
  <2>1. KycFlowTypeOK
    BY DEF ServiceInv, KycInv, KycFlowTypeOK, IdentityInv, SubmitInv
  <2>2. RescoreTypeOK
    BY DEF ServiceInv, JobsInv, JobOK, JobRecord, RescoreTypeOK
  <2>3. QED
    BY <2>1, <2>2 DEF ServiceTypeOK
<1>2. QED
  BY <1>1, ServiceInvHolds, PTL

(* A score that claims KYC is submitted, and stored, for a bound group      *)
(* only, however long before the claim was read: what ZKreditContracts      *)
(* assumes of the attestor.                                                 *)
THEOREM ClaimsAreBacked == ServiceSpec => []AttestorCertifiesOnlyBound
<1>1. ServiceInv => AttestorCertifiesOnlyBound
  <2> SUFFICES ASSUME ServiceInv PROVE AttestorCertifiesOnlyBound
    OBVIOUS
  <2>1. \A r \in Rescores : job[r].kyc => is_kyc_verified(job[r].group)
    BY DEF ServiceInv, JobsInv, JobOK
  <2>2. QED
    BY <2>1 DEF ServiceInv, JobsInv, ScoresBacked, AttestorCertifiesOnlyBound
<1>2. QED
  BY <1>1, ServiceInvHolds, PTL
-----------------------------------------------------------------------------
(* What the service asks of the contract: the users' calls, the binds, and   *)
(* as a registered attestor a group score whose claim is backed.            *)
AttestedCall ==
    \/ WICalls
    \/ \E c \in Commitments, data \in AttestationData :
           (data.kyc_verified => is_kyc_verified(c)) /\ UpdateGroupScore(Service, c, data)

LEMMA UserStepIsAttested ==
    ASSUME UserStep
    PROVE  [AttestedCall]_wiVars
<1>1. ASSUME NEW w \in Wallets, NEW c \in Commitments, NEW p \in IdentityProofs, Link(w, c, p)
      PROVE  WICalls
  BY <1>1 DEF Link, WICalls
<1>2. ASSUME NEW w \in Wallets, NEW r \in Rescores,
             RecordMembership(w, r) \/ ReattestDone(w, r)
      PROVE  UNCHANGED wiVars
  BY <1>2 DEF RecordMembership, ReattestDone
<1>3. ASSUME NEW w \in Wallets, Leave(w) PROVE WICalls
  BY <1>3 DEF Leave, WICalls
<1>4. ASSUME NEW w \in Wallets, RecordFails(w) PROVE UNCHANGED wiVars
  BY <1>4 DEF RecordFails
<1>5. QED
  BY <1>1, <1>2, <1>3, <1>4 DEF UserStep, AttestedCall

LEMMA DeliveryStepIsAttested ==
    ASSUME KycInv, NEW d \in Deliveries, HookStep(d) \/ BindRpcFails(d) \/ BindApplied(d)
    PROVE  [AttestedCall]_wiVars
<1>1. CASE HookStep(d) \/ BindRpcFails(d)
  BY <1>1 DEF HookStep, RecordOther, SelectNullifier, InsertApproved, BindThread, SetBindTx,
              BindRpcFails
<1>2. CASE BindApplied(d) /\ BindKyc(Service, Event[d].commitment, Event[d].nullifier)
  <2>1. NeedsBind(d) /\ d \in Calls
    BY <1>2, KycAssumption DEF BindApplied, KycInv, HooksInv, SubmitInv
  <2>2. Event[d].commitment \in Commitments /\ Event[d].nullifier \in Nullifiers
    BY <2>1, KycAssumption DEF NeedsBind
  <2>3. QED
    BY <1>2, <2>2, KycAssumption DEF AttestedCall, WICalls
<1>3. QED
  BY <1>1, <1>2 DEF BindApplied

LEMMA UpdateAppliedIsAttested ==
    ASSUME ServiceInv, NEW r \in Rescores, UpdateApplied(r)
    PROVE  [AttestedCall]_wiVars
<1>1. call[r].tx = "pending"
  BY DEF UpdateApplied
<1>2. QED
  BY <1>1, ClaimIsBacked DEF UpdateApplied, AttestedCall

LEMMA ServiceStepIsAttested ==
    ServiceInv /\ [ServiceNext]_serviceVars => [AttestedCall]_wiVars
<1> SUFFICES ASSUME ServiceInv, [ServiceNext]_serviceVars PROVE [AttestedCall]_wiVars
  OBVIOUS
<1>1. ASSUME NEW r \in Rescores, RescoreStep(r) \/ RescoreRpcFails(r)
      PROVE  UNCHANGED wiVars
  BY <1>1 DEF RescoreStep, RescoreReads, RescoreThread, RescoreRpcFails
<1>2. CASE Restart \/ UNCHANGED serviceVars
  BY <1>2 DEF Restart, Crash, serviceVars, kycFlowVars, identityVars
<1>3. QED
  BY <1>1, <1>2, UserStepIsAttested, DeliveryStepIsAttested, UpdateAppliedIsAttested
     DEF ServiceNext, ServiceInv

(* The guard ZKreditContracts puts on its attestor (AttestedScore) is kept   *)
(* by the service at the moment the ledger applies the call, which is after *)
(* any number of steps, lost answers and restarts since the claim was read. *)
THEOREM ServiceKeepsAttestorGuard == ServiceSpec => [][AttestedCall]_wiVars
BY ServiceStepIsAttested, ServiceInvHolds, PTL DEF ServiceSpec

(* The service on its ledger implements the abstract identity groups: rows,  *)
(* jobs, threads and restarts are stutters, and what reaches the chain late *)
(* or twice is still a join, a leave, a score or a first verification.      *)
THEOREM ServiceRefinesGroups == ServiceSpec => ImplementsIdentityGroups
<1>1. ServiceInit => Abstract!Init
  BY InitMaps DEF ServiceInit, KycFlowInit
<1>2. ServiceInv /\ [AttestedCall]_wiVars => [Abstract!Next]_(Abstract!absVars)
  <2> SUFFICES ASSUME ServiceInv, [AttestedCall]_wiVars
               PROVE  [Abstract!Next]_(Abstract!absVars)
    OBVIOUS
  <2>1. IdentityInv
    BY DEF ServiceInv, KycInv
  <2>2. ASSUME NEW c \in Commitments, NEW data \in AttestationData,
               UpdateGroupScore(Service, c, data)
        PROVE  Abstract!Next
    BY <2>1, <2>2, UpdateGroupScoreMaps, KycAssumption DEF Abstract!Next
  <2>3. QED
    BY <2>1, <2>2, CallMaps, UnchangedMaps DEF AttestedCall
<1>3. QED
  BY <1>1, <1>2, ServiceInvHolds, ServiceKeepsAttestorGuard, PTL
     DEF ServiceSpec, ImplementsIdentityGroups, Abstract!Spec
=============================================================================
