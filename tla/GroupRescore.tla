---------------------------- MODULE GroupRescore ----------------------------
(***************************************************************************)
(* The group re-score (api/services/group_rescore.py) beside what feeds    *)
(* it: wallets that register and leave on chain, the membership rows the   *)
(* front end mirrors them with (api/routes/identity.py,                    *)
(* frontend/src/pages/Identity.tsx), the prepare jobs that trigger it, the *)
(* KYC webhook whose row it reads, and the attestor account both submit    *)
(* through.  A job is a fire-and-forget task: it reads the rows, scores    *)
(* their union, reads the KYC row, and submits, with an await between any  *)
(* two of these; its failures are logged and nothing retries it.           *)
(***************************************************************************)
EXTENDS KycFlow

CONSTANTS
    Rescores,       \* bound: the jobs that can be enqueued
    UnionBucket,    \* the bucket attest_group gives a set of wallets' union history
    CurrentModel    \* the distilled_model_hash of the artifacts loaded

ASSUME RescoreAssumption ==
    /\ Rescores \subseteq Calls /\ Rescores \cap Deliveries = {}
    /\ UnionBucket \in [SUBSET Wallets -> Nat]
    /\ CurrentModel \in Models

VARIABLES
    membership,     \* the group_memberships table: wallet to commitment
    linking,        \* the commitment a wallet's page has yet to record
    job             \* of each re-score: its step and what it has read

rescoreVars == <<membership, linking, job>>

JobStages == {"free", "queued", "scoring", "scored", "submitting", "done"}

NoJob == [stage |-> "free", group |-> None, members |-> {}, kyc |-> FALSE]

\* Types, and that no job ends, or has yet to submit, with its thread running.
RescoreTypeOK ==
    /\ membership \in [Wallets -> Commitments \cup {None}]
    /\ linking \in [Wallets -> Commitments \cup {None}]
    /\ job \in [Rescores -> [stage : JobStages, group : Commitments \cup {None},
                             members : SUBSET Wallets, kyc : BOOLEAN]]
    /\ \A r \in Rescores :
           /\ job[r].stage = "free" <=> job[r].group = None
           /\ job[r].stage # "submitting" => call[r].stage \in {"idle", "returned", "raised"}

RescoreInit ==
    /\ membership = [w \in Wallets |-> None]
    /\ linking = [w \in Wallets |-> None]
    /\ job = [r \in Rescores |-> NoJob]

(* enqueue_group_rescore.                                                  *)
Enqueue(r, c) ==
    /\ job[r].stage = "free"
    /\ job' = [job EXCEPT ![r] = [NoJob EXCEPT !.stage = "queued", !.group = c]]

(* Identity.tsx link: register on chain, then record the membership, which *)
(* may fail with a warning and is not tried again.                         *)
Link(w, c, p) ==
    /\ linking[w] = None
    /\ RegisterWallet(w, c, p)
    /\ linking' = [linking EXCEPT ![w] = c]
    /\ UNCHANGED <<membership, job>>

RecordMembership_OldGroup(w, r) ==      \* mutant: re-scores the group left behind
    /\ linking[w] # None
    /\ membership' = [membership EXCEPT ![w] = linking[w]]
    /\ linking' = [linking EXCEPT ![w] = None]
    /\ IF membership[w] = None THEN UNCHANGED job ELSE Enqueue(r, membership[w])
    /\ UNCHANGED wiVars

RecordMembership(w, r) ==
    /\ linking[w] # None
    /\ membership' = [membership EXCEPT ![w] = linking[w]]
    /\ linking' = [linking EXCEPT ![w] = None]
    /\ Enqueue(r, linking[w])
    /\ UNCHANGED wiVars

RecordFails(w) ==
    /\ linking[w] # None
    /\ linking' = [linking EXCEPT ![w] = None]
    /\ UNCHANGED <<wiVars, membership, job>>

(* Identity.tsx leave: the chain only.                                     *)
Leave(w) ==
    /\ linking[w] = None
    /\ LeaveGroup(w)
    /\ UNCHANGED rescoreVars

(* _run_prepare_job, once a wallet's proof is stored (v1.py:257-259).      *)
ReattestDone(w, r) ==
    /\ membership[w] # None
    /\ Enqueue(r, membership[w])
    /\ UNCHANGED <<wiVars, membership, linking>>
-----------------------------------------------------------------------------
MirroredMembers(c) == {w \in Wallets : membership[w] = c}

ReadMembers(r) ==
    /\ job[r].stage = "queued"
    /\ job' = [job EXCEPT ![r].members = MirroredMembers(job[r].group),
                          ![r].stage = IF MirroredMembers(job[r].group) = {}
                                       THEN "done" ELSE "scoring"]

\* attest_group ingests every member and scores the union, or raises.
AttestGroup(r) ==
    /\ job[r].stage = "scoring"
    /\ \E stage \in {"scored", "done"} : job' = [job EXCEPT ![r].stage = stage]

ReadKyc_AnyRow(r) ==            \* mutant: bind_tx_hash is not looked at
    /\ job[r].stage = "scored"
    /\ job' = [job EXCEPT ![r].stage = "submitting",
                          ![r].kyc = \E i \in DOMAIN kycRows :
                                        /\ kycRows[i].commitment = job[r].group
                                        /\ kycRows[i].status = "approved"]

ReadKyc(r) ==
    /\ job[r].stage = "scored"
    /\ job' = [job EXCEPT ![r].stage = "submitting",
                          ![r].kyc = kyc_status_verified(job[r].group)]

RescoreReads(r) ==
    /\ ReadMembers(r) \/ AttestGroup(r) \/ ReadKyc(r)
    /\ UNCHANGED <<wiVars, membership, linking, submitVars>>

(* The attestation update_group_score is called with; issued_at and        *)
(* expires_at, which no contract compares for a group, are left at zero.   *)
GroupData(r) ==
    [risk_bucket |-> UnionBucket[job[r].members], distilled_model_hash |-> CurrentModel,
     zk_verified |-> FALSE, attestor |-> Service, issued_at |-> 0, expires_at |-> 0,
     kyc_verified |-> job[r].kyc, identity_commitment |-> job[r].group]

UpdateAccepted(r) ==
    require_registered_attestor(Service) /\ memberCount[job[r].group] # 0

RescoreThread_NotAwaited(r) ==  \* mutant: the job does not await its thread
    /\ job[r].stage = "submitting"
    /\ \/ /\ LoadAccount(r) \/ Prepare(r, UpdateAccepted(r)) \/ Send(r) \/ PollTx(r)
          /\ UNCHANGED job
       \/ /\ job' = [job EXCEPT ![r].stage = "done"]
          /\ UNCHANGED submitVars
    /\ UNCHANGED <<wiVars, membership, linking>>

RescoreThread(r) ==
    /\ job[r].stage = "submitting"
    /\ \/ /\ LoadAccount(r) \/ Prepare(r, UpdateAccepted(r)) \/ Send(r) \/ PollTx(r)
          /\ UNCHANGED job
       \/ /\ Ended(r)
          /\ job' = [job EXCEPT ![r].stage = "done"]
          /\ UNCHANGED submitVars
    /\ UNCHANGED <<wiVars, membership, linking>>

RescoreRpcFails(r) ==
    /\ job[r].stage = "submitting" /\ RpcFails(r)
    /\ UNCHANGED <<wiVars, rescoreVars>>

UpdateApplied(r) ==
    /\ call[r].tx = "pending"
    /\ \/ /\ UpdateAccepted(r) /\ Applied(r, TRUE)
          /\ UpdateGroupScore(Service, job[r].group, GroupData(r))
       \/ ~UpdateAccepted(r) /\ Applied(r, FALSE) /\ UNCHANGED wiVars
       \/ Drop(r) /\ UNCHANGED wiVars
    /\ UNCHANGED rescoreVars

(* One process runs the handlers and the jobs; a restart ends both.        *)
Restart ==
    /\ Crash
    /\ job' = [r \in Rescores |-> IF job[r].stage = "free" THEN job[r]
                                  ELSE [job[r] EXCEPT !.stage = "done"]]
    /\ UNCHANGED <<membership, linking>>

serviceVars == <<kycFlowVars, rescoreVars>>

ServiceInit == KycFlowInit /\ RescoreInit

UserStep ==
    \/ \E w \in Wallets, c \in Commitments, p \in IdentityProofs : Link(w, c, p)
    \/ \E w \in Wallets, r \in Rescores : RecordMembership(w, r) \/ ReattestDone(w, r)
    \/ \E w \in Wallets : RecordFails(w) \/ Leave(w)

RescoreStep(r) == RescoreReads(r) \/ RescoreThread(r)

ServiceNext ==
    \/ UserStep /\ UNCHANGED <<attestor, submitVars, kycDbVars>>
    \/ \E r \in Rescores :
           (RescoreStep(r) \/ RescoreRpcFails(r)) /\ UNCHANGED <<attestor, kycDbVars>>
    \/ \E r \in Rescores : UpdateApplied(r) /\ UNCHANGED <<attestor, kycDbVars>>
    \/ \E d \in Deliveries :
           (HookStep(d) \/ BindRpcFails(d) \/ BindApplied(d)) /\ UNCHANGED <<attestor, rescoreVars>>
    \/ Restart /\ UNCHANGED attestor

ServiceSpec == ServiceInit /\ [][ServiceNext]_serviceVars

(* A wallet's page runs on, and so do the process and the network.         *)
ServiceFairSpec ==
    /\ ServiceSpec
    /\ \A w \in Wallets :
           WF_serviceVars((\E r \in Rescores : RecordMembership(w, r))
                              /\ UNCHANGED <<attestor, submitVars, kycDbVars>>)
    /\ \A r \in Rescores :
           /\ WF_serviceVars(RescoreStep(r) /\ UNCHANGED <<attestor, kycDbVars>>)
           /\ WF_serviceVars(UpdateApplied(r) /\ UNCHANGED <<attestor, kycDbVars>>)
-----------------------------------------------------------------------------
ServiceTypeOK == KycFlowTypeOK /\ RescoreTypeOK

(* What ZKreditContracts assumes of the attestor: a score that claims KYC   *)
(* is only ever submitted, and stored, for a bound group, though the claim  *)
(* was read from Postgres some steps before the ledger applies it.          *)
AttestorCertifiesOnlyBound ==
    /\ \A r \in Rescores : job[r].kyc => is_kyc_verified(job[r].group)
    /\ \A c \in Commitments :
           (identityAttestation[c] # None /\ identityAttestation[c].kyc_verified)
               => is_kyc_verified(c)

\* A job that has read w as a member of c, and is at one of the stages.
HasRead(w, c, stages) ==
    \E r \in Rescores :
        job[r].group = c /\ w \in job[r].members /\ job[r].stage \in stages

(* A wallet new to a group is followed up, though its job shares the account *)
(* and the rows with other calls: once the wallet asks to be recorded, some  *)
(* job reads the group's rows with it in, and comes to an end, unless the    *)
(* wallet moves on, the process stops, or no job is left (Rescores is a      *)
(* bound).  It does not say that the score "folds the new member in          *)
(* immediately" (api/routes/identity.py:7-8), which can fail: scoring may    *)
(* raise, the submission may lose the account's sequence number and is not   *)
(* tried again, and the score of an older job may land after it.             *)
JoinIsFollowedUp ==
    \A w \in Wallets, c \in Commitments :
        linking[w] = c /\ membership[w] # c /\ ~HasRead(w, c, JobStages) ~>
            \/ HasRead(w, c, {"done"})
            \/ linking[w] # c /\ membership[w] # c
            \/ linking[w] = c /\ \A r \in Rescores : job[r].stage # "free"
            \/ crashes > 0

(* api/services/group_rescore.py:3-6: "When a member of an identity group   *)
(* re-attests, joins, or leaves, the group's shared score must be           *)
(* recomputed over the union of all its wallets' history".  Once a group's  *)
(* membership settles and every member is recorded, some job must score     *)
(* exactly its members, as long as jobs can be enqueued.  A leaver stays in *)
(* the rows, and leaving enqueues nothing.                                  *)
SettledGroupIsRescored ==
    \A c \in Commitments : \A S \in (SUBSET Wallets) \ {{}} :
        ( /\ <>[](Members(c) = S /\ S \subseteq MirroredMembers(c))
          /\ [](\E r \in Rescores : job[r].stage = "free") )
            => <>(\E r \in Rescores : job[r].group = c /\ job[r].members = S)
=============================================================================
