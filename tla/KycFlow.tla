------------------------------ MODULE KycFlow ------------------------------
(***************************************************************************)
(* The KYC webhook (api/routes/kyc.py, api/kyc/store.py, api/kyc/          *)
(* service.py): a verification result is recorded in Postgres, and an      *)
(* approved one is bound on chain, through WalletIdentity.bind_kyc and the *)
(* attestor's account.  The provider delivers at least once and in any     *)
(* order, so deliveries are handled side by side; the process can stop     *)
(* between two of their steps.                                             *)
(*                                                                         *)
(* Left out: the 503, 401 and no-commitment answers, which change nothing, *)
(* and the document, of which only its nullifier is ever kept.             *)
(***************************************************************************)
EXTENDS WalletIdentity, AttestorSubmit, Sequences

CONSTANTS
    Deliveries,     \* the webhook deliveries made
    Event,          \* of each delivery: commitment, nullifier or None, status
    Service,        \* the attestor the API signs as
    MaxCrashes      \* bound on restarts of the API process

Statuses == {"approved", "declined", "in_review", "pending", "abandoned"}

ASSUME KycAssumption ==
    /\ Deliveries \subseteq Calls
    /\ Service \in Attestors
    /\ None \notin Nullifiers
    /\ MaxCrashes \in Nat
    /\ Event \in [Deliveries -> [commitment : Commitments,
                                 nullifier : Nullifiers \cup {None}, status : Statuses]]

VARIABLES
    kycRows,    \* the kyc_verifications table, in order of id
    hook,       \* of each delivery: how far its handler is
    txnClock,   \* the database clock func.now() reads, one tick a transaction
    crashes

kycDbVars == <<kycRows, hook, txnClock, crashes>>

HookStages == {"waiting", "selected", "recorded", "approved", "noted",
               "duplicate_nullifier", "server_error", "crashed"}

\* Types, and that only an approval ever takes a nullifier.
KycDbTypeOK ==
    /\ hook \in [Deliveries -> [stage : HookStages, created : Nat]]
    /\ txnClock \in Nat
    /\ crashes \in 0..MaxCrashes
    /\ \A i \in DOMAIN kycRows :
           kycRows[i] \in [commitment : Commitments, nullifier : Nullifiers \cup {None},
                           status : Statuses, bind_tx : BOOLEAN, created_at : Nat]
    /\ \A i \in DOMAIN kycRows : kycRows[i].nullifier # None => kycRows[i].status = "approved"

KycDbInit ==
    /\ kycRows = <<>>
    /\ hook = [d \in Deliveries |-> [stage |-> "waiting", created |-> 0]]
    /\ txnClock = 0
    /\ crashes = 0

RowOf(d, created) ==
    [commitment |-> Event[d].commitment, nullifier |-> Event[d].nullifier,
     status |-> Event[d].status, bind_tx |-> FALSE, created_at |-> created]

HasNullifier(n) == \E i \in DOMAIN kycRows : kycRows[i].nullifier = n

Goto(d, stage) == hook' = [hook EXCEPT ![d].stage = stage]

NeedsBind(d) == Event[d].status = "approved" /\ Event[d].nullifier # None
-----------------------------------------------------------------------------
RecordOther_KeepsNullifier(d) ==    \* mutant: derived before the status is looked at
    /\ hook[d].stage = "waiting" /\ ~NeedsBind(d)
    /\ kycRows' = Append(kycRows, RowOf(d, txnClock))
    /\ txnClock' = txnClock + 1
    /\ Goto(d, "noted")
    /\ UNCHANGED <<wiVars, submitVars, crashes>>

(* A result that is not approved, or has no document, is one INSERT.       *)
RecordOther(d) ==
    /\ hook[d].stage = "waiting" /\ ~NeedsBind(d)
    /\ kycRows' = Append(kycRows, [RowOf(d, txnClock) EXCEPT !.nullifier = None])
    /\ txnClock' = txnClock + 1
    /\ Goto(d, "noted")
    /\ UNCHANGED <<wiVars, submitVars, crashes>>

(* record_verification opens a transaction and selects the nullifier ...   *)
SelectNullifier(d) ==
    /\ hook[d].stage = "waiting" /\ NeedsBind(d)
    /\ \/ /\ \E i \in DOMAIN kycRows :
                 /\ kycRows[i].nullifier = Event[d].nullifier
                 /\ kycRows[i].commitment # Event[d].commitment
          /\ Goto(d, "duplicate_nullifier")
       \/ /\ ~ \E i \in DOMAIN kycRows :
                 /\ kycRows[i].nullifier = Event[d].nullifier
                 /\ kycRows[i].commitment # Event[d].commitment
          /\ hook' = [hook EXCEPT ![d] = [stage |-> "selected", created |-> txnClock]]
    /\ txnClock' = txnClock + 1
    /\ UNCHANGED <<wiVars, submitVars, kycRows, crashes>>

InsertApproved_NotUnique(d) ==  \* mutant: the nullifier column is not unique
    /\ hook[d].stage = "selected"
    /\ kycRows' = Append(kycRows, RowOf(d, hook[d].created))
    /\ Goto(d, "recorded")
    /\ UNCHANGED <<wiVars, submitVars, txnClock, crashes>>

(* ... and inserts: the unique column turns any second row with the        *)
(* nullifier into an IntegrityError, a 500 answer, the same commitment's   *)
(* second row included.                                                    *)
InsertApproved(d) ==
    /\ hook[d].stage = "selected"
    /\ \/ /\ HasNullifier(Event[d].nullifier)
          /\ Goto(d, "server_error")
          /\ UNCHANGED kycRows
       \/ /\ ~HasNullifier(Event[d].nullifier)
          /\ kycRows' = Append(kycRows, RowOf(d, hook[d].created))
          /\ Goto(d, "recorded")
    /\ UNCHANGED <<wiVars, submitVars, txnClock, crashes>>

(* submit_bind_kyc_onchain, in a thread, for a recorded approval.          *)
BindAccepted(d) ==
    /\ require_registered_attestor(Service)
    /\ nullifierCommitment[Event[d].nullifier] \in {None, Event[d].commitment}

BindThread(d) ==
    /\ hook[d].stage = "recorded"
    /\ \/ LoadAccount(d)
       \/ Prepare(d, BindAccepted(d))
       \/ Send(d)
       \/ PollTx(d)
    /\ UNCHANGED <<wiVars, kycDbVars>>

BindRpcFails(d) ==
    /\ hook[d].stage = "recorded" /\ RpcFails(d)
    /\ UNCHANGED <<wiVars, kycDbVars>>

(* The ledger executes bind_kyc, or finds it refused, or drops it.         *)
BindApplied(d) ==
    /\ call[d].tx = "pending"
    /\ \/ /\ BindAccepted(d) /\ Applied(d, TRUE)
          /\ BindKyc(Service, Event[d].commitment, Event[d].nullifier)
       \/ ~BindAccepted(d) /\ Applied(d, FALSE) /\ UNCHANGED wiVars
       \/ Drop(d) /\ UNCHANGED wiVars
    /\ UNCHANGED kycDbVars

SetBindTx_Always(d) ==          \* mutant: the hash is stored for a raised call too
    /\ hook[d].stage = "recorded" /\ Ended(d)
    /\ kycRows' = [i \in DOMAIN kycRows |->
                      IF /\ kycRows[i].commitment = Event[d].commitment
                         /\ kycRows[i].nullifier = Event[d].nullifier
                      THEN [kycRows[i] EXCEPT !.bind_tx = TRUE] ELSE kycRows[i]]
    /\ Goto(d, "approved")
    /\ UNCHANGED <<wiVars, submitVars, txnClock, crashes>>

(* set_bind_tx, then the answer; the row is the only one with the          *)
(* nullifier.  Either the submission or this write may raise: the handler  *)
(* swallows it and still answers "approved".                               *)
SetBindTx(d) ==
    /\ hook[d].stage = "recorded" /\ Ended(d)
    /\ \/ UNCHANGED kycRows
       \/ /\ call[d].stage = "returned"
          /\ kycRows' = [i \in DOMAIN kycRows |->
                            IF /\ kycRows[i].commitment = Event[d].commitment
                               /\ kycRows[i].nullifier = Event[d].nullifier
                            THEN [kycRows[i] EXCEPT !.bind_tx = TRUE] ELSE kycRows[i]]
    /\ Goto(d, "approved")
    /\ UNCHANGED <<wiVars, submitVars, txnClock, crashes>>

(* The API process stops: its handlers and their threads are gone, what    *)
(* they had sent is not.                                                   *)
HooksAfterCrash ==
    [d \in Deliveries |->
        IF hook[d].stage \in {"selected", "recorded"}
        THEN [hook[d] EXCEPT !.stage = "crashed"] ELSE hook[d]]

CallsAfterCrash ==
    [k \in Calls |->
        IF call[k].stage \in {"loaded", "prepared", "sent"}
        THEN [call[k] EXCEPT !.stage = "raised"] ELSE call[k]]

Crash ==
    /\ crashes < MaxCrashes
    /\ crashes' = crashes + 1
    /\ hook' = HooksAfterCrash
    /\ call' = CallsAfterCrash
    /\ UNCHANGED <<wiVars, accountSeq, kycRows, txnClock>>

(* kyc_status: the latest row of the commitment, by created_at, then id.   *)
LatestRow(c) ==
    CHOOSE i \in DOMAIN kycRows :
        /\ kycRows[i].commitment = c
        /\ \A j \in DOMAIN kycRows :
               kycRows[j].commitment = c =>
                   \/ kycRows[j].created_at < kycRows[i].created_at
                   \/ kycRows[j].created_at = kycRows[i].created_at /\ j <= i

kyc_status_verified(c) ==
    /\ \E i \in DOMAIN kycRows : kycRows[i].commitment = c
    /\ kycRows[LatestRow(c)].status = "approved" /\ kycRows[LatestRow(c)].bind_tx

HookStep(d) ==
    RecordOther(d) \/ SelectNullifier(d) \/ InsertApproved(d) \/ BindThread(d) \/ SetBindTx(d)

kycFlowVars == <<identityVars, submitVars, kycDbVars>>

KycFlowInit ==
    /\ attestor = [a \in Attestors |-> a = Service]
    /\ wiRegistrySet = TRUE /\ identityVk \in IdentityVKs
    /\ GroupsInit
    /\ SubmitInit
    /\ KycDbInit

KycFlowNext ==
    \/ \E d \in Deliveries : (HookStep(d) \/ BindRpcFails(d) \/ BindApplied(d)) /\ UNCHANGED attestor
    \/ Crash /\ UNCHANGED attestor
    \/ RegistryNext /\ UNCHANGED <<wiVars, submitVars, kycDbVars>>

KycFlowSpec == KycFlowInit /\ [][KycFlowNext]_kycFlowVars

(* Threads and handlers run on while the process does, and the network     *)
(* settles every transaction before its time bounds are long past.  No     *)
(* request need ever fail.                                                 *)
KycFlowFairSpec ==
    /\ KycFlowSpec
    /\ \A d \in Deliveries :
           /\ WF_kycFlowVars(HookStep(d) /\ UNCHANGED attestor)
           /\ WF_kycFlowVars(BindApplied(d) /\ UNCHANGED attestor)
-----------------------------------------------------------------------------
KycFlowTypeOK == WITypeOK /\ SubmitTypeOK /\ KycDbTypeOK

(* One human, one identity, off chain and on: no two handlers ever submit   *)
(* one nullifier for two commitments, whatever the interleaving of their    *)
(* selects and inserts, and a nullifier bound on chain is recorded under    *)
(* the same commitment ("the DB mirror of the on-chain invariant",          *)
(* ml/data/models.py:127-128).                                              *)
OneIdentityPerHuman ==
    /\ \A d, e \in Deliveries :
           ( /\ call[d].stage # "idle" /\ call[e].stage # "idle"
             /\ Event[d].nullifier = Event[e].nullifier )
                 => Event[d].commitment = Event[e].commitment
    /\ \A n \in Nullifiers :
           nullifierCommitment[n] # None =>
               \E i \in DOMAIN kycRows :
                   /\ kycRows[i].nullifier = n
                   /\ kycRows[i].commitment = nullifierCommitment[n]

(* The API never reports a verification the chain does not hold: what       *)
(* GET /kyc/status and the group re-score read as verified is bound, after  *)
(* lost answers, deadlines and restarts too.                                *)
StatusTrueMeansBound ==
    \A c \in Commitments : kyc_status_verified(c) => is_kyc_verified(c)

(* The deadline bounds every submission: a thread that has begun ends, a    *)
(* dropped transaction included, so its handler answers the provider.       *)
SubmissionsEnd ==
    \A d \in Deliveries : hook[d].stage = "recorded" ~> hook[d].stage # "recorded"

(* api/kyc/store.py:70-72, record_verification: "Returns recorded normally, *)
(* or duplicate_nullifier when nullifier is already bound to a different    *)
(* commitment".  A second delivery of the same approval gets neither: the   *)
(* insert fails, so the row "kept for retry" cannot be retried.             *)
SameIdentityIsRecorded ==
    \A d \in Deliveries : hook[d].stage # "server_error"
=============================================================================
