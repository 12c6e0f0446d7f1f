---------------------------- MODULE ProvingJobs ----------------------------
(***************************************************************************)
(* Asynchronous attestation (api/proving_jobs.py, the prepare routes of    *)
(* api/routes/v1.py, ml/risc0/runpod_prover.py, and the polling page of    *)
(* frontend/src/lib/attestor.ts).  POST prepare commits a row, spawns an   *)
(* asyncio task and answers; the task scores, proves, builds and writes    *)
(* the row; the page polls the row.  Rows survive the API machine, tasks   *)
(* do not, and a RunPod job outlives both.                                 *)
(*                                                                         *)
(* Left out: the payload, all of which the task makes from its own wallet, *)
(* and the group re-score that ends a successful task (ReattestDone of     *)
(* GroupRescore), of which only the failures matter to the job.            *)
(***************************************************************************)
EXTENDS Naturals, FiniteSets

CONSTANTS
    Users,          \* the wallets, each with one page
    Jobs,           \* the job ids uuid4 will give out
    None,           \* absent
    MaxStops        \* bound on stops of the API machine

OpenStatus   == {"queued", "proving"}
Terminal     == {"succeeded", "failed"}
Modes        == {"live_cosign", "demo_fixture_cosign"}

ASSUME ProvingAssumption ==
    /\ MaxStops \in Nat
    /\ None \notin Users \cup Jobs \cup OpenStatus \cup Terminal \cup Modes

VARIABLES
    prover,         \* what prove_wallet finds: RunPod, a host binary, nothing
    row,            \* the proving_jobs table
    task,           \* of each job: where _run_prepare_job is
    proof,          \* of each job: its run of the prover
    page,           \* of each wallet: what its page does, with which job
    stops

provingVars == <<prover, row, task, proof, page, stops>>

Working      == {"created", "marked", "waiting", "receipt", "fixture", "saved", "failing"}
\* A task ends; or is lost with its machine; or its last write raises.
TaskStages   == Working \cup {"none", "over", "lost", "unwritten"}
PageStages   == {"idle", "posting", "polling", "signing", "error"}

ProvingTypeOK ==
    /\ prover \in {"runpod", "host", "absent"}
    /\ row \in [Jobs -> [wallet : Users \cup {None}, mode : Modes \cup {None},
                         status : OpenStatus \cup Terminal \cup {None}]]
    /\ task \in [Jobs -> TaskStages]
    /\ proof \in [Jobs -> {"none", "running", "completed", "failed"}]
    /\ page \in [Users -> [stage : PageStages, job : Jobs \cup {None}]]
    /\ stops \in 0..MaxStops
    /\ \A j \in Jobs : row[j].mode # None <=> row[j].status = "succeeded"

NoRow == [wallet |-> None, status |-> None, mode |-> None]

ProvingInit ==
    /\ prover \in {"runpod", "host", "absent"}
    /\ row = [j \in Jobs |-> NoRow]
    /\ task = [j \in Jobs |-> "none"]
    /\ proof = [j \in Jobs |-> "none"]
    /\ page = [u \in Users |-> [stage |-> "idle", job |-> None]]
    /\ stops = 0

At(j, stage) == task[j] = stage

Goto(j, stage) == task' = [task EXCEPT ![j] = stage]

(* uuid4: an id no row and no request in flight has.                       *)
Unused(j) == row[j] = NoRow /\ \A u \in Users : page[u].job # j

create_job(j, u) == row' = [row EXCEPT ![j] = [NoRow EXCEPT !.wallet = u, !.status = "queued"]]
-----------------------------------------------------------------------------
Prepare_TaskInserts(u, j) ==    \* mutant: the row is left to the task to insert
    /\ page[u].stage \in {"idle", "error"} /\ Unused(j)
    /\ page' = [page EXCEPT ![u] = [stage |-> "posting", job |-> j]]
    /\ UNCHANGED <<prover, row, task, proof, stops>>

(* startPrepareAttestation, and create_job, which commits before the task  *)
(* is spawned.  A page that gave up may be asked to try again.             *)
Prepare(u, j) ==
    /\ page[u].stage \in {"idle", "error"} /\ Unused(j)
    /\ page' = [page EXCEPT ![u] = [stage |-> "posting", job |-> j]]
    /\ create_job(j, u)
    /\ UNCHANGED <<prover, task, proof, stops>>

(* create_task, and the answer.                                            *)
SpawnTask(u) ==
    /\ page[u].stage = "posting"
    /\ task' = [task EXCEPT ![page[u].job] = "created"]
    /\ page' = [page EXCEPT ![u].stage = "polling"]
    /\ UNCHANGED <<prover, row, proof, stops>>

\* The request, the commit's answer or the page's answer is lost: with
\* neither row nor task, a row without a task, or both.
PostFails(u) ==
    /\ page[u].stage = "posting"
    /\ page' = [page EXCEPT ![u] = [stage |-> "error", job |-> None]]
    /\ \/ UNCHANGED <<row, task>>
       \/ row' = [row EXCEPT ![page[u].job] = NoRow] /\ UNCHANGED task
       \/ task' = [task EXCEPT ![page[u].job] = "created"] /\ UNCHANGED row
    /\ UNCHANGED <<prover, proof, stops>>

(* refresh_sweep enqueues the same job for a wallet near its expiry, with  *)
(* no page to poll it; it does not look for a job already there.           *)
Sweep(u, j) ==
    /\ Unused(j)
    /\ create_job(j, u)
    /\ Goto(j, "created")
    /\ UNCHANGED <<prover, proof, page, stops>>
-----------------------------------------------------------------------------
(* _run_prepare_job, under one try: mark_proving ...                       *)
MarkProving(j) ==
    /\ At(j, "created")
    /\ row' = [row EXCEPT ![j].status = "proving"]
    /\ Goto(j, "marked")
    /\ UNCHANGED <<prover, proof, page, stops>>

(* ... attest and the feature vector, then prove_wallet in a thread: with   *)
(* no toolchain it raises at once, and the fixture is used ...             *)
NoProver(j) ==
    /\ At(j, "marked") /\ prover = "absent"
    /\ Goto(j, "fixture")
    /\ UNCHANGED <<prover, row, proof, page, stops>>

(* ... or the host binary is run, here or against a Bento node ...         *)
RunHost(j) ==
    /\ At(j, "marked") /\ prover = "host"
    /\ proof' = [proof EXCEPT ![j] = "running"]
    /\ Goto(j, "waiting")
    /\ UNCHANGED <<prover, row, page, stops>>

(* ... or RunPod takes the job.  A submission that raises, because it was   *)
(* refused or its answer lost, may have left the job running there.        *)
SubmitRunPod(j) ==
    /\ At(j, "marked") /\ prover = "runpod"
    /\ \/ /\ proof' = [proof EXCEPT ![j] = "running"]
          /\ Goto(j, "waiting")
       \/ /\ proof' \in {proof, [proof EXCEPT ![j] = "running"]}
          /\ Goto(j, "failing")
    /\ UNCHANGED <<prover, row, page, stops>>

\* The worker, or the host subprocess: it finishes, fails or times out.
ProofSettles(j) ==
    /\ proof[j] = "running"
    /\ \E result \in {"completed", "failed"} : proof' = [proof EXCEPT ![j] = result]
    /\ UNCHANGED <<prover, row, task, page, stops>>

TakeProof_OnlyCompleted(j) ==   \* mutant: a FAILED job is polled on, without a deadline
    /\ At(j, "waiting") /\ proof[j] = "completed"
    /\ Goto(j, "receipt")
    /\ UNCHANGED <<prover, row, proof, page, stops>>

(* The poll of /status, or the end of the subprocess.  A failure is raised *)
(* with RunPod, and answered by the committed fixture without.             *)
TakeProof(j) ==
    /\ At(j, "waiting")
    /\ \/ proof[j] = "completed" /\ Goto(j, "receipt")
       \/ proof[j] = "failed" /\ prover = "runpod" /\ Goto(j, "failing")
       \/ proof[j] = "failed" /\ prover = "host" /\ Goto(j, "fixture")
    /\ UNCHANGED <<prover, row, proof, page, stops>>

finish_job(j, status, mode) == row' = [row EXCEPT ![j].status = status, ![j].mode = mode]

SaveResult_ByProver(j) ==       \* mutant: live wherever there is a prover to ask
    /\ task[j] \in {"receipt", "fixture"}
    /\ finish_job(j, "succeeded",
                  IF prover # "absent" THEN "live_cosign" ELSE "demo_fixture_cosign")
    /\ Goto(j, "saved")
    /\ UNCHANGED <<prover, proof, page, stops>>

(* prepare_attestation_submission names the mode after what it was given,  *)
(* and the result is written.                                              *)
SaveResult(j) ==
    /\ task[j] \in {"receipt", "fixture"}
    /\ finish_job(j, "succeeded",
                  IF At(j, "receipt") THEN "live_cosign" ELSE "demo_fixture_cosign")
    /\ Goto(j, "saved")
    /\ UNCHANGED <<prover, proof, page, stops>>

(* commitment_for_wallet and enqueue_group_rescore, still under the try.   *)
Rescore(j) ==
    /\ At(j, "saved")
    /\ Goto(j, "over")
    /\ UNCHANGED <<prover, row, proof, page, stops>>

(* Any step in the try can raise: the database, the scoring, a build       *)
(* without keys, the re-score.                                             *)
Raise(j) ==
    /\ task[j] \in {"created", "marked", "receipt", "fixture", "saved"}
    /\ Goto(j, "failing")
    /\ UNCHANGED <<prover, row, proof, page, stops>>

SaveFailure_KeepsResult(j) ==   \* mutant: only the status is written
    /\ At(j, "failing")
    /\ finish_job(j, "failed", row[j].mode)
    /\ Goto(j, "over")
    /\ UNCHANGED <<prover, proof, page, stops>>

(* The handler's own finish_job, over whatever the row holds.              *)
SaveFailure(j) ==
    /\ At(j, "failing")
    /\ finish_job(j, "failed", None)
    /\ Goto(j, "over")
    /\ UNCHANGED <<prover, proof, page, stops>>

\* That write raises too: nobody retrieves the task's exception.
FailureUnwritten(j) ==
    /\ At(j, "failing")
    /\ Goto(j, "unwritten")
    /\ UNCHANGED <<prover, row, proof, page, stops>>
-----------------------------------------------------------------------------
Poll_JobIdMeansQueued(u) ==     \* mutant: every answer carries a job_id
    LET r == row[page[u].job] IN
    /\ page[u].stage = "polling"
    /\ page' = [page EXCEPT ![u].stage = IF r.status = "failed" THEN "error" ELSE "polling"]
    /\ UNCHANGED <<prover, row, task, proof, stops>>

(* getAttestationJob: get_proving_job reads the row, the page branches on  *)
(* its status.                                                             *)
Poll(u) ==
    LET r == row[page[u].job] IN
    /\ page[u].stage = "polling"
    /\ \/ r.status = "succeeded" /\ page' = [page EXCEPT ![u].stage = "signing"]
       \/ /\ r.status \in {"failed", None}
          /\ page' = [page EXCEPT ![u] = [stage |-> "error", job |-> None]]
       \/ r.status \in OpenStatus /\ UNCHANGED page
    /\ UNCHANGED <<prover, row, task, proof, stops>>

\* One request that fails ends the loop; so does closing the page.
PollFails(u) ==
    /\ page[u].stage = "polling"
    /\ page' = [page EXCEPT ![u] = [stage |-> "error", job |-> None]]
    /\ UNCHANGED <<prover, row, task, proof, stops>>

(* The API machine is stopped (fly.toml: it scales to zero), crashes or is *)
(* deployed anew: tasks, threads and subprocesses are gone.  The next      *)
(* request starts it again; nothing reads the open rows.                   *)
StopMachine ==
    /\ stops < MaxStops
    /\ stops' = stops + 1
    /\ task' = [j \in Jobs |-> IF task[j] \in Working
                               THEN "lost" ELSE task[j]]
    /\ proof' = [j \in Jobs |-> IF prover = "host" /\ proof[j] = "running"
                                THEN "failed" ELSE proof[j]]
    /\ page' = [u \in Users |-> IF page[u].stage = "posting"
                                THEN [stage |-> "error", job |-> None] ELSE page[u]]
    /\ UNCHANGED <<prover, row>>

TaskStep(j) ==
    \/ MarkProving(j) \/ NoProver(j) \/ RunHost(j) \/ SubmitRunPod(j)
    \/ TakeProof(j) \/ SaveResult(j) \/ Rescore(j) \/ SaveFailure(j)

PageStep(u) == SpawnTask(u) \/ Poll(u)

ProvingNext ==
    \/ \E u \in Users : PageStep(u)
    \/ \E u \in Users : PostFails(u) \/ PollFails(u)
    \/ \E u \in Users, j \in Jobs : Prepare(u, j) \/ Sweep(u, j)
    \/ \E j \in Jobs : TaskStep(j)
    \/ \E j \in Jobs : Raise(j) \/ FailureUnwritten(j)
    \/ \E j \in Jobs : ProofSettles(j)
    \/ StopMachine

ProvingSpec == ProvingInit /\ [][ProvingNext]_provingVars

(* The event loop runs its tasks while the machine is up, an open page     *)
(* keeps polling, and a worker ends what it was given.  Nothing need fail. *)
ProvingFairSpec ==
    /\ ProvingSpec
    /\ \A j \in Jobs : WF_provingVars(TaskStep(j)) /\ WF_provingVars(ProofSettles(j))
    /\ \A u \in Users : WF_provingVars(PageStep(u))
-----------------------------------------------------------------------------
(* The id a page is given is good at once and stays its own: the row is     *)
(* committed before the answer, so no poll is answered 404, and no retry,   *)
(* sweep or restart puts another wallet's result behind it.                 *)
PolledJobIsOwn ==
    \A u \in Users : page[u].stage \in {"polling", "signing"} => row[page[u].job].wallet = u

(* "labeled honestly" (api/contract_stub.py:134): a stored result is live   *)
(* exactly when the proof of this very job completed, and a fixture         *)
(* otherwise, whatever stops, sweeps and retries of the wallet go on beside. *)
LabelIsHonest ==
    \A j \in Jobs : row[j].status = "succeeded" =>
        (row[j].mode = "live_cosign" <=> proof[j] = "completed")

(* "any failure is surfaced through the poll" (api/routes/v1.py:260): an    *)
(* accepted job comes to a terminal row whatever raises and however RunPod  *)
(* ends it, though no deadline is set; only a stop of the machine, or a     *)
(* database that refuses the failure as well, can leave the row open.       *)
JobsEnd ==
    \A j \in Jobs :
        row[j].status \in OpenStatus /\ task[j] \in Working
            ~> \/ row[j].status \in Terminal
               \/ task[j] \in {"lost", "unwritten"}

(* The page's loop has no bound of its own, and ends all the same: in a     *)
(* transaction to sign or an error, unless its task was taken from it.      *)
PagesEnd ==
    \A u \in Users : \A j \in Jobs :
        page[u] = [stage |-> "polling", job |-> j]
            ~> \/ page[u] # [stage |-> "polling", job |-> j]
               \/ task[j] \in {"lost", "unwritten"}

(* What PolledJobIsOwn and LabelIsHonest rest on: a page's job is its own    *)
(* from the moment the row is inserted; a row is new while its task is not  *)
(* yet spawned, and a result is only found behind a task that wrote it.     *)
PageOwnsJob ==
    \A u \in Users : page[u].stage \in {"posting", "polling", "signing"} =>
        page[u].job \in Jobs /\ row[page[u].job].wallet = u

TaskFollowsRow ==
    /\ \A u \in Users : page[u].stage = "posting" => task[page[u].job] = "none"
    /\ \A j \in Jobs : row[j] = NoRow => task[j] = "none"
    /\ \A j \in Jobs : row[j].status = "succeeded" =>
           task[j] \in {"saved", "failing", "over", "lost", "unwritten"}

TaskHoldsProof ==
    \A j \in Jobs :
        /\ task[j] = "receipt" => proof[j] = "completed"
        /\ task[j] = "fixture" => proof[j] \in {"none", "failed"}
        /\ task[j] \in {"none", "created", "marked"} => proof[j] = "none"
        /\ row[j].status = "succeeded" => proof[j] # "running"

ProvingInv ==
    ProvingTypeOK /\ PageOwnsJob /\ TaskFollowsRow /\ TaskHoldsProof /\ LabelIsHonest

(* api/routes/v1.py:255-256: once the result is saved, the wallet's group   *)
(* is re-scored "(fire-and-forget)", and api/proving_jobs.py:90 calls the   *)
(* saved state terminal.  The re-score is inside the job's try: when it     *)
(* raises, the saved result is replaced by a failure.                       *)
SavedResultStands ==
    [][\A j \in Jobs : row[j].status = "succeeded" => row'[j] = row[j]]_provingVars
=============================================================================
