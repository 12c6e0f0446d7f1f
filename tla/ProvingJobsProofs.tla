------------------------- MODULE ProvingJobsProofs -------------------------
(***************************************************************************)
(* Safety of the prepare jobs, for every number of wallets, jobs and stops *)
(* and every prover.  ProvingInv is inductive; one lemma per action.       *)
(***************************************************************************)
EXTENDS ProvingJobs, TLAPS

(* Nothing is enqueued, polled or proved at first.                          *)
LEMMA InitEstablishesInv == ProvingInit => ProvingInv
  <1> SUFFICES ASSUME ProvingInit PROVE ProvingInv  OBVIOUS
  <1> USE ProvingAssumption DEF ProvingInit, NoRow
  <1>1. ProvingTypeOK
    BY DEF ProvingTypeOK, Terminal, OpenStatus, Modes, TaskStages, Working, PageStages
  <1>2. PageOwnsJob
    BY DEF PageOwnsJob
  <1>3. TaskFollowsRow
    BY DEF TaskFollowsRow, Terminal
  <1>4. TaskHoldsProof
    BY DEF TaskHoldsProof
  <1>5. LabelIsHonest
    BY DEF LabelIsHonest, Terminal
  <1> QED  BY <1>1, <1>2, <1>3, <1>4, <1>5 DEF ProvingInv

(* A row with a status is not an absent one.                                *)
LEMMA StatusIsNotNew ==
    ASSUME NEW r, r.status \in OpenStatus \cup Terminal
    PROVE  r # NoRow
  <1>1. NoRow.status = None
    BY DEF NoRow
  <1>2. None \notin OpenStatus \cup Terminal
    BY ProvingAssumption
  <1> QED  BY <1>1, <1>2

(* The insertion takes an id that no page has.                              *)
LEMMA PrepareKeepsInv ==
    ASSUME NEW u \in Users, NEW j \in Jobs, ProvingInv, Prepare(u, j)
    PROVE  ProvingInv'
  <1> USE ProvingAssumption DEF ProvingInv, Prepare, create_job, Unused, NoRow
  <1>1. ProvingTypeOK'
    BY DEF ProvingTypeOK, Terminal, OpenStatus, Modes, PageStages
  <1>2. PageOwnsJob'
    BY DEF PageOwnsJob, ProvingTypeOK
  <1>3. TaskFollowsRow'
    BY DEF TaskFollowsRow, ProvingTypeOK, PageOwnsJob, Terminal, OpenStatus
  <1>4. TaskHoldsProof'
    BY DEF TaskHoldsProof
  <1>5. LabelIsHonest'
    BY DEF LabelIsHonest, ProvingTypeOK
  <1> QED  BY <1>1, <1>2, <1>3, <1>4, <1>5

(* Two posting pages have two jobs, as their rows have two wallets.          *)
LEMMA SpawnTaskKeepsInv ==
    ASSUME NEW u \in Users, ProvingInv, SpawnTask(u)
    PROVE  ProvingInv'
  <1> USE ProvingAssumption DEF ProvingInv, SpawnTask
  <1>1. ProvingTypeOK'
    BY DEF ProvingTypeOK, Terminal, OpenStatus, Modes, TaskStages, Working, PageStages
  <1>2. PageOwnsJob'
    BY DEF PageOwnsJob, ProvingTypeOK
  <1>3. TaskFollowsRow'
    <2>1. \A v \in Users : page'[v].stage = "posting" => task'[page'[v].job] = "none"
      BY DEF TaskFollowsRow, ProvingTypeOK, PageOwnsJob
    <2>2. \A k \in Jobs : row'[k] = NoRow => task'[k] = "none"
      BY DEF TaskFollowsRow, ProvingTypeOK, PageOwnsJob, NoRow, OpenStatus, Terminal
    <2>3. \A k \in Jobs : row'[k].status = "succeeded" =>
             task'[k] \in {"saved", "failing", "over", "lost", "unwritten"}
      BY DEF TaskFollowsRow, ProvingTypeOK, PageOwnsJob, Terminal
    <2> QED  BY <2>1, <2>2, <2>3 DEF TaskFollowsRow
  <1>4. TaskHoldsProof'
    <2>1. page[u].job \in Jobs /\ task[page[u].job] = "none" /\ proof[page[u].job] = "none"
      BY DEF TaskHoldsProof, TaskFollowsRow, PageOwnsJob
    <2> QED  BY <2>1 DEF TaskHoldsProof, ProvingTypeOK
  <1>5. LabelIsHonest'
    BY DEF LabelIsHonest, TaskFollowsRow, TaskHoldsProof, ProvingTypeOK
  <1> QED  BY <1>1, <1>2, <1>3, <1>4, <1>5

(* A row that is taken back had no task.                                     *)
LEMMA PostFailsKeepsInv ==
    ASSUME NEW u \in Users, ProvingInv, PostFails(u)
    PROVE  ProvingInv'
  <1> USE ProvingAssumption DEF ProvingInv, PostFails, NoRow
  <1>1. ProvingTypeOK'
    BY DEF ProvingTypeOK, Terminal, OpenStatus, Modes, TaskStages, Working, PageStages
  <1>2. PageOwnsJob'
    BY DEF PageOwnsJob, ProvingTypeOK
  <1>3. TaskFollowsRow'
    <2>1. \A v \in Users : page'[v].stage = "posting" => task'[page'[v].job] = "none"
      BY DEF TaskFollowsRow, ProvingTypeOK, PageOwnsJob
    <2>2. \A k \in Jobs : row'[k] = NoRow => task'[k] = "none"
      BY DEF TaskFollowsRow, ProvingTypeOK, PageOwnsJob, NoRow, OpenStatus, Terminal
    <2>3. \A k \in Jobs : row'[k].status = "succeeded" =>
             task'[k] \in {"saved", "failing", "over", "lost", "unwritten"}
      BY DEF TaskFollowsRow, ProvingTypeOK, PageOwnsJob, Terminal
    <2> QED  BY <2>1, <2>2, <2>3 DEF TaskFollowsRow
  <1>4. TaskHoldsProof'
    <2>1. page[u].job \in Jobs /\ task[page[u].job] = "none" /\ proof[page[u].job] = "none"
      BY DEF TaskHoldsProof, TaskFollowsRow, PageOwnsJob
    <2>2. \A k \in Jobs : row'[k].status = "succeeded" => row[k].status = "succeeded"
      BY DEF ProvingTypeOK, Terminal
    <2>3. \A k \in Jobs : task'[k] = task[k] \/ (task'[k] = "created" /\ proof[k] = "none")
      BY <2>1 DEF ProvingTypeOK
    <2> QED  BY <2>2, <2>3 DEF TaskHoldsProof
  <1>5. LabelIsHonest'
    <2>1. \A k \in Jobs : row'[k].status = "succeeded" => row'[k] = row[k]
      BY DEF ProvingTypeOK, Terminal
    <2> QED  BY <2>1 DEF LabelIsHonest
  <1> QED  BY <1>1, <1>2, <1>3, <1>4, <1>5

(* A sweep takes an id that no page has.                                     *)
LEMMA SweepKeepsInv ==
    ASSUME NEW u \in Users, NEW j \in Jobs, ProvingInv, Sweep(u, j)
    PROVE  ProvingInv'
  <1> USE ProvingAssumption DEF ProvingInv, Sweep, create_job, Unused, Goto, NoRow
  <1>1. ProvingTypeOK'
    BY DEF ProvingTypeOK, Terminal, OpenStatus, Modes, TaskStages, Working, PageStages
  <1>2. PageOwnsJob'
    BY DEF PageOwnsJob, ProvingTypeOK
  <1>3. TaskFollowsRow'
    <2>1. \A v \in Users : page'[v].stage = "posting" => task'[page'[v].job] = "none"
      BY DEF TaskFollowsRow, ProvingTypeOK, PageOwnsJob
    <2>2. \A k \in Jobs : row'[k] = NoRow => task'[k] = "none"
      <3>1. row'[j].status = "queued"
        BY DEF ProvingTypeOK
      <3>2. row'[j] # NoRow
        BY <3>1, StatusIsNotNew DEF OpenStatus, Terminal
      <3>3. \A k \in Jobs : k # j => row'[k] = row[k] /\ task'[k] = task[k]
        BY DEF ProvingTypeOK
      <3> QED  BY <3>2, <3>3 DEF TaskFollowsRow
    <2>3. \A k \in Jobs : row'[k].status = "succeeded" =>
             task'[k] \in {"saved", "failing", "over", "lost", "unwritten"}
      BY DEF TaskFollowsRow, ProvingTypeOK, PageOwnsJob, Terminal
    <2> QED  BY <2>1, <2>2, <2>3 DEF TaskFollowsRow
  <1>4. TaskHoldsProof'
    <2>1. task[j] = "none" /\ proof[j] = "none"
      BY DEF TaskFollowsRow, TaskHoldsProof
    <2>2. row'[j].status = "queued" /\ task'[j] = "created"
      BY DEF ProvingTypeOK
    <2>3. \A k \in Jobs : k # j => row'[k] = row[k] /\ task'[k] = task[k]
      BY DEF ProvingTypeOK
    <2> QED  BY <2>1, <2>2, <2>3 DEF TaskHoldsProof
  <1>5. LabelIsHonest'
    BY DEF LabelIsHonest, TaskFollowsRow, TaskHoldsProof, ProvingTypeOK
  <1> QED  BY <1>1, <1>2, <1>3, <1>4, <1>5

(* A task that is marked has not written a result.                           *)
LEMMA MarkProvingKeepsInv ==
    ASSUME NEW j \in Jobs, ProvingInv, MarkProving(j)
    PROVE  ProvingInv'
  <1> USE ProvingAssumption DEF ProvingInv, MarkProving, At, Goto
  <1>1. ProvingTypeOK'
    BY DEF ProvingTypeOK, Terminal, OpenStatus, Modes, TaskStages, Working, PageStages, TaskFollowsRow
  <1>2. PageOwnsJob'
    BY DEF PageOwnsJob, ProvingTypeOK
  <1>3. TaskFollowsRow'
    <2>1. \A v \in Users : page'[v].stage = "posting" => task'[page'[v].job] = "none"
      BY DEF TaskFollowsRow, ProvingTypeOK, PageOwnsJob
    <2>2. \A k \in Jobs : row'[k] = NoRow => task'[k] = "none"
      BY DEF TaskFollowsRow, ProvingTypeOK, PageOwnsJob, NoRow, OpenStatus, Terminal
    <2>3. \A k \in Jobs : row'[k].status = "succeeded" =>
             task'[k] \in {"saved", "failing", "over", "lost", "unwritten"}
      BY DEF TaskFollowsRow, ProvingTypeOK, PageOwnsJob, Terminal
    <2> QED  BY <2>1, <2>2, <2>3 DEF TaskFollowsRow
  <1>4. TaskHoldsProof'
    BY DEF TaskHoldsProof, ProvingTypeOK
  <1>5. LabelIsHonest'
    BY DEF LabelIsHonest, TaskFollowsRow, TaskHoldsProof, ProvingTypeOK
  <1> QED  BY <1>1, <1>2, <1>3, <1>4, <1>5

(* The fixture is taken up only where no prover is.                          *)
LEMMA NoProverKeepsInv ==
    ASSUME NEW j \in Jobs, ProvingInv, NoProver(j)
    PROVE  ProvingInv'
  <1> USE ProvingAssumption DEF ProvingInv, NoProver, At, Goto
  <1>1. ProvingTypeOK'
    BY DEF ProvingTypeOK, Terminal, OpenStatus, Modes, TaskStages, Working, PageStages
  <1>2. PageOwnsJob'
    BY DEF PageOwnsJob, ProvingTypeOK
  <1>3. TaskFollowsRow'
    BY DEF TaskFollowsRow, ProvingTypeOK, PageOwnsJob
  <1>4. TaskHoldsProof'
    BY DEF TaskHoldsProof, ProvingTypeOK
  <1>5. LabelIsHonest'
    BY DEF LabelIsHonest, TaskFollowsRow, TaskHoldsProof, ProvingTypeOK
  <1> QED  BY <1>1, <1>2, <1>3, <1>4, <1>5

(* A host run starts before anything is written.                             *)
LEMMA RunHostKeepsInv ==
    ASSUME NEW j \in Jobs, ProvingInv, RunHost(j)
    PROVE  ProvingInv'
  <1> USE ProvingAssumption DEF ProvingInv, RunHost, At, Goto
  <1>1. ProvingTypeOK'
    BY DEF ProvingTypeOK, Terminal, OpenStatus, Modes, TaskStages, Working, PageStages
  <1>2. PageOwnsJob'
    BY DEF PageOwnsJob, ProvingTypeOK
  <1>3. TaskFollowsRow'
    BY DEF TaskFollowsRow, ProvingTypeOK, PageOwnsJob
  <1>4. TaskHoldsProof'
    BY DEF TaskHoldsProof, TaskFollowsRow, ProvingTypeOK
  <1>5. LabelIsHonest'
    BY DEF LabelIsHonest, TaskFollowsRow, TaskHoldsProof, ProvingTypeOK
  <1> QED  BY <1>1, <1>2, <1>3, <1>4, <1>5

(* So does a RunPod job, raised or not.                                      *)
LEMMA SubmitRunPodKeepsInv ==
    ASSUME NEW j \in Jobs, ProvingInv, SubmitRunPod(j)
    PROVE  ProvingInv'
  <1> USE ProvingAssumption DEF ProvingInv, SubmitRunPod, At, Goto
  <1>1. ProvingTypeOK'
    BY DEF ProvingTypeOK, Terminal, OpenStatus, Modes, TaskStages, Working, PageStages
  <1>2. PageOwnsJob'
    BY DEF PageOwnsJob, ProvingTypeOK
  <1>3. TaskFollowsRow'
    BY DEF TaskFollowsRow, ProvingTypeOK, PageOwnsJob
  <1>4. TaskHoldsProof'
    BY DEF TaskHoldsProof, TaskFollowsRow, ProvingTypeOK
  <1>5. LabelIsHonest'
    BY DEF LabelIsHonest, TaskFollowsRow, TaskHoldsProof, ProvingTypeOK
  <1> QED  BY <1>1, <1>2, <1>3, <1>4, <1>5

(* A completed proof stays completed.                                        *)
LEMMA ProofSettlesKeepsInv ==
    ASSUME NEW j \in Jobs, ProvingInv, ProofSettles(j)
    PROVE  ProvingInv'
  <1> USE ProvingAssumption DEF ProvingInv, ProofSettles
  <1>1. ProvingTypeOK'
    BY DEF ProvingTypeOK, Terminal, OpenStatus, Modes, TaskStages, Working, PageStages
  <1>2. PageOwnsJob'
    BY DEF PageOwnsJob, ProvingTypeOK
  <1>3. TaskFollowsRow'
    BY DEF TaskFollowsRow, ProvingTypeOK, PageOwnsJob
  <1>4. TaskHoldsProof'
    BY DEF TaskHoldsProof, ProvingTypeOK
  <1>5. LabelIsHonest'
    BY DEF LabelIsHonest, TaskFollowsRow, TaskHoldsProof, ProvingTypeOK
  <1> QED  BY <1>1, <1>2, <1>3, <1>4, <1>5

(* A receipt is taken from a completed proof, a fixture without one.         *)
LEMMA TakeProofKeepsInv ==
    ASSUME NEW j \in Jobs, ProvingInv, TakeProof(j)
    PROVE  ProvingInv'
  <1> USE ProvingAssumption DEF ProvingInv, TakeProof, At, Goto
  <1>1. ProvingTypeOK'
    BY DEF ProvingTypeOK, Terminal, OpenStatus, Modes, TaskStages, Working, PageStages
  <1>2. PageOwnsJob'
    BY DEF PageOwnsJob, ProvingTypeOK
  <1>3. TaskFollowsRow'
    BY DEF TaskFollowsRow, ProvingTypeOK, PageOwnsJob
  <1>4. TaskHoldsProof'
    BY DEF TaskHoldsProof, ProvingTypeOK
  <1>5. LabelIsHonest'
    BY DEF LabelIsHonest, TaskFollowsRow, TaskHoldsProof, ProvingTypeOK
  <1> QED  BY <1>1, <1>2, <1>3, <1>4, <1>5

(* The label written is the one of what the task holds.                      *)
LEMMA SaveResultKeepsInv ==
    ASSUME NEW j \in Jobs, ProvingInv, SaveResult(j)
    PROVE  ProvingInv'
  <1> USE ProvingAssumption DEF ProvingInv, SaveResult, finish_job, At, Goto
  <1>1. ProvingTypeOK'
    BY DEF ProvingTypeOK, Terminal, OpenStatus, Modes, TaskStages, Working, PageStages, TaskFollowsRow
  <1>2. PageOwnsJob'
    BY DEF PageOwnsJob, ProvingTypeOK
  <1>3. TaskFollowsRow'
    <2>1. \A v \in Users : page'[v].stage = "posting" => task'[page'[v].job] = "none"
      BY DEF TaskFollowsRow, ProvingTypeOK, PageOwnsJob
    <2>2. \A k \in Jobs : row'[k] = NoRow => task'[k] = "none"
      <3>1. row'[j].status = "succeeded"
        BY DEF ProvingTypeOK
      <3>2. row'[j] # NoRow
        BY <3>1, StatusIsNotNew DEF OpenStatus, Terminal
      <3>3. \A k \in Jobs : k # j => row'[k] = row[k] /\ task'[k] = task[k]
        BY DEF ProvingTypeOK
      <3> QED  BY <3>2, <3>3 DEF TaskFollowsRow
    <2>3. \A k \in Jobs : row'[k].status = "succeeded" =>
             task'[k] \in {"saved", "failing", "over", "lost", "unwritten"}
      BY DEF TaskFollowsRow, ProvingTypeOK, PageOwnsJob, Terminal
    <2> QED  BY <2>1, <2>2, <2>3 DEF TaskFollowsRow
  <1>4. TaskHoldsProof'
    BY DEF TaskHoldsProof, ProvingTypeOK
  <1>5. LabelIsHonest'
    BY DEF LabelIsHonest, TaskFollowsRow, TaskHoldsProof, ProvingTypeOK
  <1> QED  BY <1>1, <1>2, <1>3, <1>4, <1>5

(* The re-score writes no row.                                               *)
LEMMA RescoreKeepsInv ==
    ASSUME NEW j \in Jobs, ProvingInv, Rescore(j)
    PROVE  ProvingInv'
  <1> USE ProvingAssumption DEF ProvingInv, Rescore, At, Goto
  <1>1. ProvingTypeOK'
    BY DEF ProvingTypeOK, Terminal, OpenStatus, Modes, TaskStages, Working, PageStages
  <1>2. PageOwnsJob'
    BY DEF PageOwnsJob, ProvingTypeOK
  <1>3. TaskFollowsRow'
    BY DEF TaskFollowsRow, ProvingTypeOK, PageOwnsJob
  <1>4. TaskHoldsProof'
    BY DEF TaskHoldsProof, ProvingTypeOK
  <1>5. LabelIsHonest'
    BY DEF LabelIsHonest, TaskFollowsRow, TaskHoldsProof, ProvingTypeOK
  <1> QED  BY <1>1, <1>2, <1>3, <1>4, <1>5

(* An error writes no row.                                                   *)
LEMMA RaiseKeepsInv ==
    ASSUME NEW j \in Jobs, ProvingInv, Raise(j)
    PROVE  ProvingInv'
  <1> USE ProvingAssumption DEF ProvingInv, Raise, Goto
  <1>1. ProvingTypeOK'
    BY DEF ProvingTypeOK, Terminal, OpenStatus, Modes, TaskStages, Working, PageStages
  <1>2. PageOwnsJob'
    BY DEF PageOwnsJob, ProvingTypeOK
  <1>3. TaskFollowsRow'
    BY DEF TaskFollowsRow, ProvingTypeOK, PageOwnsJob
  <1>4. TaskHoldsProof'
    BY DEF TaskHoldsProof, ProvingTypeOK
  <1>5. LabelIsHonest'
    BY DEF LabelIsHonest, TaskFollowsRow, TaskHoldsProof, ProvingTypeOK
  <1> QED  BY <1>1, <1>2, <1>3, <1>4, <1>5

(* A failure is written without a result.                                    *)
LEMMA SaveFailureKeepsInv ==
    ASSUME NEW j \in Jobs, ProvingInv, SaveFailure(j)
    PROVE  ProvingInv'
  <1> USE ProvingAssumption DEF ProvingInv, SaveFailure, finish_job, At, Goto
  <1>1. ProvingTypeOK'
    <2>1. \A k \in Jobs : row'[k].mode # None <=> row'[k].status = "succeeded"
      BY DEF ProvingTypeOK
    <2>2. row' \in [Jobs -> [wallet : Users \cup {None}, mode : Modes \cup {None},
                            status : OpenStatus \cup Terminal \cup {None}]]
      <3>1. row[j] \in [wallet : Users \cup {None}, mode : Modes \cup {None},
                         status : OpenStatus \cup Terminal \cup {None}]
        BY DEF ProvingTypeOK
      <3>2. [row[j] EXCEPT !.status = "failed", !.mode = None] \in
                [wallet : Users \cup {None}, mode : Modes \cup {None},
                 status : OpenStatus \cup Terminal \cup {None}]
        BY <3>1 DEF Terminal
      <3>3. row' = [row EXCEPT ![j] = [row[j] EXCEPT !.status = "failed", !.mode = None]]
        OBVIOUS
      <3> QED  BY <3>2, <3>3 DEF ProvingTypeOK
    <2> QED  BY <2>1, <2>2 DEF ProvingTypeOK, TaskStages
  <1>2. PageOwnsJob'
    BY DEF PageOwnsJob, ProvingTypeOK
  <1>3. TaskFollowsRow'
    <2>1. \A v \in Users : page'[v].stage = "posting" => task'[page'[v].job] = "none"
      BY DEF TaskFollowsRow, ProvingTypeOK, PageOwnsJob
    <2>2. \A k \in Jobs : row'[k] = NoRow => task'[k] = "none"
      <3>1. row'[j].status = "failed"
        BY DEF ProvingTypeOK
      <3>2. row'[j] # NoRow
        BY <3>1, StatusIsNotNew DEF OpenStatus, Terminal
      <3>3. \A k \in Jobs : k # j => row'[k] = row[k] /\ task'[k] = task[k]
        BY DEF ProvingTypeOK
      <3> QED  BY <3>2, <3>3 DEF TaskFollowsRow
    <2>3. \A k \in Jobs : row'[k].status = "succeeded" =>
             task'[k] \in {"saved", "failing", "over", "lost", "unwritten"}
      BY DEF TaskFollowsRow, ProvingTypeOK, PageOwnsJob, Terminal
    <2> QED  BY <2>1, <2>2, <2>3 DEF TaskFollowsRow
  <1>4. TaskHoldsProof'
    BY DEF TaskHoldsProof, ProvingTypeOK
  <1>5. LabelIsHonest'
    BY DEF LabelIsHonest, TaskFollowsRow, TaskHoldsProof, ProvingTypeOK
  <1> QED  BY <1>1, <1>2, <1>3, <1>4, <1>5

(* A failure that cannot be written leaves the row.                          *)
LEMMA FailureUnwrittenKeepsInv ==
    ASSUME NEW j \in Jobs, ProvingInv, FailureUnwritten(j)
    PROVE  ProvingInv'
  <1> USE ProvingAssumption DEF ProvingInv, FailureUnwritten, At, Goto
  <1>1. ProvingTypeOK'
    BY DEF ProvingTypeOK, Terminal, OpenStatus, Modes, TaskStages, Working, PageStages
  <1>2. PageOwnsJob'
    BY DEF PageOwnsJob, ProvingTypeOK
  <1>3. TaskFollowsRow'
    BY DEF TaskFollowsRow, ProvingTypeOK, PageOwnsJob
  <1>4. TaskHoldsProof'
    BY DEF TaskHoldsProof, ProvingTypeOK
  <1>5. LabelIsHonest'
    BY DEF LabelIsHonest, TaskFollowsRow, TaskHoldsProof, ProvingTypeOK
  <1> QED  BY <1>1, <1>2, <1>3, <1>4, <1>5

(* A page keeps its job, or drops it.                                        *)
LEMMA PollKeepsInv ==
    ASSUME NEW u \in Users, ProvingInv, Poll(u)
    PROVE  ProvingInv'
  <1> USE ProvingAssumption DEF ProvingInv, Poll
  <1>1. ProvingTypeOK'
    BY DEF ProvingTypeOK, Terminal, OpenStatus, Modes, TaskStages, Working, PageStages
  <1>2. PageOwnsJob'
    BY DEF PageOwnsJob, ProvingTypeOK
  <1>3. TaskFollowsRow'
    BY DEF TaskFollowsRow, ProvingTypeOK, PageOwnsJob
  <1>4. TaskHoldsProof'
    BY DEF TaskHoldsProof, ProvingTypeOK
  <1>5. LabelIsHonest'
    BY DEF LabelIsHonest, TaskFollowsRow, TaskHoldsProof, ProvingTypeOK
  <1> QED  BY <1>1, <1>2, <1>3, <1>4, <1>5

(* A page that gives up drops its job.                                       *)
LEMMA PollFailsKeepsInv ==
    ASSUME NEW u \in Users, ProvingInv, PollFails(u)
    PROVE  ProvingInv'
  <1> USE ProvingAssumption DEF ProvingInv, PollFails
  <1>1. ProvingTypeOK'
    BY DEF ProvingTypeOK, Terminal, OpenStatus, Modes, TaskStages, Working, PageStages
  <1>2. PageOwnsJob'
    BY DEF PageOwnsJob, ProvingTypeOK
  <1>3. TaskFollowsRow'
    BY DEF TaskFollowsRow, ProvingTypeOK, PageOwnsJob
  <1>4. TaskHoldsProof'
    BY DEF TaskHoldsProof, ProvingTypeOK
  <1>5. LabelIsHonest'
    BY DEF LabelIsHonest, TaskFollowsRow, TaskHoldsProof, ProvingTypeOK
  <1> QED  BY <1>1, <1>2, <1>3, <1>4, <1>5

(* A stop takes tasks and subprocesses, never a row or a finished proof.    *)
LEMMA StopMachineKeepsInv ==
    ASSUME ProvingInv, StopMachine
    PROVE  ProvingInv'
  <1> USE ProvingAssumption DEF ProvingInv, StopMachine
  <1>1. ProvingTypeOK'
    BY DEF ProvingTypeOK, Terminal, OpenStatus, Modes, TaskStages, Working, PageStages
  <1>2. PageOwnsJob'
    BY DEF PageOwnsJob, ProvingTypeOK
  <1>3. TaskFollowsRow'
    BY DEF TaskFollowsRow, ProvingTypeOK, PageOwnsJob, Working
  <1>4. TaskHoldsProof'
    BY DEF TaskHoldsProof, ProvingTypeOK
  <1>5. LabelIsHonest'
    BY DEF LabelIsHonest, TaskFollowsRow, TaskHoldsProof, ProvingTypeOK
  <1> QED  BY <1>1, <1>2, <1>3, <1>4, <1>5

(* The invariant is kept by every step.                                     *)
LEMMA StepKeepsInv == ProvingInv /\ [ProvingNext]_provingVars => ProvingInv'
  <1> SUFFICES ASSUME ProvingInv, [ProvingNext]_provingVars PROVE ProvingInv'
    OBVIOUS
  <1>1. CASE UNCHANGED provingVars
    <2> USE <1>1 DEF ProvingInv, provingVars
    <2>1. ProvingTypeOK'  BY DEF ProvingTypeOK
    <2>2. PageOwnsJob'    BY DEF PageOwnsJob
    <2>3. TaskFollowsRow' BY DEF TaskFollowsRow
    <2>4. TaskHoldsProof' BY DEF TaskHoldsProof
    <2>5. LabelIsHonest'  BY DEF LabelIsHonest
    <2> QED  BY <2>1, <2>2, <2>3, <2>4, <2>5
  <1>2. ASSUME NEW u \in Users, PageStep(u) PROVE ProvingInv'
    BY <1>2, SpawnTaskKeepsInv, PollKeepsInv DEF PageStep
  <1>3. ASSUME NEW u \in Users, PostFails(u) \/ PollFails(u) PROVE ProvingInv'
    BY <1>3, PostFailsKeepsInv, PollFailsKeepsInv
  <1>4. ASSUME NEW u \in Users, NEW j \in Jobs, Prepare(u, j) \/ Sweep(u, j)
        PROVE  ProvingInv'
    BY <1>4, PrepareKeepsInv, SweepKeepsInv
  <1>5. ASSUME NEW j \in Jobs, TaskStep(j) PROVE ProvingInv'
    BY <1>5, MarkProvingKeepsInv, NoProverKeepsInv, RunHostKeepsInv, SubmitRunPodKeepsInv,
       TakeProofKeepsInv, SaveResultKeepsInv, RescoreKeepsInv, SaveFailureKeepsInv
       DEF TaskStep
  <1>6. ASSUME NEW j \in Jobs, Raise(j) \/ FailureUnwritten(j) PROVE ProvingInv'
    BY <1>6, RaiseKeepsInv, FailureUnwrittenKeepsInv
  <1>7. ASSUME NEW j \in Jobs, ProofSettles(j) PROVE ProvingInv'
    BY <1>7, ProofSettlesKeepsInv
  <1>8. CASE StopMachine
    BY <1>8, StopMachineKeepsInv
  <1> QED
    BY <1>1, <1>2, <1>3, <1>4, <1>5, <1>6, <1>7, <1>8 DEF ProvingNext

LEMMA InvHolds == ProvingSpec => []ProvingInv
  BY InitEstablishesInv, StepKeepsInv, PTL DEF ProvingSpec

(* The rows, tasks, proofs and pages keep their types, and a row has a      *)
(* result exactly when it is stored as succeeded (api/proving_jobs.py).     *)
THEOREM ProvingTypeCorrect == ProvingSpec => []ProvingTypeOK
  <1>1. ProvingInv => ProvingTypeOK  BY DEF ProvingInv
  <1> QED  BY <1>1, InvHolds, PTL

(* A page that polls or signs has a row, and the row is of its own wallet,  *)
(* over any retries, sweeps, lost answers and stops (api/routes/v1.py).     *)
THEOREM PollsFindOwnRow == ProvingSpec => []PolledJobIsOwn
  <1>1. ProvingInv => PolledJobIsOwn
    BY DEF ProvingInv, PageOwnsJob, PolledJobIsOwn
  <1> QED  BY <1>1, InvHolds, PTL

(* A stored result is labelled live exactly when the proof of the same job   *)
(* completed, however the proof and its submission ended (_try_live_receipt *)
(* in api/routes/v1.py).                                                    *)
THEOREM LabelsAreHonest == ProvingSpec => []LabelIsHonest
  <1>1. ProvingInv => LabelIsHonest  BY DEF ProvingInv
  <1> QED  BY <1>1, InvHolds, PTL
=============================================================================
