# ZKredit in TLA+

ZKredit scores a Stellar wallet's history off chain, proves the score in a
zero-knowledge VM, and writes it to Soroban contracts that a lending pool
reads. Wallets of one person form an identity group that shares one score; a
KYC check binds the person to one group.

This directory models the parts of ZKredit whose correctness depends on order:
the four contracts, the service that writes to them, the proving node, and the
pages through which a person acts on all of them.
`PROJECT.json` maps every definition to the source lines it stands for, names
the runs, the mutants, the findings, the hazards and the theorems.

## 1. The system

| Part | State it keeps | Operations | Talks to |
|---|---|---|---|
| AttestorRegistry (`contracts/attestor-registry`) | which attestors are authorized | authorize, revoke | read by the two below |
| WalletIdentity (`contracts/wallet-identity`) | wallet to commitment, member counts, group scores, nullifier to commitment, KYC flags, identity key | register, leave, update score, bind KYC, configure | registry; read by RiskAttestation |
| RiskAttestation (`contracts/risk-attestation`) | one record per wallet, guest image, model keys | three attest calls, read, configure | registry, WalletIdentity; read by the pool |
| MockLendingPool (`contracts/mock-lending-pool`) | address of RiskAttestation | get_loan_terms | RiskAttestation |
| Attestor submissions (`contracts/bindings/python`) | one account sequence number on the network | load, simulate, sign, send, poll | contracts |
| KYC webhook (`api/routes/kyc.py`, `api/kyc`) | `kyc_verifications` rows | record, bind, set the hash, status | Didit, attestor submissions |
| Group re-score (`api/services/group_rescore.py`, `api/identity`) | `group_memberships` rows, tasks in memory | record membership, re-score | ML, KYC rows, attestor submissions |
| Prepare jobs, sweep (`api/routes/v1.py`, `api/proving_jobs.py`) | `proving_jobs` rows, tasks in memory | enqueue, prove, finish, poll, sweep | ML, prover, group re-score |
| Proving node (`ml/risc0/bento_node.py`) | lock file, per-process node id, tunnel, timer; the cloud node | session, idle retirement, CLI | cloud API |
| RunPod prover, guest, worker (`ml/risc0`) | a remote job | submit, poll | RunPod |
| Scoring (`ml/attest.py`, `ml/data`, `ml/features`, `ml/models`) | `operations` rows, model artifacts | ingest, featurize, score | Horizon |
| Limits, sessions (`api/rate_limit.py`, `api/auth.py`) | Redis counters, signed tokens | hit, issue, verify | Redis |
| Wallet extension (`frontend/src/lib/freighter.ts`) | installed, allowed, account, network | connect, silent address, sign | the user |
| Contract calls (`lib/contracts/rpc.ts`) | a transaction on its way | load, simulate, sign, send, poll | network, extension |
| Attestation page (`components/OnChainAttest.tsx`) | wallet, phase, card | connect, attest, poll the job, submit, read back | API, contract calls |
| Identity page (`pages/Identity.tsx`) | wallet, identity, members, KYC interval | mint, link, leave, verify, poll | API, contract calls |
| Lending, preview (`pages/Lending.tsx`, `components/TryAttestation.tsx`) | address, results | look up, borrow, attest | API, contract calls |
| Landing page (`pages/LandingPage.tsx`, `three/ParticleSphere.tsx`) | an animation frame | start, stop, tick | the browser |

What makes it hard:

* **Two sources of truth.** Group membership and KYC live on chain and in
  Postgres. Each is written by separate commits, any of which can fail.
* **Reads that age.** A re-score reads members, then KYC, then submits, with
  an await between any two. A contract read resolves through a second contract.
* **One account, many writers.** KYC binds and re-scores run in threads and
  share one sequence number with no lock.
* **At-least-once, any order.** The KYC provider redelivers and reorders.
* **Answers lost.** A submission may time out and be applied later.
* **Stops.** Fire-and-forget tasks die with the process; rows do not.
* **Late answers on a page.** Every `await` in a page ends in a `setState`; by
  then the wallet, the field or the page itself may be another.
* **Two locks and timers.** The proving node has a file lock across processes
  and a mutex within one; timers take only the second.

What has to hold, by component:

* Registry, identity: counts are exact, a dissolved group has no score, one
  human has one identity for ever, a join is proven.
* Attestation, pool: a proven record shows what was proven, scores only move
  forward, real credit traces to a verified human, one human gets one offer.
* KYC service: never two identities for a nullifier, never a status the chain
  does not hold, every submission ends.
* Re-score: never a KYC claim ahead of its bind; every join is followed up by a
  job that reads the group with the new member in. That re-attesting and leaving
  are followed up too, and that the score lands, is promised in the text and
  does not hold (section 4).
* Proving node: one session at a time, never two nodes, a node under a prove
  stays up, an idle node goes away, every session ends.
* Pages: what is shown together is of one wallet, but for a group's record and
  default terms; a tick or a hash stands for something that happened; a failure
  that is named will not happen after all; flows and intervals end.

## 2. Modules

| Module | What it models |
|---|---|
| `ZKreditShared` | the record the contracts share, the two verifiers by what they promise |
| `AttestorRegistry`, `WalletIdentity`, `RiskAttestation`, `MockLendingPool` | one contract each; each EXTENDS the contracts it calls |
| `IdentityGroups` | the abstract specification WalletIdentity implements: groups as sets, an identity chosen once |
| `ZKreditContracts` | the four on one ledger; properties that cross contracts |
| `AttestorSubmit` | the life of one attestor transaction |
| `KycFlow` | the webhook, its table and its binds, over WalletIdentity and AttestorSubmit |
| `GroupRescore` | membership, re-score jobs and page actions, over KycFlow: the whole service on one account |
| `BentoNode` | the proving node's lifecycle |
| `ProvingJobs` | prepare jobs: rows, tasks, the prover they wait for, the page that polls |
| `Freighter` | what the extension can answer, and the errors made of it |
| `ContractCalls` | one invocation from a page, the network it sends to, the accounts' sequence numbers |
| `AttestPage`, `IdentityPage`, `LendingPage`, `TryPage` | one page each |
| `ParticleSphere` | the frame loop of the landing page |
| `FrontEnd` | the pages as documents of one browser, over one extension and one ledger |
| `WalletIdentityProofs`, `WalletIdentityRefinement`, `ZKreditContractsProofs` | theorems about the contracts |
| `KycFlowProofs`, `GroupRescoreProofs`, `ProvingJobsProofs`, `BentoNodeProofs` | theorems about the service and the proving node |
| `FrontEndProofs` | theorems about the pages |
| `MC*` | small instances |

How state and actions correspond:

* **Contracts.** One variable per storage key, one action per entry point. A
  Soroban transaction is atomic, and a call that errors changes nothing, so a
  call is one step and its error returns are guards. Cross-contract calls are
  reads within the step. `require_auth` is who takes the step. Names are the
  source's.
* **Proofs.** A Groth16 proof carries the key it was made for and its public
  inputs; a receipt carries its image and its journal. `verify_*` compares.
  The journal's length is kept, because a wrong length is an error path.
* **Records.** `wallet`, `confidence`, `full_model_hash` and `proof_or_hash`
  are stored and returned and never compared, so they are left out.
* **The service.** A step is the code between two awaits or two commits.
  `KycFlow` splits `record_verification` into its select and its insert.
  The database clock is read when the transaction begins (`func.now()`).
  `AttestorSubmit` is used by both writers, so a bind and a re-score can take
  the same sequence number. A request may fail before or after it takes effect.
* **The ledger** is `BindApplied` and `UpdateApplied`: they take the very
  `BindKyc` and `UpdateGroupScore` actions of `WalletIdentity`.
* **The proving node.** `flock` and `mutex` are the two locks; `fired` counts
  timer threads past `cancel`. `nodeId` stands for `_node_id` and `_node_ip`,
  which the code always sets and clears together. The strategy is a variable
  that never changes, so one run covers both.

* **Jobs.** `row` is the table, `task` the coroutine's place in
  `_run_prepare_job`, `proof` the remote job or subprocess, `page` the polling
  loop. A stop takes the tasks, and the subprocesses; rows and RunPod jobs
  stay. `Raise` is any error in the task's try. The prover is a variable that
  never changes, so one run covers RunPod, a host binary and none.

* **Pages.** React batches what a continuation sets between two awaits, so such
  a stretch is one action, and a phase set and overwritten in it never shows.
  The component's `useState` cells are the fields of one record (`ui`,
  `wizard`, `lending`, `try`), the continuation in progress another (`flow`,
  `linking`, `request`); an answer on its way that can be overtaken is a member
  of a set (`answers`, `lookups`). The extension keeps no state in the model: a
  call finds it in any member of `Extensions`, since the user can switch,
  lock or refuse between any two calls. `call` is the one invocation a page
  makes at a time; `txs` outlives it, and the page. Links between pages are
  plain anchors and load a document, so `Navigate` and `Reload` drop a page's
  state and keep the ledger's. The figures on a card are the wallet or the
  transaction they come from, which is what the properties compare.
* **Pages no route shows.** `App.tsx` routes the landing, attestation and
  identity pages. `Lending` and `TryAttestation` are in the source beside them
  and are modelled as documents that no link leads to.

## 3. Runs

| Run | Question | States |
|---|---|---|
| `wallet_identity` | are groups, counts, scores and KYC consistent from construction on, and do they implement `IdentityGroups`? | 8,316 |
| `contracts` | do the composed contracts offer credit only as they should? | 188,916 |
| `kyc_flow` | do concurrent, repeated, lost and interrupted deliveries keep one identity per human? | 93,602 |
| `kyc_redelivery` | does a redelivered approval get an answer? **no** | - |
| `group_rescore` | do re-scores certify only what is bound, and is a join followed up? | 281,279 |
| `group_leave` | is a group re-scored after someone leaves? **no** | - |
| `bento_node` | do sessions, timers, stops and retries keep one node and end? | 157,674 |
| `bento_race` | does the node stay up under a prove? **no** | - |
| `proving_jobs` | does a page poll its own row, is a result labelled for what it is, do jobs and pages end? | 154,446 |
| `proving_saved` | does a saved result stand? **no** | - |
| `front_end` | do ticks, cards and hashes stand for what happened, of one wallet, and do pages come to rest? | 253,483 |
| `attest_advice` | is a known error shown with its advice? **no** | - |

Bounds, and why they are enough:

* `wallet_identity`: three wallets, two commitments, two nullifiers, two keys.
  A group can lose a member and keep one; a nullifier can try a second group;
  a proof made under the old key can be used under the new one. No counter is
  bounded: the state space is finite.
* `contracts`: two wallets, two commitments, one human, time 0 to `MaxNow` = 2,
  records issued at 1 and 2 so that stale, equal and newer all occur, scores
  that expire at 1 so that time passes them; receipts of a second image and of
  a wrong length. It starts as the deployment script leaves the ledger;
  configuration calls still happen. The theorems cover construction as well.
* `kyc_flow`: the four deliveries are the four cases that meet: two
  commitments of one human, a redelivery, a late result that is not approved.
  `MaxCrashes` = 1.
* `group_rescore`: `Rescores` bounds the jobs. Two overlap each other and a
  bind, which is what sharing the account needs; one wallet joins, leaves and
  joins again. `group_leave` has two wallets and three jobs, and its property
  has the premise that a job can still be enqueued, so it is not the bound
  that fails it.
* `bento_*`: two prove calls in one process and one in another; `MaxNodes` = 2
  allows the second node that must not come; `MaxLookups` = 2 stands for the
  interpreter's recursion limit; one stop, one `down`.
* `proving_jobs`: two wallets and two job ids, so a page and its retry, two
  pages, or a page and a sweep; one stop. `proving_saved` needs one of each.
* `front_end`: two wallets, so the extension can answer with another one than
  before; `MaxTxs` = 2 transactions, so that a second is built while the first
  may still land, or follows it, or a loan or link is asked for again;
  `CanBuild` is the guard that keeps a page from asking for a third.
  `MaxConnects` = 2 prompts open at once; `MaxAnswers` = 2 status answers on
  their way, so that an older one can overtake a newer; one identity to mint.
  The pages share no state but the extension and the ledger, which is why one
  run holds them all without a product of their states. `ApiFails` and
  `LendingDeployed` are the deployment's; both are true here, so requests to
  the API fail and the pool is asked; its answer is the wallet's terms or, after
  any error of the simulation, `DefaultTerms`.
* Runs with finitely many prove calls or job ids end, hence
  `CHECK_DEADLOCK FALSE` in the `bento` and `proving` configurations and
  nowhere else.

Fairness is weak and on the program's own steps. Threads and handlers run
while their process does (`HookStep`, `RescoreStep`, `SessionStep`,
`ReaperStep`, `TaskStep`), an open page makes its requests, the network settles
a transaction because it carries time bounds, and a prover ends what it was
given (its worker has a timeout of its own). Failed requests are actions apart,
so nothing is made to end by assuming that it fails. Users, operators, crashes,
timers and the KYC provider have no fairness. Every wait in `bento_node.py` and
the host binary has a timeout, which is why a session step that only fails is
fair too.
In the front end the one continuation of an attestation is fair
(`Continuation`: an unblocked promise runs on, and a poll loop has a deadline),
and so are the interval of the KYC card and the answers to it (`PollStep`). A
prompt of the extension and a job on the server have none: a user may leave the
one open, and `FlowsRest` excepts both by name.

## 4. Disagreements between code and text

Each is one violation run. In short:

1. `record_verification` promises "recorded" or "duplicate_nullifier". A second
   delivery of one approval raises on the unique column instead, so the retry
   that `kyc.py:138` speaks of is impossible by redelivery.
2. `group_rescore.py:3-5` lists leaving as a trigger. No code does it.
3. `bento_node.py:289-290` says the file lock keeps lifecycle actions from
   racing. The idle timer does not take it.
4. `v1.py:255-256` calls the re-score after a finished job fire-and-forget. It
   is inside the job's try: when it raises, the saved result is overwritten by
   a failure.
5. `OnChainAttest.test.tsx:71` says a wrong network is shown as such, and the
   page has advice for fifteen kinds of error. `freighter.ts`, `rpc.ts` and
   `attestor.ts` throw `new Error(...)` cast to the class, so every `instanceof`
   of `describeError` is false and only the message is shown. The tests' mocks
   construct the classes, which is why they pass.

Others were met while modelling and have no run of their own:

* `bento_node.py:290` says the idle timer is set again on exit. The line that
  does it follows a `yield` without a `finally`; an exception skips it.
* `bento_node.py:250` says a stale address is retried fresh. The wait for sshd
  comes first and raises, and the address stays.
* `kyc.ts:3-6` says the page polls until the verification resolves. Creating a
  session writes no row, so the status is still "none" at the first tick, which
  `refreshOnce` (`Identity.tsx:539-547`) takes for final: it stops the interval
  before the user can have finished. So does one failed request.
  `statusTone` then keeps saying that there is no session, until the button to
  refresh is used. `PollingEnds` is the half of the promise that holds.
* `contracts/shared/src/lib.rs:30` says a record without a commitment belongs to
  no group, but `register_wallet` never touches the record; the pool then falls
  back to thin-file terms.
* A job whose task is lost in a stop stays open for ever, with a page that polls
  it for ever: `JobsEnd` and `PagesEnd` except it by name.
* A link whose membership request is lost cannot be repaired from the page:
  registering again is refused by the contract (`AlreadyInGroup`), and only
  registering leads to the request.
* `Lending.tsx:127` says a loan was executed "at the terms above". After a
  second wallet connects, the first one's hash is shown under the second's
  terms; `NoTermsOfAnother` therefore says of the hash only that it is a loan.
* `Lending.tsx:74` says borrowing needs "the connected wallet's own fetched
  terms". `getLoanTerms` answers `DEFAULT_TERMS` after any error of the
  simulation (`mock-lending-pool.ts:36, 44-46`), and the page cannot tell: the
  button stands beside them. `NoTermsOfAnother` allows the default ones by name.
* `api/routes/identity.py:7-8` says the re-score "folds the new member in
  immediately". The job's errors are logged and dropped
  (`group_rescore.py:108-112`), a submission that loses the account's sequence
  number is not tried again, and an older job's score can be applied after it.
  `JoinIsFollowedUp` says only that a job reads the new member and ends.
* `runpod_prover.py:53-58, 75-77, 81-82` say that an unreachable RunPod degrades
  to the committed fixture, and so does `v1.py:292-295` of an absent prover.
  Where RunPod is configured, `v1.py:303-310` raises again and the job fails, as
  `api/tests/test_routes.py:281-300` expects. `TakeProof` follows the code;
  `LabelIsHonest` is about the label of what is stored and not about which of
  the two texts is right.
* `Identity.tsx:19-21, 180` ("One verification covers every wallet you link")
  and `identity-proof.ts:97-102` (pass the secret to link a second wallet) say
  that an identity has several wallets. The page never passes the secret, so a
  proof is made for the minting wallet only and the contract refuses any other:
  from this page an identity has one wallet (`Registrations` in
  `FrontEndProofs`).
* After `leaveGroup` has landed the page keeps the tick, the text "Registered
  on-chain to your identity" (`Identity.tsx:253-255`) and the wallet in a list
  that `identity.ts:46` calls "currently linked": leaving is told to the chain
  only. `VerifiedIsEarned` allows a wallet that left, by name.
* "Waiting for Freighter…" (`OnChainAttest.tsx:301-302`) is never rendered: the
  phase is overwritten in the same batch (133-134). While the prompt is open the
  button says "Submitting to Soroban…", before anything is signed.
  `ProgressIsHonest` says of that label only that it is busy.
* The credential mixes two records for a wallet whose group has a score:
  `get_attestation` answers the group's record, and the card shows its bucket,
  confidence, proof hash and expiry beside the score, the bucket's name and the
  transaction of the wallet's own attestation (`OnChainAttest.tsx:252-266`,
  `AttestCredential.tsx:69`). `PageIsOfOneWallet` excepts `GroupRecord` by name.
* `getModelInfo` of the mount (`TryAttestation.tsx`) can fail late and take away
  what a finished request had fetched; Retry does not validate the address as
  Submit does. `ResultsAreOfOneAddress` holds all the same.
* `WhatWeDo.tsx:86-87` says a scroll position cannot skip an index. It is
  sampled, so a fast scroll can.

## 5. Proofs

All proofs are for every value of the constants, under the named assumptions
of the modules. Wallets are finite, submitted records have the record type,
own records carry no KYC claim (`OwnRecordsUncertified`, `contract_stub.py:176`),
bounds are numbers, and a sentinel is no datum (`None` is no wallet, job,
node or transaction id; nothing in the code is both).

Every invariant and every action property of the passing runs is a theorem.

* `WalletIdentityProofs`. The inductive invariant is `IdentityInv`. The
  counter and the score need each other: that leaving deletes a score only for
  an empty group follows from the exact count, and the exact count needs the
  types. One lemma per action; three lemmas on `Cardinality` say what a join
  and a leave do to a group. `BoundKycIsRead` and the action property
  `JoinIsProven` follow.
* `WalletIdentityRefinement`. Every step maps to Join, Leave, Score, Verify or
  a stutter. `memberCount[c] <= 1` maps to "the leaver is the only member"
  through the invariant. The lemmas are about calls, whoever makes them.
* `ZKreditContractsProofs`. The inductive part is `ContractsInv`: the types, a
  wallet's own record never certifies KYC, and a group score certifies it only
  when a nullifier is bound. With it the offers are arithmetic over a price
  list that is total in the bucket. Each theorem is for `Spec \/ DeployedSpec`,
  and the composed contracts refine `IdentityGroups` too.
* `KycFlowProofs`. `KycInv` follows an approval from its row to the ledger: no
  submission without the row that took the nullifier (`HooksInv`), one row per
  nullifier (`RowsInv`, the unique column), no binding without a row and no
  `bind_tx_hash` without a binding (`BoundInv`), no hash returned unless the
  transaction succeeded (`SubmitInv`). `OneIdentityPerHuman` is the first two
  read together. `StatusTrueMeansBound` needs two more things: that the latest
  row of a commitment exists at all, so that the `CHOOSE` of the query picks
  one (`LatestRowFound`, by a greatest element of a bounded set), and that a
  binding is never undone (`KycFlagBacked` of the contract).
* `GroupRescoreProofs`. `ServiceInv` is `KycInv` of the larger system and
  `JobsInv`: a job that holds a KYC claim holds a true one, whatever happened
  since it was read, because the chain never unbinds a group. Hence
  `AttestorCertifiesOnlyBound`. `ServiceKeepsAttestorGuard` says it of the
  calls: what reaches the contract is a user's call, a bind, or a score whose
  claim is backed when the ledger applies it, the guard that `ZKreditContracts`
  puts on its attestor (`AttestedScore`). `ServiceRefinesGroups` concludes that
  the whole service, with overlapping jobs, lost answers and restarts,
  implements `IdentityGroups`.
* `ProvingJobsProofs`. The inductive invariant is `ProvingInv`: a page owns its
  job from the insertion on (`PageOwnsJob`), a task that is not spawned has a
  new row and a stored result has a task past writing it (`TaskFollowsRow`),
  a task that holds a receipt has a completed proof, one that holds the fixture
  has none completed, and the proof of a stored result runs no more (`TaskHoldsProof`).
  `LabelIsHonest` alone is not inductive: without these a spawned task could run
  a second proof over a stored result, or a late proof complete under a fixture.
* `BentoNodeProofs`. `BentoInv` says what the holder of each lock may rely on.
  `LocksHeld`: an open call has the flock and a session its process's mutex.
  `NodesBorn`: a call about to create a node found none, and there is still
  none; this is where the flock matters, since lookup and creation are two
  requests. `TunnelsKnown`: while a session is between closing one tunnel and
  opening the next, its process has no tunnel and remembers the node it is
  about to reach; here the mutex keeps the timer out.
* `FrontEndProofs`. `FrontInv` is inductive over every page, the ledger and the
  links between them, and the invariants below rest on it.
  - `KnownFailureStaysOut` needs to know who can still hand a transaction over:
    a call has it unsent until it sends it, a prepared one waits unsent in its
    flow, and on the attestation page only the flow that has reached its call
    is making one (`CallHoldsTx`, `FlowHoldsTx`). That in turn needs the flow
    to be of the wallet on the page, which is why a late `connect()` is in the
    same invariant. `Registrations` says whose wallet a registration is and
    that it is the wallet its proof was made for (`LinkIsForBoth` is why the
    button guarantees the first).
  - `OwnInv`: a call and a flow hold a transaction they built themselves, for
    the wallet and with the arguments they were asked for, and a call returns
    only one that landed. What a page shows after a call rests on this.
  - `SeqInv`: an account's number counts the transactions closed for it, at
    most one is pending, with the next number, and a registration that landed
    stands until a later transaction of the wallet leaves (`RegistrationsStand`).
    Without it the record read back could be older than the one just sent, and
    a tick could stand for a membership that was never had.
  - `AttestInv` (the phase is that of the step the flow is at; a page that is
    done shows a landed transaction and a record not older) gives
    `ProgressIsHonest` and `PageIsOfOneWallet`.
  - `EarnedInv` gives `VerifiedIsEarned`: a link in progress is for the
    identity held, members and sessions follow a registration that landed
    (which `RegistrationsStand` turns into one that stands or was left), and an
    answer on its way that says "verified" left when it was so.
  - `LendingInv`, `TryInv` and `SphereInv` are the other pages'; the types of
    all pages (`FrontTypeOK`) follow from the invariants together.

What the proofs do not reach:

* Liveness: `SubmissionsEnd`, `JoinIsFollowedUp`, `SessionsEnd`, `JobsEnd`,
  `PagesEnd`, `FlowsRest` and `PollingEnds` need fairness and ENABLED, which
  the proof system does not handle. They are model-checked.
* The violation runs, whose properties are false.
* That a small constant of the models (`MaxTxs`, `Rescores`) is a bound and not
  a limit of the code: the theorems are for any value of it.

## 6. Not modelled

* Cryptography, features, training, fixed-point inference: computation without
  protocol. They enter as constants (proofs, receipts, `UnionBucket`).
* Storage archival and fees on Soroban; contract upgrade (there is none).
* `execute_loan`, which changes nothing; constructors other than by Init.
* The static and off proving strategies, which manage nothing.
* Within `RecordMembership`, the commit and the enqueue are one step. A stop
  between them loses the job, as a stop just after does.
* The group re-score inside a prepare job is `ReattestDone` of `GroupRescore`,
  which comes at any moment there; `ProvingJobs` keeps only its failures.
* In the front end: the Wallet page, which no route shows and which reads and
  draws; the sections of the landing page, whose state is a scroll position;
  the figures, badges and wording of a card (of a wording only whether it is
  true, where a property says so); the identity circuit and the XDR of a call.
* A cloud request that takes effect after its client has timed out: in
  `BentoNode` a create or delete whose answer was lost has taken effect by then
  or never does.
* An endless run of status answers other than 200 from RunPod, which would keep
  the loop of `runpod_prover.py:96-98` going as it sets no deadline: the fairness
  of `TaskStep` takes it that one status answer gets through in the end.
* The Freighter API, Horizon, the Soroban RPC and the browser, which are
  external: each by what the pages can see of it.
* The documentation site, a static page generator.
* Two processes of the API. The deployment runs one machine.

## 7. Plan

1. Contracts, with proofs (done).
2. KYC, submissions, re-score, proving node, prepare jobs (done, safety proved).
3. The attestation history beside `ProvingJobs`: which wallets a sweep picks,
   and that it never settles, since prepared jobs write no history.
4. The front end (done, safety proved). Of the co-signed attestation what is
   left is the expiry of the attestor's signature, and two prepared records
   submitted in either order, over `RiskAttestation`.
5. `RateLimit`: the two-step counter. `OperationStore`: shared operations and
   the union of a group. Score buckets against a reference definition.
6. Proofs: safety is done for what is modelled. Of refinement what is left is an
   abstract lock-and-node specification for `BentoNode`, and one of a job's life
   for `ProvingJobs`.
