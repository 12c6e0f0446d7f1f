----------------------------- MODULE AttestPage -----------------------------
(***************************************************************************)
(* The attestation page (frontend/src/components/OnChainAttest.tsx with     *)
(* lib/attestor.ts): a connect() and an attest() continuation that set the  *)
(* state the page is drawn from, and the job and ledger they wait for.      *)
(* React batches what one continuation sets between two awaits, so such a   *)
(* stretch is one action, and a phase set and overwritten in it is never    *)
(* shown ("creating_session", "signing").                                   *)
(*                                                                         *)
(* Left out: the figures on the card, of which only the transaction they    *)
(* come from is kept, and the job's life on the server (ProvingJobs).       *)
(***************************************************************************)
EXTENDS ContractCalls

VARIABLES
    ui,             \* what the page is drawn from
    flow,           \* the attest() in progress: where it is, for which wallet
    connecting,     \* a connect() is in progress
    silent          \* the mount's getConnectedAddress() has not answered

attestOwn == <<ui, flow, connecting, silent>>

FlowPhases == {"preparing", "waiting", "submitting", "reading"}
Phases     == FlowPhases \cup {"idle", "connecting", "done", "error"}
FlowSteps  == {"none", "session", "post", "poll", "import", "call", "read"}
OpenJob    == {"queued", "proving"}

GroupRecord == 0        \* no transaction of ours: the record of the wallet's group

NoFlow == [at |-> "none", wallet |-> None, job |-> None, tx |-> None]
Blank  == [wallet |-> None, phase |-> "idle", error |-> NoError,
           txHash |-> None, attestation |-> None, prepared |-> None, queue |-> None]

AttestTypeOK ==
    /\ CallTypeOK
    /\ ui.wallet \in Wallets \cup {None} /\ ui.phase \in Phases
    /\ ui.txHash \in TxIds \cup {None} /\ ui.prepared \in TxIds \cup {None}
    /\ ui.attestation \in TxIds \cup {GroupRecord, None} /\ ui.queue \in OpenJob \cup {None}
    /\ flow.at \in FlowSteps /\ flow.wallet \in Wallets \cup {None}
    /\ flow.job \in OpenJob \cup {"succeeded", "failed", None}
    /\ flow.tx \in TxIds \cup {None}
    /\ connecting \in BOOLEAN /\ silent \in BOOLEAN
    /\ flow.at = "none" <=> flow = NoFlow

AttestInit ==
    /\ ui = Blank /\ flow = NoFlow
    /\ connecting = FALSE /\ silent = TRUE

busy == ui.phase \in FlowPhases \cup {"connecting"}

makePrepareError(kind) == [class |-> "Error", kind |-> kind]

(* What is said of an error the code knows; of another, its message only.   *)
Advice ==
    [FreighterError |-> {"extension_missing", "authorization_failed", "address_unavailable",
                         "wrong_network", "sign_rejected"},
     ContractRpcError |-> {"source_account_unavailable", "submit_timeout", "chain_failed"},
     AttestationPrepareError |-> {"api_unreachable", "session_failed", "rate_limited",
                                  "already_attested", "prepare_unavailable",
                                  "job_status_unavailable", "job_failed"}]

describeError(e) ==
    IF e.class \in DOMAIN Advice /\ e.kind \in Advice[e.class]
    THEN e.kind ELSE "Attestation failed"

(* The catch of attest() or connect().                                      *)
ShowError(e) == ui' = [ui EXCEPT !.phase = "error", !.error = e]

EndFlow(e) == ShowError(e) /\ flow' = NoFlow
-----------------------------------------------------------------------------
SilentConnect_Overwrites ==     \* mutant: setWallet(a)
    /\ silent
    /\ silent' = FALSE
    /\ \E a \in SilentAddresses \ {None} : ui' = [ui EXCEPT !.wallet = a]
    /\ UNCHANGED <<flow, connecting, callVars>>

(* The address Freighter gives away without a prompt, unless one is set.    *)
SilentConnect ==
    /\ silent
    /\ silent' = FALSE
    /\ \E a \in SilentAddresses :
         ui' = IF ui.wallet = None THEN [ui EXCEPT !.wallet = a] ELSE ui
    /\ UNCHANGED <<flow, connecting, callVars>>

(* The button is there while no wallet is known.                            *)
Connect ==
    /\ ui.wallet = None /\ ui.phase # "connecting"
    /\ ui' = [ui EXCEPT !.phase = "connecting", !.error = NoError]
    /\ connecting' = TRUE
    /\ UNCHANGED <<flow, silent, callVars>>

(* The address goes to App as well, which hands it back as a prop: by then  *)
(* the page has a wallet and keeps it.                                      *)
ConnectSettles ==
    /\ connecting
    /\ connecting' = FALSE
    /\ \E o \in ConnectOutcomes :
         IF o.error = NoError THEN ui' = [ui EXCEPT !.wallet = o.value, !.phase = "idle"]
                              ELSE ShowError(o.error)
    /\ UNCHANGED <<flow, silent, callVars>>
-----------------------------------------------------------------------------
\* The button is next to the steps, which a known wallet brings.
RequestOffered == ui.wallet # None /\ ~busy

(* attest(): asked for again after an error or a credential as well.        *)
Attest ==
    /\ RequestOffered /\ CanBuild
    /\ ui' = [Blank EXCEPT !.wallet = ui.wallet, !.phase = "preparing"]
    /\ flow' = [NoFlow EXCEPT !.at = "session", !.wallet = ui.wallet]
    /\ UNCHANGED <<connecting, silent, callVars>>

(* startPrepareAttestation: the session, of which only a request that fails *)
(* is noticed ...                                                           *)
AskSession ==
    /\ flow.at = "session"
    /\ \/ flow' = [flow EXCEPT !.at = "post"] /\ UNCHANGED ui
       \/ EndFlow(makePrepareError("api_unreachable"))
    /\ UNCHANGED <<connecting, silent, callVars>>

PrepareErrors == {"api_unreachable", "session_failed", "rate_limited", "already_attested",
                  "prepare_unavailable", "request_failed"}

(* ... and the request to prepare, answered with a job (handlePreparePhase), *)
(* or with the transaction at once.                                         *)
PostPrepare ==
    /\ flow.at = "post"
    /\ \/ /\ flow' = [flow EXCEPT !.at = "poll", !.job = "queued"]
          /\ ui' = [ui EXCEPT !.phase = "waiting", !.queue = "queued"]
          /\ UNCHANGED txs
       \/ \E t \in TxIds :
            /\ NextTx(t) /\ Build(t, flow.wallet, "attest_with_risc0", None)
            /\ flow' = [flow EXCEPT !.at = "import", !.tx = t]
            /\ UNCHANGED ui
       \/ \E k \in PrepareErrors : EndFlow(makePrepareError(k)) /\ UNCHANGED txs
    /\ UNCHANGED <<connecting, silent, call, seqno>>

(* The job on the server; build_risc0_attestation_cosigned_xdr, with the    *)
(* wallet as source and the attestor's entry signed, is its last step.      *)
JobMoves ==
    /\ flow.at = "poll" /\ flow.job \in OpenJob
    /\ \/ /\ flow.job = "queued" /\ flow' = [flow EXCEPT !.job = "proving"]
          /\ UNCHANGED txs
       \/ \E t \in TxIds :
            /\ NextTx(t) /\ Build(t, flow.wallet, "attest_with_risc0", None)
            /\ flow' = [flow EXCEPT !.job = "succeeded", !.tx = t]
       \/ flow' = [flow EXCEPT !.job = "failed"] /\ UNCHANGED txs
    /\ UNCHANGED <<ui, connecting, silent, call, seqno>>

PollErrors == {"api_unreachable", "job_status_unavailable", "session_failed", "rate_limited",
               "request_failed"}

(* getAttestationJob every two seconds; a failed job and one that ended     *)
(* without a transaction are the same error.                                *)
PollJob ==
    /\ flow.at = "poll"
    /\ \/ /\ flow.job \in OpenJob
          /\ ui' = [ui EXCEPT !.queue = flow.job]
          /\ UNCHANGED flow
       \/ /\ flow.job = "succeeded"
          /\ flow' = [flow EXCEPT !.at = "import"]
          /\ UNCHANGED ui
       \/ flow.job \in {"succeeded", "failed"} /\ EndFlow(makePrepareError("job_failed"))
       \/ \E k \in PollErrors : EndFlow(makePrepareError(k))
    /\ UNCHANGED <<connecting, silent, callVars>>

(* completePreparedAttestation: the contract client is loaded, the wallet   *)
(* asked to sign ...                                                        *)
StartSubmit ==
    /\ flow.at = "import"
    /\ \/ /\ flow' = [flow EXCEPT !.at = "call"]
          /\ ui' = [ui EXCEPT !.phase = "submitting"]
          /\ submitCosignedAttestation(flow.tx, flow.wallet)
       \/ EndFlow(PlainError) /\ UNCHANGED call
    /\ UNCHANGED <<connecting, silent, txs, seqno>>

(* ... and when the call returns, getAttestation is sent.                   *)
EndSubmit ==
    /\ flow.at = "call"
    /\ \/ /\ call.stage = "returned"
          /\ flow' = [flow EXCEPT !.at = "read"]
          /\ ui' = [ui EXCEPT !.phase = "reading", !.txHash = call.tx]
       \/ call.stage = "thrown" /\ EndFlow(call.error)
    /\ UNCHANGED <<connecting, silent, callVars>>

(* RiskAttestation's record of w is that of its last transaction to land.   *)
RecordOf(w) ==
    LET landed == {t \in TxIds : /\ Landed(t) /\ txs[t].source = w
                                 /\ txs[t].method = "attest_with_risc0"}
    IN
    IF landed = {} THEN None
    ELSE CHOOSE t \in landed : \A o \in landed : txs[o].seq <= txs[t].seq

(* get_attestation answers with the record of the wallet's group, if it has *)
(* one; a wallet without a record has none to show.                         *)
ReadBack ==
    /\ flow.at = "read"
    /\ \/ \E record \in {RecordOf(flow.wallet)}
                        \cup (IF RecordOf(flow.wallet) = None THEN {} ELSE {GroupRecord}) :
            /\ ui' = [ui EXCEPT !.phase = "done", !.attestation = record,
                                !.prepared = flow.tx, !.queue = None]
            /\ flow' = NoFlow
       \/ EndFlow(PlainError)
    /\ UNCHANGED <<connecting, silent, callVars>>

(* Leaving or reloading the page ends its continuations; what was sent, and *)
(* a job on the server, go on without it.                                   *)
LeaveAttestPage == ui' = Blank /\ flow' = NoFlow /\ connecting' = FALSE /\ silent' = TRUE

AttestCall == (CallStep(TRUE) \/ SignCall) /\ UNCHANGED attestOwn

FlowStep == AskSession \/ PostPrepare \/ PollJob \/ StartSubmit \/ EndSubmit \/ ReadBack

AttestStep ==
    \/ SilentConnect \/ Connect \/ ConnectSettles
    \/ Attest \/ FlowStep \/ JobMoves
    \/ AttestCall
-----------------------------------------------------------------------------
(* stepperState and RevealStepper: the step that is lit, and those ticked.   *)
Read == 0
Prove == 1
Sign == 2
Verify == 3

stepperState(phase) ==
    CASE phase = "preparing"  -> Read
      [] phase = "waiting"    -> Prove
      [] phase = "submitting" -> Sign
      [] phase = "reading"    -> Verify
      [] OTHER                -> None

StepDone(phase, step) ==
    phase = "done" \/ (stepperState(phase) # None /\ step < stepperState(phase))

StepLit(phase, step) == phase \in FlowPhases /\ stepperState(phase) = step

requestLabel(phase) ==
    IF phase = "done" THEN "Attested"
    ELSE IF phase \in FlowPhases THEN phase
    ELSE "Request attestation"

(* The card and the receipts beside it are shown once done and read: the     *)
(* score and the bucket's name as prepared, the rest of the record as read, *)
(* and a link to the transaction.                                           *)
CardShown     == ui.phase = "done" /\ ui.attestation # None
CardFront     == {ui.prepared, ui.attestation, ui.txHash}
CardBack      == {ui.attestation}
ModelReceipts == {ui.prepared}

(* "the honest progress surface" (attestation/RevealStepper.tsx:3): Prove is *)
(* ticked when a transaction was prepared for this wallet, Sign when it has  *)
(* landed, and all four bring the card, never an empty place.  A step is lit *)
(* while a flow runs; Sign, while that transaction is with this wallet or on *)
(* its way; Verify, while the record is read.  Of the button this says that  *)
(* it is busy as long as a flow runs and "Attested" over a card only: its    *)
(* "submitting" does not wait for the signature.                             *)
ProgressIsHonest ==
    /\ StepDone(ui.phase, Prove) =>
           \E t \in {flow.tx, ui.txHash} \ {None} :
               txs[t].status # "none" /\ txs[t].source = ui.wallet
    /\ StepDone(ui.phase, Sign) => ui.txHash # None /\ Landed(ui.txHash)
    /\ StepDone(ui.phase, Verify) => CardShown
    /\ (\E step \in {Read, Prove, Sign, Verify} : StepLit(ui.phase, step)) <=> flow.at # "none"
    /\ StepLit(ui.phase, Sign) <=> flow.at = "call"
    /\ StepLit(ui.phase, Sign) =>
           /\ call.stage \in {"sign", "send", "poll", "returned", "thrown"}
           /\ call.tx = flow.tx /\ txs[call.tx].source = ui.wallet
    /\ StepLit(ui.phase, Verify) <=> flow.at = "read"
    /\ requestLabel(ui.phase) \in FlowPhases <=> flow.at # "none"
    /\ requestLabel(ui.phase) = "Attested" => CardShown

(* Whatever comes late, a silent address, a second connect or an answer of   *)
(* an earlier request: the wallet named at the head of the page is the one   *)
(* the running flow is for, and what the card shows is of transactions of    *)
(* this wallet that landed: score and link of the one just sent, the record  *)
(* of that one or a later one.  GroupRecord is no transaction and excepted:  *)
(* the card of a wallet whose group has a score shows the group's record     *)
(* beside the wallet's own score.                                           *)
PageIsOfOneWallet ==
    /\ flow.at # "none" => flow.wallet = ui.wallet
    /\ CardShown =>
           /\ ui.prepared = ui.txHash
           /\ \A t \in (CardFront \cup CardBack \cup ModelReceipts) \ {GroupRecord} :
                  /\ Landed(t) /\ txs[t].source = ui.wallet
                  /\ txs[t].seq >= txs[ui.txHash].seq

(* Every flow comes to rest, in a credential or an error, unless Freighter's *)
(* prompt is left open or the job never ends.                               *)
WaitsForUser == connecting \/ call.stage = "sign"
WaitsForJob  == flow.at = "poll" /\ flow.job \in OpenJob
FlowsRest    == busy ~> ~busy \/ WaitsForUser \/ WaitsForJob

(* src/frontend/src/components/OnChainAttest.test.tsx:71-83, 85-97: an error *)
(* whose kind is known is shown under its own title with its own advice.    *)
KnownErrorsAreExplained ==
    ui.phase = "error" /\ ui.error.kind \in UNION {Advice[c] : c \in DOMAIN Advice}
        => describeError(ui.error) = ui.error.kind
=============================================================================
