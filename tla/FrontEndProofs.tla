--------------------------- MODULE FrontEndProofs ---------------------------
(***************************************************************************)
(* Safety of the pages, for any number of wallets, transactions, prompts    *)
(* and answers.  A page's inductive invariant is disturbed by the page's    *)
(* own steps and by a new document only.  In order: the preview, the calls  *)
(* and what holds them (FrontInv, which the rest builds on), the sphere,    *)
(* who owns a transaction, the lending page, the identity page, the         *)
(* accounts' sequence numbers, the attestation page, the types.             *)
(***************************************************************************)
EXTENDS FrontEnd, TLAPS, FiniteSetTheorems, WellFoundedInduction

(* A new document starts every page over.                                   *)
LEMMA DocumentsStartOver ==
    ASSUME Navigate \/ Reload
    PROVE  NewDocument
  BY DEF Navigate, Reload
-----------------------------------------------------------------------------
(* Nothing is fetched before an attestation is there, and what is fetched is *)
(* for the address the attestation is of.                                   *)
TryInv ==
    /\ try \in [address : Unchecked \cup {None}, phase : {"idle", "loading", "done", "error"},
                step : Nat, timer : BOOLEAN, attestation : Wallets \cup {None},
                record : Wallets \cup {None}, features : Wallets \cup {None}, model : BOOLEAN]
    /\ request \in [at : {"none", "prepare", "fetch"}, addr : Unchecked \cup {None}]
    /\ request.at = "fetch" => request.addr \in Wallets /\ try.attestation = request.addr
    /\ request.at # "none" => try.record = None /\ try.features = None
    /\ {try.record, try.features} \subseteq {None, try.attestation}

\* Freighter gives away an address of its own or none.
LEMMA SilentAddressType == SilentAddresses \subseteq Wallets \cup {None}
  BY DEF SilentAddresses, getConnectedAddress, Extensions

LEMMA RunAttestationKeepsInv ==
    ASSUME TryInv, runAttestation(try.address)
    PROVE  TryInv'
  BY DEF runAttestation, TryInv, NoTry

LEMMA TryStepKeepsInv ==
    ASSUME TryInv, TryStep
    PROVE  TryInv'
  <1>1. CASE Type
    BY <1>1 DEF Type, TryInv
  <1>2. CASE FillSilently
    BY <1>2, SilentAddressType DEF FillSilently, TryInv, Unchecked
  <1>3. CASE ModelInfo
    BY <1>3 DEF ModelInfo, TryInv
  <1>4. CASE Submit
    BY <1>4, RunAttestationKeepsInv DEF Submit, TryInv
  <1>5. CASE Retry
    BY <1>5, RunAttestationKeepsInv DEF Retry
  <1>6. CASE StepTimer
    BY <1>6 DEF StepTimer, TryInv
  <1>7. CASE PreparePhase
    BY <1>7 DEF PreparePhase, TryInv
  <1>8. CASE Prepared
    <2>1. CASE TryFails /\ UNCHANGED mounting
      BY <2>1, <1>8 DEF TryFails, Prepared, TryInv, LastStep
    <2>2. CASE ~TryFails
      BY <2>2, <1>8 DEF Prepared, isValidStellarAddress, TryInv
    <2> QED  BY <2>1, <2>2, <1>8 DEF Prepared
  <1>9. CASE FetchSettles
    <2>1. PICK fulfilled \in SUBSET Fetched : ShowFetched(fulfilled)
      BY <1>9 DEF FetchSettles
    <2>2. request.at = "fetch" /\ request' = [request EXCEPT !.at = "none"]
      BY <1>9 DEF FetchSettles
    <2> DEFINE record   == IF "record" \in fulfilled THEN request.addr ELSE try.record
               features == IF "features" \in fulfilled THEN request.addr ELSE try.features
               model    == "model" \in fulfilled \/ try.model
    <2>3. try' = [try EXCEPT !.phase = "done", !.timer = FALSE, !.step = LastStep,
                             !.record = record, !.features = features, !.model = model]
      BY <2>1 DEF ShowFetched
    <2>4. model \in BOOLEAN
      OBVIOUS
    <2>5. {record, features} \subseteq {None, request.addr}
      BY <2>2 DEF TryInv
    <2> HIDE DEF record, features, model
    <2> QED  BY <2>2, <2>3, <2>4, <2>5 DEF TryInv, LastStep
  <1> QED
    BY <1>1, <1>2, <1>3, <1>4, <1>5, <1>6, <1>7, <1>8, <1>9 DEF TryStep

(* ResultsAreOfOneAddress however the field is edited meanwhile.             *)
THEOREM ResultsAlwaysOfOneAddress == FrontSpec => []ResultsAreOfOneAddress
  <1>1. FrontInit => TryInv
    BY DEF FrontInit, TryInit, TryInv, NoTry, NoRequest, Unchecked
  <1>2. TryInv /\ [FrontNext]_frontVars => TryInv'
    <2> SUFFICES ASSUME TryInv, [FrontNext]_frontVars PROVE TryInv'
      OBVIOUS
    <2>1. CASE OnPreview
      BY <2>1, TryStepKeepsInv DEF OnPreview
    <2>2. CASE NewDocument
      BY <2>2 DEF NewDocument, LeaveTryPage, TryInv, NoTry, NoRequest
    <2>3. CASE UNCHANGED tryVars
      BY <2>3 DEF tryVars, TryInv
    <2> QED
      BY <2>1, <2>2, <2>3, DocumentsStartOver
      DEF FrontNext, frontVars, OnAttestation, OnIdentity, OnLending, OnLanding, Ledger,
          AttestationOnly, IdentityOnly, LendingOnly, LandingOnly
  <1>3. TryInv => ResultsAreOfOneAddress
    BY DEF TryInv, ResultsAreOfOneAddress, Results
  <1> QED  BY <1>1, <1>2, <1>3, PTL DEF FrontSpec
-----------------------------------------------------------------------------
(* What the transactions and the call in progress are.  A field that no     *)
(* step below looks at has whatever value it has.                           *)
Asking == {"account", "prepare", "sign", "send", "poll"}

TxShape ==
    /\ txs = [t \in TxIds |-> txs[t]]
    /\ \A t \in TxIds : txs[t] \in
           [source : Wallets \cup {None}, seq : {txs[t].seq}, method : Methods \cup {None},
            arg : Commitments \cup {None}, status : TxStatus]

CallShape ==
    call \in [stage : CallStages, method : Methods \cup {None}, by : Wallets \cup {None},
              arg : Commitments \cup {None}, tx : TxIds \cup {None}, error : {call.error}]

(* Until it is sent a transaction is known to its page alone, and one that  *)
(* an answer has condemned is not in the network's hands.                   *)
CallHoldsTx ==
    /\ call.stage = "account" => call.tx = None
    /\ call.stage \in {"prepare", "sign", "send"} =>
           call.tx \in TxIds /\ txs[call.tx].status = "built"
    /\ call.stage = "poll" => call.tx \in TxIds
    /\ (call.stage = "thrown" /\ call.tx # None
          /\ call.error.kind \notin {"submit_timeout", None})
           => call.tx \in TxIds /\ txs[call.tx].status \in {"built", "failed"}

(* A flow is of the wallet on the page, which shows it.  A prepared          *)
(* transaction waits unsent while the page makes no call: only the attest() *)
(* that has reached it makes one.                                           *)
FlowHoldsTx ==
    /\ flow \in [at : FlowSteps, wallet : Wallets \cup {None}, job : {flow.job},
                 tx : TxIds \cup {None}]
    /\ ui \in [wallet : Wallets \cup {None}, phase : {ui.phase}, error : {ui.error},
               txHash : {ui.txHash}, attestation : {ui.attestation},
               prepared : {ui.prepared}, queue : {ui.queue}]
    /\ flow.at # "none" => /\ flow.wallet = ui.wallet /\ ui.wallet \in Wallets
                           /\ ui.phase \in FlowPhases
    /\ connecting => ui.phase = "connecting"
    /\ (flow.at = "import" \/ (flow.at = "poll" /\ flow.job = "succeeded"))
           => flow.tx \in TxIds /\ txs[flow.tx].status = "built"
    /\ page = "attestation" /\ call.stage \in Asking => flow.at = "call"
    /\ page # "attestation" => flow.at = "none"

(* The other pages' sources of a call.                                      *)
PagesShape ==
    /\ wizard \in [address : Wallets \cup {None}, prompts : {wizard.prompts},
                   minting : Wallets \cup {None}, identity : Commitments \cup {None},
                   members : {wizard.members}]
    /\ lending \in [connected : Wallets \cup {None}, lookedUp : {lending.lookedUp},
                    terms : {lending.terms}, txHash : {lending.txHash},
                    executing : {lending.executing}]
    /\ lookups \subseteq Wallets

(* A registration is of a wallet and an identity, and once it has landed the *)
(* identity's proof is bound to that wallet.                                *)
Registrations ==
    /\ proofOf \in [Commitments -> Wallets \cup {None}]
    /\ call.stage = "account" /\ call.method = "register_wallet" =>
           call.by \in Wallets /\ call.arg \in Commitments
    /\ \A t \in TxIds : txs[t].method = "register_wallet" /\ txs[t].status # "none" =>
           /\ txs[t].source \in Wallets /\ txs[t].arg \in Commitments
           /\ Landed(t) => proofOf[txs[t].arg] = txs[t].source

FrontInv == TxShape /\ CallShape /\ CallHoldsTx /\ FlowHoldsTx /\ PagesShape /\ Registrations

frontInvVars == <<page, txs, call, ui, flow, connecting, wizard, lending, lookups, proofOf>>

(* Of what a lemma below leaves alone, it says so.                          *)
LEMMA OtherVariables ==
    ASSUME FrontInv, UNCHANGED frontInvVars
    PROVE  FrontInv'
  BY DEF FrontInv, frontInvVars, TxShape, CallShape, CallHoldsTx, FlowHoldsTx, PagesShape,
         Registrations, Landed

(* Nothing is asked for, sent or bound before the first step.               *)
LEMMA InitEstablishesFrontInv == FrontInit => FrontInv
  <1> SUFFICES ASSUME FrontInit PROVE FrontInv
    OBVIOUS
  <1>1. TxShape /\ CallShape /\ CallHoldsTx
    BY DEF FrontInit, CallInit, NoTx, NoCall, TxShape, CallShape, CallHoldsTx, TxStatus, CallStages
  <1>2. FlowHoldsTx
    BY DEF FrontInit, CallInit, AttestInit, NoFlow, Blank, NoCall, Asking, FlowSteps, FlowHoldsTx
  <1>3. PagesShape
    BY DEF FrontInit, IdentityInit, LendingInit, Fresh, NoLending, PagesShape
  <1>4. Registrations
    BY DEF FrontInit, CallInit, IdentityInit, NoTx, NoCall, Registrations
  <1> QED  BY <1>1, <1>2, <1>3, <1>4 DEF FrontInv

(* Building one transaction is all that happens to the others' table.        *)
LEMMA BuildEffect ==
    ASSUME TxShape, NEW t \in TxIds, NEW w \in Wallets \cup {None},
           NEW m \in Methods \cup {None}, NEW a \in Commitments \cup {None},
           NextTx(t), Build(t, w, m, a)
    PROVE  /\ TxShape'
           /\ txs[t].status = "none"
           /\ txs'[t].source = w /\ txs'[t].method = m /\ txs'[t].arg = a
           /\ txs'[t].status = "built"
           /\ \A o \in TxIds \ {t} : txs'[o] = txs[o]
  BY DEF TxShape, Build, NextTx, NoTx, TxStatus

LEMMA StatusEffect ==
    ASSUME TxShape, NEW t \in TxIds, NEW s \in TxStatus,
           txs' = [txs EXCEPT ![t].status = s]
    PROVE  /\ TxShape'
           /\ txs'[t].source = txs[t].source /\ txs'[t].method = txs[t].method
           /\ txs'[t].arg = txs[t].arg /\ txs'[t].status = s
           /\ \A o \in TxIds \ {t} : txs'[o] = txs[o]
  BY DEF TxShape
-----------------------------------------------------------------------------
(* A step of the call in progress, on whichever page.                       *)
callOnly == <<page, ui, flow, connecting, wizard, lending, lookups, proofOf>>

LEMMA GetAccountKeepsInv ==
    ASSUME FrontInv, GetAccount, UNCHANGED callOnly
    PROVE  FrontInv'
  <1> USE DEF FrontInv, callOnly
  <1>1. CASE \E t \in TxIds : /\ NextTx(t)
                              /\ Build(t, call.by, call.method, call.arg)
                              /\ call' = [call EXCEPT !.stage = "prepare", !.tx = t]
    <2>1. PICK t \in TxIds : /\ NextTx(t)
                             /\ Build(t, call.by, call.method, call.arg)
                             /\ call' = [call EXCEPT !.stage = "prepare", !.tx = t]
      BY <1>1
    <2>2. call.by \in Wallets \cup {None} /\ call.method \in Methods \cup {None}
          /\ call.arg \in Commitments \cup {None} /\ call.stage = "account"
      BY DEF GetAccount, CallShape
    <2>3. /\ TxShape' /\ txs[t].status = "none"
          /\ txs'[t].source = call.by /\ txs'[t].method = call.method
          /\ txs'[t].arg = call.arg /\ txs'[t].status = "built"
          /\ \A o \in TxIds \ {t} : txs'[o] = txs[o]
      BY <2>1, <2>2, BuildEffect
    <2>4. CallShape' /\ call'.stage = "prepare" /\ call'.tx = t
      BY <2>1 DEF CallShape, CallStages
    <2>5. CallHoldsTx'
      BY <2>3, <2>4 DEF CallHoldsTx
    <2>6. FlowHoldsTx'
      BY <2>2, <2>3, <2>4 DEF FlowHoldsTx, Asking
    <2>7. Registrations'
      BY <2>2, <2>3, <2>4 DEF Registrations, Landed
    <2>8. PagesShape'
      BY DEF PagesShape
    <2> QED  BY <2>3, <2>4, <2>5, <2>6, <2>7, <2>8
  <1>2. CASE Throw(makeRpcError("source_account_unavailable")) /\ UNCHANGED txs
    <2>1. CallShape' /\ call'.stage = "thrown" /\ call'.tx = call.tx /\ call.stage = "account"
      BY <1>2 DEF GetAccount, Throw, CallShape, CallStages
    <2>2. TxShape' /\ PagesShape'
      BY <1>2 DEF TxShape, PagesShape
    <2>3. CallHoldsTx'
      BY <1>2, <2>1 DEF CallHoldsTx
    <2>4. FlowHoldsTx'
      BY <1>2, <2>1 DEF FlowHoldsTx, Asking
    <2>5. Registrations'
      BY <1>2, <2>1 DEF Registrations, Landed
    <2> QED  BY <2>1, <2>2, <2>3, <2>4, <2>5
  <1> QED  BY <1>1, <1>2 DEF GetAccount

(* Where the table of transactions stands still, a call moves on or throws;  *)
(* it is condemned only by an answer of one that did not land.              *)
LEMMA CallMovesOn ==
    ASSUME FrontInv, UNCHANGED callOnly, UNCHANGED txs, NEW s \in CallStages,
           NEW e, call' = [call EXCEPT !.stage = s, !.error = e],
           call.stage \in Asking, call.stage # "account", s # "account",
           s \in {"prepare", "sign", "send"} => call.stage \in {"prepare", "sign", "send"},
           s = "thrown" /\ call.tx # None /\ e.kind \notin {"submit_timeout", None} =>
               txs[call.tx].status \in {"built", "failed"}
    PROVE  FrontInv'
  <1> USE DEF FrontInv, callOnly
  <1>1. CallShape' /\ call'.stage = s /\ call'.tx = call.tx /\ call'.error = e
    BY DEF CallShape
  <1>2. TxShape' /\ PagesShape'
    BY DEF TxShape, PagesShape
  <1>3. CallHoldsTx'
    BY <1>1 DEF CallHoldsTx, Asking
  <1>4. FlowHoldsTx'
    BY <1>1 DEF FlowHoldsTx
  <1>5. Registrations'
    BY <1>1 DEF Registrations, Landed
  <1> QED  BY <1>1, <1>2, <1>3, <1>4, <1>5

LEMMA PrepareTransactionKeepsInv ==
    ASSUME FrontInv, NEW accepted, PrepareTransaction(accepted), UNCHANGED callOnly
    PROVE  FrontInv'
  <1>1. CASE call' = [call EXCEPT !.stage = "sign"]
    <2>1. call' = [call EXCEPT !.stage = "sign", !.error = call.error]
      BY <1>1 DEF FrontInv, CallShape
    <2> QED  BY <2>1, CallMovesOn DEF PrepareTransaction, CallStages, Asking
  <1>2. CASE Throw(PlainError)
    <2>1. PlainError.kind = None
      BY DEF PlainError
    <2> QED  BY <1>2, <2>1, CallMovesOn DEF PrepareTransaction, Throw, CallStages, Asking
  <1> QED  BY <1>1, <1>2 DEF PrepareTransaction

LEMMA SignCallKeepsInv ==
    ASSUME FrontInv, SignCall, UNCHANGED callOnly
    PROVE  FrontInv'
  <1>1. call.stage = "sign" /\ txs[call.tx].status = "built" /\ UNCHANGED txs
    BY DEF SignCall, FrontInv, CallHoldsTx
  <1>2. CASE call' = [call EXCEPT !.stage = "send"]
    <2>1. call' = [call EXCEPT !.stage = "send", !.error = call.error]
      BY <1>2 DEF FrontInv, CallShape
    <2> QED  BY <1>1, <2>1, CallMovesOn DEF CallStages, Asking
  <1>3. CASE \E e \in SignErrors : Throw(e)
    BY <1>1, <1>3, CallMovesOn DEF Throw, CallStages, Asking
  <1> QED  BY <1>2, <1>3 DEF SignCall

(* Only Send hands a transaction over, and then it does not condemn it.      *)
LEMMA SendKeepsInv ==
    ASSUME FrontInv, Send, UNCHANGED callOnly
    PROVE  FrontInv'
  <1>1. call.stage = "send" /\ call.tx \in TxIds /\ txs[call.tx].status = "built"
    BY DEF Send, FrontInv, CallHoldsTx
  <1>2. CASE UNCHANGED txs /\ call' = [call EXCEPT !.stage = "poll"]
    <2>1. call' = [call EXCEPT !.stage = "poll", !.error = call.error]
      BY <1>2 DEF FrontInv, CallShape
    <2> QED  BY <1>1, <1>2, <2>1, CallMovesOn DEF CallStages, Asking
  <1>3. CASE UNCHANGED txs /\ \E e : Throw(e)
    BY <1>1, <1>3, CallMovesOn DEF Throw, CallStages, Asking
  <1>4. CASE /\ txs' = [txs EXCEPT ![call.tx].status = "pending"]
             /\ call' = [call EXCEPT !.stage = "poll"] \/ Throw(PlainError)
    <2> USE DEF FrontInv, callOnly
    <2>1. /\ TxShape'
          /\ txs'[call.tx].source = txs[call.tx].source
          /\ txs'[call.tx].method = txs[call.tx].method
          /\ txs'[call.tx].arg = txs[call.tx].arg
          /\ txs'[call.tx].status = "pending"
          /\ \A o \in TxIds \ {call.tx} : txs'[o] = txs[o]
      BY <1>1, <1>4, StatusEffect DEF TxStatus
    <2>2. /\ CallShape' /\ call'.tx = call.tx
          /\ call'.stage = "poll" \/ (call'.stage = "thrown" /\ call'.error.kind = None)
      <3>1. CASE call' = [call EXCEPT !.stage = "poll"]
        BY <3>1 DEF CallShape, CallStages
      <3>2. CASE call' = [call EXCEPT !.stage = "thrown", !.error = PlainError]
        <4>1. PlainError.kind = None
          BY DEF PlainError
        <4> QED  BY <3>2, <4>1 DEF CallShape, CallStages
      <3> QED  BY <1>4, <3>1, <3>2 DEF Throw
    <2>3. CallHoldsTx'
      BY <1>1, <2>1, <2>2 DEF CallHoldsTx
    <2>4. FlowHoldsTx'
      BY <1>1, <2>1, <2>2 DEF FlowHoldsTx, Asking
    <2>5. Registrations'
      BY <1>1, <2>1, <2>2 DEF Registrations, Landed
    <2>6. PagesShape'
      BY DEF PagesShape
    <2> QED  BY <2>1, <2>2, <2>3, <2>4, <2>5, <2>6
  <1> QED  BY <1>2, <1>3, <1>4 DEF Send

LEMMA PollCallKeepsInv ==
    ASSUME FrontInv, PollCall, UNCHANGED callOnly
    PROVE  FrontInv'
  <1>1. call.stage = "poll" /\ UNCHANGED txs
    BY DEF PollCall
  <1>2. CASE call' = [call EXCEPT !.stage = "returned"]
    <2>1. call' = [call EXCEPT !.stage = "returned", !.error = call.error]
      BY <1>2 DEF FrontInv, CallShape
    <2> QED  BY <1>1, <2>1, CallMovesOn DEF CallStages, Asking
  <1>3. CASE txs[call.tx].status = "failed" /\ Throw(makeRpcError("chain_failed"))
    BY <1>1, <1>3, CallMovesOn DEF Throw, CallStages, Asking
  <1>4. CASE Throw(makeRpcError("submit_timeout")) \/ Throw(PlainError)
    <2>1. makeRpcError("submit_timeout").kind = "submit_timeout" /\ PlainError.kind = None
      BY DEF makeRpcError, PlainError
    <2> QED  BY <1>1, <1>4, <2>1, CallMovesOn DEF Throw, CallStages, Asking
  <1>5. CASE UNCHANGED call
    BY <1>1, <1>5, OtherVariables DEF callOnly, frontInvVars
  <1> QED  BY <1>2, <1>3, <1>4, <1>5 DEF PollCall

(* The two ways a page's call goes on: by itself, or by the prompt.          *)
LEMMA CallGoesOn ==
    ASSUME FrontInv, NEW accepted, CallStep(accepted) \/ SignCall, UNCHANGED callOnly
    PROVE  FrontInv'
  BY GetAccountKeepsInv, PrepareTransactionKeepsInv, SignCallKeepsInv, SendKeepsInv,
     PollCallKeepsInv DEF CallStep
-----------------------------------------------------------------------------
(* Whatever the extension answers a page with is an account of it or none.   *)
LEMMA ConnectValueType == \A o \in ConnectOutcomes : o.value \in Wallets \cup {None}
  BY DEF ConnectOutcomes, connectFreighter, Thrown, Returned, Extensions

LEMMA ConnectAddressType == ConnectAddresses \subseteq Wallets \cup {None}
  BY ConnectValueType DEF ConnectAddresses

(* Steps of the attestation page that leave the call and the table alone.    *)
chainAndOthers == <<page, txs, call, wizard, lending, lookups, proofOf>>

LEMMA FlowOnly ==
    ASSUME FrontInv, UNCHANGED chainAndOthers, FlowHoldsTx'
    PROVE  FrontInv'
  BY DEF FrontInv, chainAndOthers, TxShape, CallShape, CallHoldsTx, PagesShape, Registrations,
         Landed

LEMMA EndFlowKeepsInv ==
    ASSUME FrontInv, NEW e, EndFlow(e), UNCHANGED connecting, UNCHANGED chainAndOthers,
           flow.at # "none", call.stage \notin Asking
    PROVE  FrontInv'
  <1>1. ui' \in [wallet : Wallets \cup {None}, phase : {ui'.phase}, error : {ui'.error},
                 txHash : {ui'.txHash}, attestation : {ui'.attestation},
                 prepared : {ui'.prepared}, queue : {ui'.queue}]
    BY DEF EndFlow, ShowError, FrontInv, FlowHoldsTx
  <1>2. ~connecting
    BY DEF FrontInv, FlowHoldsTx, FlowPhases
  <1>3. flow' = NoFlow /\ UNCHANGED call
    BY DEF EndFlow, chainAndOthers
  <1>4. FlowHoldsTx'
    BY <1>1, <1>2, <1>3 DEF FlowHoldsTx, NoFlow, FlowSteps
  <1> QED  BY <1>4, FlowOnly

(* The wallet of the page changes only while no flow is for it.              *)
LEMMA WalletStepsKeepInv ==
    ASSUME FrontInv, SilentConnect \/ Connect \/ ConnectSettles, UNCHANGED chainAndOthers
    PROVE  FrontInv'
  <1> USE DEF FrontInv, chainAndOthers
  <1>1. CASE SilentConnect
    <2>1. CASE UNCHANGED ui
      BY <1>1, <2>1, OtherVariables DEF SilentConnect, frontInvVars
    <2>2. CASE ui.wallet = None /\ \E a \in SilentAddresses : ui' = [ui EXCEPT !.wallet = a]
      <3>1. flow.at = "none"
        BY <2>2, NoneIsNoWallet DEF FlowHoldsTx
      <3>2. FlowHoldsTx'
        BY <1>1, <2>2, <3>1, SilentAddressType DEF SilentConnect, FlowHoldsTx
      <3> QED  BY <3>2, FlowOnly
    <2> QED  BY <1>1, <2>1, <2>2 DEF SilentConnect
  <1>2. CASE Connect
    <2>1. flow.at = "none"
      BY <1>2, NoneIsNoWallet DEF Connect, FlowHoldsTx
    <2>2. FlowHoldsTx'
      BY <1>2, <2>1 DEF Connect, FlowHoldsTx
    <2> QED  BY <2>2, FlowOnly
  <1>3. CASE ConnectSettles
    <2>1. flow.at = "none"
      BY <1>3 DEF ConnectSettles, FlowHoldsTx, FlowPhases
    <2>2. PICK o \in ConnectOutcomes :
            IF o.error = NoError THEN ui' = [ui EXCEPT !.wallet = o.value, !.phase = "idle"]
                                 ELSE ShowError(o.error)
      BY <1>3 DEF ConnectSettles
    <2>3. o.value \in Wallets \cup {None}
      BY ConnectValueType
    <2>4. ~connecting' /\ UNCHANGED <<flow, call, page, txs>>
      BY <1>3 DEF ConnectSettles
    <2>5. ui' \in [wallet : Wallets \cup {None}, phase : {ui'.phase}, error : {ui'.error},
                   txHash : {ui'.txHash}, attestation : {ui'.attestation},
                   prepared : {ui'.prepared}, queue : {ui'.queue}]
      BY <2>2, <2>3 DEF ShowError, FlowHoldsTx
    <2>6. FlowHoldsTx'
      BY <2>1, <2>4, <2>5 DEF FlowHoldsTx
    <2> QED  BY <2>6, FlowOnly
  <1> QED  BY <1>1, <1>2, <1>3

LEMMA AttestKeepsInv ==
    ASSUME FrontInv, Attest, UNCHANGED chainAndOthers, page = "attestation"
    PROVE  FrontInv'
  <1> USE DEF FrontInv, chainAndOthers
  <1>1. ui.wallet \in Wallets /\ ui.phase \notin FlowPhases \cup {"connecting"}
    BY DEF Attest, RequestOffered, busy, FlowHoldsTx
  <1>2. flow.at = "none" /\ call.stage \notin Asking /\ ~connecting
    BY <1>1 DEF FlowHoldsTx
  <1>3. ui' = [Blank EXCEPT !.wallet = ui.wallet, !.phase = "preparing"]
        /\ flow' = [NoFlow EXCEPT !.at = "session", !.wallet = ui.wallet]
        /\ UNCHANGED connecting
    BY DEF Attest
  <1>4. FlowHoldsTx'
    BY <1>1, <1>2, <1>3 DEF FlowHoldsTx, Blank, NoFlow, FlowSteps, FlowPhases
  <1> QED  BY <1>4, FlowOnly

LEMMA AskSessionKeepsInv ==
    ASSUME FrontInv, AskSession, UNCHANGED chainAndOthers, page = "attestation"
    PROVE  FrontInv'
  <1> USE DEF FrontInv, chainAndOthers
  <1>1. flow.at = "session" /\ call.stage \notin Asking /\ UNCHANGED connecting
    BY DEF AskSession, FlowHoldsTx
  <1>2. CASE flow' = [flow EXCEPT !.at = "post"] /\ UNCHANGED ui
    <2>1. FlowHoldsTx'
      BY <1>1, <1>2 DEF FlowHoldsTx, FlowSteps
    <2> QED  BY <2>1, FlowOnly
  <1>3. CASE EndFlow(makePrepareError("api_unreachable"))
    BY <1>1, <1>3, EndFlowKeepsInv
  <1> QED  BY <1>2, <1>3 DEF AskSession

\* The page is told of a transaction, or the job has made it.
LEMMA PreparedKeepsInv ==
    ASSUME FrontInv, NEW t \in TxIds, NextTx(t),
           Build(t, flow.wallet, "attest_with_risc0", None),
           UNCHANGED <<page, call, ui, connecting, wizard, lending, lookups, proofOf>>,
           NEW a \in FlowSteps, NEW j, flow' = [flow EXCEPT !.at = a, !.job = j, !.tx = t],
           page = "attestation", call.stage \notin Asking, flow.at # "none"
    PROVE  FrontInv'
  <1> USE DEF FrontInv
  <1>1. /\ TxShape' /\ txs[t].status = "none"
        /\ txs'[t].source = flow.wallet /\ txs'[t].method = "attest_with_risc0"
        /\ txs'[t].status = "built"
        /\ \A o \in TxIds \ {t} : txs'[o] = txs[o]
    BY BuildEffect DEF FlowHoldsTx, Methods
  <1>2. CallShape' /\ PagesShape'
    BY DEF CallShape, PagesShape
  <1>3. CallHoldsTx'
    BY <1>1 DEF CallHoldsTx
  <1>4. flow'.tx = t /\ flow'.at = a /\ flow'.wallet = flow.wallet
        /\ flow' \in [at : FlowSteps, wallet : Wallets \cup {None}, job : {flow'.job},
                      tx : TxIds \cup {None}]
    BY DEF FlowHoldsTx
  <1>5. FlowHoldsTx'
    BY <1>1, <1>4 DEF FlowHoldsTx
  <1>6. Registrations'
    BY <1>1 DEF Registrations, Landed
  <1> QED  BY <1>1, <1>2, <1>3, <1>5, <1>6

LEMMA PostPrepareKeepsInv ==
    ASSUME FrontInv, PostPrepare, page = "attestation",
           UNCHANGED <<page, wizard, lending, lookups, proofOf>>
    PROVE  FrontInv'
  <1>1. /\ flow.at = "post" /\ call.stage \notin Asking /\ UNCHANGED <<connecting, call>>
    BY DEF PostPrepare, FrontInv, FlowHoldsTx
  <1>2. CASE /\ flow' = [flow EXCEPT !.at = "poll", !.job = "queued"]
             /\ ui' = [ui EXCEPT !.phase = "waiting", !.queue = "queued"]
             /\ UNCHANGED txs
    <2>1. ~connecting
      BY <1>1 DEF FrontInv, FlowHoldsTx, FlowPhases
    <2>2. FlowHoldsTx'
      BY <1>1, <1>2, <2>1 DEF FrontInv, FlowHoldsTx, FlowSteps, FlowPhases
    <2> QED  BY <1>1, <1>2, <2>2, FlowOnly DEF chainAndOthers
  <1>3. CASE \E t \in TxIds : /\ NextTx(t) /\ Build(t, flow.wallet, "attest_with_risc0", None)
                              /\ flow' = [flow EXCEPT !.at = "import", !.tx = t]
                              /\ UNCHANGED ui
    <2>1. PICK t \in TxIds : /\ NextTx(t) /\ Build(t, flow.wallet, "attest_with_risc0", None)
                             /\ flow' = [flow EXCEPT !.at = "import", !.tx = t]
                             /\ UNCHANGED ui
      BY <1>3
    <2>2. flow' = [flow EXCEPT !.at = "import", !.job = flow.job, !.tx = t]
      BY <2>1 DEF FrontInv, FlowHoldsTx
    <2> QED  BY <1>1, <2>1, <2>2, PreparedKeepsInv DEF FlowSteps
  <1>4. CASE \E k \in PrepareErrors : EndFlow(makePrepareError(k)) /\ UNCHANGED txs
    BY <1>1, <1>4, EndFlowKeepsInv DEF chainAndOthers
  <1> QED  BY <1>2, <1>3, <1>4 DEF PostPrepare

LEMMA JobMovesKeepsInv ==
    ASSUME FrontInv, JobMoves, page = "attestation",
           UNCHANGED <<page, wizard, lending, lookups, proofOf>>
    PROVE  FrontInv'
  <1>1. /\ flow.at = "poll" /\ flow.job \in OpenJob /\ call.stage \notin Asking
        /\ UNCHANGED <<ui, connecting, call>>
    BY DEF JobMoves, FrontInv, FlowHoldsTx
  <1>2. CASE UNCHANGED txs /\ \E j \in {"proving", "failed"} : flow' = [flow EXCEPT !.job = j]
    <2>1. FlowHoldsTx'
      BY <1>1, <1>2 DEF FrontInv, FlowHoldsTx
    <2> QED  BY <1>1, <1>2, <2>1, FlowOnly DEF chainAndOthers
  <1>3. CASE \E t \in TxIds : /\ NextTx(t) /\ Build(t, flow.wallet, "attest_with_risc0", None)
                              /\ flow' = [flow EXCEPT !.job = "succeeded", !.tx = t]
    <2>1. PICK t \in TxIds : /\ NextTx(t) /\ Build(t, flow.wallet, "attest_with_risc0", None)
                             /\ flow' = [flow EXCEPT !.job = "succeeded", !.tx = t]
      BY <1>3
    <2>2. flow' = [flow EXCEPT !.at = "poll", !.job = "succeeded", !.tx = t]
      BY <1>1, <2>1 DEF FrontInv, FlowHoldsTx
    <2> QED  BY <1>1, <2>1, <2>2, PreparedKeepsInv DEF FlowSteps
  <1> QED  BY <1>2, <1>3 DEF JobMoves

LEMMA PollJobKeepsInv ==
    ASSUME FrontInv, PollJob, page = "attestation", UNCHANGED chainAndOthers
    PROVE  FrontInv'
  <1>1. flow.at = "poll" /\ call.stage \notin Asking /\ UNCHANGED connecting
    BY DEF PollJob, FrontInv, FlowHoldsTx
  <1>2. CASE ui' = [ui EXCEPT !.queue = flow.job] /\ UNCHANGED flow
    <2>1. FlowHoldsTx'
      BY <1>1, <1>2 DEF chainAndOthers, FrontInv, FlowHoldsTx
    <2> QED  BY <2>1, FlowOnly
  <1>3. CASE flow.job = "succeeded" /\ flow' = [flow EXCEPT !.at = "import"] /\ UNCHANGED ui
    <2>1. FlowHoldsTx'
      BY <1>1, <1>3 DEF chainAndOthers, FrontInv, FlowHoldsTx, FlowSteps
    <2> QED  BY <2>1, FlowOnly
  <1>4. CASE \E k : EndFlow(makePrepareError(k))
    BY <1>1, <1>4, EndFlowKeepsInv
  <1> QED  BY <1>2, <1>3, <1>4 DEF PollJob

(* The flow hands its transaction to the call.                               *)
LEMMA StartSubmitKeepsInv ==
    ASSUME FrontInv, StartSubmit, page = "attestation",
           UNCHANGED <<page, wizard, lending, lookups, proofOf>>
    PROVE  FrontInv'
  <1> USE DEF FrontInv
  <1>1. /\ flow.at = "import" /\ call.stage \notin Asking /\ UNCHANGED <<connecting, txs>>
        /\ flow.tx \in TxIds /\ txs[flow.tx].status = "built" /\ flow.wallet \in Wallets
        /\ ~connecting
    BY DEF StartSubmit, FlowHoldsTx, FlowPhases
  <1>2. CASE /\ flow' = [flow EXCEPT !.at = "call"]
             /\ ui' = [ui EXCEPT !.phase = "submitting"]
             /\ submitCosignedAttestation(flow.tx, flow.wallet)
    <2>1. CallShape' /\ call'.stage = "sign" /\ call'.tx = flow.tx
      BY <1>1, <1>2 DEF submitCosignedAttestation, NoCall, CallShape, CallStages, Methods
    <2>2. TxShape' /\ PagesShape'
      BY <1>1 DEF TxShape, PagesShape
    <2>3. CallHoldsTx'
      BY <1>1, <2>1 DEF CallHoldsTx
    <2>4. FlowHoldsTx'
      BY <1>1, <1>2, <2>1 DEF FlowHoldsTx, FlowSteps, FlowPhases
    <2>5. Registrations'
      BY <1>1, <2>1 DEF Registrations, Landed
    <2> QED  BY <2>1, <2>2, <2>3, <2>4, <2>5
  <1>3. CASE EndFlow(PlainError) /\ UNCHANGED call
    BY <1>1, <1>3, EndFlowKeepsInv DEF chainAndOthers
  <1> QED  BY <1>2, <1>3 DEF StartSubmit

LEMMA EndSubmitKeepsInv ==
    ASSUME FrontInv, EndSubmit, page = "attestation",
           UNCHANGED <<page, wizard, lending, lookups, proofOf>>
    PROVE  FrontInv'
  <1>1. flow.at = "call" /\ UNCHANGED connecting /\ UNCHANGED chainAndOthers
    BY DEF EndSubmit, callVars, chainAndOthers
  <1>2. CASE /\ call.stage = "returned"
             /\ flow' = [flow EXCEPT !.at = "read"]
             /\ ui' = [ui EXCEPT !.phase = "reading", !.txHash = call.tx]
    <2>1. ~connecting
      BY <1>1 DEF FrontInv, FlowHoldsTx, FlowPhases
    <2>2. FlowHoldsTx'
      BY <1>1, <1>2, <2>1
      DEF chainAndOthers, FrontInv, FlowHoldsTx, FlowSteps, FlowPhases, Asking
    <2> QED  BY <1>1, <2>2, FlowOnly
  <1>3. CASE call.stage = "thrown" /\ EndFlow(call.error)
    BY <1>1, <1>3, EndFlowKeepsInv DEF Asking
  <1> QED  BY <1>2, <1>3 DEF EndSubmit

LEMMA ReadBackKeepsInv ==
    ASSUME FrontInv, ReadBack, page = "attestation",
           UNCHANGED <<page, wizard, lending, lookups, proofOf>>
    PROVE  FrontInv'
  <1>1. /\ flow.at = "read" /\ call.stage \notin Asking
        /\ UNCHANGED connecting /\ UNCHANGED chainAndOthers
    BY DEF ReadBack, callVars, chainAndOthers, FrontInv, FlowHoldsTx
  <1>2. CASE flow' = NoFlow /\ \E record :
               ui' = [ui EXCEPT !.phase = "done", !.attestation = record,
                                !.prepared = flow.tx, !.queue = None]
    <2>1. ~connecting /\ ~connecting'
      BY <1>1 DEF FrontInv, FlowHoldsTx, FlowPhases
    <2>2. ui' \in [wallet : Wallets \cup {None}, phase : {ui'.phase}, error : {ui'.error},
                   txHash : {ui'.txHash}, attestation : {ui'.attestation},
                   prepared : {ui'.prepared}, queue : {ui'.queue}]
      BY <1>2 DEF FrontInv, FlowHoldsTx
    <2>3. FlowHoldsTx'
      BY <1>1, <1>2, <2>1, <2>2 DEF chainAndOthers, FlowHoldsTx, NoFlow, FlowSteps
    <2> QED  BY <1>1, <2>3, FlowOnly
  <1>3. CASE EndFlow(PlainError)
    BY <1>1, <1>3, EndFlowKeepsInv
  <1> QED  BY <1>2, <1>3 DEF ReadBack

LEMMA OnAttestationKeepsInv ==
    ASSUME FrontInv, OnAttestation
    PROVE  FrontInv'
  <1>1. page = "attestation" /\ UNCHANGED <<page, wizard, lending, lookups, proofOf>>
    BY DEF OnAttestation, AttestationOnly, idOwn, idPageVars, lendPageVars, chainOwn
  <1>2. ASSUME UNCHANGED callVars PROVE UNCHANGED chainAndOthers
    BY <1>1, <1>2 DEF callVars, chainAndOthers
  <1>3. CASE SilentConnect \/ Connect \/ ConnectSettles
    <2>1. UNCHANGED callVars
      BY <1>3 DEF SilentConnect, Connect, ConnectSettles
    <2> QED  BY <1>2, <1>3, <2>1, WalletStepsKeepInv
  <1>4. CASE Attest
    BY <1>1, <1>2, <1>4, AttestKeepsInv DEF Attest
  <1>5. CASE FlowStep
    <2>1. AskSession \/ PollJob => UNCHANGED callVars
      BY DEF AskSession, PollJob
    <2> QED  BY <1>1, <1>2, <1>5, <2>1, AskSessionKeepsInv, PostPrepareKeepsInv, PollJobKeepsInv,
                StartSubmitKeepsInv, EndSubmitKeepsInv, ReadBackKeepsInv DEF FlowStep
  <1>6. CASE JobMoves
    BY <1>1, <1>6, JobMovesKeepsInv
  <1>7. CASE AttestCall
    BY <1>1, <1>7, CallGoesOn DEF AttestCall, attestOwn, callOnly
  <1> QED  BY <1>3, <1>4, <1>5, <1>6, <1>7 DEF OnAttestation, AttestStep
-----------------------------------------------------------------------------
(* The stages of the identity page.  A stage that is ticked is done, an      *)
(* active one is not, and one that is not locked has every earlier one done. *)
LEMMA StagesReached ==
    ASSUME NEW i \in 1..4
    PROVE  /\ TrailDone(i) => stageDone[i]
           /\ stageState(i) = "active" => ~stageDone[i]
           /\ stageState(i) # "locked" => \A j \in 1..(i - 1) : stageDone[j]
  BY DEF stageState, TrailDone

LEMMA StageMeans ==
    /\ stageDone[1] <=> wizard.address # None
    /\ stageDone[2] <=> wizard.identity # None
    /\ stageDone[3] <=> isLinked
    /\ stageDone[4] <=> kycVerified
  BY DEF stageDone

(* A link is offered for a wallet and an identity.                           *)
LEMMA LinkIsForBoth ==
    ASSUME LinkOffered
    PROVE  wizard.address # None /\ wizard.identity # None
  <1>1. stageDone[1] /\ stageDone[2]
    BY StagesReached DEF LinkOffered
  <1> QED  BY <1>1, StageMeans

(* A step that asks for nothing: what it leaves, it shows or knows.          *)
identityRest == <<page, txs, call, ui, flow, connecting, lending, lookups>>

LEMMA IdentityShows ==
    ASSUME FrontInv, UNCHANGED identityRest, UNCHANGED proofOf, PagesShape'
    PROVE  FrontInv'
  BY DEF FrontInv, identityRest, TxShape, CallShape, CallHoldsTx, FlowHoldsTx, Registrations,
         Landed

LEMMA ShowMembersKeepsShape ==
    ASSUME FrontInv, UNCHANGED identityRest, wizard' = [wizard EXCEPT !.members = api.members]
    PROVE  PagesShape'
  BY DEF FrontInv, PagesShape, identityRest

\* An identity nobody has a proof for yet.
LEMMA ProveIdentityKeepsInv ==
    ASSUME FrontInv, ProveIdentity, UNCHANGED identityRest
    PROVE  FrontInv'
  <1> USE DEF FrontInv, identityRest
  <1>1. CASE \E c \in Commitments :
               /\ proofOf[c] = None
               /\ proofOf' = [proofOf EXCEPT ![c] = wizard.minting]
               /\ wizard' = [wizard EXCEPT !.minting = None, !.identity = c]
    <2>1. PICK c \in Commitments :
               /\ proofOf[c] = None
               /\ proofOf' = [proofOf EXCEPT ![c] = wizard.minting]
               /\ wizard' = [wizard EXCEPT !.minting = None, !.identity = c]
      BY <1>1
    <2>2. PagesShape'
      BY <2>1 DEF PagesShape
    <2>3. proofOf' \in [Commitments -> Wallets \cup {None}]
          /\ \A d \in Commitments \ {c} : proofOf'[d] = proofOf[d]
      BY <2>1 DEF PagesShape, Registrations
    <2>4. Registrations'
      BY <2>1, <2>3, NoneIsNoWallet DEF Registrations, Landed
    <2>5. TxShape' /\ CallShape' /\ CallHoldsTx' /\ FlowHoldsTx'
      BY DEF TxShape, CallShape, CallHoldsTx, FlowHoldsTx
    <2> QED  BY <2>2, <2>4, <2>5
  <1>2. CASE wizard' = [wizard EXCEPT !.minting = None] /\ UNCHANGED proofOf
    <2>1. PagesShape'
      BY <1>2 DEF PagesShape
    <2> QED  BY <1>2, <2>1, IdentityShows
  <1> QED  BY <1>1, <1>2 DEF ProveIdentity

LEMMA AskForCallKeepsInv ==
    ASSUME FrontInv, NEW m \in Methods, NEW w \in Wallets \cup {None},
           NEW a \in Commitments \cup {None}, invokeContractCall(m, w, a),
           m = "register_wallet" => w \in Wallets /\ a \in Commitments,
           page # "attestation", PagesShape',
           UNCHANGED <<page, txs, ui, flow, connecting, proofOf>>
    PROVE  FrontInv'
  <1> USE DEF FrontInv
  <1>1. /\ CallShape' /\ call'.stage = "account" /\ call'.tx = None
        /\ call'.method = m /\ call'.by = w /\ call'.arg = a
    BY DEF invokeContractCall, NoCall, CallShape, CallStages
  <1>2. TxShape' /\ CallHoldsTx' /\ FlowHoldsTx'
    BY <1>1 DEF TxShape, CallHoldsTx, FlowHoldsTx
  <1>3. Registrations'
    BY <1>1 DEF Registrations, Landed
  <1> QED  BY <1>1, <1>2, <1>3

LEMMA CallIsOverKeepsInv ==
    ASSUME FrontInv, call' = NoCall, PagesShape',
           UNCHANGED <<page, txs, ui, flow, connecting, proofOf>>
    PROVE  FrontInv'
  <1> USE DEF FrontInv
  <1>1. CallShape' /\ call'.stage = "idle"
    BY DEF NoCall, CallShape, CallStages
  <1>2. TxShape' /\ CallHoldsTx' /\ FlowHoldsTx'
    BY <1>1 DEF TxShape, CallHoldsTx, FlowHoldsTx, Asking
  <1>3. Registrations'
    BY <1>1 DEF Registrations, Landed
  <1> QED  BY <1>1, <1>2, <1>3

LEMMA OnIdentityKeepsInv ==
    ASSUME FrontInv, OnIdentity
    PROVE  FrontInv'
  <1>1. page = "identity" /\ UNCHANGED <<page, ui, flow, connecting, lending, lookups>>
    BY DEF OnIdentity, IdentityOnly, attestOwn, lendPageVars
  <1>2. CASE UNCHANGED <<txs, call, proofOf>> /\ UNCHANGED wizard
    BY <1>1, <1>2, OtherVariables DEF frontInvVars
  <1>3. CASE UNCHANGED <<txs, call, proofOf>> /\ wizard' = [wizard EXCEPT !.members = api.members]
    BY <1>1, <1>3, ShowMembersKeepsShape, IdentityShows DEF identityRest
  <1>4. CASE ConnectWallet \/ PromptSettles \/ Generate
    <2>1. PagesShape'
      BY <1>1, <1>4, ConnectAddressType
      DEF ConnectWallet, PromptSettles, Generate, FrontInv, PagesShape
    <2> QED  BY <1>1, <1>4, <2>1, IdentityShows
             DEF ConnectWallet, PromptSettles, Generate, callVars, identityRest
  <1>5. CASE ProveIdentity
    BY <1>1, <1>5, ProveIdentityKeepsInv DEF ProveIdentity, callVars, identityRest
  <1>6. CASE Link
    <2>1. wizard.address \in Wallets /\ wizard.identity \in Commitments
      BY <1>6, LinkIsForBoth DEF Link, FrontInv, PagesShape
    <2>2. PagesShape'
      BY <1>1, <1>6 DEF Link, FrontInv, PagesShape
    <2> QED  BY <1>1, <1>6, <2>1, <2>2, AskForCallKeepsInv DEF Link, Methods
  <1>7. CASE Leave
    <2>1. PagesShape' /\ wizard.address \in Wallets \cup {None}
      BY <1>1, <1>7 DEF Leave, FrontInv, PagesShape
    <2> QED  BY <1>1, <1>7, <2>1, AskForCallKeepsInv DEF Leave, Methods
  <1>8. CASE CallEnds
    <2>1. PagesShape'
      BY <1>1, <1>8 DEF CallEnds, FrontInv, PagesShape
    <2> QED  BY <1>1, <1>8, <2>1, CallIsOverKeepsInv DEF CallEnds
  <1>9. CASE IdentityCall
    BY <1>1, <1>9, CallGoesOn DEF IdentityCall, idPageVars, callOnly
  <1>10. CASE RefreshMembers \/ LinkingEnds
    BY <1>2, <1>3, <1>10 DEF RefreshMembers, LinkingEnds, callVars
  <1>11. CASE \/ RecordMembership \/ StartVerification \/ CreateKycSession
              \/ VerificationStarts \/ Refresh \/ PollStep \/ Webhook \/ Bind
    BY <1>2, <1>11 DEF RecordMembership, StartVerification, CreateKycSession, VerificationStarts,
       Refresh, PollStep, Tick, AskStatus, StatusArrives, Webhook, Bind, callVars, idPageVars
  <1> QED
    BY <1>4, <1>5, <1>6, <1>7, <1>8, <1>9, <1>10, <1>11 DEF OnIdentity, IdentityStep
-----------------------------------------------------------------------------
(* The lending page borrows for the wallet it is connected to.               *)
LEMMA OnLendingKeepsInv ==
    ASSUME FrontInv, OnLending
    PROVE  FrontInv'
  <1>1. page = "lending" /\ UNCHANGED <<page, ui, flow, connecting, wizard, proofOf>>
    BY DEF OnLending, LendingOnly, attestOwn, idOwn, idPageVars, chainOwn
  <1>2. CASE LookUp \/ LookupSettles \/ ConnectLending
    <2>1. PagesShape'
      <3>1. CASE LookUp
        BY <1>1, <3>1 DEF LookUp, StartLookup, FrontInv, PagesShape
      <3>2. CASE LookupSettles
        BY <1>1, <3>2 DEF LookupSettles, FrontInv, PagesShape
      <3>3. CASE ConnectLending
        BY <1>1, <3>3, ConnectAddressType DEF ConnectLending, StartLookup, FrontInv, PagesShape
      <3> QED  BY <1>2, <3>1, <3>2, <3>3
    <2>2. UNCHANGED <<txs, call>>
      BY <1>2 DEF LookUp, LookupSettles, ConnectLending, callVars
    <2> QED
      BY <1>1, <2>1, <2>2
      DEF FrontInv, TxShape, CallShape, CallHoldsTx, FlowHoldsTx, Registrations, Landed
  <1>3. CASE Execute
    <2>1. PagesShape' /\ lending.connected \in Wallets \cup {None}
      BY <1>1, <1>3 DEF Execute, FrontInv, PagesShape
    <2> QED  BY <1>1, <1>3, <2>1, AskForCallKeepsInv DEF Execute, Methods
  <1>4. CASE ExecuteEnds
    <2>1. PagesShape'
      BY <1>1, <1>4 DEF ExecuteEnds, FrontInv, PagesShape
    <2> QED  BY <1>1, <1>4, <2>1, CallIsOverKeepsInv DEF ExecuteEnds
  <1>5. CASE LendingCall
    BY <1>1, <1>5, CallGoesOn DEF LendingCall, lendPageVars, callOnly
  <1> QED  BY <1>2, <1>3, <1>4, <1>5 DEF OnLending, LendingStep
-----------------------------------------------------------------------------
(* The ledger settles what is pending, and a registration as the contract    *)
(* accepts it; what a page still holds, or was told has failed, is not.      *)
LEMMA SettledKeepsInv ==
    ASSUME FrontInv, NEW t \in TxIds, txs[t].status = "pending",
           NEW s \in {"success", "failed", "built"}, txs' = [txs EXCEPT ![t].status = s],
           txs[t].method = "register_wallet" /\ s = "success" =>
               proofOf[txs[t].arg] = txs[t].source,
           UNCHANGED callOnly, UNCHANGED call
    PROVE  FrontInv'
  <1> USE DEF FrontInv, callOnly
  <1>1. /\ TxShape' /\ txs'[t].source = txs[t].source /\ txs'[t].method = txs[t].method
        /\ txs'[t].arg = txs[t].arg /\ txs'[t].status = s
        /\ \A o \in TxIds \ {t} : txs'[o] = txs[o]
    BY StatusEffect DEF TxStatus
  <1>2. CallShape' /\ PagesShape'
    BY DEF CallShape, PagesShape
  <1>3. CallHoldsTx'
    BY <1>1 DEF CallHoldsTx
  <1>4. FlowHoldsTx'
    BY <1>1 DEF FlowHoldsTx
  <1>5. Registrations'
    BY <1>1 DEF Registrations, Landed
  <1> QED  BY <1>1, <1>2, <1>3, <1>4, <1>5

LEMMA LedgerKeepsInv ==
    ASSUME FrontInv, Ledger
    PROVE  FrontInv'
  <1>1. UNCHANGED callOnly
    BY DEF Ledger, attestOwn, idOwn, idPageVars, lendPageVars, callOnly
  <1>2. PICK t \in TxIds :
           \/ txs[t].method \in RegistryMethods /\ RegistryCloses(t)
           \/ txs[t].method \notin RegistryMethods /\ Close(t, TRUE) /\ UNCHANGED group
           \/ Expire(t) /\ UNCHANGED group
    BY DEF Ledger
  <1>3. CASE txs[t].method \in RegistryMethods /\ RegistryCloses(t)
    <2>1. Close(t, RegistryAccepts(t))
      BY <1>3 DEF RegistryCloses
    <2>2. PICK s \in {"failed"} \cup (IF RegistryAccepts(t) THEN {"success"} ELSE {}) :
            txs' = [txs EXCEPT ![t].status = s]
      BY <2>1 DEF Close
    <2>3. s = "success" => RegistryAccepts(t)
      BY <2>2
    <2>4. txs[t].method = "register_wallet" /\ s = "success" =>
            proofOf[txs[t].arg] = txs[t].source
      BY <2>3 DEF RegistryAccepts
    <2> QED  BY <1>1, <2>1, <2>2, <2>4, SettledKeepsInv DEF Close
  <1>4. CASE txs[t].method \notin RegistryMethods /\ Close(t, TRUE)
    BY <1>1, <1>4, SettledKeepsInv DEF Close, RegistryMethods
  <1>5. CASE Expire(t)
    BY <1>1, <1>5, SettledKeepsInv DEF Expire
  <1> QED  BY <1>2, <1>3, <1>4, <1>5

LEMMA NewDocumentKeepsInv ==
    ASSUME FrontInv, NewDocument
    PROVE  FrontInv'
  <1> USE DEF FrontInv, NewDocument
  <1>1. /\ UNCHANGED <<txs, proofOf>> /\ call' = NoCall
        /\ ui' = Blank /\ flow' = NoFlow /\ connecting' = FALSE
        /\ wizard' = Fresh /\ lending' = NoLending /\ lookups' = {}
    BY DEF LeaveAttestPage, LeaveIdentityPage, LeaveLendingPage, chainOwn
  <1>2. TxShape'
    BY <1>1 DEF TxShape
  <1>3. CallShape' /\ CallHoldsTx'
    BY <1>1 DEF NoCall, CallShape, CallHoldsTx, CallStages
  <1>4. FlowHoldsTx'
    BY <1>1 DEF NoCall, NoFlow, Blank, Asking, FlowSteps, FlowHoldsTx
  <1>5. PagesShape'
    BY <1>1 DEF Fresh, NoLending, PagesShape
  <1>6. Registrations'
    BY <1>1 DEF NoCall, Registrations, Landed
  <1> QED  BY <1>2, <1>3, <1>4, <1>5, <1>6

LEMMA FrontStepKeepsInv == FrontInv /\ [FrontNext]_frontVars => FrontInv'
  <1> SUFFICES ASSUME FrontInv, [FrontNext]_frontVars PROVE FrontInv'
    OBVIOUS
  <1>1. CASE OnAttestation
    BY <1>1, OnAttestationKeepsInv
  <1>2. CASE OnIdentity
    BY <1>2, OnIdentityKeepsInv
  <1>3. CASE OnLending
    BY <1>3, OnLendingKeepsInv
  <1>4. CASE Ledger
    BY <1>4, LedgerKeepsInv
  <1>5. CASE NewDocument
    BY <1>5, NewDocumentKeepsInv
  <1>6. CASE OnLanding \/ OnPreview \/ UNCHANGED frontVars
    BY <1>6, OtherVariables
    DEF OnLanding, OnPreview, LandingOnly, PreviewOnly, frontVars, attestOwn, idOwn, idPageVars,
        lendPageVars, chainOwn, callVars, frontInvVars
  <1> QED  BY <1>1, <1>2, <1>3, <1>4, <1>5, <1>6, DocumentsStartOver DEF FrontNext

(* FrontInv holds whatever the person, the network and the API do.           *)
THEOREM FrontInvariant == FrontSpec => []FrontInv
  BY FrontStepKeepsInv, InitEstablishesFrontInv, PTL DEF FrontSpec

(* KnownFailureStaysOut: a failure that a page names is final.               *)
THEOREM KnownFailuresStayOut == FrontSpec => []KnownFailureStaysOut
  <1>1. FrontInv => KnownFailureStaysOut
    BY DEF FrontInv, CallHoldsTx, KnownFailureStaysOut
  <1> QED  BY <1>1, FrontInvariant, PTL
-----------------------------------------------------------------------------
(* A frame is asked for exactly while the sphere is to be seen, the flags   *)
(* follow the document, and an unmounted sphere has none of them.           *)
SphereInv ==
    /\ sphere \in [mounted : BOOLEAN, tabVisible : BOOLEAN, onScreen : BOOLEAN, raf : BOOLEAN]
    /\ hidden \in BOOLEAN
    /\ frames = IF sphere.raf THEN 1 ELSE 0
    /\ sphere.raf <=> running(sphere)
    /\ sphere.mounted => (sphere.tabVisible <=> ~hidden)
    /\ ~sphere.mounted => ~sphere.tabVisible

Flags(m, v, o, r) == [mounted |-> m, tabVisible |-> v, onScreen |-> o, raf |-> r]

LEMMA FlagsOf ==
    ASSUME NEW m \in BOOLEAN, NEW v \in BOOLEAN, NEW o \in BOOLEAN, NEW r \in BOOLEAN
    PROVE /\ Flags(m, v, o, r).mounted = m /\ Flags(m, v, o, r).tabVisible = v
          /\ Flags(m, v, o, r).onScreen = o /\ Flags(m, v, o, r).raf = r
  BY DEF Flags

LEMMA FrameFlag ==
    ASSUME NEW m \in BOOLEAN, NEW v \in BOOLEAN, NEW o \in BOOLEAN, NEW r \in BOOLEAN
    PROVE /\ [Flags(m, v, o, r) EXCEPT !.raf = TRUE] = Flags(m, v, o, TRUE)
          /\ [Flags(m, v, o, r) EXCEPT !.raf = FALSE] = Flags(m, v, o, FALSE)
  <1>1. \A x \in BOOLEAN : [Flags(m, v, o, r) EXCEPT !.raf = x] = Flags(m, v, o, x)
    BY DEF Flags
  <1> QED  BY <1>1, Zenon

LEMMA SphereIs ==
    ASSUME NEW m \in BOOLEAN, NEW v \in BOOLEAN, NEW o \in BOOLEAN, NEW r \in BOOLEAN,
           sphere' = Flags(m, v, o, r), hidden' \in BOOLEAN,
           frames' = IF r THEN 1 ELSE 0, r <=> v /\ o,
           m => (v <=> ~hidden'), ~m => ~v
    PROVE  SphereInv'
  <1>1. sphere' \in [mounted : BOOLEAN, tabVisible : BOOLEAN, onScreen : BOOLEAN, raf : BOOLEAN]
    BY DEF Flags
  <1>2. sphere'.mounted = m /\ sphere'.tabVisible = v /\ sphere'.onScreen = o /\ sphere'.raf = r
    BY DEF Flags
  <1> QED  BY <1>1, <1>2, Zenon DEF SphereInv, running

\* What start and stop owe: a frame for a sphere that is seen, none for another.
LEMMA StartsOrStops ==
    ASSUME NEW m \in BOOLEAN, NEW v \in BOOLEAN, NEW o \in BOOLEAN, NEW r \in BOOLEAN, NEW n,
           n = IF r THEN 1 ELSE 0, hidden' \in BOOLEAN,
           m => (v <=> ~hidden'), ~m => ~v,
           \/ (r => v /\ o) /\ start(Flags(m, v, o, r), n)
           \/ ~(v /\ o) /\ stop(Flags(m, v, o, r), n)
    PROVE  SphereInv'
  <1>1. CASE r = TRUE
    <2>1. CASE v /\ o
      <3>1. Becomes(Flags(m, v, o, r), n)
        BY <1>1, <2>1, FlagsOf, Zenon DEF start
      <3> QED  BY <1>1, <2>1, <3>1, SphereIs DEF Becomes
    <2>2. CASE ~(v /\ o)
      <3>1. Becomes([Flags(m, v, o, r) EXCEPT !.raf = FALSE], n - 1)
        BY <1>1, <2>2, FlagsOf, Zenon DEF stop
      <3>2. [Flags(m, v, o, r) EXCEPT !.raf = FALSE] = Flags(m, v, o, FALSE)
        BY FrameFlag, Zenon
      <3>3. sphere' = Flags(m, v, o, FALSE) /\ frames' = 0
        BY <1>1, <3>1, <3>2 DEF Becomes
      <3> QED  BY <2>2, <3>3, SphereIs
    <2> QED  BY <2>1, <2>2
  <1>2. CASE r = FALSE
    <2>1. CASE v /\ o
      <3>1. Becomes([Flags(m, v, o, r) EXCEPT !.raf = TRUE], n + 1)
        BY <1>2, <2>1, FlagsOf, Zenon DEF start, running
      <3>2. [Flags(m, v, o, r) EXCEPT !.raf = TRUE] = Flags(m, v, o, TRUE)
        BY FrameFlag, Zenon
      <3>3. sphere' = Flags(m, v, o, TRUE) /\ frames' = 1
        BY <1>2, <3>1, <3>2 DEF Becomes
      <3> QED  BY <2>1, <3>3, SphereIs
    <2>2. CASE ~(v /\ o)
      <3>1. Becomes(Flags(m, v, o, r), n)
        BY <1>2, <2>2, FlagsOf, Zenon DEF start, stop, running
      <3> QED  BY <1>2, <2>2, <3>1, SphereIs DEF Becomes
    <2> QED  BY <2>1, <2>2
  <1> QED  BY <1>1, <1>2

LEMMA SphereStepKeepsInv ==
    ASSUME SphereInv, SphereStep
    PROVE  SphereInv'
  <1>1. PICK m \in BOOLEAN, v \in BOOLEAN, o \in BOOLEAN, r \in BOOLEAN : sphere = Flags(m, v, o, r)
    BY DEF SphereInv, Flags
  <1>2. /\ sphere.mounted = m /\ sphere.tabVisible = v /\ sphere.onScreen = o /\ sphere.raf = r
        /\ hidden \in BOOLEAN
    BY <1>1, FlagsOf, ZenonT(60) DEF SphereInv
  <1>3. frames = IF r THEN 1 ELSE 0
    BY <1>2, Zenon DEF SphereInv
  <1>4. (r <=> v /\ o) /\ (m => (v <=> ~hidden)) /\ (~m => ~v)
    BY <1>2, Zenon DEF SphereInv, running
  <1>5. CASE Mount
    <2>1. start(Flags(TRUE, ~hidden, TRUE, FALSE), frames) /\ ~m /\ hidden' = hidden
      BY <1>2, <1>5, Zenon DEF Mount, Flags
    <2>2. frames = 0
      BY <1>3, <1>4, <2>1
    <2>3. PICK w \in BOOLEAN : w = ~hidden
      OBVIOUS
    <2> QED  BY <1>2, <2>1, <2>2, <2>3, StartsOrStops
  <1>6. CASE tick
    <2>1. r = TRUE
      BY <1>3, <1>6 DEF tick
    <2>2. Becomes([sphere EXCEPT !.raf = TRUE], frames) /\ UNCHANGED hidden
      BY <1>2, <1>4, <1>6, <2>1, Zenon DEF tick, running
    <2>3. [Flags(m, v, o, r) EXCEPT !.raf = TRUE] = Flags(m, v, o, TRUE)
      BY FrameFlag, Zenon
    <2>4. sphere' = Flags(m, v, o, TRUE) /\ frames' = 1
      BY <1>1, <1>3, <2>1, <2>2, <2>3 DEF Becomes
    <2> QED  BY <1>2, <1>4, <2>1, <2>2, <2>4, SphereIs
  <1>7. CASE Intersects
    <2>1. PICK i \in BOOLEAN : IF i THEN start([sphere EXCEPT !.onScreen = i], frames)
                                    ELSE stop([sphere EXCEPT !.onScreen = i], frames)
      BY <1>7 DEF Intersects
    <2>2. [sphere EXCEPT !.onScreen = i] = Flags(m, v, i, r)
      BY <1>1 DEF Flags
    <2>3. IF i THEN start(Flags(m, v, i, r), frames) ELSE stop(Flags(m, v, i, r), frames)
      BY <2>1, <2>2, Zenon
    <2>4. hidden' = hidden
      BY <1>7 DEF Intersects
    <2> QED  BY <1>2, <1>3, <1>4, <2>3, <2>4, StartsOrStops
  <1>8. CASE VisibilityChanges
    <2>1. hidden' = ~hidden
      BY <1>8 DEF VisibilityChanges
    <2>2. PICK w \in BOOLEAN : w = ~hidden'
      BY <2>1
    <2>3. [sphere EXCEPT !.tabVisible = ~hidden'] = Flags(m, w, o, r)
      BY <1>1, <2>2 DEF Flags
    <2>4. CASE m
      <3>1. Flags(m, w, o, r).tabVisible = w
        BY DEF Flags
      <3>2. IF w THEN start(Flags(m, w, o, r), frames) ELSE stop(Flags(m, w, o, r), frames)
        BY <1>2, <1>8, <2>3, <2>4, <3>1, Zenon DEF VisibilityChanges
      <3> QED  BY <1>2, <1>3, <1>4, <2>1, <2>2, <2>4, <3>2, StartsOrStops
    <2>5. CASE ~m
      <3>1. sphere' = Flags(m, v, o, r) /\ frames' = frames
        BY <1>1, <1>2, <1>8, <2>5, Zenon DEF VisibilityChanges
      <3> QED  BY <1>2, <1>3, <1>4, <2>1, <2>5, <3>1, SphereIs
    <2> QED  BY <2>4, <2>5
  <1>9. CASE Unmount
    <2>1. sphere' = Flags(FALSE, FALSE, FALSE, FALSE) /\ hidden' = hidden
      BY <1>9 DEF Unmount, Unmounted, Flags
    <2>2. frames' = IF r THEN frames - 1 ELSE frames
      BY <1>2, <1>9, Zenon DEF Unmount
    <2>3. frames' = 0
      BY <1>3, <2>2
    <2> QED  BY <1>2, <2>1, <2>3, SphereIs
  <1> QED  BY <1>5, <1>6, <1>7, <1>8, <1>9 DEF SphereStep

(* OneFrameWhenSeen: however the browser's events fall, one frame at a time  *)
(* is asked for while the sphere can be seen, and none while it cannot.     *)
THEOREM OneFrameAtATime == FrontSpec => []OneFrameWhenSeen
  <1>1. FrontInit => SphereInv
    <2> SUFFICES ASSUME FrontInit PROVE SphereInv
      OBVIOUS
    <2>1. sphere = Flags(FALSE, FALSE, FALSE, FALSE) /\ hidden = FALSE /\ frames = 0
      BY DEF FrontInit, SphereInit, Unmounted, Flags
    <2> QED  BY <2>1, FlagsOf DEF SphereInv, running, Flags
  <1>2. SphereInv /\ [FrontNext]_frontVars => SphereInv'
    <2> SUFFICES ASSUME SphereInv, [FrontNext]_frontVars PROVE SphereInv'
      OBVIOUS
    <2>1. CASE OnLanding
      BY <2>1, SphereStepKeepsInv DEF OnLanding
    <2>2. CASE NewDocument
      <3>1. sphere' = Flags(FALSE, FALSE, FALSE, FALSE) /\ hidden' = FALSE /\ frames' = 0
        BY <2>2 DEF NewDocument, LeaveLanding, Unmounted, Flags
      <3> QED  BY <3>1, SphereIs
    <2>3. CASE UNCHANGED sphereVars
      BY <2>3 DEF sphereVars, SphereInv, running
    <2> QED
      BY <2>1, <2>2, <2>3, DocumentsStartOver
      DEF FrontNext, frontVars, OnAttestation, OnIdentity, OnLending, OnPreview, Ledger,
          AttestationOnly, IdentityOnly, LendingOnly, PreviewOnly
  <1>3. SphereInv => OneFrameWhenSeen
    <2> SUFFICES ASSUME SphereInv PROVE OneFrameWhenSeen
      OBVIOUS
    <2>1. sphere.raf <=> sphere.mounted /\ ~hidden /\ sphere.onScreen
      BY Zenon DEF SphereInv, running
    <2>2. frames = IF sphere.raf THEN 1 ELSE 0
      BY DEF SphereInv
    <2> QED  BY <2>1, <2>2, Zenon DEF OneFrameWhenSeen
  <1> QED  BY <1>1, <1>2, <1>3, PTL DEF FrontSpec
-----------------------------------------------------------------------------
(* A transaction keeps what it was built with, and once landed it stays;     *)
(* nothing lands but when the ledger closes over it.                        *)
Persists(t) ==
    txs[t].status # "none" =>
        /\ txs'[t].source = txs[t].source /\ txs'[t].seq = txs[t].seq
        /\ txs'[t].method = txs[t].method /\ txs'[t].arg = txs[t].arg
        /\ txs'[t].status # "none"
        /\ Landed(t) => Landed(t)'

NothingLands == \A t \in TxIds : Landed(t)' => Landed(t)

LEMMA BuildPersists ==
    ASSUME TxShape, NEW t \in TxIds, NEW w, NEW m, NEW a, NextTx(t), Build(t, w, m, a)
    PROVE  (\A o \in TxIds : Persists(o)) /\ NothingLands
  BY DEF TxShape, Build, NextTx, NoTx, Persists, NothingLands, Landed

LEMMA StatusPersists ==
    ASSUME TxShape, NEW t \in TxIds, NEW s \in TxStatus \ {"none"},
           txs' = [txs EXCEPT ![t].status = s], txs[t].status # "success"
    PROVE  (\A o \in TxIds : Persists(o)) /\ (s # "success" => NothingLands)
  BY DEF TxShape, TxStatus, Persists, NothingLands, Landed

LEMMA CallStepPersists ==
    ASSUME FrontInv, NEW accepted, CallStep(accepted) \/ SignCall
    PROVE  (\A t \in TxIds : Persists(t)) /\ NothingLands
  <1>1. CASE UNCHANGED txs
    BY <1>1 DEF Persists, NothingLands, Landed
  <1>2. CASE GetAccount
    <2>1. CASE \E t \in TxIds : NextTx(t) /\ Build(t, call.by, call.method, call.arg)
      BY <2>1, BuildPersists DEF FrontInv
    <2> QED  BY <1>1, <1>2, <2>1 DEF GetAccount
  <1>3. CASE Send
    <2>1. CASE txs' = [txs EXCEPT ![call.tx].status = "pending"]
      <3>1. call.tx \in TxIds /\ txs[call.tx].status = "built"
        BY <1>3 DEF Send, FrontInv, CallHoldsTx
      <3>2. "pending" \in TxStatus \ {"none"}
        BY DEF TxStatus
      <3> QED  BY <2>1, <3>1, <3>2, StatusPersists DEF FrontInv
    <2> QED  BY <1>1, <1>3, <2>1 DEF Send
  <1> QED  BY <1>1, <1>2, <1>3 DEF CallStep, SignCall, PrepareTransaction, PollCall

LEMMA TxsPersist ==
    FrontInv /\ [FrontNext]_frontVars =>
        (\A t \in TxIds : Persists(t)) /\ (Ledger \/ NothingLands)
  <1> SUFFICES ASSUME FrontInv, [FrontNext]_frontVars
               PROVE  (\A t \in TxIds : Persists(t)) /\ (Ledger \/ NothingLands)
    OBVIOUS
  <1>1. ASSUME UNCHANGED txs PROVE (\A t \in TxIds : Persists(t)) /\ NothingLands
    BY <1>1 DEF Persists, NothingLands, Landed
  <1>2. ASSUME NEW accepted, CallStep(accepted) \/ SignCall
        PROVE  (\A t \in TxIds : Persists(t)) /\ NothingLands
    BY <1>2, CallStepPersists
  <1>3. CASE OnAttestation
    <2>1. CASE PostPrepare \/ JobMoves
      <3>1. CASE \E t \in TxIds :
                   NextTx(t) /\ Build(t, flow.wallet, "attest_with_risc0", None)
        BY <3>1, BuildPersists DEF FrontInv
      <3> QED  BY <1>1, <2>1, <3>1 DEF PostPrepare, JobMoves
    <2>2. CASE AttestCall
      BY <1>2, <2>2 DEF AttestCall
    <2> QED  BY <1>1, <1>3, <2>1, <2>2
        DEF OnAttestation, AttestStep, FlowStep, SilentConnect, Connect, ConnectSettles, Attest,
            AskSession, PollJob, StartSubmit, EndSubmit, ReadBack, callVars
  <1>4. CASE OnIdentity
    <2>1. CASE IdentityCall
      BY <1>2, <2>1 DEF IdentityCall
    <2> QED  BY <1>1, <1>4, <2>1
        DEF OnIdentity, IdentityStep, ConnectWallet, PromptSettles, Generate, ProveIdentity,
            RefreshMembers, Link, Leave, CallEnds, RecordMembership, LinkingEnds,
            StartVerification, CreateKycSession, VerificationStarts, Refresh, PollStep, Tick,
            AskStatus, StatusArrives, Webhook, Bind, callVars
  <1>5. CASE OnLending
    <2>1. CASE LendingCall
      BY <1>2, <2>1 DEF LendingCall
    <2> QED  BY <1>1, <1>5, <2>1
        DEF OnLending, LendingStep, LookUp, LookupSettles, ConnectLending, Execute, ExecuteEnds,
            callVars
  <1>6. CASE Ledger
    <2>1. PICK t \in TxIds : \/ RegistryCloses(t) \/ Close(t, TRUE) \/ Expire(t)
      BY <1>6 DEF Ledger
    <2>2. txs[t].status = "pending"
      BY <2>1 DEF RegistryCloses, Close, Expire
    <2>3. \E s \in {"failed", "success", "built"} : txs' = [txs EXCEPT ![t].status = s]
      BY <2>1 DEF RegistryCloses, Close, Expire
    <2> QED  BY <1>6, <2>2, <2>3, StatusPersists DEF FrontInv, TxStatus
  <1>7. CASE NewDocument \/ OnLanding \/ OnPreview \/ UNCHANGED frontVars
    BY <1>1, <1>7 DEF NewDocument, OnLanding, OnPreview, LandingOnly, PreviewOnly, frontVars, callVars
  <1> QED  BY <1>3, <1>4, <1>5, <1>6, <1>7, DocumentsStartOver DEF FrontNext
-----------------------------------------------------------------------------
(* The call and the flow hold transactions of their own, and a call returns *)
(* only with one that landed.                                               *)
CallOwnsTx ==
    /\ call.tx # None =>
           /\ call.tx \in TxIds /\ txs[call.tx].status # "none"
           /\ txs[call.tx].source = call.by /\ txs[call.tx].method = call.method
           /\ txs[call.tx].arg = call.arg
    /\ call.stage = "returned" => call.tx # None /\ Landed(call.tx)

FlowOwnsTx ==
    flow.tx # None =>
        /\ flow.tx \in TxIds /\ txs[flow.tx].status # "none"
        /\ txs[flow.tx].source = flow.wallet /\ txs[flow.tx].arg = None
        /\ txs[flow.tx].method = "attest_with_risc0"

(* Only one page makes calls of each kind, for a wallet.                    *)
CallOfPage ==
    /\ call.stage = "idle" <=> call.method = None
    /\ call.method # None => call.by \in Wallets
    /\ call.method = "attest_with_risc0" => page = "attestation"
    /\ call.method = "execute_loan" => page = "lending"
    /\ call.method \in RegistryMethods => page = "identity"

OwnInv == CallOwnsTx /\ FlowOwnsTx /\ CallOfPage

(* A call goes on with what it was asked for and the transaction it built;   *)
(* an answer that it landed is true.                                        *)
LEMMA CallStepEffect ==
    ASSUME FrontInv, NEW accepted, CallStep(accepted) \/ SignCall
    PROVE  /\ call'.method = call.method /\ call'.by = call.by /\ call'.arg = call.arg
           /\ call.stage \in Asking /\ call'.stage \in Asking \cup {"returned", "thrown"}
           /\ \/ call'.tx = call.tx
              \/ /\ call'.tx \in TxIds /\ call.stage = "account" /\ call'.stage = "prepare"
                 /\ txs'[call'.tx].status = "built" /\ txs'[call'.tx].source = call.by
                 /\ txs'[call'.tx].method = call.method /\ txs'[call'.tx].arg = call.arg
           /\ call'.stage = "returned" =>
                  call'.tx \in TxIds /\ Landed(call'.tx) /\ UNCHANGED txs
  <1> USE DEF FrontInv, Asking
  <1>0. call \in [stage : CallStages, method : Methods \cup {None}, by : Wallets \cup {None},
                  arg : Commitments \cup {None}, tx : TxIds \cup {None}, error : {call.error}]
    BY DEF CallShape
  <1>1. CASE GetAccount
    <2>1. CASE Throw(makeRpcError("source_account_unavailable")) /\ UNCHANGED txs
      BY <1>0, <1>1, <2>1 DEF GetAccount, Throw
    <2>2. CASE \E t \in TxIds : /\ NextTx(t)
                                /\ Build(t, call.by, call.method, call.arg)
                                /\ call' = [call EXCEPT !.stage = "prepare", !.tx = t]
      <3>1. PICK t \in TxIds : /\ NextTx(t)
                               /\ Build(t, call.by, call.method, call.arg)
                               /\ call' = [call EXCEPT !.stage = "prepare", !.tx = t]
        BY <2>2
      <3>2. txs'[t].source = call.by /\ txs'[t].method = call.method
            /\ txs'[t].arg = call.arg /\ txs'[t].status = "built"
        BY <1>0, <3>1, BuildEffect
      <3>3. call'.tx = t /\ call'.stage = "prepare" /\ call.stage = "account"
            /\ call'.method = call.method /\ call'.by = call.by /\ call'.arg = call.arg
        BY <1>0, <1>1, <3>1 DEF GetAccount
      <3> QED  BY <3>2, <3>3
    <2> QED  BY <1>1, <2>1, <2>2 DEF GetAccount
  <1>2. CASE PrepareTransaction(accepted)
    BY <1>0, <1>2 DEF PrepareTransaction, Throw
  <1>3. CASE SignCall
    BY <1>0, <1>3 DEF SignCall, Throw
  <1>4. CASE Send
    <2>1. call' = [call EXCEPT !.stage = "poll"] \/ \E e : Throw(e)
      BY <1>4 DEF Send
    <2> QED  BY <1>0, <1>4, <2>1 DEF Send, Throw
  <1>5. CASE PollCall
    <2>1. call.stage = "poll" /\ call.tx \in TxIds /\ UNCHANGED txs
      BY <1>5 DEF PollCall, CallHoldsTx
    <2>2. CASE Landed(call.tx) /\ call' = [call EXCEPT !.stage = "returned"]
      BY <1>0, <2>1, <2>2 DEF Landed
    <2>3. CASE call' = call \/ \E e : Throw(e)
      BY <1>0, <2>1, <2>3 DEF Throw
    <2> QED  BY <1>5, <2>2, <2>3 DEF PollCall, Landed
  <1> QED  BY <1>1, <1>2, <1>3, <1>4, <1>5 DEF CallStep

LEMMA CallStepKeepsOwn ==
    ASSUME FrontInv, OwnInv, NEW accepted, CallStep(accepted) \/ SignCall, UNCHANGED <<flow, page>>
    PROVE  OwnInv'
  <1>1. \A t \in TxIds : Persists(t)
    BY CallStepPersists
  <1>2. CallOwnsTx'
    BY <1>1, CallStepEffect, NoneIsNoCall DEF OwnInv, CallOwnsTx, Persists, Landed, TxIds, Asking
  <1>3. FlowOwnsTx'
    BY <1>1 DEF OwnInv, FlowOwnsTx, Persists
  <1>4. CallOfPage'
    BY CallStepEffect DEF OwnInv, CallOfPage, Asking
  <1> QED  BY <1>2, <1>3, <1>4 DEF OwnInv

(* Where the table of transactions keeps what it held, a page that leaves    *)
(* its call and flow alone, or ends them, owns what it did.                 *)
LEMMA OwnNothingNew ==
    ASSUME FrontInv, OwnInv, \A t \in TxIds : Persists(t),
           UNCHANGED call \/ call' = NoCall, UNCHANGED flow \/ flow' = NoFlow,
           page' = page \/ call' = NoCall
    PROVE  OwnInv'
  <1>1. CallOwnsTx'
    BY DEF OwnInv, CallOwnsTx, Persists, Landed, NoCall
  <1>2. FlowOwnsTx'
    BY DEF OwnInv, FlowOwnsTx, Persists, NoFlow
  <1>3. CallOfPage'
    BY NoneIsNoCall DEF OwnInv, CallOfPage, NoCall, RegistryMethods, Methods
  <1> QED  BY <1>1, <1>2, <1>3 DEF OwnInv

(* A page asks for a call of its kind, for a wallet.                         *)
LEMMA AskKeepsOwn ==
    ASSUME OwnInv, NEW m \in Methods, NEW w \in Wallets, NEW a,
           invokeContractCall(m, w, a), UNCHANGED <<page, txs, flow>>,
           m = "attest_with_risc0" => page = "attestation",
           m = "execute_loan" => page = "lending",
           m \in RegistryMethods => page = "identity"
    PROVE  OwnInv'
  <1>1. /\ call'.stage = "account" /\ call'.tx = None
        /\ call'.method = m /\ call'.by = w
    BY DEF invokeContractCall, NoCall
  <1>2. CallOwnsTx'
    BY <1>1 DEF CallOwnsTx
  <1>3. FlowOwnsTx'
    BY DEF OwnInv, FlowOwnsTx
  <1>4. CallOfPage'
    BY <1>1, NoneIsNoCall DEF CallOfPage, Methods, RegistryMethods
  <1> QED  BY <1>2, <1>3, <1>4 DEF OwnInv

(* The wallet's own transaction, built by the API or by the job.             *)
LEMMA PreparedOwns ==
    ASSUME FrontInv, OwnInv, NEW t \in TxIds, NextTx(t),
           Build(t, flow.wallet, "attest_with_risc0", None),
           UNCHANGED <<page, call>>, \A o \in TxIds : Persists(o),
           NEW a, NEW j, flow' = [flow EXCEPT !.at = a, !.job = j, !.tx = t]
    PROVE  OwnInv'
  <1>1. /\ txs'[t].source = flow.wallet /\ txs'[t].method = "attest_with_risc0"
        /\ txs'[t].arg = None /\ txs'[t].status = "built"
    BY BuildEffect DEF FrontInv, FlowHoldsTx, Methods
  <1>2. flow'.tx = t /\ flow'.wallet = flow.wallet
    BY DEF FrontInv, FlowHoldsTx
  <1>3. CallOwnsTx'
    BY DEF OwnInv, CallOwnsTx, Persists, Landed
  <1>4. FlowOwnsTx'
    BY <1>1, <1>2 DEF FlowOwnsTx
  <1>5. CallOfPage'
    BY DEF OwnInv, CallOfPage
  <1> QED  BY <1>3, <1>4, <1>5 DEF OwnInv

(* Of a flow that only moves on, what it owns stays.                         *)
LEMMA FlowMovesOn ==
    ASSUME FrontInv, OwnInv, UNCHANGED <<page, call, txs>>,
           flow'.tx = flow.tx, flow'.wallet = flow.wallet
    PROVE  OwnInv'
  BY DEF OwnInv, CallOwnsTx, FlowOwnsTx, CallOfPage, Landed

LEMMA OnAttestationKeepsOwn ==
    ASSUME FrontInv, OwnInv, OnAttestation, \A t \in TxIds : Persists(t)
    PROVE  OwnInv'
  <1>1. page = "attestation" /\ UNCHANGED page
    BY DEF OnAttestation, AttestationOnly
  <1>f. flow \in [at : FlowSteps, wallet : Wallets \cup {None}, job : {flow.job},
                  tx : TxIds \cup {None}]
    BY DEF FrontInv, FlowHoldsTx
  <1>2. CASE SilentConnect \/ Connect \/ ConnectSettles
    BY <1>1, <1>2, OwnNothingNew DEF SilentConnect, Connect, ConnectSettles, callVars
  <1>3. CASE Attest
    <2>1. flow'.tx = None /\ UNCHANGED <<call, txs>>
      BY <1>3 DEF Attest, NoFlow, callVars
    <2> QED  BY <1>1, <2>1 DEF OwnInv, CallOwnsTx, FlowOwnsTx, CallOfPage, Landed
  <1>4. CASE AskSession
    <2>1. UNCHANGED <<call, txs>>
      BY <1>4 DEF AskSession, callVars
    <2>2. CASE flow' = [flow EXCEPT !.at = "post"]
      BY <1>1, <1>f, <2>1, <2>2, FlowMovesOn
    <2>3. CASE flow' = NoFlow
      BY <1>1, <2>1, <2>3, OwnNothingNew
    <2> QED  BY <1>4, <2>2, <2>3 DEF AskSession, EndFlow
  <1>5. CASE PostPrepare
    <2>1. UNCHANGED call
      BY <1>5 DEF PostPrepare
    <2>2. CASE flow' = [flow EXCEPT !.at = "poll", !.job = "queued"] /\ UNCHANGED txs
      BY <1>1, <1>f, <2>1, <2>2, FlowMovesOn
    <2>3. CASE \E t \in TxIds : /\ NextTx(t) /\ Build(t, flow.wallet, "attest_with_risc0", None)
                                /\ flow' = [flow EXCEPT !.at = "import", !.tx = t]
      <3>1. PICK t \in TxIds : /\ NextTx(t) /\ Build(t, flow.wallet, "attest_with_risc0", None)
                               /\ flow' = [flow EXCEPT !.at = "import", !.tx = t]
        BY <2>3
      <3>2. flow' = [flow EXCEPT !.at = "import", !.job = flow.job, !.tx = t]
        BY <1>f, <3>1
      <3> QED  BY <1>1, <2>1, <3>1, <3>2, PreparedOwns
    <2>4. CASE flow' = NoFlow
      BY <1>1, <2>1, <2>4, OwnNothingNew
    <2> QED  BY <1>5, <2>2, <2>3, <2>4 DEF PostPrepare, EndFlow
  <1>6. CASE JobMoves
    <2>1. UNCHANGED call
      BY <1>6 DEF JobMoves
    <2>2. CASE UNCHANGED txs /\ \E j \in {"proving", "failed"} : flow' = [flow EXCEPT !.job = j]
      BY <1>1, <1>f, <2>1, <2>2, FlowMovesOn
    <2>3. CASE \E t \in TxIds : /\ NextTx(t) /\ Build(t, flow.wallet, "attest_with_risc0", None)
                                /\ flow' = [flow EXCEPT !.job = "succeeded", !.tx = t]
      <3>1. PICK t \in TxIds : /\ NextTx(t) /\ Build(t, flow.wallet, "attest_with_risc0", None)
                               /\ flow' = [flow EXCEPT !.job = "succeeded", !.tx = t]
        BY <2>3
      <3>2. flow' = [flow EXCEPT !.at = flow.at, !.job = "succeeded", !.tx = t]
        BY <1>f, <3>1
      <3> QED  BY <1>1, <2>1, <3>1, <3>2, PreparedOwns
    <2> QED  BY <1>6, <2>2, <2>3 DEF JobMoves
  <1>7. CASE PollJob
    <2>1. UNCHANGED <<call, txs>>
      BY <1>7 DEF PollJob, callVars
    <2>2. CASE flow' = [flow EXCEPT !.at = "import"]
      BY <1>1, <1>f, <2>1, <2>2, FlowMovesOn
    <2>3. CASE UNCHANGED flow \/ flow' = NoFlow
      BY <1>1, <2>1, <2>3, OwnNothingNew
    <2> QED  BY <1>7, <2>2, <2>3 DEF PollJob, EndFlow
  <1>8. CASE StartSubmit
    <2>1. UNCHANGED txs
      BY <1>8 DEF StartSubmit
    <2>2. CASE /\ flow' = [flow EXCEPT !.at = "call"]
               /\ submitCosignedAttestation(flow.tx, flow.wallet)
      <3>1. flow'.tx = flow.tx /\ flow'.wallet = flow.wallet
        BY <1>f, <2>2
      <3>2. /\ call'.stage = "sign" /\ call'.method = "attest_with_risc0"
            /\ call'.by = flow.wallet /\ call'.tx = flow.tx /\ call'.arg = None
        BY <2>2 DEF submitCosignedAttestation, NoCall
      <3>3. flow.tx \in TxIds /\ flow.tx # None /\ flow.wallet \in Wallets
        BY <1>8, NoneIsNoCall DEF StartSubmit, FrontInv, FlowHoldsTx, TxIds
      <3>4. CallOwnsTx' /\ FlowOwnsTx'
        BY <2>1, <3>1, <3>2, <3>3 DEF OwnInv, CallOwnsTx, FlowOwnsTx
      <3>5. CallOfPage'
        BY <1>1, <3>2, <3>3, NoneIsNoCall DEF CallOfPage, RegistryMethods, OwnInv, Methods
      <3> QED  BY <3>4, <3>5 DEF OwnInv
    <2>3. CASE flow' = NoFlow /\ UNCHANGED call
      BY <1>1, <2>3, OwnNothingNew
    <2> QED  BY <1>8, <2>2, <2>3 DEF StartSubmit, EndFlow
  <1>9. CASE EndSubmit
    <2>1. UNCHANGED <<call, txs>>
      BY <1>9 DEF EndSubmit, callVars
    <2>2. CASE flow' = [flow EXCEPT !.at = "read"]
      BY <1>1, <1>f, <2>1, <2>2, FlowMovesOn
    <2>3. CASE flow' = NoFlow
      BY <1>1, <2>1, <2>3, OwnNothingNew
    <2> QED  BY <1>9, <2>2, <2>3 DEF EndSubmit, EndFlow
  <1>10. CASE ReadBack
    BY <1>1, <1>10, OwnNothingNew DEF ReadBack, EndFlow, callVars
  <1>11. CASE AttestCall
    BY <1>1, <1>11, CallStepKeepsOwn DEF AttestCall, attestOwn
  <1> QED
    BY <1>2, <1>3, <1>4, <1>5, <1>6, <1>7, <1>8, <1>9, <1>10, <1>11
    DEF OnAttestation, AttestStep, FlowStep

LEMMA OnIdentityKeepsOwn ==
    ASSUME FrontInv, OwnInv, OnIdentity, \A t \in TxIds : Persists(t)
    PROVE  OwnInv'
  <1>1. page = "identity" /\ UNCHANGED <<page, flow>>
    BY DEF OnIdentity, IdentityOnly, attestOwn
  <1>2. CASE UNCHANGED callVars
    BY <1>1, <1>2, OwnNothingNew DEF callVars
  <1>3. CASE Link
    <2>1. wizard.address \in Wallets
      BY <1>3, LinkIsForBoth DEF Link, FrontInv, PagesShape
    <2> QED  BY <1>1, <1>3, <2>1, NoneIsNoCall, AskKeepsOwn DEF Link, Methods, RegistryMethods
  <1>4. CASE Leave
    <2>1. wizard.address \in Wallets
      BY <1>4, StagesReached, StageMeans DEF Leave, LeaveOffered, FrontInv, PagesShape, isLinked
    <2> QED  BY <1>1, <1>4, <2>1, NoneIsNoCall, AskKeepsOwn DEF Leave, Methods, RegistryMethods
  <1>5. CASE CallEnds
    BY <1>1, <1>5, OwnNothingNew DEF CallEnds
  <1>6. CASE IdentityCall
    BY <1>1, <1>6, CallStepKeepsOwn DEF IdentityCall
  <1> QED
    BY <1>2, <1>3, <1>4, <1>5, <1>6
    DEF OnIdentity, IdentityStep, ConnectWallet, PromptSettles, Generate, ProveIdentity,
        RefreshMembers, RecordMembership, LinkingEnds, StartVerification, CreateKycSession,
        VerificationStarts, Refresh, PollStep, Tick, AskStatus, StatusArrives, Webhook, Bind

LEMMA OnLendingKeepsOwn ==
    ASSUME FrontInv, OwnInv, OnLending, \A t \in TxIds : Persists(t)
    PROVE  OwnInv'
  <1>1. page = "lending" /\ UNCHANGED <<page, flow>>
    BY DEF OnLending, LendingOnly, attestOwn
  <1>2. CASE LookUp \/ LookupSettles \/ ConnectLending
    BY <1>1, <1>2, OwnNothingNew DEF LookUp, LookupSettles, ConnectLending, callVars
  <1>3. CASE Execute
    <2>1. lending.connected \in Wallets
      BY <1>3 DEF Execute, canBorrow, FrontInv, PagesShape
    <2> QED  BY <1>1, <1>3, <2>1, NoneIsNoCall, AskKeepsOwn DEF Execute, Methods, RegistryMethods
  <1>4. CASE ExecuteEnds
    BY <1>1, <1>4, OwnNothingNew DEF ExecuteEnds
  <1>5. CASE LendingCall
    BY <1>1, <1>5, CallStepKeepsOwn DEF LendingCall
  <1> QED  BY <1>2, <1>3, <1>4, <1>5 DEF OnLending, LendingStep

LEMMA FrontStepKeepsOwn == FrontInv /\ OwnInv /\ [FrontNext]_frontVars => OwnInv'
  <1> SUFFICES ASSUME FrontInv, OwnInv, [FrontNext]_frontVars PROVE OwnInv'
    OBVIOUS
  <1>1. \A t \in TxIds : Persists(t)
    BY TxsPersist
  <1>2. CASE Ledger
    <2>1. UNCHANGED <<page, flow, call>>
      BY <1>2 DEF Ledger, attestOwn, RegistryCloses, Close, Expire
    <2> QED  BY <1>1, <2>1, OwnNothingNew
  <1>3. CASE NewDocument
    BY <1>1, <1>3, OwnNothingNew DEF NewDocument, LeaveAttestPage
  <1>4. CASE OnLanding \/ OnPreview \/ UNCHANGED frontVars
    BY <1>1, <1>4, OwnNothingNew
    DEF OnLanding, OnPreview, LandingOnly, PreviewOnly, frontVars, attestOwn, callVars
  <1> QED
    BY <1>1, <1>2, <1>3, <1>4, OnAttestationKeepsOwn, OnIdentityKeepsOwn, OnLendingKeepsOwn,
       DocumentsStartOver DEF FrontNext

LEMMA InitOwnsNothing == FrontInit => OwnInv
  BY NoneIsNoCall
  DEF FrontInit, CallInit, AttestInit, NoCall, NoFlow, OwnInv, CallOwnsTx, FlowOwnsTx, CallOfPage,
      RegistryMethods, Methods
-----------------------------------------------------------------------------
(* Terms and the wallet they were looked up for change together, a hash is   *)
(* kept of a loan only, and the button is busy while its call goes on.      *)
LendingInv ==
    /\ lending.lookedUp \in Wallets \cup {None}
    /\ lending.terms \in {None, DefaultTerms, lending.lookedUp}
    /\ lending.txHash # None =>
           /\ lending.txHash \in TxIds /\ txs[lending.txHash].status # "none"
           /\ Landed(lending.txHash) /\ txs[lending.txHash].method = "execute_loan"
    /\ lending.executing <=> call.method = "execute_loan"

LEMMA LookupsKeepLending ==
    ASSUME FrontInv, LendingInv, UNCHANGED callVars, LookUp \/ LookupSettles \/ ConnectLending
    PROVE  LendingInv'
  <1> USE DEF LendingInv, FrontInv, callVars
  <1>0. /\ lending \in [connected : Wallets \cup {None}, lookedUp : {lending.lookedUp},
                        terms : {lending.terms}, txHash : {lending.txHash},
                        executing : {lending.executing}]
        /\ lookups \subseteq Wallets
    BY DEF PagesShape
  <1>1. /\ lending'.lookedUp \in Wallets \cup {None}
        /\ lending'.terms \in {None, DefaultTerms, lending'.lookedUp}
    <2>1. CASE LookUp
      BY <1>0, <2>1 DEF LookUp, StartLookup
    <2>2. CASE LookupSettles
      <3>1. CASE UNCHANGED lending
        BY <3>1
      <3>2. CASE \E w \in lookups : \E terms \in getLoanTerms(w) :
                   lending' = [lending EXCEPT !.terms = terms, !.lookedUp = w]
        <4>1. PICK w \in lookups : \E terms \in getLoanTerms(w) :
                   lending' = [lending EXCEPT !.terms = terms, !.lookedUp = w]
          BY <3>2
        <4>2. PICK terms \in getLoanTerms(w) :
                   lending' = [lending EXCEPT !.terms = terms, !.lookedUp = w]
          BY <4>1
        <4>3. lending'.terms = terms /\ lending'.lookedUp = w /\ w \in Wallets
          BY <1>0, <4>2
        <4>4. terms \in {None, DefaultTerms, w}
          BY <4>2 DEF getLoanTerms
        <4> QED  BY <4>3, <4>4
      <3> QED  BY <2>2, <3>1, <3>2 DEF LookupSettles
    <2>3. CASE ConnectLending
      BY <1>0, <2>3 DEF ConnectLending, StartLookup
    <2> QED  BY <2>1, <2>2, <2>3
  <1>2. lending'.txHash \in {None, lending.txHash} /\ lending'.executing = lending.executing
    <2>1. CASE LookUp
      BY <1>0, <2>1 DEF LookUp, StartLookup
    <2>2. CASE LookupSettles
      BY <1>0, <2>2 DEF LookupSettles
    <2>3. CASE ConnectLending
      BY <1>0, <2>3 DEF ConnectLending, StartLookup
    <2> QED  BY <2>1, <2>2, <2>3
  <1> QED  BY <1>1, <1>2 DEF Landed

LEMMA OnLendingKeepsLending ==
    ASSUME FrontInv, OwnInv, LendingInv, OnLending, \A t \in TxIds : Persists(t)
    PROVE  LendingInv'
  <1> USE DEF LendingInv
  <1>0. lending \in [connected : Wallets \cup {None}, lookedUp : {lending.lookedUp},
                     terms : {lending.terms}, txHash : {lending.txHash},
                     executing : {lending.executing}]
    BY DEF FrontInv, PagesShape
  <1>1. CASE LookUp \/ LookupSettles \/ ConnectLending
    BY <1>1, LookupsKeepLending DEF LookUp, LookupSettles, ConnectLending
  <1>2. CASE Execute
    <2>1. /\ lending'.lookedUp = lending.lookedUp /\ lending'.terms = lending.terms
          /\ lending'.txHash = None /\ lending'.executing
      BY <1>0, <1>2 DEF Execute
    <2>2. call'.method = "execute_loan"
      BY <1>2 DEF Execute, invokeContractCall, NoCall
    <2> QED  BY <2>1, <2>2
  <1>3. CASE ExecuteEnds
    <2>1. /\ lending'.lookedUp = lending.lookedUp /\ lending'.terms = lending.terms
          /\ lending'.txHash = IF call.stage = "returned" THEN call.tx ELSE lending.txHash
          /\ ~lending'.executing
      BY <1>0, <1>3 DEF ExecuteEnds
    <2>2. call'.method # "execute_loan" /\ UNCHANGED txs
      BY <1>3, NoneIsNoCall DEF ExecuteEnds, NoCall, Methods
    <2>3. call.method = "execute_loan"
      BY <1>3 DEF ExecuteEnds, OnLending, OwnInv, CallOfPage, FrontInv, CallShape, Methods,
                  RegistryMethods
    <2>4. call.stage = "returned" =>
             /\ call.tx \in TxIds /\ txs[call.tx].status # "none" /\ Landed(call.tx)
             /\ txs[call.tx].method = "execute_loan"
      BY <2>3 DEF OwnInv, CallOwnsTx
    <2> QED  BY <2>1, <2>2, <2>4 DEF Landed
  <1>4. CASE LendingCall
    <2>1. call'.method = call.method /\ UNCHANGED lending
      BY <1>4, CallStepEffect DEF LendingCall, lendPageVars
    <2> QED  BY <2>1 DEF Persists
  <1> QED  BY <1>1, <1>2, <1>3, <1>4 DEF OnLending, LendingStep

LEMMA AttestMethod ==
    ASSUME FrontInv, OwnInv, OnAttestation, call.method # "execute_loan"
    PROVE  call'.method # "execute_loan"
  <1>1. CASE AttestCall
    BY <1>1, CallStepEffect DEF AttestCall
  <1>2. CASE StartSubmit
    BY <1>2 DEF StartSubmit, submitCosignedAttestation, NoCall
  <1> QED
    BY <1>1, <1>2
    DEF OnAttestation, AttestStep, FlowStep, SilentConnect, Connect, ConnectSettles, Attest,
        AskSession, PostPrepare, JobMoves, PollJob, EndSubmit, ReadBack, callVars

LEMMA IdentityMethod ==
    ASSUME FrontInv, OwnInv, OnIdentity, call.method # "execute_loan"
    PROVE  call'.method # "execute_loan"
  <1>1. CASE IdentityCall
    BY <1>1, CallStepEffect DEF IdentityCall
  <1>2. CASE Link \/ Leave
    BY <1>2 DEF Link, Leave, invokeContractCall, NoCall
  <1>3. CASE CallEnds
    BY <1>3, NoneIsNoCall DEF CallEnds, NoCall, Methods
  <1> QED
    BY <1>1, <1>2, <1>3
    DEF OnIdentity, IdentityStep, ConnectWallet, PromptSettles, Generate, ProveIdentity,
        RefreshMembers, RecordMembership, LinkingEnds, StartVerification, CreateKycSession,
        VerificationStarts, Refresh, PollStep, Tick, AskStatus, StatusArrives, Webhook, Bind,
        callVars

LEMMA FrontStepKeepsLending ==
    FrontInv /\ OwnInv /\ LendingInv /\ [FrontNext]_frontVars => LendingInv'
  <1> SUFFICES ASSUME FrontInv, OwnInv, LendingInv, [FrontNext]_frontVars PROVE LendingInv'
    OBVIOUS
  <1>1. \A t \in TxIds : Persists(t)
    BY TxsPersist
  <1>2. ASSUME UNCHANGED lending,
               call.method = call'.method
                 \/ (call.method # "execute_loan" /\ call'.method # "execute_loan")
        PROVE  LendingInv'
    BY <1>1, <1>2 DEF LendingInv, Persists
  <1>3. CASE OnAttestation
    <2>1. UNCHANGED lending /\ call.method # "execute_loan"
      BY <1>3 DEF OnAttestation, AttestationOnly, lendPageVars, OwnInv, CallOfPage
    <2> QED  BY <1>2, <1>3, <2>1, AttestMethod
  <1>4. CASE OnIdentity
    <2>1. UNCHANGED lending /\ call.method # "execute_loan"
      BY <1>4 DEF OnIdentity, IdentityOnly, lendPageVars, OwnInv, CallOfPage
    <2> QED  BY <1>2, <1>4, <2>1, IdentityMethod
  <1>5. CASE OnLending
    BY <1>1, <1>5, OnLendingKeepsLending
  <1>6. CASE Ledger
    BY <1>2, <1>6 DEF Ledger, RegistryCloses, Close, Expire, lendPageVars
  <1>7. CASE NewDocument
    <2>1. lending' = NoLending /\ call' = NoCall
      BY <1>7 DEF NewDocument, LeaveLendingPage
    <2> QED  BY <2>1, NoneIsNoCall DEF LendingInv, NoLending, NoCall, Methods
  <1>8. CASE OnLanding \/ OnPreview \/ UNCHANGED frontVars
    BY <1>2, <1>8 DEF OnLanding, OnPreview, LandingOnly, PreviewOnly, frontVars, lendPageVars, callVars
  <1> QED
    BY <1>3, <1>4, <1>5, <1>6, <1>7, <1>8, DocumentsStartOver DEF FrontNext

LEMMA InitLendsNothing == FrontInit => LendingInv
  BY NoneIsNoCall
  DEF FrontInit, CallInit, LendingInit, NoCall, NoLending, LendingInv, Methods

(* NoTermsOfAnother: whatever order lookups, prompts and calls end in.       *)
THEOREM BorrowsAtNoTermsOfAnother == FrontSpec => []NoTermsOfAnother
  <1> DEFINE Inv == FrontInv /\ OwnInv /\ LendingInv
  <1>1. FrontInit => Inv
    BY InitLendsNothing, InitEstablishesFrontInv, InitOwnsNothing
  <1>2. Inv /\ [FrontNext]_frontVars => Inv'
    BY FrontStepKeepsInv, FrontStepKeepsOwn, FrontStepKeepsLending
  <1>3. LendingInv => NoTermsOfAnother
    BY DEF LendingInv, NoTermsOfAnother, canBorrow, TermsCard, LoanShown
  <1> QED  BY <1>1, <1>2, <1>3, PTL DEF FrontSpec
-----------------------------------------------------------------------------
(* What the identity page and the API hold.                                  *)
ApiShape ==
    api \in [members : SUBSET Wallets, session : BOOLEAN, latest : Rows,
             approval : {"no", "recorded", "bound"}]

LinkingShape ==
    /\ linking \in [at : {"none", "call", "record", "members"}, kind : {"link", "leave", None},
                    wallet : Wallets \cup {None}]
    /\ linking.at # "none" => linking.wallet \in Wallets /\ page = "identity"

PollShape ==
    /\ poll \in [status : Statuses, ref : BOOLEAN, running : {0, 1}]
    /\ poll.running = IF poll.ref THEN 1 ELSE 0
    /\ answers \subseteq Statuses

IdentityShape ==
    /\ group \in [Wallets -> Commitments \cup {None}]
    /\ ApiShape /\ LinkingShape /\ PollShape
    /\ wizard.prompts \in 0..MaxConnects /\ wizard.members \subseteq Wallets
    /\ verifying \in {"none", "session", "status"}

(* No identity, and so nothing asked of anybody about one.                   *)
NothingYet ==
    /\ linking.at = "none" /\ verifying = "none"
    /\ api.members = {} /\ wizard.members = {} /\ ~api.session

(* The call of a link is for the identity held; what is recorded, listed or  *)
(* verified after it has a registration that landed.                        *)
LinkIsEarned ==
    /\ wizard.minting # None => wizard.identity = None
    /\ wizard.identity = None => NothingYet
    /\ linking.at = "call" /\ linking.kind = "link" =>
           /\ call.by = linking.wallet /\ call.arg = wizard.identity
           /\ call.method = "register_wallet"
    /\ linking.at = "record" => Registered(linking.wallet, wizard.identity)

MembersAreEarned == \A w \in api.members \cup wizard.members : Registered(w, wizard.identity)

SessionIsEarned ==
    verifying = "session" \/ api.session => \E w \in Wallets : Registered(w, wizard.identity)

StatusIsEarned == poll.status = "verified" \/ "verified" \in answers => api.approval = "bound"

EarnedInv ==
    /\ IdentityShape
    /\ LinkIsEarned /\ MembersAreEarned /\ SessionIsEarned /\ StatusIsEarned

earnedVars == <<group, api, wizard, linking, verifying, poll, answers>>

(* A registration stays on the ledger.                                       *)
LEMMA RegisteredStays ==
    ASSUME \A t \in TxIds : Persists(t), NEW w, NEW c, Registered(w, c)
    PROVE  Registered(w, c)'
  BY DEF Persists, Registered, Landed

(* Whatever else happens, a page that shows the same shows what is earned.   *)
LEMMA EarnedStays ==
    ASSUME EarnedInv, \A t \in TxIds : Persists(t),
           UNCHANGED <<api, wizard, linking, verifying, poll, answers>>,
           group' \in [Wallets -> Commitments \cup {None}],
           page' = page,
           linking.at = "none"
             \/ (call'.by = call.by /\ call'.arg = call.arg /\ call'.method = call.method)
    PROVE  EarnedInv'
  <1> USE DEF EarnedInv
  <1>1. IdentityShape'
    BY DEF IdentityShape, ApiShape, LinkingShape, PollShape
  <1>2. LinkIsEarned'
    BY RegisteredStays DEF LinkIsEarned, NothingYet, Persists, Registered, Landed
  <1>3. MembersAreEarned'
    BY DEF MembersAreEarned, Persists, Registered, Landed
  <1>4. SessionIsEarned'
    BY DEF SessionIsEarned, Persists, Registered, Landed
  <1>5. StatusIsEarned'
    BY DEF StatusIsEarned
  <1> QED  BY <1>1, <1>2, <1>3, <1>4, <1>5

LEMMA KycStatusType ==
    ASSUME ApiShape
    PROVE  /\ getKycStatus \in Statuses
           /\ getKycStatus = "verified" => api.approval = "bound"
  BY DEF ApiShape, getKycStatus, Statuses, Rows

LEMMA WizardShape ==
    ASSUME FrontInv
    PROVE  /\ wizard \in [address : Wallets \cup {None}, prompts : {wizard.prompts},
                          minting : Wallets \cup {None}, identity : Commitments \cup {None},
                          members : {wizard.members}]
           /\ wizard.address # None => wizard.address \in Wallets
  BY DEF FrontInv, PagesShape

(* A prompt, and a proof asked for, change neither identity nor members.     *)
LEMMA PromptsKeepEarned ==
    ASSUME FrontInv, EarnedInv, ConnectWallet \/ PromptSettles \/ Generate, UNCHANGED page
    PROVE  EarnedInv'
  <1> USE DEF EarnedInv
  <1>1. UNCHANGED <<group, api, linking, verifying, poll, answers, txs, call>>
    BY DEF ConnectWallet, PromptSettles, Generate, callVars
  <1>2. /\ wizard'.identity = wizard.identity /\ wizard'.members = wizard.members
        /\ wizard'.prompts \in 0..MaxConnects
        /\ wizard'.minting # None => wizard.identity = None
    <2>1. CASE ConnectWallet
      BY <2>1, WizardShape, ConnectsAreBounded DEF ConnectWallet, IdentityShape, LinkIsEarned
    <2>2. CASE PromptSettles
      <3>1. PICK a \in ConnectAddresses :
              wizard' = [wizard EXCEPT !.prompts = @ - 1, !.address = IF a = None THEN @ ELSE a]
        BY <2>2 DEF PromptSettles
      <3>2. wizard.prompts \in 0..MaxConnects /\ wizard.prompts > 0
        BY <2>2 DEF PromptSettles, IdentityShape
      <3>3. wizard'.identity = wizard.identity /\ wizard'.members = wizard.members
            /\ wizard'.prompts = wizard.prompts - 1 /\ wizard'.minting = wizard.minting
        BY <3>1, WizardShape
      <3> QED  BY <3>2, <3>3, ConnectsAreBounded DEF LinkIsEarned
    <2>3. CASE Generate
      <3>1. stageState(2) = "active"
        BY <2>3 DEF Generate, CreateOffered
      <3>2. wizard.identity = None
        BY <3>1, StagesReached, StageMeans
      <3> QED  BY <2>3, <3>2, WizardShape DEF Generate, IdentityShape
    <2> QED  BY <2>1, <2>2, <2>3
  <1>3. IdentityShape'
    BY <1>1, <1>2 DEF IdentityShape, ApiShape, LinkingShape, PollShape
  <1>4. LinkIsEarned'
    BY <1>1, <1>2 DEF LinkIsEarned, NothingYet, Registered, Landed
  <1>5. MembersAreEarned' /\ SessionIsEarned' /\ StatusIsEarned'
    BY <1>1, <1>2 DEF MembersAreEarned, SessionIsEarned, StatusIsEarned, Registered, Landed
  <1> QED  BY <1>3, <1>4, <1>5

(* The identity is new: nothing is recorded, listed or verified of it.       *)
LEMMA ProveIdentityKeepsEarned ==
    ASSUME FrontInv, EarnedInv, ProveIdentity, UNCHANGED page
    PROVE  EarnedInv'
  <1> USE DEF EarnedInv
  <1>1. UNCHANGED <<group, api, linking, verifying, poll, txs, call>>
    BY DEF ProveIdentity, callVars
  <1>2. NothingYet
    BY DEF ProveIdentity, LinkIsEarned
  <1>3. /\ wizard'.minting = None /\ wizard'.members = wizard.members
        /\ wizard'.prompts = wizard.prompts
    BY WizardShape DEF ProveIdentity
  <1>4. answers' \in {answers, answers \cup {getKycStatus}}
    BY DEF ProveIdentity
  <1>5. IdentityShape'
    BY <1>1, <1>3, <1>4, KycStatusType DEF IdentityShape, ApiShape, LinkingShape, PollShape
  <1>6. NothingYet'
    BY <1>1, <1>2, <1>3 DEF NothingYet
  <1>7. LinkIsEarned'
    BY <1>3, <1>6 DEF LinkIsEarned, NothingYet
  <1>8. MembersAreEarned' /\ SessionIsEarned'
    BY <1>6 DEF NothingYet, MembersAreEarned, SessionIsEarned
  <1>9. StatusIsEarned'
    BY <1>1, <1>4, KycStatusType DEF IdentityShape, StatusIsEarned
  <1> QED  BY <1>5, <1>7, <1>8, <1>9

(* The list is shown as the API has it.                                      *)
LEMMA MembersShownKeepsEarned ==
    ASSUME FrontInv, EarnedInv, wizard' \in {wizard, [wizard EXCEPT !.members = api.members]},
           UNCHANGED <<page, group, api, verifying, poll, answers, txs, call>>,
           wizard.identity # None, UNCHANGED linking \/ linking' = NotLinking
    PROVE  EarnedInv'
  <1> USE DEF EarnedInv
  <1>1. /\ wizard'.members \in {wizard.members, api.members}
        /\ wizard'.identity = wizard.identity /\ wizard'.minting = wizard.minting
        /\ wizard'.prompts = wizard.prompts
    BY WizardShape
  <1>2. IdentityShape'
    BY <1>1 DEF IdentityShape, ApiShape, LinkingShape, PollShape, NotLinking
  <1>3. LinkIsEarned'
    BY <1>1 DEF LinkIsEarned, NothingYet, NotLinking, Registered, Landed
  <1>4. MembersAreEarned'
    BY <1>1 DEF MembersAreEarned, Registered, Landed
  <1>5. SessionIsEarned' /\ StatusIsEarned'
    BY <1>1 DEF SessionIsEarned, StatusIsEarned, Registered, Landed
  <1> QED  BY <1>2, <1>3, <1>4, <1>5

(* Link and leave are offered for a wallet and, as it is, an identity.       *)
LEMMA AskKeepsEarned ==
    ASSUME FrontInv, EarnedInv, Link \/ Leave, page = "identity", UNCHANGED page
    PROVE  EarnedInv'
  <1> USE DEF EarnedInv
  <1>1. UNCHANGED <<group, api, wizard, verifying, poll, answers, txs>>
    BY DEF Link, Leave
  <1>2. wizard.address \in Wallets /\ wizard.identity # None
    <2>1. CASE Link
      BY <2>1, LinkIsForBoth, WizardShape DEF Link
    <2>2. CASE Leave
      BY <2>2, StagesReached, StageMeans, WizardShape DEF Leave, LeaveOffered
    <2> QED  BY <2>1, <2>2
  <1>3. /\ linking'.at = "call" /\ linking'.kind \in {"link", "leave"}
        /\ linking'.wallet = wizard.address
        /\ linking' \in [at : {"none", "call", "record", "members"}, kind : {"link", "leave", None},
                         wallet : Wallets \cup {None}]
        /\ linking'.kind = "link" => /\ call'.by = wizard.address /\ call'.arg = wizard.identity
                                     /\ call'.method = "register_wallet"
    BY <1>2 DEF Link, Leave, NotLinking, invokeContractCall, NoCall
  <1>4. IdentityShape'
    BY <1>1, <1>2, <1>3 DEF IdentityShape, ApiShape, LinkingShape, PollShape
  <1>5. LinkIsEarned'
    BY <1>1, <1>2, <1>3 DEF LinkIsEarned
  <1>6. MembersAreEarned' /\ SessionIsEarned' /\ StatusIsEarned'
    BY <1>1 DEF MembersAreEarned, SessionIsEarned, StatusIsEarned, Registered, Landed
  <1> QED  BY <1>4, <1>5, <1>6

(* What returns has landed, for the wallet of the click.                     *)
LEMMA CallEndsKeepsEarned ==
    ASSUME FrontInv, OwnInv, EarnedInv, CallEnds, UNCHANGED page
    PROVE  EarnedInv'
  <1> USE DEF EarnedInv
  <1>1. UNCHANGED <<group, api, wizard, verifying, poll, answers, txs>> /\ linking.at = "call"
    BY DEF CallEnds
  <1>2. \/ /\ linking'.at \in {"record", "members"} /\ linking'.wallet = linking.wallet
           /\ linking'.kind = linking.kind
           /\ linking'.at = "record" => linking.kind = "link" /\ call.stage = "returned"
           /\ linking' \in [at : {"none", "call", "record", "members"},
                            kind : {"link", "leave", None}, wallet : Wallets \cup {None}]
        \/ linking' = NotLinking
    BY DEF CallEnds, IdentityShape, LinkingShape
  <1>3. linking'.at = "record" => Registered(linking.wallet, wizard.identity)
    BY <1>1, <1>2 DEF NotLinking, LinkIsEarned, OwnInv, CallOwnsTx, Registered
  <1>4. IdentityShape'
    BY <1>1, <1>2 DEF IdentityShape, ApiShape, LinkingShape, PollShape, NotLinking
  <1>5. LinkIsEarned'
    BY <1>1, <1>2, <1>3 DEF LinkIsEarned, NothingYet, NotLinking, Registered, Landed
  <1>6. MembersAreEarned' /\ SessionIsEarned' /\ StatusIsEarned'
    BY <1>1 DEF MembersAreEarned, SessionIsEarned, StatusIsEarned, Registered, Landed
  <1> QED  BY <1>4, <1>5, <1>6

(* The API is told of a registration that landed, or not told.               *)
LEMMA RecordKeepsEarned ==
    ASSUME FrontInv, EarnedInv, RecordMembership, UNCHANGED page
    PROVE  EarnedInv'
  <1> USE DEF EarnedInv
  <1>1. UNCHANGED <<group, wizard, verifying, poll, answers, txs, call>> /\ linking.at = "record"
    BY DEF RecordMembership, callVars
  <1>2. \/ linking'.at = "members" /\ linking'.wallet = linking.wallet
           /\ linking' \in [at : {"none", "call", "record", "members"},
                            kind : {"link", "leave", None}, wallet : Wallets \cup {None}]
        \/ linking' = NotLinking
    BY DEF RecordMembership, IdentityShape, LinkingShape
  <1>3. /\ api' \in {api, [api EXCEPT !.members = @ \cup {linking.wallet}]}
        /\ linking.wallet \in Wallets
    BY DEF RecordMembership, IdentityShape, LinkingShape
  <1>4. /\ ApiShape' /\ api'.members \in {api.members, api.members \cup {linking.wallet}}
        /\ api'.session = api.session /\ api'.approval = api.approval
    BY <1>3 DEF IdentityShape, ApiShape
  <1>5. IdentityShape'
    BY <1>1, <1>2, <1>4 DEF IdentityShape, LinkingShape, PollShape, NotLinking
  <1>6. LinkIsEarned'
    BY <1>1, <1>2 DEF LinkIsEarned, NothingYet, NotLinking
  <1>7. MembersAreEarned'
    BY <1>1, <1>4 DEF LinkIsEarned, MembersAreEarned, Registered, Landed
  <1>8. SessionIsEarned' /\ StatusIsEarned'
    BY <1>1, <1>4 DEF SessionIsEarned, StatusIsEarned, Registered, Landed
  <1> QED  BY <1>5, <1>6, <1>7, <1>8

(* A verification is offered to a wallet that is listed.                     *)
LEMMA StartVerificationKeepsEarned ==
    ASSUME FrontInv, EarnedInv, StartVerification, UNCHANGED page
    PROVE  EarnedInv'
  <1> USE DEF EarnedInv
  <1>1. UNCHANGED <<group, api, wizard, linking, poll, answers, txs, call>> /\ verifying' = "session"
    BY DEF StartVerification, callVars
  <1>2. isLinked /\ wizard.identity # None
    BY StagesReached, StageMeans DEF StartVerification, VerifyOffered
  <1>3. \E w \in Wallets : Registered(w, wizard.identity)
    BY <1>2, WizardShape DEF isLinked, MembersAreEarned
  <1>4. IdentityShape'
    BY <1>1 DEF IdentityShape, ApiShape, LinkingShape, PollShape
  <1>5. LinkIsEarned'
    BY <1>1, <1>2 DEF LinkIsEarned, Registered, Landed
  <1>6. SessionIsEarned'
    BY <1>1, <1>3 DEF SessionIsEarned, Registered, Landed
  <1>7. MembersAreEarned' /\ StatusIsEarned'
    BY <1>1 DEF MembersAreEarned, StatusIsEarned, Registered, Landed
  <1> QED  BY <1>4, <1>5, <1>6, <1>7

\* For whatever TRUE is as a value.
LEMMA SessionCreated ==
    ASSUME ApiShape
    PROVE  LET created == [api EXCEPT !.session = TRUE] IN
           /\ created \in [members : SUBSET Wallets, session : BOOLEAN, latest : Rows,
                           approval : {"no", "recorded", "bound"}]
           /\ created.members = api.members /\ created.approval = api.approval
  BY DEF ApiShape

LEMMA CreateKycSessionKeepsEarned ==
    ASSUME FrontInv, EarnedInv, CreateKycSession, UNCHANGED page
    PROVE  EarnedInv'
  <1> USE DEF EarnedInv
  <1>1. /\ UNCHANGED <<group, wizard, linking, poll, answers, txs, call>>
        /\ verifying = "session" /\ verifying' \in {"none", "status"}
    BY DEF CreateKycSession, callVars
  <1>2. ApiShape' /\ api'.members = api.members /\ api'.approval = api.approval
    BY SessionCreated DEF CreateKycSession, IdentityShape, ApiShape
  <1>3. wizard.identity # None /\ \E w \in Wallets : Registered(w, wizard.identity)
    BY <1>1 DEF LinkIsEarned, NothingYet, SessionIsEarned
  <1>4. IdentityShape'
    BY <1>1, <1>2 DEF IdentityShape, LinkingShape, PollShape
  <1>5. LinkIsEarned'
    BY <1>1, <1>3 DEF LinkIsEarned, Registered, Landed
  <1>6. SessionIsEarned'
    BY <1>1, <1>3 DEF SessionIsEarned, Registered, Landed
  <1>7. MembersAreEarned' /\ StatusIsEarned'
    BY <1>1, <1>2 DEF MembersAreEarned, StatusIsEarned, Registered, Landed
  <1> QED  BY <1>4, <1>5, <1>6, <1>7

(* The one interval: starting one clears the one that runs, stopping it      *)
(* clears its reference.                                                    *)
PollOK(p) ==
    /\ p \in [status : Statuses, ref : BOOLEAN, running : {0, 1}]
    /\ p.running = IF p.ref THEN 1 ELSE 0

LEMMA IntervalSet ==
    ASSUME NEW p \in [status : Statuses, ref : BOOLEAN, running : {0, 1}], NEW n \in {0, 1}
    PROVE  \A x \in BOOLEAN :
               LET q == [p EXCEPT !.running = n, !.ref = x] IN
               /\ q \in [status : Statuses, ref : BOOLEAN, running : {0, 1}]
               /\ q.ref = x /\ q.running = n /\ q.status = p.status
  OBVIOUS

LEMMA StopPollingOK ==
    ASSUME NEW p, PollOK(p)
    PROVE  PollOK(stopPolling(p)) /\ stopPolling(p).status = p.status
  <1> DEFINE n == IF p.ref THEN p.running - 1 ELSE p.running
  <1>1. n = 0
    BY DEF PollOK
  <1>2. stopPolling(p) = [p EXCEPT !.running = n, !.ref = FALSE]
    BY DEF stopPolling
  <1> HIDE DEF n
  <1>3. /\ stopPolling(p) \in [status : Statuses, ref : BOOLEAN, running : {0, 1}]
        /\ stopPolling(p).ref = FALSE /\ stopPolling(p).running = 0
        /\ stopPolling(p).status = p.status
    BY <1>1, <1>2, IntervalSet DEF PollOK
  <1> QED  BY <1>3 DEF PollOK

LEMMA StartPollingOK ==
    ASSUME NEW p, PollOK(p)
    PROVE  PollOK(startPolling(p)) /\ startPolling(p).status = p.status
  <1> DEFINE n == IF p.ref THEN p.running ELSE p.running + 1
  <1>1. n = 1
    BY DEF PollOK
  <1>2. startPolling(p) = [p EXCEPT !.running = n, !.ref = TRUE]
    BY DEF startPolling
  <1> HIDE DEF n
  <1>3. /\ startPolling(p) \in [status : Statuses, ref : BOOLEAN, running : {0, 1}]
        /\ startPolling(p).ref = TRUE /\ startPolling(p).running = 1
        /\ startPolling(p).status = p.status
    BY <1>1, <1>2, IntervalSet DEF PollOK
  <1> QED  BY <1>3 DEF PollOK

LEMMA RefreshOK ==
    ASSUME NEW p, PollOK(p), NEW s \in Statuses
    PROVE  /\ PollOK(refreshOnce(p, s)) /\ refreshOnce(p, s).status = s
           /\ PollOK(RefreshFails(p)) /\ RefreshFails(p).status = p.status
  <1> DEFINE q == [p EXCEPT !.status = s]
  <1>1. PollOK(q) /\ q.status = s
    BY DEF PollOK
  <1>2. refreshOnce(p, s) = IF s \in Resolved THEN stopPolling(q) ELSE q
    BY DEF refreshOnce
  <1> HIDE DEF q
  <1>3. PollOK(stopPolling(q)) /\ stopPolling(q).status = q.status
    BY <1>1, StopPollingOK
  <1>4. PollOK(RefreshFails(p)) /\ RefreshFails(p).status = p.status
    BY StopPollingOK DEF RefreshFails
  <1> QED  BY <1>1, <1>2, <1>3, <1>4

(* A status that is shown, or on its way, was the API's.                     *)
LEMMA StatusKeepsEarned ==
    ASSUME FrontInv, EarnedInv, PollShape', UNCHANGED page,
           UNCHANGED <<group, api, wizard, linking, txs, call>>,
           verifying' \in {verifying, "none"},
           poll'.status \in {poll.status, getKycStatus} \cup answers,
           answers' \subseteq answers \cup {getKycStatus}
    PROVE  EarnedInv'
  <1> USE DEF EarnedInv
  <1>1. IdentityShape'
    BY DEF IdentityShape, ApiShape, LinkingShape
  <1>2. LinkIsEarned'
    BY DEF LinkIsEarned, NothingYet, Registered, Landed
  <1>3. MembersAreEarned' /\ SessionIsEarned'
    BY DEF MembersAreEarned, SessionIsEarned, Registered, Landed
  <1>4. StatusIsEarned'
    BY KycStatusType DEF StatusIsEarned, IdentityShape
  <1> QED  BY <1>1, <1>2, <1>3, <1>4

LEMMA PollingKeepsEarned ==
    ASSUME FrontInv, EarnedInv, VerificationStarts \/ Refresh \/ PollStep, UNCHANGED page
    PROVE  EarnedInv'
  <1>0. PollOK(poll) /\ answers \subseteq Statuses /\ getKycStatus \in Statuses
    BY KycStatusType DEF EarnedInv, IdentityShape, PollShape, PollOK
  <1>1. CASE VerificationStarts
    <2>1. PollOK(poll') /\ poll'.status \in {poll.status, getKycStatus}
      <3>1. CASE poll' = startPolling(refreshOnce(poll, getKycStatus))
        BY <1>0, <3>1, RefreshOK, StartPollingOK
      <3>2. CASE poll' = startPolling(RefreshFails(poll))
        BY <1>0, <3>2, RefreshOK, StartPollingOK
      <3> QED  BY <1>1, <3>1, <3>2 DEF VerificationStarts
    <2> QED  BY <1>0, <1>1, <2>1, StatusKeepsEarned
             DEF VerificationStarts, PollShape, PollOK, callVars
  <1>2. CASE AskStatus
    BY <1>0, <1>2, StatusKeepsEarned DEF AskStatus, PollShape, PollOK, callVars
  <1>3. CASE StatusArrives
    <2>1. PICK s \in answers : /\ answers' = answers \ {s}
                               /\ poll' = refreshOnce(poll, s) \/ poll' = RefreshFails(poll)
      BY <1>3 DEF StatusArrives
    <2>2. PollOK(poll') /\ poll'.status \in {poll.status, s}
      BY <1>0, <2>1, RefreshOK
    <2> QED  BY <1>0, <1>3, <2>1, <2>2, StatusKeepsEarned
             DEF StatusArrives, PollShape, PollOK, callVars
  <1> QED  BY <1>1, <1>2, <1>3 DEF Refresh, PollStep, Tick

(* The provider and the bind: what is bound stays bound.                     *)
LEMMA KycKeepsEarned ==
    ASSUME FrontInv, EarnedInv, Webhook \/ Bind, UNCHANGED page
    PROVE  EarnedInv'
  <1> USE DEF EarnedInv
  <1>1. UNCHANGED <<group, wizard, linking, verifying, poll, answers, txs, call>>
    BY DEF Webhook, Bind, idPageVars, callVars
  <1>2. /\ ApiShape' /\ api'.members = api.members /\ api'.session = api.session
        /\ api.approval = "bound" => api'.approval = "bound"
    <2>1. CASE Webhook
      BY <2>1 DEF Webhook, IdentityShape, ApiShape, Rows
    <2>2. CASE Bind
      BY <2>2 DEF Bind, IdentityShape, ApiShape
    <2> QED  BY <2>1, <2>2
  <1>3. IdentityShape'
    BY <1>1, <1>2 DEF IdentityShape, LinkingShape, PollShape
  <1>4. LinkIsEarned'
    BY <1>1, <1>2 DEF LinkIsEarned, NothingYet, Registered, Landed
  <1>5. MembersAreEarned' /\ SessionIsEarned' /\ StatusIsEarned'
    BY <1>1, <1>2 DEF MembersAreEarned, SessionIsEarned, StatusIsEarned, Registered, Landed
  <1> QED  BY <1>3, <1>4, <1>5

LEMMA OnIdentityKeepsEarned ==
    ASSUME FrontInv, OwnInv, EarnedInv, OnIdentity, \A t \in TxIds : Persists(t)
    PROVE  EarnedInv'
  <1>1. page = "identity" /\ UNCHANGED page
    BY DEF OnIdentity, IdentityOnly
  <1>2. CASE RefreshMembers
    BY <1>1, <1>2, MembersShownKeepsEarned DEF RefreshMembers, callVars
  <1>3. CASE LinkingEnds
    <2>1. wizard.identity # None
      BY <1>3 DEF LinkingEnds, EarnedInv, LinkIsEarned, NothingYet
    <2> QED  BY <1>1, <1>3, <2>1, MembersShownKeepsEarned DEF LinkingEnds, callVars
  <1>4. CASE IdentityCall
    BY <1>1, <1>4, CallStepEffect, EarnedStays
    DEF IdentityCall, idPageVars, EarnedInv, IdentityShape
  <1> QED
    BY <1>1, <1>2, <1>3, <1>4, PromptsKeepEarned, ProveIdentityKeepsEarned, AskKeepsEarned,
       CallEndsKeepsEarned, RecordKeepsEarned, StartVerificationKeepsEarned,
       CreateKycSessionKeepsEarned, PollingKeepsEarned, KycKeepsEarned
    DEF OnIdentity, IdentityStep

(* A page just loaded has nothing to show.                                   *)
PageIsFresh ==
    /\ group \in [Wallets -> Commitments \cup {None}]
    /\ api = NoApi /\ wizard = Fresh /\ linking = NotLinking /\ verifying = "none"
    /\ poll = NoPoll /\ answers = {}

LEMMA FreshIsEarned == PageIsFresh => EarnedInv
  <1> SUFFICES ASSUME PageIsFresh PROVE EarnedInv
    OBVIOUS
  <1>1. IdentityShape
    BY ConnectsAreBounded
    DEF PageIsFresh, IdentityShape, ApiShape, LinkingShape, PollShape, NoApi, Fresh, NotLinking,
        NoPoll, Statuses, Rows
  <1> QED
    BY <1>1 DEF PageIsFresh, EarnedInv, LinkIsEarned, NothingYet, MembersAreEarned,
                SessionIsEarned, StatusIsEarned, NoApi, Fresh, NotLinking, NoPoll

LEMMA FreshIsEarnedNext == PageIsFresh' => EarnedInv'
  BY FreshIsEarned, PTL

LEMMA FrontStepKeepsEarned ==
    FrontInv /\ OwnInv /\ EarnedInv /\ [FrontNext]_frontVars => EarnedInv'
  <1> SUFFICES ASSUME FrontInv, OwnInv, EarnedInv, [FrontNext]_frontVars PROVE EarnedInv'
    OBVIOUS
  <1>1. \A t \in TxIds : Persists(t)
    BY TxsPersist
  <1>2. page # "identity" => linking.at = "none"
    BY DEF EarnedInv, IdentityShape, LinkingShape
  <1>3. group \in [Wallets -> Commitments \cup {None}]
    BY DEF EarnedInv, IdentityShape
  <1>4. CASE OnAttestation \/ OnLending \/ OnLanding \/ OnPreview
    <2>1. UNCHANGED <<page, group, api, wizard, linking, verifying, poll, answers>>
      BY <1>4 DEF OnAttestation, OnLending, OnLanding, OnPreview, AttestationOnly, LendingOnly,
                  LandingOnly, PreviewOnly, idOwn, idPageVars, chainOwn
    <2>2. linking.at = "none"
      BY <1>2, <1>4 DEF OnAttestation, OnLending, OnLanding, OnPreview
    <2> QED  BY <1>1, <1>3, <2>1, <2>2, EarnedStays
  <1>5. CASE OnIdentity
    BY <1>1, <1>5, OnIdentityKeepsEarned
  <1>6. CASE Ledger
    <2>1. UNCHANGED <<page, call, api, wizard, linking, verifying, poll, answers>>
      BY <1>6 DEF Ledger, idOwn, idPageVars, RegistryCloses, Close, Expire
    <2>2. group' \in [Wallets -> Commitments \cup {None}]
      <3>1. ASSUME NEW t \in TxIds, RegistryCloses(t)
            PROVE  group' \in [Wallets -> Commitments \cup {None}]
        <4>1. txs[t].arg \in Commitments \cup {None}
          BY DEF FrontInv, TxShape
        <4> QED  BY <1>3, <3>1, <4>1 DEF RegistryCloses
      <3> QED  BY <1>3, <1>6, <3>1 DEF Ledger
    <2> QED  BY <1>1, <2>1, <2>2, EarnedStays
  <1>7. CASE NewDocument
    <2>1. UNCHANGED group /\ api' = NoApi /\ wizard' = Fresh /\ linking' = NotLinking
          /\ verifying' = "none" /\ poll' = NoPoll /\ answers' = {}
      BY <1>7 DEF NewDocument, LeaveIdentityPage, chainOwn
    <2> QED  BY <1>3, <2>1, FreshIsEarnedNext DEF PageIsFresh
  <1>8. CASE UNCHANGED frontVars
    BY <1>1, <1>3, <1>8, EarnedStays DEF frontVars, idOwn, idPageVars, chainOwn, callVars
  <1> QED
    BY <1>4, <1>5, <1>6, <1>7, <1>8, DocumentsStartOver DEF FrontNext

LEMMA InitEarnsNothing == FrontInit => EarnedInv
  BY FreshIsEarned DEF FrontInit, IdentityInit, PageIsFresh

-----------------------------------------------------------------------------
(* The numbers of the accounts.  An account's is the number of transactions  *)
(* the ledger has closed for it, none of which has a greater one; the        *)
(* network holds one of an account at most, which has the next number.      *)
Settled(t) == txs[t].status \in {"success", "failed"}
Closed(w)  == {t \in TxIds : txs[t].source = w /\ Settled(t)}

SeqInv ==
    /\ seqno \in [Wallets -> Nat]
    /\ \A w \in Wallets : seqno[w] = Cardinality(Closed(w))
    /\ \A t \in TxIds : txs[t].seq \in 0..Cardinality(TxIds)
    /\ \A t \in TxIds : txs[t].status # "none" => txs[t].source \in Wallets
    /\ \A t \in TxIds : txs[t].status = "pending" =>
           /\ txs[t].seq = seqno[txs[t].source] + 1
           /\ \A o \in TxIds : txs[o].status = "pending" /\ txs[o].source = txs[t].source => o = t
    /\ \A t \in TxIds : Settled(t) => txs[t].seq <= seqno[txs[t].source]

LEMMA TxIdsFinite == IsFiniteSet(TxIds) /\ Cardinality(TxIds) \in Nat
  BY NoneIsNoCall, FS_Interval, FS_CardinalityType DEF TxIds

(* A transaction that is not closed leaves room for its number.              *)
LEMMA ClosedBounded ==
    ASSUME NEW w, NEW t \in TxIds, ~Settled(t)
    PROVE  /\ IsFiniteSet(Closed(w)) /\ Cardinality(Closed(w)) \in Nat
           /\ Cardinality(Closed(w) \cup {t}) = Cardinality(Closed(w)) + 1
           /\ Cardinality(Closed(w)) + 1 <= Cardinality(TxIds)
  <1>1. Closed(w) \in SUBSET TxIds /\ t \notin Closed(w)
    BY DEF Closed
  <1>2. IsFiniteSet(Closed(w)) /\ Cardinality(Closed(w)) \in Nat
    BY <1>1, TxIdsFinite, FS_Subset, FS_CardinalityType
  <1>3. Cardinality(Closed(w) \cup {t}) = Cardinality(Closed(w)) + 1
    BY <1>1, <1>2, FS_AddElement
  <1>4. Closed(w) \cup {t} \in SUBSET TxIds
    BY <1>1
  <1>5. Cardinality(Closed(w) \cup {t}) <= Cardinality(TxIds)
    BY <1>4, TxIdsFinite, FS_Subset
  <1> QED  BY <1>2, <1>3, <1>5

LEMMA BuildKeepsSeq ==
    ASSUME TxShape, SeqInv, NEW t \in TxIds, NEW w \in Wallets, NEW m, NEW a,
           NextTx(t), Build(t, w, m, a), UNCHANGED seqno
    PROVE  SeqInv'
  <1> USE DEF SeqInv
  <1>1. /\ txs[t].status = "none" /\ txs'[t].source = w /\ txs'[t].seq = seqno[w] + 1
        /\ txs'[t].status = "built"
        /\ \A o \in TxIds \ {t} : txs'[o] = txs[o]
    BY DEF TxShape, Build, NextTx, NoTx
  <1>2. \A v : Closed(v)' = Closed(v)
    BY <1>1 DEF Closed, Settled
  <1>3. seqno[w] + 1 \in 0..Cardinality(TxIds)
    <2>1. ~Settled(t)
      BY <1>1 DEF Settled
    <2>2. Cardinality(Closed(w)) \in Nat /\ Cardinality(Closed(w)) + 1 <= Cardinality(TxIds)
      BY <2>1, ClosedBounded
    <2> QED  BY <2>2, TxIdsFinite
  <1>4. \A o \in TxIds : txs'[o].seq \in 0..Cardinality(TxIds)
    BY <1>1, <1>3
  <1>5. \A o \in TxIds : txs'[o].status # "none" => txs'[o].source \in Wallets
    BY <1>1
  <1>6. \A o \in TxIds : txs'[o].status = "pending" =>
           /\ txs'[o].seq = seqno[txs'[o].source] + 1
           /\ \A p \in TxIds : txs'[p].status = "pending" /\ txs'[p].source = txs'[o].source => p = o
    BY <1>1
  <1>7. \A v \in Wallets : seqno'[v] = Cardinality(Closed(v)')
    BY <1>2
  <1>8. \A o \in TxIds : Settled(o)' => txs'[o].seq <= seqno'[txs'[o].source]
    BY <1>1 DEF Settled
  <1> QED  BY <1>4, <1>5, <1>6, <1>7, <1>8

LEMMA HandedOverKeepsSeq ==
    ASSUME TxShape, SeqInv, NEW t \in TxIds, ~Settled(t), txs[t].status # "none",
           NEW s \in {"pending", "built"}, txs' = [txs EXCEPT ![t].status = s], UNCHANGED seqno,
           s = "pending" =>
               /\ txs[t].seq = seqno[txs[t].source] + 1
               /\ \A o \in TxIds : ~(txs[o].source = txs[t].source /\ txs[o].status = "pending")
    PROVE  SeqInv'
  <1> USE DEF SeqInv
  <1>1. /\ txs'[t].source = txs[t].source /\ txs'[t].seq = txs[t].seq /\ txs'[t].status = s
        /\ \A o \in TxIds \ {t} : txs'[o] = txs[o]
    BY DEF TxShape
  <1>2. \A v : Closed(v)' = Closed(v)
    BY <1>1 DEF Closed, Settled
  <1>4. \A o \in TxIds : txs'[o].seq \in 0..Cardinality(TxIds)
    BY <1>1
  <1>5. \A o \in TxIds : txs'[o].status # "none" => txs'[o].source \in Wallets
    BY <1>1
  <1>6. \A o \in TxIds : txs'[o].status = "pending" =>
           /\ txs'[o].seq = seqno[txs'[o].source] + 1
           /\ \A p \in TxIds : txs'[p].status = "pending" /\ txs'[p].source = txs'[o].source => p = o
    BY <1>1
  <1>7. \A v \in Wallets : seqno'[v] = Cardinality(Closed(v)')
    BY <1>2
  <1>8. \A o \in TxIds : Settled(o)' => txs'[o].seq <= seqno'[txs'[o].source]
    BY <1>1 DEF Settled
  <1> QED  BY <1>4, <1>5, <1>6, <1>7, <1>8

LEMMA CloseKeepsSeq ==
    ASSUME TxShape, SeqInv, NEW t \in TxIds, NEW accepted, Close(t, accepted)
    PROVE  SeqInv'
  <1> USE DEF SeqInv
  <1>0. PICK s \in {"failed", "success"} : txs' = [txs EXCEPT ![t].status = s]
    BY DEF Close
  <1>1. /\ txs'[t].source = txs[t].source /\ txs'[t].seq = txs[t].seq /\ txs'[t].status = s
        /\ \A o \in TxIds \ {t} : txs'[o] = txs[o]
    BY <1>0 DEF TxShape
  <1>2. txs[t].status = "pending" /\ ~Settled(t)
    BY DEF Close, Settled
  <1>w. PICK w \in Wallets : w = txs[t].source
    BY <1>2
  <1>3. seqno' = [seqno EXCEPT ![w] = seqno[w] + 1]
    BY <1>2, <1>w DEF Close
  <1>4. Closed(w)' = Closed(w) \cup {t} /\ \A v \in Wallets \ {w} : Closed(v)' = Closed(v)
    BY <1>1, <1>2, <1>w DEF Closed, Settled
  <1>5. \A o \in TxIds : txs'[o].seq \in 0..Cardinality(TxIds)
    BY <1>1
  <1>6. \A o \in TxIds : txs'[o].status # "none" => txs'[o].source \in Wallets
    BY <1>1, <1>2
  <1>7. \A o \in TxIds : txs'[o].status = "pending" =>
           /\ txs'[o].seq = seqno'[txs'[o].source] + 1
           /\ \A p \in TxIds : txs'[p].status = "pending" /\ txs'[p].source = txs'[o].source => p = o
    BY <1>1, <1>2, <1>3, <1>w
  <1>8. seqno' \in [Wallets -> Nat]
    BY <1>2, <1>3
  <1>9. Cardinality(Closed(w) \cup {t}) = seqno[w] + 1
    BY <1>2, ClosedBounded
  <1>10. \A v \in Wallets : seqno'[v] = Cardinality(Closed(v)')
    <2>1. seqno'[w] = Cardinality(Closed(w)')
      BY <1>2, <1>3, <1>4, <1>9
    <2>2. ASSUME NEW v \in Wallets \ {w} PROVE seqno'[v] = Cardinality(Closed(v)')
      BY <1>3, <1>4, <2>2
    <2> QED  BY <2>1, <2>2
  <1>11. \A o \in TxIds : Settled(o)' => txs'[o].seq <= seqno'[txs'[o].source]
    <2>1. txs'[t].seq <= seqno'[txs'[t].source]
      BY <1>1, <1>2, <1>3, <1>w
    <2>2. ASSUME NEW o \in TxIds \ {t}, Settled(o)
          PROVE  txs'[o].seq <= seqno'[txs'[o].source]
      <3>1. txs'[o] = txs[o] /\ txs[o].source \in Wallets /\ txs[o].seq <= seqno[txs[o].source]
        BY <1>1, <2>2 DEF Settled
      <3>2. txs[o].seq \in Nat /\ seqno[txs[o].source] \in Nat
        BY <3>1, TxIdsFinite
      <3> QED  BY <1>3, <1>w, <3>1, <3>2
    <2> QED  BY <1>1, <2>1, <2>2 DEF Settled
  <1> QED  BY <1>5, <1>6, <1>7, <1>8, <1>10, <1>11

LEMMA SeqStays ==
    ASSUME SeqInv, UNCHANGED <<txs, seqno>>
    PROVE  SeqInv'
  BY DEF SeqInv, Closed, Settled

LEMMA CallStepKeepsSeq ==
    ASSUME FrontInv, OwnInv, SeqInv, NEW accepted, CallStep(accepted) \/ SignCall
    PROVE  SeqInv'
  <1>1. CASE GetAccount
    <2>1. UNCHANGED seqno /\ call.by \in Wallets
      BY <1>1 DEF GetAccount, OwnInv, CallOfPage
    <2>2. CASE \E t \in TxIds : NextTx(t) /\ Build(t, call.by, call.method, call.arg)
      BY <2>1, <2>2, BuildKeepsSeq DEF FrontInv
    <2> QED  BY <1>1, <2>1, <2>2, SeqStays DEF GetAccount
  <1>2. CASE Send
    <2>1. UNCHANGED seqno /\ call.tx \in TxIds /\ txs[call.tx].status = "built"
      BY <1>2 DEF Send, FrontInv, CallHoldsTx
    <2>2. CASE /\ txs' = [txs EXCEPT ![call.tx].status = "pending"]
               /\ txs[call.tx].seq = seqno[txs[call.tx].source] + 1
               /\ ~\E o \in TxIds : txs[o].source = txs[call.tx].source
                                    /\ txs[o].status = "pending"
      <3>1. ~Settled(call.tx)
        BY <2>1 DEF Settled
      <3> QED  BY <2>1, <2>2, <3>1, HandedOverKeepsSeq DEF FrontInv
    <2> QED  BY <1>2, <2>1, <2>2, SeqStays DEF Send
  <1>3. CASE PrepareTransaction(accepted) \/ SignCall \/ PollCall
    BY <1>3, SeqStays DEF PrepareTransaction, SignCall, PollCall
  <1> QED  BY <1>1, <1>2, <1>3 DEF CallStep

LEMMA FrontStepKeepsSeq == FrontInv /\ OwnInv /\ SeqInv /\ [FrontNext]_frontVars => SeqInv'
  <1> SUFFICES ASSUME FrontInv, OwnInv, SeqInv, [FrontNext]_frontVars PROVE SeqInv'
    OBVIOUS
  <1>1. CASE OnAttestation
    <2>1. CASE PostPrepare \/ JobMoves
      <3>1. UNCHANGED seqno /\ flow.wallet \in Wallets
        BY <2>1 DEF PostPrepare, JobMoves, FrontInv, FlowHoldsTx
      <3>2. CASE \E t \in TxIds : NextTx(t) /\ Build(t, flow.wallet, "attest_with_risc0", None)
        BY <3>1, <3>2, BuildKeepsSeq DEF FrontInv
      <3> QED  BY <2>1, <3>1, <3>2, SeqStays DEF PostPrepare, JobMoves
    <2>2. CASE AttestCall
      BY <2>2, CallStepKeepsSeq DEF AttestCall
    <2> QED
      BY <1>1, <2>1, <2>2, SeqStays
      DEF OnAttestation, AttestStep, FlowStep, SilentConnect, Connect, ConnectSettles, Attest,
          AskSession, PollJob, StartSubmit, EndSubmit, ReadBack, callVars
  <1>2. CASE OnIdentity
    <2>1. CASE IdentityCall
      BY <2>1, CallStepKeepsSeq DEF IdentityCall
    <2> QED
      BY <1>2, <2>1, SeqStays
      DEF OnIdentity, IdentityStep, ConnectWallet, PromptSettles, Generate, ProveIdentity,
          RefreshMembers, Link, Leave, CallEnds, RecordMembership, LinkingEnds,
          StartVerification, CreateKycSession, VerificationStarts, Refresh, PollStep, Tick,
          AskStatus, StatusArrives, Webhook, Bind, callVars
  <1>3. CASE OnLending
    <2>1. CASE LendingCall
      BY <2>1, CallStepKeepsSeq DEF LendingCall
    <2> QED
      BY <1>3, <2>1, SeqStays
      DEF OnLending, LendingStep, LookUp, LookupSettles, ConnectLending, Execute, ExecuteEnds,
          callVars
  <1>4. CASE Ledger
    <2>1. ASSUME NEW t \in TxIds, Expire(t) PROVE SeqInv'
      <3>1. ~Settled(t) /\ txs[t].status # "none"
        BY <2>1 DEF Expire, Settled
      <3> QED  BY <2>1, <3>1, HandedOverKeepsSeq DEF Expire, FrontInv
    <2> QED  BY <1>4, <2>1, CloseKeepsSeq DEF Ledger, RegistryCloses, FrontInv
  <1>5. CASE NewDocument \/ OnLanding \/ OnPreview \/ UNCHANGED frontVars
    BY <1>5, SeqStays DEF NewDocument, OnLanding, OnPreview, LandingOnly, PreviewOnly, frontVars, callVars
  <1> QED  BY <1>1, <1>2, <1>3, <1>4, <1>5, DocumentsStartOver DEF FrontNext

LEMMA InitClosesNothing == FrontInit => SeqInv
  <1> SUFFICES ASSUME FrontInit PROVE SeqInv
    OBVIOUS
  <1>1. txs = [t \in TxIds |-> NoTx] /\ seqno = [w \in Wallets |-> 0]
    BY DEF FrontInit, CallInit
  <1>2. \A t \in TxIds : txs[t].status = "none" /\ txs[t].seq = 0
    BY <1>1 DEF NoTx
  <1>3. \A w : Closed(w) = {}
    BY <1>2 DEF Closed, Settled
  <1>4. Cardinality({}) = 0
    BY FS_EmptySet
  <1>5. \A w \in Wallets : seqno[w] = Cardinality(Closed(w))
    BY <1>1, <1>3, <1>4
  <1>6. \A t \in TxIds : ~Settled(t)
    BY <1>2 DEF Settled
  <1> QED  BY <1>1, <1>2, <1>5, <1>6, TxIdsFinite DEF SeqInv

(* Of some transactions one has the greatest number.                         *)
LEMMA GreatestSeq ==
    ASSUME SeqInv, NEW S \in SUBSET TxIds, S # {}
    PROVE  \E t \in S : \A o \in S : txs[o].seq <= txs[t].seq
  <1> DEFINE b == Cardinality(TxIds)
             D == {b - txs[t].seq : t \in S}
  <1>1. b \in Nat /\ \A t \in S : txs[t].seq \in 0..b
    BY TxIdsFinite DEF SeqInv
  <1>2. D \subseteq Nat /\ D # {}
    <2>1. D # {}
      OBVIOUS
    <2>2. ASSUME NEW d \in D PROVE d \in Nat
      <3>1. PICK t \in S : d = b - txs[t].seq
        BY <2>2
      <3>2. txs[t].seq \in 0..b
        BY <1>1
      <3> HIDE DEF b, D
      <3> QED  BY <1>1, <3>1, <3>2
    <2> QED  BY <2>1, <2>2
  <1>3. PICK k \in D : \A d \in D : ~ (<<d, k>> \in OpToRel(<, Nat))
    BY <1>2, NatLessThanWellFounded, WFMin
  <1>4. PICK t \in S : k = b - txs[t].seq
    BY <1>3
  <1>5. ASSUME NEW o \in S PROVE txs[o].seq <= txs[t].seq
    <2>1. b - txs[o].seq \in D
      OBVIOUS
    <2>2. ~(b - txs[o].seq < k)
      BY <1>2, <1>3, <2>1 DEF OpToRel
    <2>3. txs[o].seq \in 0..b /\ txs[t].seq \in 0..b
      BY <1>1
    <2> HIDE DEF b, D
    <2> QED  BY <1>1, <1>4, <2>2, <2>3
  <1> QED  BY <1>5
-----------------------------------------------------------------------------
(* The registry and the transactions.  A registration that landed stands     *)
(* until its wallet leaves: only the ledger changes the registry, it takes  *)
(* no wallet twice, and it closes an account's transactions in order.       *)
RegistrationsStand ==
    \A t \in TxIds : Landed(t) /\ txs[t].method = "register_wallet" =>
        group[txs[t].source] = txs[t].arg \/ Left(t)

LEMMA GroupIsTheLedgers ==
    ASSUME [FrontNext]_frontVars
    PROVE  Ledger \/ UNCHANGED group
  <1>1. CASE OnIdentity
    BY <1>1
    DEF OnIdentity, IdentityStep, ConnectWallet, PromptSettles, Generate, ProveIdentity,
        RefreshMembers, Link, Leave, CallEnds, RecordMembership, LinkingEnds,
        StartVerification, CreateKycSession, VerificationStarts, Refresh, PollStep, Tick,
        AskStatus, StatusArrives, Webhook, Bind, IdentityCall
  <1>2. CASE OnAttestation \/ OnLending \/ OnLanding \/ OnPreview
    BY <1>2 DEF OnAttestation, OnLending, OnLanding, OnPreview, AttestationOnly, LendingOnly,
                LandingOnly, PreviewOnly, chainOwn
  <1>3. CASE NewDocument \/ UNCHANGED frontVars
    BY <1>3 DEF NewDocument, frontVars, chainOwn
  <1> QED  BY <1>1, <1>2, <1>3, DocumentsStartOver DEF FrontNext

(* A wallet that has left since stays one that has.                          *)
LEMMA LeftStays ==
    ASSUME \A t \in TxIds : Persists(t), NEW t \in TxIds, Landed(t), Left(t)
    PROVE  Left(t)'
  BY DEF Left, Persists, Landed

LEMMA NothingLandsKeepsStand ==
    ASSUME FrontInv, RegistrationsStand, \A t \in TxIds : Persists(t), NothingLands,
           UNCHANGED group
    PROVE  RegistrationsStand'
  <1> SUFFICES ASSUME NEW t \in TxIds, Landed(t)', txs'[t].method = "register_wallet"
               PROVE  group'[txs'[t].source] = txs'[t].arg \/ Left(t)'
    BY DEF RegistrationsStand
  <1>1. Landed(t) /\ txs[t].status # "none"
    BY DEF NothingLands, Landed
  <1>2. /\ txs'[t].source = txs[t].source /\ txs'[t].method = txs[t].method
        /\ txs'[t].arg = txs[t].arg
    BY <1>1 DEF Persists
  <1> QED  BY <1>1, <1>2, LeftStays DEF RegistrationsStand

LEMMA RegistryKeepsStand ==
    ASSUME FrontInv, SeqInv, RegistrationsStand, group \in [Wallets -> Commitments \cup {None}],
           \A t \in TxIds : Persists(t),
           NEW t \in TxIds, txs[t].method \in RegistryMethods, RegistryCloses(t)
    PROVE  RegistrationsStand'
  <1>1. /\ txs[t].status = "pending" /\ txs[t].source \in Wallets
        /\ txs[t].seq = seqno[txs[t].source] + 1
        /\ \A o \in TxIds : o # t => txs'[o] = txs[o]
    BY DEF RegistryCloses, Close, SeqInv, FrontInv, TxShape
  <1>2. CASE txs'[t].status # "success"
    <2>1. NothingLands /\ UNCHANGED group
      BY <1>1, <1>2 DEF NothingLands, Landed, RegistryCloses
    <2> QED  BY <2>1, NothingLandsKeepsStand
  <1>3. CASE txs'[t].status = "success"
    <2> DEFINE w == txs[t].source
    <2>1. RegistryAccepts(t) /\ group' = [group EXCEPT ![w] = txs[t].arg]
      <3>1. group' = [group EXCEPT ![w] = txs[t].arg]
        BY <1>3 DEF RegistryCloses
      <3>2. ~RegistryAccepts(t) => txs' = [txs EXCEPT ![t].status = "failed"]
        BY DEF RegistryCloses, Close
      <3>3. txs' = [txs EXCEPT ![t].status = "failed"] => txs'[t].status = "failed"
        BY DEF FrontInv, TxShape
      <3> QED  BY <1>3, <3>1, <3>2, <3>3
    <2>2. /\ txs'[t].source = w /\ txs'[t].arg = txs[t].arg /\ txs'[t].method = txs[t].method
          /\ txs'[t].seq = txs[t].seq
      BY <1>1 DEF Persists
    <2> SUFFICES ASSUME NEW o \in TxIds, Landed(o)', txs'[o].method = "register_wallet"
                 PROVE  group'[txs'[o].source] = txs'[o].arg \/ Left(o)'
      BY DEF RegistrationsStand
    <2>3. CASE o = t
      BY <1>1, <2>1, <2>2, <2>3
    <2>4. CASE o # t
      <3>1. /\ txs'[o] = txs[o] /\ Landed(o) /\ txs[o].method = "register_wallet"
            /\ txs[o].source \in Wallets /\ txs[o].arg \in Commitments
        BY <1>1, <2>4 DEF Landed, FrontInv, Registrations
      <3>2. CASE Left(o)
        BY <3>1, <3>2, LeftStays
      <3>3. CASE ~Left(o) /\ txs[o].source # w
        BY <2>1, <3>1, <3>3 DEF RegistrationsStand
      <3>4. CASE ~Left(o) /\ txs[o].source = w
        <4>1. group[w] # None
          BY <3>1, <3>4, NoneIsNoIdentity DEF RegistrationsStand
        <4>2. txs[t].method = "leave_group"
          BY <2>1, <4>1 DEF RegistryAccepts
        <4>3. txs[t].seq > txs[o].seq
          <5>1. txs[o].seq <= seqno[w] /\ txs[o].seq \in Nat /\ seqno[w] \in Nat
            BY <1>1, <3>1, <3>4, TxIdsFinite DEF SeqInv, Settled, Landed
          <5> QED  BY <1>1, <5>1
        <4> QED  BY <1>3, <2>2, <3>1, <3>4, <4>2, <4>3 DEF Left, Landed
      <3> QED  BY <3>2, <3>3, <3>4
    <2> QED  BY <2>3, <2>4
  <1> QED  BY <1>2, <1>3

LEMMA FrontStepKeepsStand ==
    FrontInv /\ SeqInv /\ EarnedInv /\ RegistrationsStand /\ [FrontNext]_frontVars
        => RegistrationsStand'
  <1> SUFFICES ASSUME FrontInv, SeqInv, EarnedInv, RegistrationsStand, [FrontNext]_frontVars
               PROVE  RegistrationsStand'
    OBVIOUS
  <1>1. \A t \in TxIds : Persists(t)
    BY TxsPersist
  <1>2. CASE ~Ledger
    BY <1>1, <1>2, TxsPersist, GroupIsTheLedgers, NothingLandsKeepsStand
  <1>3. CASE Ledger
    <2>1. PICK t \in TxIds :
             \/ txs[t].method \in RegistryMethods /\ RegistryCloses(t)
             \/ txs[t].method \notin RegistryMethods /\ Close(t, TRUE) /\ UNCHANGED group
             \/ Expire(t) /\ UNCHANGED group
      BY <1>3 DEF Ledger
    <2>2. CASE txs[t].method \in RegistryMethods /\ RegistryCloses(t)
      BY <1>1, <2>2, RegistryKeepsStand DEF EarnedInv, IdentityShape
    <2>3. CASE txs[t].method \notin RegistryMethods /\ Close(t, TRUE) /\ UNCHANGED group
      <3>1. /\ txs'[t].method # "register_wallet" /\ txs[t].status = "pending"
            /\ \A o \in TxIds : o # t => txs'[o] = txs[o]
        BY <1>1, <2>3 DEF Close, Persists, RegistryMethods, FrontInv, TxShape
      <3> SUFFICES ASSUME NEW o \in TxIds, Landed(o)', txs'[o].method = "register_wallet"
                   PROVE  group'[txs'[o].source] = txs'[o].arg \/ Left(o)'
        BY DEF RegistrationsStand
      <3>2. txs'[o] = txs[o] /\ Landed(o)
        BY <3>1 DEF Landed
      <3> QED  BY <1>1, <2>3, <3>2, LeftStays DEF RegistrationsStand
    <2>4. CASE Expire(t) /\ UNCHANGED group
      <3>1. NothingLands
        BY <2>4 DEF Expire, NothingLands, Landed, FrontInv, TxShape
      <3> QED  BY <1>1, <2>4, <3>1, NothingLandsKeepsStand
    <2> QED  BY <2>1, <2>2, <2>3, <2>4
  <1> QED  BY <1>2, <1>3

LEMMA InitStandsForNothing == FrontInit => RegistrationsStand
  BY DEF FrontInit, CallInit, NoTx, RegistrationsStand, Landed

(* VerifiedIsEarned: however the answers are ordered, and whatever is linked, *)
(* left or polled meanwhile.                                                *)
THEOREM VerificationIsEarned == FrontSpec => []VerifiedIsEarned
  <1> DEFINE Inv == FrontInv /\ OwnInv /\ SeqInv /\ EarnedInv /\ RegistrationsStand
  <1>1. FrontInit => Inv
    BY InitEarnsNothing, InitEstablishesFrontInv, InitOwnsNothing, InitClosesNothing,
       InitStandsForNothing
  <1>2. Inv /\ [FrontNext]_frontVars => Inv'
    BY FrontStepKeepsInv, FrontStepKeepsOwn, FrontStepKeepsSeq, FrontStepKeepsEarned,
       FrontStepKeepsStand
  <1>3. EarnedInv /\ RegistrationsStand => VerifiedIsEarned
    <2> SUFFICES ASSUME EarnedInv, RegistrationsStand PROVE VerifiedIsEarned
      OBVIOUS
    <2>0. ASSUME NEW w, NEW c, Registered(w, c) PROVE Joined(w, c)
      BY <2>0 DEF Registered, Joined, RegistrationsStand
    <2>1. RadialStatus.line = "fully verified" =>
              RadialStatus.done = DOMAIN stageDone /\ api.approval = "bound"
      <3> SUFFICES ASSUME complete PROVE RadialStatus.done = DOMAIN stageDone /\ api.approval = "bound"
        BY DEF RadialStatus
      <3>1. stageDone[4]
        BY DEF complete, stageDone
      <3>2. api.approval = "bound"
        BY <3>1, StageMeans DEF kycVerified, EarnedInv, StatusIsEarned
      <3> QED  BY <3>2 DEF RadialStatus, complete
    <2>2. statusTone(poll.status) = "Verified and bound on-chain" => api.approval = "bound"
      BY DEF EarnedInv, IdentityShape, PollShape, Statuses, StatusIsEarned, statusTone
    <2>3. TrailDone(3) => Joined(wizard.address, wizard.identity)
      <3> SUFFICES ASSUME TrailDone(3) PROVE Registered(wizard.address, wizard.identity)
        BY <2>0
      <3>1. wizard.address \in wizard.members
        BY StagesReached, StageMeans DEF isLinked
      <3> QED  BY <3>1 DEF EarnedInv, MembersAreEarned
    <2>4. /\ \A w \in LinkedWallets : Joined(w, wizard.identity)
          /\ api.session => \E w \in Wallets : Joined(w, wizard.identity)
      BY <2>0 DEF LinkedWallets, EarnedInv, MembersAreEarned, SessionIsEarned
    <2> QED  BY <2>1, <2>2, <2>3, <2>4 DEF VerifiedIsEarned
  <1> QED  BY <1>1, <1>2, <1>3, PTL DEF FrontSpec
-----------------------------------------------------------------------------
(* What the attestation page shows.                                          *)
UiShape ==
    /\ ui.phase \in Phases
    /\ ui.txHash \in TxIds \cup {None} /\ ui.prepared \in TxIds \cup {None}
    /\ ui.attestation \in TxIds \cup {GroupRecord, None} /\ ui.queue \in OpenJob \cup {None}
    /\ flow.job \in OpenJob \cup {"succeeded", "failed", None}
    /\ flow.at = "none" => flow = NoFlow
    /\ connecting \in BOOLEAN /\ silent \in BOOLEAN

(* The phase is that of the step the flow is at; its call starts at the      *)
(* signature, and a step past it has the transaction it is about.           *)
Submitting == {"sign", "send", "poll", "returned", "thrown"}

PhaseFollows ==
    /\ flow.at \in {"session", "post"} => ui.phase = "preparing"
    /\ flow.at = "poll" => ui.phase = "waiting"
    /\ flow.at = "import" => ui.phase \in {"preparing", "waiting"}
    /\ flow.at = "call" => /\ ui.phase = "submitting" /\ flow.tx # None
                           /\ call.tx = flow.tx /\ call.stage \in Submitting
    /\ flow.at = "read" => /\ ui.phase = "reading" /\ flow.tx # None
                           /\ ui.txHash = flow.tx /\ Landed(flow.tx)
    /\ flow.at = "none" => ui.phase \in {"idle", "connecting", "done", "error"}

(* A page that is done shows the transaction it prepared, landed, and a      *)
(* record of the wallet's that is not older.                                *)
RecordOfWallet(t) ==
    /\ t \in TxIds /\ txs[t].status # "none" /\ txs[t].source = ui.wallet
    /\ txs[t].seq \in Nat

DoneIsOfWallet ==
    ui.phase = "done" =>
        /\ ui.wallet \in Wallets /\ ui.prepared = ui.txHash
        /\ RecordOfWallet(ui.txHash) /\ Landed(ui.txHash)
        /\ ui.attestation # GroupRecord =>
               /\ RecordOfWallet(ui.attestation) /\ Landed(ui.attestation)
               /\ txs[ui.attestation].seq >= txs[ui.txHash].seq

AttestInv == UiShape /\ PhaseFollows /\ DoneIsOfWallet

UiType == [wallet : Wallets \cup {None}, phase : Phases, error : {ui.error},
           txHash : TxIds \cup {None}, attestation : TxIds \cup {GroupRecord, None},
           prepared : TxIds \cup {None}, queue : OpenJob \cup {None}]

FlowType == [at : FlowSteps, wallet : Wallets \cup {None},
             job : OpenJob \cup {"succeeded", "failed", None}, tx : TxIds \cup {None}]

LEMMA AttestShape ==
    ASSUME FrontInv, AttestInv
    PROVE  ui \in UiType /\ flow \in FlowType
  BY DEF FrontInv, FlowHoldsTx, AttestInv, UiShape, UiType, FlowType

(* A page that stands still keeps what it shows, whatever the ledger does.   *)
LEMMA AttestStays ==
    ASSUME AttestInv, \A t \in TxIds : Persists(t), UNCHANGED attestOwn,
           \/ flow.at = "none"
           \/ call'.tx = call.tx /\ (call.stage \in Submitting => call'.stage \in Submitting),
           FrontInv
    PROVE  AttestInv'
  <1> USE DEF AttestInv, attestOwn
  <1>1. UiShape'
    BY DEF UiShape
  <1>2. PhaseFollows'
    BY AttestShape, NoneIsNoCall DEF PhaseFollows, Persists, Landed, FlowType
  <1>3. DoneIsOfWallet'
    BY DEF DoneIsOfWallet, RecordOfWallet, Persists, Landed
  <1> QED  BY <1>1, <1>2, <1>3

LEMMA EndFlowKeepsAttest ==
    ASSUME FrontInv, AttestInv, NEW e, EndFlow(e), UNCHANGED <<connecting, silent, txs>>
    PROVE  AttestInv'
  <1>1. flow' = NoFlow /\ ui' = [ui EXCEPT !.phase = "error", !.error = e]
    BY DEF EndFlow, ShowError
  <1>2. /\ ui'.phase = "error" /\ ui'.txHash = ui.txHash /\ ui'.prepared = ui.prepared
        /\ ui'.attestation = ui.attestation /\ ui'.queue = ui.queue
    BY <1>1, AttestShape DEF UiType
  <1> QED
    BY <1>1, <1>2 DEF AttestInv, UiShape, PhaseFollows, DoneIsOfWallet, NoFlow, Phases, FlowPhases

(* The wallet of the page changes with no flow and no card.                  *)
LEMMA WalletStepsKeepAttest ==
    ASSUME FrontInv, AttestInv, SilentConnect \/ Connect \/ ConnectSettles
    PROVE  AttestInv'
  <1> USE DEF AttestInv
  <1>0. UNCHANGED <<flow, call, txs>> /\ ui \in UiType
    BY AttestShape DEF SilentConnect, Connect, ConnectSettles, callVars
  <1>1. CASE SilentConnect
    <2>1. CASE UNCHANGED ui
      <3>1. UiShape'
        BY <1>0, <1>1, <2>1 DEF SilentConnect, UiShape
      <3>2. PhaseFollows'
        BY <1>0, <2>1 DEF PhaseFollows, Landed
      <3>3. DoneIsOfWallet'
        BY <1>0, <2>1 DEF DoneIsOfWallet, RecordOfWallet, Landed
      <3> QED  BY <3>1, <3>2, <3>3
    <2>2. CASE ui.wallet = None /\ \E a \in SilentAddresses : ui' = [ui EXCEPT !.wallet = a]
      <3>1. /\ ui'.phase = ui.phase /\ ui'.txHash = ui.txHash /\ ui'.prepared = ui.prepared
            /\ ui'.attestation = ui.attestation /\ ui'.queue = ui.queue
        BY <1>0, <2>2 DEF UiType
      <3>2. ui.phase # "done"
        BY <2>2, NoneIsNoWallet DEF DoneIsOfWallet
      <3>3. UiShape'
        BY <1>0, <1>1, <3>1 DEF SilentConnect, UiShape
      <3>4. PhaseFollows'
        BY <1>0, <3>1 DEF PhaseFollows, Landed
      <3> QED  BY <3>1, <3>2, <3>3, <3>4 DEF DoneIsOfWallet
    <2> QED  BY <1>1, <2>1, <2>2 DEF SilentConnect
  <1>2. CASE Connect
    <2>1. /\ ui'.phase = "connecting" /\ ui'.txHash = ui.txHash /\ ui'.prepared = ui.prepared
          /\ ui'.attestation = ui.attestation /\ ui'.queue = ui.queue
      BY <1>0, <1>2 DEF Connect, UiType
    <2>2. flow.at = "none"
      BY <1>2, NoneIsNoWallet DEF Connect, FrontInv, FlowHoldsTx
    <2> QED  BY <1>0, <1>2, <2>1, <2>2 DEF Connect, UiShape, PhaseFollows, DoneIsOfWallet, Phases
  <1>3. CASE ConnectSettles
    <2>1. /\ ui'.phase \in {"idle", "error"} /\ ui'.txHash = ui.txHash /\ ui'.prepared = ui.prepared
          /\ ui'.attestation = ui.attestation /\ ui'.queue = ui.queue
      BY <1>0, <1>3 DEF ConnectSettles, ShowError, UiType
    <2>2. flow.at = "none"
      BY <1>3, AttestShape DEF ConnectSettles, FrontInv, FlowHoldsTx, FlowPhases
    <2> QED  BY <1>0, <1>3, <2>1, <2>2
             DEF ConnectSettles, UiShape, PhaseFollows, DoneIsOfWallet, Phases
  <1> QED  BY <1>1, <1>2, <1>3

(* get_attestation's record of a wallet with a transaction that landed is    *)
(* one of its transactions, with no smaller number.                         *)
LEMMA RecordOfLanded ==
    ASSUME SeqInv, NEW t \in TxIds, Landed(t), txs[t].method = "attest_with_risc0"
    PROVE  LET r == RecordOf(txs[t].source) IN
           /\ r \in TxIds /\ Landed(r) /\ txs[r].source = txs[t].source
           /\ txs[r].seq \in Nat /\ txs[t].seq \in Nat /\ txs[t].seq <= txs[r].seq
  <1> DEFINE landed == {o \in TxIds : /\ Landed(o) /\ txs[o].source = txs[t].source
                                      /\ txs[o].method = "attest_with_risc0"}
             Last(r) == \A o \in landed : txs[o].seq <= txs[r].seq
  <1>1. t \in landed /\ landed \in SUBSET TxIds
    OBVIOUS
  <1>2. RecordOf(txs[t].source) = CHOOSE r \in landed : Last(r)
    BY <1>1 DEF RecordOf
  <1>3. \E r \in landed : Last(r)
    BY <1>1, GreatestSeq
  <1> HIDE DEF Last
  <1>4. RecordOf(txs[t].source) \in landed /\ Last(RecordOf(txs[t].source))
    BY <1>2, <1>3
  <1>5. \A o \in TxIds : txs[o].seq \in Nat
    BY TxIdsFinite DEF SeqInv
  <1> QED  BY <1>1, <1>4, <1>5 DEF Last

LEMMA ReadBackKeepsAttest ==
    ASSUME FrontInv, OwnInv, SeqInv, AttestInv, ReadBack
    PROVE  AttestInv'
  <1>0. UNCHANGED <<connecting, silent, call, txs>> /\ flow.at = "read"
    BY DEF ReadBack, callVars
  <1>1. CASE \E e : EndFlow(e)
    BY <1>0, <1>1, EndFlowKeepsAttest
  <1>2. CASE flow' = NoFlow /\ \E record \in {RecordOf(flow.wallet), GroupRecord} :
               ui' = [ui EXCEPT !.phase = "done", !.attestation = record,
                                !.prepared = flow.tx, !.queue = None]
    <2>1. PICK record \in {RecordOf(flow.wallet), GroupRecord} :
               ui' = [ui EXCEPT !.phase = "done", !.attestation = record,
                                !.prepared = flow.tx, !.queue = None]
      BY <1>2
    <2>2. /\ ui'.phase = "done" /\ ui'.attestation = record /\ ui'.prepared = flow.tx
          /\ ui'.queue = None /\ ui'.txHash = ui.txHash /\ ui'.wallet = ui.wallet
      BY <2>1, AttestShape DEF UiType
    <2>3. /\ flow.tx \in TxIds /\ ui.txHash = flow.tx /\ Landed(flow.tx)
          /\ txs[flow.tx].source = ui.wallet /\ ui.wallet \in Wallets /\ flow.wallet = ui.wallet
          /\ txs[flow.tx].method = "attest_with_risc0"
      BY <1>0 DEF AttestInv, PhaseFollows, OwnInv, FlowOwnsTx, FrontInv, FlowHoldsTx
    <2>4. LET r == RecordOf(ui.wallet) IN
          /\ r \in TxIds /\ Landed(r) /\ txs[r].source = ui.wallet
          /\ txs[r].seq \in Nat /\ txs[flow.tx].seq \in Nat /\ txs[flow.tx].seq <= txs[r].seq
      BY <2>3, RecordOfLanded
    <2>5. record = GroupRecord \/ record = RecordOf(ui.wallet)
      BY <2>3
    <2>6. UiShape'
      BY <1>0, <1>2, <2>2, <2>3, <2>4, <2>5
      DEF AttestInv, UiShape, NoFlow, Phases, FlowPhases
    <2>7. PhaseFollows'
      BY <1>2, <2>2 DEF PhaseFollows, NoFlow
    <2>8. DoneIsOfWallet'
      BY <1>0, <2>2, <2>3, <2>4, <2>5 DEF DoneIsOfWallet, RecordOfWallet, Landed
    <2> QED  BY <2>6, <2>7, <2>8 DEF AttestInv
  <1> QED  BY <1>1, <1>2 DEF ReadBack

(* A flow on its way shows no card, and its phase is the step's.             *)
LEMMA FlowStepShows ==
    ASSUME AttestInv, flow'.at # "none", flow'.job \in OpenJob \cup {"succeeded", "failed", None},
           UNCHANGED <<connecting, silent>>,
           ui'.phase \in FlowPhases, ui'.txHash \in TxIds \cup {None},
           ui'.prepared \in TxIds \cup {None},
           ui'.attestation \in TxIds \cup {GroupRecord, None},
           ui'.queue \in OpenJob \cup {None}, PhaseFollows'
    PROVE  AttestInv'
  BY DEF AttestInv, UiShape, DoneIsOfWallet, Phases, FlowPhases

LEMMA AttestKeepsAttest ==
    ASSUME FrontInv, AttestInv, Attest
    PROVE  AttestInv'
  <1>1. /\ ui'.phase = "preparing" /\ ui'.txHash = None /\ ui'.prepared = None
        /\ ui'.attestation = None /\ ui'.queue = None
        /\ flow'.at = "session" /\ flow'.job = None /\ UNCHANGED <<connecting, silent>>
    BY DEF Attest, Blank, NoFlow
  <1>2. PhaseFollows'
    BY <1>1 DEF PhaseFollows
  <1> QED  BY <1>1, <1>2, FlowStepShows DEF FlowPhases

LEMMA AskSessionKeepsAttest ==
    ASSUME FrontInv, AttestInv, AskSession
    PROVE  AttestInv'
  <1>0. UNCHANGED <<connecting, silent, txs>> /\ flow.at = "session"
    BY DEF AskSession, callVars
  <1>1. CASE flow' = [flow EXCEPT !.at = "post"] /\ UNCHANGED ui
    <2>1. flow'.at = "post" /\ flow'.job = flow.job /\ ui \in UiType /\ flow \in FlowType
      BY <1>1, AttestShape DEF FlowType
    <2>2. PhaseFollows'
      BY <1>0, <1>1, <2>1 DEF AttestInv, PhaseFollows
    <2>3. ui.phase \in FlowPhases
      BY <1>0 DEF AttestInv, PhaseFollows, FlowPhases
    <2> QED  BY <1>0, <1>1, <2>1, <2>2, <2>3, FlowStepShows DEF UiType, FlowType
  <1>2. CASE \E e : EndFlow(e)
    BY <1>0, <1>2, EndFlowKeepsAttest
  <1> QED  BY <1>1, <1>2 DEF AskSession

LEMMA PostPrepareKeepsAttest ==
    ASSUME FrontInv, AttestInv, PostPrepare
    PROVE  AttestInv'
  <1>0. UNCHANGED <<connecting, silent, call>> /\ flow.at = "post"
    BY DEF PostPrepare
  <1>1. CASE /\ flow' = [flow EXCEPT !.at = "poll", !.job = "queued"]
             /\ ui' = [ui EXCEPT !.phase = "waiting", !.queue = "queued"]
    <2>1. /\ flow'.at = "poll" /\ flow'.job = "queued" /\ ui'.phase = "waiting"
          /\ ui'.txHash = ui.txHash /\ ui'.prepared = ui.prepared
          /\ ui'.attestation = ui.attestation /\ ui'.queue = "queued" /\ ui \in UiType
      BY <1>1, AttestShape DEF FlowType, UiType
    <2>2. PhaseFollows'
      BY <2>1 DEF PhaseFollows
    <2> QED  BY <1>0, <2>1, <2>2, FlowStepShows DEF UiType, OpenJob, FlowPhases
  <1>2. CASE \E t \in TxIds : flow' = [flow EXCEPT !.at = "import", !.tx = t] /\ UNCHANGED ui
    <2>1. /\ flow'.at = "import" /\ flow'.job = flow.job /\ ui \in UiType /\ flow \in FlowType
          /\ UNCHANGED ui
      BY <1>2, AttestShape DEF FlowType
    <2>2. ui.phase = "preparing"
      BY <1>0 DEF AttestInv, PhaseFollows
    <2>3. PhaseFollows'
      BY <2>1, <2>2 DEF PhaseFollows
    <2> QED  BY <1>0, <2>1, <2>2, <2>3, FlowStepShows DEF UiType, FlowType, FlowPhases
  <1>3. CASE UNCHANGED txs /\ \E e : EndFlow(e)
    BY <1>0, <1>3, EndFlowKeepsAttest
  <1> QED  BY <1>1, <1>2, <1>3 DEF PostPrepare

LEMMA JobMovesKeepsAttest ==
    ASSUME FrontInv, AttestInv, JobMoves
    PROVE  AttestInv'
  <1>0. UNCHANGED <<ui, connecting, silent>> /\ flow.at = "poll"
    BY DEF JobMoves
  <1>1. flow'.at = "poll" /\ flow'.job \in OpenJob \cup {"succeeded", "failed", None}
    BY <1>0, AttestShape DEF JobMoves, FlowType, OpenJob
  <1>2. ui.phase = "waiting" /\ ui \in UiType
    BY <1>0, AttestShape DEF AttestInv, PhaseFollows
  <1>3. PhaseFollows'
    BY <1>0, <1>1, <1>2 DEF PhaseFollows
  <1> QED  BY <1>0, <1>1, <1>2, <1>3, FlowStepShows DEF UiType, FlowPhases

LEMMA PollJobKeepsAttest ==
    ASSUME FrontInv, AttestInv, PollJob
    PROVE  AttestInv'
  <1>0. UNCHANGED <<connecting, silent, txs>> /\ flow.at = "poll"
    BY DEF PollJob, callVars
  <1>1. ui.phase = "waiting" /\ ui \in UiType /\ flow \in FlowType
    BY <1>0, AttestShape DEF AttestInv, PhaseFollows
  <1>2. CASE flow.job \in OpenJob /\ ui' = [ui EXCEPT !.queue = flow.job] /\ UNCHANGED flow
    <2>1. /\ ui'.phase = ui.phase /\ ui'.txHash = ui.txHash /\ ui'.prepared = ui.prepared
          /\ ui'.attestation = ui.attestation /\ ui'.queue = flow.job
      BY <1>1, <1>2 DEF UiType
    <2>2. PhaseFollows'
      BY <1>0, <1>1, <1>2, <2>1 DEF PhaseFollows
    <2> QED  BY <1>0, <1>1, <1>2, <2>1, <2>2, FlowStepShows DEF UiType, FlowType, FlowPhases
  <1>3. CASE flow' = [flow EXCEPT !.at = "import"] /\ UNCHANGED ui
    <2>1. flow'.at = "import" /\ flow'.job = flow.job
      BY <1>1, <1>3 DEF FlowType
    <2>2. PhaseFollows'
      BY <1>1, <1>3, <2>1 DEF PhaseFollows
    <2> QED  BY <1>0, <1>1, <1>3, <2>1, <2>2, FlowStepShows DEF UiType, FlowType, FlowPhases
  <1>4. CASE \E e : EndFlow(e)
    BY <1>0, <1>4, EndFlowKeepsAttest
  <1> QED  BY <1>2, <1>3, <1>4 DEF PollJob

LEMMA StartSubmitKeepsAttest ==
    ASSUME FrontInv, AttestInv, StartSubmit
    PROVE  AttestInv'
  <1>0. UNCHANGED <<connecting, silent, txs>> /\ flow.at = "import"
    BY DEF StartSubmit
  <1>1. CASE /\ flow' = [flow EXCEPT !.at = "call"]
             /\ ui' = [ui EXCEPT !.phase = "submitting"]
             /\ submitCosignedAttestation(flow.tx, flow.wallet)
    <2>1. /\ flow'.at = "call" /\ flow'.job = flow.job /\ flow'.tx = flow.tx
          /\ ui'.phase = "submitting"
          /\ ui'.txHash = ui.txHash /\ ui'.prepared = ui.prepared
          /\ ui'.attestation = ui.attestation /\ ui'.queue = ui.queue
          /\ ui \in UiType /\ flow \in FlowType
      BY <1>1, AttestShape DEF FlowType, UiType
    <2>2. call'.tx = flow.tx /\ call'.stage \in Submitting
      BY <1>1 DEF submitCosignedAttestation, NoCall, Submitting
    <2>3. flow.tx # None
      BY <1>0, NoneIsNoCall DEF FrontInv, FlowHoldsTx, TxIds
    <2>4. PhaseFollows'
      BY <2>1, <2>2, <2>3 DEF PhaseFollows
    <2> QED  BY <1>0, <2>1, <2>4, FlowStepShows DEF UiType, FlowType, FlowPhases
  <1>2. CASE \E e : EndFlow(e)
    BY <1>0, <1>2, EndFlowKeepsAttest
  <1> QED  BY <1>1, <1>2 DEF StartSubmit

LEMMA EndSubmitKeepsAttest ==
    ASSUME FrontInv, OwnInv, AttestInv, EndSubmit
    PROVE  AttestInv'
  <1>0. UNCHANGED <<connecting, silent, txs, call>> /\ flow.at = "call"
    BY DEF EndSubmit, callVars
  <1>1. CASE /\ call.stage = "returned"
             /\ flow' = [flow EXCEPT !.at = "read"]
             /\ ui' = [ui EXCEPT !.phase = "reading", !.txHash = call.tx]
    <2>1. /\ flow'.at = "read" /\ flow'.job = flow.job /\ flow'.tx = flow.tx
          /\ ui'.phase = "reading"
          /\ ui'.txHash = call.tx /\ ui'.prepared = ui.prepared
          /\ ui'.attestation = ui.attestation /\ ui'.queue = ui.queue
          /\ ui \in UiType /\ flow \in FlowType
      BY <1>1, AttestShape DEF FlowType, UiType
    <2>2. call.tx = flow.tx /\ flow.tx # None /\ Landed(flow.tx)
      BY <1>0, <1>1 DEF AttestInv, PhaseFollows, OwnInv, CallOwnsTx
    <2>3. PhaseFollows'
      BY <1>0, <2>1, <2>2 DEF PhaseFollows, Landed
    <2> QED  BY <1>0, <2>1, <2>2, <2>3, FlowStepShows DEF UiType, FlowType, FlowPhases
  <1>2. CASE \E e : EndFlow(e)
    BY <1>0, <1>2, EndFlowKeepsAttest
  <1> QED  BY <1>1, <1>2 DEF EndSubmit

\* A call past the preparation does not go back to it.
LEMMA SubmittingGoesOn ==
    ASSUME FrontInv, NEW accepted, CallStep(accepted) \/ SignCall, call.stage \in Submitting
    PROVE  call'.stage \in Submitting
  <1>0. call \in [stage : CallStages, method : Methods \cup {None}, by : Wallets \cup {None},
                  arg : Commitments \cup {None}, tx : TxIds \cup {None}, error : {call.error}]
    BY DEF FrontInv, CallShape
  <1>1. CASE SignCall
    BY <1>0, <1>1 DEF SignCall, Throw, Submitting
  <1>2. CASE Send
    <2>1. call' = [call EXCEPT !.stage = "poll"] \/ \E e : Throw(e)
      BY <1>2 DEF Send
    <2> QED  BY <1>0, <2>1 DEF Throw, Submitting
  <1>3. CASE PollCall
    <2>1. call' = [call EXCEPT !.stage = "returned"] \/ call' = call \/ \E e : Throw(e)
      BY <1>3 DEF PollCall
    <2> QED  BY <1>0, <2>1 DEF Throw, Submitting
  <1> QED  BY <1>1, <1>2, <1>3 DEF CallStep, GetAccount, PrepareTransaction, Submitting

LEMMA OnAttestationKeepsAttest ==
    ASSUME FrontInv, OwnInv, SeqInv, AttestInv, OnAttestation, \A t \in TxIds : Persists(t)
    PROVE  AttestInv'
  <1>1. CASE AttestCall
    <2>1. UNCHANGED attestOwn
      BY <1>1 DEF AttestCall
    <2>2. call'.tx = call.tx /\ call'.stage \in Submitting
      <3>1. call.stage \in Asking /\ (call'.tx = call.tx \/ call.stage = "account")
        BY <1>1, CallStepEffect DEF AttestCall
      <3>2. flow.at = "call"
        BY <3>1 DEF OnAttestation, FrontInv, FlowHoldsTx
      <3>3. call.stage \in Submitting
        BY <3>2 DEF AttestInv, PhaseFollows
      <3> QED  BY <1>1, <3>1, <3>3, SubmittingGoesOn DEF AttestCall, Submitting
    <2> QED  BY <2>1, <2>2, AttestStays
  <1> QED
    BY <1>1, WalletStepsKeepAttest, AttestKeepsAttest, AskSessionKeepsAttest,
       PostPrepareKeepsAttest, JobMovesKeepsAttest, PollJobKeepsAttest, StartSubmitKeepsAttest,
       EndSubmitKeepsAttest, ReadBackKeepsAttest
    DEF OnAttestation, AttestStep, FlowStep

LEMMA FrontStepKeepsAttest ==
    FrontInv /\ OwnInv /\ SeqInv /\ AttestInv /\ [FrontNext]_frontVars => AttestInv'
  <1> SUFFICES ASSUME FrontInv, OwnInv, SeqInv, AttestInv, [FrontNext]_frontVars PROVE AttestInv'
    OBVIOUS
  <1>1. \A t \in TxIds : Persists(t)
    BY TxsPersist
  <1>2. page # "attestation" => flow.at = "none"
    BY DEF FrontInv, FlowHoldsTx
  <1>3. CASE OnAttestation
    BY <1>1, <1>3, OnAttestationKeepsAttest
  <1>4. CASE OnIdentity \/ OnLending \/ OnLanding \/ OnPreview
    BY <1>1, <1>2, <1>4, AttestStays
    DEF OnIdentity, OnLending, OnLanding, OnPreview, IdentityOnly, LendingOnly, LandingOnly,
        PreviewOnly
  <1>5. CASE Ledger
    BY <1>1, <1>5, AttestStays DEF Ledger, RegistryCloses, Close, Expire
  <1>6. CASE NewDocument
    <2>1. ui' = Blank /\ flow' = NoFlow /\ connecting' = FALSE /\ silent' = TRUE
      BY <1>6 DEF NewDocument, LeaveAttestPage
    <2> QED
      BY <2>1 DEF Blank, NoFlow, AttestInv, UiShape, PhaseFollows, DoneIsOfWallet, Phases
  <1>7. CASE UNCHANGED frontVars
    BY <1>1, <1>7, AttestStays DEF frontVars, callVars
  <1> QED
    BY <1>3, <1>4, <1>5, <1>6, <1>7, DocumentsStartOver DEF FrontNext

LEMMA InitAttestsNothing == FrontInit => AttestInv
  <1> SUFFICES ASSUME FrontInit PROVE AttestInv
    OBVIOUS
  <1>1. ui = Blank /\ flow = NoFlow /\ connecting = FALSE /\ silent = TRUE
    BY DEF FrontInit, AttestInit
  <1> QED
    BY <1>1 DEF Blank, NoFlow, AttestInv, UiShape, PhaseFollows, DoneIsOfWallet, Phases

LEMMA AttestationPageInvariant == FrontSpec => [](FrontInv /\ OwnInv /\ SeqInv /\ AttestInv)
  <1> DEFINE Inv == FrontInv /\ OwnInv /\ SeqInv /\ AttestInv
  <1>1. FrontInit => Inv
    BY InitAttestsNothing, InitEstablishesFrontInv, InitOwnsNothing, InitClosesNothing
  <1>2. Inv /\ [FrontNext]_frontVars => Inv'
    BY FrontStepKeepsInv, FrontStepKeepsOwn, FrontStepKeepsSeq, FrontStepKeepsAttest
  <1> QED  BY <1>1, <1>2, PTL DEF FrontSpec

(* ProgressIsHonest: ticks, lit steps and the card go with the flow, its     *)
(* call and its transaction.                                                *)
THEOREM ProgressStaysHonest == FrontSpec => []ProgressIsHonest
  <1>1. FrontInv /\ OwnInv /\ AttestInv => ProgressIsHonest
    <2> SUFFICES ASSUME FrontInv, OwnInv, AttestInv PROVE ProgressIsHonest
      OBVIOUS
    <2>0. flow \in FlowType /\ ui \in UiType
      BY AttestShape
    <2>1. /\ ui.phase = "submitting" <=> flow.at = "call"
          /\ ui.phase = "reading" <=> flow.at = "read"
          /\ ui.phase \in FlowPhases <=> flow.at # "none"
      BY <2>0 DEF AttestInv, PhaseFollows, FlowPhases, FlowType, FlowSteps
    <2>2. ui.phase = "done" => ui.txHash # None /\ Landed(ui.txHash) /\ CardShown
      BY NoneIsNoCall
      DEF AttestInv, DoneIsOfWallet, RecordOfWallet, CardShown, TxIds, GroupRecord
    <2>3. StepDone(ui.phase, Verify) => CardShown
      BY <2>2 DEF StepDone, stepperState, Read, Prove, Sign, Verify
    <2>4. StepDone(ui.phase, Sign) => ui.txHash # None /\ Landed(ui.txHash)
      BY <2>1, <2>2
      DEF StepDone, stepperState, Read, Prove, Sign, Verify, AttestInv, PhaseFollows
    <2>5. StepDone(ui.phase, Prove) =>
             \E t \in {flow.tx, ui.txHash} \ {None} :
                 txs[t].status # "none" /\ txs[t].source = ui.wallet
      <3>1. CASE ui.phase = "done"
        BY <2>2, <3>1 DEF AttestInv, DoneIsOfWallet, RecordOfWallet
      <3>2. CASE ui.phase \in {"submitting", "reading"}
        BY <2>1, <3>2 DEF AttestInv, PhaseFollows, OwnInv, FlowOwnsTx, FrontInv, FlowHoldsTx
      <3> QED  BY <3>1, <3>2 DEF StepDone, stepperState, Read, Prove, Sign, Verify
    <2>6. /\ requestLabel(ui.phase) \in FlowPhases <=> flow.at # "none"
          /\ requestLabel(ui.phase) = "Attested" => CardShown
      BY <2>1, <2>2 DEF requestLabel, FlowPhases
    <2>7. /\ StepLit(ui.phase, Sign) <=> ui.phase = "submitting"
          /\ StepLit(ui.phase, Verify) <=> ui.phase = "reading"
          /\ (\E step \in {Read, Prove, Sign, Verify} : StepLit(ui.phase, step))
                 <=> ui.phase \in FlowPhases
      BY DEF StepLit, stepperState, FlowPhases, Read, Prove, Sign, Verify
    <2>8. flow.at = "call" =>
              /\ call.stage \in {"sign", "send", "poll", "returned", "thrown"}
              /\ call.tx = flow.tx /\ txs[call.tx].source = ui.wallet
      BY DEF AttestInv, PhaseFollows, Submitting, OwnInv, FlowOwnsTx, FrontInv, FlowHoldsTx
    <2> QED  BY <2>1, <2>3, <2>4, <2>5, <2>6, <2>7, <2>8 DEF ProgressIsHonest
  <1> QED  BY <1>1, AttestationPageInvariant, PTL

(* PageIsOfOneWallet, whatever comes late: of a group's record it only says  *)
(* that it stands in for the wallet's own.                                  *)
THEOREM PageStaysOfOneWallet == FrontSpec => []PageIsOfOneWallet
  <1>1. FrontInv /\ AttestInv => PageIsOfOneWallet
    <2> SUFFICES ASSUME FrontInv, AttestInv PROVE PageIsOfOneWallet
      OBVIOUS
    <2>1. flow.at # "none" => flow.wallet = ui.wallet
      BY DEF FrontInv, FlowHoldsTx
    <2>2. CASE CardShown
      <3>1. /\ ui.prepared = ui.txHash /\ RecordOfWallet(ui.txHash) /\ Landed(ui.txHash)
            /\ ui.attestation # GroupRecord =>
                   /\ RecordOfWallet(ui.attestation) /\ Landed(ui.attestation)
                   /\ txs[ui.attestation].seq >= txs[ui.txHash].seq
        BY <2>2 DEF CardShown, AttestInv, DoneIsOfWallet
      <3>2. ASSUME NEW t \in (CardFront \cup CardBack \cup ModelReceipts) \ {GroupRecord}
            PROVE  Landed(t) /\ txs[t].source = ui.wallet /\ txs[t].seq >= txs[ui.txHash].seq
        <4>1. t = ui.txHash \/ (t = ui.attestation /\ ui.attestation # GroupRecord)
          BY <3>1, <3>2 DEF CardFront, CardBack, ModelReceipts
        <4> QED  BY <3>1, <4>1 DEF RecordOfWallet
      <3> QED  BY <2>1, <3>1, <3>2 DEF PageIsOfOneWallet
    <2> QED  BY <2>1, <2>2 DEF PageIsOfOneWallet
  <1> QED  BY <1>1, AttestationPageInvariant, PTL
-----------------------------------------------------------------------------
(* The preview's timer runs as long as its label says, and its steps end.    *)
TryShape ==
    /\ try.step \in 0..LastStep
    /\ try.timer <=> try.phase = "loading"
    /\ mounting \subseteq {"address", "model"}

LEMMA RunAttestationKeepsShape ==
    ASSUME TryInv, TryShape, runAttestation(try.address)
    PROVE  TryShape'
  BY DEF runAttestation, TryInv, TryShape, NoTry, LastStep

LEMMA TryStepKeepsShape ==
    ASSUME TryInv, TryShape, TryStep
    PROVE  TryShape'
  <1> USE DEF TryShape, LastStep
  <1>0. try \in [address : Unchecked \cup {None}, phase : {"idle", "loading", "done", "error"},
                 step : Nat, timer : BOOLEAN, attestation : Wallets \cup {None},
                 record : Wallets \cup {None}, features : Wallets \cup {None}, model : BOOLEAN]
    BY DEF TryInv
  <1>1. CASE Type
    BY <1>0, <1>1 DEF Type
  <1>2. CASE FillSilently
    BY <1>0, <1>2 DEF FillSilently
  <1>3. CASE ModelInfo
    BY <1>0, <1>3 DEF ModelInfo
  <1>4. CASE Submit
    <2>1. CASE try.phase # "loading" /\ try' = [try EXCEPT !.phase = "error"] /\ UNCHANGED mounting
      BY <1>0, <2>1
    <2> QED  BY <1>4, <2>1, RunAttestationKeepsShape DEF Submit
  <1>5. CASE Retry
    BY <1>5, RunAttestationKeepsShape DEF Retry
  <1>6. CASE StepTimer
    BY <1>0, <1>6 DEF StepTimer
  <1>7. CASE PreparePhase
    BY <1>0, <1>7 DEF PreparePhase
  <1>8. CASE Prepared
    <2>1. CASE try' = [try EXCEPT !.attestation = request.addr]
      BY <1>0, <1>8, <2>1 DEF Prepared
    <2>2. CASE try' = [try EXCEPT !.phase = "error", !.timer = FALSE, !.step = LastStep]
      BY <1>0, <1>8, <2>2 DEF Prepared
    <2> QED  BY <1>8, <2>1, <2>2 DEF Prepared, TryFails
  <1>9. CASE FetchSettles
    <2>1. PICK fulfilled \in SUBSET Fetched : ShowFetched(fulfilled)
      BY <1>9 DEF FetchSettles
    <2>2. try'.phase = "done" /\ ~try'.timer /\ try'.step = LastStep
      BY <1>0, <2>1 DEF ShowFetched
    <2> QED  BY <1>9, <2>2 DEF FetchSettles
  <1> QED
    BY <1>1, <1>2, <1>3, <1>4, <1>5, <1>6, <1>7, <1>8, <1>9 DEF TryStep

(* The pages there are, and the preview's state.                             *)
PagesInv == page \in SiteRoutes \cup Unrouted /\ TryInv /\ TryShape

LEMMA FrontStepKeepsPages == PagesInv /\ [FrontNext]_frontVars => PagesInv'
  <1> SUFFICES ASSUME PagesInv, [FrontNext]_frontVars PROVE PagesInv'
    OBVIOUS
  <1> USE DEF PagesInv
  <1>1. CASE OnPreview
    BY <1>1, TryStepKeepsInv, TryStepKeepsShape DEF OnPreview, PreviewOnly
  <1>2. CASE Navigate \/ Reload
    <2>1. page' \in SiteRoutes \cup Unrouted
      BY <1>2 DEF Navigate, Reload, NavLinks, FooterLinks, SiteRoutes
    <2>2. try' = NoTry /\ request' = NoRequest /\ mounting' = {"address", "model"}
      BY <1>2, DocumentsStartOver DEF NewDocument, LeaveTryPage
    <2>3. TryInv'
      BY <2>2 DEF TryInv, NoTry, NoRequest
    <2>4. TryShape'
      BY <2>2 DEF TryShape, NoTry, LastStep
    <2> QED  BY <2>1, <2>3, <2>4
  <1>3. CASE UNCHANGED <<page, tryVars>>
    BY <1>3 DEF tryVars, TryInv, TryShape
  <1> QED
    BY <1>1, <1>2, <1>3
    DEF FrontNext, frontVars, OnAttestation, OnIdentity, OnLending, OnLanding, Ledger,
        AttestationOnly, IdentityOnly, LendingOnly, LandingOnly

LEMMA InitShowsAPage == FrontInit => PagesInv
  <1> SUFFICES ASSUME FrontInit PROVE PagesInv
    OBVIOUS
  <1>1. page \in SiteRoutes \cup Unrouted
    BY DEF FrontInit, getSiteRoute, Paths, SiteRoutes
  <1>2. TryInv /\ TryShape
    BY DEF FrontInit, TryInit, TryInv, TryShape, NoTry, NoRequest, Unchecked, LastStep
  <1> QED  BY <1>1, <1>2 DEF PagesInv

(* FrontTypeOK: what a page's parts must agree on, agrees at any moment.     *)
THEOREM FrontTypeCorrect == FrontSpec => []FrontTypeOK
  <1> DEFINE Inv == /\ FrontInv /\ OwnInv /\ SeqInv
                    /\ AttestInv /\ EarnedInv /\ LendingInv /\ PagesInv
  <1>1. FrontInit => Inv
    BY InitEstablishesFrontInv, InitOwnsNothing, InitClosesNothing, InitAttestsNothing,
       InitEarnsNothing, InitLendsNothing, InitShowsAPage
  <1>2. Inv /\ [FrontNext]_frontVars => Inv'
    BY FrontStepKeepsInv, FrontStepKeepsOwn, FrontStepKeepsSeq, FrontStepKeepsAttest,
       FrontStepKeepsEarned, FrontStepKeepsLending, FrontStepKeepsPages
  <1>3. Inv => FrontTypeOK
    <2> SUFFICES ASSUME Inv PROVE FrontTypeOK
      OBVIOUS
    <2>1. CallTypeOK
      <3>1. /\ call.stage \in CallStages /\ call.method \in Methods \cup {None}
            /\ call.by \in Wallets \cup {None} /\ call.tx \in TxIds \cup {None}
        BY DEF FrontInv, CallShape
      <3>2. \A t \in TxIds : /\ txs[t].status \in TxStatus
                             /\ txs[t].source \in Wallets \cup {None}
                             /\ txs[t].seq \in 0..Cardinality(TxIds)
        BY DEF FrontInv, TxShape, SeqInv
      <3>3. ASSUME NEW w \in Wallets PROVE seqno[w] \in 0..Cardinality(TxIds)
        <4>1. Closed(w) \in SUBSET TxIds
          BY DEF Closed
        <4>2. Cardinality(Closed(w)) <= Cardinality(TxIds) /\ Cardinality(Closed(w)) \in Nat
          BY <4>1, TxIdsFinite, FS_Subset, FS_CardinalityType
        <4>3. seqno[w] = Cardinality(Closed(w))
          BY DEF SeqInv
        <4> QED  BY <4>2, <4>3, TxIdsFinite
      <3>4. seqno \in [Wallets -> 0..Cardinality(TxIds)]
        BY <3>3 DEF SeqInv
      <3> QED  BY <3>1, <3>2, <3>4 DEF CallTypeOK
    <2>2. AttestTypeOK
      <3>1. flow.at = "none" <=> flow = NoFlow
        BY DEF AttestInv, UiShape, NoFlow
      <3> QED
        BY <2>1, <3>1 DEF AttestTypeOK, FrontInv, FlowHoldsTx, AttestInv, UiShape
    <2>3. IdentityTypeOK
      BY <2>1 DEF IdentityTypeOK, FrontInv, PagesShape, Registrations, EarnedInv, IdentityShape,
                  ApiShape, LinkingShape, PollShape
    <2>4. LendingTypeOK
      <3>1. lending.terms \in Wallets \cup {DefaultTerms, None}
        BY DEF LendingInv
      <3> QED
        BY <2>1, <3>1 DEF LendingTypeOK, LendingInv, FrontInv, PagesShape
    <2>5. TryTypeOK
      BY DEF TryTypeOK, PagesInv, TryInv, TryShape, Unchecked
    <2> QED  BY <2>1, <2>2, <2>3, <2>4, <2>5 DEF PagesInv, FrontTypeOK
  <1> QED  BY <1>1, <1>2, <1>3, PTL DEF FrontSpec
=============================================================================
