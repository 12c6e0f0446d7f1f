---------------------------- MODULE IdentityPage ----------------------------
(***************************************************************************)
(* The identity wizard (frontend/src/pages/Identity.tsx with lib/identity.ts,*)
(* lib/kyc.ts and lib/zk/identity-proof.ts): connect a wallet, mint an      *)
(* identity, link the wallet to it on chain, verify once.  A stage offers   *)
(* its buttons when every earlier one is done, but what an earlier stage    *)
(* left running, a second prompt, a link, a poll, goes on behind the next.  *)
(*                                                                         *)
(* Left out: messages that no guard reads and the "polling" label.  Of the  *)
(* statuses, "open" stands for pending, in_review and approved but not yet  *)
(* bound, which keep the interval going; "none" for no row, a declined and  *)
(* an abandoned one, which stop it and differ in their wording only.        *)
(***************************************************************************)
EXTENDS ContractCalls

CONSTANTS
    Commitments,    \* bound: the identities minted while we watch
    MaxConnects,    \* bound: Freighter prompts open at once
    MaxAnswers,     \* bound: status answers on their way at once
    ApiFails        \* whether a request to the API, or its answer, can be lost

ASSUME ConnectsAreBounded == MaxConnects \in Nat
ASSUME NoneIsNoIdentity   == None \notin Commitments

VARIABLES
    group,          \* WalletIdentity: the commitment of each wallet
    proofOf,        \* the wallet the proof of each commitment is bound to
    api,            \* what the API has of the identity held: members, KYC
    wizard,         \* what the page is drawn from
    linking,        \* the link() or leave() in progress
    verifying,      \* the startVerification() in progress
    poll,           \* useKycStatus: the status shown, the interval
    answers         \* the statuses that are on their way to the page

idPageVars == <<wizard, linking, verifying, poll, answers>>

Statuses == {"none", "open", "verified"}            \* as the page tells them apart
Rows     == {"none", "open", "approved"}            \* the latest row of the API
Resolved == {"none", "verified"}                    \* refreshOnce: ~shouldPoll

NoApi     == [members |-> {}, session |-> FALSE, latest |-> "none", approval |-> "no"]
Fresh     == [address |-> None, prompts |-> 0, minting |-> None, identity |-> None,
              members |-> {}]
NotLinking == [at |-> "none", kind |-> None, wallet |-> None]
NoPoll    == [status |-> "none", ref |-> FALSE, running |-> 0]

IdentityTypeOK ==
    /\ CallTypeOK
    /\ group \in [Wallets -> Commitments \cup {None}]
    /\ proofOf \in [Commitments -> Wallets \cup {None}]
    /\ api \in [members : SUBSET Wallets, session : BOOLEAN,
                latest : Rows, approval : {"no", "recorded", "bound"}]
    /\ wizard.address \in Wallets \cup {None} /\ wizard.prompts \in 0..MaxConnects
    /\ wizard.minting \in Wallets \cup {None} /\ wizard.members \subseteq Wallets
    /\ wizard.identity \in Commitments \cup {None}
    /\ linking.at \in {"none", "call", "record", "members"}
    /\ verifying \in {"none", "session", "status"}
    /\ poll.status \in Statuses /\ poll.ref \in BOOLEAN
    /\ poll.running = IF poll.ref THEN 1 ELSE 0          \* no interval is lost sight of
    /\ answers \subseteq Statuses

IdentityInit ==
    /\ group = [w \in Wallets |-> None] /\ proofOf = [c \in Commitments |-> None]
    /\ api = NoApi
    /\ wizard = Fresh /\ linking = NotLinking /\ verifying = "none"
    /\ poll = NoPoll /\ answers = {}
-----------------------------------------------------------------------------
(* GET /kyc/status: the latest row of the commitment, verified when it is   *)
(* the approved one and was bound on chain.                                 *)
getKycStatus ==
    IF api.latest # "approved" THEN api.latest
    ELSE IF api.approval = "bound" THEN "verified" ELSE "open"

isLinked    == wizard.address # None /\ wizard.address \in wizard.members
kycVerified == poll.status = "verified"

stageDone == <<wizard.address # None, wizard.identity # None, isLinked, kycVerified>>

complete == \A i \in DOMAIN stageDone : stageDone[i]

(* The first stage that is not done is the active one.                      *)
stageState(i) ==
    LET done == stageDone IN
    IF \A j \in 1..i : done[j] THEN "done"
    ELSE IF \A j \in 1..(i - 1) : done[j] THEN "active"
    ELSE "locked"

(* The circle says how much is done and what is next, the trail ticks the    *)
(* stages, the list at the foot names the wallets linked.                   *)
RadialStatus  == [line |-> IF complete THEN "fully verified" ELSE "next",
                  done |-> {i \in DOMAIN stageDone : stageDone[i]}]
TrailDone(i)  == stageState(i) = "done"
LinkedWallets == wizard.members

statusTone(status) ==
    CASE status = "verified" -> "Verified and bound on-chain"
      [] status = "open"     -> "in progress"
      [] OTHER               -> "start a session"

(* The buttons each stage's card offers.                                    *)
ConnectOffered == stageState(1) = "active"
CreateOffered  == stageState(2) = "active" /\ wizard.minting = None
LinkOffered    == stageState(3) = "active" /\ linking = NotLinking
LeaveOffered   == stageState(3) = "done" /\ linking = NotLinking
VerifyOffered  == stageState(4) = "active" /\ verifying = "none"
StatusOffered  == stageState(4) = "active"
-----------------------------------------------------------------------------
(* The button stays while a prompt is open: it opens another.               *)
ConnectWallet ==
    /\ ConnectOffered /\ wizard.prompts < MaxConnects
    /\ wizard' = [wizard EXCEPT !.prompts = @ + 1]
    /\ UNCHANGED <<group, proofOf, api, linking, verifying, poll, answers, callVars>>

PromptSettles ==
    /\ wizard.prompts > 0
    /\ \E a \in ConnectAddresses :
         wizard' = [wizard EXCEPT !.prompts = @ - 1, !.address = IF a = None THEN @ ELSE a]
    /\ UNCHANGED <<group, proofOf, api, linking, verifying, poll, answers, callVars>>

(* generate(): the proof is for the wallet connected at the click.          *)
Generate ==
    /\ CreateOffered
    /\ wizard' = [wizard EXCEPT !.minting = wizard.address]
    /\ UNCHANGED <<group, proofOf, api, linking, verifying, poll, answers, callVars>>

(* proveIdentity: a new secret, its commitment, a proof bound to the wallet. *)
(* The effects on the commitment ask the API about it, which has nothing yet:*)
(* the answer shows no member and never starts the interval.                *)
ProveIdentity ==
    /\ wizard.minting # None
    /\ \/ \E c \in Commitments :
            /\ proofOf[c] = None
            /\ proofOf' = [proofOf EXCEPT ![c] = wizard.minting]
            /\ wizard' = [wizard EXCEPT !.minting = None, !.identity = c]
            /\ answers' = answers \cup {getKycStatus}
       \/ /\ wizard' = [wizard EXCEPT !.minting = None]       \* assets or prover fail
          /\ UNCHANGED <<proofOf, answers>>
    /\ UNCHANGED <<group, api, linking, verifying, poll, callVars>>
-----------------------------------------------------------------------------
(* The effect's getGroupMembers, or the button's, with the list as it is      *)
(* when the answer is handled.                                              *)
RefreshMembers ==
    /\ wizard.identity # None
    /\ wizard' = [wizard EXCEPT !.members = api.members]
    /\ UNCHANGED <<group, proofOf, api, linking, verifying, poll, answers, callVars>>

Link_RecordsFirst ==            \* mutant: the API is told before the transaction
    /\ LinkOffered
    /\ linking' = [NotLinking EXCEPT !.at = "call", !.kind = "link", !.wallet = wizard.address]
    /\ invokeContractCall("register_wallet", wizard.address, wizard.identity)
    /\ api' = [api EXCEPT !.members = @ \cup {wizard.address}]
    /\ UNCHANGED <<group, proofOf, wizard, verifying, poll, answers, txs, seqno>>

(* link() and leave(), with the wallet of the click.                        *)
Link ==
    /\ LinkOffered
    /\ linking' = [NotLinking EXCEPT !.at = "call", !.kind = "link", !.wallet = wizard.address]
    /\ invokeContractCall("register_wallet", wizard.address, wizard.identity)
    /\ UNCHANGED <<group, proofOf, api, wizard, verifying, poll, answers, txs, seqno>>

Leave ==
    /\ LeaveOffered
    /\ linking' = [NotLinking EXCEPT !.at = "call", !.kind = "leave", !.wallet = wizard.address]
    /\ invokeContractCall("leave_group", wizard.address, None)
    /\ UNCHANGED <<group, proofOf, api, wizard, verifying, poll, answers, txs, seqno>>

(* The membership is recorded and the list read again, or the list only.    *)
CallEnds ==
    /\ linking.at = "call"
    /\ \/ /\ call.stage = "returned" /\ linking.kind = "link"
          /\ linking' = [linking EXCEPT !.at = "record"]
       \/ /\ call.stage = "returned" /\ linking.kind = "leave"
          /\ linking' = [linking EXCEPT !.at = "members"]
       \/ /\ call.stage = "thrown"
          /\ linking' = NotLinking
    /\ call' = NoCall
    /\ UNCHANGED <<group, proofOf, api, wizard, verifying, poll, answers, txs, seqno>>

(* recordMembership: recorded and answered, recorded and the answer lost,   *)
(* or not recorded; without an answer the list is not read again.           *)
RecordMembership ==
    LET recorded == [api EXCEPT !.members = @ \cup {linking.wallet}] IN
    /\ linking.at = "record"
    /\ \/ api' = recorded /\ linking' = [linking EXCEPT !.at = "members"]
       \/ ApiFails /\ api' \in {api, recorded} /\ linking' = NotLinking
    /\ UNCHANGED <<group, proofOf, wizard, verifying, poll, answers, callVars>>

(* refreshLinkedWallets, which shows its own failure.                       *)
LinkingEnds ==
    /\ linking.at = "members"
    /\ linking' = NotLinking
    /\ \/ wizard' = [wizard EXCEPT !.members = api.members]
       \/ ApiFails /\ UNCHANGED wizard
    /\ UNCHANGED <<group, proofOf, api, verifying, poll, answers, callVars>>
-----------------------------------------------------------------------------
stopPolling_KeepsTimer(p) ==    \* mutant: the reference is cleared, the timer is not
    [p EXCEPT !.ref = FALSE]

stopPolling(p) ==
    [p EXCEPT !.running = IF p.ref THEN @ - 1 ELSE @, !.ref = FALSE]

startPolling_Leaks(p) ==        \* mutant: an interval that runs is not cleared
    [p EXCEPT !.running = @ + 1, !.ref = TRUE]

startPolling(p) ==
    [p EXCEPT !.running = IF p.ref THEN @ ELSE @ + 1, !.ref = TRUE]

refreshOnce(p, status) ==
    IF status \in Resolved THEN stopPolling([p EXCEPT !.status = status])
    ELSE [p EXCEPT !.status = status]

RefreshFails(p) == stopPolling(p)

(* startVerification: the session, which leaves no row behind, then one      *)
(* read, then the interval whatever the read said.                          *)
StartVerification ==
    /\ VerifyOffered
    /\ verifying' = "session"
    /\ UNCHANGED <<group, proofOf, api, wizard, linking, poll, answers, callVars>>

CreateKycSession ==
    LET created == [api EXCEPT !.session = TRUE] IN
    /\ verifying = "session"
    /\ \/ api' = created /\ verifying' = "status"
       \/ ApiFails /\ api' \in {api, created} /\ verifying' = "none"
    /\ UNCHANGED <<group, proofOf, wizard, linking, poll, answers, callVars>>

VerificationStarts ==
    /\ verifying = "status"
    /\ verifying' = "none"
    /\ \/ poll' = startPolling(refreshOnce(poll, getKycStatus))
       \/ ApiFails /\ poll' = startPolling(RefreshFails(poll))
    /\ UNCHANGED <<group, proofOf, api, wizard, linking, answers, callVars>>

AskStatus ==
    /\ Cardinality(answers) < MaxAnswers
    /\ answers' = answers \cup {getKycStatus}
    /\ UNCHANGED <<group, proofOf, api, wizard, linking, verifying, poll, callVars>>

(* Every four seconds, whether or not the last answer is back; and refresh().*)
Tick    == poll.running > 0 /\ AskStatus
Refresh == StatusOffered /\ AskStatus

(* Answers come in any order.                                               *)
StatusArrives ==
    /\ \E s \in answers :
         /\ answers' = answers \ {s}
         /\ \/ poll' = refreshOnce(poll, s)
            \/ ApiFails /\ poll' = RefreshFails(poll)
    /\ UNCHANGED <<group, proofOf, api, wizard, linking, verifying, callVars>>
-----------------------------------------------------------------------------
(* The webhook inserts a row for every event of a session; the nullifier of  *)
(* a human goes into one row, which the bind completes, latest or not.      *)
Webhook ==
    /\ api.session
    /\ \/ \E event \in {"open", "none"} : api' = [api EXCEPT !.latest = event]
       \/ /\ api.approval = "no"
          /\ api' = [api EXCEPT !.latest = "approved", !.approval = "recorded"]
    /\ UNCHANGED <<group, proofOf, idPageVars, callVars>>

Bind ==
    /\ api.approval = "recorded"
    /\ api' = [api EXCEPT !.approval = "bound"]
    /\ UNCHANGED <<group, proofOf, idPageVars, callVars>>

(* WalletIdentity, with an identity verification key: the proof is of this   *)
(* commitment and for this wallet, and a wallet is in one group at most.    *)
(* The page proves for the wallet it mints with and for no other, so a      *)
(* registration of another one is refused.                                  *)
RegistryAccepts(t) ==
    \/ /\ txs[t].method = "register_wallet" /\ group[txs[t].source] = None
       /\ proofOf[txs[t].arg] = txs[t].source
    \/ txs[t].method = "leave_group" /\ group[txs[t].source] # None

RegistryMethods == {"register_wallet", "leave_group"}

RegistryCloses(t) ==
    /\ Close(t, RegistryAccepts(t))
    /\ group' = IF txs'[t].status # "success" THEN group
                ELSE [group EXCEPT ![txs[t].source] = txs[t].arg]

IdentityCall ==
    /\ CallStep(call.stage = "prepare" => RegistryAccepts(call.tx)) \/ SignCall
    /\ UNCHANGED <<group, proofOf, api, idPageVars>>

(* Leaving or reloading the page ends the timers and the continuations and   *)
(* forgets the identity: its proof and secret are nowhere else, and the API  *)
(* is not asked about it again.                                             *)
LeaveIdentityPage ==
    /\ wizard' = Fresh /\ linking' = NotLinking /\ verifying' = "none"
    /\ poll' = NoPoll /\ answers' = {} /\ api' = NoApi

PollStep == Tick \/ StatusArrives

IdentityStep ==
    \/ ConnectWallet \/ PromptSettles \/ Generate \/ ProveIdentity
    \/ RefreshMembers
    \/ Link \/ Leave \/ CallEnds \/ RecordMembership \/ LinkingEnds
    \/ StartVerification \/ CreateKycSession \/ VerificationStarts
    \/ Refresh \/ PollStep
    \/ Webhook \/ Bind
    \/ IdentityCall
-----------------------------------------------------------------------------
Registered(w, c) ==
    \E t \in TxIds : Landed(t) /\ txs[t].method = "register_wallet"
                              /\ txs[t].source = w /\ txs[t].arg = c

(* The registry has w in the group of c, or w has left it since it joined.   *)
Left(t) ==
    \E o \in TxIds : /\ Landed(o) /\ txs[o].method = "leave_group"
                     /\ txs[o].source = txs[t].source /\ txs[o].seq > txs[t].seq

Joined(w, c) ==
    \E t \in TxIds : /\ Landed(t) /\ txs[t].method = "register_wallet"
                     /\ txs[t].source = w /\ txs[t].arg = c
                     /\ group[w] = c \/ Left(t)

(* "Your identity is fully verified" and "Verified and bound on-chain" need  *)
(* a bind on chain, however answers are ordered.  A ticked Link, a wallet in *)
(* the list and a verification session need a registration under this       *)
(* identity that landed, and that still stands unless the wallet has left   *)
(* the group itself: leaving takes neither the tick nor the wallet off the  *)
(* list, which is therefore not one of members "currently linked"           *)
(* (lib/identity.ts:46).                                                    *)
VerifiedIsEarned ==
    /\ RadialStatus.line = "fully verified" =>
           RadialStatus.done = DOMAIN stageDone /\ api.approval = "bound"
    /\ statusTone(poll.status) = "Verified and bound on-chain" => api.approval = "bound"
    /\ TrailDone(3) => Joined(wizard.address, wizard.identity)
    /\ \A w \in LinkedWallets : Joined(w, wizard.identity)
    /\ api.session => \E w \in Wallets : Joined(w, wizard.identity)

(* No interval outlives what it waits for: as long as the API's answer is    *)
(* final the page stops asking, however many were started, and though an    *)
(* older answer, of when it was not final, may come after a newer one.      *)
PollingEnds ==
    poll.running > 0 /\ getKycStatus \in Resolved
        ~> poll.running = 0 \/ getKycStatus \notin Resolved
=============================================================================
