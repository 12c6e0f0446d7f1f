---------------------------- MODULE ContractCalls ----------------------------
(***************************************************************************)
(* How a page changes the chain (frontend/src/lib/contracts/rpc.ts):        *)
(* invokeContractCall loads the account, simulates, has Freighter sign,     *)
(* sends and polls; submitCosignedAttestation starts at the signature with  *)
(* the transaction the API built.  A page makes one such call at a time.    *)
(* The network keeps what was sent after the page gave up on it.            *)
(***************************************************************************)
EXTENDS Freighter

CONSTANTS
    MaxTxs          \* bound: the transactions built while we watch

VARIABLES
    call,           \* the call in progress: where it is, what it throws
    txs,            \* every transaction built, with what became of it
    seqno           \* of each wallet: the sequence number of its account

callVars == <<call, txs, seqno>>

TxIds      == 1..MaxTxs
CallStages == {"idle", "account", "prepare", "sign", "send", "poll", "returned", "thrown"}
Methods    == {"attest_with_risc0", "execute_loan", "register_wallet", "leave_group"}

ASSUME NoneIsNoCall == MaxTxs \in Nat /\ None \notin 0..MaxTxs /\ None \notin Methods

(* Who knows the transaction: only the page ("built"), the network, or the  *)
(* ledger; of one that expired in the network's queue only the page knows.  *)
TxStatus   == {"none", "built", "pending", "success", "failed"}

NoTx   == [source |-> None, seq |-> 0, method |-> None, arg |-> None, status |-> "none"]
NoCall == [stage |-> "idle", method |-> None, by |-> None, arg |-> None, tx |-> None,
           error |-> NoError]

CallTypeOK ==
    /\ call.stage \in CallStages /\ call.method \in Methods \cup {None}
    /\ call.by \in Wallets \cup {None} /\ call.tx \in TxIds \cup {None}
    /\ \A t \in TxIds : /\ txs[t].status \in TxStatus
                        /\ txs[t].source \in Wallets \cup {None}
                        /\ txs[t].seq \in 0..Cardinality(TxIds)
    /\ seqno \in [Wallets -> 0..Cardinality(TxIds)]

CallInit ==
    /\ call = NoCall
    /\ txs = [t \in TxIds |-> NoTx]
    /\ seqno = [w \in Wallets |-> 0]

NextTx(t)   == txs[t] = NoTx /\ \A o \in 1..(t - 1) : txs[o] # NoTx
Landed(t)   == txs[t].status = "success"
CanBuild    == \E t \in TxIds : NextTx(t)     \* bound: else nothing new is asked for

makeRpcError(kind) == [class |-> "Error", kind |-> kind]

Throw(e) == call' = [call EXCEPT !.stage = "thrown", !.error = e]

(* The transaction takes the account's next number, read when it is built.  *)
Build(t, w, method, arg) ==
    txs' = [txs EXCEPT ![t] = [source |-> w, seq |-> seqno[w] + 1, method |-> method,
                               arg |-> arg, status |-> "built"]]
-----------------------------------------------------------------------------
(* A page calls executeLoan, registerWallet or leaveGroup ...               *)
invokeContractCall(method, w, arg) ==
    /\ CanBuild
    /\ call' = [NoCall EXCEPT !.stage = "account", !.method = method, !.by = w, !.arg = arg]

(* ... or has a co-signed transaction t to finish.                          *)
submitCosignedAttestation(t, w) ==
    call' = [NoCall EXCEPT !.stage = "sign", !.method = "attest_with_risc0", !.by = w, !.tx = t]

GetAccount ==
    /\ call.stage = "account"
    /\ \/ \E t \in TxIds :
            /\ NextTx(t)
            /\ Build(t, call.by, call.method, call.arg)
            /\ call' = [call EXCEPT !.stage = "prepare", !.tx = t]
       \/ Throw(makeRpcError("source_account_unavailable")) /\ UNCHANGED txs
    /\ UNCHANGED seqno

(* prepareTransaction simulates: what the contract refuses now (accepted is *)
(* its answer) is never signed.                                             *)
PrepareTransaction(accepted) ==
    /\ call.stage = "prepare"
    /\ \/ accepted /\ call' = [call EXCEPT !.stage = "sign"]
       \/ Throw(PlainError)
    /\ UNCHANGED <<txs, seqno>>

SignCall ==
    /\ call.stage = "sign"
    /\ \E e \in SignErrors :
         IF e = NoError THEN call' = [call EXCEPT !.stage = "send"] ELSE Throw(e)
    /\ UNCHANGED <<txs, seqno>>

(* The network takes the next number of an account, one transaction at a   *)
(* time; it answers ERROR for another number, a late or an unpaid one, and  *)
(* TRY_AGAIN_LATER, which the code takes for sent, while one is waiting.    *)
Send ==
    LET t == call.tx
        next == txs[t].seq = seqno[txs[t].source] + 1
        busy == \E o \in TxIds : txs[o].source = txs[t].source /\ txs[o].status = "pending"
    IN
    /\ call.stage = "send"
    /\ \/ /\ next /\ ~busy                          \* PENDING
          /\ txs' = [txs EXCEPT ![t].status = "pending"]
          /\ call' = [call EXCEPT !.stage = "poll"]
       \/ /\ next /\ busy                           \* TRY_AGAIN_LATER
          /\ call' = [call EXCEPT !.stage = "poll"]
          /\ UNCHANGED txs
       \/ /\ \E k \in {"submit_failed", "source_account_unavailable"} : Throw(makeRpcError(k))
          /\ UNCHANGED txs
       \/ /\ Throw(PlainError)                      \* the request, or its answer, is lost
          /\ \/ UNCHANGED txs
             \/ next /\ ~busy /\ txs' = [txs EXCEPT ![t].status = "pending"]
    /\ UNCHANGED seqno

PollCall_MissingIsFailed ==     \* mutant: only SUCCESS is told apart
    /\ call.stage = "poll"
    /\ \/ Landed(call.tx) /\ call' = [call EXCEPT !.stage = "returned"]
       \/ ~Landed(call.tx) /\ Throw(makeRpcError("chain_failed"))
    /\ UNCHANGED <<txs, seqno>>

PollCall_MissingIsDone ==       \* mutant: only FAILED is told apart
    /\ call.stage = "poll"
    /\ \/ txs[call.tx].status # "failed" /\ call' = [call EXCEPT !.stage = "returned"]
       \/ txs[call.tx].status = "failed" /\ Throw(makeRpcError("chain_failed"))
    /\ UNCHANGED <<txs, seqno>>

PollCall_NoDeadline ==          \* mutant: while (status === NOT_FOUND) sleep
    /\ call.stage = "poll"
    /\ \/ Landed(call.tx) /\ call' = [call EXCEPT !.stage = "returned"]
       \/ txs[call.tx].status = "failed" /\ Throw(makeRpcError("chain_failed"))
    /\ UNCHANGED <<txs, seqno>>

(* getTransaction until found or POLL_TIMEOUT_MS have passed, which is less *)
(* than the transaction has to land (60 s, 300 s for a co-signed one).      *)
PollCall ==
    LET status == txs[call.tx].status IN
    /\ call.stage = "poll"
    /\ \/ status = "success" /\ call' = [call EXCEPT !.stage = "returned"]
       \/ status = "failed" /\ Throw(makeRpcError("chain_failed"))
       \/ /\ status \notin {"success", "failed"}
          /\ call' = call \/ Throw(makeRpcError("submit_timeout"))
       \/ Throw(PlainError)
    /\ UNCHANGED <<txs, seqno>>

\* The ledger closes over t; only an accepted call can succeed.
Close(t, accepted) ==
    /\ txs[t].status = "pending"
    /\ \E result \in {"failed"} \cup (IF accepted THEN {"success"} ELSE {}) :
         txs' = [txs EXCEPT ![t].status = result]
    /\ seqno' = [seqno EXCEPT ![txs[t].source] = txs[t].seq]
    /\ UNCHANGED call

Expire(t) ==
    /\ txs[t].status = "pending"
    /\ txs' = [txs EXCEPT ![t].status = "built"]
    /\ UNCHANGED <<call, seqno>>

\* The page asks, and the network or the extension answers; a prompt may
\* stay open for ever.
CallStep(accepted) == GetAccount \/ PrepareTransaction(accepted) \/ Send \/ PollCall
-----------------------------------------------------------------------------
(* What the page is told of a failure it may act on: unless the call timed  *)
(* out or a request was lost, the transaction it failed with did not land   *)
(* and never will, so asking again cannot do the thing twice.               *)
KnownFailureStaysOut ==
    (call.stage = "thrown" /\ call.tx # None /\ call.error.kind \notin {"submit_timeout", None})
        => txs[call.tx].status \notin {"pending", "success"}
=============================================================================
