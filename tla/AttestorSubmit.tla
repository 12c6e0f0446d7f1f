--------------------------- MODULE AttestorSubmit ---------------------------
(***************************************************************************)
(* contracts/bindings/python/zkredit_contracts/submit_attestation.py: the  *)
(* writes the attestor service sends alone (bind_kyc, update_group_score). *)
(* Each runs in a worker thread: load the account, simulate, sign, send,   *)
(* poll until a deadline, return the hash or raise.  All calls share the   *)
(* one attestor account, so one sequence number, with no lock.             *)
(*                                                                         *)
(* The network is external: it accepts a transaction only with the next    *)
(* sequence number of its source, applies it once or drops it, and may     *)
(* lose any answer.                                                        *)
(***************************************************************************)
EXTENDS Naturals

CONSTANT Calls      \* the submissions made

VARIABLES
    accountSeq,     \* the attestor account's sequence number on the ledger
    call            \* of each submission: where its thread is, its transaction

submitVars == <<accountSeq, call>>

Stages    == {"idle", "loaded", "prepared", "sent", "returned", "raised"}
TxStates  == {"none", "pending", "success", "failed", "dropped"}

SubmitTypeOK ==
    /\ accountSeq \in Nat
    /\ call \in [Calls -> [stage : Stages, seq : Nat, tx : TxStates]]

SubmitInit ==
    /\ accountSeq = 0
    /\ call = [k \in Calls |-> [stage |-> "idle", seq |-> 0, tx |-> "none"]]

Ended(k) == call[k].stage \in {"returned", "raised"}

(* server.load_account, then build: the sequence number is fixed here.     *)
LoadAccount(k) ==
    /\ call[k].stage = "idle"
    /\ call' = [call EXCEPT ![k].stage = "loaded", ![k].seq = accountSeq + 1]
    /\ UNCHANGED accountSeq

(* server.prepare_transaction simulates the contract call and raises when  *)
(* the contract would refuse it.                                           *)
Prepare(k, accepted) ==
    /\ call[k].stage = "loaded"
    /\ call' = [call EXCEPT ![k].stage = IF accepted THEN "prepared" ELSE "raised"]
    /\ UNCHANGED accountSeq

(* server.send_transaction: anything but PENDING raises.                   *)
SendAccepted(k) ==
    /\ call[k].seq = accountSeq + 1
    /\ \A j \in Calls : call[j].tx # "pending"

Send(k) ==
    /\ call[k].stage = "prepared"
    /\ call' = IF SendAccepted(k)
               THEN [call EXCEPT ![k].stage = "sent", ![k].tx = "pending"]
               ELSE [call EXCEPT ![k].stage = "raised"]
    /\ UNCHANGED accountSeq

(* A request that fails raises: before the transaction was sent, or after  *)
(* the network took it and its answer was lost.                            *)
RpcFails(k) ==
    /\ call[k].stage \in {"idle", "loaded", "prepared", "sent"}
    /\ \/ call' = [call EXCEPT ![k].stage = "raised"]
       \/ /\ call[k].stage = "prepared" /\ SendAccepted(k)
          /\ call' = [call EXCEPT ![k].stage = "raised", ![k].tx = "pending"]
    /\ UNCHANGED accountSeq

(* The ledger: a pending transaction is applied, succeeding when the       *)
(* contract accepts the call then, or never makes it into a ledger.        *)
Applied(k, accepted) ==
    /\ call[k].tx = "pending"
    /\ call' = [call EXCEPT ![k].tx = IF accepted THEN "success" ELSE "failed"]
    /\ accountSeq' = call[k].seq

Drop(k) ==
    /\ call[k].tx = "pending"
    /\ call' = [call EXCEPT ![k].tx = "dropped"]
    /\ UNCHANGED accountSeq

PollTx_NoDeadline(k) ==         \* mutant: polls while the status is NOT_FOUND
    /\ call[k].stage = "sent"
    /\ call[k].tx \in {"success", "failed"}
    /\ call' = [call EXCEPT ![k].stage =
                    IF call[k].tx = "success" THEN "returned" ELSE "raised"]
    /\ UNCHANGED accountSeq

PollTx_TrustsDeadline(k) ==     \* mutant: only FAILED raises
    /\ call[k].stage = "sent"
    /\ call' = [call EXCEPT ![k].stage =
                    IF call[k].tx = "failed" THEN "raised" ELSE "returned"]
    /\ UNCHANGED accountSeq

(* get_transaction until it is no longer NOT_FOUND or the deadline passes: *)
(* a transaction that is still pending then may yet be applied.            *)
PollTx(k) ==
    /\ call[k].stage = "sent"
    /\ call' = [call EXCEPT ![k].stage =
                    IF call[k].tx = "success" THEN "returned" ELSE "raised"]
    /\ UNCHANGED accountSeq
=============================================================================
