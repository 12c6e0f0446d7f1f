---------------------------- MODULE KycFlowProofs ----------------------------
(***************************************************************************)
(* Proofs about KycFlow for any deliveries, commitments, nullifiers and    *)
(* number of restarts.  The inductive invariant follows an approval from   *)
(* its row to the ledger: no submission without the row that took the      *)
(* nullifier, no binding without a submission, no hash returned without a  *)
(* binding, no bind_tx_hash without a hash returned.  Every step of the    *)
(* flow is also one of WalletIdentity's, whose invariant is used as it is. *)
(***************************************************************************)
EXTENDS KycFlow, WalletIdentityProofs, SequenceTheorems, WellFoundedInduction

Row ==
    [commitment : Commitments, nullifier : Nullifiers \cup {None},
     status : Statuses, bind_tx : BOOLEAN, created_at : Nat]

\* 1. A submission has no transaction before it is sent, and returns only
\*    for one that succeeded.
SubmitInv ==
    /\ SubmitTypeOK
    /\ \A k \in Calls :
           /\ call[k].stage \in {"idle", "loaded", "prepared"} => call[k].tx = "none"
           /\ call[k].stage = "returned" => call[k].tx = "success"

\* The row an approved delivery was recorded in.
RowFor(d) ==
    \E i \in DOMAIN kycRows :
        /\ kycRows[i].nullifier = Event[d].nullifier
        /\ kycRows[i].commitment = Event[d].commitment

\* 2. A nullifier is in one row at most, and no row is dated ahead of the clock.
RowsInv ==
    /\ kycRows \in Seq(Row)
    /\ \A i, j \in DOMAIN kycRows :
           kycRows[i].nullifier # None /\ kycRows[j].nullifier = kycRows[i].nullifier => i = j
    /\ \A i \in DOMAIN kycRows : kycRows[i].created_at <= txnClock
    /\ \A d \in Deliveries : hook[d].created <= txnClock

\* 3. Only an approval with a document is inserted, and only a recorded one
\*    is ever submitted.
HooksInv ==
    \A d \in Deliveries :
        /\ hook[d].stage = "selected" => NeedsBind(d)
        /\ hook[d].stage = "recorded" \/ call[d].stage # "idle" => NeedsBind(d) /\ RowFor(d)

\* 4. What is bound is recorded; what succeeded, or has a hash, is bound.
BoundInv ==
    /\ \A n \in Nullifiers : nullifierCommitment[n] # None =>
           \E i \in DOMAIN kycRows :
               /\ kycRows[i].nullifier = n
               /\ kycRows[i].commitment = nullifierCommitment[n]
    /\ \A d \in Deliveries : call[d].tx = "success" =>
           nullifierCommitment[Event[d].nullifier] = Event[d].commitment
    /\ \A i \in DOMAIN kycRows : kycRows[i].bind_tx =>
           /\ kycRows[i].nullifier # None
           /\ nullifierCommitment[kycRows[i].nullifier] = kycRows[i].commitment

KycInv ==
    /\ IdentityInv /\ SubmitInv /\ KycDbTypeOK
    /\ RowsInv /\ HooksInv /\ BoundInv
-----------------------------------------------------------------------------
(* Any set of naturals with a bound has a greatest element: the least of    *)
(* its distances to the bound is at it.                                     *)
LEMMA BoundedSetHasMax ==
    ASSUME NEW S \in SUBSET Nat, S # {}, NEW b \in Nat, \A x \in S : x <= b
    PROVE  \E m \in S : \A x \in S : x <= m
<1> DEFINE D == {b - x : x \in S}
<1>1. D \subseteq Nat /\ D # {}
  <2>1. PICK x \in S : TRUE
    OBVIOUS
  <2>2. b - x \in D
    OBVIOUS
  <2>3. ASSUME NEW y \in D PROVE y \in Nat
    <3>1. PICK z \in S : y = b - z
      BY <2>3
    <3>2. z \in Nat /\ z <= b
      OBVIOUS
    <3>3. QED
      BY <3>1, <3>2
  <2>4. QED
    BY <2>2, <2>3
<1>2. PICK k \in D : \A y \in D : ~ (<<y, k>> \in OpToRel(<, Nat))
  BY <1>1, NatLessThanWellFounded, WFMin
<1>3. \A y \in D : ~(y < k)
  BY <1>1, <1>2 DEF OpToRel
<1>4. PICK m \in S : k = b - m
  BY <1>2
<1>5. ASSUME NEW x \in S PROVE x <= m
  <2>1. b - x \in D /\ b - x \in Nat /\ k \in Nat
    BY <1>1, <1>2
  <2>2. ~(b - x < b - m)
    BY <1>3, <1>4, <2>1
  <2>3. x \in Nat /\ m \in Nat /\ b \in Nat
    OBVIOUS
  <2> HIDE DEF D
  <2>4. QED
    BY ONLY <2>2, <2>3
<1>6. QED
  BY <1>5

-----------------------------------------------------------------------------
(* A thread moves from one step of its submission to another.               *)
LEMMA ThreadMoves ==
    ASSUME SubmitInv, NEW k \in Calls, NEW s \in Stages, NEW q \in Nat,
           call' = [call EXCEPT ![k].stage = s, ![k].seq = q], UNCHANGED accountSeq,
           s \in {"idle", "loaded", "prepared"} => call[k].tx = "none",
           s = "returned" => call[k].tx = "success"
    PROVE  /\ SubmitInv'
           /\ call'[k].stage = s /\ call'[k].tx = call[k].tx
           /\ \A j \in Calls : j # k => call'[j] = call[j]
<1> DEFINE R == [stage : Stages, seq : Nat, tx : TxStates]
           r == [call[k] EXCEPT !.stage = s, !.seq = q]
<1>1. call \in [Calls -> R]
  BY DEF SubmitInv, SubmitTypeOK
<1>2. r \in R /\ r.stage = s /\ r.tx = call[k].tx
  BY <1>1
<1>3. call' = [call EXCEPT ![k] = r]
  BY <1>1
<1> HIDE DEF R, r
<1>4. /\ call' \in [Calls -> R] /\ call'[k] = r
      /\ \A j \in Calls : j # k => call'[j] = call[j]
  BY ONLY <1>1, <1>2, <1>3, k \in Calls
<1>5. SubmitTypeOK'
  BY <1>4 DEF SubmitInv, SubmitTypeOK, R
<1>6. QED
  BY <1>2, <1>4, <1>5 DEF SubmitInv

(* Sending makes its transaction pending, answered or not.                  *)
LEMMA TxMoves ==
    ASSUME SubmitInv, NEW k \in Calls, NEW s \in {"sent", "raised"}, NEW x \in TxStates,
           call' = [call EXCEPT ![k].stage = s, ![k].tx = x], UNCHANGED accountSeq
    PROVE  /\ SubmitInv'
           /\ call'[k].stage = s /\ call'[k].tx = x
           /\ \A j \in Calls : j # k => call'[j] = call[j]
<1> DEFINE R == [stage : Stages, seq : Nat, tx : TxStates]
           r == [call[k] EXCEPT !.stage = s, !.tx = x]
<1>1. call \in [Calls -> R]
  BY DEF SubmitInv, SubmitTypeOK
<1>2. r \in R /\ r.stage = s /\ r.tx = x
  BY <1>1 DEF Stages
<1>3. call' = [call EXCEPT ![k] = r]
  BY <1>1
<1> HIDE DEF R, r
<1>4. /\ call' \in [Calls -> R] /\ call'[k] = r
      /\ \A j \in Calls : j # k => call'[j] = call[j]
  BY ONLY <1>1, <1>2, <1>3, k \in Calls
<1>5. SubmitTypeOK'
  BY <1>4 DEF SubmitInv, SubmitTypeOK, R
<1>6. QED
  BY <1>2, <1>4, <1>5 DEF SubmitInv

(* What a step of a thread leaves: a call begun stays begun, and only the   *)
(* ledger decides that a transaction succeeded.                             *)
LEMMA ThreadStep ==
    ASSUME SubmitInv, NEW k \in Calls, NEW accepted,
           \/ LoadAccount(k) \/ Prepare(k, accepted) \/ Send(k) \/ PollTx(k)
           \/ RpcFails(k)
    PROVE  /\ SubmitInv'
           /\ call'[k].tx = "success" <=> call[k].tx = "success"
           /\ \A j \in Calls : j # k => call'[j] = call[j]
<1> USE DEF Stages
<1>0. call[k].seq \in Nat /\ accountSeq \in Nat /\ call \in [Calls -> [stage : Stages, seq : Nat, tx : TxStates]]
  BY DEF SubmitInv, SubmitTypeOK
<1>a. call[k].stage \in {"idle", "loaded", "prepared"} => call[k].tx = "none"
  BY DEF SubmitInv
<1>1. CASE LoadAccount(k)
  <2>1. /\ call' = [call EXCEPT ![k].stage = "loaded", ![k].seq = accountSeq + 1]
        /\ UNCHANGED accountSeq /\ call[k].tx = "none"
    BY <1>1, <1>a DEF LoadAccount
  <2>2. accountSeq + 1 \in Nat /\ "loaded" \in Stages
    BY <1>0
  <2>3. QED
    BY <2>1, <2>2, ThreadMoves
<1>2. ASSUME NEW s \in {"prepared", "returned", "raised"},
             call' = [call EXCEPT ![k].stage = s], UNCHANGED accountSeq,
             s = "prepared" => call[k].tx = "none",
             s = "returned" => call[k].tx = "success"
      PROVE  /\ SubmitInv'
             /\ call'[k].tx = "success" <=> call[k].tx = "success"
             /\ \A j \in Calls : j # k => call'[j] = call[j]
  <2>1. call' = [call EXCEPT ![k].stage = s, ![k].seq = call[k].seq]
    BY <1>0, <1>2
  <2>2. QED
    BY <1>0, <1>2, <2>1, ThreadMoves, ZenonT(60)
<1>3. CASE Prepare(k, accepted)
  <2>1. CASE accepted
    BY <1>2, <1>3, <1>a, <2>1 DEF Prepare
  <2>2. CASE ~accepted
    BY <1>2, <1>3, <2>2 DEF Prepare
  <2>3. QED
    BY <2>1, <2>2
<1>4. CASE Send(k)
  <2>1. CASE SendAccepted(k)
    BY <1>4, <1>a, <2>1, TxMoves DEF Send, TxStates
  <2>2. CASE ~SendAccepted(k)
    BY <1>2, <1>4, <2>2 DEF Send
  <2>3. QED
    BY <2>1, <2>2
<1>5. CASE PollTx(k)
  BY <1>2, <1>5 DEF PollTx
<1>6. CASE RpcFails(k)
  <2>1. CASE call' = [call EXCEPT ![k].stage = "raised"]
    BY <1>2, <1>6, <2>1 DEF RpcFails
  <2>2. CASE call[k].stage = "prepared"
             /\ call' = [call EXCEPT ![k].stage = "raised", ![k].tx = "pending"]
    BY <1>6, <1>a, <2>2, TxMoves DEF RpcFails, TxStates
  <2>3. QED
    BY <1>6, <2>1, <2>2 DEF RpcFails
<1>7. QED
  BY <1>1, <1>3, <1>4, <1>5, <1>6

(* The ledger settles a pending transaction.                                *)
LEMMA LedgerStep ==
    ASSUME SubmitInv, NEW k \in Calls, NEW x \in {"success", "failed", "dropped"},
           call[k].tx = "pending", call' = [call EXCEPT ![k].tx = x],
           accountSeq' \in {accountSeq, call[k].seq}
    PROVE  /\ SubmitInv'
           /\ call'[k].stage = call[k].stage /\ call'[k].tx = x
           /\ \A j \in Calls : j # k => call'[j] = call[j]
<1>0. /\ call \in [Calls -> [stage : Stages, seq : Nat, tx : TxStates]] /\ accountSeq' \in Nat
      /\ x \in TxStates
  BY DEF SubmitInv, SubmitTypeOK, TxStates
<1>1. /\ call' \in [Calls -> [stage : Stages, seq : Nat, tx : TxStates]]
      /\ call'[k].stage = call[k].stage /\ call'[k].tx = x
      /\ \A j \in Calls : j # k => call'[j] = call[j]
  BY <1>0
<1>2. call[k].stage \notin {"idle", "loaded", "prepared", "returned"}
  BY DEF SubmitInv
<1>3. QED
  BY <1>0, <1>1, <1>2 DEF SubmitInv, SubmitTypeOK

-----------------------------------------------------------------------------
(* The latest row of a commitment exists, and is a row of it: the newest    *)
(* date among its rows, and the last row of that date.                      *)
LEMMA LatestRowFound ==
    ASSUME RowsInv, txnClock \in Nat, NEW c \in Commitments,
           \E i \in DOMAIN kycRows : kycRows[i].commitment = c
    PROVE  LatestRow(c) \in DOMAIN kycRows /\ kycRows[LatestRow(c)].commitment = c
<1> DEFINE S == {i \in DOMAIN kycRows : kycRows[i].commitment = c}
           C == {kycRows[i].created_at : i \in S}
<1>0. /\ Len(kycRows) \in Nat /\ DOMAIN kycRows = 1..Len(kycRows)
      /\ \A i \in DOMAIN kycRows : kycRows[i] \in Row
      /\ \A i \in DOMAIN kycRows : kycRows[i].created_at <= txnClock
  <2>1. kycRows \in Seq(Row)
    BY DEF RowsInv
  <2>2. QED
    BY <2>1, LenProperties, ElementOfSeq DEF RowsInv
<1>1. \A i \in DOMAIN kycRows : kycRows[i].created_at \in Nat
  BY <1>0 DEF Row
<1>2. PICK m \in C : \A x \in C : x <= m
  <2>1. C \subseteq Nat /\ C # {} /\ \A x \in C : x <= txnClock
    BY <1>0, <1>1
  <2> HIDE DEF C
  <2>2. QED
    BY <2>1, BoundedSetHasMax
<1> DEFINE T == {i \in S : kycRows[i].created_at = m}
<1>3. PICK i \in T : \A j \in T : j <= i
  <2>1. T \subseteq Nat /\ T # {} /\ \A j \in T : j <= Len(kycRows)
    BY <1>0, <1>2
  <2> HIDE DEF T
  <2>2. QED
    BY <1>0, <2>1, BoundedSetHasMax
<1>4. ASSUME NEW j \in DOMAIN kycRows, kycRows[j].commitment = c
      PROVE  \/ kycRows[j].created_at < kycRows[i].created_at
             \/ kycRows[j].created_at = kycRows[i].created_at /\ j <= i
  <2>1. j \in S /\ kycRows[j].created_at \in C
    BY <1>4
  <2>2. kycRows[j].created_at <= m /\ m \in Nat /\ kycRows[j].created_at \in Nat
    BY <1>1, <1>2, <2>1
  <2>3. CASE kycRows[j].created_at = m
    BY <1>3, <2>1, <2>3
  <2>4. CASE kycRows[j].created_at # m
    BY <1>3, <2>2, <2>4
  <2>5. QED
    BY <2>3, <2>4
<1>5. i \in DOMAIN kycRows /\ kycRows[i].commitment = c
  BY <1>3
<1>6. QED
  BY <1>4, <1>5 DEF LatestRow

(* Inserting a row leaves the others at their ids.                          *)
LEMMA RowAppended ==
    ASSUME kycRows \in Seq(Row), NEW r \in Row, kycRows' = Append(kycRows, r)
    PROVE  /\ kycRows' \in Seq(Row)
           /\ \A i \in DOMAIN kycRows : i \in DOMAIN kycRows' /\ kycRows'[i] = kycRows[i]
           /\ \E k \in DOMAIN kycRows' :
                  /\ kycRows'[k] = r
                  /\ \A i \in DOMAIN kycRows' : i = k \/ i \in DOMAIN kycRows
<1> DEFINE n == Len(kycRows)
<1>1. n \in Nat /\ DOMAIN kycRows = 1..n
  BY LenProperties
<1>2. /\ kycRows' \in Seq(Row)
      /\ DOMAIN kycRows' = 1..(n + 1)
      /\ \A i \in 1..n : kycRows'[i] = kycRows[i]
      /\ kycRows'[n + 1] = r
  BY <1>1
<1>3. QED
  BY <1>1, <1>2

(* A step of one handler.                                                   *)
LEMMA HookMoves ==
    ASSUME KycDbTypeOK, NEW d \in Deliveries, NEW s \in HookStages,
           hook' = [hook EXCEPT ![d].stage = s]
    PROVE  /\ hook' \in [Deliveries -> [stage : HookStages, created : Nat]]
           /\ hook'[d].stage = s /\ hook'[d].created = hook[d].created
           /\ \A e \in Deliveries : e # d => hook'[e] = hook[e]
BY DEF KycDbTypeOK

(* Rows that stand keep what was recorded of a delivery.                    *)
LEMMA RowsStand ==
    ASSUME \A i \in DOMAIN kycRows :
               /\ i \in DOMAIN kycRows'
               /\ kycRows'[i].nullifier = kycRows[i].nullifier
               /\ kycRows'[i].commitment = kycRows[i].commitment,
           NEW d \in Deliveries, RowFor(d)
    PROVE  RowFor(d)'
BY DEF RowFor

-----------------------------------------------------------------------------
LEMMA InitEstablishesKycInv == KycFlowInit => KycInv
<1> SUFFICES ASSUME KycFlowInit PROVE KycInv
  OBVIOUS
<1> USE DEF KycFlowInit, GroupsInit, SubmitInit, KycDbInit
<1>1. IdentityInv
  <2>1. WITypeOK
    BY KycAssumption DEF WITypeOK, RegistryTypeOK
  <2>2. MemberCountExact
    <3>1. \A c \in Commitments : Members(c) = {}
      BY SharedAssumption DEF Members
    <3>2. QED
      BY <3>1, FS_EmptySet DEF MemberCountExact
  <2>3. ScoredGroupHasMember
    BY DEF ScoredGroupHasMember
  <2>4. KycFlagBacked
    BY SharedAssumption DEF KycFlagBacked
  <2>5. QED
    BY <2>1, <2>2, <2>3, <2>4 DEF IdentityInv
<1>2. SubmitInv
  BY DEF SubmitInv, SubmitTypeOK, Stages, TxStates
<1>3. KycDbTypeOK
  BY KycAssumption DEF KycDbTypeOK, HookStages
<1>4. RowsInv
  BY EmptySeq DEF RowsInv
<1>5. HooksInv
  BY KycAssumption DEF HooksInv
<1>6. BoundInv
  BY KycAssumption DEF BoundInv
<1>7. QED
  BY <1>1, <1>2, <1>3, <1>4, <1>5, <1>6 DEF KycInv

(* A row is inserted, dated no later than the clock, its nullifier new:     *)
(* every part of the invariant about rows and bindings stands.              *)
LEMMA InsertKeepsInv ==
    ASSUME KycInv, NEW r \in Row, kycRows' = Append(kycRows, r),
           ~r.bind_tx, r.nullifier # None => r.status = "approved" /\ ~HasNullifier(r.nullifier),
           r.created_at <= txnClock, txnClock' \in {txnClock, txnClock + 1},
           NEW d \in Deliveries, NEW s \in {"noted", "recorded"}, Goto(d, s),
           s = "recorded" => /\ NeedsBind(d) /\ r.nullifier = Event[d].nullifier
                             /\ r.commitment = Event[d].commitment,
           UNCHANGED <<attestor, wiVars, submitVars, crashes>>
    PROVE  KycInv'
<1> USE DEF KycInv
<1>0. UNCHANGED <<accountSeq, call, nullifierCommitment>>
  BY DEF submitVars, wiVars, kycVars
<1>1. IdentityInv'
  <2>1. UNCHANGED identityVars
    BY DEF identityVars
  <2>2. QED
    BY <2>1, NextInv
<1>2. SubmitInv'
  BY <1>0 DEF SubmitInv, SubmitTypeOK
<1>3. /\ hook' \in [Deliveries -> [stage : HookStages, created : Nat]]
      /\ hook'[d].stage = s /\ hook'[d].created = hook[d].created
      /\ \A e \in Deliveries : e # d => hook'[e] = hook[e]
  <2>1. s \in HookStages
    BY DEF HookStages
  <2>2. QED
    BY <2>1, HookMoves DEF Goto
<1>4. PICK k \in DOMAIN kycRows' :
          /\ kycRows'[k] = r
          /\ \A i \in DOMAIN kycRows' : i = k \/ i \in DOMAIN kycRows
  BY RowAppended DEF RowsInv
<1>5. /\ kycRows' \in Seq(Row)
      /\ \A i \in DOMAIN kycRows : i \in DOMAIN kycRows' /\ kycRows'[i] = kycRows[i]
  BY RowAppended DEF RowsInv
<1>6. txnClock \in Nat /\ txnClock' \in Nat /\ txnClock <= txnClock'
  BY DEF KycDbTypeOK
<1>7. KycDbTypeOK'
  <2>1. \A i \in DOMAIN kycRows' : kycRows'[i] \in Row
    BY <1>5, ElementOfSeq, LenProperties
  <2>2. \A i \in DOMAIN kycRows' : kycRows'[i].nullifier # None => kycRows'[i].status = "approved"
    BY <1>4, <1>5 DEF KycDbTypeOK
  <2>3. QED
    BY <1>3, <1>6, <2>1, <2>2 DEF KycDbTypeOK, Row
<1>8. RowsInv'
  <2>1. ASSUME NEW i \in DOMAIN kycRows', NEW j \in DOMAIN kycRows',
               kycRows'[i].nullifier # None, kycRows'[j].nullifier = kycRows'[i].nullifier
        PROVE  i = j
    <3>1. CASE i = k /\ j = k
      BY <3>1
    <3>2. CASE i = k /\ j # k
      BY <1>4, <1>5, <2>1, <3>2 DEF HasNullifier
    <3>3. CASE i # k /\ j = k
      BY <1>4, <1>5, <2>1, <3>3 DEF HasNullifier
    <3>4. CASE i # k /\ j # k
      BY <1>4, <1>5, <2>1, <3>4 DEF RowsInv
    <3>5. QED
      BY <3>1, <3>2, <3>3, <3>4
  <2>2. \A i \in DOMAIN kycRows' : kycRows'[i].created_at <= txnClock'
    <3>1. \A i \in DOMAIN kycRows : kycRows[i].created_at \in Nat
      BY DEF KycDbTypeOK
    <3>2. r.created_at \in Nat
      BY DEF Row
    <3>3. SUFFICES ASSUME NEW i \in DOMAIN kycRows' PROVE kycRows'[i].created_at <= txnClock'
      OBVIOUS
    <3>4. CASE i = k
      BY <1>4, <1>6, <3>2, <3>4
    <3>5. CASE i \in DOMAIN kycRows
      BY <1>5, <1>6, <3>1, <3>5 DEF RowsInv
    <3>6. QED
      BY <1>4, <3>4, <3>5
  <2>3. \A e \in Deliveries : hook'[e].created <= txnClock'
    <3>1. \A e \in Deliveries : hook'[e].created = hook[e].created /\ hook[e].created \in Nat
      BY <1>3 DEF KycDbTypeOK
    <3>2. QED
      BY <1>6, <3>1 DEF RowsInv
  <2>4. QED
    BY <1>5, <2>1, <2>2, <2>3 DEF RowsInv
<1>9. HooksInv'
  <2>1. s = "recorded" => RowFor(d)'
    BY <1>4 DEF RowFor
  <2>2. \A e \in Deliveries : RowFor(e) => RowFor(e)'
    BY <1>5, RowsStand
  <2>3. QED
    BY <1>0, <1>3, <2>1, <2>2 DEF HooksInv, NeedsBind
<1>10. BoundInv'
  <2>1. \A n \in Nullifiers : nullifierCommitment'[n] # None =>
           \E i \in DOMAIN kycRows' :
               /\ kycRows'[i].nullifier = n
               /\ kycRows'[i].commitment = nullifierCommitment'[n]
    BY <1>0, <1>5 DEF BoundInv
  <2>2. \A i \in DOMAIN kycRows' : kycRows'[i].bind_tx =>
           /\ kycRows'[i].nullifier # None
           /\ nullifierCommitment'[kycRows'[i].nullifier] = kycRows'[i].commitment
    <3>1. SUFFICES ASSUME NEW i \in DOMAIN kycRows', kycRows'[i].bind_tx
                   PROVE  /\ kycRows'[i].nullifier # None
                          /\ nullifierCommitment'[kycRows'[i].nullifier] = kycRows'[i].commitment
      OBVIOUS
    <3>2. i \in DOMAIN kycRows
      BY <1>4, <3>1, Zenon
    <3>3. kycRows'[i] = kycRows[i]
      BY <1>5, <3>2
    <3>4. kycRows[i].bind_tx
      BY <3>1, <3>3, Zenon
    <3>5. QED
      BY <1>0, <3>2, <3>3, <3>4 DEF BoundInv
  <2>3. QED
    BY <1>0, <2>1, <2>2 DEF BoundInv
<1>11. QED
  BY <1>1, <1>2, <1>7, <1>8, <1>9, <1>10

(* The rest of the service, which leaves the table, the handlers, their     *)
(* submissions and the nullifiers alone: the registry, other callers.       *)
LEMMA OthersKeepInv ==
    ASSUME KycInv, IdentityInv', SubmitInv', UNCHANGED <<kycDbVars, nullifierCommitment>>,
           \A d \in Deliveries : call'[d] = call[d]
    PROVE  KycInv'
<1> USE DEF KycInv, kycDbVars
<1>1. KycDbTypeOK'
  BY DEF KycDbTypeOK
<1>2. RowsInv'
  BY DEF RowsInv
<1>3. HooksInv'
  BY DEF HooksInv, RowFor, NeedsBind
<1>4. BoundInv'
  BY DEF BoundInv
<1>5. QED
  BY <1>1, <1>2, <1>3, <1>4

LEMMA RowOfTyped ==
    ASSUME NEW d \in Deliveries, NEW x \in Nat
    PROVE  /\ RowOf(d, x) \in Row /\ ~RowOf(d, x).bind_tx
           /\ RowOf(d, x).nullifier = Event[d].nullifier
           /\ RowOf(d, x).commitment = Event[d].commitment
           /\ RowOf(d, x).status = Event[d].status
           /\ RowOf(d, x).created_at = x
BY KycAssumption DEF RowOf, Row

LEMMA RecordOtherKeepsInv ==
    ASSUME KycInv, NEW d \in Deliveries, RecordOther(d), UNCHANGED attestor
    PROVE  KycInv'
<1> DEFINE r == [RowOf(d, txnClock) EXCEPT !.nullifier = None]
<1>1. txnClock \in Nat
  BY DEF KycInv, KycDbTypeOK
<1>2. r \in Row /\ ~r.bind_tx /\ r.nullifier = None /\ r.created_at = txnClock
  BY <1>1, KycAssumption DEF RowOf, Row
<1>3. /\ kycRows' = Append(kycRows, r) /\ txnClock' = txnClock + 1 /\ Goto(d, "noted")
      /\ UNCHANGED <<attestor, wiVars, submitVars, crashes>>
  BY DEF RecordOther
<1> HIDE DEF r
<1>4. r.created_at <= txnClock
  BY <1>1, <1>2
<1>5. QED
  BY <1>2, <1>3, <1>4, InsertKeepsInv

(* Steps of a handler alone: rows, submissions and bindings as they were.   *)
LEMMA HookOnlyKeepsInv ==
    ASSUME KycInv, NEW d \in Deliveries, NEW s \in HookStages, NEW x \in Nat,
           hook' \in [Deliveries -> [stage : HookStages, created : Nat]],
           hook'[d].stage = s, hook'[d].created = x,
           \A e \in Deliveries : e # d => hook'[e] = hook[e],
           s = "selected" => NeedsBind(d), s # "recorded",
           x <= txnClock, txnClock' \in {txnClock, txnClock + 1},
           UNCHANGED <<attestor, wiVars, submitVars, kycRows, crashes>>
    PROVE  KycInv'
<1> USE DEF KycInv
<1>0. UNCHANGED <<accountSeq, call, nullifierCommitment, identityVars>>
  BY DEF submitVars, wiVars, kycVars, identityVars
<1>1. IdentityInv' /\ SubmitInv'
  BY <1>0, NextInv DEF SubmitInv, SubmitTypeOK
<1>2. txnClock \in Nat /\ txnClock' \in Nat /\ txnClock <= txnClock'
  BY DEF KycDbTypeOK
<1>4. KycDbTypeOK'
  BY <1>2 DEF KycDbTypeOK
<1>5. RowsInv'
  <2>1. \A i \in DOMAIN kycRows : kycRows[i].created_at \in Nat
    BY DEF KycDbTypeOK
  <2>2. \A i \in DOMAIN kycRows : kycRows[i].created_at <= txnClock'
    BY <1>2, <2>1 DEF RowsInv
  <2>3. \A e \in Deliveries : hook'[e].created <= txnClock'
    <3>1. \A e \in Deliveries : hook[e].created \in Nat
      BY DEF KycDbTypeOK
    <3>2. QED
      BY <1>2, <3>1 DEF RowsInv
  <2>4. QED
    BY <2>2, <2>3 DEF RowsInv
<1>6. HooksInv'
  BY <1>0 DEF HooksInv, RowFor, NeedsBind
<1>7. BoundInv'
  BY <1>0 DEF BoundInv
<1>8. QED
  BY <1>1, <1>4, <1>5, <1>6, <1>7

LEMMA SelectNullifierKeepsInv ==
    ASSUME KycInv, NEW d \in Deliveries, SelectNullifier(d), UNCHANGED attestor
    PROVE  KycInv'
<1>1. /\ NeedsBind(d) /\ txnClock' = txnClock + 1
      /\ UNCHANGED <<attestor, wiVars, submitVars, kycRows, crashes>>
  BY DEF SelectNullifier
<1>2. /\ txnClock \in Nat /\ hook \in [Deliveries -> [stage : HookStages, created : Nat]]
      /\ hook[d].created \in Nat /\ hook[d].created <= txnClock
  BY DEF KycInv, KycDbTypeOK, RowsInv
<1>3. CASE Goto(d, "duplicate_nullifier")
  <2>1. "duplicate_nullifier" \in HookStages
    BY DEF HookStages
  <2>2. /\ hook' \in [Deliveries -> [stage : HookStages, created : Nat]]
        /\ hook'[d].stage = "duplicate_nullifier" /\ hook'[d].created = hook[d].created
        /\ \A e \in Deliveries : e # d => hook'[e] = hook[e]
    BY <1>3, <2>1, HookMoves DEF Goto, KycInv
  <2>3. QED
    BY <1>1, <1>2, <2>1, <2>2, HookOnlyKeepsInv
<1>4. CASE hook' = [hook EXCEPT ![d] = [stage |-> "selected", created |-> txnClock]]
  <2>1. "selected" \in HookStages /\ txnClock <= txnClock
    BY <1>2 DEF HookStages
  <2>2. /\ hook' \in [Deliveries -> [stage : HookStages, created : Nat]]
        /\ hook'[d].stage = "selected" /\ hook'[d].created = txnClock
        /\ \A e \in Deliveries : e # d => hook'[e] = hook[e]
    BY <1>2, <1>4, <2>1
  <2>3. QED
    BY <1>1, <1>2, <2>1, <2>2, HookOnlyKeepsInv
<1>5. QED
  BY <1>3, <1>4 DEF SelectNullifier

LEMMA InsertApprovedKeepsInv ==
    ASSUME KycInv, NEW d \in Deliveries, InsertApproved(d), UNCHANGED attestor
    PROVE  KycInv'
<1>1. /\ hook[d].stage = "selected"
      /\ UNCHANGED <<attestor, wiVars, submitVars, txnClock, crashes>>
  BY DEF InsertApproved
<1>2. /\ txnClock \in Nat /\ hook \in [Deliveries -> [stage : HookStages, created : Nat]]
      /\ hook[d].created \in Nat /\ hook[d].created <= txnClock
  BY DEF KycInv, KycDbTypeOK, RowsInv
<1>3. NeedsBind(d)
  BY <1>1 DEF KycInv, HooksInv
<1>4. CASE Goto(d, "server_error") /\ UNCHANGED kycRows
  <2>1. "server_error" \in HookStages
    BY DEF HookStages
  <2>2. /\ hook' \in [Deliveries -> [stage : HookStages, created : Nat]]
        /\ hook'[d].stage = "server_error" /\ hook'[d].created = hook[d].created
        /\ \A e \in Deliveries : e # d => hook'[e] = hook[e]
    BY <1>4, <2>1, HookMoves DEF Goto, KycInv
  <2>3. QED
    BY <1>1, <1>2, <1>4, <2>1, <2>2, HookOnlyKeepsInv
<1>5. CASE /\ ~HasNullifier(Event[d].nullifier)
           /\ kycRows' = Append(kycRows, RowOf(d, hook[d].created))
           /\ Goto(d, "recorded")
  <2> DEFINE r == RowOf(d, hook[d].created)
  <2>1. /\ r \in Row /\ ~r.bind_tx
        /\ r.nullifier = Event[d].nullifier /\ r.commitment = Event[d].commitment
        /\ r.status = Event[d].status /\ r.created_at = hook[d].created
    BY <1>2, RowOfTyped
  <2>2. kycRows' = Append(kycRows, r)
    BY <1>5
  <2> HIDE DEF r
  <2>3. r.nullifier # None => r.status = "approved" /\ ~HasNullifier(r.nullifier)
    BY <1>3, <1>5, <2>1 DEF NeedsBind
  <2>4. r.created_at <= txnClock
    BY <1>2, <2>1
  <2>5. QED
    BY <1>1, <1>3, <1>5, <2>1, <2>2, <2>3, <2>4, InsertKeepsInv
<1>6. QED
  BY <1>4, <1>5 DEF InsertApproved

(* A step of the submission of a recorded delivery.                         *)
LEMMA BindStepKeepsInv ==
    ASSUME KycInv, NEW d \in Deliveries, BindThread(d) \/ BindRpcFails(d), UNCHANGED attestor
    PROVE  KycInv'
<1> USE DEF KycInv
<1>1. /\ hook[d].stage = "recorded" /\ d \in Calls
      /\ UNCHANGED <<wiVars, kycDbVars, identityVars>>
  BY KycAssumption DEF BindThread, BindRpcFails, identityVars
<1>2. /\ SubmitInv'
      /\ call'[d].tx = "success" <=> call[d].tx = "success"
      /\ \A j \in Calls : j # d => call'[j] = call[j]
  <2>1. \/ LoadAccount(d) \/ Prepare(d, BindAccepted(d)) \/ Send(d) \/ PollTx(d)
        \/ RpcFails(d)
    BY DEF BindThread, BindRpcFails
  <2>2. QED
    BY <1>1, <2>1, ThreadStep
<1>3. IdentityInv'
  BY <1>1, NextInv
<1>4. UNCHANGED <<kycRows, hook, txnClock, crashes, nullifierCommitment>>
  BY <1>1 DEF kycDbVars, wiVars, kycVars
<1>5. NeedsBind(d) /\ RowFor(d)
  BY <1>1 DEF HooksInv
<1>6. \A e \in Deliveries : e # d => call'[e] = call[e]
  BY <1>2, KycAssumption
<1>7. KycDbTypeOK'
  BY <1>4 DEF KycDbTypeOK
<1>8. RowsInv'
  BY <1>4 DEF RowsInv
<1>9. HooksInv'
  BY <1>4, <1>5, <1>6 DEF HooksInv, RowFor, NeedsBind
<1>10. BoundInv'
  BY <1>2, <1>4, <1>6 DEF BoundInv
<1>11. QED
  BY <1>2, <1>3, <1>7, <1>8, <1>9, <1>10

(* A nullifier is bound once: whatever was bound stays.                     *)
LEMMA BindKycKeeps ==
    ASSUME IdentityInv, NEW c \in Commitments, NEW n \in Nullifiers, BindKyc(Service, c, n)
    PROVE  /\ nullifierCommitment' \in [Nullifiers -> Commitments \cup {None}]
           /\ nullifierCommitment'[n] = c
           /\ \A m \in Nullifiers : nullifierCommitment[m] # None \/ m # n =>
                  nullifierCommitment'[m] = nullifierCommitment[m]
<1>1. nullifierCommitment \in [Nullifiers -> Commitments \cup {None}]
  BY DEF IdentityInv, WITypeOK
<1>2. CASE nullifierCommitment[n] = c /\ UNCHANGED wiVars
  BY <1>1, <1>2 DEF wiVars, kycVars
<1>3. CASE /\ nullifierCommitment[n] = None
           /\ nullifierCommitment' = [nullifierCommitment EXCEPT ![n] = c]
  BY <1>1, <1>3
<1>4. QED
  BY <1>2, <1>3 DEF BindKyc

(* The ledger's turn, for the transaction of a recorded delivery.           *)
LEMMA BindAppliedKeepsInv ==
    ASSUME KycInv, NEW d \in Deliveries, BindApplied(d), UNCHANGED attestor
    PROVE  KycInv'
<1> USE DEF KycInv
<1> DEFINE n == Event[d].nullifier
           c == Event[d].commitment
<1>0. d \in Calls /\ call[d].tx = "pending" /\ UNCHANGED <<kycRows, hook, txnClock, crashes>>
  BY KycAssumption DEF BindApplied, kycDbVars
<1>1. call[d].stage # "idle"
  BY <1>0 DEF SubmitInv
<1>2. NeedsBind(d) /\ RowFor(d) /\ n \in Nullifiers /\ c \in Commitments
  BY <1>1, KycAssumption DEF HooksInv, NeedsBind
<1>3. PICK x \in {"success", "failed", "dropped"} :
          /\ call' = [call EXCEPT ![d].tx = x]
          /\ accountSeq' \in {accountSeq, call[d].seq}
          /\ x = "success" => BindKyc(Service, c, n)
          /\ x # "success" => UNCHANGED wiVars
  <2>1. CASE BindAccepted(d) /\ Applied(d, TRUE) /\ BindKyc(Service, c, n)
    BY <2>1 DEF Applied
  <2>2. CASE ~BindAccepted(d) /\ Applied(d, FALSE) /\ UNCHANGED wiVars
    BY <2>2 DEF Applied
  <2>3. CASE Drop(d) /\ UNCHANGED wiVars
    BY <2>3 DEF Drop
  <2>4. QED
    BY <2>1, <2>2, <2>3 DEF BindApplied
<1>4. /\ SubmitInv'
      /\ call'[d].stage = call[d].stage /\ call'[d].tx = x
      /\ \A e \in Deliveries : e # d => call'[e] = call[e]
  BY <1>0, <1>3, LedgerStep, KycAssumption
<1>5. IdentityInv'
  <2>1. CASE x = "success"
    <3>1. Service \in Attestors /\ BindKyc(Service, c, n)
      BY <1>3, <2>1, KycAssumption
    <3>2. IdentityNext
      BY <1>2, <3>1 DEF IdentityNext, WINext, WICalls
    <3>3. QED
      BY <3>2, NextInv
  <2>2. CASE x # "success"
    <3>1. UNCHANGED identityVars
      BY <1>3, <2>2 DEF identityVars
    <3>2. QED
      BY <3>1, NextInv
  <2>3. QED
    BY <2>1, <2>2
<1>6. /\ \A m \in Nullifiers : nullifierCommitment[m] # None \/ m # n =>
             nullifierCommitment'[m] = nullifierCommitment[m]
      /\ x = "success" => nullifierCommitment'[n] = c
      /\ x # "success" => UNCHANGED nullifierCommitment
  BY <1>2, <1>3, BindKycKeeps DEF wiVars, kycVars
<1>7. KycDbTypeOK'
  BY <1>0 DEF KycDbTypeOK
<1>8. RowsInv'
  BY <1>0 DEF RowsInv
<1>9. HooksInv'
  <2>1. \A e \in Deliveries : call'[e].stage = call[e].stage
    BY <1>4
  <2>2. QED
    BY <1>0, <2>1 DEF HooksInv, RowFor, NeedsBind
<1>10. BoundInv'
  <2> DEFINE Recorded(m, b) ==
          \E i \in DOMAIN kycRows : kycRows[i].nullifier = m /\ kycRows[i].commitment = b
  <2>1. \A m \in Nullifiers : nullifierCommitment'[m] # None => Recorded(m, nullifierCommitment'[m])
    <3>1. SUFFICES ASSUME NEW m \in Nullifiers, nullifierCommitment'[m] # None
                   PROVE  Recorded(m, nullifierCommitment'[m])
      OBVIOUS
    <3>2. CASE nullifierCommitment'[m] = nullifierCommitment[m]
      BY <3>1, <3>2 DEF BoundInv
    <3>3. CASE nullifierCommitment'[m] # nullifierCommitment[m]
      <4>1. m = n /\ x = "success" /\ nullifierCommitment'[m] = c
        BY <1>6, <3>3
      <4>2. QED
        BY <1>2, <4>1 DEF RowFor
    <3>4. QED
      BY <3>2, <3>3
  <2>2. ASSUME NEW e \in Deliveries, call'[e].tx = "success"
        PROVE  nullifierCommitment'[Event[e].nullifier] = Event[e].commitment
    <3>1. CASE e = d
      BY <1>4, <1>6, <2>2, <3>1
    <3>2. CASE e # d
      <4>1. call[e].tx = "success" /\ e \in Calls
        BY <1>4, <2>2, <3>2, KycAssumption
      <4>2. call[e].stage # "idle"
        BY <4>1 DEF SubmitInv
      <4>3. /\ Event[e].nullifier \in Nullifiers /\ Event[e].commitment \in Commitments
            /\ nullifierCommitment[Event[e].nullifier] = Event[e].commitment
        BY <4>1, <4>2, KycAssumption DEF HooksInv, NeedsBind, BoundInv
      <4>4. QED
        BY <1>6, <4>3, SharedAssumption
    <3>3. QED
      BY <3>1, <3>2
  <2>3. ASSUME NEW i \in DOMAIN kycRows, kycRows[i].bind_tx
        PROVE  /\ kycRows[i].nullifier # None
               /\ nullifierCommitment'[kycRows[i].nullifier] = kycRows[i].commitment
    <3>1. /\ kycRows[i].nullifier # None
          /\ nullifierCommitment[kycRows[i].nullifier] = kycRows[i].commitment
      BY <2>3 DEF BoundInv
    <3>2. kycRows[i].nullifier \in Nullifiers /\ kycRows[i].commitment \in Commitments
      BY <3>1 DEF KycDbTypeOK
    <3>3. QED
      BY <1>6, <3>1, <3>2, SharedAssumption
  <2>4. QED
    BY <1>0, <2>1, <2>2, <2>3 DEF BoundInv
<1>11. QED
  BY <1>4, <1>5, <1>7, <1>8, <1>9, <1>10

\* The row a delivery's hash is stored in.
MarkedBy(d, i) ==
    /\ kycRows[i].commitment = Event[d].commitment
    /\ kycRows[i].nullifier = Event[d].nullifier

(* set_bind_tx marks a row; it changes no other column and no other row.    *)
LEMMA MarkedRows ==
    ASSUME kycRows \in Seq(Row), NEW d \in Deliveries,
           kycRows' = [i \in DOMAIN kycRows |->
                          IF MarkedBy(d, i)
                          THEN [kycRows[i] EXCEPT !.bind_tx = TRUE] ELSE kycRows[i]]
    PROVE  /\ kycRows' \in Seq(Row)
           /\ DOMAIN kycRows' = DOMAIN kycRows
           /\ \A i \in DOMAIN kycRows :
                  /\ kycRows'[i].nullifier = kycRows[i].nullifier
                  /\ kycRows'[i].commitment = kycRows[i].commitment
                  /\ kycRows'[i].status = kycRows[i].status
                  /\ kycRows'[i].created_at = kycRows[i].created_at
                  /\ \/ kycRows'[i] = kycRows[i]
                     \/ MarkedBy(d, i)
<1>1. /\ Len(kycRows) \in Nat /\ DOMAIN kycRows = 1..Len(kycRows)
      /\ \A i \in DOMAIN kycRows : kycRows[i] \in Row
  BY LenProperties, ElementOfSeq
<1>2. DOMAIN kycRows' = DOMAIN kycRows
  OBVIOUS
<1>3. ASSUME NEW i \in DOMAIN kycRows
      PROVE  /\ kycRows'[i] \in Row
             /\ kycRows'[i].nullifier = kycRows[i].nullifier
             /\ kycRows'[i].commitment = kycRows[i].commitment
             /\ kycRows'[i].status = kycRows[i].status
             /\ kycRows'[i].created_at = kycRows[i].created_at
             /\ \/ kycRows'[i] = kycRows[i]
                \/ MarkedBy(d, i)
  <2> DEFINE r == kycRows[i]
  <2>1. r \in Row
    BY <1>1
  <2>2. [r EXCEPT !.bind_tx = TRUE] \in Row
    BY <2>1 DEF Row
  <2>3. CASE MarkedBy(d, i)
    <3>1. kycRows'[i] = [r EXCEPT !.bind_tx = TRUE]
      BY <2>3
    <3>2. QED
      BY <2>1, <2>2, <2>3, <3>1 DEF Row
  <2>4. CASE ~(MarkedBy(d, i))
    <3>1. kycRows'[i] = kycRows[i]
      BY <2>4
    <3>2. QED
      BY <2>1, <3>1
  <2>5. QED
    BY <2>3, <2>4
<1>4. kycRows' \in [1..Len(kycRows) -> Row]
  <2>1. kycRows' = [i \in DOMAIN kycRows |-> kycRows'[i]]
    OBVIOUS
  <2>2. QED
    BY <1>1, <1>3, <2>1
<1>5. kycRows' \in Seq(Row)
  BY <1>1, <1>4, SeqDef
<1>6. QED
  BY <1>2, <1>3, <1>5

(* A hash is stored only for a submission that returned, which succeeded.   *)
LEMMA SetBindTxKeepsInv ==
    ASSUME KycInv, NEW d \in Deliveries, SetBindTx(d), UNCHANGED attestor
    PROVE  KycInv'
<1> USE DEF KycInv
<1>0. /\ hook[d].stage = "recorded" /\ Goto(d, "approved")
      /\ UNCHANGED <<identityVars, accountSeq, call, nullifierCommitment, txnClock, crashes>>
  BY DEF SetBindTx, identityVars, submitVars, wiVars, kycVars
<1>1. IdentityInv' /\ SubmitInv'
  BY <1>0, NextInv DEF SubmitInv, SubmitTypeOK
<1>2. /\ hook' \in [Deliveries -> [stage : HookStages, created : Nat]]
      /\ hook'[d].stage = "approved" /\ hook'[d].created = hook[d].created
      /\ \A e \in Deliveries : e # d => hook'[e] = hook[e]
  <2>1. "approved" \in HookStages
    BY DEF HookStages
  <2>2. QED
    BY <1>0, <2>1, HookMoves DEF Goto
<1>3. NeedsBind(d) /\ RowFor(d)
  BY <1>0 DEF HooksInv
<1>4. /\ kycRows' \in Seq(Row)
      /\ DOMAIN kycRows' = DOMAIN kycRows
      /\ \A i \in DOMAIN kycRows :
             /\ kycRows'[i].nullifier = kycRows[i].nullifier
             /\ kycRows'[i].commitment = kycRows[i].commitment
             /\ kycRows'[i].status = kycRows[i].status
             /\ kycRows'[i].created_at = kycRows[i].created_at
             /\ \/ kycRows'[i] = kycRows[i]
                \/ MarkedBy(d, i) /\ call[d].stage = "returned"
  <2>1. CASE UNCHANGED kycRows
    BY <2>1 DEF RowsInv
  <2>2. CASE /\ call[d].stage = "returned"
             /\ kycRows' = [i \in DOMAIN kycRows |->
                               IF MarkedBy(d, i)
                               THEN [kycRows[i] EXCEPT !.bind_tx = TRUE] ELSE kycRows[i]]
    <3>1. kycRows \in Seq(Row)
      BY DEF RowsInv
    <3>2. QED
      BY <2>2, <3>1, MarkedRows
  <2>3. QED
    BY <2>1, <2>2 DEF SetBindTx, MarkedBy
<1>5. KycDbTypeOK'
  <2>1. \A i \in DOMAIN kycRows' : kycRows'[i] \in Row
    BY <1>4, ElementOfSeq, LenProperties
  <2>2. QED
    BY <1>0, <1>2, <1>4, <2>1 DEF KycDbTypeOK, Row
<1>6. RowsInv'
  <2>1. \A e \in Deliveries : hook'[e].created = hook[e].created
    BY <1>2
  <2>2. QED
    BY <1>0, <1>4, <2>1 DEF RowsInv
<1>7. HooksInv'
  <2>1. \A e \in Deliveries : RowFor(e) => RowFor(e)'
    BY <1>4, RowsStand
  <2>2. QED
    BY <1>0, <1>2, <1>3, <2>1 DEF HooksInv, NeedsBind
<1>8. BoundInv'
  <2>1. ASSUME NEW i \in DOMAIN kycRows, kycRows'[i].bind_tx
        PROVE  /\ kycRows[i].nullifier # None
               /\ nullifierCommitment[kycRows[i].nullifier] = kycRows[i].commitment
    <3>1. CASE kycRows'[i] = kycRows[i]
      <4>1. kycRows[i].bind_tx
        BY <2>1, <3>1, Zenon
      <4>2. QED
        BY <4>1 DEF BoundInv
    <3>2. CASE MarkedBy(d, i) /\ call[d].stage = "returned"
      <4>1. call[d].tx = "success"
        BY <3>2, KycAssumption DEF SubmitInv
      <4>2. QED
        BY <1>3, <3>2, <4>1 DEF BoundInv, NeedsBind, MarkedBy
    <3>3. QED
      BY <1>4, <3>1, <3>2
  <2>2. QED
    BY <1>0, <1>4, <2>1 DEF BoundInv
<1>9. QED
  BY <1>1, <1>5, <1>6, <1>7, <1>8

(* A restart ends handlers and threads; rows and transactions stay.         *)
LEMMA CrashKeepsInv ==
    ASSUME KycInv, Crash, UNCHANGED attestor
    PROVE  KycInv'
<1> USE DEF KycInv
<1>0. /\ crashes < MaxCrashes /\ crashes' = crashes + 1
      /\ hook' = HooksAfterCrash /\ call' = CallsAfterCrash
      /\ UNCHANGED <<identityVars, accountSeq, kycRows, txnClock, nullifierCommitment>>
  BY DEF Crash, identityVars, wiVars, kycVars
<1>1. IdentityInv'
  BY <1>0, NextInv
<1>2. /\ call' \in [Calls -> [stage : Stages, seq : Nat, tx : TxStates]]
      /\ \A k \in Calls :
             /\ call'[k].tx = call[k].tx
             /\ \/ call'[k].stage = call[k].stage
                \/ call'[k].stage = "raised" /\ call[k].stage # "idle"
  <2>1. \A k \in Calls :
            /\ call[k] \in [stage : Stages, seq : Nat, tx : TxStates]
            /\ [call[k] EXCEPT !.stage = "raised"] \in [stage : Stages, seq : Nat, tx : TxStates]
    BY DEF SubmitInv, SubmitTypeOK, Stages
  <2>2. QED
    BY <1>0, <2>1 DEF CallsAfterCrash
<1>3. SubmitInv'
  BY <1>0, <1>2 DEF SubmitInv, SubmitTypeOK
<1>4. /\ hook' \in [Deliveries -> [stage : HookStages, created : Nat]]
      /\ \A d \in Deliveries :
             /\ hook'[d].created = hook[d].created
             /\ hook'[d].stage \in {hook[d].stage, "crashed"}
  <2>1. \A d \in Deliveries :
            /\ hook[d] \in [stage : HookStages, created : Nat]
            /\ [hook[d] EXCEPT !.stage = "crashed"] \in [stage : HookStages, created : Nat]
    BY DEF KycDbTypeOK, HookStages
  <2>2. QED
    BY <1>0, <2>1 DEF HooksAfterCrash
<1>5. KycDbTypeOK'
  <2>1. crashes' \in 0..MaxCrashes
    BY <1>0, KycAssumption DEF KycDbTypeOK
  <2>2. QED
    BY <1>0, <1>4, <2>1 DEF KycDbTypeOK
<1>6. RowsInv'
  BY <1>0, <1>4 DEF RowsInv
<1>7. HooksInv'
  <2>1. \A d \in Deliveries : call'[d].stage # "idle" => call[d].stage # "idle"
    BY <1>2, KycAssumption
  <2>2. \A d \in Deliveries :
            /\ hook'[d].stage = "selected" => hook[d].stage = "selected"
            /\ hook'[d].stage = "recorded" => hook[d].stage = "recorded"
    BY <1>4
  <2>3. \A d \in Deliveries : RowFor(d)' <=> RowFor(d)
    BY <1>0 DEF RowFor
  <2>4. QED
    BY <2>1, <2>2, <2>3 DEF HooksInv, NeedsBind
<1>8. BoundInv'
  <2>1. \A d \in Deliveries : call'[d].tx = call[d].tx
    BY <1>2, KycAssumption
  <2>2. QED
    BY <1>0, <2>1 DEF BoundInv
<1>9. QED
  BY <1>1, <1>3, <1>5, <1>6, <1>7, <1>8

LEMMA DeliveryStepKeepsInv ==
    ASSUME KycInv, NEW d \in Deliveries, HookStep(d) \/ BindRpcFails(d) \/ BindApplied(d),
           UNCHANGED attestor
    PROVE  KycInv'
BY RecordOtherKeepsInv, SelectNullifierKeepsInv, InsertApprovedKeepsInv, BindStepKeepsInv,
   SetBindTxKeepsInv, BindAppliedKeepsInv DEF HookStep

LEMMA KycStepKeepsInv == KycInv /\ [KycFlowNext]_kycFlowVars => KycInv'
<1> SUFFICES ASSUME KycInv, [KycFlowNext]_kycFlowVars PROVE KycInv'
  OBVIOUS
<1>1. ASSUME NEW d \in Deliveries, HookStep(d) \/ BindRpcFails(d) \/ BindApplied(d),
             UNCHANGED attestor
      PROVE  KycInv'
  BY <1>1, DeliveryStepKeepsInv
<1>2. CASE Crash /\ UNCHANGED attestor
  BY <1>2, CrashKeepsInv
<1>3. CASE (RegistryNext /\ UNCHANGED <<wiVars, submitVars, kycDbVars>>)
           \/ UNCHANGED kycFlowVars
  <2>1. [IdentityNext]_identityVars /\ UNCHANGED <<submitVars, kycDbVars, nullifierCommitment>>
    BY <1>3 DEF IdentityNext, kycFlowVars, identityVars, wiVars, kycVars
  <2>2. IdentityInv'
    BY <2>1, NextInv DEF KycInv
  <2>3. SubmitInv' /\ \A d \in Deliveries : call'[d] = call[d]
    BY <2>1 DEF KycInv, SubmitInv, SubmitTypeOK, submitVars
  <2>4. QED
    BY <2>1, <2>2, <2>3, OthersKeepInv
<1>4. QED
  BY <1>1, <1>2, <1>3 DEF KycFlowNext

LEMMA KycInvHolds == KycFlowSpec => []KycInv
<1>1. KycFlowInit => KycInv
  BY InitEstablishesKycInv
<1>2. KycInv /\ [KycFlowNext]_kycFlowVars => KycInv'
  BY KycStepKeepsInv
<1>3. QED
  BY <1>1, <1>2, PTL DEF KycFlowSpec

(* Types of the table, the handlers, the submissions and the contract, and  *)
(* that only an approval ever takes a nullifier (record_verification).      *)
THEOREM KycFlowTypeCorrect == KycFlowSpec => []KycFlowTypeOK
<1>1. KycInv => KycFlowTypeOK
  BY DEF KycInv, KycFlowTypeOK, IdentityInv, SubmitInv
<1>2. QED
  BY <1>1, KycInvHolds, PTL

LEMMA IdentityOfInv == KycInv => OneIdentityPerHuman
<1> SUFFICES ASSUME KycInv PROVE OneIdentityPerHuman
  OBVIOUS
<1>1. ASSUME NEW d \in Deliveries, NEW e \in Deliveries,
             call[d].stage # "idle", call[e].stage # "idle",
             Event[d].nullifier = Event[e].nullifier
      PROVE  Event[d].commitment = Event[e].commitment
  <2>1. NeedsBind(d) /\ RowFor(d) /\ RowFor(e)
    BY <1>1 DEF KycInv, HooksInv
  <2>2. PICK i \in DOMAIN kycRows : /\ kycRows[i].nullifier = Event[d].nullifier
                                    /\ kycRows[i].commitment = Event[d].commitment
    BY <2>1 DEF RowFor
  <2>3. PICK j \in DOMAIN kycRows : /\ kycRows[j].nullifier = Event[e].nullifier
                                    /\ kycRows[j].commitment = Event[e].commitment
    BY <2>1 DEF RowFor
  <2>4. i = j
    BY <1>1, <2>1, <2>2, <2>3 DEF NeedsBind, KycInv, RowsInv
  <2>5. QED
    BY <2>2, <2>3, <2>4
<1>2. QED
  BY <1>1 DEF OneIdentityPerHuman, KycInv, BoundInv

(* One human, one identity: whatever the interleaving of the handlers'      *)
(* selects and inserts, no nullifier is submitted for two commitments, and  *)
(* one bound on chain is recorded under the same commitment.                *)
THEOREM OneIdentityHolds == KycFlowSpec => []OneIdentityPerHuman
BY IdentityOfInv, KycInvHolds, PTL

LEMMA VerifiedRowIsBound ==
    ASSUME KycInv, NEW c \in Commitments, kyc_status_verified(c)
    PROVE  is_kyc_verified(c)
<1>1. /\ LatestRow(c) \in DOMAIN kycRows /\ kycRows[LatestRow(c)].commitment = c
      /\ kycRows[LatestRow(c)].bind_tx
  BY LatestRowFound DEF kyc_status_verified, KycInv, KycDbTypeOK
<1>2. PICK n \in Nullifiers : nullifierCommitment[n] = c
  <2>1. /\ kycRows[LatestRow(c)].nullifier # None
        /\ nullifierCommitment[kycRows[LatestRow(c)].nullifier] = c
    BY <1>1 DEF KycInv, BoundInv
  <2>2. kycRows[LatestRow(c)].nullifier \in Nullifiers
    BY <1>1, <2>1 DEF KycInv, KycDbTypeOK
  <2>3. QED
    BY <2>1, <2>2
<1>3. QED
  BY <1>2 DEF KycInv, IdentityInv, KycFlagBacked, is_kyc_verified

(* What GET /kyc/status and the group re-score call verified is bound on    *)
(* chain, through lost answers, deadlines that pass and restarts.           *)
THEOREM StatusIsBacked == KycFlowSpec => []StatusTrueMeansBound
<1>1. KycInv => StatusTrueMeansBound
  BY VerifiedRowIsBound DEF StatusTrueMeansBound
<1>2. QED
  BY <1>1, KycInvHolds, PTL
=============================================================================
