--------------------------- MODULE BentoNodeProofs ---------------------------
(***************************************************************************)
(* Proofs about BentoNode for any processes, prove calls and bounds.  The  *)
(* inductive invariant says what each lock's holder may rely on: the flock *)
(* is the open call's, so no other call creates a node between its lookup  *)
(* and its creation; the mutex is the session's, so between closing one    *)
(* tunnel and opening the next its process's node stays the one it found.  *)
(***************************************************************************)
EXTENDS BentoNode, TLAPS, FiniteSetTheorems

\* A call that holds the flock.
Open(t) == prover[t].stage \notin Finished \cup {"idle"}

\* Steps of a session between closing the old tunnel and opening the new one.
Tunnelless(t) ==
    prover[t].stage \in {"finding", "booting", "waiting", "connecting", "tunnelling"}

\* 1. Every open call holds the flock, every session its process's mutex.
LocksHeld ==
    \A t \in Provers :
        /\ Open(t) => flock = t
        /\ InSession(t) => mutex[ProcOf[t]] = t

\* 2. One node at most is listed, none beyond those created; and a session
\*    about to create a node found none, which is still so.
NodesBorn ==
    /\ \A n \in NodeIds : n > born => nodes[n] = "absent"
    /\ \A m, n \in Listed : m = n
    /\ \A t \in Provers : At(t, "booting") /\ prover[t].host = None => Listed = {}

\* 3. A tunnel leads to its process's node; it is closed before a session
\*    or a reaper changes that node, and the node about to be tunnelled to
\*    is the one remembered.
TunnelsKnown ==
    /\ TunnelledNodeIsKnown
    /\ \A t \in Provers : Tunnelless(t) => tunnel[ProcOf[t]] = None
    /\ \A t \in Provers :
           At(t, "connecting") \/ At(t, "tunnelling") => prover[t].host = nodeId[ProcOf[t]]
    /\ \A p \in Procs : mutex[p] = Reaper => tunnel[p] = None

BentoInv == BentoTypeOK /\ LocksHeld /\ NodesBorn /\ TunnelsKnown
-----------------------------------------------------------------------------
LEMMA InitEstablishesInv == BentoInit => BentoInv
<1> SUFFICES ASSUME BentoInit PROVE BentoInv
  OBVIOUS
<1> USE BentoAssumption DEF BentoInit, Over, NodeIds
<1>1. BentoTypeOK
  BY DEF BentoTypeOK, ProverStages
<1>2. LocksHeld
  BY DEF LocksHeld, Open, InSession
<1>3. NodesBorn
  BY DEF NodesBorn, Listed, At
<1>4. TunnelsKnown
  BY DEF TunnelsKnown, TunnelledNodeIsKnown, Tunnelless, At
<1>5. QED
  BY <1>1, <1>2, <1>3, <1>4 DEF BentoInv


Hosts == NodeIds \cup {None}

ProverType == [Provers -> [stage : ProverStages, host : NodeIds \cup {None},
                           lookups : 0..MaxLookups]]

(* What a move of one call's record leaves: the other calls as they were.   *)
LEMMA GotoMoves ==
    ASSUME BentoTypeOK, NEW t \in Provers, NEW s \in ProverStages,
           prover' = [prover EXCEPT ![t].stage = s]
    PROVE  /\ prover' \in ProverType
           /\ prover'[t].stage = s /\ prover'[t].host = prover[t].host
           /\ \A u \in Provers : u # t => prover'[u] = prover[u]
BY DEF BentoTypeOK, ProverType

LEMMA EndMoves ==
    ASSUME BentoTypeOK, NEW t \in Provers, NEW s \in ProverStages, End(t, s)
    PROVE  /\ prover' \in ProverType
           /\ prover'[t].stage = s
           /\ \A u \in Provers : u # t => prover'[u] = prover[u]
<1>1. Over(s) \in [stage : ProverStages, host : NodeIds \cup {None}, lookups : 0..MaxLookups]
  BY BentoAssumption DEF Over
<1>2. Over(s).stage = s
  BY DEF Over
<1>3. QED
  BY <1>1, <1>2 DEF BentoTypeOK, ProverType, End

(* The same for a call's host and lookups, whatever they were.              *)
LEMMA RecordMoves ==
    ASSUME BentoTypeOK, NEW t \in Provers, NEW s \in ProverStages,
           NEW n \in Hosts, NEW l \in 0..MaxLookups,
           prover' = [prover EXCEPT ![t].stage = s, ![t].host = n, ![t].lookups = l]
    PROVE  /\ prover' \in ProverType
           /\ prover'[t].stage = s /\ prover'[t].host = n
           /\ \A u \in Provers : u # t => prover'[u] = prover[u]
<1> DEFINE Record == [stage : ProverStages, host : Hosts, lookups : 0..MaxLookups]
           r == [prover[t] EXCEPT !.stage = s, !.host = n, !.lookups = l]
<1>1. prover \in [Provers -> Record]
  BY DEF BentoTypeOK, Hosts
<1>2. r \in Record /\ r.stage = s /\ r.host = n
  BY <1>1
<1>3. prover' = [prover EXCEPT ![t] = r]
  BY <1>1
<1> HIDE DEF Record, r
<1>4. prover' \in [Provers -> Record]
  BY ONLY <1>1, <1>2, <1>3, t \in Provers
<1>5. prover'[t] = r
  BY ONLY <1>1, <1>3, t \in Provers
<1>6. \A u \in Provers : u # t => prover'[u] = prover[u]
  BY ONLY <1>1, <1>3, t \in Provers
<1>7. QED
  BY <1>2, <1>4, <1>5, <1>6 DEF ProverType, Record, Hosts

LEMMA HostMoves ==
    ASSUME BentoTypeOK, NEW t \in Provers, NEW s \in ProverStages,
           NEW n \in Hosts,
           prover' = [prover EXCEPT ![t].stage = s, ![t].host = n]
    PROVE  /\ prover' \in ProverType
           /\ prover'[t].stage = s /\ prover'[t].host = n
           /\ \A u \in Provers : u # t => prover'[u] = prover[u]
<1> DEFINE Record == [stage : ProverStages, host : Hosts, lookups : 0..MaxLookups]
           r == [prover[t] EXCEPT !.stage = s, !.host = n]
<1>1. prover \in [Provers -> Record]
  BY DEF BentoTypeOK, Hosts
<1>2. r \in Record /\ r.stage = s /\ r.host = n
  BY <1>1
<1>3. prover' = [prover EXCEPT ![t] = r]
  BY <1>1
<1> HIDE DEF Record, r
<1>4. /\ prover' \in [Provers -> Record] /\ prover'[t] = r
      /\ \A u \in Provers : u # t => prover'[u] = prover[u]
  BY <1>1, <1>2, <1>3
<1>5. QED
  BY <1>2, <1>4 DEF ProverType, Record, Hosts

(* The flock has one holder, so every call but the open one is closed.      *)
LEMMA OneOpen ==
    ASSUME LocksHeld, NEW t \in Provers, Open(t)
    PROVE  flock = t /\ \A u \in Provers : u # t => ~Open(u) /\ ~InSession(u)
BY DEF LocksHeld, Open, InSession

(* A session that goes on keeps both locks.                                 *)
LEMMA SessionGoesOn ==
    ASSUME BentoTypeOK, LocksHeld, NEW t \in Provers, InSession(t), InSession(t)',
           \A u \in Provers : u # t => prover'[u] = prover[u],
           UNCHANGED <<flock, mutex>>
    PROVE  /\ LocksHeld'
           /\ flock' # None => Open(flock)'
           /\ \A p \in Procs : mutex'[p] \in Provers =>
                  ProcOf[mutex'[p]] = p /\ Open(mutex[p])'
<1>1. Open(t) /\ Open(t)'
  BY DEF Open, InSession
<1>2. flock = t /\ mutex[ProcOf[t]] = t
  BY <1>1 DEF LocksHeld
<1>3. LocksHeld'
  BY <1>1, <1>2 DEF LocksHeld, Open, InSession
<1>4. flock' # None => Open(flock)'
  BY <1>1, <1>2
<1>5. \A p \in Procs : mutex'[p] \in Provers =>
          ProcOf[mutex'[p]] = p /\ Open(mutex[p])'
  <2>1. SUFFICES ASSUME NEW p \in Procs, mutex[p] \in Provers
                 PROVE  ProcOf[mutex[p]] = p /\ Open(mutex[p])'
    OBVIOUS
  <2>2. ProcOf[mutex[p]] = p /\ Open(mutex[p])
    BY <2>1 DEF BentoTypeOK, Open
  <2>3. mutex[p] = t
    BY <1>1, <2>1, <2>2, OneOpen
  <2>4. QED
    BY <1>1, <2>2, <2>3
<1>6. QED
  BY <1>3, <1>4, <1>5

(* A session that ends frees both, and was the only one.                    *)
LEMMA SessionEndsLocks ==
    ASSUME BentoTypeOK, LocksHeld, NEW t \in Provers, InSession(t),
           NEW s \in Finished, prover'[t].stage = s,
           \A u \in Provers : u # t => prover'[u] = prover[u],
           ReleaseLocks(t)
    PROVE  /\ LocksHeld'
           /\ flock' = None
           /\ mutex' \in [Procs -> Provers \cup {None, Reaper}]
           /\ \A p \in Procs : mutex'[p] \notin Provers
           /\ \A p \in Procs : mutex'[p] = Reaper => mutex[p] = Reaper
<1>1. /\ Open(t) /\ ~Open(t)' /\ ~InSession(t)'
      /\ \A u \in Provers : u # t => ~Open(u) /\ ~InSession(u)
  BY OneOpen DEF Open, InSession, Finished
<1>2. \A u \in Provers : ~Open(u)' /\ ~InSession(u)'
  BY <1>1 DEF Open, InSession
<1>3. /\ flock' = None
      /\ mutex' = [mutex EXCEPT ![ProcOf[t]] = None]
      /\ mutex \in [Procs -> Provers \cup {None, Reaper}]
  BY DEF ReleaseLocks, BentoTypeOK
<1>4. \A p \in Procs : mutex'[p] \notin Provers
  <2>1. SUFFICES ASSUME NEW p \in Procs, mutex'[p] \in Provers PROVE FALSE
    OBVIOUS
  <2>2. mutex[p] \in Provers /\ p # ProcOf[t]
    BY <1>3, <2>1, BentoAssumption
  <2>3. ProcOf[mutex[p]] = p /\ Open(mutex[p])
    BY <2>2 DEF BentoTypeOK, Open
  <2>4. QED
    BY <1>1, <2>2, <2>3
<1>5. QED
  BY <1>2, <1>3, <1>4, BentoAssumption DEF LocksHeld

(* The call that takes a free flock is the only open one.                   *)
LEMMA TakeFlockKeepsInv ==
    ASSUME BentoInv, NEW t \in Provers, TakeFlock(t), UNCHANGED <<down, stops, downs>>
    PROVE  BentoInv'
<1> USE DEF BentoInv
<1>0. /\ prover[t].stage = "idle" /\ flock = None /\ flock' = t
      /\ prover' = [prover EXCEPT ![t].stage = "locked"]
      /\ UNCHANGED <<strategy, nodes, born, mutex, tunnel, nodeId, armed, fired, down, stops, downs>>
  BY DEF TakeFlock, At, Goto, cloudVars, procVars
<1>a. /\ prover' \in ProverType
      /\ prover'[t].stage = "locked"
      /\ \A u \in Provers : u # t => prover'[u] = prover[u]
  BY <1>0, GotoMoves DEF ProverStages
<1>1. BentoTypeOK'
  BY <1>0, <1>a, BentoAssumption DEF BentoTypeOK, ProverType, Finished
<1>2. LocksHeld'
  BY <1>0, <1>a, BentoAssumption DEF LocksHeld, Open, InSession, BentoTypeOK, Finished
<1>3. NodesBorn'
  BY <1>0, <1>a DEF NodesBorn, Listed, At, BentoTypeOK
<1>4. TunnelsKnown'
  BY <1>0, <1>a DEF TunnelsKnown, TunnelledNodeIsKnown, Tunnelless, At, BentoTypeOK
<1>5. QED
  BY <1>1, <1>2, <1>3, <1>4

LEMMA TakeMutexKeepsInv ==
    ASSUME BentoInv, NEW t \in Provers, TakeMutex(t), UNCHANGED <<down, stops, downs>>
    PROVE  BentoInv'
<1> USE DEF BentoInv
<1>0. /\ prover[t].stage = "locked" /\ mutex[ProcOf[t]] = None
      /\ mutex' = [mutex EXCEPT ![ProcOf[t]] = t]
      /\ armed' = [armed EXCEPT ![ProcOf[t]] = FALSE]
      /\ prover' = [prover EXCEPT ![t].stage = "checking"]
      /\ UNCHANGED <<strategy, nodes, born, flock, tunnel, nodeId, fired, down, stops, downs>>
  BY DEF TakeMutex, At, Goto, cloudVars
<1>a. /\ prover' \in ProverType
      /\ prover'[t].stage = "checking"
      /\ \A u \in Provers : u # t => prover'[u] = prover[u]
  BY <1>0, GotoMoves DEF ProverStages
<1>1. BentoTypeOK'
  BY <1>0, <1>a, BentoAssumption DEF BentoTypeOK, ProverType, Finished
<1>b. flock = t /\ \A u \in Provers : u # t => ~Open(u) /\ ~InSession(u)
  BY <1>0, OneOpen DEF Open, Finished
<1>2. LocksHeld'
  <2>1. mutex'[ProcOf[t]] = t /\ flock' = t
    BY <1>0, <1>b, BentoAssumption DEF BentoTypeOK
  <2>2. \A u \in Provers : u # t => ~Open(u)' /\ ~InSession(u)'
    BY <1>a, <1>b DEF Open, InSession
  <2>3. QED
    BY <2>1, <2>2 DEF LocksHeld
<1>3. NodesBorn'
  BY <1>0, <1>a DEF NodesBorn, Listed, At, BentoTypeOK
<1>4. TunnelsKnown'
  BY <1>0, <1>a, BentoAssumption DEF TunnelsKnown, TunnelledNodeIsKnown, Tunnelless, At, BentoTypeOK
<1>5. QED
  BY <1>1, <1>2, <1>3, <1>4

(* Ending a session, by returning or by raising: what it remembers of the  *)
(* cloud goes with it.  tunnel and nodeId are as they were.                 *)
LEMMA EndKeepsInv ==
    ASSUME BentoInv, NEW t \in Provers, InSession(t), NEW s \in Finished,
           prover' \in ProverType, prover'[t].stage = s,
           \A u \in Provers : u # t => prover'[u] = prover[u],
           ReleaseLocks(t),
           armed' \in [Procs -> BOOLEAN],
           UNCHANGED <<strategy, nodes, born, tunnel, nodeId, fired, down, stops, downs>>
    PROVE  BentoInv'
<1> USE DEF BentoInv
<1>a. /\ LocksHeld'
      /\ flock' = None
      /\ mutex' \in [Procs -> Provers \cup {None, Reaper}]
      /\ \A p \in Procs : mutex'[p] \notin Provers
      /\ \A p \in Procs : mutex'[p] = Reaper => mutex[p] = Reaper
  BY SessionEndsLocks
<1>1. BentoTypeOK'
  BY <1>a DEF BentoTypeOK, ProverType
<1>3. NodesBorn'
  BY DEF NodesBorn, Listed, At, BentoTypeOK, Finished
<1>4. TunnelsKnown'
  BY <1>a DEF TunnelsKnown, TunnelledNodeIsKnown, Tunnelless, At, BentoTypeOK, Finished
<1>5. QED
  BY <1>a, <1>1, <1>3, <1>4

LEMMA RaiseKeepsInv ==
    ASSUME BentoInv, NEW t \in Provers, InSession(t), Raise(t), UNCHANGED <<down, stops, downs>>
    PROVE  BentoInv'
<1>1. "failed" \in Finished /\ "failed" \in ProverStages
  BY DEF Finished, ProverStages
<1>2. /\ prover' \in ProverType
      /\ prover'[t].stage = "failed"
      /\ \A u \in Provers : u # t => prover'[u] = prover[u]
  BY <1>1, EndMoves DEF Raise, BentoInv
<1>3. ReleaseLocks(t) /\ armed' \in [Procs -> BOOLEAN]
      /\ UNCHANGED <<strategy, nodes, born, tunnel, nodeId, fired, down, stops, downs>>
  BY DEF Raise, BentoInv, BentoTypeOK, cloudVars
<1>4. QED
  BY <1>1, <1>2, <1>3, EndKeepsInv

LEMMA ProveEndsKeepsInv ==
    ASSUME BentoInv, NEW t \in Provers, ProveEnds(t), UNCHANGED <<down, stops, downs>>
    PROVE  BentoInv'
<1>0. InSession(t)
  BY DEF InSession, ProveEnds, At, Finished
<1>3. ReleaseLocks(t) /\ armed' \in [Procs -> BOOLEAN]
      /\ UNCHANGED <<strategy, nodes, born, tunnel, nodeId, fired, down, stops, downs>>
  BY BentoAssumption DEF ProveEnds, BentoInv, BentoTypeOK, cloudVars
<1>4. PICK s \in Finished : s \in ProverStages /\ End(t, s)
  <2>1. "proved" \in Finished /\ "failed" \in Finished
        /\ "proved" \in ProverStages /\ "failed" \in ProverStages
    BY DEF Finished, ProverStages
  <2>2. QED
    BY <2>1 DEF ProveEnds
<1>5. /\ prover' \in ProverType
      /\ prover'[t].stage = s
      /\ \A u \in Provers : u # t => prover'[u] = prover[u]
  BY <1>4, EndMoves DEF BentoInv
<1>6. QED
  BY <1>0, <1>3, <1>4, <1>5, EndKeepsInv

LEMMA ConnectKeepsInv ==
    ASSUME BentoInv, NEW t \in Provers, Connect(t), UNCHANGED <<down, stops, downs>>
    PROVE  BentoInv'
<1> USE DEF BentoInv
<1>0. InSession(t) /\ prover[t].stage = "connecting"
  BY DEF InSession, Connect, At, Finished
<1>1. CASE Goto(t, "unreachable") /\ ReleaseLocks(t)
           /\ UNCHANGED <<cloudVars, tunnel, nodeId, armed, fired>>
  <2>1. /\ prover' \in ProverType
        /\ prover'[t].stage = "unreachable"
        /\ \A u \in Provers : u # t => prover'[u] = prover[u]
    BY <1>1, GotoMoves DEF ProverStages, Goto
  <2>2. "unreachable" \in Finished /\ armed' \in [Procs -> BOOLEAN]
        /\ UNCHANGED <<strategy, nodes, born, tunnel, nodeId, fired, down, stops, downs>>
    BY <1>1 DEF Finished, BentoTypeOK, cloudVars
  <2>3. QED
    BY <1>0, <1>1, <2>1, <2>2, EndKeepsInv
<1>2. CASE Goto(t, "tunnelling") /\ UNCHANGED <<cloudVars, procVars, flock>>
  <2>1. /\ prover' \in ProverType
        /\ prover'[t].stage = "tunnelling" /\ prover'[t].host = prover[t].host
        /\ \A u \in Provers : u # t => prover'[u] = prover[u]
    BY <1>2, GotoMoves DEF ProverStages, Goto
  <2>2. UNCHANGED <<strategy, nodes, born, flock, mutex, tunnel, nodeId, armed, fired,
                    down, stops, downs>>
    BY <1>2 DEF cloudVars, procVars
  <2>3. InSession(t)'
    BY <2>1 DEF InSession, Finished
  <2>4. /\ LocksHeld'
        /\ flock' # None => Open(flock)'
        /\ \A p \in Procs : mutex'[p] \in Provers =>
               ProcOf[mutex'[p]] = p /\ Open(mutex[p])'
    BY <1>0, <2>1, <2>2, <2>3, SessionGoesOn
  <2>5. BentoTypeOK'
    BY <2>1, <2>2, <2>4 DEF BentoTypeOK, ProverType, Open
  <2>6. NodesBorn'
    BY <2>1, <2>2 DEF NodesBorn, Listed, At, BentoTypeOK
  <2>7. TunnelsKnown'
    BY <1>0, <2>1, <2>2 DEF TunnelsKnown, TunnelledNodeIsKnown, Tunnelless, At, BentoTypeOK
  <2>8. QED
    BY <2>4, <2>5, <2>6, <2>7
<1>3. QED
  BY <1>1, <1>2 DEF Connect

(* A step inside a session that moves this call alone and neither lock.     *)
LEMMA StepTyped ==
    ASSUME BentoTypeOK, LocksHeld, NEW t \in Provers, InSession(t), InSession(t)',
           prover' \in ProverType,
           \A u \in Provers : u # t => prover'[u] = prover[u],
           nodes' \in [NodeIds -> {"absent", "off", "running"}], born' \in 0..MaxNodes,
           tunnel' \in [Procs -> NodeIds \cup {None}],
           nodeId' \in [Procs -> NodeIds \cup {None}],
           UNCHANGED <<strategy, flock, mutex, armed, fired, down, stops, downs>>
    PROVE  BentoTypeOK' /\ LocksHeld'
<1>1. /\ LocksHeld'
      /\ flock' # None => Open(flock)'
      /\ \A p \in Procs : mutex'[p] \in Provers =>
             ProcOf[mutex'[p]] = p /\ Open(mutex[p])'
  BY SessionGoesOn
<1>2. QED
  BY <1>1 DEF BentoTypeOK, ProverType, Open

(* No other session stands between closing a tunnel and opening one.        *)
LEMMA OthersHaveTunnel ==
    ASSUME LocksHeld, NEW t \in Provers, InSession(t)
    PROVE  \A u \in Provers : u # t =>
               /\ ~Tunnelless(u) /\ ~At(u, "booting")
               /\ ~At(u, "connecting") /\ ~At(u, "tunnelling")
<1>1. \A u \in Provers : u # t => ~Open(u)
  BY OneOpen DEF Open, InSession
<1>2. QED
  BY <1>1 DEF Open, Tunnelless, At, Finished

LEMMA CheckTunnelKeepsInv ==
    ASSUME BentoInv, NEW t \in Provers, CheckTunnel(t), UNCHANGED <<down, stops, downs>>
    PROVE  BentoInv'
<1> USE DEF BentoInv
<1> DEFINE p == ProcOf[t]
<1>0. /\ InSession(t) /\ prover[t].stage = "checking" /\ p \in Procs
      /\ UNCHANGED <<strategy, nodes, born, flock, mutex, nodeId, armed, fired,
                     down, stops, downs>>
  BY BentoAssumption DEF InSession, CheckTunnel, At, Finished, cloudVars
<1>a. \A u \in Provers : u # t =>
          /\ ~Tunnelless(u) /\ ~At(u, "booting")
          /\ ~At(u, "connecting") /\ ~At(u, "tunnelling")
  BY <1>0, OthersHaveTunnel
<1>b. mutex[p] = t
  BY <1>0 DEF LocksHeld
<1>1. CASE /\ tunnel[p] # None /\ NodeUp(tunnel[p])
           /\ prover' = [prover EXCEPT ![t].stage = "proving", ![t].host = tunnel[p]]
           /\ UNCHANGED tunnel
  <2>1. /\ prover' \in ProverType
        /\ prover'[t].stage = "proving"
        /\ \A u \in Provers : u # t => prover'[u] = prover[u]
    <3>1. "proving" \in ProverStages /\ tunnel[p] \in Hosts
      BY <1>0 DEF ProverStages, BentoTypeOK, Hosts
    <3>2. QED
      BY <1>1, <3>1, HostMoves
  <2>2. InSession(t)'
    BY <2>1 DEF InSession, Finished
  <2>3. BentoTypeOK' /\ LocksHeld'
    BY <1>0, <1>1, <2>1, <2>2, StepTyped DEF BentoTypeOK
  <2>4. NodesBorn'
    BY <1>0, <2>1 DEF NodesBorn, Listed, At
  <2>5. TunnelsKnown'
    BY <1>0, <1>1, <2>1 DEF TunnelsKnown, TunnelledNodeIsKnown, Tunnelless, At
  <2>6. QED
    BY <2>3, <2>4, <2>5
<1>2. CASE /\ tunnel' = [tunnel EXCEPT ![p] = None]
           /\ prover' = [prover EXCEPT ![t].stage = IF nodeId[p] = None THEN "finding"
                                                                       ELSE "connecting",
                                       ![t].host = nodeId[p]]
  <2> DEFINE s == IF nodeId[p] = None THEN "finding" ELSE "connecting"
  <2>0. s \in ProverStages /\ nodeId[p] \in Hosts
        /\ s \in {"finding", "connecting"}
    BY <1>0 DEF ProverStages, BentoTypeOK, Hosts
  <2>1. /\ prover' \in ProverType
        /\ prover'[t].stage = s /\ prover'[t].host = nodeId[p]
        /\ \A u \in Provers : u # t => prover'[u] = prover[u]
    <3>1. prover' = [prover EXCEPT ![t].stage = s, ![t].host = nodeId[p]]
      BY <1>2
    <3> HIDE DEF s
    <3>2. QED
      BY <2>0, <3>1, HostMoves
  <2> HIDE DEF s
  <2>2. InSession(t)'
    BY <2>0, <2>1 DEF InSession, Finished
  <2>3. BentoTypeOK' /\ LocksHeld'
    <3>1. tunnel' \in [Procs -> NodeIds \cup {None}]
      BY <1>2 DEF BentoTypeOK
    <3>2. QED
      BY <1>0, <2>1, <2>2, <3>1, StepTyped DEF BentoTypeOK
  <2>4. NodesBorn'
    BY <1>0, <2>0, <2>1 DEF NodesBorn, Listed, At
  <2>5. TunnelsKnown'
    <3>1. tunnel'[p] = None /\ \A q \in Procs : tunnel'[q] \in {None, tunnel[q]}
      BY <1>0, <1>2 DEF BentoTypeOK
    <3>2. TunnelledNodeIsKnown'
      BY <1>0, <3>1 DEF TunnelsKnown, TunnelledNodeIsKnown
    <3>3. \A u \in Provers : u # t =>
             ~Tunnelless(u)' /\ ~At(u, "connecting")' /\ ~At(u, "tunnelling")'
      BY <1>a, <2>1 DEF Tunnelless, At
    <3>4. QED
      BY <1>0, <2>0, <2>1, <3>1, <3>2, <3>3 DEF TunnelsKnown
  <2>6. QED
    BY <2>3, <2>4, <2>5
<1>3. QED
  BY <1>1, <1>2 DEF CheckTunnel

LEMMA FindNodeKeepsInv ==
    ASSUME BentoInv, NEW t \in Provers, FindNode(t), UNCHANGED <<down, stops, downs>>
    PROVE  BentoInv'
<1> USE DEF BentoInv
<1>0. InSession(t) /\ prover[t].stage = "finding"
  BY DEF InSession, FindNode, At, Finished
<1>1. CASE Raise(t)
  BY <1>0, <1>1, RaiseKeepsInv
<1>2. ASSUME NEW n \in IF Listed = {} THEN {None} ELSE Listed,
             prover[t].lookups < MaxLookups,
             prover' = [prover EXCEPT ![t].stage = "booting", ![t].host = n,
                                      ![t].lookups = @ + 1],
             UNCHANGED <<cloudVars, procVars, flock>>
      PROVE  BentoInv'
  <2>0. UNCHANGED <<strategy, nodes, born, flock, mutex, tunnel, nodeId, armed, fired,
                    down, stops, downs>>
    BY <1>2 DEF cloudVars, procVars
  <2>a. n \in Hosts /\ (n = None => Listed = {})
    BY BentoAssumption DEF Listed, NodeIds, Hosts
  <2>1. /\ prover' \in ProverType
        /\ prover'[t].stage = "booting" /\ prover'[t].host = n
        /\ \A u \in Provers : u # t => prover'[u] = prover[u]
    <3> DEFINE l == prover[t].lookups + 1
    <3>1. l \in 0..MaxLookups
      BY <1>2, BentoAssumption DEF BentoTypeOK
    <3>2. prover' = [prover EXCEPT ![t].stage = "booting", ![t].host = n, ![t].lookups = l]
      BY <1>2 DEF BentoTypeOK
    <3> HIDE DEF l
    <3>3. "booting" \in ProverStages
      BY DEF ProverStages
    <3>4. QED
      BY <2>a, <3>1, <3>2, <3>3, RecordMoves
  <2>2. InSession(t)'
    BY <2>1 DEF InSession, Finished
  <2>3. BentoTypeOK' /\ LocksHeld'
    BY <1>0, <2>0, <2>1, <2>2, StepTyped DEF BentoTypeOK
  <2>4. NodesBorn'
    BY <2>0, <2>1, <2>a DEF NodesBorn, Listed, At
  <2>5. TunnelsKnown'
    BY <1>0, <2>0, <2>1 DEF TunnelsKnown, TunnelledNodeIsKnown, Tunnelless, At
  <2>6. QED
    BY <2>3, <2>4, <2>5
<1>3. QED
  BY <1>1, <1>2 DEF FindNode

(* Ending a session from "booting", with the node created or powered on.   *)
(* The cloud may have changed, within what NodesBorn allows.                *)
LEMMA BootEnds ==
    ASSUME BentoInv, NEW t \in Provers, InSession(t),
           End(t, "failed"), ReleaseLocks(t),
           nodes' \in [NodeIds -> {"absent", "off", "running"}], born' \in 0..MaxNodes,
           \A n \in NodeIds : n > born' => nodes'[n] = "absent",
           \A m, n \in Listed' : m = n,
           UNCHANGED <<strategy, tunnel, nodeId, armed, fired, down, stops, downs>>
    PROVE  BentoInv'
<1> USE DEF BentoInv
<1>1. /\ prover' \in ProverType
      /\ prover'[t].stage = "failed"
      /\ \A u \in Provers : u # t => prover'[u] = prover[u]
  BY EndMoves DEF ProverStages
<1>2. /\ LocksHeld'
      /\ flock' = None
      /\ mutex' \in [Procs -> Provers \cup {None, Reaper}]
      /\ \A p \in Procs : mutex'[p] \notin Provers
      /\ \A p \in Procs : mutex'[p] = Reaper => mutex[p] = Reaper
  <2>1. "failed" \in Finished
    BY DEF Finished
  <2>2. QED
    BY <1>1, <2>1, SessionEndsLocks
<1>3. BentoTypeOK'
  BY <1>1, <1>2 DEF BentoTypeOK, ProverType
<1>4. NodesBorn'
  <2>1. \A u \in Provers : ~At(u, "booting")'
    BY <1>1, OthersHaveTunnel DEF At
  <2>2. QED
    BY <2>1 DEF NodesBorn
<1>5. TunnelsKnown'
  BY <1>1, <1>2 DEF TunnelsKnown, TunnelledNodeIsKnown, Tunnelless, At
<1>6. QED
  BY <1>2, <1>3, <1>4, <1>5

LEMMA BootGoesOn ==
    ASSUME BentoInv, NEW t \in Provers, prover[t].stage = "booting",
           prover' \in ProverType, prover'[t].stage = "waiting",
           \A u \in Provers : u # t => prover'[u] = prover[u],
           nodes' \in [NodeIds -> {"absent", "off", "running"}], born' \in 0..MaxNodes,
           \A n \in NodeIds : n > born' => nodes'[n] = "absent",
           \A m, n \in Listed' : m = n,
           UNCHANGED <<strategy, flock, mutex, tunnel, nodeId, armed, fired, down, stops, downs>>
    PROVE  BentoInv'
<1> USE DEF BentoInv
<1>1. InSession(t) /\ InSession(t)'
  BY DEF InSession, Finished
<1>2. BentoTypeOK' /\ LocksHeld'
  BY <1>1, StepTyped DEF BentoTypeOK
<1>3. NodesBorn'
  <2>1. \A u \in Provers : ~At(u, "booting")'
    BY <1>1, OthersHaveTunnel DEF At
  <2>2. QED
    BY <2>1 DEF NodesBorn
<1>4. TunnelsKnown'
  BY DEF TunnelsKnown, TunnelledNodeIsKnown, Tunnelless, At
<1>5. QED
  BY <1>2, <1>3, <1>4

LEMMA BootNodeKeepsInv ==
    ASSUME BentoInv, NEW t \in Provers, BootNode(t), UNCHANGED <<down, stops, downs>>
    PROVE  BentoInv'
<1> USE DEF BentoInv
<1>0. InSession(t) /\ prover[t].stage = "booting"
  BY DEF InSession, BootNode, At, Finished
<1>1. CASE Raise(t)
  BY <1>0, <1>1, RaiseKeepsInv
<1>2. CASE /\ prover[t].host = None /\ strategy = "e2e_recreate" /\ born < MaxNodes
           /\ born' = born + 1
           /\ nodes' = [nodes EXCEPT ![born + 1] = "running"]
           /\ UNCHANGED <<strategy, tunnel, nodeId, armed, fired>>
           /\ \/ /\ prover' = [prover EXCEPT ![t].stage = "waiting", ![t].host = born + 1]
                 /\ UNCHANGED <<flock, mutex>>
              \/ End(t, "failed") /\ ReleaseLocks(t)
  <2>1. /\ born + 1 \in NodeIds /\ born' \in 0..MaxNodes
        /\ nodes' \in [NodeIds -> {"absent", "off", "running"}]
        /\ \A n \in NodeIds : n > born' => nodes'[n] = "absent"
    BY <1>2, BentoAssumption DEF BentoTypeOK, NodesBorn, NodeIds
  <2>2. \A m, n \in Listed' : m = n
    <3>1. Listed = {}
      BY <1>0, <1>2 DEF NodesBorn, At
    <3>2. \A n \in NodeIds : nodes'[n] # "absent" => n = born + 1
      BY <1>2, <3>1 DEF Listed, BentoTypeOK
    <3>3. QED
      BY <3>2 DEF Listed
  <2>3. CASE End(t, "failed") /\ ReleaseLocks(t)
    BY <1>0, <1>2, <2>1, <2>2, <2>3, BootEnds
  <2>4. CASE /\ prover' = [prover EXCEPT ![t].stage = "waiting", ![t].host = born + 1]
             /\ UNCHANGED <<flock, mutex>>
    <3>1. /\ prover' \in ProverType
          /\ prover'[t].stage = "waiting"
          /\ \A u \in Provers : u # t => prover'[u] = prover[u]
      <4>1. born + 1 \in Hosts /\ "waiting" \in ProverStages
        BY <2>1 DEF Hosts, ProverStages
      <4>2. QED
        BY <2>4, <4>1, HostMoves
    <3>2. QED
      BY <1>0, <1>2, <2>1, <2>2, <2>4, <3>1, BootGoesOn
  <2>5. QED
    BY <1>2, <2>3, <2>4
<1>3. CASE /\ prover[t].host # None /\ prover[t].host \in Listed
           /\ nodes' = [nodes EXCEPT ![prover[t].host] = "running"]
           /\ UNCHANGED <<strategy, born, tunnel, nodeId, armed, fired>>
           /\ \/ Goto(t, "waiting") /\ UNCHANGED <<flock, mutex>>
              \/ End(t, "failed") /\ ReleaseLocks(t)
  <2>1. /\ born' \in 0..MaxNodes
        /\ nodes' \in [NodeIds -> {"absent", "off", "running"}]
        /\ Listed' = Listed
    BY <1>3 DEF BentoTypeOK, Listed
  <2>2. /\ \A n \in NodeIds : n > born' => nodes'[n] = "absent"
        /\ \A m, n \in Listed' : m = n
    <3>1. \A n \in NodeIds : nodes'[n] = "absent" <=> nodes[n] = "absent"
      BY <2>1 DEF Listed
    <3>2. QED
      BY <1>3, <2>1, <3>1 DEF NodesBorn
  <2>3. CASE End(t, "failed") /\ ReleaseLocks(t)
    BY <1>0, <1>3, <2>1, <2>2, <2>3, BootEnds
  <2>4. CASE Goto(t, "waiting") /\ UNCHANGED <<flock, mutex>>
    <3>1. /\ prover' \in ProverType
          /\ prover'[t].stage = "waiting"
          /\ \A u \in Provers : u # t => prover'[u] = prover[u]
      BY <2>4, GotoMoves DEF ProverStages, Goto
    <3>2. QED
      BY <1>0, <1>3, <2>1, <2>2, <2>4, <3>1, BootGoesOn
  <2>5. QED
    BY <1>3, <2>3, <2>4
<1>4. QED
  BY <1>1, <1>2, <1>3 DEF BootNode

LEMMA WaitRunningKeepsInv ==
    ASSUME BentoInv, NEW t \in Provers, WaitRunning(t), UNCHANGED <<down, stops, downs>>
    PROVE  BentoInv'
<1> USE DEF BentoInv
<1> DEFINE p == ProcOf[t]
<1>0. InSession(t) /\ prover[t].stage = "waiting" /\ p \in Procs
  BY BentoAssumption DEF InSession, WaitRunning, At, Finished
<1>1. CASE Raise(t)
  BY <1>0, <1>1, RaiseKeepsInv
<1>2. CASE /\ nodeId' = [nodeId EXCEPT ![p] = prover[t].host]
           /\ Goto(t, "connecting")
           /\ UNCHANGED <<cloudVars, mutex, tunnel, armed, fired, flock>>
  <2>1. /\ prover' \in ProverType
        /\ prover'[t].stage = "connecting" /\ prover'[t].host = prover[t].host
        /\ \A u \in Provers : u # t => prover'[u] = prover[u]
    BY <1>2, GotoMoves DEF ProverStages, Goto
  <2>2. UNCHANGED <<strategy, nodes, born, flock, mutex, tunnel, armed, fired,
                    down, stops, downs>>
    BY <1>2 DEF cloudVars
  <2>3. InSession(t)'
    BY <2>1 DEF InSession, Finished
  <2>a. nodeId' \in [Procs -> NodeIds \cup {None}]
        /\ nodeId'[p] = prover[t].host
        /\ \A q \in Procs : q # p => nodeId'[q] = nodeId[q]
    <3>1. prover[t].host \in Hosts /\ nodeId \in [Procs -> Hosts]
      BY DEF BentoTypeOK, Hosts
    <3>2. QED
      BY <1>0, <1>2, <3>1 DEF Hosts
  <2>4. BentoTypeOK' /\ LocksHeld'
    BY <1>0, <2>1, <2>2, <2>3, <2>a, StepTyped DEF BentoTypeOK
  <2>5. NodesBorn'
    BY <2>1, <2>2 DEF NodesBorn, Listed, At
  <2>6. TunnelsKnown'
    <3>1. tunnel[p] = None
      BY <1>0 DEF TunnelsKnown, Tunnelless
    <3>2. TunnelledNodeIsKnown'
      BY <2>2, <2>a, <3>1 DEF TunnelsKnown, TunnelledNodeIsKnown
    <3>3. \A u \in Provers : u # t =>
             ~Tunnelless(u)' /\ ~At(u, "connecting")' /\ ~At(u, "tunnelling")'
      BY <1>0, <2>1, OthersHaveTunnel DEF Tunnelless, At
    <3>4. QED
      BY <2>1, <2>2, <2>a, <3>1, <3>2, <3>3 DEF TunnelsKnown
  <2>7. QED
    BY <2>4, <2>5, <2>6
<1>3. QED
  BY <1>1, <1>2 DEF WaitRunning

LEMMA OpenTunnelKeepsInv ==
    ASSUME BentoInv, NEW t \in Provers, OpenTunnel(t), UNCHANGED <<down, stops, downs>>
    PROVE  BentoInv'
<1> USE DEF BentoInv
<1> DEFINE p == ProcOf[t]
<1>0. /\ InSession(t) /\ prover[t].stage = "tunnelling" /\ p \in Procs
      /\ UNCHANGED <<strategy, nodes, born, flock, mutex, armed, fired, down, stops, downs>>
  BY BentoAssumption DEF InSession, OpenTunnel, At, Finished, cloudVars
<1>a. /\ mutex[p] = t /\ tunnel[p] = None /\ prover[t].host = nodeId[p]
      /\ mutex[p] # Reaper
  BY <1>0, BentoAssumption DEF LocksHeld, TunnelsKnown, Tunnelless, At
<1>1. CASE /\ tunnel' = [tunnel EXCEPT ![p] = prover[t].host]
           /\ Goto(t, "proving")
           /\ UNCHANGED nodeId
  <2>1. /\ prover' \in ProverType
        /\ prover'[t].stage = "proving"
        /\ \A u \in Provers : u # t => prover'[u] = prover[u]
    BY <1>1, GotoMoves DEF ProverStages, Goto
  <2>2. InSession(t)'
    BY <2>1 DEF InSession, Finished
  <2>3. /\ tunnel' \in [Procs -> NodeIds \cup {None}]
        /\ tunnel'[p] = nodeId[p]
        /\ \A q \in Procs : q # p => tunnel'[q] = tunnel[q]
    <3>1. nodeId[p] \in Hosts /\ tunnel \in [Procs -> Hosts]
      BY <1>0 DEF BentoTypeOK, Hosts
    <3>2. QED
      BY <1>0, <1>1, <1>a, <3>1 DEF Hosts
  <2>4. BentoTypeOK' /\ LocksHeld'
    BY <1>0, <1>1, <2>1, <2>2, <2>3, StepTyped DEF BentoTypeOK
  <2>5. NodesBorn'
    BY <1>0, <2>1 DEF NodesBorn, Listed, At
  <2>6. TunnelsKnown'
    <3>1. TunnelledNodeIsKnown'
      BY <1>1, <2>3 DEF TunnelsKnown, TunnelledNodeIsKnown
    <3>2. \A u \in Provers :
             ~Tunnelless(u)' /\ ~At(u, "connecting")' /\ ~At(u, "tunnelling")'
      BY <1>0, <2>1, OthersHaveTunnel DEF Tunnelless, At
    <3>3. QED
      BY <1>0, <1>a, <2>3, <3>1, <3>2 DEF TunnelsKnown
  <2>7. QED
    BY <2>4, <2>5, <2>6
<1>2. CASE /\ nodeId' = [nodeId EXCEPT ![p] = None]
           /\ Goto(t, "finding")
           /\ UNCHANGED tunnel
  <2>1. /\ prover' \in ProverType
        /\ prover'[t].stage = "finding"
        /\ \A u \in Provers : u # t => prover'[u] = prover[u]
    BY <1>2, GotoMoves DEF ProverStages, Goto
  <2>2. InSession(t)'
    BY <2>1 DEF InSession, Finished
  <2>3. /\ nodeId' \in [Procs -> NodeIds \cup {None}]
        /\ \A q \in Procs : q # p => nodeId'[q] = nodeId[q]
    BY <1>0, <1>2 DEF BentoTypeOK
  <2>4. BentoTypeOK' /\ LocksHeld'
    BY <1>0, <1>2, <2>1, <2>2, <2>3, StepTyped DEF BentoTypeOK
  <2>5. NodesBorn'
    BY <1>0, <2>1 DEF NodesBorn, Listed, At
  <2>6. TunnelsKnown'
    <3>1. TunnelledNodeIsKnown'
      BY <1>2, <1>a, <2>3 DEF TunnelsKnown, TunnelledNodeIsKnown
    <3>2. \A u \in Provers : u # t =>
             ~Tunnelless(u)' /\ ~At(u, "connecting")' /\ ~At(u, "tunnelling")'
      BY <1>0, <2>1, OthersHaveTunnel DEF Tunnelless, At
    <3>3. QED
      BY <1>0, <1>2, <1>a, <2>1, <3>1, <3>2 DEF TunnelsKnown, At
  <2>7. QED
    BY <2>4, <2>5, <2>6
<1>3. QED
  BY <1>0, <1>1, <1>2 DEF OpenTunnel

(* A timer firing moves no lock and no node.                                *)
LEMMA TimerFiresKeepsInv ==
    ASSUME BentoInv, NEW p \in Procs, TimerFires(p), UNCHANGED <<down, stops, downs>>
    PROVE  BentoInv'
<1> USE DEF BentoInv
<1>0. /\ armed' = [armed EXCEPT ![p] = FALSE]
      /\ fired' = [fired EXCEPT ![p] = @ + 1]
      /\ UNCHANGED <<strategy, nodes, born, flock, mutex, tunnel, nodeId, prover,
                     down, stops, downs>>
  BY DEF TimerFires, cloudVars
<1>1. BentoTypeOK'
  BY <1>0 DEF BentoTypeOK
<1>2. LocksHeld'
  BY <1>0 DEF LocksHeld, Open, InSession
<1>3. NodesBorn'
  BY <1>0 DEF NodesBorn, Listed, At
<1>4. TunnelsKnown'
  BY <1>0 DEF TunnelsKnown, TunnelledNodeIsKnown, Tunnelless, At
<1>5. QED
  BY <1>1, <1>2, <1>3, <1>4

(* A reaper enters only while no session of its process has the mutex.      *)
LEMMA ReaperEntersKeepsInv ==
    ASSUME BentoInv, NEW p \in Procs, ReaperEnters(p), UNCHANGED <<down, stops, downs>>
    PROVE  BentoInv'
<1> USE DEF BentoInv
<1>0. /\ fired[p] > 0 /\ mutex[p] = None
      /\ fired' = [fired EXCEPT ![p] = @ - 1]
      /\ tunnel' = [tunnel EXCEPT ![p] = None]
      /\ mutex' = [mutex EXCEPT ![p] = IF nodeId[p] = None THEN None ELSE Reaper]
      /\ UNCHANGED <<strategy, nodes, born, flock, nodeId, armed, prover, down, stops, downs>>
  BY DEF ReaperEnters, cloudVars
<1>a. /\ mutex'[p] \in {None, Reaper}
      /\ \A q \in Procs : q # p => mutex'[q] = mutex[q]
      /\ tunnel'[p] = None
      /\ \A q \in Procs : q # p => tunnel'[q] = tunnel[q]
  BY <1>0 DEF BentoTypeOK
<1>1. BentoTypeOK'
  BY <1>0, <1>a, BentoAssumption DEF BentoTypeOK
<1>2. LocksHeld'
  <2>1. \A t \in Provers : InSession(t) => ProcOf[t] # p
    BY <1>0, BentoAssumption DEF LocksHeld
  <2>2. \A t \in Provers : InSession(t) => mutex'[ProcOf[t]] = mutex[ProcOf[t]]
    BY <1>a, <2>1, BentoAssumption
  <2>3. QED
    BY <1>0, <2>2 DEF LocksHeld, Open, InSession
<1>3. NodesBorn'
  BY <1>0 DEF NodesBorn, Listed, At
<1>4. TunnelsKnown'
  BY <1>0, <1>a, BentoAssumption DEF TunnelsKnown, TunnelledNodeIsKnown, Tunnelless, At
<1>5. QED
  BY <1>1, <1>2, <1>3, <1>4

(* Retiring a listed node keeps every other node, and lists no new one.     *)
LEMMA RetireKeepsNodes ==
    ASSUME BentoTypeOK, NodesBorn, NEW n \in Listed,
           nodes' = [nodes EXCEPT ![n] = Retired], UNCHANGED <<born, prover>>
    PROVE  /\ nodes' \in [NodeIds -> {"absent", "off", "running"}]
           /\ NodesBorn'
<1>1. Retired \in {"absent", "off", "running"} /\ n \in NodeIds /\ nodes[n] # "absent"
  BY DEF Retired, Listed
<1>2. nodes' \in [NodeIds -> {"absent", "off", "running"}]
  BY <1>1 DEF BentoTypeOK
<1>3. \A m \in NodeIds : nodes[m] = "absent" => nodes'[m] = "absent"
  BY <1>1 DEF BentoTypeOK
<1>4. Listed' \subseteq Listed
  BY <1>3 DEF Listed
<1>5. QED
  BY <1>2, <1>3, <1>4 DEF NodesBorn, At

LEMMA ReaperRetiresKeepsInv ==
    ASSUME BentoInv, NEW p \in Procs, ReaperRetires(p), UNCHANGED <<down, stops, downs>>
    PROVE  BentoInv'
<1> USE DEF BentoInv
<1>0. /\ mutex[p] = Reaper
      /\ mutex' = [mutex EXCEPT ![p] = None]
      /\ UNCHANGED <<strategy, born, tunnel, armed, fired, flock, prover, down, stops, downs>>
  BY DEF ReaperRetires
<1>a. /\ mutex'[p] = None
      /\ \A q \in Procs : q # p => mutex'[q] = mutex[q]
      /\ mutex' \in [Procs -> Provers \cup {None, Reaper}]
  BY <1>0 DEF BentoTypeOK
<1>b. /\ nodes' \in [NodeIds -> {"absent", "off", "running"}]
      /\ NodesBorn'
  <2>1. CASE nodeId[p] \in Listed /\ nodes' = [nodes EXCEPT ![nodeId[p]] = Retired]
    BY <1>0, <2>1, RetireKeepsNodes
  <2>2. CASE UNCHANGED nodes
    BY <1>0, <2>2 DEF NodesBorn, Listed, At, BentoTypeOK
  <2>3. QED
    BY <2>1, <2>2 DEF ReaperRetires
<1>c. /\ nodeId' \in [Procs -> NodeIds \cup {None}]
      /\ \A q \in Procs : q # p => nodeId'[q] = nodeId[q]
  <2>1. nodeId' \in {nodeId, [nodeId EXCEPT ![p] = None]}
    BY DEF ReaperRetires
  <2>2. QED
    BY <2>1 DEF BentoTypeOK
<1>d. \A t \in Provers : InSession(t) => ProcOf[t] # p
  BY <1>0, BentoAssumption DEF LocksHeld
<1>1. BentoTypeOK'
  BY <1>0, <1>a, <1>b, <1>c, BentoAssumption DEF BentoTypeOK
<1>2. LocksHeld'
  <2>1. \A t \in Provers : InSession(t) => mutex'[ProcOf[t]] = mutex[ProcOf[t]]
    BY <1>a, <1>d, BentoAssumption
  <2>2. QED
    BY <1>0, <2>1 DEF LocksHeld, Open, InSession
<1>4. TunnelsKnown'
  <2>1. tunnel[p] = None
    BY <1>0 DEF TunnelsKnown
  <2>2. TunnelledNodeIsKnown'
    BY <1>0, <1>c, <2>1 DEF TunnelsKnown, TunnelledNodeIsKnown
  <2>3. \A t \in Provers :
            At(t, "connecting") \/ At(t, "tunnelling") => nodeId'[ProcOf[t]] = nodeId[ProcOf[t]]
    <3>1. \A t \in Provers : At(t, "connecting") \/ At(t, "tunnelling") => InSession(t)
      BY DEF At, InSession, Finished
    <3>2. QED
      BY <1>c, <1>d, <3>1, BentoAssumption
  <2>4. \A q \in Procs : mutex'[q] = Reaper => tunnel'[q] = None
    BY <1>0, <1>a, BentoAssumption DEF TunnelsKnown
  <2>5. QED
    BY <1>0, <2>2, <2>3, <2>4 DEF TunnelsKnown, Tunnelless, At
<1>5. QED
  BY <1>1, <1>2, <1>b, <1>4

LEMMA DownKeepsInv ==
    ASSUME BentoInv, DownFinds \/ DownRetires,
           UNCHANGED <<strategy, born, procVars, flock, prover, stops>>
    PROVE  BentoInv'
<1> USE DEF BentoInv
<1>0. UNCHANGED <<strategy, born, flock, mutex, tunnel, nodeId, armed, fired, prover, stops>>
  BY DEF procVars
<1>1. /\ nodes' \in [NodeIds -> {"absent", "off", "running"}]
      /\ NodesBorn'
  <2>1. CASE down \in Listed /\ nodes' = [nodes EXCEPT ![down] = Retired]
    BY <1>0, <2>1, RetireKeepsNodes
  <2>2. CASE UNCHANGED nodes
    BY <1>0, <2>2 DEF NodesBorn, Listed, At, BentoTypeOK
  <2>3. QED
    BY <2>1, <2>2 DEF DownFinds, DownRetires
<1>2. down' \in NodeIds \cup {None} /\ downs' \in 0..MaxDowns
  <2>1. CASE DownFinds
    BY <2>1, BentoAssumption DEF DownFinds, Listed, BentoTypeOK
  <2>2. CASE DownRetires
    BY <2>2 DEF DownRetires, BentoTypeOK
  <2>3. QED
    BY <2>1, <2>2
<1>3. BentoTypeOK'
  BY <1>0, <1>1, <1>2 DEF BentoTypeOK
<1>4. LocksHeld'
  BY <1>0 DEF LocksHeld, Open, InSession
<1>5. TunnelsKnown'
  BY <1>0 DEF TunnelsKnown, TunnelledNodeIsKnown, Tunnelless, At
<1>6. QED
  BY <1>1, <1>3, <1>4, <1>5

(* A process that stops takes its calls, its locks and its memory with it.  *)
LEMMA StopProcessKeepsInv ==
    ASSUME BentoInv, NEW p \in Procs, StopProcess(p), UNCHANGED <<down, downs>>
    PROVE  BentoInv'
<1> USE DEF BentoInv
<1>0. /\ stops < MaxStops /\ stops' = stops + 1
      /\ prover' = [t \in Provers |->
                       IF ProcOf[t] = p /\ Open(t) THEN Over("killed") ELSE prover[t]]
      /\ flock' = IF flock # None /\ ProcOf[flock] = p THEN None ELSE flock
      /\ mutex' = [mutex EXCEPT ![p] = None]
      /\ tunnel' = [tunnel EXCEPT ![p] = None]
      /\ nodeId' = [nodeId EXCEPT ![p] = None]
      /\ armed' = [armed EXCEPT ![p] = FALSE]
      /\ fired' = [fired EXCEPT ![p] = 0]
      /\ UNCHANGED <<strategy, nodes, born, down, downs>>
  BY DEF StopProcess, cloudVars, Open
<1>a. /\ prover' \in ProverType
      /\ \A t \in Provers :
             \/ prover'[t].stage = "killed" /\ ProcOf[t] = p
             \/ prover'[t] = prover[t] /\ (Open(t) => ProcOf[t] # p)
  <2>1. Over("killed") \in [stage : ProverStages, host : NodeIds \cup {None},
                            lookups : 0..MaxLookups]
        /\ Over("killed").stage = "killed"
    BY BentoAssumption DEF Over, ProverStages
  <2>2. \A t \in Provers : prover[t] \in [stage : ProverStages, host : NodeIds \cup {None},
                                          lookups : 0..MaxLookups]
    BY DEF BentoTypeOK
  <2> HIDE DEF BentoInv
  <2>3. QED
    BY <1>0, <2>1, <2>2 DEF ProverType
<1>b. /\ mutex' \in [Procs -> Provers \cup {None, Reaper}]
      /\ mutex'[p] = None /\ \A q \in Procs : q # p => mutex'[q] = mutex[q]
  BY <1>0 DEF BentoTypeOK
<1>c. /\ tunnel' \in [Procs -> NodeIds \cup {None}]
      /\ tunnel'[p] = None /\ \A q \in Procs : q # p => tunnel'[q] = tunnel[q]
  BY <1>0 DEF BentoTypeOK
<1>d. /\ nodeId' \in [Procs -> NodeIds \cup {None}]
      /\ nodeId'[p] = None /\ \A q \in Procs : q # p => nodeId'[q] = nodeId[q]
  BY <1>0 DEF BentoTypeOK
<1>e. \A t \in Provers : Open(t)' => Open(t) /\ ProcOf[t] # p /\ prover'[t] = prover[t]
  BY <1>a DEF Open, Finished
<1>1. BentoTypeOK'
  <2>1. flock' \in Provers \cup {None} /\ (flock' # None => Open(flock)')
    <3>1. CASE flock' = None
      BY <3>1
    <3>2. CASE flock' # None
      <4>1. flock' = flock /\ flock \in Provers /\ ProcOf[flock] # p /\ Open(flock)
        BY <1>0, <3>2 DEF BentoTypeOK, Open
      <4>2. prover'[flock] = prover[flock]
        BY <1>a, <4>1
      <4>3. QED
        BY <4>1, <4>2 DEF Open
    <3>3. QED
      BY <3>1, <3>2
  <2>2. \A q \in Procs : mutex'[q] \in Provers =>
            ProcOf[mutex'[q]] = q /\ Open(mutex[q])'
    <3>1. SUFFICES ASSUME NEW q \in Procs, mutex'[q] \in Provers
                   PROVE  ProcOf[mutex'[q]] = q /\ Open(mutex[q])'
      OBVIOUS
    <3>2. q # p /\ mutex'[q] = mutex[q]
      BY <1>b, <3>1, BentoAssumption
    <3>3. ProcOf[mutex[q]] = q /\ Open(mutex[q])
      BY <3>1, <3>2 DEF BentoTypeOK, Open
    <3>4. prover'[mutex[q]] = prover[mutex[q]]
      BY <1>a, <3>1, <3>2, <3>3
    <3>5. QED
      BY <3>2, <3>3, <3>4 DEF Open
  <2>3. armed' \in [Procs -> BOOLEAN] /\ fired' \in [Procs -> Nat] /\ stops' \in 0..MaxStops
    BY <1>0, BentoAssumption DEF BentoTypeOK
  <2>4. QED
    BY <1>0, <1>a, <1>b, <1>c, <1>d, <2>1, <2>2, <2>3 DEF BentoTypeOK, ProverType, Open
<1>2. LocksHeld'
  <2>1. \A t \in Provers : Open(t)' => flock' = t
    BY <1>0, <1>e, BentoAssumption DEF LocksHeld
  <2>2. \A t \in Provers : InSession(t)' => mutex'[ProcOf[t]] = t
    <3>1. \A t \in Provers : InSession(t)' => InSession(t) /\ ProcOf[t] # p
      BY <1>e DEF InSession, Open
    <3>2. QED
      BY <1>b, <3>1, BentoAssumption DEF LocksHeld
  <2>3. QED
    BY <2>1, <2>2 DEF LocksHeld
<1>3. NodesBorn'
  <2>1. \A t \in Provers : At(t, "booting")' => prover'[t] = prover[t]
    BY <1>a DEF At
  <2>2. QED
    BY <1>0, <2>1 DEF NodesBorn, Listed, At
<1>4. TunnelsKnown'
  <2>1. \A t \in Provers : Tunnelless(t)' => prover'[t] = prover[t] /\ ProcOf[t] # p
    BY <1>e DEF Tunnelless, Open, Finished
  <2>2. TunnelledNodeIsKnown'
    BY <1>c, <1>d DEF TunnelsKnown, TunnelledNodeIsKnown
  <2>3. \A t \in Provers : Tunnelless(t)' => tunnel'[ProcOf[t]] = None
    BY <1>c, <2>1, BentoAssumption DEF TunnelsKnown, Tunnelless
  <2>4. \A t \in Provers : (At(t, "connecting") \/ At(t, "tunnelling"))'
            => prover'[t].host = nodeId'[ProcOf[t]]
    BY <1>d, <2>1, BentoAssumption DEF TunnelsKnown, Tunnelless, At
  <2>5. \A q \in Procs : mutex'[q] = Reaper => tunnel'[q] = None
    BY <1>b, <1>c DEF TunnelsKnown
  <2>6. QED
    BY <2>2, <2>3, <2>4, <2>5 DEF TunnelsKnown
<1>5. QED
  BY <1>1, <1>2, <1>3, <1>4
-----------------------------------------------------------------------------
LEMMA StepKeepsInv == BentoInv /\ [BentoNext]_bentoVars => BentoInv'
<1> SUFFICES ASSUME BentoInv, [BentoNext]_bentoVars PROVE BentoInv'
  OBVIOUS
<1>1. ASSUME NEW t \in Provers, SessionStep(t), UNCHANGED <<down, stops, downs>>
      PROVE  BentoInv'
  BY <1>1, TakeFlockKeepsInv, TakeMutexKeepsInv, CheckTunnelKeepsInv, FindNodeKeepsInv,
     BootNodeKeepsInv, WaitRunningKeepsInv, ConnectKeepsInv, OpenTunnelKeepsInv,
     ProveEndsKeepsInv DEF SessionStep
<1>2. ASSUME NEW p \in Procs, TimerFires(p) \/ ReaperStep(p), UNCHANGED <<down, stops, downs>>
      PROVE  BentoInv'
  BY <1>2, TimerFiresKeepsInv, ReaperEntersKeepsInv, ReaperRetiresKeepsInv DEF ReaperStep
<1>3. CASE (DownFinds \/ DownRetires) /\ UNCHANGED <<strategy, born, procVars, flock, prover, stops>>
  BY <1>3, DownKeepsInv
<1>4. ASSUME NEW p \in Procs, StopProcess(p), UNCHANGED <<down, downs>>
      PROVE  BentoInv'
  BY <1>4, StopProcessKeepsInv
<1>5. CASE UNCHANGED bentoVars
  <2>1. UNCHANGED <<strategy, nodes, born, flock, mutex, tunnel, nodeId, armed, fired,
                    prover, down, stops, downs>>
    BY <1>5 DEF bentoVars, cloudVars, procVars
  <2>2. BentoTypeOK'
    BY <2>1 DEF BentoInv, BentoTypeOK
  <2>3. LocksHeld'
    BY <2>1 DEF BentoInv, LocksHeld, Open, InSession
  <2>4. NodesBorn'
    BY <2>1 DEF BentoInv, NodesBorn, Listed, At
  <2>5. TunnelsKnown'
    BY <2>1 DEF BentoInv, TunnelsKnown, TunnelledNodeIsKnown, Tunnelless, At
  <2>6. QED
    BY <2>2, <2>3, <2>4, <2>5 DEF BentoInv
<1>6. QED
  BY <1>1, <1>2, <1>3, <1>4, <1>5 DEF BentoNext

LEMMA InvHolds == BentoSpec => []BentoInv
<1>1. BentoInit => BentoInv
  BY InitEstablishesInv
<1>2. BentoInv /\ [BentoNext]_bentoVars => BentoInv'
  BY StepKeepsInv
<1>3. QED
  BY <1>1, <1>2, PTL DEF BentoSpec

(* Types, and that whoever holds the flock or a mutex as a prove call is a  *)
(* session under way (session, _LOCK, _mutex of bento_node.py): no call     *)
(* ends and leaves a lock behind, however it ends.                          *)
THEOREM BentoTypeCorrect == BentoSpec => []BentoTypeOK
<1>1. BentoInv => BentoTypeOK
  BY DEF BentoInv
<1>2. QED
  BY <1>1, InvHolds, PTL

(* One session at a time: the flock orders the processes, the mutex keeps   *)
(* the timers of the session's own process out.                             *)
THEOREM SessionsAreSerial == BentoSpec => []OneSession
<1>1. BentoInv => OneSession
  <2>1. SUFFICES ASSUME LocksHeld, NEW t \in Provers, InSession(t)
                 PROVE  /\ mutex[ProcOf[t]] = t
                        /\ \A u \in Provers : InSession(u) => u = t
    BY DEF BentoInv, OneSession
  <2>2. Open(t)
    BY <2>1 DEF Open, InSession
  <2>3. QED
    BY <2>1, <2>2, OneOpen DEF LocksHeld
<1>2. QED
  BY <1>1, InvHolds, PTL

(* Never two nodes of the configured name: find_node and create_node are    *)
(* two requests, and between them no other session, timer or "down" can     *)
(* create one.                                                              *)
THEOREM NeverTwoNodes == BentoSpec => []OneNode
<1>1. BentoInv => OneNode
  <2>1. SUFFICES ASSUME NodesBorn PROVE Cardinality(Listed) <= 1
    BY DEF BentoInv, OneNode
  <2>2. CASE Listed = {}
    BY <2>2, FS_EmptySet
  <2>3. CASE Listed # {}
    <3>1. PICK n \in Listed : Listed = {n}
      BY <2>1, <2>3 DEF NodesBorn
    <3>2. Cardinality({n}) = 1
      BY FS_Singleton
    <3>3. QED
      BY <3>1, <3>2
  <2>4. QED
    BY <2>2, <2>3
<1>2. QED
  BY <1>1, InvHolds, PTL

(* A tunnel always leads to the node its process remembers, the one its     *)
(* reaper retires: _ensure_endpoint, _retire_node and the retry between     *)
(* them never part the two.                                                 *)
THEOREM TunnelsAreKnown == BentoSpec => []TunnelledNodeIsKnown
<1>1. BentoInv => TunnelledNodeIsKnown
  BY DEF BentoInv, TunnelsKnown
<1>2. QED
  BY <1>1, InvHolds, PTL
=============================================================================
