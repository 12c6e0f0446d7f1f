----------------------------- MODULE BentoNode -----------------------------
(***************************************************************************)
(* ml/risc0/bento_node.py: the scale-to-zero GPU node that proves.  A      *)
(* prove call opens a session: the cross-process flock, the process's      *)
(* mutex, its idle timer cancelled, a live node and tunnel found or built; *)
(* the host binary runs against it, and the timer is armed again.  A timer *)
(* that fires retires the node under the mutex alone.  Any process may be  *)
(* stopped, and an operator may run the "down" command beside them.        *)
(*                                                                         *)
(* The cloud API and the node are external: a request may fail before or   *)
(* after it takes effect, and a running node may be slow to answer.        *)
(***************************************************************************)
EXTENDS Naturals, FiniteSets

CONSTANTS
    Provers,        \* the prove_wallet calls made, one thread each
    Procs,          \* the processes that import the module
    ProcOf,         \* the process of each call
    None,
    Reaper,         \* the holder of a mutex that is not a prove call
    MaxNodes,       \* bound on the nodes ever created
    MaxLookups,     \* the lookups a session can recurse into (recursion limit)
    MaxStops,       \* bound on processes stopped
    MaxDowns        \* bound on "down" commands

ASSUME BentoAssumption ==
    /\ ProcOf \in [Provers -> Procs]
    /\ None \notin Provers /\ Reaper \notin Provers \cup {None}
    /\ MaxNodes \in Nat \ {0} /\ MaxLookups \in Nat \ {0}
    /\ None \notin 1..MaxNodes
    /\ MaxStops \in Nat /\ MaxDowns \in Nat

VARIABLES
    strategy,       \* bento_strategy, configuration
    nodes,          \* the cloud: each node's power state, absent if not there
    born,           \* nodes created so far
    flock,          \* the holder of bento.lock
    mutex,          \* of each process: the holder of _mutex
    tunnel,         \* of each process: the node _tunnel leads to
    nodeId,         \* of each process: _node_id, and _node_ip with it
    armed,          \* of each process: _reaper is counting down
    fired,          \* of each process: timer threads waiting for the mutex
    prover,         \* of each call: its step, its host, its lookups
    down,           \* the node a "down" command has found
    stops, downs

cloudVars == <<strategy, nodes, born>>
procVars  == <<mutex, tunnel, nodeId, armed, fired>>
bentoVars == <<cloudVars, procVars, flock, prover, down, stops, downs>>

NodeIds == 1..MaxNodes

ProverStages ==
    {"idle", "locked", "checking", "finding", "booting", "waiting", "connecting",
     "tunnelling", "proving", "proved", "failed", "unreachable", "killed"}

Finished == {"proved", "failed", "unreachable", "killed"}

\* Types, and that a lock's holder is a session under way.
BentoTypeOK ==
    /\ strategy \in {"e2e_stop", "e2e_recreate"}
    /\ nodes \in [NodeIds -> {"absent", "off", "running"}]
    /\ born \in 0..MaxNodes
    /\ flock \in Provers \cup {None}
    /\ mutex \in [Procs -> Provers \cup {None, Reaper}]
    /\ tunnel \in [Procs -> NodeIds \cup {None}]
    /\ nodeId \in [Procs -> NodeIds \cup {None}]
    /\ armed \in [Procs -> BOOLEAN]
    /\ fired \in [Procs -> Nat]
    /\ prover \in [Provers -> [stage : ProverStages, host : NodeIds \cup {None},
                               lookups : 0..MaxLookups]]
    /\ down \in NodeIds \cup {None}
    /\ stops \in 0..MaxStops /\ downs \in 0..MaxDowns
    /\ flock # None => prover[flock].stage \notin Finished \cup {"idle"}
    /\ \A p \in Procs : mutex[p] \in Provers =>
           ProcOf[mutex[p]] = p /\ prover[mutex[p]].stage \notin Finished \cup {"idle"}

\* A prove call with none of the variables of its session.
Over(stage) == [stage |-> stage, host |-> None, lookups |-> 0]

\* Under e2e_stop the node exists and is off; under e2e_recreate there is none.
BentoInit ==
    /\ \/ strategy = "e2e_recreate" /\ born = 0 /\ nodes = [n \in NodeIds |-> "absent"]
       \/ strategy = "e2e_stop" /\ born = 1
          /\ nodes = [n \in NodeIds |-> IF n = 1 THEN "off" ELSE "absent"]
    /\ flock = None
    /\ mutex = [p \in Procs |-> None]
    /\ tunnel = [p \in Procs |-> None]
    /\ nodeId = [p \in Procs |-> None]
    /\ armed = [p \in Procs |-> FALSE]
    /\ fired = [p \in Procs |-> 0]
    /\ prover = [t \in Provers |-> Over("idle")]
    /\ down = None
    /\ stops = 0 /\ downs = 0

NodeUp(n) == nodes[n] = "running"
Listed == {n \in NodeIds : nodes[n] # "absent"}

\* What retiring does to a node: delete, or power off.
Retired == IF strategy = "e2e_recreate" THEN "absent" ELSE "off"

At(t, stage) == prover[t].stage = stage
Goto(t, stage) == prover' = [prover EXCEPT ![t].stage = stage]

End(t, stage) == prover' = [prover EXCEPT ![t] = Over(stage)]

\* Leaving the with blocks, normally or by an exception.
ReleaseLocks(t) ==
    /\ flock' = None
    /\ mutex' = [mutex EXCEPT ![ProcOf[t]] = None]

Raise(t) ==
    /\ End(t, "failed")
    /\ ReleaseLocks(t)
    /\ UNCHANGED <<cloudVars, tunnel, nodeId, armed, fired>>
-----------------------------------------------------------------------------
TakeFlock_NoLock(t) ==          \* mutant: the lock file is not locked
    /\ At(t, "idle")
    /\ flock' = t
    /\ Goto(t, "locked")
    /\ UNCHANGED <<cloudVars, procVars>>

(* session: flock(LOCK_EX) ...                                             *)
TakeFlock(t) ==
    /\ At(t, "idle") /\ flock = None
    /\ flock' = t
    /\ Goto(t, "locked")
    /\ UNCHANGED <<cloudVars, procVars>>

(* ... the mutex, and the timer is cancelled, though not one that fired.   *)
TakeMutex(t) ==
    /\ At(t, "locked") /\ mutex[ProcOf[t]] = None
    /\ mutex' = [mutex EXCEPT ![ProcOf[t]] = t]
    /\ armed' = [armed EXCEPT ![ProcOf[t]] = FALSE]
    /\ Goto(t, "checking")
    /\ UNCHANGED <<cloudVars, tunnel, nodeId, fired, flock>>

(* _ensure_endpoint: a healthy tunnel is used as it is, any other closed.  *)
CheckTunnel(t) ==
    LET p == ProcOf[t] IN
    /\ At(t, "checking")
    /\ \/ /\ tunnel[p] # None /\ NodeUp(tunnel[p])
          /\ prover' = [prover EXCEPT ![t].stage = "proving", ![t].host = tunnel[p]]
          /\ UNCHANGED tunnel
       \/ /\ tunnel' = [tunnel EXCEPT ![p] = None]
          /\ prover' = [prover EXCEPT ![t].stage = IF nodeId[p] = None THEN "finding"
                                                                      ELSE "connecting",
                                      ![t].host = nodeId[p]]
    /\ UNCHANGED <<cloudVars, mutex, nodeId, armed, fired, flock>>

(* _ensure_node: the node of the configured name, ...                      *)
FindNode(t) ==
    /\ At(t, "finding")
    /\ \/ /\ prover[t].lookups < MaxLookups
          /\ \E n \in IF Listed = {} THEN {None} ELSE Listed :
                 prover' = [prover EXCEPT ![t].stage = "booting", ![t].host = n,
                                          ![t].lookups = @ + 1]
          /\ UNCHANGED <<cloudVars, procVars, flock>>
       \/ Raise(t)

(* ... created when there is none, or powered on; the request may fail,    *)
(* or take effect and its answer be lost.                                  *)
BootNode(t) ==
    /\ At(t, "booting")
    /\ \/ /\ prover[t].host = None /\ strategy = "e2e_recreate" /\ born < MaxNodes
          /\ born' = born + 1
          /\ nodes' = [nodes EXCEPT ![born + 1] = "running"]
          /\ UNCHANGED <<strategy, tunnel, nodeId, armed, fired>>
          /\ \/ /\ prover' = [prover EXCEPT ![t].stage = "waiting", ![t].host = born + 1]
                /\ UNCHANGED <<flock, mutex>>
             \/ End(t, "failed") /\ ReleaseLocks(t)
       \/ /\ prover[t].host # None /\ prover[t].host \in Listed
          /\ nodes' = [nodes EXCEPT ![prover[t].host] = "running"]
          /\ UNCHANGED <<strategy, born, tunnel, nodeId, armed, fired>>
          /\ \/ Goto(t, "waiting") /\ UNCHANGED <<flock, mutex>>
             \/ End(t, "failed") /\ ReleaseLocks(t)
       \/ Raise(t)

(* ... waited for until Running, and cached, or the wait times out.        *)
WaitRunning(t) ==
    /\ At(t, "waiting")
    /\ \/ /\ NodeUp(prover[t].host)
          /\ nodeId' = [nodeId EXCEPT ![ProcOf[t]] = prover[t].host]
          /\ Goto(t, "connecting")
          /\ UNCHANGED <<cloudVars, mutex, tunnel, armed, fired, flock>>
       \/ Raise(t)

(* _wait(_ssh_ready): a timeout here raises with the cache as it was.      *)
Connect(t) ==
    /\ At(t, "connecting")
    /\ \/ /\ NodeUp(prover[t].host)
          /\ Goto(t, "tunnelling")
          /\ UNCHANGED <<cloudVars, procVars, flock>>
       \/ /\ Goto(t, "unreachable")
          /\ ReleaseLocks(t)
          /\ UNCHANGED <<cloudVars, tunnel, nodeId, armed, fired>>

OpenTunnel_KeepsId(t) ==        \* mutant: a fresh tunnel forgets the node it leads to
    LET p == ProcOf[t] IN
    /\ At(t, "tunnelling")
    /\ NodeUp(prover[t].host)
    /\ tunnel' = [tunnel EXCEPT ![p] = prover[t].host]
    /\ nodeId' = [nodeId EXCEPT ![p] = None]
    /\ Goto(t, "proving")
    /\ UNCHANGED <<cloudVars, mutex, armed, fired, flock>>

(* The tunnel is kept once /health answers; if it does not, the cached     *)
(* node is dropped and the whole of _ensure_endpoint tried again.          *)
OpenTunnel(t) ==
    LET p == ProcOf[t] IN
    /\ At(t, "tunnelling")
    /\ \/ /\ NodeUp(prover[t].host)
          /\ tunnel' = [tunnel EXCEPT ![p] = prover[t].host]
          /\ Goto(t, "proving")
          /\ UNCHANGED nodeId
       \/ /\ nodeId' = [nodeId EXCEPT ![p] = None]
          /\ Goto(t, "finding")
          /\ UNCHANGED tunnel
    /\ UNCHANGED <<cloudVars, mutex, armed, fired, flock>>

ProveEnds_KeepsMutex(t) ==      \* mutant: an exception leaves the mutex held
    LET p == ProcOf[t] IN
    /\ At(t, "proving")
    /\ \/ /\ NodeUp(prover[t].host)
          /\ End(t, "proved")
          /\ armed' = [armed EXCEPT ![p] = TRUE]
          /\ ReleaseLocks(t)
       \/ End(t, "failed") /\ flock' = None /\ UNCHANGED <<armed, mutex>>
    /\ UNCHANGED <<cloudVars, tunnel, nodeId, fired>>

(* The host binary returns, or fails or times out.  _schedule_reaper is    *)
(* the last statement of session, after the yield: an exception skips it.  *)
ProveEnds(t) ==
    LET p == ProcOf[t] IN
    /\ At(t, "proving")
    /\ \/ /\ NodeUp(prover[t].host)
          /\ End(t, "proved")
          /\ armed' = [armed EXCEPT ![p] = TRUE]
       \/ End(t, "failed") /\ UNCHANGED armed
    /\ ReleaseLocks(t)
    /\ UNCHANGED <<cloudVars, tunnel, nodeId, fired>>
-----------------------------------------------------------------------------
TimerFires(p) ==
    /\ armed[p]
    /\ armed' = [armed EXCEPT ![p] = FALSE]
    /\ fired' = [fired EXCEPT ![p] = @ + 1]
    /\ UNCHANGED <<cloudVars, mutex, tunnel, nodeId, flock, prover>>

ReaperEnters_NoMutex(p) ==      \* mutant: _retire_node does not take the mutex
    /\ fired[p] > 0
    /\ fired' = [fired EXCEPT ![p] = @ - 1]
    /\ tunnel' = [tunnel EXCEPT ![p] = None]
    /\ mutex' = [mutex EXCEPT ![p] = IF nodeId[p] = None THEN @ ELSE Reaper]
    /\ UNCHANGED <<cloudVars, nodeId, armed, flock, prover>>

(* _retire_node: under the mutex, the tunnel is closed first.              *)
ReaperEnters(p) ==
    /\ fired[p] > 0 /\ mutex[p] = None
    /\ fired' = [fired EXCEPT ![p] = @ - 1]
    /\ tunnel' = [tunnel EXCEPT ![p] = None]
    /\ mutex' = [mutex EXCEPT ![p] = IF nodeId[p] = None THEN None ELSE Reaper]
    /\ UNCHANGED <<cloudVars, nodeId, armed, flock, prover>>

(* A request that fails raises with the ids still set; the timer is spent. *)
ReaperRetires(p) ==
    /\ mutex[p] = Reaper
    /\ mutex' = [mutex EXCEPT ![p] = None]
    /\ \/ /\ nodeId[p] \in Listed
          /\ nodes' = [nodes EXCEPT ![nodeId[p]] = Retired]
          /\ nodeId' \in {nodeId, [nodeId EXCEPT ![p] = None]}
       \/ UNCHANGED <<nodes, nodeId>>
    /\ UNCHANGED <<strategy, born, tunnel, armed, fired, flock, prover>>

(* The "down" command: a process of its own, so its mutex excludes nobody. *)
DownFinds ==
    /\ downs < MaxDowns /\ down = None
    /\ \E n \in Listed : down' = n
    /\ downs' = downs + 1
    /\ UNCHANGED nodes

DownRetires ==
    /\ down # None
    /\ \/ down \in Listed /\ nodes' = [nodes EXCEPT ![down] = Retired]
       \/ UNCHANGED nodes
    /\ down' = None
    /\ UNCHANGED downs

(* A process ends (a CLI command returns, the machine is stopped): its     *)
(* locks are the kernel's to release, its daemon timer dies with it.       *)
StopProcess(p) ==
    /\ stops < MaxStops
    /\ stops' = stops + 1
    /\ prover' = [t \in Provers |->
                     IF ProcOf[t] = p /\ prover[t].stage \notin Finished \cup {"idle"}
                     THEN Over("killed") ELSE prover[t]]
    /\ flock' = IF flock # None /\ ProcOf[flock] = p THEN None ELSE flock
    /\ mutex' = [mutex EXCEPT ![p] = None]
    /\ tunnel' = [tunnel EXCEPT ![p] = None]
    /\ nodeId' = [nodeId EXCEPT ![p] = None]
    /\ armed' = [armed EXCEPT ![p] = FALSE]
    /\ fired' = [fired EXCEPT ![p] = 0]
    /\ UNCHANGED cloudVars

SessionStep(t) ==
    \/ TakeFlock(t) \/ TakeMutex(t) \/ CheckTunnel(t) \/ FindNode(t) \/ BootNode(t)
    \/ WaitRunning(t) \/ Connect(t) \/ OpenTunnel(t) \/ ProveEnds(t)

ReaperStep(p) == ReaperEnters(p) \/ ReaperRetires(p)

BentoNext ==
    \/ \E t \in Provers : SessionStep(t) /\ UNCHANGED <<down, stops, downs>>
    \/ \E p \in Procs : (TimerFires(p) \/ ReaperStep(p)) /\ UNCHANGED <<down, stops, downs>>
    \/ (DownFinds \/ DownRetires) /\ UNCHANGED <<strategy, born, procVars, flock, prover, stops>>
    \/ \E p \in Procs : StopProcess(p) /\ UNCHANGED <<down, downs>>

BentoSpec == BentoInit /\ [][BentoNext]_bentoVars

(* Threads run while their process does, every wait and the host binary    *)
(* have a timeout, and the kernel grants a free flock to a waiter.  No     *)
(* fairness for timers: how long the node idles is not assumed.            *)
BentoFairSpec ==
    /\ BentoSpec
    /\ \A t \in Provers : WF_bentoVars(SessionStep(t) /\ UNCHANGED <<down, stops, downs>>)
    /\ \A p \in Procs : WF_bentoVars(ReaperStep(p) /\ UNCHANGED <<down, stops, downs>>)
-----------------------------------------------------------------------------
\* A prove call that has its process's mutex: the body of session.
InSession(t) == prover[t].stage \notin Finished \cup {"idle", "locked"}

(* "One file lock serializes the whole prove path across processes"         *)
(* (bento_node.py:23): one session is ever open, and neither another prove  *)
(* call nor a timer of the same process that fired before the session       *)
(* cancelled it can act in the middle of it.                                *)
OneSession ==
    \A t \in Provers : InSession(t) =>
        /\ mutex[ProcOf[t]] = t
        /\ \A u \in Provers : InSession(u) => u = t

(* Scale to zero never pays twice: looking the node up and creating it are  *)
(* not atomic in the cloud, yet no interleaving of processes, restarts,     *)
(* failed requests and "down" commands leaves two nodes of the name, the    *)
(* second of which nothing would ever retire.                               *)
OneNode == Cardinality(Listed) <= 1

(* An open tunnel leads to the node its process would retire: otherwise     *)
(* the reaper would close the tunnel and return with the node running.      *)
TunnelledNodeIsKnown ==
    \A p \in Procs : tunnel[p] # None => nodeId[p] = tunnel[p]

(* Two locks, timers, timeouts and a retry that recurses: whichever order   *)
(* they come in, no prove call waits or retries for ever.                   *)
SessionsEnd ==
    \A t \in Provers : prover[t].stage # "idle" ~> prover[t].stage \in Finished

(* session, bento_node.py:289-290: "Holds the cross-process lock for the    *)
(* whole prove so lifecycle actions never race".  The timer of another      *)
(* process does not take that lock, and retires the node under a prove.     *)
ProvingNodeIsUp ==
    \A t \in Provers : At(t, "proving") => NodeUp(prover[t].host)
=============================================================================

