------------------------------ MODULE TryPage ------------------------------
(***************************************************************************)
(* The attestation preview (frontend/src/components/TryAttestation.tsx with *)
(* lib/api.ts): an address is typed, or filled in from Freighter, a request *)
(* prepares an attestation for it and three more fetch what is shown beside *)
(* it, while the field stays editable.                                      *)
(*                                                                         *)
(* Left out: the figures, of which only whose they are is kept, and the      *)
(* session and job behind prepareAttestation (AttestPage).                  *)
(***************************************************************************)
EXTENDS Freighter

VARIABLES
    try,            \* what the page is drawn from
    request,        \* the runAttestation() in progress, or the last one's address
    mounting        \* of the two requests made at the mount, those unanswered

tryVars == <<try, request, mounting>>

Unchecked == Wallets \cup {"garbage"}       \* what the field can hold, besides nothing
LastStep  == 4                              \* STEPS.length - 1
Fetched   == {"record", "features", "model"}

NoTry ==
    [address |-> None, phase |-> "idle", step |-> 0, timer |-> FALSE, attestation |-> None,
     record |-> None, features |-> None, model |-> FALSE]
NoRequest == [at |-> "none", addr |-> None]

TryTypeOK ==
    /\ try.address \in Unchecked \cup {None}
    /\ try.phase \in {"idle", "loading", "done", "error"}
    /\ try.step \in 0..LastStep
    /\ try.timer <=> try.phase = "loading"      \* the interval ends with its request
    /\ {try.attestation, try.record, try.features} \subseteq Unchecked \cup {None}
    /\ try.model \in BOOLEAN
    /\ request.at \in {"none", "prepare", "fetch"} /\ request.addr \in Unchecked \cup {None}
    /\ mounting \subseteq {"address", "model"}

TryInit == try = NoTry /\ request = NoRequest /\ mounting = {"address", "model"}

isValidStellarAddress(addr) == addr \in Wallets
-----------------------------------------------------------------------------
Type ==
    /\ \E addr \in Unchecked \cup {None} : try' = [try EXCEPT !.address = addr]
    /\ UNCHANGED <<request, mounting>>

(* getConnectedAddress() of the mount; the address also goes up to the page  *)
(* around and comes back as a prop, which finds the field filled.           *)
FillSilently ==
    /\ "address" \in mounting
    /\ mounting' = mounting \ {"address"}
    /\ \E addr \in SilentAddresses :
         try' = IF try.address = None THEN [try EXCEPT !.address = addr] ELSE try
    /\ UNCHANGED request

(* getModelInfo() of the mount; a late failure takes away what a request    *)
(* has fetched since.                                                       *)
ModelInfo ==
    /\ "model" \in mounting
    /\ mounting' = mounting \ {"model"}
    /\ \E answered \in BOOLEAN : try' = [try EXCEPT !.model = answered]
    /\ UNCHANGED request

runAttestation(addr) ==
    /\ try' = [NoTry EXCEPT !.address = try.address, !.phase = "loading", !.timer = TRUE]
    /\ request' = [at |-> "prepare", addr |-> addr]
    /\ UNCHANGED mounting

(* onSubmit, with the button enabled; Retry does not look at the address.   *)
Submit ==
    /\ try.phase # "loading"
    /\ IF isValidStellarAddress(try.address) THEN runAttestation(try.address)
       ELSE try' = [try EXCEPT !.phase = "error"] /\ UNCHANGED <<request, mounting>>

Retry ==
    /\ try.phase = "error"
    /\ runAttestation(try.address)

\* Every 900 ms the next of five labels is lit, the last of them for good ...
StepTimer ==
    /\ try.timer /\ try.step < LastStep
    /\ try' = [try EXCEPT !.step = @ + 1]
    /\ UNCHANGED <<request, mounting>>

\* ... but for each report of the job, which lights the proof's again.
PreparePhase ==
    /\ request.at = "prepare"
    /\ try' = [try EXCEPT !.step = 3]
    /\ UNCHANGED <<request, mounting>>

(* The catch and the finally of runAttestation.                             *)
TryFails ==
    /\ try' = [try EXCEPT !.phase = "error", !.timer = FALSE, !.step = LastStep]
    /\ request' = [request EXCEPT !.at = "none"]

Prepared ==
    /\ request.at = "prepare"
    /\ \/ /\ isValidStellarAddress(request.addr)
          /\ try' = [try EXCEPT !.attestation = request.addr]
          /\ request' = [request EXCEPT !.at = "fetch"]
       \/ TryFails
    /\ UNCHANGED mounting

ShowFetched_OfTheField(fulfilled) ==    \* mutant: getAttestationRecord(address)
    try' = [try EXCEPT !.phase = "done", !.timer = FALSE, !.step = LastStep,
                       !.record   = IF "record"   \in fulfilled THEN try.address ELSE @,
                       !.features = IF "features" \in fulfilled THEN try.address ELSE @,
                       !.model    = "model" \in fulfilled \/ @]

ShowFetched(fulfilled) ==
    try' = [try EXCEPT !.phase = "done", !.timer = FALSE, !.step = LastStep,
                       !.record   = IF "record"   \in fulfilled THEN request.addr ELSE @,
                       !.features = IF "features" \in fulfilled THEN request.addr ELSE @,
                       !.model    = "model" \in fulfilled \/ @]

(* Promise.allSettled: each of the three may fail alone.                    *)
FetchSettles ==
    /\ request.at = "fetch"
    /\ \E fulfilled \in SUBSET Fetched : ShowFetched(fulfilled)
    /\ request' = [request EXCEPT !.at = "none"]
    /\ UNCHANGED mounting

(* The cleanup of the mount's effect clears the interval.                   *)
LeaveTryPage == try' = NoTry /\ request' = NoRequest /\ mounting' = {"address", "model"}

TryStep ==
    \/ Type \/ FillSilently \/ ModelInfo
    \/ Submit \/ Retry
    \/ StepTimer \/ PreparePhase \/ Prepared \/ FetchSettles
-----------------------------------------------------------------------------
(* What Results and the SummaryCard in it are drawn from.                   *)
Results ==
    IF try.phase = "done" /\ try.attestation # None
    THEN {try.attestation, try.record, try.features} \ {None} ELSE {}

(* However the field is edited while requests are under way, score, record   *)
(* and features shown together are of one address, a valid one.             *)
ResultsAreOfOneAddress ==
    Results # {} => \E w \in Wallets : Results = {w}

=============================================================================
