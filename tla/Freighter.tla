------------------------------ MODULE Freighter ------------------------------
(***************************************************************************)
(* The wallet extension as the pages call it (frontend/src/lib/freighter.ts)*)
(* The user can install, unlock, switch or approve between any two calls,  *)
(* so a call is an operator on whatever state it finds the extension in,   *)
(* and its callers take any member of Extensions.                          *)
(***************************************************************************)
EXTENDS Naturals, FiniteSets

CONSTANTS
    Wallets,        \* Stellar addresses, all of them accounts of the extension
    None            \* absent

ASSUME NoneIsNoWallet == None \notin Wallets

(* What the extension can be found in: an answer may be an error object, a  *)
(* locked extension has no account, and a prompt may be turned down.        *)
Extensions ==
    [installed : BOOLEAN, answers : BOOLEAN, onNetwork : BOOLEAN,
     allowed : BOOLEAN, approves : BOOLEAN, account : Wallets \cup {None}]

(* A promise settles with a value or an error; an error has a class, which  *)
(* is what instanceof looks at, and a kind.                                 *)
NoError     == [class |-> None, kind |-> None]
Returned(v) == [value |-> v, error |-> NoError]
Thrown(e)   == [value |-> None, error |-> e]

\* Anything that throws by itself: a request, an SDK call, a chunk to load.
PlainError  == [class |-> "Error", kind |-> None]

(* new Error(message) cast to FreighterError: the kind is assigned, the     *)
(* class stays Error.                                                       *)
makeFreighterError(kind) == [class |-> "Error", kind |-> kind]

assertSupportedNetwork(f) ==
    IF ~f.answers THEN makeFreighterError("unknown")
    ELSE IF ~f.onNetwork THEN makeFreighterError("wrong_network")
    ELSE NoError

(* isConnected, the network, isAllowed or setAllowed, requestAccess.        *)
connectFreighter(f) ==
    IF ~f.answers THEN Thrown(makeFreighterError("unknown"))
    ELSE IF ~f.installed THEN Thrown(makeFreighterError("extension_missing"))
    ELSE IF assertSupportedNetwork(f) # NoError THEN Thrown(assertSupportedNetwork(f))
    ELSE IF ~f.approves THEN Thrown(makeFreighterError("authorization_failed"))
    ELSE IF f.account = None THEN Thrown(makeFreighterError("address_unavailable"))
    ELSE Returned(f.account)

(* No prompt and no error: an address, or none for whatever reason.         *)
getConnectedAddress(f) ==
    IF f.answers /\ f.installed /\ f.allowed THEN f.account ELSE None

(* The prompt names the account to sign with, whichever one is selected.    *)
(* Only a message that says so counts as a rejection.                       *)
signWithFreighter(f) ==
    IF assertSupportedNetwork(f) # NoError THEN {assertSupportedNetwork(f)}
    ELSE IF ~f.approves THEN {makeFreighterError(k) : k \in {"sign_rejected", "unknown"}}
    ELSE {NoError}

ConnectOutcomes  == {connectFreighter(f) : f \in Extensions}
ConnectAddresses == {o.value : o \in ConnectOutcomes}         \* None for any error
SilentAddresses  == {getConnectedAddress(f) : f \in Extensions}
SignErrors       == UNION {signWithFreighter(f) : f \in Extensions}
=============================================================================
