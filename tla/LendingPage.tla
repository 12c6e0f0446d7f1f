---------------------------- MODULE LendingPage ----------------------------
(***************************************************************************)
(* The lending demo (frontend/src/pages/Lending.tsx with                    *)
(* lib/contracts/mock-lending-pool.ts): look terms up for any address, and  *)
(* borrow at them with a connected wallet.  Enter starts a lookup whether   *)
(* or not another is under way, and so does a connection, so lookups        *)
(* overtake each other and a loan that is being signed.                     *)
(*                                                                         *)
(* Left out: the address field, which any wallet may be typed into, the     *)
(* loading label, which blocks the button but not Enter, and the figures,   *)
(* of which only whose they are is kept.                                    *)
(***************************************************************************)
EXTENDS ContractCalls

CONSTANTS
    LendingDeployed,    \* whether config.ts has an address for MockLendingPool
    DefaultTerms        \* whose figures DEFAULT_TERMS are: nobody's

ASSUME DefaultTermsAreNobodys == DefaultTerms \notin Wallets \cup {None}

VARIABLES
    lending,        \* what the page is drawn from
    lookups         \* the wallets whose terms are on their way

lendPageVars == <<lending, lookups>>

NoLending == [connected |-> None, lookedUp |-> None, terms |-> None, txHash |-> None,
              executing |-> FALSE]

LendingTypeOK ==
    /\ CallTypeOK
    /\ lending.connected \in Wallets \cup {None} /\ lending.lookedUp \in Wallets \cup {None}
    /\ lending.terms \in Wallets \cup {DefaultTerms, None} /\ lending.txHash \in TxIds \cup {None}
    /\ lending.executing <=> call.method = "execute_loan"
    /\ lookups \subseteq Wallets

LendingInit ==
    /\ lending = NoLending /\ lookups = {}

(* Asks for terms that were fetched for the connected wallet.               *)
canBorrow ==
    /\ lending.connected # None
    /\ lending.lookedUp = lending.connected
    /\ lending.terms # None

(* What a lookup can answer: w's terms, or, when the simulation fails or has *)
(* no result, the default ones as if they were w's; without a pool none.    *)
getLoanTerms(w) == IF LendingDeployed THEN {w, DefaultTerms} ELSE {None}
-----------------------------------------------------------------------------
StartLookup_Names(shown, w) ==  \* mutant: lookedUpAddress is set with the request
    /\ lending' = [shown EXCEPT !.txHash = None, !.lookedUp = w]
    /\ lookups' = lookups \cup {w}

StartLookup(shown, w) ==
    /\ lending' = [shown EXCEPT !.txHash = None]
    /\ lookups' = lookups \cup {w}

LookUp == (\E w \in Wallets : StartLookup(lending, w)) /\ UNCHANGED callVars

(* Terms and attestation are shown together, once both answers are there,   *)
(* and neither when one of them fails.                                      *)
LookupSettles ==
    /\ \E w \in lookups :
         /\ lookups' = lookups \ {w}
         /\ \/ \E terms \in getLoanTerms(w) :
                  lending' = [lending EXCEPT !.terms = terms, !.lookedUp = w]
            \/ UNCHANGED lending
    /\ UNCHANGED callVars

(* Offered at all times, with nothing to remember of an open prompt: one    *)
(* that settles sets the wallet and looks its terms up.                     *)
ConnectLending ==
    /\ \E a \in ConnectAddresses \ {None} :
         StartLookup([lending EXCEPT !.connected = a], a)
    /\ UNCHANGED callVars

Execute ==
    /\ canBorrow /\ ~lending.executing
    /\ lending' = [lending EXCEPT !.executing = TRUE, !.txHash = None]
    /\ invokeContractCall("execute_loan", lending.connected, None)
    /\ UNCHANGED <<lookups, txs, seqno>>

ExecuteEnds ==
    /\ call.stage \in {"returned", "thrown"}
    /\ lending' = [lending EXCEPT !.executing = FALSE,
                                  !.txHash = IF call.stage = "returned" THEN call.tx ELSE @]
    /\ call' = NoCall
    /\ UNCHANGED <<lookups, txs, seqno>>

LendingCall == (CallStep(TRUE) \/ SignCall) /\ UNCHANGED lendPageVars

LeaveLendingPage == lending' = NoLending /\ lookups' = {}

LendingStep ==
    \/ LookUp \/ LookupSettles \/ ConnectLending
    \/ Execute \/ ExecuteEnds
    \/ LendingCall
-----------------------------------------------------------------------------
\* Whose figures a card of terms shows; without any it asks for an address.
TermsCard(terms) == {terms} \ {None}

\* The hash in the box that borrows.
LoanShown == IF canBorrow THEN {lending.txHash} \ {None} ELSE {}

(* Whatever order answers come in, what stands above the button is what a    *)
(* lookup of the wallet that borrows was answered with: its own terms or the *)
(* default ones, and never those of another wallet; and a hash under "Loan   *)
(* executed" is of a loan the ledger has.  That they are "the connected     *)
(* wallet's own fetched terms" (Lending.tsx:74) is more than holds.          *)
NoTermsOfAnother ==
    /\ canBorrow => TermsCard(lending.terms) \in {{lending.connected}, {DefaultTerms}}
    /\ \A t \in LoanShown : Landed(t) /\ txs[t].method = "execute_loan"
=============================================================================
