------------------------------ MODULE FrontEnd ------------------------------
(***************************************************************************)
(* The front end as one person uses it (frontend/src/App.tsx): one page at  *)
(* a time over one Freighter and one ledger.  Links between pages load a    *)
(* new document, which ends whatever the page was doing; the route of a     *)
(* document never changes.  What a page sent before it was left is settled  *)
(* while the next one builds on the same accounts.                          *)
(*                                                                         *)
(* Lending and TryAttestation are in the source and not in App: each is a   *)
(* document of its own here, which no link leads to.                        *)
(***************************************************************************)
EXTENDS AttestPage, IdentityPage, LendingPage, TryPage, ParticleSphere

VARIABLES
    page            \* what the document shows

chainOwn  == <<group, proofOf>>
idOwn     == <<api, idPageVars>>
frontVars == <<page, attestOwn, idOwn, lendPageVars, tryVars, sphereVars, chainOwn, callVars>>

SiteRoutes == {"landing", "attestation", "identity"}
Unrouted   == {"lending", "preview"}
Paths      == {"/", "/attestation", "/identity", "/anything else"}

getSiteRoute(pathname) ==
    CASE pathname = "/identity"    -> "identity"
      [] pathname = "/attestation" -> "attestation"
      [] OTHER                     -> "landing"

FrontInit ==
    /\ page \in {getSiteRoute(p) : p \in Paths} \cup Unrouted
    /\ CallInit
    /\ AttestInit /\ IdentityInit /\ LendingInit /\ TryInit /\ SphereInit

(* The logo, the sections of the landing page and Create Identity are on    *)
(* every page, the attestation is asked for on the landing page alone.      *)
NavLinks(route) ==
    {"landing", "identity"} \cup (IF route = "landing" THEN {"attestation"} ELSE {})
FooterLinks(route) ==
    {"landing"} \cup (IF route = "landing" THEN {"attestation"} ELSE {})
-----------------------------------------------------------------------------
(* A page's own steps leave what the others are drawn from alone.           *)
AttestationOnly == UNCHANGED <<page, idOwn, lendPageVars, tryVars, sphereVars, chainOwn>>
IdentityOnly    == UNCHANGED <<page, attestOwn, lendPageVars, tryVars, sphereVars>>
LendingOnly     == UNCHANGED <<page, attestOwn, idOwn, tryVars, sphereVars, chainOwn>>
PreviewOnly     == UNCHANGED <<page, attestOwn, idOwn, lendPageVars, sphereVars, chainOwn, callVars>>
LandingOnly     == UNCHANGED <<page, attestOwn, idOwn, lendPageVars, tryVars, chainOwn, callVars>>

OnAttestation == page = "attestation" /\ AttestStep /\ AttestationOnly
OnIdentity    == page = "identity" /\ IdentityStep /\ IdentityOnly
OnLending     == page = "lending" /\ LendingStep /\ LendingOnly
OnPreview     == page = "preview" /\ TryStep /\ PreviewOnly
OnLanding     == page = "landing" /\ SphereStep /\ LandingOnly

(* The ledger goes on whatever page is shown.                               *)
Ledger ==
    /\ \E t \in TxIds :
         \/ txs[t].method \in RegistryMethods /\ RegistryCloses(t)
         \/ txs[t].method \notin RegistryMethods /\ Close(t, TRUE) /\ UNCHANGED group
         \/ Expire(t) /\ UNCHANGED group
    /\ UNCHANGED <<page, attestOwn, idOwn, lendPageVars, tryVars, sphereVars, proofOf>>

(* A document that is left, or loaded again, is all of a page that goes.    *)
NewDocument ==
    /\ LeaveAttestPage /\ LeaveIdentityPage /\ LeaveLendingPage /\ LeaveTryPage /\ LeaveLanding
    /\ call' = NoCall
    /\ UNCHANGED <<txs, seqno, chainOwn>>

Navigate ==
    /\ page \in SiteRoutes /\ CanBuild
    /\ page' \in (NavLinks(page) \cup FooterLinks(page)) \ {page}
    /\ NewDocument

Reload == page' = page /\ NewDocument

FrontNext ==
    \/ OnAttestation \/ OnIdentity \/ OnLanding \/ OnLending \/ OnPreview
    \/ Ledger
    \/ Navigate \/ Reload

FrontSpec == FrontInit /\ [][FrontNext]_frontVars

(* The one continuation of attest() runs on, in the page or in the call it   *)
(* waits for; so do the interval of the KYC card and the requests it makes.  *)
Continuation == FlowStep \/ (flow.at = "call" /\ CallStep(TRUE) /\ UNCHANGED attestOwn)
flowVars     == <<attestOwn, callVars>>
pollVars     == <<poll, answers>>

FrontFairness ==
    /\ WF_flowVars(Continuation)
    /\ WF_pollVars(PollStep)
-----------------------------------------------------------------------------
(* The parts of the pages that must agree at any moment: a flow and what it *)
(* holds, an interval and the reference it is cleared by, a busy button and *)
(* the call behind it, a timer and its request.                             *)
FrontTypeOK ==
    /\ page \in SiteRoutes \cup Unrouted
    /\ AttestTypeOK /\ IdentityTypeOK /\ LendingTypeOK /\ TryTypeOK
=============================================================================
