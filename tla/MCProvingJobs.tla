--------------------------- MODULE MCProvingJobs ---------------------------
(* Two wallets and two jobs: a page, a retry of it or a second page, and a *)
(* sweep, with the machine stopped at any moment.                          *)
EXTENDS ProvingJobs, TLC

CONSTANTS u1, u2, j1, j2
=============================================================================
