----------------------------- MODULE MCFrontEnd -----------------------------
(* Two wallets, one identity to mint and two transactions to build.         *)
EXTENDS FrontEnd

CONSTANTS w1, w2, c1

MCWallets     == {w1, w2}
MCCommitments == {c1}

FairSpec == FrontSpec /\ FrontFairness
=============================================================================
