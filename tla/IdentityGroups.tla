-------------------------- MODULE IdentityGroups --------------------------
(***************************************************************************)
(* What WalletIdentity promises, without counters, keys or attestors: a    *)
(* wallet is in at most one group, a score belongs to a group with         *)
(* members, and a human picks an identity once and for ever                *)
(* (contracts/wallet-identity/src/lib.rs:178-188, "a nullifier maps to     *)
(* exactly one commitment").                                               *)
(***************************************************************************)
EXTENDS ZKreditShared

CONSTANT Nullifiers

VARIABLES
    members,    \* the wallets of each group
    scored,     \* the groups that have a shared score
    identityOf, \* the group a verified human is bound to, or None
    verified    \* the groups that passed KYC

absVars == <<members, scored, identityOf, verified>>

Init ==
    /\ members = [c \in Commitments |-> {}]
    /\ scored = {}
    /\ identityOf = [n \in Nullifiers |-> None]
    /\ verified = {}

Join(w, c) ==
    /\ \A d \in Commitments : w \notin members[d]
    /\ members' = [members EXCEPT ![c] = @ \cup {w}]
    /\ UNCHANGED <<scored, identityOf, verified>>

Leave(w, c) ==
    /\ w \in members[c]
    /\ members' = [members EXCEPT ![c] = @ \ {w}]
    /\ scored' = IF members[c] = {w} THEN scored \ {c} ELSE scored
    /\ UNCHANGED <<identityOf, verified>>

Score(c) ==
    /\ members[c] # {}
    /\ scored' = scored \cup {c}
    /\ UNCHANGED <<members, identityOf, verified>>

Verify(n, c) ==
    /\ identityOf[n] = None
    /\ identityOf' = [identityOf EXCEPT ![n] = c]
    /\ verified' = verified \cup {c}
    /\ UNCHANGED <<members, scored>>

Next ==
    \E c \in Commitments :
        \/ \E w \in Wallets : Join(w, c) \/ Leave(w, c)
        \/ Score(c)
        \/ \E n \in Nullifiers : Verify(n, c)

Spec == Init /\ [][Next]_absVars
=============================================================================
