--------------------------- MODULE PurchaseLedger ---------------------------
(***************************************************************************)
(* What subscriptions promise to the rest of the system, with each writer  *)
(* as one step: a purchase gets one owner and keeps it, an account is      *)
(* entitled only to a purchase it owns, and the stores' reports reach only *)
(* accounts that have been entitled to one.                                *)
(*                                                                         *)
(* A report may be late, and a sweep may end what was renewed meanwhile:   *)
(* the writers of subscription.ts do both.                                 *)
(***************************************************************************)
CONSTANTS Masters, Tokens, StoreStates, None

VARIABLES
    ownerOf,    \* the account each purchase belongs to, for good
    account     \* status of each account and the purchase it was entitled to

ledgerVars == <<ownerOf, account>>

Entitled == {m \in Masters : account[m].token # None}
Begun    == {m \in Masters : account[m].status # "trial_pending"}

Init ==
    /\ ownerOf = [t \in Tokens |-> None]
    /\ account = [m \in Masters |-> [status |-> "trial_pending", token |-> None]]

Claim(t, m) ==
    /\ ownerOf[t] = None
    /\ ownerOf' = [ownerOf EXCEPT ![t] = m]
    /\ UNCHANGED account

Entitle(m, t) ==
    /\ ownerOf[t] = m
    /\ account' = [account EXCEPT ![m] = [status |-> "active", token |-> t]]
    /\ UNCHANGED ownerOf

Report(m, s) ==
    /\ m \in Entitled
    /\ account' = [account EXCEPT ![m].status = s]
    /\ UNCHANGED ownerOf

BeginTrial(m) ==
    /\ account[m].status = "trial_pending"
    /\ account' = [account EXCEPT ![m].status = "trial"]
    /\ UNCHANGED ownerOf

Revoke(m) ==
    /\ account' = [account EXCEPT ![m].status = "revoked"]
    /\ UNCHANGED ownerOf

\* One batch of purchases and of trials, whatever became of them since.
EndAccess(S, T) ==
    /\ account' = [m \in Masters |->
                      IF m \in T THEN [account[m] EXCEPT !.status = "trial_expired"]
                      ELSE IF m \in S THEN [account[m] EXCEPT !.status = "expired"]
                      ELSE account[m]]
    /\ UNCHANGED ownerOf

Next ==
    \/ \E m \in Masters :
        \/ \E t \in Tokens : Claim(t, m) \/ Entitle(m, t)
        \/ \E s \in StoreStates : Report(m, s)
        \/ BeginTrial(m) \/ Revoke(m)
    \/ \E S \in SUBSET Entitled, T \in SUBSET Begun : EndAccess(S, T)

Spec == Init /\ [][Next]_ledgerVars
=============================================================================
