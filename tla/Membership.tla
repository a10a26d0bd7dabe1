----------------------------- MODULE Membership -----------------------------
(***************************************************************************)
(* What pairing promises to the rest of the system, with each pairing as   *)
(* one step: by an invitation a child joins the account that issued it,    *)
(* while that account has fewer children than the most it was ever         *)
(* allowed; a trial is given to an account that has had a child, and never *)
(* with more children than the account was allowed before.                 *)
(*                                                                         *)
(* An invitation may be used again, and a trial may replace what an        *)
(* account had bought meanwhile: the callables of pairing.ts do both.      *)
(***************************************************************************)
EXTENDS Integers, FiniteSets

CONSTANTS Masters, Children, Limits, TrialLimit, None, MaxIssued

VARIABLES
    parent,     \* the account each child belongs to
    account,    \* status and childLimit of each account
    most,       \* the largest childLimit an account ever had
    issuer,     \* the accounts that issued the invitations
    joined,     \* the children that joined by each invitation
    hadChild    \* accounts that ever had a child

membershipVars == <<parent, account, most, issuer, joined, hadChild>>

Init ==
    /\ parent = [k \in Children |-> None]
    /\ account = [m \in Masters |-> [status |-> "trial_pending", limit |-> TrialLimit]]
    /\ most = [m \in Masters |-> TrialLimit]
    /\ issuer = [n \in 1..MaxIssued |-> None]
    /\ joined = [n \in 1..MaxIssued |-> {}]
    /\ hadChild = {}

Invite(n, m) ==
    /\ issuer[n] = None
    /\ issuer' = [issuer EXCEPT ![n] = m]
    /\ UNCHANGED <<parent, account, most, joined, hadChild>>

Join(k, n) ==
    LET m == issuer[n] IN
    /\ m # None
    /\ Cardinality({j \in Children : parent[j] = m}) < most[m]
    /\ parent' = [parent EXCEPT ![k] = m]
    /\ joined' = [joined EXCEPT ![n] = @ \cup {k}]
    /\ hadChild' = hadChild \cup {m}
    /\ UNCHANGED <<account, most, issuer>>

GiveTrial(m, l) ==
    /\ m \in hadChild /\ l <= most[m]
    /\ account' = [account EXCEPT ![m] = [status |-> "trial", limit |-> l]]
    /\ UNCHANGED <<parent, most, issuer, joined, hadChild>>

Buy(m, l) ==
    /\ account' = [account EXCEPT ![m] = [status |-> "active", limit |-> l]]
    /\ most' = [most EXCEPT ![m] = IF l > @ THEN l ELSE @]
    /\ UNCHANGED <<parent, issuer, joined, hadChild>>

LoseAccess(m) ==
    /\ account' = [account EXCEPT ![m].status = "lapsed"]
    /\ UNCHANGED <<parent, most, issuer, joined, hadChild>>

Next ==
    \/ \E n \in 1..MaxIssued : \/ \E m \in Masters : Invite(n, m)
                               \/ \E k \in Children : Join(k, n)
    \/ \E m \in Masters : \/ LoseAccess(m)
                          \/ \E l \in Limits : GiveTrial(m, l) \/ Buy(m, l)

Spec == Init /\ [][Next]_membershipVars
=============================================================================
