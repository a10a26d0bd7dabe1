---------------------------- MODULE Registration ----------------------------
(***************************************************************************)
(* Registration of one parent account (src/src/auth.ts): the document      *)
(* masters/{uid}, its copy in families/, the role in the claims, and the   *)
(* one-time tokens that open a web session.                                *)
(*                                                                         *)
(* Either registration reads the document, creates it when it was missing  *)
(* and gives the role last.  None of this is a transaction, so two of them *)
(* create the document twice, and a retry finds the document and, in the   *)
(* modern flow, does not look whether the role was given.  That the parent *)
(* may become an operator, whose role replaces this one, is left out.      *)
(***************************************************************************)
EXTENDS Integers

CONSTANTS
    RegCalls,         \* invocations in flight
    WebTokens,        \* documents of masterWebBootstrapTokens
    MaxRegDeaths      \* bound: invocations that die or whose claims call fails

ASSUME RegistrationAssumption == MaxRegDeaths \in Nat

VARIABLES
    account,          \* subscription.status of the document, "none" when it is missing
    family,           \* likewise of the document in families/
    hasRole,          \* the claims say role "master"
    webToken,         \* state of each web token
    regCall,
    regDeaths,
    \* History.
    registered,       \* a registration returned
    overlapped,       \* two registrations found no document
    paid              \* the subscription or trial was started

regVars == <<account, family, hasRole, webToken, regCall, regDeaths,
             registered, overlapped, paid>>

Flows         == {"legacy", "modern"}
AccountStates == {"none", "trial_pending", "started"}
RegIdle       == [pc |-> "idle"]
RegCallStates ==
    {RegIdle}
    \cup [pc : {"create", "family", "role"}, flow : Flows \cup {"web"}]
    \cup [pc : {"look", "copy"}, read : AccountStates]

RegTypeOK ==
    /\ account \in AccountStates /\ family \in AccountStates /\ hasRole \in BOOLEAN
    /\ webToken \in [WebTokens -> {"none", "unused", "used"}]
    /\ regCall \in [RegCalls -> RegCallStates]
    /\ regDeaths \in 0..MaxRegDeaths
    /\ registered \in BOOLEAN /\ overlapped \in BOOLEAN /\ paid \in BOOLEAN

RegInit ==
    /\ account = "none" /\ family = "none" /\ hasRole = FALSE
    /\ webToken = [w \in WebTokens |-> "none"]
    /\ regCall = [p \in RegCalls |-> RegIdle]
    /\ regDeaths = 0
    /\ registered = FALSE /\ overlapped = FALSE /\ paid = FALSE

-----------------------------------------------------------------------------
RegGo(p, state) == regCall' = [regCall EXCEPT ![p] = state]

\* Variant: the document is not looked at.
FindAccountNever(p, flow) ==
    /\ regCall[p] = RegIdle
    /\ RegGo(p, [pc |-> "create", flow |-> flow])
    /\ overlapped' = (overlapped \/ \E q \in RegCalls : regCall[q].pc = "create")
    /\ UNCHANGED <<account, family, hasRole, webToken, regDeaths, registered, paid>>

\* The modern flow only refreshes the metadata of a document it finds.
FindAccount(p, flow) ==
    /\ regCall[p] = RegIdle
    /\ IF account = "none"
       THEN /\ RegGo(p, [pc |-> "create", flow |-> flow])
            /\ overlapped' = (overlapped \/ \E q \in RegCalls : regCall[q].pc = "create")
            /\ UNCHANGED registered
       ELSE /\ RegGo(p, IF flow = "modern" THEN RegIdle ELSE [pc |-> "role", flow |-> flow])
            /\ registered' = (registered \/ flow = "modern")
            /\ UNCHANGED overlapped
    /\ UNCHANGED <<account, family, hasRole, webToken, regDeaths, paid>>

\* The document is set, not created.
CreateAccount(p) ==
    /\ regCall[p].pc = "create"
    /\ account' = "trial_pending"
    /\ RegGo(p, [regCall[p] EXCEPT !.pc =
                    IF regCall[p].flow = "modern" THEN "family" ELSE "role"])
    /\ UNCHANGED <<family, hasRole, webToken, regDeaths, registered, overlapped, paid>>

\* A failure of the second write is logged and passed over.
DualWrite(p) ==
    /\ regCall[p].pc = "family"
    /\ family' \in {"trial_pending", family}
    /\ RegGo(p, [regCall[p] EXCEPT !.pc = "role"])
    /\ UNCHANGED <<account, hasRole, webToken, regDeaths, registered, overlapped, paid>>

GiveRole(p) ==
    /\ regCall[p].pc = "role"
    /\ hasRole' = TRUE
    /\ registered' = (registered \/ regCall[p].flow # "web")
    /\ RegGo(p, RegIdle)
    /\ UNCHANGED <<account, family, webToken, regDeaths, overlapped, paid>>

CreateMasterWebBootstrapToken(w) ==
    /\ account # "none" /\ webToken[w] = "none"
    /\ webToken' = [webToken EXCEPT ![w] = "unused"]
    /\ UNCHANGED <<account, family, hasRole, regCall, regDeaths, registered, overlapped, paid>>

\* The transaction; the claims follow it.
RedeemMasterWebBootstrapToken(p, w) ==
    /\ regCall[p] = RegIdle /\ webToken[w] = "unused"
    /\ webToken' = [webToken EXCEPT ![w] = "used"]
    /\ RegGo(p, [pc |-> "role", flow |-> "web"])
    /\ UNCHANGED <<account, family, hasRole, regDeaths, registered, overlapped, paid>>

\* A first child or a purchase.
StartSubscription ==
    /\ account = "trial_pending"
    /\ account' = "started" /\ paid' = TRUE
    /\ UNCHANGED <<family, hasRole, webToken, regCall, regDeaths, registered, overlapped>>

\* migrateToFamiliesSchema: the masters are read, then the family is looked up,
\* then it is set.
ReadMasters(p) ==
    /\ regCall[p] = RegIdle /\ account # "none"
    /\ RegGo(p, [pc |-> "look", read |-> account])
    /\ UNCHANGED <<account, family, hasRole, webToken, regDeaths, registered, overlapped, paid>>

FindFamily(p) ==
    /\ regCall[p].pc = "look"
    /\ RegGo(p, IF family = "none" THEN [regCall[p] EXCEPT !.pc = "copy"] ELSE RegIdle)
    /\ UNCHANGED <<account, family, hasRole, webToken, regDeaths, registered, overlapped, paid>>

CopyToFamily(p) ==
    /\ regCall[p].pc = "copy"
    /\ family' = regCall[p].read
    /\ RegGo(p, RegIdle)
    /\ UNCHANGED <<account, hasRole, webToken, regDeaths, registered, overlapped, paid>>

RegDie(p) ==
    /\ regCall[p] # RegIdle /\ regDeaths < MaxRegDeaths
    /\ regDeaths' = regDeaths + 1
    /\ RegGo(p, RegIdle)
    /\ UNCHANGED <<account, family, hasRole, webToken, registered, overlapped, paid>>

-----------------------------------------------------------------------------
RegNext ==
    \/ \E p \in RegCalls :
        \/ \E flow \in Flows : FindAccount(p, flow)
        \/ CreateAccount(p) \/ DualWrite(p) \/ GiveRole(p)
        \/ \E w \in WebTokens : RedeemMasterWebBootstrapToken(p, w)
        \/ ReadMasters(p) \/ FindFamily(p) \/ CopyToFamily(p)
        \/ RegDie(p)
    \/ \E w \in WebTokens : CreateMasterWebBootstrapToken(w)
    \/ StartSubscription

RegSpec == RegInit /\ [][RegNext]_regVars

-----------------------------------------------------------------------------
\* A registration may return while the one that created the document has yet to
\* give the role; once that is over the account has it, unless an invocation
\* died in between: no retry of the modern flow gives it then.
RoleGiven ==
    (registered /\ regDeaths = 0 /\ \A p \in RegCalls : regCall[p] = RegIdle) => hasRole

\* A subscription that was started is put back to "trial_pending" only by one of
\* two registrations that both found no document.
SubscriptionKept == (paid /\ ~overlapped) => account = "started"

\* What any overlap of registrations, web sessions and migrations leaves behind.
RegistrationSettles == RoleGiven /\ SubscriptionKept
=============================================================================
