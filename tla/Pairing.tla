------------------------------ MODULE Pairing ------------------------------
(***************************************************************************)
(* Linking a child device to a parent account (src/src/pairing.ts).        *)
(*                                                                         *)
(* Every callable is an asynchronous function: it may be suspended at each *)
(* await, and only the body of runTransaction is atomic.  So a running     *)
(* invocation is a small state machine (call[p]) that interleaves with the *)
(* others between its Firestore reads and writes, and works with what it   *)
(* read earlier.  An invocation can also die at any await (instance        *)
(* recycled, function timeout); what it wrote before stays.                *)
(*                                                                         *)
(* Abstractions.  The clock appears only as "this credential's life is     *)
(* over" (Expire) and "this subscription stopped giving access" (Lapse).   *)
(* The 50 draws of createPairingCode are bounded by nothing: a taken code  *)
(* is simply redrawn, or the caller gives up.  A call that is refused      *)
(* before it wrote anything, and finds the credential missing, changes     *)
(* nothing and is left out.                                                *)
(***************************************************************************)
EXTENDS Integers, FiniteSets

CONSTANTS
    Masters,      \* parent accounts (documents of "masters")
    Children,     \* child device uids (documents of "children")
    Codes,        \* 6-digit codes: drawn at random, may be issued again
    Tokens,       \* link tokens: random UUIDs, never issued twice
    Calls,        \* invocations that can be in flight at the same time
    Limits,       \* childLimit values of the price tiers and of the trial
    TrialLimit,   \* childLimit a new account is registered with
    None,         \* "no document", "no value"
    MaxIssued,    \* bound: credentials issued in a behaviour (never a limit of the code)
    MaxChanges,   \* bound: purchases and lapses in a behaviour
    MaxAborts     \* bound: invocations that die

ASSUME PairingAssumption ==
    /\ Limits \subseteq Nat /\ TrialLimit \in Limits
    /\ IsFiniteSet(Children)
    /\ None \notin Masters
    /\ MaxIssued \in Nat /\ MaxChanges \in Nat /\ MaxAborts \in Nat

VARIABLES
    sub,       \* masters/{m}.subscription: status and childLimit
    cred,      \* pairingCodes and pairingTokens: the stored document or None
    child,     \* children/{k}.masterImei, None before the first pairing
    call,      \* invocations in flight
    issued,    \* number of issuing invocations started; each has its serial number
    issuer,    \* history: the account that started the n-th issuing invocation
    drawn,     \* tokens randomUUID has already returned
    granted,   \* history: the largest limit m's subscription ever had
    linkedBy,  \* history: the children linked through the n-th credential
    paired,    \* history: masters that ever had a child
    aborts,    \* invocations that died
    changes    \* purchases and lapses so far

vars == <<sub, cred, child, call, issued, issuer, drawn, granted, linkedBy, paired,
          aborts, changes>>

Credentials == Codes \cup Tokens
Statuses    == {"trial_pending", "trial", "active", "lapsed"}
Subs        == [status : Statuses, limit : Limits]
CredDocs    == [master : Masters, serial : 1..MaxIssued, expired : BOOLEAN]
Ops         == {"createPairingCode", "generatePairingLink", "validatePairingCode",
                "validatePairingToken", "pairAuthenticatedChild"}

Idle == [pc |-> "idle"]
\* pc of a parent's call: "draw" (about to look a random code up), "store".
IssueCalls == [pc : {"draw", "store"}, op : Ops, master : Masters,
               cred : Credentials \cup {None}, serial : 1..MaxIssued]
\* pc of a child's call: the await it is suspended at.  From the transaction on
\* it holds the subscription it read.
LinkCalls ==
    {c \in [pc : {"drop", "consume", "master", "link", "trial", "spend"}, op : Ops,
            who : Children, master : Masters, cred : Credentials,
            serial : 1..MaxIssued, saw : Subs \cup {None}] :
        c.pc \in {"link", "trial"} => c.saw \in Subs}
CallStates == {Idle} \cup IssueCalls \cup LinkCalls

TypeOK ==
    /\ sub \in [Masters -> Subs]
    /\ cred \in [Credentials -> CredDocs \cup {None}]
    /\ child \in [Children -> Masters \cup {None}]
    /\ call \in [Calls -> CallStates]
    /\ issued \in 0..MaxIssued
    /\ issuer \in [1..MaxIssued -> Masters \cup {None}]
    /\ drawn \subseteq Tokens
    /\ granted \in [Masters -> Limits]
    /\ linkedBy \in [1..MaxIssued -> SUBSET Children]
    /\ paired \in SUBSET Masters
    /\ aborts \in 0..MaxAborts
    /\ changes \in 0..MaxChanges

Init ==
    /\ sub = [m \in Masters |-> [status |-> "trial_pending", limit |-> TrialLimit]]
    /\ granted = [m \in Masters |-> TrialLimit]
    /\ cred = [x \in Credentials |-> None]
    /\ child = [k \in Children |-> None]
    /\ call = [p \in Calls |-> Idle]
    /\ issued = 0
    /\ issuer = [n \in 1..MaxIssued |-> None]
    /\ drawn = {}
    /\ linkedBy = [n \in 1..MaxIssued |-> {}]
    /\ paired = {}
    /\ aborts = 0
    /\ changes = 0

-----------------------------------------------------------------------------
ChildrenOf(m) == {k \in Children : child[k] = m}

\* hasPairingAccess; a trial past its end is "lapsed" here.
HasPairingAccess(s) == s.status \in {"active", "trial", "trial_pending"}

Begin(p, c)  == call[p] = Idle /\ call' = [call EXCEPT ![p] = c]
Await(p, pc) == call' = [call EXCEPT ![p].pc = pc]
Return(p)    == call' = [call EXCEPT ![p] = Idle]

UnchangedHistory == UNCHANGED <<granted, linkedBy, paired, aborts, changes>>

-----------------------------------------------------------------------------
(* The parent: createPairingCode and generatePairingLink.                  *)

CreatePairingCode(p, m) ==
    /\ HasPairingAccess(sub[m])
    /\ issued < MaxIssued
    /\ issued' = issued + 1
    /\ issuer' = [issuer EXCEPT ![issued + 1] = m]
    /\ Begin(p, [pc |-> "draw", op |-> "createPairingCode", master |-> m, cred |-> None,
                 serial |-> issued + 1])
    /\ UNCHANGED <<sub, cred, child, drawn>> /\ UnchangedHistory

\* The drawn code has no document: it will be set after the next await.
DrawFreeCode(p, c) ==
    /\ call[p].pc = "draw"
    /\ cred[c] = None
    /\ call' = [call EXCEPT ![p].pc = "store", ![p].cred = c]
    /\ UNCHANGED <<sub, cred, child, issued, issuer, drawn>> /\ UnchangedHistory

\* Every draw so far was taken and the attempts are used up.
GiveUpDrawing(p) ==
    /\ call[p].pc = "draw"
    /\ \E c \in Codes : cred[c] # None
    /\ Return(p)
    /\ UNCHANGED <<sub, cred, child, issued, issuer, drawn>> /\ UnchangedHistory

\* randomUUID: a token nobody drew before.
GeneratePairingLink(p, m, t) ==
    /\ HasPairingAccess(sub[m])
    /\ t \notin drawn
    /\ issued < MaxIssued
    /\ issued' = issued + 1
    /\ issuer' = [issuer EXCEPT ![issued + 1] = m]
    /\ drawn' = drawn \cup {t}
    /\ Begin(p, [pc |-> "store", op |-> "generatePairingLink", master |-> m, cred |-> t,
                 serial |-> issued + 1])
    /\ UNCHANGED <<sub, cred, child>> /\ UnchangedHistory

\* The set() of the credential's document: it replaces whatever is there.
StoreCredential(p) ==
    /\ call[p].pc = "store"
    /\ cred' = [cred EXCEPT ![call[p].cred] =
                   [master |-> call[p].master, serial |-> call[p].serial, expired |-> FALSE]]
    /\ Return(p)
    /\ UNCHANGED <<sub, child, issued, issuer, drawn>> /\ UnchangedHistory

-----------------------------------------------------------------------------
(* The child: present a credential, link, start the trial, spend it.       *)

Takes(op, x) == CASE op = "validatePairingCode"    -> x \in Codes
                  [] op = "validatePairingToken"   -> x \in Tokens
                  [] op = "pairAuthenticatedChild" -> TRUE
                  [] OTHER                         -> FALSE

\* What a call awaits after it read credential document d.
AfterRead(op, d) == IF d.expired THEN "drop"
                    ELSE IF op = "pairAuthenticatedChild" THEN "consume" ELSE "master"

PresentCredential(p, k, op, x) ==
    /\ Takes(op, x)
    /\ cred[x] # None
    /\ Begin(p, [pc |-> AfterRead(op, cred[x]), op |-> op, who |-> k, cred |-> x,
                 master |-> cred[x].master, serial |-> cred[x].serial,
                 saw |-> None])
    /\ UNCHANGED <<sub, cred, child, issued, issuer, drawn>> /\ UnchangedHistory

\* The delete() after an expired read, before the modern link, after a link.
DeleteCredential(p) ==
    /\ call[p].pc \in {"drop", "consume", "spend"}
    /\ cred' = [cred EXCEPT ![call[p].cred] = None]
    /\ IF call[p].pc = "consume" THEN Await(p, "master") ELSE Return(p)
    /\ UNCHANGED <<sub, child, issued, issuer, drawn>> /\ UnchangedHistory

\* The account: a missing one, or one without access, refuses the child.
ReadMaster(p) ==
    LET s == sub[call[p].master] IN
    /\ call[p].pc = "master"
    /\ IF HasPairingAccess(s)
       THEN call' = [call EXCEPT ![p].pc = "link", ![p].saw = s]
       ELSE Return(p)
    /\ UNCHANGED <<sub, cred, child, issued, issuer, drawn>> /\ UnchangedHistory

\* Variants: the credential is not deleted; the trial is never started.
AfterLinkKeep(c) == IF c.saw.status = "trial_pending" THEN "trial" ELSE "idle"
AfterLinkNoTrial(c) == IF c.op = "pairAuthenticatedChild" THEN "idle" ELSE "spend"

\* Both old flows delete the credential at the end, the modern one already did.
AfterLink(c) == IF c.saw.status = "trial_pending" THEN "trial"
                ELSE IF c.op = "pairAuthenticatedChild" THEN "idle" ELSE "spend"

Proceed(p, pc) == IF pc = "idle" THEN Return(p) ELSE Await(p, pc)

\* Variant: the account is the one the credential names by now.
LinkChildReread(p) ==
    LET c == call[p]
        m == IF cred[c.cred] = None THEN c.master ELSE cred[c.cred].master IN
    /\ c.pc = "link"
    /\ Cardinality(ChildrenOf(m)) < c.saw.limit
    /\ child' = [child EXCEPT ![c.who] = m]
    /\ linkedBy' = [linkedBy EXCEPT ![c.serial] = @ \cup {c.who}]
    /\ paired' = paired \cup {m}
    /\ Proceed(p, AfterLink(c))
    /\ UNCHANGED <<sub, cred, issued, issuer, drawn, granted, aborts, changes>>

\* Variant: the limit is compared with <= instead of <.
LinkChildOneMore(p) ==
    LET c == call[p] IN
    /\ c.pc = "link"
    /\ Cardinality(ChildrenOf(c.master)) <= c.saw.limit
    /\ child' = [child EXCEPT ![c.who] = c.master]
    /\ linkedBy' = [linkedBy EXCEPT ![c.serial] = @ \cup {c.who}]
    /\ paired' = paired \cup {c.master}
    /\ Proceed(p, AfterLink(c))
    /\ UNCHANGED <<sub, cred, issued, issuer, drawn, granted, aborts, changes>>

\* The transaction: count the children of the master, then set the child.
LinkChild(p) ==
    LET c == call[p] IN
    /\ c.pc = "link"
    /\ Cardinality(ChildrenOf(c.master)) < c.saw.limit
    /\ child' = [child EXCEPT ![c.who] = c.master]
    /\ linkedBy' = [linkedBy EXCEPT ![c.serial] = @ \cup {c.who}]
    /\ paired' = paired \cup {c.master}
    /\ Proceed(p, AfterLink(c))
    /\ UNCHANGED <<sub, cred, issued, issuer, drawn, granted, aborts, changes>>

LinkRefused(p) ==
    /\ call[p].pc = "link"
    /\ Cardinality(ChildrenOf(call[p].master)) >= call[p].saw.limit
    /\ Return(p)
    /\ UNCHANGED <<sub, cred, child, issued, issuer, drawn>> /\ UnchangedHistory

\* activateTrialIfPending writes back the whole subscription map it read before.
ActivateTrial(p) ==
    LET c == call[p] IN
    /\ c.pc = "trial"
    /\ sub' = [sub EXCEPT ![c.master] = [c.saw EXCEPT !.status = "trial"]]
    /\ Proceed(p, IF c.op = "pairAuthenticatedChild" THEN "idle" ELSE "spend")
    /\ UNCHANGED <<cred, child, issued, issuer, drawn>> /\ UnchangedHistory

-----------------------------------------------------------------------------
(* Time, failures, and the writers of other modules.                       *)

Expire(x) ==
    /\ cred[x] # None /\ ~cred[x].expired
    /\ cred' = [cred EXCEPT ![x].expired = TRUE]
    /\ UNCHANGED <<sub, child, call, issued, issuer, drawn>> /\ UnchangedHistory

Abort(p) ==
    /\ call[p] # Idle
    /\ aborts < MaxAborts
    /\ aborts' = aborts + 1
    /\ Return(p)
    /\ UNCHANGED <<sub, cred, child, issued, issuer, drawn, granted, linkedBy, paired, changes>>

\* verifyPurchase replaces the subscription map by the purchased tier's.
Purchase(m, l) ==
    /\ changes < MaxChanges
    /\ changes' = changes + 1
    /\ sub' = [sub EXCEPT ![m] = [status |-> "active", limit |-> l]]
    /\ granted' = [granted EXCEPT ![m] = IF l > @ THEN l ELSE @]
    /\ UNCHANGED <<cred, child, call, issued, issuer, drawn, linkedBy, paired, aborts>>

\* revokeSubscription, checkExpiredSubscriptions, or the end of a trial.
Lapse(m) ==
    /\ sub[m].status # "lapsed"
    /\ changes < MaxChanges
    /\ changes' = changes + 1
    /\ sub' = [sub EXCEPT ![m].status = "lapsed"]
    /\ UNCHANGED <<cred, child, call, issued, issuer, drawn, granted, linkedBy, paired, aborts>>

-----------------------------------------------------------------------------
\* What the platform drives on once an invocation has started.
Step(p) == \/ \E c \in Codes : DrawFreeCode(p, c)
           \/ GiveUpDrawing(p)
           \/ StoreCredential(p)
           \/ DeleteCredential(p)
           \/ ReadMaster(p)
           \/ LinkChild(p)
           \/ LinkRefused(p)
           \/ ActivateTrial(p)

Next ==
    \/ \E p \in Calls :
        \/ Step(p)
        \/ Abort(p)
        \/ \E m \in Masters : CreatePairingCode(p, m)
        \/ \E m \in Masters, t \in Tokens : GeneratePairingLink(p, m, t)
        \/ \E k \in Children, op \in Ops, x \in Credentials : PresentCredential(p, k, op, x)
    \/ \E x \in Credentials : Expire(x)
    \/ \E m \in Masters : Lapse(m) \/ \E l \in Limits : Purchase(m, l)

Spec == Init /\ [][Next]_vars

-----------------------------------------------------------------------------
(* Safety.                                                                 *)

\* No interleaving of pairing calls, moves of a child between accounts, and
\* changes of the tier takes an account beyond the largest childLimit its
\* subscription ever had, although the limit is read long before the
\* transaction that counts the children.
WithinGrantedLimit == \A m \in Masters : Cardinality(ChildrenOf(m)) <= granted[m]

\* A trial runs only for an account that has had a child: the link is
\* committed before activateTrialIfPending, whatever dies in between.
TrialOnlyOncePaired == \A m \in Masters : sub[m].status = "trial" => m \in paired

\* When every invocation has returned and none died, a credential that linked
\* a child is gone: each flow deletes it, before or after the link.
SpentWhenQuiet ==
    (aborts = 0 /\ \A p \in Calls : call[p] = Idle) =>
        \A x \in Credentials : cred[x] # None => linkedBy[cred[x].serial] = {}

\* When every invocation has returned and none died, no account with a child is
\* left in trial_pending, however often its subscription changed meanwhile: the
\* call that linked the child has started the trial, or found another status.
TrialStartedWhenQuiet ==
    (aborts = 0 /\ \A p \in Calls : call[p] = Idle) =>
        \A m \in Masters : ChildrenOf(m) # {} => sub[m].status # "trial_pending"

\* Every step of a call that matters to others is one step of Membership, although
\* the credential, the account and its limit are read in earlier steps: a child
\* joins the account that issued what it presented, also when its code was drawn
\* again for another account meanwhile.
Members == INSTANCE Membership WITH parent <- child, account <- sub, most <- granted,
                                    joined <- linkedBy, hadChild <- paired
ImplementsMembership == Members!Spec

(* What the documentation says and the code does not keep.                 *)

\* generatePairingLink: "Generates a single-use pairing token".  Two calls that
\* read the document before either deletes it both link.
SingleUse == \A n \in 1..MaxIssued : Cardinality(linkedBy[n]) <= 1
=============================================================================
