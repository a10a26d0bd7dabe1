------------------------------- MODULE Legal -------------------------------
(***************************************************************************)
(* Legal policies and consents (src/src/legal.ts) for one country, locale  *)
(* and type of policy.  The version in effect is the first active one, in  *)
(* the order of the document ids, of the first of the locales looked       *)
(* through that has an active one, and the default version if none has; a  *)
(* date of effect decides nothing.                                         *)
(*                                                                         *)
(* recordLegalConsent compares the version with the one in effect and      *)
(* writes after another await; markLegalReconsentRequired queries the      *)
(* consents and writes them in batches.                                    *)
(***************************************************************************)
EXTENDS Integers, FiniteSets

CONSTANTS
    Accounts,         \* masters
    Locales,          \* 1..Locales: the locales looked through, GLOBAL the last
    Versions,         \* 1..Versions: versions in the order of their document ids
    LegalCalls,       \* invocations in flight
    BatchSize,        \* 499 in the code
    MaxLegalDeaths    \* bound: invocations that die

ASSUME LegalAssumption ==
    /\ IsFiniteSet(Accounts)
    /\ Locales \in Nat /\ Versions \in Nat /\ BatchSize \in Nat \ {0}
    /\ MaxLegalDeaths \in Nat

VARIABLES
    legalPolicy,      \* legalPolicies: the status of each version in each locale
    consent,          \* masterLegalConsents
    legalCall,        \* calls in flight
    legalDeaths,
    \* History, since the last demand to everybody began.
    renewed,          \* accounts with a consent given entirely after it
    overtaken         \* accounts whose consent had been under way then, and
                      \* those whose demand did not get through

legalVars == <<legalPolicy, consent, legalCall, legalDeaths, renewed, overtaken>>

LegalIdle      == [pc |-> "idle"]
\* Drafts and approved versions are as little in effect as retired ones.
PolicyStatuses == {"none", "active", "retired"}
DefaultVersion == 0
\* accepted is -1 in a document that a demand created before any consent.
Consents       == [exists : BOOLEAN, accepted : -1..Versions, requiresReconsent : BOOLEAN]

LegalTypeOK ==
    /\ legalPolicy \in [1..Locales -> [1..Versions -> PolicyStatuses]]
    /\ consent \in [Accounts -> Consents]
    /\ legalCall \in [LegalCalls ->
          {LegalIdle} \cup [pc : {"record"}, account : Accounts, version : 0..Versions,
                            old : BOOLEAN]
                      \cup [pc : {"mark"}, todo : SUBSET Accounts]]
    /\ legalDeaths \in 0..MaxLegalDeaths
    /\ renewed \subseteq Accounts /\ overtaken \subseteq Accounts

LegalInit ==
    /\ legalPolicy = [l \in 1..Locales |-> [v \in 1..Versions |-> "none"]]
    /\ consent = [m \in Accounts |-> [exists |-> FALSE, accepted |-> -1,
                                      requiresReconsent |-> FALSE]]
    /\ legalCall = [p \in LegalCalls |-> LegalIdle]
    /\ legalDeaths = 0
    /\ renewed = Accounts /\ overtaken = {}

LegalGo(p, state) == legalCall' = [legalCall EXCEPT ![p] = state]

-----------------------------------------------------------------------------
ActiveIn(l) == {v \in 1..Versions : legalPolicy[l][v] = "active"}

\* findActivePolicy.
EffectiveVersion ==
    LET found == {l \in 1..Locales : ActiveIn(l) # {}}
        Lowest(S) == CHOOSE x \in S : \A y \in S : x <= y
    IN  IF found = {} THEN DefaultVersion ELSE Lowest(ActiveIn(Lowest(found)))

\* It sets the one document, and retires no other.
PublishLegalPolicy(l, v, status) ==
    /\ legalPolicy' = [legalPolicy EXCEPT ![l][v] = status]
    /\ UNCHANGED <<consent, legalCall, legalDeaths, renewed, overtaken>>

\* recordLegalConsent accepts the version in effect only.
CheckVersion(p, m) ==
    /\ legalCall[p] = LegalIdle
    /\ LegalGo(p, [pc |-> "record", account |-> m, version |-> EffectiveVersion, old |-> FALSE])
    /\ UNCHANGED <<legalPolicy, consent, legalDeaths, renewed, overtaken>>

\* The write takes a demand back, whenever that was made.
RecordLegalConsent(p) ==
    LET c == legalCall[p] IN
    /\ c.pc = "record"
    /\ consent' = [consent EXCEPT ![c.account] = [exists |-> TRUE, accepted |-> c.version,
                                                  requiresReconsent |-> FALSE]]
    /\ renewed' = IF c.old THEN renewed ELSE renewed \cup {c.account}
    /\ overtaken' = IF c.old THEN overtaken \cup {c.account} ELSE overtaken
    /\ LegalGo(p, LegalIdle)
    /\ UNCHANGED <<legalPolicy, legalDeaths>>

\* markLegalReconsentRequired with an account: the document may be new.
DemandOne(m) ==
    /\ consent' = [consent EXCEPT ![m].exists = TRUE, ![m].requiresReconsent = TRUE]
    /\ UNCHANGED <<legalPolicy, legalCall, legalDeaths, renewed, overtaken>>

\* Without: the query of the country's consents ...
FindConsents(p) ==
    /\ legalCall[p] = LegalIdle
    /\ legalCall' = [q \in LegalCalls |->
         IF q = p THEN [pc |-> "mark", todo |-> {m \in Accounts : consent[m].exists}]
         ELSE IF legalCall[q].pc = "record" THEN [legalCall[q] EXCEPT !.old = TRUE]
         ELSE legalCall[q]]
    /\ renewed' = {} /\ overtaken' = {}
    /\ UNCHANGED <<legalPolicy, consent, legalDeaths>>

\* Variant: the loop ends after the first batch.
AfterBatchOnce(todo, chunk) == {}

AfterBatch(todo, chunk) == todo \ chunk

\* ... and one batch after the other.
DemandBatch(p, chunk) ==
    LET todo == legalCall[p].todo IN
    /\ legalCall[p].pc = "mark"
    /\ chunk \subseteq todo
    /\ Cardinality(chunk) = IF Cardinality(todo) < BatchSize THEN Cardinality(todo) ELSE BatchSize
    /\ consent' = [m \in Accounts |->
         IF m \in chunk THEN [consent[m] EXCEPT !.requiresReconsent = TRUE] ELSE consent[m]]
    /\ LegalGo(p, IF AfterBatch(todo, chunk) = {} THEN LegalIdle
                  ELSE [pc |-> "mark", todo |-> AfterBatch(todo, chunk)])
    /\ UNCHANGED <<legalPolicy, legalDeaths, renewed, overtaken>>

\* A call dies; what a demand did not get to keeps its old consent.
LegalDie(p) ==
    /\ legalCall[p] # LegalIdle
    /\ legalDeaths < MaxLegalDeaths
    /\ legalDeaths' = legalDeaths + 1
    /\ overtaken' = IF legalCall[p].pc = "mark" THEN overtaken \cup legalCall[p].todo ELSE overtaken
    /\ LegalGo(p, LegalIdle)
    /\ UNCHANGED <<legalPolicy, consent, renewed>>

-----------------------------------------------------------------------------
LegalNext ==
    \/ \E l \in 1..Locales, v \in 1..Versions, status \in PolicyStatuses \ {"none"} :
          PublishLegalPolicy(l, v, status)
    \/ \E m \in Accounts : DemandOne(m)
    \/ \E p \in LegalCalls :
        \/ \E m \in Accounts : CheckVersion(p, m)
        \/ RecordLegalConsent(p)
        \/ FindConsents(p)
        \/ \E chunk \in SUBSET Accounts : DemandBatch(p, chunk)
        \/ LegalDie(p)

LegalSpec == LegalInit /\ [][LegalNext]_legalVars

-----------------------------------------------------------------------------
\* Once a demand for new consents is through its batches, every consent is
\* marked, or was given after the demand began, unless the consent had been
\* under way when it began (its write takes the demand back, or comes too late
\* for the query) or the demand died on the way.
DemandReachesConsents ==
    (\A p \in LegalCalls : legalCall[p].pc # "mark") =>
        \A m \in Accounts : consent[m].exists =>
            consent[m].requiresReconsent \/ m \in renewed \/ m \in overtaken
=============================================================================
