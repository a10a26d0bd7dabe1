---------------------------- MODULE Subscription ----------------------------
(***************************************************************************)
(* What a parent account is entitled to (src/src/subscription.ts).  Five   *)
(* writers of masters/{m}.subscription run side by side: the purchase call *)
(* of the app, Google Play's notifications, the nightly sweep of expired   *)
(* subscriptions and trials, the nightly re-verification with Google Play, *)
(* and the administrator's revocation.  Only the transactions are atomic.  *)
(*                                                                         *)
(* Abstractions.  The clock appears as ended: subscription.expiresAt, or   *)
(* trialEndsAt, has passed.  A store's record of a purchase is named like  *)
(* the notification that reports it; a notification that is only           *)
(* informational is "info".  PAUSED counts as ON_HOLD and REVOKED as       *)
(* EXPIRED: none of them gives access and none is re-verified.  The sweep  *)
(* starts at 0:00 and the re-verification at 3:15, and an invocation lives *)
(* for minutes: within a night they run one after the other.  A purchase   *)
(* the store refuses changes nothing and is left out, as are the           *)
(* "subscriptions" documents, isPremium and the affiliate records, which   *)
(* no access check reads.                                                  *)
(***************************************************************************)
EXTENDS Integers, FiniteSets

CONSTANTS
    Masters,        \* parent accounts
    PlayTokens,     \* purchase tokens of Google Play
    AppleTokens,    \* transactions of the App Store: no notifications
    Calls,          \* purchase calls and notification handlers in flight
    SweepChunk,     \* accounts in one batch of the sweep (450)
    ReverifyBatch,  \* accounts in one re-verification (50)
    None,
    MaxEvents,      \* bound: changes at the stores
    MaxFailures     \* bound: failing invocations, repeated deliveries, revocations

ASSUME SubscriptionAssumption ==
    /\ PlayTokens \cap AppleTokens = {}
    /\ None \notin Masters \cup PlayTokens \cup AppleTokens
    /\ SweepChunk \in Nat \ {0} /\ ReverifyBatch \in Nat \ {0}
    /\ MaxEvents \in Nat /\ MaxFailures \in Nat

VARIABLES
    store,      \* the stores' records of the purchases
    clock,      \* number of changes at the stores so far
    notes,      \* notifications Pub/Sub has not delivered for good
    claim,      \* purchase_tokens/{hash}.masterId
    sub,        \* masters/{m}.subscription: status, purchaseToken, lastEventTimeMillis
    ended,      \* expiresAt or trialEndsAt has passed
    call,       \* purchase calls and notification handlers
    sweep,      \* checkExpiredSubscriptions: what it collected
    rev,        \* reverifyActiveSubscriptions: what it works on
    applied,    \* history: the last notification applied for a purchase
    failures    \* failures, repetitions and revocations so far

history == <<applied, failures>>
vars    == <<store, clock, notes, claim, sub, ended, call, sweep, rev, history>>

Tokens      == PlayTokens \cup AppleTokens
StoreStates == {"active", "grace_period", "on_hold", "canceled", "expired"}
Notes       == [token : PlayTokens, type : StoreStates \cup {"info"}, time : 1..MaxEvents]
Statuses    == StoreStates \cup {"trial_pending", "trial", "trial_expired", "revoked"}
Subs        == [status : Statuses, token : Tokens \cup {None}, evt : 0..MaxEvents \cup {None}]
Idle        == [pc |-> "idle"]
PurchaseCalls == [pc : {"claim", "grant"}, master : Masters, token : Tokens]
NoteCalls     == [pc : {"apply"}, master : Masters, note : Notes]

TypeOK ==
    /\ store \in [Tokens -> StoreStates]
    /\ clock \in 0..MaxEvents
    /\ notes \subseteq Notes
    /\ claim \in [Tokens -> Masters \cup {None}]
    /\ sub \in [Masters -> Subs]
    /\ ended \in [Masters -> BOOLEAN]
    /\ call \in [Calls -> {Idle} \cup PurchaseCalls \cup NoteCalls]
    /\ sweep \in [pc : {"idle", "trials", "commit", "done"}, subs : SUBSET Masters,
                  trials : SUBSET Masters]
    /\ rev \in [pc : {"idle", "ask", "write"}, todo : SUBSET (Masters \X Tokens),
                master : Masters \cup {None}, status : Statuses \cup {None}]
    /\ applied \in [Tokens -> 0..MaxEvents]
    /\ failures \in 0..MaxFailures

NoSweep    == [pc |-> "idle", subs |-> {}, trials |-> {}]
Swept      == [NoSweep EXCEPT !.pc = "done"]
NoReverify == [pc |-> "idle", todo |-> {}, master |-> None, status |-> None]

\* A purchase presented for the first time may have expired long ago.
Init ==
    /\ store \in [Tokens -> {"active", "expired"}]
    /\ clock = 0
    /\ notes = {}
    /\ claim = [t \in Tokens |-> None]
    /\ sub = [m \in Masters |-> [status |-> "trial_pending", token |-> None, evt |-> None]]
    /\ ended = [m \in Masters |-> FALSE]
    /\ call = [p \in Calls |-> Idle]
    /\ sweep = NoSweep
    /\ rev = NoReverify
    /\ applied = [t \in Tokens |-> 0]
    /\ failures = 0

Fail == failures < MaxFailures /\ failures' = failures + 1 /\ UNCHANGED applied

-----------------------------------------------------------------------------
(* The stores and the clock.                                               *)

\* The purchase changes, for good when it expires; Google Play notifies.
StoreEvent(t, type) ==
    /\ store[t] # "expired"
    /\ clock < MaxEvents
    /\ clock' = clock + 1
    /\ store' = [store EXCEPT ![t] = IF type = "info" THEN @ ELSE type]
    /\ notes' = IF t \in PlayTokens
                THEN notes \cup {[token |-> t, type |-> type, time |-> clock + 1]}
                ELSE notes
    /\ UNCHANGED <<claim, sub, ended, call, sweep, rev, history>>

\* verifyPlaySubscription and verifyAppleTransaction: not expired at the store.
ValidAtStore(t) == store[t] \in {"active", "grace_period", "canceled"}

Elapse(m) ==
    /\ sub[m].status # "trial_pending" /\ ~ended[m]
    /\ ended' = [ended EXCEPT ![m] = TRUE]
    /\ UNCHANGED <<store, clock, notes, claim, sub, call, sweep, rev, history>>

\* activateTrialIfPending, when the first child is linked.
StartTrial(m) ==
    /\ sub[m].status = "trial_pending"
    /\ sub' = [sub EXCEPT ![m].status = "trial"]
    /\ UNCHANGED <<store, clock, notes, claim, ended, call, sweep, rev, history>>

-----------------------------------------------------------------------------
(* verifyPurchase.                                                         *)

\* Variant: the account is granted the purchase without the claim.
VerifyPurchaseUnclaimed(p, m, t) ==
    /\ call[p] = Idle
    /\ ValidAtStore(t)
    /\ call' = [call EXCEPT ![p] = [pc |-> "grant", master |-> m, token |-> t]]
    /\ UNCHANGED <<store, clock, notes, claim, sub, ended, sweep, rev, history>>

\* The store is asked; its answer may be old when the account is written.
VerifyPurchase(p, m, t) ==
    /\ call[p] = Idle
    /\ ValidAtStore(t)
    /\ call' = [call EXCEPT ![p] = [pc |-> "claim", master |-> m, token |-> t]]
    /\ UNCHANGED <<store, clock, notes, claim, sub, ended, sweep, rev, history>>

\* Variant: the claim is written without looking for an owner.
ClaimTokenBlind(p) ==
    /\ call[p].pc = "claim"
    /\ claim' = [claim EXCEPT ![call[p].token] = call[p].master]
    /\ call' = [call EXCEPT ![p].pc = "grant"]
    /\ UNCHANGED <<store, clock, notes, sub, ended, sweep, rev, history>>

\* The transaction on purchase_tokens: the purchase has one owner.
ClaimToken(p) ==
    LET c == call[p] IN
    /\ c.pc = "claim"
    /\ IF claim[c.token] \in {None, c.master}
       THEN /\ claim' = [claim EXCEPT ![c.token] = c.master]
            /\ call' = [call EXCEPT ![p].pc = "grant"]
       ELSE call' = [call EXCEPT ![p] = Idle] /\ UNCHANGED claim
    /\ UNCHANGED <<store, clock, notes, sub, ended, sweep, rev, history>>

\* The whole subscription map is replaced, lastEventTimeMillis with it.
GrantPurchase(p) ==
    LET c == call[p] IN
    /\ c.pc = "grant"
    /\ sub' = [sub EXCEPT ![c.master] = [status |-> "active", token |-> c.token,
                                         evt |-> None]]
    /\ ended' = [ended EXCEPT ![c.master] = FALSE]
    /\ call' = [call EXCEPT ![p] = Idle]
    /\ UNCHANGED <<store, clock, notes, claim, sweep, rev, history>>

-----------------------------------------------------------------------------
(* applyRtdnNotification.                                                  *)

Holder(t) == {m \in Masters : sub[m].token = t}

\* Delivered for good, or to come once more.
Deliver(n) == \/ notes' = notes \ {n} /\ UNCHANGED history
              \/ Fail /\ UNCHANGED notes

\* The query by purchase token; without a holder the notification is dropped.
Notify(p, n) ==
    /\ call[p] = Idle
    /\ Deliver(n)
    /\ \/ /\ Holder(n.token) = {}
          /\ UNCHANGED call
       \/ \E m \in Holder(n.token) :
             call' = [call EXCEPT ![p] = [pc |-> "apply", master |-> m, note |-> n]]
    /\ UNCHANGED <<store, clock, claim, sub, ended, sweep, rev>>

\* What a notification makes of a subscription.
Noted(s, n) == [status |-> IF n.type = "info" THEN s.status ELSE n.type,
                token |-> s.token, evt |-> n.time]

ApplyNote(p) ==
    LET c == call[p] IN
    /\ sub' = [sub EXCEPT ![c.master] = Noted(@, c.note)]
    /\ ended' = [ended EXCEPT ![c.master] = @ /\ c.note.type # "active"]
    /\ applied' = [applied EXCEPT ![c.note.token] = c.note.time]
    /\ UNCHANGED failures

\* Variant: compares the event with nothing.
ApplyNotificationBlind(p) ==
    /\ call[p].pc = "apply"
    /\ ApplyNote(p)
    /\ call' = [call EXCEPT ![p] = Idle]
    /\ UNCHANGED <<store, clock, notes, claim, sweep, rev>>

\* The transaction: apply only what is newer than the last event applied.
ApplyNotification(p) ==
    LET c == call[p] IN
    /\ c.pc = "apply"
    /\ IF sub[c.master].evt # None /\ c.note.time <= sub[c.master].evt
       THEN UNCHANGED <<sub, ended, history>>
       ELSE ApplyNote(p)
    /\ call' = [call EXCEPT ![p] = Idle]
    /\ UNCHANGED <<store, clock, notes, claim, sweep, rev>>

\* An error on the way: the purchase call fails after what it wrote so far, the
\* notification handler swallows it and the notification is lost.
Abort(p) ==
    /\ call[p] # Idle
    /\ Fail
    /\ call' = [call EXCEPT ![p] = Idle]
    /\ UNCHANGED <<store, clock, notes, claim, sub, ended, sweep, rev>>

-----------------------------------------------------------------------------
(* checkExpiredSubscriptions and reverifyActiveSubscriptionsRun.           *)

Take(n, S) == {T \in SUBSET S : Cardinality(T) = IF Cardinality(S) < n THEN Cardinality(S)
                                                                      ELSE n}

\* Variant: looks for trials only.
SweepSubscriptionsNone ==
    /\ sweep.pc = "idle"
    /\ sweep' = [NoSweep EXCEPT !.pc = "trials"]
    /\ UNCHANGED <<store, clock, notes, claim, sub, ended, call, rev, history>>

\* The first query.
SweepSubscriptions ==
    /\ sweep.pc = "idle"
    /\ sweep' = [NoSweep EXCEPT !.pc = "trials",
                                !.subs = {m \in Masters : sub[m].status = "active" /\ ended[m]}]
    /\ UNCHANGED <<store, clock, notes, claim, sub, ended, call, rev, history>>

\* The second query.
SweepTrials ==
    /\ sweep.pc = "trials"
    /\ sweep' = [sweep EXCEPT !.pc = "commit",
                              !.trials = {m \in Masters : sub[m].status = "trial" /\ ended[m]}]
    /\ UNCHANGED <<store, clock, notes, claim, sub, ended, call, rev, history>>

\* One batch: subscriptions first, trials next, whatever became of them since.
SweepCommit ==
    /\ sweep.pc = "commit"
    /\ \E S \in Take(SweepChunk, sweep.subs) :
       \E T \in Take(SweepChunk - Cardinality(S), sweep.trials) :
          /\ sub' = [m \in Masters |->
                        IF m \in T THEN [sub[m] EXCEPT !.status = "trial_expired"]
                        ELSE IF m \in S THEN [sub[m] EXCEPT !.status = "expired"]
                        ELSE sub[m]]
          /\ sweep' = IF sweep.subs = S /\ sweep.trials = T THEN Swept
                      ELSE [sweep EXCEPT !.subs = @ \ S, !.trials = @ \ T]
    /\ UNCHANGED <<store, clock, notes, claim, ended, call, rev, history>>

\* Goes on with these candidates; without any, the night is over.
NextCandidate(todo) ==
    IF todo = {} THEN rev' = NoReverify /\ sweep' = NoSweep
    ELSE rev' = [NoReverify EXCEPT !.pc = "ask", !.todo = todo] /\ UNCHANGED sweep

\* The candidates with their tokens, as they are now.
ReverifyCandidates ==
    /\ sweep.pc = "done" /\ rev.pc = "idle"
    /\ \E C \in Take(ReverifyBatch,
                     {m \in Masters : sub[m].status \in {"active", "grace_period"}}) :
          NextCandidate({<<m, sub[m].token>> : m \in C})
    /\ UNCHANGED <<store, clock, notes, claim, sub, ended, call, history>>

\* computeReverifyUpdate: a payment is pending in the grace period; on hold, the
\* expiry lies in the past.
Reverified(s) == CASE s = "grace_period" -> "on_hold"
                   [] s = "on_hold"      -> "expired"
                   [] OTHER              -> s

\* Google Play answers for the token that was read; it does not know Apple's.
ReverifyAsk ==
    /\ rev.pc = "ask"
    /\ \E c \in rev.todo :
          IF c[2] \in PlayTokens
          THEN /\ rev' = [pc |-> "write", todo |-> rev.todo \ {c}, master |-> c[1],
                          status |-> Reverified(store[c[2]])]
               /\ UNCHANGED sweep
          ELSE NextCandidate(rev.todo \ {c})
    /\ UNCHANGED <<store, clock, notes, claim, sub, ended, call, history>>

\* The update, blind to what was written since.
ReverifyWrite ==
    /\ rev.pc = "write"
    /\ sub' = [sub EXCEPT ![rev.master].status = rev.status]
    /\ ended' = [ended EXCEPT ![rev.master] = @ /\ rev.status = "expired"]
    /\ NextCandidate(rev.todo)
    /\ UNCHANGED <<store, clock, notes, claim, call, history>>

\* An error ends the sweep after what it committed; an error with one candidate
\* leaves that one as it is.
NightFails ==
    /\ Fail
    /\ \/ sweep.pc \in {"trials", "commit"} /\ sweep' = Swept /\ UNCHANGED rev
       \/ \E c \in rev.todo : rev.pc = "ask" /\ NextCandidate(rev.todo \ {c})
       \/ rev.pc = "write" /\ NextCandidate(rev.todo)
    /\ UNCHANGED <<store, clock, notes, claim, sub, ended, call>>

\* revokeSubscription: the account first.
RevokeSubscription(m) ==
    /\ sub[m].status # "revoked"
    /\ Fail
    /\ sub' = [sub EXCEPT ![m].status = "revoked"]
    /\ UNCHANGED <<store, clock, notes, claim, ended, call, sweep, rev>>

-----------------------------------------------------------------------------
CallStep(p) == ClaimToken(p) \/ GrantPurchase(p) \/ ApplyNotification(p)
Sweep       == SweepSubscriptions \/ SweepTrials \/ SweepCommit
Reverify    == ReverifyCandidates \/ ReverifyAsk \/ ReverifyWrite

Next ==
    \/ \E t \in Tokens, type \in StoreStates \cup {"info"} : StoreEvent(t, type)
    \/ \E m \in Masters : Elapse(m) \/ StartTrial(m) \/ RevokeSubscription(m)
    \/ \E p \in Calls :
        \/ \E m \in Masters, t \in Tokens : VerifyPurchase(p, m, t)
        \/ \E n \in notes : Notify(p, n)
        \/ CallStep(p)
        \/ Abort(p)
    \/ Sweep \/ Reverify \/ NightFails

Spec == Init /\ [][Next]_vars

\* The runtime resumes invocations, the scheduler starts the nightly jobs, and
\* time passes.  Notifications need not arrive.
Fairness == /\ \A p \in Calls : WF_vars(CallStep(p))
            /\ \A m \in Masters : WF_vars(Elapse(m))
            /\ WF_vars(Sweep \/ Reverify)

FairSpec == Spec /\ Fairness

-----------------------------------------------------------------------------
(* Safety.                                                                 *)

\* "One purchase token must entitle exactly one account", however many accounts
\* present the same purchase at the same time.
OneAccountPerPurchase ==
    \A m, n \in Masters : sub[m].token # None /\ sub[m].token = sub[n].token => m = n

\* A status that is paid for is held only by the account that claimed the purchase
\* it shows, whatever the stores report, the night writes and the children start.
PaidByOwnPurchase ==
    \A m \in Masters : sub[m].status \in {"active", "grace_period"} =>
        sub[m].token # None /\ claim[sub[m].token] = m

\* The five writers, each in several steps and working with what it read before,
\* write what PurchaseLedger allows: the owner of a purchase never changes, and
\* neither a late answer nor the night gives a purchase to an account without one.
Ledger == INSTANCE PurchaseLedger WITH
    ownerOf <- claim,
    account <- [m \in Masters |-> [status |-> sub[m].status, token |-> sub[m].token]]
ImplementsPurchaseLedger == Ledger!Spec

\* Between two grants of a purchase, notifications take effect in the order of
\* their event times, each at most once, in whatever order their handlers run.
NotificationsInOrder ==
    [][\A p \in Calls :
          LET c == call[p] IN
          (c.pc = "apply" /\ call'[p] = Idle /\ sub'[c.master] # sub[c.master]
           /\ sub[c.master].evt # None) => c.note.time > sub[c.master].evt]_vars

(* Liveness.                                                               *)

\* A purchase that expired at its store does not give access for ever, although
\* notifications are lost, late answers are written, and Apple sends none.
ExpiredPurchaseEnds ==
    \A m \in Masters :
        <>[](sub[m].token # None /\ store[sub[m].token] = "expired"
                => sub[m].status # "active")

(* What the documentation says and the code does not keep.                 *)

\* "A late-arriving OLDER notification cannot clobber a newer subscription state":
\* the events applied for one purchase never go back in time.
OlderNeverClobbers == [][\A t \in Tokens : applied'[t] >= applied[t]]_vars
=============================================================================
