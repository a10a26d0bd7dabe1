------------------------- MODULE SubscriptionProofs -------------------------
(***************************************************************************)
(* Proofs about Subscription, for any number of accounts, purchases, calls *)
(* and any batch sizes: the types, that a purchase entitles at most one    *)
(* account, and that notifications take effect in order.                   *)
(*                                                                         *)
(* The inductive invariant: an account that holds a purchase is the one    *)
(* that claimed it, and so is an account about to be granted one.  For the *)
(* types, only accounts with a purchase are re-verified.                   *)
(***************************************************************************)
EXTENDS Subscription, TLAPS

Held(m) == sub[m].token # None

\* The claim of a purchase precedes its grant.
Claimed ==
    /\ \A m \in Masters : Held(m) => claim[sub[m].token] = m
    /\ \A p \in Calls : call[p].pc = "grant" => claim[call[p].token] = call[p].master

\* What the nightly job and the notifications touch has a purchase.
Purchased ==
    /\ \A m \in Masters : sub[m].status \in {"active", "grace_period"} => Held(m)
    /\ \A p \in Calls : call[p].pc = "apply" => Held(call[p].master)
    /\ \A c \in rev.todo : Held(c[1])
    /\ rev.pc = "write" => /\ rev.master \in Masters /\ Held(rev.master)
                           /\ rev.status \in StoreStates

Inv == TypeOK /\ Claimed /\ Purchased

-----------------------------------------------------------------------------
LEMMA InitInv == Init => Inv
<1> SUFFICES ASSUME Init PROVE Inv
  OBVIOUS
<1>1. /\ store \in [Tokens -> StoreStates] /\ clock \in 0..MaxEvents
      /\ notes \subseteq Notes /\ claim \in [Tokens -> Masters \cup {None}]
      /\ applied \in [Tokens -> 0..MaxEvents] /\ failures \in 0..MaxFailures
  BY SubscriptionAssumption DEF Init, StoreStates
<1>2. sub \in [Masters -> Subs]
  BY DEF Init, Subs, Statuses
<1>3. ended \in [Masters -> BOOLEAN]
  BY DEF Init
<1>4. call \in [Calls -> {Idle} \cup PurchaseCalls \cup NoteCalls]
  BY DEF Init
<1>5. /\ sweep \in [pc : {"idle", "trials", "commit", "done"}, subs : SUBSET Masters,
                    trials : SUBSET Masters]
      /\ rev \in [pc : {"idle", "ask", "write"}, todo : SUBSET (Masters \X Tokens),
                  master : Masters \cup {None}, status : Statuses \cup {None}]
  BY DEF Init, NoSweep, NoReverify
<1>6. TypeOK
  BY <1>1, <1>2, <1>3, <1>4, <1>5 DEF TypeOK
<1>7. Claimed /\ Purchased
  BY DEF Init, Claimed, Purchased, Held, Idle, NoReverify
<1> QED BY <1>6, <1>7 DEF Inv

-----------------------------------------------------------------------------
(* The stores, the clock, and the actions on one account.                  *)

LEMMA StoreEventInv ==
    ASSUME Inv, NEW t \in Tokens, NEW type \in StoreStates \cup {"info"}, StoreEvent(t, type)
    PROVE  Inv'
<1> USE SubscriptionAssumption DEF Inv
<1>1. /\ store' \in [Tokens -> StoreStates] /\ clock' \in 0..MaxEvents
      /\ UNCHANGED <<claim, sub, ended, call, sweep, rev, applied, failures>>
  BY DEF StoreEvent, TypeOK, history
<1>2. notes' \subseteq Notes
  <2>1. clock + 1 \in 1..MaxEvents
    BY DEF StoreEvent, TypeOK
  <2> QED BY <2>1 DEF StoreEvent, TypeOK, Notes
<1>3. TypeOK'
  BY <1>1, <1>2 DEF TypeOK
<1>4. Claimed' /\ Purchased'
  BY <1>1 DEF Claimed, Purchased, Held
<1> QED BY <1>3, <1>4

\* Steps that change only the status of accounts, not to one that gives access.
LEMMA StatusInv ==
    ASSUME Inv, sub' \in [Masters -> Subs],
           \A m \in Masters : /\ sub'[m].token = sub[m].token
                              /\ sub'[m].status \in {"active", "grace_period"} => Held(m),
           UNCHANGED <<claim, call>>,
           UNCHANGED <<rev>> \/ (rev'.todo \subseteq rev.todo /\ rev'.pc # "write")
    PROVE  Claimed' /\ Purchased'
<1> USE DEF Inv
<1>1. \A m \in Masters : Held(m)' <=> Held(m)
  BY DEF Held
<1>2. Claimed'
  BY <1>1 DEF Claimed, Held
<1>3. /\ \A m \in Masters : sub'[m].status \in {"active", "grace_period"} => Held(m)'
      /\ \A p \in Calls : call'[p].pc = "apply" => Held(call[p].master)'
  <2>1. \A p \in Calls : call[p].pc = "apply" => call[p].master \in Masters
    BY DEF TypeOK, Idle, PurchaseCalls, NoteCalls
  <2> QED BY <1>1, <2>1 DEF Purchased
<1>4. CASE UNCHANGED <<rev>>
  <2>1. \A c \in rev.todo : c[1] \in Masters
    BY DEF TypeOK
  <2> QED BY <1>1, <1>2, <1>3, <1>4, <2>1 DEF Purchased, Held
<1>5. CASE rev'.todo \subseteq rev.todo /\ rev'.pc # "write"
  <2>1. \A c \in rev.todo : c[1] \in Masters
    BY DEF TypeOK
  <2> QED BY <1>1, <1>2, <1>3, <1>5, <2>1 DEF Purchased, Held
<1> QED BY <1>4, <1>5

LEMMA ElapseInv ==
    ASSUME Inv, NEW m \in Masters, Elapse(m)
    PROVE  Inv'
<1>1. TypeOK'
  BY DEF Inv, Elapse, TypeOK, history
<1>2. Claimed' /\ Purchased'
  BY DEF Inv, Elapse, Claimed, Purchased, Held
<1> QED BY <1>1, <1>2 DEF Inv

LEMMA StartTrialInv ==
    ASSUME Inv, NEW m \in Masters, StartTrial(m)
    PROVE  Inv'
<1>1. sub[m] \in Subs /\ sub' = [sub EXCEPT ![m] = [sub[m] EXCEPT !.status = "trial"]]
  BY DEF Inv, TypeOK, StartTrial
<1>2. sub' \in [Masters -> Subs]
  BY <1>1 DEF Inv, TypeOK, Subs, Statuses
<1>3. TypeOK'
  BY <1>2 DEF Inv, StartTrial, TypeOK, history
<1>4. \A n \in Masters : /\ sub'[n].token = sub[n].token
                         /\ sub'[n].status \in {"active", "grace_period"} => Held(n)
  BY <1>1 DEF Inv, TypeOK, Subs, Purchased
<1> QED BY <1>2, <1>3, <1>4, StatusInv DEF Inv, StartTrial

LEMMA RevokeInv ==
    ASSUME Inv, NEW m \in Masters, RevokeSubscription(m)
    PROVE  Inv'
<1>1. sub[m] \in Subs /\ sub' = [sub EXCEPT ![m] = [sub[m] EXCEPT !.status = "revoked"]]
  BY DEF Inv, TypeOK, RevokeSubscription
<1>2. sub' \in [Masters -> Subs]
  BY <1>1 DEF Inv, TypeOK, Subs, Statuses
<1>3. TypeOK'
  BY <1>2, SubscriptionAssumption DEF Inv, RevokeSubscription, Fail, TypeOK
<1>4. \A n \in Masters : /\ sub'[n].token = sub[n].token
                         /\ sub'[n].status \in {"active", "grace_period"} => Held(n)
  BY <1>1 DEF Inv, TypeOK, Subs, Purchased
<1> QED BY <1>2, <1>3, <1>4, StatusInv DEF Inv, RevokeSubscription

-----------------------------------------------------------------------------
(* Purchase calls and notifications.                                       *)

LEMMA VerifyPurchaseInv ==
    ASSUME Inv, NEW p \in Calls, NEW m \in Masters, NEW t \in Tokens, VerifyPurchase(p, m, t)
    PROVE  Inv'
<1>1. call' \in [Calls -> {Idle} \cup PurchaseCalls \cup NoteCalls]
  BY DEF Inv, VerifyPurchase, TypeOK, PurchaseCalls
<1>2. TypeOK'
  BY <1>1 DEF Inv, VerifyPurchase, TypeOK, history
<1>3. \A q \in Calls : call'[q].pc = "claim" \/ call'[q] = call[q]
  BY DEF Inv, VerifyPurchase, TypeOK
<1>4. Claimed' /\ Purchased'
  BY <1>3 DEF Inv, VerifyPurchase, Claimed, Purchased, Held
<1> QED BY <1>2, <1>4 DEF Inv

LEMMA ClaimTokenInv ==
    ASSUME Inv, NEW p \in Calls, ClaimToken(p)
    PROVE  Inv'
<1> DEFINE c == call[p]
<1> USE DEF Inv
<1>1. c \in PurchaseCalls /\ c.master \in Masters /\ c.token \in Tokens
  BY DEF ClaimToken, TypeOK, Idle, PurchaseCalls, NoteCalls
<1>2. CASE claim[c.token] \in {None, c.master}
  <2>1. /\ claim' = [claim EXCEPT ![c.token] = c.master]
        /\ call' = [call EXCEPT ![p] = [c EXCEPT !.pc = "grant"]]
    BY <1>2 DEF ClaimToken
  <2>2. call' \in [Calls -> {Idle} \cup PurchaseCalls \cup NoteCalls]
    BY <1>1, <2>1 DEF TypeOK, PurchaseCalls
  <2>3. claim' \in [Tokens -> Masters \cup {None}]
    BY <1>1, <2>1 DEF TypeOK
  <2>4. TypeOK'
    BY <2>2, <2>3 DEF ClaimToken, TypeOK, history
  <2>5. \A m \in Masters : Held(m)' => claim'[sub'[m].token] = m
    <3> SUFFICES ASSUME NEW m \in Masters, sub[m].token # None
                 PROVE  claim'[sub[m].token] = m
      BY DEF ClaimToken, Held
    <3>1. sub[m].token \in Tokens /\ claim[sub[m].token] = m
      BY DEF TypeOK, Subs, Claimed, Held
    <3>2. m # None
      BY SubscriptionAssumption
    <3> QED BY <1>2, <2>1, <3>1, <3>2 DEF TypeOK
  <2>6. ASSUME NEW q \in Calls, call'[q].pc = "grant"
        PROVE  claim'[call'[q].token] = call'[q].master
    <3>1. CASE q = p
      BY <1>1, <2>1, <3>1 DEF TypeOK, PurchaseCalls
    <3>2. CASE q # p
      <4>1. call'[q] = call[q] /\ call[q].pc = "grant"
        BY <2>1, <2>6, <3>2 DEF TypeOK
      <4>2. call[q].token \in Tokens /\ call[q].master \in Masters
        BY <4>1 DEF TypeOK, Idle, PurchaseCalls, NoteCalls
      <4>3. claim[call[q].token] = call[q].master /\ call[q].master # None
        BY <4>1, <4>2, SubscriptionAssumption DEF Claimed
      <4> QED BY <1>2, <2>1, <4>1, <4>2, <4>3 DEF TypeOK
    <3> QED BY <3>1, <3>2
  <2>7. \A q \in Calls : call'[q].pc = "grant" \/ call'[q] = call[q]
    BY <1>1, <2>1 DEF TypeOK, PurchaseCalls
  <2>8. Purchased'
    BY <2>7 DEF ClaimToken, Purchased, Held
  <2> QED BY <2>4, <2>5, <2>6, <2>8 DEF Claimed
<1>3. CASE ~(claim[c.token] \in {None, c.master})
  <2>1. call' = [call EXCEPT ![p] = Idle] /\ UNCHANGED claim
    BY <1>3 DEF ClaimToken
  <2>2. TypeOK'
    BY <2>1 DEF ClaimToken, TypeOK, history
  <2>3. \A q \in Calls : call'[q] = Idle \/ call'[q] = call[q]
    BY <2>1 DEF TypeOK
  <2>4. Claimed' /\ Purchased'
    BY <2>1, <2>3 DEF ClaimToken, Claimed, Purchased, Held, Idle
  <2> QED BY <2>2, <2>4
<1> QED BY <1>2, <1>3

LEMMA GrantPurchaseInv ==
    ASSUME Inv, NEW p \in Calls, GrantPurchase(p)
    PROVE  Inv'
<1> DEFINE c == call[p]
<1> USE DEF Inv
<1>1. c.master \in Masters /\ c.token \in Tokens /\ c.token # None
  BY SubscriptionAssumption DEF GrantPurchase, TypeOK, Idle, PurchaseCalls, NoteCalls, Tokens
<1>2. /\ sub' = [sub EXCEPT ![c.master] = [status |-> "active", token |-> c.token,
                                          evt |-> None]]
      /\ ended' = [ended EXCEPT ![c.master] = FALSE]
      /\ call' = [call EXCEPT ![p] = Idle]
      /\ UNCHANGED <<store, clock, notes, claim, sweep, rev, applied, failures>>
  BY DEF GrantPurchase, history
<1>3. sub' \in [Masters -> Subs]
  BY <1>1, <1>2 DEF TypeOK, Subs, Statuses, StoreStates
<1>4. ended' \in [Masters -> BOOLEAN] /\ call' \in [Calls -> {Idle} \cup PurchaseCalls \cup NoteCalls]
  BY <1>2 DEF TypeOK
<1>5. TypeOK'
  BY <1>2, <1>3, <1>4 DEF TypeOK
<1>6. \A m \in Masters : Held(m) => Held(m)'
  BY <1>1, <1>2 DEF TypeOK, Held
<1>7. Claimed'
  <2>1. claim[c.token] = c.master
    BY DEF GrantPurchase, Claimed
  <2>2. \A m \in Masters : Held(m)' => claim'[sub'[m].token] = m
    BY <1>1, <1>2, <2>1 DEF TypeOK, Claimed, Held
  <2>3. \A q \in Calls : call'[q].pc = "grant" => call'[q] = call[q]
    BY <1>2 DEF TypeOK, Idle
  <2> QED BY <1>2, <2>2, <2>3 DEF Claimed
<1>8. Purchased'
  <2>1. \A m \in Masters : sub'[m].status \in {"active", "grace_period"} => Held(m)'
    BY <1>1, <1>2 DEF TypeOK, Purchased, Held
  <2>2. \A q \in Calls : call'[q].pc = "apply" => Held(call[q].master)'
    <3> SUFFICES ASSUME NEW q \in Calls, call'[q].pc = "apply" PROVE Held(call[q].master)'
      OBVIOUS
    <3>1. call'[q] = call[q] /\ call[q].pc = "apply"
      BY <1>2 DEF TypeOK, Idle
    <3>2. call[q].master \in Masters
      BY <3>1 DEF TypeOK, Idle, PurchaseCalls, NoteCalls
    <3>3. sub'[call[q].master].token # None
      BY <1>6, <3>1, <3>2 DEF Purchased, Held
    <3> QED BY <3>1, <3>3 DEF Held
  <2>3. \A d \in rev.todo : d[1] \in Masters
    BY DEF TypeOK
  <2> QED BY <1>2, <1>6, <2>1, <2>2, <2>3 DEF Purchased, Held
<1> QED BY <1>5, <1>7, <1>8

LEMMA NotifyInv ==
    ASSUME Inv, NEW p \in Calls, NEW n \in notes, Notify(p, n)
    PROVE  Inv'
<1> USE DEF Inv
<1>1. n \in Notes
  BY DEF TypeOK
<1>2. /\ notes' \subseteq Notes /\ failures' \in 0..MaxFailures /\ applied' = applied
      /\ UNCHANGED <<store, clock, claim, sub, ended, sweep, rev>>
  <2>1. notes' \subseteq Notes
    BY DEF Notify, Deliver, TypeOK
  <2>2. failures' \in 0..MaxFailures /\ applied' = applied
    BY SubscriptionAssumption DEF Notify, Deliver, TypeOK, Fail, history
  <2> QED BY <2>1, <2>2 DEF Notify
<1>3. CASE UNCHANGED call
  <2>1. TypeOK'
    BY <1>2, <1>3 DEF TypeOK
  <2> QED BY <1>2, <1>3, <2>1 DEF Claimed, Purchased, Held
<1>4. ASSUME NEW m \in Holder(n.token),
             call' = [call EXCEPT ![p] = [pc |-> "apply", master |-> m, note |-> n]]
      PROVE  Inv'
  <2>1. m \in Masters /\ n.token \in Tokens /\ sub[m].token = n.token
    BY <1>1 DEF Holder, Notes, Tokens
  <2>2. Held(m)
    BY <2>1, SubscriptionAssumption DEF Held, Tokens
  <2>3. call' \in [Calls -> {Idle} \cup PurchaseCalls \cup NoteCalls]
    BY <1>1, <1>4, <2>1 DEF TypeOK, NoteCalls
  <2>4. TypeOK'
    BY <1>2, <2>3 DEF TypeOK
  <2>5. \A q \in Calls : \/ call'[q] = call[q]
                         \/ call'[q].pc = "apply" /\ call'[q].master = m
    BY <1>4 DEF TypeOK
  <2>6. Claimed' /\ Purchased'
    BY <1>2, <2>2, <2>5 DEF Claimed, Purchased, Held
  <2> QED BY <2>4, <2>6
<1> QED BY <1>3, <1>4 DEF Notify

LEMMA ApplyNotificationInv ==
    ASSUME Inv, NEW p \in Calls, ApplyNotification(p)
    PROVE  Inv'
<1> DEFINE c == call[p]
<1> USE DEF Inv
<1>1. c.pc = "apply" /\ c.master \in Masters /\ c.note \in Notes /\ Held(c.master)
  BY DEF ApplyNotification, TypeOK, Idle, PurchaseCalls, NoteCalls, Purchased
<1>2. /\ call' = [call EXCEPT ![p] = Idle]
      /\ UNCHANGED <<store, clock, notes, claim, sweep, rev>>
  BY DEF ApplyNotification
<1>3. call' \in [Calls -> {Idle} \cup PurchaseCalls \cup NoteCalls]
  BY <1>2 DEF TypeOK
<1>4. \A q \in Calls : call'[q] = Idle \/ call'[q] = call[q]
  BY <1>2 DEF TypeOK
<1>5. CASE UNCHANGED <<sub, ended, history>>
  <2>1. TypeOK'
    BY <1>2, <1>3, <1>5 DEF TypeOK, history
  <2> QED BY <1>2, <1>4, <1>5, <2>1 DEF Claimed, Purchased, Held, Idle
<1>6. CASE ApplyNote(p)
  <2>1. /\ sub[c.master] \in Subs /\ sub' = [sub EXCEPT ![c.master] = Noted(sub[c.master], c.note)]
        /\ c.note.time \in 1..MaxEvents /\ c.note.token \in Tokens
        /\ c.note.type \in StoreStates \cup {"info"}
    BY <1>1, <1>6 DEF ApplyNote, TypeOK, Notes, Tokens
  <2>2. Noted(sub[c.master], c.note) \in Subs
        /\ Noted(sub[c.master], c.note).token = sub[c.master].token
    <3>1. c.note.time \in 0..MaxEvents \cup {None}
      BY <2>1, SubscriptionAssumption
    <3>2. /\ sub[c.master].status \in Statuses
          /\ c.note.type # "info" => c.note.type \in Statuses
      BY <2>1 DEF Subs, Statuses
    <3> DEFINE status == IF c.note.type = "info" THEN sub[c.master].status ELSE c.note.type
    <3>3. Noted(sub[c.master], c.note)
            = [status |-> status, token |-> sub[c.master].token, evt |-> c.note.time]
      BY DEF Noted
    <3>4. status \in Statuses /\ sub[c.master].token \in Tokens \cup {None}
      BY <2>1, <3>2 DEF Subs
    <3> HIDE DEF status
    <3> QED BY <3>1, <3>3, <3>4 DEF Subs
  <2>3. sub' \in [Masters -> Subs]
    BY <1>1, <2>1, <2>2 DEF TypeOK
  <2>4. applied' \in [Tokens -> 0..MaxEvents]
    BY <1>6, <2>1, SubscriptionAssumption DEF ApplyNote, TypeOK
  <2>5. ended' \in [Masters -> BOOLEAN]
    <3>1. ended' = [ended EXCEPT ![c.master] = ended[c.master] /\ c.note.type # "active"]
      BY <1>6 DEF ApplyNote
    <3> QED BY <1>1, <3>1, Zenon DEF TypeOK
  <2>6. TypeOK'
    BY <1>2, <1>3, <1>6, <2>3, <2>4, <2>5 DEF TypeOK, ApplyNote
  <2>7. \A m \in Masters : sub'[m].token = sub[m].token
    BY <1>1, <2>1, <2>2 DEF TypeOK
  <2>8. \A m \in Masters : sub'[m].status \in {"active", "grace_period"} => Held(m)
    BY <1>1, <2>1 DEF TypeOK, Purchased
  <2>9. Claimed'
    BY <1>2, <1>4, <2>7 DEF Claimed, Held, Idle
  <2>10. Purchased'
    <3>1. \A m \in Masters : Held(m)' <=> Held(m)
      BY <2>7 DEF Held
    <3>2. \A q \in Calls : call'[q].pc = "apply" => Held(call[q].master)'
      <4> SUFFICES ASSUME NEW q \in Calls, call'[q].pc = "apply" PROVE Held(call[q].master)'
        OBVIOUS
      <4>1. call'[q] = call[q] /\ call[q].pc = "apply"
        BY <1>4 DEF Idle
      <4>2. call[q].master \in Masters
        BY <4>1 DEF TypeOK, Idle, PurchaseCalls, NoteCalls
      <4>3. sub'[call[q].master].token # None
        BY <2>7, <4>1, <4>2 DEF Purchased, Held
      <4> QED BY <4>1, <4>3 DEF Held
    <3>3. \A d \in rev.todo : d[1] \in Masters
      BY DEF TypeOK
    <3> QED BY <1>2, <2>8, <3>1, <3>2, <3>3 DEF Purchased, Held
  <2> QED BY <2>6, <2>9, <2>10
<1> QED BY <1>5, <1>6 DEF ApplyNotification

LEMMA AbortInv ==
    ASSUME Inv, NEW p \in Calls, Abort(p)
    PROVE  Inv'
<1> USE DEF Inv
<1>1. call' \in [Calls -> {Idle} \cup PurchaseCalls \cup NoteCalls]
  BY DEF Abort, TypeOK
<1>2. TypeOK'
  BY <1>1, SubscriptionAssumption DEF Abort, Fail, TypeOK
<1>3. \A q \in Calls : call'[q] = Idle \/ call'[q] = call[q]
  BY DEF Abort, TypeOK
<1>4. Claimed' /\ Purchased'
  BY <1>3 DEF Abort, Claimed, Purchased, Held, Idle
<1> QED BY <1>2, <1>4

-----------------------------------------------------------------------------
(* The nightly jobs.                                                       *)

LEMMA SweepInv == ASSUME Inv, Sweep PROVE Inv'
<1> USE DEF Inv
<1>1. CASE SweepSubscriptions
  <2>1. TypeOK'
    BY <1>1 DEF SweepSubscriptions, NoSweep, TypeOK, history
  <2> QED BY <1>1, <2>1 DEF SweepSubscriptions, Claimed, Purchased, Held
<1>2. CASE SweepTrials
  <2>1. TypeOK'
    BY <1>2 DEF SweepTrials, TypeOK, history
  <2> QED BY <1>2, <2>1 DEF SweepTrials, Claimed, Purchased, Held
<1>3. CASE SweepCommit
  <2>1. PICK S, T :
           /\ sub' = [m \in Masters |->
                         IF m \in T THEN [sub[m] EXCEPT !.status = "trial_expired"]
                         ELSE IF m \in S THEN [sub[m] EXCEPT !.status = "expired"]
                         ELSE sub[m]]
           /\ sweep' = IF sweep.subs = S /\ sweep.trials = T THEN Swept
                       ELSE [sweep EXCEPT !.subs = @ \ S, !.trials = @ \ T]
    BY <1>3 DEF SweepCommit
  <2>2. UNCHANGED <<store, clock, notes, claim, ended, call, rev, applied, failures>>
    BY <1>3 DEF SweepCommit, history
  <2>3. sub' \in [Masters -> Subs]
    BY <2>1 DEF TypeOK, Subs, Statuses, StoreStates
  <2>4. sweep' \in [pc : {"idle", "trials", "commit", "done"}, subs : SUBSET Masters,
                    trials : SUBSET Masters]
    BY <2>1 DEF TypeOK, Swept, NoSweep
  <2>5. TypeOK'
    BY <2>2, <2>3, <2>4 DEF TypeOK
  <2>6. \A m \in Masters : /\ sub'[m].token = sub[m].token
                           /\ sub'[m].status \in {"active", "grace_period"} => Held(m)
    BY <2>1 DEF TypeOK, Subs, Purchased
  <2> QED BY <2>2, <2>3, <2>5, <2>6, StatusInv
<1> QED BY <1>1, <1>2, <1>3 DEF Sweep

\* What NextCandidate leaves behind.
LEMMA NextCandidateType ==
    ASSUME Inv, NEW todo \in SUBSET (Masters \X Tokens), NextCandidate(todo)
    PROVE  /\ sweep' \in [pc : {"idle", "trials", "commit", "done"}, subs : SUBSET Masters,
                          trials : SUBSET Masters]
           /\ rev' \in [pc : {"idle", "ask", "write"}, todo : SUBSET (Masters \X Tokens),
                        master : Masters \cup {None}, status : Statuses \cup {None}]
           /\ rev'.todo \subseteq todo /\ rev'.pc # "write"
<1>1. CASE todo = {}
  BY <1>1 DEF NextCandidate, NoReverify, NoSweep
<1>2. CASE todo # {}
  <2>1. UNCHANGED sweep /\ rev' = [pc |-> "ask", todo |-> todo, master |-> None, status |-> None]
    BY <1>2 DEF NextCandidate, NoReverify
  <2> QED BY <2>1 DEF Inv, TypeOK
<1> QED BY <1>1, <1>2

LEMMA ReverifyInv == ASSUME Inv, Reverify PROVE Inv'
<1> USE DEF Inv
<1>1. CASE ReverifyCandidates
  <2>1. PICK C \in SUBSET {m \in Masters : sub[m].status \in {"active", "grace_period"}} :
           NextCandidate({<<m, sub[m].token>> : m \in C})
    BY <1>1 DEF ReverifyCandidates, Take
  <2> DEFINE todo == {<<m, sub[m].token>> : m \in C}
  <2>2. \A m \in C : m \in Masters /\ Held(m) /\ sub[m].token \in Tokens
    BY <2>1 DEF Purchased, TypeOK, Subs, Held
  <2>3. todo \in SUBSET (Masters \X Tokens) /\ \A d \in todo : Held(d[1])
    BY <2>2
  <2>4. /\ sweep' \in [pc : {"idle", "trials", "commit", "done"}, subs : SUBSET Masters,
                       trials : SUBSET Masters]
        /\ rev' \in [pc : {"idle", "ask", "write"}, todo : SUBSET (Masters \X Tokens),
                     master : Masters \cup {None}, status : Statuses \cup {None}]
        /\ rev'.todo \subseteq todo /\ rev'.pc # "write"
    BY <2>1, <2>3, NextCandidateType
  <2>5. UNCHANGED <<store, clock, notes, claim, sub, ended, call, applied, failures>>
    BY <1>1 DEF ReverifyCandidates, history
  <2>6. TypeOK'
    BY <2>4, <2>5 DEF TypeOK
  <2>7. Claimed' /\ Purchased'
    BY <2>3, <2>4, <2>5 DEF Claimed, Purchased, Held
  <2> QED BY <2>6, <2>7
<1>2. CASE ReverifyAsk
  <2>1. PICK d \in rev.todo :
           IF d[2] \in PlayTokens
           THEN /\ rev' = [pc |-> "write", todo |-> rev.todo \ {d}, master |-> d[1],
                           status |-> Reverified(store[d[2]])]
                /\ UNCHANGED sweep
           ELSE NextCandidate(rev.todo \ {d})
    BY <1>2 DEF ReverifyAsk
  <2>2. UNCHANGED <<store, clock, notes, claim, sub, ended, call, applied, failures>>
    BY <1>2 DEF ReverifyAsk, history
  <2>3. /\ d[1] \in Masters /\ d[2] \in Tokens /\ Held(d[1])
        /\ rev.todo \ {d} \in SUBSET (Masters \X Tokens)
    BY DEF TypeOK, Purchased
  <2>4. CASE d[2] \in PlayTokens
    <3>1. store[d[2]] \in StoreStates
      BY <2>3 DEF TypeOK
    <3>2. Reverified(store[d[2]]) \in StoreStates
      BY <3>1 DEF Reverified, StoreStates
    <3>3. rev' \in [pc : {"idle", "ask", "write"}, todo : SUBSET (Masters \X Tokens),
                    master : Masters \cup {None}, status : Statuses \cup {None}]
      BY <2>1, <2>3, <2>4, <3>2 DEF Statuses
    <3>4. TypeOK'
      BY <2>1, <2>2, <2>4, <3>3 DEF TypeOK
    <3>5. Claimed' /\ Purchased'
      BY <2>1, <2>2, <2>3, <2>4, <3>2 DEF Claimed, Purchased, Held
    <3> QED BY <3>4, <3>5
  <2>5. CASE d[2] \notin PlayTokens
    <3>1. /\ sweep' \in [pc : {"idle", "trials", "commit", "done"}, subs : SUBSET Masters,
                         trials : SUBSET Masters]
          /\ rev' \in [pc : {"idle", "ask", "write"}, todo : SUBSET (Masters \X Tokens),
                       master : Masters \cup {None}, status : Statuses \cup {None}]
          /\ rev'.todo \subseteq rev.todo \ {d} /\ rev'.pc # "write"
      BY <2>1, <2>3, <2>5, NextCandidateType
    <3>2. TypeOK'
      BY <2>2, <3>1 DEF TypeOK
    <3>3. Claimed' /\ Purchased'
      BY <2>2, <3>1 DEF Claimed, Purchased, Held
    <3> QED BY <3>2, <3>3
  <2> QED BY <2>4, <2>5
<1>3. CASE ReverifyWrite
  <2>1. /\ rev.master \in Masters /\ Held(rev.master) /\ rev.status \in StoreStates
        /\ rev.todo \in SUBSET (Masters \X Tokens) /\ sub[rev.master] \in Subs
    BY <1>3 DEF ReverifyWrite, Purchased, TypeOK
  <2>2. /\ sub' = [sub EXCEPT ![rev.master] = [sub[rev.master] EXCEPT !.status = rev.status]]
        /\ NextCandidate(rev.todo)
        /\ UNCHANGED <<store, clock, notes, claim, call, applied, failures>>
    BY <1>3 DEF ReverifyWrite, history
  <2>3. sub' \in [Masters -> Subs]
    BY <2>1, <2>2 DEF TypeOK, Subs, Statuses
  <2>4. ended' \in [Masters -> BOOLEAN]
    <3>1. ended' = [ended EXCEPT ![rev.master] = ended[rev.master] /\ rev.status = "expired"]
      BY <1>3 DEF ReverifyWrite
    <3> QED BY <2>1, <3>1, Zenon DEF TypeOK
  <2>5. /\ sweep' \in [pc : {"idle", "trials", "commit", "done"}, subs : SUBSET Masters,
                       trials : SUBSET Masters]
        /\ rev' \in [pc : {"idle", "ask", "write"}, todo : SUBSET (Masters \X Tokens),
                     master : Masters \cup {None}, status : Statuses \cup {None}]
        /\ rev'.todo \subseteq rev.todo /\ rev'.pc # "write"
    BY <2>1, <2>2, NextCandidateType
  <2>6. TypeOK'
    BY <2>2, <2>3, <2>4, <2>5 DEF TypeOK
  <2>7. \A m \in Masters : /\ sub'[m].token = sub[m].token
                           /\ sub'[m].status \in {"active", "grace_period"} => Held(m)
    BY <2>1, <2>2 DEF TypeOK, Subs, Purchased
  <2> QED BY <2>2, <2>3, <2>5, <2>6, <2>7, StatusInv
<1> QED BY <1>1, <1>2, <1>3 DEF Reverify

LEMMA NightFailsInv == ASSUME Inv, NightFails PROVE Inv'
<1> USE DEF Inv
<1>1. UNCHANGED <<store, clock, notes, claim, sub, ended, call, applied>>
  BY DEF NightFails, Fail
<1>2. failures' \in 0..MaxFailures
  BY SubscriptionAssumption DEF NightFails, Fail, TypeOK
<1>3. /\ sweep' \in [pc : {"idle", "trials", "commit", "done"}, subs : SUBSET Masters,
                     trials : SUBSET Masters]
      /\ rev' \in [pc : {"idle", "ask", "write"}, todo : SUBSET (Masters \X Tokens),
                   master : Masters \cup {None}, status : Statuses \cup {None}]
      /\ rev'.todo \subseteq rev.todo /\ (rev'.pc = "write" => rev' = rev)
  <2>1. CASE sweep' = Swept /\ UNCHANGED rev
    BY <2>1 DEF TypeOK, Swept, NoSweep
  <2>2. ASSUME NEW todo \in SUBSET rev.todo, NextCandidate(todo)
        PROVE  /\ sweep' \in [pc : {"idle", "trials", "commit", "done"}, subs : SUBSET Masters,
                              trials : SUBSET Masters]
               /\ rev' \in [pc : {"idle", "ask", "write"}, todo : SUBSET (Masters \X Tokens),
                            master : Masters \cup {None}, status : Statuses \cup {None}]
               /\ rev'.todo \subseteq rev.todo /\ rev'.pc # "write"
    <3>1. todo \in SUBSET (Masters \X Tokens)
      BY DEF TypeOK
    <3> QED BY <2>2, <3>1, NextCandidateType
  <2> QED BY <2>1, <2>2 DEF NightFails
<1>4. TypeOK'
  BY <1>1, <1>2, <1>3 DEF TypeOK
<1>5. Claimed' /\ Purchased'
  BY <1>1, <1>3 DEF Claimed, Purchased, Held
<1> QED BY <1>4, <1>5

-----------------------------------------------------------------------------
LEMMA NextInv == Inv /\ [Next]_vars => Inv'
<1> SUFFICES ASSUME Inv, [Next]_vars PROVE Inv'
  OBVIOUS
<1>1. ASSUME NEW t \in Tokens, NEW type \in StoreStates \cup {"info"}, StoreEvent(t, type)
      PROVE  Inv'
  BY <1>1, StoreEventInv
<1>2. ASSUME NEW m \in Masters, Elapse(m) \/ StartTrial(m) \/ RevokeSubscription(m)
      PROVE  Inv'
  BY <1>2, ElapseInv, StartTrialInv, RevokeInv
<1>3. ASSUME NEW p \in Calls, NEW m \in Masters, NEW t \in Tokens, VerifyPurchase(p, m, t)
      PROVE  Inv'
  BY <1>3, VerifyPurchaseInv
<1>4. ASSUME NEW p \in Calls, NEW n \in notes, Notify(p, n)
      PROVE  Inv'
  BY <1>4, NotifyInv
<1>5. ASSUME NEW p \in Calls, CallStep(p) \/ Abort(p)
      PROVE  Inv'
  BY <1>5, ClaimTokenInv, GrantPurchaseInv, ApplyNotificationInv, AbortInv DEF CallStep
<1>6. CASE Sweep
  BY <1>6, SweepInv
<1>7. CASE Reverify
  BY <1>7, ReverifyInv
<1>8. CASE NightFails
  BY <1>8, NightFailsInv
<1>9. CASE UNCHANGED vars
  <2>1. TypeOK'
    BY <1>9 DEF vars, history, Inv, TypeOK
  <2> QED BY <1>9, <2>1 DEF vars, Inv, Claimed, Purchased, Held
<1> QED BY <1>1, <1>2, <1>3, <1>4, <1>5, <1>6, <1>7, <1>8, <1>9 DEF Next

LEMMA SpecInv == Spec => []Inv
BY InitInv, NextInv, PTL DEF Spec

-----------------------------------------------------------------------------
\* Subscriptions, claims, calls and jobs keep their types.
THEOREM TypeCorrect == Spec => []TypeOK
BY SpecInv, PTL DEF Inv

\* A purchase entitles at most one account, however many present it at once.
THEOREM OneAccount == Spec => []OneAccountPerPurchase
<1>1. Inv => OneAccountPerPurchase
  BY DEF Inv, Claimed, Held, OneAccountPerPurchase
<1> QED BY <1>1, SpecInv, PTL

-----------------------------------------------------------------------------
(* The order of notifications.                                             *)

\* The handler that finishes with the account changed has applied something newer.
LEMMA AppliedIsNewer ==
    ASSUME TypeOK, NEW p \in Calls, ApplyNotification(p),
           sub'[call[p].master] # sub[call[p].master], sub[call[p].master].evt # None
    PROVE  call[p].note.time > sub[call[p].master].evt
<1>1. call[p] \in NoteCalls
  BY DEF TypeOK, ApplyNotification, Idle, PurchaseCalls, NoteCalls
<1>2. call[p].master \in Masters /\ call[p].note.time \in 1..MaxEvents
  BY <1>1 DEF NoteCalls, Notes
<1>3. sub[call[p].master].evt \in 0..MaxEvents
  BY <1>2 DEF TypeOK, Subs
<1>4. ~(call[p].note.time <= sub[call[p].master].evt)
  BY DEF ApplyNotification
<1> QED BY <1>2, <1>3, <1>4, SubscriptionAssumption

\* Nobody but the handler ends it with the account changed: the other steps move
\* another invocation, or none, and a handler that dies writes nothing.
LEMMA OnlyTheHandler ==
    ASSUME TypeOK, [Next]_vars, NEW p \in Calls, call[p].pc = "apply", call'[p] = Idle,
           sub'[call[p].master] # sub[call[p].master]
    PROVE  ApplyNotification(p)
<1>1. call[p] # Idle
  BY DEF Idle
<1>2. call[p] \in NoteCalls /\ call[p].master \in Masters
  BY DEF TypeOK, Idle, PurchaseCalls, NoteCalls
<1>3. ASSUME call' = call PROVE FALSE
  BY <1>1, <1>3
<1>4. ASSUME NEW q \in Calls, NEW c, call' = [call EXCEPT ![q] = c], q # p PROVE FALSE
  BY <1>1, <1>4 DEF TypeOK
<1>5. ASSUME sub' = sub PROVE FALSE
  BY <1>5
<1>6. ~(\E t \in Tokens, type \in StoreStates \cup {"info"} : StoreEvent(t, type))
  BY <1>3 DEF StoreEvent
<1>7. ~(\E m \in Masters : Elapse(m) \/ StartTrial(m) \/ RevokeSubscription(m))
  BY <1>3 DEF Elapse, StartTrial, RevokeSubscription
<1>8. ~(Sweep \/ Reverify \/ NightFails)
  BY <1>3 DEF Sweep, Reverify, NightFails, SweepSubscriptions, SweepTrials, SweepCommit,
              ReverifyCandidates, ReverifyAsk, ReverifyWrite
<1>9. ~UNCHANGED vars
  BY <1>3 DEF vars
<1>10. PICK q \in Calls :
          \/ \E m \in Masters, t \in Tokens : VerifyPurchase(q, m, t)
          \/ \E n \in notes : Notify(q, n)
          \/ CallStep(q)
          \/ Abort(q)
  BY <1>6, <1>7, <1>8, <1>9 DEF Next
<1>11. ~(\E m \in Masters, t \in Tokens : VerifyPurchase(q, m, t))
  BY <1>5 DEF VerifyPurchase
<1>12. ~(\E n \in notes : Notify(q, n))
  BY <1>5 DEF Notify
<1>13. ~Abort(q)
  BY <1>5 DEF Abort
<1>14. ~ClaimToken(q)
  BY <1>5 DEF ClaimToken
<1>15. ~GrantPurchase(q)
  <2> SUFFICES ASSUME GrantPurchase(q) PROVE FALSE OBVIOUS
  <2>1. q # p
    BY DEF GrantPurchase
  <2>2. call' = [call EXCEPT ![q] = Idle]
    BY DEF GrantPurchase
  <2> QED BY <1>4, <2>1, <2>2
<1>16. ApplyNotification(q)
  BY <1>10, <1>11, <1>12, <1>13, <1>14, <1>15 DEF CallStep
<1>17. q = p
  <2>1. call' = [call EXCEPT ![q] = Idle]
    BY <1>16 DEF ApplyNotification
  <2> QED BY <1>4, <2>1
<1> QED BY <1>16, <1>17

\* Between two grants of a purchase, notifications take effect in the order of
\* their event times, whatever the order their handlers run in, and whatever the
\* sweep, the re-verification and the administrator write in between.
THEOREM InOrder == Spec => NotificationsInOrder
<1>1. TypeOK /\ [Next]_vars =>
          [\A p \in Calls :
              LET c == call[p] IN
              (c.pc = "apply" /\ call'[p] = Idle /\ sub'[c.master] # sub[c.master]
               /\ sub[c.master].evt # None) => c.note.time > sub[c.master].evt]_vars
  BY OnlyTheHandler, AppliedIsNewer
<1> QED BY <1>1, TypeCorrect, PTL DEF Spec, NotificationsInOrder

-----------------------------------------------------------------------------
(* Subscription implements PurchaseLedger.  The sweep writes what it       *)
(* collected before, so the invariant says what stays true of an account   *)
(* in the meantime: a purchase is replaced but never taken away, and       *)
(* trial_pending does not come back.                                       *)

\* A status that is paid for belongs to the owner of the purchase.
THEOREM PaidByOwner == Spec => []PaidByOwnPurchase
<1>1. Inv => PaidByOwnPurchase
  BY DEF Inv, Claimed, Purchased, Held, PaidByOwnPurchase
<1> QED BY <1>1, SpecInv, PTL

Collected == /\ \A m \in sweep.subs : Held(m)
             /\ \A m \in sweep.trials : sub[m].status # "trial_pending"

LedgerInv == Inv /\ Collected

LedgerRow(m) == [status |-> sub[m].status, token |-> sub[m].token]

LEMMA LedgerInvInit == Init => LedgerInv
<1>1. Init => Collected
  BY DEF Init, NoSweep, Collected
<1> QED BY <1>1, InitInv DEF LedgerInv

\* A step that leaves the claims and the rows of all accounts is invisible.
LEMMA LedgerStays ==
    ASSUME UNCHANGED claim, \A m \in Masters : LedgerRow(m)' = LedgerRow(m)
    PROVE  UNCHANGED (Ledger!ledgerVars)
BY DEF LedgerRow, Ledger!ledgerVars

\* An account with a purchase is reported another status.
LEMMA LedgerReport ==
    ASSUME TypeOK, NEW m \in Masters, NEW s \in StoreStates, Held(m),
           NEW u, u.status = s, u.token = sub[m].token,
           sub' = [sub EXCEPT ![m] = u], UNCHANGED claim
    PROVE  Ledger!Next
<1>1. Ledger!Report(m, s)
  BY DEF Ledger!Report, Ledger!Entitled, Held, TypeOK
<1> QED BY <1>1 DEF Ledger!Next

LEMMA LedgerNote ==
    ASSUME LedgerInv, NEW p \in Calls, ApplyNotification(p)
    PROVE  [Ledger!Next]_(Ledger!ledgerVars)
<1> DEFINE c == call[p]
<1> USE DEF LedgerInv, Inv
<1>1. c.pc = "apply" /\ c.master \in Masters /\ c.note \in Notes /\ Held(c.master)
  BY DEF ApplyNotification, TypeOK, Idle, PurchaseCalls, NoteCalls, Purchased
<1>2. UNCHANGED claim
  BY DEF ApplyNotification
<1>3. CASE UNCHANGED sub
  BY <1>2, <1>3, LedgerStays DEF LedgerRow
<1>4. CASE ApplyNote(p)
  <2>1. sub' = [sub EXCEPT ![c.master] = Noted(sub[c.master], c.note)]
    BY <1>4 DEF ApplyNote
  <2>2. CASE c.note.type = "info"
    <3>1. \A m \in Masters : LedgerRow(m)' = LedgerRow(m)
      BY <1>1, <2>1, <2>2 DEF TypeOK, Noted, LedgerRow
    <3> QED BY <1>2, <3>1, LedgerStays
  <2>3. CASE c.note.type # "info"
    <3> DEFINE u == Noted(sub[c.master], c.note)
    <3>1. c.note.type \in StoreStates /\ u.status = c.note.type /\ u.token = sub[c.master].token
      BY <1>1, <2>3 DEF Notes, Noted
    <3> HIDE DEF u
    <3> QED BY <1>1, <1>2, <2>1, <3>1, LedgerReport DEF u
  <2> QED BY <2>2, <2>3
<1> QED BY <1>3, <1>4 DEF ApplyNotification

\* The batch: what was collected has a purchase still, or has begun its trial.
LEMMA LedgerBatch ==
    ASSUME LedgerInv, SweepCommit
    PROVE  Ledger!Next
<1> USE DEF LedgerInv, Inv
<1>1. PICK S \in SUBSET sweep.subs, T \in SUBSET sweep.trials :
          sub' = [m \in Masters |->
                     IF m \in T THEN [sub[m] EXCEPT !.status = "trial_expired"]
                     ELSE IF m \in S THEN [sub[m] EXCEPT !.status = "expired"]
                     ELSE sub[m]]
  BY DEF SweepCommit, Take
<1>2. sweep.subs \subseteq Masters /\ sweep.trials \subseteq Masters
  BY DEF TypeOK
<1>3. S \in SUBSET Ledger!Entitled /\ T \in SUBSET Ledger!Begun
  BY <1>2 DEF Collected, Held, Ledger!Entitled, Ledger!Begun
<1>4. UNCHANGED claim
  BY DEF SweepCommit
<1>5. \A m \in Masters : sub[m] \in Subs
  BY DEF TypeOK
<1>6. \A m \in Masters : LedgerRow(m)' =
          IF m \in T THEN [LedgerRow(m) EXCEPT !.status = "trial_expired"]
          ELSE IF m \in S THEN [LedgerRow(m) EXCEPT !.status = "expired"]
          ELSE LedgerRow(m)
  BY <1>1, <1>5 DEF LedgerRow, Subs
<1>7. Ledger!EndAccess(S, T)
  BY <1>4, <1>6 DEF Ledger!EndAccess, LedgerRow
<1> QED BY <1>3, <1>7 DEF Ledger!Next

LEMMA LedgerSimulates == LedgerInv /\ [Next]_vars => [Ledger!Next]_(Ledger!ledgerVars)
<1> SUFFICES ASSUME LedgerInv, [Next]_vars PROVE [Ledger!Next]_(Ledger!ledgerVars)
  OBVIOUS
<1> USE DEF LedgerInv, Inv
<1>s. ASSUME UNCHANGED <<claim, sub>> PROVE UNCHANGED (Ledger!ledgerVars)
  BY <1>s, LedgerStays DEF LedgerRow
<1>1. ASSUME NEW t \in Tokens, NEW type \in StoreStates \cup {"info"}, StoreEvent(t, type)
      PROVE  UNCHANGED (Ledger!ledgerVars)
  BY <1>1, <1>s DEF StoreEvent
<1>2. ASSUME NEW m \in Masters, Elapse(m) PROVE UNCHANGED (Ledger!ledgerVars)
  BY <1>2, <1>s DEF Elapse
<1>3. ASSUME NEW m \in Masters, StartTrial(m) PROVE Ledger!Next
  <2>1. Ledger!BeginTrial(m)
    BY <1>3 DEF StartTrial, TypeOK, Subs, Ledger!BeginTrial
  <2> QED BY <2>1 DEF Ledger!Next
<1>4. ASSUME NEW m \in Masters, RevokeSubscription(m) PROVE Ledger!Next
  <2>1. Ledger!Revoke(m)
    BY <1>4 DEF RevokeSubscription, TypeOK, Subs, Ledger!Revoke
  <2> QED BY <2>1 DEF Ledger!Next
<1>5. ASSUME NEW p \in Calls, NEW m \in Masters, NEW t \in Tokens, VerifyPurchase(p, m, t)
      PROVE  UNCHANGED (Ledger!ledgerVars)
  BY <1>5, <1>s DEF VerifyPurchase
<1>6. ASSUME NEW p \in Calls, NEW n \in notes, Notify(p, n)
      PROVE  UNCHANGED (Ledger!ledgerVars)
  BY <1>6, <1>s DEF Notify
<1>7. ASSUME NEW p \in Calls, ClaimToken(p) PROVE [Ledger!Next]_(Ledger!ledgerVars)
  <2> DEFINE c == call[p]
  <2>1. c.master \in Masters /\ c.token \in Tokens
    BY <1>7 DEF ClaimToken, TypeOK, Idle, PurchaseCalls, NoteCalls
  <2>2. UNCHANGED sub
    BY <1>7 DEF ClaimToken
  <2>3. CASE claim[c.token] = None
    <3>1. Ledger!Claim(c.token, c.master)
      BY <1>7, <2>2, <2>3 DEF ClaimToken, Ledger!Claim
    <3> QED BY <2>1, <3>1 DEF Ledger!Next
  <2>4. CASE claim[c.token] # None
    <3>1. claim' = claim
      BY <1>7, <2>1, <2>4 DEF ClaimToken, TypeOK
    <3> QED BY <1>s, <2>2, <3>1
  <2> QED BY <2>3, <2>4
<1>8. ASSUME NEW p \in Calls, GrantPurchase(p) PROVE Ledger!Next
  <2>1. PICK m \in Masters, t \in Tokens : /\ call[p].pc = "grant"
                                           /\ call[p].master = m /\ call[p].token = t
    BY <1>8 DEF GrantPurchase, TypeOK, Idle, PurchaseCalls, NoteCalls
  <2>2. claim[t] = m
    BY <2>1 DEF Claimed
  <2>3. Ledger!Entitle(m, t)
    BY <1>8, <2>1, <2>2 DEF GrantPurchase, TypeOK, Ledger!Entitle
  <2> QED BY <2>3 DEF Ledger!Next
<1>9. ASSUME NEW p \in Calls, ApplyNotification(p) PROVE [Ledger!Next]_(Ledger!ledgerVars)
  BY <1>9, LedgerNote
<1>10. ASSUME NEW p \in Calls, Abort(p) PROVE UNCHANGED (Ledger!ledgerVars)
  BY <1>10, <1>s DEF Abort
<1>11. CASE Sweep
  <2>1. CASE SweepSubscriptions \/ SweepTrials
    BY <2>1, <1>s DEF SweepSubscriptions, SweepTrials
  <2>2. CASE SweepCommit
    BY <2>2, LedgerBatch
  <2> QED BY <1>11, <2>1, <2>2 DEF Sweep
<1>12. CASE Reverify
  <2>1. CASE ReverifyCandidates \/ ReverifyAsk
    BY <2>1, <1>s DEF ReverifyCandidates, ReverifyAsk
  <2>2. CASE ReverifyWrite
    <3> DEFINE u == [sub[rev.master] EXCEPT !.status = rev.status]
    <3>1. rev.master \in Masters /\ Held(rev.master) /\ rev.status \in StoreStates
      BY <2>2 DEF ReverifyWrite, Purchased
    <3>2. sub[rev.master] \in Subs
      BY <3>1 DEF TypeOK
    <3>3. u.status = rev.status /\ u.token = sub[rev.master].token
      BY <3>2 DEF Subs
    <3>4. sub' = [sub EXCEPT ![rev.master] = u] /\ UNCHANGED claim
      BY <2>2 DEF ReverifyWrite
    <3> HIDE DEF u
    <3> QED BY <3>1, <3>3, <3>4, LedgerReport
  <2> QED BY <1>12, <2>1, <2>2 DEF Reverify
<1>13. CASE NightFails
  BY <1>13, <1>s DEF NightFails
<1>14. CASE UNCHANGED vars
  BY <1>14, <1>s DEF vars
<1> QED BY <1>1, <1>2, <1>3, <1>4, <1>5, <1>6, <1>7, <1>8, <1>9, <1>10, <1>11, <1>12, <1>13,
           <1>14 DEF Next, CallStep

\* On the ledger a purchase is never taken away and trial_pending does not come
\* back, so neither happens here.
LEMMA NeverBack ==
    ASSUME TypeOK, [Ledger!Next]_(Ledger!ledgerVars), NEW m \in Masters
    PROVE  /\ Held(m) => Held(m)'
           /\ sub[m].status # "trial_pending" => sub'[m].status # "trial_pending"
<1> DEFINE account == [n \in Masters |-> LedgerRow(n)]
<1>1. account[m].token = sub[m].token /\ account[m].status = sub[m].status
      /\ account'[m].token = sub'[m].token /\ account'[m].status = sub'[m].status
  BY DEF LedgerRow
<1>r. account \in [Masters -> [status : Statuses, token : Tokens \cup {None}]]
  BY DEF TypeOK, Subs, LedgerRow
<1>2. /\ account[m].token # None => account'[m].token # None
      /\ account[m].status # "trial_pending" => account'[m].status # "trial_pending"
  <2>1. CASE UNCHANGED (Ledger!ledgerVars)
    BY <2>1 DEF Ledger!ledgerVars, LedgerRow
  <2>2. ASSUME NEW n \in Masters, NEW t \in Tokens, Ledger!Claim(t, n) \/ Ledger!Entitle(n, t)
        PROVE  <1>2
    BY <2>2, SubscriptionAssumption DEF Ledger!Claim, Ledger!Entitle, LedgerRow, Tokens
  <2>r. ASSUME NEW n \in Masters, NEW s, s # "trial_pending",
               account' = [account EXCEPT ![n].status = s]
        PROVE  <1>2
    <3> HIDE DEF account
    <3> QED BY <1>r, <2>r
  <2>3. ASSUME NEW n \in Masters, NEW s \in StoreStates, Ledger!Report(n, s)
        PROVE  <1>2
    <3>1. account' = [account EXCEPT ![n].status = s] /\ s # "trial_pending"
      BY <2>3 DEF Ledger!Report, LedgerRow, StoreStates
    <3> QED BY <2>r, <3>1
  <2>4. ASSUME NEW n \in Masters, Ledger!BeginTrial(n) \/ Ledger!Revoke(n)
        PROVE  <1>2
    <3>1. \E s \in {"trial", "revoked"} : account' = [account EXCEPT ![n].status = s]
      BY <2>4 DEF Ledger!BeginTrial, Ledger!Revoke, LedgerRow
    <3> QED BY <2>r, <3>1
  <2>5. ASSUME NEW S \in SUBSET Ledger!Entitled, NEW T \in SUBSET Ledger!Begun,
               Ledger!EndAccess(S, T)
        PROVE  <1>2
    BY <2>5 DEF Ledger!EndAccess, LedgerRow
  <2> QED BY <2>1, <2>2, <2>3, <2>4, <2>5 DEF Ledger!Next
<1> HIDE DEF account
<1> QED BY <1>1, <1>2 DEF Held

LEMMA CollectedStep == LedgerInv /\ [Next]_vars => Collected'
<1> SUFFICES ASSUME LedgerInv, [Next]_vars PROVE Collected'
  OBVIOUS
<1>0. TypeOK /\ sweep.subs \subseteq Masters /\ sweep.trials \subseteq Masters
  BY DEF LedgerInv, Inv, TypeOK
<1>1. \A m \in Masters : /\ Held(m) => Held(m)'
                         /\ sub[m].status # "trial_pending" => sub'[m].status # "trial_pending"
  BY <1>0, LedgerSimulates, NeverBack
<1>2. ASSUME sweep'.subs \subseteq sweep.subs, sweep'.trials \subseteq sweep.trials
      PROVE  Collected'
  BY <1>0, <1>1, <1>2 DEF LedgerInv, Collected
<1>3. CASE SweepSubscriptions
  BY <1>1, <1>3 DEF SweepSubscriptions, NoSweep, Collected, LedgerInv, Inv, Purchased
<1>4. CASE SweepTrials
  <2>1. sweep'.subs = sweep.subs
        /\ sweep'.trials = {m \in Masters : sub[m].status = "trial" /\ ended[m]}
    BY <1>0, <1>4 DEF SweepTrials, TypeOK
  <2> QED BY <1>0, <1>1, <2>1 DEF LedgerInv, Collected
<1>5. CASE ~SweepSubscriptions /\ ~SweepTrials
  <2>1. UNCHANGED sweep \/ SweepCommit \/ sweep' \in {NoSweep, Swept}
    BY <1>5 DEF Next, StoreEvent, Elapse, StartTrial, RevokeSubscription, VerifyPurchase, Notify,
           CallStep, ClaimToken, GrantPurchase, ApplyNotification, Abort, Sweep, Reverify,
           ReverifyCandidates, ReverifyAsk, ReverifyWrite, NextCandidate, NightFails, vars
  <2>2. CASE SweepCommit
    <3>1. sweep'.subs \subseteq sweep.subs /\ sweep'.trials \subseteq sweep.trials
      BY <1>0, <2>2 DEF SweepCommit, Swept, NoSweep, TypeOK
    <3> QED BY <1>2, <3>1
  <2>3. CASE UNCHANGED sweep
    BY <1>2, <2>3
  <2>4. CASE sweep' \in {NoSweep, Swept}
    BY <1>2, <2>4 DEF NoSweep, Swept
  <2> QED BY <2>1, <2>2, <2>3, <2>4
<1> QED BY <1>3, <1>4, <1>5

\* However the five writers interleave, fail and work with what they read before,
\* they do nothing the ledger does not allow: a purchase keeps its first owner, an
\* account is entitled only to its own purchase, and only an account with a
\* purchase is reported a status of the stores.
THEOREM LedgerKept == Spec => ImplementsPurchaseLedger
<1>1. Init => Ledger!Init
  BY DEF Init, Ledger!Init
<1>2. LedgerInv /\ [Next]_vars => LedgerInv'
  BY NextInv, CollectedStep DEF LedgerInv
<1> QED BY <1>1, <1>2, LedgerInvInit, LedgerSimulates, PTL
        DEF Spec, ImplementsPurchaseLedger, Ledger!Spec
=============================================================================
