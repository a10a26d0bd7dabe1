--------------------------- MODULE PairingProofs ---------------------------
(***************************************************************************)
(* Proofs about Pairing, for any sets of accounts, devices, credentials    *)
(* and invocations, and any tiers.                                         *)
(*                                                                         *)
(* The limit a transaction enforces was read earlier, so the invariant     *)
(* carries what every suspended invocation holds: the limit it saw is      *)
(* covered by the history of its account, and an invocation about to start *)
(* a trial has linked a child.                                             *)
(*                                                                         *)
(* What holds when all invocations have returned is shown by who will mend *)
(* it before: an account with a child that is still in trial_pending has   *)
(* an invocation at its trial, a document that linked a child has the one  *)
(* that will delete it.                                                    *)
(***************************************************************************)
EXTENDS Pairing, FiniteSetTheorems, TLAPS

LinkPcs == {"drop", "consume", "master", "link", "trial", "spend"}

\* The limit in force never exceeds the largest one.
LimitGranted == \A m \in Masters : sub[m].limit <= granted[m]

\* An invocation that read the account still holds a limit the account had.
SawGranted == \A p \in Calls : call[p].pc \in {"link", "trial"} =>
                  call[p].saw.limit <= granted[call[p].master]

\* An invocation about to start the trial has committed its link.
TrialAfterLink == \A p \in Calls : call[p].pc = "trial" => call[p].master \in paired

Inv == /\ TypeOK
       /\ LimitGranted
       /\ SawGranted
       /\ TrialAfterLink
       /\ WithinGrantedLimit
       /\ TrialOnlyOncePaired

-----------------------------------------------------------------------------
(* Invocations.                                                            *)

\* A child's invocation is recognised by where it is suspended.
LEMMA SuspendedCall ==
    ASSUME TypeOK, NEW p \in Calls, call[p].pc \in LinkPcs
    PROVE  call[p] \in LinkCalls
BY DEF TypeOK, CallStates, Idle, IssueCalls, LinkCalls, LinkPcs

\* A parent's invocation likewise.
LEMMA IssuingCall ==
    ASSUME TypeOK, NEW p \in Calls, call[p].pc \in {"draw", "store"}
    PROVE  call[p] \in IssueCalls
BY DEF TypeOK, CallStates, Idle, IssueCalls, LinkCalls

\* Moving one invocation to a legal state keeps the others as they are.
LEMMA CallsTyped ==
    ASSUME TypeOK, NEW p \in Calls, NEW c \in CallStates,
           call' = [call EXCEPT ![p] = c]
    PROVE  /\ call' \in [Calls -> CallStates]
           /\ call'[p] = c
           /\ \A q \in Calls : q # p => call'[q] = call[q]
BY DEF TypeOK

\* Suspending a child's invocation at its next await changes only its pc.
LEMMA AwaitTyped ==
    ASSUME TypeOK, NEW p \in Calls, call[p] \in LinkCalls, NEW pc \in LinkPcs,
           pc \in {"link", "trial"} => call[p].saw \in Subs,
           Await(p, pc)
    PROVE  /\ call' = [call EXCEPT ![p] = [call[p] EXCEPT !.pc = pc]]
           /\ [call[p] EXCEPT !.pc = pc] \in LinkCalls
<1>1. [call[p] EXCEPT !.pc = pc] \in LinkCalls
  BY DEF LinkCalls, LinkPcs
<1>2. call' = [call EXCEPT ![p] = [call[p] EXCEPT !.pc = pc]]
  BY DEF Await, TypeOK
<1> QED BY <1>1, <1>2

-----------------------------------------------------------------------------
(* Counting children.                                                      *)

\* The children of an account are a finite set.
LEMMA ChildrenFinite ==
    ASSUME NEW m \in Masters
    PROVE  IsFiniteSet(ChildrenOf(m)) /\ Cardinality(ChildrenOf(m)) \in Nat
<1>1. IsFiniteSet(Children)
  BY PairingAssumption
<1>2. IsFiniteSet(ChildrenOf(m))
  BY <1>1, FS_Subset DEF ChildrenOf
<1> QED BY <1>2, FS_CardinalityType

\* A finite set plus one element has at most one element more.
LEMMA AddOne ==
    ASSUME NEW S, IsFiniteSet(S), NEW x
    PROVE  /\ IsFiniteSet(S \cup {x})
           /\ Cardinality(S) \in Nat
           /\ Cardinality(S \cup {x}) \in Nat
           /\ Cardinality(S \cup {x}) <= Cardinality(S) + 1
<1>1. IsFiniteSet(S \cup {x})
  BY FS_AddElement
<1>2. Cardinality(S) \in Nat
  BY FS_CardinalityType
<1>3. Cardinality(S \cup {x}) = IF x \in S THEN Cardinality(S) ELSE Cardinality(S) + 1
  BY FS_AddElement
<1> QED BY <1>1, <1>2, <1>3

\* Linking one child adds at most one to its new account and nothing elsewhere.
LEMMA LinkCounts ==
    ASSUME TypeOK, NEW k \in Children, NEW m \in Masters,
           child' = [child EXCEPT ![k] = m],
           NEW n \in Masters
    PROVE  Cardinality(ChildrenOf(n)') <=
               Cardinality(ChildrenOf(n)) + (IF n = m THEN 1 ELSE 0)
<1>1. IsFiniteSet(ChildrenOf(n)) /\ Cardinality(ChildrenOf(n)) \in Nat
  BY ChildrenFinite
<1>2. CASE n = m
  <2>1. ChildrenOf(n)' \subseteq ChildrenOf(n) \cup {k}
    BY DEF ChildrenOf, TypeOK
  <2>2. /\ IsFiniteSet(ChildrenOf(n) \cup {k})
        /\ Cardinality(ChildrenOf(n) \cup {k}) \in Nat
        /\ Cardinality(ChildrenOf(n) \cup {k}) <= Cardinality(ChildrenOf(n)) + 1
    BY <1>1, AddOne
  <2>3. /\ Cardinality(ChildrenOf(n)') \in Nat
        /\ Cardinality(ChildrenOf(n)') <= Cardinality(ChildrenOf(n) \cup {k})
    BY <2>1, <2>2, FS_Subset, FS_CardinalityType
  <2> QED BY <1>1, <1>2, <2>2, <2>3
<1>3. CASE n # m
  <2>1. ChildrenOf(n)' \subseteq ChildrenOf(n)
    BY <1>3 DEF ChildrenOf, TypeOK
  <2>2. /\ Cardinality(ChildrenOf(n)') \in Nat
        /\ Cardinality(ChildrenOf(n)') <= Cardinality(ChildrenOf(n))
    BY <1>1, <2>1, FS_Subset, FS_CardinalityType
  <2> QED BY <1>1, <1>3, <2>2
<1> QED BY <1>2, <1>3

-----------------------------------------------------------------------------
(* Types.                                                                  *)

LEMMA TypeInit == Init => TypeOK
<1> SUFFICES ASSUME Init PROVE TypeOK OBVIOUS
<1>1. Idle \in CallStates
  BY DEF CallStates
<1>2. [status |-> "trial_pending", limit |-> TrialLimit] \in Subs
  BY PairingAssumption DEF Subs, Statuses
<1>3. TrialLimit \in Limits /\ 0 \in 0..MaxIssued /\ 0 \in 0..MaxAborts /\ 0 \in 0..MaxChanges
  BY PairingAssumption
<1> QED BY <1>1, <1>2, <1>3 DEF Init, TypeOK

LEMMA TypeStep == TypeOK /\ [Next]_vars => TypeOK'
<1> SUFFICES ASSUME TypeOK, [Next]_vars PROVE TypeOK' OBVIOUS
<1> USE DEF UnchangedHistory
<1> DEFINE Rest == UNCHANGED <<sub, cred, child, issued, issuer, drawn, granted, linkedBy,
                               paired, aborts, changes>>
<1>i. Idle \in CallStates
  BY DEF CallStates
<1>c. ASSUME call' \in [Calls -> CallStates], Rest PROVE TypeOK'
  BY <1>c DEF TypeOK
<1>r. ASSUME NEW p \in Calls, Return(p) PROVE call' \in [Calls -> CallStates]
  BY <1>i, <1>r, CallsTyped DEF Return
<1>a. ASSUME NEW p \in Calls, call[p].pc \in LinkPcs, NEW pc \in LinkPcs, Await(p, pc),
             pc \in {"link", "trial"} => call[p].saw \in Subs
      PROVE  call' \in [Calls -> CallStates]
  BY <1>a, SuspendedCall, AwaitTyped, CallsTyped DEF CallStates
<1>1. ASSUME NEW p \in Calls, NEW m \in Masters, CreatePairingCode(p, m) PROVE TypeOK'
  <2> DEFINE c == [pc |-> "draw", op |-> "createPairingCode", master |-> m, cred |-> None,
                   serial |-> issued + 1]
  <2>1. issued + 1 \in 1..MaxIssued /\ issued' \in 0..MaxIssued
    BY <1>1, PairingAssumption DEF CreatePairingCode, TypeOK
  <2>2. c \in CallStates
    BY <2>1 DEF CallStates, IssueCalls, Ops
  <2>3. call' \in [Calls -> CallStates]
    BY <1>1, <2>2, CallsTyped DEF CreatePairingCode, Begin
  <2> QED BY <1>1, <2>1, <2>3 DEF CreatePairingCode, TypeOK
<1>2. ASSUME NEW p \in Calls, NEW m \in Masters, NEW t \in Tokens,
             GeneratePairingLink(p, m, t)
      PROVE  TypeOK'
  <2> DEFINE c == [pc |-> "store", op |-> "generatePairingLink", master |-> m, cred |-> t,
                   serial |-> issued + 1]
  <2>1. issued + 1 \in 1..MaxIssued /\ issued' \in 0..MaxIssued
    BY <1>2, PairingAssumption DEF GeneratePairingLink, TypeOK
  <2>2. c \in CallStates
    BY <2>1 DEF CallStates, IssueCalls, Ops, Credentials
  <2>3. call' \in [Calls -> CallStates]
    BY <1>2, <2>2, CallsTyped DEF GeneratePairingLink, Begin
  <2> QED BY <1>2, <2>1, <2>3 DEF GeneratePairingLink, TypeOK
<1>3. ASSUME NEW p \in Calls, NEW k \in Children, NEW op \in Ops, NEW x \in Credentials,
             PresentCredential(p, k, op, x)
      PROVE  TypeOK'
  <2> DEFINE c == [pc |-> AfterRead(op, cred[x]), op |-> op, who |-> k, cred |-> x,
                   master |-> cred[x].master, serial |-> cred[x].serial, saw |-> None]
  <2>1. cred[x] \in CredDocs
    BY <1>3 DEF PresentCredential, TypeOK
  <2>2. AfterRead(op, cred[x]) \in {"drop", "consume", "master"}
    BY DEF AfterRead
  <2>3. c \in CallStates
    BY <2>1, <2>2 DEF CallStates, LinkCalls, CredDocs
  <2>4. call' \in [Calls -> CallStates]
    BY <1>3, <2>3, CallsTyped DEF PresentCredential, Begin
  <2> QED BY <1>3, <1>c, <2>4 DEF PresentCredential
<1>4. ASSUME NEW p \in Calls, Step(p) PROVE TypeOK'
  <2>1. ASSUME NEW x \in Codes, DrawFreeCode(p, x) PROVE TypeOK'
    <3> DEFINE c == [call[p] EXCEPT !.pc = "store", !.cred = x]
    <3>1. call[p] \in IssueCalls
      BY <2>1, IssuingCall DEF DrawFreeCode
    <3>2. c \in CallStates
      BY <3>1 DEF CallStates, IssueCalls, Credentials
    <3>3. call' = [call EXCEPT ![p] = c]
      BY <2>1 DEF DrawFreeCode, TypeOK
    <3>4. call' \in [Calls -> CallStates]
      BY <3>2, <3>3, CallsTyped
    <3> QED BY <2>1, <1>c, <3>4 DEF DrawFreeCode
  <2>2. CASE GiveUpDrawing(p)
    BY <2>2, <1>c, <1>r DEF GiveUpDrawing
  <2>3. CASE StoreCredential(p)
    <3>1. call[p] \in IssueCalls
      BY <2>3, IssuingCall DEF StoreCredential
    <3>2. [master |-> call[p].master, serial |-> call[p].serial, expired |-> FALSE] \in CredDocs
      BY <3>1 DEF IssueCalls, CredDocs
    <3>3. cred' \in [Credentials -> CredDocs \cup {None}]
      BY <2>3, <3>2 DEF StoreCredential, TypeOK
    <3> QED BY <2>3, <1>r, <3>3 DEF StoreCredential, TypeOK
  <2>4. CASE DeleteCredential(p)
    <3>1. cred' \in [Credentials -> CredDocs \cup {None}]
      BY <2>4 DEF DeleteCredential, TypeOK
    <3>2. call' \in [Calls -> CallStates]
      BY <2>4, <1>r, <1>a DEF DeleteCredential, LinkPcs
    <3> QED BY <2>4, <3>1, <3>2 DEF DeleteCredential, TypeOK
  <2>5. CASE ReadMaster(p)
    <3> DEFINE s == sub[call[p].master]
               c == [call[p] EXCEPT !.pc = "link", !.saw = s]
    <3>1. call[p] \in LinkCalls
      BY <2>5, SuspendedCall DEF ReadMaster, LinkPcs
    <3>2. c \in CallStates
      <4>1. s \in Subs
        BY <3>1 DEF LinkCalls, TypeOK
      <4> QED BY <3>1, <4>1 DEF CallStates, LinkCalls
    <3>3. call' \in [Calls -> CallStates]
      <4>1. CASE HasPairingAccess(s)
        <5>1. call' = [call EXCEPT ![p] = c]
          BY <2>5, <4>1 DEF ReadMaster, TypeOK
        <5> QED BY <5>1, <3>2, CallsTyped
      <4>2. CASE ~HasPairingAccess(s)
        BY <2>5, <4>2, <1>r DEF ReadMaster
      <4> QED BY <4>1, <4>2
    <3> QED BY <2>5, <1>c, <3>3 DEF ReadMaster
  <2>6. CASE LinkChild(p)
    <3>1. call[p] \in LinkCalls
      BY <2>6, SuspendedCall DEF LinkChild, LinkPcs
    <3>2. call' \in [Calls -> CallStates]
      <4>1. call[p].saw \in Subs
        BY <2>6, <3>1 DEF LinkChild, LinkCalls
      <4> QED BY <2>6, <4>1, <1>a, <1>r DEF LinkChild, Proceed, AfterLink, LinkPcs
    <3>3. child' \in [Children -> Masters \cup {None}] /\ paired' \in SUBSET Masters
      BY <2>6, <3>1 DEF LinkChild, LinkCalls, TypeOK
    <3>4. linkedBy' \in [1..MaxIssued -> SUBSET Children]
      BY <2>6, <3>1 DEF LinkChild, LinkCalls, TypeOK
    <3> QED BY <2>6, <3>2, <3>3, <3>4 DEF LinkChild, TypeOK
  <2>7. CASE LinkRefused(p)
    BY <2>7, <1>c, <1>r DEF LinkRefused
  <2>8. CASE ActivateTrial(p)
    <3>1. call[p] \in LinkCalls /\ call[p].saw \in Subs
      BY <2>8, SuspendedCall DEF ActivateTrial, LinkPcs, LinkCalls
    <3>2. call' \in [Calls -> CallStates]
      BY <2>8, <1>a, <1>r DEF ActivateTrial, Proceed, LinkPcs
    <3>3. sub' \in [Masters -> Subs]
      BY <2>8, <3>1 DEF ActivateTrial, Subs, Statuses, TypeOK
    <3> QED BY <2>8, <3>2, <3>3 DEF ActivateTrial, TypeOK
  <2> QED BY <1>4, <2>1, <2>2, <2>3, <2>4, <2>5, <2>6, <2>7, <2>8 DEF Step
<1>5. ASSUME NEW p \in Calls, Abort(p) PROVE TypeOK'
  BY <1>5, <1>r, PairingAssumption DEF Abort, TypeOK
<1>6. ASSUME NEW x \in Credentials, Expire(x) PROVE TypeOK'
  <2>1. cred' \in [Credentials -> CredDocs \cup {None}]
    BY <1>6 DEF Expire, TypeOK, CredDocs
  <2> QED BY <1>6, <2>1 DEF Expire, TypeOK
<1>7. ASSUME NEW m \in Masters, Lapse(m) PROVE TypeOK'
  <2>1. sub' \in [Masters -> Subs]
    BY <1>7 DEF Lapse, TypeOK, Subs, Statuses
  <2> QED BY <1>7, <2>1, PairingAssumption DEF Lapse, TypeOK
<1>8. ASSUME NEW m \in Masters, NEW l \in Limits, Purchase(m, l) PROVE TypeOK'
  <2>1. sub' \in [Masters -> Subs] /\ granted' \in [Masters -> Limits]
    BY <1>8 DEF Purchase, TypeOK, Subs, Statuses
  <2> QED BY <1>8, <2>1, PairingAssumption DEF Purchase, TypeOK
<1>9. CASE UNCHANGED vars
  BY <1>9 DEF vars, TypeOK
<1> QED BY <1>1, <1>2, <1>3, <1>4, <1>5, <1>6, <1>7, <1>8, <1>9 DEF Next

\* At every step each variable holds a value of its kind: documents,
\* subscriptions and suspended invocations are well formed.
THEOREM TypeCorrect == Spec => []TypeOK
<1>1. Init => TypeOK
  BY TypeInit
<1>2. TypeOK /\ [Next]_vars => TypeOK'
  BY TypeStep
<1> QED BY <1>1, <1>2, PTL DEF Spec

-----------------------------------------------------------------------------
(* The inductive invariant.                                                *)

LEMMA InvInit == Init => Inv
<1> SUFFICES ASSUME Init PROVE Inv OBVIOUS
<1>1. TypeOK
  BY TypeInit
<1>2. TrialLimit \in Nat
  BY PairingAssumption
<1>3. LimitGranted /\ TrialOnlyOncePaired
  BY <1>2 DEF Init, LimitGranted, TrialOnlyOncePaired
<1>4. SawGranted /\ TrialAfterLink
  BY DEF Init, SawGranted, TrialAfterLink, Idle
<1>5. WithinGrantedLimit
  <2> SUFFICES ASSUME NEW m \in Masters
               PROVE  Cardinality(ChildrenOf(m)) <= granted[m]
    BY DEF WithinGrantedLimit
  <2>1. ChildrenOf(m) = {}
    BY PairingAssumption DEF Init, ChildrenOf
  <2> QED BY <2>1, <1>2, FS_EmptySet DEF Init
<1> QED BY <1>1, <1>3, <1>4, <1>5 DEF Inv

\* What invocations hold stays covered when the history only grows and the one
\* invocation that moved is covered.
LEMMA OthersKeep ==
    ASSUME Inv, TypeOK', NEW p \in Calls,
           \A q \in Calls : q # p => call'[q] = call[q],
           call'[p].pc \in {"link", "trial"} =>
               call'[p].saw.limit <= granted'[call'[p].master],
           call'[p].pc = "trial" => call'[p].master \in paired',
           \A m \in Masters : granted[m] <= granted'[m],
           paired \subseteq paired'
    PROVE  SawGranted' /\ TrialAfterLink'
<1>1. ASSUME NEW q \in Calls, q # p, call[q].pc \in {"link", "trial"}
      PROVE  call'[q].saw.limit <= granted'[call'[q].master]
  <2>1. call[q] \in LinkCalls /\ call[q].saw \in Subs
    BY <1>1, SuspendedCall DEF Inv, LinkPcs, LinkCalls
  <2>2. /\ call[q].master \in Masters
        /\ call[q].saw.limit \in Nat
        /\ granted[call[q].master] \in Nat /\ granted'[call[q].master] \in Nat
    BY <2>1, PairingAssumption DEF Inv, TypeOK, LinkCalls, Subs
  <2>3. call[q].saw.limit <= granted[call[q].master]
    BY <1>1 DEF Inv, SawGranted
  <2> QED BY <1>1, <2>2, <2>3
<1>2. SawGranted'
  BY <1>1 DEF SawGranted
<1>3. TrialAfterLink'
  BY DEF Inv, TrialAfterLink
<1> QED BY <1>2, <1>3

\* The history of a limit that did not move has not shrunk.
LEMMA GrantedKept ==
    ASSUME TypeOK, granted' = granted
    PROVE  \A m \in Masters : granted[m] \in Nat /\ granted[m] <= granted'[m]
<1>1. \A m \in Masters : granted[m] \in Nat
  BY PairingAssumption DEF TypeOK
<1> QED BY <1>1

\* Steps that touch neither the accounts' limits nor the children preserve the
\* invariant when the invocation they move is covered.
LEMMA QuietStep ==
    ASSUME Inv, TypeOK', UNCHANGED <<sub, child, granted, paired>>,
           SawGranted', TrialAfterLink'
    PROVE  Inv'
<1>1. LimitGranted' /\ TrialOnlyOncePaired'
  BY DEF Inv, LimitGranted, TrialOnlyOncePaired
<1>2. WithinGrantedLimit'
  BY DEF Inv, WithinGrantedLimit, ChildrenOf
<1> QED BY <1>1, <1>2 DEF Inv

\* An invocation that returns holds nothing any more.
LEMMA ReturnCovered ==
    ASSUME TypeOK, NEW p \in Calls, Return(p)
    PROVE  /\ \A q \in Calls : q # p => call'[q] = call[q]
           /\ call'[p] = Idle
           /\ call'[p].pc \notin {"link", "trial"}
BY DEF Return, TypeOK, Idle

LEMMA ReturnStep ==
    ASSUME Inv, TypeOK', NEW p \in Calls, Return(p),
           UNCHANGED <<sub, child, granted, paired>>
    PROVE  Inv'
<1>1. \A m \in Masters : granted[m] <= granted'[m]
  BY GrantedKept DEF Inv
<1>2. SawGranted' /\ TrialAfterLink'
  BY <1>1, ReturnCovered, OthersKeep DEF Inv
<1> QED BY <1>2, QuietStep

\* Starting an invocation, or moving one that is not yet past ReadMaster.
LEMMA EarlyStep ==
    ASSUME Inv, TypeOK', NEW p \in Calls, NEW c,
           call' = [call EXCEPT ![p] = c], c.pc \notin {"link", "trial"},
           UNCHANGED <<sub, child, granted, paired>>
    PROVE  Inv'
<1>1. \A m \in Masters : granted[m] <= granted'[m]
  BY GrantedKept DEF Inv
<1>2. call'[p] = c /\ \A q \in Calls : q # p => call'[q] = call[q]
  BY DEF Inv, TypeOK
<1>3. SawGranted' /\ TrialAfterLink'
  BY <1>1, <1>2, OthersKeep
<1> QED BY <1>3, QuietStep

\* The transaction adds one child to an account that was below the limit seen.
LEMMA LinkKeeps ==
    ASSUME Inv, TypeOK', NEW p \in Calls, LinkChild(p)
    PROVE  Inv'
<1> DEFINE c == call[p]
<1>1. c \in LinkCalls /\ c.saw \in Subs
  BY SuspendedCall DEF Inv, LinkChild, LinkPcs, LinkCalls
<1>2. /\ c.master \in Masters /\ c.who \in Children
      /\ c.saw.limit \in Nat /\ \A n \in Masters : granted[n] \in Nat
  BY <1>1, PairingAssumption DEF Inv, TypeOK, LinkCalls, Subs
<1>3. c.saw.limit <= granted[c.master]
  BY DEF Inv, SawGranted, LinkChild
<1>4. LimitGranted' /\ TrialOnlyOncePaired'
  BY DEF LinkChild, Inv, LimitGranted, TrialOnlyOncePaired
<1>5. SawGranted' /\ TrialAfterLink'
  <2>1. c.master \in paired' /\ granted' = granted
    BY DEF LinkChild
  <2>2. CASE Return(p)
    BY <1>2, <2>1, <2>2, ReturnCovered, OthersKeep DEF Inv, LinkChild
  <2>3. ASSUME NEW pc \in LinkPcs, Await(p, pc) PROVE SawGranted' /\ TrialAfterLink'
    <3>1. call' = [call EXCEPT ![p] = [call[p] EXCEPT !.pc = pc]]
      BY <1>1, <2>3, AwaitTyped DEF Inv
    <3>2. /\ call'[p].saw = c.saw /\ call'[p].master = c.master
          /\ \A q \in Calls : q # p => call'[q] = call[q]
      BY <1>1, <3>1 DEF Inv, TypeOK, LinkCalls
    <3> QED BY <1>2, <1>3, <2>1, <3>2, OthersKeep DEF LinkChild
  <2> QED BY <2>2, <2>3 DEF LinkChild, Proceed, AfterLink, LinkPcs
<1>6. WithinGrantedLimit'
  <2> SUFFICES ASSUME NEW n \in Masters
               PROVE  Cardinality(ChildrenOf(n)') <= granted'[n]
    BY DEF WithinGrantedLimit
  <2>1. Cardinality(ChildrenOf(n)') <= Cardinality(ChildrenOf(n)) + (IF n = c.master THEN 1 ELSE 0)
    BY <1>2, LinkCounts DEF LinkChild, Inv
  <2>2. IsFiniteSet(Children) /\ IsFiniteSet(ChildrenOf(n)')
    BY PairingAssumption, FS_Subset DEF ChildrenOf
  <2>3. Cardinality(ChildrenOf(n)) \in Nat /\ Cardinality(ChildrenOf(n)') \in Nat
    BY <2>2, ChildrenFinite, FS_CardinalityType
  <2>4. Cardinality(ChildrenOf(n)) <= granted[n] /\ granted'[n] = granted[n]
    BY DEF Inv, WithinGrantedLimit, LinkChild
  <2>5. n = c.master => Cardinality(ChildrenOf(n)) < c.saw.limit
    BY DEF LinkChild
  <2> QED BY <1>2, <1>3, <2>1, <2>3, <2>4, <2>5
<1> QED BY <1>4, <1>5, <1>6 DEF Inv

\* Writing back the subscription that was read stays below the history.
LEMMA TrialKeeps ==
    ASSUME Inv, TypeOK', NEW p \in Calls, ActivateTrial(p)
    PROVE  Inv'
<1> USE DEF UnchangedHistory
<1> DEFINE c == call[p]
<1>1. c \in LinkCalls /\ c.saw \in Subs
  BY SuspendedCall DEF Inv, ActivateTrial, LinkPcs, LinkCalls
<1>2. c.saw.limit <= granted[c.master] /\ c.master \in paired
  BY DEF Inv, SawGranted, TrialAfterLink, ActivateTrial
<1>3. LimitGranted' /\ TrialOnlyOncePaired'
  BY <1>1, <1>2 DEF ActivateTrial, Inv, LimitGranted, TrialOnlyOncePaired, Subs, TypeOK
<1>4. SawGranted' /\ TrialAfterLink'
  <2>1. \A m \in Masters : granted[m] <= granted'[m]
    BY GrantedKept DEF ActivateTrial, Inv
  <2>2. CASE Return(p)
    BY <2>1, <2>2, ReturnCovered, OthersKeep DEF Inv, ActivateTrial
  <2>3. CASE Await(p, "spend")
    <3>1. call' = [call EXCEPT ![p] = [call[p] EXCEPT !.pc = "spend"]]
      BY <1>1, <2>3, AwaitTyped DEF Inv, LinkPcs
    <3>2. call'[p].pc = "spend" /\ \A q \in Calls : q # p => call'[q] = call[q]
      BY <1>1, <3>1 DEF Inv, TypeOK, LinkCalls
    <3> QED BY <2>1, <3>2, OthersKeep DEF ActivateTrial
  <2> QED BY <2>2, <2>3 DEF ActivateTrial, Proceed
<1>5. WithinGrantedLimit'
  BY DEF ActivateTrial, Inv, WithinGrantedLimit, ChildrenOf
<1> QED BY <1>3, <1>4, <1>5 DEF Inv

\* A purchase raises the history with the limit.
LEMMA PurchaseKeeps ==
    ASSUME Inv, TypeOK', NEW m \in Masters, NEW l \in Limits, Purchase(m, l)
    PROVE  Inv'
<1>1. l \in Nat /\ \A n \in Masters : granted[n] \in Nat /\ granted'[n] \in Nat
  BY PairingAssumption DEF Inv, TypeOK
<1>2. \A n \in Masters : granted[n] <= granted'[n]
  BY <1>1 DEF Purchase, Inv, TypeOK
<1>3. LimitGranted'
  <2> SUFFICES ASSUME NEW n \in Masters PROVE sub'[n].limit <= granted'[n]
    BY DEF LimitGranted
  <2>1. CASE n = m
    BY <1>1, <2>1 DEF Purchase, Inv, TypeOK
  <2>2. CASE n # m
    BY <1>1, <2>2 DEF Purchase, Inv, TypeOK, LimitGranted
  <2> QED BY <2>1, <2>2
<1>4. TrialOnlyOncePaired'
  BY DEF Purchase, Inv, TypeOK, TrialOnlyOncePaired
<1>5. SawGranted' /\ TrialAfterLink'
  <2> SUFFICES ASSUME NEW q \in Calls, call[q].pc \in {"link", "trial"}
               PROVE  call[q].saw.limit <= granted'[call[q].master]
    BY DEF Purchase, Inv, SawGranted, TrialAfterLink
  <2>1. call[q] \in LinkCalls /\ call[q].saw \in Subs
    BY SuspendedCall DEF Inv, LinkPcs, LinkCalls
  <2>2. call[q].master \in Masters /\ call[q].saw.limit \in Nat
    BY <2>1, PairingAssumption DEF LinkCalls, Subs
  <2>3. call[q].saw.limit <= granted[call[q].master]
    BY DEF Inv, SawGranted
  <2> QED BY <1>1, <1>2, <2>2, <2>3
<1>6. WithinGrantedLimit'
  <2> SUFFICES ASSUME NEW n \in Masters
               PROVE  Cardinality(ChildrenOf(n)) <= granted'[n]
    BY DEF Purchase, WithinGrantedLimit, ChildrenOf
  <2>1. Cardinality(ChildrenOf(n)) \in Nat
    BY ChildrenFinite
  <2>2. Cardinality(ChildrenOf(n)) <= granted[n]
    BY DEF Inv, WithinGrantedLimit
  <2> QED BY <1>1, <1>2, <2>1, <2>2
<1> QED BY <1>3, <1>4, <1>5, <1>6 DEF Inv

\* Every step preserves the invariant.
LEMMA InvStep == Inv /\ [Next]_vars => Inv'
<1> SUFFICES ASSUME Inv, [Next]_vars PROVE Inv' OBVIOUS
<1> USE DEF UnchangedHistory
<1>t. TypeOK /\ TypeOK'
  BY TypeStep DEF Inv
<1>g. granted' = granted => \A m \in Masters : granted[m] \in Nat /\ granted[m] <= granted'[m]
  BY <1>t, GrantedKept
<1>1. ASSUME NEW p \in Calls, NEW m \in Masters, CreatePairingCode(p, m) PROVE Inv'
  BY <1>1, <1>t, EarlyStep DEF CreatePairingCode, Begin
<1>2. ASSUME NEW p \in Calls, NEW m \in Masters, NEW t \in Tokens,
             GeneratePairingLink(p, m, t)
      PROVE  Inv'
  BY <1>2, <1>t, EarlyStep DEF GeneratePairingLink, Begin
<1>3. ASSUME NEW p \in Calls, NEW k \in Children, NEW op \in Ops, NEW x \in Credentials,
             PresentCredential(p, k, op, x)
      PROVE  Inv'
  <2>1. AfterRead(op, cred[x]) \notin {"link", "trial"}
    BY DEF AfterRead
  <2> QED BY <1>3, <1>t, <2>1, EarlyStep DEF PresentCredential, Begin
<1>4. ASSUME NEW p \in Calls, Step(p) PROVE Inv'
  <2>1. ASSUME NEW x \in Codes, DrawFreeCode(p, x) PROVE Inv'
    <3> DEFINE c == [call[p] EXCEPT !.pc = "store", !.cred = x]
    <3>1. call[p] \in IssueCalls
      BY <1>t, <2>1, IssuingCall DEF DrawFreeCode
    <3>2. call' = [call EXCEPT ![p] = c] /\ c.pc = "store"
      BY <1>t, <2>1, <3>1 DEF DrawFreeCode, TypeOK, IssueCalls
    <3> QED BY <1>t, <2>1, <3>2, EarlyStep DEF DrawFreeCode
  <2>2. CASE GiveUpDrawing(p)
    BY <2>2, <1>t, ReturnStep DEF GiveUpDrawing
  <2>3. CASE StoreCredential(p)
    BY <2>3, <1>t, ReturnStep DEF StoreCredential
  <2>4. CASE DeleteCredential(p)
    <3>1. CASE Return(p)
      BY <2>4, <3>1, <1>t, ReturnStep DEF DeleteCredential
    <3>2. CASE Await(p, "master")
      <4>1. call[p] \in LinkCalls
        BY <1>t, <2>4, SuspendedCall DEF DeleteCredential, LinkPcs
      <4>2. /\ call' = [call EXCEPT ![p] = [call[p] EXCEPT !.pc = "master"]]
            /\ [call[p] EXCEPT !.pc = "master"].pc = "master"
        BY <1>t, <3>2, <4>1, AwaitTyped DEF LinkPcs, LinkCalls
      <4> QED BY <1>t, <2>4, <4>2, EarlyStep DEF DeleteCredential
    <3> QED BY <2>4, <3>1, <3>2 DEF DeleteCredential
  <2>5. CASE ReadMaster(p)
    <3> DEFINE s == sub[call[p].master]
               c == [call[p] EXCEPT !.pc = "link", !.saw = s]
    <3>1. CASE HasPairingAccess(s)
      <4>1. call[p] \in LinkCalls
        BY <1>t, <2>5, SuspendedCall DEF ReadMaster, LinkPcs
      <4>2. /\ call'[p] = c /\ c.pc = "link" /\ c.saw = s /\ c.master = call[p].master
            /\ \A q \in Calls : q # p => call'[q] = call[q]
        BY <1>t, <2>5, <3>1, <4>1 DEF ReadMaster, TypeOK, LinkCalls
      <4>3. c.saw.limit <= granted[c.master]
        BY <4>1, <4>2 DEF Inv, LimitGranted, LinkCalls
      <4>4. SawGranted' /\ TrialAfterLink'
        BY <1>t, <1>g, <2>5, <4>2, <4>3, OthersKeep DEF ReadMaster
      <4> QED BY <1>t, <2>5, <4>4, QuietStep DEF ReadMaster
    <3>2. CASE ~HasPairingAccess(s)
      BY <1>t, <2>5, <3>2, ReturnStep DEF ReadMaster
    <3> QED BY <3>1, <3>2
  <2>6. CASE LinkChild(p)
    BY <2>6, <1>t, LinkKeeps
  <2>7. CASE LinkRefused(p)
    BY <2>7, <1>t, ReturnStep DEF LinkRefused
  <2>8. CASE ActivateTrial(p)
    BY <2>8, <1>t, TrialKeeps
  <2> QED BY <1>4, <2>1, <2>2, <2>3, <2>4, <2>5, <2>6, <2>7, <2>8 DEF Step
<1>5. ASSUME NEW p \in Calls, Abort(p) PROVE Inv'
  BY <1>5, <1>t, ReturnStep DEF Abort
<1>6. ASSUME NEW x \in Credentials, Expire(x) PROVE Inv'
  BY <1>6, <1>t, QuietStep DEF Expire, Inv, SawGranted, TrialAfterLink
<1>7. ASSUME NEW m \in Masters, Lapse(m) PROVE Inv'
  <2>1. LimitGranted' /\ TrialOnlyOncePaired'
    BY <1>7 DEF Lapse, Inv, TypeOK, Subs, LimitGranted, TrialOnlyOncePaired
  <2>2. SawGranted' /\ TrialAfterLink'
    BY <1>7 DEF Lapse, Inv, SawGranted, TrialAfterLink
  <2>3. WithinGrantedLimit'
    BY <1>7 DEF Lapse, Inv, WithinGrantedLimit, ChildrenOf
  <2> QED BY <1>t, <2>1, <2>2, <2>3 DEF Inv
<1>8. ASSUME NEW m \in Masters, NEW l \in Limits, Purchase(m, l) PROVE Inv'
  BY <1>8, <1>t, PurchaseKeeps
<1>9. CASE UNCHANGED vars
  BY <1>9, <1>t, QuietStep DEF vars, Inv, SawGranted, TrialAfterLink
<1> QED BY <1>1, <1>2, <1>3, <1>4, <1>5, <1>6, <1>7, <1>8, <1>9 DEF Next

\* However the invocations interleave and die, and however accounts change
\* tiers, no account ever has more children than the largest childLimit its
\* subscription had.
THEOREM WithinLimit == Spec => []WithinGrantedLimit
<1>1. Inv => WithinGrantedLimit
  BY DEF Inv
<1> QED BY <1>1, InvInit, InvStep, PTL DEF Spec

\* A trial runs only for accounts that have had a child.
THEOREM TrialPaired == Spec => []TrialOnlyOncePaired
<1>1. Inv => TrialOnlyOncePaired
  BY DEF Inv
<1> QED BY <1>1, InvInit, InvStep, PTL DEF Spec

-----------------------------------------------------------------------------
(* The trial is started: when every invocation has returned and none died. *)

\* As long as an account is in trial_pending, whoever read it saw that.
SawPending ==
    \A p \in Calls : call[p].pc = "link" /\ sub[call[p].master].status = "trial_pending"
                         => call[p].saw.status = "trial_pending"

\* An account with a child that is still in trial_pending has an invocation that
\* will start its trial.
TrialUnderWay ==
    aborts = 0 =>
        \A m \in Masters : ChildrenOf(m) # {} /\ sub[m].status = "trial_pending"
            => \E p \in Calls : call[p].pc = "trial" /\ call[p].master = m

TrialInv == TypeOK /\ SawPending /\ TrialUnderWay

LEMMA TrialInit == Init => TrialInv
<1> SUFFICES ASSUME Init PROVE TrialInv OBVIOUS
<1>1. SawPending
  BY DEF Init, SawPending, Idle
<1>2. TrialUnderWay
  <2>1. \A m \in Masters : ChildrenOf(m) = {}
    BY PairingAssumption DEF Init, ChildrenOf
  <2> QED BY <2>1 DEF TrialUnderWay
<1> QED BY <1>1, <1>2, TypeInit DEF TrialInv

\* A step after which the invocations at the link and at the trial are those
\* before it, while accounts and children stay, or accounts leave trial_pending.
LEMMA TrialQuiet ==
    ASSUME TrialInv, TypeOK', UNCHANGED child,
           \A m \in Masters : sub'[m].status = "trial_pending" => sub[m] = sub'[m],
           aborts' = 0 => aborts = 0,
           \A q \in Calls : call'[q].pc = "link" => call'[q] = call[q],
           \A q \in Calls : call[q].pc = "trial" =>
               call'[q] = call[q] \/ aborts' # 0
                   \/ sub'[call[q].master].status # "trial_pending"
    PROVE  TrialInv'
<1>1. SawPending'
  <2> SUFFICES ASSUME NEW p \in Calls, call'[p].pc = "link",
                      sub'[call'[p].master].status = "trial_pending"
               PROVE  call'[p].saw.status = "trial_pending"
    BY DEF SawPending
  <2>1. call[p] = call'[p] /\ call[p].pc = "link"
    OBVIOUS
  <2>2. call[p].master \in Masters
    BY <2>1, SuspendedCall DEF TrialInv, LinkPcs, LinkCalls
  <2> QED BY <2>1, <2>2 DEF TrialInv, SawPending
<1>2. TrialUnderWay'
  <2> SUFFICES ASSUME aborts' = 0, NEW m \in Masters, ChildrenOf(m)' # {},
                      sub'[m].status = "trial_pending"
               PROVE  \E p \in Calls : call'[p].pc = "trial" /\ call'[p].master = m
    BY DEF TrialUnderWay
  <2>1. ChildrenOf(m) # {} /\ sub[m].status = "trial_pending" /\ aborts = 0
    BY DEF ChildrenOf
  <2>2. PICK p \in Calls : call[p].pc = "trial" /\ call[p].master = m
    BY <2>1 DEF TrialInv, TrialUnderWay
  <2>3. call'[p] = call[p]
    BY <2>2
  <2> QED BY <2>2, <2>3
<1> QED BY <1>1, <1>2 DEF TrialInv

\* The invocation that moves was neither at the trial nor comes to the link.
LEMMA TrialMove ==
    ASSUME TrialInv, TypeOK', NEW p \in Calls, UNCHANGED <<sub, child, aborts>>,
           \A q \in Calls : q # p => call'[q] = call[q],
           call[p].pc # "trial", call'[p].pc # "link"
    PROVE  TrialInv'
<1>1. \A q \in Calls : call'[q].pc = "link" => call'[q] = call[q]
  OBVIOUS
<1>2. \A q \in Calls : call[q].pc = "trial" => call'[q] = call[q]
  OBVIOUS
<1> QED BY <1>1, <1>2, TrialQuiet

\* The account was read: what was seen is what it is.
LEMMA TrialRead ==
    ASSUME TrialInv, TypeOK', NEW p \in Calls, ReadMaster(p)
    PROVE  TrialInv'
<1> DEFINE s == sub[call[p].master]
<1>1. call[p] \in LinkCalls /\ call[p].pc = "master"
  BY SuspendedCall DEF TrialInv, ReadMaster, LinkPcs
<1>2. UNCHANGED <<sub, child, aborts>>
  BY DEF ReadMaster, UnchangedHistory
<1>3. CASE HasPairingAccess(s)
  <2>1. /\ call'[p].pc = "link" /\ call'[p].saw = s /\ call'[p].master = call[p].master
        /\ \A q \in Calls : q # p => call'[q] = call[q]
    BY <1>1, <1>3 DEF ReadMaster, TrialInv, TypeOK, LinkCalls
  <2>2. SawPending'
    BY <1>2, <2>1 DEF TrialInv, SawPending
  <2>3. TrialUnderWay'
    <3> SUFFICES ASSUME aborts' = 0, NEW m \in Masters, ChildrenOf(m)' # {},
                        sub'[m].status = "trial_pending"
                 PROVE  \E q \in Calls : call'[q].pc = "trial" /\ call'[q].master = m
      BY DEF TrialUnderWay
    <3>1. PICK q \in Calls : call[q].pc = "trial" /\ call[q].master = m
      BY <1>2 DEF TrialInv, TrialUnderWay, ChildrenOf
    <3>2. q # p
      BY <1>1, <3>1
    <3> QED BY <2>1, <3>1, <3>2
  <2> QED BY <2>2, <2>3 DEF TrialInv
<1>4. CASE ~HasPairingAccess(s)
  <2>1. Return(p)
    BY <1>4 DEF ReadMaster
  <2>2. (\A q \in Calls : q # p => call'[q] = call[q]) /\ call'[p].pc # "link"
    BY <2>1, ReturnCovered DEF TrialInv
  <2> QED BY <1>1, <1>2, <2>2, TrialMove
<1> QED BY <1>3, <1>4

\* The transaction: when the account is still in trial_pending the invocation
\* that gave it a child goes on to start the trial.
LEMMA TrialLink ==
    ASSUME TrialInv, TypeOK', NEW p \in Calls, LinkChild(p)
    PROVE  TrialInv'
<1> DEFINE c == call[p]
<1>1. c \in LinkCalls /\ c.pc = "link" /\ c.saw \in Subs
  BY SuspendedCall DEF TrialInv, LinkChild, LinkPcs, LinkCalls
<1>2. UNCHANGED <<sub, aborts>>
  BY DEF LinkChild
<1>3. /\ \A q \in Calls : q # p => call'[q] = call[q]
      /\ call'[p].pc # "link"
      /\ c.saw.status = "trial_pending" => call'[p].pc = "trial" /\ call'[p].master = c.master
  <2>1. CASE Return(p)
    <3>1. c.saw.status # "trial_pending"
      <4> SUFFICES ASSUME c.saw.status = "trial_pending" PROVE FALSE OBVIOUS
      <4>1. Await(p, "trial")
        BY DEF LinkChild, Proceed, AfterLink
      <4>2. call' = [call EXCEPT ![p] = [call[p] EXCEPT !.pc = "trial"]]
        BY <1>1, <4>1, AwaitTyped DEF TrialInv, LinkPcs
      <4>3. call'[p].pc = "trial"
        BY <1>1, <4>2 DEF TrialInv, TypeOK, LinkCalls
      <4> QED BY <2>1, <4>3, ReturnCovered DEF TrialInv, Idle
    <3> QED BY <2>1, <3>1, ReturnCovered DEF TrialInv
  <2>2. ASSUME NEW pc \in {"trial", "spend"}, Await(p, pc), AfterLink(c) = pc
        PROVE  /\ \A q \in Calls : q # p => call'[q] = call[q]
               /\ call'[p].pc # "link"
               /\ c.saw.status = "trial_pending" =>
                      call'[p].pc = "trial" /\ call'[p].master = c.master
    <3>1. call' = [call EXCEPT ![p] = [call[p] EXCEPT !.pc = pc]]
      BY <1>1, <2>2, AwaitTyped DEF TrialInv, LinkPcs
    <3>2. /\ call'[p].pc = pc /\ call'[p].master = c.master
          /\ \A q \in Calls : q # p => call'[q] = call[q]
      BY <1>1, <3>1 DEF TrialInv, TypeOK, LinkCalls
    <3> QED BY <2>2, <3>2 DEF AfterLink
  <2> QED BY <2>1, <2>2 DEF LinkChild, Proceed, AfterLink
<1>4. SawPending'
  BY <1>2, <1>3 DEF TrialInv, SawPending
<1>5. TrialUnderWay'
  <2> SUFFICES ASSUME aborts' = 0, NEW m \in Masters, ChildrenOf(m)' # {},
                      sub'[m].status = "trial_pending"
               PROVE  \E q \in Calls : call'[q].pc = "trial" /\ call'[q].master = m
    BY DEF TrialUnderWay
  <2>1. CASE m = c.master
    BY <1>1, <1>2, <1>3, <2>1 DEF TrialInv, SawPending
  <2>2. CASE m # c.master
    <3>1. ChildrenOf(m) # {}
      BY <2>2 DEF TrialInv, TypeOK, LinkChild, ChildrenOf
    <3>2. PICK q \in Calls : call[q].pc = "trial" /\ call[q].master = m
      BY <1>2, <3>1 DEF TrialInv, TrialUnderWay
    <3>3. q # p
      BY <1>1, <3>2
    <3> QED BY <1>3, <3>2, <3>3
  <2> QED BY <2>1, <2>2
<1> QED BY <1>4, <1>5 DEF TrialInv

\* The trial is started: this account is no longer in trial_pending.
LEMMA TrialActivated ==
    ASSUME TrialInv, TypeOK', NEW p \in Calls, ActivateTrial(p)
    PROVE  TrialInv'
<1> DEFINE c == call[p]
<1>1. c \in LinkCalls /\ c.saw \in Subs /\ c.master \in Masters
  BY SuspendedCall DEF TrialInv, ActivateTrial, LinkPcs, LinkCalls
<1>2. UNCHANGED <<child, aborts>>
  BY DEF ActivateTrial, UnchangedHistory
<1>3. sub' = [sub EXCEPT ![c.master] = [c.saw EXCEPT !.status = "trial"]]
  BY DEF ActivateTrial
<1>4. sub'[c.master].status = "trial" /\ \A m \in Masters : m # c.master => sub'[m] = sub[m]
  BY <1>1, <1>3 DEF TrialInv, TypeOK, Subs
<1>5. \A q \in Calls : q # p => call'[q] = call[q]
  <2>1. CASE Return(p)
    BY <2>1, ReturnCovered DEF TrialInv
  <2>2. CASE Await(p, "spend")
    <3>1. call' = [call EXCEPT ![p] = [call[p] EXCEPT !.pc = "spend"]]
      BY <1>1, <2>2, AwaitTyped DEF TrialInv, LinkPcs
    <3> QED BY <3>1 DEF TrialInv, TypeOK
  <2> QED BY <2>1, <2>2 DEF ActivateTrial, Proceed
<1>6. call'[p].pc # "link"
  <2>1. CASE Return(p)
    BY <2>1, ReturnCovered DEF TrialInv
  <2>2. CASE Await(p, "spend")
    <3>1. call' = [call EXCEPT ![p] = [call[p] EXCEPT !.pc = "spend"]]
      BY <1>1, <2>2, AwaitTyped DEF TrialInv, LinkPcs
    <3> QED BY <1>1, <3>1 DEF TrialInv, TypeOK, LinkCalls
  <2> QED BY <2>1, <2>2 DEF ActivateTrial, Proceed
<1>7. \A m \in Masters : sub'[m].status = "trial_pending" => sub[m] = sub'[m]
  BY <1>4
<1>8. \A q \in Calls : call'[q].pc = "link" => call'[q] = call[q]
  BY <1>5, <1>6
<1>9. \A q \in Calls : call[q].pc = "trial" =>
          call'[q] = call[q] \/ sub'[call[q].master].status # "trial_pending"
  BY <1>4, <1>5
<1> QED BY <1>2, <1>7, <1>8, <1>9, TrialQuiet

LEMMA TrialStep == TrialInv /\ [Next]_vars => TrialInv'
<1> SUFFICES ASSUME TrialInv, [Next]_vars PROVE TrialInv' OBVIOUS
<1> USE DEF UnchangedHistory
<1>t. TypeOK /\ TypeOK'
  BY TypeStep DEF TrialInv
<1>b. ASSUME NEW p \in Calls, NEW c, Begin(p, c)
      PROVE  /\ \A q \in Calls : q # p => call'[q] = call[q]
             /\ call[p].pc # "trial" /\ call'[p] = c
  BY <1>b, <1>t DEF Begin, TypeOK, Idle
<1>r. ASSUME NEW p \in Calls, Return(p), call[p].pc # "trial",
             UNCHANGED <<sub, child, aborts>>
      PROVE  TrialInv'
  BY <1>r, <1>t, ReturnCovered, TrialMove
<1>1. ASSUME NEW p \in Calls, NEW m \in Masters, CreatePairingCode(p, m) PROVE TrialInv'
  BY <1>1, <1>t, <1>b, TrialMove DEF CreatePairingCode
<1>2. ASSUME NEW p \in Calls, NEW m \in Masters, NEW t \in Tokens,
             GeneratePairingLink(p, m, t)
      PROVE  TrialInv'
  BY <1>2, <1>t, <1>b, TrialMove DEF GeneratePairingLink
<1>3. ASSUME NEW p \in Calls, NEW k \in Children, NEW op \in Ops, NEW x \in Credentials,
             PresentCredential(p, k, op, x)
      PROVE  TrialInv'
  <2>1. AfterRead(op, cred[x]) # "link"
    BY DEF AfterRead
  <2> QED BY <1>3, <1>t, <1>b, <2>1, TrialMove DEF PresentCredential
<1>4. ASSUME NEW p \in Calls, Step(p) PROVE TrialInv'
  <2>1. ASSUME NEW x \in Codes, DrawFreeCode(p, x) PROVE TrialInv'
    <3>1. call[p] \in IssueCalls
      BY <1>t, <2>1, IssuingCall DEF DrawFreeCode
    <3>2. call'[p].pc = "store" /\ \A q \in Calls : q # p => call'[q] = call[q]
      BY <1>t, <2>1, <3>1 DEF DrawFreeCode, TypeOK, IssueCalls
    <3> QED BY <1>t, <2>1, <3>2, TrialMove DEF DrawFreeCode
  <2>2. CASE GiveUpDrawing(p)
    BY <2>2, <1>r DEF GiveUpDrawing
  <2>3. CASE StoreCredential(p)
    BY <2>3, <1>r DEF StoreCredential
  <2>4. CASE DeleteCredential(p)
    <3>1. CASE Return(p)
      BY <2>4, <3>1, <1>r DEF DeleteCredential
    <3>2. CASE Await(p, "master")
      <4>1. call[p] \in LinkCalls
        BY <1>t, <2>4, SuspendedCall DEF DeleteCredential, LinkPcs
      <4>2. call' = [call EXCEPT ![p] = [call[p] EXCEPT !.pc = "master"]]
        BY <1>t, <3>2, <4>1, AwaitTyped DEF LinkPcs
      <4>3. call'[p].pc = "master" /\ \A q \in Calls : q # p => call'[q] = call[q]
        BY <1>t, <4>1, <4>2 DEF TypeOK, LinkCalls
      <4> QED BY <1>t, <2>4, <4>3, TrialMove DEF DeleteCredential
    <3> QED BY <2>4, <3>1, <3>2 DEF DeleteCredential
  <2>5. CASE ReadMaster(p)
    BY <2>5, <1>t, TrialRead
  <2>6. CASE LinkChild(p)
    BY <2>6, <1>t, TrialLink
  <2>7. CASE LinkRefused(p)
    BY <2>7, <1>r DEF LinkRefused
  <2>8. CASE ActivateTrial(p)
    BY <2>8, <1>t, TrialActivated
  <2> QED BY <1>4, <2>1, <2>2, <2>3, <2>4, <2>5, <2>6, <2>7, <2>8 DEF Step
<1>5. ASSUME NEW p \in Calls, Abort(p) PROVE TrialInv'
  <2>1. aborts' # 0 /\ UNCHANGED <<sub, child>>
    BY <1>5, <1>t DEF Abort, TypeOK
  <2>2. \A q \in Calls : call'[q].pc = "link" => call'[q] = call[q]
    BY <1>5, <1>t, ReturnCovered DEF Abort
  <2> QED BY <1>t, <2>1, <2>2, TrialQuiet
<1>6. ASSUME NEW x \in Credentials, Expire(x) PROVE TrialInv'
  BY <1>6, <1>t, TrialQuiet DEF Expire
<1>7. ASSUME NEW m \in Masters, Lapse(m) PROVE TrialInv'
  <2>1. \A n \in Masters : sub'[n].status = "trial_pending" => sub[n] = sub'[n]
    BY <1>7, <1>t DEF Lapse, TypeOK, Subs
  <2> QED BY <1>7, <1>t, <2>1, TrialQuiet DEF Lapse
<1>8. ASSUME NEW m \in Masters, NEW l \in Limits, Purchase(m, l) PROVE TrialInv'
  <2>1. \A n \in Masters : sub'[n].status = "trial_pending" => sub[n] = sub'[n]
    BY <1>8, <1>t DEF Purchase, TypeOK
  <2> QED BY <1>8, <1>t, <2>1, TrialQuiet DEF Purchase
<1>9. CASE UNCHANGED vars
  BY <1>9, <1>t, TrialQuiet DEF vars
<1> QED BY <1>1, <1>2, <1>3, <1>4, <1>5, <1>6, <1>7, <1>8, <1>9 DEF Next

\* Whatever is interleaved with the link and however often the subscription
\* changes meanwhile: when all invocations have returned and none died, no
\* account with a child is left in trial_pending.
THEOREM TrialStarted == Spec => []TrialStartedWhenQuiet
<1>1. TrialInv => TrialStartedWhenQuiet
  BY DEF TrialInv, TrialUnderWay, TrialStartedWhenQuiet, Idle
<1> QED BY <1>1, TrialInit, TrialStep, PTL DEF Spec

-----------------------------------------------------------------------------
(* A credential is spent: every document carries the serial number of the  *)
(* call that issued it, and a code may be drawn again, so the invariant    *)
(* follows serial numbers from the issuing call to the document and to the *)
(* invocations that read it.                                               *)

Past == {"master", "link", "trial"}

\* Two documents never carry the same serial number.
CredentialsDistinct ==
    \A x \in Credentials : cred[x] # None =>
        /\ cred[x].serial <= issued
        /\ \A y \in Credentials : cred[y] # None /\ cred[y].serial = cred[x].serial => y = x

\* While a call is issuing, nobody else knows its serial number.
IssuingAlone ==
    \A p \in Calls : call[p].pc \in {"draw", "store"} =>
        /\ call[p].serial <= issued
        /\ linkedBy[call[p].serial] = {}
        /\ \A x \in Credentials : cred[x] # None => cred[x].serial # call[p].serial
        /\ \A q \in Calls : call[q].pc # "idle" /\ call[q].serial = call[p].serial => q = p

\* A document with the serial number an invocation read is where it was read;
\* the modern flow has deleted it before it goes on to the account.
LinkingKnows ==
    \A p \in Calls : call[p].pc \in LinkPcs =>
        /\ call[p].serial <= issued
        /\ \A x \in Credentials : cred[x] # None /\ cred[x].serial = call[p].serial =>
              /\ x = call[p].cred
              /\ call[p].op = "pairAuthenticatedChild" => call[p].pc \notin Past

\* Children are linked through credentials that were issued.
LinkedWereIssued == \A n \in 1..MaxIssued : n > issued => linkedBy[n] = {}

\* A document that linked a child is about to be deleted by the invocation that
\* linked it.
SpenderUnderWay ==
    aborts = 0 =>
        \A x \in Credentials : cred[x] # None /\ linkedBy[cred[x].serial] # {} =>
            \E p \in Calls : /\ call[p].pc \in {"trial", "spend"}
                             /\ call[p].op # "pairAuthenticatedChild"
                             /\ call[p].cred = x

Serials  == CredentialsDistinct /\ IssuingAlone /\ LinkingKnows /\ LinkedWereIssued
SpentInv == TypeOK /\ Serials /\ SpenderUnderWay

LEMMA SpentInit == Init => SpentInv
<1> SUFFICES ASSUME Init PROVE SpentInv OBVIOUS
<1>1. CredentialsDistinct /\ SpenderUnderWay
  BY DEF Init, CredentialsDistinct, SpenderUnderWay
<1>2. IssuingAlone /\ LinkingKnows
  BY DEF Init, IssuingAlone, LinkingKnows, Idle, LinkPcs
<1>3. LinkedWereIssued
  BY DEF Init, LinkedWereIssued
<1> QED BY <1>1, <1>2, <1>3, TypeInit DEF SpentInv, Serials

\* Where an invocation is suspended says what it is.
LEMMA CallKinds ==
    ASSUME TypeOK, NEW p \in Calls
    PROVE  /\ call[p].pc \in {"idle", "draw", "store"} \cup LinkPcs
           /\ call[p].pc \in {"draw", "store"} =>
                 /\ call[p].serial \in 1..MaxIssued
                 /\ call[p].cred \in Credentials \cup {None}
           /\ call[p].pc \in LinkPcs =>
                 /\ call[p].serial \in 1..MaxIssued
                 /\ call[p].cred \in Credentials
           /\ call[p].pc = "idle" <=> call[p] = Idle
BY DEF TypeOK, CallStates, Idle, IssueCalls, LinkCalls, LinkPcs

\* An invocation that returns or waits again leaves the others where they are.
LEMMA OthersStay ==
    ASSUME TypeOK, NEW p \in Calls, NEW pc, Return(p) \/ Await(p, pc)
    PROVE  \A q \in Calls : q # p => call'[q] = call[q]
BY DEF TypeOK, Return, Await

\* The documents, the history and the numbers stay, and the invocation that moves
\* returns, or goes on with the serial number and the credential it has.
LEMMA SerialsMove ==
    ASSUME TypeOK, TypeOK', Serials, NEW p \in Calls,
           \A q \in Calls : q # p => call'[q] = call[q],
           UNCHANGED <<cred, issued, linkedBy>>,
           \/ call'[p].pc = "idle"
           \/ /\ call[p].pc \in {"draw", "store"} /\ call'[p].pc \in {"draw", "store"}
              /\ call'[p].serial = call[p].serial
           \/ /\ call[p].pc \in LinkPcs /\ call'[p].pc \in LinkPcs
              /\ call'[p].serial = call[p].serial /\ call'[p].cred = call[p].cred
              /\ call'[p].op = call[p].op
              /\ call[p].op = "pairAuthenticatedChild" /\ call'[p].pc \in Past =>
                    call[p].pc \in Past
    PROVE  Serials'
<1>1. CredentialsDistinct' /\ LinkedWereIssued'
  BY DEF Serials, CredentialsDistinct, LinkedWereIssued
<1>2. \A q \in Calls : call'[q].pc # "idle" =>
          call[q].pc # "idle" /\ call'[q].serial = call[q].serial
  BY CallKinds DEF LinkPcs
<1>3. IssuingAlone'
  <2> SUFFICES ASSUME NEW r \in Calls, call'[r].pc \in {"draw", "store"}
               PROVE  /\ call'[r].serial <= issued
                      /\ linkedBy[call'[r].serial] = {}
                      /\ \A x \in Credentials : cred[x] # None =>
                            cred[x].serial # call'[r].serial
                      /\ \A q \in Calls : call'[q].pc # "idle"
                            /\ call'[q].serial = call'[r].serial => q = r
    BY DEF IssuingAlone
  <2>1. call[r].pc \in {"draw", "store"} /\ call'[r].serial = call[r].serial
    BY DEF LinkPcs
  <2> QED BY <1>2, <2>1 DEF Serials, IssuingAlone
<1>4. LinkingKnows'
  <2> SUFFICES ASSUME NEW r \in Calls, call'[r].pc \in LinkPcs
               PROVE  /\ call'[r].serial <= issued
                      /\ \A x \in Credentials :
                            cred[x] # None /\ cred[x].serial = call'[r].serial =>
                              /\ x = call'[r].cred
                              /\ call'[r].op = "pairAuthenticatedChild" =>
                                    call'[r].pc \notin Past
    BY DEF LinkingKnows
  <2>1. CASE r = p
    <3>1. /\ call[p].pc \in LinkPcs
          /\ call'[p].serial = call[p].serial /\ call'[p].cred = call[p].cred
          /\ call'[p].op = call[p].op
          /\ call[p].op = "pairAuthenticatedChild" /\ call'[p].pc \in Past =>
                call[p].pc \in Past
      BY <2>1 DEF LinkPcs
    <3> QED BY <2>1, <3>1 DEF Serials, LinkingKnows
  <2>2. CASE r # p
    BY <2>2 DEF Serials, LinkingKnows
  <2> QED BY <2>1, <2>2
<1> QED BY <1>1, <1>3, <1>4 DEF Serials

\* Documents that linked a child keep the invocation that will delete them when
\* no document comes and no child is linked, and the one that moves is another, or
\* goes on to the deletion.
LEMMA SpenderKept ==
    ASSUME SpentInv, NEW p \in Calls, aborts' = 0 => aborts = 0,
           \A q \in Calls : q # p => call'[q] = call[q],
           \A x \in Credentials : cred'[x] # None /\ linkedBy'[cred'[x].serial] # {} =>
               cred[x] # None /\ linkedBy[cred[x].serial] # {},
           \/ call[p].pc \notin {"trial", "spend"}
           \/ call[p].op = "pairAuthenticatedChild"
           \/ cred'[call[p].cred] = None
           \/ call'[p].pc = "spend" /\ call'[p].op = call[p].op /\ call'[p].cred = call[p].cred
    PROVE  SpenderUnderWay'
<1> SUFFICES ASSUME aborts' = 0, NEW x \in Credentials, cred'[x] # None,
                    linkedBy'[cred'[x].serial] # {}
             PROVE  \E q \in Calls : /\ call'[q].pc \in {"trial", "spend"}
                                     /\ call'[q].op # "pairAuthenticatedChild"
                                     /\ call'[q].cred = x
  BY DEF SpenderUnderWay
<1>1. PICK q \in Calls : /\ call[q].pc \in {"trial", "spend"}
                         /\ call[q].op # "pairAuthenticatedChild"
                         /\ call[q].cred = x
  BY DEF SpentInv, SpenderUnderWay
<1>2. CASE q # p
  BY <1>1, <1>2
<1>3. CASE q = p
  BY <1>1, <1>3
<1> QED BY <1>2, <1>3

\* A new issuing call takes the next serial number.
LEMMA SerialsIssue ==
    ASSUME SpentInv, TypeOK', NEW p \in Calls, NEW c, Begin(p, c),
           c.pc \in {"draw", "store"}, c.serial = issued + 1, issued' = issued + 1,
           issued + 1 \in 1..MaxIssued, UNCHANGED <<cred, linkedBy, aborts>>
    PROVE  SpentInv'
<1>1. /\ call[p] = Idle /\ call'[p] = c /\ \A q \in Calls : q # p => call'[q] = call[q]
      /\ call[p].pc = "idle"
  BY DEF Begin, SpentInv, TypeOK, Idle
<1>2. issued \in Nat
  BY PairingAssumption DEF SpentInv, TypeOK
<1>3. \A x \in Credentials : cred[x] # None => cred[x].serial \in 1..MaxIssued
  BY DEF SpentInv, TypeOK, CredDocs
<1>4. \A q \in Calls : call[q].pc # "idle" =>
          call[q].serial \in 1..MaxIssued /\ call[q].serial <= issued
  BY CallKinds DEF SpentInv, Serials, IssuingAlone, LinkingKnows
<1>5. CredentialsDistinct'
  BY <1>2, <1>3 DEF SpentInv, Serials, CredentialsDistinct
<1>6. LinkedWereIssued'
  BY <1>2 DEF SpentInv, Serials, LinkedWereIssued
<1>7. IssuingAlone'
  <2> SUFFICES ASSUME NEW r \in Calls, call'[r].pc \in {"draw", "store"}
               PROVE  /\ call'[r].serial <= issued'
                      /\ linkedBy[call'[r].serial] = {}
                      /\ \A x \in Credentials : cred[x] # None =>
                            cred[x].serial # call'[r].serial
                      /\ \A q \in Calls : call'[q].pc # "idle"
                            /\ call'[q].serial = call'[r].serial => q = r
    BY DEF IssuingAlone
  <2>1. CASE r = p
    <3>1. call'[r].serial = issued + 1 /\ call'[r].serial <= issued'
      BY <1>1, <1>2, <2>1
    <3>2. linkedBy[issued + 1] = {}
      BY <1>2 DEF SpentInv, Serials, LinkedWereIssued
    <3>3. \A x \in Credentials : cred[x] # None => cred[x].serial # issued + 1
      BY <1>2, <1>3 DEF SpentInv, Serials, CredentialsDistinct
    <3>4. \A q \in Calls : call'[q].pc # "idle" /\ call'[q].serial = issued + 1 => q = r
      BY <1>1, <1>2, <1>4, <2>1
    <3> QED BY <3>1, <3>2, <3>3, <3>4
  <2>2. CASE r # p
    <3>1. call'[r] = call[r] /\ call[r].pc \in {"draw", "store"}
      BY <1>1, <2>2
    <3>2. call[r].serial \in 1..MaxIssued /\ call[r].serial <= issued
      BY <1>4, <3>1
    <3>3. \A q \in Calls : call'[q].pc # "idle" /\ call'[q].serial = call[r].serial => q = r
      <4>1. call'[p].serial # call[r].serial
        BY <1>1, <1>2, <3>2
      <4> QED BY <1>1, <3>1, <4>1 DEF SpentInv, Serials, IssuingAlone
    <3> QED BY <1>2, <3>1, <3>2, <3>3 DEF SpentInv, Serials, IssuingAlone
  <2> QED BY <2>1, <2>2
<1>8. LinkingKnows'
  <2> SUFFICES ASSUME NEW r \in Calls, call'[r].pc \in LinkPcs
               PROVE  /\ call'[r].serial <= issued'
                      /\ \A x \in Credentials :
                            cred[x] # None /\ cred[x].serial = call'[r].serial =>
                              /\ x = call'[r].cred
                              /\ call'[r].op = "pairAuthenticatedChild" =>
                                    call'[r].pc \notin Past
    BY DEF LinkingKnows
  <2>1. r # p /\ call'[r] = call[r]
    BY <1>1 DEF LinkPcs
  <2>2. call[r].serial \in 1..MaxIssued /\ call[r].serial <= issued
    BY <1>4, <2>1 DEF LinkPcs
  <2> QED BY <1>2, <2>1, <2>2 DEF SpentInv, Serials, LinkingKnows
<1>9. SpenderUnderWay'
  BY <1>1, SpenderKept
<1> QED BY <1>5, <1>6, <1>7, <1>8, <1>9 DEF SpentInv, Serials

\* The document is written: its serial number leaves the issuing call.
LEMMA SerialsStore ==
    ASSUME SpentInv, TypeOK', NEW p \in Calls, StoreCredential(p)
    PROVE  SpentInv'
<1> USE DEF UnchangedHistory
<1> DEFINE d == [master |-> call[p].master, serial |-> call[p].serial, expired |-> FALSE]
           z == call[p].cred
<1>1. /\ call'[p] = Idle /\ call'[p].pc = "idle" /\ \A q \in Calls : q # p => call'[q] = call[q]
      /\ call[p].pc = "store"
  BY ReturnCovered DEF StoreCredential, SpentInv, Idle
<1>2. /\ \A x \in Credentials : cred'[x] = IF x = z THEN d ELSE cred[x]
      /\ UNCHANGED <<issued, linkedBy, aborts>>
  BY DEF StoreCredential, SpentInv, TypeOK
<1>3. /\ d.serial <= issued /\ linkedBy[d.serial] = {}
      /\ \A x \in Credentials : cred[x] # None => cred[x].serial # d.serial
      /\ \A q \in Calls : call[q].pc # "idle" /\ call[q].serial = d.serial => q = p
  BY <1>1 DEF SpentInv, Serials, IssuingAlone
<1> HIDE DEF d, z
<1>4. CredentialsDistinct'
  BY <1>2, <1>3 DEF SpentInv, Serials, CredentialsDistinct
<1>5. LinkedWereIssued'
  BY <1>2 DEF SpentInv, Serials, LinkedWereIssued
<1>6. IssuingAlone'
  BY <1>1, <1>2, <1>3 DEF SpentInv, Serials, IssuingAlone
<1>7. LinkingKnows'
  <2> SUFFICES ASSUME NEW r \in Calls, call'[r].pc \in LinkPcs
               PROVE  /\ call'[r].serial <= issued'
                      /\ \A x \in Credentials :
                            cred'[x] # None /\ cred'[x].serial = call'[r].serial =>
                              /\ x = call'[r].cred
                              /\ call'[r].op = "pairAuthenticatedChild" =>
                                    call'[r].pc \notin Past
    BY DEF LinkingKnows
  <2>1. r # p /\ call'[r] = call[r] /\ call[r].pc # "idle"
    BY <1>1 DEF LinkPcs
  <2>2. call[r].serial # d.serial
    BY <1>3, <2>1
  <2>3. \A x \in Credentials : cred'[x] # None /\ cred'[x].serial = call[r].serial =>
            cred[x] # None /\ cred[x].serial = call[r].serial
    BY <1>2, <2>2
  <2> QED BY <1>2, <2>1, <2>3 DEF SpentInv, Serials, LinkingKnows
<1>8. SpenderUnderWay'
  <2>1. \A x \in Credentials : cred'[x] # None /\ linkedBy'[cred'[x].serial] # {} =>
            cred[x] # None /\ linkedBy[cred[x].serial] # {}
    BY <1>2, <1>3
  <2> QED BY <1>1, <1>2, <2>1, SpenderKept
<1> QED BY <1>4, <1>5, <1>6, <1>7, <1>8 DEF SpentInv, Serials

\* A child's invocation learns the serial number with the document.
LEMMA SerialsRead ==
    ASSUME SpentInv, TypeOK', NEW p \in Calls, NEW k \in Children, NEW op \in Ops,
           NEW x \in Credentials, PresentCredential(p, k, op, x)
    PROVE  SpentInv'
<1> USE DEF UnchangedHistory
<1>1. /\ call[p].pc = "idle" /\ \A q \in Calls : q # p => call'[q] = call[q]
      /\ call'[p].pc \in {"drop", "consume", "master"}
      /\ op = "pairAuthenticatedChild" => call'[p].pc \notin Past
      /\ call'[p].op = op /\ call'[p].cred = x /\ call'[p].serial = cred[x].serial
  BY DEF PresentCredential, Begin, AfterRead, SpentInv, TypeOK, Idle, Past
<1>2. UNCHANGED <<cred, issued, linkedBy, aborts>> /\ cred[x] # None
  BY DEF PresentCredential
<1>3. CredentialsDistinct' /\ LinkedWereIssued'
  BY <1>2 DEF SpentInv, Serials, CredentialsDistinct, LinkedWereIssued
<1>4. IssuingAlone'
  <2> SUFFICES ASSUME NEW r \in Calls, call'[r].pc \in {"draw", "store"}
               PROVE  /\ call'[r].serial <= issued
                      /\ linkedBy[call'[r].serial] = {}
                      /\ \A y \in Credentials : cred[y] # None =>
                            cred[y].serial # call'[r].serial
                      /\ \A q \in Calls : call'[q].pc # "idle"
                            /\ call'[q].serial = call'[r].serial => q = r
    BY <1>2 DEF IssuingAlone
  <2>1. r # p /\ call'[r] = call[r]
    BY <1>1
  <2>2. call'[p].serial # call[r].serial
    BY <1>1, <1>2, <2>1 DEF SpentInv, Serials, IssuingAlone
  <2> QED BY <1>1, <2>1, <2>2 DEF SpentInv, Serials, IssuingAlone
<1>5. LinkingKnows'
  <2> SUFFICES ASSUME NEW r \in Calls, call'[r].pc \in LinkPcs
               PROVE  /\ call'[r].serial <= issued
                      /\ \A y \in Credentials :
                            cred[y] # None /\ cred[y].serial = call'[r].serial =>
                              /\ y = call'[r].cred
                              /\ call'[r].op = "pairAuthenticatedChild" =>
                                    call'[r].pc \notin Past
    BY <1>2 DEF LinkingKnows
  <2>1. CASE r = p
    BY <1>1, <1>2, <2>1 DEF SpentInv, Serials, CredentialsDistinct
  <2>2. CASE r # p
    BY <1>1, <2>2 DEF SpentInv, Serials, LinkingKnows
  <2> QED BY <2>1, <2>2
<1>6. SpenderUnderWay'
  BY <1>1, <1>2, SpenderKept
<1> QED BY <1>3, <1>4, <1>5, <1>6 DEF SpentInv, Serials

\* The document is deleted: nothing is left to be spent there, and the modern
\* flow goes on without it.
LEMMA SerialsDelete ==
    ASSUME SpentInv, TypeOK', NEW p \in Calls, DeleteCredential(p)
    PROVE  SpentInv'
<1> USE DEF UnchangedHistory
<1> DEFINE z == call[p].cred
<1>1. call[p] \in LinkCalls /\ z \in Credentials /\ call[p].pc \in {"drop", "consume", "spend"}
  BY SuspendedCall DEF SpentInv, DeleteCredential, LinkPcs, LinkCalls
<1>2. /\ \A x \in Credentials : cred'[x] = IF x = z THEN None ELSE cred[x]
      /\ cred'[z] = None
      /\ UNCHANGED <<issued, linkedBy, aborts>>
  BY <1>1 DEF DeleteCredential, SpentInv, TypeOK
<1>3. \A q \in Calls : q # p => call'[q] = call[q]
  BY OthersStay DEF SpentInv, DeleteCredential
<1>4. \/ call'[p].pc = "idle"
      \/ /\ call'[p].pc = "master" /\ call'[p].op = call[p].op
         /\ call'[p].cred = call[p].cred /\ call'[p].serial = call[p].serial
  <2>1. CASE Return(p)
    BY <2>1, ReturnCovered DEF SpentInv, Idle
  <2>2. CASE Await(p, "master")
    <3>1. call' = [call EXCEPT ![p] = [call[p] EXCEPT !.pc = "master"]]
      BY <1>1, <2>2, AwaitTyped DEF SpentInv, LinkPcs
    <3> QED BY <1>1, <3>1 DEF SpentInv, TypeOK, LinkCalls
  <2> QED BY <2>1, <2>2 DEF DeleteCredential
<1>5. CredentialsDistinct' /\ LinkedWereIssued'
  BY <1>2 DEF SpentInv, Serials, CredentialsDistinct, LinkedWereIssued
<1>6. \A q \in Calls : call'[q].pc # "idle" =>
          call[q].pc # "idle" /\ call'[q].serial = call[q].serial
  BY <1>1, <1>3, <1>4
<1>7. IssuingAlone'
  <2> SUFFICES ASSUME NEW r \in Calls, call'[r].pc \in {"draw", "store"}
               PROVE  /\ call'[r].serial <= issued
                      /\ linkedBy[call'[r].serial] = {}
                      /\ \A x \in Credentials : cred'[x] # None =>
                            cred'[x].serial # call'[r].serial
                      /\ \A q \in Calls : call'[q].pc # "idle"
                            /\ call'[q].serial = call'[r].serial => q = r
    BY <1>2 DEF IssuingAlone
  <2>1. call'[r] = call[r]
    BY <1>3, <1>4
  <2> QED BY <1>2, <1>6, <2>1 DEF SpentInv, Serials, IssuingAlone
<1>8. LinkingKnows'
  <2> SUFFICES ASSUME NEW r \in Calls, call'[r].pc \in LinkPcs
               PROVE  /\ call'[r].serial <= issued
                      /\ \A x \in Credentials :
                            cred'[x] # None /\ cred'[x].serial = call'[r].serial =>
                              /\ x = call'[r].cred
                              /\ call'[r].op = "pairAuthenticatedChild" =>
                                    call'[r].pc \notin Past
    BY <1>2 DEF LinkingKnows
  <2>1. CASE r = p
    <3>1. /\ call'[p].serial = call[p].serial /\ call[p].pc \in LinkPcs
      BY <1>1, <1>4, <2>1 DEF LinkPcs
    <3>2. \A x \in Credentials : cred'[x] # None => cred'[x].serial # call[p].serial
      BY <1>2, <3>1 DEF SpentInv, Serials, LinkingKnows
    <3> QED BY <2>1, <3>1, <3>2 DEF SpentInv, Serials, LinkingKnows
  <2>2. CASE r # p
    BY <1>2, <1>3, <2>2 DEF SpentInv, Serials, LinkingKnows
  <2> QED BY <2>1, <2>2
<1>9. SpenderUnderWay'
  <2>1. \A x \in Credentials : cred'[x] # None /\ linkedBy'[cred'[x].serial] # {} =>
            cred[x] # None /\ linkedBy[cred[x].serial] # {}
    BY <1>2
  <2> QED BY <1>2, <1>3, <2>1, SpenderKept
<1> QED BY <1>5, <1>7, <1>8, <1>9 DEF SpentInv, Serials

\* The transaction: in the old flows the document, if it is still the one that
\* was read, now has an invocation that will delete it; the modern flow has
\* already deleted it.
LEMMA SerialsLink ==
    ASSUME SpentInv, TypeOK', NEW p \in Calls, LinkChild(p)
    PROVE  SpentInv'
<1> DEFINE c == call[p]
<1>1. c \in LinkCalls /\ c.pc = "link" /\ c.saw \in Subs /\ c.serial \in 1..MaxIssued
  BY SuspendedCall DEF SpentInv, LinkChild, LinkPcs, LinkCalls
<1>2. /\ UNCHANGED <<cred, issued, aborts>>
      /\ \A n \in 1..MaxIssued : n # c.serial => linkedBy'[n] = linkedBy[n]
  BY DEF LinkChild, SpentInv, TypeOK
<1>3. \A q \in Calls : q # p => call'[q] = call[q]
  BY OthersStay DEF SpentInv, LinkChild, Proceed
<1>4. \/ call'[p].pc = "idle" /\ c.op = "pairAuthenticatedChild"
      \/ /\ call'[p].pc \in {"trial", "spend"} /\ call'[p].op = c.op
         /\ call'[p].cred = c.cred /\ call'[p].serial = c.serial
  <2>1. CASE AfterLink(c) = "idle"
    <3>1. Return(p)
      BY <2>1 DEF LinkChild, Proceed
    <3> QED BY <2>1, <3>1, ReturnCovered DEF SpentInv, Idle, AfterLink
  <2>2. ASSUME NEW pc \in {"trial", "spend"}, AfterLink(c) = pc
        PROVE  /\ call'[p].pc \in {"trial", "spend"} /\ call'[p].op = c.op
               /\ call'[p].cred = c.cred /\ call'[p].serial = c.serial
    <3>1. Await(p, pc)
      BY <2>2 DEF LinkChild, Proceed
    <3>2. call' = [call EXCEPT ![p] = [call[p] EXCEPT !.pc = pc]]
      BY <1>1, <3>1, AwaitTyped DEF SpentInv, LinkPcs
    <3> QED BY <1>1, <3>2 DEF SpentInv, TypeOK, LinkCalls
  <2> QED BY <2>1, <2>2 DEF AfterLink
<1>5. c.serial <= issued
  BY <1>1 DEF SpentInv, Serials, LinkingKnows, LinkPcs
<1>6. CredentialsDistinct'
  BY <1>2 DEF SpentInv, Serials, CredentialsDistinct
<1>7. LinkedWereIssued'
  <2>1. issued \in Nat
    BY DEF SpentInv, TypeOK
  <2> QED BY <1>1, <1>2, <1>5, <2>1 DEF SpentInv, Serials, LinkedWereIssued
<1>8. \A q \in Calls : call'[q].pc # "idle" =>
          call[q].pc # "idle" /\ call'[q].serial = call[q].serial
  BY <1>1, <1>3, <1>4
<1>9. IssuingAlone'
  <2> SUFFICES ASSUME NEW r \in Calls, call'[r].pc \in {"draw", "store"}
               PROVE  /\ call'[r].serial <= issued
                      /\ linkedBy'[call'[r].serial] = {}
                      /\ \A x \in Credentials : cred[x] # None =>
                            cred[x].serial # call'[r].serial
                      /\ \A q \in Calls : call'[q].pc # "idle"
                            /\ call'[q].serial = call'[r].serial => q = r
    BY <1>2 DEF IssuingAlone
  <2>1. r # p /\ call'[r] = call[r]
    BY <1>3, <1>4
  <2>2. call[r].serial \in 1..MaxIssued
    BY <2>1, CallKinds DEF SpentInv
  <2>3. c.serial # call[r].serial
    BY <1>1, <2>1 DEF SpentInv, Serials, IssuingAlone
  <2> QED BY <1>2, <1>8, <2>1, <2>2, <2>3 DEF SpentInv, Serials, IssuingAlone
<1>10. LinkingKnows'
  <2> SUFFICES ASSUME NEW r \in Calls, call'[r].pc \in LinkPcs
               PROVE  /\ call'[r].serial <= issued
                      /\ \A x \in Credentials :
                            cred[x] # None /\ cred[x].serial = call'[r].serial =>
                              /\ x = call'[r].cred
                              /\ call'[r].op = "pairAuthenticatedChild" =>
                                    call'[r].pc \notin Past
    BY <1>2 DEF LinkingKnows
  <2>1. CASE r = p
    <3>1. /\ call'[p].serial = c.serial /\ call'[p].cred = c.cred /\ call'[p].op = c.op
          /\ c.pc \in LinkPcs /\ c.pc \in Past
      BY <1>1, <1>4, <2>1 DEF LinkPcs, Past
    <3> QED BY <2>1, <3>1 DEF SpentInv, Serials, LinkingKnows
  <2>2. CASE r # p
    BY <1>3, <2>2 DEF SpentInv, Serials, LinkingKnows
  <2> QED BY <2>1, <2>2
<1>11. SpenderUnderWay'
  <2> SUFFICES ASSUME aborts' = 0, NEW x \in Credentials, cred'[x] # None,
                      linkedBy'[cred'[x].serial] # {}
               PROVE  \E q \in Calls : /\ call'[q].pc \in {"trial", "spend"}
                                       /\ call'[q].op # "pairAuthenticatedChild"
                                       /\ call'[q].cred = x
    BY DEF SpenderUnderWay
  <2>1. CASE cred[x].serial = c.serial
    <3>1. x = c.cred /\ c.op # "pairAuthenticatedChild"
      BY <1>1, <1>2, <2>1 DEF SpentInv, Serials, LinkingKnows, LinkPcs, Past
    <3> QED BY <1>4, <3>1
  <2>2. CASE cred[x].serial # c.serial
    <3>1. cred[x].serial \in 1..MaxIssued
      BY <1>2 DEF SpentInv, TypeOK, CredDocs
    <3>2. linkedBy[cred[x].serial] # {}
      BY <1>2, <2>2, <3>1
    <3>3. PICK q \in Calls : /\ call[q].pc \in {"trial", "spend"}
                             /\ call[q].op # "pairAuthenticatedChild"
                             /\ call[q].cred = x
      BY <1>2, <3>2 DEF SpentInv, SpenderUnderWay
    <3>4. q # p
      BY <1>1, <3>3
    <3> QED BY <1>3, <3>3, <3>4
  <2> QED BY <2>1, <2>2
<1> QED BY <1>6, <1>7, <1>9, <1>10, <1>11 DEF SpentInv, Serials

\* An invocation that returns has nothing to spend, or died.
LEMMA SerialsReturn ==
    ASSUME SpentInv, TypeOK', NEW p \in Calls, Return(p),
           UNCHANGED <<cred, issued, linkedBy>>,
           \/ aborts' # 0
           \/ aborts' = aborts /\ (\/ call[p].pc \notin {"trial", "spend"}
                                   \/ call[p].op = "pairAuthenticatedChild")
    PROVE  SpentInv'
<1>1. call'[p].pc = "idle" /\ \A q \in Calls : q # p => call'[q] = call[q]
  BY ReturnCovered DEF SpentInv, Idle
<1>2. Serials'
  BY <1>1, SerialsMove DEF SpentInv
<1>3. SpenderUnderWay'
  <2>1. CASE aborts' # 0
    BY <2>1 DEF SpenderUnderWay
  <2>2. CASE aborts' = aborts /\ (\/ call[p].pc \notin {"trial", "spend"}
                                  \/ call[p].op = "pairAuthenticatedChild")
    BY <1>1, <2>2, SpenderKept
  <2> QED BY <2>1, <2>2
<1> QED BY <1>2, <1>3 DEF SpentInv

LEMMA SpentStep == SpentInv /\ [Next]_vars => SpentInv'
<1> SUFFICES ASSUME SpentInv, [Next]_vars PROVE SpentInv' OBVIOUS
<1> USE DEF UnchangedHistory
<1>t. TypeOK /\ TypeOK' /\ Serials
  BY TypeStep DEF SpentInv
<1>i. issued < MaxIssued => issued + 1 \in 1..MaxIssued
  BY <1>t, PairingAssumption DEF TypeOK
<1>k. ASSUME UNCHANGED <<call, issued, linkedBy, aborts>>,
             \A x \in Credentials : cred'[x] # None =>
                 cred[x] # None /\ cred'[x].serial = cred[x].serial
      PROVE  SpentInv'
  <2>1. CredentialsDistinct' /\ LinkedWereIssued'
    BY <1>k DEF SpentInv, Serials, CredentialsDistinct, LinkedWereIssued
  <2>2. IssuingAlone'
    BY <1>k DEF SpentInv, Serials, IssuingAlone
  <2>3. LinkingKnows'
    BY <1>k DEF SpentInv, Serials, LinkingKnows
  <2>4. SpenderUnderWay'
    BY <1>k DEF SpentInv, SpenderUnderWay
  <2> QED BY <1>t, <2>1, <2>2, <2>3, <2>4 DEF SpentInv, Serials
<1>1. ASSUME NEW p \in Calls, NEW m \in Masters, CreatePairingCode(p, m) PROVE SpentInv'
  BY <1>1, <1>t, <1>i, SerialsIssue DEF CreatePairingCode
<1>2. ASSUME NEW p \in Calls, NEW m \in Masters, NEW t \in Tokens,
             GeneratePairingLink(p, m, t)
      PROVE  SpentInv'
  BY <1>2, <1>t, <1>i, SerialsIssue DEF GeneratePairingLink
<1>3. ASSUME NEW p \in Calls, NEW k \in Children, NEW op \in Ops, NEW x \in Credentials,
             PresentCredential(p, k, op, x)
      PROVE  SpentInv'
  BY <1>3, <1>t, SerialsRead
<1>4. ASSUME NEW p \in Calls, Step(p) PROVE SpentInv'
  <2>1. ASSUME NEW x \in Codes, DrawFreeCode(p, x) PROVE SpentInv'
    <3>1. call[p] \in IssueCalls /\ call[p].pc = "draw"
      BY <1>t, <2>1, IssuingCall DEF DrawFreeCode
    <3>2. /\ call'[p].pc = "store" /\ call'[p].serial = call[p].serial
          /\ \A q \in Calls : q # p => call'[q] = call[q]
          /\ UNCHANGED <<cred, issued, linkedBy, aborts>>
      BY <1>t, <2>1, <3>1 DEF DrawFreeCode, TypeOK, IssueCalls
    <3>3. Serials'
      BY <1>t, <3>1, <3>2, SerialsMove
    <3>4. SpenderUnderWay'
      BY <3>1, <3>2, SpenderKept
    <3> QED BY <1>t, <3>3, <3>4 DEF SpentInv
  <2>2. CASE GiveUpDrawing(p)
    BY <2>2, <1>t, SerialsReturn DEF GiveUpDrawing
  <2>3. CASE StoreCredential(p)
    BY <2>3, <1>t, SerialsStore
  <2>4. CASE DeleteCredential(p)
    BY <2>4, <1>t, SerialsDelete
  <2>5. CASE ReadMaster(p)
    <3>1. call[p] \in LinkCalls /\ call[p].pc = "master"
      BY <1>t, <2>5, SuspendedCall DEF ReadMaster, LinkPcs
    <3>2. CASE HasPairingAccess(sub[call[p].master])
      <4>1. /\ call'[p].pc = "link" /\ call'[p].serial = call[p].serial
            /\ call'[p].cred = call[p].cred /\ call'[p].op = call[p].op
            /\ \A q \in Calls : q # p => call'[q] = call[q]
            /\ UNCHANGED <<cred, issued, linkedBy, aborts>>
        BY <1>t, <2>5, <3>1, <3>2 DEF ReadMaster, TypeOK, LinkCalls
      <4>2. Serials'
        BY <1>t, <3>1, <4>1, SerialsMove DEF LinkPcs, Past
      <4>3. SpenderUnderWay'
        BY <3>1, <4>1, SpenderKept
      <4> QED BY <1>t, <4>2, <4>3 DEF SpentInv
    <3>3. CASE ~HasPairingAccess(sub[call[p].master])
      BY <1>t, <2>5, <3>1, <3>3, SerialsReturn DEF ReadMaster
    <3> QED BY <3>2, <3>3
  <2>6. CASE LinkChild(p)
    BY <2>6, <1>t, SerialsLink
  <2>7. CASE LinkRefused(p)
    BY <2>7, <1>t, SerialsReturn DEF LinkRefused
  <2>8. CASE ActivateTrial(p)
    <3>1. call[p] \in LinkCalls /\ call[p].pc = "trial"
      BY <1>t, <2>8, SuspendedCall DEF ActivateTrial, LinkPcs
    <3>2. UNCHANGED <<cred, issued, linkedBy, aborts>>
      BY <2>8 DEF ActivateTrial
    <3>3. CASE call[p].op = "pairAuthenticatedChild"
      <4>1. Return(p)
        BY <2>8, <3>3 DEF ActivateTrial, Proceed
      <4> QED BY <1>t, <3>2, <3>3, <4>1, SerialsReturn
    <3>4. CASE call[p].op # "pairAuthenticatedChild"
      <4>1. Await(p, "spend")
        BY <2>8, <3>4 DEF ActivateTrial, Proceed
      <4>2. call' = [call EXCEPT ![p] = [call[p] EXCEPT !.pc = "spend"]]
        BY <1>t, <3>1, <4>1, AwaitTyped DEF LinkPcs
      <4>3. /\ call'[p].pc = "spend" /\ call'[p].serial = call[p].serial
            /\ call'[p].cred = call[p].cred /\ call'[p].op = call[p].op
            /\ \A q \in Calls : q # p => call'[q] = call[q]
        BY <1>t, <3>1, <4>2 DEF TypeOK, LinkCalls
      <4>4. Serials'
        BY <1>t, <3>1, <3>2, <4>3, SerialsMove DEF LinkPcs, Past
      <4>5. SpenderUnderWay'
        BY <3>2, <4>3, SpenderKept
      <4> QED BY <1>t, <4>4, <4>5 DEF SpentInv
    <3> QED BY <3>3, <3>4
  <2> QED BY <1>4, <2>1, <2>2, <2>3, <2>4, <2>5, <2>6, <2>7, <2>8 DEF Step
<1>5. ASSUME NEW p \in Calls, Abort(p) PROVE SpentInv'
  <2>1. aborts' # 0
    BY <1>5, <1>t DEF Abort, TypeOK
  <2> QED BY <1>5, <1>t, <2>1, SerialsReturn DEF Abort
<1>6. ASSUME NEW x \in Credentials, Expire(x) PROVE SpentInv'
  <2>1. cred[x] \in CredDocs
    BY <1>6, <1>t DEF Expire, TypeOK
  <2>2. \A y \in Credentials : cred'[y] # None =>
            cred[y] # None /\ cred'[y].serial = cred[y].serial
    BY <1>6, <1>t, <2>1 DEF Expire, TypeOK, CredDocs
  <2> QED BY <1>6, <1>k, <2>2 DEF Expire
<1>7. ASSUME NEW m \in Masters, Lapse(m) PROVE SpentInv'
  BY <1>7, <1>k DEF Lapse
<1>8. ASSUME NEW m \in Masters, NEW l \in Limits, Purchase(m, l) PROVE SpentInv'
  BY <1>8, <1>k DEF Purchase
<1>9. CASE UNCHANGED vars
  BY <1>9, <1>k DEF vars
<1> QED BY <1>1, <1>2, <1>3, <1>4, <1>5, <1>6, <1>7, <1>8, <1>9 DEF Next

\* However the invocations interleave, and however often a code is drawn again:
\* when all have returned and none died, no stored credential has linked a child.
THEOREM Spent == Spec => []SpentWhenQuiet
<1>1. SpentInv => SpentWhenQuiet
  BY DEF SpentInv, SpenderUnderWay, SpentWhenQuiet, Idle
<1> QED BY <1>1, SpentInit, SpentStep, PTL DEF Spec

-----------------------------------------------------------------------------
(* Pairing implements Membership.  An invocation carries what a credential *)
(* said when it was read, so the invariant says that a serial number stays *)
(* with the account that issued it, in the documents and in the            *)
(* invocations.                                                            *)

UnissuedFree == \A n \in 1..MaxIssued : n > issued => issuer[n] = None

DocumentsNameIssuer ==
    \A x \in Credentials : cred[x] # None => issuer[cred[x].serial] = cred[x].master

CallsNameIssuer ==
    \A p \in Calls : call[p].pc # "idle" => issuer[call[p].serial] = call[p].master

IssuersKnown == UnissuedFree /\ DocumentsNameIssuer /\ CallsNameIssuer
MemberInv    == Inv /\ SpentInv /\ IssuersKnown

LEMMA MemberInvInit == Init => MemberInv
<1> SUFFICES ASSUME Init PROVE MemberInv OBVIOUS
<1>1. IssuersKnown
  BY DEF Init, Idle, IssuersKnown, UnissuedFree, DocumentsNameIssuer, CallsNameIssuer
<1> QED BY <1>1, InvInit, SpentInit DEF MemberInv

\* A new serial number belongs to the account that started the call; nobody
\* carries it yet.
LEMMA IssuersIssue ==
    ASSUME MemberInv, NEW p \in Calls, NEW m \in Masters, NEW c, Begin(p, c),
           c.master = m, c.serial = issued + 1, issued + 1 \in 1..MaxIssued,
           issued' = issued + 1, issuer' = [issuer EXCEPT ![issued + 1] = m],
           UNCHANGED cred
    PROVE  IssuersKnown'
<1>0. TypeOK /\ issued \in Nat
  BY DEF MemberInv, Inv, TypeOK
<1>1. \A n \in 1..MaxIssued : issuer'[n] = IF n = issued + 1 THEN m ELSE issuer[n]
  BY <1>0 DEF TypeOK
<1>2. call'[p] = c /\ \A q \in Calls : q # p => call'[q] = call[q]
  BY <1>0 DEF Begin, TypeOK
<1>3. \A x \in Credentials : cred[x] # None =>
          cred[x].serial \in 1..MaxIssued /\ cred[x].serial <= issued
  BY <1>0 DEF TypeOK, CredDocs, MemberInv, SpentInv, Serials, CredentialsDistinct
<1>4. \A q \in Calls : call[q].pc # "idle" =>
          call[q].serial \in 1..MaxIssued /\ call[q].serial <= issued
  BY <1>0, CallKinds DEF MemberInv, SpentInv, Serials, IssuingAlone, LinkingKnows
<1>5. UnissuedFree'
  BY <1>0, <1>1 DEF MemberInv, IssuersKnown, UnissuedFree
<1>6. DocumentsNameIssuer'
  BY <1>0, <1>1, <1>3 DEF MemberInv, IssuersKnown, DocumentsNameIssuer
<1>7. CallsNameIssuer'
  <2> SUFFICES ASSUME NEW q \in Calls, call'[q].pc # "idle"
               PROVE  issuer'[call'[q].serial] = call'[q].master
    BY DEF CallsNameIssuer
  <2>1. CASE q = p
    BY <1>1, <1>2, <2>1
  <2>2. CASE q # p
    BY <1>0, <1>1, <1>2, <1>4, <2>2 DEF MemberInv, IssuersKnown, CallsNameIssuer
  <2> QED BY <2>1, <2>2
<1> QED BY <1>5, <1>6, <1>7 DEF IssuersKnown

\* A running invocation goes on for the account and with the serial number it
\* has, and writes no document that names another.
LEMMA CallCarries ==
    ASSUME TypeOK, TypeOK', NEW p \in Calls, Step(p)
    PROVE  /\ UNCHANGED <<issued, issuer>>
           /\ \A q \in Calls : q # p => call'[q] = call[q]
           /\ call[p].pc # "idle"
           /\ call'[p].pc # "idle" =>
                 call'[p].serial = call[p].serial /\ call'[p].master = call[p].master
           /\ \A x \in Credentials : cred'[x] # None =>
                 \/ cred'[x] = cred[x]
                 \/ cred'[x].serial = call[p].serial /\ cred'[x].master = call[p].master
<1> DEFINE Moved == call'[p].pc # "idle" =>
               call'[p].serial = call[p].serial /\ call'[p].master = call[p].master
<1>r. ASSUME Return(p) PROVE Moved /\ \A q \in Calls : q # p => call'[q] = call[q]
  BY <1>r, ReturnCovered DEF Idle
<1>a. ASSUME NEW pc \in LinkPcs, Await(p, pc), call[p].pc \in LinkPcs
      PROVE  Moved /\ \A q \in Calls : q # p => call'[q] = call[q]
  <2>1. call[p] \in LinkCalls
    BY <1>a, SuspendedCall
  <2> QED BY <1>a, <2>1 DEF Await, TypeOK, LinkCalls
<1>1. ASSUME NEW x \in Codes, DrawFreeCode(p, x)
      PROVE  Moved /\ \A q \in Calls : q # p => call'[q] = call[q]
  <2>1. call[p] \in IssueCalls
    BY <1>1, IssuingCall DEF DrawFreeCode
  <2> QED BY <1>1, <2>1 DEF DrawFreeCode, TypeOK, IssueCalls
<1>2. CASE GiveUpDrawing(p) \/ LinkRefused(p)
  BY <1>2, <1>r DEF GiveUpDrawing, LinkRefused
<1>3. CASE StoreCredential(p)
  <2>1. \A x \in Credentials : cred'[x] = IF x = call[p].cred
            THEN [master |-> call[p].master, serial |-> call[p].serial, expired |-> FALSE]
            ELSE cred[x]
    BY <1>3 DEF StoreCredential, TypeOK
  <2> QED BY <1>3, <1>r, <2>1 DEF StoreCredential
<1>4. CASE DeleteCredential(p)
  <2>1. \A x \in Credentials : cred'[x] # None => cred'[x] = cred[x]
    BY <1>4 DEF DeleteCredential, TypeOK
  <2> QED BY <1>4, <1>r, <1>a, <2>1 DEF DeleteCredential, LinkPcs
<1>5. CASE ReadMaster(p)
  <2>1. call[p] \in LinkCalls
    BY <1>5, SuspendedCall DEF ReadMaster, LinkPcs
  <2>2. CASE HasPairingAccess(sub[call[p].master])
    BY <1>5, <2>1, <2>2 DEF ReadMaster, TypeOK, LinkCalls
  <2>3. CASE ~HasPairingAccess(sub[call[p].master])
    BY <1>5, <2>3, <1>r DEF ReadMaster
  <2> QED BY <1>5, <2>2, <2>3 DEF ReadMaster
<1>6. CASE LinkChild(p)
  BY <1>6, <1>r, <1>a DEF LinkChild, Proceed, AfterLink, LinkPcs
<1>7. CASE ActivateTrial(p)
  BY <1>7, <1>r, <1>a DEF ActivateTrial, Proceed, LinkPcs
<1>8. Moved /\ \A q \in Calls : q # p => call'[q] = call[q]
  BY <1>1, <1>2, <1>3, <1>4, <1>5, <1>6, <1>7 DEF Step, ReadMaster
<1>9. UNCHANGED <<issued, issuer>> /\ call[p].pc # "idle"
  BY DEF Step, DrawFreeCode, GiveUpDrawing, StoreCredential, DeleteCredential, ReadMaster,
         LinkChild, LinkRefused, ActivateTrial
<1>10. \A x \in Credentials : cred'[x] # None =>
           \/ cred'[x] = cred[x]
           \/ cred'[x].serial = call[p].serial /\ cred'[x].master = call[p].master
  BY <1>3, <1>4 DEF Step, DrawFreeCode, GiveUpDrawing, StoreCredential, DeleteCredential,
         ReadMaster, LinkChild, LinkRefused, ActivateTrial, TypeOK
<1> QED BY <1>8, <1>9, <1>10

LEMMA IssuersStep == MemberInv /\ [Next]_vars => IssuersKnown'
<1> SUFFICES ASSUME MemberInv, [Next]_vars PROVE IssuersKnown' OBVIOUS
<1> USE DEF UnchangedHistory
<1>t. TypeOK /\ TypeOK' /\ IssuersKnown
  BY TypeStep DEF MemberInv, Inv
<1>i. issued < MaxIssued => issued + 1 \in 1..MaxIssued
  BY <1>t, PairingAssumption DEF TypeOK
<1>k. ASSUME UNCHANGED <<call, issued, issuer>>,
             \A x \in Credentials : cred'[x] # None =>
                 /\ cred[x] # None /\ cred'[x].serial = cred[x].serial
                 /\ cred'[x].master = cred[x].master
      PROVE  IssuersKnown'
  BY <1>t, <1>k DEF IssuersKnown, UnissuedFree, DocumentsNameIssuer, CallsNameIssuer
<1>1. ASSUME NEW p \in Calls, NEW m \in Masters, CreatePairingCode(p, m) PROVE IssuersKnown'
  BY <1>1, <1>i, IssuersIssue DEF CreatePairingCode
<1>2. ASSUME NEW p \in Calls, NEW m \in Masters, NEW t \in Tokens,
             GeneratePairingLink(p, m, t)
      PROVE  IssuersKnown'
  BY <1>2, <1>i, IssuersIssue DEF GeneratePairingLink
<1>3. ASSUME NEW p \in Calls, NEW k \in Children, NEW op \in Ops, NEW x \in Credentials,
             PresentCredential(p, k, op, x)
      PROVE  IssuersKnown'
  <2>1. /\ cred[x] # None /\ UNCHANGED <<cred, issued, issuer>>
        /\ call'[p].serial = cred[x].serial /\ call'[p].master = cred[x].master
        /\ \A q \in Calls : q # p => call'[q] = call[q]
    BY <1>3, <1>t DEF PresentCredential, Begin, TypeOK
  <2>2. CallsNameIssuer'
    BY <1>t, <2>1 DEF IssuersKnown, CallsNameIssuer, DocumentsNameIssuer
  <2> QED BY <1>t, <2>1, <2>2 DEF IssuersKnown, UnissuedFree, DocumentsNameIssuer
<1>4. ASSUME NEW p \in Calls, Step(p) PROVE IssuersKnown'
  <2>1. CallsNameIssuer'
    BY <1>4, <1>t, CallCarries DEF IssuersKnown, CallsNameIssuer
  <2>2. DocumentsNameIssuer'
    BY <1>4, <1>t, CallCarries DEF IssuersKnown, CallsNameIssuer, DocumentsNameIssuer
  <2>3. UnissuedFree'
    BY <1>4, <1>t, CallCarries DEF IssuersKnown, UnissuedFree
  <2> QED BY <2>1, <2>2, <2>3 DEF IssuersKnown
<1>5. ASSUME NEW p \in Calls, Abort(p) PROVE IssuersKnown'
  BY <1>5, <1>t, ReturnCovered
     DEF Abort, Idle, IssuersKnown, UnissuedFree, DocumentsNameIssuer, CallsNameIssuer
<1>6. ASSUME NEW x \in Credentials, Expire(x) PROVE IssuersKnown'
  <2>1. cred[x] \in CredDocs
    BY <1>6, <1>t DEF Expire, TypeOK
  <2>2. \A y \in Credentials : cred'[y] # None =>
            /\ cred[y] # None /\ cred'[y].serial = cred[y].serial
            /\ cred'[y].master = cred[y].master
    BY <1>6, <1>t, <2>1 DEF Expire, TypeOK, CredDocs
  <2> QED BY <1>6, <1>k, <2>2 DEF Expire
<1>7. ASSUME NEW m \in Masters, Lapse(m) PROVE IssuersKnown'
  BY <1>7, <1>k DEF Lapse
<1>8. ASSUME NEW m \in Masters, NEW l \in Limits, Purchase(m, l) PROVE IssuersKnown'
  BY <1>8, <1>k DEF Purchase
<1>9. CASE UNCHANGED vars
  BY <1>9, <1>k DEF vars
<1> QED BY <1>1, <1>2, <1>3, <1>4, <1>5, <1>6, <1>7, <1>8, <1>9 DEF Next

LEMMA MemberInvStep == MemberInv /\ [Next]_vars => MemberInv'
BY InvStep, SpentStep, IssuersStep DEF MemberInv

\* Counting is the same on both levels.
LEMMA SameCount ==
    ASSUME NEW S
    PROVE  Members!Cardinality(S) = Cardinality(S)
BY DEF Members!Cardinality, Cardinality

\* The transaction is the join: the account it fills is the issuer's, and the
\* limit it compares with is one that account had.
LEMMA LinkIsJoin ==
    ASSUME MemberInv, NEW p \in Calls, LinkChild(p)
    PROVE  \E n \in 1..MaxIssued, k \in Children : Members!Join(k, n)
<1> DEFINE c == call[p]
<1>1. /\ c \in LinkCalls /\ c.saw \in Subs /\ c.pc \in {"link", "trial"} /\ c.pc # "idle"
  BY SuspendedCall DEF MemberInv, Inv, LinkChild, LinkPcs, LinkCalls
<1>2. c.serial \in 1..MaxIssued /\ c.who \in Children /\ c.master \in Masters
  BY <1>1 DEF LinkCalls
<1>3. issuer[c.serial] = c.master
  BY <1>1 DEF MemberInv, IssuersKnown, CallsNameIssuer
<1>4. c.master # None
  BY <1>2, PairingAssumption
<1>5. Cardinality({j \in Children : child[j] = c.master}) < granted[c.master]
  <2>1. c.saw.limit \in Nat /\ granted[c.master] \in Nat
    BY <1>1, <1>2, PairingAssumption DEF Subs, MemberInv, Inv, TypeOK
  <2>2. c.saw.limit <= granted[c.master]
    BY <1>1 DEF MemberInv, Inv, SawGranted
  <2>3. /\ Cardinality({j \in Children : child[j] = c.master}) < c.saw.limit
        /\ Cardinality({j \in Children : child[j] = c.master}) \in Nat
    BY <1>2, ChildrenFinite DEF LinkChild, ChildrenOf
  <2> QED BY <2>1, <2>2, <2>3
<1>6. Members!Join(c.who, c.serial)
  BY <1>3, <1>4, <1>5, SameCount DEF LinkChild, Members!Join
<1> QED BY <1>2, <1>6

\* The trial writes back a subscription the account had, after the join.
LEMMA TrialIsGiven ==
    ASSUME MemberInv, NEW p \in Calls, ActivateTrial(p)
    PROVE  \E m \in Masters, l \in Limits : Members!GiveTrial(m, l)
<1> DEFINE c == call[p]
<1>1. c \in LinkCalls /\ c.saw \in Subs /\ c.pc = "trial"
  BY SuspendedCall DEF MemberInv, Inv, ActivateTrial, LinkPcs, LinkCalls
<1>2. c.master \in Masters /\ c.saw.limit \in Limits
  BY <1>1 DEF LinkCalls, Subs
<1>3. c.master \in paired /\ c.saw.limit <= granted[c.master]
  BY <1>1 DEF MemberInv, Inv, TrialAfterLink, SawGranted
<1>4. [c.saw EXCEPT !.status = "trial"] = [status |-> "trial", limit |-> c.saw.limit]
  BY <1>1 DEF Subs
<1>5. Members!GiveTrial(c.master, c.saw.limit)
  BY <1>3, <1>4 DEF ActivateTrial, UnchangedHistory, Members!GiveTrial
<1> QED BY <1>2, <1>5

LEMMA MembersSimulate ==
    ASSUME MemberInv, [Next]_vars
    PROVE  [Members!Next]_(Members!membershipVars)
<1> USE DEF UnchangedHistory
<1>t. TypeOK /\ issued \in Nat
  BY DEF MemberInv, Inv, TypeOK
<1>s. ASSUME UNCHANGED <<sub, child, issuer, granted, linkedBy, paired>>
      PROVE  UNCHANGED (Members!membershipVars)
  BY <1>s DEF Members!membershipVars
<1>n. ASSUME NEW m \in Masters, issued < MaxIssued, issuer' = [issuer EXCEPT ![issued + 1] = m],
             UNCHANGED <<sub, child, granted, linkedBy, paired>>
      PROVE  Members!Next
  <2>1. issued + 1 \in 1..MaxIssued
    BY <1>t, <1>n, PairingAssumption
  <2>2. issuer[issued + 1] = None
    BY <1>t, <2>1 DEF MemberInv, IssuersKnown, UnissuedFree
  <2>3. Members!Invite(issued + 1, m)
    BY <1>n, <2>2 DEF Members!Invite
  <2> QED BY <2>1, <2>3 DEF Members!Next
<1>1. ASSUME NEW p \in Calls, NEW m \in Masters, CreatePairingCode(p, m) PROVE Members!Next
  BY <1>1, <1>n DEF CreatePairingCode
<1>2. ASSUME NEW p \in Calls, NEW m \in Masters, NEW t \in Tokens,
             GeneratePairingLink(p, m, t)
      PROVE  Members!Next
  BY <1>2, <1>n DEF GeneratePairingLink
<1>3. ASSUME NEW p \in Calls, NEW k \in Children, NEW op \in Ops, NEW x \in Credentials,
             PresentCredential(p, k, op, x)
      PROVE  UNCHANGED (Members!membershipVars)
  BY <1>3, <1>s DEF PresentCredential
<1>4. ASSUME NEW p \in Calls, Step(p) PROVE [Members!Next]_(Members!membershipVars)
  <2>1. CASE LinkChild(p)
    BY <2>1, LinkIsJoin DEF Members!Next
  <2>2. CASE ActivateTrial(p)
    BY <2>2, TrialIsGiven DEF Members!Next
  <2>3. CASE ~LinkChild(p) /\ ~ActivateTrial(p)
    BY <1>4, <1>s, <2>3 DEF Step, DrawFreeCode, GiveUpDrawing, StoreCredential,
                            DeleteCredential, ReadMaster, LinkRefused
  <2> QED BY <2>1, <2>2, <2>3
<1>5. ASSUME NEW p \in Calls, Abort(p) PROVE UNCHANGED (Members!membershipVars)
  BY <1>5, <1>s DEF Abort
<1>6. ASSUME NEW x \in Credentials, Expire(x) PROVE UNCHANGED (Members!membershipVars)
  BY <1>6, <1>s DEF Expire
<1>7. ASSUME NEW m \in Masters, Lapse(m) PROVE Members!Next
  BY <1>7 DEF Lapse, Members!LoseAccess, Members!Next
<1>8. ASSUME NEW m \in Masters, NEW l \in Limits, Purchase(m, l) PROVE Members!Next
  BY <1>8 DEF Purchase, Members!Buy, Members!Next
<1>9. CASE UNCHANGED vars
  BY <1>9, <1>s DEF vars
<1> QED BY <1>1, <1>2, <1>3, <1>4, <1>5, <1>6, <1>7, <1>8, <1>9 DEF Next

\* Whatever calls run at the same time, and whatever was read before: a child
\* joins only the account that issued the credential it presented, in one step
\* that finds room there, and a trial is given only after such a step.
THEOREM MembershipKept == Spec => ImplementsMembership
<1>1. Init => Members!Init
  BY DEF Init, Members!Init
<1> QED BY <1>1, MemberInvInit, MemberInvStep, MembersSimulate, PTL
        DEF Spec, ImplementsMembership, Members!Spec
=============================================================================
