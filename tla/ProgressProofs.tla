--------------------------- MODULE ProgressProofs ---------------------------
(***************************************************************************)
(* Proofs about the parts of MCProgress, for every value of their          *)
(* constants: the server's tasks, the phone that watches them, the other   *)
(* parts of the child's device, and the circuit breaker; and that all of   *)
(* it holds of their composition.                                          *)
(*                                                                         *)
(* The inductive invariant of Tasks ties a call in flight to the task it   *)
(* has checked: the task exists; a decision in flight is about a submitted *)
(* one; and a call that is not stale still finds the status it checked.    *)
(* That of TaskPhone says the same of a broadcast in the air: the approval *)
(* it carries has been given, whatever became of the task since.  The      *)
(* breaker's counts the slots of a half-open period: every slot that was   *)
(* taken belongs to a probe that is still running or to a success that was *)
(* counted.                                                                *)
(*                                                                         *)
(* OfflinePolicy, but for when a device is locked, and Enforcement promise *)
(* progress: their types are proved.                                       *)
(***************************************************************************)
EXTENDS MCProgress, FiniteSetTheorems, TLAPS

InFlight(p) == call[p] # Idle

\* What a call that passed its checks knows of its task.
Checked ==
    \A p \in Calls : InFlight(p) =>
        LET c == call[p] IN
        /\ c.task \in Created
        /\ c.op \in Decisions => task[c.task].status # "pending"
        /\ (~c.stale /\ c.op = "complete") => task[c.task].status = "pending"
        /\ (~c.stale /\ c.op \in Decisions) => task[c.task].status = "pending_approval"

\* Approvals and triggers are about tasks that exist.
Known == /\ approved \subseteq Created
         /\ \A j \in jobs : j.task \in Created

Inv == TypeOK /\ Checked /\ Known /\ UnlockTracesApproval

-----------------------------------------------------------------------------
LEMMA DocsAreNotNone == \A d \in TaskDocs : d # None
BY TasksAssumption

\* A call in flight is a record with these fields.
LEMMA CallInFlight ==
    ASSUME TypeOK, NEW p \in Calls, call[p] # Idle
    PROVE  /\ call[p] \in [op : {"complete"} \cup Decisions, task : Ids, stale : BOOLEAN]
           /\ call[p].op \in {"complete"} \cup Decisions
           /\ call[p].task \in Ids /\ call[p].stale \in BOOLEAN
BY DEF TypeOK, CallStates, Idle

\* The update keeps a document a document; a submission is pending approval, a
\* decision is the status, and unlockUntil follows an approval.
LEMMA UpdatedDoc ==
    ASSUME NEW d \in TaskDocs, NEW op \in {"complete"} \cup Decisions
    PROVE  /\ Updated(d, op) \in TaskDocs
           /\ Updated(d, op).timed = d.timed
           /\ op = "complete" => /\ Updated(d, op).status = "pending_approval"
                                 /\ Updated(d, op).unlockUntil = d.unlockUntil
           /\ op \in Decisions =>
                /\ Updated(d, op).status = op
                /\ Updated(d, op).unlockUntil = (d.unlockUntil \/ (op = "approved" /\ d.timed))
<1>1. CASE op = "complete"
  BY <1>1 DEF Updated, TaskDocs, Statuses, Decisions
<1>2. CASE op \in Decisions
  BY <1>2 DEF Updated, TaskDocs, Statuses, Decisions
<1> QED BY <1>1, <1>2

\* The triggers of a change are about the task that changed.
LEMMA TriggeredJobs ==
    ASSUME NEW t \in Ids, NEW before, NEW after
    PROVE  \A j \in Triggered(t, before, after) : j \in Jobs /\ j.task = t
<1> SUFFICES ASSUME NEW j \in Triggered(t, before, after) PROVE j \in Jobs /\ j.task = t
  OBVIOUS
<1>1. PICK k \in Told(before, after) \cup (IF Analysable(before, after) THEN {"analyse"} ELSE {}) :
          j = [kind |-> k, task |-> t]
  BY Zenon DEF Triggered
<1>2. k \in {"analyse", "tell parent", "tell child"}
  BY DEF Told
<1> QED BY <1>1, <1>2 DEF Jobs

LEMMA InitInv == Init => Inv
<1> SUFFICES ASSUME Init PROVE Inv
  OBVIOUS
<1>1. TypeOK
  BY TasksAssumption DEF Init, TypeOK, CallStates
<1>2. Checked /\ Known /\ UnlockTracesApproval
  BY DEF Init, Checked, InFlight, Known, UnlockTracesApproval, Created
<1> QED BY <1>1, <1>2 DEF Inv

-----------------------------------------------------------------------------
(* The callables.                                                          *)

LEMMA CreateInv ==
    ASSUME Inv, NEW t \in Ids, NEW timed \in BOOLEAN, CreateTask(t, timed)
    PROVE  Inv'
<1> DEFINE new == [status |-> "pending", proof |-> FALSE, timed |-> timed,
                   unlockUntil |-> FALSE, analysed |-> FALSE, told |-> {}]
<1> USE DEF Inv
<1>1. new \in TaskDocs /\ new # None /\ new.unlockUntil = FALSE
  BY DocsAreNotNone DEF TaskDocs, Statuses
<1>2. /\ t \notin Created
      /\ task' = [task EXCEPT ![t] = new]
      /\ UNCHANGED <<call, jobs, approved, losses>>
  BY DEF CreateTask
<1> HIDE DEF new
<1>3. TypeOK'
  BY <1>1, <1>2 DEF TypeOK
<1>4. /\ task'[t] = new /\ t \in Created'
      /\ \A u \in Created : u # t /\ u \in Created' /\ task'[u] = task[u]
      /\ \A u \in Created' : u = t \/ u \in Created
  BY <1>1, <1>2 DEF TypeOK, Created
<1>5. Checked'
  BY <1>2, <1>4 DEF Checked, InFlight
<1>6. Known'
  BY <1>2, <1>4 DEF Known
<1>7. UnlockTracesApproval'
  BY <1>1, <1>2, <1>4 DEF UnlockTracesApproval, Known
<1> QED BY <1>3, <1>5, <1>6, <1>7

\* Both checks put a call in flight that is not stale.
LEMMA BeginInv ==
    ASSUME Inv, NEW p \in Calls, NEW t \in Created, NEW op \in {"complete"} \cup Decisions,
           Begin(p, op, t),
           op = "complete" => task[t].status = "pending",
           op \in Decisions => task[t].status = "pending_approval"
    PROVE  Inv'
<1> DEFINE new == [op |-> op, task |-> t, stale |-> FALSE]
<1> USE DEF Inv
<1>1. /\ call' = [call EXCEPT ![p] = new]
      /\ UNCHANGED <<task, jobs, approved, losses>>
  BY DEF Begin
<1>2. new \in CallStates
  BY DEF CallStates, Created
<1>3. TypeOK'
  BY <1>1, <1>2 DEF TypeOK
<1>4. Created' = Created
  BY <1>1 DEF Created
<1>5. Checked'
  BY <1>1, <1>4 DEF Checked, InFlight, TypeOK, Decisions
<1>6. Known' /\ UnlockTracesApproval'
  BY <1>1, <1>4 DEF Known, UnlockTracesApproval
<1> QED BY <1>3, <1>5, <1>6

LEMMA UpdateInv == ASSUME Inv, NEW p \in Calls, Update(p) PROVE Inv'
<1> DEFINE c == call[p]
           t == c.task
           after == Updated(task[t], c.op)
<1> USE DEF Inv
<1>1. /\ c # Idle
      /\ task' = [task EXCEPT ![t] = after]
      /\ jobs' = jobs \cup Triggered(t, task[t], after)
      /\ approved' = IF c.op = "approved" THEN approved \cup {t} ELSE approved
      /\ call' = [q \in Calls |->
                    IF q = p THEN Idle
                    ELSE IF call[q] # Idle /\ call[q].task = t
                         THEN [call[q] EXCEPT !.stale = TRUE] ELSE call[q]]
      /\ losses' = losses
  BY DEF Update
<1>2. /\ t \in Ids /\ t \in Created /\ task[t] \in TaskDocs
      /\ c.op \in {"complete"} \cup Decisions
  BY <1>1, CallInFlight DEF Checked, InFlight, Created, TypeOK
<1>3. /\ after \in TaskDocs /\ after # None /\ after.timed = task[t].timed
      /\ after.status # "pending"
      /\ after.unlockUntil = (task[t].unlockUntil \/ (c.op = "approved" /\ task[t].timed))
  BY <1>2, UpdatedDoc, DocsAreNotNone DEF Decisions, TaskDocs
<1> HIDE DEF after
<1>4. Triggered(t, task[t], after) \subseteq Jobs
      /\ \A j \in Triggered(t, task[t], after) : j.task = t
  BY <1>2, TriggeredJobs
<1>5. /\ task'[t] = after
      /\ Created' = Created
      /\ \A u \in Ids : u # t => task'[u] = task[u]
  BY <1>1, <1>2, <1>3 DEF Created, TypeOK
<1>6. \A q \in Calls : call'[q] # Idle =>
          /\ q # p /\ call[q] # Idle /\ call'[q].op = call[q].op /\ call'[q].task = call[q].task
          /\ IF call[q].task = t THEN call'[q] = [call[q] EXCEPT !.stale = TRUE]
                                 ELSE call'[q] = call[q]
  BY <1>1, CallInFlight DEF Idle
<1>7. TypeOK'
  <2>1. task' \in [Ids -> TaskDocs \cup {None}] /\ losses' \in 0..MaxLosses
    BY <1>1, <1>2, <1>3 DEF TypeOK
  <2>2. jobs' \subseteq Jobs /\ approved' \subseteq Ids
    BY <1>1, <1>2, <1>4 DEF TypeOK
  <2>3. \A q \in Calls : [call[q] EXCEPT !.stale = TRUE] \in CallStates \/ call[q] = Idle
    BY CallInFlight DEF CallStates
  <2>4. call' \in [Calls -> CallStates]
    BY <1>1, <2>3 DEF TypeOK, CallStates
  <2> QED BY <2>1, <2>2, <2>4 DEF TypeOK
<1>8. Checked'
  <2> SUFFICES ASSUME NEW q \in Calls, call'[q] # Idle
               PROVE  /\ call'[q].task \in Created'
                      /\ call'[q].op \in Decisions => task'[call'[q].task].status # "pending"
                      /\ (~call'[q].stale /\ call'[q].op = "complete") =>
                            task'[call'[q].task].status = "pending"
                      /\ (~call'[q].stale /\ call'[q].op \in Decisions) =>
                            task'[call'[q].task].status = "pending_approval"
    BY DEF Checked, InFlight
  <2>1. /\ call[q] # Idle /\ call[q].task \in Ids /\ call[q].stale \in BOOLEAN
        /\ call'[q].task = call[q].task /\ call'[q].op = call[q].op
    BY <1>6, CallInFlight
  <2>2. CASE call[q].task = t
    <3>1. call'[q].stale
      BY <2>1, <2>2, <1>6, CallInFlight
    <3> QED BY <2>1, <2>2, <3>1, <1>2, <1>3, <1>5
  <2>3. CASE call[q].task # t
    <3>1. call'[q] = call[q]
      BY <2>3, <1>6
    <3>2. task'[call[q].task] = task[call[q].task]
      BY <2>1, <2>3, <1>5
    <3> QED BY <2>1, <3>1, <3>2, <1>5 DEF Checked, InFlight
  <2> QED BY <2>2, <2>3
<1>9. Known'
  BY <1>1, <1>2, <1>4, <1>5 DEF Known
<1>10. UnlockTracesApproval'
  <2> SUFFICES ASSUME NEW u \in Created'
               PROVE  task'[u].unlockUntil <=> (task'[u].timed /\ u \in approved')
    BY DEF UnlockTracesApproval
  <2>1. u \in Created /\ u \in Ids /\ task[u] \in TaskDocs
    BY <1>5 DEF Created, TypeOK
  <2>2. CASE u = t
    BY <2>1, <2>2, <1>1, <1>3, <1>5 DEF UnlockTracesApproval
  <2>3. CASE u # t
    BY <2>1, <2>3, <1>1, <1>5 DEF UnlockTracesApproval
  <2> QED BY <2>2, <2>3
<1> QED BY <1>7, <1>8, <1>9, <1>10
-----------------------------------------------------------------------------
(* The triggers, and what can be lost.                                     *)

\* Job j ends; it may have written what no callable looks at.
LEMMA JobInv ==
    ASSUME Inv, NEW j \in jobs, NEW doc \in TaskDocs,
           doc.status = task[j.task].status, doc.timed = task[j.task].timed,
           doc.unlockUntil = task[j.task].unlockUntil,
           jobs' = jobs \ {j}, task' = [task EXCEPT ![j.task] = doc],
           UNCHANGED <<call, approved>>, losses' \in 0..MaxLosses
    PROVE  Inv'
<1> USE DEF Inv
<1>1. j.task \in Created /\ j.task \in Ids
  BY DEF Known, Created
<1>2. doc # None
  BY DocsAreNotNone
<1>3. TypeOK'
  BY DEF TypeOK
<1>4. /\ Created' = Created
      /\ \A u \in Created : /\ task'[u].status = task[u].status
                            /\ task'[u].timed = task[u].timed
                            /\ task'[u].unlockUntil = task[u].unlockUntil
  BY <1>1, <1>2 DEF Created, TypeOK
<1>5. Checked'
  BY <1>4 DEF Checked, InFlight
<1>6. Known' /\ UnlockTracesApproval'
  BY <1>4 DEF Known, UnlockTracesApproval
<1> QED BY <1>3, <1>5, <1>6

LEMMA TriggersInv ==
    ASSUME Inv, NEW j \in jobs, FinishAnalysis(j) \/ Notify(j) \/ LoseJob(j)
    PROVE  Inv'
<1> USE DEF Inv
<1>1. j.task \in Created /\ j.task \in Ids /\ task[j.task] \in TaskDocs
  BY DEF Known, Created, TypeOK
<1>2. CASE FinishAnalysis(j)
  <2> DEFINE doc == [task[j.task] EXCEPT !.analysed = TRUE]
  <2>1. /\ doc \in TaskDocs /\ doc.status = task[j.task].status
        /\ doc.timed = task[j.task].timed /\ doc.unlockUntil = task[j.task].unlockUntil
    BY <1>1 DEF TaskDocs
  <2>2. task' = [task EXCEPT ![j.task] = doc]
    BY <1>2 DEF FinishAnalysis
  <2> QED BY <1>2, <2>1, <2>2, JobInv DEF FinishAnalysis, TypeOK
<1>3. CASE Notify(j)
  <2> DEFINE doc == [task[j.task] EXCEPT !.told =
                       @ \cup {IF j.kind = "tell parent" THEN "parent" ELSE "child"}]
  <2>1. /\ doc \in TaskDocs /\ doc.status = task[j.task].status
        /\ doc.timed = task[j.task].timed /\ doc.unlockUntil = task[j.task].unlockUntil
    BY <1>1 DEF TaskDocs
  <2>2. task' = [task EXCEPT ![j.task] = doc]
    BY <1>3 DEF Notify
  <2> QED BY <1>3, <2>1, <2>2, JobInv DEF Notify, TypeOK
<1>4. CASE LoseJob(j)
  <2>1. losses' \in 0..MaxLosses
    BY <1>4, TasksAssumption DEF LoseJob, Lose, TypeOK
  <2>2. task' = [task EXCEPT ![j.task] = task[j.task]]
    BY <1>1, <1>4 DEF LoseJob, TypeOK
  <2> QED BY <1>1, <1>4, <2>1, <2>2, JobInv DEF LoseJob
<1> QED BY <1>2, <1>3, <1>4

LEMMA AbortInv == ASSUME Inv, NEW p \in Calls, AbortCall(p) PROVE Inv'
<1> USE DEF Inv
<1>1. /\ call' = [call EXCEPT ![p] = Idle] /\ losses' \in 0..MaxLosses
      /\ UNCHANGED <<task, jobs, approved>>
  BY TasksAssumption DEF AbortCall, Lose, TypeOK
<1>2. TypeOK'
  BY <1>1 DEF TypeOK, CallStates
<1>3. Checked'
  BY <1>1 DEF Checked, InFlight, TypeOK, Created
<1>4. Known' /\ UnlockTracesApproval'
  BY <1>1 DEF Known, UnlockTracesApproval, Created
<1> QED BY <1>2, <1>3, <1>4

-----------------------------------------------------------------------------
LEMMA NextInv == Inv /\ [Next]_vars => Inv'
<1> SUFFICES ASSUME Inv, [Next]_vars PROVE Inv'
  OBVIOUS
<1>1. ASSUME NEW t \in Ids, NEW timed \in BOOLEAN, CreateTask(t, timed) PROVE Inv'
  BY <1>1, CreateInv
<1>2. ASSUME NEW p \in Calls, NEW t \in Ids, CheckComplete(p, t) PROVE Inv'
  BY <1>2, BeginInv DEF CheckComplete, Decisions
<1>3. ASSUME NEW p \in Calls, NEW t \in Ids, NEW d \in Decisions, CheckDecision(p, t, d)
      PROVE  Inv'
  BY <1>3, BeginInv DEF CheckDecision, Decisions
<1>4. ASSUME NEW p \in Calls, Update(p) \/ AbortCall(p) PROVE Inv'
  BY <1>4, UpdateInv, AbortInv
<1>5. ASSUME NEW j \in jobs, FinishAnalysis(j) \/ Notify(j) \/ LoseJob(j) PROVE Inv'
  BY <1>5, TriggersInv
<1>6. CASE UNCHANGED vars
  BY <1>6 DEF vars, Inv, TypeOK, Checked, InFlight, Known, UnlockTracesApproval, Created
<1> QED BY <1>1, <1>2, <1>3, <1>4, <1>5, <1>6 DEF Next

LEMMA Invariance == Spec => []Inv
BY InitInv, NextInv, PTL DEF Spec

\* The tasks, the calls and the triggers keep their types.
THEOREM TypeCorrect == Spec => []TypeOK
<1>1. Inv => TypeOK
  BY DEF Inv
<1> QED BY Invariance, <1>1, PTL

\* unlockUntil is set exactly on the timed tasks that were approved once.
THEOREM UnlockIsApproval == Spec => []UnlockTracesApproval
<1>1. Inv => UnlockTracesApproval
  BY DEF Inv
<1> QED BY Invariance, <1>1, PTL

-----------------------------------------------------------------------------
(* Nobody is forgotten.                                                    *)

\* The update starts what the new status owes; what is known of the photo and who
\* was told stay as they were.
LEMMA UpdateOwes ==
    ASSUME NEW t \in Ids, NEW d \in TaskDocs, NEW op \in {"complete"} \cup Decisions,
           NEW after, after = Updated(d, op)
    PROVE  /\ after.analysed = d.analysed /\ after.told = d.told
           /\ (op = "complete" /\ d.status = "pending") =>
                 \A k \in {"analyse", "tell parent"} :
                    [kind |-> k, task |-> t] \in Triggered(t, d, after)
           /\ (op \in Decisions /\ d.status # op) =>
                 [kind |-> "tell child", task |-> t] \in Triggered(t, d, after)
<1>1. after.analysed = d.analysed /\ after.told = d.told
  BY DEF Updated, TaskDocs
<1>2. ASSUME op = "complete", d.status = "pending", NEW k \in {"analyse", "tell parent"}
      PROVE  [kind |-> k, task |-> t] \in Triggered(t, d, after)
  <2>1. after.status = "pending_approval"
    BY <1>2, UpdatedDoc
  <2>2. "tell parent" \in Told(d, after) /\ Analysable(d, after)
    BY <1>2, <2>1 DEF Told, Analysable
  <2>3. k \in Told(d, after) \cup (IF Analysable(d, after) THEN {"analyse"} ELSE {})
    BY <1>2, <2>2
  <2> QED BY <2>3, Zenon DEF Triggered
<1>3. ASSUME op \in Decisions, d.status # op
      PROVE  [kind |-> "tell child", task |-> t] \in Triggered(t, d, after)
  <2>1. after.status = op
    BY <1>3, UpdatedDoc
  <2>2. "tell child" \in Told(d, after)
    BY <1>3, <2>1 DEF Told, Decisions
  <2>3. "tell child" \in Told(d, after)
                         \cup (IF Analysable(d, after) THEN {"analyse"} ELSE {})
    BY <2>2
  <2> QED BY <2>3, Zenon DEF Triggered
<1> QED BY <1>1, <1>2, <1>3

\* What is in hand stays so when the document only gains and no job is dropped.
LEMMA StaysInHand ==
    ASSUME NEW t, task'[t].analysed \/ ~task[t].analysed, task[t].told \subseteq task'[t].told,
           jobs \subseteq jobs'
    PROVE  /\ SubmissionInHand(t) => SubmissionInHand(t)'
           /\ DecisionInHand(t) => DecisionInHand(t)'
BY DEF SubmissionInHand, DecisionInHand, Owed

\* When a job ends, everything else that is owed stays owed.
LEMMA OthersStayOwed ==
    ASSUME NEW j, NEW u, NEW k, Owed(u, k), jobs' = jobs \ {j}, ~(j.kind = k /\ j.task = u)
    PROVE  Owed(u, k)'
<1> DEFINE job == [kind |-> k, task |-> u]
<1>1. job.kind = k /\ job.task = u
  OBVIOUS
<1> HIDE DEF job
<1>2. job # j
  BY <1>1
<1>3. job \in jobs'
  BY <1>2 DEF Owed, job
<1> QED BY <1>3 DEF Owed, job

LEMMA UpdateForgets ==
    ASSUME Inv, NobodyForgotten, NEW p \in Calls, Update(p) PROVE NobodyForgotten'
<1> DEFINE c == call[p]
           t == c.task
           after == Updated(task[t], c.op)
<1>1. /\ c # Idle
      /\ task' = [task EXCEPT ![t] = after]
      /\ jobs' = jobs \cup Triggered(t, task[t], after)
      /\ losses' = losses
  BY DEF Update
<1>2. /\ t \in Ids /\ t \in Created /\ task[t] \in TaskDocs
      /\ c.op \in {"complete"} \cup Decisions
      /\ c.op \in Decisions => task[t].status # "pending"
      /\ task \in [Ids -> TaskDocs \cup {None}]
  BY <1>1, CallInFlight DEF Inv, Checked, InFlight, Created, TypeOK
<1>3. /\ after \in TaskDocs /\ after # None
      /\ c.op = "complete" => after.status = "pending_approval"
      /\ c.op \in Decisions => after.status = c.op
  BY <1>2, UpdatedDoc, DocsAreNotNone
<1>4. /\ after.analysed = task[t].analysed /\ after.told = task[t].told
      /\ (c.op = "complete" /\ task[t].status = "pending") =>
            \A k \in {"analyse", "tell parent"} :
               [kind |-> k, task |-> t] \in Triggered(t, task[t], after)
      /\ (c.op \in Decisions /\ task[t].status # c.op) =>
            [kind |-> "tell child", task |-> t] \in Triggered(t, task[t], after)
  BY <1>2, UpdateOwes
<1> HIDE DEF after
<1>5. /\ task'[t] = after /\ Created' = Created
      /\ \A u \in Created : u # t => task'[u] = task[u]
  BY <1>1, <1>2, <1>3 DEF Created
<1> SUFFICES ASSUME losses = 0, NEW u \in Created
             PROVE  /\ task'[u].status # "pending" => SubmissionInHand(u)'
                    /\ task'[u].status \in Decisions => DecisionInHand(u)'
  BY <1>1, <1>5 DEF NobodyForgotten
<1>6. /\ SubmissionInHand(u) => SubmissionInHand(u)'
      /\ DecisionInHand(u) => DecisionInHand(u)'
  <2>1. task'[u].analysed = task[u].analysed /\ task'[u].told = task[u].told
    BY <1>4, <1>5
  <2> QED BY <1>1, <2>1, StaysInHand
<1>7. /\ task[u].status # "pending" => SubmissionInHand(u)
      /\ task[u].status \in Decisions => DecisionInHand(u)
  BY DEF NobodyForgotten
<1>8. CASE u # t
  BY <1>5, <1>6, <1>7, <1>8
<1>9. CASE u = t /\ c.op = "complete"
  <2>1. task'[u].status = "pending_approval"
    BY <1>3, <1>5, <1>9
  <2>2. task[u].status = "pending" => SubmissionInHand(u)'
    BY <1>1, <1>4, <1>9 DEF SubmissionInHand, Owed
  <2> QED BY <1>6, <1>7, <2>1, <2>2 DEF Decisions
<1>10. CASE u = t /\ c.op \in Decisions
  <2>1. task'[u].status = c.op
    BY <1>3, <1>5, <1>10
  <2>2. task[u].status # c.op => DecisionInHand(u)'
    BY <1>1, <1>4, <1>10 DEF DecisionInHand, Owed
  <2> QED BY <1>2, <1>6, <1>7, <1>10, <2>1, <2>2
<1> QED BY <1>2, <1>8, <1>9, <1>10

LEMMA TriggersForget ==
    ASSUME Inv, NobodyForgotten, NEW j \in jobs, FinishAnalysis(j) \/ Notify(j) \/ LoseJob(j)
    PROVE  NobodyForgotten'
<1>1. /\ j.task \in Created /\ j.task \in Ids /\ task[j.task] \in TaskDocs
      /\ j \in Jobs /\ losses \in Nat /\ task \in [Ids -> TaskDocs \cup {None}]
  BY TasksAssumption DEF Inv, Known, Created, TypeOK
<1>2. CASE LoseJob(j)
  BY <1>1, <1>2 DEF LoseJob, Lose, NobodyForgotten
<1>3. CASE FinishAnalysis(j)
  <2> DEFINE doc == [task[j.task] EXCEPT !.analysed = TRUE]
  <2>1. /\ doc.analysed /\ doc.status = task[j.task].status
        /\ doc.told = task[j.task].told /\ doc \in TaskDocs /\ doc # None
    BY <1>1, DocsAreNotNone DEF TaskDocs
  <2>2. task' = [task EXCEPT ![j.task] = doc]
    BY <1>3 DEF FinishAnalysis
  <2> HIDE DEF doc
  <2>3. /\ task'[j.task] = doc /\ Created' = Created
        /\ \A u \in Created : u # j.task => task'[u] = task[u]
    BY <1>1, <2>1, <2>2 DEF Created
  <2>4. j.kind = "analyse" /\ jobs' = jobs \ {j} /\ losses' = losses
    BY <1>3 DEF FinishAnalysis
  <2> SUFFICES ASSUME losses = 0, NEW u \in Created
               PROVE  /\ task'[u].status # "pending" => SubmissionInHand(u)'
                      /\ task'[u].status \in Decisions => DecisionInHand(u)'
    BY <2>3, <2>4 DEF NobodyForgotten
  <2>5. /\ task'[u].status = task[u].status /\ task'[u].told = task[u].told
        /\ task[u].analysed => task'[u].analysed
        /\ u = j.task => task'[u].analysed
    BY <2>1, <2>3
  <2>6. /\ Owed(u, "analyse") => Owed(u, "analyse")' \/ u = j.task
        /\ Owed(u, "tell parent") => Owed(u, "tell parent")'
        /\ Owed(u, "tell child") => Owed(u, "tell child")'
    BY <2>4, OthersStayOwed
  <2> QED BY <2>5, <2>6 DEF NobodyForgotten, SubmissionInHand, DecisionInHand
<1>4. CASE Notify(j)
  <2> DEFINE who == IF j.kind = "tell parent" THEN "parent" ELSE "child"
             doc == [task[j.task] EXCEPT !.told = @ \cup {who}]
  <2>1. /\ doc.analysed = task[j.task].analysed /\ doc.status = task[j.task].status
        /\ doc.told = task[j.task].told \cup {who} /\ doc \in TaskDocs /\ doc # None
    BY <1>1, DocsAreNotNone DEF TaskDocs
  <2>2. task' = [task EXCEPT ![j.task] = doc]
    BY <1>4 DEF Notify
  <2> HIDE DEF doc
  <2>3. /\ task'[j.task] = doc /\ Created' = Created
        /\ \A u \in Created : u # j.task => task'[u] = task[u]
    BY <1>1, <2>1, <2>2 DEF Created
  <2>4. j.kind \in {"tell parent", "tell child"} /\ jobs' = jobs \ {j} /\ losses' = losses
    BY <1>1, <1>4 DEF Notify, Jobs
  <2> SUFFICES ASSUME losses = 0, NEW u \in Created
               PROVE  /\ task'[u].status # "pending" => SubmissionInHand(u)'
                      /\ task'[u].status \in Decisions => DecisionInHand(u)'
    BY <2>3, <2>4 DEF NobodyForgotten
  <2>5. /\ task'[u].status = task[u].status /\ task[u].told \subseteq task'[u].told
        /\ task'[u].analysed = task[u].analysed
        /\ (u = j.task /\ j.kind = "tell parent") => "parent" \in task'[u].told
        /\ (u = j.task /\ j.kind = "tell child") => "child" \in task'[u].told
    BY <2>1, <2>3
  <2>6. /\ Owed(u, "analyse") => Owed(u, "analyse")'
        /\ Owed(u, "tell parent") =>
              Owed(u, "tell parent")' \/ (u = j.task /\ j.kind = "tell parent")
        /\ Owed(u, "tell child") =>
              Owed(u, "tell child")' \/ (u = j.task /\ j.kind = "tell child")
    BY <2>4, OthersStayOwed
  <2> QED BY <2>5, <2>6 DEF NobodyForgotten, SubmissionInHand, DecisionInHand
<1> QED BY <1>2, <1>3, <1>4

LEMMA ForgetsStep == Inv /\ NobodyForgotten /\ [Next]_vars => NobodyForgotten'
<1> SUFFICES ASSUME Inv, NobodyForgotten, [Next]_vars PROVE NobodyForgotten'
  OBVIOUS
<1>1. ASSUME NEW t \in Ids, NEW timed \in BOOLEAN, CreateTask(t, timed) PROVE NobodyForgotten'
  <2> DEFINE new == [status |-> "pending", proof |-> FALSE, timed |-> timed,
                     unlockUntil |-> FALSE, analysed |-> FALSE, told |-> {}]
  <2>1. /\ task' = [task EXCEPT ![t] = new] /\ UNCHANGED <<jobs, losses>>
        /\ task \in [Ids -> TaskDocs \cup {None}]
    BY <1>1 DEF CreateTask, Inv, TypeOK
  <2>2. /\ task'[t].status = "pending"
        /\ \A u \in Created' : u = t \/ (u \in Created /\ task'[u] = task[u])
    BY <2>1 DEF Created
  <2>3. \A u : /\ task'[u] = task[u] /\ SubmissionInHand(u) => SubmissionInHand(u)'
               /\ task'[u] = task[u] /\ DecisionInHand(u) => DecisionInHand(u)'
    BY <2>1 DEF SubmissionInHand, DecisionInHand, Owed
  <2> QED BY <2>1, <2>2, <2>3 DEF NobodyForgotten, Decisions
<1>2. ASSUME UNCHANGED <<task, jobs, losses>> PROVE NobodyForgotten'
  BY <1>2 DEF NobodyForgotten, SubmissionInHand, DecisionInHand, Owed, Created
<1>3. ASSUME NEW p \in Calls, NEW t \in Ids,
             CheckComplete(p, t) \/ \E d \in Decisions : CheckDecision(p, t, d)
      PROVE  NobodyForgotten'
  BY <1>2, <1>3 DEF CheckComplete, CheckDecision, Begin
<1>4. ASSUME NEW p \in Calls, AbortCall(p) PROVE NobodyForgotten'
  <2>1. losses \in Nat
    BY TasksAssumption DEF Inv, TypeOK
  <2> QED BY <1>4, <2>1 DEF AbortCall, Lose, NobodyForgotten
<1>5. CASE UNCHANGED vars
  BY <1>2, <1>5 DEF vars
<1> QED BY <1>1, <1>3, <1>4, <1>5, UpdateForgets, TriggersForget DEF Next

\* While nothing was lost, the analysis and the pushes a status calls for are done
\* or under way, however many calls overlap.
THEOREM NobodyIsForgotten == Spec => []NobodyForgotten
<1>1. Init => NobodyForgotten
  BY DEF Init, NobodyForgotten, Created
<1> QED BY <1>1, Invariance, ForgetsStep, PTL DEF Spec

-----------------------------------------------------------------------------
(* What replaces a decision.                                               *)

LEMMA DecisionStep ==
    ASSUME Inv, Next, NEW t \in Created, task[t].status \in Decisions,
           task'[t].status # task[t].status
    PROVE  \E p \in Calls : /\ call[p] # Idle /\ call[p].task = t /\ call[p].stale
                            /\ call'[p] = Idle
<1> USE DEF Inv
<1>1. t \in Ids /\ task[t] \in TaskDocs /\ task \in [Ids -> TaskDocs \cup {None}]
  BY DEF Created, TypeOK
<1>2. ~ \E u \in Ids, timed \in BOOLEAN : CreateTask(u, timed)
  BY <1>1 DEF CreateTask
<1>3. ASSUME NEW j \in jobs, FinishAnalysis(j) \/ Notify(j) \/ LoseJob(j) PROVE FALSE
  <2>1. j.task \in Ids /\ task[j.task] \in TaskDocs
    BY DEF Known, Created, TypeOK
  <2>2. \/ task' = [task EXCEPT ![j.task] = task[j.task]]
        \/ task' = [task EXCEPT ![j.task] = [task[j.task] EXCEPT !.analysed = TRUE]]
        \/ \E told : task' = [task EXCEPT ![j.task] = [task[j.task] EXCEPT !.told = told]]
    BY <1>1, <1>3 DEF FinishAnalysis, Notify, LoseJob
  <2>3. task'[j.task].status = task[j.task].status
    <3>1. /\ [task[j.task] EXCEPT !.analysed = TRUE].status = task[j.task].status
          /\ \A told : [task[j.task] EXCEPT !.told = told].status = task[j.task].status
      BY <2>1 DEF TaskDocs
    <3>2. CASE task' = [task EXCEPT ![j.task] = task[j.task]]
      BY <1>1, <2>1, <3>2
    <3>3. CASE task' = [task EXCEPT ![j.task] = [task[j.task] EXCEPT !.analysed = TRUE]]
      BY <1>1, <2>1, <3>1, <3>3
    <3>4. ASSUME NEW told, task' = [task EXCEPT ![j.task] = [task[j.task] EXCEPT !.told = told]]
          PROVE  task'[j.task].status = task[j.task].status
      BY <1>1, <2>1, <3>1, <3>4
    <3> QED BY <2>2, <3>2, <3>3, <3>4
  <2>4. t # j.task => task'[t] = task[t]
    BY <1>1, <2>2
  <2> QED BY <2>3, <2>4
<1>4. PICK p \in Calls : Update(p)
  BY <1>2, <1>3 DEF Next, CheckComplete, CheckDecision, Begin, AbortCall
<1>5. call[p] # Idle /\ call[p].task = t /\ call'[p] = Idle
  BY <1>1, <1>4 DEF Update
<1>6. call[p].stale
  BY <1>5, CallInFlight DEF Checked, InFlight, Decisions
<1> QED BY <1>5, <1>6

\* A decision is replaced only by a call that had read the task before it.
THEOREM DecisionStands == Spec => DecisionReplacedByStaleCallOnly
<1>1. Inv /\ [Next]_vars =>
        [\A t \in Created :
           (task[t].status \in Decisions /\ task'[t].status # task[t].status) =>
              \E p \in Calls : /\ call[p] # Idle /\ call[p].task = t /\ call[p].stale
                               /\ call'[p] = Idle]_vars
  BY DecisionStep
<1> QED BY Invariance, <1>1, PTL DEF Spec, DecisionReplacedByStaleCallOnly
-----------------------------------------------------------------------------
(* The refinement of TaskLife.                                             *)

LEMMA LifeOfCreated ==
    ASSUME Inv, NEW t \in Created
    PROVE  /\ LifeOf(t) = [status |-> task[t].status, timed |-> task[t].timed,
                           wasApproved |-> t \in approved]
           /\ t \in Ids /\ LifeOf(t) \in LifeDocs /\ LifeOf(t) # None
<1>1. t \in Ids /\ task[t] # None /\ task[t] \in TaskDocs
  BY DEF Inv, TypeOK, Created
<1>2. LifeOf(t) = [status |-> task[t].status, timed |-> task[t].timed,
                   wasApproved |-> t \in approved]
  BY <1>1 DEF LifeOf
<1>3. LifeOf(t) \in LifeDocs
  BY <1>1, <1>2 DEF LifeDocs, TaskDocs
<1> QED BY <1>1, <1>2, <1>3, TasksAssumption

LEMMA CreateLife ==
    ASSUME Inv, NEW t \in Ids, NEW timed \in BOOLEAN, CreateTask(t, timed)
    PROVE  Life!Create(t, timed)
<1> DEFINE new == [status |-> "pending", proof |-> FALSE, timed |-> timed,
                   unlockUntil |-> FALSE, analysed |-> FALSE, told |-> {}]
<1>1. new # None /\ new.status = "pending" /\ new.timed = timed
  BY DocsAreNotNone DEF TaskDocs, Statuses
<1>2. /\ task[t] = None /\ t \notin approved /\ approved' = approved
      /\ \A u \in Ids : u < t => u \in Created
      /\ task' = [task EXCEPT ![t] = new] /\ task \in [Ids -> TaskDocs \cup {None}]
  BY DEF CreateTask, Created, Inv, Known, TypeOK
<1> HIDE DEF new
<1>3. LifeMap[t] = None /\ \A u \in Ids : u < t => LifeMap[u] # None
  BY <1>2, LifeOfCreated DEF LifeMap, LifeOf
<1>4. LifeOf(t)' = [status |-> "pending", timed |-> timed, wasApproved |-> FALSE]
  <2>1. task'[t] = new /\ (t \in approved') = FALSE
    BY <1>2
  <2>2. LifeOf(t)' = [status |-> new.status, timed |-> new.timed, wasApproved |-> t \in approved']
    BY <1>1, <2>1 DEF LifeOf
  <2> QED BY <1>1, <2>1, <2>2, Zenon
<1>5. \A u \in Ids : u # t => LifeOf(u)' = LifeOf(u)
  BY <1>2 DEF LifeOf
<1>6. LifeMap' = [LifeMap EXCEPT ![t] = [status |-> "pending", timed |-> timed,
                                         wasApproved |-> FALSE]]
  BY <1>4, <1>5 DEF LifeMap
<1> QED BY <1>3, <1>6 DEF Life!Create, Life!Ids, Ids

LEMMA UpdateLife ==
    ASSUME Inv, NEW p \in Calls, NEW t, t = call[p].task, Update(p)
    PROVE  t \in Ids /\ (Life!Submit(t) \/ \E d \in Decisions : Life!Decide(t, d))
<1> DEFINE c == call[p]
           after == Updated(task[t], c.op)
<1>1. /\ c # Idle /\ task' = [task EXCEPT ![t] = after]
      /\ approved' = IF c.op = "approved" THEN approved \cup {t} ELSE approved
  BY DEF Update
<1>2. /\ t \in Ids /\ t \in Created /\ task[t] \in TaskDocs /\ task[t] # None
      /\ c.op \in {"complete"} \cup Decisions
      /\ c.op \in Decisions => task[t].status # "pending"
      /\ task \in [Ids -> TaskDocs \cup {None}]
  BY <1>1, CallInFlight DEF Inv, Checked, InFlight, Created, TypeOK
<1>3. /\ after # None /\ after.timed = task[t].timed
      /\ c.op = "complete" => after.status = "pending_approval"
      /\ c.op \in Decisions => after.status = c.op
  BY <1>2, UpdatedDoc, DocsAreNotNone
<1> HIDE DEF after
<1>4. \A u \in Ids : u # t => LifeOf(u)' = LifeOf(u)
  BY <1>1, <1>2 DEF LifeOf
<1>5. /\ LifeOf(t) = [status |-> task[t].status, timed |-> task[t].timed,
                      wasApproved |-> t \in approved]
      /\ LifeOf(t)' = [status |-> after.status, timed |-> task[t].timed,
                       wasApproved |-> t \in approved']
      /\ LifeMap[t] = LifeOf(t) /\ LifeOf(t) # None
  <2>1. task'[t] = after
    BY <1>1, <1>2
  <2> QED BY <1>2, <1>3, <2>1, LifeOfCreated DEF LifeOf, LifeMap
<1>6. CASE c.op = "complete"
  <2>1. LifeOf(t)' = [LifeOf(t) EXCEPT !.status = "pending_approval"]
    BY <1>1, <1>3, <1>5, <1>6 DEF Decisions
  <2>2. LifeMap' = [LifeMap EXCEPT ![t].status = "pending_approval"]
    BY <1>2, <1>4, <1>5, <2>1 DEF LifeMap
  <2> QED BY <1>2, <1>5, <2>2 DEF Life!Submit
<1>7. CASE c.op \in Decisions
  <2>1. (t \in approved') = (LifeOf(t).wasApproved \/ c.op = "approved")
    <3>1. LifeOf(t).wasApproved = (t \in approved)
      BY <1>5
    <3>2. (t \in approved') = (t \in approved \/ c.op = "approved")
      BY <1>1
    <3> QED BY <3>1, <3>2, Zenon
  <2>2. LifeOf(t)' = [status |-> c.op, timed |-> LifeOf(t).timed,
                      wasApproved |-> LifeOf(t).wasApproved \/ c.op = "approved"]
    <3>1. LifeOf(t).timed = task[t].timed
      BY <1>5
    <3> QED BY <1>3, <1>5, <1>7, <2>1, <3>1, Zenon
  <2> DEFINE new == [status |-> c.op, timed |-> LifeMap[t].timed,
                     wasApproved |-> LifeMap[t].wasApproved \/ c.op = "approved"]
  <2>4. LifeOf(t)' = new
    BY <1>5, <2>2, Zenon
  <2> HIDE DEF new
  <2>5. LifeMap' = [LifeMap EXCEPT ![t] = new]
    BY <1>2, <1>4, <2>4 DEF LifeMap
  <2>3. LifeMap[t].status \in Life!Submitted
    BY <1>2, <1>5, <1>7 DEF Life!Submitted, Life!Decisions, TaskDocs, Statuses, Decisions
  <2> QED BY <1>2, <1>5, <1>7, <2>3, <2>5 DEF Life!Decide, new
<1> QED BY <1>2, <1>6, <1>7

\* A trigger leaves alone what TaskLife sees.
LEMMA JobLife ==
    ASSUME Inv, NEW j \in jobs, FinishAnalysis(j) \/ Notify(j) \/ LoseJob(j)
    PROVE  LifeMap' = LifeMap
<1>1. /\ j.task \in Ids /\ task[j.task] \in TaskDocs /\ task[j.task] # None
      /\ task \in [Ids -> TaskDocs \cup {None}]
  BY DEF Inv, Known, Created, TypeOK
<1>2. PICK doc : /\ task' = [task EXCEPT ![j.task] = doc] /\ doc # None
                 /\ doc.status = task[j.task].status /\ doc.timed = task[j.task].timed
  <2>1. CASE FinishAnalysis(j)
    <3> DEFINE doc == [task[j.task] EXCEPT !.analysed = TRUE]
    <3>1. doc \in TaskDocs /\ doc.status = task[j.task].status /\ doc.timed = task[j.task].timed
      BY <1>1 DEF TaskDocs
    <3> QED BY <2>1, <3>1, DocsAreNotNone DEF FinishAnalysis
  <2>2. CASE Notify(j)
    <3> DEFINE doc == [task[j.task] EXCEPT !.told =
                         @ \cup {IF j.kind = "tell parent" THEN "parent" ELSE "child"}]
    <3>1. doc \in TaskDocs /\ doc.status = task[j.task].status /\ doc.timed = task[j.task].timed
      BY <1>1 DEF TaskDocs
    <3> QED BY <2>2, <3>1, DocsAreNotNone DEF Notify
  <2>3. CASE LoseJob(j)
    BY <1>1, <2>3 DEF LoseJob
  <2> QED BY <2>1, <2>2, <2>3
<1>3. approved' = approved
  BY DEF FinishAnalysis, Notify, LoseJob
<1>4. \A u \in Ids : LifeOf(u)' = LifeOf(u)
  BY <1>1, <1>2, <1>3 DEF LifeOf
<1> QED BY <1>4 DEF LifeMap

LEMMA LifeInit == Init => Life!Init
BY DEF Init, Life!Init, LifeMap, LifeOf, Life!Ids, Ids

LEMMA LifeStep == Inv /\ [Next]_vars => [Life!Next]_LifeMap
<1> SUFFICES ASSUME Inv, [Next]_vars PROVE Life!Next \/ LifeMap' = LifeMap
  OBVIOUS
<1>1. ASSUME NEW t \in Ids, NEW timed \in BOOLEAN, CreateTask(t, timed) PROVE Life!Next
  BY <1>1, CreateLife DEF Life!Next, Life!Ids, Ids
<1>2. ASSUME NEW p \in Calls, Update(p) PROVE Life!Next
  BY <1>2, UpdateLife DEF Life!Next, Life!Ids, Ids, Life!Decisions, Decisions
<1>3. ASSUME NEW j \in jobs, FinishAnalysis(j) \/ Notify(j) \/ LoseJob(j)
      PROVE  LifeMap' = LifeMap
  BY <1>3, JobLife
<1>4. CASE UNCHANGED <<task, approved>>
  BY <1>4 DEF LifeMap, LifeOf
<1> QED BY <1>1, <1>2, <1>3, <1>4
        DEF Next, vars, CheckComplete, CheckDecision, Begin, AbortCall

\* Whatever the callables and triggers do, the tasks keep TaskLife's promise.
THEOREM Implements == Spec => ImplementsTaskLife
BY Invariance, LifeInit, LifeStep, PTL DEF Spec, ImplementsTaskLife, Life!Spec

-----------------------------------------------------------------------------
(* The task lock of the phone, for any number of tasks and of broadcasts.  *)

\* Tasks are created one after the other, so Newest names the last of them.
OldestFirst == \E k \in 0..PhoneTasks : Existing = 1..k

ApprovalKept == \A t \in Existing : life[t].status = "approved" => life[t].wasApproved

ApprovedTimed == \E t \in Existing : life[t].timed /\ life[t].wasApproved

\* A broadcast that opens the window was sent when the approval had happened.
AirApproved == \A b \in air : OpensWindow(b) => ApprovedTimed

PhoneInv == /\ PhoneTypeOK /\ OldestFirst
            /\ ApprovalKept /\ AirApproved /\ WindowNeedsApproval

LEMMA NewestLast ==
    ASSUME PhoneTypeOK, OldestFirst, Existing # {}
    PROVE  Newest \in Existing
<1>1. PICK k \in 0..PhoneTasks : Existing = 1..k
  BY DEF OldestFirst
<1>2. k > 0
  BY <1>1
<1>3. Cardinality(1..k) = k
  BY <1>2, FS_Interval
<1> QED BY <1>1, <1>2, <1>3 DEF Newest

\* What a listener broadcasts opens the window only after an approval.
LEMMA SnapshotApproved ==
    ASSUME PhoneInv
    PROVE  Snapshot \in Broadcasts /\ (OpensWindow(Snapshot) => ApprovedTimed)
<1> USE DEF PhoneInv
<1>1. CASE Existing = {}
  BY <1>1 DEF Snapshot, Broadcasts, SeenStatuses, OpensWindow
<1>2. CASE Existing # {}
  <2>1. /\ Newest \in Existing /\ life[Newest] \in Watched!Lives
        /\ Snapshot = [status |-> life[Newest].status, timed |-> life[Newest].timed]
    BY <1>2, NewestLast DEF Existing, PhoneTypeOK, Snapshot
  <2>2. Snapshot \in Broadcasts
    BY <2>1 DEF Broadcasts, SeenStatuses, Watched!Lives
  <2>3. OpensWindow(Snapshot) => life[Newest].status = "approved" /\ life[Newest].timed
    BY <2>1 DEF OpensWindow
  <2> QED BY <2>1, <2>2, <2>3 DEF ApprovalKept, ApprovedTimed
<1> QED BY <1>1, <1>2

\* A task keeps its duration and the trace of its approval.
LEMMA LifeSteps ==
    ASSUME PhoneInv, Watched!Next
    PROVE  /\ life' \in [Watched!Ids -> Watched!Lives \cup {NoTask}]
           /\ OldestFirst' /\ ApprovalKept'
           /\ ApprovedTimed => ApprovedTimed'
<1> USE TaskPhoneAssumption DEF PhoneInv, PhoneTypeOK, Existing, Watched!Ids
<1>1. ASSUME NEW t \in Watched!Ids, NEW timed \in BOOLEAN, Watched!Create(t, timed)
      PROVE  /\ life' \in [Watched!Ids -> Watched!Lives \cup {NoTask}]
             /\ OldestFirst' /\ ApprovalKept'
             /\ ApprovedTimed => ApprovedTimed'
  <2> DEFINE new == [status |-> "pending", timed |-> timed, wasApproved |-> FALSE]
  <2>1. new \in Watched!Lives /\ new.status = "pending"
    BY DEF Watched!Lives, Watched!Statuses
  <2>2. /\ life[t] = NoTask /\ life' = [life EXCEPT ![t] = new]
        /\ \A u \in Watched!Ids : u < t => life[u] # NoTask
    BY <1>1 DEF Watched!Create
  <2> HIDE DEF new
  <2>3. Existing' = Existing \cup {t} /\ t \notin Existing
    BY <2>1, <2>2
  <2>4. OldestFirst'
    <3>1. PICK k \in 0..PhoneTasks : Existing = 1..k
      BY DEF OldestFirst
    <3>2. t = k + 1
      <4>1. ~(t <= k)
        BY <2>3, <3>1
      <4>2. ~(k + 1 < t)
        <5>1. ASSUME k + 1 < t PROVE FALSE
          <6>1. k + 1 \in Existing
            BY <2>2, <5>1
          <6> QED BY <3>1, <6>1
        <5> QED BY <5>1
      <4> QED BY <3>1, <4>1, <4>2
    <3>3. Existing' = 1..(k + 1) /\ k + 1 \in 0..PhoneTasks
      BY <2>3, <3>1, <3>2
    <3> QED BY <3>3 DEF OldestFirst
  <2>5. \A u \in Existing : life'[u] = life[u]
    BY <2>2, <2>3
  <2>6. life'[t] = new
    BY <2>2
  <2> QED BY <2>1, <2>2, <2>3, <2>4, <2>5, <2>6 DEF ApprovalKept, ApprovedTimed
\* The other steps rewrite the document of a task.
<1>2. ASSUME NEW t \in Watched!Ids, life[t] # NoTask, NEW d \in Watched!Lives,
             life' = [life EXCEPT ![t] = d], d.timed = life[t].timed,
             life[t].wasApproved => d.wasApproved, d.status = "approved" => d.wasApproved
      PROVE  /\ life' \in [Watched!Ids -> Watched!Lives \cup {NoTask}]
             /\ OldestFirst' /\ ApprovalKept'
             /\ ApprovedTimed => ApprovedTimed'
  <2>1. Existing' = Existing /\ t \in Existing
    BY <1>2
  <2>2. \A u \in Existing : life'[u] = IF u = t THEN d ELSE life[u]
    BY <1>2
  <2>3. OldestFirst'
    BY <2>1 DEF OldestFirst
  <2>4. ApprovalKept'
    BY <1>2, <2>1, <2>2 DEF ApprovalKept
  <2>5. ApprovedTimed => ApprovedTimed'
    BY <1>2, <2>1, <2>2 DEF ApprovedTimed
  <2> QED BY <1>2, <2>3, <2>4, <2>5
<1>3. ASSUME NEW t \in Watched!Ids, Watched!Submit(t)
      PROVE  /\ life' \in [Watched!Ids -> Watched!Lives \cup {NoTask}]
             /\ OldestFirst' /\ ApprovalKept'
             /\ ApprovedTimed => ApprovedTimed'
  <2>1. life[t] \in Watched!Lives /\ life[t] # NoTask
    BY <1>3 DEF Watched!Submit
  <2>2. PICK d : d = [life[t] EXCEPT !.status = "pending_approval"]
    OBVIOUS
  <2>3. /\ d \in Watched!Lives /\ d.status = "pending_approval"
        /\ d.timed = life[t].timed /\ d.wasApproved = life[t].wasApproved
    BY <2>1, <2>2 DEF Watched!Lives, Watched!Statuses, Watched!Submitted
  <2>4. life' = [life EXCEPT ![t] = d]
    BY <1>3, <2>2 DEF Watched!Submit
  <2> QED BY <1>2, <2>1, <2>3, <2>4
<1>4. ASSUME NEW t \in Watched!Ids, NEW choice \in Watched!Decisions, Watched!Decide(t, choice)
      PROVE  /\ life' \in [Watched!Ids -> Watched!Lives \cup {NoTask}]
             /\ OldestFirst' /\ ApprovalKept'
             /\ ApprovedTimed => ApprovedTimed'
  <2>1. life[t] \in Watched!Lives /\ life[t] # NoTask
    BY <1>4 DEF Watched!Decide
  <2>2. PICK d : d = [status |-> choice, timed |-> life[t].timed,
                      wasApproved |-> life[t].wasApproved \/ choice = "approved"]
    OBVIOUS
  <2>3. /\ d \in Watched!Lives /\ d.status = choice /\ d.timed = life[t].timed
        /\ life[t].wasApproved => d.wasApproved
        /\ choice = "approved" => d.wasApproved
    BY <2>1, <2>2 DEF Watched!Lives, Watched!Statuses, Watched!Submitted
  <2>4. life' = [life EXCEPT ![t] = d]
    BY <1>4, <2>2 DEF Watched!Decide
  <2> QED BY <1>2, <2>1, <2>3, <2>4
<1> QED BY <1>1, <1>3, <1>4 DEF Watched!Next

LEMMA PhoneStart == PhoneInit => PhoneInv
<1> SUFFICES ASSUME PhoneInit PROVE PhoneInv
  OBVIOUS
<1> USE TaskPhoneAssumption DEF PhoneInit, Watched!Init
<1>1. PhoneTypeOK
  <2>1. life \in [Watched!Ids -> Watched!Lives \cup {NoTask}]
    OBVIOUS
  <2>2. changed \in BOOLEAN /\ window \in BOOLEAN /\ air \subseteq Broadcasts
    BY Zenon
  <2>3. seen \in SeenStatuses /\ missed \in 0..MaxMissed
    BY DEF SeenStatuses
  <2> QED BY <2>1, <2>2, <2>3 DEF PhoneTypeOK
<1>2. Existing = {} /\ Existing = 1..0
  BY DEF Existing, Watched!Ids
<1> QED BY <1>1, <1>2
        DEF PhoneInv, OldestFirst, ApprovalKept, AirApproved, WindowNeedsApproval

\* A step that leaves the tasks alone.
LEMMA TasksStay ==
    ASSUME PhoneInv, PhoneTypeOK', life' = life,
           \A b \in air' : OpensWindow(b) => b \in air \/ b = Snapshot,
           window' => window \/ \E b \in air : OpensWindow(b)
    PROVE  PhoneInv'
<1> USE DEF PhoneInv
<1>1. Existing' = Existing
  BY DEF Existing
<1>2. OldestFirst' /\ ApprovalKept' /\ (ApprovedTimed => ApprovedTimed')
  BY <1>1 DEF OldestFirst, ApprovalKept, ApprovedTimed
<1>3. AirApproved'
  BY <1>2, SnapshotApproved DEF AirApproved, OpensWindow
<1>4. WindowNeedsApproval'
  BY <1>2 DEF WindowNeedsApproval, AirApproved, ApprovedTimed
<1> QED BY <1>2, <1>3, <1>4

LEMMA PhoneStep == PhoneInv /\ [PhoneNext]_phoneVars => PhoneInv'
<1> SUFFICES ASSUME PhoneInv, [PhoneNext]_phoneVars PROVE PhoneInv'
  OBVIOUS
<1> USE TaskPhoneAssumption
<1>0. PhoneTypeOK /\ Snapshot \in Broadcasts
  BY SnapshotApproved DEF PhoneInv
<1>1. CASE TaskChanges
  <2>1. Watched!Next /\ UNCHANGED <<air, seen, window, missed>>
    BY <1>1 DEF TaskChanges
  <2>2. /\ life' \in [Watched!Ids -> Watched!Lives \cup {NoTask}]
        /\ OldestFirst' /\ ApprovalKept'
        /\ ApprovedTimed => ApprovedTimed'
    BY <2>1, LifeSteps
  <2>3. changed' \in BOOLEAN
    BY <1>0, <1>1 DEF TaskChanges, PhoneTypeOK
  <2>4. PhoneTypeOK'
    BY <1>0, <2>1, <2>2, <2>3 DEF PhoneTypeOK
  <2>5. AirApproved'
    BY <2>1, <2>2 DEF PhoneInv, AirApproved, OpensWindow
  <2>6. WindowNeedsApproval'
    BY <2>1, <2>2 DEF PhoneInv, WindowNeedsApproval, ApprovedTimed
  <2> QED BY <2>2, <2>4, <2>5, <2>6 DEF PhoneInv
<1>2. CASE AnalysisWritten
  <2>1. PhoneTypeOK'
    BY <1>0, <1>2 DEF AnalysisWritten, PhoneTypeOK
  <2> QED BY <1>2, <2>1, TasksStay DEF AnalysisWritten
<1>3. CASE ObserveCurrentTask \/ OnStartCommand
  <2>1. PhoneTypeOK'
    BY <1>0, <1>3 DEF ObserveCurrentTask, OnStartCommand, Broadcast, PhoneTypeOK
  <2> QED BY <1>3, <2>1, TasksStay DEF ObserveCurrentTask, OnStartCommand, Broadcast
<1>4. ASSUME NEW b \in air, OnReceive(b) PROVE PhoneInv'
  <2>1. b \in Broadcasts
    BY <1>0 DEF PhoneTypeOK
  <2>2. OpensWindow(b) \in BOOLEAN /\ b.status \in SeenStatuses
    BY <2>1 DEF OpensWindow, Broadcasts
  <2>3. PhoneTypeOK'
    BY <1>0, <1>4, <2>2 DEF OnReceive, PhoneTypeOK
  <2> QED BY <1>4, <2>3, TasksStay DEF OnReceive
<1>5. ASSUME NEW b \in air, MissBroadcast(b) PROVE PhoneInv'
  <2>1. PhoneTypeOK'
    BY <1>0, <1>5 DEF MissBroadcast, Miss, PhoneTypeOK
  <2> QED BY <1>5, <2>1, TasksStay DEF MissBroadcast
<1>6. CASE OnCreate
  <2>1. PhoneTypeOK'
    BY <1>0, <1>6 DEF OnCreate, Miss, PhoneTypeOK, SeenStatuses
  <2> QED BY <1>6, <2>1, TasksStay DEF OnCreate
<1>7. CASE WindowEnds
  <2>1. PhoneTypeOK'
    BY <1>0, <1>7 DEF WindowEnds, PhoneTypeOK
  <2> QED BY <1>7, <2>1, TasksStay DEF WindowEnds
<1>8. CASE UNCHANGED phoneVars
  <2>1. PhoneTypeOK'
    BY <1>0, <1>8 DEF phoneVars, PhoneTypeOK
  <2> QED BY <1>8, <2>1, TasksStay DEF phoneVars
<1> QED BY <1>1, <1>2, <1>3, <1>4, <1>5, <1>6, <1>7, <1>8 DEF PhoneNext

\* The accessibility service opens the unlock window only after a parent approved
\* a task with an unlockDuration, however many listeners broadcast, in whatever
\* order their broadcasts come or are missed, and whenever the service is killed.
THEOREM WindowAfterApproval == PhoneSpec => []WindowNeedsApproval
<1>1. PhoneInv => WindowNeedsApproval
  BY DEF PhoneInv
<1> QED BY <1>1, PhoneStart, PhoneStep, PTL DEF PhoneSpec

\* Tasks, broadcasts and the phone's state keep their types.
THEOREM PhoneTypes == PhoneSpec => []PhoneTypeOK
<1>1. PhoneInv => PhoneTypeOK
  BY DEF PhoneInv
<1> QED BY <1>1, PhoneStart, PhoneStep, PTL DEF PhoneSpec

-----------------------------------------------------------------------------
(* The other two parts of the child's device: the types, and when a device *)
(* is locked.                                                              *)

\* Only the iOS app remembers its safe mode, which lasts as long as the silence.
SafeModeExpired == safeMode => age = "expired" /\ system = "ios"

LEMMA OfflineStep == OfflineTypeOK /\ [OfflineNext]_offlineVars => OfflineTypeOK'
<1> SUFFICES ASSUME OfflineTypeOK, [OfflineNext]_offlineVars PROVE OfflineTypeOK'
  OBVIOUS
<1>1. ASSUME NEW f \in Flows, NEW w \in Waits, Goto(f, w),
             age' \in {"fresh", "expired"}, inForce' \in {"policy", "safe", "outdated"},
             safeMode' \in BOOLEAN
      PROVE  OfflineTypeOK'
  BY <1>1 DEF OfflineTypeOK, Goto, deviceVars
<1>2. ASSUME Android PROVE OfflineTypeOK'
  <2>1. CASE DoWork \/ Heartbeat \/ PushCommand
    BY <1>1, <2>1 DEF DoWork, Heartbeat, PushCommand, policyVars, OfflineTypeOK, Flows, Waits
  <2>2. CASE SyncPolicySnapshot
    BY <1>1, <2>2 DEF SyncPolicySnapshot, OfflineTypeOK, Flows, Waits
  <2>3. CASE EnforceOfflineFallback
    BY <1>1, <2>3 DEF EnforceOfflineFallback, OfflineTypeOK, Flows, Waits
  <2>4. CASE FetchAndApply
    BY <1>1, <2>4 DEF FetchAndApply, OfflineTypeOK, Flows, Waits
  <2> QED BY <1>2, <2>1, <2>2, <2>3, <2>4 DEF Android
<1>3. ASSUME Ios PROVE OfflineTypeOK'
  <2>1. CASE OnAppStart \/ Refresh \/ WakeUp
    BY <1>1, <2>1 DEF OnAppStart, Refresh, WakeUp, policyVars, OfflineTypeOK, Flows, Waits
  <2>2. CASE FinishHeartbeat
    BY <1>1, <2>2 DEF FinishHeartbeat, EnforceSafeMode, policyVars, OfflineTypeOK, Flows, Waits
  <2>3. CASE RequestFamilyControls
    BY <2>3 DEF RequestFamilyControls, OfflineTypeOK
  <2>7. CASE AnswerPairingGrant
    BY <2>7 DEF AnswerPairingGrant, policyVars, OfflineTypeOK, Flows, Waits
  <2>4. ASSUME NEW f \in Flows PROVE After(f) \in Waits
    BY DEF After, Waits
  <2>5. ASSUME NEW f \in Flows, Pull(f) PROVE OfflineTypeOK'
    <3>1. /\ age' \in {"fresh", "expired"} /\ inForce' \in {"policy", "safe", "outdated"}
          /\ safeMode' \in BOOLEAN
      BY <2>5 DEF Pull, NoteServerContact, Enforced, EnforceSafeMode, policyVars, OfflineTypeOK
    <3> QED BY <1>1, <2>4, <2>5, <3>1 DEF Pull
  <2>6. ASSUME NEW f \in Flows, ReportHeartbeat(f) PROVE OfflineTypeOK'
    <3>1. /\ age' \in {"fresh", "expired"} /\ inForce' \in {"policy", "safe", "outdated"}
          /\ safeMode' \in BOOLEAN
      BY <2>6 DEF ReportHeartbeat, NoteServerContact, Enforced, policyVars, OfflineTypeOK
    <3>2. flow' \in [Flows -> Waits]
      BY <2>4, <2>6 DEF ReportHeartbeat, OfflineTypeOK, Flows, Waits
    <3> QED BY <2>6, <3>1, <3>2 DEF ReportHeartbeat, deviceVars, OfflineTypeOK
  <2> QED BY <1>3, <2>1, <2>2, <2>3, <2>5, <2>6, <2>7 DEF Ios
<1>4. CASE Connect \/ Disconnect \/ Expire \/ Suspend
  BY <1>4 DEF Connect, Disconnect, Expire, Suspend, policyVars, deviceVars, OfflineTypeOK,
              Flows, Waits
<1>5. CASE Kill
  BY <1>5, OfflineAssumption DEF Kill, policyVars, OfflineTypeOK, Waits
<1>6. CASE UNCHANGED offlineVars
  BY <1>6 DEF offlineVars, policyVars, deviceVars, OfflineTypeOK
<1> QED BY <1>2, <1>3, <1>4, <1>5, <1>6 DEF OfflineNext

LEMMA OfflineStarts == OfflineInit => OfflineTypeOK
<1> SUFFICES ASSUME OfflineInit PROVE OfflineTypeOK
  OBVIOUS
<1>1. /\ online \in BOOLEAN /\ active \in BOOLEAN
      /\ safeMode \in BOOLEAN /\ authorized \in BOOLEAN
  BY Zenon DEF OfflineInit
<1>2. kills \in 0..MaxKills /\ flow \in [Flows -> Waits]
  BY OfflineAssumption DEF OfflineInit, Waits
<1> QED BY <1>1, <1>2 DEF OfflineInit, OfflineTypeOK

\* Policy, safe mode and flows of either app keep their types, whatever overlaps,
\* fails or is killed.
THEOREM OfflineTypes == OfflineSpec => []OfflineTypeOK
BY OfflineStarts, OfflineStep, PTL DEF OfflineSpec

LEMMA LockStep ==
    OfflineTypeOK /\ LockedOnlyWithoutContact /\ SafeModeExpired /\ [OfflineNext]_offlineVars =>
        (LockedOnlyWithoutContact /\ SafeModeExpired)'
<1> SUFFICES ASSUME OfflineTypeOK, LockedOnlyWithoutContact, SafeModeExpired,
                    [OfflineNext]_offlineVars
             PROVE  LockedOnlyWithoutContact' /\ SafeModeExpired'
  OBVIOUS
<1> USE DEF LockedOnlyWithoutContact, SafeModeExpired, Goto, deviceVars, policyVars
<1>1. CASE Android
  <2>1. CASE DoWork \/ Heartbeat \/ PushCommand
    BY <2>1 DEF DoWork, Heartbeat, PushCommand
  <2>2. CASE SyncPolicySnapshot
    BY <2>2 DEF SyncPolicySnapshot
  <2>3. CASE EnforceOfflineFallback
    BY <2>3 DEF EnforceOfflineFallback
  <2>4. CASE FetchAndApply
    BY <2>4 DEF FetchAndApply
  <2> QED BY <1>1, <2>1, <2>2, <2>3, <2>4 DEF Android
<1>2. CASE OnAppStart \/ Refresh \/ WakeUp \/ RequestFamilyControls
  BY <1>2 DEF OnAppStart, Refresh, WakeUp, RequestFamilyControls
<1>7. CASE AnswerPairingGrant
  <2>1. /\ UNCHANGED <<inForce, age, safeMode, system>>
        /\ authorized' = authorized \/ authorized' = TRUE
    BY <1>7 DEF AnswerPairingGrant
  <2>2. authorized => authorized'
    BY <2>1, Zenon
  <2> QED BY <2>1, <2>2
<1>3. CASE FinishHeartbeat
  BY <1>3 DEF FinishHeartbeat, EnforceSafeMode
<1>4. ASSUME NEW f \in Flows, Pull(f) \/ ReportHeartbeat(f)
      PROVE  LockedOnlyWithoutContact' /\ SafeModeExpired'
  <2>1. UNCHANGED <<system, authorized>> /\ system = "ios"
    BY <1>4 DEF Pull, ReportHeartbeat
  <2>2. \/ \E applied \in BOOLEAN : NoteServerContact(applied)
        \/ EnforceSafeMode \/ UNCHANGED policyVars
    BY <1>4 DEF Pull, ReportHeartbeat
  <2>3. ASSUME NEW applied \in BOOLEAN, NoteServerContact(applied)
        PROVE  LockedOnlyWithoutContact' /\ SafeModeExpired'
    <3>1. safeMode' = FALSE /\ inForce' \in {inForce, "policy", "outdated"}
      BY <2>3 DEF NoteServerContact, Enforced
    <3>2. inForce' # "safe"
      <4>1. CASE inForce = "safe"
        BY <2>1, <2>3, <4>1 DEF NoteServerContact, Enforced
      <4> QED BY <3>1, <4>1
    <3> QED BY <3>1, <3>2
  <2>4. CASE EnforceSafeMode
    BY <2>1, <2>4 DEF EnforceSafeMode
  <2>5. CASE UNCHANGED policyVars
    BY <2>1, <2>5
  <2> QED BY <2>2, <2>3, <2>4, <2>5
<1>5. CASE Connect \/ Disconnect \/ Expire \/ Suspend \/ Kill
  BY <1>5 DEF Connect, Disconnect, Expire, Suspend, Kill
<1>6. CASE UNCHANGED offlineVars
  BY <1>6 DEF offlineVars
<1> QED BY <1>1, <1>2, <1>3, <1>4, <1>5, <1>6, <1>7 DEF OfflineNext, Ios

\* A device is locked only after 72 hours without contact, whatever its flows
\* interleave, however often the app is killed and the connection comes and goes.
THEOREM LockedWithoutContact == OfflineSpec => []LockedOnlyWithoutContact
<1>1. OfflineInit => LockedOnlyWithoutContact /\ SafeModeExpired
  BY DEF OfflineInit, LockedOnlyWithoutContact, SafeModeExpired
<1> QED BY <1>1, OfflineTypes, LockStep, PTL DEF OfflineSpec

LEMMA EnforcementStep == EnforcementTypeOK /\ [EnforcementNext]_enforcementVars => EnforcementTypeOK'
<1> SUFFICES ASSUME EnforcementTypeOK, [EnforcementNext]_enforcementVars
             PROVE  EnforcementTypeOK'
  OBVIOUS
<1> USE DEF ruleVars, screenVars, worldVars
<1>1. stored.blocked \in SUBSET Apps /\ stored.rules \in UsageRules /\ policy \in Policies
  BY DEF EnforcementTypeOK, Policies
<1>2. ASSUME NEW p \in Policies, SetPolicy(p) PROVE EnforcementTypeOK'
  BY <1>2, EnforcementAssumption DEF SetPolicy, EnforcementTypeOK
<1>3. CASE ApplyBlockedApps \/ ApplyUsageRules \/ NextMilli
  <2>1. stored' \in Policies
    BY <1>1, <1>3 DEF ApplyBlockedApps, ApplyUsageRules, NextMilli, EnforcementTypeOK, Policies
  <2>2. unread' \in BOOLEAN /\ sameMilli' \in BOOLEAN /\ worker' \in {"idle", "rules"}
    BY <1>3 DEF ApplyBlockedApps, ApplyUsageRules, NextMilli, Stamp, EnforcementTypeOK
  <2> QED BY <1>3, <2>1, <2>2 DEF ApplyBlockedApps, ApplyUsageRules, NextMilli, EnforcementTypeOK
<1>4. ASSUME NEW a \in Windows, NEW rules \in UsageRules, NEW events \in SUBSET AppEvents,
             OnForegroundAppChanged(a, rules, events)
      PROVE  /\ currentForegroundApp' \in Windows \cup {"none"} /\ screen' \in Windows
             /\ pipeline' \subseteq AppEvents
             /\ UNCHANGED <<overlay, outside, taskLocked, monitoring, restarts>>
  <2>1. LimitEvents(a, rules) \subseteq AppEvents /\ Event("APP_OPENED", a) \in AppEvents
    BY DEF LimitEvents, Event, AppEvents
  <2> QED BY <1>4, <2>1 DEF OnForegroundAppChanged, EnforcementTypeOK, Windows
<1>5. ASSUME NEW a \in Apps, HandleWindowStateChanged(a) PROVE EnforcementTypeOK'
  <2>1. a \in Windows /\ loaded \in UsageRules
    BY DEF Windows, EnforcementTypeOK
  <2> QED BY <1>4, <1>5, <2>1 DEF HandleWindowStateChanged, EnforcementTypeOK
<1>6. ASSUME NEW a \in Windows, Round(a) PROVE EnforcementTypeOK'
  <2>1. /\ unread' \in BOOLEAN /\ sameMilli' \in BOOLEAN
        /\ loaded \in UsageRules /\ loaded' \in UsageRules
    BY <1>1, <1>6 DEF Round, CheckForRuleUpdates, EnforcementTypeOK
  <2>2. Checks(a, loaded') \in SUBSET AppEvents
    BY DEF Checks, LimitEvents, Event, AppEvents
  <2> QED BY <1>4, <1>6, <2>1, <2>2 DEF Round, EnforcementTypeOK
<1>7. CASE RoundSeesScreen \/ RoundSeesNothing
  BY <1>6, <1>7 DEF RoundSeesScreen, RoundSeesNothing, EnforcementTypeOK
<1>8. ASSUME NEW e \in pipeline, Process(e) PROVE EnforcementTypeOK'
  BY <1>8 DEF Process, Windows, EnforcementTypeOK
<1>9. ASSUME NEW a \in Apps, Open(a) PROVE EnforcementTypeOK'
  BY <1>9 DEF Open, Windows, EnforcementTypeOK
<1>10. CASE Leave \/ GoBack \/ HourPasses \/ TaskLockChanges \/ OnInterrupt
  BY <1>10 DEF Leave, GoBack, HourPasses, TaskLockChanges, OnInterrupt, Windows, EnforcementTypeOK
<1>11. CASE Restart
  <2>1. /\ unread' \in BOOLEAN /\ sameMilli' \in BOOLEAN
        /\ overlay' \in BOOLEAN /\ monitoring' \in BOOLEAN
    BY <1>11, Zenon DEF Restart
  <2>2. loaded' \in UsageRules /\ restarts' \in 0..MaxRestarts
    BY <1>11, EnforcementAssumption DEF Restart, UsageRules, EnforcementTypeOK
  <2> QED BY <1>11, <2>1, <2>2 DEF Restart, EnforcementTypeOK
<1>12. CASE UNCHANGED enforcementVars
  BY <1>12 DEF enforcementVars, EnforcementTypeOK
<1> QED BY <1>2, <1>3, <1>5, <1>7, <1>8, <1>9, <1>10, <1>11, <1>12 DEF EnforcementNext

LEMMA EnforcementStarts == EnforcementInit => EnforcementTypeOK
<1> SUFFICES ASSUME EnforcementInit PROVE EnforcementTypeOK
  OBVIOUS
<1>1. /\ unread \in BOOLEAN /\ sameMilli \in BOOLEAN /\ outside \in BOOLEAN
      /\ overlay \in BOOLEAN /\ taskLocked \in BOOLEAN /\ monitoring \in BOOLEAN
  BY Zenon DEF EnforcementInit
<1>2. policy \in Policies /\ stored \in Policies /\ loaded \in UsageRules
  BY DEF EnforcementInit, Policies, UsageRules
<1>3. policies \in 0..MaxPolicies /\ restarts \in 0..MaxRestarts
  BY EnforcementAssumption DEF EnforcementInit
<1> QED BY <1>1, <1>2, <1>3 DEF EnforcementInit, EnforcementTypeOK, Windows

\* Rules, windows and events of the accessibility service keep their types.
THEOREM EnforcementTypes == EnforcementSpec => []EnforcementTypeOK
BY EnforcementStarts, EnforcementStep, PTL DEF EnforcementSpec

-----------------------------------------------------------------------------
(* The circuit breaker.                                                    *)

\* The probes of the current period are running calls; other states have none.
ProbesRun == /\ probes \subseteq Running
             /\ state # "half-open" => probes = {}

\* The slots taken in a half-open period.
SlotsTaken ==
    state = "half-open" =>
        /\ Cardinality(probes) <= halfOpenCalls
        /\ halfOpenCalls <= HalfOpenMaxCalls
        /\ halfOpenCalls <= successes + Cardinality(probes)
        /\ successes < SuccessThreshold

\* A call that backs off has attempts left.
WaitersRetry == \A p \in waiting : attempt[p] > 0 /\ attempt[p] < MaxAttempts

BreakerInv == BreakerTypeOK /\ WaitersRetry /\ ProbesRun /\ SlotsTaken /\ ClosedBelowThreshold

-----------------------------------------------------------------------------
\* Removing one call from a finite set takes at most one off its cardinality.
LEMMA RemoveCall ==
    ASSUME NEW S, IsFiniteSet(S), NEW p
    PROVE  /\ Cardinality(S \ {p}) \in Nat /\ Cardinality(S) \in Nat
           /\ Cardinality(S \ {p}) >= Cardinality(S) - 1
           /\ Cardinality(S \ {p}) <= Cardinality(S)
<1>1. /\ IsFiniteSet(S \ {p})
      /\ Cardinality(S \ {p}) = IF p \in S THEN Cardinality(S) - 1 ELSE Cardinality(S)
  BY FS_RemoveElement
<1>2. Cardinality(S) \in Nat
  BY FS_CardinalityType
<1>3. Cardinality(S \ {p}) \in Nat
  BY <1>1, FS_CardinalityType
<1> QED BY <1>1, <1>2, <1>3

LEMMA FiniteProbes == BreakerTypeOK => IsFiniteSet(probes) /\ Cardinality(probes) \in Nat
<1> SUFFICES ASSUME BreakerTypeOK PROVE IsFiniteSet(probes) /\ Cardinality(probes) \in Nat
  OBVIOUS
<1>1. IsFiniteSet(probes)
  BY FS_Subset, BreakerAssumption DEF BreakerTypeOK
<1> QED BY <1>1, FS_CardinalityType

LEMMA BreakerStarts == BreakerInit => BreakerInv
<1> SUFFICES ASSUME BreakerInit PROVE BreakerInv
  OBVIOUS
<1>1. BreakerTypeOK
  <2>1. rested \in BOOLEAN /\ healthy \in BOOLEAN
    BY Zenon DEF BreakerInit
  <2>2. attempt \in [BreakerCalls -> 0..MaxAttempts]
    BY BreakerAssumption DEF BreakerInit
  <2>3. /\ state \in {"closed", "open", "half-open"} /\ failures \in 0..MaxFailures
        /\ successes \in Nat /\ halfOpenCalls \in Nat
        /\ waiting \subseteq BreakerCalls /\ probes \subseteq BreakerCalls
    BY BreakerAssumption DEF BreakerInit
  <2> QED BY <2>1, <2>2, <2>3 DEF BreakerTypeOK
<1>2. WaitersRetry /\ ProbesRun /\ SlotsTaken
  BY DEF BreakerInit, WaitersRetry, ProbesRun, SlotsTaken
<1>3. ClosedBelowThreshold
  BY BreakerAssumption DEF BreakerInit, ClosedBelowThreshold
<1> QED BY <1>1, <1>2, <1>3 DEF BreakerInv

-----------------------------------------------------------------------------
\* A call the breaker lets in.
LEMMA ExecuteInv ==
    ASSUME BreakerInv, NEW p \in BreakerCalls, Execute(p)
    PROVE  BreakerInv'
<1> USE BreakerAssumption DEF BreakerInv
<1>1. /\ attempt[p] = 0 /\ attempt' = [attempt EXCEPT ![p] = 1]
      /\ waiting' = waiting /\ healthy' = healthy
  BY DEF Execute
<1>2. /\ attempt' \in [BreakerCalls -> 0..MaxAttempts]
      /\ Running' = Running \cup {p}
      /\ p \notin Running
      /\ WaitersRetry'
  BY <1>1 DEF BreakerTypeOK, WaitersRetry, Running
<1>3. IsFiniteSet(probes) /\ Cardinality(probes) \in Nat
  BY FiniteProbes
<1>4. CASE ExecuteClosed(p)
  BY <1>1, <1>2, <1>4 DEF ExecuteClosed, counters, BreakerTypeOK, ProbesRun, SlotsTaken,
     ClosedBelowThreshold
<1>5. CASE EnterHalfOpen(p)
  <2>1. Cardinality(probes') = 1
    BY <1>5, FS_Singleton DEF EnterHalfOpen
  <2> QED BY <1>1, <1>2, <1>5, <2>1 DEF EnterHalfOpen, BreakerTypeOK, ProbesRun, SlotsTaken,
     ClosedBelowThreshold
<1>6. CASE Probe(p)
  <2>1. Cardinality(probes') = Cardinality(probes) + 1
    BY <1>2, <1>3, <1>6, FS_AddElement DEF Probe, ProbesRun
  <2>2. BreakerTypeOK' /\ ProbesRun' /\ ClosedBelowThreshold'
    BY <1>1, <1>2, <1>6 DEF Probe, BreakerTypeOK, ProbesRun, ClosedBelowThreshold
  <2>3. SlotsTaken'
    BY <1>3, <1>6, <2>1 DEF Probe, BreakerTypeOK, SlotsTaken
  <2> QED BY <1>2, <2>2, <2>3
<1> QED BY <1>4, <1>5, <1>6 DEF Execute

\* A call that ends with success.
LEMMA SucceedInv ==
    ASSUME BreakerInv, NEW p \in BreakerCalls, Succeed(p)
    PROVE  BreakerInv'
<1> USE BreakerAssumption DEF BreakerInv
<1>1. /\ attempt' \in [BreakerCalls -> 0..MaxAttempts]
      /\ Running' = Running \ {p}
      /\ waiting' = waiting /\ healthy' = healthy
      /\ WaitersRetry'
  BY DEF Succeed, Finish, BreakerTypeOK, WaitersRetry, Running
<1>2. IsFiniteSet(probes) /\ Cardinality(probes) \in Nat
  BY FiniteProbes
<1>3. CASE /\ state = "half-open" /\ successes + 1 >= SuccessThreshold
           /\ state' = "closed"
           /\ failures' = 0 /\ successes' = 0 /\ halfOpenCalls' = 0
           /\ probes' = {}
           /\ UNCHANGED rested
  BY <1>1, <1>3 DEF BreakerTypeOK, ProbesRun, SlotsTaken, ClosedBelowThreshold
<1>4. CASE /\ state = "half-open" /\ successes + 1 < SuccessThreshold
           /\ successes' = successes + 1
           /\ probes' = probes \ {p}
           /\ UNCHANGED <<state, failures, halfOpenCalls, rested>>
  <2>1. BreakerTypeOK' /\ ProbesRun' /\ ClosedBelowThreshold'
    BY <1>1, <1>4 DEF BreakerTypeOK, ProbesRun, ClosedBelowThreshold
  <2>2. SlotsTaken'
    <3>1. /\ Cardinality(probes \ {p}) \in Nat
          /\ Cardinality(probes \ {p}) >= Cardinality(probes) - 1
          /\ Cardinality(probes \ {p}) <= Cardinality(probes)
      BY <1>2, RemoveCall
    <3> QED BY <1>2, <1>4, <3>1 DEF BreakerTypeOK, SlotsTaken
  <2> QED BY <1>1, <2>1, <2>2
<1>5. CASE /\ state # "half-open"
           /\ failures' = IF failures > 0 THEN failures - 1 ELSE 0
           /\ probes' = probes \ {p}
           /\ UNCHANGED <<state, successes, halfOpenCalls, rested>>
  BY <1>1, <1>5 DEF BreakerTypeOK, ProbesRun, SlotsTaken, ClosedBelowThreshold
<1> QED BY <1>3, <1>4, <1>5 DEF Succeed, OnSuccess

\* A call that ends with a failure.
LEMMA FailInv ==
    ASSUME BreakerInv, NEW p \in BreakerCalls, Fail(p)
    PROVE  BreakerInv'
<1> USE BreakerAssumption DEF BreakerInv
<1>1. /\ attempt' \in [BreakerCalls -> 0..MaxAttempts]
      /\ Running' = Running \ {p}
      /\ waiting' = waiting /\ healthy' = healthy
      /\ WaitersRetry'
  BY DEF Fail, Finish, BreakerTypeOK, WaitersRetry, Running
<1>2. /\ failures < MaxFailures /\ failures' = failures + 1
      /\ successes' = successes /\ halfOpenCalls' = halfOpenCalls
  BY DEF Fail, OnFailure
<1>5. rested' \in BOOLEAN
  <2>1. rested' = FALSE
    BY DEF Fail, OnFailure
  <2> QED BY <2>1, Zenon
<1>3. CASE state = "half-open" \/ failures + 1 >= FailureThreshold
  <2>1. state' = "open" /\ probes' = {}
    BY <1>3 DEF Fail, OnFailure
  <2>2. BreakerTypeOK'
    BY <1>1, <1>2, <1>5, <2>1 DEF BreakerTypeOK
  <2> QED BY <1>1, <2>1, <2>2 DEF ProbesRun, SlotsTaken, ClosedBelowThreshold
<1>4. CASE ~(state = "half-open" \/ failures + 1 >= FailureThreshold)
  <2>1. state' = state /\ probes' = probes \ {p}
    BY <1>4 DEF Fail, OnFailure
  <2>2. BreakerTypeOK'
    BY <1>1, <1>2, <1>5, <2>1 DEF BreakerTypeOK
  <2>3. ProbesRun' /\ SlotsTaken'
    BY <1>1, <1>4, <2>1 DEF ProbesRun, SlotsTaken
  <2>4. ClosedBelowThreshold'
    BY <1>2, <1>4, <2>1 DEF ClosedBelowThreshold, BreakerTypeOK
  <2> QED BY <1>1, <2>2, <2>3, <2>4
<1> QED BY <1>3, <1>4

LEMMA BreakerStep == BreakerInv /\ [BreakerNext]_breakerVars => BreakerInv'
<1> SUFFICES ASSUME BreakerInv, [BreakerNext]_breakerVars PROVE BreakerInv'
  OBVIOUS
<1> USE DEF BreakerInv
<1>1. ASSUME NEW p \in BreakerCalls, Execute(p) PROVE BreakerInv'
  BY <1>1, ExecuteInv
<1>2. ASSUME NEW p \in BreakerCalls, Succeed(p) PROVE BreakerInv'
  BY <1>2, SucceedInv
<1>3. ASSUME NEW p \in BreakerCalls, Fail(p) PROVE BreakerInv'
  BY <1>3, FailInv
<1>4. ASSUME NEW p \in BreakerCalls, BackOff(p) PROVE BreakerInv'
  BY <1>4 DEF BackOff, counters, BreakerTypeOK, ProbesRun, SlotsTaken, ClosedBelowThreshold, WaitersRetry, Running
<1>5. ASSUME NEW p \in BreakerCalls, Retry(p) PROVE BreakerInv'
  <2>1. /\ attempt[p] \in 0..MaxAttempts /\ attempt[p] > 0 /\ attempt[p] < MaxAttempts
        /\ attempt' = [attempt EXCEPT ![p] = attempt[p] + 1]
        /\ waiting' = waiting \ {p} /\ UNCHANGED <<counters, healthy>>
    BY <1>5 DEF Retry, BreakerTypeOK, WaitersRetry
  <2>2. attempt' \in [BreakerCalls -> 0..MaxAttempts]
    BY <2>1, BreakerAssumption DEF BreakerTypeOK
  <2>3. BreakerTypeOK'
    BY <2>1, <2>2 DEF counters, BreakerTypeOK
  <2>4. WaitersRetry' /\ Running' = Running
    BY <2>1 DEF BreakerTypeOK, WaitersRetry, Running
  <2> QED BY <2>1, <2>3, <2>4 DEF counters, ProbesRun, SlotsTaken, ClosedBelowThreshold
<1>6. CASE Rest
  BY <1>6 DEF Rest, BreakerTypeOK, ProbesRun, SlotsTaken, ClosedBelowThreshold, WaitersRetry, Running
<1>7. CASE Recover
  BY <1>7 DEF Recover, counters, BreakerTypeOK, ProbesRun, SlotsTaken, ClosedBelowThreshold, WaitersRetry, Running
<1>8. CASE UNCHANGED breakerVars
  BY <1>8 DEF breakerVars, counters, BreakerTypeOK, ProbesRun, SlotsTaken, ClosedBelowThreshold, WaitersRetry, Running
<1> QED BY <1>1, <1>2, <1>3, <1>4, <1>5, <1>6, <1>7, <1>8 DEF BreakerNext, Answer

LEMMA BreakerAlways == BreakerSpec => []BreakerInv
BY BreakerStarts, BreakerStep, PTL DEF BreakerSpec

-----------------------------------------------------------------------------
\* The fields of the breaker keep their types; the failures stay within the bound.
THEOREM BreakerTypes == BreakerSpec => []BreakerTypeOK
BY BreakerAlways, PTL DEF BreakerInv

\* A closed circuit has seen fewer failures than open it, whatever late answers
\* moved its counter.
THEOREM ClosedIsHealthy == BreakerSpec => []ClosedBelowThreshold
BY BreakerAlways, PTL DEF BreakerInv

\* The breaker keeps its promise to a service that recovers: no more than
\* halfOpenMaxCalls probes at a time, for any number of callers.
THEOREM ProbeLimit == BreakerSpec => []ProbesLimited
<1>1. BreakerInv => ProbesLimited
  <2> SUFFICES ASSUME BreakerInv PROVE ProbesLimited
    OBVIOUS
  <2>1. Cardinality(probes) \in Nat
    BY FiniteProbes DEF BreakerInv
  <2>2. CASE state = "half-open"
    BY <2>1, <2>2, BreakerAssumption DEF BreakerInv, BreakerTypeOK, SlotsTaken, ProbesLimited
  <2>3. CASE state # "half-open"
    BY <2>3, FS_EmptySet, BreakerAssumption DEF BreakerInv, ProbesRun, ProbesLimited
  <2> QED BY <2>2, <2>3
<1> QED BY <1>1, BreakerAlways, PTL

\* Whatever the options and the late calls, a half-open circuit waits for an answer
\* nobody will give only when each of its slots went to a success and they were too
\* few: with the code's options, after its one probe succeeded.
THEOREM StuckBySuccesses == BreakerSpec => []StuckOnlyWhenSpent
<1>1. BreakerInv => StuckOnlyWhenSpent
  <2> SUFFICES ASSUME BreakerInv, state = "half-open",
                      ~(halfOpenCalls < HalfOpenMaxCalls), Running = {}
               PROVE  Spent
    BY DEF StuckOnlyWhenSpent, NeverStuck
  <2>1. Cardinality(probes) = 0
    BY FS_EmptySet DEF BreakerInv, ProbesRun
  <2> QED BY <2>1, BreakerAssumption DEF BreakerInv, BreakerTypeOK, SlotsTaken, Spent
<1> QED BY <1>1, BreakerAlways, PTL

-----------------------------------------------------------------------------
(* All of them in one specification, of which a behaviour takes the steps  *)
(* of one part: what is proved of a part holds of what TLC checks.         *)

progressVars == <<vars, phoneVars, offlineVars, enforcementVars, breakerVars, side>>

\* A step of the composition is a step of each part, or leaves it alone.
LEMMA StepOfEach ==
    [MCNext]_progressVars =>
        /\ [Next]_vars /\ [PhoneNext]_phoneVars /\ [OfflineNext]_offlineVars
        /\ [EnforcementNext]_enforcementVars /\ [BreakerNext]_breakerVars
<1>1. MCNext => /\ [Next]_vars /\ [PhoneNext]_phoneVars /\ [OfflineNext]_offlineVars
                /\ [EnforcementNext]_enforcementVars /\ [BreakerNext]_breakerVars
  BY DEF MCNext
<1>2. UNCHANGED progressVars =>
          /\ UNCHANGED vars /\ UNCHANGED phoneVars /\ UNCHANGED offlineVars
          /\ UNCHANGED enforcementVars /\ UNCHANGED breakerVars
  BY DEF progressVars
<1> QED BY <1>1, <1>2

\* The composition does with each part what the part's specification allows.
LEMMA EachPart ==
    MCSpec => /\ Spec /\ PhoneSpec /\ BreakerSpec
              /\ OfflineInit /\ [][OfflineNext]_offlineVars
              /\ EnforcementInit /\ [][EnforcementNext]_enforcementVars
<1>1. MCInit => Init /\ PhoneInit /\ OfflineInit /\ EnforcementInit /\ BreakerInit
  BY DEF MCInit
<1> QED BY <1>1, StepOfEach, PTL DEF MCSpec, progressVars, Spec, PhoneSpec, BreakerSpec

\* Every part keeps its types.
THEOREM PartsTyped == MCSpec => []MCTypeOK
<1>1. TypeOK /\ PhoneTypeOK /\ OfflineTypeOK /\ EnforcementTypeOK /\ BreakerTypeOK => MCTypeOK
  BY DEF MCTypeOK
<1> QED BY <1>1, EachPart, TypeCorrect, PhoneTypes, OfflineStarts, OfflineStep,
           EnforcementStarts, EnforcementStep, BreakerTypes, PTL

\* The safety properties of the parts, in the composition.
THEOREM PartsHold ==
    MCSpec => /\ []UnlockTracesApproval /\ []NobodyForgotten /\ []WindowNeedsApproval
              /\ []LockedOnlyWithoutContact /\ []ProbesLimited
              /\ DecisionReplacedByStaleCallOnly /\ ImplementsTaskLife
<1>1. OfflineInit => LockedOnlyWithoutContact /\ SafeModeExpired
  BY DEF OfflineInit, LockedOnlyWithoutContact, SafeModeExpired
<1>2. MCSpec => []LockedOnlyWithoutContact
  BY <1>1, EachPart, OfflineStarts, OfflineStep, LockStep, PTL
<1> QED BY <1>2, EachPart, UnlockIsApproval, NobodyIsForgotten, WindowAfterApproval, ProbeLimit,
           DecisionStands, Implements, PTL
=============================================================================
