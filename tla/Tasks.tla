------------------------------- MODULE Tasks -------------------------------
(***************************************************************************)
(* The tasks of one child on the server: the callables (src/src/tasks.ts)  *)
(* and the two triggers on a task's document (src/src/triggers.ts).        *)
(*                                                                         *)
(* completeTask, approveTask and rejectTask check the status they read and *)
(* update the document after another await: a call in flight is one that   *)
(* has passed its checks.  Firestore delivers every change of a document   *)
(* to both triggers, concurrently; an invocation can die.                  *)
(*                                                                         *)
(* Abstractions.  Tasks are numbered in the order of createdAt.  A photo   *)
(* that fails the checks of its path or metadata never gets as far as the  *)
(* status check and changes nothing, nor does a caller who does not own    *)
(* the child or whose account gives no access.  unlockDuration is given or *)
(* not.  told records who was pushed to.                                   *)
(***************************************************************************)
EXTENDS Integers, FiniteSets

CONSTANTS
    Calls,         \* invocations of the three callables in flight
    None,          \* "no document"
    MaxTasks,      \* bound: tasks created
    MaxLosses      \* bound: invocations that die and pushes that fail

VARIABLES
    task,      \* children/{childId}/tasks: the documents in the order of createdAt
    call,      \* callables that passed their checks and have not updated yet
    jobs,      \* trigger invocations under way
    approved,  \* history: the tasks a parent approved at some time
    losses     \* losses so far

vars == <<task, call, jobs, approved, losses>>

Ids       == 1..MaxTasks
Decisions == {"approved", "rejected"}
Statuses  == {"pending", "pending_approval"} \cup Decisions
TaskDocs  == [status : Statuses, proof : BOOLEAN, timed : BOOLEAN, unlockUntil : BOOLEAN,
              analysed : BOOLEAN, told : SUBSET {"parent", "child"}]
\* What TaskLife sees of a document.
LifeDocs  == [status : Statuses, timed : BOOLEAN, wasApproved : BOOLEAN]
ASSUME TasksAssumption ==
    MaxTasks \in Nat /\ MaxLosses \in Nat /\ None \notin TaskDocs /\ None \notin LifeDocs

Idle      == [op |-> "idle"]
\* stale: another call updated this task's status after this one had read it.
CallStates == {Idle} \cup [op : {"complete"} \cup Decisions, task : Ids, stale : BOOLEAN]
Jobs == [kind : {"analyse", "tell parent", "tell child"}, task : Ids]

TypeOK ==
    /\ task \in [Ids -> TaskDocs \cup {None}]
    /\ call \in [Calls -> CallStates]
    /\ jobs \subseteq Jobs
    /\ approved \subseteq Ids
    /\ losses \in 0..MaxLosses

Init ==
    /\ task = [t \in Ids |-> None]
    /\ call = [p \in Calls |-> Idle]
    /\ jobs = {}
    /\ approved = {}
    /\ losses = 0

-----------------------------------------------------------------------------
(* The callables.                                                          *)

Created == {t \in Ids : task[t] # None}

CreateTask(t, timed) ==
    /\ t \notin Created /\ \A u \in Ids : u < t => u \in Created
    /\ task' = [task EXCEPT ![t] =
                  [status |-> "pending", proof |-> FALSE, timed |-> timed,
                   unlockUntil |-> FALSE, analysed |-> FALSE, told |-> {}]]
    /\ UNCHANGED <<call, jobs, approved, losses>>

Begin(p, op, t) ==
    /\ call[p] = Idle
    /\ call' = [call EXCEPT ![p] = [op |-> op, task |-> t, stale |-> FALSE]]
    /\ UNCHANGED <<task, jobs, approved, losses>>

\* completeTask up to its status check.
CheckComplete(p, t) ==
    /\ t \in Created
    /\ task[t].status = "pending"
    /\ Begin(p, "complete", t)

\* Variant: a decision is accepted whatever the status.
CheckDecisionAny(p, t, decision) ==
    /\ t \in Created
    /\ Begin(p, decision, t)

\* Variant: approveTask and rejectTask refuse only a task that is still pending.
CheckDecisionAgain(p, t, decision) ==
    /\ t \in Created
    /\ task[t].status # "pending"
    /\ Begin(p, decision, t)

\* approveTask and rejectTask up to theirs.
CheckDecision(p, t, decision) ==
    /\ t \in Created
    /\ task[t].status = "pending_approval"
    /\ Begin(p, decision, t)

\* Variant: the name of the operation is stored as the status.
UpdatedOp(doc, op) == [doc EXCEPT !.status = op, !.proof = TRUE]

\* Variant: approveTask sets unlockUntil for every task.
UpdatedUntil(doc, op) ==
    IF op = "complete" THEN [doc EXCEPT !.status = "pending_approval", !.proof = TRUE]
    ELSE [doc EXCEPT !.status = op, !.unlockUntil = TRUE]

\* What the update of a call makes of the document.
Updated(doc, op) ==
    IF op = "complete" THEN [doc EXCEPT !.status = "pending_approval", !.proof = TRUE]
    ELSE [doc EXCEPT !.status = op, !.unlockUntil = @ \/ (op = "approved" /\ doc.timed)]

\* Variant: the photo is analysed when the status did not change.
AnalysableUnchanged(before, after) ==
    after.status = "pending_approval" /\ before.status = "pending_approval"

\* analyzeTaskPhoto's condition.
Analysable(before, after) ==
    after.status = "pending_approval" /\ before.status # "pending_approval"

\* onTaskStatusChange: whom a change of the status is told.
Told(before, after) ==
    IF after.status = before.status THEN {}
    ELSE IF after.status = "pending_approval" THEN {"tell parent"}
    ELSE IF after.status \in Decisions THEN {"tell child"} ELSE {}

\* The invocations a change of task t's document starts.
Triggered(t, before, after) ==
    {[kind |-> k, task |-> t] :
        k \in Told(before, after)
             \cup (IF Analysable(before, after) THEN {"analyse"} ELSE {})}

\* The update: it does not look at the status again.
Update(p) ==
    LET c == call[p]  t == c.task  after == Updated(task[t], c.op) IN
    /\ c # Idle
    /\ task' = [task EXCEPT ![t] = after]
    /\ jobs' = jobs \cup Triggered(t, task[t], after)
    /\ approved' = IF c.op = "approved" THEN approved \cup {t} ELSE approved
    /\ call' = [q \in Calls |->
                  IF q = p THEN Idle
                  ELSE IF call[q] # Idle /\ call[q].task = t
                       THEN [call[q] EXCEPT !.stale = TRUE] ELSE call[q]]
    /\ UNCHANGED losses

-----------------------------------------------------------------------------
(* The triggers, and what can be lost.                                     *)

\* analyzeTaskPhoto writes Gemini's answer, or the fallback after any failure.
FinishAnalysis(j) ==
    /\ j \in jobs /\ j.kind = "analyse"
    /\ jobs' = jobs \ {j}
    /\ task' = [task EXCEPT ![j.task].analysed = TRUE]
    /\ UNCHANGED <<call, approved, losses>>

\* onTaskStatusChange reads the token of the parent or the child and pushes.
Notify(j) ==
    /\ j \in jobs /\ j.kind # "analyse"
    /\ jobs' = jobs \ {j}
    /\ task' = [task EXCEPT ![j.task].told =
                  @ \cup {IF j.kind = "tell parent" THEN "parent" ELSE "child"}]
    /\ UNCHANGED <<call, approved, losses>>

Lose == losses < MaxLosses /\ losses' = losses + 1

\* The invocation dies, or there is no token, or all attempts to push fail.
LoseJob(j) ==
    /\ j \in jobs /\ Lose
    /\ jobs' = jobs \ {j}
    /\ UNCHANGED <<task, call, approved>>

AbortCall(p) ==
    /\ call[p] # Idle /\ Lose
    /\ call' = [call EXCEPT ![p] = Idle]
    /\ UNCHANGED <<task, jobs, approved>>

-----------------------------------------------------------------------------
Next ==
    \/ \E t \in Ids, timed \in BOOLEAN : CreateTask(t, timed)
    \/ \E p \in Calls :
        \/ \E t \in Ids : CheckComplete(p, t) \/ \E d \in Decisions : CheckDecision(p, t, d)
        \/ Update(p)
        \/ AbortCall(p)
    \/ \E j \in jobs : FinishAnalysis(j) \/ Notify(j) \/ LoseJob(j)

Spec == Init /\ [][Next]_vars

\* The runtime resumes what it has started.
Fairness == /\ \A p \in Calls : WF_vars(Update(p))
            /\ \A j \in Jobs : WF_vars(FinishAnalysis(j) \/ Notify(j))

FairSpec == Spec /\ Fairness

-----------------------------------------------------------------------------
(* Safety.                                                                 *)

\* A parent's decision is replaced only by a call that had read the task
\* before: completeTask, approveTask and rejectTask refuse a decided task, so
\* whatever comes later than the decision cannot undo it.
DecisionReplacedByStaleCallOnly ==
    [][\A t \in Created :
         (task[t].status \in Decisions /\ task'[t].status # task[t].status) =>
            \E p \in Calls : /\ call[p] # Idle /\ call[p].task = t /\ call[p].stale
                             /\ call'[p] = Idle]_vars

\* unlockUntil is the trace of an approval: whatever calls overlap, a task
\* carries it exactly if it has an unlockDuration and was approved once.
UnlockTracesApproval ==
    \A t \in Created : task[t].unlockUntil <=> (task[t].timed /\ t \in approved)

\* Nobody waits for news that is not coming: unless something was lost, whatever
\* calls overlap, the photo of a submitted task is analysed and its parent told,
\* the child of a decided one too, or a trigger that is still to do it exists.
Owed(t, kind) == [kind |-> kind, task |-> t] \in jobs

SubmissionInHand(t) == /\ task[t].analysed \/ Owed(t, "analyse")
                       /\ "parent" \in task[t].told \/ Owed(t, "tell parent")

DecisionInHand(t) == "child" \in task[t].told \/ Owed(t, "tell child")

NobodyForgotten ==
    losses = 0 =>
        \A t \in Created :
            /\ task[t].status # "pending" => SubmissionInHand(t)
            /\ task[t].status \in Decisions => DecisionInHand(t)

\* Nobody decides on a task without a proof, and no call in flight takes a
\* submitted task back to pending: the callables refine what TaskLife promises.
LifeOf(t) == IF task[t] = None THEN None
             ELSE [status |-> task[t].status, timed |-> task[t].timed,
                   wasApproved |-> t \in approved]
LifeMap == [t \in Ids |-> LifeOf(t)]
Life == INSTANCE TaskLife WITH life <- LifeMap
ImplementsTaskLife == Life!Spec

-----------------------------------------------------------------------------
(* Liveness.                                                               *)

\* A submitted photo is analysed, by Gemini or the fallback, and the parent
\* told, unless an invocation or a push was lost.
SubmissionAnalysedAndTold ==
    \A t \in Ids :
        (t \in Created /\ task[t].status = "pending_approval") ~>
            (losses > 0 \/ (t \in Created /\ task[t].analysed /\ "parent" \in task[t].told))
=============================================================================
