------------------------------ MODULE TaskLife ------------------------------
(***************************************************************************)
(* What one child's tasks promise to whoever watches them (the parent's    *)
(* panels, the child's phone): a task appears as pending, is submitted     *)
(* before anything else happens to it, and is never pending again.  After  *)
(* the submission the status may still move between submitted and the two  *)
(* decisions, because the callables update what they checked earlier.      *)
(***************************************************************************)
EXTENDS Integers

CONSTANTS MaxTasks, None

VARIABLE life    \* the tasks in the order of their creation

Ids       == 1..MaxTasks
Decisions == {"approved", "rejected"}
Submitted == {"pending_approval"} \cup Decisions
Statuses  == {"pending"} \cup Submitted
\* wasApproved: a parent approved the task at some time.
Lives     == [status : Statuses, timed : BOOLEAN, wasApproved : BOOLEAN]

Init == life = [t \in Ids |-> None]

Create(t, timed) ==
    /\ life[t] = None
    /\ \A u \in Ids : u < t => life[u] # None
    /\ life' = [life EXCEPT ![t] = [status |-> "pending", timed |-> timed,
                                    wasApproved |-> FALSE]]

Submit(t) ==
    /\ life[t] # None
    /\ life' = [life EXCEPT ![t].status = "pending_approval"]

Decide(t, decision) ==
    /\ life[t] # None
    /\ life[t].status \in Submitted
    /\ life' = [life EXCEPT ![t] = [status |-> decision, timed |-> @.timed,
                                    wasApproved |-> @.wasApproved \/ decision = "approved"]]

Next == \E t \in Ids : \/ \E timed \in BOOLEAN : Create(t, timed)
                       \/ Submit(t)
                       \/ \E d \in Decisions : Decide(t, d)

Spec == Init /\ [][Next]_life
=============================================================================
