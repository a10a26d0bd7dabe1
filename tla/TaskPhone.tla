----------------------------- MODULE TaskPhone -----------------------------
(***************************************************************************)
(* The task lock of the child's phone (src/childApp): TaskMonitoringService*)
(* listens to the newest task and broadcasts it; the accessibility service *)
(* receives the broadcasts and locks the screen.  The tasks themselves     *)
(* behave as TaskLife allows, which Tasks implements.                      *)
(*                                                                         *)
(* Every start of the service (a worker every 15 minutes, an alarm, the    *)
(* system after a kill) adds one more listener, which reports the newest   *)
(* task at once, and the listeners run on a pool of threads: broadcasts    *)
(* overtake each other.  Equal broadcasts on their way at the same time    *)
(* are modelled as one.  An approved task never locks, with a window or    *)
(* without: the end of the window only matters to the next broadcast.      *)
(***************************************************************************)
EXTENDS Integers, FiniteSets

CONSTANTS
    PhoneTasks,    \* bound: tasks created
    NoTask,        \* "no document"
    MaxMissed,     \* bound: broadcasts missed and kills of the accessibility service
    MaxAir         \* bound: different broadcasts on their way at once

VARIABLES
    life,      \* the tasks, see TaskLife
    changed,   \* the newest task changed and the listeners were not called yet
    air,       \* broadcasts TASK_STATUS_UPDATE not received yet
    seen,      \* currentTaskStatus of the accessibility service
    window,    \* unlockEndTime > now; the preferences keep it over restarts
    missed     \* losses so far

Watched == INSTANCE TaskLife WITH MaxTasks <- PhoneTasks, None <- NoTask

ASSUME TaskPhoneAssumption ==
    /\ PhoneTasks \in Nat \ {0} /\ MaxMissed \in Nat /\ MaxAir \in Nat \ {0}
    /\ NoTask \notin Watched!Lives

phoneVars == <<life, changed, air, seen, window, missed>>

SeenStatuses == Watched!Statuses \cup {"none"}
Broadcasts   == [status : SeenStatuses, timed : BOOLEAN]

PhoneTypeOK ==
    /\ life \in [Watched!Ids -> Watched!Lives \cup {NoTask}]
    /\ changed \in BOOLEAN
    /\ air \subseteq Broadcasts
    /\ seen \in SeenStatuses
    /\ window \in BOOLEAN
    /\ missed \in 0..MaxMissed

PhoneInit ==
    /\ Watched!Init
    /\ changed = FALSE /\ air = {}
    /\ seen = "none" /\ window = FALSE
    /\ missed = 0

-----------------------------------------------------------------------------
Existing  == {t \in Watched!Ids : life[t] # NoTask}
Newest    == Cardinality(Existing)

\* What observeCurrentTask emits: the task with the latest createdAt, or none.
Snapshot == IF Existing = {} THEN [status |-> "none", timed |-> FALSE]
            ELSE [status |-> life[Newest].status, timed |-> life[Newest].timed]

\* A step of the parent, of the child, or of a trigger on the newest task.
TaskChanges ==
    /\ Watched!Next
    /\ changed' = (changed \/ Snapshot' # Snapshot)
    /\ UNCHANGED <<air, seen, window, missed>>

\* analyzeTaskPhoto writes its result: the document changes, the status does not.
AnalysisWritten ==
    /\ Existing # {} /\ life[Newest].status \in Watched!Submitted
    /\ changed' = TRUE
    /\ UNCHANGED <<life, air, seen, window, missed>>

Broadcast == Cardinality(air) < MaxAir /\ air' = air \cup {Snapshot}

\* The listeners are called with the newest task.
ObserveCurrentTask ==
    /\ changed
    /\ Broadcast
    /\ changed' = FALSE
    /\ UNCHANGED <<life, seen, window, missed>>

\* Variant: a start of the service that is running adds no listener.
OnStartCommandOnce ==
    /\ missed = 0
    /\ Broadcast
    /\ UNCHANGED <<life, changed, seen, window, missed>>

OnStartCommand ==
    /\ Broadcast
    /\ UNCHANGED <<life, changed, seen, window, missed>>

\* Variant: the window opens for any task with a duration.
OpensWindowAny(b) == b.timed

OpensWindow(b) == b.status = "approved" /\ b.timed

\* taskStatusReceiver.
OnReceive(b) ==
    /\ b \in air
    /\ air' = air \ {b}
    /\ seen' = b.status
    /\ window' = OpensWindow(b)
    /\ UNCHANGED <<life, changed, missed>>

Miss == missed < MaxMissed /\ missed' = missed + 1

\* The accessibility service is not running when the broadcast is sent.
MissBroadcast(b) ==
    /\ b \in air /\ Miss
    /\ air' = air \ {b}
    /\ UNCHANGED <<life, changed, seen, window>>

\* The accessibility service is killed and created again; onCreate loads
\* unlockEndTime, and nothing remembers the status.
OnCreate ==
    /\ seen # "none" /\ Miss
    /\ seen' = "none"
    /\ UNCHANGED <<life, changed, air, window>>

WindowEnds ==
    /\ window
    /\ window' = FALSE
    /\ UNCHANGED <<life, changed, air, seen, missed>>

Locking == {"pending", "pending_approval", "rejected"}

IsTaskLockActive == ~(seen = "approved" /\ window) /\ seen \in Locking

-----------------------------------------------------------------------------
PhoneNext ==
    \/ TaskChanges
    \/ AnalysisWritten
    \/ ObserveCurrentTask
    \/ OnStartCommand
    \/ \E b \in air : OnReceive(b) \/ MissBroadcast(b)
    \/ OnCreate
    \/ WindowEnds

PhoneSpec == PhoneInit /\ [][PhoneNext]_phoneVars

\* Firestore calls the listeners, Android delivers broadcasts, and the worker
\* starts the service every 15 minutes.
PhoneFairness ==
    /\ WF_phoneVars(ObserveCurrentTask)
    /\ WF_phoneVars(OnStartCommand)
    /\ \A b \in Broadcasts : WF_phoneVars(OnReceive(b))

PhoneFairSpec == PhoneSpec /\ PhoneFairness

-----------------------------------------------------------------------------
\* The phone opens the unlock window only when a parent has approved a task
\* with an unlockDuration, whatever order and repetition the broadcasts come
\* in and whichever task they are about.
WindowNeedsApproval ==
    window => \E t \in Existing : life[t].timed /\ life[t].wasApproved

\* Once the newest task stays undecided or rejected the screen ends up locked,
\* and once it stays approved the lock ends up released, although broadcasts
\* overtake each other or are missed, and the service forgets the status when
\* it is killed.
ShouldLock == Existing # {} /\ life[Newest].status \in Locking
LockFollowsNewestTask ==
    /\ <>[]ShouldLock => <>[]IsTaskLockActive
    /\ <>[](Existing # {} /\ ~ShouldLock) => <>[]~IsTaskLockActive

=============================================================================
