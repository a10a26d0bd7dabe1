---------------------------- MODULE Enforcement ----------------------------
(***************************************************************************)
(* How the Android app keeps a child out of an app: the accessibility      *)
(* service follows the app in front, compares it with the rules and covers *)
(* the screen with an overlay (child/MiniMasterAccessibilityService,       *)
(* ChildProtectionPolicy, EventProcessingPipeline, RuleSnapshotProvider,   *)
(* RuleEngine, BlockingOverlayService).                                    *)
(*                                                                         *)
(* The service's own thread runs its handlers and rounds one at a time.    *)
(* What they find goes to coroutines, which wait for the server before     *)
(* they decide, by the rules then stored; the worker that stores rules has *)
(* another thread.  The limits and hours that the rounds compare with are  *)
(* those the service has last read.                                        *)
(*                                                                         *)
(* Abstractions.  A limit is one that is used up: counting is ScreenTime's *)
(* matter.  Equal events of the pipeline are one: they are decided alike.  *)
(* A policy reaches the device with the heartbeat: commands are            *)
(* ControlPlane's matter.  Left out are a daily limit of 0, for which there *)
(* is no rule to block by, and an overlay that the system does not show.   *)
(***************************************************************************)
EXTENDS Naturals

CONSTANTS
    Apps,            \* the apps that are not the system's, nor the app itself
    MaxPolicies,     \* bound of the parent's changes
    MaxRestarts      \* bound of the restarts of the app

ASSUME EnforcementAssumption == MaxPolicies \in Nat /\ MaxRestarts \in Nat

VARIABLES
    policy,          \* on the server: the blocked apps, and rules that are used up
    stored,          \* accessibility_rules: blocked_apps and usage_rules
    unread,          \* last_update is later than lastRulesUpdateTimestamp
    sameMilli,       \* the clock still shows the lastRulesUpdateTimestamp
    loaded,          \* the usage rules the service has parsed
    worker,          \* the heartbeat between two writes
    outside,         \* the clock is outside the allowed hours
    screen,          \* what is in front
    opened,          \* window events under way to the service
    currentForegroundApp,
    pipeline,        \* events of the deterministic pipeline, not yet decided
    overlay,         \* the overlay covers the screen
    taskLocked,      \* isTaskLockActive
    monitoring,      \* checkAppRunnable is posted
    policies, restarts      \* bounded by the constants

ruleVars   == <<policy, stored, unread, sameMilli, loaded, worker, policies>>
screenVars == <<screen, opened, currentForegroundApp, pipeline, overlay>>
worldVars  == <<outside, taskLocked, monitoring, restarts>>
enforcementVars == <<ruleVars, screenVars, worldVars>>

Windows    == Apps \cup {"launcher"}        \* com.android..., or the app itself
UsageRules == SUBSET {"limit", "hours"}
Policies   == [blocked : SUBSET Apps, rules : UsageRules]
AppEvents  == [type : {"APP_OPENED", "TIME_LIMIT_REACHED"}, app : Windows]

EnforcementTypeOK ==
    /\ policy \in Policies /\ stored \in Policies
    /\ unread \in BOOLEAN /\ sameMilli \in BOOLEAN
    /\ loaded \in UsageRules
    /\ worker \in {"idle", "rules"}
    /\ outside \in BOOLEAN /\ overlay \in BOOLEAN /\ taskLocked \in BOOLEAN
    /\ monitoring \in BOOLEAN
    /\ screen \in Windows
    /\ opened \subseteq Apps
    /\ currentForegroundApp \in Windows \cup {"none"}
    /\ pipeline \subseteq AppEvents
    /\ policies \in 0..MaxPolicies /\ restarts \in 0..MaxRestarts

EnforcementInit ==
    /\ policy = [blocked |-> {}, rules |-> {}]
    /\ stored = policy
    /\ unread = FALSE /\ sameMilli = FALSE
    /\ loaded = {} /\ worker = "idle"
    /\ outside = FALSE /\ taskLocked = FALSE /\ monitoring = TRUE
    /\ screen = "launcher" /\ opened = {} /\ currentForegroundApp = "none"
    /\ pipeline = {} /\ overlay = FALSE
    /\ policies = 0 /\ restarts = 0

-----------------------------------------------------------------------------
(* The rules.                                                              *)

\* The parent's settings; the child's usage decides which rules are used up.
SetPolicy(p) ==
    /\ policies < MaxPolicies /\ policies' = policies + 1
    /\ policy' = p
    /\ UNCHANGED <<stored, unread, sameMilli, loaded, worker, screenVars, worldVars>>

\* setBlockedApps, setUsageRules: each stamps its write with the clock.
Stamp == unread' = (unread \/ ~sameMilli)

\* applyFullPolicy: first the blocked apps ...
ApplyBlockedApps ==
    /\ worker = "idle" /\ worker' = "rules"
    /\ stored' = [stored EXCEPT !.blocked = policy.blocked]
    /\ Stamp
    /\ UNCHANGED <<policy, sameMilli, loaded, policies, screenVars, worldVars>>

\* ... then the usage rules.
ApplyUsageRules ==
    /\ worker = "rules" /\ worker' = "idle"
    /\ stored' = [stored EXCEPT !.rules = policy.rules]
    /\ Stamp
    /\ UNCHANGED <<policy, sameMilli, loaded, policies, screenVars, worldVars>>

NextMilli ==
    /\ sameMilli /\ sameMilli' = FALSE
    /\ UNCHANGED <<policy, stored, unread, loaded, worker, policies, screenVars, worldVars>>

-----------------------------------------------------------------------------
(* The service.                                                            *)

\* checkForRuleUpdates; the blocked apps it copies are not used.
CheckForRuleUpdates ==
    /\ unread' = FALSE
    /\ loaded' = IF unread THEN stored.rules ELSE loaded
    /\ sameMilli' = (unread \/ sameMilli)

Event(type, a) == [type |-> type, app |-> a]
LimitEvents(a, rules) ==
    IF a \in Apps /\ "limit" \in rules THEN {Event("TIME_LIMIT_REACHED", a)} ELSE {}

\* onForegroundAppChanged, if a is not what was in front: under a task lock the
\* app's own activity comes to the front, else the app was opened, and its
\* limits are checked at once; events are what else there is for the pipeline.
OnForegroundAppChanged(a, rules, events) ==
    /\ currentForegroundApp' = a
    /\ screen' = IF a # currentForegroundApp /\ taskLocked THEN "launcher" ELSE screen
    /\ pipeline' = pipeline \cup events \cup
                   (IF a = currentForegroundApp \/ taskLocked THEN {}
                    ELSE {Event("APP_OPENED", a)} \cup LimitEvents(a, rules))
    /\ UNCHANGED <<overlay, worldVars>>

\* A window event: the system's windows and the app's own are passed over.
HandleWindowStateChanged(a) ==
    /\ a \in opened /\ opened' = opened \ {a}
    /\ OnForegroundAppChanged(a, loaded, {})
    /\ UNCHANGED ruleVars

\* Variant: the limits are checked when the app changes only.
ChecksOfChange(a, rules) == {}

\* checkUsageLimits and checkTimeWindow, of every round.
Checks(a, rules) ==
    LimitEvents(a, rules) \cup
    IF a \in Apps /\ "hours" \in rules /\ outside THEN {Event("APP_OPENED", a)} ELSE {}

\* checkAppRunnable, every second while it is posted, with a as the app in front.
Round(a) ==
    /\ monitoring
    /\ CheckForRuleUpdates
    /\ OnForegroundAppChanged(a, loaded, Checks(a, loaded'))
    /\ UNCHANGED <<policy, stored, worker, policies, opened>>

\* The usage statistics name the app in front, or nothing.
RoundSeesScreen == Round(screen)
RoundSeesNothing == currentForegroundApp # "none" /\ Round(currentForegroundApp)

\* onInterrupt: the system may call it at any time, and the rounds end.
OnInterrupt ==
    /\ monitoring /\ monitoring' = FALSE
    /\ UNCHANGED <<ruleVars, screenVars, outside, taskLocked, restarts>>

\* The rules of RuleSnapshotProvider, as RuleEngine evaluates them.
Blocks(e) ==
    IF e.type = "APP_OPENED"
    THEN e.app \in stored.blocked \/ ("hours" \in stored.rules /\ outside)
    ELSE "limit" \in stored.rules

\* A coroutine of the pipeline, once its pending events are flushed or the calls
\* failed: blockApplication sends a BACK to whatever is in front by now, and
\* shows the overlay.
Process(e) ==
    /\ e \in pipeline /\ pipeline' = pipeline \ {e}
    /\ IF Blocks(e)
       THEN overlay' = TRUE /\ screen' \in {screen, "launcher"}
       ELSE UNCHANGED <<overlay, screen>>
    /\ UNCHANGED <<ruleVars, opened, currentForegroundApp, worldVars>>

-----------------------------------------------------------------------------
(* The child and the clock.                                                *)

\* Opening an app that is in front already raises a window event, too.
Open(a) ==
    /\ screen' = a /\ opened' = opened \cup {a}
    /\ UNCHANGED <<ruleVars, currentForegroundApp, pipeline, overlay, worldVars>>

Leave ==
    /\ screen' = "launcher"
    /\ UNCHANGED <<ruleVars, opened, currentForegroundApp, pipeline, overlay, worldVars>>

\* "Go Back" on the overlay.
GoBack ==
    /\ overlay /\ overlay' = FALSE
    /\ screen' = "launcher"
    /\ UNCHANGED <<ruleVars, opened, currentForegroundApp, pipeline, worldVars>>

HourPasses ==
    /\ outside' = ~outside
    /\ UNCHANGED <<ruleVars, screenVars, taskLocked, monitoring, restarts>>

\* A task is assigned, decided, or its unlock time ends.
TaskLockChanges ==
    /\ taskLocked' = ~taskLocked
    /\ UNCHANGED <<ruleVars, screenVars, outside, monitoring, restarts>>

\* The app's process is killed, and the system connects the service again:
\* onServiceConnected starts the rounds.
Restart ==
    /\ restarts < MaxRestarts /\ restarts' = restarts + 1
    /\ unread' = TRUE /\ sameMilli' = FALSE /\ loaded' = {}
    /\ worker' = "idle" /\ monitoring' = TRUE
    /\ opened' = {} /\ currentForegroundApp' = "none" /\ pipeline' = {} /\ overlay' = FALSE
    /\ UNCHANGED <<policy, stored, policies, screen, outside, taskLocked>>

EnforcementNext ==
    \/ \E p \in Policies : SetPolicy(p)
    \/ ApplyBlockedApps \/ ApplyUsageRules \/ NextMilli
    \/ \E a \in Apps : HandleWindowStateChanged(a) \/ Open(a)
    \/ RoundSeesScreen \/ RoundSeesNothing \/ OnInterrupt
    \/ \E e \in pipeline : Process(e)
    \/ Leave \/ GoBack \/ HourPasses \/ TaskLockChanges \/ Restart

\* The worker comes again and again, its writes and the clock go on, coroutines
\* too: their calls of the server end, with a failure at the latest.  Rounds go on
\* until an interrupt; the usage statistics know the app in front.  Window events
\* may fail to come.
EnforcementFairness ==
    /\ WF_enforcementVars(ApplyBlockedApps \/ ApplyUsageRules)
    /\ WF_enforcementVars(NextMilli)
    /\ WF_enforcementVars(RoundSeesScreen)
    /\ \A e \in AppEvents : WF_enforcementVars(Process(e))

EnforcementSpec == EnforcementInit /\ [][EnforcementNext]_enforcementVars /\ EnforcementFairness

-----------------------------------------------------------------------------
\* The child stays with an app.
Stays(a) == screen = a

\* A rule about app a is used up: its limit, or its hours.
UsedUp(a) ==
    Stays(a) /\ ("limit" \in policy.rules \/ ("hours" \in policy.rules /\ outside))

\* An app whose time is used up is covered, or left, however the rules, the
\* rounds and the coroutines overlap; and so is an app outside the allowed
\* hours.  That is so while the rounds go on: only they look at the clock.
UsedUpIsCovered == \A a \in Apps : <>[](monitoring /\ UsedUp(a)) => <>[]overlay

\* "This dual-check mechanism ensures that the app can block applications based
\* on the latest rules and can also detect if a user quickly switches to a
\* blocked app" (MiniMasterAccessibilityService), asked for while both checks work.
BlockedIsCovered ==
    \A a \in Apps : <>[](monitoring /\ Stays(a) /\ a \in policy.blocked) => <>[]overlay
=============================================================================
