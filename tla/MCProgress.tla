----------------------------- MODULE MCProgress -----------------------------
(* The parts that promise progress, one at a time: a behaviour takes the   *)
(* steps of one of them.  The server's tasks and the phone's lock go apart *)
(* because what joins them is TaskLife, which Tasks implements and         *)
(* TaskPhone starts from: one task on the server (tasks are documents that *)
(* share nothing) and three concurrent calls, two tasks on the phone,      *)
(* which follows the newest.  The device's offline fallback and the        *)
(* circuit breaker, with the options the code gives it, share nothing with *)
(* them.  Enforcement takes from the phone whether a task locks it and     *)
(* from the heartbeat the policy, and leaves both open.                    *)
EXTENDS Tasks, TaskPhone, OfflinePolicy, Enforcement, CircuitBreaker

VARIABLE side    \* the part that takes the steps of this behaviour

MCInit ==
    /\ side \in {"server", "phone", "offline", "enforcement", "breaker"}
    /\ Init /\ PhoneInit /\ OfflineInit /\ EnforcementInit /\ BreakerInit
    /\ side # "offline" => system = "ios"

MCNext ==
    /\ UNCHANGED side
    /\ IF side = "server"  THEN Next        ELSE UNCHANGED vars
    /\ IF side = "phone"   THEN PhoneNext   ELSE UNCHANGED phoneVars
    /\ IF side = "offline" THEN OfflineNext ELSE UNCHANGED offlineVars
    /\ IF side = "enforcement" THEN EnforcementNext ELSE UNCHANGED enforcementVars
    /\ IF side = "breaker" THEN BreakerNext ELSE UNCHANGED breakerVars

\* The fairness of each part, for the part that takes the steps.
MCFairness ==
    /\ Fairness
    /\ WF_phoneVars(side = "phone" /\ ObserveCurrentTask)
    /\ WF_phoneVars(side = "phone" /\ OnStartCommand)
    /\ \A b \in Broadcasts : WF_phoneVars(side = "phone" /\ OnReceive(b))
    /\ WF_offlineVars(side = "offline" /\ (DoWork \/ Heartbeat \/ SyncPolicySnapshot
                                            \/ EnforceOfflineFallback))
    /\ WF_offlineVars(side = "offline" /\ FetchAndApply)
    /\ \A f \in Flows : WF_offlineVars(side = "offline" /\ (Pull(f) \/ ReportHeartbeat(f)))
    /\ WF_offlineVars(side = "offline" /\ (FinishHeartbeat \/ WakeUp))
    /\ WF_offlineVars(side = "offline" /\ OnAppStart)
    /\ WF_offlineVars(side = "offline" /\ Expire)
    /\ WF_enforcementVars(side = "enforcement" /\ (ApplyBlockedApps \/ ApplyUsageRules))
    /\ WF_enforcementVars(side = "enforcement" /\ NextMilli)
    /\ WF_enforcementVars(side = "enforcement" /\ RoundSeesScreen)
    /\ \A e \in AppEvents : WF_enforcementVars(side = "enforcement" /\ Process(e))
    /\ \A p \in BreakerCalls : WF_breakerVars(side = "breaker" /\ Answer(p))
    /\ WF_breakerVars(side = "breaker" /\ Rest)
    /\ WF_breakerVars(side = "breaker" /\ \E p \in BreakerCalls : Execute(p))

MCSpec == /\ MCInit
          /\ [][MCNext]_<<vars, phoneVars, offlineVars, enforcementVars, breakerVars, side>>
          /\ MCFairness

MCTypeOK == TypeOK /\ PhoneTypeOK /\ OfflineTypeOK /\ EnforcementTypeOK /\ BreakerTypeOK
=============================================================================
