--------------------------- MODULE OfflinePolicy ---------------------------
(***************************************************************************)
(* The policy a child device has in force when the server is out of reach: *)
(* after 72 hours without contact the device falls back to the safe mode,  *)
(* a full lock.  One device, with the Android app (HeartbeatWorker,        *)
(* CommandSyncRepository, child/OfflinePolicyCache) or with the iOS app    *)
(* (CommandSyncService, OfflinePolicyCache, MainChildView).                *)
(*                                                                         *)
(* Every network call is two steps, so the flows of the app interleave,    *)
(* the connection comes and goes between them, and the app can be killed   *)
(* or suspended; what is persisted survives.                               *)
(*                                                                         *)
(* Abstractions.  In force is the stored "policy", "safe", or something    *)
(* "outdated": an iOS app that was not granted Family Controls stores what *)
(* arrives and shields nothing.  The clock appears as age: whether the     *)
(* persisted time of the last contact is 72 hours old, or was never set.   *)
(* Left out are unpairing, usage reports, tamper reports and a grant that  *)
(* is taken back.                                                          *)
(***************************************************************************)
EXTENDS Naturals

CONSTANTS
    Systems,    \* the operating systems considered
    MaxKills    \* bound of the times the app is killed

ASSUME OfflineAssumption == MaxKills \in Nat

VARIABLES
    system,     \* the device's, a member of Systems
    online,     \* calls of the server succeed
    active,     \* the app may run: always on Android, in the foreground on iOS
    age,        \* "fresh" or "expired"
    inForce,    \* what the device enforces
    safeMode,   \* inSafeModeKey of the iOS app
    authorized, \* isAuthorized: the app was granted Family Controls (iOS)
    flow,       \* flow[f]: what flow f is waiting for, "idle" when it is not running
    kills       \* times the app was killed

policyVars  == <<age, inForce, safeMode>>
deviceVars  == <<system, online, active, authorized, kills>>
offlineVars == <<policyVars, deviceVars, flow>>

Flows == {"worker", "command",                  \* Android
          "pairing", "start", "path", "refresh", "loop"}   \* iOS
Waits == {"idle", "grant", "heartbeat", "snapshot", "fetch", "enforce", "sleep", "done"}

OfflineTypeOK ==
    /\ system \in Systems
    /\ online \in BOOLEAN /\ active \in BOOLEAN
    /\ age \in {"fresh", "expired"}
    /\ inForce \in {"policy", "safe", "outdated"}
    /\ safeMode \in BOOLEAN /\ authorized \in BOOLEAN
    /\ kills \in 0..MaxKills
    /\ flow \in [Flows -> Waits]

\* A device just paired: no contact is recorded, the default policy is in force,
\* and the pairing view of the iOS app asks for Family Controls.
OfflineInit ==
    /\ system \in Systems
    /\ online = TRUE
    /\ active = TRUE
    /\ age = "expired"
    /\ inForce = "policy"
    /\ safeMode = FALSE /\ authorized = FALSE
    /\ kills = 0
    /\ flow = [f \in Flows |-> IF system = "ios" /\ f = "pairing" THEN "grant" ELSE "idle"]

Goto(f, w) == flow' = [flow EXCEPT ![f] = w] /\ UNCHANGED deviceVars

-----------------------------------------------------------------------------
(* Android: a periodic worker, and a pull of commands after a push.        *)

\* The worker runs every 15 minutes, and again after a retry, online or not.
DoWork ==
    /\ system = "android" /\ flow["worker"] = "idle"
    /\ Goto("worker", "heartbeat")
    /\ UNCHANGED policyVars

\* recordHeartbeat; its failure ends the run.
Heartbeat ==
    /\ system = "android" /\ flow["worker"] = "heartbeat"
    /\ Goto("worker", IF online THEN "snapshot" ELSE "idle")
    /\ UNCHANGED policyVars

\* syncPolicySnapshot, with version 0 as the known one: the server always
\* answers with the full policy.  It swallows its own failure.
SyncPolicySnapshot ==
    /\ system = "android" /\ flow["worker"] = "snapshot"
    /\ IF online THEN inForce' = "policy" /\ age' = "fresh" ELSE UNCHANGED <<inForce, age>>
    /\ Goto("worker", "enforce")
    /\ UNCHANGED safeMode

\* enforceOfflineFallbackIfExpired, as the last step of the run.
EnforceOfflineFallback ==
    /\ system = "android" /\ flow["worker"] = "enforce"
    /\ inForce' = IF age = "expired" THEN "safe" ELSE inForce
    /\ Goto("worker", "idle")
    /\ UNCHANGED <<age, safeMode>>

\* A push starts fetchAndApplyPendingCommands, which records no contact.
PushCommand ==
    /\ system = "android" /\ flow["command"] = "idle" /\ online
    /\ Goto("command", "fetch")
    /\ UNCHANGED policyVars

FetchAndApply ==
    /\ system = "android" /\ flow["command"] = "fetch"
    /\ inForce' \in IF online THEN {inForce, "policy"} ELSE {inForce}
    /\ Goto("command", "idle")
    /\ UNCHANGED <<age, safeMode>>

-----------------------------------------------------------------------------
(* iOS.                                                                    *)

\* applyPolicy of the stored policy: applyShields and applyUsageRules return at once
\* without the authorization.
Enforced == IF authorized THEN "policy" ELSE "outdated"

\* Variant: only a newer policy is put in force, as for an Android snapshot.
ContactRecordedOnly(applied) ==
    /\ age' = "fresh"
    /\ inForce' = IF applied THEN Enforced ELSE inForce
    /\ safeMode' = FALSE

\* noteServerContact, after a call that brought something to store and apply, or
\* nothing: the contact is recorded, and a device in safe mode gets its policy back.
NoteServerContact(applied) ==
    /\ age' = "fresh"
    /\ inForce' = IF applied \/ (safeMode /\ authorized) THEN Enforced ELSE inForce
    /\ safeMode' = FALSE

\* enforceOfflineSafeModeIfNeeded: the flag is set whether or not the app can lock.
EnforceSafeMode ==
    /\ safeMode' = (age = "expired" \/ safeMode)
    /\ inForce' = IF age = "expired" /\ authorized THEN "safe" ELSE inForce
    /\ UNCHANGED age

\* Where flow f goes after a call: onAppStart and the handler of the network
\* path fetch after the snapshot, and onAppStart sends a heartbeat at the end.
After(f) ==
    CASE flow[f] = "snapshot" -> "fetch"
      [] flow[f] = "fetch" /\ f = "start" -> "heartbeat"
      [] flow[f] = "heartbeat" -> IF f = "loop" THEN "enforce" ELSE "done"
      [] OTHER -> "idle"

\* The main view appears, once in the life of the process.
OnAppStart ==
    /\ system = "ios" /\ active /\ flow["start"] = "idle"
    /\ Goto("start", "snapshot")
    /\ UNCHANGED policyVars

\* The child pulls the view down.
Refresh ==
    /\ system = "ios" /\ active /\ flow["refresh"] = "idle"
    /\ Goto("refresh", "fetch")
    /\ UNCHANGED policyVars

\* syncPolicySnapshot or fetchAndApplyAllCommands answers, with something to
\* apply or without, or fails.
Pull(f) ==
    /\ system = "ios" /\ active /\ flow[f] \in {"snapshot", "fetch"}
    /\ IF online THEN \E applied \in BOOLEAN : NoteServerContact(applied) ELSE EnforceSafeMode
    /\ Goto(f, After(f))

\* reportHeartbeat, which swallows its failure.  At the end of onAppStart the
\* foreground heartbeat starts, unless it is running.
ReportHeartbeat(f) ==
    /\ system = "ios" /\ active /\ flow[f] = "heartbeat"
    /\ IF online THEN NoteServerContact(FALSE) ELSE UNCHANGED policyVars
    /\ flow' = IF f = "start" /\ flow["loop"] = "idle"
               THEN [flow EXCEPT !["start"] = "done", !["loop"] = "heartbeat"]
               ELSE [flow EXCEPT ![f] = After(f)]
    /\ UNCHANGED deviceVars

\* Variant: the loop only reports.
FinishHeartbeatOnly ==
    /\ system = "ios" /\ active /\ flow["loop"] = "enforce"
    /\ Goto("loop", "sleep")
    /\ UNCHANGED policyVars

\* The end of sendForegroundHeartbeat, and the sleep of 15 minutes after it.
FinishHeartbeat ==
    /\ system = "ios" /\ active /\ flow["loop"] = "enforce"
    /\ EnforceSafeMode
    /\ Goto("loop", "sleep")

WakeUp ==
    /\ system = "ios" /\ active /\ flow["loop"] = "sleep"
    /\ Goto("loop", "heartbeat")
    /\ UNCHANGED policyVars

\* The child answers the question of the pairing view, which applies no policy: the
\* main view has appeared by then, and may have pulled and stored it.
AnswerPairingGrant ==
    /\ system = "ios" /\ active /\ flow["pairing"] = "grant"
    /\ authorized' \in {authorized, TRUE}
    /\ flow' = [flow EXCEPT !["pairing"] = "idle"]
    /\ UNCHANGED <<system, online, active, kills, policyVars>>

\* requestFamilyControls of the main view, once granted, applies the stored policy, whatever the mode.
RequestFamilyControls ==
    /\ system = "ios" /\ active /\ ~authorized
    /\ authorized' = TRUE
    /\ inForce' = "policy"
    /\ UNCHANGED <<system, online, active, kills, age, safeMode, flow>>

-----------------------------------------------------------------------------
(* The device and its network.                                             *)

\* Coming back online starts the handler of the network path.
Connect ==
    /\ ~online /\ online' = TRUE
    /\ flow' = IF system = "ios" /\ active /\ flow["path"] = "idle"
               THEN [flow EXCEPT !["path"] = "snapshot"] ELSE flow
    /\ UNCHANGED <<system, active, authorized, kills, policyVars>>

Disconnect ==
    /\ online /\ online' = FALSE
    /\ UNCHANGED <<system, active, authorized, kills, policyVars, flow>>

\* 72 hours without contact; with a connection they do not pass inside a flow.
Expire ==
    /\ age = "fresh" /\ age' = "expired"
    /\ online => \A f \in Flows : flow[f] \in {"idle", "grant", "sleep", "done"}
    /\ UNCHANGED <<deviceVars, inForce, safeMode, flow>>

\* The iOS app goes to the background, where it is suspended, or comes back.
Suspend ==
    /\ system = "ios" /\ active' = ~active
    /\ UNCHANGED <<system, online, authorized, kills, policyVars, flow>>

\* The process is killed: its flows are gone.  The iOS app is opened again later.
Kill ==
    /\ kills < MaxKills /\ kills' = kills + 1
    /\ flow' = [f \in Flows |-> "idle"]
    /\ active' = (system = "android")
    /\ UNCHANGED <<system, online, authorized, policyVars>>

Android == DoWork \/ Heartbeat \/ SyncPolicySnapshot \/ EnforceOfflineFallback
           \/ PushCommand \/ FetchAndApply
Ios == OnAppStart \/ Refresh \/ FinishHeartbeat \/ WakeUp
       \/ AnswerPairingGrant \/ RequestFamilyControls
       \/ \E f \in Flows : Pull(f) \/ ReportHeartbeat(f)

OfflineNext == Android \/ Ios \/ Connect \/ Disconnect \/ Expire \/ Suspend \/ Kill

\* WorkManager runs the worker again and again, calls are answered or time out,
\* the view of an app in the foreground appears once, and the clock
\* moves.
OfflineFairness ==
    /\ WF_offlineVars(DoWork \/ Heartbeat \/ SyncPolicySnapshot \/ EnforceOfflineFallback)
    /\ WF_offlineVars(FetchAndApply)
    /\ \A f \in Flows : WF_offlineVars(Pull(f) \/ ReportHeartbeat(f))
    /\ WF_offlineVars(FinishHeartbeat \/ WakeUp)
    /\ WF_offlineVars(OnAppStart)
    /\ WF_offlineVars(Expire)

OfflineSpec == OfflineInit /\ [][OfflineNext]_offlineVars /\ OfflineFairness

-----------------------------------------------------------------------------
\* Nobody is locked out by a server that answers: a device is in safe mode only
\* after 72 hours without contact, and the iOS app knows that it is and is allowed
\* to lift the lock, so that the next call that succeeds takes the device out,
\* whichever of its flows made it.
LockedOnlyWithoutContact ==
    inForce = "safe" => age = "expired" /\ (system = "ios" => safeMode /\ authorized)

\* The app can lock the device: any Android app, and an iOS app that is in the
\* foreground and was granted Family Controls.
CanLock == active /\ (system = "ios" => authorized)

\* A device that stays offline ends up in safe mode, if its app can lock it.
OfflineEndsInSafeMode == <>[](~online /\ CanLock) => <>[](inForce = "safe")

\* The iOS app keeps this: it falls back when a call fails and in its loop,
\* although its flows overlap and one of them may still apply the policy.
IosEndsInSafeMode == system = "ios" => OfflineEndsInSafeMode

\* A device that stays online leaves the safe mode for good, even when the policy
\* did not change in the meantime.
OnlineEndsWithPolicy == <>[](online /\ active) => <>[](inForce # "safe")
=============================================================================
