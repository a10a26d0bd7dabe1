---------------------------- MODULE ControlPlane ----------------------------
(***************************************************************************)
(* One child device's policy, from the parent's setting to the device:     *)
(*   - the parent's callables write the settings into children/{k}         *)
(*     (src/src/device.ts);                                                *)
(*   - an update trigger numbers the change, stores one command for each   *)
(*     changed field and sends a push (src/src/triggers.ts);               *)
(*   - the Android app, woken by the push, fetches, applies and            *)
(*     acknowledges the pending commands; every 15 minutes it applies a    *)
(*     snapshot of the settings and the pending lock commands              *)
(*     (src/src/device-sync.ts, src/childApp/.../CommandSyncRepository.kt).*)
(*                                                                         *)
(* Firestore delivers update events at least once and in any order, each   *)
(* with the documents before and after the write; several triggers and     *)
(* several coroutines of the app run at the same time.                     *)
(*                                                                         *)
(* Abstractions.  A setting has a value of a small set, or None when the   *)
(* document has no such field.  A page of 50 commands holds all pending    *)
(* ones.  The push carries nothing: with the policyVersion in it, the app  *)
(* ignores the values.  The 72 h safe mode of the app is not modelled.     *)
(***************************************************************************)
EXTENDS Integers, Sequences, FiniteSets, FiniteSetsExt

CONSTANTS
    Fields,         \* the settings in use, among those in FieldOrder
    Values,         \* values of a setting
    Default,        \* what a setting that was never made means: unlocked, no limits
    Masters,        \* parent accounts
    Setters,        \* parents' calls in flight
    Triggers,       \* trigger invocations in flight
    Coroutines,     \* command fetches in flight on the device
    SnapshotLimit,  \* pending commands a snapshot looks at (10 in the code)
    None,
    MaxChanges,     \* bound: settings written
    MaxDups,        \* bound: events delivered once more
    MaxLosses,      \* bound: pushes, acks and invocations that are lost or fail
    MaxRepairs      \* bound: pairings again through a link token

FieldOrder == <<"lock_state", "app_blacklist", "usage_rules">>

ASSUME ControlPlaneAssumption ==
    /\ Fields \subseteq {FieldOrder[i] : i \in 1..Len(FieldOrder)}
    /\ Default \in Values /\ None \notin Values
    /\ SnapshotLimit \in Nat
    /\ {MaxChanges, MaxDups, MaxLosses, MaxRepairs} \subseteq Nat

VARIABLES
    policy,       \* children/{k}: isLocked, appBlacklist, usageRules
    owner,        \* children/{k}.masterImei
    version,      \* children/{k}.policyVersion
    lastVersion,  \* children/{k}.lastPolicyVersion
    fcm,          \* children/{k}.fcmToken is set
    cmds,         \* children/{k}/commands, in the order of expiresAt and createdAt
    setter,       \* parents' calls between the check and the update
    events,       \* update events not yet handed to a trigger
    trig,         \* triggers in flight
    runs,         \* triggers that stored or will store commands
    pushes,       \* pushes under way
    dev,          \* the policy in force on the device
    work,         \* the device's coroutines and its periodic worker
    changes, dups, losses, repairs      \* bounded by the constants

childDoc == <<policy, owner, version, lastVersion, fcm>>
bounds   == <<changes, dups, losses, repairs>>
vars     == <<childDoc, cmds, setter, events, trig, runs, pushes, dev, work, bounds>>

Workers  == Coroutines \cup {"heartbeat"}
Policies == [Fields -> Values]
Settings == [Fields -> Values \cup {None}]
Statuses == {"pending", "applied", "failed"}
Idle     == [pc |-> "idle"]

\* A trigger with its event, the fields it has yet to store, its version and number.
TriggerRuns(E) == {Idle} \cup [pc : {"bump", "write", "push"}, event : E, todo : SUBSET Fields,
                               version : Nat, run : Nat]
\* A worker with the snapshot it read and the numbers of the commands it has yet to apply.
Jobs(n) == {Idle} \cup [pc : {"critical", "full", "apply", "ack"}, snap : Policies \cup {None},
                        todo : SUBSET (1..n), outcome : {"applied", "failed"}]

Commands == [field : Fields, value : Values, version : Nat, run : Nat, status : Statuses,
             expired : BOOLEAN]
Events   == [id : Nat, before : Settings, after : Settings, fcm : BOOLEAN]

TypeOK ==
    /\ policy \in Settings /\ dev \in Policies
    /\ owner \in Masters
    /\ version \in Nat /\ lastVersion \in Nat /\ runs \in Nat
    /\ fcm \in BOOLEAN
    /\ cmds \in Seq(Commands)
    /\ events \subseteq Events
    /\ pushes \in Nat
    /\ setter \in [Setters -> Masters \cup {None}]
    /\ trig \in [Triggers -> TriggerRuns(Events)]
    /\ work \in [Workers -> Jobs(Len(cmds))]
    /\ changes \in 0..MaxChanges /\ dups \in 0..MaxDups
    /\ losses \in 0..MaxLosses /\ repairs \in 0..MaxRepairs

NoSettings == [f \in Fields |-> None]

Init ==
    /\ policy = NoSettings
    /\ dev = [f \in Fields |-> Default]
    /\ owner \in Masters
    /\ version = 0 /\ lastVersion = 0 /\ runs = 0
    /\ fcm = FALSE
    /\ cmds = <<>>
    /\ setter = [s \in Setters |-> None]
    /\ events = {}
    /\ trig = [t \in Triggers |-> Idle]
    /\ pushes = 0
    /\ work = [w \in Workers |-> Idle]
    /\ changes = 0 /\ dups = 0 /\ losses = 0 /\ repairs = 0

Lose == losses < MaxLosses /\ losses' = losses + 1 /\ UNCHANGED <<changes, dups, repairs>>

-----------------------------------------------------------------------------
(* The document of the child, and its update events.                       *)

\* What settings amount to on a device.
Effective(s) == [f \in Fields |-> IF s[f] = None THEN Default ELSE s[f]]

\* A missing blacklist is compared as an empty one; a lock or rules set for the
\* first time are a change even when they change nothing on the device.
Changed(e) == {f \in Fields : IF f = "app_blacklist"
                              THEN Effective(e.before)[f] # Effective(e.after)[f]
                              ELSE e.before[f] # e.after[f]}

\* Firestore emits an event for the write; the trigger ignores one that changed
\* no setting.
Emit(new, token) ==
    LET e == [id |-> changes + 1, before |-> policy, after |-> new, fcm |-> token] IN
    events' = IF Changed(e) = {} THEN events ELSE events \cup {e}

\* setDeviceLocked, updateAppBlacklist, setUsageRules: the ownership check ...
CheckOwner(s, m) ==
    /\ setter[s] = None
    /\ owner = m
    /\ setter' = [setter EXCEPT ![s] = m]
    /\ UNCHANGED <<childDoc, cmds, events, trig, runs, pushes, dev, work, bounds>>

\* ... and the update of the one field the call is about.
WriteSetting(s, f, v) ==
    LET new == [policy EXCEPT ![f] = v] IN
    /\ setter[s] # None
    /\ changes < MaxChanges
    /\ changes' = changes + 1
    /\ policy' = new
    /\ Emit(new, fcm)
    /\ setter' = [setter EXCEPT ![s] = None]
    /\ UNCHANGED <<owner, version, lastVersion, fcm, cmds, trig, runs, pushes, dev, work,
                   dups, losses, repairs>>

\* registerFcmToken, registerDeviceEndpoint with provider "fcm".
RegisterToken ==
    /\ ~fcm /\ fcm' = TRUE
    /\ UNCHANGED <<policy, owner, version, lastVersion, cmds, setter, events, trig, runs,
                   pushes, dev, work, bounds>>

\* validatePairingToken for a known child: set() without merge drops every other
\* field of the document; the commands below it stay.
PairAgain(m) ==
    /\ repairs < MaxRepairs
    /\ changes < MaxChanges
    /\ repairs' = repairs + 1
    /\ changes' = changes + 1
    /\ owner' = m
    /\ policy' = NoSettings
    /\ version' = 0 /\ lastVersion' = 0
    /\ fcm' = FALSE
    /\ Emit(NoSettings, FALSE)
    /\ UNCHANGED <<cmds, setter, trig, runs, pushes, dev, work, dups, losses>>

-----------------------------------------------------------------------------
(* onChildDeviceUpdateV2.                                                  *)

\* Delivery; the event may come once more later.
Deliver(e) == \/ events' = events \ {e} /\ UNCHANGED bounds
              \/ /\ dups < MaxDups /\ dups' = dups + 1
                 /\ UNCHANGED <<events, changes, losses, repairs>>

StartTrigger(t, e) ==
    /\ trig[t] = Idle
    /\ e.fcm
    /\ Deliver(e)
    /\ runs' = runs + 1
    /\ trig' = [trig EXCEPT ![t] = [pc |-> "bump", event |-> e, todo |-> Changed(e),
                                    version |-> 0, run |-> runs + 1]]
    /\ UNCHANGED <<childDoc, cmds, setter, pushes, dev, work>>

\* "No valid FCM token": returns before any command is written.
IgnoreEvent(e) ==
    /\ ~e.fcm
    /\ events' = events \ {e}
    /\ UNCHANGED <<childDoc, cmds, setter, trig, runs, pushes, dev, work, bounds>>

\* Variant: reads the version, increments it, and writes it without a transaction,
\* losing what another trigger wrote in between.
IncrementPolicyVersionRacy(t) ==
    /\ trig[t].pc = "bump"
    /\ \E v \in {version, IF version > 0 THEN version - 1 ELSE 0} :
          /\ version' = v + 1
          /\ trig' = [trig EXCEPT ![t].pc = "write", ![t].version = v + 1]
    /\ UNCHANGED <<policy, owner, lastVersion, fcm, cmds, setter, events, runs, pushes,
                   dev, work, bounds>>

\* The transaction that numbers the change.
IncrementPolicyVersion(t) ==
    /\ trig[t].pc = "bump"
    /\ version' = version + 1
    /\ trig' = [trig EXCEPT ![t].pc = "write", ![t].version = version + 1]
    /\ UNCHANGED <<policy, owner, lastVersion, fcm, cmds, setter, events, runs, pushes,
                   dev, work, bounds>>

Rank(f) == CHOOSE i \in 1..Len(FieldOrder) : FieldOrder[i] = f
First(F) == CHOOSE f \in F : \A g \in F : Rank(f) <= Rank(g)

\* writeCommand for the next changed field, with the value of the event.
WriteCommand(t) ==
    LET c == trig[t]
        f == First(c.todo) IN
    /\ c.pc = "write"
    /\ cmds' = Append(cmds, [field |-> f, value |-> c.event.after[f], version |-> c.version,
                             run |-> c.run, status |-> "pending", expired |-> FALSE])
    /\ trig' = [trig EXCEPT ![t].todo = @ \ {f},
                            ![t].pc = IF c.todo = {f} THEN "push" ELSE "write"]
    /\ UNCHANGED <<childDoc, setter, events, runs, pushes, dev, work, bounds>>

\* A failed increment or command is logged; the push is sent all the same.
CommandError(t) ==
    /\ trig[t].pc \in {"bump", "write"}
    /\ Lose
    /\ trig' = [trig EXCEPT ![t].pc = "push"]
    /\ UNCHANGED <<childDoc, cmds, setter, events, runs, pushes, dev, work>>

SendPush(t) ==
    /\ trig[t].pc = "push"
    /\ pushes' = pushes + 1
    /\ trig' = [trig EXCEPT ![t] = Idle]
    /\ UNCHANGED <<childDoc, cmds, setter, events, runs, dev, work, bounds>>

\* The invocation dies, or every attempt to send the push fails.
AbortTrigger(t) ==
    /\ trig[t] # Idle
    /\ Lose
    /\ trig' = [trig EXCEPT ![t] = Idle]
    /\ UNCHANGED <<childDoc, cmds, setter, events, runs, pushes, dev, work>>

\* The query of fetchPendingCommands: the numbers of the pending commands.
Pending == {i \in 1..Len(cmds) : cmds[i].status = "pending" /\ ~cmds[i].expired}

\* 48 hours pass, for the oldest command first; the status stays "pending".
ExpireCommand ==
    /\ Pending # {}
    /\ cmds' = [cmds EXCEPT ![Min(Pending)].expired = TRUE]
    /\ UNCHANGED <<childDoc, setter, events, trig, runs, pushes, dev, work, bounds>>

-----------------------------------------------------------------------------
(* The device.                                                             *)

\* Variant: the snapshot brings every lock command, also those acknowledged before.
CriticalAny == {i \in 1..Len(cmds) : cmds[i].field = "lock_state"}

\* The lock commands among the first pending ones a snapshot looks at.
Critical == {i \in Pending : /\ cmds[i].field = "lock_state"
                             /\ Cardinality({j \in Pending : j < i}) < SnapshotLimit}

\* A worker goes on with its commands, or is done.
Job(pc, snap, todo) == [pc |-> pc, snap |-> snap, todo |-> todo, outcome |-> "applied"]
Continue(w, todo) == work' = [work EXCEPT ![w] = IF todo = {} THEN Idle
                                                 ELSE Job("apply", None, todo)]

\* The push arrives: fetchAndApplyPendingCommands in a new coroutine.
FetchCommands(w) ==
    /\ pushes > 0 /\ pushes' = pushes - 1
    /\ w \in Coroutines /\ work[w] = Idle
    /\ Continue(w, Pending)
    /\ UNCHANGED <<childDoc, cmds, setter, events, trig, runs, dev, bounds>>

LosePush ==
    /\ pushes > 0 /\ pushes' = pushes - 1
    /\ Lose
    /\ UNCHANGED <<childDoc, cmds, setter, events, trig, runs, dev, work>>

\* HeartbeatWorker: syncPolicySnapshot with knownPolicyVersion 0 reads the
\* document first ...
SnapshotDocument ==
    /\ work["heartbeat"] = Idle
    /\ work' = [work EXCEPT !["heartbeat"] = Job("critical", Effective(policy), {})]
    /\ UNCHANGED <<childDoc, cmds, setter, events, trig, runs, pushes, dev, bounds>>

\* ... and the pending commands next.
SnapshotCommands ==
    /\ work["heartbeat"].pc = "critical"
    /\ work' = [work EXCEPT !["heartbeat"].pc = "full", !["heartbeat"].todo = Critical]
    /\ UNCHANGED <<childDoc, cmds, setter, events, trig, runs, pushes, dev, bounds>>

\* Variant: the heartbeat applies the critical commands and skips the snapshot.
ApplyFullPolicySkip ==
    /\ work["heartbeat"].pc = "full"
    /\ Continue("heartbeat", work["heartbeat"].todo)
    /\ UNCHANGED <<childDoc, cmds, setter, events, trig, runs, pushes, dev, bounds>>

\* applyFullPolicy; the critical commands are applied on top of it.
ApplyFullPolicy ==
    /\ work["heartbeat"].pc = "full"
    /\ dev' = work["heartbeat"].snap
    /\ Continue("heartbeat", work["heartbeat"].todo)
    /\ UNCHANGED <<childDoc, cmds, setter, events, trig, runs, pushes, bounds>>

\* What a command puts in force.  The payload of usage_rules is stored with the
\* key usageRules around the rules, where parseUsageRules finds no limits.
InForce(c) == IF c.field = "usage_rules" THEN Default ELSE c.value

ApplyCommand(w) ==
    LET c == cmds[Min(work[w].todo)] IN
    /\ work[w].pc = "apply"
    /\ dev' = [dev EXCEPT ![c.field] = InForce(c)]
    /\ work' = [work EXCEPT ![w].pc = "ack"]
    /\ UNCHANGED <<childDoc, cmds, setter, events, trig, runs, pushes, bounds>>

\* An exception while applying: the command is acknowledged as failed.
ApplyFails(w) ==
    /\ work[w].pc = "apply"
    /\ Lose
    /\ work' = [work EXCEPT ![w].pc = "ack", ![w].outcome = "failed"]
    /\ UNCHANGED <<childDoc, cmds, setter, events, trig, runs, pushes, dev>>

\* Variant: no check whether the command was acknowledged before.
AcknowledgeAgain(w) ==
    LET i == Min(work[w].todo) IN
    /\ work[w].pc = "ack"
    /\ cmds' = [cmds EXCEPT ![i].status = work[w].outcome]
    /\ lastVersion' = IF work[w].outcome = "applied" /\ cmds[i].version > lastVersion
                      THEN cmds[i].version ELSE lastVersion
    /\ Continue(w, work[w].todo \ {i})
    /\ UNCHANGED <<policy, owner, version, fcm, setter, events, trig, runs, pushes, dev, bounds>>

\* The transaction of acknowledgeCommand.
AcknowledgeCommand(w) ==
    LET i == Min(work[w].todo) IN
    /\ work[w].pc = "ack"
    /\ IF cmds[i].status = "pending"
       THEN /\ cmds' = [cmds EXCEPT ![i].status = work[w].outcome]
            /\ lastVersion' = IF work[w].outcome = "applied" /\ cmds[i].version > lastVersion
                              THEN cmds[i].version ELSE lastVersion
       ELSE UNCHANGED <<cmds, lastVersion>>
    /\ Continue(w, work[w].todo \ {i})
    /\ UNCHANGED <<policy, owner, version, fcm, setter, events, trig, runs, pushes, dev, bounds>>

\* The call fails; the app goes on with the next command.
LoseAck(w) ==
    LET i == Min(work[w].todo) IN
    /\ work[w].pc = "ack"
    /\ Lose
    /\ Continue(w, work[w].todo \ {i})
    /\ UNCHANGED <<childDoc, cmds, setter, events, trig, runs, pushes, dev>>

\* The process is killed, or the call of the job fails.
AbortWork(w) ==
    /\ work[w] # Idle
    /\ Lose
    /\ work' = [work EXCEPT ![w] = Idle]
    /\ UNCHANGED <<childDoc, cmds, setter, events, trig, runs, pushes, dev>>

-----------------------------------------------------------------------------
TriggerStep(t) == \/ \E e \in events : StartTrigger(t, e)
                  \/ IncrementPolicyVersion(t)
                  \/ WriteCommand(t)
                  \/ SendPush(t)

WorkStep(w) == ApplyCommand(w) \/ AcknowledgeCommand(w)

Heartbeat == SnapshotDocument \/ SnapshotCommands \/ ApplyFullPolicy

Next ==
    \/ \E s \in Setters :
        \/ \E m \in Masters : CheckOwner(s, m)
        \/ \E f \in Fields, v \in Values : WriteSetting(s, f, v)
    \/ RegisterToken
    \/ \E m \in Masters : PairAgain(m)
    \/ \E t \in Triggers : TriggerStep(t) \/ CommandError(t) \/ AbortTrigger(t)
    \/ \E e \in events : IgnoreEvent(e)
    \/ ExpireCommand
    \/ \E w \in Workers : FetchCommands(w) \/ WorkStep(w) \/ ApplyFails(w) \/ LoseAck(w)
                          \/ AbortWork(w)
    \/ LosePush
    \/ Heartbeat

Spec == Init /\ [][Next]_vars

\* Events are delivered, invocations and coroutines resumed, and WorkManager runs
\* the heartbeat every 15 minutes.
FairSpec == /\ Spec
            /\ \A t \in Triggers : WF_vars(TriggerStep(t))
            /\ \A w \in Workers : WF_vars(WorkStep(w))
            /\ WF_vars(\E w \in Coroutines : FetchCommands(w))
            /\ WF_vars(\E e \in events : IgnoreEvent(e))
            /\ WF_vars(Heartbeat)

-----------------------------------------------------------------------------
(* Safety.                                                                 *)

\* A policyVersion names one change: commands with the same version were stored
\* by the same trigger, however triggers interleave (but for a document that was
\* replaced by a new pairing, where the numbers start again).
VersionNamesOneChange ==
    repairs = 0 => \A i, j \in 1..Len(cmds) :
                        cmds[i].version = cmds[j].version => cmds[i].run = cmds[j].run

\* The first acknowledgement of a command decides: two coroutines that fetched
\* the same command, and retries of one whose answer was lost, do not change it.
AckIsFinal ==
    [][\A i \in 1..Len(cmds) : cmds[i].status # "pending" => cmds'[i].status = cmds[i].status]_vars

\* What is still under way would put in force what is in force: the events of a
\* device with a push token, the commands not stored, not fetched and not applied
\* yet, and the snapshot the heartbeat holds.
Agrees(f, v) == InForce([field |-> f, value |-> v]) = dev[f]
EventsAgree   == \A e \in events : e.fcm => \A f \in Changed(e) : Agrees(f, e.after[f])
TriggersAgree == \A t \in Triggers : trig[t].pc \in {"bump", "write"} =>
                    \A f \in trig[t].todo : Agrees(f, trig[t].event.after[f])
CommandsAgree == \A i \in Pending : Agrees(cmds[i].field, cmds[i].value)
WorkersAgree  == \A w \in Workers : work[w] # Idle =>
                    /\ \A i \in work[w].todo : Agrees(cmds[i].field, cmds[i].value)
                    /\ work[w].pc \in {"critical", "full"} => work[w].snap = dev
Settled == /\ dev = Effective(policy)
           /\ EventsAgree /\ TriggersAgree /\ CommandsAgree /\ WorkersAgree

\* A device that follows its document, with nothing under way that says otherwise,
\* leaves it only when a parent changes a setting: no retry, repeated event,
\* failure or late heartbeat brings an older value back.
ConvergedStays == [][Settled => Settled' \/ policy' # policy]_vars

(* Liveness.                                                               *)

\* When the parents stop changing settings, the device ends up with them and
\* stays there, whatever was lost, duplicated or overtaken on the way.
DeviceConverges == <>[](dev = Effective(policy))

(* What the documentation says and the code does not keep.                 *)

\* "applies each one locally": a command the device applies puts its value in force.
AppliedIsInForce ==
    [][\A w \in Workers :
          (work[w] # Idle /\ work[w].pc = "apply" /\ work'[w] # Idle /\ work'[w].pc = "ack"
           /\ work'[w].outcome = "applied")
              => LET c == cmds[Min(work[w].todo)] IN dev'[c.field] = c.value]_vars
=============================================================================
