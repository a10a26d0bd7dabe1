------------------------- MODULE ControlPlaneProofs -------------------------
(***************************************************************************)
(* Proofs about the three specifications of the device and its document:   *)
(* ControlPlane, for any settings, parents, triggers and workers of the    *)
(* device; ScreenTime, for any apps and any save period; DeviceInbox, for  *)
(* any calls, tokens and keys and a list of any length; and for any bounds.*)
(*                                                                         *)
(* ControlPlane.  What a trigger stores it took from an event long before, *)
(* and a worker applies commands it fetched before others acknowledged     *)
(* them, so the invariant says what each of them still holds: a trigger    *)
(* the values of fields the event changed, a worker commands that exist.   *)
(* That versions name one change rests on the version in the document      *)
(* being at least every version handed out.                                *)
(*                                                                         *)
(* ScreenTime.  A kill drops the counts in memory and the next connection  *)
(* loads the saved ones, so the invariant compares both with the use of    *)
(* the day: how far those in memory are behind, and those on disk behind   *)
(* them.                                                                   *)
(*                                                                         *)
(* DeviceInbox.  A list that no two reports raced for holds its tokens by  *)
(* the time of their last report, the newest first, and those it lacks are *)
(* older; a call that is not late still finds what it read.  An event is   *)
(* stored only by calls that found none, which bounds how often.           *)
(***************************************************************************)
EXTENDS ControlPlane, ScreenTime, DeviceInbox, FiniteSetTheorems, SequenceTheorems,
        WellFoundedInduction, TLAPS

\* An event that starts a trigger brings a value for each setting it changed.
EventsBringValues ==
    \A e \in events : /\ Changed(e) # {}
                      /\ e.fcm => \A f \in Changed(e) : e.after[f] \in Values

\* So does a trigger that has commands to store, and it has one to store next.
TriggersHoldValues ==
    \A t \in Triggers : trig[t].pc \in {"bump", "write"} =>
        /\ trig[t].todo # {}
        /\ \A f \in trig[t].todo : trig[t].event.after[f] \in Values

\* A worker that applies or acknowledges has a command, the heartbeat its snapshot.
JobsHoldWork ==
    \A w \in Workers : /\ work[w].pc \in {"apply", "ack"} => work[w].todo # {}
                       /\ work[w].pc \in {"critical", "full"} => work[w].snap \in Policies

Typed == TypeOK /\ EventsBringValues /\ TriggersHoldValues /\ JobsHoldWork

\* Versions that were handed out: by commands, and by triggers still storing some.
\* Two triggers never hold the same, nor does one a version that another stored.
VersionsHandedOut ==
    repairs = 0 =>
        /\ \A i \in 1..Len(cmds) : cmds[i].version <= version
        /\ \A t \in Triggers : trig[t].pc = "write" =>
              /\ trig[t].version <= version
              /\ \A i \in 1..Len(cmds) :
                    cmds[i].version = trig[t].version => cmds[i].run = trig[t].run
              /\ \A u \in Triggers :
                    trig[u].pc = "write" /\ trig[u].version = trig[t].version => u = t

Inv == Typed /\ VersionsHandedOut /\ VersionNamesOneChange

-----------------------------------------------------------------------------
(* The least of the command numbers, and the first of the fields.          *)

\* A set of numbers has a least one.
LEMMA LeastExists ==
    ASSUME NEW S \in SUBSET Nat, S # {}
    PROVE  \E x \in S : \A y \in S : x <= y
<1> DEFINE R == {xy \in Nat \X Nat : xy[1] < xy[2]}
<1>1. IsWellFoundedOn(R, Nat)
  BY NatLessThanWellFounded DEF OpToRel
<1>2. \A x, y \in S : <<y, x>> \in R <=> y < x
  OBVIOUS
<1>3. \E x \in S : \A y \in S : ~ (<<y, x>> \in R)
  <2> HIDE DEF R
  <2> QED BY <1>1, WFMin
<1>4. PICK x \in S : \A y \in S : ~ (y < x)
  <2> HIDE DEF R
  <2> QED BY <1>2, <1>3
<1> QED BY <1>4

\* Min finds it, in particular among the numbers of the commands.
LEMMA MinOfCommands ==
    ASSUME TypeOK, NEW S \in SUBSET (1..Len(cmds)), S # {}
    PROVE  Min(S) \in S /\ Min(S) \in 1..Len(cmds)
<1>1. Len(cmds) \in Nat /\ S \in SUBSET Nat
  BY LenProperties DEF TypeOK
<1> QED BY <1>1, LeastExists DEF Min

\* The order in which the trigger stores the fields picks one of those left.
LEMMA FirstOfFields ==
    ASSUME NEW F \in SUBSET Fields, F # {}
    PROVE  First(F) \in F
<1>1. F \subseteq {"lock_state", "app_blacklist", "usage_rules"}
  BY ControlPlaneAssumption DEF FieldOrder
<1>2. Rank("lock_state") = 1 /\ Rank("app_blacklist") = 2 /\ Rank("usage_rules") = 3
  BY DEF Rank, FieldOrder
<1>3. \E f \in F : \A g \in F : Rank(f) <= Rank(g)
  <2>1. CASE "lock_state" \in F
    BY <1>1, <1>2, <2>1
  <2>2. CASE "lock_state" \notin F /\ "app_blacklist" \in F
    BY <1>1, <1>2, <2>2
  <2>3. CASE F = {"usage_rules"}
    BY <1>2, <2>3
  <2> QED BY <1>1, <2>1, <2>2, <2>3
<1> QED BY <1>3 DEF First

-----------------------------------------------------------------------------
(* Commands and workers.                                                   *)

\* Changing one stored command keeps the number of commands and the others.
LEMMA CommandChanged ==
    ASSUME TypeOK, NEW i \in 1..Len(cmds), NEW c \in Commands,
           cmds' = [cmds EXCEPT ![i] = c]
    PROVE  /\ cmds' \in Seq(Commands)
           /\ Len(cmds') = Len(cmds)
           /\ \A j \in 1..Len(cmds) : cmds'[j] = IF j = i THEN c ELSE cmds[j]
BY ExceptSeq DEF TypeOK

\* A worker that turns to a legal job; the others keep theirs when commands are
\* added or changed.
LEMMA JobTyped ==
    ASSUME TypeOK, NEW w \in Workers, NEW n \in Nat, Len(cmds) <= n, NEW j \in Jobs(n),
           work' = [work EXCEPT ![w] = j]
    PROVE  /\ work' \in [Workers -> Jobs(n)]
           /\ work'[w] = j
           /\ \A x \in Workers : x # w => work'[x] = work[x]
<1>1. Len(cmds) \in Nat
  BY LenProperties DEF TypeOK
<1>2. Jobs(Len(cmds)) \subseteq Jobs(n)
  BY <1>1 DEF Jobs
<1> QED BY <1>2 DEF TypeOK

\* Commands a worker has yet to apply make a legal job, or it is done.
LEMMA ContinueKeeps ==
    ASSUME Typed, NEW w \in Workers, NEW todo \in SUBSET (1..Len(cmds)),
           Continue(w, todo)
    PROVE  /\ work' \in [Workers -> Jobs(Len(cmds))]
           /\ JobsHoldWork'
<1> DEFINE j == IF todo = {} THEN Idle ELSE Job("apply", None, todo)
<1>1. TypeOK /\ Len(cmds) \in Nat /\ Len(cmds) <= Len(cmds)
  BY LenProperties DEF Typed, TypeOK
<1>2. j \in Jobs(Len(cmds)) /\ (j.pc = "apply" => j.todo # {})
  BY DEF Jobs, Job, Idle
<1>3. j.pc \in {"idle", "apply"}
  BY DEF Job, Idle
<1>4. work' = [work EXCEPT ![w] = j]
  BY DEF Continue
<1>5. /\ work' \in [Workers -> Jobs(Len(cmds))]
      /\ work'[w] = j
      /\ \A x \in Workers : x # w => work'[x] = work[x]
  <2> HIDE DEF j
  <2> QED BY <1>1, <1>2, <1>4, JobTyped
<1> QED
  <2> HIDE DEF j
  <2> QED BY <1>2, <1>3, <1>5 DEF Typed, JobsHoldWork

\* A worker that applies or acknowledges is about an existing command.
LEMMA JobCommand ==
    ASSUME Typed, NEW w \in Workers, work[w].pc \in {"apply", "ack"}
    PROVE  /\ work[w] \in Jobs(Len(cmds)) /\ work[w] # Idle
           /\ work[w].todo \in SUBSET (1..Len(cmds)) /\ work[w].outcome \in {"applied", "failed"}
           /\ Min(work[w].todo) \in 1..Len(cmds)
           /\ cmds[Min(work[w].todo)] \in Commands
<1>1. work[w] \in Jobs(Len(cmds)) /\ work[w] # Idle
  BY DEF Typed, TypeOK, Idle
<1>2. work[w].todo \in SUBSET (1..Len(cmds)) /\ work[w].outcome \in {"applied", "failed"}
  BY <1>1 DEF Jobs
<1>3. work[w].todo # {}
  BY DEF Typed, JobsHoldWork
<1>4. Min(work[w].todo) \in 1..Len(cmds)
  BY <1>2, <1>3, MinOfCommands DEF Typed
<1>5. cmds[Min(work[w].todo)] \in Commands
  BY <1>4, ElementOfSeq DEF Typed, TypeOK
<1> QED BY <1>1, <1>2, <1>4, <1>5

-----------------------------------------------------------------------------
(* Events and triggers.                                                    *)

\* The event of a write that sets fields to values, or that starts no trigger.
LEMMA EmitKeeps ==
    ASSUME Typed, NEW new \in Settings, NEW token \in BOOLEAN, Emit(new, token),
           token => \A f \in Fields : new[f] # policy[f] => new[f] \in Values
    PROVE  events' \subseteq Events /\ EventsBringValues'
<1> DEFINE e == [id |-> changes + 1, before |-> policy, after |-> new, fcm |-> token]
<1>1. changes + 1 \in Nat
  BY ControlPlaneAssumption DEF Typed, TypeOK
<1>2. e \in Events
  BY <1>1 DEF Typed, TypeOK, Events
<1>3. ASSUME token, NEW f \in Changed(e) PROVE e.after[f] \in Values
  <2>1. f \in Fields /\ e.before = policy /\ e.after = new
    BY DEF Changed
  <2>2. new[f] # policy[f]
    BY <2>1, <1>3 DEF Changed, Effective
  <2> QED BY <1>3, <2>1, <2>2
<1>4. e.fcm = token
  OBVIOUS
<1>5. events' = IF Changed(e) = {} THEN events ELSE events \cup {e}
  BY DEF Emit
<1>6. events \subseteq Events /\ EventsBringValues
  BY DEF Typed, TypeOK
<1> QED
  <2> HIDE DEF e
  <2> QED BY <1>2, <1>3, <1>4, <1>5, <1>6 DEF EventsBringValues

\* Dropping events, or keeping one to come again, loses nothing of this.
LEMMA FewerEvents ==
    ASSUME Typed, events' \subseteq events
    PROVE  events' \subseteq Events /\ EventsBringValues'
BY DEF Typed, TypeOK, EventsBringValues

\* A trigger that turns to a legal state which holds what it needs.
LEMMA TriggerKeeps ==
    ASSUME Typed, NEW t \in Triggers, NEW r \in TriggerRuns(Events),
           trig' = [trig EXCEPT ![t] = r],
           r.pc \in {"bump", "write"} =>
               r.todo # {} /\ \A f \in r.todo : r.event.after[f] \in Values
    PROVE  /\ trig' \in [Triggers -> TriggerRuns(Events)]
           /\ TriggersHoldValues'
           /\ trig'[t] = r
           /\ \A u \in Triggers : u # t => trig'[u] = trig[u]
<1>1. trig' \in [Triggers -> TriggerRuns(Events)]
  BY DEF Typed, TypeOK
<1>2. trig'[t] = r /\ \A u \in Triggers : u # t => trig'[u] = trig[u]
  BY DEF Typed, TypeOK
<1>3. TriggersHoldValues'
  BY <1>2 DEF Typed, TriggersHoldValues
<1> QED BY <1>1, <1>2, <1>3

\* A trigger that is not idle has an event, fields, a version and a number.
LEMMA TriggerRun ==
    ASSUME TypeOK, NEW t \in Triggers, trig[t].pc # "idle"
    PROVE  trig[t] \in [pc : {"bump", "write", "push"}, event : Events,
                        todo : SUBSET Fields, version : Nat, run : Nat]
BY DEF TypeOK, TriggerRuns, Idle

\* A failed step loses one of the losses that are left.
LEMMA LoseTyped ==
    ASSUME TypeOK, Lose
    PROVE  losses' \in 0..MaxLosses /\ UNCHANGED <<changes, dups, repairs>>
BY ControlPlaneAssumption DEF TypeOK, Lose

-----------------------------------------------------------------------------
(* Types.                                                                  *)

LEMMA TypedInit == Init => Typed
<1> SUFFICES ASSUME Init PROVE Typed OBVIOUS
<1>1. NoSettings \in Settings /\ [f \in Fields |-> Default] \in Policies
  BY ControlPlaneAssumption DEF NoSettings, Settings, Policies
<1>2. Idle \in TriggerRuns(Events) /\ Idle \in Jobs(0) /\ Len(cmds) = 0 /\ cmds \in Seq(Commands)
  BY EmptySeq DEF Init, TriggerRuns, Jobs
<1>3. /\ 0 \in 0..MaxChanges /\ 0 \in 0..MaxDups /\ 0 \in 0..MaxLosses /\ 0 \in 0..MaxRepairs
  BY ControlPlaneAssumption
<1>4. TypeOK
  BY <1>1, <1>2, <1>3 DEF Init, TypeOK
<1>5. EventsBringValues /\ TriggersHoldValues /\ JobsHoldWork
  BY DEF Init, EventsBringValues, TriggersHoldValues, JobsHoldWork, Idle
<1> QED BY <1>4, <1>5 DEF Typed

\* Steps on the child's document.
LEMMA DocumentTyped ==
    ASSUME Typed,
           \/ \E s \in Setters, m \in Masters : CheckOwner(s, m)
           \/ \E s \in Setters, f \in Fields, v \in Values : WriteSetting(s, f, v)
           \/ RegisterToken
           \/ \E m \in Masters : PairAgain(m)
    PROVE  Typed'
<1> USE DEF childDoc, bounds
<1>w. /\ trig' = trig => TriggersHoldValues'
      /\ work' = work => JobsHoldWork'
      /\ events' = events => EventsBringValues'
  BY DEF Typed, TriggersHoldValues, JobsHoldWork, EventsBringValues
<1>1. ASSUME NEW s \in Setters, NEW m \in Masters, CheckOwner(s, m) PROVE Typed'
  <2>1. TypeOK'
    BY <1>1 DEF CheckOwner, Typed, TypeOK
  <2> QED BY <1>1, <1>w, <2>1 DEF CheckOwner, Typed
<1>2. ASSUME NEW s \in Setters, NEW f \in Fields, NEW v \in Values, WriteSetting(s, f, v)
      PROVE  Typed'
  <2> DEFINE new == [policy EXCEPT ![f] = v]
  <2>1. new \in Settings /\ \A g \in Fields : new[g] # policy[g] => new[g] \in Values
    BY DEF Typed, TypeOK, Settings
  <2>2. fcm \in BOOLEAN /\ Emit(new, fcm)
    BY <1>2 DEF WriteSetting, Typed, TypeOK
  <2>3. events' \subseteq Events /\ EventsBringValues'
    <3> HIDE DEF new
    <3> QED BY <2>1, <2>2, EmitKeeps
  <2>4. changes' \in 0..MaxChanges
    BY <1>2, ControlPlaneAssumption DEF WriteSetting, Typed, TypeOK
  <2>5. TypeOK'
    BY <1>2, <2>1, <2>3, <2>4 DEF WriteSetting, Typed, TypeOK
  <2> QED BY <1>2, <1>w, <2>3, <2>5 DEF WriteSetting, Typed
<1>3. CASE RegisterToken
  <2>1. TypeOK'
    BY <1>3 DEF RegisterToken, Typed, TypeOK
  <2> QED BY <1>3, <1>w, <2>1 DEF RegisterToken, Typed
<1>4. ASSUME NEW m \in Masters, PairAgain(m) PROVE Typed'
  <2>1. NoSettings \in Settings
    BY DEF NoSettings, Settings
  <2>2. events' \subseteq Events /\ EventsBringValues'
    BY <1>4, <2>1, EmitKeeps DEF PairAgain
  <2>3. changes' \in 0..MaxChanges /\ repairs' \in 0..MaxRepairs
    BY <1>4, ControlPlaneAssumption DEF PairAgain, Typed, TypeOK
  <2>4. TypeOK'
    BY <1>4, <2>1, <2>2, <2>3 DEF PairAgain, Typed, TypeOK
  <2> QED BY <1>4, <1>w, <2>2, <2>4 DEF PairAgain, Typed
<1> QED BY <1>1, <1>2, <1>3, <1>4

\* Deliveries, and the steps of a trigger up to the commands it stores.
LEMMA TriggerTyped ==
    ASSUME Typed,
           \/ \E t \in Triggers : \/ \E e \in events : StartTrigger(t, e)
                                  \/ IncrementPolicyVersion(t)
                                  \/ CommandError(t) \/ SendPush(t) \/ AbortTrigger(t)
           \/ \E e \in events : IgnoreEvent(e)
    PROVE  Typed'
<1> USE DEF childDoc, bounds
<1>w. /\ work' = work => JobsHoldWork'
      /\ events' = events => EventsBringValues'
  BY DEF Typed, JobsHoldWork, EventsBringValues
<1>i. Idle \in TriggerRuns(Events) /\ Idle.pc = "idle"
  BY DEF TriggerRuns, Idle
<1>1. ASSUME NEW t \in Triggers, NEW e \in events, StartTrigger(t, e) PROVE Typed'
  <2> DEFINE r == [pc |-> "bump", event |-> e, todo |-> Changed(e), version |-> 0,
                   run |-> runs + 1]
  <2>1. e \in Events /\ Changed(e) # {} /\ \A f \in Changed(e) : e.after[f] \in Values
    BY <1>1 DEF StartTrigger, Typed, TypeOK, EventsBringValues
  <2>2. Changed(e) \in SUBSET Fields /\ runs + 1 \in Nat
    BY DEF Changed, Typed, TypeOK
  <2>3. r \in TriggerRuns(Events)
    BY <2>1, <2>2 DEF TriggerRuns
  <2>4. r.todo # {} /\ \A f \in r.todo : r.event.after[f] \in Values
    BY <2>1
  <2>5. trig' = [trig EXCEPT ![t] = r]
    BY <1>1 DEF StartTrigger
  <2>6. trig' \in [Triggers -> TriggerRuns(Events)] /\ TriggersHoldValues'
    <3> HIDE DEF r
    <3> QED BY <2>3, <2>4, <2>5, TriggerKeeps
  <2>7. events' \subseteq Events /\ EventsBringValues'
    BY <1>1, FewerEvents DEF StartTrigger, Deliver
  <2>8. dups' \in 0..MaxDups /\ UNCHANGED <<changes, losses, repairs>>
    BY <1>1, ControlPlaneAssumption DEF StartTrigger, Deliver, Typed, TypeOK
  <2>9. TypeOK'
    BY <1>1, <2>2, <2>6, <2>7, <2>8 DEF StartTrigger, Typed, TypeOK
  <2> QED BY <1>1, <1>w, <2>6, <2>7, <2>9 DEF StartTrigger, Typed
<1>2. ASSUME NEW t \in Triggers, IncrementPolicyVersion(t) PROVE Typed'
  <2> DEFINE r == [trig[t] EXCEPT !.pc = "write", !.version = version + 1]
  <2>1. trig[t].pc = "bump" /\ version + 1 \in Nat
    BY <1>2 DEF IncrementPolicyVersion, Typed, TypeOK
  <2>2. trig[t] \in [pc : {"bump", "write", "push"}, event : Events, todo : SUBSET Fields,
                     version : Nat, run : Nat]
    BY <2>1, TriggerRun DEF Typed
  <2>3. r \in TriggerRuns(Events) /\ r.todo = trig[t].todo /\ r.event = trig[t].event
    BY <2>1, <2>2 DEF TriggerRuns
  <2>4. r.todo # {} /\ \A f \in r.todo : r.event.after[f] \in Values
    BY <2>1, <2>3 DEF Typed, TriggersHoldValues
  <2>5. trig' = [trig EXCEPT ![t] = r]
    BY <1>2 DEF IncrementPolicyVersion
  <2>6. trig' \in [Triggers -> TriggerRuns(Events)] /\ TriggersHoldValues'
    <3> HIDE DEF r
    <3> QED BY <2>3, <2>4, <2>5, TriggerKeeps
  <2>7. TypeOK'
    BY <1>2, <2>1, <2>6 DEF IncrementPolicyVersion, Typed, TypeOK
  <2> QED BY <1>2, <1>w, <2>6, <2>7 DEF IncrementPolicyVersion, Typed
<1>3. ASSUME NEW t \in Triggers, CommandError(t) PROVE Typed'
  <2> DEFINE r == [trig[t] EXCEPT !.pc = "push"]
  <2>1. trig[t].pc # "idle"
    BY <1>3 DEF CommandError
  <2>2. trig[t] \in [pc : {"bump", "write", "push"}, event : Events, todo : SUBSET Fields,
                     version : Nat, run : Nat]
    BY <2>1, TriggerRun DEF Typed
  <2>3. r \in TriggerRuns(Events) /\ r.pc = "push"
    BY <2>2 DEF TriggerRuns
  <2>4. trig' = [trig EXCEPT ![t] = r]
    BY <1>3 DEF CommandError
  <2>5. trig' \in [Triggers -> TriggerRuns(Events)] /\ TriggersHoldValues'
    <3> HIDE DEF r
    <3> QED BY <2>3, <2>4, TriggerKeeps
  <2>6. losses' \in 0..MaxLosses /\ UNCHANGED <<changes, dups, repairs>>
    BY <1>3, LoseTyped DEF CommandError, Typed
  <2>7. TypeOK'
    BY <1>3, <2>5, <2>6 DEF CommandError, Typed, TypeOK
  <2> QED BY <1>3, <1>w, <2>5, <2>7 DEF CommandError, Typed
<1>4. ASSUME NEW t \in Triggers, SendPush(t) PROVE Typed'
  <2>1. trig' \in [Triggers -> TriggerRuns(Events)] /\ TriggersHoldValues'
    BY <1>4, <1>i, TriggerKeeps DEF SendPush
  <2>2. TypeOK'
    BY <1>4, <2>1 DEF SendPush, Typed, TypeOK
  <2> QED BY <1>4, <1>w, <2>1, <2>2 DEF SendPush, Typed
<1>5. ASSUME NEW t \in Triggers, AbortTrigger(t) PROVE Typed'
  <2>1. trig' \in [Triggers -> TriggerRuns(Events)] /\ TriggersHoldValues'
    BY <1>5, <1>i, TriggerKeeps DEF AbortTrigger
  <2>2. losses' \in 0..MaxLosses /\ UNCHANGED <<changes, dups, repairs>>
    BY <1>5, LoseTyped DEF AbortTrigger, Typed
  <2>3. TypeOK'
    BY <1>5, <2>1, <2>2 DEF AbortTrigger, Typed, TypeOK
  <2> QED BY <1>5, <1>w, <2>1, <2>3 DEF AbortTrigger, Typed
<1>6. ASSUME NEW e \in events, IgnoreEvent(e) PROVE Typed'
  <2>1. events' \subseteq Events /\ EventsBringValues'
    BY <1>6, FewerEvents DEF IgnoreEvent
  <2>2. TriggersHoldValues'
    BY <1>6 DEF IgnoreEvent, Typed, TriggersHoldValues
  <2>3. TypeOK'
    BY <1>6, <2>1 DEF IgnoreEvent, Typed, TypeOK
  <2> QED BY <1>6, <1>w, <2>1, <2>2, <2>3 DEF IgnoreEvent, Typed
<1> QED BY <1>1, <1>2, <1>3, <1>4, <1>5, <1>6

\* The command a trigger stores next.
NextField(t) == First(trig[t].todo)
Stored(t) == [field |-> NextField(t), value |-> trig[t].event.after[NextField(t)],
              version |-> trig[t].version, run |-> trig[t].run, status |-> "pending",
              expired |-> FALSE]

\* Storing it adds a legal command behind the others, which stay.
LEMMA CommandStored ==
    ASSUME Typed, NEW t \in Triggers, WriteCommand(t)
    PROVE  /\ Stored(t) \in Commands
           /\ cmds' \in Seq(Commands) /\ Len(cmds') = Len(cmds) + 1 /\ Len(cmds) \in Nat
           /\ \A i \in 1..Len(cmds) : cmds'[i] = cmds[i]
           /\ cmds'[Len(cmds) + 1] = Stored(t)
           /\ trig' \in [Triggers -> TriggerRuns(Events)] /\ TriggersHoldValues'
           /\ \A u \in Triggers : u # t => trig'[u] = trig[u]
           /\ trig'[t].version = trig[t].version /\ trig'[t].run = trig[t].run
<1> DEFINE f == NextField(t)
           r == [trig[t] EXCEPT !.todo = @ \ {f},
                                !.pc = IF trig[t].todo = {f} THEN "push" ELSE "write"]
<1>1. trig[t].pc = "write"
  BY DEF WriteCommand
<1>2. trig[t] \in [pc : {"bump", "write", "push"}, event : Events, todo : SUBSET Fields,
                   version : Nat, run : Nat]
  BY <1>1, TriggerRun DEF Typed
<1>3. trig[t].todo # {} /\ \A g \in trig[t].todo : trig[t].event.after[g] \in Values
  BY <1>1 DEF Typed, TriggersHoldValues
<1>4. f \in trig[t].todo /\ f \in Fields
  BY <1>2, <1>3, FirstOfFields DEF NextField
<1>5. Stored(t) \in Commands
  BY <1>2, <1>3, <1>4 DEF Stored, Commands, Statuses
<1>6. cmds' = Append(cmds, Stored(t))
  BY DEF WriteCommand, Stored, NextField
<1>7. /\ cmds' \in Seq(Commands) /\ Len(cmds') = Len(cmds) + 1 /\ Len(cmds) \in Nat
      /\ \A i \in 1..Len(cmds) : cmds'[i] = cmds[i]
      /\ cmds'[Len(cmds) + 1] = Stored(t)
  BY <1>5, <1>6, AppendProperties, LenProperties DEF Typed, TypeOK
<1>8. trig' = [trig EXCEPT ![t] = r]
  BY DEF WriteCommand, NextField
<1>9. /\ r \in TriggerRuns(Events)
      /\ r.pc = "write" => r.todo # {}
      /\ r.pc # "bump"
      /\ r.todo \subseteq trig[t].todo /\ r.event = trig[t].event
      /\ r.version = trig[t].version /\ r.run = trig[t].run
  <2> HIDE DEF f
  <2> QED BY <1>2, <1>3, <1>4 DEF TriggerRuns
<1>10. r.pc \in {"bump", "write"} =>
          r.todo # {} /\ \A g \in r.todo : r.event.after[g] \in Values
  <2> HIDE DEF r
  <2> QED BY <1>3, <1>9
<1>11. /\ trig' \in [Triggers -> TriggerRuns(Events)] /\ TriggersHoldValues'
       /\ trig'[t] = r
       /\ \A u \in Triggers : u # t => trig'[u] = trig[u]
  <2> HIDE DEF r
  <2> QED BY <1>8, <1>9, <1>10, TriggerKeeps
<1> QED
  <2> HIDE DEF r
  <2> QED BY <1>5, <1>7, <1>9, <1>11

\* The workers' commands are still there when one is added or one is changed.
LEMMA StoreTyped ==
    ASSUME Typed, \/ \E t \in Triggers : WriteCommand(t)
                  \/ ExpireCommand
    PROVE  Typed'
<1> USE DEF childDoc, bounds
<1>w. /\ work' = work => JobsHoldWork'
      /\ events' = events => EventsBringValues'
      /\ trig' = trig => TriggersHoldValues'
  BY DEF Typed, JobsHoldWork, EventsBringValues, TriggersHoldValues
<1>1. ASSUME NEW t \in Triggers, WriteCommand(t) PROVE Typed'
  <2>1. /\ cmds' \in Seq(Commands) /\ Len(cmds') = Len(cmds) + 1 /\ Len(cmds) \in Nat
        /\ trig' \in [Triggers -> TriggerRuns(Events)] /\ TriggersHoldValues'
    BY <1>1, CommandStored
  <2>2. Jobs(Len(cmds)) \subseteq Jobs(Len(cmds'))
    BY <2>1 DEF Jobs
  <2>3. work' \in [Workers -> Jobs(Len(cmds'))]
    BY <1>1, <2>2 DEF WriteCommand, Typed, TypeOK
  <2>4. TypeOK'
    BY <1>1, <2>1, <2>3 DEF WriteCommand, Typed, TypeOK
  <2> QED BY <1>1, <1>w, <2>1, <2>4 DEF WriteCommand, Typed
<1>2. CASE ExpireCommand
  <2> DEFINE i == Min(Pending)
             c == [cmds[i] EXCEPT !.expired = TRUE]
  <2>1. i \in 1..Len(cmds)
    BY <1>2, MinOfCommands DEF ExpireCommand, Pending, Typed
  <2>2. c \in Commands
    <3>1. cmds[i] \in Commands
      <4> HIDE DEF i
      <4> QED BY <2>1, ElementOfSeq DEF Typed, TypeOK
    <3> QED BY <3>1 DEF Commands
  <2>3. cmds' = [cmds EXCEPT ![i] = c]
    BY <1>2 DEF ExpireCommand
  <2>4. cmds' \in Seq(Commands) /\ Len(cmds') = Len(cmds)
    <3> HIDE DEF i, c
    <3> QED BY <2>1, <2>2, <2>3, CommandChanged DEF Typed
  <2>5. TypeOK'
    BY <1>2, <2>4 DEF ExpireCommand, Typed, TypeOK
  <2> QED BY <1>2, <1>w, <2>5 DEF ExpireCommand, Typed
<1> QED BY <1>1, <1>2

\* A worker that turns to another job it may do leaves the others at theirs.
LEMMA WorkKeeps ==
    ASSUME Typed, NEW w \in Workers, NEW j \in Jobs(Len(cmds)),
           work' = [work EXCEPT ![w] = j],
           j.pc \in {"apply", "ack"} => j.todo # {},
           j.pc \in {"critical", "full"} => j.snap \in Policies
    PROVE  work' \in [Workers -> Jobs(Len(cmds))] /\ JobsHoldWork'
<1>1. TypeOK /\ Len(cmds) \in Nat /\ Len(cmds) <= Len(cmds)
  BY LenProperties DEF Typed, TypeOK
<1>2. /\ work' \in [Workers -> Jobs(Len(cmds))]
      /\ work'[w] = j
      /\ \A x \in Workers : x # w => work'[x] = work[x]
  BY <1>1, JobTyped
<1> QED BY <1>2 DEF Typed, JobsHoldWork

\* Steps by which a worker fetches, gives up or loses what it was sent.
LEMMA FetchTyped ==
    ASSUME Typed,
           \/ \E w \in Workers : FetchCommands(w) \/ ApplyFails(w) \/ LoseAck(w) \/ AbortWork(w)
           \/ LosePush
    PROVE  Typed'
<1> USE DEF childDoc, bounds
<1>w. /\ trig' = trig => TriggersHoldValues'
      /\ events' = events => EventsBringValues'
  BY DEF Typed, EventsBringValues, TriggersHoldValues
<1>l. Lose => losses' \in 0..MaxLosses /\ UNCHANGED <<changes, dups, repairs>>
  BY LoseTyped DEF Typed
<1>1. ASSUME NEW w \in Workers, FetchCommands(w) PROVE Typed'
  <2>1. Pending \in SUBSET (1..Len(cmds))
    BY DEF Pending
  <2>2. work' \in [Workers -> Jobs(Len(cmds))] /\ JobsHoldWork'
    BY <1>1, <2>1, ContinueKeeps DEF FetchCommands
  <2>3. pushes' \in Nat
    BY <1>1 DEF FetchCommands, Typed, TypeOK
  <2>4. TypeOK'
    BY <1>1, <2>2, <2>3 DEF FetchCommands, Typed, TypeOK
  <2> QED BY <1>1, <1>w, <2>2, <2>4 DEF FetchCommands, Typed
<1>2. ASSUME NEW w \in Workers, ApplyFails(w) PROVE Typed'
  <2> DEFINE j == [work[w] EXCEPT !.pc = "ack", !.outcome = "failed"]
  <2>1. work[w].pc = "apply" /\ work[w] \in Jobs(Len(cmds)) /\ work[w] # Idle
    BY <1>2, JobCommand DEF ApplyFails
  <2>2. work[w].todo # {}
    BY <2>1 DEF Typed, JobsHoldWork
  <2>3. j \in Jobs(Len(cmds)) /\ j.pc = "ack" /\ j.todo = work[w].todo
    BY <2>1 DEF Jobs
  <2>4. work' = [work EXCEPT ![w] = j]
    BY <1>2 DEF ApplyFails
  <2>5. work' \in [Workers -> Jobs(Len(cmds))] /\ JobsHoldWork'
    <3> HIDE DEF j
    <3> QED BY <2>2, <2>3, <2>4, WorkKeeps
  <2>6. TypeOK'
    BY <1>2, <1>l, <2>5 DEF ApplyFails, Typed, TypeOK
  <2> QED BY <1>2, <1>w, <2>5, <2>6 DEF ApplyFails, Typed
<1>3. ASSUME NEW w \in Workers, LoseAck(w) PROVE Typed'
  <2> DEFINE todo == work[w].todo \ {Min(work[w].todo)}
  <2>1. todo \in SUBSET (1..Len(cmds))
    BY <1>3, JobCommand DEF LoseAck
  <2>2. work' \in [Workers -> Jobs(Len(cmds))] /\ JobsHoldWork'
    BY <1>3, <2>1, ContinueKeeps DEF LoseAck
  <2>3. TypeOK'
    BY <1>3, <1>l, <2>2 DEF LoseAck, Typed, TypeOK
  <2> QED BY <1>3, <1>w, <2>2, <2>3 DEF LoseAck, Typed
<1>4. ASSUME NEW w \in Workers, AbortWork(w) PROVE Typed'
  <2>1. Idle \in Jobs(Len(cmds)) /\ Idle.pc = "idle"
    BY DEF Jobs, Idle
  <2>2. work' \in [Workers -> Jobs(Len(cmds))] /\ JobsHoldWork'
    BY <1>4, <2>1, WorkKeeps DEF AbortWork
  <2>3. TypeOK'
    BY <1>4, <1>l, <2>2 DEF AbortWork, Typed, TypeOK
  <2> QED BY <1>4, <1>w, <2>2, <2>3 DEF AbortWork, Typed
<1>5. CASE LosePush
  <2>1. pushes' \in Nat
    BY <1>5 DEF LosePush, Typed, TypeOK
  <2>2. TypeOK'
    BY <1>5, <1>l, <2>1 DEF LosePush, Typed, TypeOK
  <2>3. JobsHoldWork'
    BY <1>5 DEF LosePush, Typed, JobsHoldWork
  <2> QED BY <1>5, <1>w, <2>2, <2>3 DEF LosePush, Typed
<1> QED BY <1>1, <1>2, <1>3, <1>4, <1>5

\* An acknowledgement changes one command at most, and only one that is pending;
\* versions and numbers of runs stay.
LEMMA Acknowledged ==
    ASSUME Typed, NEW w \in Workers, AcknowledgeCommand(w)
    PROVE  /\ cmds' \in Seq(Commands) /\ Len(cmds') = Len(cmds)
           /\ lastVersion' \in Nat
           /\ \A i \in 1..Len(cmds) :
                 /\ cmds'[i].version = cmds[i].version /\ cmds'[i].run = cmds[i].run
                 /\ cmds[i].status # "pending" => cmds'[i] = cmds[i]
<1> DEFINE i == Min(work[w].todo)
           c == [cmds[i] EXCEPT !.status = work[w].outcome]
<1>1. /\ i \in 1..Len(cmds) /\ cmds[i] \in Commands
      /\ work[w].outcome \in {"applied", "failed"}
  BY JobCommand DEF AcknowledgeCommand
<1>2. CASE cmds[i].status = "pending"
  <2>1. c \in Commands /\ c.version = cmds[i].version /\ c.run = cmds[i].run
    <3> HIDE DEF i
    <3> QED BY <1>1 DEF Commands, Statuses
  <2>2. cmds' = [cmds EXCEPT ![i] = c]
    BY <1>2 DEF AcknowledgeCommand
  <2>3. /\ cmds' \in Seq(Commands) /\ Len(cmds') = Len(cmds)
        /\ \A j \in 1..Len(cmds) : cmds'[j] = IF j = i THEN c ELSE cmds[j]
    <3> HIDE DEF i, c
    <3> QED BY <1>1, <2>1, <2>2, CommandChanged DEF Typed
  <2>4. cmds[i].version \in Nat /\ lastVersion \in Nat
    BY <1>1 DEF Commands, Typed, TypeOK
  <2>5. lastVersion' \in Nat
    BY <1>2, <2>4 DEF AcknowledgeCommand
  <2> QED
    <3> HIDE DEF i, c
    <3> QED BY <1>2, <2>1, <2>3, <2>5
<1>3. CASE cmds[i].status # "pending"
  BY <1>3 DEF AcknowledgeCommand, Typed, TypeOK
<1> QED BY <1>2, <1>3

\* Steps that apply or acknowledge, and the heartbeat's.
LEMMA WorkTyped ==
    ASSUME Typed, (\E w \in Workers : WorkStep(w)) \/ Heartbeat
    PROVE  Typed'
<1> USE DEF childDoc, bounds
<1>w. /\ trig' = trig => TriggersHoldValues'
      /\ events' = events => EventsBringValues'
  BY DEF Typed, EventsBringValues, TriggersHoldValues
<1>h. "heartbeat" \in Workers /\ work["heartbeat"] \in Jobs(Len(cmds))
  BY DEF Workers, Typed, TypeOK
<1>1. ASSUME NEW w \in Workers, ApplyCommand(w) PROVE Typed'
  <2> DEFINE j == [work[w] EXCEPT !.pc = "ack"]
             c == cmds[Min(work[w].todo)]
  <2>1. work[w].pc = "apply" /\ work[w] \in Jobs(Len(cmds)) /\ work[w] # Idle /\ c \in Commands
    BY <1>1, JobCommand DEF ApplyCommand
  <2>2. work[w].todo # {}
    BY <2>1 DEF Typed, JobsHoldWork
  <2>3. j \in Jobs(Len(cmds)) /\ j.pc = "ack" /\ j.todo = work[w].todo
    BY <2>1 DEF Jobs
  <2>4. work' = [work EXCEPT ![w] = j] /\ dev' = [dev EXCEPT ![c.field] = InForce(c)]
    BY <1>1 DEF ApplyCommand
  <2>5. work' \in [Workers -> Jobs(Len(cmds))] /\ JobsHoldWork'
    <3> HIDE DEF j
    <3> QED BY <2>2, <2>3, <2>4, WorkKeeps
  <2>6. InForce(c) \in Values
    <3> HIDE DEF c
    <3> QED BY <2>1, ControlPlaneAssumption DEF InForce, Commands
  <2>7. dev' \in Policies
    <3> HIDE DEF c
    <3> QED BY <2>4, <2>6 DEF Typed, TypeOK, Policies
  <2>8. TypeOK'
    BY <1>1, <2>5, <2>7 DEF ApplyCommand, Typed, TypeOK
  <2> QED BY <1>1, <1>w, <2>5, <2>8 DEF ApplyCommand, Typed
<1>2. ASSUME NEW w \in Workers, AcknowledgeCommand(w) PROVE Typed'
  <2>1. cmds' \in Seq(Commands) /\ Len(cmds') = Len(cmds) /\ lastVersion' \in Nat
    BY <1>2, Acknowledged
  <2>2. work[w].todo \ {Min(work[w].todo)} \in SUBSET (1..Len(cmds))
    BY <1>2, JobCommand DEF AcknowledgeCommand
  <2>3. work' \in [Workers -> Jobs(Len(cmds))] /\ JobsHoldWork'
    BY <1>2, <2>2, ContinueKeeps DEF AcknowledgeCommand
  <2>4. TypeOK'
    BY <1>2, <2>1, <2>3 DEF AcknowledgeCommand, Typed, TypeOK
  <2> QED BY <1>2, <1>w, <2>3, <2>4 DEF AcknowledgeCommand, Typed
<1>3. CASE SnapshotDocument
  <2> DEFINE j == Job("critical", Effective(policy), {})
  <2>1. Effective(policy) \in Policies
    BY ControlPlaneAssumption DEF Effective, Policies, Settings, Typed, TypeOK
  <2>2. j \in Jobs(Len(cmds)) /\ j.pc = "critical" /\ j.snap \in Policies
    BY <2>1 DEF Job, Jobs
  <2>3. work' = [work EXCEPT !["heartbeat"] = j]
    BY <1>3 DEF SnapshotDocument
  <2>4. work' \in [Workers -> Jobs(Len(cmds))] /\ JobsHoldWork'
    <3> HIDE DEF j
    <3> QED BY <1>h, <2>2, <2>3, WorkKeeps
  <2>5. TypeOK'
    BY <1>3, <2>4 DEF SnapshotDocument, Typed, TypeOK
  <2> QED BY <1>3, <1>w, <2>4, <2>5 DEF SnapshotDocument, Typed
<1>4. CASE SnapshotCommands
  <2> DEFINE j == [work["heartbeat"] EXCEPT !.pc = "full", !.todo = Critical]
  <2>1. work["heartbeat"].pc = "critical" /\ work["heartbeat"] # Idle
    BY <1>4 DEF SnapshotCommands, Idle
  <2>2. work["heartbeat"].snap \in Policies
    BY <1>h, <2>1 DEF Typed, JobsHoldWork
  <2>3. Critical \in SUBSET (1..Len(cmds))
    BY DEF Critical, Pending
  <2>4. j \in Jobs(Len(cmds)) /\ j.pc = "full" /\ j.snap = work["heartbeat"].snap
    BY <1>h, <2>1, <2>3 DEF Jobs
  <2>5. work' = [work EXCEPT !["heartbeat"] = j]
    BY <1>4 DEF SnapshotCommands
  <2>6. work' \in [Workers -> Jobs(Len(cmds))] /\ JobsHoldWork'
    <3> HIDE DEF j
    <3> QED BY <1>h, <2>2, <2>4, <2>5, WorkKeeps
  <2>7. TypeOK'
    BY <1>4, <2>6 DEF SnapshotCommands, Typed, TypeOK
  <2> QED BY <1>4, <1>w, <2>6, <2>7 DEF SnapshotCommands, Typed
<1>5. CASE ApplyFullPolicy
  <2>1. work["heartbeat"].pc = "full" /\ work["heartbeat"] # Idle
    BY <1>5 DEF ApplyFullPolicy, Idle
  <2>2. work["heartbeat"].snap \in Policies
    BY <1>h, <2>1 DEF Typed, JobsHoldWork
  <2>3. work["heartbeat"].todo \in SUBSET (1..Len(cmds))
    BY <1>h, <2>1 DEF Jobs
  <2>4. work' \in [Workers -> Jobs(Len(cmds))] /\ JobsHoldWork'
    BY <1>5, <1>h, <2>3, ContinueKeeps DEF ApplyFullPolicy
  <2>5. TypeOK'
    BY <1>5, <2>2, <2>4 DEF ApplyFullPolicy, Typed, TypeOK
  <2> QED BY <1>5, <1>w, <2>4, <2>5 DEF ApplyFullPolicy, Typed
<1> QED BY <1>1, <1>2, <1>3, <1>4, <1>5 DEF WorkStep, Heartbeat

LEMMA TypedStep == Typed /\ [Next]_vars => Typed'
<1> SUFFICES ASSUME Typed, [Next]_vars PROVE Typed' OBVIOUS
<1>1. CASE UNCHANGED vars
  BY <1>1 DEF vars, childDoc, bounds, Typed, TypeOK, EventsBringValues, TriggersHoldValues,
              JobsHoldWork, Changed, Effective
<1>2. CASE Next
  BY <1>2, DocumentTyped, TriggerTyped, StoreTyped, FetchTyped, WorkTyped DEF Next, TriggerStep
<1> QED BY <1>1, <1>2

\* Whatever is lost, repeated or overtaken, documents, commands, triggers and
\* workers keep their types: what is stored is a value of a known setting, and a
\* worker has numbers of existing commands.
THEOREM TypeCorrect == Spec => []TypeOK
<1>1. Spec => []Typed
  BY TypedInit, TypedStep, PTL DEF Spec
<1>2. Typed => TypeOK
  BY DEF Typed
<1> QED BY <1>1, <1>2, PTL

\* Whoever acknowledges a command first decides: its status stays.
THEOREM AckFinal == Spec => AckIsFinal
<1>1. Spec => []Typed
  BY TypedInit, TypedStep, PTL DEF Spec
<1> DEFINE Keeps == \A i \in 1..Len(cmds) : cmds[i].status # "pending"
                                              => cmds'[i].status = cmds[i].status
<1>2. ASSUME Typed, [Next]_vars PROVE [Keeps]_vars
  <2> USE DEF childDoc, bounds
  <2>1. CASE cmds' = cmds
    BY <2>1
  <2>2. ASSUME NEW t \in Triggers, WriteCommand(t) PROVE Keeps
    BY <1>2, <2>2, CommandStored
  <2>3. CASE ExpireCommand
    <3> DEFINE j == Min(Pending)
               c == [cmds[j] EXCEPT !.expired = TRUE]
    <3>1. j \in 1..Len(cmds)
      BY <1>2, <2>3, MinOfCommands DEF ExpireCommand, Pending, Typed
    <3>2. cmds[j] \in Commands /\ cmds \in Seq(Commands)
      <4> HIDE DEF j
      <4> QED BY <1>2, <3>1, ElementOfSeq DEF Typed, TypeOK
    <3>3. c \in Commands /\ c.status = cmds[j].status
      <4> HIDE DEF j
      <4> QED BY <3>2 DEF Commands
    <3>4. \A i \in 1..Len(cmds) : cmds'[i] = IF i = j THEN c ELSE cmds[i]
      <4>1. cmds' = [cmds EXCEPT ![j] = c]
        BY <2>3 DEF ExpireCommand
      <4> HIDE DEF j, c
      <4> QED BY <1>2, <3>1, <3>3, <4>1, CommandChanged DEF Typed
    <3> QED
      <4> HIDE DEF j, c
      <4> QED BY <3>3, <3>4
  <2>4. ASSUME NEW w \in Workers, AcknowledgeCommand(w) PROVE Keeps
    BY <1>2, <2>4, Acknowledged
  <2>5. (Next /\ cmds' # cmds) => \/ \E t \in Triggers : WriteCommand(t)
                                  \/ ExpireCommand
                                  \/ \E w \in Workers : AcknowledgeCommand(w)
    BY DEF Next, CheckOwner, WriteSetting, RegisterToken, PairAgain, TriggerStep, StartTrigger,
           IncrementPolicyVersion, CommandError, SendPush, AbortTrigger, IgnoreEvent,
           FetchCommands, WorkStep, ApplyCommand, ApplyFails, LoseAck, AbortWork, LosePush,
           Heartbeat, SnapshotDocument, SnapshotCommands, ApplyFullPolicy
  <2> QED BY <1>2, <2>1, <2>2, <2>3, <2>4, <2>5 DEF vars
<1>3. Spec => [][Keeps]_vars
  BY <1>1, <1>2, PTL DEF Spec
<1> QED BY <1>3 DEF AckIsFinal

-----------------------------------------------------------------------------
(* A settled device.  All that is under way agrees with what is in force,  *)
(* so no step of a trigger, of a worker or of the heartbeat moves the      *)
(* device, and whatever such a step brings agrees as well.                 *)

\* What agrees is said with the command's record or with its field and value.
LEMMA AgreesInForce ==
    ASSUME NEW c \in Commands
    PROVE  Agrees(c.field, c.value) <=> InForce(c) = dev[c.field]
BY DEF Agrees, InForce

LEMMA DeviceStays ==
    ASSUME Typed, Settled, [Next]_vars
    PROVE  dev' = dev
<1>1. ASSUME NEW w \in Workers, ApplyCommand(w) PROVE dev' = dev
  <2> DEFINE i == Min(work[w].todo)
  <2>1. /\ work[w] # Idle /\ i \in work[w].todo /\ cmds[i] \in Commands
    <3>1. work[w].todo # {}
      BY <1>1 DEF ApplyCommand, Typed, JobsHoldWork
    <3> QED BY <1>1, <3>1, JobCommand, MinOfCommands DEF ApplyCommand, Typed
  <2>2. InForce(cmds[i]) = dev[cmds[i].field]
    <3> HIDE DEF i
    <3> QED BY <2>1, AgreesInForce DEF Settled, WorkersAgree
  <2>3. dev' = [dev EXCEPT ![cmds[i].field] = InForce(cmds[i])]
    BY <1>1 DEF ApplyCommand
  <2> HIDE DEF i
  <2> QED BY <2>2, <2>3 DEF Typed, TypeOK, Policies
<1>2. CASE ApplyFullPolicy
  <2>1. work["heartbeat"] # Idle /\ "heartbeat" \in Workers
    BY <1>2 DEF ApplyFullPolicy, Idle, Workers
  <2> QED BY <1>2, <2>1 DEF ApplyFullPolicy, Settled, WorkersAgree
<1>3. CASE Next /\ ~ApplyFullPolicy /\ \A w \in Workers : ~ApplyCommand(w)
  BY <1>3 DEF Next, CheckOwner, WriteSetting, RegisterToken, PairAgain, TriggerStep, StartTrigger,
              IncrementPolicyVersion, WriteCommand, CommandError, SendPush, AbortTrigger,
              IgnoreEvent, ExpireCommand, FetchCommands, WorkStep, AcknowledgeCommand, ApplyFails,
              LoseAck, AbortWork, LosePush, Heartbeat, SnapshotDocument, SnapshotCommands
<1>4. CASE UNCHANGED vars
  BY <1>4 DEF vars
<1> QED BY <1>1, <1>2, <1>3, <1>4

\* A command keeps its setting and its value, and only a trigger brings a pending one.
LEMMA CommandsStay ==
    ASSUME Typed, [Next]_vars
    PROVE  /\ \A i \in 1..Len(cmds) : /\ cmds'[i].field = cmds[i].field
                                      /\ cmds'[i].value = cmds[i].value
           /\ \A i \in Pending' :
                 \/ i \in Pending
                 \/ \E t \in Triggers : WriteCommand(t) /\ cmds'[i] = Stored(t)
<1> DEFINE Stay == /\ \A i \in 1..Len(cmds) : /\ cmds'[i].field = cmds[i].field
                                              /\ cmds'[i].value = cmds[i].value
                   /\ \A i \in Pending' :
                         \/ i \in Pending
                         \/ \E t \in Triggers : WriteCommand(t) /\ cmds'[i] = Stored(t)
<1>1. ASSUME NEW t \in Triggers, WriteCommand(t) PROVE Stay
  <2>1. /\ Len(cmds') = Len(cmds) + 1 /\ Len(cmds) \in Nat
        /\ \A i \in 1..Len(cmds) : cmds'[i] = cmds[i]
        /\ cmds'[Len(cmds) + 1] = Stored(t)
    BY <1>1, CommandStored
  <2>2. \A i \in Pending' : i \in 1..Len(cmds) \/ i = Len(cmds) + 1
    BY <2>1 DEF Pending
  <2> QED BY <1>1, <2>1, <2>2 DEF Pending
<1>c. ASSUME NEW i \in 1..Len(cmds), NEW c \in Commands, cmds' = [cmds EXCEPT ![i] = c],
             c.field = cmds[i].field, c.value = cmds[i].value,
             c.status = "pending" /\ ~c.expired => i \in Pending
      PROVE  Stay
  <2>1. /\ Len(cmds') = Len(cmds)
        /\ \A j \in 1..Len(cmds) : cmds'[j] = IF j = i THEN c ELSE cmds[j]
    BY <1>c, CommandChanged DEF Typed
  <2> QED BY <1>c, <2>1 DEF Pending
<1>2. CASE ExpireCommand
  <2>1. PICK i \in 1..Len(cmds) : cmds' = [cmds EXCEPT ![i] = [cmds[i] EXCEPT !.expired = TRUE]]
    BY <1>2, MinOfCommands DEF ExpireCommand, Pending, Typed
  <2>2. cmds[i] \in Commands
    BY <2>1, ElementOfSeq DEF Typed, TypeOK
  <2> DEFINE c == [cmds[i] EXCEPT !.expired = TRUE]
  <2>3. c \in Commands /\ c.field = cmds[i].field /\ c.value = cmds[i].value /\ c.expired
    BY <2>2 DEF Commands
  <2>4. cmds' = [cmds EXCEPT ![i] = c]
    BY <2>1
  <2> HIDE DEF c
  <2> QED BY <1>c, <2>3, <2>4
<1>3. ASSUME NEW w \in Workers, AcknowledgeCommand(w) PROVE Stay
  <2>1. PICK i \in 1..Len(cmds) : i = Min(work[w].todo)
    BY <1>3, JobCommand DEF AcknowledgeCommand
  <2>2. cmds[i] \in Commands /\ work[w].outcome \in {"applied", "failed"}
    BY <1>3, <2>1, JobCommand DEF AcknowledgeCommand
  <2> DEFINE c == [cmds[i] EXCEPT !.status = work[w].outcome]
  <2>3. /\ c \in Commands /\ c.field = cmds[i].field /\ c.value = cmds[i].value
        /\ c.status # "pending"
    BY <2>2 DEF Commands, Statuses
  <2>4. cmds' = [cmds EXCEPT ![i] = c] \/ cmds' = cmds
    BY <1>3, <2>1 DEF AcknowledgeCommand
  <2> HIDE DEF c
  <2>5. CASE cmds' = cmds
    BY <2>5 DEF Pending
  <2> QED BY <1>c, <2>3, <2>4, <2>5
<1>4. CASE UNCHANGED cmds
  BY <1>4 DEF Pending
<1>5. (Next /\ cmds' # cmds) => \/ \E t \in Triggers : WriteCommand(t)
                                \/ ExpireCommand
                                \/ \E w \in Workers : AcknowledgeCommand(w)
  BY DEF Next, CheckOwner, WriteSetting, RegisterToken, PairAgain, TriggerStep, StartTrigger,
         IncrementPolicyVersion, CommandError, SendPush, AbortTrigger, IgnoreEvent,
         FetchCommands, WorkStep, ApplyCommand, ApplyFails, LoseAck, AbortWork, LosePush,
         Heartbeat, SnapshotDocument, SnapshotCommands, ApplyFullPolicy
<1> QED BY <1>1, <1>2, <1>3, <1>4, <1>5 DEF vars

\* A trigger about to store commands has fewer than before, or takes up an event.
LEMMA TriggersTakeUp ==
    ASSUME Typed, [Next]_vars, NEW t \in Triggers, trig'[t].pc \in {"bump", "write"}
    PROVE  \/ /\ trig[t].pc \in {"bump", "write"} /\ trig'[t].event = trig[t].event
              /\ trig'[t].todo \subseteq trig[t].todo
           \/ \E e \in events : e.fcm /\ trig'[t].event = e /\ trig'[t].todo = Changed(e)
<1> DEFINE TakesUp ==
       \/ /\ trig[t].pc \in {"bump", "write"} /\ trig'[t].event = trig[t].event
          /\ trig'[t].todo \subseteq trig[t].todo
       \/ \E e \in events : e.fcm /\ trig'[t].event = e /\ trig'[t].todo = Changed(e)
<1>1. CASE trig'[t] = trig[t]
  BY <1>1
<1>f. trig \in [Triggers -> TriggerRuns(Events)]
  BY DEF Typed, TypeOK
<1>2. ASSUME NEW u \in Triggers, NEW e \in events, StartTrigger(u, e) PROVE TakesUp
  BY <1>1, <1>2, <1>f DEF StartTrigger
<1>3. ASSUME NEW u \in Triggers, IncrementPolicyVersion(u) \/ WriteCommand(u) PROVE TakesUp
  <2>1. CASE u # t
    BY <1>1, <1>3, <1>f, <2>1 DEF IncrementPolicyVersion, WriteCommand
  <2>2. CASE u = t
    <3>1. trig[t] \in [pc : {"bump", "write", "push"}, event : Events, todo : SUBSET Fields,
                       version : Nat, run : Nat]
      BY <1>3, <2>2, TriggerRun DEF IncrementPolicyVersion, WriteCommand, Typed
    <3> QED BY <1>3, <1>f, <2>2, <3>1 DEF IncrementPolicyVersion, WriteCommand
  <2> QED BY <2>1, <2>2
<1>4. ASSUME NEW u \in Triggers, SendPush(u) \/ AbortTrigger(u) PROVE TakesUp
  BY <1>1, <1>4, <1>f DEF SendPush, AbortTrigger, Idle
<1>5. ASSUME NEW u \in Triggers, CommandError(u) PROVE TakesUp
  <2>1. CASE u # t
    BY <1>1, <1>5, <1>f, <2>1 DEF CommandError
  <2>2. CASE u = t
    <3>1. trig[t] \in [pc : {"bump", "write", "push"}, event : Events, todo : SUBSET Fields,
                       version : Nat, run : Nat]
      BY <1>5, <2>2, TriggerRun DEF CommandError, Typed
    <3> QED BY <1>5, <1>f, <2>2, <3>1 DEF CommandError
  <2> QED BY <2>1, <2>2
<1>6. (Next /\ trig' # trig) =>
          \E u \in Triggers : \/ \E e \in events : StartTrigger(u, e)
                              \/ IncrementPolicyVersion(u) \/ WriteCommand(u) \/ SendPush(u)
                              \/ AbortTrigger(u) \/ CommandError(u)
  BY DEF Next, CheckOwner, WriteSetting, RegisterToken, PairAgain, TriggerStep, IgnoreEvent,
         ExpireCommand, FetchCommands, WorkStep, ApplyCommand, AcknowledgeCommand, ApplyFails,
         LoseAck, AbortWork, LosePush, Heartbeat, SnapshotDocument, SnapshotCommands,
         ApplyFullPolicy
<1> QED BY <1>1, <1>2, <1>3, <1>4, <1>5, <1>6 DEF vars

\* A worker's commands are those it had, or pending ones; its snapshot is the one it
\* had, or what the document says now.
LEMMA WorkersTakeUp ==
    ASSUME Typed, [Next]_vars, NEW w \in Workers, work'[w] # Idle
    PROVE  /\ \A i \in work'[w].todo : (work[w] # Idle /\ i \in work[w].todo) \/ i \in Pending
           /\ work'[w].pc \in {"critical", "full"} =>
                 \/ /\ work[w] # Idle /\ work[w].pc \in {"critical", "full"}
                    /\ work'[w].snap = work[w].snap
                 \/ work'[w].snap = Effective(policy)
<1> DEFINE TakesUp ==
       /\ \A i \in work'[w].todo : (work[w] # Idle /\ i \in work[w].todo) \/ i \in Pending
       /\ work'[w].pc \in {"critical", "full"} =>
             \/ /\ work[w] # Idle /\ work[w].pc \in {"critical", "full"}
                /\ work'[w].snap = work[w].snap
             \/ work'[w].snap = Effective(policy)
<1>f. work \in [Workers -> Jobs(Len(cmds))]
  BY DEF Typed, TypeOK
<1>1. CASE work'[w] = work[w]
  BY <1>1
<1>c. ASSUME NEW x \in Workers, NEW todo, Continue(x, todo),
             \A i \in todo : (work[x] # Idle /\ i \in work[x].todo) \/ i \in Pending
      PROVE  TakesUp
  BY <1>1, <1>c, <1>f DEF Continue, Job
<1>2. ASSUME NEW x \in Workers, FetchCommands(x) PROVE TakesUp
  BY <1>2, <1>c DEF FetchCommands
<1>3. ASSUME NEW x \in Workers, ApplyCommand(x) \/ ApplyFails(x) PROVE TakesUp
  <2>1. CASE x # w
    BY <1>1, <1>3, <1>f, <2>1 DEF ApplyCommand, ApplyFails
  <2>2. CASE x = w
    <3>1. work[w] \in Jobs(Len(cmds)) /\ work[w] # Idle
      BY <1>3, <2>2, JobCommand DEF ApplyCommand, ApplyFails
    <3> QED BY <1>3, <1>f, <2>2, <3>1 DEF ApplyCommand, ApplyFails, Jobs
  <2> QED BY <2>1, <2>2
<1>4. ASSUME NEW x \in Workers, AcknowledgeCommand(x) \/ LoseAck(x) PROVE TakesUp
  <2>1. work[x] # Idle
    BY <1>4, JobCommand DEF AcknowledgeCommand, LoseAck
  <2> QED BY <1>4, <1>c, <2>1 DEF AcknowledgeCommand, LoseAck
<1>5. ASSUME NEW x \in Workers, AbortWork(x) PROVE TakesUp
  BY <1>1, <1>5, <1>f DEF AbortWork
<1>6. CASE SnapshotDocument
  BY <1>1, <1>6, <1>f DEF SnapshotDocument, Job
<1>7. CASE SnapshotCommands
  <2>1. CASE w # "heartbeat"
    BY <1>1, <1>7, <1>f, <2>1 DEF SnapshotCommands
  <2>2. CASE w = "heartbeat"
    <3>1. work[w] \in Jobs(Len(cmds)) /\ work[w] # Idle /\ work[w].pc = "critical"
      BY <1>7, <1>f, <2>2 DEF SnapshotCommands, Idle
    <3>2. Critical \subseteq Pending
      BY DEF Critical
    <3> QED BY <1>7, <1>f, <2>2, <3>1, <3>2 DEF SnapshotCommands, Jobs
  <2> QED BY <2>1, <2>2
<1>8. CASE ApplyFullPolicy
  <2>1. "heartbeat" \in Workers /\ work["heartbeat"] # Idle
    BY <1>8 DEF ApplyFullPolicy, Idle, Workers
  <2> QED BY <1>8, <1>c, <2>1 DEF ApplyFullPolicy
<1>9. (Next /\ work' # work) =>
          \/ \E x \in Workers : \/ FetchCommands(x) \/ ApplyCommand(x) \/ ApplyFails(x)
                                \/ AcknowledgeCommand(x) \/ LoseAck(x) \/ AbortWork(x)
          \/ SnapshotDocument \/ SnapshotCommands \/ ApplyFullPolicy
  BY DEF Next, CheckOwner, WriteSetting, RegisterToken, PairAgain, TriggerStep, StartTrigger,
         IncrementPolicyVersion, WriteCommand, CommandError, SendPush, AbortTrigger,
         IgnoreEvent, ExpireCommand, WorkStep, LosePush, Heartbeat
<1> QED BY <1>1, <1>2, <1>3, <1>4, <1>5, <1>6, <1>7, <1>8, <1>9 DEF vars

\* With the settings as they are, no event is added.
LEMMA EventsLeave ==
    ASSUME Typed, [Next]_vars, policy' = policy
    PROVE  events' \subseteq events
<1>1. ASSUME NEW new, NEW token, Emit(new, token), new = policy PROVE events' = events
  BY <1>1 DEF Emit, Changed
<1>2. ASSUME NEW s \in Setters, NEW f \in Fields, NEW v \in Values, WriteSetting(s, f, v)
      PROVE  events' = events
  BY <1>1, <1>2 DEF WriteSetting
<1>3. ASSUME NEW m \in Masters, PairAgain(m) PROVE events' = events
  BY <1>1, <1>3 DEF PairAgain
<1>4. (Next /\ ~(events' \subseteq events)) =>
          \/ \E s \in Setters, f \in Fields, v \in Values : WriteSetting(s, f, v)
          \/ \E m \in Masters : PairAgain(m)
  BY DEF Next, CheckOwner, RegisterToken, TriggerStep, StartTrigger, Deliver,
         IncrementPolicyVersion, WriteCommand, CommandError, SendPush, AbortTrigger,
         IgnoreEvent, ExpireCommand, FetchCommands, WorkStep, ApplyCommand,
         AcknowledgeCommand, ApplyFails, LoseAck, AbortWork, LosePush, Heartbeat,
         SnapshotDocument, SnapshotCommands, ApplyFullPolicy
<1> QED BY <1>2, <1>3, <1>4 DEF vars

LEMMA SettledStep ==
    ASSUME Typed, Settled, [Next]_vars, policy' = policy
    PROVE  Settled'
<1>1. dev' = dev
  BY DeviceStays
<1>2. dev' = Effective(policy)'
  BY <1>1 DEF Settled, Effective
<1>3. EventsAgree'
  <2> SUFFICES ASSUME NEW e \in events', e.fcm, NEW f \in Changed(e)
               PROVE  Agrees(f, e.after[f])'
    BY DEF EventsAgree, Changed, Effective
  <2>1. Agrees(f, e.after[f])
    BY EventsLeave DEF Settled, EventsAgree
  <2> QED BY <1>1, <2>1 DEF Agrees, InForce
<1>4. TriggersAgree'
  <2> SUFFICES ASSUME NEW t \in Triggers, trig'[t].pc \in {"bump", "write"},
                      NEW f \in trig'[t].todo
               PROVE  Agrees(f, trig[t].event.after[f])'
    BY DEF TriggersAgree
  <2>1. Agrees(f, trig'[t].event.after[f])
    BY TriggersTakeUp DEF Settled, TriggersAgree, EventsAgree
  <2> QED BY <1>1, <2>1 DEF Agrees, InForce
<1>5. CommandsAgree'
  <2> SUFFICES ASSUME NEW i \in Pending' PROVE Agrees(cmds[i].field, cmds[i].value)'
    BY DEF CommandsAgree
  <2>1. CASE i \in Pending
    <3>1. Agrees(cmds[i].field, cmds[i].value) /\ i \in 1..Len(cmds)
      BY <2>1 DEF Settled, CommandsAgree, Pending
    <3>2. cmds'[i].field = cmds[i].field /\ cmds'[i].value = cmds[i].value
      BY <3>1, CommandsStay
    <3> QED BY <1>1, <3>1, <3>2 DEF Agrees, InForce
  <2>2. ASSUME NEW t \in Triggers, WriteCommand(t), cmds'[i] = Stored(t)
        PROVE  Agrees(cmds[i].field, cmds[i].value)'
    <3> DEFINE f == First(trig[t].todo)
    <3>1. cmds'[i].field = f /\ cmds'[i].value = trig[t].event.after[f]
      BY <2>2 DEF Stored, NextField
    <3>2. f \in trig[t].todo /\ trig[t].pc = "write"
      <4>1. trig[t].todo \in SUBSET Fields /\ trig[t].todo # {}
        BY <2>2, TriggerRun DEF WriteCommand, Typed, TriggersHoldValues
      <4> QED BY <2>2, <4>1, FirstOfFields DEF WriteCommand
    <3>3. Agrees(f, trig[t].event.after[f])
      BY <3>2 DEF Settled, TriggersAgree
    <3> QED BY <1>1, <3>1, <3>3 DEF Agrees, InForce
  <2> QED BY <2>1, <2>2, CommandsStay
<1>6. WorkersAgree'
  <2> SUFFICES ASSUME NEW w \in Workers, work'[w] # Idle
               PROVE  /\ \A i \in work'[w].todo : Agrees(cmds[i].field, cmds[i].value)'
                      /\ work'[w].pc \in {"critical", "full"} => work'[w].snap = dev'
    BY DEF WorkersAgree, Idle
  <2>1. ASSUME NEW i \in work'[w].todo PROVE Agrees(cmds[i].field, cmds[i].value)'
    <3>1. Agrees(cmds[i].field, cmds[i].value)
      BY <2>1, WorkersTakeUp DEF Settled, WorkersAgree, CommandsAgree
    <3>2. i \in 1..Len(cmds)
      <4>1. work[w] # Idle => work[w].todo \in SUBSET (1..Len(cmds))
        BY DEF Typed, TypeOK, Jobs
      <4> QED BY <2>1, <4>1, WorkersTakeUp DEF Pending
    <3>3. cmds'[i].field = cmds[i].field /\ cmds'[i].value = cmds[i].value
      BY <3>2, CommandsStay
    <3> QED BY <1>1, <3>1, <3>3 DEF Agrees, InForce
  <2>2. ASSUME work'[w].pc \in {"critical", "full"} PROVE work'[w].snap = dev'
    BY <1>1, <2>2, WorkersTakeUp DEF Settled, WorkersAgree
  <2> QED BY <2>1, <2>2
<1> QED BY <1>2, <1>3, <1>4, <1>5, <1>6 DEF Settled

\* Once the device follows its document and nothing under way says otherwise, it
\* follows until a parent changes a setting, through repeated events, lost pushes
\* and acknowledgements, late heartbeats and new push tokens.
THEOREM StaysConverged == Spec => ConvergedStays
<1>1. Spec => []Typed
  BY TypedInit, TypedStep, PTL DEF Spec
<1>2. ASSUME Typed, [Next]_vars PROVE [Settled => Settled' \/ policy' # policy]_vars
  BY <1>2, SettledStep
<1> QED BY <1>1, <1>2, PTL DEF Spec, ConvergedStays

-----------------------------------------------------------------------------
(* Versions.                                                               *)

\* What most steps do to versions: nothing.  No command comes or changes its
\* version or number, and no trigger gets to storing commands.
VersionsStay ==
    /\ version' = version
    /\ Len(cmds') = Len(cmds)
    /\ \A i \in 1..Len(cmds) : cmds'[i].version = cmds[i].version /\ cmds'[i].run = cmds[i].run
    /\ \A t \in Triggers : trig'[t].pc = "write" => trig'[t] = trig[t]

LEMMA OtherStepsKeepVersions ==
    ASSUME Typed, [Next]_vars, repairs' = 0,
           \A t \in Triggers : ~ IncrementPolicyVersion(t) /\ ~ WriteCommand(t)
    PROVE  VersionsStay
<1> USE DEF childDoc, bounds
<1>0. trig \in [Triggers -> TriggerRuns(Events)] /\ Idle.pc = "idle"
  BY DEF Typed, TypeOK, Idle
<1>1. ASSUME NEW t \in Triggers,
             \/ \E e \in events : StartTrigger(t, e)
             \/ CommandError(t) \/ SendPush(t) \/ AbortTrigger(t)
      PROVE  VersionsStay
  <2>1. PICK r : trig' = [trig EXCEPT ![t] = r] /\ r.pc # "write"
    <3>1. ASSUME NEW e \in events, StartTrigger(t, e)
          PROVE  \E r : trig' = [trig EXCEPT ![t] = r] /\ r.pc # "write"
      <4> DEFINE r == [pc |-> "bump", event |-> e, todo |-> Changed(e), version |-> 0,
                       run |-> runs + 1]
      <4>1. trig' = [trig EXCEPT ![t] = r] /\ r.pc # "write"
        BY <3>1 DEF StartTrigger
      <4> HIDE DEF r
      <4> QED BY <4>1
    <3>2. CASE CommandError(t)
      <4> DEFINE r == [trig[t] EXCEPT !.pc = "push"]
      <4>1. trig[t].pc # "idle"
        BY <3>2 DEF CommandError
      <4>2. r.pc = "push"
        BY <4>1, TriggerRun DEF Typed
      <4>3. trig' = [trig EXCEPT ![t] = r]
        BY <3>2 DEF CommandError
      <4> HIDE DEF r
      <4> QED BY <4>2, <4>3
    <3>3. CASE SendPush(t) \/ AbortTrigger(t)
      BY <1>0, <3>3 DEF SendPush, AbortTrigger
    <3> QED BY <1>1, <3>1, <3>2, <3>3
  <2>2. \A u \in Triggers : trig'[u].pc = "write" => trig'[u] = trig[u]
    BY <1>0, <2>1
  <2>3. version' = version /\ cmds' = cmds
    BY <1>1 DEF StartTrigger, CommandError, SendPush, AbortTrigger
  <2> QED BY <2>2, <2>3 DEF VersionsStay
<1>2. CASE ExpireCommand
  <2> DEFINE i == Min(Pending)
             c == [cmds[i] EXCEPT !.expired = TRUE]
  <2>1. i \in 1..Len(cmds)
    BY <1>2, MinOfCommands DEF ExpireCommand, Pending, Typed
  <2>2. c \in Commands /\ c.version = cmds[i].version /\ c.run = cmds[i].run
    <3>1. cmds[i] \in Commands
      <4> HIDE DEF i
      <4> QED BY <2>1, ElementOfSeq DEF Typed, TypeOK
    <3> HIDE DEF i
    <3> QED BY <3>1 DEF Commands
  <2>3. cmds' = [cmds EXCEPT ![i] = c]
    BY <1>2 DEF ExpireCommand
  <2>4. Len(cmds') = Len(cmds) /\ \A j \in 1..Len(cmds) : cmds'[j] = IF j = i THEN c ELSE cmds[j]
    <3> HIDE DEF i, c
    <3> QED BY <2>1, <2>2, <2>3, CommandChanged DEF Typed
  <2>5. \A j \in 1..Len(cmds) : cmds'[j].version = cmds[j].version /\ cmds'[j].run = cmds[j].run
    <3> HIDE DEF i, c
    <3> QED BY <2>2, <2>4
  <2> QED BY <1>2, <2>4, <2>5 DEF ExpireCommand, VersionsStay
<1>3. ASSUME NEW w \in Workers, AcknowledgeCommand(w) PROVE VersionsStay
  <2>1. version' = version /\ trig' = trig
    BY <1>3 DEF AcknowledgeCommand
  <2> QED BY <1>3, <2>1, Acknowledged DEF VersionsStay
<1>4. ASSUME NEW m \in Masters, PairAgain(m) PROVE FALSE
  BY <1>4, ControlPlaneAssumption DEF PairAgain, Typed, TypeOK
<1>5. \/ UNCHANGED <<version, cmds, trig>>
      \/ \E m \in Masters : PairAgain(m)
      \/ \E t \in Triggers : \/ \E e \in events : StartTrigger(t, e)
                             \/ IncrementPolicyVersion(t) \/ WriteCommand(t)
                             \/ CommandError(t) \/ SendPush(t) \/ AbortTrigger(t)
      \/ ExpireCommand
      \/ \E w \in Workers : AcknowledgeCommand(w)
  BY DEF Next, CheckOwner, WriteSetting, RegisterToken, TriggerStep, IgnoreEvent, FetchCommands,
         WorkStep, ApplyCommand, ApplyFails, LoseAck, AbortWork, LosePush, Heartbeat,
         SnapshotDocument, SnapshotCommands, ApplyFullPolicy, vars
<1>6. UNCHANGED <<version, cmds, trig>> => VersionsStay
  BY DEF VersionsStay
<1> QED BY <1>1, <1>2, <1>3, <1>4, <1>5, <1>6

LEMMA RepairsGrow ==
    ASSUME Typed, [Next]_vars, repairs' = 0
    PROVE  repairs = 0
<1>1. ASSUME NEW m \in Masters, PairAgain(m) PROVE FALSE
  BY <1>1, ControlPlaneAssumption DEF PairAgain, Typed, TypeOK
<1>2. repairs' = repairs \/ \E m \in Masters : PairAgain(m)
  BY DEF Next, CheckOwner, WriteSetting, RegisterToken, TriggerStep, StartTrigger, Deliver,
         IncrementPolicyVersion, WriteCommand, CommandError, SendPush, AbortTrigger, IgnoreEvent,
         ExpireCommand, FetchCommands, WorkStep, ApplyCommand, ApplyFails, AcknowledgeCommand,
         LoseAck, AbortWork, LosePush, Heartbeat, SnapshotDocument, SnapshotCommands,
         ApplyFullPolicy, Lose, vars, bounds
<1> QED BY <1>1, <1>2

\* A new version is above all that were handed out; a command stored is the first
\* with its version, or another of the same trigger.
LEMMA VersionsStep ==
    ASSUME Inv, [Next]_vars
    PROVE  VersionsHandedOut' /\ VersionNamesOneChange'
<1> SUFFICES ASSUME repairs' = 0 PROVE VersionsHandedOut' /\ VersionNamesOneChange'
  BY DEF VersionsHandedOut, VersionNamesOneChange
<1>0. Typed /\ repairs = 0
  BY RepairsGrow DEF Inv
<1>1. /\ Len(cmds) \in Nat /\ version \in Nat
      /\ \A i \in 1..Len(cmds) : cmds[i].version \in Nat /\ cmds[i].version <= version
      /\ \A i, j \in 1..Len(cmds) : cmds[i].version = cmds[j].version => cmds[i].run = cmds[j].run
  <2>1. cmds \in Seq(Commands) /\ Len(cmds) \in Nat /\ version \in Nat
    BY <1>0, LenProperties DEF Typed, TypeOK
  <2>2. \A i \in 1..Len(cmds) : cmds[i] \in Commands
    BY <2>1, ElementOfSeq
  <2> QED BY <1>0, <2>1, <2>2 DEF Commands, Inv, VersionsHandedOut, VersionNamesOneChange
<1>2. \A t \in Triggers : trig[t].pc = "write" =>
         /\ trig[t].version \in Nat /\ trig[t].version <= version
         /\ \A i \in 1..Len(cmds) : cmds[i].version = trig[t].version => cmds[i].run = trig[t].run
         /\ \A u \in Triggers :
               trig[u].pc = "write" /\ trig[u].version = trig[t].version => u = t
  BY <1>0, TriggerRun DEF Inv, Typed, VersionsHandedOut
<1>3. ASSUME NEW t \in Triggers, IncrementPolicyVersion(t)
      PROVE  VersionsHandedOut' /\ VersionNamesOneChange'
  <2>1. version' = version + 1 /\ cmds' = cmds
    BY <1>3 DEF IncrementPolicyVersion
  <2>2. \A u \in Triggers : u # t => trig'[u] = trig[u]
    BY <1>0, <1>3 DEF IncrementPolicyVersion, Typed, TypeOK
  <2>3. trig'[t].version = version + 1
    <3>1. trig[t].pc # "idle"
      BY <1>3 DEF IncrementPolicyVersion
    <3>2. trig[t] \in [pc : {"bump", "write", "push"}, event : Events, todo : SUBSET Fields,
                       version : Nat, run : Nat]
      BY <1>0, <3>1, TriggerRun DEF Typed
    <3>3. trig'[t] = [trig[t] EXCEPT !.pc = "write", !.version = version + 1]
      BY <1>0, <1>3 DEF IncrementPolicyVersion, Typed, TypeOK
    <3> QED BY <3>2, <3>3
  <2>4. VersionsHandedOut'
    BY <1>1, <1>2, <2>1, <2>2, <2>3 DEF VersionsHandedOut
  <2> QED BY <1>1, <2>1, <2>4 DEF VersionNamesOneChange
<1>4. ASSUME NEW t \in Triggers, WriteCommand(t)
      PROVE  VersionsHandedOut' /\ VersionNamesOneChange'
  <2>1. trig[t].pc = "write" /\ version' = version
    BY <1>4 DEF WriteCommand, childDoc
  <2>2. /\ Len(cmds') = Len(cmds) + 1
        /\ \A i \in 1..Len(cmds) : cmds'[i] = cmds[i]
        /\ cmds'[Len(cmds) + 1] = Stored(t)
        /\ \A u \in Triggers : u # t => trig'[u] = trig[u]
        /\ trig'[t].version = trig[t].version /\ trig'[t].run = trig[t].run
    BY <1>0, <1>4, CommandStored
  <2>3. Stored(t).version = trig[t].version /\ Stored(t).run = trig[t].run
    BY DEF Stored
  <2>4. \A i \in 1..Len(cmds') : \/ i \in 1..Len(cmds) /\ cmds'[i] = cmds[i]
                                 \/ /\ cmds'[i].version = trig[t].version
                                    /\ cmds'[i].run = trig[t].run
    BY <1>1, <2>2, <2>3
  <2>5. VersionsHandedOut'
    <3>1. \A i \in 1..Len(cmds') : cmds'[i].version <= version'
      BY <1>1, <1>2, <2>1, <2>4
    <3>2. \A u \in Triggers : trig'[u].pc = "write" =>
             /\ trig[u].pc = "write"
             /\ trig'[u].version = trig[u].version /\ trig'[u].run = trig[u].run
      BY <2>1, <2>2
    <3>3. ASSUME NEW u \in Triggers, trig'[u].pc = "write"
          PROVE  \A i \in 1..Len(cmds') :
                    cmds'[i].version = trig'[u].version => cmds'[i].run = trig'[u].run
      BY <1>2, <2>1, <2>4, <3>2, <3>3
    <3>4. ASSUME NEW u \in Triggers, trig'[u].pc = "write"
          PROVE  /\ trig'[u].version <= version'
                 /\ \A o \in Triggers :
                       trig'[o].pc = "write" /\ trig'[o].version = trig'[u].version => o = u
      BY <1>2, <2>1, <3>2, <3>4
    <3> QED BY <3>1, <3>3, <3>4 DEF VersionsHandedOut
  <2>6. VersionNamesOneChange'
    BY <1>1, <1>2, <2>1, <2>4 DEF VersionNamesOneChange
  <2> QED BY <2>5, <2>6
<1>5. CASE VersionsStay
  <2>1. VersionNamesOneChange'
    BY <1>1, <1>5 DEF VersionsStay, VersionNamesOneChange
  <2>2. VersionsHandedOut'
    BY <1>1, <1>2, <1>5 DEF VersionsStay, VersionsHandedOut
  <2> QED BY <2>1, <2>2
<1> QED BY <1>0, <1>3, <1>4, <1>5, OtherStepsKeepVersions

\* A policy version names one change: however triggers interleave and fail,
\* commands with the same version were stored by the same trigger, as long as the
\* document was not replaced by a new pairing.
THEOREM OneChangePerVersion == Spec => []VersionNamesOneChange
<1>1. Init => Inv
  <2> SUFFICES ASSUME Init PROVE Inv OBVIOUS
  <2>1. Typed /\ Len(cmds) = 0
    BY TypedInit DEF Init
  <2>2. VersionsHandedOut /\ VersionNamesOneChange
    BY <2>1 DEF Init, Idle, VersionsHandedOut, VersionNamesOneChange
  <2> QED BY <2>1, <2>2 DEF Inv
<1>2. Inv /\ [Next]_vars => Inv'
  BY TypedStep, VersionsStep DEF Inv
<1>3. Inv => VersionNamesOneChange
  BY DEF Inv
<1> QED BY <1>1, <1>2, <1>3, PTL DEF Spec

-----------------------------------------------------------------------------
(* The screen time, for any number of apps, any save period and any bounds. *)

\* What can have been counted since the first day.
SoFar == MaxUse * today + Total(used)

InTheDays ==
    /\ Total(used) <= MaxUse
    /\ \A n \in {dayUse, savedDay.use, reported} \cup sent : n <= SoFar
    /\ \A a \in Apps : appUse[a] <= SoFar /\ savedApps.use[a] <= SoFar

SavedBefore == savedDay.start <= today /\ savedApps.start <= today
SavedToday  == savedDay.start = today

\* The counts of a service connected today, as the property has them, and what
\* they are ahead of the saved ones.
InMemory ==
    connected /\ ~overnight =>
        /\ SavedToday
        /\ dayUse <= Total(used) /\ Total(used) <= dayUse + deaths * SavePeriod
        /\ Total(appUse) = dayUse /\ \A a \in Apps : appUse[a] <= used[a]
        /\ dayUse <= savedDay.use + sinceSave /\ dayUse <= savedDay.use + SavePeriod

\* What the next connection will load.
OnDisk ==
    ~overnight =>
        /\ SavedToday <=> savedApps.start = today
        /\ SavedToday =>
              /\ savedDay.use <= Total(used) /\ Total(savedApps.use) = savedDay.use
              /\ \A a \in Apps : savedApps.use[a] <= used[a]
              /\ ~connected => Total(used) <= savedDay.use + deaths * SavePeriod
        /\ ~SavedToday => Total(used) = 0

Sent == ~overnight => /\ reported <= Total(used)
                      /\ \A n \in sent : n <= Total(used)

\* The types without the bounds, which follow from InTheDays.
TimeTyped ==
    /\ today \in 0..MaxDay /\ connected \in BOOLEAN
    /\ dayUse \in Nat /\ appUse \in [Apps -> Nat] /\ used \in [Apps -> Nat]
    /\ sinceSave \in 0..SavePeriod + 1
    /\ savedDay \in [start : 0..MaxDay, use : Nat]
    /\ savedApps \in [start : 0..MaxDay, use : [Apps -> Nat]]
    /\ sent \subseteq Nat /\ reported \in Nat
    /\ overnight \in BOOLEAN /\ deaths \in 0..MaxDeaths

TimeInv == /\ TimeTyped /\ InTheDays /\ SavedBefore
           /\ InMemory /\ OnDisk /\ Sent

-----------------------------------------------------------------------------
LEMMA TimeConstants ==
    /\ IsFiniteSet(Apps)
    /\ SavePeriod \in Nat /\ MaxUse \in Nat /\ MaxDay \in Nat /\ MaxDeaths \in Nat
BY ScreenTimeAssumption

LEMMA TotalTyped ==
    ASSUME NEW use \in [Apps -> Nat]
    PROVE  IsFiniteSet(Ticks(use)) /\ Total(use) \in Nat
<1> DEFINE Of == [a \in Apps |-> {a} \X (1..use[a])]
           Parts == {{a} \X (1..use[a]) : a \in Apps}
<1>1. Of \in Surjection(Apps, Parts)
  BY DEF Surjection
<1>2. IsFiniteSet(Parts)
  <2> HIDE DEF Of, Parts
  <2> QED BY <1>1, TimeConstants, FS_Surjection DEF ExistsSurjection
<1>3. ASSUME NEW a \in Apps PROVE IsFiniteSet({a} \X (1..use[a]))
  <2>1. use[a] \in Int
    OBVIOUS
  <2>2. IsFiniteSet(1..use[a])
    BY <2>1, FS_Interval
  <2>3. IsFiniteSet({a})
    BY FS_Singleton
  <2> QED BY <2>2, <2>3, FS_Product
<1>4. \A P \in Parts : IsFiniteSet(P)
  BY <1>3
<1>5. IsFiniteSet(UNION Parts)
  <2> HIDE DEF Parts
  <2> QED BY <1>2, <1>4, FS_UNION
<1> QED BY <1>5, FS_CardinalityType DEF Ticks, Total

LEMMA TotalNothing == NoUse \in [Apps -> Nat] /\ Total(NoUse) = 0
<1>1. Ticks(NoUse) = {}
  BY DEF Ticks, NoUse
<1> QED BY <1>1, FS_EmptySet DEF Total, NoUse

\* A tick more of one app is a tick more of the day.
LEMMA TotalCounts ==
    ASSUME NEW use \in [Apps -> Nat], NEW a \in Apps
    PROVE  Total([use EXCEPT ![a] = @ + 1]) = Total(use) + 1
<1> DEFINE more == [use EXCEPT ![a] = @ + 1]
           tick == <<a, use[a] + 1>>
<1>1. tick \notin Ticks(use)
  BY DEF Ticks
<1>2. Ticks(more) = Ticks(use) \cup {tick}
  <2>1. \A b \in Apps : more[b] = IF b = a THEN use[a] + 1 ELSE use[b]
    OBVIOUS
  <2>2. 1..(use[a] + 1) = (1..use[a]) \cup {use[a] + 1}
    OBVIOUS
  <2>3. \A b, n : <<b, n>> \in Ticks(more) <=> b \in Apps /\ n \in 1..more[b]
    BY DEF Ticks
  <2>4. \A b, n : <<b, n>> \in Ticks(use) <=> b \in Apps /\ n \in 1..use[b]
    BY DEF Ticks
  <2>5. \A x \in Ticks(more) \cup Ticks(use) : x = <<x[1], x[2]>>
    BY DEF Ticks
  <2> HIDE DEF more
  <2>6. ASSUME NEW x \in Ticks(more) PROVE x \in Ticks(use) \cup {tick}
    <3>1. x = <<x[1], x[2]>> /\ x[1] \in Apps /\ x[2] \in 1..more[x[1]]
      BY <2>3, <2>5
    <3>2. CASE x[1] = a
      BY <2>1, <2>2, <2>4, <3>1, <3>2
    <3>3. CASE x[1] # a
      BY <2>1, <2>4, <3>1, <3>3
    <3> QED BY <3>2, <3>3
  <2>7. ASSUME NEW x \in Ticks(use) PROVE x \in Ticks(more)
    <3>1. x = <<x[1], x[2]>> /\ x[1] \in Apps /\ x[2] \in 1..use[x[1]]
      BY <2>4, <2>5
    <3>2. x[2] \in 1..more[x[1]]
      BY <2>1, <2>2, <3>1
    <3> QED BY <2>3, <3>1, <3>2
  <2>8. tick \in Ticks(more)
    BY <2>1, <2>2, <2>3
  <2> QED BY <2>6, <2>7, <2>8
<1>3. IsFiniteSet(Ticks(use))
  BY TotalTyped
<1> HIDE DEF tick, more
<1>4. Cardinality(Ticks(more)) = Cardinality(Ticks(use)) + 1
  BY <1>1, <1>2, <1>3, FS_AddElement
<1> QED BY <1>4 DEF Total, more

\* No app has more than all of them.
LEMMA TotalBounds ==
    ASSUME NEW use \in [Apps -> Nat], NEW a \in Apps
    PROVE  use[a] <= Total(use)
<1>1. Cardinality({a} \X (1..use[a])) = use[a]
  <2>1. Cardinality(1..use[a]) = use[a] /\ IsFiniteSet(1..use[a])
    BY FS_Interval
  <2>2. Cardinality({a}) = 1 /\ IsFiniteSet({a})
    BY FS_Singleton
  <2>3. Cardinality({a} \X (1..use[a])) = Cardinality({a}) * Cardinality(1..use[a])
    BY <2>1, <2>2, FS_Product
  <2> QED BY <2>1, <2>2, <2>3
<1>2. {a} \X (1..use[a]) \subseteq Ticks(use)
  BY DEF Ticks
<1> QED BY <1>1, <1>2, TotalTyped, FS_Subset DEF Total

LEMMA TimeTotals ==
    ASSUME TimeTyped
    PROVE  /\ Total(used) \in Nat /\ Total(appUse) \in Nat /\ Total(savedApps.use) \in Nat
           /\ \A a \in Apps : used[a] <= Total(used)
           /\ SoFar \in Nat
<1>1. Total(used) \in Nat /\ Total(appUse) \in Nat /\ Total(savedApps.use) \in Nat
  BY TotalTyped DEF TimeTyped
<1>2. \A a \in Apps : used[a] <= Total(used)
  BY TotalBounds DEF TimeTyped
<1>3. MaxUse * today \in Nat
  BY TimeConstants DEF TimeTyped
<1> QED BY <1>1, <1>2, <1>3 DEF SoFar

LEMMA TimeStarts == ScreenTimeInit => TimeInv
<1> SUFFICES ASSUME ScreenTimeInit PROVE TimeInv
  OBVIOUS
<1> USE TimeConstants DEF ScreenTimeInit
<1>1. TimeTyped
  <2>1. connected \in BOOLEAN /\ overnight \in BOOLEAN
    BY Zenon
  <2>2. /\ savedDay \in [start : 0..MaxDay, use : Nat]
        /\ savedApps \in [start : 0..MaxDay, use : [Apps -> Nat]]
    BY TotalNothing
  <2>3. /\ today \in 0..MaxDay /\ sinceSave \in 0..SavePeriod + 1 /\ deaths \in 0..MaxDeaths
        /\ dayUse \in Nat /\ sent \subseteq Nat /\ reported \in Nat
    OBVIOUS
  <2>4. appUse \in [Apps -> Nat] /\ used \in [Apps -> Nat]
    BY TotalNothing
  <2> QED BY <2>1, <2>2, <2>3, <2>4 DEF TimeTyped
<1>2. Total(used) = 0 /\ Total(savedApps.use) = 0 /\ SoFar = 0
  BY TotalNothing DEF SoFar
<1>3. \A a \in Apps : appUse[a] = 0 /\ savedApps.use[a] = 0 /\ used[a] = 0
  BY DEF NoUse
<1>4. InTheDays
  BY <1>2, <1>3 DEF InTheDays
<1>5. SavedBefore /\ InMemory /\ Sent
  BY <1>2 DEF SavedBefore, InMemory, Sent
<1>6. OnDisk
  BY <1>2, <1>3 DEF OnDisk, SavedToday
<1> QED BY <1>1, <1>4, <1>5, <1>6 DEF TimeInv

LEMMA ConnectedInv == TimeInv /\ OnServiceConnected => TimeInv'
<1> SUFFICES ASSUME TimeInv, OnServiceConnected PROVE TimeInv'
  OBVIOUS
<1> USE TimeConstants DEF TimeInv
<1>1. /\ ~connected /\ connected'
      /\ UNCHANGED <<today, sent, reported, deaths, used, overnight>>
      /\ dayUse' = savedDay'.use /\ appUse' = savedApps'.use /\ sinceSave' = SavePeriod + 1
      /\ savedDay' = IF savedDay.start = today THEN savedDay ELSE [start |-> today, use |-> 0]
      /\ savedApps' = IF savedApps.start = today THEN savedApps
                                                 ELSE [start |-> today, use |-> NoUse]
  BY DEF OnServiceConnected, OfToday, UnchangedHistory
<1>2. TimeTyped'
  BY <1>1, TotalNothing DEF TimeTyped
<1>3. /\ Total(used)' = Total(used) /\ SoFar' = SoFar
      /\ Total(used) \in Nat /\ SoFar \in Nat /\ \A a \in Apps : used[a] \in Nat
      /\ deaths * SavePeriod \in Nat
  BY <1>1, TimeTotals DEF SoFar, TimeTyped
<1>4. /\ savedDay'.start = today /\ savedApps'.start = today
      /\ savedDay'.use \in {savedDay.use, 0}
      /\ \A a \in Apps : savedApps'.use[a] \in {savedApps.use[a], 0}
  BY <1>1 DEF TimeTyped, NoUse
<1>5. InTheDays'
  <2>1. Total(used) <= MaxUse
    BY DEF InTheDays
  <2>2. \A n \in {dayUse, savedDay.use, reported}' \cup sent : n <= SoFar
    BY <1>1, <1>3, <1>4 DEF InTheDays
  <2>3. \A a \in Apps : appUse'[a] <= SoFar /\ savedApps'.use[a] <= SoFar
    BY <1>1, <1>3, <1>4 DEF InTheDays
  <2> QED BY <1>1, <1>3, <2>1, <2>2, <2>3 DEF InTheDays
<1>6. SavedBefore'
  BY <1>1, <1>4 DEF SavedBefore, TimeTyped
\* What was saved today, or nothing on a day not begun.
<1>7. ASSUME ~overnight
      PROVE  /\ savedDay'.use <= Total(used) /\ Total(savedApps'.use) = savedDay'.use
             /\ \A a \in Apps : savedApps'.use[a] <= used[a]
             /\ Total(used) <= savedDay'.use + deaths * SavePeriod
  <2>1. CASE SavedToday
    <3>1. savedDay' = savedDay /\ savedApps' = savedApps
      BY <1>1, <1>7, <2>1 DEF OnDisk, SavedToday
    <3> QED BY <1>1, <1>7, <2>1, <3>1 DEF OnDisk
  <2>2. CASE ~SavedToday
    <3>1. savedDay'.use = 0 /\ savedApps'.use = NoUse /\ Total(used) = 0
      BY <1>1, <1>7, <2>2 DEF OnDisk, SavedToday
    <3> QED BY <1>3, <3>1, TotalNothing DEF NoUse
  <2> QED BY <2>1, <2>2
<1>8. InMemory'
  BY <1>1, <1>2, <1>3, <1>4, <1>7 DEF InMemory, SavedToday, TimeTyped
<1>9. OnDisk'
  BY <1>1, <1>3, <1>4, <1>7 DEF OnDisk, SavedToday
<1>10. Sent'
  BY <1>1, <1>3 DEF Sent
<1> QED BY <1>2, <1>5, <1>6, <1>8, <1>9, <1>10

LEMMA RoundInv == TimeInv /\ RoundWithoutUse => TimeInv'
<1> SUFFICES ASSUME TimeInv, RoundWithoutUse PROVE TimeInv'
  OBVIOUS
<1> USE TimeConstants DEF TimeInv
<1>1. /\ connected /\ sinceSave <= SavePeriod /\ sinceSave' = sinceSave + 1
      /\ UNCHANGED <<today, connected, dayUse, appUse, savedDay, savedApps, sent, reported,
                     deaths, used, overnight>>
  BY DEF RoundWithoutUse, UnchangedHistory
<1>2. TimeTyped'
  BY <1>1 DEF TimeTyped
<1>3. InMemory'
  BY <1>1 DEF InMemory, SavedToday, TimeTyped
<1> QED BY <1>1, <1>2, <1>3 DEF InTheDays, SoFar, SavedBefore, OnDisk, SavedToday, Sent

LEMMA ReportInv == TimeInv /\ ReportDailyUsage => TimeInv'
<1> SUFFICES ASSUME TimeInv, ReportDailyUsage PROVE TimeInv'
  OBVIOUS
<1> USE TimeConstants DEF TimeInv
<1>1. /\ UNCHANGED <<today, connected, dayUse, appUse, sinceSave, savedDay, savedApps, deaths,
                     used, overnight>>
      /\ sent' \subseteq sent /\ reported' \in sent \cup {reported}
  BY DEF ReportDailyUsage, UnchangedHistory
<1>2. TimeTyped'
  BY <1>1 DEF TimeTyped
<1>3. InTheDays'
  BY <1>1 DEF InTheDays, SoFar
<1>4. Sent'
  BY <1>1 DEF Sent
<1> QED BY <1>1, <1>2, <1>3, <1>4 DEF InMemory, SavedBefore, OnDisk, SavedToday

\* What is in memory goes with the process; onDestroy saves it first.
LEMMA StopInv ==
    ASSUME TimeInv, Stop, UnchangedHistory, UNCHANGED <<today, reported>>,
           \/ /\ Save(dayUse, appUse) /\ UNCHANGED deaths
              /\ sent' = sent \cup {dayUse} \/ UNCHANGED sent
           \/ /\ deaths < MaxDeaths /\ deaths' = deaths + 1
              /\ UNCHANGED <<savedDay, savedApps, sent>>
    PROVE  TimeInv'
<1> USE TimeConstants DEF TimeInv
<1>1. /\ connected /\ ~connected'
      /\ dayUse' = 0 /\ appUse' = NoUse /\ sinceSave' = SavePeriod + 1
      /\ UNCHANGED <<today, reported, used, overnight>>
      /\ savedDay'.start = savedDay.start
      /\ sent' \subseteq sent \cup {dayUse}
      /\ deaths' \in 0..MaxDeaths
  BY DEF Stop, UnchangedHistory, Save, TimeTyped
\* Saved, or killed with a save period lost.
<1>2. \/ /\ savedDay'.use = dayUse /\ savedApps' = [start |-> today, use |-> appUse]
         /\ deaths' = deaths
      \/ savedDay' = savedDay /\ savedApps' = savedApps /\ deaths' = deaths + 1
  BY DEF Save, TimeTyped
<1>3. TimeTyped'
  <2>1. connected' \in BOOLEAN
    BY Zenon DEF Stop
  <2>2. savedDay' \in [start : 0..MaxDay, use : Nat]
    BY DEF TimeTyped, Save
  <2>3. savedApps' \in [start : 0..MaxDay, use : [Apps -> Nat]]
    BY DEF TimeTyped, Save
  <2>4. sent' \subseteq Nat
    BY <1>1 DEF TimeTyped
  <2>5. /\ today' \in 0..MaxDay /\ dayUse' \in Nat /\ appUse' \in [Apps -> Nat]
        /\ used' \in [Apps -> Nat] /\ sinceSave' \in 0..SavePeriod + 1
        /\ reported' \in Nat /\ overnight' \in BOOLEAN
    BY <1>1, TotalNothing DEF TimeTyped
  <2> QED BY <1>1, <2>1, <2>2, <2>3, <2>4, <2>5 DEF TimeTyped
<1>4. /\ Total(used)' = Total(used) /\ SoFar' = SoFar
      /\ Total(used) \in Nat /\ SoFar \in Nat
  BY <1>1, TimeTotals DEF SoFar
<1>5. InTheDays'
  <2>1. \A n \in {dayUse, savedDay.use, reported}' \cup sent' : n <= SoFar
    BY <1>1, <1>2, <1>4 DEF InTheDays
  <2>2. \A a \in Apps : appUse'[a] <= SoFar /\ savedApps'.use[a] <= SoFar
    BY <1>1, <1>2, <1>4 DEF InTheDays, NoUse
  <2> QED BY <1>4, <2>1, <2>2 DEF InTheDays
<1>6. SavedBefore'
  BY <1>1, <1>2, <1>3 DEF SavedBefore, TimeTyped
<1>7. InMemory'
  BY <1>1 DEF InMemory
<1>8. OnDisk'
  <2> SUFFICES ASSUME ~overnight
               PROVE  /\ savedDay'.start = today /\ savedApps'.start = today
                      /\ savedDay'.use <= Total(used) /\ Total(savedApps'.use) = savedDay'.use
                      /\ \A a \in Apps : savedApps'.use[a] <= used[a]
                      /\ Total(used) <= savedDay'.use + deaths' * SavePeriod
    BY <1>1, <1>4 DEF OnDisk, SavedToday
  <2>1. SavedToday /\ savedDay'.start = today /\ savedApps'.start = today
    BY <1>1, <1>2 DEF InMemory, OnDisk, SavedToday
  <2>2. CASE /\ savedDay'.use = dayUse /\ savedApps' = [start |-> today, use |-> appUse]
             /\ deaths' = deaths
    BY <1>1, <2>1, <2>2 DEF InMemory
  <2>3. CASE savedDay' = savedDay /\ savedApps' = savedApps /\ deaths' = deaths + 1
    <3>1. (deaths + 1) * SavePeriod = deaths * SavePeriod + SavePeriod
      BY DEF TimeTyped
    <3>2. /\ Total(used) <= dayUse + deaths * SavePeriod
          /\ dayUse <= savedDay.use + SavePeriod
      BY <1>1 DEF InMemory
    <3>3. /\ savedDay.use \in Nat /\ dayUse \in Nat /\ deaths * SavePeriod \in Nat
      BY DEF TimeTyped
    <3>4. Total(used) <= savedDay.use + deaths' * SavePeriod
      BY <1>4, <2>3, <3>1, <3>2, <3>3
    <3> QED BY <2>1, <2>3, <3>4 DEF OnDisk
  <2> QED BY <1>2, <2>1, <2>2, <2>3
<1>9. Sent'
  BY <1>1, <1>4 DEF Sent, InMemory
<1> QED BY <1>3, <1>5, <1>6, <1>7, <1>8, <1>9

LEMMA MidnightInv == TimeInv /\ Midnight => TimeInv'
<1> SUFFICES ASSUME TimeInv, Midnight PROVE TimeInv'
  OBVIOUS
<1> USE TimeConstants DEF TimeInv
<1>1. /\ today < MaxDay /\ today' = today + 1 /\ used' = NoUse /\ overnight' = connected
      /\ deaths' = 0 /\ sent' = {} /\ reported' = 0
      /\ UNCHANGED <<connected, dayUse, appUse, sinceSave, savedDay, savedApps>>
  BY DEF Midnight
<1>2. TimeTyped'
  BY <1>1, TotalNothing DEF TimeTyped
<1>3. Total(used)' = 0
  BY <1>1, TotalNothing
<1>4. SoFar <= SoFar' /\ SoFar \in Nat /\ SoFar' \in Nat
  <2>1. MaxUse * (today + 1) = MaxUse * today + MaxUse /\ MaxUse * today \in Nat
    BY DEF TimeTyped
  <2>2. SoFar' = MaxUse * today + MaxUse
    BY <1>1, <1>3, <2>1 DEF SoFar
  <2> QED BY <2>1, <2>2, TimeTotals DEF SoFar, InTheDays
<1>5. InTheDays'
  <2>1. \A n \in {dayUse, savedDay.use, reported}' \cup sent' : n <= SoFar'
    <3>1. dayUse \in Nat /\ savedDay.use \in Nat
      BY DEF TimeTyped
    <3> QED BY <1>1, <1>4, <3>1 DEF InTheDays
  <2>2. \A a \in Apps : appUse'[a] <= SoFar' /\ savedApps'.use[a] <= SoFar'
    <3>1. \A a \in Apps : appUse[a] \in Nat /\ savedApps.use[a] \in Nat
      BY DEF TimeTyped
    <3> QED BY <1>1, <1>4, <3>1 DEF InTheDays
  <2> QED BY <1>3, <2>1, <2>2 DEF InTheDays
\* Nothing has been saved on the new day.
<1>6. SavedBefore' /\ ~SavedToday' /\ savedApps'.start # today'
  BY <1>1 DEF SavedBefore, SavedToday, TimeTyped
<1>7. InMemory' /\ Sent'
  BY <1>1, <1>3 DEF InMemory, Sent
<1>8. OnDisk'
  BY <1>3, <1>6 DEF OnDisk
<1> QED BY <1>2, <1>5, <1>6, <1>7, <1>8

\* A round counts one tick more of the app in front.
LEMMA UseInv == ASSUME TimeInv, NEW a \in Apps, UpdateUsageStats(a) PROVE TimeInv'
<1> USE TimeConstants DEF TimeInv
<1>1. /\ connected /\ Total(used) < MaxUse
      /\ dayUse' = dayUse + 1
      /\ appUse' = [appUse EXCEPT ![a] = @ + 1] /\ used' = [used EXCEPT ![a] = @ + 1]
      /\ UNCHANGED <<today, connected, reported, overnight, deaths>>
  BY DEF UpdateUsageStats
<1>2. /\ Total(used)' = Total(used) + 1 /\ Total(appUse)' = Total(appUse) + 1
      /\ Total(used) \in Nat /\ Total(appUse) \in Nat
  BY <1>1, TotalCounts, TimeTotals DEF TimeTyped
<1>3. /\ \A b \in Apps : /\ appUse'[b] = IF b = a THEN appUse[b] + 1 ELSE appUse[b]
                         /\ used'[b] = IF b = a THEN used[b] + 1 ELSE used[b]
                         /\ appUse[b] \in Nat /\ used[b] \in Nat
      /\ dayUse \in Nat /\ dayUse' \in Nat /\ savedDay.use \in Nat
      /\ appUse' \in [Apps -> Nat] /\ used' \in [Apps -> Nat]
  BY <1>1 DEF TimeTyped
<1>4. SoFar' = SoFar + 1 /\ SoFar \in Nat
  <2>1. MaxUse * today \in Nat
    BY DEF TimeTyped
  <2> QED BY <1>1, <1>2, <2>1 DEF SoFar
\* The counts are saved, or the save is put off.
<1>5. \/ /\ savedDay' = [savedDay EXCEPT !.use = dayUse']
         /\ savedApps' = [start |-> today, use |-> appUse'] /\ sinceSave' = 0
      \/ /\ sinceSave < SavePeriod /\ sinceSave' = sinceSave + 1
         /\ UNCHANGED <<savedDay, savedApps>>
  BY DEF UpdateUsageStats, Save, TimeTyped
<1>6. sent' \subseteq sent \cup {dayUse'}
  BY DEF UpdateUsageStats, Report
<1>7. /\ savedDay' \in [start : 0..MaxDay, use : Nat]
      /\ savedApps' \in [start : 0..MaxDay, use : [Apps -> Nat]]
      /\ savedDay'.start = savedDay.start
      /\ \/ savedDay'.use = dayUse' /\ savedApps' = [start |-> today, use |-> appUse']
         \/ savedDay' = savedDay /\ savedApps' = savedApps
  BY <1>3, <1>5 DEF TimeTyped
<1>8. TimeTyped'
  <2>1. sinceSave' \in 0..SavePeriod + 1
    BY <1>5 DEF TimeTyped
  <2>2. sent' \subseteq Nat
    BY <1>3, <1>6 DEF TimeTyped
  <2> QED BY <1>1, <1>3, <1>7, <2>1, <2>2 DEF TimeTyped
<1>9. InTheDays'
  <2>1. dayUse' <= SoFar'
    BY <1>1, <1>3, <1>4 DEF InTheDays
  <2>2. \A b \in Apps : appUse'[b] <= SoFar'
    BY <1>3, <1>4 DEF InTheDays
  <2>3. savedDay'.use <= SoFar' /\ reported' <= SoFar'
    BY <1>1, <1>3, <1>4, <1>7, <2>1 DEF InTheDays, TimeTyped
  <2>4. \A b \in Apps : savedApps'.use[b] <= SoFar'
    <3>1. \A b \in Apps : savedApps.use[b] <= SoFar /\ savedApps.use[b] \in Nat
      BY DEF InTheDays, TimeTyped
    <3> QED BY <1>4, <1>7, <2>2, <3>1
  <2>5. \A n \in sent' : n <= SoFar'
    BY <1>4, <1>6, <2>1 DEF InTheDays, TimeTyped
  <2>6. Total(used)' <= MaxUse
    BY <1>1, <1>2
  <2> QED BY <2>1, <2>2, <2>3, <2>4, <2>5, <2>6 DEF InTheDays
<1>10. SavedBefore'
  BY <1>1, <1>5, <1>7 DEF SavedBefore, TimeTyped
<1>11. InMemory'
  <2> SUFFICES ASSUME ~overnight
               PROVE  /\ savedDay'.start = today
                      /\ dayUse' <= Total(used)' /\ Total(used)' <= dayUse' + deaths * SavePeriod
                      /\ Total(appUse)' = dayUse' /\ \A b \in Apps : appUse'[b] <= used'[b]
                      /\ dayUse' <= savedDay'.use + sinceSave'
                      /\ dayUse' <= savedDay'.use + SavePeriod
    BY <1>1 DEF InMemory, SavedToday
  <2>1. /\ savedDay.start = today
        /\ dayUse <= Total(used) /\ Total(used) <= dayUse + deaths * SavePeriod
        /\ Total(appUse) = dayUse /\ \A b \in Apps : appUse[b] <= used[b]
        /\ dayUse <= savedDay.use + sinceSave
    BY <1>1 DEF InMemory, SavedToday
  <2>2. deaths * SavePeriod \in Nat /\ sinceSave \in Nat
    BY DEF TimeTyped
  <2>3. Total(used)' <= dayUse' + deaths * SavePeriod
    BY <1>1, <1>2, <1>3, <2>1, <2>2
  <2>4. /\ dayUse' <= savedDay'.use + sinceSave'
        /\ dayUse' <= savedDay'.use + SavePeriod
    <3>1. CASE savedDay'.use = dayUse' /\ sinceSave' = 0
      BY <1>3, <3>1
    <3>2. CASE savedDay' = savedDay /\ sinceSave < SavePeriod /\ sinceSave' = sinceSave + 1
      BY <1>1, <1>3, <2>1, <2>2, <3>2
    <3> QED BY <1>5, <3>1, <3>2 DEF TimeTyped
  <2> QED BY <1>1, <1>2, <1>3, <1>7, <2>1, <2>3, <2>4
<1>12. OnDisk'
  <2> SUFFICES ASSUME ~overnight
               PROVE  /\ savedDay'.start = today /\ savedApps'.start = today
                      /\ savedDay'.use <= Total(used)'
                      /\ Total(savedApps.use)' = savedDay'.use
                      /\ \A b \in Apps : savedApps'.use[b] <= used'[b]
    BY <1>1 DEF OnDisk, SavedToday
  <2>1. /\ savedDay.start = today /\ savedApps.start = today
        /\ savedDay.use <= Total(used) /\ Total(savedApps.use) = savedDay.use
        /\ \A b \in Apps : savedApps.use[b] <= used[b]
    BY <1>1 DEF OnDisk, InMemory, SavedToday
  <2>2. /\ dayUse' <= Total(used)' /\ Total(appUse)' = dayUse'
        /\ \A b \in Apps : appUse'[b] <= used'[b]
    BY <1>1, <1>11 DEF InMemory
  <2>3. CASE savedDay'.use = dayUse' /\ savedApps' = [start |-> today, use |-> appUse']
    BY <1>7, <2>1, <2>2, <2>3
  <2>4. CASE savedDay' = savedDay /\ savedApps' = savedApps
    <3>1. \A b \in Apps : savedApps.use[b] \in Nat
      BY DEF TimeTyped
    <3> QED BY <1>2, <1>3, <2>1, <2>4, <3>1
  <2> QED BY <1>7, <2>3, <2>4
<1>13. Sent'
  <2> SUFFICES ASSUME ~overnight PROVE reported <= Total(used)' /\ \A n \in sent' : n <= Total(used)'
    BY <1>1 DEF Sent
  <2>1. dayUse' <= Total(used)'
    BY <1>1, <1>11 DEF InMemory
  <2> QED BY <1>2, <1>6, <2>1 DEF Sent, TimeTyped
<1> QED BY <1>8, <1>9, <1>10, <1>11, <1>12, <1>13

LEMMA TimeStep == TimeInv /\ [ScreenTimeNext]_screenTimeVars => TimeInv'
<1> SUFFICES ASSUME TimeInv, [ScreenTimeNext]_screenTimeVars PROVE TimeInv'
  OBVIOUS
<1>1. CASE OnServiceConnected
  BY <1>1, ConnectedInv
<1>2. CASE RoundWithoutUse
  BY <1>2, RoundInv
<1>3. CASE OnDestroy
  BY <1>3, StopInv DEF OnDestroy, Report
<1>4. CASE Kill
  BY <1>4, StopInv DEF Kill
<1>5. ASSUME NEW a \in Apps, UpdateUsageStats(a) PROVE TimeInv'
  BY <1>5, UseInv
<1>6. CASE ReportDailyUsage
  BY <1>6, ReportInv
<1>7. CASE Midnight
  BY <1>7, MidnightInv
<1>8. CASE UNCHANGED screenTimeVars
  BY <1>8 DEF screenTimeVars, TimeInv, TimeTyped, InTheDays, SoFar, SavedBefore, SavedToday,
              InMemory, OnDisk, Sent
<1> QED BY <1>1, <1>2, <1>3, <1>4, <1>5, <1>6, <1>7, <1>8 DEF ScreenTimeNext

LEMMA TimeAlways == ScreenTimeSpec => []TimeInv
BY TimeStarts, TimeStep, PTL DEF ScreenTimeSpec

\* The accessibility service's counts, what it saved and what it reported keep
\* their types, and stay below what the days so far allow.
THEOREM TimeTypes == ScreenTimeSpec => []ScreenTimeTypeOK
<1>1. TimeInv => ScreenTimeTypeOK
  <2> SUFFICES ASSUME TimeInv PROVE ScreenTimeTypeOK
    OBVIOUS
  <2> USE TimeConstants DEF TimeInv, TimeTyped
  <2>1. SoFar \in Nat /\ \A n \in Nat : n <= SoFar => n \in Counts
    <3>1. SoFar \in Nat /\ Total(used) \in Nat /\ Total(used) <= MaxUse
      BY TimeTotals DEF InTheDays
    <3>2. MaxUse * today <= MaxUse * MaxDay
      <4>1. today \in Nat /\ MaxDay - today \in Nat
        OBVIOUS
      <4>2. MaxUse * (MaxDay - today) \in Nat
        BY <4>1
      <4>3. MaxUse * MaxDay = MaxUse * today + MaxUse * (MaxDay - today)
        BY <4>1
      <4> QED BY <4>1, <4>2, <4>3
    <3>3. MaxUse * (MaxDay + 1) = MaxUse * MaxDay + MaxUse
      OBVIOUS
    <3>4. SoFar <= MaxUse * (MaxDay + 1)
      BY <3>1, <3>2, <3>3 DEF SoFar
    <3> QED BY <3>1, <3>4 DEF Counts
  <2>2. dayUse \in Counts /\ savedDay.use \in Counts /\ reported \in Counts /\ sent \subseteq Counts
    BY <2>1 DEF InTheDays
  <2>3. \A a \in Apps : appUse[a] \in Counts /\ savedApps.use[a] \in Counts
    BY <2>1 DEF InTheDays
  <2>4. used \in [Apps -> 0..MaxUse]
    BY TimeTotals DEF InTheDays
  <2>5. appUse \in [Apps -> Counts] /\ savedApps.use \in [Apps -> Counts]
    BY <2>3
  <2>6. /\ savedDay \in [start : 0..MaxDay, use : Counts]
        /\ savedApps \in [start : 0..MaxDay, use : [Apps -> Counts]]
    BY <2>2, <2>5
  <2> QED BY <2>2, <2>4, <2>5, <2>6 DEF ScreenTimeTypeOK
<1> QED BY <1>1, TimeAlways, PTL

\* On a day that the accessibility service did not enter running, its counts are
\* the day's, but for a save period for each kill, and no report exceeds them,
\* for any number of apps, kills and days.
THEOREM CountsToday == ScreenTimeSpec => []CountsAreTodays
<1>1. TimeInv => CountsAreTodays
  BY DEF TimeInv, InMemory, Sent, CountsAreTodays
<1> QED BY <1>1, TimeAlways, PTL

-----------------------------------------------------------------------------
(* The inbox, for any number of calls, tokens and keys and any length.     *)

\* When a token was last registered, and which were, as functions of the history.
LastIn(seen, t) == LET at == {n \in DOMAIN seen : seen[n] = t}
                   IN  IF at = {} THEN 0 ELSE CHOOSE n \in at : \A m \in at : m <= n
KnownIn(seen)   == {t \in PushTokens : LastIn(seen, t) > 0}

OnceEach(list) == \A i, j \in 1..Len(list) : list[i] = list[j] => i = j
TokenLists     == {s \in Seq(PushTokens) : Len(s) <= MaxEndpoints /\ OnceEach(s)}

\* The list holds tokens that were registered, later ones first; those it does not
\* hold were registered before all of them, and it is as long as it can be.
NewestFirst(list, seen) ==
    /\ \A i \in 1..Len(list) : list[i] \in KnownIn(seen)
    /\ \A i, j \in 1..Len(list) : i < j => LastIn(seen, list[i]) > LastIn(seen, list[j])
    /\ \A u \in KnownIn(seen) : (\A i \in 1..Len(list) : list[i] # u) =>
           \A i \in 1..Len(list) : LastIn(seen, u) < LastIn(seen, list[i])
    /\ Len(list) = IF Cardinality(KnownIn(seen)) < MaxEndpoints
                   THEN Cardinality(KnownIn(seen)) ELSE MaxEndpoints

\* A call that is not late still finds what it has read.
RegisterCalls == [pc : {"register"}, token : PushTokens, read : TokenLists, late : BOOLEAN]
PublishCalls  == [pc : {"publish"}, key : EventKeys, late : BOOLEAN]

InboxTyped ==
    /\ endpoints \in TokenLists
    /\ tokensSeen \in Seq(PushTokens)
    /\ deviceEvents \in [EventKeys -> Nat] /\ raced \in BOOLEAN
    /\ inboxCall \in [InboxCalls -> {InboxIdle} \cup RegisterCalls \cup PublishCalls]

Holds(c) == /\ c \in RegisterCalls /\ ~c.late => c.read = endpoints
            /\ c \in PublishCalls /\ ~c.late => deviceEvents[c.key] = 0
ReadsHold == \A p \in InboxCalls : Holds(inboxCall[p])

InboxInv == /\ InboxTyped /\ ReadsHold /\ StoredOnce
            /\ ~raced => NewestFirst(endpoints, tokensSeen)

-----------------------------------------------------------------------------
\* Among the numbers up to n there is a greatest.
LEMMA GreatestExists ==
    ASSUME NEW n \in Nat, NEW S \in SUBSET (1..n), S # {}
    PROVE  \E x \in S : \A y \in S : y <= x
<1> DEFINE D == {d \in 0..n : n - d \in S}
<1>1. D \in SUBSET Nat
  OBVIOUS
<1>2. D # {}
  <2>1. PICK x \in S : TRUE
    OBVIOUS
  <2>2. n - x \in 0..n /\ n - (n - x) = x
    BY <2>1
  <2>3. n - x \in D
    BY <2>1, <2>2
  <2> QED BY <2>3
<1>3. PICK d \in D : \A e \in D : d <= e
  <2> HIDE DEF D
  <2> QED BY <1>1, <1>2, LeastExists
<1>4. \A y \in S : n - y \in D
  <2> SUFFICES ASSUME NEW y \in S PROVE n - y \in 0..n /\ n - (n - y) = y
    OBVIOUS
  <2> QED OBVIOUS
<1>5. n - d \in S /\ d \in 0..n
  OBVIOUS
<1>6. ASSUME NEW y \in S PROVE y <= n - d
  <2>1. d <= n - y
    BY <1>3, <1>4, <1>6
  <2> QED BY <1>5, <2>1
<1> QED BY <1>5, <1>6

LEMMA LastIs ==
    ASSUME NEW seen \in Seq(PushTokens), NEW t
    PROVE  /\ LastIn(seen, t) \in 0..Len(seen)
           /\ LastIn(seen, t) > 0 => seen[LastIn(seen, t)] = t
           /\ \A m \in 1..Len(seen) : seen[m] = t => m <= LastIn(seen, t)
<1> DEFINE at == {n \in DOMAIN seen : seen[n] = t}
<1>1. Len(seen) \in Nat /\ DOMAIN seen = 1..Len(seen) /\ at \in SUBSET (1..Len(seen))
  BY LenProperties
<1>2. CASE at = {}
  <2>1. LastIn(seen, t) = 0
    BY <1>2 DEF LastIn
  <2>2. \A m \in 1..Len(seen) : seen[m] # t
    BY <1>1, <1>2
  <2> QED BY <1>1, <2>1, <2>2
<1>3. CASE at # {}
  <2>1. \E n \in at : \A m \in at : m <= n
    <3> HIDE DEF at
    <3> QED BY <1>1, <1>3, GreatestExists
  <2>2. LastIn(seen, t) = CHOOSE n \in at : \A m \in at : m <= n
    BY <1>3 DEF LastIn
  <2>3. LastIn(seen, t) \in at /\ \A m \in at : m <= LastIn(seen, t)
    <3> HIDE DEF at
    <3> QED BY <2>1, <2>2
  <2>4. LastIn(seen, t) \in 1..Len(seen) /\ seen[LastIn(seen, t)] = t
    BY <1>1, <2>3
  <2> QED BY <1>1, <2>3, <2>4
<1> QED BY <1>2, <1>3

LEMMA LastOfAppended ==
    ASSUME NEW seen \in Seq(PushTokens), NEW t \in PushTokens
    PROVE  /\ Append(seen, t) \in Seq(PushTokens)
           /\ \A u : LastIn(Append(seen, t), u) =
                         IF u = t THEN Len(seen) + 1 ELSE LastIn(seen, u)
<1> DEFINE more == Append(seen, t)
<1>1. /\ more \in Seq(PushTokens) /\ Len(more) = Len(seen) + 1 /\ Len(seen) \in Nat
      /\ \A i \in 1..Len(more) : more[i] = IF i = Len(seen) + 1 THEN t ELSE seen[i]
  BY LenProperties, AppendProperties
<1> HIDE DEF more
<1>2. ASSUME NEW u PROVE LastIn(more, u) = IF u = t THEN Len(seen) + 1 ELSE LastIn(seen, u)
  <2>1. /\ LastIn(more, u) \in 0..Len(more)
        /\ LastIn(more, u) > 0 => more[LastIn(more, u)] = u
        /\ \A m \in 1..Len(more) : more[m] = u => m <= LastIn(more, u)
    BY <1>1, LastIs
  <2>2. /\ LastIn(seen, u) \in 0..Len(seen)
        /\ LastIn(seen, u) > 0 => seen[LastIn(seen, u)] = u
        /\ \A m \in 1..Len(seen) : seen[m] = u => m <= LastIn(seen, u)
    BY LastIs
  <2>3. CASE u = t
    <3>1. Len(seen) + 1 \in 1..Len(more) /\ more[Len(seen) + 1] = t
      BY <1>1
    <3> QED BY <1>1, <2>1, <2>3, <3>1
  <2>4. CASE u # t
    <3>1. LastIn(more, u) # Len(seen) + 1
      BY <1>1, <2>1, <2>4
    <3>2. LastIn(more, u) > 0 => LastIn(more, u) <= LastIn(seen, u)
      BY <1>1, <2>1, <2>2, <3>1
    <3>3. LastIn(seen, u) > 0 => LastIn(seen, u) <= LastIn(more, u)
      BY <1>1, <2>1, <2>2
    <3> QED BY <1>1, <2>1, <2>2, <2>4, <3>1, <3>2, <3>3
  <2> QED BY <2>3, <2>4
<1> QED BY <1>1, <1>2 DEF more

LEMMA KnownFinite ==
    ASSUME NEW seen \in Seq(PushTokens)
    PROVE  IsFiniteSet(KnownIn(seen)) /\ Cardinality(KnownIn(seen)) \in Nat
<1> DEFINE S == {n \in 1..Len(seen) : seen[n] \in KnownIn(seen)}
           f == [n \in S |-> seen[n]]
<1>1. Len(seen) \in Nat /\ IsFiniteSet(1..Len(seen))
  BY LenProperties, FS_Interval
<1>2. IsFiniteSet(S)
  BY <1>1, FS_Subset
<1>3. f \in Surjection(S, KnownIn(seen))
  <2>1. \A u \in KnownIn(seen) : LastIn(seen, u) \in 1..Len(seen) /\ seen[LastIn(seen, u)] = u
    BY <1>1, LastIs DEF KnownIn
  <2> QED BY <2>1 DEF Surjection
<1>4. IsFiniteSet(KnownIn(seen))
  <2> HIDE DEF S, f
  <2> QED BY <1>2, <1>3, FS_Surjection
<1> QED BY <1>4, FS_CardinalityType

\* Without keeps the other tokens, in their order: at holds where each was.
Keeping(list, t, others, at) ==
    /\ at \in [1..Len(others) -> 1..Len(list)]
    /\ \A i \in 1..Len(others) : others[i] = list[at[i]] /\ others[i] # t
    /\ \A i, j \in 1..Len(others) : i < j => at[i] < at[j]

LEMMA WithoutIs ==
    ASSUME NEW list \in TokenLists, NEW t
    PROVE  /\ Without(t, list) \in Seq(PushTokens)
           /\ Len(Without(t, list)) = IF \E i \in 1..Len(list) : list[i] = t
                                      THEN Len(list) - 1 ELSE Len(list)
           /\ \E at : /\ Keeping(list, t, Without(t, list), at)
                      /\ \A j \in 1..Len(list) : list[j] # t =>
                             \E i \in 1..Len(Without(t, list)) : at[i] = j
<1>1. /\ list \in Seq(PushTokens) /\ Len(list) \in Nat /\ DOMAIN list = 1..Len(list)
      /\ \A i \in 1..Len(list) : list[i] \in PushTokens
      /\ OnceEach(list)
  BY LenProperties, ElementOfSeq DEF TokenLists
<1>2. CASE \A i \in 1..Len(list) : list[i] # t
  <2>1. Without(t, list) = list
    BY <1>1, <1>2 DEF Without
  <2> DEFINE at == [i \in 1..Len(list) |-> i]
  <2>2. Keeping(list, t, list, at)
    BY <1>2 DEF Keeping
  <2>3. \A j \in 1..Len(list) : at[j] = j
    OBVIOUS
  <2> HIDE DEF at
  <2> QED BY <1>1, <1>2, <2>1, <2>2, <2>3
<1>3. CASE \E i \in 1..Len(list) : list[i] = t
  <2>1. PICK p \in 1..Len(list) : p = CHOOSE i \in DOMAIN list : list[i] = t
    BY <1>1, <1>3
  <2>2. list[p] = t
    BY <1>1, <1>3, <2>1
  <2> DEFINE n == Len(list) - 1
             at == [i \in 1..n |-> IF i < p THEN i ELSE i + 1]
             others == [i \in 1..n |-> list[IF i < p THEN i ELSE i + 1]]
  <2>3. Without(t, list) = others
    BY <1>1, <1>3, <2>1 DEF Without
  <2>4. n \in Nat /\ \A i \in 1..n : (IF i < p THEN i ELSE i + 1) \in 1..Len(list)
    BY <1>1, <2>1
  <2>5. others \in [1..n -> PushTokens]
    BY <1>1, <2>4
  <2>6. others \in Seq(PushTokens) /\ Len(others) = n
    <3> HIDE DEF others
    <3>1. others \in Seq(PushTokens)
      BY <2>4, <2>5, SeqDef
    <3>2. DOMAIN others = 1..n /\ DOMAIN others = 1..Len(others) /\ Len(others) \in Nat
      BY <2>5, <3>1, LenProperties
    <3> QED BY <2>4, <3>1, <3>2
  <2>7. Keeping(list, t, others, at)
    <3>1. at \in [1..n -> 1..Len(list)]
      BY <2>4
    <3>2. \A i \in 1..n : others[i] = list[at[i]] /\ at[i] # p
      <4> SUFFICES ASSUME NEW i \in 1..n PROVE others[i] = list[at[i]] /\ at[i] # p
        OBVIOUS
      <4>1. at[i] = IF i < p THEN i ELSE i + 1
        OBVIOUS
      <4>2. others[i] = list[at[i]]
        OBVIOUS
      <4>3. at[i] # p
        BY <2>4, <4>1
      <4> QED BY <4>2, <4>3
    <3>3. \A i \in 1..n : list[at[i]] # t
      BY <1>1, <2>1, <2>2, <2>4, <3>2 DEF OnceEach
    <3>4. \A i, j \in 1..n : i < j => at[i] < at[j]
      BY <2>1
    <3> HIDE DEF at, others, n
    <3> QED BY <2>6, <3>1, <3>2, <3>3, <3>4 DEF Keeping
  <2>8. ASSUME NEW j \in 1..Len(list), list[j] # t PROVE \E i \in 1..n : at[i] = j
    <3>1. j # p
      BY <2>2, <2>8
    <3>2. CASE j < p
      <4>1. j \in 1..n /\ at[j] = j
        BY <1>1, <2>1, <3>2
      <4> QED BY <4>1
    <3>3. CASE j > p
      <4>1. j - 1 \in 1..n /\ at[j - 1] = j
        BY <1>1, <2>1, <3>3
      <4> QED BY <4>1
    <3>4. j < p \/ j > p
      BY <1>1, <3>1
    <3> QED BY <3>2, <3>3, <3>4
  <2> HIDE DEF at, others
  <2> QED BY <1>3, <2>3, <2>6, <2>7, <2>8
<1> QED BY <1>2, <1>3

\* How many other tokens there are, and how many of them are kept.
Others(t, list) == IF \E i \in 1..Len(list) : list[i] = t THEN Len(list) - 1 ELSE Len(list)
Kept(t, list)   == IF Others(t, list) < MaxEndpoints THEN Others(t, list) ELSE MaxEndpoints - 1

\* The registered token comes first, and those that follow it were before those
\* that are dropped.
Follows(t, list, new, k, at) ==
    /\ new \in Seq(PushTokens) /\ Len(new) = k + 1 /\ new[1] = t
    /\ \A i \in 1..k : new[i + 1] = list[at[i]] /\ new[i + 1] # t
    /\ \A i, j \in 1..k : i < j => at[i] < at[j]
    /\ \A j \in 1..Len(list) : list[j] # t =>
           (\E i \in 1..k : at[i] = j) \/ (\A i \in 1..k : at[i] < j)

LEMMA PrependedIs ==
    ASSUME NEW list \in TokenLists, NEW t \in PushTokens
    PROVE  \E at \in [1..Kept(t, list) -> 1..Len(list)] :
               Follows(t, list, Prepended(t, list), Kept(t, list), at)
<1> DEFINE new == Prepended(t, list)
           n   == Others(t, list)
           k   == Kept(t, list)
<1>0. MaxEndpoints \in Nat \ {0}
  BY InboxAssumption
<1>1. PICK others, at :
        /\ others = Without(t, list) /\ others \in Seq(PushTokens) /\ Len(others) = n
        /\ Keeping(list, t, others, at)
        /\ \A j \in 1..Len(list) : list[j] # t => \E i \in 1..Len(others) : at[i] = j
  BY WithoutIs DEF Others
<1>2. n \in Nat /\ k \in 0..n
  <2>1. n \in Nat
    BY <1>1, LenProperties
  <2> HIDE DEF n
  <2> QED BY <1>0, <2>1 DEF Kept, n
<1>3. new = <<t>> \o SubSeq(others, 1, k)
  BY <1>1 DEF Prepended, Kept
<1> HIDE DEF n, k, new
<1>4. /\ SubSeq(others, 1, k) \in Seq(PushTokens) /\ Len(SubSeq(others, 1, k)) = k
      /\ \A i \in 1..k : SubSeq(others, 1, k)[i] = others[i]
  <2>1. \A i \in 1..k : others[i] \in PushTokens
    BY <1>1, <1>2, ElementOfSeq
  <2>2. /\ SubSeq(others, 1, k) \in Seq(PushTokens)
        /\ Len(SubSeq(others, 1, k)) = IF 1 <= k THEN k - 1 + 1 ELSE 0
        /\ \A i \in 1..(k - 1 + 1) : SubSeq(others, 1, k)[i] = others[1 + i - 1]
    BY <1>2, <2>1, SubSeqProperties
  <2> QED BY <1>2, <2>2
<1>5. /\ <<t>> \in Seq(PushTokens) /\ Len(<<t>>) = 1 /\ <<t>>[1] = t
  OBVIOUS
<1>6. /\ new \in Seq(PushTokens) /\ Len(new) = k + 1
      /\ \A i \in 1..(k + 1) : new[i] = IF i <= 1 THEN t ELSE SubSeq(others, 1, k)[i - 1]
  <2>1. /\ new \in Seq(PushTokens) /\ Len(new) = 1 + k
        /\ \A i \in 1..(1 + k) :
              new[i] = IF i <= 1 THEN <<t>>[i] ELSE SubSeq(others, 1, k)[i - 1]
    BY <1>3, <1>4, <1>5, ConcatProperties
  <2>2. \A i \in 1..(k + 1) : i <= 1 => i = 1
    BY <1>2
  <2> QED BY <1>2, <1>5, <2>1, <2>2
<1>7. new[1] = t /\ \A i \in 1..k : new[i + 1] = others[i]
  <2>1. 1 \in 1..(k + 1) /\ \A i \in 1..k : i + 1 \in 1..(k + 1) /\ ~(i + 1 <= 1) /\ (i + 1) - 1 = i
    BY <1>2
  <2> QED BY <1>4, <1>6, <2>1
<1>8. PICK to : to = [i \in 1..k |-> at[i]]
  OBVIOUS
<1>9. /\ to \in [1..k -> 1..Len(list)]
      /\ \A i \in 1..k : new[i + 1] = list[to[i]] /\ new[i + 1] # t
      /\ \A i, j \in 1..k : i < j => to[i] < to[j]
  <2>1. \A i \in 1..k : i \in 1..Len(others) /\ to[i] = at[i]
    BY <1>1, <1>2, <1>8
  <2>2. \A i \in 1..k : to[i] \in 1..Len(list)
    BY <1>1, <2>1 DEF Keeping
  <2>3. to \in [1..k -> 1..Len(list)]
    BY <1>8, <2>2
  <2>4. \A i \in 1..k : new[i + 1] = list[to[i]] /\ new[i + 1] # t
    BY <1>1, <1>7, <2>1 DEF Keeping
  <2>5. \A i, j \in 1..k : i < j => to[i] < to[j]
    BY <1>1, <2>1 DEF Keeping
  <2> QED BY <2>3, <2>4, <2>5
<1>10. ASSUME NEW j \in 1..Len(list), list[j] # t
       PROVE  (\E i \in 1..k : to[i] = j) \/ (\A i \in 1..k : to[i] < j)
  <2>1. PICK m \in 1..n : at[m] = j
    BY <1>1, <1>10
  <2>2. CASE m \in 1..k
    BY <1>8, <2>1, <2>2
  <2>3. CASE m \notin 1..k
    BY <1>1, <1>2, <1>8, <2>1, <2>3 DEF Keeping
  <2> QED BY <2>2, <2>3
<1>11. Follows(t, list, new, k, to)
  BY <1>6, <1>7, <1>9, <1>10 DEF Follows
<1> QED BY <1>9, <1>11 DEF k, new

LEMMA PrependedListed ==
    ASSUME NEW list \in TokenLists, NEW t \in PushTokens
    PROVE  Prepended(t, list) \in TokenLists
<1>0. MaxEndpoints \in Nat \ {0} /\ Len(list) \in Nat /\ OnceEach(list)
  BY InboxAssumption, LenProperties DEF TokenLists
<1>1. PICK k \in Nat : k = Kept(t, list) /\ k <= MaxEndpoints - 1
  BY <1>0 DEF Kept, Others
<1>2. PICK at \in [1..k -> 1..Len(list)] : Follows(t, list, Prepended(t, list), k, at)
  BY <1>1, PrependedIs
<1> USE DEF Follows
<1> DEFINE new == Prepended(t, list)
<1>3. OnceEach(new)
  <2>0. Len(new) = k + 1
    BY <1>2
  <2> HIDE DEF new
  <2>1. ASSUME NEW i \in 1..(k + 1), NEW j \in 1..(k + 1), i < j PROVE new[i] # new[j]
    <3>1. j - 1 \in 1..k /\ new[j] = list[at[j - 1]] /\ new[j] # t
      <4>1. j - 1 \in 1..k /\ (j - 1) + 1 = j
        BY <2>1
      <4> QED BY <1>2, <4>1 DEF new
    <3>2. CASE i = 1
      BY <1>2, <3>1, <3>2 DEF new
    <3>3. CASE i # 1
      <4>1. i - 1 \in 1..k /\ (i - 1) + 1 = i /\ i - 1 < j - 1
        BY <2>1, <3>3
      <4>2. new[i] = list[at[i - 1]] /\ at[i - 1] < at[j - 1]
        BY <1>2, <3>1, <4>1 DEF new
      <4>3. at[i - 1] \in 1..Len(list) /\ at[j - 1] \in 1..Len(list)
        BY <3>1, <4>1
      <4> QED BY <1>0, <3>1, <4>2, <4>3 DEF OnceEach
    <3> QED BY <3>2, <3>3
  <2>2. ASSUME NEW i \in 1..(k + 1), NEW j \in 1..(k + 1), new[i] = new[j] PROVE i = j
    <3>1. i < j \/ j < i \/ i = j
      OBVIOUS
    <3> QED BY <2>1, <2>2, <3>1
  <2> QED BY <2>0, <2>2 DEF OnceEach
<1> HIDE DEF new
<1> QED BY <1>0, <1>1, <1>2, <1>3 DEF TokenLists, new

\* As many tokens are known as the list holds, and one more for each it does not.
LEMMA ListedCount ==
    ASSUME NEW list \in TokenLists, NEW seen \in Seq(PushTokens), NewestFirst(list, seen),
           NEW i \in 0..Len(list)
    PROVE  LET upto == {list[j] : j \in 1..i}
           IN  IsFiniteSet(upto) /\ Cardinality(upto) = i /\ upto \subseteq KnownIn(seen)
<1> DEFINE upto == {list[j] : j \in 1..i}
           f == [j \in 1..i |-> list[j]]
<1>1. /\ Len(list) \in Nat /\ OnceEach(list)
      /\ i \in Nat /\ \A j \in 1..i : j \in 1..Len(list)
  BY LenProperties DEF TokenLists
<1>2. IsFiniteSet(1..i) /\ Cardinality(1..i) = i
  BY <1>1, FS_Interval
<1>3. f \in Bijection(1..i, upto)
  <2>1. \A j, m \in 1..i : f[j] = f[m] => j = m
    BY <1>1 DEF OnceEach
  <2>2. f \in [1..i -> upto]
    OBVIOUS
  <2>3. \A u \in upto : \E j \in 1..i : f[j] = u
    OBVIOUS
  <2> HIDE DEF f, upto
  <2> QED BY <2>1, <2>2, <2>3 DEF Bijection, Injection, Surjection, IsInjective
<1>4. IsFiniteSet(upto) /\ Cardinality(upto) = i
  <2> HIDE DEF f, upto
  <2> QED BY <1>2, <1>3, FS_Bijection DEF ExistsBijection
<1>5. upto \subseteq KnownIn(seen)
  BY <1>1 DEF NewestFirst
<1> QED BY <1>4, <1>5

LEMMA NewestKept ==
    ASSUME NEW list \in TokenLists, NEW seen \in Seq(PushTokens), NEW t \in PushTokens,
           NewestFirst(list, seen)
    PROVE  NewestFirst(Prepended(t, list), Append(seen, t))
<1> DEFINE new  == Prepended(t, list)
           more == Append(seen, t)
           n    == Others(t, list)
           k    == Kept(t, list)
<1>0. /\ MaxEndpoints \in Nat \ {0} /\ Len(list) \in Nat /\ Len(list) <= MaxEndpoints
      /\ OnceEach(list)
  BY InboxAssumption, LenProperties DEF TokenLists
<1>1. PICK at \in [1..k -> 1..Len(list)] : Follows(t, list, new, k, at)
  BY PrependedIs
<1> USE DEF Follows
<1>2. n \in Nat /\ k \in Nat
  BY <1>0 DEF Others, Kept
<1> HIDE DEF new, n, k
<1>3. /\ more \in Seq(PushTokens)
      /\ \A u : LastIn(more, u) = IF u = t THEN Len(seen) + 1 ELSE LastIn(seen, u)
      /\ Len(seen) \in Nat /\ \A u : LastIn(seen, u) \in 0..Len(seen)
  BY LastOfAppended, LastIs, LenProperties
<1> HIDE DEF more
<1>4. KnownIn(more) = KnownIn(seen) \cup {t}
  BY <1>3 DEF KnownIn
\* The first is the token; the i-th was the one at at[i - 1].
<1>5. ASSUME NEW i \in 1..Len(new), i # 1
      PROVE  /\ i - 1 \in 1..k /\ at[i - 1] \in 1..Len(list)
             /\ new[i] = list[at[i - 1]] /\ new[i] # t
             /\ LastIn(more, new[i]) = LastIn(seen, list[at[i - 1]])
  <2>1. i - 1 \in 1..k /\ (i - 1) + 1 = i
    BY <1>1, <1>2, <1>5
  <2> QED BY <1>1, <1>3, <2>1
<1>6. ASSUME NEW i \in 1..Len(new) PROVE new[i] \in KnownIn(more)
  <2>1. CASE i = 1
    BY <1>1, <1>4, <2>1
  <2>2. CASE i # 1
    BY <1>4, <1>5, <2>2 DEF NewestFirst
  <2> QED BY <2>1, <2>2
<1>7. ASSUME NEW i \in 1..Len(new), NEW j \in 1..Len(new), i < j
      PROVE  LastIn(more, new[i]) > LastIn(more, new[j])
  <2>0. j # 1 /\ i \in Int /\ j \in Int
    BY <1>7
  <2>1. CASE i = 1
    <3>1. LastIn(more, new[i]) = Len(seen) + 1
      BY <1>1, <1>3, <2>1
    <3>2. LastIn(more, new[j]) \in 0..Len(seen)
      BY <1>3, <1>5, <2>0
    <3> QED BY <1>3, <3>1, <3>2
  <2>2. CASE i # 1
    <3>1. at[i - 1] < at[j - 1]
      BY <1>1, <1>5, <1>7, <2>0, <2>2
    <3>2. LastIn(seen, list[at[i - 1]]) > LastIn(seen, list[at[j - 1]])
      BY <1>5, <2>0, <2>2, <3>1 DEF NewestFirst
    <3> QED BY <1>5, <2>0, <2>2, <3>2
  <2> QED BY <2>1, <2>2
<1>8. ASSUME NEW u \in KnownIn(more), \A i \in 1..Len(new) : new[i] # u, NEW i \in 1..Len(new)
      PROVE  LastIn(more, u) < LastIn(more, new[i])
  <2>1. u # t /\ u \in KnownIn(seen) /\ LastIn(more, u) = LastIn(seen, u)
    <3>1. 1 \in 1..Len(new)
      BY <1>1, <1>2
    <3> QED BY <1>1, <1>3, <1>4, <1>8, <3>1
  <2>2. CASE i = 1
    BY <1>1, <1>3, <2>1, <2>2
  <2>3. CASE i # 1
    <3>1. CASE \A j \in 1..Len(list) : list[j] # u
      <4>1. LastIn(seen, u) < LastIn(seen, list[at[i - 1]])
        BY <1>5, <2>1, <2>3, <3>1 DEF NewestFirst
      <4> QED BY <1>5, <2>1, <2>3, <4>1
    <3>2. ASSUME NEW j \in 1..Len(list), list[j] = u
          PROVE  LastIn(more, u) < LastIn(more, new[i])
      <4>1. ASSUME NEW m \in 1..k, at[m] = j PROVE FALSE
        <5>1. m + 1 \in 1..Len(new) /\ new[m + 1] = u
          BY <1>1, <1>2, <3>2, <4>1
        <5> QED BY <1>8, <5>1
      <4>2. at[i - 1] < j
        BY <1>1, <1>5, <2>1, <2>3, <3>2, <4>1
      <4>3. LastIn(seen, list[at[i - 1]]) > LastIn(seen, list[j])
        BY <1>5, <2>3, <4>2 DEF NewestFirst
      <4> QED BY <1>3, <1>5, <2>1, <2>3, <3>2, <4>3
    <3> QED BY <3>1, <3>2
  <2> QED BY <2>2, <2>3
<1>9. Len(new) = IF Cardinality(KnownIn(more)) < MaxEndpoints
                 THEN Cardinality(KnownIn(more)) ELSE MaxEndpoints
  <2> DEFINE c == Cardinality(KnownIn(seen))
             listed == {list[j] : j \in 1..Len(list)}
  <2>1. /\ IsFiniteSet(KnownIn(seen)) /\ c \in Nat
        /\ Len(list) = IF c < MaxEndpoints THEN c ELSE MaxEndpoints
    BY KnownFinite DEF NewestFirst
  <2>2. Cardinality(KnownIn(more)) = IF t \in KnownIn(seen) THEN c ELSE c + 1
    BY <1>4, <2>1, FS_AddElement
  <2>3. Len(list) \in 0..Len(list)
    BY <1>0
  <2>4. Cardinality(listed) = Len(list) /\ listed \subseteq KnownIn(seen)
    BY <2>3, ListedCount
  <2>5. CASE \E i \in 1..Len(list) : list[i] = t
    <3>1. t \in KnownIn(seen)
      BY <2>5 DEF NewestFirst
    <3>2. n = Len(list) - 1
      BY <2>5 DEF n, Others
    <3> HIDE DEF c
    <3>3. Len(new) = Len(list)
      BY <1>0, <1>1, <1>2, <3>2 DEF k, n, Kept
    <3> QED BY <2>1, <2>2, <3>1, <3>3
  <2>6. CASE ~ \E i \in 1..Len(list) : list[i] = t
    <3>1. n = Len(list)
      BY <2>6 DEF n, Others
    <3>2. t \notin listed
      BY <2>6
    <3>3. t \in KnownIn(seen) => c # Len(list)
      <4> SUFFICES ASSUME t \in KnownIn(seen), c = Len(list) PROVE FALSE
        OBVIOUS
      <4> HIDE DEF listed
      <4>1. KnownIn(seen) = listed
        BY <2>1, <2>4, FS_Subset
      <4> QED BY <3>2, <4>1
    <3> HIDE DEF c
    <3>4. Len(new) = IF Len(list) < MaxEndpoints THEN Len(list) + 1 ELSE MaxEndpoints
      BY <1>0, <1>1, <3>1 DEF k, n, Kept
    <3>5. CASE t \in KnownIn(seen)
      BY <1>0, <2>1, <2>2, <3>3, <3>4, <3>5
    <3>6. CASE t \notin KnownIn(seen)
      BY <1>0, <2>1, <2>2, <3>4, <3>6
    <3> QED BY <3>5, <3>6
  <2> QED BY <2>5, <2>6
<1>10. NewestFirst(new, more)
  BY <1>6, <1>7, <1>8, <1>9 DEF NewestFirst
<1> QED BY <1>10 DEF new, more

\* A list with the newest first has at place i the token that i tokens are as new as.
LEMMA NewestRanks ==
    ASSUME NEW list \in TokenLists, NEW seen \in Seq(PushTokens), NewestFirst(list, seen),
           NEW i \in 1..Len(list)
    PROVE  Cardinality({t \in KnownIn(seen) : LastIn(seen, t) >= LastIn(seen, list[i])}) = i
<1> DEFINE upto == {list[j] : j \in 1..i}
<1>0. Len(list) \in Nat /\ i \in 0..Len(list) /\ \A j \in 1..i : j \in 1..Len(list)
  BY LenProperties DEF TokenLists
<1>1. Cardinality(upto) = i /\ upto \subseteq KnownIn(seen)
  BY <1>0, ListedCount
<1>2. \A u : LastIn(seen, u) \in Int
  BY LastIs, LenProperties
<1>3. ASSUME NEW u \in upto PROVE LastIn(seen, u) >= LastIn(seen, list[i])
  <2>1. PICK j \in 1..i : u = list[j]
    OBVIOUS
  <2>2. CASE j = i
    BY <1>2, <2>1, <2>2
  <2>3. CASE j < i
    BY <1>0, <1>2, <2>1, <2>3 DEF NewestFirst
  <2> QED BY <1>0, <2>2, <2>3
<1>4. ASSUME NEW u \in KnownIn(seen), LastIn(seen, u) >= LastIn(seen, list[i])
      PROVE  u \in upto
  <2>1. PICK j \in 1..Len(list) : list[j] = u
    <3>1. CASE \A j \in 1..Len(list) : list[j] # u
      BY <1>2, <1>4, <3>1 DEF NewestFirst
    <3> QED BY <3>1
  <2>2. ~(i < j)
    BY <1>2, <1>4, <2>1 DEF NewestFirst
  <2>3. j \in 1..i
    BY <1>0, <2>2
  <2> QED BY <2>1, <2>3
<1>5. {t \in KnownIn(seen) : LastIn(seen, t) >= LastIn(seen, list[i])} = upto
  BY <1>1, <1>3, <1>4
<1> QED BY <1>1, <1>5

\* What the invariant says of the list is what the property says.
LEMMA InboxKept == InboxInv => ReportsKept
<1> SUFFICES ASSUME InboxInv, ~raced PROVE NewestEndpoints
  BY DEF InboxInv, ReportsKept, NewestEndpoints
<1>1. /\ endpoints \in TokenLists /\ tokensSeen \in Seq(PushTokens)
      /\ NewestFirst(endpoints, tokensSeen) /\ DOMAIN endpoints = 1..Len(endpoints)
  BY LenProperties DEF InboxInv, InboxTyped, TokenLists
<1>2. Known = KnownIn(tokensSeen) /\ \A u : LastAt(u) = LastIn(tokensSeen, u)
  BY DEF Known, KnownIn, LastAt, LastIn
<1>3. \A i \in DOMAIN endpoints :
          Cardinality({t \in Known : LastAt(t) >= LastAt(endpoints[i])}) = i
  BY <1>1, <1>2, NewestRanks
<1> QED BY <1>1, <1>2, <1>3 DEF NewestEndpoints, NewestFirst

LEMMA InboxStarts == InboxInit => InboxInv
<1> SUFFICES ASSUME InboxInit PROVE InboxInv
  OBVIOUS
<1> USE InboxAssumption DEF InboxInit
<1>1. <<>> \in Seq(PushTokens) /\ Len(<<>>) = 0
  BY EmptySeq
<1>2. endpoints \in TokenLists /\ tokensSeen \in Seq(PushTokens)
  BY <1>1 DEF TokenLists, OnceEach
<1>3. InboxTyped
  <2>1. raced \in BOOLEAN
    BY Zenon
  <2> QED BY <1>2, <2>1 DEF InboxTyped
<1>4. ReadsHold
  BY DEF ReadsHold, Holds, RegisterCalls, PublishCalls, InboxIdle
<1>5. StoredOnce
  BY DEF StoredOnce
<1>6. NewestFirst(endpoints, tokensSeen)
  <2>1. ASSUME NEW u PROVE LastIn(tokensSeen, u) = 0
    <3>1. LastIn(tokensSeen, u) \in 0..Len(tokensSeen)
      BY <1>2, LastIs
    <3> QED BY <1>1, <3>1
  <2>2. KnownIn(tokensSeen) = {}
    BY <2>1 DEF KnownIn
  <2>3. Cardinality(KnownIn(tokensSeen)) = 0
    BY <2>2, FS_EmptySet
  <2> QED BY <1>1, <2>2, <2>3 DEF NewestFirst
<1> QED BY <1>3, <1>4, <1>5, <1>6 DEF InboxInv

LEMMA CallKinds == \A c \in {InboxIdle} \cup RegisterCalls \cup PublishCalls :
    /\ c = InboxIdle => c \notin RegisterCalls /\ c \notin PublishCalls
    /\ c.pc = "register" <=> c \in RegisterCalls
    /\ c.pc = "publish" <=> c \in PublishCalls
BY DEF InboxIdle, RegisterCalls, PublishCalls

\* A call that starts, or dies, changes nothing but itself.
LEMMA InboxGoes ==
    ASSUME InboxInv, NEW p \in InboxCalls, NEW c \in {InboxIdle} \cup RegisterCalls \cup PublishCalls,
           InboxGo(p, c), Holds(c),
           UNCHANGED <<endpoints, deviceEvents, tokensSeen, raced, doubled>>
    PROVE  InboxInv'
<1> USE DEF InboxInv
<1>1. inboxCall' = [inboxCall EXCEPT ![p] = c]
  BY DEF InboxGo
<1>2. InboxTyped'
  BY <1>1 DEF InboxTyped
<1>3. ASSUME NEW q \in InboxCalls PROVE Holds(inboxCall[q])'
  <2>1. inboxCall'[q] = c \/ inboxCall'[q] = inboxCall[q]
    BY <1>1 DEF InboxTyped
  <2>2. Holds(inboxCall[q])
    BY DEF ReadsHold
  <2> QED BY <2>1, <2>2 DEF Holds
<1>4. ReadsHold'
  BY <1>3 DEF ReadsHold
<1> QED BY <1>2, <1>4 DEF StoredOnce

\* The end of a call makes others late and leaves the rest.
LEMMA CallsEnd ==
    ASSUME InboxTyped, NEW p \in InboxCalls, NEW S,
           \A q \in S : q \in InboxCalls /\ inboxCall[q] # InboxIdle,
           inboxCall' = [q \in InboxCalls |->
                            IF q = p THEN InboxIdle
                            ELSE IF q \in S THEN [inboxCall[q] EXCEPT !.late = TRUE]
                            ELSE inboxCall[q]]
    PROVE  /\ inboxCall' \in [InboxCalls -> {InboxIdle} \cup RegisterCalls \cup PublishCalls]
           /\ \A q \in InboxCalls :
                 \/ inboxCall'[q] = InboxIdle
                 \/ inboxCall'[q].late
                 \/ inboxCall'[q] = inboxCall[q] /\ q # p /\ q \notin S
<1>1. ASSUME NEW q \in InboxCalls
      PROVE  /\ inboxCall'[q] \in {InboxIdle} \cup RegisterCalls \cup PublishCalls
             /\ \/ inboxCall'[q] = InboxIdle
                \/ inboxCall'[q].late
                \/ inboxCall'[q] = inboxCall[q] /\ q # p /\ q \notin S
  <2>1. inboxCall[q] \in {InboxIdle} \cup RegisterCalls \cup PublishCalls
    BY DEF InboxTyped
  <2>2. CASE q = p
    BY <2>2
  <2>3. CASE q # p /\ q \in S
    <3>1. /\ inboxCall'[q] = [inboxCall[q] EXCEPT !.late = TRUE]
          /\ inboxCall[q] \in RegisterCalls \cup PublishCalls
      BY <2>1, <2>3
    <3>2. inboxCall'[q].late /\ inboxCall'[q] \in RegisterCalls \cup PublishCalls
      BY <3>1 DEF RegisterCalls, PublishCalls
    <3> QED BY <3>2
  <2>4. CASE q # p /\ q \notin S
    BY <2>1, <2>4
  <2> QED BY <2>2, <2>3, <2>4
<1>2. inboxCall' \in [InboxCalls -> {InboxIdle} \cup RegisterCalls \cup PublishCalls]
  BY <1>1
<1> QED BY <1>1, <1>2

LEMMA RegisterInv ==
    ASSUME InboxInv, NEW p \in InboxCalls, RegisterDeviceEndpoint(p)
    PROVE  InboxInv'
<1> USE DEF InboxInv
<1>1. PICK c : c = inboxCall[p]
  OBVIOUS
<1>2. /\ c \in RegisterCalls /\ c.token \in PushTokens /\ c.read \in TokenLists
      /\ c.late \in BOOLEAN
  <2>1. c.pc = "register" /\ c \in {InboxIdle} \cup RegisterCalls \cup PublishCalls
    BY <1>1 DEF RegisterDeviceEndpoint, InboxTyped
  <2>2. c \in RegisterCalls
    BY <2>1, CallKinds
  <2> QED BY <2>2 DEF RegisterCalls
<1>3. /\ endpoints' = Prepended(c.token, c.read)
      /\ tokensSeen' = Append(tokensSeen, c.token)
      /\ raced' = (raced \/ c.late)
      /\ UNCHANGED <<deviceEvents, doubled>>
  BY <1>1 DEF RegisterDeviceEndpoint
<1>4. PICK S : S = {q \in InboxCalls : q # p /\ inboxCall[q].pc = "register"}
  OBVIOUS
<1>5. /\ inboxCall' \in [InboxCalls -> {InboxIdle} \cup RegisterCalls \cup PublishCalls]
      /\ \A q \in InboxCalls : \/ inboxCall'[q] = InboxIdle
                               \/ inboxCall'[q].late
                               \/ inboxCall'[q] = inboxCall[q] /\ q # p /\ q \notin S
  <2>1. inboxCall' = [q \in InboxCalls |->
                         IF q = p THEN InboxIdle
                         ELSE IF q \in S THEN [inboxCall[q] EXCEPT !.late = TRUE]
                         ELSE inboxCall[q]]
    BY <1>4 DEF RegisterDeviceEndpoint, InboxDone
  <2>2. \A q \in S : q \in InboxCalls /\ inboxCall[q] # InboxIdle
    BY <1>4 DEF InboxIdle
  <2> QED BY <2>1, <2>2, CallsEnd
<1>6. endpoints' \in TokenLists
  BY <1>2, <1>3, PrependedListed
<1>7. tokensSeen' \in Seq(PushTokens)
  BY <1>2, <1>3, LastOfAppended DEF InboxTyped
<1>8. raced' \in BOOLEAN
  BY <1>2, <1>3 DEF InboxTyped
<1>9. InboxTyped'
  BY <1>3, <1>5, <1>6, <1>7, <1>8 DEF InboxTyped
<1>10. ASSUME NEW q \in InboxCalls PROVE Holds(inboxCall[q])'
  <2>1. Holds(inboxCall[q]) /\ inboxCall[q] \in {InboxIdle} \cup RegisterCalls \cup PublishCalls
    BY DEF ReadsHold, InboxTyped
  <2>2. CASE inboxCall'[q] = InboxIdle
    BY <2>2, CallKinds DEF Holds
  <2>3. CASE inboxCall'[q].late
    BY <2>3 DEF Holds
  <2>4. CASE inboxCall'[q] = inboxCall[q] /\ q # p /\ q \notin S
    <3>1. inboxCall[q].pc # "register"
      BY <1>4, <2>4
    <3>2. inboxCall[q] \notin RegisterCalls
      BY <2>1, <3>1, CallKinds
    <3> QED BY <1>3, <2>1, <2>4, <3>2 DEF Holds
  <2> QED BY <1>5, <2>2, <2>3, <2>4
<1>11. ASSUME ~raced' PROVE NewestFirst(endpoints, tokensSeen)'
  <2>1. ~raced /\ ~c.late
    BY <1>3, <1>11
  <2>2. c.read = endpoints
    BY <1>1, <1>2, <2>1 DEF ReadsHold, Holds
  <2>3. NewestFirst(Prepended(c.token, endpoints), Append(tokensSeen, c.token))
    BY <1>2, <2>1, NewestKept DEF InboxTyped
  <2> QED BY <1>3, <2>2, <2>3 DEF NewestFirst
<1>12. ReadsHold' /\ StoredOnce'
  BY <1>3, <1>10 DEF ReadsHold, StoredOnce
<1> QED BY <1>9, <1>11, <1>12

LEMMA PublishInv ==
    ASSUME InboxInv, NEW p \in InboxCalls, PublishDeviceEvent(p)
    PROVE  InboxInv'
<1> USE DEF InboxInv
<1>1. PICK c, k : c = inboxCall[p] /\ k = c.key
  OBVIOUS
<1>2. c \in PublishCalls /\ k \in EventKeys /\ c.late \in BOOLEAN
  <2>1. c.pc = "publish" /\ c \in {InboxIdle} \cup RegisterCalls \cup PublishCalls
    BY <1>1 DEF PublishDeviceEvent, InboxTyped
  <2>2. c \in PublishCalls
    BY <2>1, CallKinds
  <2> QED BY <1>1, <2>2 DEF PublishCalls
<1>3. /\ deviceEvents' = [deviceEvents EXCEPT ![k] = @ + 1]
      /\ doubled' = IF c.late THEN doubled \cup {k} ELSE doubled
      /\ UNCHANGED <<endpoints, tokensSeen, raced>>
  BY <1>1 DEF PublishDeviceEvent
<1>4. PICK S : S = {q \in InboxCalls : q # p /\ inboxCall[q].pc = "publish" /\ inboxCall[q].key = k}
  OBVIOUS
<1>5. /\ inboxCall' \in [InboxCalls -> {InboxIdle} \cup RegisterCalls \cup PublishCalls]
      /\ \A q \in InboxCalls : \/ inboxCall'[q] = InboxIdle
                               \/ inboxCall'[q].late
                               \/ inboxCall'[q] = inboxCall[q] /\ q # p /\ q \notin S
  <2>1. inboxCall' = [q \in InboxCalls |->
                         IF q = p THEN InboxIdle
                         ELSE IF q \in S THEN [inboxCall[q] EXCEPT !.late = TRUE]
                         ELSE inboxCall[q]]
    BY <1>1, <1>4 DEF PublishDeviceEvent, InboxDone
  <2>2. \A q \in S : q \in InboxCalls /\ inboxCall[q] # InboxIdle
    BY <1>4 DEF InboxIdle
  <2> QED BY <2>1, <2>2, CallsEnd
<1>6. /\ deviceEvents' \in [EventKeys -> Nat]
      /\ \A e \in EventKeys : deviceEvents'[e] = IF e = k THEN deviceEvents[k] + 1 ELSE deviceEvents[e]
  BY <1>2, <1>3 DEF InboxTyped
<1>7. InboxTyped'
  BY <1>3, <1>5, <1>6 DEF InboxTyped
<1>8. ASSUME NEW q \in InboxCalls PROVE Holds(inboxCall[q])'
  <2>1. Holds(inboxCall[q]) /\ inboxCall[q] \in {InboxIdle} \cup RegisterCalls \cup PublishCalls
    BY DEF ReadsHold, InboxTyped
  <2>2. CASE inboxCall'[q] = InboxIdle
    BY <2>2, CallKinds DEF Holds
  <2>3. CASE inboxCall'[q].late
    BY <2>3 DEF Holds
  <2>4. CASE inboxCall'[q] = inboxCall[q] /\ q # p /\ q \notin S
    <3>1. inboxCall[q] \in PublishCalls => inboxCall[q].key # k /\ inboxCall[q].key \in EventKeys
      BY <1>4, <2>4, CallKinds DEF PublishCalls
    <3> QED BY <1>3, <1>6, <2>1, <2>4, <3>1 DEF Holds
  <2> QED BY <1>5, <2>2, <2>3, <2>4
<1>9. ReadsHold'
  BY <1>8 DEF ReadsHold
<1>10. StoredOnce'
  <2> SUFFICES ASSUME NEW e \in EventKeys, e \notin doubled' PROVE deviceEvents'[e] <= 1
    BY DEF StoredOnce
  <2>1. CASE e = k
    <3>1. ~c.late
      BY <1>3, <2>1
    <3>2. deviceEvents[k] = 0
      BY <1>1, <1>2, <3>1 DEF ReadsHold, Holds
    <3> QED BY <1>6, <2>1, <3>2
  <2>2. CASE e # k
    <3>1. e \notin doubled
      BY <1>3
    <3> QED BY <1>6, <2>2, <3>1 DEF StoredOnce
  <2> QED BY <2>1, <2>2
<1> QED BY <1>3, <1>7, <1>9, <1>10

LEMMA InboxStep == InboxInv /\ [InboxNext]_inboxVars => InboxInv'
<1> SUFFICES ASSUME InboxInv, [InboxNext]_inboxVars PROVE InboxInv'
  OBVIOUS
<1>1. ASSUME NEW p \in InboxCalls, NEW t \in PushTokens, ReadEndpoints(p, t) PROVE InboxInv'
  <2>1. PICK c : c = [pc |-> "register", token |-> t, read |-> endpoints, late |-> FALSE]
    OBVIOUS
  <2>2. c \in RegisterCalls /\ c.read = endpoints
    BY <2>1 DEF InboxInv, InboxTyped, RegisterCalls
  <2>3. Holds(c)
    BY <2>2 DEF Holds, RegisterCalls, PublishCalls
  <2> QED BY <1>1, <2>1, <2>2, <2>3, InboxGoes DEF ReadEndpoints
<1>2. ASSUME NEW p \in InboxCalls, NEW k \in EventKeys, LookUpEvent(p, k) PROVE InboxInv'
  <2>1. PICK c : c = [pc |-> "publish", key |-> k, late |-> FALSE]
    OBVIOUS
  <2>2. c \in PublishCalls /\ deviceEvents[c.key] = 0
    BY <1>2, <2>1 DEF PublishCalls, LookUpEvent
  <2>3. Holds(c)
    BY <2>2 DEF Holds, RegisterCalls, PublishCalls
  <2> QED BY <1>2, <2>1, <2>2, <2>3, InboxGoes DEF LookUpEvent
<1>3. ASSUME NEW p \in InboxCalls, InboxDie(p) PROVE InboxInv'
  <2>1. Holds(InboxIdle)
    BY CallKinds DEF Holds
  <2> QED BY <1>3, <2>1, InboxGoes DEF InboxDie
<1>4. CASE UNCHANGED inboxVars
  <2>1. InboxTyped' /\ ReadsHold' /\ StoredOnce'
    BY <1>4 DEF inboxVars, InboxInv, InboxTyped, ReadsHold, Holds, StoredOnce
  <2>2. ~raced' => NewestFirst(endpoints, tokensSeen)'
    BY <1>4 DEF inboxVars, InboxInv, NewestFirst
  <2> QED BY <2>1, <2>2 DEF InboxInv
<1> QED BY <1>1, <1>2, <1>3, <1>4, RegisterInv, PublishInv DEF InboxNext

\* registerDeviceEndpoint keeps the tokens registered last, newest first, and
\* publishDeviceEvent stores an event once, however their calls are repeated, die
\* and interleave, unless two registrations or two deliveries overlapped.
THEOREM InboxKeepsReports == InboxSpec => []ReportsKept
BY InboxStarts, InboxStep, InboxKept, PTL DEF InboxSpec

\* A key is stored by calls that found none stored, so the events stored and the
\* calls that still may store one are together no more than the calls.
Publishing(k) == {p \in InboxCalls : inboxCall[p].pc = "publish" /\ inboxCall[p].key = k}
EventsBounded ==
    /\ doubled \subseteq EventKeys
    /\ \A k \in EventKeys : deviceEvents[k] + Cardinality(Publishing(k)) <= Cardinality(InboxCalls)

LEMMA PublishingCounts ==
    \A k : /\ Publishing(k) \in SUBSET InboxCalls /\ IsFiniteSet(Publishing(k))
           /\ Cardinality(Publishing(k)) \in Nat /\ Cardinality(InboxCalls) \in Nat
           /\ Cardinality(Publishing(k)) <= Cardinality(InboxCalls)
<1> SUFFICES ASSUME NEW k
    PROVE  /\ Publishing(k) \in SUBSET InboxCalls /\ IsFiniteSet(Publishing(k))
           /\ Cardinality(Publishing(k)) \in Nat /\ Cardinality(InboxCalls) \in Nat
           /\ Cardinality(Publishing(k)) <= Cardinality(InboxCalls)
  OBVIOUS
<1>1. Publishing(k) \in SUBSET InboxCalls /\ IsFiniteSet(InboxCalls)
  BY InboxAssumption DEF Publishing
<1>2. IsFiniteSet(Publishing(k)) /\ Cardinality(Publishing(k)) <= Cardinality(InboxCalls)
  BY <1>1, FS_Subset
<1> QED BY <1>1, <1>2, FS_CardinalityType

\* A step that stores nothing and starts no delivery leaves the bound.
LEMMA BoundLeft ==
    ASSUME InboxTyped, EventsBounded, NEW k \in EventKeys, deviceEvents'[k] = deviceEvents[k],
           Publishing(k)' \subseteq Publishing(k)
    PROVE  deviceEvents'[k] + Cardinality(Publishing(k)') <= Cardinality(InboxCalls)
<1>1. /\ Cardinality(Publishing(k)') \in Nat
      /\ Cardinality(Publishing(k)') <= Cardinality(Publishing(k))
  <2>1. IsFiniteSet(Publishing(k)) /\ Publishing(k)' \in SUBSET Publishing(k)
    BY PublishingCounts
  <2>2. IsFiniteSet(Publishing(k)') /\ Cardinality(Publishing(k)') <= Cardinality(Publishing(k))
    BY <2>1, FS_Subset
  <2> QED BY <2>2, FS_CardinalityType
<1>2. deviceEvents[k] \in Nat /\ deviceEvents[k] + Cardinality(Publishing(k)) <= Cardinality(InboxCalls)
  BY DEF InboxTyped, EventsBounded
<1> QED BY <1>1, <1>2, PublishingCounts

\* The end of a call is one delivery less, and no more of any key.
LEMMA DeliveriesEnd ==
    ASSUME InboxTyped, NEW p \in InboxCalls, NEW S,
           \A q \in S : q \in InboxCalls /\ inboxCall[q] # InboxIdle,
           inboxCall' = [q \in InboxCalls |->
                            IF q = p THEN InboxIdle
                            ELSE IF q \in S THEN [inboxCall[q] EXCEPT !.late = TRUE]
                            ELSE inboxCall[q]],
           NEW k
    PROVE  Publishing(k)' \subseteq Publishing(k) \ {p}
<1> SUFFICES ASSUME NEW q \in InboxCalls, inboxCall'[q].pc = "publish", inboxCall'[q].key = k
             PROVE  q # p /\ inboxCall[q].pc = "publish" /\ inboxCall[q].key = k
  BY DEF Publishing
<1>1. q # p
  <2>1. InboxIdle.pc = "idle"
    BY DEF InboxIdle
  <2> QED BY <2>1
<1>2. CASE q \in S
  <2>1. /\ inboxCall'[q] = [inboxCall[q] EXCEPT !.late = TRUE]
        /\ inboxCall[q] \in RegisterCalls \cup PublishCalls
    BY <1>1, <1>2 DEF InboxTyped
  <2>2. inboxCall'[q].pc = inboxCall[q].pc
    BY <2>1 DEF RegisterCalls, PublishCalls
  <2>3. inboxCall[q] \in PublishCalls
    BY <2>1, <2>2 DEF RegisterCalls
  <2>4. inboxCall'[q].key = inboxCall[q].key
    BY <2>1, <2>3 DEF PublishCalls
  <2> QED BY <1>1, <2>2, <2>4
<1>3. CASE q \notin S
  BY <1>1, <1>3
<1> QED BY <1>2, <1>3

LEMMA EventsStep == InboxInv /\ EventsBounded /\ [InboxNext]_inboxVars => EventsBounded'
<1> SUFFICES ASSUME InboxTyped, ReadsHold, EventsBounded, [InboxNext]_inboxVars PROVE EventsBounded'
  BY DEF InboxInv
<1>1. ASSUME NEW p \in InboxCalls, NEW c, InboxGo(p, c), c.pc # "publish",
             UNCHANGED <<deviceEvents, doubled>>
      PROVE  EventsBounded'
  <2>1. ASSUME NEW k \in EventKeys PROVE Publishing(k)' \subseteq Publishing(k)
    <3> SUFFICES ASSUME NEW q \in InboxCalls, inboxCall'[q].pc = "publish", inboxCall'[q].key = k
                 PROVE  inboxCall[q].pc = "publish" /\ inboxCall[q].key = k
      BY DEF Publishing
    <3>1. q # p
      BY <1>1 DEF InboxGo, InboxTyped
    <3> QED BY <1>1, <3>1 DEF InboxGo, InboxTyped
  <2>2. ASSUME NEW k \in EventKeys
        PROVE  deviceEvents'[k] + Cardinality(Publishing(k)') <= Cardinality(InboxCalls)
    BY <1>1, <2>1, BoundLeft
  <2>3. doubled' \subseteq EventKeys
    BY <1>1 DEF EventsBounded
  <2> QED BY <2>2, <2>3 DEF EventsBounded, Publishing
<1>2. ASSUME NEW p \in InboxCalls, NEW t \in PushTokens, ReadEndpoints(p, t) PROVE EventsBounded'
  <2>1. PICK c : c = [pc |-> "register", token |-> t, read |-> endpoints, late |-> FALSE]
    OBVIOUS
  <2>2. c.pc # "publish"
    BY <2>1
  <2> QED BY <1>1, <1>2, <2>1, <2>2 DEF ReadEndpoints
<1>3. ASSUME NEW p \in InboxCalls, NEW k \in EventKeys, LookUpEvent(p, k) PROVE EventsBounded'
  <2>1. /\ deviceEvents[k] = 0 /\ UNCHANGED <<deviceEvents, doubled>>
        /\ inboxCall' = [inboxCall EXCEPT ![p] = [pc |-> "publish", key |-> k, late |-> FALSE]]
    BY <1>3 DEF LookUpEvent, InboxGo
  <2>2. ASSUME NEW e \in EventKeys
        PROVE  deviceEvents'[e] + Cardinality(Publishing(e)') <= Cardinality(InboxCalls)
    <3>1. CASE e = k
      <4>1. /\ Cardinality(Publishing(e)') \in Nat
            /\ Cardinality(Publishing(e)') <= Cardinality(InboxCalls)
        <5>1. Publishing(e)' \in SUBSET InboxCalls /\ IsFiniteSet(InboxCalls)
          BY InboxAssumption DEF Publishing
        <5>2. /\ IsFiniteSet(Publishing(e)')
              /\ Cardinality(Publishing(e)') <= Cardinality(InboxCalls)
          BY <5>1, FS_Subset
        <5> QED BY <5>2, FS_CardinalityType
      <4> QED BY <2>1, <3>1, <4>1
    <3>2. CASE e # k
      <4>1. Publishing(e)' \subseteq Publishing(e)
        <5> SUFFICES ASSUME NEW q \in InboxCalls, inboxCall'[q].pc = "publish", inboxCall'[q].key = e
                     PROVE  inboxCall[q].pc = "publish" /\ inboxCall[q].key = e
          BY DEF Publishing
        <5>1. q # p
          BY <2>1, <3>2 DEF InboxTyped
        <5> QED BY <2>1, <5>1 DEF InboxTyped
      <4> QED BY <2>1, <4>1, BoundLeft
    <3> QED BY <3>1, <3>2
  <2>3. doubled' \subseteq EventKeys
    BY <2>1 DEF EventsBounded
  <2> QED BY <2>2, <2>3 DEF EventsBounded, Publishing
<1>4. ASSUME NEW p \in InboxCalls, RegisterDeviceEndpoint(p) PROVE EventsBounded'
  <2>1. PICK S : S = {q \in InboxCalls : q # p /\ inboxCall[q].pc = inboxCall[p].pc}
    OBVIOUS
  <2>2. inboxCall[p].pc = "register" /\ UNCHANGED <<deviceEvents, doubled>>
    BY <1>4 DEF RegisterDeviceEndpoint
  <2>3. inboxCall' = [q \in InboxCalls |->
                         IF q = p THEN InboxIdle
                         ELSE IF q \in S THEN [inboxCall[q] EXCEPT !.late = TRUE]
                         ELSE inboxCall[q]]
    BY <1>4, <2>1 DEF RegisterDeviceEndpoint, InboxDone
  <2>4. \A q \in S : q \in InboxCalls /\ inboxCall[q] # InboxIdle
    BY <2>1, <2>2 DEF InboxIdle
  <2>5. ASSUME NEW k \in EventKeys
        PROVE  deviceEvents'[k] + Cardinality(Publishing(k)') <= Cardinality(InboxCalls)
    <3>1. Publishing(k)' \subseteq Publishing(k) \ {p}
      BY <2>3, <2>4, DeliveriesEnd
    <3> QED BY <2>2, <3>1, BoundLeft
  <2>6. doubled' \subseteq EventKeys
    BY <2>2 DEF EventsBounded
  <2> QED BY <2>5, <2>6 DEF EventsBounded, Publishing
<1>5. ASSUME NEW p \in InboxCalls, PublishDeviceEvent(p) PROVE EventsBounded'
  <2>1. PICK k, S : /\ k = inboxCall[p].key
                    /\ S = {q \in InboxCalls : /\ q # p /\ inboxCall[q].key = k
                                               /\ inboxCall[q].pc = inboxCall[p].pc}
    OBVIOUS
  <2>2. /\ inboxCall[p].pc = "publish" /\ deviceEvents' = [deviceEvents EXCEPT ![k] = @ + 1]
        /\ doubled' = IF inboxCall[p].late THEN doubled \cup {k} ELSE doubled
    BY <1>5, <2>1 DEF PublishDeviceEvent
  <2>3. inboxCall' = [q \in InboxCalls |->
                         IF q = p THEN InboxIdle
                         ELSE IF q \in S THEN [inboxCall[q] EXCEPT !.late = TRUE]
                         ELSE inboxCall[q]]
    BY <1>5, <2>1 DEF PublishDeviceEvent, InboxDone
  <2>4. \A q \in S : q \in InboxCalls /\ inboxCall[q] # InboxIdle
    BY <2>1, <2>2 DEF InboxIdle
  <2>5. k \in EventKeys
    <3>1. inboxCall[p] \in {InboxIdle} \cup RegisterCalls \cup PublishCalls
      BY DEF InboxTyped
    <3>2. inboxCall[p] \in PublishCalls
      BY <2>2, <3>1, CallKinds
    <3> QED BY <2>1, <3>2 DEF PublishCalls
  <2>6. ASSUME NEW e \in EventKeys
        PROVE  deviceEvents'[e] + Cardinality(Publishing(e)') <= Cardinality(InboxCalls)
    <3>1. Publishing(e)' \subseteq Publishing(e) \ {p}
      BY <2>3, <2>4, DeliveriesEnd
    <3>2. CASE e = k
      <4>1. p \in Publishing(e)
        BY <2>1, <2>2, <3>2 DEF Publishing
      <4>2. /\ IsFiniteSet(Publishing(e) \ {p})
            /\ Cardinality(Publishing(e) \ {p}) = Cardinality(Publishing(e)) - 1
        BY <4>1, PublishingCounts, FS_RemoveElement
      <4>3. /\ IsFiniteSet(Publishing(e)')
            /\ Cardinality(Publishing(e)') <= Cardinality(Publishing(e) \ {p})
        BY <3>1, <4>2, FS_Subset
      <4>4. Cardinality(Publishing(e)') \in Nat
        BY <4>3, FS_CardinalityType
      <4>5. /\ deviceEvents'[e] = deviceEvents[e] + 1 /\ deviceEvents[e] \in Nat
            /\ deviceEvents[e] + Cardinality(Publishing(e)) <= Cardinality(InboxCalls)
        BY <2>2, <3>2 DEF EventsBounded, InboxTyped
      <4> QED BY <4>2, <4>3, <4>4, <4>5, PublishingCounts
    <3>3. CASE e # k
      <4>1. deviceEvents'[e] = deviceEvents[e]
        BY <2>2, <3>3 DEF InboxTyped
      <4> QED BY <3>1, <4>1, BoundLeft
    <3> QED BY <3>2, <3>3
  <2>7. doubled' \subseteq EventKeys
    BY <2>2, <2>5 DEF EventsBounded
  <2> QED BY <2>6, <2>7 DEF EventsBounded, Publishing
<1>6. ASSUME NEW p \in InboxCalls, InboxDie(p) PROVE EventsBounded'
  <2>1. InboxIdle.pc # "publish"
    BY DEF InboxIdle
  <2> QED BY <1>1, <1>6, <2>1 DEF InboxDie
<1>7. CASE UNCHANGED inboxVars
  BY <1>7 DEF inboxVars, EventsBounded, Publishing
<1> QED BY <1>2, <1>3, <1>4, <1>5, <1>6, <1>7 DEF InboxNext

LEMMA EventsBegin == InboxInit => EventsBounded
<1> SUFFICES ASSUME InboxInit PROVE EventsBounded
  OBVIOUS
<1>1. doubled \subseteq EventKeys
  BY DEF InboxInit
<1>2. ASSUME NEW k \in EventKeys
      PROVE  deviceEvents[k] + Cardinality(Publishing(k)) <= Cardinality(InboxCalls)
  <2>1. deviceEvents[k] = 0
    BY DEF InboxInit
  <2> QED BY <2>1, PublishingCounts
<1> QED BY <1>1, <1>2 DEF EventsBounded

LEMMA InboxHasTypes == InboxInv /\ EventsBounded => InboxTypeOK
<1> SUFFICES ASSUME InboxInv, EventsBounded PROVE InboxTypeOK
  OBVIOUS
<1>1. /\ endpoints \in Seq(PushTokens) /\ Len(endpoints) <= MaxEndpoints
      /\ \A i, j \in DOMAIN endpoints : endpoints[i] = endpoints[j] => i = j
  BY DEF InboxInv, InboxTyped, TokenLists, OnceEach
<1>2. deviceEvents \in [EventKeys -> 0..Cardinality(InboxCalls)]
  <2>1. ASSUME NEW k \in EventKeys PROVE deviceEvents[k] \in 0..Cardinality(InboxCalls)
    <3>1. /\ deviceEvents[k] \in Nat
          /\ deviceEvents[k] + Cardinality(Publishing(k)) <= Cardinality(InboxCalls)
      BY DEF InboxInv, InboxTyped, EventsBounded
    <3> QED BY <3>1, PublishingCounts
  <2> QED BY <2>1 DEF InboxInv, InboxTyped
<1>3. \A s \in TokenLists : s \in UNION {[1..n -> PushTokens] : n \in 0..MaxEndpoints}
  <2> SUFFICES ASSUME NEW s \in TokenLists
               PROVE  \E n \in 0..MaxEndpoints : s \in [1..n -> PushTokens]
    OBVIOUS
  <2>1. s \in Seq(PushTokens) /\ Len(s) \in Nat /\ Len(s) <= MaxEndpoints
    BY DEF TokenLists
  <2> QED BY <2>1, InboxAssumption
<1>4. inboxCall \in [InboxCalls -> InboxCall]
  <2>1. RegisterCalls \subseteq InboxCall
    <3> SUFFICES ASSUME NEW c \in RegisterCalls PROVE c \in InboxCall
      OBVIOUS
    <3>1. c.read \in UNION {[1..n -> PushTokens] : n \in 0..MaxEndpoints}
      BY <1>3 DEF RegisterCalls
    <3>2. c \in [pc : {"register"}, token : PushTokens, late : BOOLEAN,
                 read : UNION {[1..n -> PushTokens] : n \in 0..MaxEndpoints}]
      BY <3>1 DEF RegisterCalls
    <3> QED BY <3>2 DEF InboxCall
  <2>2. PublishCalls \subseteq InboxCall /\ InboxIdle \in InboxCall
    BY DEF PublishCalls, InboxCall
  <2> QED BY <2>1, <2>2 DEF InboxInv, InboxTyped
<1>5. tokensSeen \in Seq(PushTokens) /\ raced \in BOOLEAN /\ doubled \subseteq EventKeys
  BY DEF InboxInv, InboxTyped, EventsBounded
<1> QED BY <1>1, <1>2, <1>4, <1>5 DEF InboxTypeOK

\* The list of endpoints never outgrows its limit nor names a token twice, and no
\* event is stored more often than there are calls, each of which found it missing.
THEOREM InboxTypes == InboxSpec => []InboxTypeOK
BY InboxStarts, InboxStep, EventsBegin, EventsStep, InboxHasTypes, PTL DEF InboxSpec
=============================================================================
