---------------------------- MODULE DeviceInbox ----------------------------
(***************************************************************************)
(* What a child device reports to the server beside the command channel    *)
(* (src/src/device-sync.ts): its push endpoints, registerDeviceEndpoint,   *)
(* and its events, publishDeviceEvent.  Both look something up and write   *)
(* after another await, without a transaction; a call may die in between,  *)
(* and the device calls again when it got no answer.                       *)
(*                                                                         *)
(* Abstractions.  An endpoint is its token, an event its idempotency key;  *)
(* the metadata the registration also writes, the rate limit, App Check    *)
(* and the ownership checks change nothing here and are left out.          *)
(***************************************************************************)
EXTENDS Integers, FiniteSets, Sequences

CONSTANTS
    InboxCalls,         \* concurrent invocations
    PushTokens,
    EventKeys,          \* idempotency keys
    MaxEndpoints,       \* MAX_ENDPOINTS_PER_DEVICE
    MaxRegistrations    \* bound of the registrations

ASSUME InboxAssumption ==
    IsFiniteSet(InboxCalls) /\ MaxEndpoints \in Nat \ {0} /\ MaxRegistrations \in Nat

VARIABLES
    endpoints,      \* pushEndpoints of the device, the newest first
    deviceEvents,   \* deviceEvents[k]: the stored events with key k
    tokensSeen,     \* history: the tokens in the order they were registered
    raced,          \* history: a registration rewrote a list that another had changed
    doubled,        \* history: keys stored by a call that had not seen them stored
    inboxCall

inboxVars == <<endpoints, deviceEvents, tokensSeen, raced, doubled, inboxCall>>

\* A call; late when what it read has been written since.
InboxIdle == [pc |-> "idle"]
InboxCall == {InboxIdle}
    \cup [pc : {"register"}, token : PushTokens, read : UNION {[1..n -> PushTokens] : n \in 0..MaxEndpoints},
          late : BOOLEAN]
    \cup [pc : {"publish"}, key : EventKeys, late : BOOLEAN]

InboxTypeOK ==
    /\ endpoints \in Seq(PushTokens) /\ Len(endpoints) <= MaxEndpoints
    /\ \A i, j \in DOMAIN endpoints : endpoints[i] = endpoints[j] => i = j
    /\ deviceEvents \in [EventKeys -> 0..Cardinality(InboxCalls)]
    /\ tokensSeen \in Seq(PushTokens)
    /\ raced \in BOOLEAN
    /\ doubled \subseteq EventKeys
    /\ inboxCall \in [InboxCalls -> InboxCall]

InboxInit ==
    /\ endpoints = <<>>
    /\ deviceEvents = [k \in EventKeys |-> 0]
    /\ tokensSeen = <<>>
    /\ raced = FALSE
    /\ doubled = {}
    /\ inboxCall = [p \in InboxCalls |-> InboxIdle]

InboxGo(p, c) == inboxCall' = [inboxCall EXCEPT ![p] = c]

\* Call p is done; the others at the same pc, for the same key, are now late.
InboxDone(p, Same(_)) ==
    inboxCall' = [q \in InboxCalls |->
        CASE q = p -> InboxIdle
          [] q # p /\ inboxCall[q].pc = inboxCall[p].pc /\ Same(inboxCall[q])
               -> [inboxCall[q] EXCEPT !.late = TRUE]
          [] OTHER -> inboxCall[q]]

-----------------------------------------------------------------------------
\* registerDeviceEndpoint reads the device's document.
ReadEndpoints(p, t) ==
    /\ inboxCall[p] = InboxIdle
    /\ Len(tokensSeen) < MaxRegistrations
    /\ InboxGo(p, [pc |-> "register", token |-> t, read |-> endpoints, late |-> FALSE])
    /\ UNCHANGED <<endpoints, deviceEvents, tokensSeen, raced, doubled>>

\* The list without the token, which it holds once at most.
Without(t, list) ==
    IF \E i \in DOMAIN list : list[i] = t
    THEN LET p == CHOOSE i \in DOMAIN list : list[i] = t
         IN  [i \in 1..(Len(list) - 1) |-> list[IF i < p THEN i ELSE i + 1]]
    ELSE list

\* The token in front of the others, of which the oldest is dropped when full.
Prepended(t, list) ==
    LET others == Without(t, list)
    IN  <<t>> \o SubSeq(others, 1, IF Len(others) < MaxEndpoints THEN Len(others)
                                                                 ELSE MaxEndpoints - 1)

RegisterDeviceEndpoint(p) ==
    LET c == inboxCall[p]
    IN  /\ c.pc = "register"
        /\ endpoints' = Prepended(c.token, c.read)
        /\ tokensSeen' = Append(tokensSeen, c.token)
        /\ raced' = (raced \/ c.late)
        /\ InboxDone(p, LAMBDA other : TRUE)
        /\ UNCHANGED <<deviceEvents, doubled>>

\* Variant: the key is not looked up.
LookUpNever(p, k) ==
    /\ inboxCall[p] = InboxIdle
    /\ deviceEvents[k] < Cardinality(InboxCalls)
    /\ InboxGo(p, [pc |-> "publish", key |-> k, late |-> FALSE])
    /\ UNCHANGED <<endpoints, deviceEvents, tokensSeen, raced, doubled>>

\* publishDeviceEvent looks the key up; a stored event is answered at once.
LookUpEvent(p, k) ==
    /\ inboxCall[p] = InboxIdle
    /\ deviceEvents[k] = 0
    /\ InboxGo(p, [pc |-> "publish", key |-> k, late |-> FALSE])
    /\ UNCHANGED <<endpoints, deviceEvents, tokensSeen, raced, doubled>>

PublishDeviceEvent(p) ==
    LET k == inboxCall[p].key
    IN  /\ inboxCall[p].pc = "publish"
        /\ deviceEvents' = [deviceEvents EXCEPT ![k] = @ + 1]
        /\ doubled' = IF inboxCall[p].late THEN doubled \cup {k} ELSE doubled
        /\ InboxDone(p, LAMBDA other : other.key = k)
        /\ UNCHANGED <<endpoints, tokensSeen, raced>>

InboxDie(p) ==
    /\ inboxCall[p] # InboxIdle
    /\ InboxGo(p, InboxIdle)
    /\ UNCHANGED <<endpoints, deviceEvents, tokensSeen, raced, doubled>>

InboxNext == \E p \in InboxCalls :
    \/ \E t \in PushTokens : ReadEndpoints(p, t)
    \/ \E k \in EventKeys : LookUpEvent(p, k)
    \/ RegisterDeviceEndpoint(p) \/ PublishDeviceEvent(p)
    \/ InboxDie(p)

InboxSpec == InboxInit /\ [][InboxNext]_inboxVars

-----------------------------------------------------------------------------
\* When token t was last registered, 0 for never.
LastAt(t) == LET at == {n \in DOMAIN tokensSeen : tokensSeen[n] = t}
             IN  IF at = {} THEN 0 ELSE CHOOSE n \in at : \A m \in at : m <= n

Known == {t \in PushTokens : LastAt(t) > 0}

\* The list holds the tokens registered last, each once and in that order,
\* unless two registrations overlapped.
NewestEndpoints ==
    ~raced =>
        /\ Len(endpoints) = IF Cardinality(Known) < MaxEndpoints THEN Cardinality(Known)
                                                                 ELSE MaxEndpoints
        /\ \A i \in DOMAIN endpoints :
               Cardinality({t \in Known : LastAt(t) >= LastAt(endpoints[i])}) = i

\* An event delivered again is not stored again, unless two deliveries overlapped.
StoredOnce == \A k \in EventKeys \ doubled : deviceEvents[k] <= 1

\* What the device reported is kept as it was reported, although its calls are
\* repeated and die, and only overlapping calls can spoil it.
ReportsKept == NewestEndpoints /\ StoredOnce
=============================================================================
