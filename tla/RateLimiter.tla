---------------------------- MODULE RateLimiter ----------------------------
(***************************************************************************)
(* The distributed rate limiter (src/src/rate-limiter.ts) for one key of   *)
(* user, role and action.  A check takes its time first and judges by it,  *)
(* in a transaction on the shared counter or, when Firestore fails, by a   *)
(* counter in the memory of the instance that runs it.                     *)
(*                                                                         *)
(* Abstractions.  Time is counted in ticks; blockDurationMs, which no      *)
(* caller gives, is the window.  The transaction is one step: the code in  *)
(* it has no other effect when it is retried.  What the answer tells the   *)
(* caller beside allowed is left out.                                      *)
(***************************************************************************)
EXTENDS Integers, FiniteSets

CONSTANTS
    Checks,         \* concurrent calls of checkDistributedRateLimit
    Instances,      \* instances of the functions, each with its memory; one that
                    \* starts anew is another
    MaxRequests,    \* maxRequests and windowMs of the key
    Window,
    CacheTtl,       \* age at which the cleanup drops an entry of the memory
    MaxTime,        \* bounds of the clock and of the admitted requests
    MaxAdmitted

ASSUME LimiterAssumption ==
    /\ MaxRequests \in Nat \ {0} /\ Window \in Nat \ {0} /\ CacheTtl \in Nat
    /\ MaxTime \in Nat /\ MaxAdmitted \in Nat
    /\ "firestore" \notin Instances

\* Who counts: the shared document, or an instance's memory.
Counters == {"firestore"} \cup Instances

VARIABLES
    time,           \* Date.now()
    counter,        \* the document of the key in _rate_limits
    memory,         \* memory[i]: the key's entry in memoryCache of instance i
    check,          \* check[p]: the time call p took, and its instance
    \* History.
    admitted,       \* the requests let in: by which counter, in which window
    openedLate      \* the counters whose window was opened by a late request

limiterVars == <<time, counter, memory, check, admitted, openedLate>>

\* A counter that does not exist reads like one whose window is long over.
NoEntry == [count |-> 0, windowStart |-> -Window - 1, blockedUntil |-> 0]
NoCheck == [at |-> -1]

Entry == [count : 0..MaxRequests, windowStart : (-Window - 1)..MaxTime,
          blockedUntil : 0..(MaxTime + Window)]

LimiterTypeOK ==
    /\ time \in 0..MaxTime
    /\ counter \in Entry
    /\ memory \in [Instances -> Entry]
    /\ check \in [Checks -> {NoCheck} \cup [at : 0..MaxTime, instance : Instances]]
    /\ IsFiniteSet(admitted)
    /\ admitted \subseteq [by : Counters, at : 0..MaxTime, window : 0..MaxTime,
                           nth : 0..MaxAdmitted, late : BOOLEAN]
    /\ openedLate \subseteq Counters

LimiterInit ==
    /\ time = 0
    /\ counter = NoEntry
    /\ memory = [i \in Instances |-> NoEntry]
    /\ check = [p \in Checks |-> NoCheck]
    /\ admitted = {} /\ openedLate = {}

-----------------------------------------------------------------------------
Blocked(e, now)   == e.blockedUntil > now
NewWindow(e, now) == now - e.windowStart > Window
Opened(now)       == [count |-> 1, windowStart |-> now, blockedUntil |-> 0]

\* Variant: one request more than the limit.
FullOneMore(e) == e.count > MaxRequests

Full(e) == e.count >= MaxRequests

\* What one counter becomes and whether it lets the request in, when the request
\* came at now.  A full counter blocks for another window.
InWindow(e, now) ==
    IF Full(e) THEN [entry |-> [e EXCEPT !.blockedUntil = now + Window], allowed |-> FALSE]
               ELSE [entry |-> [e EXCEPT !.count = @ + 1], allowed |-> TRUE]

\* checkFirestoreRateLimit heeds the block first.
FirestoreJudges(e, now) ==
    IF Blocked(e, now) THEN [entry |-> e, allowed |-> FALSE]
    ELSE IF NewWindow(e, now) THEN [entry |-> Opened(now), allowed |-> TRUE]
    ELSE InWindow(e, now)

\* checkMemoryRateLimit heeds it only in the window it was set in.
MemoryJudges(e, now) ==
    IF NewWindow(e, now) THEN [entry |-> Opened(now), allowed |-> TRUE]
    ELSE IF Blocked(e, now) THEN [entry |-> e, allowed |-> FALSE]
    ELSE InWindow(e, now)

\* Taken a whole window ago.
Late(now) == time - now > Window

\* A request let in: by which counter, the time it came, the window that counts
\* it, and whether it is late: it came before that window or a whole window ago,
\* or a request that did has opened the window.
Admit(by, verdict, now) ==
    IF verdict.allowed
    THEN /\ Cardinality(admitted) < MaxAdmitted
         /\ openedLate' = IF verdict.entry # Opened(now) THEN openedLate
                          ELSE IF Late(now) THEN openedLate \cup {by}
                          ELSE openedLate \ {by}
         /\ admitted' = admitted \cup
                {[by |-> by, at |-> now, window |-> verdict.entry.windowStart,
                  nth |-> Cardinality(admitted),
                  late |-> \/ now < verdict.entry.windowStart
                           \/ Late(now)
                           \/ by \in openedLate']}
    ELSE UNCHANGED <<admitted, openedLate>>

-----------------------------------------------------------------------------
\* checkDistributedRateLimit takes the time.
StartCheck(p, i) ==
    /\ check[p] = NoCheck
    /\ check' = [check EXCEPT ![p] = [at |-> time, instance |-> i]]
    /\ UNCHANGED <<time, counter, memory, admitted, openedLate>>

EndCheck(p) == check' = [check EXCEPT ![p] = NoCheck] /\ UNCHANGED time

CheckFirestore(p) ==
    /\ check[p] # NoCheck
    /\ LET verdict == FirestoreJudges(counter, check[p].at)
       IN  counter' = verdict.entry /\ Admit("firestore", verdict, check[p].at)
    /\ EndCheck(p)
    /\ UNCHANGED memory

\* The transaction fails for good.
FallBack(p) ==
    /\ check[p] # NoCheck
    /\ LET i == check[p].instance
           verdict == MemoryJudges(memory[i], check[p].at)
       IN  /\ memory' = [memory EXCEPT ![i] = verdict.entry]
           /\ Admit(i, verdict, check[p].at)
    /\ EndCheck(p)
    /\ UNCHANGED counter

\* The periodic cleanup of the memory.
CleanUp(i) ==
    /\ memory[i] # NoEntry /\ memory[i].windowStart + CacheTtl < time
    /\ memory' = [memory EXCEPT ![i] = NoEntry]
    /\ UNCHANGED <<time, counter, check, admitted, openedLate>>

Tick == /\ time < MaxTime /\ time' = time + 1
        /\ UNCHANGED <<counter, memory, check, admitted, openedLate>>

LimiterNext ==
    \/ \E p \in Checks : \/ \E i \in Instances : StartCheck(p, i)
                         \/ CheckFirestore(p) \/ FallBack(p)
    \/ \E i \in Instances : CleanUp(i)
    \/ Tick

LimiterSpec == LimiterInit /\ [][LimiterNext]_limiterVars

-----------------------------------------------------------------------------
\* Requests of one interval as long as the window: one window can end in it and
\* another begin, so each counter lets in less than twice the limit.  A counter in
\* memory keeps this only for windows of at most half the age at which the cleanup
\* drops an entry (two minutes): it drops windows of an hour while they last.  Late
\* requests are not counted: one that opens a window right after the cleanup lets
\* a third window begin in the interval.
Counted(by, start) ==
    {a \in admitted : a.by = by /\ ~a.late /\ a.at \in start..(start + Window)}

WithinBudget ==
    \A start \in 0..time, by \in Counters :
        (by = "firestore" \/ 2 * Window <= CacheTtl) =>
            Cardinality(Counted(by, start)) < 2 * MaxRequests
=============================================================================
