---------------------------- MODULE B2BLicensing ----------------------------
(***************************************************************************)
(* Licences of organisations (src/src/b2b-licensing.ts): the organisation's*)
(* document with its counter currentDevices, and the documents of its      *)
(* devices.                                                                *)
(*                                                                         *)
(* addB2BDevice looks for the device before its transaction, which only    *)
(* compares the counter with the limit; removeB2BDevice queries the        *)
(* documents of the device and deletes those in a batch that decrements    *)
(* the counter once.  orgCall holds the calls suspended between the two.   *)
(*                                                                         *)
(* Abstractions.  One organisation: organisations share nothing.  Who may  *)
(* call, the tier's fields other than maxDevices and the expiry date, which*)
(* no operation reads, are left out.                                       *)
(***************************************************************************)
EXTENDS Integers, FiniteSets

CONSTANTS
    Devices,       \* childId of the devices
    Limits,        \* maxDevices of the tiers; -1 and 0 stand for "no limit"
    OrgCalls,      \* invocations in flight
    MaxAdds        \* bound: device documents created

ASSUME LicensingAssumption == Limits \subseteq Int /\ MaxAdds \in Nat

VARIABLES
    org,           \* b2b_organizations/{id}: status ("none": no document) and counters
    devices,       \* b2b_devices of the organisation
    adds,          \* device documents created so far
    orgCall,       \* calls in flight
    crossed,       \* history: a call committed although another one about its
                   \* device had committed since it looked
    removedTwice   \* history: the same, both of them removals

orgVars == <<org, devices, adds, orgCall, crossed, removedTwice>>

OrgIdle   == [pc |-> "idle"]
Documents == [id : 1..MaxAdds, child : Devices]
OrgCallStates ==
    {OrgIdle}
    \cup [pc : {"activate", "revoke"}]
    \cup [pc : {"add"}, child : Devices, late : BOOLEAN]
    \cup [pc : {"remove"}, child : Devices, found : SUBSET Documents,
          late : BOOLEAN, removed : BOOLEAN]

OrgTypeOK ==
    /\ org \in [status : {"none", "pending", "active", "canceled"}, dpaSigned : BOOLEAN,
                maxDevices : Limits, currentDevices : Int]
    /\ devices \subseteq Documents
    /\ adds \in 0..MaxAdds
    /\ orgCall \in [OrgCalls -> OrgCallStates]
    /\ crossed \in BOOLEAN /\ removedTwice \in BOOLEAN

OrgInit ==
    /\ \E max \in Limits :
         org = [status |-> "none", dpaSigned |-> FALSE, maxDevices |-> max, currentDevices |-> 0]
    /\ devices = {} /\ adds = 0
    /\ orgCall = [p \in OrgCalls |-> OrgIdle]
    /\ crossed = FALSE /\ removedTwice = FALSE

-----------------------------------------------------------------------------
OrgGo(p, state) == orgCall' = [orgCall EXCEPT ![p] = state]

CreateB2BOrganization(max) ==
    /\ org.status = "none"
    /\ org' = [org EXCEPT !.status = "pending", !.maxDevices = max]
    /\ UNCHANGED <<devices, adds, orgCall, crossed, removedTwice>>

\* The operator has the data processing agreement signed; no code sets the field.
SignDpa ==
    /\ org.status # "none" /\ ~org.dpaSigned
    /\ org' = [org EXCEPT !.dpaSigned = TRUE]
    /\ UNCHANGED <<devices, adds, orgCall, crossed, removedTwice>>

CheckActivation(p) ==
    /\ orgCall[p] = OrgIdle
    /\ org.status \in {"pending", "canceled"} /\ org.dpaSigned
    /\ OrgGo(p, [pc |-> "activate"])
    /\ UNCHANGED <<org, devices, adds, crossed, removedTwice>>

CheckRevocation(p) ==
    /\ orgCall[p] = OrgIdle
    /\ org.status # "none"
    /\ OrgGo(p, [pc |-> "revoke"])
    /\ UNCHANGED <<org, devices, adds, crossed, removedTwice>>

SetStatus(p) ==
    /\ orgCall[p].pc \in {"activate", "revoke"}
    /\ org' = [org EXCEPT !.status =
                 IF orgCall[p].pc = "activate" THEN "active" ELSE "canceled"]
    /\ OrgGo(p, OrgIdle)
    /\ UNCHANGED <<devices, adds, crossed, removedTwice>>

(* Devices.  The status of the licence is not looked at.                   *)

Of(child) == {d \in devices : d.child = child}

CheckDevice(p, child) ==
    /\ orgCall[p] = OrgIdle
    /\ org.status # "none"
    /\ Of(child) = {}
    /\ OrgGo(p, [pc |-> "add", child |-> child, late |-> FALSE])
    /\ UNCHANGED <<org, devices, adds, crossed, removedTwice>>

\* p commits something about its device; the calls about it that have looked
\* before are late from now on.
Committed(p, isRemoval) ==
    orgCall' = [q \in OrgCalls |->
        IF q = p THEN OrgIdle
        ELSE IF orgCall[q].pc = "add" /\ orgCall[q].child = orgCall[p].child
             THEN [orgCall[q] EXCEPT !.late = TRUE]
        ELSE IF orgCall[q].pc = "remove" /\ orgCall[q].child = orgCall[p].child
             THEN [orgCall[q] EXCEPT !.late = TRUE, !.removed = @ \/ isRemoval]
        ELSE orgCall[q]]

HasRoom == org.maxDevices > 0 => org.currentDevices < org.maxDevices

\* The transaction of addB2BDevice.
AddB2BDevice(p) ==
    /\ orgCall[p].pc = "add"
    /\ HasRoom
    /\ adds < MaxAdds
    /\ adds' = adds + 1
    /\ devices' = devices \cup {[id |-> adds + 1, child |-> orgCall[p].child]}
    /\ org' = [org EXCEPT !.currentDevices = @ + 1]
    /\ crossed' = (crossed \/ orgCall[p].late)
    /\ Committed(p, FALSE)
    /\ UNCHANGED removedTwice

DeviceLimitReached(p) ==
    /\ orgCall[p].pc = "add"
    /\ ~HasRoom
    /\ OrgGo(p, OrgIdle)
    /\ UNCHANGED <<org, devices, adds, crossed, removedTwice>>

FindDevice(p, child) ==
    /\ orgCall[p] = OrgIdle
    /\ Of(child) # {}
    /\ OrgGo(p, [pc |-> "remove", child |-> child, found |-> Of(child),
                 late |-> FALSE, removed |-> FALSE])
    /\ UNCHANGED <<org, devices, adds, crossed, removedTwice>>

\* Variant: the counter is not decremented.
RemoveB2BDeviceOnly(p) ==
    /\ orgCall[p].pc = "remove"
    /\ devices' = devices \ orgCall[p].found
    /\ UNCHANGED org
    /\ crossed' = (crossed \/ orgCall[p].late)
    /\ removedTwice' = (removedTwice \/ orgCall[p].removed)
    /\ Committed(p, TRUE)
    /\ UNCHANGED adds

\* The batch of removeB2BDevice.  Deleting a document that is gone succeeds.
RemoveB2BDevice(p) ==
    /\ orgCall[p].pc = "remove"
    /\ devices' = devices \ orgCall[p].found
    /\ org' = [org EXCEPT !.currentDevices = @ - 1]
    /\ crossed' = (crossed \/ orgCall[p].late)
    /\ removedTwice' = (removedTwice \/ orgCall[p].removed)
    /\ Committed(p, TRUE)
    /\ UNCHANGED adds

\* An invocation dies: it has written nothing yet.
OrgDie(p) ==
    /\ orgCall[p] # OrgIdle
    /\ OrgGo(p, OrgIdle)
    /\ UNCHANGED <<org, devices, adds, crossed, removedTwice>>

-----------------------------------------------------------------------------
OrgNext ==
    \/ \E max \in Limits : CreateB2BOrganization(max)
    \/ SignDpa
    \/ \E p \in OrgCalls :
        \/ CheckActivation(p) \/ CheckRevocation(p) \/ SetStatus(p)
        \/ \E child \in Devices : CheckDevice(p, child) \/ FindDevice(p, child)
        \/ AddB2BDevice(p) \/ DeviceLimitReached(p) \/ RemoveB2BDevice(p)
        \/ OrgDie(p)

OrgSpec == OrgInit /\ [][OrgNext]_orgVars

-----------------------------------------------------------------------------
\* The counter is the number of device documents, and no device has two,
\* unless two calls about the same device overlapped.
CounterMatchesDevices ==
    ~crossed => /\ org.currentDevices = Cardinality(devices)
                /\ \A child \in Devices : Cardinality(Of(child)) <= 1

\* The licence's limit bounds the devices themselves, not only the counter,
\* unless two removals of the same device overlapped: additions that overlap
\* with each other or with a removal make the counter too high, never too low.
WithinLicence ==
    ~removedTwice => /\ Cardinality(devices) <= org.currentDevices
                     /\ org.maxDevices > 0 => Cardinality(devices) <= org.maxDevices

\* The licence's counter and its limit keep to the devices.
LicenceKept == CounterMatchesDevices /\ WithinLicence
=============================================================================
