-------------------------- MODULE LicensingProofs --------------------------
(***************************************************************************)
(* Proofs about B2BLicensing, for any numbers of devices and of calls that *)
(* overlap: the types, and that the licence's counter and limit keep to    *)
(* the devices.                                                            *)
(*                                                                         *)
(* The inductive invariant says what a call in flight still knows of its   *)
(* device: an addition that is not late, that there is no document of it;  *)
(* a removal that is not late, that the documents it found are the ones    *)
(* there are; and one that was only overtaken by additions, that the       *)
(* documents it found are still there.                                     *)
(***************************************************************************)
EXTENDS B2BLicensing, FiniteSetTheorems, TLAPS

\* Documents are numbered as they are added; before there is an organisation
\* there is no device and nothing is in flight.
DevicesNumbered ==
    /\ IsFiniteSet(devices)
    /\ \A d \in devices : d.id <= adds
    /\ org.status = "none" => devices = {} /\ \A p \in OrgCalls : orgCall[p] = OrgIdle

AddsKnow ==
    \A p \in OrgCalls : (orgCall[p].pc = "add" /\ ~orgCall[p].late) =>
        \A d \in devices : d.child # orgCall[p].child

RemovalsKnow ==
    \A p \in OrgCalls : orgCall[p].pc = "remove" =>
        LET c == orgCall[p] IN
        /\ c.found # {} /\ \A d \in c.found : d.child = c.child
        /\ ~c.removed => c.found \subseteq devices
        /\ ~c.late => c.found = Of(c.child)

\* The counter, and the documents of a device, while no calls crossed.
Exact ==
    ~crossed => /\ org.currentDevices = Cardinality(devices)
                /\ \A d, e \in devices : d.child = e.child => d = e

OrgInv == OrgTypeOK /\ DevicesNumbered /\ AddsKnow /\ RemovalsKnow /\ Exact /\ WithinLicence

-----------------------------------------------------------------------------
\* The fields of a call in flight, by its kind.
LEMMA OrgCallKinds ==
    ASSUME OrgTypeOK, NEW p \in OrgCalls
    PROVE  /\ orgCall[p] = OrgIdle <=> orgCall[p].pc = "idle"
           /\ orgCall[p].pc = "add" =>
                orgCall[p] \in [pc : {"add"}, child : Devices, late : BOOLEAN]
           /\ orgCall[p].pc = "remove" =>
                orgCall[p] \in [pc : {"remove"}, child : Devices, found : SUBSET Documents,
                                late : BOOLEAN, removed : BOOLEAN]
BY DEF OrgTypeOK, OrgCallStates, OrgIdle

\* What a commit of call p leaves in flight.
LEMMA CommittedCalls ==
    ASSUME OrgTypeOK, NEW p \in OrgCalls, orgCall[p].pc \in {"add", "remove"},
           NEW isRemoval \in BOOLEAN, Committed(p, isRemoval)
    PROVE  /\ orgCall' \in [OrgCalls -> OrgCallStates]
           /\ orgCall'[p] = OrgIdle
           /\ \A q \in OrgCalls : (q # p /\ orgCall[q].pc \notin {"add", "remove"}) =>
                orgCall'[q] = orgCall[q]
           /\ \A q \in OrgCalls : orgCall'[q].pc = "add" =>
                /\ q # p /\ orgCall[q].pc = "add" /\ orgCall'[q].child = orgCall[q].child
                /\ IF orgCall[q].child = orgCall[p].child
                   THEN orgCall'[q].late ELSE orgCall'[q] = orgCall[q]
           /\ \A q \in OrgCalls : orgCall'[q].pc = "remove" =>
                /\ q # p /\ orgCall[q].pc = "remove" /\ orgCall'[q].child = orgCall[q].child
                /\ orgCall'[q].found = orgCall[q].found
                /\ IF orgCall[q].child = orgCall[p].child
                   THEN /\ orgCall'[q].late
                        /\ ~orgCall'[q].removed => ~orgCall[q].removed /\ ~isRemoval
                   ELSE orgCall'[q] = orgCall[q]
<1> USE DEF Committed
<1>1. ASSUME NEW q \in OrgCalls
      PROVE  /\ orgCall[q].pc = "add" => [orgCall[q] EXCEPT !.late = TRUE] \in OrgCallStates
             /\ orgCall[q].pc = "remove" =>
                  [orgCall[q] EXCEPT !.late = TRUE, !.removed = @ \/ isRemoval] \in OrgCallStates
  BY OrgCallKinds DEF OrgCallStates
<1>2. orgCall' \in [OrgCalls -> OrgCallStates]
  BY <1>1 DEF OrgTypeOK, OrgCallStates
<1>3. orgCall'[p] = OrgIdle
  OBVIOUS
<1>4. \A q \in OrgCalls : (q # p /\ orgCall[q].pc \notin {"add", "remove"}) =>
        orgCall'[q] = orgCall[q]
  OBVIOUS
<1>5. ASSUME NEW q \in OrgCalls, orgCall'[q].pc = "add"
      PROVE  /\ q # p /\ orgCall[q].pc = "add" /\ orgCall'[q].child = orgCall[q].child
             /\ IF orgCall[q].child = orgCall[p].child
                THEN orgCall'[q].late ELSE orgCall'[q] = orgCall[q]
  BY <1>5, OrgCallKinds DEF OrgIdle
<1>6. ASSUME NEW q \in OrgCalls, orgCall'[q].pc = "remove"
      PROVE  /\ q # p /\ orgCall[q].pc = "remove" /\ orgCall'[q].child = orgCall[q].child
             /\ orgCall'[q].found = orgCall[q].found
             /\ IF orgCall[q].child = orgCall[p].child
                THEN /\ orgCall'[q].late
                     /\ ~orgCall'[q].removed => ~orgCall[q].removed /\ ~isRemoval
                ELSE orgCall'[q] = orgCall[q]
  BY <1>6, OrgCallKinds DEF OrgIdle
<1> QED BY <1>2, <1>3, <1>4, <1>5, <1>6

LEMMA OrgStarts == OrgInit => OrgInv
<1> SUFFICES ASSUME OrgInit PROVE OrgInv
  OBVIOUS
<1>1. OrgTypeOK
  <2>1. org \in [status : {"none", "pending", "active", "canceled"}, dpaSigned : BOOLEAN,
                 maxDevices : Limits, currentDevices : Int]
    BY DEF OrgInit
  <2>2. orgCall \in [OrgCalls -> OrgCallStates]
    BY DEF OrgInit, OrgCallStates
  <2>3. devices \subseteq Documents /\ adds \in 0..MaxAdds
    BY LicensingAssumption DEF OrgInit
  <2>4. crossed \in BOOLEAN /\ removedTwice \in BOOLEAN
    BY DEF OrgInit
  <2> QED BY <2>1, <2>2, <2>3, <2>4 DEF OrgTypeOK
<1>2. DevicesNumbered /\ AddsKnow /\ RemovalsKnow
  BY FS_EmptySet DEF OrgInit, DevicesNumbered, AddsKnow, RemovalsKnow, OrgIdle
<1>3. Exact /\ WithinLicence
  <2>1. devices = {} /\ org.currentDevices = 0 /\ Cardinality(devices) = 0 /\ org.maxDevices \in Int
    BY FS_EmptySet, LicensingAssumption DEF OrgInit
  <2> QED BY <2>1 DEF Exact, WithinLicence
<1> QED BY <1>1, <1>2, <1>3 DEF OrgInv

-----------------------------------------------------------------------------
(* Steps that touch neither the devices nor the counter.                   *)

LEMMA OrganisationInv ==
    ASSUME OrgInv,
           \/ \E max \in Limits : CreateB2BOrganization(max)
           \/ SignDpa
    PROVE  OrgInv'
<1> USE DEF OrgInv
<1>1. UNCHANGED <<devices, adds, orgCall, crossed, removedTwice>>
  BY DEF CreateB2BOrganization, SignDpa
<1>2. /\ org' \in [status : {"none", "pending", "active", "canceled"}, dpaSigned : BOOLEAN,
                   maxDevices : Limits, currentDevices : Int]
      /\ org'.currentDevices = org.currentDevices
      /\ org'.status # "none"
      /\ org'.maxDevices = org.maxDevices \/ devices = {}
  BY DEF CreateB2BOrganization, SignDpa, OrgTypeOK, DevicesNumbered
<1>3. OrgTypeOK' /\ DevicesNumbered' /\ AddsKnow' /\ RemovalsKnow' /\ Exact'
  BY <1>1, <1>2 DEF OrgTypeOK, DevicesNumbered, AddsKnow, RemovalsKnow, Of, Exact
<1>4. WithinLicence'
  <2>1. /\ Cardinality(devices') = Cardinality(devices)
        /\ devices = {} => Cardinality(devices) = 0
        /\ org'.maxDevices \in Int
    BY <1>1, <1>2, FS_EmptySet, LicensingAssumption
  <2> QED BY <1>1, <1>2, <2>1 DEF WithinLicence
<1> QED BY <1>3, <1>4

\* A step of p that only moves p itself to a state it may be in.
LEMMA OrgGoes ==
    ASSUME OrgInv, NEW p \in OrgCalls, NEW state \in OrgCallStates, org.status # "none",
           OrgGo(p, state), UNCHANGED <<devices, adds, crossed, removedTwice>>,
           org' = [org EXCEPT !.status = org'.status],
           org'.status \in {"pending", "active", "canceled"},
           state.pc \in {"idle", "activate", "revoke", "add", "remove"},
           state.pc = "add" => \A d \in devices : d.child # state.child,
           state.pc = "remove" => state.found # {} /\ state.found = Of(state.child)
    PROVE  OrgInv'
<1> USE DEF OrgInv, OrgGo
<1>1. OrgTypeOK'
  BY DEF OrgTypeOK
<1>2. DevicesNumbered' /\ Exact' /\ WithinLicence'
  BY DEF OrgTypeOK, DevicesNumbered, Exact, WithinLicence
<1>3. AddsKnow'
  BY DEF OrgTypeOK, AddsKnow
<1>4. RemovalsKnow'
  <2>1. /\ Of(state.child) \subseteq devices
        /\ \A child : Of(child)' = Of(child) /\ \A d \in Of(child) : d.child = child
    BY DEF Of
  <2> QED BY <2>1 DEF OrgTypeOK, RemovalsKnow
<1> QED BY <1>1, <1>2, <1>3, <1>4

LEMMA CheckInv ==
    ASSUME OrgInv, NEW p \in OrgCalls,
           \/ CheckActivation(p) \/ CheckRevocation(p) \/ SetStatus(p)
           \/ \E child \in Devices : CheckDevice(p, child) \/ FindDevice(p, child)
           \/ DeviceLimitReached(p) \/ OrgDie(p)
    PROVE  OrgInv'
<1> USE DEF OrgInv
<1>1. CASE CheckActivation(p) \/ CheckRevocation(p)
  <2>1. PICK pc \in {"activate", "revoke"} : OrgGo(p, [pc |-> pc])
    BY <1>1 DEF CheckActivation, CheckRevocation
  <2>2. /\ [pc |-> pc] \in OrgCallStates /\ org.status # "none"
        /\ org' = [org EXCEPT !.status = org'.status]
        /\ org'.status \in {"pending", "active", "canceled"}
        /\ UNCHANGED <<devices, adds, crossed, removedTwice>>
    BY <1>1, <2>1 DEF CheckActivation, CheckRevocation, OrgCallStates, OrgTypeOK
  <2> QED BY <2>1, <2>2, OrgGoes
<1>2. CASE SetStatus(p)
  <2>1. org.status # "none"
    BY <1>2 DEF SetStatus, DevicesNumbered, OrgIdle
  <2>2. /\ OrgIdle \in OrgCallStates /\ OrgIdle.pc = "idle"
        /\ org' = [org EXCEPT !.status = org'.status]
        /\ org'.status \in {"pending", "active", "canceled"}
    BY <1>2 DEF SetStatus, OrgCallStates, OrgIdle, OrgTypeOK
  <2> QED BY <1>2, <2>1, <2>2, OrgGoes DEF SetStatus
<1>3. ASSUME NEW child \in Devices, CheckDevice(p, child) PROVE OrgInv'
  <2> DEFINE state == [pc |-> "add", child |-> child, late |-> FALSE]
  <2>1. /\ state \in OrgCallStates /\ state.pc = "add"
        /\ \A d \in devices : d.child # state.child
        /\ org' = [org EXCEPT !.status = org'.status]
        /\ org'.status \in {"pending", "active", "canceled"}
    BY <1>3 DEF CheckDevice, OrgCallStates, Of, OrgTypeOK
  <2> QED BY <1>3, <2>1, OrgGoes DEF CheckDevice
<1>4. ASSUME NEW child \in Devices, FindDevice(p, child) PROVE OrgInv'
  <2> DEFINE state == [pc |-> "remove", child |-> child, found |-> Of(child),
                       late |-> FALSE, removed |-> FALSE]
  <2>1. Of(child) \in SUBSET Documents /\ devices # {} /\ org.status # "none"
    BY <1>4 DEF FindDevice, Of, OrgTypeOK, DevicesNumbered
  <2>2. /\ state \in OrgCallStates /\ state.pc = "remove"
        /\ state.found # {} /\ state.found = Of(state.child)
        /\ org' = [org EXCEPT !.status = org'.status]
        /\ org'.status \in {"pending", "active", "canceled"}
    BY <1>4, <2>1 DEF FindDevice, OrgCallStates, OrgTypeOK
  <2> QED BY <1>4, <2>1, <2>2, OrgGoes DEF FindDevice
<1>5. CASE DeviceLimitReached(p) \/ OrgDie(p)
  <2>1. org.status # "none" /\ org' = org /\ OrgGo(p, OrgIdle)
        /\ UNCHANGED <<devices, adds, crossed, removedTwice>>
    BY <1>5 DEF DeviceLimitReached, OrgDie, DevicesNumbered, OrgIdle
  <2>2. /\ OrgIdle \in OrgCallStates /\ OrgIdle.pc = "idle"
        /\ org' = [org EXCEPT !.status = org'.status]
        /\ org'.status \in {"pending", "active", "canceled"}
    BY <2>1 DEF OrgCallStates, OrgIdle, OrgTypeOK
  <2> QED BY <2>1, <2>2, OrgGoes
<1> QED BY <1>1, <1>2, <1>3, <1>4, <1>5

-----------------------------------------------------------------------------
(* Additions and removals.                                                 *)

LEMMA AddInv == ASSUME OrgInv, NEW p \in OrgCalls, AddB2BDevice(p) PROVE OrgInv'
<1> DEFINE child == orgCall[p].child
           new == [id |-> adds + 1, child |-> child]
<1> USE DEF OrgInv
<1>1. /\ orgCall[p].pc = "add" /\ HasRoom /\ adds < MaxAdds /\ adds' = adds + 1
      /\ devices' = devices \cup {new}
      /\ org' = [org EXCEPT !.currentDevices = @ + 1]
      /\ crossed' = (crossed \/ orgCall[p].late) /\ removedTwice' = removedTwice
      /\ Committed(p, FALSE)
  BY DEF AddB2BDevice
<1>2. /\ child \in Devices /\ orgCall[p].late \in BOOLEAN /\ adds \in Nat
      /\ org.currentDevices \in Int /\ org.maxDevices \in Int
      /\ org'.currentDevices = org.currentDevices + 1 /\ org'.maxDevices = org.maxDevices
      /\ org.status # "none" /\ org'.status = org.status
  BY <1>1, OrgCallKinds, LicensingAssumption DEF OrgTypeOK, DevicesNumbered, OrgIdle
<1>3. new \in Documents /\ new \notin devices /\ new.child = child
  BY <1>1, <1>2, LicensingAssumption DEF Documents, DevicesNumbered, OrgTypeOK
<1>4. /\ IsFiniteSet(devices') /\ Cardinality(devices') = Cardinality(devices) + 1
      /\ Cardinality(devices) \in Nat
  BY <1>1, <1>3, FS_AddElement, FS_CardinalityType DEF DevicesNumbered
<1>5. OrgTypeOK'
  <2>1. /\ orgCall' \in [OrgCalls -> OrgCallStates] /\ devices' \subseteq Documents
    BY <1>1, <1>3, CommittedCalls DEF OrgTypeOK
  <2>2. org' \in [status : {"none", "pending", "active", "canceled"}, dpaSigned : BOOLEAN,
                  maxDevices : Limits, currentDevices : Int]
    BY <1>1, <1>2 DEF OrgTypeOK
  <2> QED BY <1>1, <1>2, <2>1, <2>2, LicensingAssumption DEF OrgTypeOK
<1>6. DevicesNumbered'
  <2>1. new.id = adds + 1
    OBVIOUS
  <2>2. \A d \in devices' : d.id <= adds'
    BY <1>1, <1>2, <2>1 DEF DevicesNumbered, OrgTypeOK, Documents
  <2> QED BY <1>2, <1>4, <2>2 DEF DevicesNumbered
<1> HIDE DEF new
<1>7. AddsKnow'
  <2>1. \A q \in OrgCalls : orgCall'[q].pc = "add" =>
          /\ orgCall[q].pc = "add" /\ orgCall'[q].child = orgCall[q].child
          /\ IF orgCall[q].child = child
             THEN orgCall'[q].late ELSE orgCall'[q] = orgCall[q]
    BY <1>1, CommittedCalls
  <2>2. \A d \in devices' : d \in devices \/ d.child = child
    BY <1>1, <1>3
  <2> QED BY <2>1, <2>2 DEF AddsKnow
<1>8. RemovalsKnow'
  <2> SUFFICES ASSUME NEW q \in OrgCalls, orgCall'[q].pc = "remove"
               PROVE  /\ orgCall'[q].found # {}
                      /\ \A d \in orgCall'[q].found : d.child = orgCall'[q].child
                      /\ ~orgCall'[q].removed => orgCall'[q].found \subseteq devices'
                      /\ ~orgCall'[q].late => orgCall'[q].found = Of(orgCall[q].child)'
    BY DEF RemovalsKnow
  <2>1. /\ orgCall[q].pc = "remove" /\ orgCall'[q].found = orgCall[q].found
        /\ orgCall'[q].child = orgCall[q].child
        /\ IF orgCall[q].child = child
           THEN orgCall'[q].late /\ (~orgCall'[q].removed => ~orgCall[q].removed)
           ELSE orgCall'[q] = orgCall[q]
    BY <1>1, CommittedCalls
  <2>2. CASE orgCall[q].child = child
    BY <1>1, <2>1, <2>2 DEF RemovalsKnow
  <2>3. CASE orgCall[q].child # child
    <3>1. {d \in devices' : d.child = orgCall[q].child} = Of(orgCall[q].child)
      BY <1>1, <1>3, <2>3 DEF Of
    <3> QED BY <1>1, <2>1, <2>3, <3>1 DEF RemovalsKnow, Of
  <2> QED BY <2>2, <2>3
<1>9. Exact'
  <2> SUFFICES ASSUME ~crossed'
               PROVE  /\ org'.currentDevices = Cardinality(devices')
                      /\ \A d, e \in devices' : d.child = e.child => d = e
    BY DEF Exact
  <2>1. ~crossed /\ ~orgCall[p].late
    BY <1>1
  <2>2. \A d \in devices : d.child # child
    BY <1>1, <2>1 DEF AddsKnow
  <2>3. \A d, e \in devices' : d.child = e.child => d = e
    BY <1>1, <1>3, <2>1, <2>2 DEF Exact
  <2> QED BY <1>2, <1>4, <2>1, <2>3 DEF Exact
<1>10. WithinLicence'
  BY <1>1, <1>2, <1>4 DEF WithinLicence, HasRoom
<1> QED BY <1>5, <1>6, <1>7, <1>8, <1>9, <1>10

LEMMA RemoveInv == ASSUME OrgInv, NEW p \in OrgCalls, RemoveB2BDevice(p) PROVE OrgInv'
<1> DEFINE child == orgCall[p].child
           found == orgCall[p].found
<1> USE DEF OrgInv
<1>1. /\ orgCall[p].pc = "remove" /\ devices' = devices \ found
      /\ org' = [org EXCEPT !.currentDevices = @ - 1]
      /\ crossed' = (crossed \/ orgCall[p].late)
      /\ removedTwice' = (removedTwice \/ orgCall[p].removed)
      /\ Committed(p, TRUE) /\ adds' = adds
  BY DEF RemoveB2BDevice
<1>2. /\ child \in Devices /\ orgCall[p].late \in BOOLEAN /\ orgCall[p].removed \in BOOLEAN
      /\ found \subseteq Documents /\ found # {}
      /\ org.currentDevices \in Int /\ org.maxDevices \in Int
      /\ org'.currentDevices = org.currentDevices - 1 /\ org'.maxDevices = org.maxDevices
      /\ org.status # "none" /\ org'.status = org.status
  BY <1>1, OrgCallKinds, LicensingAssumption DEF OrgTypeOK, DevicesNumbered, OrgIdle, RemovalsKnow
<1>3. /\ IsFiniteSet(devices') /\ Cardinality(devices') \in Nat /\ Cardinality(devices) \in Nat
      /\ devices' \subseteq devices
  BY <1>1, FS_Subset, FS_CardinalityType DEF DevicesNumbered
<1>4. ~orgCall[p].removed => Cardinality(devices') <= Cardinality(devices) - 1
  <2> SUFFICES ASSUME ~orgCall[p].removed
               PROVE  Cardinality(devices') <= Cardinality(devices) - 1
    OBVIOUS
  <2>1. PICK d \in found : d \in devices
    BY <1>1, <1>2 DEF RemovalsKnow
  <2>2. devices' \in SUBSET (devices \ {d})
    BY <1>1, <2>1
  <2>3. IsFiniteSet(devices \ {d}) /\ Cardinality(devices \ {d}) = Cardinality(devices) - 1
    BY <2>1, FS_RemoveElement DEF DevicesNumbered
  <2> QED BY <1>3, <2>2, <2>3, FS_Subset
<1>5. (~crossed /\ ~orgCall[p].late) => Cardinality(devices') = Cardinality(devices) - 1
  <2> SUFFICES ASSUME ~crossed, ~orgCall[p].late
               PROVE  Cardinality(devices') = Cardinality(devices) - 1
    OBVIOUS
  <2>1. found = Of(child)
    BY <1>1 DEF RemovalsKnow
  <2>2. PICK d \in devices : d \in found
    BY <1>2, <2>1 DEF Of
  <2>3. found = {d}
    BY <2>1, <2>2 DEF Of, Exact
  <2> QED BY <1>1, <2>2, <2>3, FS_RemoveElement DEF DevicesNumbered
<1>6. OrgTypeOK'
  <2>1. /\ orgCall' \in [OrgCalls -> OrgCallStates] /\ devices' \subseteq Documents
    BY <1>1, <1>3, CommittedCalls DEF OrgTypeOK
  <2>2. org' \in [status : {"none", "pending", "active", "canceled"}, dpaSigned : BOOLEAN,
                  maxDevices : Limits, currentDevices : Int]
    BY <1>1, <1>2 DEF OrgTypeOK
  <2> QED BY <1>1, <1>2, <2>1, <2>2 DEF OrgTypeOK
<1>7. DevicesNumbered'
  BY <1>1, <1>2, <1>3 DEF DevicesNumbered
<1>8. AddsKnow'
  <2>1. \A q \in OrgCalls : orgCall'[q].pc = "add" =>
          /\ orgCall[q].pc = "add" /\ orgCall'[q].child = orgCall[q].child
          /\ orgCall'[q].late \/ orgCall'[q] = orgCall[q]
    BY <1>1, CommittedCalls
  <2> QED BY <1>3, <2>1 DEF AddsKnow
<1>9. RemovalsKnow'
  <2> SUFFICES ASSUME NEW q \in OrgCalls, orgCall'[q].pc = "remove"
               PROVE  /\ orgCall'[q].found # {}
                      /\ \A d \in orgCall'[q].found : d.child = orgCall'[q].child
                      /\ ~orgCall'[q].removed => orgCall'[q].found \subseteq devices'
                      /\ ~orgCall'[q].late => orgCall'[q].found = Of(orgCall[q].child)'
    BY DEF RemovalsKnow
  <2>1. /\ orgCall[q].pc = "remove" /\ orgCall'[q].found = orgCall[q].found
        /\ orgCall'[q].child = orgCall[q].child
        /\ IF orgCall[q].child = child
           THEN orgCall'[q].late /\ orgCall'[q].removed
           ELSE orgCall'[q] = orgCall[q]
    <3>1. orgCall[p].pc \in {"add", "remove"} /\ TRUE \in BOOLEAN
      BY <1>1
    <3>2. /\ orgCall[q].pc = "remove" /\ orgCall'[q].child = orgCall[q].child
          /\ orgCall'[q].found = orgCall[q].found
          /\ IF orgCall[q].child = orgCall[p].child
             THEN /\ orgCall'[q].late
                  /\ ~orgCall'[q].removed => ~orgCall[q].removed /\ ~TRUE
             ELSE orgCall'[q] = orgCall[q]
      BY <1>1, <3>1, CommittedCalls, Zenon
    <3> QED BY <3>2
  <2>2. CASE orgCall[q].child = child
    BY <2>1, <2>2 DEF RemovalsKnow
  <2>3. CASE orgCall[q].child # child
    <3>1. \A d \in found : d.child = child
      BY <1>1 DEF RemovalsKnow
    <3>2. {d \in devices' : d.child = orgCall[q].child} = Of(orgCall[q].child)
      BY <1>1, <2>3, <3>1 DEF Of
    <3>3. orgCall[q].found \cap found = {}
      BY <2>1, <2>3, <3>1 DEF RemovalsKnow
    <3> QED BY <1>1, <2>1, <2>3, <3>2, <3>3 DEF RemovalsKnow, Of
  <2> QED BY <2>2, <2>3
<1>10. Exact'
  BY <1>1, <1>2, <1>3, <1>5 DEF Exact
<1>11. WithinLicence'
  <2>1. ~removedTwice' => ~removedTwice /\ ~orgCall[p].removed
    BY <1>1
  <2> QED BY <1>2, <1>3, <1>4, <2>1 DEF WithinLicence
<1> QED BY <1>6, <1>7, <1>8, <1>9, <1>10, <1>11

-----------------------------------------------------------------------------
LEMMA OrgStep == OrgInv /\ [OrgNext]_orgVars => OrgInv'
<1> SUFFICES ASSUME OrgInv, [OrgNext]_orgVars PROVE OrgInv'
  OBVIOUS
<1>1. CASE (\E max \in Limits : CreateB2BOrganization(max)) \/ SignDpa
  BY <1>1, OrganisationInv
<1>2. ASSUME NEW p \in OrgCalls,
             \/ CheckActivation(p) \/ CheckRevocation(p) \/ SetStatus(p)
             \/ \E child \in Devices : CheckDevice(p, child) \/ FindDevice(p, child)
             \/ DeviceLimitReached(p) \/ OrgDie(p)
      PROVE  OrgInv'
  BY <1>2, CheckInv
<1>3. ASSUME NEW p \in OrgCalls, AddB2BDevice(p) \/ RemoveB2BDevice(p) PROVE OrgInv'
  BY <1>3, AddInv, RemoveInv
<1>4. CASE UNCHANGED orgVars
  BY <1>4 DEF orgVars, OrgInv, OrgTypeOK, DevicesNumbered, AddsKnow, RemovalsKnow, Of, Exact, WithinLicence
<1> QED BY <1>1, <1>2, <1>3, <1>4 DEF OrgNext

LEMMA OrgAlways == OrgSpec => []OrgInv
BY OrgStarts, OrgStep, PTL DEF OrgSpec

\* The organisation, its devices and the calls keep their types.
THEOREM OrgTypes == OrgSpec => []OrgTypeOK
<1>1. OrgInv => OrgTypeOK
  BY DEF OrgInv
<1> QED BY OrgAlways, <1>1, PTL

\* The licence's counter and its limit keep to the devices, for any numbers of
\* devices and overlapping calls, except after the overlaps the property names.
THEOREM LicenceHolds == OrgSpec => []LicenceKept
<1>1. ASSUME OrgInv PROVE LicenceKept
  <2>1. ASSUME ~crossed, NEW child \in Devices PROVE Cardinality(Of(child)) <= 1
    <3>1. CASE Of(child) = {}
      BY <3>1, FS_EmptySet
    <3>2. CASE Of(child) # {}
      <4>1. PICK d : Of(child) = {d}
        BY <1>1, <2>1, <3>2 DEF OrgInv, Exact, Of
      <4> QED BY <4>1, FS_Singleton
    <3> QED BY <3>1, <3>2
  <2> QED BY <1>1, <2>1 DEF OrgInv, Exact, LicenceKept, CounterMatchesDevices
<1> QED BY OrgAlways, <1>1, PTL
=============================================================================
