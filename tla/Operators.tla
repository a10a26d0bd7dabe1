----------------------------- MODULE Operators -----------------------------
(***************************************************************************)
(* Operators of the system and the roles in their custom claims            *)
(* (src/src/auth.ts, src/src/admin-pin.ts): the first administrator, whom  *)
(* a sentinel document guards; access keys that grant a role once; roles   *)
(* assigned by an administrator; the administrator PIN; resets.            *)
(*                                                                         *)
(* Firebase Auth and Firestore have no common transaction: bootstrap and   *)
(* key mark a document first, write the claims next, and undo the mark     *)
(* when that fails.  A claims call that fails may have had its effect.     *)
(*                                                                         *)
(* Abstractions.  Auditors count as support.  Whoever is an administrator  *)
(* now may call what only an administrator may.  A deleted operator can    *)
(* register anew and is then the same user without a role; the role of a   *)
(* parent account counts as none.                                          *)
(***************************************************************************)
EXTENDS Integers, FiniteSets

CONSTANTS
    Users,
    Keys,             \* documents of operatorAccessKeys
    OpCalls,          \* invocations in flight
    MaxOpFailures     \* bound: invocations that die and writes that fail

ASSUME OperatorsAssumption == MaxOpFailures \in Nat

VARIABLES
    claims,           \* the users' custom claims
    accessKey,        \* operatorAccessKeys
    sentinel,         \* operatorConfig/bootstrapSentinel exists
    pin,              \* operatorConfig/adminPin has a hash
    opCall,           \* calls in flight
    opFailures,       \* deaths and failures so far
    \* History.
    assigned,         \* the role last assigned to each user
    overwritable,     \* users to whom that happened between the two steps of a
                      \* verification about them
    firstAdmins,      \* users the bootstrap made administrators and did not roll back
    keyGrants,        \* users who got a role from each key
    unclear,          \* a claims call failed after its effect, or its undoing failed
    lost              \* an invocation died, or an administrator lost the role
                      \* other than by a rollback

opVars == <<claims, accessKey, sentinel, pin, opCall, opFailures,
            assigned, overwritable, firstAdmins, keyGrants, unclear, lost>>

Roles    == {"none", "support", "admin"}
Granted  == Roles \ {"none"}
Claims   == [role : Roles, verified : BOOLEAN]     \* verified: admin_verified_at is set
NoClaims == [role |-> "none", verified |-> FALSE]
Only(role) == [role |-> role, verified |-> FALSE]
KeyDocs  == [state : {"none", "unused", "used", "expired"}, role : Granted]
OpIdle   == [pc |-> "idle"]
OpCallStates ==
    {OpIdle}
    \cup [pc : {"key"}, role : Granted]
    \cup [pc : {"grant", "return"}, user : Users, key : Keys]
    \cup [pc : {"claim", "promote", "pin", "demote", "release"}, user : Users, pin : BOOLEAN]
    \cup [pc : {"merge"}, user : Users, read : Claims]
    \cup [pc : {"keys", "delete"}, todo : SUBSET Users, all : BOOLEAN]

OpTypeOK ==
    /\ claims \in [Users -> Claims]
    /\ accessKey \in [Keys -> KeyDocs]
    /\ sentinel \in BOOLEAN /\ pin \in BOOLEAN
    /\ opCall \in [OpCalls -> OpCallStates]
    /\ opFailures \in 0..MaxOpFailures
    /\ assigned \in [Users -> Roles] /\ overwritable \subseteq Users
    /\ firstAdmins \subseteq Users /\ keyGrants \in [Keys -> SUBSET Users]
    /\ unclear \in BOOLEAN /\ lost \in BOOLEAN

OpInit ==
    /\ claims = [u \in Users |-> NoClaims]
    /\ accessKey = [k \in Keys |-> [state |-> "none", role |-> "support"]]
    /\ sentinel = FALSE /\ pin = FALSE
    /\ opCall = [p \in OpCalls |-> OpIdle]
    /\ opFailures = 0
    /\ assigned = [u \in Users |-> "none"] /\ overwritable = {}
    /\ firstAdmins = {} /\ keyGrants = [k \in Keys |-> {}]
    /\ unclear = FALSE /\ lost = FALSE

-----------------------------------------------------------------------------
OpGo(p, state) == opCall' = [opCall EXCEPT ![p] = state]
OpFail == opFailures < MaxOpFailures /\ opFailures' = opFailures + 1

IsAdmin(u) == claims[u].role = "admin"
hasAnyAdminUser == \E u \in Users : IsAdmin(u)

\* A verification has read the claims of u and not written them yet.
Verifying(u) == \E p \in OpCalls : opCall[p].pc = "merge" /\ opCall[p].user = u

\* The claims of u are replaced.
SetClaims(u, role) ==
    /\ claims' = [claims EXCEPT ![u] = Only(role)]
    /\ assigned' = [assigned EXCEPT ![u] = role]
    /\ overwritable' = IF Verifying(u) THEN overwritable \cup {u} ELSE overwritable \ {u}

Assign(u, role) == SetClaims(u, role) /\ lost' = (lost \/ (IsAdmin(u) /\ role # "admin"))

UnchangedClaims == UNCHANGED <<claims, assigned, overwritable, lost>>

(* Access keys.                                                            *)

\* createOperatorAccessKey: an administrator, or anybody while there is none.
CheckKeyCreator(p, u, role) ==
    /\ opCall[p] = OpIdle
    /\ IsAdmin(u) \/ (~hasAnyAdminUser /\ role = "admin")
    /\ OpGo(p, [pc |-> "key", role |-> role])
    /\ UnchangedClaims
    /\ UNCHANGED <<accessKey, sentinel, pin, opFailures, firstAdmins, keyGrants, unclear>>

CreateOperatorAccessKey(p, k) ==
    /\ opCall[p].pc = "key"
    /\ accessKey[k].state = "none"
    /\ accessKey' = [accessKey EXCEPT ![k] = [state |-> "unused", role |-> opCall[p].role]]
    /\ OpGo(p, OpIdle)
    /\ UnchangedClaims
    /\ UNCHANGED <<sentinel, pin, opFailures, firstAdmins, keyGrants, unclear>>

\* A used key may expire, too, which shows only once it is given back.
KeyExpires(k) ==
    /\ accessKey[k].state = "unused"
    /\ accessKey' = [accessKey EXCEPT ![k].state = "expired"]
    /\ UnchangedClaims
    /\ UNCHANGED <<sentinel, pin, opCall, opFailures, firstAdmins, keyGrants, unclear>>

\* The transaction of redeemOperatorAccessKey.
RedeemKey(p, u, k) ==
    /\ opCall[p] = OpIdle
    /\ accessKey[k].state = "unused"
    /\ accessKey' = [accessKey EXCEPT ![k].state = "used"]
    /\ OpGo(p, [pc |-> "grant", user |-> u, key |-> k])
    /\ UnchangedClaims
    /\ UNCHANGED <<sentinel, pin, opFailures, firstAdmins, keyGrants, unclear>>

\* A reset may have deleted the key; its role was read before.
GrantRole(p) ==
    LET c == opCall[p] IN
    /\ c.pc = "grant"
    /\ Assign(c.user, accessKey[c.key].role)
    /\ keyGrants' = [keyGrants EXCEPT ![c.key] = @ \cup {c.user}]
    /\ OpGo(p, OpIdle)
    /\ UNCHANGED <<accessKey, sentinel, pin, opFailures, firstAdmins, unclear>>

GrantFails(p) ==
    LET c == opCall[p] IN
    /\ c.pc = "grant" /\ OpFail
    /\ OpGo(p, [c EXCEPT !.pc = "return"])
    /\ \/ UnchangedClaims /\ UNCHANGED <<keyGrants, unclear>>
       \/ /\ Assign(c.user, accessKey[c.key].role)
          /\ keyGrants' = [keyGrants EXCEPT ![c.key] = @ \cup {c.user}]
          /\ unclear' = TRUE
    /\ UNCHANGED <<accessKey, sentinel, pin, firstAdmins>>

\* Updating a deleted document fails; an expired key stays of no use.
ReturnKey(p) ==
    LET k == opCall[p].key IN
    /\ opCall[p].pc = "return"
    /\ accessKey' = IF accessKey[k].state = "used" THEN [accessKey EXCEPT ![k].state = "unused"]
                    ELSE accessKey
    /\ OpGo(p, OpIdle)
    /\ UnchangedClaims
    /\ UNCHANGED <<sentinel, pin, opFailures, firstAdmins, keyGrants, unclear>>

-----------------------------------------------------------------------------
(* bootstrapFirstAdmin.                                                    *)

CheckNoAdmin(p, u, withPin) ==
    /\ opCall[p] = OpIdle
    /\ ~hasAnyAdminUser
    /\ OpGo(p, [pc |-> "claim", user |-> u, pin |-> withPin])
    /\ UnchangedClaims
    /\ UNCHANGED <<accessKey, sentinel, pin, opFailures, firstAdmins, keyGrants, unclear>>

\* Variant: the sentinel is set without a look at it.
ClaimSentinelBlind(p) ==
    /\ opCall[p].pc = "claim"
    /\ sentinel' = TRUE
    /\ OpGo(p, [opCall[p] EXCEPT !.pc = "promote"])
    /\ UnchangedClaims
    /\ UNCHANGED <<accessKey, pin, opFailures, firstAdmins, keyGrants, unclear>>

ClaimSentinel(p) ==
    /\ opCall[p].pc = "claim"
    /\ sentinel' = TRUE
    /\ OpGo(p, IF sentinel THEN OpIdle ELSE [opCall[p] EXCEPT !.pc = "promote"])
    /\ UnchangedClaims
    /\ UNCHANGED <<accessKey, pin, opFailures, firstAdmins, keyGrants, unclear>>

Promote(p) ==
    LET c == opCall[p] IN
    /\ c.pc = "promote"
    /\ Assign(c.user, "admin")
    /\ firstAdmins' = firstAdmins \cup {c.user}
    /\ OpGo(p, IF c.pin THEN [c EXCEPT !.pc = "pin"] ELSE OpIdle)
    /\ UNCHANGED <<accessKey, sentinel, pin, opFailures, keyGrants, unclear>>

PersistPin(p) ==
    /\ opCall[p].pc = "pin"
    /\ pin' = TRUE
    /\ OpGo(p, OpIdle)
    /\ UnchangedClaims
    /\ UNCHANGED <<accessKey, sentinel, opFailures, firstAdmins, keyGrants, unclear>>

\* The claims (with or without effect) or the PIN.
BootstrapFails(p) ==
    LET c == opCall[p] IN
    /\ c.pc \in {"promote", "pin"} /\ OpFail
    /\ OpGo(p, [c EXCEPT !.pc = "demote"])
    /\ \/ UnchangedClaims /\ UNCHANGED firstAdmins
       \/ /\ c.pc = "promote"
          /\ Assign(c.user, "admin")
          /\ firstAdmins' = firstAdmins \cup {c.user}
    /\ UNCHANGED <<accessKey, sentinel, pin, keyGrants, unclear>>

\* The rollback; its errors are swallowed, each one by itself.
Demote(p) ==
    LET c == opCall[p] IN
    /\ c.pc = "demote"
    /\ OpGo(p, [c EXCEPT !.pc = "release"])
    /\ \/ /\ SetClaims(c.user, "none")
          /\ firstAdmins' = firstAdmins \ {c.user}
          /\ UNCHANGED <<opFailures, unclear, lost>>
       \/ /\ OpFail
          /\ unclear' = TRUE
          /\ UnchangedClaims /\ UNCHANGED firstAdmins
    /\ UNCHANGED <<accessKey, sentinel, pin, keyGrants>>

\* Variant: the sentinel stays.
ReleaseSentinelNot(p) ==
    /\ opCall[p].pc = "release"
    /\ OpGo(p, OpIdle)
    /\ UnchangedClaims
    /\ UNCHANGED <<accessKey, sentinel, pin, opFailures, firstAdmins, keyGrants, unclear>>

ReleaseSentinel(p) ==
    /\ opCall[p].pc = "release"
    /\ sentinel' = FALSE
    /\ OpGo(p, OpIdle)
    /\ UnchangedClaims
    /\ UNCHANGED <<accessKey, pin, opFailures, firstAdmins, keyGrants, unclear>>

-----------------------------------------------------------------------------
(* What administrators do.                                                 *)

\* setUserRole, and setAdminClaim with the role "admin".
SetUserRole(u, role) ==
    /\ hasAnyAdminUser
    /\ Assign(u, role)
    /\ UNCHANGED <<accessKey, sentinel, pin, opCall, opFailures, firstAdmins, keyGrants, unclear>>

\* ensureMasterClaims, once the user registers as a parent: the role is replaced.
\* What stays of the claims is of no use to an operator.
EnsureMasterClaims(u) ==
    /\ Assign(u, "none")
    /\ UNCHANGED <<accessKey, sentinel, pin, opCall, opFailures, firstAdmins, keyGrants, unclear>>

SetOperatorAdminPin ==
    /\ hasAnyAdminUser /\ ~pin
    /\ pin' = TRUE
    /\ UnchangedClaims
    /\ UNCHANGED <<accessKey, sentinel, opCall, opFailures, firstAdmins, keyGrants, unclear>>

\* verifyAdminPin: the claims are read ...
VerifyAdminPin(p, u) ==
    /\ opCall[p] = OpIdle
    /\ IsAdmin(u) /\ pin
    /\ OpGo(p, [pc |-> "merge", user |-> u, read |-> claims[u]])
    /\ UnchangedClaims
    /\ UNCHANGED <<accessKey, sentinel, pin, opFailures, firstAdmins, keyGrants, unclear>>

\* Variant: the claims are replaced by the time of the verification.
MergedOnlyPatch(read) == [NoClaims EXCEPT !.verified = TRUE]

Merged(read) == [read EXCEPT !.verified = TRUE]

\* ... and written with the time of the verification added, whatever they are by now.
MergeOperatorCustomClaims(p) ==
    LET c == opCall[p]  u == c.user IN
    /\ c.pc = "merge"
    /\ claims' = [claims EXCEPT ![u] = Merged(c.read)]
    /\ OpGo(p, OpIdle)
    /\ UNCHANGED <<accessKey, sentinel, pin, opFailures, firstAdmins, keyGrants, unclear>>
    /\ UNCHANGED <<assigned, overwritable, lost>>

\* resetOperatorAccounts and resetAllAuthUsers, with a fresh verification once
\* there is a PIN.
ListOperators(p, u, all) ==
    /\ opCall[p] = OpIdle
    /\ IsAdmin(u) /\ (pin => claims[u].verified)
    /\ OpGo(p, [pc |-> IF all THEN "delete" ELSE "keys", all |-> all,
                todo |-> IF all THEN Users ELSE {v \in Users : claims[v].role # "none"}])
    /\ UnchangedClaims
    /\ UNCHANGED <<accessKey, sentinel, pin, opFailures, firstAdmins, keyGrants, unclear>>

DeleteAllOperatorAccessKeys(p) ==
    /\ opCall[p].pc = "keys"
    /\ accessKey' = [k \in Keys |-> [accessKey[k] EXCEPT !.state =
                        IF @ = "none" THEN "none" ELSE "expired"]]
    /\ OpGo(p, IF opCall[p].all THEN OpIdle ELSE [opCall[p] EXCEPT !.pc = "delete"])
    /\ UnchangedClaims
    /\ UNCHANGED <<sentinel, pin, opFailures, firstAdmins, keyGrants, unclear>>

\* A user whose deletion fails is skipped.
DeleteUser(p, u) ==
    LET c == opCall[p] IN
    /\ c.pc = "delete" /\ u \in c.todo
    /\ OpGo(p, [c EXCEPT !.todo = @ \ {u}])
    /\ \/ Assign(u, "none") /\ UNCHANGED opFailures
       \/ OpFail /\ UnchangedClaims
    /\ UNCHANGED <<accessKey, sentinel, pin, firstAdmins, keyGrants, unclear>>

UsersDeleted(p) ==
    /\ opCall[p].pc = "delete" /\ opCall[p].todo = {}
    /\ OpGo(p, IF opCall[p].all THEN [opCall[p] EXCEPT !.pc = "keys"] ELSE OpIdle)
    /\ UnchangedClaims
    /\ UNCHANGED <<accessKey, sentinel, pin, opFailures, firstAdmins, keyGrants, unclear>>

\* An invocation dies, or the last write of a rollback fails.
OpDie(p) ==
    /\ opCall[p] # OpIdle /\ OpFail
    /\ lost' = TRUE
    /\ OpGo(p, OpIdle)
    /\ UNCHANGED <<claims, assigned, overwritable>>
    /\ UNCHANGED <<accessKey, sentinel, pin, firstAdmins, keyGrants, unclear>>

-----------------------------------------------------------------------------
OpNext ==
    \/ \E p \in OpCalls :
        \/ \E u \in Users : \/ \E role \in Granted : CheckKeyCreator(p, u, role)
                            \/ \E k \in Keys : RedeemKey(p, u, k)
                            \/ \E b \in BOOLEAN : CheckNoAdmin(p, u, b) \/ ListOperators(p, u, b)
                            \/ VerifyAdminPin(p, u) \/ DeleteUser(p, u)
        \/ \E k \in Keys : CreateOperatorAccessKey(p, k)
        \/ GrantRole(p) \/ GrantFails(p) \/ ReturnKey(p)
        \/ ClaimSentinel(p) \/ Promote(p) \/ PersistPin(p) \/ BootstrapFails(p)
        \/ Demote(p) \/ ReleaseSentinel(p)
        \/ MergeOperatorCustomClaims(p)
        \/ DeleteAllOperatorAccessKeys(p) \/ UsersDeleted(p)
        \/ OpDie(p)
    \/ \E k \in Keys : KeyExpires(k)
    \/ \E u \in Users, role \in Granted : SetUserRole(u, role)
    \/ \E u \in Users : EnsureMasterClaims(u)
    \/ SetOperatorAdminPin

OpSpec == OpInit /\ [][OpNext]_opVars

-----------------------------------------------------------------------------
\* However many callers bootstrap at once, one becomes administrator, and an
\* access key gives its role to one user, unless an undoing went wrong: a rollback
\* failed, whose error is swallowed while the sentinel is released all the same,
\* or a claims call failed after its effect, and the key was given back although
\* it had been of use.
OneGrantEach ==
    ~unclear => /\ Cardinality(firstAdmins) <= 1
                /\ \A k \in Keys : Cardinality(keyGrants[k]) <= 1

\* Nobody can bootstrap although there is no administrator and no bootstrap under
\* way only if an invocation died (or could not release the sentinel), or an
\* administrator lost the role: no reset removes the sentinel.
BlockedOnlyAfterLoss ==
    sentinel /\ ~hasAnyAdminUser /\ ~lost =>
        \E p \in OpCalls : opCall[p].pc \in {"promote", "pin", "demote", "release"}

\* A user's role is the one assigned last, whatever calls, rollbacks, keys and resets
\* overlap, unless it was assigned between the two steps of a verification of the
\* PIN: that one writes back the role it had read.
RoleIsAssigned == \A u \in Users : u \notin overwritable => claims[u].role = assigned[u]
=============================================================================
