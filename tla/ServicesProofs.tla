--------------------------- MODULE ServicesProofs ---------------------------
(***************************************************************************)
(* Proofs about the server's services around the accounts: operators,      *)
(* registration, legal consents, the access and the conversation of a      *)
(* support ticket, and the rate limiter.  Each is a specification of its   *)
(* own that shares no variable with the others; every theorem is about one *)
(* of them, for any number of users, calls in flight, keys, grants,        *)
(* instances and failures.                                                 *)
(*                                                                         *)
(* All but the limiter mark a document first and do the rest after another *)
(* await, so every invariant says what the calls in flight still hold.     *)
(* The limiter's follows the windows of each counter: they begin more than *)
(* a window apart, and none of them counts more than the limit.            *)
(***************************************************************************)
EXTENDS Operators, Registration, Legal, SupportAccess, SupportTicket, RateLimiter,
        FiniteSetTheorems, WellFoundedInduction, TLAPS

-----------------------------------------------------------------------------
(* Operators: the invariant.                                               *)

\* The bootstrap that holds the sentinel, from its claim to the release.
Holding == {"promote", "pin", "demote", "release"}

\* One bootstrap holds the sentinel at a time.
OneHolder ==
    \A p \in OpCalls : opCall[p].pc \in Holding =>
        sentinel /\ \A q \in OpCalls : opCall[q].pc \in Holding => q = p

\* Who was made administrator is who the holder promoted, or nobody: there is none
\* while the sentinel is free, before the promotion and after the rollback.
OneFirstAdmin ==
    ~unclear =>
        /\ \A u, v \in firstAdmins : u = v
        /\ ~sentinel => firstAdmins = {}
        /\ \A p \in OpCalls : /\ opCall[p].pc \in {"promote", "release"} => firstAdmins = {}
                              /\ opCall[p].pc \in {"pin", "demote"} =>
                                    firstAdmins \subseteq {opCall[p].user}

\* One call at a time has redeemed a key; a key that may be redeemed has no such call.
Redeeming(p, k) == opCall[p].pc \in {"grant", "return"} /\ opCall[p].key = k

OneRedeemer ==
    \A k \in Keys, p \in OpCalls : Redeeming(p, k) =>
        /\ accessKey[k].state \in {"used", "expired"}
        /\ \A q \in OpCalls : Redeeming(q, k) => q = p

\* A key gave a role to one user, to nobody before it was redeemed and while it is
\* being redeemed.
OneKeyGrant ==
    ~unclear => \A k \in Keys :
        /\ \A u, v \in keyGrants[k] : u = v
        /\ accessKey[k].state \in {"none", "unused"} => keyGrants[k] = {}
        /\ \A p \in OpCalls : Redeeming(p, k) => keyGrants[k] = {}

\* The sentinel is taken, nobody is administrator and nothing was lost: a bootstrap
\* is about to promote or on its way back.  One that promoted left an administrator.
\* A verification writes back the claims of an administrator.
BootstrapUnderWay ==
    /\ sentinel /\ ~hasAnyAdminUser /\ ~lost =>
          \E p \in OpCalls : opCall[p].pc \in {"promote", "demote", "release"}
    /\ \A p \in OpCalls : opCall[p].pc = "merge" => opCall[p].read.role = "admin"

\* What a verification has read is the role its user still has, unless the role
\* was assigned since.
ReadIsCurrent ==
    \A p \in OpCalls : opCall[p].pc = "merge" /\ opCall[p].user \notin overwritable =>
        opCall[p].read.role = claims[opCall[p].user].role

RolesCurrent == RoleIsAssigned /\ ReadIsCurrent

OpInv == /\ OpTypeOK /\ RolesCurrent
         /\ OneHolder /\ OneFirstAdmin
         /\ OneRedeemer /\ OneKeyGrant
         /\ BootstrapUnderWay

-----------------------------------------------------------------------------
(* Registration: the invariant.                                            *)

\* Who is past the creation, has a web token or was registered has a document.
AccountExists ==
    /\ \A p \in RegCalls : regCall[p].pc \in {"family", "role"} => account # "none"
    /\ \A w \in WebTokens : webToken[w] # "none" => account # "none"
    /\ registered => account # "none"

\* A document whose account has no role is due to a registration under way.
RoleUnderWay ==
    account # "none" /\ regDeaths = 0 =>
        hasRole \/ \E p \in RegCalls : regCall[p].pc \in {"family", "role"}

\* Without an overlap one registration creates the document, and finds none.
OneCreates ==
    ~overlapped => /\ \A p \in RegCalls : regCall[p].pc = "create" =>
                        account = "none" /\ \A q \in RegCalls : regCall[q].pc = "create" => q = p
                   /\ paid => account = "started"

RegInv == RegTypeOK /\ AccountExists /\ RoleUnderWay /\ OneCreates

-----------------------------------------------------------------------------
(* Legal consents: the invariant.                                          *)

\* A consent that is neither marked nor excused is still to be marked.
MarkedOrToMark ==
    \A m \in Accounts : consent[m].exists =>
        \/ consent[m].requiresReconsent \/ m \in renewed \/ m \in overtaken
        \/ \E p \in LegalCalls : legalCall[p].pc = "mark" /\ m \in legalCall[p].todo

LegalInv == LegalTypeOK /\ MarkedOrToMark

-----------------------------------------------------------------------------
(* Support access: the invariant.                                          *)

\* A grant that a call is about to link is active, fresh and nobody else's; what
\* the cleanup found has run out.
GrantToLink ==
    /\ \A p \in GrantCalls : grantCall[p].pc \in {"link", "activate"} =>
          /\ grant[grantCall[p].grant].status = "active"
          /\ ~grant[grantCall[p].grant].overdue
          /\ grantCall[p].grant \notin {access.grant, access.debugGrant}
          /\ \A q \in GrantCalls :
                grantCall[q].pc \in {"link", "activate"}
                /\ grantCall[q].grant = grantCall[p].grant => q = p
    /\ \A g \in cleaning : grant[g].overdue
    /\ \A g \in Grants : grant[g].status = "none" =>
          ~grant[g].overdue /\ g \notin {access.grant, access.debugGrant}

\* Access without a grant is about to be taken back, but for deaths and lapses.
AccessIsBacked ==
    access.granted /\ grantDeaths = 0 =>
        \/ Active # {}
        \/ \E g \in Grants : grant[g].status = "lapsed"
        \/ \E p \in GrantCalls : grantCall[p].pc = "unlink"

AccessInv == AccessTypeOK /\ GrantToLink /\ AccessIsBacked

-----------------------------------------------------------------------------
(* The conversation: the invariant.                                        *)

\* Until a round reads a ticket that the AI had solved, every round that was run
\* failed, and the ticket is in the conversation only while rounds are left.
RoundsFail ==
    past # "resumed" =>
        /\ past = "unsolved" => ticket.round = ticket.failures
        /\ ticket.status \notin Ended => ticket.round < MaxRounds
        /\ \A p \in TicketCalls : ticketCall[p].pc \in {"skip", "ask"} =>
              ticketCall[p].round = ticketCall[p].failures

\* A reply whose ticket was not written since is about one that is not ended.
ReplyToOpen ==
    \A p \in TicketCalls :
        /\ (/\ ticketCall[p].pc \in {"reply", "ask"} /\ ticketCall[p].op = "reply"
            /\ ~ticketCall[p].stale) => ticket.status \notin Ended
        /\ ticketCall[p].pc \in {"activate", "refresh", "skip"} => ticketCall[p].op # "reply"

TicketInv == TicketTypeOK /\ RoundsFail /\ ReplyToOpen

-----------------------------------------------------------------------------
(* Operators: types.                                                       *)

\* What a call that has got this far carries.
LEMMA OpCallIs ==
    ASSUME OpTypeOK, NEW p \in OpCalls
    PROVE  /\ opCall[p] \in OpCallStates
           /\ opCall[p].pc = "key" => opCall[p].role \in Granted
           /\ opCall[p].pc \in {"grant", "return"} =>
                opCall[p].user \in Users /\ opCall[p].key \in Keys
           /\ opCall[p].pc \in {"claim", "promote", "pin", "demote", "release"} =>
                opCall[p].user \in Users /\ opCall[p].pin \in BOOLEAN
           /\ opCall[p].pc = "merge" => opCall[p].user \in Users /\ opCall[p].read \in Claims
           /\ opCall[p].pc \in {"keys", "delete"} =>
                opCall[p].todo \in SUBSET Users /\ opCall[p].all \in BOOLEAN
BY DEF OpTypeOK, OpCallStates, OpIdle

\* The same call at another point of its way.
LEMMA OpCallGoesOn ==
    ASSUME OpTypeOK, NEW p \in OpCalls
    PROVE  /\ OpIdle \in OpCallStates /\ OpIdle.pc = "idle"
           /\ opCall[p].pc \in {"grant", "return"} =>
                /\ [opCall[p] EXCEPT !.pc = "return"] \in OpCallStates
                /\ [opCall[p] EXCEPT !.pc = "return"].pc = "return"
                /\ [opCall[p] EXCEPT !.pc = "return"].user = opCall[p].user
                /\ [opCall[p] EXCEPT !.pc = "return"].key = opCall[p].key
           /\ opCall[p].pc \in {"claim", "promote", "pin", "demote", "release"} =>
                \A pc \in Holding : /\ [opCall[p] EXCEPT !.pc = pc] \in OpCallStates
                                    /\ [opCall[p] EXCEPT !.pc = pc].pc = pc
                                    /\ [opCall[p] EXCEPT !.pc = pc].user = opCall[p].user
           /\ opCall[p].pc \in {"keys", "delete"} =>
                \A pc \in {"keys", "delete"} : /\ [opCall[p] EXCEPT !.pc = pc] \in OpCallStates
                                               /\ [opCall[p] EXCEPT !.pc = pc].pc = pc
<1>1. opCall[p] \in OpCallStates
  BY DEF OpTypeOK
<1>2. OpIdle \in OpCallStates /\ OpIdle.pc = "idle"
  BY DEF OpCallStates, OpIdle
<1>3. ASSUME opCall[p].pc \in {"grant", "return"}
      PROVE  /\ [opCall[p] EXCEPT !.pc = "return"] \in OpCallStates
             /\ [opCall[p] EXCEPT !.pc = "return"].pc = "return"
             /\ [opCall[p] EXCEPT !.pc = "return"].user = opCall[p].user
             /\ [opCall[p] EXCEPT !.pc = "return"].key = opCall[p].key
  <2>1. opCall[p] \in [pc : {"grant", "return"}, user : Users, key : Keys]
    BY <1>1, <1>3 DEF OpCallStates, OpIdle
  <2>2. [opCall[p] EXCEPT !.pc = "return"] \in [pc : {"grant", "return"}, user : Users, key : Keys]
    BY <2>1
  <2> QED BY <2>1, <2>2 DEF OpCallStates
<1>4. ASSUME opCall[p].pc \in {"claim", "promote", "pin", "demote", "release"}, NEW pc \in Holding
      PROVE  /\ [opCall[p] EXCEPT !.pc = pc] \in OpCallStates
             /\ [opCall[p] EXCEPT !.pc = pc].pc = pc
             /\ [opCall[p] EXCEPT !.pc = pc].user = opCall[p].user
  <2> DEFINE S == [pc : {"claim", "promote", "pin", "demote", "release"}, user : Users,
                   pin : BOOLEAN]
  <2>1. opCall[p] \in S
    BY <1>1, <1>4 DEF OpCallStates, OpIdle
  <2>2. [opCall[p] EXCEPT !.pc = pc] \in S
    BY <2>1 DEF Holding
  <2> QED BY <2>1, <2>2 DEF OpCallStates
<1>5. ASSUME opCall[p].pc \in {"keys", "delete"}, NEW pc \in {"keys", "delete"}
      PROVE  /\ [opCall[p] EXCEPT !.pc = pc] \in OpCallStates
             /\ [opCall[p] EXCEPT !.pc = pc].pc = pc
  <2>1. opCall[p] \in [pc : {"keys", "delete"}, todo : SUBSET Users, all : BOOLEAN]
    BY <1>1, <1>5 DEF OpCallStates, OpIdle
  <2>2. [opCall[p] EXCEPT !.pc = pc] \in [pc : {"keys", "delete"}, todo : SUBSET Users,
                                          all : BOOLEAN]
    BY <2>1
  <2> QED BY <2>1, <2>2 DEF OpCallStates
<1> QED BY <1>2, <1>3, <1>4, <1>5

\* A call that goes on to a legal state leaves the others where they are.
LEMMA OpGoes ==
    ASSUME OpTypeOK, NEW p \in OpCalls, NEW s \in OpCallStates, OpGo(p, s)
    PROVE  /\ opCall' \in [OpCalls -> OpCallStates]
           /\ opCall'[p] = s
           /\ \A q \in OpCalls : q # p => opCall'[q] = opCall[q]
BY DEF OpTypeOK, OpGo

\* Replaced claims carry the role that is assigned with them; a verification under
\* way about that user is noted.
LEMMA ClaimsSet ==
    ASSUME OpTypeOK, RolesCurrent, NEW u \in Users, NEW role \in Roles, SetClaims(u, role),
           \A q \in OpCalls : opCall'[q] = opCall[q] \/ opCall'[q].pc # "merge"
    PROVE  /\ claims' \in [Users -> Claims] /\ assigned' \in [Users -> Roles]
           /\ overwritable' \subseteq Users
           /\ RolesCurrent'
           /\ claims'[u].role = role
           /\ \A v \in Users : v # u => claims'[v] = claims[v]
<1>1. Only(role) \in Claims /\ Only(role).role = role
  BY DEF Only, Claims
<1>2. /\ claims' \in [Users -> Claims] /\ assigned' \in [Users -> Roles]
      /\ claims'[u].role = role /\ assigned'[u] = role
      /\ \A v \in Users : v # u => claims'[v] = claims[v] /\ assigned'[v] = assigned[v]
  BY <1>1 DEF SetClaims, OpTypeOK
<1>3. /\ overwritable' \subseteq Users
      /\ \A v \in Users : v # u => (v \in overwritable' <=> v \in overwritable)
      /\ Verifying(u) => u \in overwritable'
  BY DEF SetClaims, OpTypeOK
<1>4. RoleIsAssigned'
  BY <1>2, <1>3 DEF RolesCurrent, RoleIsAssigned
<1>5. ReadIsCurrent'
  <2> SUFFICES ASSUME NEW p \in OpCalls, opCall'[p].pc = "merge",
                      opCall'[p].user \notin overwritable'
               PROVE  opCall'[p].read.role = claims'[opCall'[p].user].role
    BY DEF ReadIsCurrent
  <2>1. opCall'[p] = opCall[p] /\ opCall[p].user \in Users
    BY OpCallIs
  <2>2. opCall[p].user # u
    BY <1>3, <2>1 DEF Verifying
  <2> QED BY <1>2, <1>3, <2>1, <2>2 DEF RolesCurrent, ReadIsCurrent
<1> QED BY <1>2, <1>3, <1>4, <1>5 DEF RolesCurrent

\* Assigning a role also notes a lost administrator.
LEMMA Assigned ==
    ASSUME OpTypeOK, RolesCurrent, NEW u \in Users, NEW role \in Roles, Assign(u, role),
           \A q \in OpCalls : opCall'[q] = opCall[q] \/ opCall'[q].pc # "merge"
    PROVE  /\ claims' \in [Users -> Claims] /\ assigned' \in [Users -> Roles]
           /\ overwritable' \subseteq Users /\ lost' \in BOOLEAN
           /\ RolesCurrent'
           /\ lost => lost'
           /\ hasAnyAdminUser => lost' \/ hasAnyAdminUser'
           /\ role = "admin" => hasAnyAdminUser'
<1>1. /\ SetClaims(u, role)
      /\ lost' = (lost \/ (claims[u].role = "admin" /\ role # "admin"))
  BY DEF Assign, IsAdmin
<1>2. /\ claims' \in [Users -> Claims] /\ assigned' \in [Users -> Roles]
      /\ overwritable' \subseteq Users /\ RolesCurrent' /\ claims'[u].role = role
      /\ \A v \in Users : v # u => claims'[v] = claims[v]
  BY <1>1, ClaimsSet
<1>3. lost' \in BOOLEAN
  BY <1>1 DEF OpTypeOK
<1>4. hasAnyAdminUser => lost' \/ hasAnyAdminUser'
  BY <1>1, <1>2 DEF hasAnyAdminUser, IsAdmin
<1>5. role = "admin" => hasAnyAdminUser'
  BY <1>2 DEF hasAnyAdminUser, IsAdmin
<1> QED BY <1>1, <1>2, <1>3, <1>4, <1>5

-----------------------------------------------------------------------------
(* Operators: steps that have no part in a bootstrap, a key or the loss of *)
(* the administrators keep what the invariant says of them.                *)

LEMMA HolderKeeps ==
    ASSUME OneHolder, OneFirstAdmin,
           \A q \in OpCalls : opCall'[q] = opCall[q] \/ opCall'[q].pc \notin Holding,
           UNCHANGED <<sentinel, firstAdmins>>, unclear => unclear'
    PROVE  OneHolder' /\ OneFirstAdmin'
<1>1. OneHolder'
  BY DEF OneHolder
<1>2. OneFirstAdmin'
  BY DEF OneFirstAdmin, Holding
<1> QED BY <1>1, <1>2

LEMMA RedeemerKeeps ==
    ASSUME OpTypeOK, OneRedeemer, OneKeyGrant,
           \A q \in OpCalls : opCall'[q] = opCall[q] \/ opCall'[q].pc \notin {"grant", "return"},
           \A k \in Keys : \/ accessKey'[k].state \in {"used", "expired"}
                           \/ /\ accessKey[k].state \in {"none", "unused"}
                              /\ accessKey'[k].state \in {"none", "unused"},
           UNCHANGED keyGrants, unclear => unclear'
    PROVE  OneRedeemer' /\ OneKeyGrant'
<1>1. OneRedeemer'
  BY DEF OneRedeemer, Redeeming
<1>2. OneKeyGrant'
  BY DEF OneKeyGrant, Redeeming
<1> QED BY <1>1, <1>2

LEMMA BootstrapKeeps ==
    ASSUME BootstrapUnderWay,
           \A q \in OpCalls : \/ opCall'[q] = opCall[q]
                              \/ /\ opCall'[q].pc # "merge"
                                 /\ opCall[q].pc \notin {"promote", "demote", "release"},
           sentinel' => sentinel, lost => lost', hasAnyAdminUser => lost' \/ hasAnyAdminUser'
    PROVE  BootstrapUnderWay'
BY DEF BootstrapUnderWay

\* Keys do not change their state but where a call says so.
LEMMA KeyStates ==
    ASSUME OpTypeOK, NEW k \in Keys
    PROVE  accessKey[k].state \in {"none", "unused", "used", "expired"}
BY DEF OpTypeOK, KeyDocs

LEMMA UnchangedClaimsKeep ==
    ASSUME UnchangedClaims, RolesCurrent,
           \A q \in OpCalls : opCall'[q] = opCall[q] \/ opCall'[q].pc # "merge"
    PROVE  RolesCurrent' /\ hasAnyAdminUser' = hasAnyAdminUser
BY DEF UnchangedClaims, RolesCurrent, RoleIsAssigned, ReadIsCurrent, hasAnyAdminUser, IsAdmin

-----------------------------------------------------------------------------
(* Operators: keys.                                                        *)

LEMMA KeyStep ==
    ASSUME OpInv,
           \/ \E q \in OpCalls :
                \/ \E u \in Users : \/ \E role \in Granted : CheckKeyCreator(q, u, role)
                                    \/ \E k \in Keys : RedeemKey(q, u, k)
                \/ \E k \in Keys : CreateOperatorAccessKey(q, k)
                \/ ReturnKey(q)
           \/ \E k \in Keys : KeyExpires(k)
    PROVE  OpInv'
<1> USE DEF OpInv
<1>k. \A k \in Keys : accessKey[k].state \in {"none", "unused", "used", "expired"}
  BY KeyStates
<1>1. ASSUME NEW q \in OpCalls, NEW u \in Users, NEW role \in Granted, CheckKeyCreator(q, u, role)
      PROVE  OpInv'
  <2> DEFINE s == [pc |-> "key", role |-> role]
  <2>1. s \in OpCallStates /\ s.pc = "key" /\ OpGo(q, s)
    BY <1>1 DEF OpCallStates, CheckKeyCreator
  <2>2. /\ opCall' \in [OpCalls -> OpCallStates] /\ opCall'[q] = s
        /\ \A r \in OpCalls : r # q => opCall'[r] = opCall[r]
    <3> HIDE DEF s
    <3> QED BY <2>1, OpGoes
  <2>3. OpTypeOK'
    BY <1>1, <2>2 DEF CheckKeyCreator, UnchangedClaims, OpTypeOK
  <2>4. opCall[q].pc = "idle" /\ UnchangedClaims
    BY <1>1 DEF CheckKeyCreator, OpIdle
  <2> HIDE DEF s
  <2>5. OneHolder' /\ OneFirstAdmin'
    BY <1>1, <2>1, <2>2, HolderKeeps DEF CheckKeyCreator, Holding
  <2>6. OneRedeemer' /\ OneKeyGrant'
    BY <1>1, <1>k, <2>1, <2>2, RedeemerKeeps DEF CheckKeyCreator
  <2>7. BootstrapUnderWay' /\ RolesCurrent'
    BY <1>1, <2>1, <2>2, <2>4, BootstrapKeeps, UnchangedClaimsKeep
       DEF CheckKeyCreator, UnchangedClaims
  <2> QED BY <2>3, <2>5, <2>6, <2>7
<1>2. ASSUME NEW q \in OpCalls, NEW k \in Keys, CreateOperatorAccessKey(q, k) PROVE OpInv'
  <2>1. OpIdle \in OpCallStates /\ OpIdle.pc = "idle" /\ OpGo(q, OpIdle)
    BY <1>2, OpCallGoesOn DEF CreateOperatorAccessKey
  <2>2. /\ opCall' \in [OpCalls -> OpCallStates] /\ opCall'[q] = OpIdle
        /\ \A r \in OpCalls : r # q => opCall'[r] = opCall[r]
    BY <2>1, OpGoes
  <2>3. opCall[q].pc = "key" /\ opCall[q].role \in Granted /\ UnchangedClaims
    BY <1>2, OpCallIs DEF CreateOperatorAccessKey
  <2>4. /\ accessKey' \in [Keys -> KeyDocs] /\ accessKey[k].state = "none"
        /\ accessKey'[k].state = "unused"
        /\ \A j \in Keys : j # k => accessKey'[j] = accessKey[j]
    BY <1>2, <2>3 DEF CreateOperatorAccessKey, OpTypeOK, KeyDocs
  <2>5. OpTypeOK'
    BY <1>2, <2>2, <2>4 DEF CreateOperatorAccessKey, UnchangedClaims, OpTypeOK
  <2>6. OneHolder' /\ OneFirstAdmin'
    BY <1>2, <2>1, <2>2, HolderKeeps DEF CreateOperatorAccessKey, Holding
  <2>7. OneRedeemer' /\ OneKeyGrant'
    BY <1>2, <1>k, <2>1, <2>2, <2>4, RedeemerKeeps DEF CreateOperatorAccessKey
  <2>8. BootstrapUnderWay' /\ RolesCurrent'
    BY <1>2, <2>1, <2>2, <2>3, BootstrapKeeps, UnchangedClaimsKeep
       DEF CreateOperatorAccessKey, UnchangedClaims
  <2> QED BY <2>5, <2>6, <2>7, <2>8
<1>3. ASSUME NEW k \in Keys, KeyExpires(k) PROVE OpInv'
  <2>1. /\ accessKey' \in [Keys -> KeyDocs] /\ accessKey'[k].state = "expired"
        /\ \A j \in Keys : j # k => accessKey'[j] = accessKey[j]
    BY <1>3 DEF KeyExpires, OpTypeOK, KeyDocs
  <2>2. opCall' = opCall /\ UnchangedClaims
    BY <1>3 DEF KeyExpires
  <2>3. OpTypeOK'
    BY <1>3, <2>1 DEF KeyExpires, UnchangedClaims, OpTypeOK
  <2>4. OneHolder' /\ OneFirstAdmin'
    BY <1>3, <2>2, HolderKeeps DEF KeyExpires
  <2>5. OneRedeemer' /\ OneKeyGrant'
    BY <1>3, <1>k, <2>1, <2>2, RedeemerKeeps DEF KeyExpires
  <2>6. BootstrapUnderWay' /\ RolesCurrent'
    BY <1>3, <2>2, BootstrapKeeps, UnchangedClaimsKeep DEF KeyExpires, UnchangedClaims
  <2> QED BY <2>3, <2>4, <2>5, <2>6
<1>4. ASSUME NEW q \in OpCalls, NEW u \in Users, NEW k \in Keys, RedeemKey(q, u, k) PROVE OpInv'
  <2> DEFINE s == [pc |-> "grant", user |-> u, key |-> k]
  <2>1. s \in OpCallStates /\ s.pc = "grant" /\ s.key = k /\ OpGo(q, s)
    BY <1>4 DEF OpCallStates, RedeemKey
  <2>2. /\ opCall' \in [OpCalls -> OpCallStates] /\ opCall'[q] = s
        /\ \A r \in OpCalls : r # q => opCall'[r] = opCall[r]
    <3> HIDE DEF s
    <3> QED BY <2>1, OpGoes
  <2>3. opCall[q].pc = "idle" /\ UnchangedClaims
    BY <1>4 DEF RedeemKey, OpIdle
  <2>4. /\ accessKey' \in [Keys -> KeyDocs] /\ accessKey[k].state = "unused"
        /\ accessKey'[k].state = "used"
        /\ \A j \in Keys : j # k => accessKey'[j] = accessKey[j]
    BY <1>4 DEF RedeemKey, OpTypeOK, KeyDocs
  <2>5. OpTypeOK'
    BY <1>4, <2>2, <2>4 DEF RedeemKey, UnchangedClaims, OpTypeOK
  <2> HIDE DEF s
  <2>6. OneHolder' /\ OneFirstAdmin'
    BY <1>4, <2>1, <2>2, HolderKeeps DEF RedeemKey, Holding
  <2>7. /\ \A r \in OpCalls : ~ Redeeming(r, k)
        /\ ~unclear => keyGrants[k] = {}
    BY <2>4 DEF OneRedeemer, OneKeyGrant
  <2>8. /\ \A r \in OpCalls : Redeeming(r, k)' <=> r = q
        /\ \A r \in OpCalls, j \in Keys : j # k => (Redeeming(r, j)' <=> Redeeming(r, j))
    BY <2>1, <2>2, <2>3, <2>7 DEF Redeeming
  <2>9. OneRedeemer'
    BY <2>4, <2>8 DEF OneRedeemer
  <2>10. UNCHANGED <<keyGrants, unclear>>
    BY <1>4 DEF RedeemKey
  <2>11. OneKeyGrant'
    BY <2>4, <2>7, <2>8, <2>10 DEF OneKeyGrant
  <2>12. BootstrapUnderWay' /\ RolesCurrent'
    BY <1>4, <2>1, <2>2, <2>3, BootstrapKeeps, UnchangedClaimsKeep
       DEF RedeemKey, UnchangedClaims
  <2> QED BY <2>5, <2>6, <2>9, <2>11, <2>12
<1>5. ASSUME NEW q \in OpCalls, ReturnKey(q) PROVE OpInv'
  <2>0. PICK k \in Keys : k = opCall[q].key
    BY <1>5, OpCallIs DEF ReturnKey
  <2>1. OpIdle \in OpCallStates /\ OpIdle.pc = "idle" /\ OpGo(q, OpIdle)
    BY <1>5, OpCallGoesOn DEF ReturnKey
  <2>2. /\ opCall' \in [OpCalls -> OpCallStates] /\ opCall'[q] = OpIdle
        /\ \A r \in OpCalls : r # q => opCall'[r] = opCall[r]
    BY <2>1, OpGoes
  <2>3. opCall[q].pc = "return" /\ Redeeming(q, k) /\ UnchangedClaims
    BY <1>5, <2>0 DEF ReturnKey, Redeeming
  <2>4. /\ accessKey' \in [Keys -> KeyDocs]
        /\ \A j \in Keys : j # k => accessKey'[j] = accessKey[j]
        /\ accessKey'[k].state \in {"unused", "used", "expired"}
    <3>1. accessKey' = IF accessKey[k].state = "used" THEN [accessKey EXCEPT ![k].state = "unused"]
                       ELSE accessKey
      BY <1>5, <2>0 DEF ReturnKey
    <3> QED BY <2>3, <3>1 DEF OpTypeOK, KeyDocs, OneRedeemer
  <2>5. OpTypeOK'
    BY <1>5, <2>2, <2>4 DEF ReturnKey, UnchangedClaims, OpTypeOK
  <2>6. OneHolder' /\ OneFirstAdmin'
    BY <1>5, <2>1, <2>2, HolderKeeps DEF ReturnKey, Holding
  <2>7. \A r \in OpCalls : ~ Redeeming(r, k)'
    BY <2>1, <2>2, <2>3 DEF OneRedeemer, Redeeming
  <2>8. \A r \in OpCalls, j \in Keys : Redeeming(r, j)' => Redeeming(r, j)
    BY <2>1, <2>2 DEF Redeeming
  <2>9. OneRedeemer'
    BY <2>4, <2>7, <2>8 DEF OneRedeemer
  <2>10. UNCHANGED <<keyGrants, unclear>>
    BY <1>5 DEF ReturnKey
  <2>11. OneKeyGrant'
    BY <2>3, <2>4, <2>7, <2>8, <2>10 DEF OneKeyGrant
  <2>12. BootstrapUnderWay' /\ RolesCurrent'
    BY <1>5, <2>1, <2>2, <2>3, BootstrapKeeps, UnchangedClaimsKeep
       DEF ReturnKey, UnchangedClaims
  <2> QED BY <2>5, <2>6, <2>9, <2>11, <2>12
<1> QED BY <1>1, <1>2, <1>3, <1>4, <1>5

LEMMA OpFailTyped ==
    ASSUME OpTypeOK, OpFail
    PROVE  opFailures' \in 0..MaxOpFailures
BY OperatorsAssumption DEF OpTypeOK, OpFail

\* The role of a key goes to the one user who redeemed it.
LEMMA GrantStep ==
    ASSUME OpInv, \E p \in OpCalls : GrantRole(p) \/ GrantFails(p)
    PROVE  OpInv'
<1> USE DEF OpInv
<1>1. PICK p \in OpCalls : GrantRole(p) \/ GrantFails(p)
  OBVIOUS
<1>2. opCall[p].pc = "grant" /\ opCall[p].user \in Users /\ opCall[p].key \in Keys
  BY <1>1, OpCallIs DEF GrantRole, GrantFails
<1>3. PICK u \in Users, k \in Keys : u = opCall[p].user /\ k = opCall[p].key
  BY <1>2
<1>4. accessKey[k].role \in Roles /\ accessKey[k].state \in {"used", "expired"}
  <2>1. accessKey[k].role \in Roles
    BY DEF OpTypeOK, KeyDocs, Granted
  <2>2. Redeeming(p, k)
    BY <1>2, <1>3 DEF Redeeming
  <2> QED BY <2>1, <2>2 DEF OneRedeemer
\* The call goes on; it stays the one that redeems the key, or none does.
<1>5. PICK s \in OpCallStates : /\ OpGo(p, s)
                                /\ \/ s.pc = "idle"
                                   \/ s.pc = "return" /\ s.user = u /\ s.key = k
  <2>1. CASE GrantRole(p)
    BY <2>1, OpCallGoesOn DEF GrantRole
  <2>2. CASE GrantFails(p)
    <3> DEFINE r == [opCall[p] EXCEPT !.pc = "return"]
    <3>1. r \in OpCallStates /\ r.pc = "return" /\ r.user = u /\ r.key = k
      BY <1>2, <1>3, OpCallGoesOn
    <3>2. OpGo(p, r)
      BY <2>2 DEF GrantFails
    <3> QED BY <3>1, <3>2
  <2> QED BY <1>1, <2>1, <2>2
<1>6. /\ opCall' \in [OpCalls -> OpCallStates] /\ opCall'[p] = s
      /\ \A r \in OpCalls : r # p => opCall'[r] = opCall[r]
  BY <1>5, OpGoes
<1>7. /\ \A r \in OpCalls : Redeeming(r, k)' => r = p
      /\ \A r \in OpCalls, j \in Keys : Redeeming(r, j)' => Redeeming(r, j)
  BY <1>2, <1>3, <1>5, <1>6 DEF Redeeming, OneRedeemer
<1>8. UNCHANGED <<accessKey, sentinel, pin, firstAdmins>> /\ opFailures' \in 0..MaxOpFailures
  BY <1>1, OpFailTyped DEF GrantRole, GrantFails, OpTypeOK
\* What came of the claims: nothing, or the role, unless it is unclear.
<1>9. /\ \/ UnchangedClaims
         \/ Assign(u, accessKey[k].role)
      /\ \/ keyGrants' = keyGrants
         \/ keyGrants' = [keyGrants EXCEPT ![k] = @ \cup {u}] /\ (~unclear' => s.pc = "idle")
      /\ unclear' \in BOOLEAN /\ (unclear => unclear')
  <2>1. CASE GrantRole(p)
    <3>1. Assign(u, accessKey[k].role) /\ keyGrants' = [keyGrants EXCEPT ![k] = @ \cup {u}]
      BY <1>3, <2>1 DEF GrantRole
    <3>2. s.pc = "idle" /\ unclear' = unclear /\ unclear \in BOOLEAN
      <4>1. opCall' = [opCall EXCEPT ![p] = OpIdle]
        BY <2>1 DEF GrantRole, OpGo
      <4>2. opCall'[p] = OpIdle
        BY <4>1 DEF OpTypeOK
      <4> QED BY <1>6, <2>1, <4>2 DEF GrantRole, OpTypeOK, OpIdle
    <3> QED BY <3>1, <3>2
  <2>2. CASE GrantFails(p)
    <3>1. \/ UnchangedClaims /\ UNCHANGED <<keyGrants, unclear>>
          \/ /\ Assign(u, accessKey[k].role)
             /\ keyGrants' = [keyGrants EXCEPT ![k] = @ \cup {u}]
             /\ unclear' = TRUE
      BY <1>3, <2>2 DEF GrantFails
    <3>2. unclear \in BOOLEAN
      BY DEF OpTypeOK
    <3>3. CASE UnchangedClaims /\ UNCHANGED <<keyGrants, unclear>>
      BY <3>2, <3>3
    <3>4. CASE /\ Assign(u, accessKey[k].role)
               /\ keyGrants' = [keyGrants EXCEPT ![k] = @ \cup {u}]
               /\ unclear' = TRUE
      BY <3>4
    <3> QED BY <3>1, <3>3, <3>4
  <2> QED BY <1>1, <2>1, <2>2
<1>10. /\ claims' \in [Users -> Claims] /\ assigned' \in [Users -> Roles] /\ lost' \in BOOLEAN
       /\ overwritable' \subseteq Users /\ RolesCurrent' /\ (lost => lost')
       /\ hasAnyAdminUser => lost' \/ hasAnyAdminUser'
  <2>0. \A q \in OpCalls : opCall'[q] = opCall[q] \/ opCall'[q].pc # "merge"
    BY <1>5, <1>6
  <2>1. CASE UnchangedClaims
    BY <2>0, <2>1, UnchangedClaimsKeep DEF UnchangedClaims, OpTypeOK
  <2>2. CASE Assign(u, accessKey[k].role)
    BY <1>4, <2>0, <2>2, Assigned
  <2> QED BY <1>9, <2>1, <2>2
<1>11. keyGrants' \in [Keys -> SUBSET Users]
  BY <1>9 DEF OpTypeOK
<1>12. OpTypeOK'
  BY <1>6, <1>8, <1>9, <1>10, <1>11 DEF OpTypeOK
<1>13. OneHolder' /\ OneFirstAdmin'
  BY <1>5, <1>6, <1>8, <1>9, HolderKeeps DEF Holding
<1>14. OneRedeemer'
  BY <1>4, <1>7, <1>8 DEF OneRedeemer
<1>15. OneKeyGrant'
  <2> SUFFICES ASSUME ~unclear' PROVE OneKeyGrant'
    BY DEF OneKeyGrant
  <2>1. ~unclear /\ keyGrants[k] = {}
    BY <1>2, <1>3, <1>9 DEF OneKeyGrant, Redeeming
  <2>2. /\ \A j \in Keys : j # k => keyGrants'[j] = keyGrants[j]
        /\ \/ keyGrants'[k] = {}
           \/ keyGrants'[k] = {u} /\ \A r \in OpCalls : ~ Redeeming(r, k)'
    <3>1. CASE keyGrants' = keyGrants
      BY <2>1, <3>1
    <3>2. CASE keyGrants' = [keyGrants EXCEPT ![k] = @ \cup {u}] /\ s.pc = "idle"
      <4>1. keyGrants'[k] = {u} /\ \A j \in Keys : j # k => keyGrants'[j] = keyGrants[j]
        BY <2>1, <3>2 DEF OpTypeOK
      <4>2. \A r \in OpCalls : ~ Redeeming(r, k)'
        BY <1>6, <1>7, <3>2 DEF Redeeming
      <4> QED BY <4>1, <4>2
    <3> QED BY <1>9, <3>1, <3>2
  <2> QED BY <1>4, <1>7, <1>8, <2>1, <2>2 DEF OneKeyGrant
<1>16. BootstrapUnderWay'
  BY <1>2, <1>5, <1>6, <1>8, <1>10, BootstrapKeeps
<1> QED BY <1>10, <1>12, <1>13, <1>14, <1>15, <1>16

-----------------------------------------------------------------------------
(* Operators: the bootstrap.                                               *)

LEMMA BootstrapStarts ==
    ASSUME OpInv, NEW p \in OpCalls,
           \/ \E u \in Users, b \in BOOLEAN : CheckNoAdmin(p, u, b)
           \/ ClaimSentinel(p) \/ PersistPin(p)
    PROVE  OpInv'
<1> USE DEF OpInv
<1>k. \A k \in Keys : accessKey[k].state \in {"none", "unused", "used", "expired"}
  BY KeyStates
<1>u. /\ UnchangedClaims /\ UNCHANGED <<accessKey, opFailures, firstAdmins, keyGrants, unclear>>
  BY DEF CheckNoAdmin, ClaimSentinel, PersistPin
<1>1. ASSUME NEW u \in Users, NEW b \in BOOLEAN, CheckNoAdmin(p, u, b) PROVE OpInv'
  <2> DEFINE s == [pc |-> "claim", user |-> u, pin |-> b]
  <2>1. s \in OpCallStates /\ s.pc = "claim" /\ OpGo(p, s) /\ opCall[p].pc = "idle"
    BY <1>1 DEF OpCallStates, CheckNoAdmin, OpIdle
  <2> HIDE DEF s
  <2>2. /\ opCall' \in [OpCalls -> OpCallStates] /\ opCall'[p] = s
        /\ \A r \in OpCalls : r # p => opCall'[r] = opCall[r]
    BY <2>1, OpGoes
  <2>3. OpTypeOK'
    BY <1>1, <1>u, <2>2 DEF CheckNoAdmin, UnchangedClaims, OpTypeOK
  <2>4. OneHolder' /\ OneFirstAdmin'
    BY <1>1, <1>u, <2>1, <2>2, HolderKeeps DEF CheckNoAdmin, Holding
  <2>5. OneRedeemer' /\ OneKeyGrant'
    BY <1>k, <1>u, <2>1, <2>2, RedeemerKeeps
  <2>6. BootstrapUnderWay' /\ RolesCurrent'
    BY <1>1, <1>u, <2>1, <2>2, BootstrapKeeps, UnchangedClaimsKeep
       DEF CheckNoAdmin, UnchangedClaims
  <2> QED BY <2>3, <2>4, <2>5, <2>6
<1>2. CASE ClaimSentinel(p)
  <2> DEFINE s == IF sentinel THEN OpIdle ELSE [opCall[p] EXCEPT !.pc = "promote"]
  <2>1. opCall[p].pc = "claim" /\ sentinel' = TRUE /\ pin' = pin
    BY <1>2 DEF ClaimSentinel
  <2>2. /\ s \in OpCallStates /\ OpGo(p, s)
        /\ s.pc = IF sentinel THEN "idle" ELSE "promote"
    <3>1. s \in OpCallStates /\ s.pc = IF sentinel THEN "idle" ELSE "promote"
      BY <2>1, OpCallGoesOn DEF Holding
    <3> QED BY <1>2, <3>1 DEF ClaimSentinel
  <2> HIDE DEF s
  <2>3. /\ opCall' \in [OpCalls -> OpCallStates] /\ opCall'[p] = s
        /\ \A r \in OpCalls : r # p => opCall'[r] = opCall[r]
    BY <2>2, OpGoes
  <2>4. OpTypeOK'
    BY <1>u, <2>1, <2>3 DEF UnchangedClaims, OpTypeOK
  <2>5. OneHolder'
    BY <2>1, <2>2, <2>3 DEF OneHolder, Holding
  <2>6. OneFirstAdmin'
    BY <1>u, <2>1, <2>2, <2>3 DEF OneFirstAdmin
  <2>7. OneRedeemer' /\ OneKeyGrant'
    BY <1>k, <1>u, <2>1, <2>2, <2>3, RedeemerKeeps
  <2>8. RolesCurrent' /\ hasAnyAdminUser' = hasAnyAdminUser
    BY <1>u, <2>2, <2>3, UnchangedClaimsKeep
  <2>9. BootstrapUnderWay'
    BY <1>u, <2>1, <2>2, <2>3, <2>8 DEF BootstrapUnderWay, UnchangedClaims
  <2> QED BY <2>4, <2>5, <2>6, <2>7, <2>8, <2>9
<1>3. CASE PersistPin(p)
  <2>1. opCall[p].pc = "pin" /\ pin' = TRUE /\ sentinel' = sentinel
    BY <1>3 DEF PersistPin
  <2>2. OpIdle \in OpCallStates /\ OpIdle.pc = "idle" /\ OpGo(p, OpIdle)
    BY <1>3, OpCallGoesOn DEF PersistPin
  <2>3. /\ opCall' \in [OpCalls -> OpCallStates] /\ opCall'[p] = OpIdle
        /\ \A r \in OpCalls : r # p => opCall'[r] = opCall[r]
    BY <2>2, OpGoes
  <2>4. OpTypeOK'
    BY <1>u, <2>1, <2>3 DEF UnchangedClaims, OpTypeOK
  <2>5. OneHolder' /\ OneFirstAdmin'
    BY <1>u, <2>1, <2>2, <2>3, HolderKeeps DEF Holding
  <2>6. OneRedeemer' /\ OneKeyGrant'
    BY <1>k, <1>u, <2>2, <2>3, RedeemerKeeps
  <2>7. BootstrapUnderWay' /\ RolesCurrent'
    BY <1>u, <2>1, <2>2, <2>3, BootstrapKeeps, UnchangedClaimsKeep DEF UnchangedClaims
  <2> QED BY <2>4, <2>5, <2>6, <2>7
<1> QED BY <1>1, <1>2, <1>3

\* The promotion and its rollback; only the holder of the sentinel is about it.
LEMMA BootstrapEnds ==
    ASSUME OpInv, NEW p \in OpCalls,
           Promote(p) \/ BootstrapFails(p) \/ Demote(p) \/ ReleaseSentinel(p)
    PROVE  OpInv'
<1> USE DEF OpInv
<1>k. \A k \in Keys : accessKey[k].state \in {"none", "unused", "used", "expired"}
  BY KeyStates
<1>0. opCall[p].pc \in Holding
  BY DEF Promote, BootstrapFails, Demote, ReleaseSentinel, Holding
<1>1. PICK u \in Users : u = opCall[p].user
  BY <1>0, OpCallIs DEF Holding
<1>2. sentinel /\ \A q \in OpCalls : opCall[q].pc \in Holding => q = p
  BY <1>0 DEF OneHolder
<1>3. \A pc \in Holding : /\ [opCall[p] EXCEPT !.pc = pc] \in OpCallStates
                          /\ [opCall[p] EXCEPT !.pc = pc].pc = pc
                          /\ [opCall[p] EXCEPT !.pc = pc].user = u
  BY <1>0, <1>1, OpCallGoesOn DEF Holding
<1>4. OpIdle \in OpCallStates /\ OpIdle.pc = "idle"
  BY OpCallGoesOn
<1>5. "admin" \in Roles
  BY DEF Roles
<1>6. UNCHANGED <<accessKey, pin, keyGrants>> /\ opFailures' \in 0..MaxOpFailures
  BY OpFailTyped DEF Promote, BootstrapFails, Demote, ReleaseSentinel, OpTypeOK
\* Where the bootstrap goes, with whom, and whom it leaves an administrator.
<1>7. PICK s \in OpCallStates :
         /\ OpGo(p, s)
         /\ s.pc \in Holding => s.user = u /\ sentinel' = sentinel
         /\ \/ /\ Promote(p) /\ s.pc \in {"pin", "idle"} /\ sentinel' = sentinel
            \/ /\ BootstrapFails(p) /\ s.pc = "demote"
            \/ /\ Demote(p) /\ s.pc = "release"
            \/ /\ ReleaseSentinel(p) /\ s.pc = "idle" /\ sentinel' = FALSE
  <2>1. CASE Promote(p)
    <3> DEFINE s == IF opCall[p].pin THEN [opCall[p] EXCEPT !.pc = "pin"] ELSE OpIdle
    <3>1. OpGo(p, s) /\ sentinel' = sentinel
      BY <2>1 DEF Promote
    <3>2. /\ s \in OpCallStates /\ s.pc \in {"pin", "idle"}
          /\ s.pc \in Holding => s.user = u
      BY <1>3, <1>4 DEF Holding
    <3> HIDE DEF s
    <3> QED BY <2>1, <3>1, <3>2
  <2>2. CASE BootstrapFails(p)
    <3> DEFINE s == [opCall[p] EXCEPT !.pc = "demote"]
    <3>1. OpGo(p, s) /\ sentinel' = sentinel
      BY <2>2 DEF BootstrapFails
    <3>2. s \in OpCallStates /\ s.pc = "demote" /\ s.user = u
      BY <1>3 DEF Holding
    <3> HIDE DEF s
    <3> QED BY <2>2, <3>1, <3>2
  <2>3. CASE Demote(p)
    <3> DEFINE s == [opCall[p] EXCEPT !.pc = "release"]
    <3>1. OpGo(p, s) /\ sentinel' = sentinel
      BY <2>3 DEF Demote
    <3>2. s \in OpCallStates /\ s.pc = "release" /\ s.user = u
      BY <1>3 DEF Holding
    <3> HIDE DEF s
    <3> QED BY <2>3, <3>1, <3>2
  <2>4. CASE ReleaseSentinel(p)
    BY <1>4, <2>4 DEF ReleaseSentinel, Holding
  <2> QED BY <2>1, <2>2, <2>3, <2>4
<1>8. /\ opCall' \in [OpCalls -> OpCallStates] /\ opCall'[p] = s
      /\ \A r \in OpCalls : r # p => opCall'[r] = opCall[r]
  BY <1>7, OpGoes
<1>9. /\ claims' \in [Users -> Claims] /\ assigned' \in [Users -> Roles] /\ lost' \in BOOLEAN
      /\ overwritable' \subseteq Users /\ RolesCurrent' /\ (lost => lost')
      /\ Promote(p) => hasAnyAdminUser'
  <2>0. \A q \in OpCalls : opCall'[q] = opCall[q] \/ opCall'[q].pc # "merge"
    BY <1>7, <1>8
  <2>1. CASE UnchangedClaims /\ ~Promote(p)
    BY <2>0, <2>1, UnchangedClaimsKeep DEF UnchangedClaims, OpTypeOK
  <2>2. CASE Assign(u, "admin")
    BY <1>5, <2>0, <2>2, Assigned
  <2>3. CASE SetClaims(u, "none") /\ lost' = lost /\ ~Promote(p)
    <3>1. "none" \in Roles
      BY DEF Roles
    <3> QED BY <2>0, <2>3, <3>1, ClaimsSet DEF OpTypeOK
  <2>4. \/ UnchangedClaims /\ ~Promote(p)
        \/ Assign(u, "admin")
        \/ SetClaims(u, "none") /\ lost' = lost /\ ~Promote(p)
    BY <1>1 DEF Promote, BootstrapFails, Demote, ReleaseSentinel
  <2> QED BY <2>1, <2>2, <2>3, <2>4
<1>10. /\ firstAdmins' \subseteq Users /\ unclear' \in BOOLEAN /\ (unclear => unclear')
       /\ sentinel' \in BOOLEAN
  <2>1. firstAdmins' \subseteq Users
    BY <1>1 DEF Promote, BootstrapFails, Demote, ReleaseSentinel, OpTypeOK
  <2>2. unclear' = unclear \/ unclear' = TRUE
    BY DEF Promote, BootstrapFails, Demote, ReleaseSentinel
  <2>3. unclear' \in BOOLEAN /\ (unclear => unclear')
    BY <2>2 DEF OpTypeOK
  <2>4. sentinel' = sentinel \/ sentinel' = FALSE
    BY DEF Promote, BootstrapFails, Demote, ReleaseSentinel
  <2>5. sentinel' \in BOOLEAN
    BY <2>4 DEF OpTypeOK
  <2> QED BY <2>1, <2>3, <2>5
<1>11. OpTypeOK'
  BY <1>6, <1>8, <1>9, <1>10 DEF OpTypeOK
<1>12. OneHolder'
  BY <1>2, <1>7, <1>8 DEF OneHolder
<1>13. OneFirstAdmin'
  <2> SUFFICES ASSUME ~unclear' PROVE OneFirstAdmin'
    BY DEF OneFirstAdmin
  <2>1. ~unclear
    BY <1>10
  <2>2. \A r \in OpCalls : opCall'[r].pc \in Holding => r = p
    BY <1>2, <1>8
  <2>3. /\ opCall[p].pc \in {"promote", "release"} => firstAdmins = {}
        /\ opCall[p].pc \in {"pin", "demote"} => firstAdmins \subseteq {u}
    BY <1>1, <2>1 DEF OneFirstAdmin
  <2>4. CASE Promote(p) /\ s.pc \in {"pin", "idle"} /\ sentinel' = sentinel
    <3>1. firstAdmins' = {u}
      BY <1>1, <2>3, <2>4 DEF Promote
    <3> QED BY <1>2, <1>7, <1>8, <2>2, <2>4, <3>1 DEF OneFirstAdmin, Holding
  <2>5. CASE BootstrapFails(p) /\ s.pc = "demote"
    <3>1. firstAdmins' \subseteq {u}
      BY <1>1, <2>3, <2>5 DEF BootstrapFails
    <3>2. sentinel'
      BY <1>2, <2>5 DEF BootstrapFails
    <3> QED BY <1>7, <1>8, <2>2, <2>5, <3>1, <3>2 DEF OneFirstAdmin, Holding
  <2>6. CASE Demote(p) /\ s.pc = "release"
    <3>1. firstAdmins' = {}
      <4>1. \/ firstAdmins' = firstAdmins \ {u}
            \/ unclear' = TRUE
        BY <1>1, <2>6 DEF Demote
      <4>2. opCall[p].pc = "demote"
        BY <2>6 DEF Demote
      <4> QED BY <2>3, <4>1, <4>2
    <3> QED BY <1>8, <2>2, <2>6, <3>1 DEF OneFirstAdmin, Holding
  <2>7. CASE ReleaseSentinel(p) /\ s.pc = "idle"
    <3>1. firstAdmins' = {}
      BY <2>3, <2>7 DEF ReleaseSentinel
    <3> QED BY <1>8, <2>2, <2>7, <3>1 DEF OneFirstAdmin, Holding
  <2> QED BY <1>7, <2>4, <2>5, <2>6, <2>7
<1>14. OneRedeemer' /\ OneKeyGrant'
  BY <1>k, <1>6, <1>7, <1>8, <1>10, RedeemerKeeps
<1>15. BootstrapUnderWay'
  <2>1. opCall[p].pc # "merge" /\ s.pc # "merge"
    BY <1>0, <1>7 DEF Holding
  <2>2. CASE s.pc \in {"demote", "release"}
    BY <1>8, <2>1, <2>2 DEF BootstrapUnderWay
  <2>3. CASE Promote(p) \/ ReleaseSentinel(p)
    <3>1. hasAnyAdminUser' \/ ~sentinel'
      BY <1>9, <2>3 DEF ReleaseSentinel
    <3> QED BY <1>8, <2>1, <3>1 DEF BootstrapUnderWay
  <2> QED BY <1>7, <2>2, <2>3
<1> QED BY <1>9, <1>11, <1>12, <1>13, <1>14, <1>15

-----------------------------------------------------------------------------
(* Operators: what administrators do.                                      *)

\* A step that takes neither part in a bootstrap nor redeems a key.
LEMMA AdminKeeps ==
    ASSUME OpInv, OpTypeOK', RolesCurrent',
           UNCHANGED <<sentinel, firstAdmins, keyGrants, unclear>>,
           \A k \in Keys : \/ accessKey'[k].state = "expired"
                           \/ accessKey'[k].state = accessKey[k].state,
           \A q \in OpCalls : \/ opCall'[q] = opCall[q]
                              \/ /\ opCall'[q].pc \notin Holding \cup {"grant", "return"}
                                 /\ opCall'[q].pc = "merge" => opCall'[q].read.role = "admin"
                                 /\ opCall[q].pc \notin Holding \/ lost',
           lost => lost', hasAnyAdminUser => lost' \/ hasAnyAdminUser'
    PROVE  OpInv'
<1>1. \A k \in Keys : accessKey[k].state \in {"none", "unused", "used", "expired"}
  BY KeyStates DEF OpInv
<1>2. OneHolder' /\ OneFirstAdmin'
  BY HolderKeeps DEF OpInv
<1>3. OneRedeemer' /\ OneKeyGrant'
  BY <1>1, RedeemerKeeps DEF OpInv
<1>4. BootstrapUnderWay'
  <2>1. \A q \in OpCalls : opCall'[q].pc = "merge" => opCall'[q].read.role = "admin"
    BY DEF OpInv, BootstrapUnderWay
  <2>2. sentinel' /\ ~hasAnyAdminUser' /\ ~lost' =>
           \E q \in OpCalls : opCall'[q].pc \in {"promote", "demote", "release"}
    BY DEF OpInv, BootstrapUnderWay, Holding
  <2> QED BY <2>1, <2>2 DEF BootstrapUnderWay
<1> QED BY <1>2, <1>3, <1>4 DEF OpInv

LEMMA AdminStep ==
    ASSUME OpInv,
           \/ \E u \in Users, role \in Granted : SetUserRole(u, role)
           \/ \E u \in Users : EnsureMasterClaims(u)
           \/ SetOperatorAdminPin
           \/ \E q \in OpCalls, u \in Users : \/ VerifyAdminPin(q, u) \/ DeleteUser(q, u)
                                              \/ \E b \in BOOLEAN : ListOperators(q, u, b)
           \/ \E q \in OpCalls : \/ MergeOperatorCustomClaims(q)
                                 \/ DeleteAllOperatorAccessKeys(q) \/ UsersDeleted(q) \/ OpDie(q)
    PROVE  OpInv'
<1> USE DEF OpInv
<1>h. {"idle", "merge", "keys", "delete"} \cap (Holding \cup {"grant", "return"}) = {}
  BY DEF Holding
<1>1. ASSUME NEW u \in Users, NEW role \in Roles, Assign(u, role),
             UNCHANGED <<accessKey, sentinel, pin, opCall, opFailures, firstAdmins, keyGrants,
                         unclear>>
      PROVE  OpInv'
  <2>1. /\ claims' \in [Users -> Claims] /\ assigned' \in [Users -> Roles] /\ lost' \in BOOLEAN
        /\ overwritable' \subseteq Users /\ RolesCurrent' /\ (lost => lost')
        /\ hasAnyAdminUser => lost' \/ hasAnyAdminUser'
    BY <1>1, Assigned
  <2>2. OpTypeOK'
    BY <1>1, <2>1 DEF OpTypeOK
  <2> QED BY <1>1, <2>1, <2>2, AdminKeeps
<1>2. CASE SetOperatorAdminPin
  <2>1. OpTypeOK'
    BY <1>2 DEF SetOperatorAdminPin, UnchangedClaims, OpTypeOK
  <2>2. RolesCurrent' /\ hasAnyAdminUser' = hasAnyAdminUser /\ lost' = lost
    BY <1>2, UnchangedClaimsKeep DEF SetOperatorAdminPin, UnchangedClaims
  <2> QED BY <1>2, <2>1, <2>2, AdminKeeps DEF SetOperatorAdminPin
<1>3. ASSUME NEW q \in OpCalls, NEW u \in Users, VerifyAdminPin(q, u) PROVE OpInv'
  <2> DEFINE s == [pc |-> "merge", user |-> u, read |-> claims[u]]
  <2>1. /\ s \in OpCallStates /\ s.pc = "merge" /\ s.read.role = "admin" /\ OpGo(q, s)
        /\ opCall[q].pc = "idle"
    BY <1>3 DEF VerifyAdminPin, IsAdmin, OpCallStates, OpIdle, OpTypeOK
  <2> HIDE DEF s
  <2>2. /\ opCall' \in [OpCalls -> OpCallStates] /\ opCall'[q] = s
        /\ \A r \in OpCalls : r # q => opCall'[r] = opCall[r]
    BY <2>1, OpGoes
  <2>3. RolesCurrent' /\ hasAnyAdminUser' = hasAnyAdminUser /\ lost' = lost
    <3>1. UnchangedClaims /\ s.read = claims[u] /\ s.user = u
      BY <1>3 DEF VerifyAdminPin, s
    <3>2. RoleIsAssigned' /\ hasAnyAdminUser' = hasAnyAdminUser /\ lost' = lost
      BY <3>1 DEF UnchangedClaims, RolesCurrent, RoleIsAssigned, hasAnyAdminUser, IsAdmin
    <3>3. ReadIsCurrent'
      BY <2>2, <3>1 DEF UnchangedClaims, RolesCurrent, ReadIsCurrent
    <3> QED BY <3>2, <3>3 DEF RolesCurrent
  <2>4. OpTypeOK'
    BY <1>3, <2>2 DEF VerifyAdminPin, UnchangedClaims, OpTypeOK
  <2> QED BY <1>h, <1>3, <2>1, <2>2, <2>3, <2>4, AdminKeeps DEF VerifyAdminPin, Holding
<1>4. ASSUME NEW q \in OpCalls, NEW u \in Users, NEW b \in BOOLEAN, ListOperators(q, u, b)
      PROVE  OpInv'
  <2> DEFINE s == [pc |-> IF b THEN "delete" ELSE "keys", all |-> b,
                   todo |-> IF b THEN Users ELSE {v \in Users : claims[v].role # "none"}]
  <2>1. /\ s \in OpCallStates /\ s.pc \in {"delete", "keys"} /\ OpGo(q, s)
        /\ opCall[q].pc = "idle"
    BY <1>4 DEF ListOperators, OpCallStates, OpIdle
  <2> HIDE DEF s
  <2>2. /\ opCall' \in [OpCalls -> OpCallStates] /\ opCall'[q] = s
        /\ \A r \in OpCalls : r # q => opCall'[r] = opCall[r]
    BY <2>1, OpGoes
  <2>3. RolesCurrent' /\ hasAnyAdminUser' = hasAnyAdminUser /\ lost' = lost
    BY <1>4, <2>1, <2>2, UnchangedClaimsKeep DEF ListOperators, UnchangedClaims
  <2>4. OpTypeOK'
    BY <1>4, <2>2 DEF ListOperators, UnchangedClaims, OpTypeOK
  <2> QED BY <1>h, <1>4, <2>1, <2>2, <2>3, <2>4, AdminKeeps DEF ListOperators, Holding
<1>5. ASSUME NEW q \in OpCalls, MergeOperatorCustomClaims(q) PROVE OpInv'
  <2>1. /\ opCall[q].pc = "merge" /\ opCall[q].read \in Claims /\ opCall[q].user \in Users
        /\ opCall[q].read.role = "admin"
    BY <1>5, OpCallIs DEF MergeOperatorCustomClaims, BootstrapUnderWay
  <2>2. PICK u \in Users : u = opCall[q].user
    BY <2>1
  <2>3. /\ OpIdle \in OpCallStates /\ OpIdle.pc = "idle" /\ OpGo(q, OpIdle)
    BY <1>5, OpCallGoesOn DEF MergeOperatorCustomClaims
  <2>4. /\ opCall' \in [OpCalls -> OpCallStates] /\ opCall'[q] = OpIdle
        /\ \A r \in OpCalls : r # q => opCall'[r] = opCall[r]
    BY <2>3, OpGoes
  <2>5. Merged(opCall[q].read) \in Claims /\ Merged(opCall[q].read).role = "admin"
    BY <2>1 DEF Merged, Claims
  <2>6. /\ claims' \in [Users -> Claims] /\ claims'[u].role = "admin"
        /\ \A v \in Users : v # u => claims'[v] = claims[v]
        /\ UNCHANGED <<assigned, overwritable, lost>>
    BY <1>5, <2>2, <2>5 DEF MergeOperatorCustomClaims, OpTypeOK
  \* Unless the role was assigned since, it is the one that was read.
  <2>7. \A v \in Users : v \notin overwritable => claims'[v].role = claims[v].role
    BY <2>1, <2>2, <2>6 DEF RolesCurrent, ReadIsCurrent
  <2>9. RoleIsAssigned'
    BY <2>6, <2>7 DEF RolesCurrent, RoleIsAssigned
  <2>10. ReadIsCurrent'
    <3> SUFFICES ASSUME NEW r \in OpCalls, opCall'[r].pc = "merge",
                        opCall'[r].user \notin overwritable
                 PROVE  opCall'[r].read.role = claims'[opCall'[r].user].role
      BY <2>6 DEF ReadIsCurrent
    <3>1. opCall'[r] = opCall[r] /\ opCall[r].user \in Users
      BY <2>3, <2>4, OpCallIs
    <3> QED BY <2>7, <3>1 DEF RolesCurrent, ReadIsCurrent
  <2>11. RolesCurrent' /\ hasAnyAdminUser' /\ lost' = lost
    BY <2>6, <2>9, <2>10 DEF RolesCurrent, hasAnyAdminUser, IsAdmin
  <2>8. OpTypeOK'
    BY <1>5, <2>4, <2>6 DEF MergeOperatorCustomClaims, OpTypeOK
  <2> QED BY <1>h, <1>5, <2>1, <2>3, <2>4, <2>8, <2>11, AdminKeeps
          DEF MergeOperatorCustomClaims, Holding
<1>6. ASSUME NEW q \in OpCalls, DeleteAllOperatorAccessKeys(q) PROVE OpInv'
  <2>1. opCall[q].pc = "keys"
    BY <1>6 DEF DeleteAllOperatorAccessKeys
  <2>2. PICK s \in OpCallStates : OpGo(q, s) /\ s.pc \in {"idle", "delete"}
    <3> DEFINE s == IF opCall[q].all THEN OpIdle ELSE [opCall[q] EXCEPT !.pc = "delete"]
    <3>1. s \in OpCallStates /\ s.pc \in {"idle", "delete"}
      BY <2>1, OpCallGoesOn
    <3>2. OpGo(q, s)
      BY <1>6 DEF DeleteAllOperatorAccessKeys
    <3> HIDE DEF s
    <3> QED BY <3>1, <3>2
  <2>3. /\ opCall' \in [OpCalls -> OpCallStates] /\ opCall'[q] = s
        /\ \A r \in OpCalls : r # q => opCall'[r] = opCall[r]
    BY <2>2, OpGoes
  <2>4. RolesCurrent' /\ hasAnyAdminUser' = hasAnyAdminUser /\ lost' = lost
    BY <1>6, <2>2, <2>3, UnchangedClaimsKeep DEF DeleteAllOperatorAccessKeys, UnchangedClaims
  <2>5. /\ accessKey' \in [Keys -> KeyDocs]
        /\ \A k \in Keys : \/ accessKey'[k].state = "expired"
                           \/ accessKey'[k].state = accessKey[k].state
    <3>1. \A k \in Keys : accessKey'[k] = [accessKey[k] EXCEPT !.state =
                                IF accessKey[k].state = "none" THEN "none" ELSE "expired"]
      BY <1>6 DEF DeleteAllOperatorAccessKeys
    <3>2. \A k \in Keys : accessKey[k] \in KeyDocs
      BY DEF OpTypeOK
    <3>3. \A k \in Keys : /\ accessKey'[k] \in KeyDocs
                          /\ \/ accessKey'[k].state = "expired"
                             \/ accessKey'[k].state = accessKey[k].state
      BY <3>1, <3>2 DEF KeyDocs
    <3>4. accessKey' = [k \in Keys |-> accessKey'[k]]
      BY <1>6 DEF DeleteAllOperatorAccessKeys
    <3> QED BY <3>3, <3>4
  <2>6. OpTypeOK'
    BY <1>6, <2>3, <2>5 DEF DeleteAllOperatorAccessKeys, UnchangedClaims, OpTypeOK
  <2> QED BY <1>h, <1>6, <2>1, <2>2, <2>3, <2>4, <2>5, <2>6, AdminKeeps
          DEF DeleteAllOperatorAccessKeys, Holding
<1>7. ASSUME NEW q \in OpCalls, NEW u \in Users, DeleteUser(q, u) PROVE OpInv'
  <2>1. opCall[q].pc = "delete"
    BY <1>7 DEF DeleteUser
  <2>2. PICK s \in OpCallStates : OpGo(q, s) /\ s.pc = "delete"
    <3> DEFINE s == [opCall[q] EXCEPT !.todo = @ \ {u}]
    <3>1. opCall[q] \in [pc : {"keys", "delete"}, todo : SUBSET Users, all : BOOLEAN]
      BY <2>1 DEF OpTypeOK, OpCallStates, OpIdle
    <3>2. s \in [pc : {"keys", "delete"}, todo : SUBSET Users, all : BOOLEAN] /\ s.pc = "delete"
      BY <2>1, <3>1
    <3>3. OpGo(q, s)
      BY <1>7 DEF DeleteUser
    <3> HIDE DEF s
    <3> QED BY <3>2, <3>3 DEF OpCallStates
  <2>3. /\ opCall' \in [OpCalls -> OpCallStates] /\ opCall'[q] = s
        /\ \A r \in OpCalls : r # q => opCall'[r] = opCall[r]
    BY <2>2, OpGoes
  <2>4. /\ claims' \in [Users -> Claims] /\ assigned' \in [Users -> Roles] /\ lost' \in BOOLEAN
        /\ overwritable' \subseteq Users /\ RolesCurrent' /\ (lost => lost')
        /\ hasAnyAdminUser => lost' \/ hasAnyAdminUser'
    <3>1. CASE UnchangedClaims
      BY <2>2, <2>3, <3>1, UnchangedClaimsKeep DEF UnchangedClaims, OpTypeOK
    <3>2. CASE Assign(u, "none")
      BY <2>2, <2>3, <3>2, Assigned DEF Roles
    <3> QED BY <1>7, <3>1, <3>2 DEF DeleteUser
  <2>5. opFailures' \in 0..MaxOpFailures
    BY <1>7, OpFailTyped DEF DeleteUser, OpTypeOK
  <2>6. OpTypeOK'
    BY <1>7, <2>3, <2>4, <2>5 DEF DeleteUser, OpTypeOK
  <2> QED BY <1>h, <1>7, <2>1, <2>2, <2>3, <2>4, <2>6, AdminKeeps DEF DeleteUser, Holding
<1>8. ASSUME NEW q \in OpCalls, UsersDeleted(q) PROVE OpInv'
  <2>1. opCall[q].pc = "delete"
    BY <1>8 DEF UsersDeleted
  <2>2. PICK s \in OpCallStates : OpGo(q, s) /\ s.pc \in {"idle", "keys"}
    <3> DEFINE s == IF opCall[q].all THEN [opCall[q] EXCEPT !.pc = "keys"] ELSE OpIdle
    <3>1. s \in OpCallStates /\ s.pc \in {"idle", "keys"}
      BY <2>1, OpCallGoesOn
    <3>2. OpGo(q, s)
      BY <1>8 DEF UsersDeleted
    <3> HIDE DEF s
    <3> QED BY <3>1, <3>2
  <2>3. /\ opCall' \in [OpCalls -> OpCallStates] /\ opCall'[q] = s
        /\ \A r \in OpCalls : r # q => opCall'[r] = opCall[r]
    BY <2>2, OpGoes
  <2>4. RolesCurrent' /\ hasAnyAdminUser' = hasAnyAdminUser /\ lost' = lost
    BY <1>8, <2>2, <2>3, UnchangedClaimsKeep DEF UsersDeleted, UnchangedClaims
  <2>5. OpTypeOK'
    BY <1>8, <2>3 DEF UsersDeleted, UnchangedClaims, OpTypeOK
  <2> QED BY <1>h, <1>8, <2>1, <2>2, <2>3, <2>4, <2>5, AdminKeeps DEF UsersDeleted, Holding
<1>9. ASSUME NEW q \in OpCalls, OpDie(q) PROVE OpInv'
  <2>1. OpIdle \in OpCallStates /\ OpIdle.pc = "idle" /\ OpGo(q, OpIdle) /\ lost' = TRUE
    BY <1>9, OpCallGoesOn DEF OpDie
  <2>2. /\ opCall' \in [OpCalls -> OpCallStates] /\ opCall'[q] = OpIdle
        /\ \A r \in OpCalls : r # q => opCall'[r] = opCall[r]
    BY <2>1, OpGoes
  <2>3. opFailures' \in 0..MaxOpFailures
    BY <1>9, OpFailTyped DEF OpDie
  <2>4. OpTypeOK' /\ RolesCurrent'
    BY <1>9, <2>1, <2>2, <2>3 DEF OpDie, OpTypeOK, RolesCurrent, RoleIsAssigned, ReadIsCurrent
  <2> QED BY <1>h, <1>9, <2>1, <2>2, <2>4, AdminKeeps DEF OpDie
<1>10. ASSUME NEW u \in Users, NEW role \in Granted, SetUserRole(u, role) PROVE OpInv'
  BY <1>1, <1>10 DEF SetUserRole, Granted
<1>11. ASSUME NEW u \in Users, EnsureMasterClaims(u) PROVE OpInv'
  BY <1>1, <1>11 DEF EnsureMasterClaims, Roles
<1> QED BY <1>2, <1>3, <1>4, <1>5, <1>6, <1>7, <1>8, <1>9, <1>10, <1>11

LEMMA OpInvInit == OpInit => OpInv
<1> SUFFICES ASSUME OpInit PROVE OpInv OBVIOUS
<1>1. OpTypeOK
  <2>1. NoClaims \in Claims /\ [state |-> "none", role |-> "support"] \in KeyDocs
    BY DEF NoClaims, Claims, KeyDocs, Granted, Roles
  <2>2. OpIdle \in OpCallStates /\ 0 \in 0..MaxOpFailures /\ "none" \in Roles
    BY OperatorsAssumption DEF OpCallStates, Roles
  <2> QED BY <2>1, <2>2 DEF OpInit, OpTypeOK
<1>2. RoleIsAssigned
  BY DEF OpInit, RoleIsAssigned, NoClaims
<1>3. \A p \in OpCalls : opCall[p].pc = "idle"
  BY DEF OpInit, OpIdle
<1>4. /\ OneHolder /\ OneFirstAdmin /\ OneRedeemer /\ OneKeyGrant
      /\ BootstrapUnderWay /\ ReadIsCurrent
  BY <1>3 DEF OpInit, OneHolder, OneFirstAdmin, OneRedeemer, OneKeyGrant, BootstrapUnderWay,
              ReadIsCurrent, Redeeming, Holding
<1> QED BY <1>1, <1>2, <1>4 DEF OpInv, RolesCurrent

LEMMA OpInvStep == OpInv /\ [OpNext]_opVars => OpInv'
<1> SUFFICES ASSUME OpInv, [OpNext]_opVars PROVE OpInv' OBVIOUS
<1>1. CASE UNCHANGED opVars
  <2>1. UNCHANGED <<claims, accessKey, sentinel, pin, opCall, opFailures, assigned,
                    overwritable, firstAdmins, keyGrants, unclear, lost>>
    BY <1>1 DEF opVars
  <2>2. OpTypeOK' /\ RolesCurrent' /\ hasAnyAdminUser' = hasAnyAdminUser
    BY <2>1, UnchangedClaimsKeep DEF OpInv, OpTypeOK, UnchangedClaims
  <2> QED BY <2>1, <2>2, AdminKeeps
<1>2. CASE OpNext
  BY <1>2, KeyStep, GrantStep, BootstrapStarts, BootstrapEnds, AdminStep DEF OpNext
<1> QED BY <1>1, <1>2

\* However many callers bootstrap at once and redeem keys at once, and whatever
\* fails or dies on the way, one becomes the first administrator and a key gives
\* its role to one user, unless an undoing went wrong.
THEOREM OneGrantOfEach == OpSpec => []OneGrantEach
<1>1. OpInv => OneGrantEach
  <2> SUFFICES ASSUME OpInv, ~unclear PROVE OneGrantEach
    BY DEF OneGrantEach
  <2>1. \A S : (\A u, v \in S : u = v) => Cardinality(S) <= 1
    <3> SUFFICES ASSUME NEW S, \A u, v \in S : u = v PROVE Cardinality(S) <= 1
      OBVIOUS
    <3>1. CASE S = {}
      BY <3>1, FS_EmptySet
    <3>2. CASE S # {}
      <4>1. PICK x : S = {x}
        BY <3>2
      <4>2. Cardinality({x}) = 1
        BY FS_Singleton
      <4> QED BY <4>1, <4>2
    <3> QED BY <3>1, <3>2
  <2> QED BY <2>1 DEF OpInv, OneFirstAdmin, OneKeyGrant, OneGrantEach
<1> QED BY <1>1, OpInvInit, OpInvStep, PTL DEF OpSpec

\* While the sentinel is taken and nobody is administrator, a bootstrap is under
\* way, unless an invocation died or an administrator lost the role.
THEOREM BlockedOnlyByLoss == OpSpec => []BlockedOnlyAfterLoss
<1>1. OpInv => BlockedOnlyAfterLoss
  BY DEF OpInv, BootstrapUnderWay, BlockedOnlyAfterLoss
<1> QED BY <1>1, OpInvInit, OpInvStep, PTL DEF OpSpec

\* Only a verification of the PIN can restore a role over a newer one: a user to
\* whom nothing was assigned between its two steps has the role assigned last,
\* whatever calls, rollbacks, keys and resets overlap.
THEOREM RolesAssigned == OpSpec => [](OpTypeOK /\ RoleIsAssigned)
<1>1. OpInv => OpTypeOK /\ RoleIsAssigned
  BY DEF OpInv, RolesCurrent
<1> QED BY <1>1, OpInvInit, OpInvStep, PTL DEF OpSpec

-----------------------------------------------------------------------------
(* Registration.                                                           *)

\* A registration, web session or migration that goes on to a legal state.
LEMMA RegGoes ==
    ASSUME RegTypeOK, NEW p \in RegCalls, NEW s \in RegCallStates, RegGo(p, s)
    PROVE  /\ regCall' \in [RegCalls -> RegCallStates]
           /\ regCall'[p] = s
           /\ \A q \in RegCalls : q # p => regCall'[q] = regCall[q]
BY DEF RegTypeOK, RegGo

LEMMA RegCallIs ==
    ASSUME RegTypeOK, NEW p \in RegCalls
    PROVE  /\ regCall[p] = RegIdle => regCall[p].pc = "idle"
           /\ RegIdle \in RegCallStates /\ RegIdle.pc = "idle"
           /\ regCall[p].pc \in {"create", "family", "role"} =>
                \A pc \in {"family", "role"} :
                    /\ [regCall[p] EXCEPT !.pc = pc] \in RegCallStates
                    /\ [regCall[p] EXCEPT !.pc = pc].pc = pc
           /\ regCall[p].pc \in {"look", "copy"} =>
                /\ regCall[p].read \in AccountStates
                /\ [regCall[p] EXCEPT !.pc = "copy"] \in RegCallStates
                /\ [regCall[p] EXCEPT !.pc = "copy"].pc = "copy"
<1>1. regCall[p] \in RegCallStates
  BY DEF RegTypeOK
<1>2. ASSUME regCall[p].pc \in {"create", "family", "role"}, NEW pc \in {"family", "role"}
      PROVE  /\ [regCall[p] EXCEPT !.pc = pc] \in RegCallStates
             /\ [regCall[p] EXCEPT !.pc = pc].pc = pc
  <2> DEFINE S == [pc : {"create", "family", "role"}, flow : Flows \cup {"web"}]
  <2>1. regCall[p] \in S
    BY <1>1, <1>2 DEF RegCallStates, RegIdle
  <2>2. [regCall[p] EXCEPT !.pc = pc] \in S /\ [regCall[p] EXCEPT !.pc = pc].pc = pc
    BY <2>1
  <2> QED BY <2>2 DEF RegCallStates
<1>3. ASSUME regCall[p].pc \in {"look", "copy"}
      PROVE  /\ regCall[p].read \in AccountStates
             /\ [regCall[p] EXCEPT !.pc = "copy"] \in RegCallStates
             /\ [regCall[p] EXCEPT !.pc = "copy"].pc = "copy"
  <2> DEFINE S == [pc : {"look", "copy"}, read : AccountStates]
  <2>1. regCall[p] \in S
    BY <1>1, <1>3 DEF RegCallStates, RegIdle
  <2>2. [regCall[p] EXCEPT !.pc = "copy"] \in S /\ [regCall[p] EXCEPT !.pc = "copy"].pc = "copy"
    BY <2>1
  <2> QED BY <2>1, <2>2 DEF RegCallStates
<1> QED BY <1>2, <1>3 DEF RegIdle, RegCallStates

\* A step that neither looks for the document nor creates it, and takes nobody out
\* of a registration but by a death or when it gives the role.
LEMMA RegKeeps ==
    ASSUME RegInv, RegTypeOK',
           account # "none" => account' # "none",
           account' = account \/ (account = "trial_pending" /\ account' = "started"),
           paid' => paid \/ account' = "started",
           paid => paid', overlapped' = overlapped,
           \A w \in WebTokens : webToken'[w] # "none" => webToken[w] # "none" \/ account # "none",
           registered' => registered \/ account # "none",
           hasRole => hasRole',
           \A q \in RegCalls :
              \/ regCall'[q] = regCall[q]
              \/ /\ regCall'[q].pc # "create"
                 /\ regCall'[q].pc \in {"family", "role"} => account # "none"
                 /\ regCall[q].pc \in {"family", "role"} =>
                       \/ regCall'[q].pc \in {"family", "role"} \/ hasRole' \/ regDeaths' # 0,
           regDeaths' = 0 => regDeaths = 0
    PROVE  RegInv'
<1>1. AccountExists'
  BY DEF RegInv, AccountExists
<1>2. RoleUnderWay'
  <2>1. account' # "none" => account # "none"
    OBVIOUS
  <2> QED BY <2>1 DEF RegInv, RoleUnderWay
<1>3. OneCreates'
  <2> SUFFICES ASSUME ~overlapped PROVE OneCreates'
    BY DEF OneCreates
  <2>1. ASSUME NEW q \in RegCalls, regCall'[q].pc = "create"
        PROVE  account' = "none" /\ \A r \in RegCalls : regCall'[r].pc = "create" => r = q
    BY <2>1 DEF RegInv, OneCreates
  <2>2. paid' => account' = "started"
    BY DEF RegInv, OneCreates
  <2> QED BY <2>1, <2>2 DEF OneCreates
<1> QED BY <1>1, <1>2, <1>3 DEF RegInv

LEMMA RegInvStep == RegInv /\ [RegNext]_regVars => RegInv'
<1> SUFFICES ASSUME RegInv, [RegNext]_regVars PROVE RegInv' OBVIOUS
<1> USE DEF RegInv
<1>1. ASSUME NEW p \in RegCalls, NEW flow \in Flows, FindAccount(p, flow) PROVE RegInv'
  <2>0. regCall[p].pc = "idle"
    BY <1>1, RegCallIs DEF FindAccount
  <2>1. CASE account = "none"
    <3> DEFINE s == [pc |-> "create", flow |-> flow]
    <3>1. s \in RegCallStates /\ s.pc = "create" /\ RegGo(p, s)
      BY <1>1, <2>1 DEF FindAccount, RegCallStates
    <3> HIDE DEF s
    <3>2. /\ regCall' \in [RegCalls -> RegCallStates] /\ regCall'[p] = s
          /\ \A q \in RegCalls : q # p => regCall'[q] = regCall[q]
      BY <3>1, RegGoes
    <3>3. /\ UNCHANGED <<account, family, hasRole, webToken, regDeaths, registered, paid>>
          /\ overlapped' = (overlapped \/ \E q \in RegCalls : regCall[q].pc = "create")
      BY <1>1, <2>1 DEF FindAccount
    <3>4. RegTypeOK'
      BY <3>2, <3>3 DEF RegTypeOK
    <3>5. AccountExists' /\ RoleUnderWay'
      BY <2>0, <3>1, <3>2, <3>3 DEF AccountExists, RoleUnderWay
    <3>6. OneCreates'
      BY <2>0, <2>1, <3>1, <3>2, <3>3 DEF OneCreates
    <3> QED BY <3>4, <3>5, <3>6
  <2>2. CASE account # "none"
    <3> DEFINE s == IF flow = "modern" THEN RegIdle ELSE [pc |-> "role", flow |-> flow]
    <3>1. s \in RegCallStates /\ s.pc \in {"idle", "role"} /\ RegGo(p, s)
      BY <1>1, <2>2 DEF FindAccount, RegCallStates, RegIdle
    <3> HIDE DEF s
    <3>2. /\ regCall' \in [RegCalls -> RegCallStates] /\ regCall'[p] = s
          /\ \A q \in RegCalls : q # p => regCall'[q] = regCall[q]
      BY <3>1, RegGoes
    <3>3. /\ UNCHANGED <<account, family, hasRole, webToken, regDeaths, overlapped, paid>>
          /\ registered' = (registered \/ flow = "modern")
      BY <1>1, <2>2 DEF FindAccount
    <3>4. RegTypeOK'
      BY <3>2, <3>3 DEF RegTypeOK
    <3> QED BY <2>0, <2>2, <3>1, <3>2, <3>3, <3>4, RegKeeps
  <2> QED BY <2>1, <2>2
<1>2. ASSUME NEW p \in RegCalls, CreateAccount(p) PROVE RegInv'
  <2>0. regCall[p].pc = "create" /\ account' = "trial_pending"
    BY <1>2 DEF CreateAccount
  <2>1. PICK s \in RegCallStates : RegGo(p, s) /\ s.pc \in {"family", "role"}
    <3> DEFINE pc == IF regCall[p].flow = "modern" THEN "family" ELSE "role"
    <3>1. RegGo(p, [regCall[p] EXCEPT !.pc = pc])
      BY <1>2 DEF CreateAccount
    <3> QED BY <2>0, <3>1, RegCallIs
  <2>2. /\ regCall' \in [RegCalls -> RegCallStates] /\ regCall'[p] = s
        /\ \A q \in RegCalls : q # p => regCall'[q] = regCall[q]
    BY <2>1, RegGoes
  <2>3. UNCHANGED <<family, hasRole, webToken, regDeaths, registered, overlapped, paid>>
    BY <1>2 DEF CreateAccount
  <2>4. RegTypeOK'
    BY <2>0, <2>2, <2>3 DEF RegTypeOK, AccountStates
  <2>5. AccountExists' /\ RoleUnderWay'
    BY <2>0, <2>1, <2>2 DEF AccountExists, RoleUnderWay
  <2>6. OneCreates'
    BY <2>0, <2>1, <2>2, <2>3 DEF OneCreates
  <2> QED BY <2>4, <2>5, <2>6
<1>3. ASSUME NEW p \in RegCalls, DualWrite(p) PROVE RegInv'
  <2>0. regCall[p].pc = "family" /\ family' \in {"trial_pending", family}
    BY <1>3 DEF DualWrite
  <2>1. PICK s \in RegCallStates : RegGo(p, s) /\ s.pc = "role"
    BY <1>3, <2>0, RegCallIs DEF DualWrite
  <2>2. /\ regCall' \in [RegCalls -> RegCallStates] /\ regCall'[p] = s
        /\ \A q \in RegCalls : q # p => regCall'[q] = regCall[q]
    BY <2>1, RegGoes
  <2>3. RegTypeOK'
    BY <1>3, <2>0, <2>2 DEF DualWrite, RegTypeOK, AccountStates
  <2>4. account # "none"
    BY <2>0 DEF AccountExists
  <2> QED BY <1>3, <2>1, <2>2, <2>3, <2>4, RegKeeps DEF DualWrite
<1>4. ASSUME NEW p \in RegCalls, GiveRole(p) PROVE RegInv'
  <2>0. regCall[p].pc = "role" /\ hasRole' = TRUE /\ registered' \in BOOLEAN
    BY <1>4 DEF GiveRole, RegTypeOK
  <2>1. RegIdle \in RegCallStates /\ RegIdle.pc = "idle" /\ RegGo(p, RegIdle)
    BY <1>4, RegCallIs DEF GiveRole
  <2>2. /\ regCall' \in [RegCalls -> RegCallStates] /\ regCall'[p] = RegIdle
        /\ \A q \in RegCalls : q # p => regCall'[q] = regCall[q]
    BY <2>1, RegGoes
  <2>3. RegTypeOK'
    BY <1>4, <2>0, <2>2 DEF GiveRole, RegTypeOK
  <2>4. account # "none"
    BY <2>0 DEF AccountExists
  <2> QED BY <1>4, <2>0, <2>1, <2>2, <2>3, <2>4, RegKeeps DEF GiveRole
<1>5. ASSUME NEW w \in WebTokens, CreateMasterWebBootstrapToken(w) PROVE RegInv'
  <2>1. RegTypeOK'
    BY <1>5 DEF CreateMasterWebBootstrapToken, RegTypeOK
  <2> QED BY <1>5, <2>1, RegKeeps DEF CreateMasterWebBootstrapToken
<1>6. ASSUME NEW p \in RegCalls, NEW w \in WebTokens, RedeemMasterWebBootstrapToken(p, w)
      PROVE  RegInv'
  <2> DEFINE s == [pc |-> "role", flow |-> "web"]
  <2>1. s \in RegCallStates /\ s.pc = "role" /\ RegGo(p, s) /\ regCall[p].pc = "idle"
    BY <1>6, RegCallIs DEF RedeemMasterWebBootstrapToken, RegCallStates
  <2> HIDE DEF s
  <2>2. /\ regCall' \in [RegCalls -> RegCallStates] /\ regCall'[p] = s
        /\ \A q \in RegCalls : q # p => regCall'[q] = regCall[q]
    BY <2>1, RegGoes
  <2>3. RegTypeOK'
    BY <1>6, <2>2 DEF RedeemMasterWebBootstrapToken, RegTypeOK
  <2>4. account # "none"
    BY <1>6 DEF RedeemMasterWebBootstrapToken, AccountExists
  <2> QED BY <1>6, <2>1, <2>2, <2>3, <2>4, RegKeeps DEF RedeemMasterWebBootstrapToken
<1>7. CASE StartSubscription
  <2>1. RegTypeOK'
    BY <1>7 DEF StartSubscription, RegTypeOK, AccountStates
  <2> QED BY <1>7, <2>1, RegKeeps DEF StartSubscription
<1>8. ASSUME NEW p \in RegCalls, ReadMasters(p) \/ FindFamily(p) \/ CopyToFamily(p)
      PROVE  RegInv'
  <2>1. PICK s \in RegCallStates : RegGo(p, s) /\ s.pc \in {"idle", "look", "copy"}
    <3>1. CASE ReadMasters(p)
      <4> DEFINE s == [pc |-> "look", read |-> account]
      <4>1. s \in RegCallStates /\ s.pc = "look" /\ RegGo(p, s)
        BY <3>1 DEF ReadMasters, RegCallStates, RegTypeOK
      <4> HIDE DEF s
      <4> QED BY <4>1
    <3>2. CASE FindFamily(p)
      <4> DEFINE s == IF family = "none" THEN [regCall[p] EXCEPT !.pc = "copy"] ELSE RegIdle
      <4>1. s \in RegCallStates /\ s.pc \in {"idle", "copy"}
        BY <3>2, RegCallIs DEF FindFamily
      <4>2. RegGo(p, s)
        BY <3>2 DEF FindFamily
      <4> HIDE DEF s
      <4> QED BY <4>1, <4>2
    <3>3. CASE CopyToFamily(p)
      BY <3>3, RegCallIs DEF CopyToFamily
    <3> QED BY <1>8, <3>1, <3>2, <3>3
  <2>2. /\ regCall' \in [RegCalls -> RegCallStates] /\ regCall'[p] = s
        /\ \A q \in RegCalls : q # p => regCall'[q] = regCall[q]
    BY <2>1, RegGoes
  <2>3. regCall[p].pc \in {"idle", "look", "copy"} /\ family' \in AccountStates
    BY <1>8, RegCallIs DEF ReadMasters, FindFamily, CopyToFamily, RegTypeOK
  <2>4. UNCHANGED <<account, hasRole, webToken, regDeaths, registered, overlapped, paid>>
    BY <1>8 DEF ReadMasters, FindFamily, CopyToFamily
  <2>5. RegTypeOK'
    BY <2>2, <2>3, <2>4 DEF RegTypeOK
  <2> QED BY <2>1, <2>2, <2>3, <2>4, <2>5, RegKeeps
<1>9. ASSUME NEW p \in RegCalls, RegDie(p) PROVE RegInv'
  <2>1. RegIdle \in RegCallStates /\ RegIdle.pc = "idle" /\ RegGo(p, RegIdle)
    BY <1>9, RegCallIs DEF RegDie
  <2>2. /\ regCall' \in [RegCalls -> RegCallStates] /\ regCall'[p] = RegIdle
        /\ \A q \in RegCalls : q # p => regCall'[q] = regCall[q]
    BY <2>1, RegGoes
  <2>3. regDeaths' \in 0..MaxRegDeaths /\ regDeaths' # 0
    BY <1>9, RegistrationAssumption DEF RegDie, RegTypeOK
  <2>4. RegTypeOK'
    BY <1>9, <2>2, <2>3 DEF RegDie, RegTypeOK
  <2> QED BY <1>9, <2>1, <2>2, <2>3, <2>4, RegKeeps DEF RegDie
<1>10. CASE UNCHANGED regVars
  <2>1. RegTypeOK'
    BY <1>10 DEF regVars, RegTypeOK
  <2> QED BY <1>10, <2>1, RegKeeps DEF regVars
<1> QED BY <1>1, <1>2, <1>3, <1>4, <1>5, <1>6, <1>7, <1>8, <1>9, <1>10 DEF RegNext

\* Whatever registrations, web sessions and migrations overlap: who was registered
\* gets the role once they are over, unless one died, and a subscription that was
\* started is put back only when two registrations found no document.
THEOREM RegistrationsSettle == RegSpec => [](RegTypeOK /\ RegistrationSettles)
<1>1. RegInit => RegInv
  <2> SUFFICES ASSUME RegInit PROVE RegInv OBVIOUS
  <2>1. RegTypeOK
    <3>1. RegIdle \in RegCallStates /\ 0 \in 0..MaxRegDeaths
      BY RegistrationAssumption DEF RegCallStates
    <3> QED BY <3>1 DEF RegInit, RegTypeOK, AccountStates
  <2> QED BY <2>1 DEF RegInit, RegInv, AccountExists, RoleUnderWay, OneCreates, RegIdle
<1>2. RegInv => RegTypeOK /\ RegistrationSettles
  <2> SUFFICES ASSUME RegInv PROVE RegTypeOK /\ RegistrationSettles OBVIOUS
  <2>1. RoleGiven
    BY DEF RegInv, AccountExists, RoleUnderWay, RoleGiven, RegIdle
  <2>2. SubscriptionKept
    BY DEF RegInv, OneCreates, SubscriptionKept
  <2> QED BY <2>1, <2>2 DEF RegInv, RegistrationSettles
<1> QED BY <1>1, <1>2, RegInvStep, PTL DEF RegSpec

-----------------------------------------------------------------------------
(* Legal consents.                                                         *)

\* A set of numbers has a least one.
LEMMA SmallestExists ==
    ASSUME NEW S \in SUBSET Nat, S # {}
    PROVE  \E x \in S : \A y \in S : x <= y
<1> DEFINE R == {xy \in Nat \X Nat : xy[1] < xy[2]}
<1>1. IsWellFoundedOn(R, Nat)
  BY NatLessThanWellFounded DEF OpToRel
<1>2. \A x, y \in S : <<y, x>> \in R <=> y < x
  OBVIOUS
<1>3. \E x \in S : \A y \in S : ~ (<<y, x>> \in R)
  <2> HIDE DEF R
  <2> QED BY <1>1, WFMin
<1>4. PICK x \in S : \A y \in S : ~ (y < x)
  <2> HIDE DEF R
  <2> QED BY <1>2, <1>3
<1> QED BY <1>4

\* Whatever is published, and although nothing retires an older version, there is
\* a version in effect: an active one, or the default.
LEMMA EffectiveExists ==
    ASSUME LegalTypeOK
    PROVE  /\ EffectiveVersion \in 0..Versions
           /\ EffectiveVersion # DefaultVersion =>
                 \E l \in 1..Locales : legalPolicy[l][EffectiveVersion] = "active"
<1> DEFINE Lowest(S) == CHOOSE x \in S : \A y \in S : x <= y
           found == {l \in 1..Locales : ActiveIn(l) # {}}
<1>1. \A S \in SUBSET Nat : S # {} => Lowest(S) \in S
  BY SmallestExists
<1>2. CASE found = {}
  BY <1>2, LegalAssumption DEF EffectiveVersion, DefaultVersion
<1>3. CASE found # {}
  <2>1. found \in SUBSET Nat
    BY LegalAssumption
  <2>2. Lowest(found) \in found
    <3> HIDE DEF found, Lowest
    <3> QED BY <1>1, <1>3, <2>1
  <2>3. PICK l \in 1..Locales : l = Lowest(found) /\ ActiveIn(l) # {}
    BY <2>2
  <2>4. ActiveIn(l) \in SUBSET Nat
    BY LegalAssumption DEF ActiveIn
  <2>5. Lowest(ActiveIn(l)) \in ActiveIn(l)
    <3> HIDE DEF Lowest
    <3> QED BY <1>1, <2>3, <2>4
  <2>6. EffectiveVersion = Lowest(ActiveIn(l))
    BY <1>3, <2>3 DEF EffectiveVersion
  <2> QED BY <2>5, <2>6, LegalAssumption DEF ActiveIn
<1> QED BY <1>2, <1>3

LegalCallStates == {LegalIdle} \cup [pc : {"record"}, account : Accounts, version : 0..Versions,
                                     old : BOOLEAN]
                               \cup [pc : {"mark"}, todo : SUBSET Accounts]

LEMMA LegalCallIs ==
    ASSUME LegalTypeOK, NEW p \in LegalCalls
    PROVE  /\ legalCall[p] \in LegalCallStates
           /\ legalCall[p] = LegalIdle => legalCall[p].pc = "idle"
           /\ LegalIdle \in LegalCallStates /\ LegalIdle.pc = "idle"
           /\ legalCall[p].pc = "record" =>
                legalCall[p] \in [pc : {"record"}, account : Accounts, version : 0..Versions,
                                  old : BOOLEAN]
           /\ legalCall[p].pc = "mark" => legalCall[p].todo \in SUBSET Accounts
BY DEF LegalTypeOK, LegalCallStates, LegalIdle

LEMMA LegalGoes ==
    ASSUME LegalTypeOK, NEW p \in LegalCalls, NEW s \in LegalCallStates, LegalGo(p, s)
    PROVE  /\ legalCall' \in [LegalCalls -> LegalCallStates]
           /\ legalCall'[p] = s
           /\ \A q \in LegalCalls : q # p => legalCall'[q] = legalCall[q]
BY DEF LegalTypeOK, LegalGo, LegalCallStates

LEMMA LegalInvStep == LegalInv /\ [LegalNext]_legalVars => LegalInv'
<1> SUFFICES ASSUME LegalInv, [LegalNext]_legalVars PROVE LegalInv' OBVIOUS
<1> USE DEF LegalInv
<1>1. ASSUME NEW l \in 1..Locales, NEW v \in 1..Versions, NEW status \in PolicyStatuses \ {"none"},
             PublishLegalPolicy(l, v, status)
      PROVE  LegalInv'
  <2>1. legalPolicy' \in [1..Locales -> [1..Versions -> PolicyStatuses]]
    <3>1. legalPolicy' = [legalPolicy EXCEPT ![l] = [legalPolicy[l] EXCEPT ![v] = status]]
      BY <1>1 DEF PublishLegalPolicy
    <3> QED BY <3>1 DEF LegalTypeOK
  <2>2. LegalTypeOK'
    BY <1>1, <2>1 DEF PublishLegalPolicy, LegalTypeOK
  <2> QED BY <1>1, <2>2 DEF PublishLegalPolicy, MarkedOrToMark
<1>2. ASSUME NEW m \in Accounts, DemandOne(m) PROVE LegalInv'
  <2>1. /\ consent' \in [Accounts -> Consents]
        /\ consent'[m].requiresReconsent = TRUE
        /\ \A n \in Accounts : n # m => consent'[n] = consent[n]
    <3>1. consent' = [consent EXCEPT ![m] = [consent[m] EXCEPT !.exists = TRUE,
                                                              !.requiresReconsent = TRUE]]
      BY <1>2 DEF DemandOne
    <3>2. consent[m] \in Consents
      BY DEF LegalTypeOK
    <3>3. [consent[m] EXCEPT !.exists = TRUE, !.requiresReconsent = TRUE] \in Consents
      BY <3>2 DEF Consents
    <3>4. [consent[m] EXCEPT !.exists = TRUE, !.requiresReconsent = TRUE].requiresReconsent = TRUE
      BY <3>2 DEF Consents
    <3> QED BY <3>1, <3>3, <3>4 DEF LegalTypeOK
  <2>2. LegalTypeOK'
    BY <1>2, <2>1 DEF DemandOne, LegalTypeOK
  <2> QED BY <1>2, <2>1, <2>2 DEF DemandOne, MarkedOrToMark
<1>3. ASSUME NEW p \in LegalCalls, NEW m \in Accounts, CheckVersion(p, m) PROVE LegalInv'
  <2> DEFINE s == [pc |-> "record", account |-> m, version |-> EffectiveVersion, old |-> FALSE]
  <2>1. s \in LegalCallStates /\ s.pc = "record" /\ LegalGo(p, s) /\ legalCall[p].pc = "idle"
    BY <1>3, EffectiveExists, LegalCallIs DEF CheckVersion, LegalCallStates
  <2> HIDE DEF s
  <2>2. /\ legalCall' \in [LegalCalls -> LegalCallStates] /\ legalCall'[p] = s
        /\ \A q \in LegalCalls : q # p => legalCall'[q] = legalCall[q]
    BY <2>1, LegalGoes
  <2>3. LegalTypeOK'
    BY <1>3, <2>2 DEF CheckVersion, LegalTypeOK, LegalCallStates
  <2> QED BY <1>3, <2>1, <2>2, <2>3 DEF CheckVersion, MarkedOrToMark
<1>4. ASSUME NEW p \in LegalCalls, RecordLegalConsent(p) PROVE LegalInv'
  <2>1. legalCall[p].pc = "record"
    BY <1>4 DEF RecordLegalConsent
  <2>2. legalCall[p] \in [pc : {"record"}, account : Accounts, version : 0..Versions,
                          old : BOOLEAN]
    BY <2>1, LegalCallIs
  <2>3. PICK m \in Accounts : m = legalCall[p].account
    BY <2>2
  <2> DEFINE d == [exists |-> TRUE, accepted |-> legalCall[p].version, requiresReconsent |-> FALSE]
  <2>4. d \in Consents
    BY <2>2, LegalAssumption DEF Consents
  <2>5. consent' = [consent EXCEPT ![m] = d]
    BY <1>4, <2>3 DEF RecordLegalConsent
  <2> HIDE DEF d
  <2>6. /\ consent' \in [Accounts -> Consents]
        /\ \A n \in Accounts : n # m => consent'[n] = consent[n]
    BY <2>4, <2>5 DEF LegalTypeOK
  <2>7. /\ renewed' \subseteq Accounts /\ overtaken' \subseteq Accounts
        /\ renewed \subseteq renewed' /\ overtaken \subseteq overtaken'
        /\ m \in renewed' \cup overtaken'
    BY <1>4, <2>3 DEF RecordLegalConsent, LegalTypeOK
  <2>8. /\ legalCall' \in [LegalCalls -> LegalCallStates] /\ legalCall'[p] = LegalIdle
        /\ \A q \in LegalCalls : q # p => legalCall'[q] = legalCall[q]
    BY <1>4, LegalCallIs, LegalGoes DEF RecordLegalConsent
  <2>9. LegalTypeOK'
    BY <1>4, <2>6, <2>7, <2>8 DEF RecordLegalConsent, LegalTypeOK, LegalCallStates
  <2>10. MarkedOrToMark'
    BY <2>1, <2>6, <2>7, <2>8 DEF MarkedOrToMark
  <2> QED BY <2>9, <2>10
<1>5. ASSUME NEW p \in LegalCalls, FindConsents(p) PROVE LegalInv'
  <2> DEFINE s == [pc |-> "mark", todo |-> {m \in Accounts : consent[m].exists}]
  <2>1. s \in LegalCallStates
    BY DEF LegalCallStates
  <2>2. \A q \in LegalCalls :
           legalCall'[q] = IF q = p THEN s
                           ELSE IF legalCall[q].pc = "record"
                                THEN [legalCall[q] EXCEPT !.old = TRUE] ELSE legalCall[q]
    BY <1>5 DEF FindConsents
  <2>3. \A q \in LegalCalls : legalCall[q].pc = "record"
                                => [legalCall[q] EXCEPT !.old = TRUE] \in LegalCallStates
    <3> SUFFICES ASSUME NEW q \in LegalCalls, legalCall[q].pc = "record"
                 PROVE  [legalCall[q] EXCEPT !.old = TRUE] \in LegalCallStates
      OBVIOUS
    <3>1. legalCall[q] \in [pc : {"record"}, account : Accounts, version : 0..Versions,
                            old : BOOLEAN]
      BY LegalCallIs
    <3>2. [legalCall[q] EXCEPT !.old = TRUE]
             \in [pc : {"record"}, account : Accounts, version : 0..Versions, old : BOOLEAN]
      BY <3>1
    <3> QED BY <3>2 DEF LegalCallStates
  <2>4. \A q \in LegalCalls : legalCall'[q] \in LegalCallStates
    <3> HIDE DEF s
    <3> QED BY <2>1, <2>2, <2>3, LegalCallIs
  <2>5. legalCall' \in [LegalCalls -> LegalCallStates]
    <3>1. legalCall' = [q \in LegalCalls |-> legalCall'[q]]
      BY <1>5 DEF FindConsents
    <3> QED BY <2>4, <3>1
  <2>6. LegalTypeOK'
    BY <1>5, <2>5 DEF FindConsents, LegalTypeOK, LegalCallStates
  <2>7. MarkedOrToMark'
    <3>1. consent' = consent /\ legalCall'[p] = s
      BY <1>5, <2>2 DEF FindConsents
    <3> QED BY <3>1 DEF MarkedOrToMark
  <2> QED BY <2>6, <2>7
<1>6. ASSUME NEW p \in LegalCalls, NEW chunk \in SUBSET Accounts, DemandBatch(p, chunk)
      PROVE  LegalInv'
  <2> DEFINE rest == legalCall[p].todo \ chunk
             s == IF rest = {} THEN LegalIdle ELSE [pc |-> "mark", todo |-> rest]
  <2>1. legalCall[p].pc = "mark" /\ legalCall[p].todo \in SUBSET Accounts
    BY <1>6, LegalCallIs DEF DemandBatch
  <2>2. /\ s \in LegalCallStates /\ LegalGo(p, s)
        /\ \A m \in rest : s.pc = "mark" /\ m \in s.todo
    BY <1>6, <2>1 DEF DemandBatch, AfterBatch, LegalCallStates
  <2>3. /\ legalCall' \in [LegalCalls -> LegalCallStates] /\ legalCall'[p] = s
        /\ \A q \in LegalCalls : q # p => legalCall'[q] = legalCall[q]
    <3> HIDE DEF s
    <3> QED BY <2>2, LegalGoes
  <2>4. \A m \in Accounts : consent'[m] = IF m \in chunk
                                          THEN [consent[m] EXCEPT !.requiresReconsent = TRUE]
                                          ELSE consent[m]
    BY <1>6 DEF DemandBatch
  <2>5. \A m \in Accounts : /\ consent'[m] \in Consents
                            /\ consent'[m].exists = consent[m].exists
                            /\ consent[m].requiresReconsent => consent'[m].requiresReconsent
                            /\ m \in chunk => consent'[m].requiresReconsent
    <3> SUFFICES ASSUME NEW m \in Accounts
                 PROVE  /\ consent'[m] \in Consents
                        /\ consent'[m].exists = consent[m].exists
                        /\ consent[m].requiresReconsent => consent'[m].requiresReconsent
                        /\ m \in chunk => consent'[m].requiresReconsent
      OBVIOUS
    <3>1. consent[m] \in Consents
      BY DEF LegalTypeOK
    <3>2. /\ [consent[m] EXCEPT !.requiresReconsent = TRUE] \in Consents
          /\ [consent[m] EXCEPT !.requiresReconsent = TRUE].exists = consent[m].exists
          /\ [consent[m] EXCEPT !.requiresReconsent = TRUE].requiresReconsent = TRUE
      BY <3>1 DEF Consents
    <3> QED BY <2>4, <3>1, <3>2
  <2>6. consent' \in [Accounts -> Consents]
    <3>1. consent' = [m \in Accounts |-> consent'[m]]
      BY <1>6 DEF DemandBatch
    <3> QED BY <2>5, <3>1
  <2>7. LegalTypeOK'
    BY <1>6, <2>3, <2>6 DEF DemandBatch, LegalTypeOK, LegalCallStates
  <2>8. MarkedOrToMark'
    <3> HIDE DEF s
    <3>1. UNCHANGED <<renewed, overtaken>>
      BY <1>6 DEF DemandBatch
    <3> QED BY <2>2, <2>3, <2>5, <3>1 DEF MarkedOrToMark
  <2> QED BY <2>7, <2>8
<1>7. ASSUME NEW p \in LegalCalls, LegalDie(p) PROVE LegalInv'
  <2>1. /\ legalCall' \in [LegalCalls -> LegalCallStates] /\ legalCall'[p] = LegalIdle
        /\ \A q \in LegalCalls : q # p => legalCall'[q] = legalCall[q]
    BY <1>7, LegalCallIs, LegalGoes DEF LegalDie
  <2>2. /\ overtaken' \subseteq Accounts /\ overtaken \subseteq overtaken'
        /\ legalCall[p].pc = "mark" => legalCall[p].todo \subseteq overtaken'
    BY <1>7, LegalCallIs DEF LegalDie, LegalTypeOK
  <2>3. legalDeaths' \in 0..MaxLegalDeaths
    BY <1>7, LegalAssumption DEF LegalDie, LegalTypeOK
  <2>4. LegalTypeOK'
    BY <1>7, <2>1, <2>2, <2>3 DEF LegalDie, LegalTypeOK, LegalCallStates
  <2>5. MarkedOrToMark'
    <3>1. UNCHANGED <<consent, renewed>>
      BY <1>7 DEF LegalDie
    <3> QED BY <2>1, <2>2, <3>1 DEF MarkedOrToMark
  <2> QED BY <2>4, <2>5
<1>8. CASE UNCHANGED legalVars
  BY <1>8 DEF legalVars, LegalTypeOK, MarkedOrToMark
<1> QED BY <1>1, <1>2, <1>3, <1>4, <1>5, <1>6, <1>7, <1>8 DEF LegalNext

\* A demand for new consents that is through its batches reached every consent,
\* but for those given anew, given while it was made, and those of a demand that
\* died, whatever other demands and consents overlap it.
THEOREM DemandsReachConsents == LegalSpec => [](LegalTypeOK /\ DemandReachesConsents)
<1>1. LegalInit => LegalInv
  <2> SUFFICES ASSUME LegalInit PROVE LegalInv OBVIOUS
  <2>1. LegalIdle \in LegalCallStates /\ 0 \in 0..MaxLegalDeaths
    BY LegalAssumption DEF LegalCallStates
  <2>2. [exists |-> FALSE, accepted |-> -1, requiresReconsent |-> FALSE] \in Consents
    BY LegalAssumption DEF Consents
  <2>3. LegalTypeOK
    BY <2>1, <2>2 DEF LegalInit, LegalTypeOK, LegalCallStates, PolicyStatuses
  <2>4. MarkedOrToMark
    BY DEF LegalInit, MarkedOrToMark
  <2> QED BY <2>3, <2>4 DEF LegalInv
<1>2. LegalInv => LegalTypeOK /\ DemandReachesConsents
  BY DEF LegalInv, MarkedOrToMark, DemandReachesConsents
<1> QED BY <1>1, <1>2, LegalInvStep, PTL DEF LegalSpec

-----------------------------------------------------------------------------
(* Support access.                                                         *)

GrantCallStates == {GrantIdle} \cup [pc : {"collect"}]
                               \cup [pc : {"link", "activate", "unlink"}, grant : Grants]

\* What the ticket may show of its access.
AccessDocs == [granted : BOOLEAN, grant : Grants \cup {NoGrant}, debugGrant : Grants \cup {NoGrant}]

LEMMA GrantCallIs ==
    ASSUME AccessTypeOK, NEW p \in GrantCalls
    PROVE  /\ grantCall[p] = GrantIdle => grantCall[p].pc = "idle"
           /\ GrantIdle \in GrantCallStates /\ GrantIdle.pc = "idle"
           /\ grantCall[p].pc \in {"link", "activate", "unlink"} => grantCall[p].grant \in Grants
BY DEF AccessTypeOK, GrantCallStates, GrantIdle

LEMMA GrantGoes ==
    ASSUME AccessTypeOK, NEW p \in GrantCalls, NEW s \in GrantCallStates, GrantGo(p, s)
    PROVE  /\ grantCall' \in [GrantCalls -> GrantCallStates]
           /\ grantCall'[p] = s
           /\ \A q \in GrantCalls : q # p => grantCall'[q] = grantCall[q]
BY DEF AccessTypeOK, GrantGo, GrantCallStates

\* Another state of one grant.
LEMMA GrantBecomes ==
    ASSUME AccessTypeOK, NEW g \in Grants, NEW d \in GrantDocs, grant' = [grant EXCEPT ![g] = d]
    PROVE  /\ grant' \in [Grants -> GrantDocs]
           /\ grant'[g] = d
           /\ \A h \in Grants : h # g => grant'[h] = grant[h]
BY DEF AccessTypeOK

LEMMA AccessInvStep == AccessInv /\ [AccessNext]_accessVars => AccessInv'
<1> SUFFICES ASSUME AccessInv, [AccessNext]_accessVars PROVE AccessInv' OBVIOUS
<1> USE DEF AccessInv
<1>d. \A g \in Grants : grant[g] \in GrantDocs
  BY DEF AccessTypeOK
<1>1. ASSUME NEW p \in GrantCalls, NEW g \in Grants, NEW debug \in BOOLEAN, AddGrant(p, g, debug)
      PROVE  AccessInv'
  <2> DEFINE d == [status |-> "active", debug |-> debug, overdue |-> FALSE]
             s == [pc |-> IF debug THEN "activate" ELSE "link", grant |-> g]
  <2>1. d \in GrantDocs /\ s \in GrantCallStates /\ GrantGo(p, s) /\ grant' = [grant EXCEPT ![g] = d]
    BY <1>1 DEF AddGrant, GrantDocs, GrantCallStates
  <2>2. s.pc \in {"link", "activate"} /\ s.grant = g /\ d.status = "active" /\ ~d.overdue
    OBVIOUS
  <2> HIDE DEF d, s
  <2>3. /\ grantCall' \in [GrantCalls -> GrantCallStates] /\ grantCall'[p] = s
        /\ \A q \in GrantCalls : q # p => grantCall'[q] = grantCall[q]
    BY <2>1, GrantGoes
  <2>4. /\ grant' \in [Grants -> GrantDocs] /\ grant'[g] = d
        /\ \A h \in Grants : h # g => grant'[h] = grant[h]
    BY <2>1, GrantBecomes
  <2>5. grant[g].status = "none" /\ grantCall[p].pc = "idle"
    BY <1>1, GrantCallIs DEF AddGrant
  <2>6. UNCHANGED <<access, cleaning, grantDeaths>>
    BY <1>1 DEF AddGrant
  <2>7. AccessTypeOK'
    BY <2>3, <2>4, <2>6 DEF AccessTypeOK, GrantCallStates
  <2>8. /\ g \notin cleaning /\ g \notin {access.grant, access.debugGrant}
        /\ \A q \in GrantCalls : grantCall[q].pc \in {"link", "activate"}
                                   => grantCall[q].grant # g
    BY <2>5 DEF GrantToLink
  <2>9. GrantToLink'
    <3>1. \A q \in GrantCalls : grantCall'[q].pc \in {"link", "activate"} =>
            /\ grant'[grantCall'[q].grant].status = "active"
            /\ ~grant'[grantCall'[q].grant].overdue
            /\ grantCall'[q].grant \notin {access'.grant, access'.debugGrant}
            /\ \A r \in GrantCalls :
                  grantCall'[r].pc \in {"link", "activate"}
                  /\ grantCall'[r].grant = grantCall'[q].grant => r = q
      BY <2>2, <2>3, <2>4, <2>6, <2>8, GrantCallIs DEF GrantToLink
    <3>2. \A h \in cleaning' : grant'[h].overdue
      BY <2>4, <2>6, <2>8 DEF GrantToLink, AccessTypeOK
    <3>3. \A h \in Grants : grant'[h].status = "none" =>
            ~grant'[h].overdue /\ h \notin {access'.grant, access'.debugGrant}
      BY <2>2, <2>4, <2>6 DEF GrantToLink
    <3> QED BY <3>1, <3>2, <3>3 DEF GrantToLink
  <2>10. g \in Active'
    BY <2>2, <2>4 DEF Active
  <2> QED BY <2>7, <2>9, <2>10 DEF AccessIsBacked
<1>2. ASSUME NEW p \in GrantCalls, LinkGrant(p) \/ LinkDebugGrant(p) PROVE AccessInv'
  <2>1. grantCall[p].pc \in {"link", "activate"}
    BY <1>2 DEF LinkGrant, LinkDebugGrant
  <2>2. PICK g \in Grants : g = grantCall[p].grant
    BY <2>1, GrantCallIs
  <2>3. PICK s \in GrantCallStates : GrantGo(p, s) /\ s.pc \in {"idle", "collect"}
    <3>1. [pc |-> "collect"] \in GrantCallStates
      BY DEF GrantCallStates
    <3> QED BY <1>2, <3>1, GrantCallIs DEF LinkGrant, LinkDebugGrant
  <2>4. /\ grantCall' \in [GrantCalls -> GrantCallStates] /\ grantCall'[p] = s
        /\ \A q \in GrantCalls : q # p => grantCall'[q] = grantCall[q]
    BY <2>3, GrantGoes
  <2>5. UNCHANGED <<grant, cleaning, grantDeaths>>
    BY <1>2 DEF LinkGrant, LinkDebugGrant
  <2>6. /\ access' \in AccessDocs
        /\ access'.grant \in {access.grant, g} /\ access'.debugGrant \in {access.debugGrant, g}
    <3>0. access \in AccessDocs
      BY DEF AccessTypeOK, AccessDocs
    <3>1. CASE LinkGrant(p)
      <4>1. access' = [access EXCEPT !.granted = TRUE, !.grant = g]
        BY <2>2, <3>1 DEF LinkGrant
      <4> QED BY <3>0, <4>1 DEF AccessDocs
    <3>2. CASE LinkDebugGrant(p)
      <4>1. access' = [granted |-> TRUE, grant |-> g, debugGrant |-> g]
        BY <2>2, <3>2 DEF LinkDebugGrant
      <4> QED BY <4>1 DEF AccessDocs
    <3> QED BY <1>2, <3>1, <3>2
  <2>7. AccessTypeOK'
    BY <2>4, <2>5, <2>6 DEF AccessTypeOK, GrantCallStates, AccessDocs
  <2>8. GrantToLink'
    <3>1. \A q \in GrantCalls : grantCall'[q].pc \in {"link", "activate"} =>
            q # p /\ grantCall'[q] = grantCall[q] /\ grantCall[q].grant # g
      BY <2>1, <2>2, <2>3, <2>4 DEF GrantToLink
    <3>2. grant[g].status = "active"
      BY <2>1, <2>2 DEF GrantToLink
    <3> QED BY <2>5, <2>6, <3>1, <3>2 DEF GrantToLink
  <2>9. g \in Active'
    BY <2>1, <2>2, <2>5 DEF Active, GrantToLink
  <2> QED BY <2>7, <2>8, <2>9 DEF AccessIsBacked
<1>3. ASSUME NEW p \in GrantCalls, NEW g \in Grants, RevokeSupportAccess(p, g) PROVE AccessInv'
  <2> DEFINE d == [grant[g] EXCEPT !.status = "revoked"]
             s == [pc |-> "unlink", grant |-> g]
  <2>1. d \in GrantDocs /\ d.status = "revoked" /\ d.overdue = grant[g].overdue
    BY <1>d DEF GrantDocs
  <2>2. s \in GrantCallStates /\ s.pc = "unlink" /\ GrantGo(p, s) /\ grant' = [grant EXCEPT ![g] = d]
    BY <1>3 DEF RevokeSupportAccess, GrantCallStates
  <2> HIDE DEF d, s
  <2>3. /\ grantCall' \in [GrantCalls -> GrantCallStates] /\ grantCall'[p] = s
        /\ \A q \in GrantCalls : q # p => grantCall'[q] = grantCall[q]
    BY <2>2, GrantGoes
  <2>4. /\ grant' \in [Grants -> GrantDocs] /\ grant'[g] = d
        /\ \A h \in Grants : h # g => grant'[h] = grant[h]
    BY <2>1, <2>2, GrantBecomes
  <2>5. UNCHANGED <<access, cleaning, grantDeaths>> /\ g \in {access.grant, access.debugGrant}
    BY <1>3 DEF RevokeSupportAccess
  <2>6. AccessTypeOK'
    BY <2>3, <2>4, <2>5 DEF AccessTypeOK, GrantCallStates
  <2>7. GrantToLink'
    <3>1. \A q \in GrantCalls : grantCall'[q].pc \in {"link", "activate"} =>
            q # p /\ grantCall'[q] = grantCall[q] /\ grantCall[q].grant \in Grants \ {g}
      BY <2>2, <2>3, <2>5, GrantCallIs DEF GrantToLink
    <3>2. \A h \in cleaning : grant'[h].overdue
      BY <2>1, <2>4 DEF GrantToLink, AccessTypeOK
    <3> QED BY <2>1, <2>4, <2>5, <3>1, <3>2 DEF GrantToLink
  <2>8. AccessIsBacked'
    BY <2>2, <2>3 DEF AccessIsBacked
  <2> QED BY <2>6, <2>7, <2>8
<1>4. ASSUME NEW p \in GrantCalls, UnlinkGrant(p) \/ GrantCallDies(p) PROVE AccessInv'
  <2>1. /\ grantCall' \in [GrantCalls -> GrantCallStates] /\ grantCall'[p] = GrantIdle
        /\ \A q \in GrantCalls : q # p => grantCall'[q] = grantCall[q]
    BY <1>4, GrantCallIs, GrantGoes DEF UnlinkGrant, GrantCallDies
  <2>2. GrantIdle.pc = "idle" /\ UNCHANGED <<grant, cleaning>>
    BY <1>4 DEF GrantIdle, UnlinkGrant, GrantCallDies
  <2>3. /\ access' \in AccessDocs
        /\ access'.grant = access.grant /\ access'.debugGrant = access.debugGrant
        /\ grantDeaths' \in 0..MaxGrantDeaths
        /\ ~access'.granted \/ grantDeaths' # 0
    <3>0. access \in AccessDocs /\ grantDeaths \in 0..MaxGrantDeaths
      BY DEF AccessTypeOK, AccessDocs
    <3>1. CASE UnlinkGrant(p)
      <4>1. access' = [access EXCEPT !.granted = FALSE] /\ grantDeaths' = grantDeaths
        BY <3>1 DEF UnlinkGrant
      <4> QED BY <3>0, <4>1 DEF AccessDocs
    <3>2. CASE GrantCallDies(p)
      <4>1. access' = access /\ grantDeaths < MaxGrantDeaths /\ grantDeaths' = grantDeaths + 1
        BY <3>2 DEF GrantCallDies
      <4> QED BY <3>0, <4>1, AccessAssumption
    <3> QED BY <1>4, <3>1, <3>2
  <2>4. AccessTypeOK'
    BY <2>1, <2>2, <2>3 DEF AccessTypeOK, GrantCallStates, AccessDocs
  <2>5. GrantToLink'
    BY <2>1, <2>2, <2>3 DEF GrantToLink
  <2> QED BY <2>3, <2>4, <2>5 DEF AccessIsBacked
<1>5. ASSUME NEW g \in Grants, GrantRunsOut(g) PROVE AccessInv'
  <2> DEFINE d == [grant[g] EXCEPT !.overdue = TRUE]
  <2>1. d \in GrantDocs /\ d.status = grant[g].status /\ d.overdue = TRUE
    BY <1>d DEF GrantDocs
  <2>2. grant' = [grant EXCEPT ![g] = d] /\ UNCHANGED <<access, cleaning, grantCall, grantDeaths>>
        /\ grant[g].status = "active" /\ \A q \in GrantCalls : grantCall[q].pc = "idle"
    BY <1>5, GrantCallIs DEF GrantRunsOut, Active
  <2> HIDE DEF d
  <2>3. /\ grant' \in [Grants -> GrantDocs] /\ grant'[g] = d
        /\ \A h \in Grants : h # g => grant'[h] = grant[h]
    BY <2>1, <2>2, GrantBecomes
  <2>4. AccessTypeOK'
    BY <2>2, <2>3 DEF AccessTypeOK
  <2>5. GrantToLink'
    <3>1. \A h \in cleaning' : grant'[h].overdue
      BY <2>1, <2>2, <2>3 DEF GrantToLink, AccessTypeOK
    <3> QED BY <2>1, <2>2, <2>3, <3>1 DEF GrantToLink
  <2>6. g \in Active'
    BY <2>1, <2>2, <2>3 DEF Active
  <2> QED BY <2>4, <2>5, <2>6 DEF AccessIsBacked
<1>6. CASE FindExpiredGrants
  <2>1. cleaning' \subseteq Grants /\ \A g \in cleaning' : grant[g].overdue
    BY <1>6 DEF FindExpiredGrants, Active
  <2>2. UNCHANGED <<access, grant, grantCall, grantDeaths>>
    BY <1>6 DEF FindExpiredGrants
  <2> QED BY <2>1, <2>2 DEF AccessTypeOK, GrantToLink, AccessIsBacked, Active
<1>7. CASE CleanupExpiredGrants
  <2>1. /\ cleaning' = {} /\ access' = [access EXCEPT !.granted = FALSE]
        /\ UNCHANGED <<grantCall, grantDeaths>>
    BY <1>7 DEF CleanupExpiredGrants
  <2>2. \A g \in Grants : grant'[g] = IF g \in cleaning THEN [grant[g] EXCEPT !.status = "expired"]
                                      ELSE grant[g]
    BY <1>7 DEF CleanupExpiredGrants
  <2>3. \A g \in Grants : /\ [grant[g] EXCEPT !.status = "expired"] \in GrantDocs
                          /\ [grant[g] EXCEPT !.status = "expired"].status = "expired"
    BY <1>d DEF GrantDocs
  <2>4. grant' \in [Grants -> GrantDocs]
    <3>1. grant' = [g \in Grants |-> grant'[g]]
      BY <1>7 DEF CleanupExpiredGrants
    <3>2. \A g \in Grants : grant'[g] \in GrantDocs
      BY <1>d, <2>2, <2>3
    <3> QED BY <3>1, <3>2
  <2>5. /\ access' \in AccessDocs
        /\ access'.grant = access.grant /\ access'.debugGrant = access.debugGrant
        /\ ~access'.granted
    BY <2>1 DEF AccessTypeOK, AccessDocs
  <2>6. AccessTypeOK'
    BY <2>1, <2>4, <2>5 DEF AccessTypeOK, AccessDocs
  <2>7. GrantToLink'
    <3>1. \A q \in GrantCalls : grantCall[q].pc \in {"link", "activate"} =>
            grant'[grantCall[q].grant] = grant[grantCall[q].grant]
      BY <2>2, GrantCallIs DEF GrantToLink
    <3> QED BY <2>1, <2>2, <2>3, <2>5, <3>1 DEF GrantToLink
  <2> QED BY <2>5, <2>6, <2>7 DEF AccessIsBacked
<1>8. ASSUME NEW g \in Grants, GrantLapses(g) PROVE AccessInv'
  <2> DEFINE d == [grant[g] EXCEPT !.status = "lapsed"]
  <2>1. d \in GrantDocs /\ d.status = "lapsed" /\ d.overdue = grant[g].overdue
    BY <1>d DEF GrantDocs
  <2>2. grant' = [grant EXCEPT ![g] = d] /\ UNCHANGED <<access, cleaning, grantCall, grantDeaths>>
        /\ grant[g].overdue
    BY <1>8 DEF GrantLapses
  <2> HIDE DEF d
  <2>3. /\ grant' \in [Grants -> GrantDocs] /\ grant'[g] = d
        /\ \A h \in Grants : h # g => grant'[h] = grant[h]
    BY <2>1, <2>2, GrantBecomes
  <2>4. AccessTypeOK'
    BY <2>2, <2>3 DEF AccessTypeOK
  <2>5. GrantToLink'
    <3>1. \A h \in cleaning' : grant'[h].overdue
      BY <2>1, <2>2, <2>3 DEF GrantToLink, AccessTypeOK
    <3>2. \A q \in GrantCalls : grantCall[q].pc \in {"link", "activate"} =>
            grantCall[q].grant \in Grants \ {g}
      BY <2>2, GrantCallIs DEF GrantToLink
    <3> QED BY <2>1, <2>2, <2>3, <3>1, <3>2 DEF GrantToLink
  <2>6. AccessIsBacked'
    BY <2>1, <2>3 DEF AccessIsBacked
  <2> QED BY <2>4, <2>5, <2>6
<1>9. ASSUME NEW p \in GrantCalls, StartDebugRound(p) \/ CollectDebugSnapshot(p) PROVE AccessInv'
  <2>1. PICK s \in GrantCallStates : GrantGo(p, s) /\ s.pc \in {"idle", "collect"}
    <3>1. [pc |-> "collect"] \in GrantCallStates
      BY DEF GrantCallStates
    <3> QED BY <1>9, <3>1, GrantCallIs DEF StartDebugRound, CollectDebugSnapshot
  <2>2. /\ grantCall' \in [GrantCalls -> GrantCallStates] /\ grantCall'[p] = s
        /\ \A q \in GrantCalls : q # p => grantCall'[q] = grantCall[q]
    BY <2>1, GrantGoes
  <2>3. UNCHANGED <<access, grant, cleaning, grantDeaths>> /\ grantCall[p].pc \in {"idle", "collect"}
    BY <1>9, GrantCallIs DEF StartDebugRound, CollectDebugSnapshot
  <2>4. AccessTypeOK'
    BY <2>2, <2>3 DEF AccessTypeOK, GrantCallStates
  <2>5. GrantToLink'
    BY <2>1, <2>2, <2>3 DEF GrantToLink
  <2>6. AccessIsBacked'
    BY <2>1, <2>2, <2>3 DEF AccessIsBacked, Active
  <2> QED BY <2>4, <2>5, <2>6
<1>10. CASE UNCHANGED accessVars
  BY <1>10 DEF accessVars, AccessTypeOK, GrantToLink, AccessIsBacked, Active
<1> QED BY <1>1, <1>2, <1>3, <1>4, <1>5, <1>6, <1>7, <1>8, <1>9, <1>10 DEF AccessNext

\* However consents, revocations and the cleanup overlap: once no call is at work, a
\* ticket that shows access has an active grant, but for deaths and lapsed grants.
THEOREM AccessAlwaysHasGrant == AccessSpec => [](AccessTypeOK /\ AccessHasGrant)
<1>1. AccessInit => AccessInv
  <2> SUFFICES ASSUME AccessInit PROVE AccessInv OBVIOUS
  <2>1. /\ [status |-> "none", debug |-> FALSE, overdue |-> FALSE] \in GrantDocs
        /\ [granted |-> FALSE, grant |-> NoGrant, debugGrant |-> NoGrant]
              \in [granted : BOOLEAN, grant : Grants \cup {NoGrant}, debugGrant : Grants \cup {NoGrant}]
    BY DEF GrantDocs
  <2>2. 0 \in 0..MaxGrantDeaths
    BY AccessAssumption
  <2>3. AccessTypeOK
    BY <2>1, <2>2 DEF AccessInit, AccessTypeOK
  <2>4. GrantToLink /\ AccessIsBacked
    BY AccessAssumption DEF AccessInit, GrantToLink, AccessIsBacked, GrantIdle
  <2> QED BY <2>3, <2>4 DEF AccessInv
<1>2. AccessInv => AccessTypeOK /\ AccessHasGrant
  <2> SUFFICES ASSUME AccessInv PROVE AccessHasGrant
    BY DEF AccessInv
  <2>1. \A p \in GrantCalls : grantCall[p].pc = "unlink" => grantCall[p] # GrantIdle
    BY DEF GrantIdle
  <2>2. grantDeaths \in Nat
    BY AccessAssumption DEF AccessInv, AccessTypeOK
  <2> QED BY <2>1, <2>2 DEF AccessInv, AccessIsBacked, AccessHasGrant
<1> QED BY <1>1, <1>2, AccessInvStep, PTL DEF AccessSpec

-----------------------------------------------------------------------------
(* The conversation of a ticket.                                           *)

TicketRuns == [pc : {"reply", "skip", "activate", "refresh", "ask"},
               op : {"reply", "skip", "consent", "analyze"},
               round : Nat, failures : Nat, stale : BOOLEAN]

LEMMA TicketCallIs ==
    ASSUME TicketTypeOK, NEW p \in TicketCalls
    PROVE  /\ ticketCall[p] \in {TicketIdle} \cup TicketRuns
           /\ ticketCall[p].pc # "idle" <=> ticketCall[p] # TicketIdle
           /\ TicketIdle.pc = "idle" /\ TicketIdle \in TicketCallStates
           /\ TicketRuns \subseteq TicketCallStates
BY DEF TicketTypeOK, TicketCallStates, TicketRuns, TicketIdle

LEMMA TicketGoes ==
    ASSUME TicketTypeOK, NEW p \in TicketCalls, NEW s \in TicketCallStates, TicketGo(p, s)
    PROVE  /\ ticketCall' \in [TicketCalls -> TicketCallStates]
           /\ ticketCall'[p] = s
           /\ \A q \in TicketCalls : q # p => ticketCall'[q] = ticketCall[q]
BY DEF TicketTypeOK, TicketGo

\* A call whose ticket was written meanwhile: the same, but stale.
OutOfDate(q) ==
    /\ ticketCall'[q] \in TicketCallStates
    /\ ticketCall'[q].pc = ticketCall[q].pc
    /\ ticketCall'[q].pc # "idle" =>
          /\ ticketCall'[q].op = ticketCall[q].op /\ ticketCall'[q].stale
          /\ ticketCall'[q].round = ticketCall[q].round
          /\ ticketCall'[q].failures = ticketCall[q].failures

LEMMA GetsStale ==
    ASSUME TicketTypeOK, NEW q \in TicketCalls,
           ticketCall'[q] = IF ticketCall[q] = TicketIdle THEN TicketIdle
                            ELSE [ticketCall[q] EXCEPT !.stale = TRUE]
    PROVE  OutOfDate(q)
<1>1. CASE ticketCall[q] = TicketIdle
  BY <1>1, TicketCallIs DEF OutOfDate
<1>2. CASE ticketCall[q] # TicketIdle
  <2> DEFINE t == [ticketCall[q] EXCEPT !.stale = TRUE]
  <2>1. ticketCall[q] \in TicketRuns
    BY <1>2, TicketCallIs
  <2>2. t \in TicketRuns /\ t.stale = TRUE
    BY <2>1 DEF TicketRuns
  <2>3. /\ t.pc = ticketCall[q].pc /\ t.op = ticketCall[q].op
        /\ t.round = ticketCall[q].round /\ t.failures = ticketCall[q].failures
    BY <2>1 DEF TicketRuns
  <2>4. ticketCall'[q] = t
    BY <1>2
  <2> HIDE DEF t
  <2> QED BY <2>2, <2>3, <2>4, TicketCallIs DEF OutOfDate
<1> QED BY <1>1, <1>2

LEMMA AllGetStale ==
    ASSUME TicketTypeOK, AllStale
    PROVE  /\ ticketCall' \in [TicketCalls -> TicketCallStates]
           /\ \A q \in TicketCalls : OutOfDate(q)
<1>1. \A q \in TicketCalls : OutOfDate(q)
  BY GetsStale DEF AllStale
<1>2. ticketCall' = [q \in TicketCalls |-> ticketCall'[q]]
  BY DEF AllStale
<1> QED BY <1>1, <1>2 DEF OutOfDate

LEMMA OthersGetStale ==
    ASSUME TicketTypeOK, NEW p \in TicketCalls, Rewritten(p, TicketIdle)
    PROVE  /\ ticketCall' \in [TicketCalls -> TicketCallStates]
           /\ ticketCall'[p] = TicketIdle
           /\ \A q \in TicketCalls : q # p => OutOfDate(q)
<1>1. ticketCall'[p] = TicketIdle /\ \A q \in TicketCalls : q # p => OutOfDate(q)
  BY GetsStale DEF Rewritten
<1>2. ticketCall' = [q \in TicketCalls |-> ticketCall'[q]]
  BY DEF Rewritten
<1> QED BY <1>1, <1>2, TicketCallIs DEF OutOfDate

\* A call goes on: what its new state must be about the ticket, which keeps its
\* status, round and failures.
LEMMA CallKeeps ==
    ASSUME TicketInv, NEW p \in TicketCalls, NEW s \in TicketCallStates, TicketGo(p, s),
           ticket' \in Tickets, ticket'.status = ticket.status, ticket'.round = ticket.round,
           ticket'.failures = ticket.failures,
           UNCHANGED <<greeting, repeats>>, ticketDeaths' \in 0..MaxTicketDeaths,
           past' = past \/ ReadSolved,
           past' # "resumed" /\ s.pc \in {"skip", "ask"} => s.round = s.failures,
           s.pc \in {"reply", "ask"} /\ s.op = "reply" /\ ~s.stale => ticket.status \notin Ended,
           s.pc \in {"activate", "refresh", "skip"} => s.op # "reply"
    PROVE  TicketInv'
<1>1. /\ ticketCall' \in [TicketCalls -> TicketCallStates] /\ ticketCall'[p] = s
      /\ \A q \in TicketCalls : q # p => ticketCall'[q] = ticketCall[q]
  BY TicketGoes DEF TicketInv
<1>2. past' \in {"unsolved", "solved", "resumed"} /\ (past' # "resumed" => past' = past)
  BY DEF ReadSolved, TicketInv, TicketTypeOK
<1>3. TicketTypeOK'
  BY <1>1, <1>2 DEF TicketInv, TicketTypeOK
<1>4. RoundsFail'
  BY <1>1, <1>2 DEF TicketInv, RoundsFail
<1>5. ReplyToOpen'
  BY <1>1 DEF TicketInv, ReplyToOpen
<1> QED BY <1>3, <1>4, <1>5 DEF TicketInv

\* The ticket's own steps: its creation, the greeting and the parent's verdict.
LEMMA TicketSteps ==
    ASSUME TicketInv,
           \/ CreateTicket \/ AskDebugConsent \/ GreetingDone \/ GreetingFails \/ GreetAgain
           \/ \E accepted \in BOOLEAN : ProvideSolutionFeedback(accepted)
           \/ UNCHANGED ticketVars
    PROVE  TicketInv'
<1> USE DEF TicketInv
<1>t. ticket \in Tickets
  BY DEF TicketTypeOK
<1>1. CASE CreateTicket
  <2>1. ticket' = [ticket EXCEPT !.status = "open"] /\ ticket.status = "none"
    BY <1>1 DEF CreateTicket, Filed
  <2>2. /\ ticket' \in Tickets /\ ticket'.status = "open" /\ ticket'.round = ticket.round
        /\ ticket'.failures = ticket.failures
    BY <1>t, <2>1 DEF Tickets
  <2>3. TicketTypeOK'
    BY <1>1, <2>2 DEF CreateTicket, TicketTypeOK
  <2>4. RoundsFail'
    BY <1>1, <2>1, <2>2 DEF CreateTicket, RoundsFail, Ended
  <2>5. ReplyToOpen'
    BY <1>1, <2>2 DEF CreateTicket, ReplyToOpen, Ended
  <2> QED BY <2>3, <2>4, <2>5
<1>2. CASE AskDebugConsent
  <2>1. /\ ticket' \in Tickets /\ ticket'.status = "awaiting_user_feedback"
        /\ ticket'.round = 0 /\ ticket'.failures = 0
    BY <1>2 DEF AskDebugConsent, Tickets, Ended
  <2>2. /\ ticketCall' \in [TicketCalls -> TicketCallStates]
        /\ \A q \in TicketCalls : OutOfDate(q)
    BY <1>2, AllGetStale DEF AskDebugConsent
  <2>3. TicketTypeOK'
    BY <1>2, <2>1, <2>2 DEF AskDebugConsent, TicketTypeOK
  <2>4. RoundsFail'
    BY <1>2, <2>1, <2>2, TicketAssumption DEF AskDebugConsent, RoundsFail, OutOfDate
  <2>5. ReplyToOpen'
    BY <2>1, <2>2 DEF ReplyToOpen, OutOfDate, Ended
  <2> QED BY <2>3, <2>4, <2>5
<1>3. CASE GreetingDone \/ GreetAgain
  <2>1. UNCHANGED <<ticket, ticketCall, ticketDeaths, past>>
    BY <1>3 DEF GreetingDone, GreetAgain
  <2>2. greeting' \in {"no", "due", "asked", "done"} /\ repeats' \in 0..MaxRepeats
    BY <1>3, TicketAssumption DEF GreetingDone, GreetAgain, TicketTypeOK
  <2> QED BY <2>1, <2>2 DEF TicketTypeOK, RoundsFail, ReplyToOpen
<1>4. ASSUME GreetingFails \/ \E accepted \in BOOLEAN : ProvideSolutionFeedback(accepted)
      PROVE  TicketInv'
  <2>1. /\ ticket' \in Tickets /\ ticket'.status \in Ended /\ ticket'.round = ticket.round
        /\ ticket'.failures = ticket.failures
    <3>1. ticket' = [ticket EXCEPT !.status = "escalated", !.conversation = "escalated"]
            => /\ ticket' \in Tickets /\ ticket'.status \in Ended /\ ticket'.round = ticket.round
               /\ ticket'.failures = ticket.failures
      BY <1>t DEF Tickets, Ended
    <3>2. ASSUME NEW status \in Ended, ticket' = [ticket EXCEPT !.status = status]
          PROVE  /\ ticket' \in Tickets /\ ticket'.status \in Ended /\ ticket'.round = ticket.round
                 /\ ticket'.failures = ticket.failures
      BY <1>t, <3>2 DEF Tickets, Ended
    <3>3. ASSUME NEW accepted \in BOOLEAN
          PROVE  (IF accepted THEN "closed_by_ai" ELSE "escalated") \in Ended
      BY DEF Ended
    <3> QED BY <1>4, <3>1, <3>2, <3>3 DEF GreetingFails, ProvideSolutionFeedback
  <2>2. AllStale /\ UNCHANGED <<repeats, ticketDeaths, past>> /\ greeting' \in {greeting, "done"}
    BY <1>4 DEF GreetingFails, ProvideSolutionFeedback
  <2>3. /\ ticketCall' \in [TicketCalls -> TicketCallStates]
        /\ \A q \in TicketCalls : OutOfDate(q)
    BY <2>2, AllGetStale
  <2>4. TicketTypeOK'
    BY <2>1, <2>2, <2>3 DEF TicketTypeOK
  <2>5. RoundsFail'
    BY <2>1, <2>2, <2>3 DEF RoundsFail, OutOfDate
  <2>6. ReplyToOpen'
    BY <2>3 DEF ReplyToOpen, OutOfDate
  <2> QED BY <2>4, <2>5, <2>6
<1>5. CASE UNCHANGED ticketVars
  BY <1>5 DEF ticketVars, TicketTypeOK, RoundsFail, ReplyToOpen
<1> QED BY <1>1, <1>2, <1>3, <1>4, <1>5

\* A round reads a ticket that the AI has not solved, or notes that it had.
LEMMA ReadsUnsolved ==
    ASSUME TicketInv, ReadSolved, past' # "resumed"
    PROVE  ticket.round = ticket.failures
BY DEF ReadSolved, TicketInv, TicketTypeOK, RoundsFail

LEMMA CallSteps ==
    ASSUME TicketInv, NEW p \in TicketCalls,
           \/ AnalyzeWithDebugData(p) \/ ConsentToDebug(p) \/ ActivateDebug(p)
           \/ AnalyzeAfterConsent(p) \/ DeclineDebug(p) \/ SkipDebugMode(p)
           \/ CheckReply(p) \/ ProcessUserReply(p) \/ TicketCallDies(p)
    PROVE  TicketInv'
<1> USE DEF TicketInv
<1>t. ticket \in Tickets /\ ticketDeaths \in 0..MaxTicketDeaths
  BY DEF TicketTypeOK
<1>r. ASSUME NEW pc \in {"reply", "skip", "activate", "refresh", "ask"},
             NEW op \in {"reply", "skip", "consent", "analyze"}
      PROVE  /\ Read(pc, op) \in TicketCallStates /\ Read(pc, op).pc = pc
             /\ Read(pc, op).op = op /\ Read(pc, op).round = ticket.round
             /\ Read(pc, op).failures = ticket.failures
  BY <1>t, TicketCallIs DEF Read, TicketRuns, Tickets
<1>n. ASSUME NEW pc \in {"refresh", "ask"}, ticketCall[p].pc # "idle"
      PROVE  LET t == [ticketCall[p] EXCEPT !.pc = pc] IN
             /\ t \in TicketCallStates /\ t.pc = pc /\ t.op = ticketCall[p].op
             /\ t.round = ticketCall[p].round /\ t.failures = ticketCall[p].failures
             /\ t.stale = ticketCall[p].stale
  <2>1. ticketCall[p] \in TicketRuns
    BY <1>n, TicketCallIs
  <2>2. [ticketCall[p] EXCEPT !.pc = pc] \in TicketRuns
    BY <2>1 DEF TicketRuns
  <2> QED BY <2>1, <2>2, TicketCallIs DEF TicketRuns
<1>a. ASSUME ticketCall[p].pc # "idle"
      PROVE  /\ ReadAgain(p) \in TicketCallStates /\ ReadAgain(p).pc = "ask"
             /\ ReadAgain(p).op = ticketCall[p].op /\ ReadAgain(p).round = ticket.round
             /\ ReadAgain(p).failures = ticket.failures
             /\ ReadAgain(p).stale = ticketCall[p].stale
  <2>1. ticketCall[p] \in TicketRuns
    BY <1>a, TicketCallIs
  <2>2. ReadAgain(p) \in TicketRuns
    BY <1>t, <2>1 DEF ReadAgain, TicketRuns, Tickets
  <2> QED BY <2>1, <2>2, TicketCallIs DEF ReadAgain, TicketRuns
<1>c. ASSUME NEW conversation \in {"debug_active", "analyzing"},
             ticket' = [ticket EXCEPT !.conversation = conversation]
      PROVE  /\ ticket' \in Tickets /\ ticket'.status = ticket.status
             /\ ticket'.round = ticket.round /\ ticket'.failures = ticket.failures
  BY <1>c, <1>t DEF Tickets
<1>1. CASE AnalyzeWithDebugData(p)
  <2>1. /\ TicketGo(p, Read("ask", "analyze")) /\ ReadSolved
        /\ UNCHANGED <<ticket, greeting, repeats, ticketDeaths>>
    BY <1>1 DEF AnalyzeWithDebugData
  <2> QED BY <1>t, <1>r, <2>1, ReadsUnsolved, CallKeeps
<1>2. CASE ConsentToDebug(p)
  <2>1. /\ TicketGo(p, Read("activate", "consent"))
        /\ UNCHANGED <<ticket, greeting, repeats, ticketDeaths, past>>
    BY <1>2 DEF ConsentToDebug
  <2> QED BY <1>t, <1>r, <2>1, CallKeeps
<1>3. CASE ActivateDebug(p)
  <2> DEFINE s == [ticketCall[p] EXCEPT !.pc = "refresh"]
  <2>1. /\ TicketGo(p, s) /\ ticket' = [ticket EXCEPT !.conversation = "debug_active"]
        /\ UNCHANGED <<greeting, repeats, ticketDeaths, past>> /\ ticketCall[p].pc = "activate"
    BY <1>3 DEF ActivateDebug
  <2>2. s \in TicketCallStates /\ s.pc = "refresh" /\ s.op # "reply"
    BY <1>n, <2>1 DEF ReplyToOpen
  <2> HIDE DEF s
  <2> QED BY <1>t, <1>c, <2>1, <2>2, CallKeeps
<1>4. CASE AnalyzeAfterConsent(p)
  <2>1. /\ TicketGo(p, ReadAgain(p)) /\ ReadSolved /\ ticketCall[p].pc = "refresh"
        /\ UNCHANGED <<ticket, greeting, repeats, ticketDeaths>>
    BY <1>4 DEF AnalyzeAfterConsent
  <2>2. ticketCall[p].op # "reply"
    BY <2>1 DEF ReplyToOpen
  <2> QED BY <1>t, <1>a, <2>1, <2>2, ReadsUnsolved, CallKeeps
<1>5. CASE DeclineDebug(p)
  <2>1. /\ TicketGo(p, Read("skip", "skip")) /\ ReadSolved
        /\ UNCHANGED <<ticket, greeting, repeats, ticketDeaths>>
    BY <1>5 DEF DeclineDebug
  <2> QED BY <1>t, <1>r, <2>1, ReadsUnsolved, CallKeeps
<1>6. CASE SkipDebugMode(p)
  <2> DEFINE s == [ticketCall[p] EXCEPT !.pc = "ask"]
  <2>1. /\ TicketGo(p, s) /\ ticket' = [ticket EXCEPT !.conversation = "analyzing"]
        /\ UNCHANGED <<greeting, repeats, ticketDeaths, past>> /\ ticketCall[p].pc = "skip"
    BY <1>6 DEF SkipDebugMode
  <2>2. /\ s \in TicketCallStates /\ s.pc = "ask" /\ s.op # "reply"
        /\ s.round = ticketCall[p].round /\ s.failures = ticketCall[p].failures
    BY <1>n, <2>1 DEF ReplyToOpen
  <2>3. past' # "resumed" => s.round = s.failures
    BY <2>1, <2>2 DEF RoundsFail
  <2> HIDE DEF s
  <2> QED BY <1>t, <1>c, <2>1, <2>2, <2>3, CallKeeps
<1>7. CASE CheckReply(p)
  <2>1. /\ TicketGo(p, Read("reply", "reply")) /\ ticket.status \notin Ended
        /\ UNCHANGED <<ticket, greeting, repeats, ticketDeaths, past>>
    BY <1>7 DEF CheckReply
  <2> QED BY <1>t, <1>r, <2>1, CallKeeps
<1>8. CASE ProcessUserReply(p)
  <2>1. /\ TicketGo(p, ReadAgain(p)) /\ ReadSolved /\ ticketCall[p].pc = "reply"
        /\ ticket' = [ticket EXCEPT !.conversation = "analyzing"]
        /\ UNCHANGED <<greeting, repeats, ticketDeaths>>
    BY <1>8 DEF ProcessUserReply
  <2>2. ticketCall[p].op = "reply" /\ ~ticketCall[p].stale => ticket.status \notin Ended
    BY <2>1 DEF ReplyToOpen
  <2> QED BY <1>t, <1>a, <1>c, <2>1, <2>2, ReadsUnsolved, CallKeeps
<1>9. CASE TicketCallDies(p)
  <2>1. /\ TicketGo(p, TicketIdle) /\ UNCHANGED <<ticket, greeting, repeats, past>>
        /\ ticketDeaths' \in 0..MaxTicketDeaths
    BY <1>9, <1>t, TicketAssumption DEF TicketCallDies
  <2> QED BY <1>t, <2>1, TicketCallIs, CallKeeps
<1> QED BY <1>1, <1>2, <1>3, <1>4, <1>5, <1>6, <1>7, <1>8, <1>9

\* The AI answers: of a ticket it had not solved, a round that failed is counted
\* as one, so the last of them escalates.
LEMMA AnswerStep ==
    ASSUME TicketInv, NEW p \in TicketCalls, NEW solved \in BOOLEAN, RunAiAnalysisRound(p, solved)
    PROVE  TicketInv'
<1> USE DEF TicketInv
<1> DEFINE r == ticketCall[p].round
           f == ticketCall[p].failures
           a == Answer(r, f, solved)
<1>1. ticketCall[p].pc = "ask" /\ r \in Nat /\ f \in Nat
  BY TicketCallIs DEF RunAiAnalysisRound, TicketRuns
<1>2. /\ ticket' = [status |-> a.status, conversation |-> ConversationOf(a.status),
                    round |-> a.round, failures |-> a.failures]
      /\ past' = IF solved /\ past = "unsolved" THEN "solved" ELSE past
      /\ UNCHANGED <<greeting, repeats, ticketDeaths>>
  BY DEF RunAiAnalysisRound
<1>3. /\ ticketCall' \in [TicketCalls -> TicketCallStates]
      /\ ticketCall'[p] = TicketIdle /\ TicketIdle.pc = "idle"
      /\ \A q \in TicketCalls : q # p => OutOfDate(q)
  BY OthersGetStale DEF RunAiAnalysisRound, TicketIdle
<1> HIDE DEF r, f
<1>4. /\ a.status \in Ended \cup {"awaiting_user_feedback"}
      /\ a.round \in Nat /\ a.failures \in Nat /\ a.round = r + 1
      /\ ~solved => a.failures = f + 1
      /\ a.status \notin Ended => ~solved /\ (r + 1 < MaxRounds \/ f + 1 < MaxRounds)
  BY <1>1, TicketAssumption DEF Answer, Ended
<1> HIDE DEF a
<1>5. ConversationOf(a.status) \in {"closed", "escalated", "waiting_user_response"}
  BY <1>4 DEF ConversationOf
<1>6. ticket' \in Tickets
  BY <1>2, <1>4, <1>5 DEF Tickets
<1>7. TicketTypeOK'
  BY <1>2, <1>3, <1>6 DEF TicketTypeOK
<1>8. RoundsFail'
  <2> SUFFICES ASSUME past' # "resumed" PROVE RoundsFail'
    BY DEF RoundsFail
  <2>1. past # "resumed"
    BY <1>2
  <2>2. r = f
    BY <1>1, <2>1 DEF RoundsFail, r, f
  <2>3. past' = "unsolved" => ~solved
    BY <1>2
  <2>4. /\ past' = "unsolved" => ticket'.round = ticket'.failures
        /\ ticket'.status \notin Ended => ticket'.round < MaxRounds
    BY <1>1, <1>2, <1>4, <2>2, <2>3
  <2>5. \A q \in TicketCalls : ticketCall'[q].pc \in {"skip", "ask"} =>
           ticketCall'[q].round = ticketCall'[q].failures
    BY <1>3, <2>1 DEF RoundsFail, OutOfDate
  <2> QED BY <2>4, <2>5 DEF RoundsFail
<1>9. ReplyToOpen'
  BY <1>3 DEF ReplyToOpen, OutOfDate
<1> QED BY <1>7, <1>8, <1>9

LEMMA TicketInvInit == TicketInit => TicketInv
<1> SUFFICES ASSUME TicketInit PROVE TicketInv OBVIOUS
<1>1. TicketIdle \in TicketCallStates /\ TicketIdle.pc = "idle"
  BY DEF TicketCallStates, TicketIdle
<1>2. 0 \in 0..MaxRepeats /\ 0 \in 0..MaxTicketDeaths /\ 0 < MaxRounds
  BY TicketAssumption
<1>3. TicketTypeOK
  BY <1>1, <1>2 DEF TicketInit, TicketTypeOK, Tickets
<1>4. RoundsFail /\ ReplyToOpen
  BY <1>1, <1>2 DEF TicketInit, RoundsFail, ReplyToOpen
<1> QED BY <1>3, <1>4 DEF TicketInv

LEMMA TicketInvStep == TicketInv /\ [TicketNext]_ticketVars => TicketInv'
BY TicketSteps, CallSteps, AnswerStep DEF TicketNext

\* However rounds, replies and repeated greetings overlap, a parent who is refused
\* further replies has a ticket that is closed or escalated, unless a round was run
\* on a ticket the AI had solved before.
THEOREM RoundsEnd == TicketSpec => [](TicketTypeOK /\ RoundsEndTheTicket)
<1>1. TicketInv => TicketTypeOK /\ RoundsEndTheTicket
  <2> SUFFICES ASSUME TicketInv PROVE RoundsEndTheTicket
    BY DEF TicketInv
  <2>1. ticket.round \in Nat /\ MaxRounds \in Nat
    BY TicketAssumption DEF TicketInv, TicketTypeOK, Tickets
  <2> QED BY <2>1 DEF TicketInv, RoundsFail, RoundsEndTheTicket
<1> QED BY <1>1, TicketInvInit, TicketInvStep, PTL DEF TicketSpec

\* Only a reply that was overtaken takes an ended ticket back into the conversation.
THEOREM RepliesReopenOnlyLate == TicketSpec => ReplyReopensOnlyWhenOvertaken
<1> DEFINE OnlyLate ==
             \A p \in TicketCalls :
                (/\ ticket.status \in Ended /\ ticket'.status = "awaiting_user_feedback"
                 /\ ticketCall[p].pc = "ask" /\ ticketCall'[p] = TicketIdle
                 /\ ticketCall[p].op = "reply") => ticketCall[p].stale
<1>1. TicketInv /\ [TicketNext]_ticketVars => [OnlyLate]_ticketVars
  BY DEF TicketInv, ReplyToOpen
<1>2. TicketSpec => [][OnlyLate]_ticketVars
  BY <1>1, TicketInvInit, TicketInvStep, PTL DEF TicketSpec
<1> QED BY <1>2 DEF ReplyReopensOnlyWhenOvertaken

-----------------------------------------------------------------------------
(* The rate limiter.                                                       *)

EntryOf(b) == IF b = "firestore" THEN counter ELSE memory[b]

\* The requests of one window of one counter that were not late.
OnTime(b, w) == {a \in admitted : a.by = b /\ ~a.late /\ a.window = w}

\* The counters the property speaks of.
Keeps(b) == b = "firestore" \/ 2 * Window <= CacheTtl

\* Only the counter that does not exist has counted nothing.
EntriesOpened ==
    \A b \in Counters : \/ EntryOf(b).windowStart = -Window - 1
                        \/ EntryOf(b).count > 0 /\ EntryOf(b).windowStart >= 0

InTheirWindow == \A a \in admitted : ~a.late => a.at \in a.window..(a.window + Window)

\* Every window but the current one was over when the current one began; after a
\* cleanup, and in a window that a late request opened, a whole window before any
\* request that is not late.
WindowsBehind ==
    \A b \in Counters : Keeps(b) =>
        \A a \in admitted : a.by = b /\ ~a.late =>
            \/ b \notin openedLate /\ a.window = EntryOf(b).windowStart
            \/ a.window + Window < EntryOf(b).windowStart
            \/ /\ b \in openedLate \/ EntryOf(b).windowStart = -Window - 1
               /\ a.window + 2 * Window < time

WindowsApart ==
    \A a, o \in admitted : a.by = o.by /\ Keeps(a.by) /\ ~a.late /\ ~o.late =>
        \/ a.window = o.window
        \/ a.window + Window < o.window
        \/ o.window + Window < a.window

CurrentCounted ==
    \A b \in Counters : b \notin openedLate /\ Keeps(b) =>
        Cardinality(OnTime(b, EntryOf(b).windowStart)) <= EntryOf(b).count

WindowsFull ==
    \A b \in Counters, w \in 0..MaxTime : Keeps(b) => Cardinality(OnTime(b, w)) <= MaxRequests

\* The request that opened a window is one of those it counts.
OpeningCurrent ==
    \A b \in Counters : b \notin openedLate /\ EntryOf(b).windowStart # -Window - 1 =>
        \E o \in OnTime(b, EntryOf(b).windowStart) : o.at = o.window
OpeningCounted == \A a \in admitted : ~a.late => \E o \in OnTime(a.by, a.window) : o.at = o.window

Windows == /\ EntriesOpened /\ InTheirWindow
           /\ WindowsBehind /\ WindowsApart
           /\ CurrentCounted /\ WindowsFull
           /\ OpeningCurrent /\ OpeningCounted

LimiterInv == LimiterTypeOK /\ Windows

-----------------------------------------------------------------------------
LEMMA EntryTyped ==
    ASSUME LimiterTypeOK, NEW b \in Counters
    PROVE  EntryOf(b) \in Entry
BY DEF LimiterTypeOK, EntryOf, Counters

LEMMA OnTimeFinite ==
    ASSUME LimiterTypeOK, NEW b, NEW w
    PROVE  IsFiniteSet(OnTime(b, w)) /\ Cardinality(OnTime(b, w)) \in Nat
<1>1. IsFiniteSet(OnTime(b, w))
  BY FS_Subset DEF LimiterTypeOK, OnTime
<1> QED BY <1>1, FS_CardinalityType

LEMMA WindowsInit == LimiterInit => LimiterInv
<1> SUFFICES ASSUME LimiterInit PROVE LimiterInv OBVIOUS
<1>1. NoEntry \in Entry
  BY LimiterAssumption DEF NoEntry, Entry
<1>2. IsFiniteSet(admitted)
  BY FS_EmptySet DEF LimiterInit
<1>3. LimiterTypeOK
  BY <1>1, <1>2, LimiterAssumption DEF LimiterInit, LimiterTypeOK, Counters
<1>4. \A b \in Counters : EntryOf(b) = NoEntry
  BY DEF LimiterInit, EntryOf, Counters
<1>5. \A b, w : OnTime(b, w) = {} /\ Cardinality(OnTime(b, w)) = 0
  BY FS_EmptySet DEF LimiterInit, OnTime
<1>6. EntriesOpened /\ OpeningCurrent
  BY <1>4 DEF EntriesOpened, OpeningCurrent, NoEntry
<1>7. InTheirWindow /\ WindowsBehind /\ WindowsApart /\ OpeningCounted
  BY DEF LimiterInit, InTheirWindow, WindowsBehind, WindowsApart, OpeningCounted
<1>8. CurrentCounted
  BY <1>4, <1>5 DEF CurrentCounted, NoEntry
<1>9. WindowsFull
  BY <1>5, LimiterAssumption DEF WindowsFull
<1> QED BY <1>3, <1>6, <1>7, <1>8, <1>9 DEF LimiterInv, Windows

\* Steps that let nobody in: the windows stay, and time may pass.
LEMMA NobodyIn ==
    ASSUME LimiterInv, LimiterTypeOK', UNCHANGED <<admitted, openedLate>>,
           time' = time \/ time' = time + 1,
           \A b \in Counters : /\ EntryOf(b)'.count = EntryOf(b).count
                               /\ EntryOf(b)'.windowStart = EntryOf(b).windowStart
    PROVE  LimiterInv'
<1> USE DEF LimiterInv, Windows
<1>1. \A b, w : OnTime(b, w)' = OnTime(b, w)
  BY DEF OnTime
<1>2. EntriesOpened' /\ InTheirWindow'
  BY DEF EntriesOpened, InTheirWindow
<1>3. WindowsBehind'
  <2> SUFFICES ASSUME NEW b \in Counters, Keeps(b), NEW a \in admitted, a.by = b, ~a.late
               PROVE  \/ b \notin openedLate /\ a.window = EntryOf(b)'.windowStart
                      \/ a.window + Window < EntryOf(b)'.windowStart
                      \/ /\ b \in openedLate \/ EntryOf(b)'.windowStart = -Window - 1
                         /\ a.window + 2 * Window < time'
    BY DEF WindowsBehind, Keeps
  <2>1. a.window \in Nat /\ time \in Nat
    BY LimiterAssumption DEF LimiterTypeOK
  <2>2. \/ b \notin openedLate /\ a.window = EntryOf(b).windowStart
        \/ a.window + Window < EntryOf(b).windowStart
        \/ /\ b \in openedLate \/ EntryOf(b).windowStart = -Window - 1
           /\ a.window + 2 * Window < time
    BY DEF WindowsBehind
  <2>3. a.window + 2 * Window < time => a.window + 2 * Window < time'
    BY <2>1, LimiterAssumption
  <2> QED BY <2>2, <2>3
<1>4. WindowsApart'
  BY DEF WindowsApart, Keeps
<1>5. CurrentCounted'
  BY <1>1 DEF CurrentCounted, Keeps
<1>6. WindowsFull'
  BY <1>1 DEF WindowsFull, Keeps
<1>7. OpeningCurrent'
  BY <1>1 DEF OpeningCurrent
<1>8. OpeningCounted'
  BY <1>1 DEF OpeningCounted
<1> QED BY <1>2, <1>3, <1>4, <1>5, <1>6, <1>7, <1>8

\* The cleanup drops an entry whose window, and one more, are over.
LEMMA CleanUpInv ==
    ASSUME LimiterInv, NEW i \in Instances, CleanUp(i)
    PROVE  LimiterInv'
<1> USE DEF LimiterInv, Windows
<1>1. /\ i # "firestore" /\ i \in Counters
      /\ UNCHANGED <<time, counter, check, admitted, openedLate>>
      /\ \A b \in Counters : EntryOf(b)' = IF b = i THEN NoEntry ELSE EntryOf(b)
      /\ EntryOf(i) = memory[i] /\ EntryOf(i).windowStart + CacheTtl < time
  BY LimiterAssumption DEF CleanUp, LimiterTypeOK, EntryOf, Counters
<1>2. NoEntry \in Entry /\ NoEntry.windowStart = -Window - 1 /\ NoEntry.count = 0
  BY LimiterAssumption DEF NoEntry, Entry
<1>3. LimiterTypeOK'
  BY <1>2 DEF CleanUp, LimiterTypeOK
<1>4. \A b, w : OnTime(b, w)' = OnTime(b, w)
  BY <1>1 DEF OnTime
<1>5. \A b \in Counters : b # i => EntryOf(b)' = EntryOf(b)
  BY <1>1
<1>6. EntryOf(i)' = NoEntry
  BY <1>1
<1>7. EntriesOpened' /\ InTheirWindow'
  BY <1>1, <1>2, <1>5, <1>6 DEF EntriesOpened, InTheirWindow
<1>8. WindowsBehind'
  <2> SUFFICES ASSUME NEW b \in Counters, Keeps(b), NEW a \in admitted, a.by = b, ~a.late
               PROVE  \/ b \notin openedLate /\ a.window = EntryOf(b)'.windowStart
                      \/ a.window + Window < EntryOf(b)'.windowStart
                      \/ /\ b \in openedLate \/ EntryOf(b)'.windowStart = -Window - 1
                         /\ a.window + 2 * Window < time
    BY <1>1 DEF WindowsBehind, Keeps
  <2>1. \/ b \notin openedLate /\ a.window = EntryOf(b).windowStart
        \/ a.window + Window < EntryOf(b).windowStart
        \/ /\ b \in openedLate \/ EntryOf(b).windowStart = -Window - 1
           /\ a.window + 2 * Window < time
    BY DEF WindowsBehind
  <2>2. CASE b = i
    <3>1. a.window \in Nat /\ time \in Nat /\ EntryOf(i).windowStart \in Int
      BY <1>1, EntryTyped, LimiterAssumption DEF LimiterTypeOK, Entry
    <3>2. 2 * Window <= CacheTtl
      BY <1>1, <2>2 DEF Keeps
    <3>3. a.window + 2 * Window < time
      BY <1>1, <2>1, <2>2, <3>1, <3>2, LimiterAssumption
    <3> QED BY <1>2, <1>6, <2>2, <3>3
  <2>3. CASE b # i
    BY <1>5, <2>1, <2>3
  <2> QED BY <2>2, <2>3
<1>9. WindowsApart' /\ OpeningCounted'
  BY <1>1, <1>4 DEF WindowsApart, OpeningCounted, Keeps
<1>10. CurrentCounted'
  <2> SUFFICES ASSUME NEW b \in Counters, b \notin openedLate, Keeps(b)
               PROVE  Cardinality(OnTime(b, EntryOf(b)'.windowStart)) <= EntryOf(b)'.count
    BY <1>1, <1>4 DEF CurrentCounted, Keeps
  <2>1. CASE b = i
    <3>1. OnTime(b, -Window - 1) = {}
      BY LimiterAssumption DEF OnTime, LimiterTypeOK
    <3> QED BY <1>2, <1>6, <2>1, <3>1, FS_EmptySet
  <2>2. CASE b # i
    BY <1>5, <2>2 DEF CurrentCounted
  <2> QED BY <2>1, <2>2
<1>11. WindowsFull'
  BY <1>4 DEF WindowsFull, Keeps
<1>12. OpeningCurrent'
  <2> SUFFICES ASSUME NEW b \in Counters, b \notin openedLate,
                      EntryOf(b)'.windowStart # -Window - 1
               PROVE  \E o \in OnTime(b, EntryOf(b)'.windowStart) : o.at = o.window
    BY <1>1, <1>4 DEF OpeningCurrent
  <2>1. b # i
    BY <1>2, <1>6
  <2> QED BY <1>5, <2>1 DEF OpeningCurrent
<1> QED BY <1>3, <1>7, <1>8, <1>9, <1>10, <1>11, <1>12

\* A verdict is one of three, for the shared document as for the memory.
Refuses(v, e, now) ==
    /\ ~v.allowed /\ v.entry \in Entry
    /\ v.entry.count = e.count /\ v.entry.windowStart = e.windowStart
Opens(v, e, now) ==
    /\ v.allowed /\ v.entry = Opened(now) /\ now > e.windowStart + Window
Joins(v, e, now) ==
    /\ v.allowed /\ v.entry = [e EXCEPT !.count = @ + 1]
    /\ now <= e.windowStart + Window /\ e.count < MaxRequests
    /\ v.entry # Opened(now) /\ v.entry \in Entry

LEMMA Verdicts ==
    ASSUME NEW e \in Entry, NEW now \in 0..MaxTime,
           e.windowStart = -Window - 1 \/ e.count > 0,
           NEW v \in {FirestoreJudges(e, now), MemoryJudges(e, now)}
    PROVE  Refuses(v, e, now) \/ Opens(v, e, now) \/ Joins(v, e, now)
<1> USE LimiterAssumption
<1>1. /\ e.count \in 0..MaxRequests /\ e.windowStart \in (-Window - 1)..MaxTime
      /\ e.blockedUntil \in 0..(MaxTime + Window)
  BY DEF Entry
<1>2. CASE v = [entry |-> e, allowed |-> FALSE]
  BY <1>2 DEF Refuses
<1>3. CASE NewWindow(e, now) /\ v = [entry |-> Opened(now), allowed |-> TRUE]
  BY <1>1, <1>3 DEF Opens, NewWindow
<1>4. CASE ~NewWindow(e, now) /\ v = InWindow(e, now)
  <2>1. now <= e.windowStart + Window /\ e.count > 0
    BY <1>1, <1>4 DEF NewWindow
  <2>2. CASE Full(e)
    <3>1. v = [entry |-> [e EXCEPT !.blockedUntil = now + Window], allowed |-> FALSE]
      BY <1>4, <2>2 DEF InWindow
    <3>2. now + Window \in 0..(MaxTime + Window)
      OBVIOUS
    <3> QED BY <3>1, <3>2 DEF Refuses, Entry
  <2>3. CASE ~Full(e)
    <3>1. v = [entry |-> [e EXCEPT !.count = e.count + 1], allowed |-> TRUE]
      BY <1>4, <2>3 DEF InWindow
    <3>2. e.count < MaxRequests /\ e.count + 1 \in 0..MaxRequests /\ e.count + 1 # 1
      BY <1>1, <2>1, <2>3 DEF Full
    <3>3. [e EXCEPT !.count = e.count + 1].count = e.count + 1
      BY DEF Entry
    <3>4. [e EXCEPT !.count = e.count + 1] # Opened(now)
      BY <3>2, <3>3 DEF Opened
    <3>5. [e EXCEPT !.count = e.count + 1] \in Entry
      BY <3>2 DEF Entry
    <3> QED BY <2>1, <3>1, <3>2, <3>4, <3>5 DEF Joins
  <2> QED BY <2>2, <2>3
<1> QED BY <1>2, <1>3, <1>4 DEF FirestoreJudges, MemoryJudges

\* A request let in late changes what no on-time request counts.
LEMMA OnTimeAdds ==
    ASSUME NEW r, admitted' = admitted \cup {r}
    PROVE  \A b, w : OnTime(b, w)' =
               IF r.by = b /\ ~r.late /\ r.window = w THEN OnTime(b, w) \cup {r}
                                                      ELSE OnTime(b, w)
BY DEF OnTime

\* A request opens a window.
LEMMA OpensInv ==
    ASSUME LimiterInv, LimiterTypeOK', NEW b \in Counters, NEW now \in 0..MaxTime, NEW v,
           Opens(v, EntryOf(b), now), Admit(b, v, now), time' = time,
           \A c \in Counters : EntryOf(c)' = IF c = b THEN v.entry ELSE EntryOf(c)
    PROVE  LimiterInv'
<1> USE LimiterAssumption DEF LimiterInv, Windows
<1> DEFINE r == [by |-> b, at |-> now, window |-> v.entry.windowStart,
                 nth |-> Cardinality(admitted),
                 late |-> \/ now < v.entry.windowStart
                          \/ Late(now)
                          \/ b \in openedLate']
<1>1. /\ admitted' = admitted \cup {r}
      /\ v.entry.windowStart = now /\ v.entry.count = 1
      /\ Late(now) => openedLate' = openedLate \cup {b}
      /\ ~Late(now) => openedLate' = openedLate \ {b}
  BY DEF Admit, Opens, Opened
<1>2. r.by = b /\ r.at = now /\ r.window = now
  BY <1>1
<1>3. Late(now) => r.late
  OBVIOUS
<1>4. ~Late(now) => ~r.late
  BY <1>1
<1> HIDE DEF r
<1>5. /\ \A c \in Counters : c # b => EntryOf(c)' = EntryOf(c)
      /\ EntryOf(b)'.windowStart = now /\ EntryOf(b)'.count = 1
      /\ \A c \in Counters : c # b => (c \in openedLate' <=> c \in openedLate)
      /\ b \in openedLate' <=> Late(now)
  BY <1>1
<1>6. /\ EntryOf(b).windowStart \in Int /\ time \in Nat /\ now \in Nat
      /\ \A a \in admitted : a.window \in Nat
      /\ now > EntryOf(b).windowStart + Window
  BY EntryTyped DEF LimiterTypeOK, Entry, Opens
<1>7. \A c, w : OnTime(c, w)' =
          IF r.by = c /\ ~r.late /\ r.window = w THEN OnTime(c, w) \cup {r} ELSE OnTime(c, w)
  BY <1>1, OnTimeAdds
\* What came before is over.
<1>8. ASSUME NEW a \in admitted, a.by = b, ~a.late, Keeps(b)
      PROVE  \/ a.window + Window < now
             \/ Late(now) /\ a.window + 2 * Window < time
  <2>1. \/ a.window = EntryOf(b).windowStart
        \/ a.window + Window < EntryOf(b).windowStart
        \/ a.window + 2 * Window < time
    BY <1>8 DEF WindowsBehind
  <2>2. ~Late(now) => time - Window <= now
    BY <1>6 DEF Late
  <2> QED BY <1>6, <2>1, <2>2
<1>9. EntriesOpened'
  BY <1>5 DEF EntriesOpened
<1>10. InTheirWindow'
  <2>1. r.at \in r.window..(r.window + Window)
    BY <1>2
  <2> QED BY <1>1, <2>1 DEF InTheirWindow
<1>11. WindowsBehind'
  <2> SUFFICES ASSUME NEW c \in Counters, Keeps(c), NEW a \in admitted', a.by = c, ~a.late
               PROVE  \/ c \notin openedLate' /\ a.window = EntryOf(c)'.windowStart
                      \/ a.window + Window < EntryOf(c)'.windowStart
                      \/ /\ c \in openedLate' \/ EntryOf(c)'.windowStart = -Window - 1
                         /\ a.window + 2 * Window < time
    BY DEF WindowsBehind, Keeps
  <2>1. CASE a = r
    BY <1>2, <1>3, <1>5, <2>1
  <2>2. CASE a \in admitted /\ c = b
    BY <1>5, <1>8, <2>2
  <2>3. CASE a \in admitted /\ c # b
    BY <1>5, <2>3 DEF WindowsBehind
  <2> QED BY <1>1, <2>1, <2>2, <2>3
<1>12. WindowsApart'
  <2>1. ASSUME NEW a \in admitted, a.by = b, ~a.late, ~r.late, Keeps(b)
        PROVE  a.window + Window < r.window
    BY <1>2, <1>3, <1>8, <2>1
  <2> QED BY <1>1, <1>2, <2>1 DEF WindowsApart, Keeps
<1>13. ~r.late /\ Keeps(b) => OnTime(b, now) = {}
  <2> SUFFICES ASSUME ~r.late, Keeps(b), NEW a \in OnTime(b, now) PROVE FALSE
    OBVIOUS
  <2>1. a \in admitted /\ a.by = b /\ ~a.late /\ a.window = now
    BY DEF OnTime
  <2>2. a.window + Window < now
    BY <1>3, <1>8, <2>1
  <2> QED BY <1>6, <2>1, <2>2
<1>14. ~r.late /\ Keeps(b) => Cardinality(OnTime(b, now)') = 1
  <2> SUFFICES ASSUME ~r.late, Keeps(b) PROVE Cardinality(OnTime(b, now)') = 1
    OBVIOUS
  <2>1. OnTime(b, now)' = OnTime(b, now) \cup {r}
    BY <1>2, <1>7
  <2>2. OnTime(b, now)' = {r}
    BY <1>13, <2>1
  <2> QED BY <2>2, FS_Singleton
<1>15. CurrentCounted'
  <2> SUFFICES ASSUME NEW c \in Counters, c \notin openedLate', Keeps(c)
               PROVE  Cardinality(OnTime(c, EntryOf(c).windowStart)') <= EntryOf(c)'.count
    BY DEF CurrentCounted, Keeps
  <2>1. CASE c = b
    BY <1>4, <1>5, <1>14, <2>1
  <2>2. CASE c # b
    BY <1>2, <1>5, <1>7, <2>2 DEF CurrentCounted
  <2> QED BY <2>1, <2>2
<1>16. WindowsFull'
  <2> SUFFICES ASSUME NEW c \in Counters, NEW w \in 0..MaxTime, Keeps(c)
               PROVE  Cardinality(OnTime(c, w)') <= MaxRequests
    BY DEF WindowsFull, Keeps
  <2>1. CASE r.by = c /\ ~r.late /\ r.window = w
    BY <1>2, <1>14, <2>1
  <2>2. CASE ~(r.by = c /\ ~r.late /\ r.window = w)
    BY <1>7, <2>2 DEF WindowsFull
  <2> QED BY <2>1, <2>2
<1>17. OpeningCurrent'
  <2> SUFFICES ASSUME NEW c \in Counters, c \notin openedLate',
                      EntryOf(c)'.windowStart # -Window - 1
               PROVE  \E o \in OnTime(c, EntryOf(c).windowStart)' : o.at = o.window
    BY DEF OpeningCurrent
  <2>1. CASE c = b
    <3>1. r \in OnTime(b, now)'
      BY <1>1, <1>2, <1>4, <1>5, <2>1 DEF OnTime
    <3> QED BY <1>2, <1>5, <2>1, <3>1
  <2>2. CASE c # b
    BY <1>2, <1>5, <1>7, <2>2 DEF OpeningCurrent
  <2> QED BY <2>1, <2>2
<1>18. OpeningCounted'
  <2> SUFFICES ASSUME NEW a \in admitted', ~a.late
               PROVE  \E o \in OnTime(a.by, a.window)' : o.at = o.window
    BY DEF OpeningCounted
  <2>1. CASE a = r
    BY <1>1, <1>2, <2>1 DEF OnTime
  <2>2. CASE a \in admitted
    BY <1>7, <2>2 DEF OpeningCounted
  <2> QED BY <1>1, <2>1, <2>2
<1> QED BY <1>9, <1>10, <1>11, <1>12, <1>15, <1>16, <1>17, <1>18

\* A request joins the current window.
LEMMA JoinsInv ==
    ASSUME LimiterInv, LimiterTypeOK', NEW b \in Counters, NEW now \in 0..MaxTime, NEW v,
           Joins(v, EntryOf(b), now), Admit(b, v, now), time' = time,
           \A c \in Counters : EntryOf(c)' = IF c = b THEN v.entry ELSE EntryOf(c)
    PROVE  LimiterInv'
<1> USE LimiterAssumption DEF LimiterInv, Windows
<1> DEFINE r == [by |-> b, at |-> now, window |-> v.entry.windowStart,
                 nth |-> Cardinality(admitted),
                 late |-> \/ now < v.entry.windowStart
                          \/ Late(now)
                          \/ b \in openedLate']
<1>0. EntryOf(b) \in Entry
  BY EntryTyped
<1>s. PICK start \in Int : start = EntryOf(b).windowStart
  BY <1>0 DEF Entry
<1>1. /\ admitted' = admitted \cup {r} /\ openedLate' = openedLate
      /\ v.entry.windowStart = start /\ v.entry.count = EntryOf(b).count + 1
  BY <1>0, <1>s DEF Admit, Joins, Entry
<1>2. /\ r.by = b /\ r.at = now /\ r.window = start
      /\ ~r.late => now >= start /\ b \notin openedLate
  BY <1>0, <1>1 DEF Entry
<1> HIDE DEF r
<1>3. /\ \A c \in Counters : c # b => EntryOf(c)' = EntryOf(c)
      /\ EntryOf(b)'.windowStart = start /\ EntryOf(b)'.count = EntryOf(b).count + 1
  BY <1>1
<1>4. /\ start \in Int /\ time \in Nat /\ now \in Nat
      /\ \A a \in admitted : a.window \in Nat
      /\ EntryOf(b).count \in Nat /\ EntryOf(b).count < MaxRequests
      /\ now <= start + Window /\ start # -Window - 1
  BY <1>0, <1>s DEF LimiterTypeOK, Entry, Joins
<1>5. \A c, w : OnTime(c, w)' =
          IF r.by = c /\ ~r.late /\ r.window = w THEN OnTime(c, w) \cup {r} ELSE OnTime(c, w)
  BY <1>1, OnTimeAdds
\* The window of an on-time request is the newest.
<1>6. ASSUME NEW a \in admitted, a.by = b, ~a.late, ~r.late, Keeps(b)
      PROVE  a.window = start \/ a.window + Window < start
  BY <1>s, <1>2, <1>4, <1>6 DEF WindowsBehind
<1>7. ~r.late /\ Keeps(b) =>
          /\ Cardinality(OnTime(b, start)') <= EntryOf(b).count + 1
          /\ Cardinality(OnTime(b, start)') <= MaxRequests
  <2> SUFFICES ASSUME ~r.late, Keeps(b)
               PROVE  /\ Cardinality(OnTime(b, start) \cup {r}) <= EntryOf(b).count + 1
                      /\ Cardinality(OnTime(b, start) \cup {r}) <= MaxRequests
    BY <1>2, <1>5
  <2>1. Cardinality(OnTime(b, start)) <= EntryOf(b).count
    BY <1>s, <1>2 DEF CurrentCounted
  <2>2. /\ IsFiniteSet(OnTime(b, start)) /\ Cardinality(OnTime(b, start)) \in Nat
        /\ Cardinality(OnTime(b, start) \cup {r}) =
              IF r \in OnTime(b, start) THEN Cardinality(OnTime(b, start))
                                        ELSE Cardinality(OnTime(b, start)) + 1
    BY OnTimeFinite, FS_AddElement
  <2> QED BY <1>4, <2>1, <2>2
<1>8. EntriesOpened'
  <2>1. EntryOf(b)'.count > 0 /\ EntryOf(b)'.windowStart >= 0
    BY <1>s, <1>3, <1>4 DEF EntriesOpened
  <2> QED BY <1>3, <2>1 DEF EntriesOpened
<1>9. InTheirWindow'
  <2>1. ~r.late => r.at \in r.window..(r.window + Window)
    BY <1>2, <1>4
  <2> QED BY <1>1, <2>1 DEF InTheirWindow
<1>10. WindowsBehind'
  <2> SUFFICES ASSUME NEW c \in Counters, Keeps(c), NEW a \in admitted', a.by = c, ~a.late
               PROVE  \/ c \notin openedLate /\ a.window = EntryOf(c)'.windowStart
                      \/ a.window + Window < EntryOf(c)'.windowStart
                      \/ /\ c \in openedLate \/ EntryOf(c)'.windowStart = -Window - 1
                         /\ a.window + 2 * Window < time
    BY <1>1 DEF WindowsBehind, Keeps
  <2>1. CASE a = r
    BY <1>2, <1>3, <2>1
  <2>2. CASE a \in admitted
    <3>1. \/ c \notin openedLate /\ a.window = EntryOf(c).windowStart
          \/ a.window + Window < EntryOf(c).windowStart
          \/ /\ c \in openedLate \/ EntryOf(c).windowStart = -Window - 1
             /\ a.window + 2 * Window < time
      BY <2>2 DEF WindowsBehind
    <3>2. EntryOf(c)'.windowStart = EntryOf(c).windowStart
      BY <1>s, <1>3
    <3> QED BY <3>1, <3>2
  <2> QED BY <1>1, <2>1, <2>2
<1>11. WindowsApart'
  <2>1. ASSUME NEW a \in admitted, a.by = b, ~a.late, ~r.late, Keeps(b)
        PROVE  a.window = r.window \/ a.window + Window < r.window
    BY <1>2, <1>6, <2>1
  <2> QED BY <1>1, <1>2, <2>1 DEF WindowsApart, Keeps
<1>12. CurrentCounted'
  <2> SUFFICES ASSUME NEW c \in Counters, c \notin openedLate, Keeps(c)
               PROVE  Cardinality(OnTime(c, EntryOf(c).windowStart)') <= EntryOf(c)'.count
    BY <1>1 DEF CurrentCounted, Keeps
  <2>1. CASE c = b /\ ~r.late
    BY <1>s, <1>3, <1>7, <2>1
  <2>2. CASE c = b /\ r.late
    <3>1. OnTime(b, start)' = OnTime(b, start)
      BY <1>5, <2>2
    <3>2. Cardinality(OnTime(b, start)) <= EntryOf(b).count
      BY <1>s, <2>2 DEF CurrentCounted
    <3>3. Cardinality(OnTime(b, start)) \in Nat
      BY OnTimeFinite
    <3> QED BY <1>s, <1>3, <1>4, <2>2, <3>1, <3>2, <3>3
  <2>3. CASE c # b
    BY <1>2, <1>3, <1>5, <2>3 DEF CurrentCounted
  <2> QED BY <2>1, <2>2, <2>3
<1>13. WindowsFull'
  <2> SUFFICES ASSUME NEW c \in Counters, NEW w \in 0..MaxTime, Keeps(c)
               PROVE  Cardinality(OnTime(c, w)') <= MaxRequests
    BY DEF WindowsFull, Keeps
  <2>1. CASE r.by = c /\ ~r.late /\ r.window = w
    BY <1>2, <1>7, <2>1
  <2>2. CASE ~(r.by = c /\ ~r.late /\ r.window = w)
    BY <1>5, <2>2 DEF WindowsFull
  <2> QED BY <2>1, <2>2
<1>14. \A c, w : OnTime(c, w) \subseteq OnTime(c, w)'
  BY <1>5
<1>15. OpeningCurrent'
  <2> SUFFICES ASSUME NEW c \in Counters, c \notin openedLate,
                      EntryOf(c)'.windowStart # -Window - 1
               PROVE  \E o \in OnTime(c, EntryOf(c).windowStart)' : o.at = o.window
    BY <1>1 DEF OpeningCurrent
  <2>1. EntryOf(c)'.windowStart = EntryOf(c).windowStart
    BY <1>s, <1>3
  <2>2. \E o \in OnTime(c, EntryOf(c).windowStart) : o.at = o.window
    BY <2>1 DEF OpeningCurrent
  <2> QED BY <1>14, <2>1, <2>2
<1>16. OpeningCounted'
  <2> SUFFICES ASSUME NEW a \in admitted', ~a.late
               PROVE  \E o \in OnTime(a.by, a.window)' : o.at = o.window
    BY DEF OpeningCounted
  <2>1. CASE a = r
    <3>1. \E o \in OnTime(b, start) : o.at = o.window
      BY <1>s, <1>2, <1>4, <2>1 DEF OpeningCurrent
    <3> QED BY <1>2, <1>14, <2>1, <3>1
  <2>2. CASE a \in admitted
    BY <1>14, <2>2 DEF OpeningCounted
  <2> QED BY <1>1, <2>1, <2>2
<1> QED BY <1>8, <1>9, <1>10, <1>11, <1>12, <1>13, <1>15, <1>16

\* A check is judged by one of the counters.
LEMMA JudgedInv ==
    ASSUME LimiterInv, NEW b \in Counters, NEW now \in 0..MaxTime,
           NEW v \in {FirestoreJudges(EntryOf(b), now), MemoryJudges(EntryOf(b), now)},
           Admit(b, v, now), time' = time, check' \in [Checks -> {NoCheck} \cup
                [at : 0..MaxTime, instance : Instances]],
           \A c \in Counters : EntryOf(c)' = IF c = b THEN v.entry ELSE EntryOf(c),
           memory' \in [Instances -> Entry] \/ memory' = memory,
           counter' \in Entry \/ counter' = counter
    PROVE  LimiterInv'
<1> USE LimiterAssumption DEF LimiterInv
<1>1. EntryOf(b) \in Entry
  BY EntryTyped
<1>2. EntryOf(b).windowStart = -Window - 1 \/ EntryOf(b).count > 0
  BY DEF Windows, EntriesOpened
<1>3. Refuses(v, EntryOf(b), now) \/ Opens(v, EntryOf(b), now) \/ Joins(v, EntryOf(b), now)
  BY <1>1, <1>2, Verdicts
<1>4. /\ time' \in 0..MaxTime /\ counter' \in Entry /\ memory' \in [Instances -> Entry]
      /\ openedLate' \subseteq Counters
  BY DEF LimiterTypeOK, Admit
<1>5. CASE Refuses(v, EntryOf(b), now)
  <2>1. UNCHANGED <<admitted, openedLate>>
    BY <1>5 DEF Refuses, Admit
  <2>2. LimiterTypeOK'
    BY <1>4, <2>1 DEF LimiterTypeOK
  <2>3. \A c \in Counters : /\ EntryOf(c)'.count = EntryOf(c).count
                            /\ EntryOf(c)'.windowStart = EntryOf(c).windowStart
    BY <1>5 DEF Refuses
  <2> QED BY <2>1, <2>2, <2>3, NobodyIn
<1>6. ASSUME Opens(v, EntryOf(b), now) \/ Joins(v, EntryOf(b), now)
      PROVE  LimiterTypeOK'
  <2> DEFINE r == [by |-> b, at |-> now, window |-> v.entry.windowStart,
                   nth |-> Cardinality(admitted),
                   late |-> \/ now < v.entry.windowStart
                            \/ Late(now)
                            \/ b \in openedLate']
  <2>1. admitted' = admitted \cup {r} /\ Cardinality(admitted) < MaxAdmitted
    BY <1>6 DEF Opens, Joins, Admit
  <2>2. IsFiniteSet(admitted') /\ Cardinality(admitted) \in Nat
    BY <2>1, FS_AddElement, FS_CardinalityType DEF LimiterTypeOK
  <2>3. v.entry.windowStart \in 0..MaxTime
    <3>1. CASE Opens(v, EntryOf(b), now)
      BY <3>1 DEF Opens, Opened
    <3>2. CASE Joins(v, EntryOf(b), now)
      <4>1. v.entry.windowStart = EntryOf(b).windowStart /\ v.entry \in Entry
        BY <1>1, <3>2 DEF Joins, Entry
      <4>2. EntryOf(b).windowStart # -Window - 1
        BY <3>2 DEF Joins
      <4>3. EntryOf(b).windowStart >= 0
        BY <1>1, <4>2 DEF Windows, EntriesOpened, Entry
      <4> QED BY <1>1, <4>1, <4>3 DEF Entry
    <3> QED BY <1>6, <3>1, <3>2
  <2>4. r.late \in BOOLEAN
    OBVIOUS
  <2>5. r \in [by : Counters, at : 0..MaxTime, window : 0..MaxTime,
               nth : 0..MaxAdmitted, late : BOOLEAN]
    BY <2>1, <2>2, <2>3, <2>4
  <2> HIDE DEF r
  <2> QED BY <1>4, <2>1, <2>2, <2>5 DEF LimiterTypeOK
<1>7. CASE Opens(v, EntryOf(b), now)
  BY <1>6, <1>7, OpensInv
<1>8. CASE Joins(v, EntryOf(b), now)
  BY <1>6, <1>8, JoinsInv
<1> QED BY <1>3, <1>5, <1>7, <1>8

\* Whatever a counter judges, it stays an entry.
LEMMA JudgedEntry ==
    ASSUME NEW e \in Entry, NEW now \in 0..MaxTime,
           e.windowStart = -Window - 1 \/ e.count > 0,
           NEW v \in {FirestoreJudges(e, now), MemoryJudges(e, now)}
    PROVE  v.entry \in Entry
<1>1. Opened(now) \in Entry
  BY LimiterAssumption DEF Opened, Entry
<1>2. Refuses(v, e, now) \/ Opens(v, e, now) \/ Joins(v, e, now)
  BY Verdicts
<1>3. CASE Refuses(v, e, now)
  BY <1>3 DEF Refuses
<1>4. CASE Opens(v, e, now)
  BY <1>1, <1>4 DEF Opens
<1>5. CASE Joins(v, e, now)
  BY <1>5 DEF Joins
<1> QED BY <1>2, <1>3, <1>4, <1>5

LEMMA LimiterStep == LimiterInv /\ [LimiterNext]_limiterVars => LimiterInv'
<1> SUFFICES ASSUME LimiterInv, [LimiterNext]_limiterVars PROVE LimiterInv'
  OBVIOUS
<1> USE LimiterAssumption
<1>1. LimiterTypeOK
  BY DEF LimiterInv
\* What a check took when it started.
<1>2. ASSUME NEW p \in Checks, check[p] # NoCheck, EndCheck(p)
      PROVE  /\ check[p].at \in 0..MaxTime /\ check[p].instance \in Instances
             /\ check' \in [Checks -> {NoCheck} \cup [at : 0..MaxTime, instance : Instances]]
             /\ time' = time
  BY <1>1, <1>2 DEF LimiterTypeOK, EndCheck
<1>3. ASSUME NEW p \in Checks, NEW i \in Instances, StartCheck(p, i) PROVE LimiterInv'
  <2>1. LimiterTypeOK'
    BY <1>1, <1>3 DEF LimiterTypeOK, StartCheck
  <2>2. \A b \in Counters : EntryOf(b)' = EntryOf(b)
    BY <1>3 DEF StartCheck, EntryOf
  <2> QED BY <1>3, <2>1, <2>2, NobodyIn DEF StartCheck
<1>4. ASSUME NEW p \in Checks, CheckFirestore(p) PROVE LimiterInv'
  <2>1. PICK now \in 0..MaxTime : now = check[p].at
    BY <1>2, <1>4 DEF CheckFirestore
  <2>2. EntryOf("firestore") = counter /\ "firestore" \in Counters
    BY DEF EntryOf, Counters
  <2>3. PICK v : v = FirestoreJudges(counter, now)
    OBVIOUS
  <2>4. counter' = v.entry /\ Admit("firestore", v, now) /\ memory' = memory
    BY <1>4, <2>1, <2>3 DEF CheckFirestore
  <2>5. \A c \in Counters : EntryOf(c)' = IF c = "firestore" THEN v.entry ELSE EntryOf(c)
    BY <2>4 DEF EntryOf
  <2>7. v.entry \in Entry
    BY <2>2, <2>3, EntryTyped, JudgedEntry DEF LimiterInv, Windows, EntriesOpened
  <2> QED BY <1>2, <1>4, <2>2, <2>3, <2>4, <2>5, <2>7, JudgedInv DEF CheckFirestore
<1>5. ASSUME NEW p \in Checks, FallBack(p) PROVE LimiterInv'
  <2>1. PICK now \in 0..MaxTime, i \in Instances : now = check[p].at /\ i = check[p].instance
    BY <1>2, <1>5 DEF FallBack
  <2>2. EntryOf(i) = memory[i] /\ i \in Counters /\ i # "firestore"
    BY DEF EntryOf, Counters
  <2>3. PICK v : v = MemoryJudges(memory[i], now)
    OBVIOUS
  <2>4. memory' = [memory EXCEPT ![i] = v.entry] /\ Admit(i, v, now) /\ counter' = counter
    BY <1>5, <2>1, <2>3 DEF FallBack
  <2>5. \A c \in Counters : EntryOf(c)' = IF c = i THEN v.entry ELSE EntryOf(c)
    BY <1>1, <2>2, <2>4 DEF EntryOf, Counters, LimiterTypeOK
  <2>6. v.entry \in Entry
    BY <2>2, <2>3, EntryTyped, JudgedEntry DEF LimiterInv, Windows, EntriesOpened
  <2>7. memory' \in [Instances -> Entry]
    BY <1>1, <2>4, <2>6 DEF LimiterTypeOK
  <2> QED BY <1>2, <1>5, <2>1, <2>2, <2>3, <2>4, <2>5, <2>7, JudgedInv DEF FallBack
<1>6. ASSUME NEW i \in Instances, CleanUp(i) PROVE LimiterInv'
  BY <1>6, CleanUpInv
<1>7. CASE Tick
  <2>1. LimiterTypeOK'
    BY <1>1, <1>7 DEF LimiterTypeOK, Tick
  <2>2. \A b \in Counters : EntryOf(b)' = EntryOf(b)
    BY <1>7 DEF Tick, EntryOf
  <2> QED BY <1>7, <2>1, <2>2, NobodyIn DEF Tick
<1>8. CASE UNCHANGED limiterVars
  <2>1. LimiterTypeOK'
    BY <1>1, <1>8 DEF LimiterTypeOK, limiterVars
  <2>2. \A b \in Counters : EntryOf(b)' = EntryOf(b)
    BY <1>8 DEF limiterVars, EntryOf
  <2> QED BY <1>8, <2>1, <2>2, NobodyIn DEF limiterVars
<1> QED BY <1>3, <1>4, <1>5, <1>6, <1>7, <1>8 DEF LimiterNext

LEMMA LimiterAlways == LimiterSpec => []LimiterInv
BY WindowsInit, LimiterStep, PTL DEF LimiterSpec

\* Two windows share the requests of an interval as long as one, and the request
\* that opened the older came before the interval.
LEMMA TwoWindows ==
    ASSUME LimiterInv, NEW b \in Counters, Keeps(b), NEW start \in 0..time
    PROVE  Cardinality(Counted(b, start)) < 2 * MaxRequests
<1> USE LimiterAssumption DEF LimiterInv, Windows
<1> DEFINE S == Counted(b, start)
<1>1. \A a \in S : /\ a \in admitted /\ a.by = b /\ ~a.late
                   /\ a.window \in 0..MaxTime /\ a.at \in Int /\ a.at >= start
                   /\ a.at <= start + Window
                   /\ a.window <= a.at /\ a.at <= a.window + Window
                   /\ a \in OnTime(b, a.window)
  BY DEF Counted, LimiterTypeOK, InTheirWindow, OnTime
<1>2. IsFiniteSet(S)
  BY FS_Subset DEF Counted, LimiterTypeOK
<1>3. \A w \in 0..MaxTime : /\ IsFiniteSet(OnTime(b, w)) /\ Cardinality(OnTime(b, w)) \in Nat
                            /\ Cardinality(OnTime(b, w)) <= MaxRequests
  BY OnTimeFinite DEF WindowsFull
<1>4. CASE \A a, o \in S : a.window = o.window
  <2>1. CASE S = {}
    BY <2>1, FS_EmptySet
  <2>2. CASE S # {}
    <3>1. PICK w \in 0..MaxTime : \A a \in S : a.window = w
      BY <1>1, <1>4, <2>2
    <3>2. S \subseteq OnTime(b, w)
      BY <1>1, <3>1
    <3>3. Cardinality(S) \in Nat /\ Cardinality(S) <= Cardinality(OnTime(b, w))
      BY <1>3, <3>2, FS_Subset, FS_CardinalityType
    <3> QED BY <1>3, <3>3
  <2> QED BY <2>1, <2>2
<1>5. CASE \E a, o \in S : a.window # o.window
  <2>1. PICK a \in S, o \in S : a.window + Window < o.window
    BY <1>1, <1>5 DEF WindowsApart
  <2>2. PICK v \in 0..MaxTime, w \in 0..MaxTime : v = a.window /\ w = o.window
    BY <1>1
  <2>3. /\ v + Window < w /\ start <= v + Window /\ w <= start + Window
    BY <1>1, <2>1, <2>2
  \* No third window.
  <2>4. ASSUME NEW c \in S PROVE c.window = v \/ c.window = w
    <3>1. c.window = v \/ c.window + Window < v \/ v + Window < c.window
      BY <1>1, <2>2 DEF WindowsApart
    <3>2. c.window = w \/ c.window + Window < w \/ w + Window < c.window
      BY <1>1, <2>2 DEF WindowsApart
    <3>3. start <= c.window + Window /\ c.window <= start + Window /\ c.window \in Int
      BY <1>1
    <3> QED BY <2>3, <3>1, <3>2, <3>3
  <2>5. PICK f \in OnTime(b, v) : f.at = f.window
    BY <1>1, <2>2 DEF OpeningCounted
  <2>6. f \notin S /\ f.window = v
    <3>1. f.window = v
      BY DEF OnTime
    <3>2. f.at < start
      BY <2>3, <2>5, <3>1
    <3> QED BY <1>1, <2>3, <2>5, <3>1, <3>2
  <2>7. S \subseteq (OnTime(b, v) \ {f}) \cup OnTime(b, w)
    BY <1>1, <2>4, <2>6
  <2>8. /\ IsFiniteSet(OnTime(b, v) \ {f})
        /\ Cardinality(OnTime(b, v) \ {f}) = Cardinality(OnTime(b, v)) - 1
    BY <1>3, <2>5, FS_RemoveElement
  <2>9. /\ IsFiniteSet((OnTime(b, v) \ {f}) \cup OnTime(b, w))
        /\ Cardinality((OnTime(b, v) \ {f}) \cup OnTime(b, w))
              <= Cardinality(OnTime(b, v) \ {f}) + Cardinality(OnTime(b, w))
    <3> DEFINE X == OnTime(b, v) \ {f}
               Y == OnTime(b, w)
    <3>1. IsFiniteSet(X) /\ IsFiniteSet(Y) /\ Cardinality(X) \in Nat /\ Cardinality(Y) \in Nat
      BY <1>3, <2>8, FS_CardinalityType
    <3> HIDE DEF X, Y
    <3>2. IsFiniteSet(X \cap Y) /\ Cardinality(X \cap Y) \in Nat
      BY <3>1, FS_Intersection, FS_CardinalityType
    <3>3. /\ IsFiniteSet(X \cup Y)
          /\ Cardinality(X \cup Y) = Cardinality(X) + Cardinality(Y) - Cardinality(X \cap Y)
      BY <3>1, FS_Union
    <3>4. Cardinality(X \cup Y) <= Cardinality(X) + Cardinality(Y)
      BY <3>1, <3>2, <3>3
    <3> QED BY <3>3, <3>4 DEF X, Y
  <2>10. /\ Cardinality(S) \in Nat
         /\ Cardinality(S) <= Cardinality((OnTime(b, v) \ {f}) \cup OnTime(b, w))
    BY <1>2, <2>7, <2>9, FS_Subset, FS_CardinalityType
  <2>11. Cardinality((OnTime(b, v) \ {f}) \cup OnTime(b, w)) \in Nat
    BY <2>9, FS_CardinalityType
  <2> HIDE DEF S
  <2>12. Cardinality(S) < 2 * MaxRequests
    BY <1>3, <2>8, <2>9, <2>10, <2>11
  <2> QED BY <2>12 DEF S
<1> QED BY <1>4, <1>5

\* Every variable of the limiter keeps its type.
THEOREM LimiterTypes == LimiterSpec => []LimiterTypeOK
<1>1. LimiterInv => LimiterTypeOK
  BY DEF LimiterInv
<1> QED BY <1>1, LimiterAlways, PTL

\* checkDistributedRateLimit lets fewer than twice the limit of requests come
\* within any interval of one window, however checks, instances and the cleanup
\* interleave, when the requests that come late are left out.
THEOREM Budget == LimiterSpec => []WithinBudget
<1>1. LimiterInv => WithinBudget
  BY TwoWindows DEF WithinBudget, Keeps
<1> QED BY <1>1, LimiterAlways, PTL
=============================================================================
