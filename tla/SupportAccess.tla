--------------------------- MODULE SupportAccess ---------------------------
(***************************************************************************)
(* The access to a family's data that a support ticket gives               *)
(* (src/src/support.ts): grants of 48 hours in documents of their own, and *)
(* on the ticket the flag accessGranted with the ids of the last grant and *)
(* the last debug grant.  Grant and ticket are written one after the other *)
(* by a callable, and in one batch by the hourly cleanup.                  *)
(*                                                                         *)
(* Abstractions.  Whether the conversation awaits the debug consent is     *)
(* open here (SupportTicket has the conversation), as is what a round makes*)
(* of the data.  The parent's panels offer to revoke the grant that the    *)
(* ticket names.                                                           *)
(***************************************************************************)
EXTENDS Integers

CONSTANTS
    Grants,           \* documents of supportAccessGrants
    NoGrant,          \* "no grant"
    GrantCalls,       \* invocations in flight
    MaxGrantDeaths    \* bound: invocations that die

ASSUME AccessAssumption == NoGrant \notin Grants /\ MaxGrantDeaths \in Nat

VARIABLES
    access,           \* the ticket's flag and grant ids
    grant,            \* supportAccessGrants
    cleaning,         \* the grants cleanupExpiredGrants has found
    grantCall,        \* calls in flight
    grantDeaths

accessVars == <<access, grant, cleaning, grantCall, grantDeaths>>

GrantIdle == [pc |-> "idle"]
\* lapsed: expired or removed by a reader or the auto-fix, and not the cleanup.
GrantDocs == [status : {"none", "active", "revoked", "expired", "lapsed"},
              debug : BOOLEAN, overdue : BOOLEAN]

AccessTypeOK ==
    /\ access \in [granted : BOOLEAN, grant : Grants \cup {NoGrant},
                   debugGrant : Grants \cup {NoGrant}]
    /\ grant \in [Grants -> GrantDocs]
    /\ cleaning \subseteq Grants
    /\ grantCall \in [GrantCalls -> {GrantIdle} \cup [pc : {"collect"}]
                                    \cup [pc : {"link", "activate", "unlink"}, grant : Grants]]
    /\ grantDeaths \in 0..MaxGrantDeaths

AccessInit ==
    /\ access = [granted |-> FALSE, grant |-> NoGrant, debugGrant |-> NoGrant]
    /\ grant = [g \in Grants |-> [status |-> "none", debug |-> FALSE, overdue |-> FALSE]]
    /\ cleaning = {}
    /\ grantCall = [p \in GrantCalls |-> GrantIdle]
    /\ grantDeaths = 0

GrantGo(p, state) == grantCall' = [grantCall EXCEPT ![p] = state]

Active == {g \in Grants : grant[g].status = "active"}

-----------------------------------------------------------------------------
(* The parent's calls.                                                     *)

\* createSupportTicket with consent and grantSupportAccess (debug = FALSE), and
\* grantDebugAccess (debug = TRUE) add the grant, then write the ticket.
AddGrant(p, g, debug) ==
    /\ grantCall[p] = GrantIdle
    /\ grant[g].status = "none"
    /\ grant' = [grant EXCEPT ![g] = [status |-> "active", debug |-> debug, overdue |-> FALSE]]
    /\ GrantGo(p, [pc |-> IF debug THEN "activate" ELSE "link", grant |-> g])
    /\ UNCHANGED <<access, cleaning, grantDeaths>>

LinkGrant(p) ==
    /\ grantCall[p].pc = "link"
    /\ access' = [access EXCEPT !.granted = TRUE, !.grant = grantCall[p].grant]
    /\ GrantGo(p, GrantIdle)
    /\ UNCHANGED <<grant, cleaning, grantDeaths>>

\* A round with debug data follows at once.
LinkDebugGrant(p) ==
    LET g == grantCall[p].grant IN
    /\ grantCall[p].pc = "activate"
    /\ access' = [granted |-> TRUE, grant |-> g, debugGrant |-> g]
    /\ GrantGo(p, [pc |-> "collect"])
    /\ UNCHANGED <<grant, cleaning, grantDeaths>>

RevokeSupportAccess(p, g) ==
    /\ grantCall[p] = GrantIdle
    /\ g \in {access.grant, access.debugGrant} \ {NoGrant}
    /\ grant' = [grant EXCEPT ![g].status = "revoked"]
    /\ GrantGo(p, [pc |-> "unlink", grant |-> g])
    /\ UNCHANGED <<access, cleaning, grantDeaths>>

\* Variant: revoking leaves the ticket's flag alone.
UnlinkGrantNot(p) ==
    /\ grantCall[p].pc = "unlink"
    /\ GrantGo(p, GrantIdle)
    /\ UNCHANGED <<access, grant, cleaning, grantDeaths>>

UnlinkGrant(p) ==
    /\ grantCall[p].pc = "unlink"
    /\ access' = [access EXCEPT !.granted = FALSE]
    /\ GrantGo(p, GrantIdle)
    /\ UNCHANGED <<grant, cleaning, grantDeaths>>

GrantCallDies(p) ==
    /\ grantCall[p] # GrantIdle
    /\ grantDeaths < MaxGrantDeaths
    /\ grantDeaths' = grantDeaths + 1
    /\ GrantGo(p, GrantIdle)
    /\ UNCHANGED <<access, grant, cleaning>>

-----------------------------------------------------------------------------
(* The end of a grant.                                                     *)

\* 48 hours pass: no call takes that long.
GrantRunsOut(g) ==
    /\ g \in Active /\ ~grant[g].overdue
    /\ \A p \in GrantCalls : grantCall[p] = GrantIdle
    /\ grant' = [grant EXCEPT ![g].overdue = TRUE]
    /\ UNCHANGED <<access, cleaning, grantCall, grantDeaths>>

\* cleanupExpiredGrants: the query and the batch.
FindExpiredGrants ==
    /\ cleaning = {}
    /\ cleaning' = {g \in Active : grant[g].overdue} /\ cleaning' # {}
    /\ UNCHANGED <<access, grant, grantCall, grantDeaths>>

CleanupExpiredGrants ==
    /\ cleaning # {}
    /\ cleaning' = {}
    /\ grant' = [g \in Grants |-> IF g \in cleaning THEN [grant[g] EXCEPT !.status = "expired"]
                                  ELSE grant[g]]
    /\ access' = [access EXCEPT !.granted = FALSE]
    /\ UNCHANGED <<grantCall, grantDeaths>>

\* getDebugInfo and getTicketUserData refuse an overdue grant and expire it;
\* the administrator's auto-fix deletes it.  None of them writes the ticket.
GrantLapses(g) ==
    /\ g \in Active /\ grant[g].overdue
    /\ grant' = [grant EXCEPT ![g].status = "lapsed"]
    /\ UNCHANGED <<access, cleaning, grantCall, grantDeaths>>

-----------------------------------------------------------------------------
(* Readers.                                                                *)

\* analyzeWithDebugData and processUserReplyMessage decide by the ticket ...
StartDebugRound(p) ==
    /\ grantCall[p] = GrantIdle
    /\ access.granted /\ access.debugGrant # NoGrant
    /\ GrantGo(p, [pc |-> "collect"])
    /\ UNCHANGED <<access, grant, cleaning, grantDeaths>>

\* ... and the round reads the child's data.
CollectDebugSnapshot(p) ==
    /\ grantCall[p].pc = "collect"
    /\ GrantGo(p, GrantIdle)
    /\ UNCHANGED <<access, grant, cleaning, grantDeaths>>

-----------------------------------------------------------------------------
AccessNext ==
    \/ \E p \in GrantCalls :
        \/ \E g \in Grants : \/ \E debug \in BOOLEAN : AddGrant(p, g, debug)
                             \/ RevokeSupportAccess(p, g)
        \/ LinkGrant(p) \/ LinkDebugGrant(p) \/ UnlinkGrant(p) \/ GrantCallDies(p)
        \/ StartDebugRound(p) \/ CollectDebugSnapshot(p)
    \/ \E g \in Grants : GrantRunsOut(g) \/ GrantLapses(g)
    \/ FindExpiredGrants \/ CleanupExpiredGrants

AccessSpec == AccessInit /\ [][AccessNext]_accessVars

-----------------------------------------------------------------------------
\* When nobody is at work, a ticket that shows access has an active grant,
\* unless a call died between its two writes or a grant lapsed.
AccessHasGrant ==
    \/ access.granted => Active # {}
    \/ grantDeaths > 0
    \/ \E g \in Grants : grant[g].status = "lapsed"
    \/ \E p \in GrantCalls : grantCall[p] # GrantIdle

=============================================================================
