----------------------------- MODULE MCServices -----------------------------
\* The control plane and the services beside it, one at a time.  None reads what
\* another writes, but for the role in a user's claims, which Operators and
\* Registration replace: Operators has a step for that of Registration.
EXTENDS ControlPlane, Affiliate, B2BLicensing, SupportTicket, SupportAccess, Legal,
        Operators, Registration, DeviceInbox, RateLimiter, ScreenTime, TLC

VARIABLE active       \* the service whose steps this behaviour takes

Services == {"affiliate", "b2b", "ticket", "access", "legal", "operators", "registration",
             "inbox", "limiter", "control_plane", "screen_time"}

\* The same two values stand for the actors of every service, one at a time.
Symmetry == Permutations(Users) \cup Permutations(AffCalls)
AnyOrOneDevice == {-1, 1}

\* A service that takes no steps keeps its initial state.
MCTypeOK ==
    /\ active \in Services
    /\ active = "affiliate"     => AffTypeOK
    /\ active = "b2b"           => OrgTypeOK
    /\ active = "ticket"        => TicketTypeOK
    /\ active = "access"        => AccessTypeOK
    /\ active = "legal"         => LegalTypeOK
    /\ active = "operators"     => OpTypeOK
    /\ active = "registration"  => RegTypeOK
    /\ active = "inbox"         => InboxTypeOK
    /\ active = "limiter"       => LimiterTypeOK
    /\ active = "control_plane" => TypeOK
    /\ active = "screen_time"   => ScreenTimeTypeOK

MCInit ==
    /\ active \in Services
    /\ AffInit /\ OrgInit /\ TicketInit /\ AccessInit /\ LegalInit
    /\ OpInit /\ RegInit /\ InboxInit /\ LimiterInit /\ Init /\ ScreenTimeInit
    /\ active # "b2b" => org.maxDevices = -1

\* A failure, and a role assigned during a verification of the PIN, do not meet in
\* one behaviour.
OpNextApart == OpNext /\ (opFailures' > 0 => overwritable' = {})

MCNext ==
    /\ UNCHANGED active
    /\ IF active = "affiliate"    THEN AffNext     ELSE UNCHANGED affVars
    /\ IF active = "b2b"          THEN OrgNext     ELSE UNCHANGED orgVars
    /\ IF active = "ticket"       THEN TicketNext  ELSE UNCHANGED ticketVars
    /\ IF active = "access"       THEN AccessNext  ELSE UNCHANGED accessVars
    /\ IF active = "legal"        THEN LegalNext   ELSE UNCHANGED legalVars
    /\ IF active = "operators"    THEN OpNextApart ELSE UNCHANGED opVars
    /\ IF active = "registration" THEN RegNext     ELSE UNCHANGED regVars
    /\ IF active = "inbox"        THEN InboxNext   ELSE UNCHANGED inboxVars
    /\ IF active = "limiter"      THEN LimiterNext ELSE UNCHANGED limiterVars
    /\ IF active = "control_plane" THEN Next      ELSE UNCHANGED vars
    /\ IF active = "screen_time"  THEN ScreenTimeNext ELSE UNCHANGED screenTimeVars

MCSpec == MCInit /\ [][MCNext]_<<active, affVars, orgVars, ticketVars, accessVars, legalVars,
                                 opVars, regVars, inboxVars, limiterVars, vars, screenTimeVars>>
=============================================================================
