------------------------- MODULE CompositionProofs -------------------------
(***************************************************************************)
(* MCServices puts the control plane and ten services that share no        *)
(* variable into one specification, of which a behaviour takes the steps   *)
(* of one.  Each of them does there what its own specification allows, so  *)
(* that what is proved of it holds of the specification TLC checks, for    *)
(* every value of all the constants.                                       *)
(***************************************************************************)
EXTENDS MCServices, AffiliateProofs, LicensingProofs, ControlPlaneProofs, ServicesProofs

serviceVars == <<active, affVars, orgVars, ticketVars, accessVars, legalVars, opVars, regVars,
                 inboxVars, limiterVars, vars, screenTimeVars>>

\* A step of the composition is one of each service's steps, or leaves it alone.
LEMMA StepOfEach ==
    [MCNext]_serviceVars =>
        /\ [AffNext]_affVars /\ [OrgNext]_orgVars /\ [TicketNext]_ticketVars
        /\ [AccessNext]_accessVars /\ [LegalNext]_legalVars /\ [OpNext]_opVars
        /\ [RegNext]_regVars /\ [InboxNext]_inboxVars /\ [LimiterNext]_limiterVars
        /\ [Next]_vars /\ [ScreenTimeNext]_screenTimeVars
<1>1. MCNext => /\ [AffNext]_affVars /\ [OrgNext]_orgVars /\ [TicketNext]_ticketVars
                /\ [AccessNext]_accessVars /\ [LegalNext]_legalVars /\ [OpNext]_opVars
                /\ [RegNext]_regVars /\ [InboxNext]_inboxVars /\ [LimiterNext]_limiterVars
                /\ [Next]_vars /\ [ScreenTimeNext]_screenTimeVars
  BY DEF MCNext, OpNextApart
<1>2. UNCHANGED serviceVars =>
          /\ UNCHANGED affVars /\ UNCHANGED orgVars /\ UNCHANGED ticketVars
          /\ UNCHANGED accessVars /\ UNCHANGED legalVars /\ UNCHANGED opVars
          /\ UNCHANGED regVars /\ UNCHANGED inboxVars /\ UNCHANGED limiterVars
          /\ UNCHANGED vars /\ UNCHANGED screenTimeVars
  BY DEF serviceVars
<1> QED BY <1>1, <1>2

\* The composition implements the specification of every service in it.
THEOREM EachOnItsOwn ==
    MCSpec => /\ AffSpec /\ OrgSpec /\ TicketSpec /\ AccessSpec /\ LegalSpec /\ OpSpec
              /\ RegSpec /\ InboxSpec /\ LimiterSpec /\ Spec /\ ScreenTimeSpec
<1>1. MCInit => /\ AffInit /\ OrgInit /\ TicketInit /\ AccessInit /\ LegalInit /\ OpInit
                /\ RegInit /\ InboxInit /\ LimiterInit /\ Init /\ ScreenTimeInit
  BY DEF MCInit
<1> QED BY <1>1, StepOfEach, PTL
        DEF MCSpec, serviceVars, AffSpec, OrgSpec, TicketSpec, AccessSpec, LegalSpec, OpSpec,
            RegSpec, InboxSpec, LimiterSpec, Spec, ScreenTimeSpec

\* Every service keeps its types.
THEOREM ServicesTyped == MCSpec => []MCTypeOK
<1>1. MCInit => active \in Services
  BY DEF MCInit
<1>2. active \in Services /\ [MCNext]_serviceVars => (active \in Services)'
  BY DEF MCNext, serviceVars
<1>3. MCSpec => [](active \in Services)
  BY <1>1, <1>2, PTL DEF MCSpec, serviceVars
<1>4. MCSpec => []OpTypeOK /\ []RegTypeOK /\ []LegalTypeOK /\ []AccessTypeOK /\ []TicketTypeOK
  BY EachOnItsOwn, RolesAssigned, RegistrationsSettle, DemandsReachConsents,
     AccessAlwaysHasGrant, RoundsEnd, PTL
<1>5. /\ active \in Services /\ AffTypeOK /\ OrgTypeOK /\ TicketTypeOK /\ AccessTypeOK
      /\ LegalTypeOK /\ OpTypeOK /\ RegTypeOK /\ InboxTypeOK /\ LimiterTypeOK /\ TypeOK
      /\ ScreenTimeTypeOK
      => MCTypeOK
  BY DEF MCTypeOK
<1> QED BY <1>3, <1>4, <1>5, EachOnItsOwn, AffTypes, OrgTypes, InboxTypes, LimiterTypes,
           TypeCorrect, TimeTypes, PTL

\* The invariants of the services, in the composition.
THEOREM ServicesHold ==
    MCSpec => /\ []LedgerBalanced /\ []EarningsFollowReferrals /\ []LicenceKept
              /\ []RoundsEndTheTicket /\ []AccessHasGrant /\ []DemandReachesConsents
              /\ []OneGrantEach /\ []BlockedOnlyAfterLoss /\ []RoleIsAssigned
              /\ []RegistrationSettles /\ []ReportsKept /\ []WithinBudget
              /\ []VersionNamesOneChange /\ []CountsAreTodays
BY EachOnItsOwn, LedgersBalance, EarningsFollow, LicenceHolds, RoundsEnd, AccessAlwaysHasGrant,
   DemandsReachConsents, OneGrantOfEach, BlockedOnlyByLoss, RolesAssigned, RegistrationsSettle,
   InboxKeepsReports, Budget, OneChangePerVersion, CountsToday, PTL

\* What no step of the composition does: it does not reopen a ticket with a reply
\* that nothing overtook, and takes no acknowledgement back.
THEOREM ServicesNeverDo == MCSpec => ReplyReopensOnlyWhenOvertaken /\ AckIsFinal
BY EachOnItsOwn, RepliesReopenOnlyLate, AckFinal, PTL
=============================================================================
