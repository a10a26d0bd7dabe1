----------------------------- MODULE Affiliate -----------------------------
(***************************************************************************)
(* The affiliate programme (src/src/affiliate.ts): applications, the       *)
(* referrals they earn by, and the ledger of each affiliate: pending, paid *)
(* and total earnings.                                                     *)
(*                                                                         *)
(* trackAffiliateConversion is three queries and three writes with awaits  *)
(* between them; processAffiliatePayouts queries the ledgers and writes    *)
(* all of them in one batch later.  A call in flight is a record in        *)
(* affCall, its pc the await it is suspended at; it can die there.         *)
(*                                                                         *)
(* Abstractions.  Every commission is 1 (one tier, one rate).  Codes are   *)
(* identified with the documents: the search for a free code makes them    *)
(* different.  Names carry the prefix aff, since MCServices extends        *)
(* several modules like this one.                                          *)
(***************************************************************************)
EXTENDS Integers, FiniteSets, FiniteSetsExt

CONSTANTS
    Affiliates,    \* documents of the collection affiliates
    Emails,        \* of the applicants
    Referred,      \* masters/{id}: accounts that come through an affiliate
    AffCalls,      \* invocations in flight
    MinPayout,     \* minimumPayoutCents
    MaxAffDeaths,  \* bound: invocations that die
    MaxReferrals   \* bound: referral documents

ASSUME AffiliateAssumption ==
    /\ IsFiniteSet(AffCalls) /\ MinPayout \in Nat \ {0}
    /\ MaxAffDeaths \in Nat /\ MaxReferrals \in Nat

VARIABLES
    affiliate,   \* affiliates: status ("none": no document), email and ledger
    referrals,   \* affiliate_referrals
    affCall,     \* calls in flight
    affDeaths,   \* calls that died so far
    skewed,      \* history: ledgers a payout wrote although they had changed since its query
    paidTwice    \* history: ledgers a payout wrote although another had paid since its query

affVars == <<affiliate, referrals, affCall, affDeaths, skewed, paidTwice>>

AffIdle   == [pc |-> "idle"]
Ledgers   == [status : {"none", "pending", "active", "rejected"}, email : Emails,
              pending : Nat, paid : Nat, total : Nat]
Referrals == [id : 1..MaxReferrals, master : Referred, affiliate : Affiliates]
AffCallStates ==
    {AffIdle}
    \cup [pc : {"apply"}, email : Emails]
    \cup [pc : {"known?", "refer", "count", "link"}, master : Referred, affiliate : Affiliates]
    \cup [pc : {"pay"}, due : [Affiliates -> Nat], changed : SUBSET Affiliates,
          repaid : SUBSET Affiliates]

AffTypeOK ==
    /\ affiliate \in [Affiliates -> Ledgers]
    /\ referrals \subseteq Referrals
    /\ affCall \in [AffCalls -> AffCallStates]
    /\ affDeaths \in 0..MaxAffDeaths
    /\ skewed \subseteq Affiliates /\ paidTwice \subseteq Affiliates

AffInit ==
    /\ \E email \in [Affiliates -> Emails] :
         affiliate = [a \in Affiliates |-> [status |-> "none", email |-> email[a],
                                           pending |-> 0, paid |-> 0, total |-> 0]]
    /\ referrals = {}
    /\ affCall = [p \in AffCalls |-> AffIdle]
    /\ affDeaths = 0
    /\ skewed = {} /\ paidTwice = {}

-----------------------------------------------------------------------------
AffGo(p, state) == affCall' = [affCall EXCEPT ![p] = state]

(* registerAffiliate and reviewAffiliate.                                  *)

\* The query returns some document of the e-mail address, or none.
FindApplication(p, e) ==
    /\ affCall[p] = AffIdle
    /\ LET of == {a \in Affiliates : affiliate[a].status # "none" /\ affiliate[a].email = e}
       IN  of = {} \/ \E a \in of : affiliate[a].status = "rejected"
    /\ AffGo(p, [pc |-> "apply", email |-> e])
    /\ UNCHANGED <<affiliate, referrals, affDeaths, skewed, paidTwice>>

RegisterAffiliate(p, a) ==
    /\ affCall[p].pc = "apply"
    /\ affiliate[a].status = "none" /\ affiliate[a].email = affCall[p].email
    /\ affiliate' = [affiliate EXCEPT ![a].status = "pending"]
    /\ AffGo(p, AffIdle)
    /\ UNCHANGED <<referrals, affDeaths, skewed, paidTwice>>

\* It looks at nothing but the existence of the document.
ReviewAffiliate(a, decision) ==
    /\ affiliate[a].status # "none"
    /\ affiliate' = [affiliate EXCEPT ![a].status = decision]
    /\ UNCHANGED <<referrals, affCall, affDeaths, skewed, paidTwice>>

(* trackAffiliateConversion.                                               *)

TrackConversion(p, m, a) ==
    /\ affCall[p] = AffIdle
    /\ affiliate[a].status = "active"
    /\ AffGo(p, [pc |-> "known?", master |-> m, affiliate |-> a])
    /\ UNCHANGED <<affiliate, referrals, affDeaths, skewed, paidTwice>>

CheckReferral(p) ==
    /\ affCall[p].pc = "known?"
    /\ AffGo(p, IF \E r \in referrals : r.master = affCall[p].master THEN AffIdle
                ELSE [affCall[p] EXCEPT !.pc = "refer"])
    /\ UNCHANGED <<affiliate, referrals, affDeaths, skewed, paidTwice>>

AddReferral(p) ==
    LET n == Cardinality(referrals) + 1 IN
    /\ affCall[p].pc = "refer"
    /\ n <= MaxReferrals
    /\ referrals' = referrals \cup
         {[id |-> n, master |-> affCall[p].master, affiliate |-> affCall[p].affiliate]}
    /\ affCall' = [affCall EXCEPT ![p].pc = "count"]
    /\ UNCHANGED <<affiliate, affDeaths, skewed, paidTwice>>

\* p ends in state after; the payouts in flight have not seen what it changed,
\* nor what it paid.
MarkChanged(p, after, changed, paid) ==
    affCall' = [q \in AffCalls |->
        IF q = p THEN after
        ELSE IF affCall[q].pc = "pay"
             THEN [affCall[q] EXCEPT !.changed = @ \cup changed, !.repaid = @ \cup paid]
             ELSE affCall[q]]

\* Variant: the total is not incremented with the pending earnings.
CountReferralPending(p) ==
    LET a == affCall[p].affiliate IN
    /\ affCall[p].pc = "count"
    /\ affiliate' = [affiliate EXCEPT ![a].pending = @ + 1]
    /\ MarkChanged(p, [affCall[p] EXCEPT !.pc = "link"], {a}, {})
    /\ UNCHANGED <<referrals, affDeaths, skewed, paidTwice>>

CountReferral(p) ==
    LET a == affCall[p].affiliate IN
    /\ affCall[p].pc = "count"
    /\ affiliate' = [affiliate EXCEPT ![a].pending = @ + 1, ![a].total = @ + 1]
    /\ MarkChanged(p, [affCall[p] EXCEPT !.pc = "link"], {a}, {})
    /\ UNCHANGED <<referrals, affDeaths, skewed, paidTwice>>

\* The account's own link to the affiliate is read nowhere, and not modelled.
LinkMaster(p) ==
    /\ affCall[p].pc = "link"
    /\ AffGo(p, AffIdle)
    /\ UNCHANGED <<affiliate, referrals, affDeaths, skewed, paidTwice>>

(* processAffiliatePayouts.                                                *)

Due == {a \in Affiliates : affiliate[a].status = "active" /\ affiliate[a].pending >= MinPayout}

QueryPayouts(p) ==
    /\ affCall[p] = AffIdle
    /\ Due # {}
    /\ AffGo(p, [pc |-> "pay", changed |-> {}, repaid |-> {},
                 due |-> [a \in Affiliates |-> IF a \in Due THEN affiliate[a].pending ELSE 0]])
    /\ UNCHANGED <<affiliate, referrals, affDeaths, skewed, paidTwice>>

\* Variant: pending is not reset.
CommitPayoutsAgain(p) ==
    LET due == affCall[p].due  paid == {a \in Affiliates : due[a] > 0} IN
    /\ affCall[p].pc = "pay"
    /\ affiliate' = [a \in Affiliates |->
         IF a \in paid THEN [affiliate[a] EXCEPT !.paid = @ + due[a]] ELSE affiliate[a]]
    /\ skewed' = skewed \cup (paid \cap affCall[p].changed)
    /\ paidTwice' = paidTwice \cup (paid \cap affCall[p].repaid)
    /\ MarkChanged(p, AffIdle, paid, paid)
    /\ UNCHANGED <<referrals, affDeaths>>

\* The batch: pending becomes 0, whatever it is now.
CommitPayouts(p) ==
    LET due == affCall[p].due  paid == {a \in Affiliates : due[a] > 0} IN
    /\ affCall[p].pc = "pay"
    /\ affiliate' = [a \in Affiliates |->
         IF a \in paid THEN [affiliate[a] EXCEPT !.pending = 0, !.paid = @ + due[a]]
         ELSE affiliate[a]]
    /\ skewed' = skewed \cup (paid \cap affCall[p].changed)
    /\ paidTwice' = paidTwice \cup (paid \cap affCall[p].repaid)
    /\ MarkChanged(p, AffIdle, paid, paid)
    /\ UNCHANGED <<referrals, affDeaths>>

AffDie(p) ==
    /\ affCall[p] # AffIdle
    /\ affDeaths < MaxAffDeaths
    /\ affDeaths' = affDeaths + 1
    /\ AffGo(p, AffIdle)
    /\ UNCHANGED <<affiliate, referrals, skewed, paidTwice>>

-----------------------------------------------------------------------------
AffNext ==
    \/ \E p \in AffCalls :
        \/ \E e \in Emails : FindApplication(p, e)
        \/ \E a \in Affiliates : RegisterAffiliate(p, a)
        \/ \E m \in Referred, a \in Affiliates : TrackConversion(p, m, a)
        \/ CheckReferral(p) \/ AddReferral(p) \/ CountReferral(p) \/ LinkMaster(p)
        \/ QueryPayouts(p) \/ CommitPayouts(p)
        \/ AffDie(p)
    \/ \E a \in Affiliates, d \in {"active", "rejected"} : ReviewAffiliate(a, d)

AffSpec == AffInit /\ [][AffNext]_affVars

-----------------------------------------------------------------------------
\* The ledger: what is paid and what is pending never exceeds what was earned
\* unless two payouts overlapped, and is exactly what was earned unless a
\* payout overlapped with another one or with the counting of a referral.
\* Dying calls and re-applications do not matter, since each write keeps it.
LedgerBalanced ==
    \A a \in Affiliates :
        LET l == affiliate[a] IN
        /\ a \notin paidTwice => l.pending + l.paid <= l.total
        /\ a \notin skewed => l.pending + l.paid = l.total

Earned(a) == Cardinality({r \in referrals : r.affiliate = a})
Counting(a) == {p \in AffCalls : affCall[p].pc = "count" /\ affCall[p].affiliate = a}

\* No referral is counted twice, and when no conversion is between its two
\* writes, each one is counted, except those whose call died there.
EarningsFollowReferrals ==
    \A a \in Affiliates :
        /\ affiliate[a].total + Cardinality(Counting(a)) <= Earned(a)
        /\ affDeaths = 0 => affiliate[a].total + Cardinality(Counting(a)) = Earned(a)
=============================================================================
