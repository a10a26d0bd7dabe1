-------------------------- MODULE AffiliateProofs --------------------------
(***************************************************************************)
(* Proofs about Affiliate, for any numbers of affiliates, accounts and     *)
(* overlapping calls: the types, the balance of every ledger, and that the *)
(* earnings follow the referrals.                                          *)
(*                                                                         *)
(* The inductive invariant says what a payout between its query and its    *)
(* batch still knows of the ledgers it read, and that referrals are        *)
(* numbered, so that a new one is counted as one more.                     *)
(***************************************************************************)
EXTENDS Affiliate, FiniteSetTheorems, TLAPS

PayoutsKnow ==
    \A p \in AffCalls : affCall[p].pc = "pay" =>
        LET c == affCall[p] IN
        \A a \in Affiliates :
            /\ (a \notin c.changed /\ c.due[a] > 0) => c.due[a] = affiliate[a].pending
            /\ a \notin c.repaid => c.due[a] <= affiliate[a].pending

ReferralsNumbered == IsFiniteSet(referrals) /\ \A r \in referrals : r.id <= Cardinality(referrals)

AffInv == AffTypeOK /\ PayoutsKnow /\ ReferralsNumbered /\ LedgerBalanced /\ EarningsFollowReferrals

-----------------------------------------------------------------------------
(* Sets that are counted.                                                  *)

ReferralsOf(a) == {r \in referrals : r.affiliate = a}

\* A part of a finite set is finite, and its size a number.
LEMMA PartSize ==
    ASSUME NEW S, IsFiniteSet(S), NEW T, T \subseteq S
    PROVE  IsFiniteSet(T) /\ Cardinality(T) \in Nat
BY FS_Subset, FS_CardinalityType

LEMMA CountingSize ==
    ASSUME NEW a
    PROVE  IsFiniteSet(Counting(a)) /\ Cardinality(Counting(a)) \in Nat
BY PartSize, AffiliateAssumption DEF Counting

LEMMA EarnedSize ==
    ASSUME AffInv, NEW a
    PROVE  Earned(a) \in Nat /\ IsFiniteSet(ReferralsOf(a)) /\ Earned(a) = Cardinality(ReferralsOf(a))
BY PartSize DEF AffInv, ReferralsNumbered, Earned, ReferralsOf

\* The fields of a call in flight, by its kind.
LEMMA AffCallKinds ==
    ASSUME AffTypeOK, NEW p \in AffCalls
    PROVE  /\ affCall[p].pc = "apply" => affCall[p] \in [pc : {"apply"}, email : Emails]
           /\ affCall[p].pc \in {"known?", "refer", "count", "link"} =>
                affCall[p] \in [pc : {"known?", "refer", "count", "link"}, master : Referred,
                                affiliate : Affiliates]
           /\ affCall[p].pc = "pay" =>
                affCall[p] \in [pc : {"pay"}, due : [Affiliates -> Nat],
                                changed : SUBSET Affiliates, repaid : SUBSET Affiliates]
BY DEF AffTypeOK, AffCallStates, AffIdle

LEMMA AffStarts == AffInit => AffInv
<1> SUFFICES ASSUME AffInit PROVE AffInv
  OBVIOUS
<1>1. affiliate \in [Affiliates -> Ledgers]
  BY DEF AffInit, Ledgers
<1>2. AffTypeOK
  <2>1. affCall \in [AffCalls -> AffCallStates]
    BY DEF AffInit, AffCallStates
  <2>2. affDeaths \in 0..MaxAffDeaths
    BY AffiliateAssumption DEF AffInit
  <2> QED BY <1>1, <2>1, <2>2 DEF AffInit, AffTypeOK
<1>3. PayoutsKnow /\ ReferralsNumbered
  BY FS_EmptySet DEF AffInit, PayoutsKnow, ReferralsNumbered, AffIdle
<1>4. LedgerBalanced
  BY DEF AffInit, LedgerBalanced
<1>5. EarningsFollowReferrals
  <2> SUFFICES ASSUME NEW a \in Affiliates
               PROVE  /\ affiliate[a].total = 0 /\ Cardinality(Counting(a)) = 0 /\ Earned(a) = 0
    BY DEF EarningsFollowReferrals
  <2>1. Counting(a) = {} /\ {r \in referrals : r.affiliate = a} = {}
    BY DEF AffInit, Counting, AffIdle
  <2> QED BY <2>1, FS_EmptySet DEF AffInit, Earned
<1> QED BY <1>2, <1>3, <1>4, <1>5 DEF AffInv

-----------------------------------------------------------------------------
(* Steps that leave the ledgers' amounts and the referrals alone.          *)

\* p moves on to a state in which it neither counts nor pays.
LEMMA AffGoes ==
    ASSUME AffInv, NEW p \in AffCalls, NEW state \in AffCallStates, AffGo(p, state),
           state.pc # "count", affCall[p].pc # "count", state.pc # "pay" ,
           affiliate' \in [Affiliates -> Ledgers],
           \A a \in Affiliates : /\ affiliate'[a].pending = affiliate[a].pending
                                 /\ affiliate'[a].paid = affiliate[a].paid
                                 /\ affiliate'[a].total = affiliate[a].total,
           UNCHANGED <<referrals, affDeaths, skewed, paidTwice>>
    PROVE  AffInv'
<1> USE DEF AffInv, AffGo
<1>1. AffTypeOK'
  BY DEF AffTypeOK
<1>2. PayoutsKnow'
  BY DEF AffTypeOK, PayoutsKnow
<1>3. ReferralsNumbered' /\ LedgerBalanced'
  BY DEF ReferralsNumbered, LedgerBalanced
<1>4. EarningsFollowReferrals'
  <2>1. \A a : Counting(a)' = Counting(a) /\ Earned(a)' = Earned(a)
    BY DEF Counting, Earned, AffTypeOK
  <2> QED BY <2>1 DEF EarningsFollowReferrals
<1> QED BY <1>1, <1>2, <1>3, <1>4

LEMMA ApplyInv ==
    ASSUME AffInv, NEW p \in AffCalls,
           \/ \E e \in Emails : FindApplication(p, e)
           \/ \E a \in Affiliates : RegisterAffiliate(p, a)
           \/ \E m \in Referred, a \in Affiliates : TrackConversion(p, m, a)
           \/ CheckReferral(p) \/ LinkMaster(p)
    PROVE  AffInv'
<1>1. ASSUME NEW e \in Emails, FindApplication(p, e) PROVE AffInv'
  <2> DEFINE state == [pc |-> "apply", email |-> e]
  <2>1. state \in AffCallStates /\ state.pc = "apply" /\ affCall[p].pc = "idle"
    BY <1>1 DEF FindApplication, AffCallStates, AffIdle
  <2> QED BY <1>1, <2>1, AffGoes DEF FindApplication, AffInv, AffTypeOK
<1>2. ASSUME NEW a \in Affiliates, RegisterAffiliate(p, a) PROVE AffInv'
  <2>1. AffIdle \in AffCallStates /\ AffIdle.pc = "idle" /\ affCall[p].pc = "apply"
    BY <1>2 DEF RegisterAffiliate, AffCallStates, AffIdle
  <2>2. /\ affiliate' \in [Affiliates -> Ledgers]
        /\ \A b \in Affiliates : /\ affiliate'[b].pending = affiliate[b].pending
                                 /\ affiliate'[b].paid = affiliate[b].paid
                                 /\ affiliate'[b].total = affiliate[b].total
    BY <1>2 DEF RegisterAffiliate, AffInv, AffTypeOK, Ledgers
  <2> QED BY <1>2, <2>1, <2>2, AffGoes DEF RegisterAffiliate
<1>3. ASSUME NEW m \in Referred, NEW a \in Affiliates, TrackConversion(p, m, a) PROVE AffInv'
  <2> DEFINE state == [pc |-> "known?", master |-> m, affiliate |-> a]
  <2>1. state \in AffCallStates /\ state.pc = "known?" /\ affCall[p].pc = "idle"
    BY <1>3 DEF TrackConversion, AffCallStates, AffIdle
  <2> QED BY <1>3, <2>1, AffGoes DEF TrackConversion, AffInv, AffTypeOK
<1>4. CASE CheckReferral(p)
  <2> DEFINE state == IF \E r \in referrals : r.master = affCall[p].master THEN AffIdle
                      ELSE [affCall[p] EXCEPT !.pc = "refer"]
  <2>1. affCall[p].pc = "known?" /\ AffGo(p, state)
    BY <1>4 DEF CheckReferral
  <2>2. state \in AffCallStates /\ state.pc \in {"idle", "refer"}
    BY <2>1, AffCallKinds DEF AffInv, AffCallStates, AffIdle
  <2> QED BY <1>4, <2>1, <2>2, AffGoes DEF CheckReferral, AffInv, AffTypeOK
<1>5. CASE LinkMaster(p)
  <2>1. AffIdle \in AffCallStates /\ AffIdle.pc = "idle" /\ affCall[p].pc = "link"
    BY <1>5 DEF LinkMaster, AffCallStates, AffIdle
  <2> QED BY <1>5, <2>1, AffGoes DEF LinkMaster, AffInv, AffTypeOK
<1> QED BY <1>1, <1>2, <1>3, <1>4, <1>5

LEMMA ReviewInv ==
    ASSUME AffInv, NEW a \in Affiliates, NEW d \in {"active", "rejected"}, ReviewAffiliate(a, d)
    PROVE  AffInv'
<1> USE DEF AffInv
<1>1. /\ affiliate' \in [Affiliates -> Ledgers]
      /\ \A b \in Affiliates : /\ affiliate'[b].pending = affiliate[b].pending
                               /\ affiliate'[b].paid = affiliate[b].paid
                               /\ affiliate'[b].total = affiliate[b].total
      /\ UNCHANGED <<referrals, affCall, affDeaths, skewed, paidTwice>>
  BY DEF ReviewAffiliate, AffTypeOK, Ledgers
<1>2. AffTypeOK' /\ PayoutsKnow' /\ ReferralsNumbered' /\ LedgerBalanced'
  BY <1>1 DEF AffTypeOK, PayoutsKnow, ReferralsNumbered, LedgerBalanced
<1>3. EarningsFollowReferrals'
  BY <1>1 DEF EarningsFollowReferrals, Earned, Counting
<1> QED BY <1>2, <1>3

LEMMA DieInv == ASSUME AffInv, NEW p \in AffCalls, AffDie(p) PROVE AffInv'
<1> USE DEF AffInv
<1>1. /\ affCall' = [affCall EXCEPT ![p] = AffIdle]
      /\ affDeaths' \in 0..MaxAffDeaths /\ affDeaths' # 0
      /\ UNCHANGED <<affiliate, referrals, skewed, paidTwice>>
  BY AffiliateAssumption DEF AffDie, AffGo, AffTypeOK
<1>2. AffTypeOK' /\ PayoutsKnow' /\ ReferralsNumbered' /\ LedgerBalanced'
  BY <1>1 DEF AffTypeOK, AffCallStates, AffIdle, PayoutsKnow, ReferralsNumbered, LedgerBalanced
<1>3. EarningsFollowReferrals'
  <2> SUFFICES ASSUME NEW a \in Affiliates
               PROVE  affiliate'[a].total + Cardinality(Counting(a)') <= Earned(a)'
    BY <1>1 DEF EarningsFollowReferrals
  <2>1. Counting(a)' \in SUBSET Counting(a) /\ Earned(a)' = Earned(a)
    BY <1>1 DEF Counting, Earned, AffTypeOK, AffIdle
  <2>2. Cardinality(Counting(a)') <= Cardinality(Counting(a)) /\ Cardinality(Counting(a)') \in Nat
    BY <2>1, CountingSize, FS_Subset, PartSize
  <2>3. affiliate[a].total \in Nat /\ Earned(a) \in Nat
    BY EarnedSize DEF AffTypeOK, Ledgers
  <2> QED BY <1>1, <2>1, <2>2, <2>3, CountingSize DEF EarningsFollowReferrals
<1> QED BY <1>2, <1>3

-----------------------------------------------------------------------------
(* Referrals.                                                              *)

LEMMA AddReferralInv == ASSUME AffInv, NEW p \in AffCalls, AddReferral(p) PROVE AffInv'
<1> USE DEF AffInv
<1>0. PICK to \in Affiliates : to = affCall[p].affiliate
  BY AffCallKinds DEF AddReferral
<1> DEFINE n == Cardinality(referrals) + 1
           new == [id |-> n, master |-> affCall[p].master, affiliate |-> to]
<1>1. /\ affCall[p].pc = "refer" /\ n <= MaxReferrals
      /\ referrals' = referrals \cup {new}
      /\ affCall' = [affCall EXCEPT ![p].pc = "count"]
      /\ UNCHANGED <<affiliate, affDeaths, skewed, paidTwice>>
  BY <1>0 DEF AddReferral
<1>2. /\ IsFiniteSet(referrals) /\ Cardinality(referrals) \in Nat
      /\ affCall[p].master \in Referred
  BY <1>1, FS_CardinalityType, AffCallKinds DEF ReferralsNumbered
<1>3. new \in Referrals /\ new.id = Cardinality(referrals) + 1 /\ new.affiliate = to
  BY <1>1, <1>2, AffiliateAssumption DEF Referrals
<1>4. new \notin referrals
  BY <1>2, <1>3 DEF ReferralsNumbered
<1>5. IsFiniteSet(referrals') /\ Cardinality(referrals') = Cardinality(referrals) + 1
  BY <1>1, <1>2, <1>4, FS_AddElement
<1> HIDE DEF new
<1>6. AffTypeOK'
  <2>1. [affCall[p] EXCEPT !.pc = "count"] \in AffCallStates
    BY <1>1, AffCallKinds DEF AffCallStates
  <2> QED BY <1>1, <1>3, <2>1 DEF AffTypeOK
<1>7. PayoutsKnow'
  BY <1>1, AffCallKinds DEF AffTypeOK, PayoutsKnow
<1>8. ReferralsNumbered'
  <2>1. \A r \in referrals : r.id \in Nat /\ r.id <= Cardinality(referrals)
    BY DEF AffTypeOK, Referrals, ReferralsNumbered
  <2>2. \A r \in referrals' : r.id <= Cardinality(referrals) + 1
    BY <1>1, <1>2, <1>3, <2>1
  <2> QED BY <1>5, <2>2 DEF ReferralsNumbered
<1>9. LedgerBalanced'
  BY <1>1 DEF LedgerBalanced
<1>10. EarningsFollowReferrals'
  <2>1. /\ Counting(to)' = Counting(to) \cup {p} /\ p \notin Counting(to)
        /\ ReferralsOf(to)' = ReferralsOf(to) \cup {new} /\ new \notin ReferralsOf(to)
    BY <1>0, <1>1, <1>3, <1>4, AffCallKinds DEF Counting, ReferralsOf, AffTypeOK
  <2>2. /\ Cardinality(Counting(to)') = Cardinality(Counting(to)) + 1
        /\ Cardinality(ReferralsOf(to)') = Earned(to) + 1
    BY <2>1, CountingSize, EarnedSize, FS_AddElement
  <2>3. ASSUME NEW a \in Affiliates, a # to
        PROVE  Counting(a)' = Counting(a) /\ ReferralsOf(a)' = ReferralsOf(a)
    BY <1>0, <1>1, <1>3, <2>3, AffCallKinds DEF Counting, ReferralsOf, AffTypeOK
  <2>4. \A a \in Affiliates : /\ Earned(a)' = Cardinality(ReferralsOf(a)')
                              /\ Earned(a) = Cardinality(ReferralsOf(a))
    BY DEF Earned, ReferralsOf
  <2>5. \A a \in Affiliates : affiliate[a].total \in Nat /\ Earned(a) \in Nat
                              /\ Cardinality(Counting(a)) \in Nat
    BY CountingSize, EarnedSize DEF AffTypeOK, Ledgers
  <2>6. ASSUME NEW a \in Affiliates
        PROVE  /\ affiliate[a].total + Cardinality(Counting(a)') <= Earned(a)'
               /\ affDeaths = 0 => affiliate[a].total + Cardinality(Counting(a)') = Earned(a)'
    <3>1. CASE a = to
      <4>1. /\ affiliate[to].total + Cardinality(Counting(to)) <= Earned(to)
            /\ affDeaths = 0 => affiliate[to].total + Cardinality(Counting(to)) = Earned(to)
        BY DEF EarningsFollowReferrals
      <4>2. /\ affiliate[to].total + Cardinality(Counting(to)') <= Earned(to)'
            /\ affDeaths = 0 => affiliate[to].total + Cardinality(Counting(to)') = Earned(to)'
        BY <2>2, <2>4, <2>5, <4>1
      <4> QED BY <3>1, <4>2
    <3>2. CASE a # to
      BY <3>2, <2>3, <2>4 DEF EarningsFollowReferrals
    <3> QED BY <3>1, <3>2
  <2> QED BY <1>1, <2>6 DEF EarningsFollowReferrals
<1> QED BY <1>6, <1>7, <1>8, <1>9, <1>10

\* What a write of ledgers leaves in flight.
LEMMA Marked ==
    ASSUME AffTypeOK, NEW p \in AffCalls, NEW after \in AffCallStates, after.pc # "pay",
           NEW changed \in SUBSET Affiliates, NEW paid \in SUBSET Affiliates,
           MarkChanged(p, after, changed, paid)
    PROVE  /\ affCall' \in [AffCalls -> AffCallStates]
           /\ affCall'[p] = after
           /\ \A q \in AffCalls : (q # p /\ affCall[q].pc # "pay") => affCall'[q] = affCall[q]
           /\ \A q \in AffCalls : (q # p /\ affCall[q].pc = "pay") => affCall'[q].pc = "pay"
<1> USE DEF MarkChanged
<1> DEFINE marked(q) == [affCall[q] EXCEPT !.changed = @ \cup changed, !.repaid = @ \cup paid]
<1>1. ASSUME NEW q \in AffCalls, affCall[q].pc = "pay"
      PROVE  /\ marked(q) \in AffCallStates
             /\ marked(q).pc = "pay"
  <2>1. affCall[q] \in [pc : {"pay"}, due : [Affiliates -> Nat],
                        changed : SUBSET Affiliates, repaid : SUBSET Affiliates]
    BY <1>1, AffCallKinds
  <2>2. marked(q) \in [pc : {"pay"}, due : [Affiliates -> Nat],
                       changed : SUBSET Affiliates, repaid : SUBSET Affiliates]
    BY <2>1
  <2>3. marked(q).pc = "pay"
    BY <2>1
  <2> HIDE DEF marked
  <2> QED BY <2>2, <2>3 DEF AffCallStates
<1>2. affCall' = [q \in AffCalls |-> IF q = p THEN after
                                    ELSE IF affCall[q].pc = "pay" THEN marked(q) ELSE affCall[q]]
  OBVIOUS
<1> HIDE DEF marked
<1>3. affCall' \in [AffCalls -> AffCallStates]
  BY <1>1, <1>2 DEF AffTypeOK
<1> QED BY <1>1, <1>2, <1>3

LEMMA CountInv == ASSUME AffInv, NEW p \in AffCalls, CountReferral(p) PROVE AffInv'
<1> USE DEF AffInv
<1>1. PICK a \in Affiliates :
        /\ a = affCall[p].affiliate /\ affCall[p].pc = "count"
        /\ affiliate' = [affiliate EXCEPT ![a].pending = @ + 1, ![a].total = @ + 1]
        /\ MarkChanged(p, [affCall[p] EXCEPT !.pc = "link"], {a}, {})
        /\ UNCHANGED <<referrals, affDeaths, skewed, paidTwice>>
  BY AffCallKinds DEF CountReferral
<1>2. PICK after \in AffCallStates :
        after.pc = "link" /\ after = [affCall[p] EXCEPT !.pc = "link"]
  BY <1>1, AffCallKinds DEF AffCallStates
<1>3. /\ affCall' \in [AffCalls -> AffCallStates] /\ affCall'[p] = after
      /\ \A q \in AffCalls : (q # p /\ affCall[q].pc # "pay") => affCall'[q] = affCall[q]
      /\ \A q \in AffCalls : (q # p /\ affCall[q].pc = "pay") => affCall'[q].pc = "pay"
      /\ MarkChanged(p, after, {a}, {})
  <2>1. {a} \in SUBSET Affiliates /\ {} \in SUBSET Affiliates /\ after.pc # "pay"
    BY <1>2
  <2>2. MarkChanged(p, after, {a}, {})
    BY <1>1, <1>2
  <2> QED BY <2>1, <2>2, Marked
<1>4. /\ affiliate' \in [Affiliates -> Ledgers]
      /\ \A b \in Affiliates : b # a => affiliate'[b] = affiliate[b]
      /\ affiliate'[a].pending = affiliate[a].pending + 1
      /\ affiliate'[a].total = affiliate[a].total + 1
      /\ affiliate'[a].paid = affiliate[a].paid
      /\ \A b \in Affiliates : /\ affiliate[b].pending \in Nat /\ affiliate[b].paid \in Nat
                               /\ affiliate[b].total \in Nat
  BY <1>1 DEF AffTypeOK, Ledgers
<1>5. AffTypeOK'
  BY <1>1, <1>3, <1>4 DEF AffTypeOK
<1>6. PayoutsKnow'
  <2> SUFFICES ASSUME NEW q \in AffCalls, affCall'[q].pc = "pay", NEW b \in Affiliates
               PROVE  /\ (b \notin affCall'[q].changed /\ affCall'[q].due[b] > 0) =>
                            affCall'[q].due[b] = affiliate'[b].pending
                      /\ b \notin affCall'[q].repaid => affCall'[q].due[b] <= affiliate'[b].pending
    BY DEF PayoutsKnow
  <2>1. q # p /\ affCall[q].pc = "pay"
    BY <1>2, <1>3
  <2>2. affCall[q].due[b] \in Nat
    BY <2>1, AffCallKinds
  <2>3. /\ affCall'[q].due = affCall[q].due
        /\ affCall'[q].changed = affCall[q].changed \cup {a}
        /\ affCall'[q].repaid = affCall[q].repaid \cup {}
    <3>1. affCall'[q] = [affCall[q] EXCEPT !.changed = @ \cup {a}, !.repaid = @ \cup {}]
      BY <1>3, <2>1 DEF MarkChanged
    <3> QED BY <2>1, <3>1, AffCallKinds
  <2> QED BY <1>4, <2>1, <2>2, <2>3 DEF PayoutsKnow
<1>7. ReferralsNumbered' /\ LedgerBalanced'
  <2>1. ASSUME NEW b \in Affiliates
        PROVE  /\ b \notin paidTwice =>
                    affiliate'[b].pending + affiliate'[b].paid <= affiliate'[b].total
               /\ b \notin skewed =>
                    affiliate'[b].pending + affiliate'[b].paid = affiliate'[b].total
    <3>1. CASE b = a
      BY <3>1, <1>4 DEF LedgerBalanced
    <3>2. CASE b # a
      BY <3>2, <1>4 DEF LedgerBalanced
    <3> QED BY <3>1, <3>2
  <2> QED BY <1>1, <2>1 DEF ReferralsNumbered, LedgerBalanced
<1>8. EarningsFollowReferrals'
  <2>1. Counting(a)' = Counting(a) \ {p} /\ p \in Counting(a)
    <3>1. \A q \in AffCalls : q # p /\ affCall[q].pc = "count" => affCall'[q] = affCall[q]
      BY <1>3
    <3>2. \A q \in AffCalls : affCall'[q].pc = "count" => q # p /\ affCall'[q] = affCall[q]
      BY <1>2, <1>3
    <3> QED BY <1>1, <3>1, <3>2 DEF Counting
  <2>2. Cardinality(Counting(a)') = Cardinality(Counting(a)) - 1
    BY <2>1, CountingSize, FS_RemoveElement
  <2>3. ASSUME NEW b \in Affiliates, b # a PROVE Counting(b)' = Counting(b)
    BY <1>1, <1>2, <1>3, <2>3 DEF Counting
  <2>4. \A b \in Affiliates : /\ Earned(b)' = Earned(b) /\ Earned(b) \in Nat
                              /\ Cardinality(Counting(b)) \in Nat
    BY <1>1, CountingSize, EarnedSize DEF Earned
  <2>5. ASSUME NEW b \in Affiliates
        PROVE  /\ affiliate'[b].total + Cardinality(Counting(b)') <= Earned(b)'
               /\ affDeaths = 0 => affiliate'[b].total + Cardinality(Counting(b)') = Earned(b)'
    <3>1. CASE b = a
      <4>1. /\ affiliate[a].total + Cardinality(Counting(a)) <= Earned(a)
            /\ affDeaths = 0 => affiliate[a].total + Cardinality(Counting(a)) = Earned(a)
        BY DEF EarningsFollowReferrals
      <4>2. /\ affiliate'[a].total + Cardinality(Counting(a)') <= Earned(a)'
            /\ affDeaths = 0 => affiliate'[a].total + Cardinality(Counting(a)') = Earned(a)'
        BY <1>4, <2>2, <2>4, <4>1
      <4> QED BY <3>1, <4>2
    <3>2. CASE b # a
      BY <3>2, <1>4, <2>3, <2>4 DEF EarningsFollowReferrals
    <3> QED BY <3>1, <3>2
  <2> QED BY <1>1, <2>5 DEF EarningsFollowReferrals
<1> QED BY <1>5, <1>6, <1>7, <1>8

-----------------------------------------------------------------------------
(* Payouts.                                                                *)

LEMMA QueryInv == ASSUME AffInv, NEW p \in AffCalls, QueryPayouts(p) PROVE AffInv'
<1> DEFINE due == [a \in Affiliates |-> IF a \in Due THEN affiliate[a].pending ELSE 0]
           new == [pc |-> "pay", changed |-> {}, repaid |-> {}, due |-> due]
<1> USE DEF AffInv
<1>1. /\ affCall[p] = AffIdle /\ affCall' = [affCall EXCEPT ![p] = new]
      /\ UNCHANGED <<affiliate, referrals, affDeaths, skewed, paidTwice>>
  BY DEF QueryPayouts, AffGo
<1>2. \A a \in Affiliates : affiliate[a].pending \in Nat
  BY DEF AffTypeOK, Ledgers
<1>3. due \in [Affiliates -> Nat]
  BY <1>2
<1>4. \A a \in Affiliates : due[a] <= affiliate[a].pending
                          /\ (due[a] > 0 => due[a] = affiliate[a].pending)
  BY <1>2
<1> HIDE DEF due
<1>5. new \in AffCallStates /\ new.pc = "pay" /\ new.due = due
  BY <1>3 DEF AffCallStates
<1> HIDE DEF new
<1>6. AffTypeOK'
  BY <1>1, <1>5 DEF AffTypeOK
<1>7. PayoutsKnow'
  BY <1>1, <1>4, <1>5 DEF AffTypeOK, PayoutsKnow
<1>8. ReferralsNumbered' /\ LedgerBalanced'
  BY <1>1 DEF ReferralsNumbered, LedgerBalanced
<1>9. EarningsFollowReferrals'
  <2>1. \A a : Counting(a)' = Counting(a) /\ Earned(a)' = Earned(a)
    BY <1>1, <1>5 DEF Counting, Earned, AffTypeOK, AffIdle
  <2> QED BY <1>1, <2>1 DEF EarningsFollowReferrals
<1> QED BY <1>6, <1>7, <1>8, <1>9

LEMMA CommitInv == ASSUME AffInv, NEW p \in AffCalls, CommitPayouts(p) PROVE AffInv'
<1> DEFINE c == affCall[p]
           paid == {a \in Affiliates : c.due[a] > 0}
<1> USE DEF AffInv
<1>1. /\ c.pc = "pay"
      /\ affiliate' = [a \in Affiliates |->
           IF a \in paid THEN [affiliate[a] EXCEPT !.pending = 0, !.paid = @ + c.due[a]]
           ELSE affiliate[a]]
      /\ skewed' = skewed \cup (paid \cap c.changed)
      /\ paidTwice' = paidTwice \cup (paid \cap c.repaid)
      /\ MarkChanged(p, AffIdle, paid, paid)
      /\ UNCHANGED <<referrals, affDeaths>>
  BY DEF CommitPayouts
<1>2. AffIdle \in AffCallStates /\ AffIdle.pc = "idle" /\ paid \in SUBSET Affiliates
  BY DEF AffCallStates, AffIdle
<1>3. /\ affCall' \in [AffCalls -> AffCallStates] /\ affCall'[p] = AffIdle
      /\ \A q \in AffCalls : (q # p /\ affCall[q].pc # "pay") => affCall'[q] = affCall[q]
      /\ \A q \in AffCalls : (q # p /\ affCall[q].pc = "pay") => affCall'[q].pc = "pay"
  BY <1>1, <1>2, Marked
<1>4. \A a \in Affiliates : /\ affiliate[a].pending \in Nat /\ affiliate[a].paid \in Nat
                           /\ affiliate[a].total \in Nat /\ c.due[a] \in Nat
  BY <1>1, AffCallKinds DEF AffTypeOK, Ledgers
<1>5. /\ affiliate' \in [Affiliates -> Ledgers]
      /\ \A a \in Affiliates : a \notin paid => affiliate'[a] = affiliate[a]
      /\ \A a \in paid : /\ affiliate'[a].pending = 0
                         /\ affiliate'[a].paid = affiliate[a].paid + c.due[a]
                         /\ affiliate'[a].total = affiliate[a].total
  <2>1. ASSUME NEW a \in Affiliates
        PROVE  LET l == [affiliate[a] EXCEPT !.pending = 0, !.paid = @ + c.due[a]] IN
               /\ l \in Ledgers /\ l.pending = 0 /\ l.paid = affiliate[a].paid + c.due[a]
               /\ l.total = affiliate[a].total
    <3>1. PICK k \in Nat : k = c.due[a]
      BY <1>4
    <3>2. affiliate[a] \in Ledgers
      BY DEF AffTypeOK
    <3>3. affiliate[a].paid + k \in Nat
      BY <3>1, <1>4
    <3> QED BY <3>1, <3>2, <3>3 DEF Ledgers
  <2> QED BY <1>1, <2>1 DEF AffTypeOK
<1>6. AffTypeOK'
  BY <1>1, <1>3, <1>5 DEF AffTypeOK
<1>7. PayoutsKnow'
  <2> SUFFICES ASSUME NEW q \in AffCalls, affCall'[q].pc = "pay", NEW b \in Affiliates
               PROVE  /\ (b \notin affCall'[q].changed /\ affCall'[q].due[b] > 0) =>
                            affCall'[q].due[b] = affiliate'[b].pending
                      /\ b \notin affCall'[q].repaid => affCall'[q].due[b] <= affiliate'[b].pending
    BY DEF PayoutsKnow
  <2>1. q # p /\ affCall[q].pc = "pay"
    BY <1>2, <1>3
  <2>2. /\ affCall'[q].due = affCall[q].due
        /\ affCall'[q].changed = affCall[q].changed \cup paid
        /\ affCall'[q].repaid = affCall[q].repaid \cup paid
    <3>1. affCall'[q] = [affCall[q] EXCEPT !.changed = @ \cup paid, !.repaid = @ \cup paid]
      BY <1>1, <2>1 DEF MarkChanged
    <3> QED BY <2>1, <3>1, AffCallKinds
  <2> QED BY <1>5, <2>1, <2>2 DEF PayoutsKnow
<1>8. ReferralsNumbered'
  BY <1>1 DEF ReferralsNumbered
<1>9. LedgerBalanced'
  <2> SUFFICES ASSUME NEW a \in Affiliates
               PROVE  /\ a \notin paidTwice' =>
                           affiliate'[a].pending + affiliate'[a].paid <= affiliate'[a].total
                      /\ a \notin skewed' =>
                           affiliate'[a].pending + affiliate'[a].paid = affiliate'[a].total
    BY DEF LedgerBalanced
  <2>1. CASE a \in paid
    <3>1. /\ affiliate'[a].pending = 0 /\ affiliate'[a].paid = affiliate[a].paid + c.due[a]
          /\ affiliate'[a].total = affiliate[a].total
      BY <2>1, <1>5
    <3>2. a \notin paidTwice' => a \notin paidTwice /\ c.due[a] <= affiliate[a].pending
      BY <2>1, <1>1 DEF PayoutsKnow
    <3>3. a \notin skewed' => a \notin skewed /\ c.due[a] = affiliate[a].pending
      BY <2>1, <1>1 DEF PayoutsKnow
    <3> QED BY <1>4, <3>1, <3>2, <3>3 DEF LedgerBalanced
  <2>2. CASE a \notin paid
    BY <2>2, <1>1, <1>5 DEF LedgerBalanced
  <2> QED BY <2>1, <2>2
<1>10. EarningsFollowReferrals'
  <2>1. ASSUME NEW a \in Affiliates
        PROVE  /\ Counting(a)' = Counting(a) /\ Earned(a)' = Earned(a)
               /\ affiliate'[a].total = affiliate[a].total
    BY <1>1, <1>2, <1>3, <1>5 DEF Counting, Earned
  <2> QED BY <1>1, <2>1 DEF EarningsFollowReferrals
<1> QED BY <1>6, <1>7, <1>8, <1>9, <1>10

-----------------------------------------------------------------------------
LEMMA AffStep == AffInv /\ [AffNext]_affVars => AffInv'
<1> SUFFICES ASSUME AffInv, [AffNext]_affVars PROVE AffInv'
  OBVIOUS
<1>1. ASSUME NEW p \in AffCalls,
             \/ \E e \in Emails : FindApplication(p, e)
             \/ \E a \in Affiliates : RegisterAffiliate(p, a)
             \/ \E m \in Referred, a \in Affiliates : TrackConversion(p, m, a)
             \/ CheckReferral(p) \/ LinkMaster(p)
      PROVE  AffInv'
  BY <1>1, ApplyInv
<1>2. ASSUME NEW p \in AffCalls, AddReferral(p) \/ CountReferral(p) PROVE AffInv'
  BY <1>2, AddReferralInv, CountInv
<1>3. ASSUME NEW p \in AffCalls, QueryPayouts(p) \/ CommitPayouts(p) \/ AffDie(p) PROVE AffInv'
  BY <1>3, QueryInv, CommitInv, DieInv
<1>4. ASSUME NEW a \in Affiliates, NEW d \in {"active", "rejected"}, ReviewAffiliate(a, d)
      PROVE  AffInv'
  BY <1>4, ReviewInv
<1>5. CASE UNCHANGED affVars
  <2>1. AffTypeOK' /\ PayoutsKnow' /\ ReferralsNumbered' /\ LedgerBalanced'
    BY <1>5 DEF affVars, AffInv, AffTypeOK, PayoutsKnow, ReferralsNumbered, LedgerBalanced
  <2>2. EarningsFollowReferrals'
    BY <1>5 DEF affVars, AffInv, EarningsFollowReferrals, Earned, Counting
  <2> QED BY <2>1, <2>2 DEF AffInv
<1> QED BY <1>1, <1>2, <1>3, <1>4, <1>5 DEF AffNext

LEMMA AffAlways == AffSpec => []AffInv
BY AffStarts, AffStep, PTL DEF AffSpec

\* Affiliates, referrals and calls keep their types.
THEOREM AffTypes == AffSpec => []AffTypeOK
<1>1. AffInv => AffTypeOK
  BY DEF AffInv
<1> QED BY AffAlways, <1>1, PTL

\* Every ledger balances, except after the overlaps of payouts that the
\* property names.
THEOREM LedgersBalance == AffSpec => []LedgerBalanced
<1>1. AffInv => LedgerBalanced
  BY DEF AffInv
<1> QED BY AffAlways, <1>1, PTL

\* No referral is counted twice, and none is lost while no call dies.
THEOREM EarningsFollow == AffSpec => []EarningsFollowReferrals
<1>1. AffInv => EarningsFollowReferrals
  BY DEF AffInv
<1> QED BY AffAlways, <1>1, PTL
=============================================================================
