--------------------------- MODULE ApprovalProofs ---------------------------
(***************************************************************************)
(* Dividend declarations and CEEP reports implement ReviewedApproval, for  *)
(* any number of officers, sources and races between finalizations.        *)
(***************************************************************************)
EXTENDS CeepReports, Dividends, SumLemmas

-----------------------------------------------------------------------------
(* CEEP reports.                                                           *)

\* What an open finalization has built is the draft its officer still holds,
\* and it covers the month; so does the saved report.
CeepInv ==
    /\ \A s \in Approvers :
           finalizing[s] # NoReport =>
               finalizing[s] = drafts[s] /\ finalizing[s].cutoff = "after"
    /\ ceepReport # NoReport => ceepReport.cutoff = "after"
    /\ EveryoneSeesOneReport

LEMMA BuiltReports ==
    ASSUME CeepTypeOK, NEW cutoff \in {"within", "after"}
    PROVE  BuildCEEPReport(cutoff) \in Reports
BY DEF CeepTypeOK, BuildCEEPReport, Reports

\* The model keeps the types of the rows of ceep.go through every step.
THEOREM CeepTypes == CeepSpec => []CeepTypeOK
<1>1. CeepInit => CeepTypeOK
  BY DEF CeepInit, CeepTypeOK
<1>2. CeepTypeOK /\ [CeepNext]_ceepVars => CeepTypeOK'
  <2> SUFFICES ASSUME CeepTypeOK, [CeepNext]_ceepVars PROVE CeepTypeOK'
    OBVIOUS
  <2> USE DEF CeepTypeOK
  <2>1. ASSUME NEW f \in CeepFacts, CeepSourcesChange(f) PROVE CeepTypeOK'
    BY <2>1 DEF CeepSourcesChange
  <2>2. CASE MonthEnds
    BY <2>2 DEF MonthEnds
  <2>3. ASSUME NEW s \in Approvers, NEW cutoff \in Cutoffs, GetCEEPReport(s, cutoff)
        PROVE  CeepTypeOK'
    <3>1. BuildCEEPReport(cutoff) \in Reports
      BY BuiltReports DEF Cutoffs
    <3>2. QED
      BY <2>3, <3>1 DEF GetCEEPReport
  <2>4. ASSUME NEW s \in Approvers, ReturnSaved(s) PROVE CeepTypeOK'
    BY <2>4 DEF ReturnSaved
  <2>5. ASSUME NEW s \in Approvers, FinalizeCEEPReport(s) PROVE CeepTypeOK'
    <3>1. drafts[s] \in Reports
      BY <2>5 DEF FinalizeCEEPReport
    <3>2. BuildCEEPReport(drafts[s].cutoff) \in Reports
      BY <3>1, BuiltReports DEF Reports
    <3>3. QED
      BY <2>5, <3>2 DEF FinalizeCEEPReport
  <2>6. ASSUME NEW s \in Approvers, SaveCEEPReport(s) PROVE CeepTypeOK'
    BY <2>6 DEF SaveCEEPReport, Kept
  <2>7. ASSUME NEW s \in Approvers, FinalizationFails(s) PROVE CeepTypeOK'
    BY <2>7 DEF FinalizationFails
  <2>8. CASE UNCHANGED ceepVars
    BY <2>8 DEF ceepVars
  <2>9. QED
    BY <2>1, <2>2, <2>3, <2>4, <2>5, <2>6, <2>7, <2>8 DEF CeepNext
<1>3. QED
  BY <1>1, <1>2, PTL DEF CeepSpec

LEMMA CeepInvHolds == CeepSpec => []CeepInv
<1> USE DEF CeepInv, EveryoneSeesOneReport
<1>1. CeepInit => CeepInv
  BY DEF CeepInit
<1>2. CeepTypeOK /\ CeepInv /\ [CeepNext]_ceepVars => CeepInv'
  <2> SUFFICES ASSUME CeepTypeOK, CeepInv, [CeepNext]_ceepVars PROVE CeepInv'
    OBVIOUS
  <2> USE DEF CeepTypeOK
  <2>1. ASSUME NEW f \in CeepFacts, CeepSourcesChange(f) PROVE CeepInv'
    BY <2>1 DEF CeepSourcesChange
  <2>2. CASE MonthEnds
    BY <2>2 DEF MonthEnds
  <2>3. ASSUME NEW s \in Approvers, NEW cutoff \in Cutoffs, GetCEEPReport(s, cutoff)
        PROVE  CeepInv'
    BY <2>3 DEF GetCEEPReport
  <2>4. ASSUME NEW s \in Approvers, ReturnSaved(s) PROVE CeepInv'
    BY <2>4 DEF ReturnSaved
  <2>5. ASSUME NEW s \in Approvers, FinalizeCEEPReport(s) PROVE CeepInv'
    <3>1. PICK r : /\ r.cutoff = "after" /\ r = drafts[s]
                   /\ finalizing' = [finalizing EXCEPT ![s] = r]
      BY <2>5 DEF FinalizeCEEPReport, Finalizable, MatchesDraft
    <3>2. QED
      BY <2>5, <3>1 DEF FinalizeCEEPReport
  <2>6. ASSUME NEW s \in Approvers, SaveCEEPReport(s) PROVE CeepInv'
    <3>1. ceepReport # NoReport => ceepReport' = ceepReport
      BY <2>6 DEF SaveCEEPReport, Kept
    <3>2. ceepReport' = ceepReport \/ \A t \in Approvers : replies[t] = NoReport
      BY <3>1
    <3>3. ceepReport' # NoReport => ceepReport'.cutoff = "after"
      BY <2>6 DEF SaveCEEPReport, Kept
    <3>4. QED
      BY <2>6, <3>2, <3>3 DEF SaveCEEPReport
  <2>7. ASSUME NEW s \in Approvers, FinalizationFails(s) PROVE CeepInv'
    BY <2>7 DEF FinalizationFails
  <2>8. CASE UNCHANGED ceepVars
    BY <2>8 DEF ceepVars
  <2>9. QED
    BY <2>1, <2>2, <2>3, <2>4, <2>5, <2>6, <2>7, <2>8 DEF CeepNext
<1>3. QED
  BY <1>1, <1>2, CeepTypes, PTL DEF CeepSpec

\* FinalizeCEEPReport answers every officer with the one report that was saved
\* first, and that report covers the whole month.
THEOREM OneReport == CeepSpec => []EveryoneSeesOneReport
<1>1. CeepInv => EveryoneSeesOneReport
  BY DEF CeepInv
<1>2. QED
  BY <1>1, CeepInvHolds, PTL

\* FinalizeCEEPReport freezes exactly the draft its officer reviewed, once,
\* whatever other finalizations and writers do between its statements.
THEOREM CeepRefinesApproval == CeepSpec => CeepImplementsApproval
<1> USE DEF Finalization!Review, Finalization!Freeze
<1>1. CeepInit => Finalization!Init
  BY DEF CeepInit, Finalization!Init
<1>2. CeepTypeOK /\ CeepInv /\ [CeepNext]_ceepVars
        => [Finalization!Next]_<<drafts, ceepReport>>
  <2> SUFFICES ASSUME CeepTypeOK, CeepInv, [CeepNext]_ceepVars
               PROVE  [Finalization!Next]_<<drafts, ceepReport>>
    OBVIOUS
  <2>1. ASSUME NEW s \in Approvers, NEW cutoff \in Cutoffs, GetCEEPReport(s, cutoff)
        PROVE  [Finalization!Next]_<<drafts, ceepReport>>
    <3> DEFINE d == BuildCEEPReport(cutoff)
    <3>1. d \in Reports
      BY BuiltReports DEF Cutoffs
    <3> HIDE DEF d
    <3>2. drafts' = [drafts EXCEPT ![s] = d] /\ UNCHANGED ceepReport
      BY <2>1 DEF GetCEEPReport, d
    <3>3. CASE drafts[s] = d
      BY <3>2, <3>3 DEF CeepTypeOK
    <3>4. CASE drafts[s] # d
      <4>1. drafts'[s] # drafts[s]
        BY <3>2, <3>4 DEF CeepTypeOK
      <4>2. Finalization!Review(s)
        BY <3>1, <3>2, <4>1
      <4>3. QED
        BY <4>2 DEF Finalization!Next
    <3>5. QED
      BY <3>3, <3>4
  <2>2. ASSUME NEW s \in Approvers, SaveCEEPReport(s)
        PROVE  [Finalization!Next]_<<drafts, ceepReport>>
    <3>1. CASE ceepReport # NoReport
      BY <2>2, <3>1 DEF SaveCEEPReport, Kept
    <3>2. CASE ceepReport = NoReport
      <4>1. Finalization!Freeze(s)
        BY <2>2, <3>2 DEF SaveCEEPReport, Kept, CeepInv
      <4>2. QED
        BY <4>1 DEF Finalization!Next
    <3>3. QED
      BY <3>1, <3>2
  <2>3. ASSUME NEW s \in Approvers,
               ReturnSaved(s) \/ FinalizeCEEPReport(s) \/ FinalizationFails(s)
        PROVE  UNCHANGED <<drafts, ceepReport>>
    BY <2>3 DEF ReturnSaved, FinalizeCEEPReport, FinalizationFails
  <2>4. ASSUME \/ \E f \in CeepFacts : CeepSourcesChange(f)
               \/ MonthEnds \/ UNCHANGED ceepVars
        PROVE  UNCHANGED <<drafts, ceepReport>>
    BY <2>4 DEF CeepSourcesChange, MonthEnds, ceepVars
  <2>5. QED
    BY <2>1, <2>2, <2>3, <2>4 DEF CeepNext
<1>3. QED
  BY <1>1, <1>2, CeepTypes, CeepInvHolds, PTL
     DEF CeepSpec, CeepImplementsApproval, Finalization!Spec
-----------------------------------------------------------------------------
(* Dividends.                                                              *)

\* An allocation row.
AllocationRows ==
    [eligible : BOOLEAN, amount : Nat, choice : {"none", "cash", "shares"},
     settled : BOOLEAN, voucher : Vouchers \cup {"none"}]

\* What an open approval has computed is the preview its manager still holds,
\* and a register without a declaration is empty.
DividendInv ==
    /\ sources \in [Shareholders -> Facts]
    /\ accountStatus \in [Shareholders -> AccountStatuses]
    /\ previews \in [Managers -> Previews \cup {NoPreview}]
    /\ approving \in [Managers -> Previews \cup {NoPreview}]
    /\ allocations \in [Shareholders -> AllocationRows]
    /\ \A s \in Managers : approving[s] # NoPreview => approving[s] = previews[s]

LEMMA PreviewsTyped ==
    ASSUME sources \in [Shareholders -> Facts], NEW rate \in Rates
    PROVE  Preview(rate) \in Previews
<1> DEFINE S == {x \in Shareholders : sources[x].status # "deleted"}
           f == [m \in S |-> sources[m]]
<1>1. S \in SUBSET Shareholders /\ f \in [S -> Facts]
  OBVIOUS
<1>2. f \in UNION {[T -> Facts] : T \in SUBSET Shareholders}
  BY <1>1
<1>3. QED
  BY <1>2 DEF Preview, Previews

LEMMA AmountsTyped ==
    ASSUME NEW p \in Previews, NEW m \in DOMAIN p.facts
    PROVE  /\ p.facts[m] \in Facts
           /\ DividendAmount(p.facts[m], p.rate) \in Nat
           /\ eligible(p.facts[m]) \in BOOLEAN
<1>1. PICK T \in SUBSET Shareholders : p.facts \in [T -> Facts]
  BY DEF Previews
<1>2. p.facts[m] \in Facts /\ p.rate \in Rates
  BY <1>1 DEF Previews
<1>3. p.facts[m].balance \in Int /\ p.rate \in Nat
  BY <1>2, DividendConstants
<1>4. \A a, b \in Nat : a * b \in Nat
  OBVIOUS
<1>5. \A n \in Nat : (n + 50) \div 100 \in Nat
  OBVIOUS
<1>6. eligible(p.facts[m]) => p.facts[m].balance * p.rate \in Nat
  <2>1. eligible(p.facts[m]) => p.facts[m].balance \in Nat
    BY <1>3 DEF eligible
  <2> QED BY <1>3, <1>4, <2>1
<1>7. DividendAmount(p.facts[m], p.rate) \in Nat
  <2>1. eligible(p.facts[m]) => (p.facts[m].balance * p.rate + 50) \div 100 \in Nat
    BY <1>5, <1>6
  <2> QED BY <2>1 DEF DividendAmount
<1>8. QED
  BY <1>2, <1>7 DEF eligible

LEMMA ChoiceEffect ==
    ASSUME DividendInv, NEW m \in Shareholders, NEW choice \in {"cash", "shares"},
           RecordDividendChoice(m, choice)
    PROVE  /\ allocations' \in [Shareholders -> AllocationRows]
           /\ \A n \in Shareholders \ {m} : allocations'[n] = allocations[n]
           /\ allocations[m].choice = "none"
           /\ allocations'[m].eligible = allocations[m].eligible
           /\ allocations'[m].amount = allocations[m].amount
           /\ allocations'[m].settled = allocations[m].settled
           /\ allocations'[m].voucher = allocations[m].voucher
BY DEF DividendInv, RecordDividendChoice, Choosable, MayChoose, AllocationRows

LEMMA CashEffect ==
    ASSUME DividendInv, NEW m \in Shareholders, NEW v \in Vouchers, SettleCash(m, v)
    PROVE  /\ allocations' \in [Shareholders -> AllocationRows]
           /\ \A n \in Shareholders \ {m} : allocations'[n] = allocations[n]
           /\ ~allocations[m].settled
           /\ allocations'[m].eligible = allocations[m].eligible
           /\ allocations'[m].amount = allocations[m].amount
           /\ allocations'[m].choice = allocations[m].choice
           /\ allocations'[m].voucher = v
BY DEF DividendInv, SettleCash, Settleable, AllocationRows

LEMMA SharesEffect ==
    ASSUME DividendInv, NEW m \in Shareholders, SettleShares(m)
    PROVE  /\ allocations' \in [Shareholders -> AllocationRows]
           /\ \A n \in Shareholders \ {m} : allocations'[n] = allocations[n]
           /\ ~allocations[m].settled
           /\ allocations'[m].eligible = allocations[m].eligible
           /\ allocations'[m].amount = allocations[m].amount
           /\ allocations'[m].choice = allocations[m].choice
           /\ allocations'[m].voucher = allocations[m].voucher
BY DEF DividendInv, SettleShares, Settleable, AllocationRows

LEMMA DividendInvHolds == DividendsSpec => []DividendInv
<1>1. DividendsInit => DividendInv
  BY DEF DividendsInit, DividendInv, NoAllocation, AllocationRows, AccountStatuses
<1>2. DividendInv /\ [DividendsNext]_dividendVars => DividendInv'
  <2> SUFFICES ASSUME DividendInv, [DividendsNext]_dividendVars PROVE DividendInv'
    OBVIOUS
  <2>1. ASSUME NEW m \in Shareholders, NEW f \in Facts, SourcesChange(m, f)
        PROVE  DividendInv'
    BY <2>1 DEF SourcesChange, approvalVars, DividendInv, AccountStatuses
  <2>0. ASSUME NEW m \in Shareholders, NEW st \in {"active", "frozen"}, SetAccountStatus(m, st)
        PROVE  DividendInv'
    BY <2>0 DEF SetAccountStatus, approvalVars, DividendInv, AccountStatuses
  <2>2. ASSUME NEW s \in Managers, NEW rate \in Rates, GetDividendRegister(s, rate)
        PROVE  DividendInv'
    <3>1. Preview(rate) \in Previews
      BY PreviewsTyped DEF DividendInv
    <3>2. QED
      BY <2>2, <3>1 DEF GetDividendRegister, sourceVars, DividendInv
  <2>3. ASSUME NEW s \in Managers, ApproveDividends(s) PROVE DividendInv'
    <3>1. PICK p : p = previews[s] /\ approving' = [approving EXCEPT ![s] = p]
      BY <2>3 DEF ApproveDividends, SameAsReviewed
    <3>2. QED
      BY <2>3, <3>1 DEF ApproveDividends, sourceVars, DividendInv
  <2>4. ASSUME NEW s \in Managers, SaveDividendDeclaration(s) PROVE DividendInv'
    <3>1. approving[s] \in Previews
      BY <2>4 DEF SaveDividendDeclaration, DividendInv
    <3>2. allocations' \in [Shareholders -> AllocationRows]
      <4>1. CASE DeclarationIsNew
        <5> DEFINE p == approving[s]
        <5>1. NoAllocation \in AllocationRows
          BY DEF NoAllocation, AllocationRows
        <5>2. \A m \in DOMAIN p.facts :
                 [NoAllocation EXCEPT !.eligible = eligible(p.facts[m]),
                                      !.amount = DividendAmount(p.facts[m], p.rate)]
                     \in AllocationRows
          BY <3>1, AmountsTyped DEF NoAllocation, AllocationRows
        <5>3. allocations' = [m \in Shareholders |->
                 IF m \notin DOMAIN p.facts THEN NoAllocation
                 ELSE [NoAllocation EXCEPT !.eligible = eligible(p.facts[m]),
                                           !.amount = DividendAmount(p.facts[m], p.rate)]]
          BY <2>4, <4>1, Zenon DEF SaveDividendDeclaration
        <5> HIDE DEF p
        <5>4. QED
          BY <5>1, <5>2, <5>3
      <4>2. CASE ~DeclarationIsNew
        BY <2>4, <4>2 DEF SaveDividendDeclaration, DividendInv
      <4>3. QED
        BY <4>1, <4>2
    <3>3. QED
      BY <2>4, <3>2 DEF SaveDividendDeclaration, sourceVars, DividendInv
  <2>5. ASSUME NEW s \in Managers, ApprovalFails(s) PROVE DividendInv'
    BY <2>5 DEF ApprovalFails, sourceVars, DividendInv
  <2>6. ASSUME NEW m \in Shareholders, NEW choice \in {"cash", "shares"},
               RecordDividendChoice(m, choice)
        PROVE  DividendInv'
    BY <2>6, ChoiceEffect DEF RecordDividendChoice, sourceVars, approvalVars, DividendInv
  <2>7. ASSUME NEW m \in Shareholders, NEW v \in Vouchers, SettleCash(m, v)
        PROVE  DividendInv'
    BY <2>7, CashEffect DEF SettleCash, sourceVars, approvalVars, DividendInv
  <2>8. ASSUME NEW m \in Shareholders, SettleShares(m) PROVE DividendInv'
    BY <2>8, SharesEffect DEF SettleShares, sourceVars, approvalVars, DividendInv
  <2>9. CASE UNCHANGED dividendVars
    BY <2>9 DEF dividendVars, DividendInv
  <2>10. QED
    BY <2>0, <2>1, <2>2, <2>3, <2>4, <2>5, <2>6, <2>7, <2>8, <2>9 DEF DividendsNext
<1>3. QED
  BY <1>1, <1>2, PTL DEF DividendsSpec

\* ApproveDividends freezes exactly the preview its manager reviewed; no other
\* approval, retry, choice or settlement replaces it.
THEOREM DividendsRefineApproval == DividendsSpec => DividendsImplementApproval
<1> DEFINE Abstract == [Approval!Next]_<<previews, register.preview>>
<1>1. DividendsInit => Approval!Init
  BY DEF DividendsInit, Approval!Init, NoRegister
<1>2. DividendInv /\ [DividendsNext]_dividendVars => Abstract
  <2> SUFFICES ASSUME DividendInv, [DividendsNext]_dividendVars PROVE Abstract
    OBVIOUS
  <2>1. ASSUME NEW s \in Managers, NEW rate \in Rates, GetDividendRegister(s, rate)
        PROVE  Abstract
    <3> DEFINE d == Preview(rate)
    <3>1. d \in Previews
      BY PreviewsTyped DEF DividendInv
    <3> HIDE DEF d
    <3>2. previews' = [previews EXCEPT ![s] = d] /\ UNCHANGED register
      BY <2>1 DEF GetDividendRegister, d
    <3>3. CASE previews[s] = d
      BY <3>2, <3>3 DEF DividendInv
    <3>4. CASE previews[s] # d
      <4>1. previews'[s] # previews[s]
        BY <3>2, <3>4 DEF DividendInv
      <4>2. Approval!Review(s)
        BY <3>1, <3>2, <4>1 DEF Approval!Review
      <4>3. QED
        BY <4>2 DEF Approval!Next
    <3>5. QED
      BY <3>3, <3>4
  <2>2. ASSUME NEW s \in Managers, SaveDividendDeclaration(s) PROVE Abstract
    <3>1. CASE ~DeclarationIsNew
      BY <2>2, <3>1 DEF SaveDividendDeclaration
    <3>2. CASE DeclarationIsNew
      <4>1. register.preview = NoPreview
        BY <3>2 DEF DeclarationIsNew, Approved, NoRegister
      <4>2. register'.preview = approving[s]
        <5>1. register' = [preview |-> approving[s], total |-> approvedTotal(approving[s])]
          BY <2>2, <3>2, Zenon DEF SaveDividendDeclaration
        <5>2. QED
          BY <5>1
      <4>3. approving[s] = previews[s] /\ approving[s] # NoPreview /\ UNCHANGED previews
        BY <2>2 DEF SaveDividendDeclaration, DividendInv
      <4>4. Approval!Freeze(s)
        BY <4>1, <4>2, <4>3 DEF Approval!Freeze
      <4>5. QED
        BY <4>4 DEF Approval!Next
    <3>3. QED
      BY <3>1, <3>2
  <2>3. ASSUME NEW s \in Managers, ApproveDividends(s) \/ ApprovalFails(s) PROVE Abstract
    BY <2>3 DEF ApproveDividends, ApprovalFails
  <2>4. ASSUME NEW m \in Shareholders,
               \/ \E f \in Facts : SourcesChange(m, f)
               \/ \E st \in {"active", "frozen"} : SetAccountStatus(m, st)
               \/ \E choice \in {"cash", "shares"} : RecordDividendChoice(m, choice)
               \/ \E v \in Vouchers : SettleCash(m, v)
               \/ SettleShares(m)
        PROVE  Abstract
    BY <2>4 DEF SourcesChange, SetAccountStatus, RecordDividendChoice, SettleCash, SettleShares, approvalVars
  <2>5. CASE UNCHANGED dividendVars
    BY <2>5 DEF dividendVars
  <2>6. QED
    BY <2>1, <2>2, <2>3, <2>4, <2>5 DEF DividendsNext
<1>3. QED
  BY <1>1, <1>2, DividendInvHolds, PTL
     DEF DividendsSpec, DividendsImplementApproval, Approval!Spec

\* Only an allocation with a choice is settled, and vouchers are used once.
PaymentInv ==
    /\ \A m \in Shareholders : allocations[m].settled => allocations[m].choice # "none"
    /\ VouchersPayOnce

LEMMA FreshAllocations ==
    ASSUME DividendInv, NEW s \in Managers, SaveDividendDeclaration(s), DeclarationIsNew
    PROVE  \A m \in Shareholders : ~allocations'[m].settled /\ allocations'[m].voucher = "none"
<1> DEFINE p == approving[s]
<1>1. allocations' = [m \in Shareholders |->
         IF m \notin DOMAIN p.facts THEN NoAllocation
         ELSE [NoAllocation EXCEPT !.eligible = eligible(p.facts[m]),
                                   !.amount = DividendAmount(p.facts[m], p.rate)]]
  BY Zenon DEF SaveDividendDeclaration
<1> HIDE DEF p
<1>2. QED
  BY <1>1 DEF NoAllocation

LEMMA PaymentInvHolds == DividendsSpec => []PaymentInv
<1>1. DividendsInit => PaymentInv
  BY DEF DividendsInit, PaymentInv, VouchersPayOnce, NoAllocation
<1>2. DividendInv /\ PaymentInv /\ [DividendsNext]_dividendVars => PaymentInv'
  <2> SUFFICES ASSUME DividendInv, PaymentInv, [DividendsNext]_dividendVars
               PROVE  PaymentInv'
    OBVIOUS
  <2> USE DEF PaymentInv, VouchersPayOnce
  <2>1. ASSUME UNCHANGED allocations PROVE PaymentInv'
    BY <2>1
  <2>2. ASSUME NEW s \in Managers, SaveDividendDeclaration(s) PROVE PaymentInv'
    <3>1. CASE DeclarationIsNew
      BY <2>2, <3>1, FreshAllocations
    <3>2. CASE ~DeclarationIsNew
      BY <2>1, <2>2, <3>2 DEF SaveDividendDeclaration
    <3>3. QED
      BY <3>1, <3>2
  <2>3. ASSUME NEW m \in Shareholders, NEW choice \in {"cash", "shares"},
               RecordDividendChoice(m, choice)
        PROVE  PaymentInv'
    <3>1. ~allocations[m].settled
      BY <2>3, ChoiceEffect
    <3>2. QED
      BY <2>3, <3>1, ChoiceEffect
  <2>4. ASSUME NEW m \in Shareholders, NEW v \in Vouchers, SettleCash(m, v)
        PROVE  PaymentInv'
    <3>1. \A n \in Shareholders : allocations[n].voucher # v
      BY <2>4 DEF SettleCash, VoucherIsNew
    <3>2. allocations[m].choice = "cash"
      BY <2>4 DEF SettleCash, Settleable
    <3>3. QED
      BY <2>4, <3>1, <3>2, CashEffect
  <2>5. ASSUME NEW m \in Shareholders, SettleShares(m) PROVE PaymentInv'
    <3>1. allocations[m].choice = "shares"
      BY <2>5 DEF SettleShares, Settleable
    <3>2. QED
      BY <2>5, <3>1, SharesEffect
  <2>6. QED
    BY <2>1, <2>2, <2>3, <2>4, <2>5
       DEF DividendsNext, SourcesChange, SetAccountStatus, GetDividendRegister, ApproveDividends,
           ApprovalFails, dividendVars
<1>3. QED
  BY <1>1, <1>2, DividendInvHolds, PTL DEF DividendsSpec

\* SettleDividend never accepts a voucher that has paid another member.
THEOREM OneVoucherOnePayment == DividendsSpec => []VouchersPayOnce
<1>1. PaymentInv => VouchersPayOnce
  BY DEF PaymentInv
<1>2. QED
  BY <1>1, PaymentInvHolds, PTL

\* Once approved, an allocation keeps its amount and its recorded choice, and a
\* settled one does not change: SaveDividendDeclaration, RecordDividendChoice and
\* SettleDividend, raced or repeated.
THEOREM AllocationsStayFrozen == DividendsSpec => AllocationsFrozen
<1> DEFINE Frozen(m) ==
        LET a == allocations[m]
            b == allocations'[m]
        IN  /\ b.eligible = a.eligible /\ b.amount = a.amount
            /\ a.choice # "none" => b.choice = a.choice
            /\ a.settled => b = a
<1>1. DividendInv /\ PaymentInv /\ [DividendsNext]_dividendVars
        => (Approved => \A m \in Shareholders : Frozen(m))
  <2> SUFFICES ASSUME DividendInv, PaymentInv, [DividendsNext]_dividendVars, Approved
               PROVE  \A m \in Shareholders : Frozen(m)
    OBVIOUS
  <2>1. ASSUME UNCHANGED allocations PROVE \A m \in Shareholders : Frozen(m)
    BY <2>1
  <2>2. ASSUME NEW s \in Managers, SaveDividendDeclaration(s)
        PROVE  UNCHANGED allocations
    BY <2>2 DEF SaveDividendDeclaration, DeclarationIsNew
  <2>3. ASSUME NEW m \in Shareholders, NEW choice \in {"cash", "shares"},
               RecordDividendChoice(m, choice)
        PROVE  \A n \in Shareholders : Frozen(n)
    <3>1. Frozen(m)
      BY <2>3, ChoiceEffect DEF PaymentInv
    <3>2. \A n \in Shareholders \ {m} : Frozen(n)
      BY <2>3, ChoiceEffect
    <3>3. QED
      BY <3>1, <3>2
  <2>4. ASSUME NEW m \in Shareholders, NEW v \in Vouchers, SettleCash(m, v)
        PROVE  \A n \in Shareholders : Frozen(n)
    <3>1. Frozen(m)
      BY <2>4, CashEffect
    <3>2. \A n \in Shareholders \ {m} : Frozen(n)
      BY <2>4, CashEffect
    <3>3. QED
      BY <3>1, <3>2
  <2>5. ASSUME NEW m \in Shareholders, SettleShares(m)
        PROVE  \A n \in Shareholders : Frozen(n)
    <3>1. Frozen(m)
      BY <2>5, SharesEffect
    <3>2. \A n \in Shareholders \ {m} : Frozen(n)
      BY <2>5, SharesEffect
    <3>3. QED
      BY <3>1, <3>2
  <2>6. QED
    BY <2>1, <2>2, <2>3, <2>4, <2>5
       DEF DividendsNext, SourcesChange, SetAccountStatus, GetDividendRegister, ApproveDividends,
           ApprovalFails, dividendVars
<1>2. QED
  BY <1>1, DividendInvHolds, PaymentInvHolds, PTL DEF DividendsSpec, AllocationsFrozen

-----------------------------------------------------------------------------
(* The amounts of a declaration.                                           *)

\* What every member was allocated, and who was settled in one way.
Allocated == [m \in Shareholders |-> allocations[m].amount]
SettledIn(choice) == {m \in Shareholders : allocations[m].settled /\ allocations[m].choice = choice}

\* The total is that of the allocations, the share ledger has one posting for
\* each reinvested one, and nothing is allocated before the approval.
RegisterBooks ==
    /\ register \in [preview : Previews \cup {NoPreview}, total : Nat]
    /\ register.total = SumFunctionOnSet(Allocated, Shareholders)
    /\ postings = {<<m, allocations[m].amount>> : m \in SettledIn("shares")}
    /\ ~Approved => \A m \in Shareholders : allocations[m].choice = "none"

\* A step that moves no amount, and settles nothing or pays in cash.
LEMMA AmountsStay ==
    ASSUME DividendInv, DividendInv', RegisterBooks, register' = register,
           \A m \in Shareholders : allocations'[m].amount = allocations[m].amount
    PROVE  SumFunctionOnSet(Allocated', Shareholders) = register'.total
<1>1. Allocated' = Allocated
  BY DEF Allocated
<1> QED BY <1>1 DEF RegisterBooks

\* SaveDividendDeclaration adds up the amounts that it allocates.
LEMMA NewTotal ==
    ASSUME DividendInv, NEW s \in Managers, SaveDividendDeclaration(s), DeclarationIsNew
    PROVE  /\ register' \in [preview : Previews \cup {NoPreview}, total : Nat]
           /\ register'.total = SumFunctionOnSet(Allocated', Shareholders)
           /\ Approved'
<1> DEFINE p == approving[s]
           D == DOMAIN p.facts
           F == [m \in D |-> DividendAmount(p.facts[m], p.rate)]
<1>1. p \in Previews /\ p # NoPreview
  BY DEF SaveDividendDeclaration, DividendInv
<1>2. D \in SUBSET Shareholders
  BY <1>1 DEF Previews
<1>3. \A m \in D : F[m] \in Nat
  BY <1>1, AmountsTyped
<1>4. register' = [preview |-> p, total |-> SumFunctionOnSet(F, D)]
  BY Zenon DEF SaveDividendDeclaration, approvedTotal, SumFunction
<1>5. allocations' = [m \in Shareholders |->
         IF m \notin D THEN NoAllocation
         ELSE [NoAllocation EXCEPT !.eligible = eligible(p.facts[m]), !.amount = F[m]]]
  <2>1. allocations' = [m \in Shareholders |->
           IF m \notin D THEN NoAllocation
           ELSE [NoAllocation EXCEPT !.eligible = eligible(p.facts[m]),
                                     !.amount = DividendAmount(p.facts[m], p.rate)]]
    BY Zenon DEF SaveDividendDeclaration
  <2>2. \A m \in D : F[m] = DividendAmount(p.facts[m], p.rate)
    OBVIOUS
  <2> HIDE DEF p, F, D
  <2> QED BY <2>1, <2>2
<1> HIDE DEF p, F, D
<1>6. IsFiniteSet(Shareholders) /\ IsFiniteSet(D) /\ IsFiniteSet(Shareholders \ D)
  BY <1>2, DividendConstants, FS_Subset
<1>7. \A m \in Shareholders : Allocated'[m] = IF m \in D THEN F[m] ELSE 0
  BY <1>5 DEF Allocated, NoAllocation
<1>8. SumFunctionOnSet(Allocated', D) = SumFunctionOnSet(F, D)
  <2>1. \A m \in D : F[m] \in Int /\ F[m] = Allocated'[m]
    BY <1>2, <1>3, <1>7
  <2> QED BY <1>6, <2>1, SumSame
<1>9. SumFunctionOnSet(Allocated', Shareholders \ D) = 0
  BY <1>6, <1>7, SumZero
<1>10. SumFunctionOnSet(F, D) \in Nat
  BY <1>3, <1>6, SumNat
<1>11. SumFunctionOnSet(Allocated', Shareholders) = SumFunctionOnSet(F, D)
  <2>1. D \cup (Shareholders \ D) = Shareholders /\ D \cap (Shareholders \ D) = {}
    BY <1>2
  <2>2. \A m \in D \cup (Shareholders \ D) : Allocated'[m] \in Int
    BY <1>3, <1>7, <2>1
  <2>3. SumFunctionOnSet(Allocated', D \cup (Shareholders \ D))
            = SumFunctionOnSet(Allocated', D) + SumFunctionOnSet(Allocated', Shareholders \ D)
    BY <1>6, <2>1, <2>2, SumSplit
  <2>4. SumFunctionOnSet(Allocated', Shareholders)
            = SumFunctionOnSet(Allocated', D) + SumFunctionOnSet(Allocated', Shareholders \ D)
    BY <2>1, <2>3, Zenon
  <2> HIDE DEF Allocated
  <2>5. SumFunctionOnSet(Allocated', Shareholders) = SumFunctionOnSet(F, D) + 0
    BY <1>8, <1>9, <2>4
  <2> QED BY <1>10, <2>5
<1>12. Approved'
  BY <1>1, <1>4 DEF Approved, NoRegister
<1> QED BY <1>1, <1>4, <1>10, <1>11, <1>12

LEMMA RegisterBooksHold == DividendsSpec => []RegisterBooks
<1>1. DividendsInit => RegisterBooks
  <2> SUFFICES ASSUME DividendsInit PROVE RegisterBooks
    OBVIOUS
  <2>1. register = NoRegister
        /\ \A m \in Shareholders : Allocated[m] = 0 /\ ~allocations[m].settled /\ allocations[m].choice = "none"
    BY DEF DividendsInit, Allocated, NoAllocation
  <2>2. SumFunctionOnSet(Allocated, Shareholders) = 0
    BY <2>1, DividendConstants, SumZero
  <2>3. SettledIn("shares") = {} /\ postings = {}
    BY <2>1 DEF DividendsInit, SettledIn
  <2> QED BY <2>1, <2>2, <2>3 DEF RegisterBooks, NoRegister
<1>2. DividendInv /\ DividendInv' /\ PaymentInv /\ RegisterBooks /\ [DividendsNext]_dividendVars
        => RegisterBooks'
  <2> SUFFICES ASSUME DividendInv, DividendInv', PaymentInv, RegisterBooks, [DividendsNext]_dividendVars
               PROVE  RegisterBooks'
    OBVIOUS
  <2>1. ASSUME UNCHANGED <<register, allocations, postings>> PROVE RegisterBooks'
    BY <2>1 DEF RegisterBooks, Approved, Allocated, SettledIn
  <2>2. ASSUME NEW s \in Managers, SaveDividendDeclaration(s) PROVE RegisterBooks'
    <3>1. CASE DeclarationIsNew
      <4>1. \A m \in Shareholders : ~allocations'[m].settled
        BY <2>2, <3>1, FreshAllocations
      <4>2. SettledIn("shares")' = {} /\ SettledIn("shares") = {}
        BY <3>1, <4>1 DEF SettledIn, RegisterBooks, DeclarationIsNew, PaymentInv
      <4>3. postings' = {}
        BY <2>2, <4>2 DEF RegisterBooks, SaveDividendDeclaration
      <4> QED BY <2>2, <3>1, <4>2, <4>3, NewTotal DEF RegisterBooks
    <3>2. CASE ~DeclarationIsNew
      BY <2>1, <2>2, <3>2 DEF SaveDividendDeclaration
    <3> QED BY <3>1, <3>2
  <2>3. ASSUME NEW m \in Shareholders, NEW choice \in {"cash", "shares"}, RecordDividendChoice(m, choice)
        PROVE  RegisterBooks'
    <3>1. /\ register' = register /\ postings' = postings
          /\ \A n \in Shareholders : /\ allocations'[n].amount = allocations[n].amount
                                     /\ allocations'[n].settled = allocations[n].settled
          /\ \A n \in Shareholders : n # m => allocations'[n] = allocations[n]
          /\ ~allocations[m].settled
      BY <2>3, ChoiceEffect DEF RecordDividendChoice, approvalVars, PaymentInv
    <3>2. SettledIn("shares")' = SettledIn("shares")
      BY <3>1 DEF SettledIn
    <3>3. Approved
      BY <2>3 DEF RecordDividendChoice, Choosable
    <3> QED BY <3>1, <3>2, <3>3, AmountsStay DEF RegisterBooks, Approved, SettledIn
  <2>4. ASSUME NEW m \in Shareholders, NEW v \in Vouchers, SettleCash(m, v) PROVE RegisterBooks'
    <3>1. /\ register' = register /\ postings' = postings
          /\ \A n \in Shareholders : /\ allocations'[n].amount = allocations[n].amount
                                     /\ allocations'[n].choice = allocations[n].choice
          /\ \A n \in Shareholders : n # m => allocations'[n] = allocations[n]
          /\ allocations[m].choice = "cash"
      BY <2>4, CashEffect DEF SettleCash, Settleable, approvalVars
    <3>2. SettledIn("shares")' = SettledIn("shares")
      BY <3>1 DEF SettledIn
    <3> QED BY <3>1, <3>2, AmountsStay DEF RegisterBooks, Approved, SettledIn
  <2>5. ASSUME NEW m \in Shareholders, SettleShares(m) PROVE RegisterBooks'
    <3>1. /\ register' = register /\ postings' = postings \cup {<<m, allocations[m].amount>>}
          /\ \A n \in Shareholders : /\ allocations'[n].amount = allocations[n].amount
                                     /\ allocations'[n].choice = allocations[n].choice
          /\ \A n \in Shareholders : n # m => allocations'[n] = allocations[n]
          /\ allocations[m].choice = "shares" /\ allocations'[m].settled
      BY <2>5, SharesEffect
         DEF SettleShares, Settleable, approvalVars, DividendInv, AllocationRows
    <3>2. SettledIn("shares")' = SettledIn("shares") \cup {m}
      BY <3>1 DEF SettledIn
    <3>3. SettledIn("shares")' \subseteq Shareholders
      BY DEF SettledIn
    <3>4. postings' = {<<n, allocations'[n].amount>> : n \in SettledIn("shares")'}
      BY <3>1, <3>2, <3>3 DEF RegisterBooks
    <3> QED BY <3>1, <3>4, AmountsStay DEF RegisterBooks, Approved
  <2> QED
    BY <2>1, <2>2, <2>3, <2>4, <2>5
       DEF DividendsNext, SourcesChange, SetAccountStatus, GetDividendRegister, ApproveDividends,
           ApprovalFails, approvalVars, dividendVars
<1> QED
  BY <1>1, <1>2, DividendInvHolds, PaymentInvHolds, PTL DEF DividendsSpec

\* The types of the dividend tables, for any number of members and managers.
THEOREM DividendTypes == DividendsSpec => []DividendsTypeOK
<1>1. DividendInv /\ RegisterBooks => DividendsTypeOK
  <2> SUFFICES ASSUME DividendInv, RegisterBooks PROVE DividendsTypeOK
    OBVIOUS
  <2>1. \A m \in Shareholders : allocations[m].amount \in Nat
    BY DEF DividendInv, AllocationRows
  <2>2. postings \subseteq Shareholders \X Nat
    BY <2>1 DEF RegisterBooks, SettledIn
  <2> QED BY <2>2 DEF DividendInv, RegisterBooks, DividendsTypeOK, AllocationRows
<1> QED BY <1>1, DividendInvHolds, RegisterBooksHold, PTL

\* dividendRegister adds up at any moment: what was declared is what was paid
\* in cash, reinvested and is outstanding, for any number of members and any
\* order of settlements, and the share ledger holds the reinvested part.
THEOREM DeclarationAddsUp == DividendsSpec => []DividendsAddUp
<1>1. DividendInv /\ PaymentInv /\ RegisterBooks => DividendsAddUp
  <2> SUFFICES ASSUME DividendInv, PaymentInv, RegisterBooks PROVE DividendsAddUp
    OBVIOUS
  <2> DEFINE C == SettledIn("cash")
             R == SettledIn("shares")
             U == {m \in Shareholders : ~allocations[m].settled}
  <2>1. \A m \in Shareholders : allocations[m].settled => allocations[m].choice \in {"cash", "shares"}
    BY DEF DividendInv, PaymentInv, AllocationRows
  <2>2. C \cup R \cup U = Shareholders /\ C \cap R = {} /\ (C \cup R) \cap U = {}
    BY <2>1 DEF SettledIn
  <2>3. \A m \in Shareholders : Allocated[m] \in Int
    BY DEF DividendInv, AllocationRows, Allocated
  <2>4. IsFiniteSet(C) /\ IsFiniteSet(R) /\ IsFiniteSet(C \cup R) /\ IsFiniteSet(U)
    BY DividendConstants, FS_Subset DEF SettledIn
  <2>5. C = {m \in Shareholders : allocations[m].settled /\ allocations[m].choice = "cash"}
        /\ R = {m \in Shareholders : allocations[m].settled /\ allocations[m].choice = "shares"}
    BY DEF SettledIn
  <2> HIDE DEF C, R
  <2>6. SumFunctionOnSet(Allocated, C) \in Int /\ SumFunctionOnSet(Allocated, R) \in Int
        /\ SumFunctionOnSet(Allocated, U) \in Int
    BY <2>2, <2>3, <2>4, SumType
  <2>7. SumFunctionOnSet(Allocated, C \cup R) = SumFunctionOnSet(Allocated, C) + SumFunctionOnSet(Allocated, R)
    BY <2>2, <2>3, <2>4, SumSplit
  <2>8. SumFunctionOnSet(Allocated, (C \cup R) \cup U)
            = SumFunctionOnSet(Allocated, C \cup R) + SumFunctionOnSet(Allocated, U)
    BY <2>2, <2>3, <2>4, SumSplit
  <2>9. register.total = SumFunctionOnSet(Allocated, C) + SumFunctionOnSet(Allocated, R)
                         + SumFunctionOnSet(Allocated, U)
    BY <2>2, <2>6, <2>7, <2>8 DEF RegisterBooks
  <2>10. postings = {<<m, allocations[m].amount>> : m \in R}
    BY DEF RegisterBooks, R
  <2> QED BY <2>5, <2>9, <2>10 DEF DividendsAddUp, PaymentInv, Allocated
<1> QED BY <1>1, DividendInvHolds, PaymentInvHolds, RegisterBooksHold, PTL

-----------------------------------------------------------------------------
(* No approved dividend gets stuck.                                        *)

\* Only an approval makes allocations, and a voucher is written with the
\* settlement it pays for.
OpenInv ==
    \A m \in Shareholders :
        /\ ~Approved => ~allocations[m].eligible
        /\ allocations[m].voucher # "none" => allocations[m].settled

LEMMA OpenInvHolds == DividendsSpec => []OpenInv
<1>1. DividendsInit => OpenInv
  BY DEF DividendsInit, OpenInv, NoAllocation
<1>2. DividendInv /\ OpenInv /\ [DividendsNext]_dividendVars => OpenInv'
  <2> SUFFICES ASSUME DividendInv, OpenInv, [DividendsNext]_dividendVars
               PROVE  OpenInv'
    OBVIOUS
  <2>1. ASSUME UNCHANGED <<register, allocations>> PROVE OpenInv'
    BY <2>1 DEF OpenInv, Approved
  <2>2. ASSUME NEW s \in Managers, SaveDividendDeclaration(s) PROVE OpenInv'
    <3>1. CASE DeclarationIsNew
      <4>1. \A m \in Shareholders : ~allocations'[m].settled /\ allocations'[m].voucher = "none"
        BY <2>2, <3>1, FreshAllocations
      <4>2. /\ approving[s] # NoPreview
            /\ register' = [preview |-> approving[s], total |-> approvedTotal(approving[s])]
        BY <2>2, <3>1, Zenon DEF SaveDividendDeclaration
      <4>3. Approved'
        BY <4>2 DEF Approved, NoRegister
      <4> QED BY <4>1, <4>3 DEF OpenInv
    <3>2. CASE ~DeclarationIsNew
      BY <2>1, <2>2, <3>2 DEF SaveDividendDeclaration
    <3> QED BY <3>1, <3>2
  <2>3. ASSUME NEW m \in Shareholders, NEW choice \in {"cash", "shares"},
               RecordDividendChoice(m, choice)
        PROVE  OpenInv'
    <3>1. Approved' = Approved
      BY <2>3 DEF RecordDividendChoice, approvalVars, Approved
    <3> QED BY <2>3, <3>1, ChoiceEffect DEF OpenInv
  <2>4. ASSUME NEW m \in Shareholders, NEW v \in Vouchers, SettleCash(m, v)
        PROVE  OpenInv'
    <3>1. Approved' = Approved
      BY <2>4 DEF SettleCash, approvalVars, Approved
    <3>2. allocations'[m].settled
      BY <2>4 DEF SettleCash, DividendInv, AllocationRows
    <3> QED BY <2>4, <3>1, <3>2, CashEffect DEF OpenInv
  <2>5. ASSUME NEW m \in Shareholders, SettleShares(m) PROVE OpenInv'
    <3>1. Approved' = Approved
      BY <2>5 DEF SettleShares, approvalVars, Approved
    <3>2. allocations'[m].settled
      BY <2>5 DEF SettleShares, DividendInv, AllocationRows
    <3> QED BY <2>5, <3>1, <3>2, SharesEffect DEF OpenInv
  <2>6. ASSUME \/ \E m \in Shareholders, f \in Facts : SourcesChange(m, f)
               \/ \E m \in Shareholders, st \in {"active", "frozen"} : SetAccountStatus(m, st)
               \/ \E s \in Managers, rate \in Rates : GetDividendRegister(s, rate)
               \/ \E s \in Managers : ApproveDividends(s) \/ ApprovalFails(s)
               \/ UNCHANGED dividendVars
        PROVE  OpenInv'
    BY <2>1, <2>6 DEF SourcesChange, SetAccountStatus, GetDividendRegister, ApproveDividends,
                      ApprovalFails, approvalVars, dividendVars
  <2> QED
    BY <2>2, <2>3, <2>4, <2>5, <2>6 DEF DividendsNext
<1> QED
  BY <1>1, <1>2, DividendInvHolds, PTL DEF DividendsSpec

\* Who was found with an account has one: in the sources, in the preview of an
\* open approval, and in the allocations.
AccountInv ==
    /\ \A m \in Shareholders : sources[m].account_count > 0 => accountStatus[m] # "none"
    /\ \A s \in Managers : approving[s] # NoPreview =>
           \A m \in DOMAIN approving[s].facts :
               eligible(approving[s].facts[m]) => accountStatus[m] # "none"
    /\ \A m \in Shareholders : allocations[m].eligible => accountStatus[m] # "none"

\* An account that exists goes on to exist.
LEMMA AccountsStay ==
    ASSUME DividendInv, AccountInv, [DividendsNext]_dividendVars
    PROVE  \A m \in Shareholders : accountStatus[m] # "none" => accountStatus'[m] # "none"
<1>1. ASSUME NEW m \in Shareholders, NEW f \in Facts, SourcesChange(m, f)
      PROVE  \A x \in Shareholders : accountStatus[x] # "none" => accountStatus'[x] # "none"
  BY <1>1 DEF SourcesChange, DividendInv
<1>2. ASSUME NEW m \in Shareholders, NEW st \in {"active", "frozen"}, SetAccountStatus(m, st)
      PROVE  \A x \in Shareholders : accountStatus[x] # "none" => accountStatus'[x] # "none"
  BY <1>2 DEF SetAccountStatus, DividendInv
<1> QED
  BY <1>1, <1>2 DEF DividendsNext, GetDividendRegister, ApproveDividends, SaveDividendDeclaration,
                    ApprovalFails, RecordDividendChoice, SettleCash, SettleShares, sourceVars,
                    dividendVars

LEMMA AccountInvHolds == DividendsSpec => []AccountInv
<1>1. DividendsInit => AccountInv
  <2> SUFFICES ASSUME DividendsInit PROVE AccountInv
    OBVIOUS
  <2>1. \A m \in Shareholders : sources[m].account_count > 0 => accountStatus[m] # "none"
    BY DEF DividendsInit
  <2> QED BY <2>1 DEF DividendsInit, AccountInv, NoAllocation
<1>2. DividendInv /\ DividendInv' /\ AccountInv /\ [DividendsNext]_dividendVars => AccountInv'
  <2> SUFFICES ASSUME DividendInv, DividendInv', AccountInv, [DividendsNext]_dividendVars
               PROVE  AccountInv'
    OBVIOUS
  <2>0. \A m \in Shareholders : accountStatus[m] # "none" => accountStatus'[m] # "none"
    BY AccountsStay
  <2>1. \A s \in Managers : approving[s] # NoPreview => DOMAIN approving[s].facts \subseteq Shareholders
    <3> SUFFICES ASSUME NEW s \in Managers, approving[s] # NoPreview
                 PROVE  DOMAIN approving[s].facts \subseteq Shareholders
      OBVIOUS
    <3>1. approving[s] \in Previews
      BY DEF DividendInv
    <3>2. PICK S \in SUBSET Shareholders : approving[s].facts \in [S -> Facts]
      BY <3>1 DEF Previews
    <3> QED BY <3>2
  <2>2. ASSUME UNCHANGED <<sources, approving, allocations>> PROVE AccountInv'
    BY <2>0, <2>1, <2>2 DEF AccountInv
  <2>3. ASSUME NEW m \in Shareholders, NEW f \in Facts, SourcesChange(m, f) PROVE AccountInv'
    <3>1. f.account_count \in Nat /\ sources[m].account_count \in Nat
      BY DividendConstants DEF DividendInv
    <3>2. \A x \in Shareholders : sources'[x].account_count > 0 => accountStatus'[x] # "none"
      <4>1. sources'[m].account_count > 0 => accountStatus'[m] # "none"
        BY <2>3, <3>1 DEF SourcesChange, AccountInv, DividendInv
      <4>2. \A x \in Shareholders \ {m} : sources'[x] = sources[x] /\ accountStatus'[x] = accountStatus[x]
        BY <2>3 DEF SourcesChange, DividendInv
      <4> QED BY <4>1, <4>2 DEF AccountInv
    <3>3. UNCHANGED <<approving, allocations>>
      BY <2>3 DEF SourcesChange, approvalVars
    <3> QED BY <2>0, <2>1, <3>2, <3>3 DEF AccountInv
  <2>4. ASSUME NEW s \in Managers, ApproveDividends(s) PROVE AccountInv'
    <3> DEFINE p == Preview(previews[s].rate)
    <3>1. /\ approving' = [approving EXCEPT ![s] = p]
          /\ UNCHANGED <<sources, accountStatus, allocations>>
      BY <2>4 DEF ApproveDividends, sourceVars
    <3>2. \A m \in DOMAIN p.facts : m \in Shareholders /\ p.facts[m] = sources[m]
      BY DEF Preview
    <3>3. \A m \in DOMAIN p.facts : eligible(p.facts[m]) => accountStatus[m] # "none"
      BY <3>2 DEF eligible, AccountInv
    <3> HIDE DEF p
    <3>4. \A t \in Managers : approving'[t] = IF t = s THEN p ELSE approving[t]
      BY <3>1 DEF DividendInv
    <3> QED BY <3>1, <3>3, <3>4 DEF AccountInv
  <2>5. ASSUME NEW s \in Managers, SaveDividendDeclaration(s) PROVE AccountInv'
    <3>1. /\ approving' = [approving EXCEPT ![s] = NoPreview]
          /\ UNCHANGED <<sources, accountStatus>>
      BY <2>5 DEF SaveDividendDeclaration, sourceVars
    <3>2. \A t \in Managers : approving'[t] # NoPreview => approving'[t] = approving[t]
      BY <3>1 DEF DividendInv
    <3>3. \A m \in Shareholders : allocations'[m].eligible => accountStatus[m] # "none"
      <4>1. CASE DeclarationIsNew
        <5> DEFINE p == approving[s]
        <5>1. allocations' = [m \in Shareholders |->
                 IF m \notin DOMAIN p.facts THEN NoAllocation
                 ELSE [NoAllocation EXCEPT !.eligible = eligible(p.facts[m]),
                                           !.amount = DividendAmount(p.facts[m], p.rate)]]
          BY <2>5, <4>1, Zenon DEF SaveDividendDeclaration
        <5>2. p # NoPreview
          BY <2>5 DEF SaveDividendDeclaration
        <5>3. \A m \in DOMAIN p.facts : eligible(p.facts[m]) => accountStatus[m] # "none"
          BY <5>2 DEF AccountInv
        <5> HIDE DEF p
        <5> QED BY <5>1, <5>3 DEF NoAllocation
      <4>2. CASE ~DeclarationIsNew
        BY <2>5, <4>2 DEF SaveDividendDeclaration, AccountInv
      <4> QED BY <4>1, <4>2
    <3> QED BY <3>1, <3>2, <3>3 DEF AccountInv
  <2>6. ASSUME NEW s \in Managers, ApprovalFails(s) PROVE AccountInv'
    <3>1. /\ approving' = [approving EXCEPT ![s] = NoPreview]
          /\ UNCHANGED <<sources, accountStatus, allocations>>
      BY <2>6 DEF ApprovalFails, sourceVars
    <3>2. \A t \in Managers : approving'[t] # NoPreview => approving'[t] = approving[t]
      BY <3>1 DEF DividendInv
    <3> QED BY <3>1, <3>2 DEF AccountInv
  <2>7. ASSUME UNCHANGED <<sources, accountStatus, approving>>,
               \A m \in Shareholders : allocations'[m].eligible = allocations[m].eligible
        PROVE  AccountInv'
    BY <2>7 DEF AccountInv
  <2>8. ASSUME NEW m \in Shareholders, NEW choice \in {"cash", "shares"},
               RecordDividendChoice(m, choice)
        PROVE  AccountInv'
    BY <2>7, <2>8, ChoiceEffect DEF RecordDividendChoice, sourceVars, approvalVars
  <2>9. ASSUME NEW m \in Shareholders, NEW v \in Vouchers, SettleCash(m, v) PROVE AccountInv'
    BY <2>7, <2>9, CashEffect DEF SettleCash, sourceVars, approvalVars
  <2>10. ASSUME NEW m \in Shareholders, SettleShares(m) PROVE AccountInv'
    BY <2>7, <2>10, SharesEffect DEF SettleShares, sourceVars, approvalVars
  <2>11. ASSUME \/ \E m \in Shareholders, st \in {"active", "frozen"} : SetAccountStatus(m, st)
                \/ \E s \in Managers, rate \in Rates : GetDividendRegister(s, rate)
                \/ UNCHANGED dividendVars
         PROVE  AccountInv'
    BY <2>2, <2>11 DEF SetAccountStatus, GetDividendRegister, sourceVars, approvalVars, dividendVars
  <2> QED
    BY <2>3, <2>4, <2>5, <2>6, <2>8, <2>9, <2>10, <2>11 DEF DividendsNext
<1> QED
  BY <1>1, <1>2, DividendInvHolds, PTL DEF DividendsSpec

\* Vouchers do not run out while somebody is unpaid: they are free text.
VouchersSuffice ==
    \A S \in SUBSET Shareholders : S # Shareholders =>
        \A f \in [S -> Vouchers] : \E v \in Vouchers : \A m \in S : f[m] # v

\* "A later member status change must not prevent either settlement option":
\* however members, accounts and other settlements change after the approval, an
\* unsettled dividend can be chosen, paid against an unused voucher, or posted.
\* The account found at the approval still exists, nothing else was posted under
\* the allocation's reference, and postTransactionInTx excepts dividends from its
\* check of the account's status.
THEOREM DividendsNeverStick ==
    ASSUME VouchersSuffice
    PROVE  DividendsSpec => []SettlementStaysOpen
<1>1. DividendInv /\ OpenInv /\ AccountInv /\ RegisterBooks => SettlementStaysOpen
  <2> SUFFICES ASSUME DividendInv, OpenInv, AccountInv, RegisterBooks, NEW m \in Shareholders,
                      Payable(allocations[m]), ~allocations[m].settled
               PROVE  /\ allocations[m].choice = "none" => Choosable(m)
                      /\ \E v \in Vouchers : VoucherIsNew(v)
                      /\ PostDividendInTx(m)
    BY DEF SettlementStaysOpen
  <2>1. allocations[m].choice = "none" => Choosable(m)
    BY DEF OpenInv, Payable, Choosable, MayChoose
  <2>2. \E v \in Vouchers : VoucherIsNew(v)
    <3> DEFINE S == {x \in Shareholders : allocations[x].voucher # "none"}
               f == [x \in S |-> allocations[x].voucher]
    <3>1. S \in SUBSET Shareholders /\ m \notin S
      BY DEF OpenInv
    <3>2. \A x \in Shareholders : allocations[x].voucher \in Vouchers \cup {"none"}
      BY DEF DividendInv, AllocationRows
    <3>3. f \in [S -> Vouchers]
      BY <3>2
    <3> HIDE DEF f
    <3>4. PICK v \in Vouchers : \A x \in S : f[x] # v
      BY <3>1, <3>3 DEF VouchersSuffice
    <3>5. \A x \in Shareholders : allocations[x].voucher # v
      BY <3>4, DividendConstants DEF f
    <3> QED BY <3>5 DEF VoucherIsNew
  <2>3. PostDividendInTx(m)
    <3>1. PostedBefore(m) = {}
      BY DEF PostedBefore, RegisterBooks, SettledIn
    <3>2. accountStatus[m] # "none"
      BY DEF AccountInv, Payable
    <3> QED BY <3>1, <3>2 DEF PostDividendInTx, AccountAccepts
  <2> QED
    BY <2>1, <2>2, <2>3
<1> QED
  BY <1>1, DividendInvHolds, OpenInvHolds, AccountInvHolds, RegisterBooksHold, PTL
=============================================================================
