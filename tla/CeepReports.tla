---------------------------- MODULE CeepReports ----------------------------
(***************************************************************************)
(* The monthly CEEP report of one branch and month                         *)
(* (internal/contribution/ceep.go): drafts with a cutoff and a hash, and   *)
(* one finalized report that every later call returns.                     *)
(*                                                                         *)
(* Like a dividend approval, finalization is a READ COMMITTED transaction  *)
(* without locks: it looks for a saved report, builds the report again and *)
(* saves it in three statements.  The hash is modelled by the content.     *)
(***************************************************************************)
CONSTANTS
    Approvers,   \* staff with cash.approve
    CeepFacts,   \* what the sources may hold about the month
    BadFacts,    \* those the report flags with hasErrors
    NoReport

ASSUME BadFactsAssumption == BadFacts \subseteq CeepFacts

VARIABLES
    ceepSources,  \* receipts, shares and loans as BuildCEEPReport reads them
    monthEnded,   \* the reporting month is over in Nairobi
    drafts,       \* the draft each officer has reviewed
    finalizing,   \* the report each open finalization has built
    ceepReport,   \* ceep_reports and its ceep_snapshots
    replies       \* the report each officer's finalization returned

ceepVars == <<ceepSources, monthEnded, drafts, finalizing, ceepReport, replies>>

\* A cutoff is within the month, or after it once it has ended.
Cutoffs == IF monthEnded THEN {"within", "after"} ELSE {"within"}

BuildCEEPReport(cutoff) == [cutoff |-> cutoff, facts |-> ceepSources]

Reports == [cutoff : {"within", "after"}, facts : CeepFacts]

CeepTypeOK ==
    /\ ceepSources \in CeepFacts
    /\ monthEnded \in BOOLEAN
    /\ drafts \in [Approvers -> Reports \cup {NoReport}]
    /\ finalizing \in [Approvers -> Reports \cup {NoReport}]
    /\ ceepReport \in Reports \cup {NoReport}
    /\ replies \in [Approvers -> Reports \cup {NoReport}]

CeepInit ==
    /\ ceepSources \in CeepFacts
    /\ monthEnded = FALSE
    /\ drafts = [s \in Approvers |-> NoReport]
    /\ finalizing = [s \in Approvers |-> NoReport]
    /\ ceepReport = NoReport
    /\ replies = [s \in Approvers |-> NoReport]

\* Other components write, before and after the month ends.
CeepSourcesChange(f) ==
    /\ ceepSources' = f
    /\ UNCHANGED <<monthEnded, drafts, finalizing, ceepReport, replies>>

MonthEnds ==
    /\ ~monthEnded
    /\ monthEnded' = TRUE
    /\ UNCHANGED <<ceepSources, drafts, finalizing, ceepReport, replies>>

\* GetCEEPReport: a draft while nothing is finalized.
GetCEEPReport(s, cutoff) ==
    /\ ceepReport = NoReport
    /\ finalizing[s] = NoReport
    /\ drafts' = [drafts EXCEPT ![s] = BuildCEEPReport(cutoff)]
    /\ UNCHANGED <<ceepSources, monthEnded, finalizing, ceepReport, replies>>

\* A saved report is returned before anything is checked.
ReturnSaved(s) ==
    /\ ceepReport # NoReport
    /\ drafts[s] # NoReport /\ finalizing[s] = NoReport
    /\ replies' = [replies EXCEPT ![s] = ceepReport]
    /\ UNCHANGED <<ceepSources, monthEnded, drafts, finalizing, ceepReport>>

\* A mutant: the cutoff is not asked for.
AnyCutoff(r) == r.facts \notin BadFacts

\* The cutoff must cover the month, and the report must have no errors.
Finalizable(r) == r.cutoff = "after" /\ r.facts \notin BadFacts

\* A mutant: the sources may have moved.
SameCutoff(r, draft) == r.cutoff = draft.cutoff

\* hash != previewHash: "report sources changed; load and review a new preview".
MatchesDraft(r, draft) == r = draft

FinalizeCEEPReport(s) ==
    /\ ceepReport = NoReport
    /\ drafts[s] # NoReport /\ finalizing[s] = NoReport
    /\ LET r == BuildCEEPReport(drafts[s].cutoff)
       IN  /\ Finalizable(r)
           /\ MatchesDraft(r, drafts[s])
           /\ finalizing' = [finalizing EXCEPT ![s] = r]
    /\ UNCHANGED <<ceepSources, monthEnded, drafts, ceepReport, replies>>

\* What SaveCEEPReport leaves in the table: ON CONFLICT DO NOTHING.
Kept(r) == IF ceepReport = NoReport THEN r ELSE ceepReport

SaveCEEPReport(s) ==
    /\ finalizing[s] # NoReport
    /\ ceepReport' = Kept(finalizing[s])
    /\ replies' = [replies EXCEPT ![s] = ceepReport']
    /\ finalizing' = [finalizing EXCEPT ![s] = NoReport]
    /\ UNCHANGED <<ceepSources, monthEnded, drafts>>

\* The transaction fails or the server stops before it commits.
FinalizationFails(s) ==
    /\ finalizing[s] # NoReport
    /\ finalizing' = [finalizing EXCEPT ![s] = NoReport]
    /\ UNCHANGED <<ceepSources, monthEnded, drafts, ceepReport, replies>>

CeepNext ==
    \/ \E f \in CeepFacts : CeepSourcesChange(f)
    \/ MonthEnds
    \/ \E s \in Approvers, cutoff \in Cutoffs : GetCEEPReport(s, cutoff)
    \/ \E s \in Approvers : ReturnSaved(s)
    \/ \E s \in Approvers : FinalizeCEEPReport(s)
    \/ \E s \in Approvers : SaveCEEPReport(s)
    \/ \E s \in Approvers : FinalizationFails(s)

CeepSpec == CeepInit /\ [][CeepNext]_ceepVars

-----------------------------------------------------------------------------
(* Correctness.                                                            *)

\* "Without this shared core, the figures approved could differ from the
\* figures saved": what is finalized is the draft its officer reviewed, once.
Finalization == INSTANCE ReviewedApproval WITH
    Officers <- Approvers, Documents <- Reports, NoDocument <- NoReport,
    reviewed <- drafts, frozen <- ceepReport

CeepImplementsApproval == Finalization!Spec

\* "Return the stored winner so every retry and export sees exactly the same
\* immutable report": no two finalizations are answered differently, and what
\* they are answered covers the whole month.
EveryoneSeesOneReport ==
    \A s \in Approvers :
        replies[s] # NoReport => replies[s] = ceepReport /\ replies[s].cutoff = "after"
=============================================================================
