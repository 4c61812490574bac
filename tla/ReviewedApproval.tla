-------------------------- MODULE ReviewedApproval --------------------------
(***************************************************************************)
(* What a reviewed approval promises, whatever the document: officers      *)
(* review drafts, and the first approval freezes exactly the draft that    *)
(* its officer reviewed.  Once a document is frozen nothing replaces it.   *)
(* Dividend declarations and CEEP reports both implement it.               *)
(***************************************************************************)
CONSTANTS Officers, Documents, NoDocument

VARIABLES
    reviewed,  \* the draft each officer has in hand, or NoDocument
    frozen     \* the approved document, or NoDocument

Init ==
    /\ reviewed = [o \in Officers |-> NoDocument]
    /\ frozen = NoDocument

\* An officer looks at another draft than the one in hand.
Review(o) ==
    /\ UNCHANGED frozen
    /\ reviewed'[o] # reviewed[o]
    /\ \E d \in Documents : reviewed' = [reviewed EXCEPT ![o] = d]

\* An officer approves the draft in hand, once.
Freeze(o) ==
    /\ frozen = NoDocument
    /\ reviewed[o] # NoDocument
    /\ frozen' = reviewed[o]
    /\ UNCHANGED reviewed

Next == \E o \in Officers : Review(o) \/ Freeze(o)

Spec == Init /\ [][Next]_<<reviewed, frozen>>
=============================================================================
