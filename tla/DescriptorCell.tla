--------------------------- MODULE DescriptorCell ---------------------------
(***************************************************************************)
(* What the identity descriptor promises whoever reads it: one cell that    *)
(* holds a whole document at every moment, and that an import replaces in   *)
(* one step, only past the clobber gate evaluated on the very content it    *)
(* replaces.                                                                *)
(***************************************************************************)
EXTENDS Descriptor

CONSTANTS InitialContents,  \* what the operator may have at the path
          Requests          \* the arguments imports are called with

VARIABLE cell

Init == cell \in InitialContents

Install(a) ==
    /\ Valid(a)
    /\ GateAdmits(a, cell)
    /\ cell' = Composed(a)

Next == \E a \in Requests : Install(a)

Spec == Init /\ [][Next]_cell
=============================================================================
