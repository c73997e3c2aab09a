----------------------------- MODULE MCQuickstart -----------------------------
(***************************************************************************)
(* Quickstart on small instances.                                           *)
(***************************************************************************)
EXTENDS Quickstart, TLC

CONSTANTS pkcs11, slot1, slot2, pinA, r1, r2, r3

NoKeys == {[p \in Paths |-> NoKey]}
\* The operator has a key at the path they would name, none at the default.
OwnKey == {[p \in Paths |-> IF p = "custom" THEN OldKey ELSE NoKey]}

NoDesc == {Absent}

Interchangeable == Permutations(Runs)
=============================================================================
