----------------------------- MODULE MCImportHsm -----------------------------
(***************************************************************************)
(* ImportHsm on small instances.                                            *)
(***************************************************************************)
EXTENDS ImportHsm, TLC

CONSTANTS gnet, slot1, slot2, pinA, pinB, i1, i2, i3, r1

Request(label, pin, forced) ==
    [extension_id |-> gnet, key_label |-> label, pin_env |-> pin,
     module_path |-> None, force |-> forced]

\* The same key with two values of extra, another key, a forced import, and a
\* call without --key-label.
MCRequests == {Request(slot1, pinA, FALSE), Request(slot1, pinB, FALSE),
               Request(slot2, None, FALSE), Request(slot2, pinA, TRUE),
               Request(None, pinA, FALSE)}

TwoKeys == {Request(slot1, None, FALSE), Request(slot2, pinA, TRUE),
            Request(slot2, None, FALSE)}

Doc(b, label) ==
    [kind |-> "object", backend |-> b, extension_id |-> gnet,
     key_label |-> label, extra |-> [k \in ExtraKeys |-> None]]

MCContents == {Absent, Unreadable, NotJson, NotObject, Doc("missing", None),
               Doc("notString", None), Doc("file", None),
               Doc("provider", slot1), Doc("unknown", slot2)}

AbsentOrFile == {Absent, Doc("file", None)}

\* Invocations differ in nothing but their name.
Interchangeable == Permutations(Invocations)
=============================================================================
