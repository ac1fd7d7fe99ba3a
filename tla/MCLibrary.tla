----------------------------- MODULE MCLibrary -----------------------------
(***************************************************************************)
(* A library for TLC: three slots, two tapes, and any fault.                  *)
(***************************************************************************)
EXTENDS Library

CONSTANTS t1, t2, s1, s2, s3

TwoTapes == {t1, t2}
ThreeSlots == <<s1, s2, s3>>
TwoEntries == <<s1, s3>>
ProtectedTapes == {t2}
EveryFault == {"arm", "save", "torn", "deck", "io", "died"}

=============================================================================
