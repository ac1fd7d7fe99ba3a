------------------------------ MODULE MCMedia ------------------------------
(***************************************************************************)
(* Instances of MediaWindows for TLC: three tapes, the second the longest   *)
(* and the last longer than what is left, so that a tape ends with the      *)
(* image, before it and inside a read.                                      *)
(***************************************************************************)
EXTENDS MediaWindows

ThreeTapes == <<1, 3, 2>>

AnyFault == {"load", "media"}

\* No length, and windows of one record
SomeLengths == {Infinity, RecordSize}

NoLength == {Infinity}

=============================================================================
