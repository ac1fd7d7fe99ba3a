----------------------------- MODULE MCHistory -----------------------------
(* Small instances of the file history. *)
EXTENDS FileHistory

\* A heap of two entries with short names; the last line fits no heap
FewLines ==
    { [kind |-> "file", name |-> 7, len |-> 2],
      [kind |-> "node", name |-> 1, len |-> 1],
      [kind |-> "dir", name |-> 99, len |-> 2],
      [kind |-> "other", name |-> 1, len |-> 1] }

Sizes == [k \in Kind |-> IF k = "file" THEN 24 ELSE 16]
=============================================================================
