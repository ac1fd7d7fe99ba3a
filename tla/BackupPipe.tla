----------------------------- MODULE BackupPipe -----------------------------
(***************************************************************************)
(* What a backup session promises, whatever the mover, the formatter, the   *)
(* channel between them and the CONTROL agent do: image is produced, kept   *)
(* on the tape in the order it was produced, and the job is only called     *)
(* complete when all of it is kept.                                         *)
(***************************************************************************)
EXTENDS Naturals

VARIABLES
    made,       \* units of image the formatter has delivered
    kept,       \* units of it that are on the tape
    verdict     \* what the session says of the job

vars == <<made, kept, verdict>>

Verdict == {"none", "open", "complete", "failed"}

TypeOK == made \in Nat /\ kept \in Nat /\ verdict \in Verdict

Init == made = 0 /\ kept = 0 /\ verdict = "none"

\* A new job starts from nothing
NewJob ==
    /\ verdict = "none"
    /\ made' = 0 /\ kept' = 0
    /\ UNCHANGED verdict

Open ==
    /\ verdict = "none" /\ verdict' = "open"
    /\ UNCHANGED <<made, kept>>

Produce ==
    /\ verdict = "open"
    /\ made' \in Nat /\ made' > made
    /\ UNCHANGED <<kept, verdict>>

\* The tape may still be written after the job was given up
Keep ==
    /\ kept' \in Nat /\ kept' > kept /\ kept' <= made
    /\ verdict # "complete"
    /\ UNCHANGED <<made, verdict>>

Complete ==
    /\ verdict = "open" /\ kept = made
    /\ verdict' = "complete"
    /\ UNCHANGED <<made, kept>>

Fail ==
    /\ verdict = "open" /\ verdict' = "failed"
    /\ UNCHANGED <<made, kept>>

Forget ==
    /\ verdict \in {"open", "complete", "failed"} /\ verdict' = "none"
    /\ UNCHANGED <<made, kept>>

Next == NewJob \/ Open \/ Produce \/ Keep \/ Complete \/ Fail \/ Forget

Spec == Init /\ [][Next]_vars

\* What the specification is for: complete means all of it, until the next job
CompleteMeansKept == verdict = "complete" => kept = made

=============================================================================
