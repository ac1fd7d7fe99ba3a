----------------------------- MODULE MCSession -----------------------------
(***************************************************************************)
(* Instances of a session for TLC: which faults each run lets happen.       *)
(* Every kind of fault is in one of them; leaving the others out of a run   *)
(* is what keeps the product of channel fills and agent states small.       *)
(***************************************************************************)
EXTENDS SessionProperties

\* Both agents in one session: all that can go wrong but the network's part
LocalFaults == {"EOM", "SEEK", "EOF", "MEDIA_ERROR", "io", "copy", "fork",
                "lines"}

\* One agent and a TCP peer
TcpFaults == {"EOM", "MEDIA_ERROR", "listen", "accept", "io"}

\* A local backup: EOF is met and "lines" are sent when reading back only
BackupFaults == {"EOM", "SEEK", "MEDIA_ERROR", "copy", "fork"}

=============================================================================
