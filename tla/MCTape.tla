------------------------------- MODULE MCTape -------------------------------
(***************************************************************************)
(* An instance of TapeSimulator for TLC.                                    *)
(***************************************************************************)
EXTENDS TapeSimulator

DiskFaults == {"disk"}

=============================================================================
