------------------------------- MODULE MCConn -------------------------------
(***************************************************************************)
(* An instance of NdmConn for TLC: the three versions the code knows, and   *)
(* calls with notices before, between and after them.                       *)
(***************************************************************************)
EXTENDS NdmConn

Known == {2, 3, 4}

EveryAuth == {"none", "text", "md5", "void"}

BothFaults == {"breaks", "late"}

=============================================================================
