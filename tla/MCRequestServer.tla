--------------------------- MODULE MCRequestServer ---------------------------
(***************************************************************************)
(* The instance of RequestServer that TLC checks.                          *)
(***************************************************************************)
EXTENDS RequestServer
=============================================================================
