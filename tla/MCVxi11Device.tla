--------------------------- MODULE MCVxi11Device ----------------------------
(* Vxi11Device with links that take two units at a time.                   *)
EXTENDS Vxi11Device
=============================================================================
