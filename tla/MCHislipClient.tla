--------------------------- MODULE MCHislipClient ---------------------------
(* HislipClient with 8 usable message ids: 12 and 14 come first, then 0.   *)
EXTENDS HislipClient
TwoMessages == {<<2>>, <<1, 1>>}
LongResponse == {<<2>>}
=============================================================================
