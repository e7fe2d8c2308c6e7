-------------------------- MODULE MCSerialSession --------------------------
(* With 7 data bits, 138 becomes the termination character 10, and 65 has  *)
(* the bit set that marks the last byte of a message.                      *)
EXTENDS SerialSession

MCMessages == {<<>>, <<65, 138, 1>>}
=============================================================================
