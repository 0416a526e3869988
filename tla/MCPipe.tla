------------------------------- MODULE MCPipe -------------------------------
(* Writes that fit the ring of two bytes and writes that do not.           *)
EXTENDS Pipe
LongAndShort == {<<0>>, <<1, 0, 1>>}
=============================================================================
