------------------------------- MODULE MCUart --------------------------------
(***************************************************************************)
(* Uart with two processes and FIFOs of one byte.                         *)
(***************************************************************************)
EXTENDS Uart

CONSTANTS p1, p2, irq

MCStrings == {<<>>, <<"\n">>}
=============================================================================
