--------------------------- MODULE MCClientSession ---------------------------
(* A small instance of ClientSession for TLC.                              *)
EXTENDS ClientSession, TLC

CONSTANTS l1, l2, l3

MCLinks == {l1, l2, l3}
=============================================================================
