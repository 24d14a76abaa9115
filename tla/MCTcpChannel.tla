----------------------------- MODULE MCTcpChannel -----------------------------
(***************************************************************************)
(* TcpChannel for TLC: two connections to one eUICC.  Block numbers are    *)
(* counted modulo a small number instead of 256; commands are at most as   *)
(* long as the numbers reach.                                              *)
(***************************************************************************)
EXTENDS TcpChannel

CONSTANTS ipa, lpa

MCSenders == {ipa, lpa}
=============================================================================
