---------------------------- MODULE MCHttpChannel -----------------------------
(***************************************************************************)
(* HttpChannel for TLC: two clients of one eUICC's processor, commands     *)
(* longer than the block numbers reach too.                                *)
(***************************************************************************)
EXTENDS HttpChannel

CONSTANTS tester, script

MCSenders == {tester, script}
=============================================================================
