----------------------------- MODULE MCRspSession -----------------------------
(***************************************************************************)
(* A small instance of RspSession: one empty eUICC, as the second test     *)
(* eUICC of euicc_manager.py, two SM-DP+ servers and three transactions.   *)
(***************************************************************************)
EXTENDS RspSession

CONSTANTS i1, smdp1, smdp2, t1, t2, t3

MCIccids == {i1}

MCAddresses == {smdp1, smdp2}

MCInitialProfiles == {<<>>}

MCTransactions == {t1, t2, t3}
=============================================================================
