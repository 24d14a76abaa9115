--------------------------- MODULE MCProfileDownload ---------------------------
(***************************************************************************)
(* A small instance of ProfileDownload: an empty eUICC with room for two   *)
(* profiles, one SM-DP+, and a transaction for each message it may sign.   *)
(***************************************************************************)
EXTENDS ProfileDownload

CONSTANTS i1, smdp1, t1, t2, t3

MCIccids == {i1}

MCAddresses == {smdp1}

MCInitialProfiles == {<<>>}

MCTransactions == {t1, t2, t3}

MCPackage == [iccid |-> i1, len |-> 3]
=============================================================================
