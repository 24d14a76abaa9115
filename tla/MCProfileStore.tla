---------------------------- MODULE MCProfileStore ----------------------------
(***************************************************************************)
(* Small instances of ProfileStore.  The initial lists are those that      *)
(* euicc_manager.py builds: the two test eUICCs of create_test_euiccs that *)
(* differ in their profiles, and one with the other profile classes that   *)
(* create_euicc accepts.  AID number n is the n-th profile's.              *)
(***************************************************************************)
EXTENDS ProfileStore

CONSTANTS i1, i2, smdp

MCIccids == {i1, i2}

MCAddresses == {smdp}

Preinstalled(n, iccid, state, class) ==
  [iccid |-> iccid, isdp_aid |-> n, state |-> state, profile_class |-> class,
   notification_address |-> smdp, data |-> 0]

MCInitialProfiles ==
  {<<>>,
   <<Preinstalled(1, i1, "enabled", "operational"),
     Preinstalled(2, i2, "disabled", "operational")>>,
   <<Preinstalled(1, i1, "disabled", "test"),
     Preinstalled(2, i2, "disabled", "provisioning")>>}
=============================================================================
