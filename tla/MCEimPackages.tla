---------------------------- MODULE MCEimPackages ----------------------------
(***************************************************************************)
(* A small instance of EimPackages: the second test eUICC with two         *)
(* profiles, two eIMs, counters up to 2, packages of up to two commands.   *)
(***************************************************************************)
EXTENDS EimPackages

CONSTANTS i1, i2, smdp, e1, e2

MCIccids == {i1, i2}

MCAddresses == {smdp}

MCEimIds == {e1, e2}

Preinstalled(n, iccid, state) ==
  [iccid |-> iccid, isdp_aid |-> n, state |-> state, profile_class |-> "operational",
   notification_address |-> smdp, data |-> 0]

MCInitialProfiles ==
  {<<Preinstalled(1, i1, "enabled"), Preinstalled(2, i2, "disabled")>>}

\* One eIM, and a list that names an eIM twice.
MCInitialConfigs ==
  LET config(e, c) == [eim_id |-> e, counter_value |-> c]
  IN {<<config(e1, 0)>>, <<config(e2, 0), config(e2, 1), config(e1, 0)>>}

Psmos == [action : {"enable", "disable", "delete"}, iccid : MCIccids]

Ecos ==
  [action : {"addEim", "updateEim"}, eim_id : MCEimIds, counter_value : {0}]
    \union [action : {"deleteEim"}, eim_id : MCEimIds]

PackageOf(e, c, ops, ecos) ==
  [eim_id |-> e, counter_value |-> c, psmoList |-> ops, ecoList |-> ecos, well_formed |-> TRUE]

Malformed(package) == [package EXCEPT !.well_formed = FALSE]

\* Every list of up to two commands of a kind from one eIM, one of each kind that
\* changes nothing, some that leave an eIM with another's association, one with
\* both kinds of commands; and packages with a malformed command after none or
\* one that is whole.
MCPackages ==
  {PackageOf(e1, 1, ops, <<>>) : ops \in BoundedSeq(Psmos, 2)}
    \union {PackageOf(e1, 2, <<>>, ecos) : ecos \in BoundedSeq(Ecos, 2)}
    \union {PackageOf(e1, 1, <<[action |-> "list", iccid |-> NoIccid]>>,
                     <<[action |-> "updateEim", eim_id |-> e1]>>)}
    \union {PackageOf(e2, 1, <<>>, <<eco>>) : eco \in Ecos}
    \union {PackageOf(e2, 1, <<[action |-> "enable", iccid |-> i2]>>,
                     <<[action |-> "deleteEim", eim_id |-> e2]>>)}
    \union {Malformed(PackageOf(e1, 1, ops, <<>>)) : ops \in BoundedSeq(Psmos, 1)}
    \union {Malformed(PackageOf(e1, 2, <<>>, <<[action |-> a, eim_id |-> e]>>)) :
              a \in {"deleteEim", "updateEim"}, e \in {e1}}
=============================================================================
