----------------------------- MODULE EimPackages -----------------------------
(***************************************************************************)
(* Remote management by eIMs (SGP.32): the eIM associations of             *)
(* app/models/euicc.py and the handlers of app/es10/es10b_iot.py that      *)
(* execute an eUICC package, with the SGP.32 memory reset of               *)
(* app/es10/es10c.py.  A package is executed in one call, command by       *)
(* command, on the profile store that the local commands change too.       *)
(*                                                                         *)
(* A package carries a counter that must exceed its eIM's.  One with a     *)
(* malformed command raises when it gets there: it is given by the         *)
(* commands before that one, those after it are never looked at.  FQDN,    *)
(* protocol and association token are left out.  An ICCID in a package     *)
(* stands for the profile it denotes once its nibbles are swapped, NoIccid *)
(* for one that is no hex string.                                          *)
(***************************************************************************)
EXTENDS ProfileStore, Functions

CONSTANTS
  EimIds,         \* eIM identifiers
  NoIccid,        \* what a malformed ICCID denotes
  InitialConfigs, \* the lists of eIM configurations that AddInitialEim is given
  Packages,       \* the eUICC packages that arrive
  MaxPackages     \* bound: packages executed in a run

VARIABLES
  eim_associations, \* EuiccState.eim_associations
  executed          \* history: the eIMs and counters of the packages executed,
                    \* whole or up to a malformed command

eimVars == <<eim_associations, executed>>

packageVars == <<vars, eimVars>>

-----------------------------------------------------------------------------
(* Data *)

\* accepted is a history: the counters of the packages executed under this
\* association since it was added or its counter set.
EimAssociation == [eim_id : EimIds, counter_value : Nat, accepted : SUBSET Nat]

Associate(eim_id, counter_value) ==
  [eim_id |-> eim_id, counter_value |-> counter_value, accepted |-> {}]

EimConfig == [eim_id : EimIds, counter_value : Nat]

\* Profile state management; "list" stands for the actions that change nothing.
Psmo == [action : {"enable", "disable", "delete", "list"}, iccid : Iccids \union {NoIccid}]

\* eIM configuration; an update need not carry a counter.
Eco ==
  [action : {"addEim", "updateEim"}, eim_id : EimIds, counter_value : Nat]
    \union [action : {"deleteEim", "updateEim"}, eim_id : EimIds]

Package ==
  [eim_id : EimIds, counter_value : Nat, psmoList : Seq(Psmo), ecoList : Seq(Eco),
   well_formed : BOOLEAN]

ASSUME PackagesAssumption ==
  /\ Packages \subseteq Package
  /\ InitialConfigs \subseteq Seq(EimConfig)

ASSUME NoIccidAssumption == NoIccid \notin Iccids

FindEim(assocs, eim_id) == SelectInSeq(assocs, LAMBDA a : a.eim_id = eim_id)

-----------------------------------------------------------------------------
(* Commands of a package *)

\* A broken variant: the profile is enabled beside the one that was.
EnableBeside(ps, i) == SetState(ps, i, "enabled")

\* The enabling of _execute_psmo, which reports nothing.
EnableQuietly(ps, i) == SwitchOn(ps, i)

\* _execute_psmo: the profiles after a command. Nothing is notified, and a
\* deletion gives no memory back.
AfterPsmo(ps, op) ==
  LET i == Find(ps, [by |-> "iccid", iccid |-> op.iccid])
  IN CASE op.action = "enable" /\ i # 0 /\ ~IsEnabled(ps[i]) -> EnableQuietly(ps, i)
       [] op.action = "disable" /\ i # 0 /\ IsEnabled(ps[i]) -> SetState(ps, i, "disabled")
       [] op.action = "delete" /\ i # 0 /\ ~IsEnabled(ps[i]) -> RemoveAt(ps, i)
       [] OTHER -> ps

AfterPsmos(ps, ops) ==
  LET after[n \in 0..Len(ops)] == IF n = 0 THEN ps ELSE AfterPsmo(after[n - 1], ops[n])
  IN after[Len(ops)]

\* A broken variant: an eIM that is there already is added again.
AddEimAgain(assocs, eim_id, counter_value) ==
  Append(assocs, Associate(eim_id, counter_value))

\* add_eim
AddEim(assocs, eim_id, counter_value) ==
  IF FindEim(assocs, eim_id) # 0
  THEN assocs
  ELSE Append(assocs, Associate(eim_id, counter_value))

\* A broken variant: the last association may go.
DeleteAnyEim(assocs, eim_id) ==
  LET i == FindEim(assocs, eim_id) IN IF i = 0 THEN assocs ELSE RemoveAt(assocs, i)

\* delete_eim
DeleteEim(assocs, eim_id) ==
  LET i == FindEim(assocs, eim_id)
  IN IF i = 0 \/ Len(assocs) <= 1 THEN assocs ELSE RemoveAt(assocs, i)

\* update_eim
UpdateEim(assocs, eco) ==
  LET i == FindEim(assocs, eco.eim_id)
  IN IF i # 0 /\ "counter_value" \in DOMAIN eco
     THEN [assocs EXCEPT ![i] = Associate(eco.eim_id, eco.counter_value)]
     ELSE assocs

\* _execute_eco: the associations after a command.
AfterEco(assocs, eco) ==
  CASE eco.action = "addEim" -> AddEim(assocs, eco.eim_id, eco.counter_value)
    [] eco.action = "deleteEim" -> DeleteEim(assocs, eco.eim_id)
    [] eco.action = "updateEim" -> UpdateEim(assocs, eco)

AfterEcos(assocs, ecos) ==
  LET after[n \in 0..Len(ecos)] == IF n = 0 THEN assocs ELSE AfterEco(after[n - 1], ecos[n])
  IN after[Len(ecos)]

Addition(config) ==
  [action |-> "addEim", eim_id |-> config.eim_id, counter_value |-> config.counter_value]

AfterConfigs(assocs, configs) ==
  AfterEcos(assocs, [k \in DOMAIN configs |-> Addition(configs[k])])

-----------------------------------------------------------------------------
(* Handlers *)

\* add_initial_eim: an eIM that is there already is passed over.
AddInitialEim(configs) ==
  /\ eim_associations' = AfterConfigs(eim_associations, configs)
  /\ Answer("addInitialEim", 0)
  /\ UNCHANGED <<storeVars, executed>>

RefusePackage(code) == Refuse("package", code) /\ UNCHANGED eimVars

\* A broken variant: the counter of the last package is good for another.
ExceedsOrEquals(package, i) == package.counter_value >= eim_associations[i].counter_value

Exceeds(package, i) == package.counter_value > eim_associations[i].counter_value

\* A broken variant: the counter is stored once the last command has run.
CounterOfWhole(package, i) ==
  IF package.well_formed THEN package.counter_value ELSE eim_associations[i].counter_value

\* The counter is stored before the first command runs.
CounterAfter(package, i) == package.counter_value

Accept(package, i) ==
  [eim_associations EXCEPT
     ![i].counter_value = CounterAfter(package, i),
     ![i].accepted = @ \union {package.counter_value}]

\* load_euicc_package; codes 1 and 2 are unknownEim and counterMismatch.  A
\* malformed command raises after those before it.
LoadEuiccPackage(package) ==
  LET i == FindEim(eim_associations, package.eim_id)
  IN \/ i = 0 /\ RefusePackage(1)
     \/ i # 0 /\ ~Exceeds(package, i) /\ RefusePackage(2)
     \/ /\ i # 0
        /\ Exceeds(package, i)
        /\ Len(executed) < MaxPackages
        /\ profiles' = AfterPsmos(profiles, package.psmoList)
        /\ eim_associations' = AfterEcos(Accept(package, i), package.ecoList)
        /\ executed' = Append(executed, <<package.eim_id, package.counter_value>>)
        /\ Answer("package", IF package.well_formed THEN 0 ELSE Raised)
        /\ UNCHANGED <<free_nvm, notifications, notification_seq, default_smdp_address>>

\* What is no dict, or has a counter that is no number, raises in
\* load_euicc_package before the counter is stored.
LoadNoPackage == RefusePackage(Raised)

\* es10c.euicc_memory_reset_sgp32.  Options that are there are passed on as a
\* tuple where bytes are expected, which raises; "resetEim" is a reset whose
\* options ask for the associations to be cleared.
EuiccMemoryResetSgp32 ==
  \/ \E op \in {"reset", "resetEim"} : Refuse(op, Raised) /\ UNCHANGED eimVars
  \/ /\ EuiccMemoryReset([operational |-> TRUE, test |-> TRUE, address |-> TRUE])
     /\ UNCHANGED eimVars

-----------------------------------------------------------------------------
(* Specification *)

\* create_euicc associates one eIM, or none.
EimInit ==
  /\ Init
  /\ eim_associations \in {<<>>} \union {<<Associate(eim_id, 0)>> : eim_id \in EimIds}
  /\ executed = <<>>

EimNext ==
  \/ \E configs \in InitialConfigs : AddInitialEim(configs)
  \/ \E package \in Packages : LoadEuiccPackage(package)
  \/ LoadNoPackage
  \/ EuiccMemoryResetSgp32

EimSpec == EimInit /\ [][EimNext \/ (Next /\ UNCHANGED eimVars)]_packageVars

-----------------------------------------------------------------------------
(* Properties *)

\* Types of the associations and of the history, and of the store below.
EimTypeOK ==
  /\ TypeOK
  /\ eim_associations \in Seq(EimAssociation)
  /\ executed \in Seq(EimIds \X Nat)

\* Whatever adds, deletes and updates a package strings together, an eIM has
\* one association at most (es10b_iot.add_eim), so lookups find the right one.
EimIdsUnique == IsInjective([i \in DOMAIN eim_associations |-> eim_associations[i].eim_id])

\* Once an eIM is associated there is always one: no package, not even one that
\* deletes several eIMs, its own sender included, leaves the eUICC without
\* anybody to manage it (lastEimDeleteRefused in es10b_iot.delete_eim).
EimNeverEmptied == [][eim_associations # <<>> => eim_associations' # <<>>]_packageVars

\* A package is executed only if its counter was not accepted yet under its
\* eIM's association, since that was added or its counter last set: a package
\* that raised half-way is not started over when it is sent again.
PackagesAcceptedOnce ==
  [][executed' # executed =>
       LET package == Last(executed')
       IN \A i \in DOMAIN eim_associations :
            eim_associations[i].eim_id = package[1] =>
              package[2] \notin eim_associations[i].accepted]_packageVars

\* Packages may switch profiles on and off and delete them any number of times
\* in one call, raise half-way, and come between local commands: at most one profile is enabled, and the
\* two accounts of memory, by package (es10b_iot.py:313) and by local command
\* (es10c.py:184), never together credit more than there is.
StoreSoundAfterPackages == AtMostOneEnabled /\ NvmAccounted
=============================================================================
