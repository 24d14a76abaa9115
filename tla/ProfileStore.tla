----------------------------- MODULE ProfileStore -----------------------------
(***************************************************************************)
(* The profile store of one simulated eUICC: the profile slots, the NVM    *)
(* budget, the queue of pending notifications and the default SM-DP+       *)
(* address of app/models/euicc.py, with the handlers of app/es10/es10c.py, *)
(* app/es10/es10a.py and the notification handlers of app/es10/es10b.py.   *)
(*                                                                         *)
(* Every handler runs to its end without an await, so one action is one    *)
(* handler call, answers included. The calls of different connections on   *)
(* the same eUICC interleave freely: Next takes any of them at any time.   *)
(*                                                                         *)
(* A profile's content is its length, an ICCID and an address are values   *)
(* of a set, the varying digits of an ISD-P AID are a number; the names a  *)
(* profile shows are left out.                                             *)
(***************************************************************************)
EXTENDS Integers, Sequences, SequencesExt

CONSTANTS
  Iccids,             \* ICCIDs that profile packages carry
  Addresses,          \* SM-DP+ addresses
  DataLengths,        \* lengths of the decrypted profile content
  TotalNvm,           \* EuiccState.total_nvm
  InitialFreeNvm,     \* EuiccState.free_nvm of a new eUICC
  EmptyProfileSize,   \* the 4096 bytes accounted to a profile without content
  MaxProfiles,        \* EuiccState.max_profiles
  InitialProfiles,    \* the lists of pre-installed profiles to start from
  MaxNotificationSeq, \* bound: notification numbers handed out in a run
  NoAddress           \* the empty default SM-DP+ address

VARIABLES
  profiles,             \* EuiccState.profiles
  free_nvm,             \* EuiccState.free_nvm
  notifications,        \* EuiccState.notifications
  notification_seq,     \* EuiccState._notification_seq
  default_smdp_address, \* EuiccState.default_smdp_address
  result                \* the answer of the last handler: its field and code

storeVars ==
  <<profiles, free_nvm, notifications, notification_seq, default_smdp_address>>

vars == <<storeVars, result>>

-----------------------------------------------------------------------------
(* Data *)

ProfileState == {"disabled", "enabled"}

ProfileClass == {"test", "provisioning", "operational"}

ProfileSlot ==
  [iccid : Iccids, isdp_aid : Nat \ {0}, state : ProfileState,
   profile_class : ProfileClass, notification_address : Addresses \union {NoAddress},
   data : Nat]

Operation == {"install", "enable", "disable", "delete"}

Notification ==
  [seq_number : Nat \ {0}, operation : Operation,
   notification_address : Addresses \union {NoAddress}, iccid : Iccids]

\* The commands; those of the second line are the session's, in RspSession, those
\* of the third the eIM's, in EimPackages.
Command ==
  {"enable", "disable", "delete", "reset", "nickname", "address", "remove",
   "challenge", "authenticate", "prepare", "install", "cancel", "rollback",
   "addInitialEim", "package", "resetEim"}

\* What a handler answered; "none" before the first.
Answers == [op : Command \union {"none"}, code : Nat]

\* The result code of a handler that raised; its caller answers status word 6F00.
Raised == 111

\* The NVM a profile counts for: its content, or a flat size when it has none.
Footprint(len) == IF len = 0 THEN EmptyProfileSize ELSE len

\* The NVM the profiles of a list count for together, summed along the list.
Used(ps) ==
  LET sum[n \in 0..Len(ps)] ==
        IF n = 0 THEN 0 ELSE sum[n - 1] + Footprint(ps[n].data)
  IN sum[Len(ps)]

IsEnabled(p) == p.state = "enabled"

EnabledIn(ps) == {i \in DOMAIN ps : IsEnabled(ps[i])}

EnabledIccids(ps) == {ps[i].iccid : i \in EnabledIn(ps)}

AtMostOneEnabledIn(ps) == \A i, j \in EnabledIn(ps) : i = j

ASSUME NvmAssumption ==
  /\ TotalNvm \in Nat
  /\ InitialFreeNvm \in Nat
  /\ EmptyProfileSize \in Nat
  /\ DataLengths \subseteq Nat

ASSUME BoundsAssumption ==
  /\ MaxProfiles \in Nat
  /\ MaxNotificationSeq \in Nat

\* What create_euicc and create_test_euiccs produce: well-formed slots, one
\* enabled at most, the free NVM of a new eUICC leaving room for all of them.
ASSUME InitialProfilesAssumption ==
  \A ps \in InitialProfiles :
    /\ ps \in Seq(ProfileSlot)
    /\ Len(ps) <= MaxProfiles
    /\ AtMostOneEnabledIn(ps)
    /\ InitialFreeNvm + Used(ps) <= TotalNvm

-----------------------------------------------------------------------------
(* Lookups: the position of the first profile that matches, 0 when none does *)

\* How a caller names a profile: by ICCID, or by ISD-P AID.
Targets ==
  [by : {"iccid"}, iccid : Iccids] \union [by : {"aid"}, aid : 1..MaxProfiles]

Matches(p, target) ==
  IF target.by = "iccid" THEN p.iccid = target.iccid ELSE p.isdp_aid = target.aid

Find(ps, target) == SelectInSeq(ps, LAMBDA p : Matches(p, target))

GetEnabledProfile(ps) == SelectInSeq(ps, IsEnabled)

\* The AID counts the profiles present; the code formats it in two digits.
AllocateIsdpAid(ps) == Len(ps) + 1

-----------------------------------------------------------------------------
(* Building blocks of the handlers *)

Answer(op, code) == result' = [op |-> op, code |-> code]

Refuse(op, code) == Answer(op, code) /\ UNCHANGED storeVars

Event(operation, p) ==
  [operation |-> operation, notification_address |-> p.notification_address,
   iccid |-> p.iccid]

Number(event, seq) ==
  [seq_number |-> seq, operation |-> event.operation,
   notification_address |-> event.notification_address, iccid |-> event.iccid]

\* A broken variant: numbers counted from the queue's length, used again after
\* a removal.
AddNotificationsByLength(events) ==
  /\ notification_seq + Len(events) <= MaxNotificationSeq
  /\ notifications' = notifications \o
       [k \in DOMAIN events |-> Number(events[k], Len(notifications) + k)]
  /\ notification_seq' = notification_seq + Len(events)

\* add_notification, once for each event of the list, in its order.
AddNotifications(events) ==
  /\ notification_seq + Len(events) <= MaxNotificationSeq
  /\ notifications' = notifications \o
       [k \in DOMAIN events |-> Number(events[k], notification_seq + k)]
  /\ notification_seq' = notification_seq + Len(events)

SetState(ps, i, state) == [ps EXCEPT ![i].state = state]

\* A broken variant: the enabled profile is left enabled.
SwitchOnOnly(ps, i) == SetState(ps, i, "enabled")

\* Enable the profile at i after disabling the first enabled one, if any.
SwitchOn(ps, i) ==
  LET current == GetEnabledProfile(ps)
  IN IF current = 0
     THEN SetState(ps, i, "enabled")
     ELSE SetState(SetState(ps, current, "disabled"), i, "enabled")

\* A broken variant: only the enabling is reported.
SwitchEventsOnly(ps, i) == <<Event("enable", ps[i])>>

\* A broken variant: the implied disabling is reported last.
SwitchEventsReversed(ps, i) ==
  LET current == GetEnabledProfile(ps)
  IN IF current = 0
     THEN <<Event("enable", ps[i])>>
     ELSE <<Event("enable", ps[i]), Event("disable", ps[current])>>

\* What enable_profile reports: the implied disabling first.
SwitchEvents(ps, i) ==
  LET current == GetEnabledProfile(ps)
  IN IF current = 0
     THEN <<Event("enable", ps[i])>>
     ELSE <<Event("disable", ps[current]), Event("enable", ps[i])>>

\* A broken variant: only the number of slots is checked.
HasSlot(len) == Len(profiles) < MaxProfiles

HasRoomFor(len) ==
  /\ Footprint(len) <= free_nvm
  /\ Len(profiles) < MaxProfiles

DownloadedProfile(iccid, address, len) ==
  [iccid |-> iccid, isdp_aid |-> AllocateIsdpAid(profiles), state |-> "disabled",
   profile_class |-> "operational", notification_address |-> address, data |-> len]

\* The commit of load_bound_profile_package: slot, NVM and notification.
Install(iccid, address, len) ==
  LET p == DownloadedProfile(iccid, address, len)
  IN /\ profiles' = Append(profiles, p)
     /\ free_nvm' = free_nvm - Footprint(len)
     /\ AddNotifications(<<Event("install", p)>>)
     /\ UNCHANGED default_smdp_address

-----------------------------------------------------------------------------
(* Handlers *)

\* es10c.enable_profile
EnableProfile(target) ==
  LET i == Find(profiles, target)
  IN \/ i = 0 /\ Refuse("enable", 1)
     \/ i # 0 /\ IsEnabled(profiles[i]) /\ Refuse("enable", 4)
     \/ /\ i # 0
        /\ ~IsEnabled(profiles[i])
        /\ profiles' = SwitchOn(profiles, i)
        /\ AddNotifications(SwitchEvents(profiles, i))
        /\ Answer("enable", 0)
        /\ UNCHANGED <<free_nvm, default_smdp_address>>

\* es10c.disable_profile
DisableProfile(target) ==
  LET i == Find(profiles, target)
  IN \/ i = 0 /\ Refuse("disable", 1)
     \/ i # 0 /\ ~IsEnabled(profiles[i]) /\ Refuse("disable", 2)
     \/ /\ i # 0
        /\ IsEnabled(profiles[i])
        /\ profiles' = SetState(profiles, i, "disabled")
        /\ AddNotifications(<<Event("disable", profiles[i])>>)
        /\ Answer("disable", 0)
        /\ UNCHANGED <<free_nvm, default_smdp_address>>

\* A broken variant: the memory is reclaimed before the state is looked at.
DeleteReclaimsFirst(target) ==
  LET i == Find(profiles, target)
  IN \/ i = 0 /\ Refuse("delete", 1)
     \/ /\ i # 0
        /\ free_nvm' = free_nvm + Footprint(profiles[i].data)
        /\ IF IsEnabled(profiles[i])
           THEN Answer("delete", 2) /\ UNCHANGED <<profiles, notifications, notification_seq>>
           ELSE /\ profiles' = RemoveAt(profiles, i)
                /\ AddNotifications(<<Event("delete", profiles[i])>>)
                /\ Answer("delete", 0)
        /\ UNCHANGED default_smdp_address

\* es10c.delete_profile
DeleteProfile(target) ==
  LET i == Find(profiles, target)
  IN \/ i = 0 /\ Refuse("delete", 1)
     \/ i # 0 /\ IsEnabled(profiles[i]) /\ Refuse("delete", 2)
     \/ /\ i # 0
        /\ ~IsEnabled(profiles[i])
        /\ profiles' = RemoveAt(profiles, i)
        /\ free_nvm' = free_nvm + Footprint(profiles[i].data)
        /\ AddNotifications(<<Event("delete", profiles[i])>>)
        /\ Answer("delete", 0)
        /\ UNCHANGED default_smdp_address

\* The flags of eUICCMemoryReset; without options every flag is set.
ResetOptions == [operational : BOOLEAN, test : BOOLEAN, address : BOOLEAN]

\* A broken variant: the enabled profile is not spared.
SurvivesByClass(p, options) ==
  \/ p.profile_class = "provisioning"
  \/ p.profile_class = "test" /\ ~options.test
  \/ p.profile_class = "operational" /\ ~options.operational

SurvivesReset(p, options) ==
  \/ IsEnabled(p)
  \/ p.profile_class = "provisioning"
  \/ p.profile_class = "test" /\ ~options.test
  \/ p.profile_class = "operational" /\ ~options.operational

Gather(kept, p, options) ==
  IF SurvivesReset(p, options) THEN Append(kept, p) ELSE kept

\* The profiles that survive, gathered in the order of the list.
Survivors(ps, options) ==
  LET kept[n \in 0..Len(ps)] ==
        IF n = 0 THEN <<>> ELSE Gather(kept[n - 1], ps[n], options)
  IN kept[Len(ps)]

\* es10c.euicc_memory_reset: the list and the address are assigned before it is
\* decided whether there was anything to delete.
EuiccMemoryReset(options) ==
  LET kept == Survivors(profiles, options)
      nothingToDelete == Len(kept) = Len(profiles) /\ ~options.address
  IN /\ profiles' = kept
     /\ default_smdp_address' = IF options.address THEN NoAddress ELSE default_smdp_address
     /\ UNCHANGED <<notifications, notification_seq>>
     /\ \/ nothingToDelete /\ Answer("reset", 1) /\ UNCHANGED free_nvm
        \/ ~nothingToDelete /\ Answer("reset", 0) /\ free_nvm' = TotalNvm - Used(kept)

\* es10c.set_nickname; the nickname is not part of the modelled slot.
SetNickname(iccid) ==
  LET i == Find(profiles, [by |-> "iccid", iccid |-> iccid])
  IN \/ i = 0 /\ Refuse("nickname", 1)
     \/ i # 0 /\ Answer("nickname", 0) /\ UNCHANGED storeVars

\* es10a.set_default_dp_address
SetDefaultDpAddress(address) ==
  /\ default_smdp_address' = address
  /\ Answer("address", 0)
  /\ UNCHANGED <<profiles, free_nvm, notifications, notification_seq>>

FindNotification(ns, seq_number) ==
  SelectInSeq(ns, LAMBDA n : n.seq_number = seq_number)

\* es10b.remove_notification
RemoveNotification(seq_number) ==
  LET i == FindNotification(notifications, seq_number)
  IN \/ i = 0 /\ Refuse("remove", 1)
     \/ /\ i # 0
        /\ notifications' = RemoveAt(notifications, i)
        /\ Answer("remove", 0)
        /\ UNCHANGED <<profiles, free_nvm, notification_seq, default_smdp_address>>

\* The steps of load_bound_profile_package that touch the store, for a package
\* that a prepared session accepts; RspSession has the handler with its session.
InstallProfile(iccid, address, len) ==
  \/ ~HasRoomFor(len) /\ Refuse("install", 3)
  \/ HasRoomFor(len) /\ Install(iccid, address, len) /\ Answer("install", 0)

-----------------------------------------------------------------------------
(* Specification *)

Init ==
  /\ profiles \in InitialProfiles
  /\ free_nvm = InitialFreeNvm
  /\ notifications = <<>>
  /\ notification_seq = 0
  /\ default_smdp_address \in Addresses \union {NoAddress}
  /\ result = [op |-> "none", code |-> 0]

LocalManagement ==
  \/ \E target \in Targets :
       \/ EnableProfile(target)
       \/ DisableProfile(target)
       \/ DeleteProfile(target)
  \/ \E options \in ResetOptions : EuiccMemoryReset(options)
  \/ \E iccid \in Iccids : SetNickname(iccid)
  \/ \E address \in Addresses : SetDefaultDpAddress(address)
  \/ \E seq_number \in 1..MaxNotificationSeq : RemoveNotification(seq_number)

Download ==
  \E iccid \in Iccids, address \in Addresses, len \in DataLengths :
    InstallProfile(iccid, address, len)

Next == LocalManagement \/ Download

Spec == Init /\ [][Next]_vars

-----------------------------------------------------------------------------
(* Properties *)

\* Every variable keeps its type, the free NVM never goes below zero and the
\* slots never exceed max_profiles (es10b.load_bound_profile_package's checks).
TypeOK ==
  /\ profiles \in Seq(ProfileSlot)
  /\ Len(profiles) <= MaxProfiles
  /\ free_nvm \in Nat
  /\ notifications \in Seq(Notification)
  /\ notification_seq \in Nat
  /\ default_smdp_address \in Addresses \union {NoAddress}
  /\ result \in Answers

\* At most one profile is enabled, whatever sequence of enables, disables,
\* deletions, resets and installations ran (es10c.enable_profile).
AtMostOneEnabled == AtMostOneEnabledIn(profiles)

\* The free NVM and the NVM of the installed profiles never add up to more than
\* the eUICC has, although installations debit, deletions credit, resets
\* recompute and pre-installed profiles were never debited.
NvmAccounted == free_nvm + Used(profiles) <= TotalNvm

\* The pending notifications are in the order of their sequence numbers, all
\* distinct, and none is beyond the last number handed out, in spite of
\* removals from anywhere in the queue.
NotificationsOrdered ==
  /\ \A i, j \in DOMAIN notifications :
       i < j => notifications[i].seq_number < notifications[j].seq_number
  /\ \A i \in DOMAIN notifications : notifications[i].seq_number <= notification_seq

\* A notification that appears carries a number never used before, not even by
\* a notification since removed: an acknowledgement cannot hit another one.
NumbersNeverReused ==
  [][\A k \in DOMAIN notifications' :
       \/ \E j \in DOMAIN notifications : notifications[j] = notifications'[k]
       \/ notifications'[k].seq_number > notification_seq]_vars

\* No single command removes the enabled profile, and a memory reset removes no
\* provisioning profile either: they are still there after, no further back.
ProtectedProfilesKept ==
  [][\A i \in DOMAIN profiles :
       \/ IsEnabled(profiles[i])
       \/ result'.op = "reset" /\ profiles[i].profile_class = "provisioning"
       => \E j \in DOMAIN profiles' :
            /\ j <= i
            /\ profiles'[j].iccid = profiles[i].iccid
            /\ profiles'[j].isdp_aid = profiles[i].isdp_aid]_vars

\* A profile changes state only in a step that queues a notification saying so,
\* the profile that enabling another one disables included.
StateChangesNotified ==
  [][\A i \in DOMAIN profiles \intersect DOMAIN profiles' :
       (Len(profiles') >= Len(profiles) /\ profiles'[i].state # profiles[i].state)
       => \E k \in DOMAIN notifications' :
            /\ notifications'[k].seq_number > notification_seq
            /\ notifications'[k].iccid = profiles[i].iccid
            /\ notifications'[k].operation =
                 IF IsEnabled(profiles'[i]) THEN "enable" ELSE "disable"]_vars

TellsOfSwitch(n) == n.operation \in {"enable", "disable"}

\* No notification from the k-th on has been removed from the queue.
WholeFrom(k) ==
  \A number \in notifications[k].seq_number..notification_seq :
    \E j \in DOMAIN notifications : notifications[j].seq_number = number

\* Whoever reads the queue in its order knows which profile is enabled: the last
\* pending notification of an enabling or a disabling says so, unless some
\* notification after it was removed, and whatever was installed, deleted or
\* reset since.  An enabling queues the disabling it implies before itself.
QueueShowsEnabled ==
  \A k \in DOMAIN notifications :
    /\ TellsOfSwitch(notifications[k])
    /\ \A j \in DOMAIN notifications : j > k => ~TellsOfSwitch(notifications[j])
    /\ WholeFrom(k)
    => EnabledIccids(profiles) =
         IF notifications[k].operation = "enable" THEN {notifications[k].iccid} ELSE {}

\* No two profiles have the same ISD-P AID, as allocate_isdp_aid promises ("a
\* unique ISD-P AID for a new profile").
IsdpAidsUnique ==
  \A i, j \in DOMAIN profiles :
    profiles[i].isdp_aid = profiles[j].isdp_aid => i = j
=============================================================================
