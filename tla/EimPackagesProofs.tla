-------------------------- MODULE EimPackagesProofs --------------------------
(***************************************************************************)
(* What eIM packages of any length guarantee, between local commands, for  *)
(* any number of eIMs, counters and profiles.                              *)
(*                                                                         *)
(* A package runs as a recursion along its commands. The invariants of     *)
(* profiles and of associations are written as the sets ListsWithin and    *)
(* AssociationsFrom that the recursion never leaves, so what holds after   *)
(* each command holds after all of them.                                   *)
(***************************************************************************)
EXTENDS EimPackages, ProfileStoreProofs

\* Lists that use no more memory and no more slots than ps, one enabled at most.
ListsWithin(ps) ==
  {qs \in Seq(ProfileSlot) : /\ Len(qs) <= Len(ps)
                             /\ Used(qs) <= Used(ps)
                             /\ AtMostOneEnabledIn(qs)}

EimsDiffer(assocs) ==
  \A i, j \in DOMAIN assocs : assocs[i].eim_id = assocs[j].eim_id => i = j

\* An association has moved past every counter it accepted.
CountersCover(assocs) ==
  \A i \in DOMAIN assocs : \A c \in assocs[i].accepted : c <= assocs[i].counter_value

AssociationsOK(assocs) ==
  assocs \in Seq(EimAssociation) /\ EimsDiffer(assocs) /\ CountersCover(assocs)

\* The associations that may follow: none is left only if there was none.
AssociationsFrom(assocs) ==
  {as \in Seq(EimAssociation) : AssociationsOK(as) /\ (assocs # <<>> => as # <<>>)}

EimInv ==
  /\ StoreInv
  /\ AssociationsOK(eim_associations)
  /\ executed \in Seq(EimIds \X Nat)

-----------------------------------------------------------------------------
(* Commands on profiles *)

LEMMA ListItself ==
  ASSUME NEW ps \in Seq(ProfileSlot), AtMostOneEnabledIn(ps)
  PROVE  ps \in ListsWithin(ps)
BY SlotsOfList, UsedNat DEF ListsWithin

LEMMA ListsWithinSwitch ==
  ASSUME NEW ps \in Seq(ProfileSlot), NEW qs \in ListsWithin(ps), NEW rs \in Seq(ProfileSlot),
         Len(rs) = Len(qs), \A j \in 1..Len(qs) : rs[j].data = qs[j].data,
         AtMostOneEnabledIn(rs)
  PROVE  rs \in ListsWithin(ps)
<1>1. qs \in Seq(ProfileSlot) /\ Len(qs) <= Len(ps) /\ Used(qs) <= Used(ps)
  BY DEF ListsWithin
<1>2. Used(rs) = Used(qs)
  BY <1>1, UsedOfSameData
<1> QED
  BY <1>1, <1>2 DEF ListsWithin

LEMMA ListsWithinRemoval ==
  ASSUME NEW ps \in Seq(ProfileSlot), NEW qs \in ListsWithin(ps), NEW i \in 1..Len(qs)
  PROVE  RemoveAt(qs, i) \in ListsWithin(ps)
<1> DEFINE rs == RemoveAt(qs, i)
<1>1. qs \in Seq(ProfileSlot) /\ Len(qs) <= Len(ps) /\ Used(qs) <= Used(ps) /\ AtMostOneEnabledIn(qs)
  BY DEF ListsWithin
<1>2. rs \in Seq(ProfileSlot) /\ Len(rs) = Len(qs) - 1
  BY <1>1, RemoveAtProperties
<1>3. Used(rs) + Footprint(qs[i].data) = Used(qs) /\ Footprint(qs[i].data) \in Nat
  BY <1>1, UsedOfRemoveAt, SlotsOfList
<1>4. AtMostOneEnabledIn(rs)
  BY <1>1, OneEnabledOfRemoveAt
<1>5. Len(qs) \in Nat /\ Len(ps) \in Nat
  BY <1>1, LenProperties
<1> HIDE DEF rs
<1>6. Used(rs) \in Nat /\ Used(qs) \in Nat /\ Used(ps) \in Nat
  BY <1>1, <1>2, UsedNat
<1>7. rs \in ListsWithin(ps)
  BY <1>1, <1>2, <1>3, <1>4, <1>5, <1>6 DEF ListsWithin
<1> QED
  BY <1>7 DEF rs

LEMMA AfterPsmoFacts ==
  ASSUME NEW ps \in Seq(ProfileSlot), NEW qs \in ListsWithin(ps), NEW op \in Psmo
  PROVE  AfterPsmo(qs, op) \in ListsWithin(ps)
<1> DEFINE i == Find(qs, [by |-> "iccid", iccid |-> op.iccid])
<1>1. qs \in Seq(ProfileSlot) /\ AtMostOneEnabledIn(qs)
  BY DEF ListsWithin
<1>2. i = 0 \/ i \in 1..Len(qs)
  BY <1>1, FindFacts
<1>3. AfterPsmo(qs, op) \in
        {qs, EnableQuietly(qs, i), SetState(qs, i, "disabled"), RemoveAt(qs, i)}
  BY DEF AfterPsmo
<1>4. i = 0 => AfterPsmo(qs, op) = qs
  BY DEF AfterPsmo
<1> HIDE DEF i
<1>5. ASSUME i # 0
      PROVE  SwitchOn(qs, i) \in ListsWithin(ps)
  BY <1>1, <1>2, <1>5, SwitchOnFacts, ListsWithinSwitch
<1>6. ASSUME i # 0
      PROVE  SetState(qs, i, "disabled") \in ListsWithin(ps)
  <2> DEFINE rs == SetState(qs, i, "disabled")
  <2>1. "disabled" \in ProfileState /\ "disabled" # "enabled"
    BY DEF ProfileState
  <2>2. /\ rs \in Seq(ProfileSlot)
        /\ Len(rs) = Len(qs)
        /\ \A j \in 1..Len(qs) : rs[j].data = qs[j].data
    BY <1>1, <1>2, <1>6, <2>1, SetStateFacts
  <2>3. EnabledIn(rs) = EnabledIn(qs) \ {i}
    BY <1>1, <1>2, <1>6, <2>1, SetStateFacts
  <2>4. AtMostOneEnabledIn(rs)
    BY <1>1, <2>3 DEF AtMostOneEnabledIn
  <2> HIDE DEF rs
  <2>5. rs \in ListsWithin(ps)
    BY <2>2, <2>4, ListsWithinSwitch
  <2> QED
    BY <2>5 DEF rs
<1>7. ASSUME i # 0
      PROVE  RemoveAt(qs, i) \in ListsWithin(ps)
  BY <1>2, <1>7, ListsWithinRemoval
<1> QED
  BY <1>3, <1>4, <1>5, <1>6, <1>7 DEF EnableQuietly

\* However many commands a package has, its profiles stay within the list.
LEMMA AfterPsmosFacts ==
  ASSUME NEW ps \in Seq(ProfileSlot), AtMostOneEnabledIn(ps), NEW ops \in Seq(Psmo)
  PROVE  AfterPsmos(ps, ops) \in ListsWithin(ps)
<1> DEFINE N == Len(ops)
           S == ListsWithin(ps)
           Runs(f) == f = [n \in 0..N |-> IF n = 0 THEN ps ELSE AfterPsmo(f[n - 1], ops[n])]
           G == [pair \in (1..N) \X S |-> AfterPsmo(pair[2], ops[pair[1]])]
<1>1. N \in Nat /\ \A n \in 1..N : ops[n] \in Psmo
  BY SequenceElements
<1>2. ps \in S
  BY ListItself
<1>3. \A v \in S : \A n \in 1..N : AfterPsmo(v, ops[n]) \in S
  BY <1>1, AfterPsmoFacts
<1> HIDE DEF S
<1>4. G \in [(1..N) \X S -> S]
  BY <1>3
<1>5. \A n \in 1..N : \A v \in S : G[<<n, v>>] = AfterPsmo(v, ops[n])
  OBVIOUS
<1>6. RecursionExists(N, S, ps, G)
  <2> HIDE DEF G, N
  <2> QED
    BY <1>1, <1>2, <1>4, RecursionUpTo
<1>7. PICK f \in [0..N -> S] : f[0] = ps /\ \A n \in 1..N : f[n] = G[<<n, f[n - 1]>>]
  <2> HIDE DEF G
  <2> QED
    BY <1>6 DEF RecursionExists
<1>8. \A n \in 1..N : f[n] = AfterPsmo(f[n - 1], ops[n])
  <2> SUFFICES ASSUME NEW n \in 1..N
               PROVE  f[n] = AfterPsmo(f[n - 1], ops[n])
    OBVIOUS
  <2>1. n - 1 \in 0..N
    BY <1>1
  <2>2. f[n - 1] \in S
    BY <2>1
  <2> HIDE DEF G
  <2> QED
    BY <1>5, <1>7, <2>2
<1>9. Runs(f)
  BY <1>1, <1>7, <1>8
<1> DEFINE k == CHOOSE h : Runs(h)
<1>10. Runs(k)
  BY <1>9
<1>11. AfterPsmos(ps, ops) = k[N]
  BY DEF AfterPsmos
<1> HIDE DEF k
<1>12. k[0] = ps /\ \A n \in 1..N : k[n] = AfterPsmo(k[n - 1], ops[n])
  BY <1>1, <1>10
<1> DEFINE T == {n \in 0..N : k[n] \in S}
<1>13. 0 \in T
  BY <1>1, <1>2, <1>12
<1>14. ASSUME NEW n \in 0..(N - 1), n \in T
       PROVE  n + 1 \in T
  <2>1. n + 1 \in 0..N /\ n + 1 \in 1..N /\ (n + 1) - 1 = n
    BY <1>1
  <2>2. k[n + 1] = AfterPsmo(k[n], ops[n + 1])
    BY <1>12, <2>1
  <2>3. k[n] \in S /\ AfterPsmo(k[n], ops[n + 1]) \in S
    BY <1>3, <1>14, <2>1
  <2> QED
    BY <2>1, <2>2, <2>3
<1> HIDE DEF T
<1>15. \A n \in 0..N : n \in T
  BY <1>1, <1>13, <1>14, InductionUpTo
<1> QED
  BY <1>1, <1>11, <1>15 DEF T, S

-----------------------------------------------------------------------------
(* Commands on associations *)

LEMMA AssociationElements ==
  ASSUME NEW assocs, AssociationsOK(assocs)
  PROVE  /\ assocs \in Seq(EimAssociation)
         /\ Len(assocs) \in Nat
         /\ DOMAIN assocs = 1..Len(assocs)
         /\ \A i \in 1..Len(assocs) : assocs[i] \in EimAssociation
BY SequenceElements DEF AssociationsOK

LEMMA SequenceWithElements ==
  ASSUME NEW S, NEW s \in Seq(S), NEW n \in Nat, Len(s) = n
  PROVE  DOMAIN s = 1..n /\ (n > 0 => s # <<>>)
<1>1. DOMAIN s = 1..n
  BY LenProperties
<1>2. Len(<<>>) = 0
  OBVIOUS
<1> QED
  BY <1>1, <1>2

\* The lookup finds the association when there is one.
LEMMA FindEimFacts ==
  ASSUME NEW assocs, AssociationsOK(assocs), NEW eim_id
  PROVE  \/ /\ FindEim(assocs, eim_id) = 0
            /\ \A i \in 1..Len(assocs) : assocs[i].eim_id # eim_id
         \/ /\ FindEim(assocs, eim_id) \in 1..Len(assocs)
            /\ assocs[FindEim(assocs, eim_id)].eim_id = eim_id
<1> DEFINE I == {i \in 1..Len(assocs) : assocs[i].eim_id = eim_id}
<1>1. FindEim(assocs, eim_id) = IF I # {} THEN Min(I) ELSE 0
  BY DEF FindEim, SelectInSeq
<1>2. I # {} => Min(I) \in I
  <2>1. I \subseteq Nat
    BY AssociationElements
  <2> HIDE DEF I
  <2> QED
    BY <2>1, MinOfNaturals
<1> QED
  BY <1>1, <1>2

LEMMA AssociateFacts ==
  ASSUME NEW eim_id \in EimIds, NEW counter_value \in Nat
  PROVE  /\ Associate(eim_id, counter_value) \in EimAssociation
         /\ Associate(eim_id, counter_value).eim_id = eim_id
         /\ Associate(eim_id, counter_value).accepted = {}
BY DEF Associate, EimAssociation

LEMMA AddEimFacts ==
  ASSUME NEW assocs, AssociationsOK(assocs), NEW eim_id \in EimIds, NEW counter_value \in Nat
  PROVE  AddEim(assocs, eim_id, counter_value) \in AssociationsFrom(assocs)
<1>1. CASE FindEim(assocs, eim_id) # 0
  BY <1>1 DEF AddEim, AssociationsFrom, AssociationsOK
<1>2. CASE FindEim(assocs, eim_id) = 0
  <2> DEFINE new == Associate(eim_id, counter_value)
             L == Len(assocs)
             as == Append(assocs, new)
  <2>1. /\ assocs \in Seq(EimAssociation) /\ L \in Nat /\ DOMAIN assocs = 1..L
        /\ \A i \in 1..L : assocs[i].eim_id # eim_id
    BY <1>2, AssociationElements, FindEimFacts
  <2>2. new \in EimAssociation /\ new.eim_id = eim_id /\ new.accepted = {}
    BY AssociateFacts
  <2> HIDE DEF new
  <2>3. /\ as \in Seq(EimAssociation)
        /\ Len(as) = L + 1
        /\ \A i \in 1..L : as[i] = assocs[i]
        /\ as[L + 1] = new
    BY <2>1, <2>2, AppendProperties
  <2>4. AddEim(assocs, eim_id, counter_value) = as
    BY <1>2 DEF AddEim, new
  <2> HIDE DEF as
  <2>5. DOMAIN as = 1..(L + 1) /\ as # <<>>
    <3>1. L + 1 \in Nat /\ L + 1 > 0
      BY <2>1
    <3> QED
      BY <2>3, <3>1, SequenceWithElements
  <2>6. EimsDiffer(as)
    <3> SUFFICES ASSUME NEW j \in 1..(L + 1), NEW k \in 1..(L + 1), as[j].eim_id = as[k].eim_id
                 PROVE  j = k
      BY <2>5 DEF EimsDiffer
    <3>1. CASE j \in 1..L /\ k \in 1..L
      <4>1. assocs[j].eim_id = assocs[k].eim_id
        BY <2>3, <3>1
      <4> QED
        BY <2>1, <3>1, <4>1 DEF AssociationsOK, EimsDiffer
    <3>2. CASE j \in 1..L /\ k = L + 1
      <4>1. as[j] = assocs[j] /\ as[k] = new
        BY <2>3, <3>2
      <4> QED
        BY <2>1, <2>2, <3>2, <4>1
    <3>3. CASE j = L + 1 /\ k \in 1..L
      <4>1. as[j] = new /\ as[k] = assocs[k]
        BY <2>3, <3>3
      <4> QED
        BY <2>1, <2>2, <3>3, <4>1
    <3> QED
      BY <2>1, <3>1, <3>2, <3>3
  <2>7. CountersCover(as)
    <3> SUFFICES ASSUME NEW j \in 1..(L + 1), NEW c \in as[j].accepted
                 PROVE  c <= as[j].counter_value
      BY <2>5 DEF CountersCover
    <3>1. CASE j \in 1..L
      BY <2>1, <2>3, <3>1 DEF AssociationsOK, CountersCover
    <3>2. CASE j = L + 1
      <4>1. as[j] = new
        BY <2>3, <3>2
      <4>2. as[j].accepted = {}
        BY <2>2, <4>1
      <4>3. c \in as[j].accepted
        OBVIOUS
      <4> QED
        BY <4>2, <4>3
    <3>3. j \in 1..L \/ j = L + 1
      BY <2>1
    <3> QED
      BY <3>1, <3>2, <3>3
  <2> QED
    BY <2>3, <2>4, <2>5, <2>6, <2>7 DEF AssociationsFrom, AssociationsOK
<1> QED
  BY <1>1, <1>2

LEMMA DeleteEimFacts ==
  ASSUME NEW assocs, AssociationsOK(assocs), NEW eim_id
  PROVE  DeleteEim(assocs, eim_id) \in AssociationsFrom(assocs)
<1> DEFINE i == FindEim(assocs, eim_id)
           L == Len(assocs)
<1>1. /\ assocs \in Seq(EimAssociation) /\ L \in Nat /\ DOMAIN assocs = 1..L
      /\ i = 0 \/ i \in 1..L
  BY AssociationElements, FindEimFacts
<1>2. DeleteEim(assocs, eim_id) = IF i = 0 \/ L <= 1 THEN assocs ELSE RemoveAt(assocs, i)
  BY DEF DeleteEim
<1> HIDE DEF i
<1>3. CASE i = 0 \/ L <= 1
  BY <1>2, <1>3 DEF AssociationsFrom, AssociationsOK
<1>4. CASE i \in 1..L /\ ~(L <= 1)
  <2> DEFINE as == RemoveAt(assocs, i)
  <2>1. /\ as \in Seq(EimAssociation)
        /\ Len(as) = L - 1
        /\ \A j \in 1..(L - 1) : as[j] = IF j < i THEN assocs[j] ELSE assocs[j + 1]
    BY <1>1, <1>4, RemoveAtProperties
  <2> HIDE DEF as
  <2>2. DOMAIN as = 1..(L - 1) /\ as # <<>>
    <3>1. L - 1 \in Nat /\ L - 1 > 0
      BY <1>1, <1>4
    <3> QED
      BY <2>1, <3>1, SequenceWithElements
  <2>3. \A j \in 1..(L - 1) : \E m \in 1..L :
          as[j] = assocs[m] /\ m = IF j < i THEN j ELSE j + 1
    <3> SUFFICES ASSUME NEW j \in 1..(L - 1)
                 PROVE  \E m \in 1..L : as[j] = assocs[m] /\ m = IF j < i THEN j ELSE j + 1
      OBVIOUS
    <3>1. (IF j < i THEN j ELSE j + 1) \in 1..L
      BY <1>1, <1>4
    <3>2. as[j] = assocs[IF j < i THEN j ELSE j + 1]
      BY <2>1
    <3> QED
      BY <3>1, <3>2
  <2>4. EimsDiffer(as)
    <3> SUFFICES ASSUME NEW j \in 1..(L - 1), NEW k \in 1..(L - 1), as[j].eim_id = as[k].eim_id
                 PROVE  j = k
      BY <2>2 DEF EimsDiffer
    <3>1. PICK m \in 1..L : as[j] = assocs[m] /\ m = IF j < i THEN j ELSE j + 1
      BY <2>3
    <3>2. PICK n \in 1..L : as[k] = assocs[n] /\ n = IF k < i THEN k ELSE k + 1
      BY <2>3
    <3>3. m = n
      BY <1>1, <3>1, <3>2 DEF AssociationsOK, EimsDiffer
    <3> QED
      BY <1>1, <1>4, <3>1, <3>2, <3>3
  <2>5. CountersCover(as)
    BY <1>1, <2>2, <2>3 DEF AssociationsOK, CountersCover
  <2>6. as \in AssociationsFrom(assocs)
    BY <2>1, <2>2, <2>4, <2>5 DEF AssociationsFrom, AssociationsOK
  <2> QED
    BY <1>2, <1>4, <1>1, <2>6 DEF as
<1> QED
  BY <1>1, <1>3, <1>4

\* Writing an association in place of one of the same eIM.
LEMMA ReplacedAssociation ==
  ASSUME NEW assocs, AssociationsOK(assocs), NEW i \in 1..Len(assocs), NEW a \in EimAssociation,
         a.eim_id = assocs[i].eim_id, \A c \in a.accepted : c <= a.counter_value
  PROVE  [assocs EXCEPT ![i] = a] \in AssociationsFrom(assocs)
<1> DEFINE as == [assocs EXCEPT ![i] = a]
           L == Len(assocs)
<1>1. assocs \in Seq(EimAssociation) /\ L \in Nat /\ DOMAIN assocs = 1..L
  BY AssociationElements
<1>2. /\ as \in Seq(EimAssociation)
      /\ Len(as) = L
      /\ \A j \in 1..L : as[j] = IF j = i THEN a ELSE assocs[j]
  BY <1>1, ExceptSeq
<1> HIDE DEF as
<1>3. DOMAIN as = 1..L /\ as # <<>>
  <2>1. L > 0
    BY <1>1
  <2> QED
    BY <1>1, <1>2, <2>1, SequenceWithElements
<1>4. EimsDiffer(as)
  BY <1>1, <1>2, <1>3 DEF AssociationsOK, EimsDiffer
<1>5. CountersCover(as)
  BY <1>1, <1>2, <1>3 DEF AssociationsOK, CountersCover
<1>6. as \in AssociationsFrom(assocs)
  BY <1>2, <1>3, <1>4, <1>5 DEF AssociationsFrom, AssociationsOK
<1> QED
  BY <1>6 DEF as

LEMMA UpdateEimFacts ==
  ASSUME NEW assocs, AssociationsOK(assocs), NEW eco \in Eco
  PROVE  UpdateEim(assocs, eco) \in AssociationsFrom(assocs)
<1> DEFINE i == FindEim(assocs, eco.eim_id)
<1>1. CASE i # 0 /\ "counter_value" \in DOMAIN eco
  <2>1. eco.eim_id \in EimIds /\ eco.counter_value \in Nat
    BY <1>1 DEF Eco
  <2>2. i \in 1..Len(assocs) /\ assocs[i].eim_id = eco.eim_id
    BY <1>1, FindEimFacts
  <2> DEFINE a == Associate(eco.eim_id, eco.counter_value)
  <2>3. a \in EimAssociation /\ a.eim_id = eco.eim_id /\ a.accepted = {}
    BY <2>1, AssociateFacts
  <2>4. UpdateEim(assocs, eco) = [assocs EXCEPT ![i] = a]
    BY <1>1 DEF UpdateEim
  <2> HIDE DEF a, i
  <2> QED
    BY <2>2, <2>3, <2>4, ReplacedAssociation
<1>2. CASE ~(i # 0 /\ "counter_value" \in DOMAIN eco)
  BY <1>2 DEF UpdateEim, AssociationsFrom, AssociationsOK
<1> QED
  BY <1>1, <1>2

LEMMA AfterEcoFacts ==
  ASSUME NEW assocs, NEW as \in AssociationsFrom(assocs), NEW eco \in Eco
  PROVE  AfterEco(as, eco) \in AssociationsFrom(assocs)
<1>1. AssociationsOK(as)
  BY DEF AssociationsFrom
<1>2. AfterEco(as, eco) \in AssociationsFrom(as)
  <2>1. CASE eco.action = "addEim"
    <3>1. eco.eim_id \in EimIds /\ eco.counter_value \in Nat
      BY <2>1 DEF Eco
    <3>2. AfterEco(as, eco) = AddEim(as, eco.eim_id, eco.counter_value)
      BY <2>1 DEF AfterEco
    <3> QED
      BY <1>1, <3>1, <3>2, AddEimFacts
  <2>2. CASE eco.action = "deleteEim"
    <3>1. AfterEco(as, eco) = DeleteEim(as, eco.eim_id)
      BY <2>2 DEF AfterEco
    <3> QED
      BY <1>1, <3>1, DeleteEimFacts
  <2>3. CASE eco.action = "updateEim"
    <3>1. AfterEco(as, eco) = UpdateEim(as, eco)
      BY <2>3 DEF AfterEco
    <3> QED
      BY <1>1, <3>1, UpdateEimFacts
  <2>4. eco.action \in {"addEim", "deleteEim", "updateEim"}
    BY DEF Eco
  <2> QED
    BY <2>1, <2>2, <2>3, <2>4
<1> QED
  BY <1>2 DEF AssociationsFrom

\* However many commands a package has, one association per eIM is left, and
\* some association if there was one.
LEMMA AfterEcosFacts ==
  ASSUME NEW assocs, AssociationsOK(assocs), NEW ecos \in Seq(Eco)
  PROVE  AfterEcos(assocs, ecos) \in AssociationsFrom(assocs)
<1> DEFINE N == Len(ecos)
           S == AssociationsFrom(assocs)
           Runs(f) == f = [n \in 0..N |-> IF n = 0 THEN assocs ELSE AfterEco(f[n - 1], ecos[n])]
           G == [pair \in (1..N) \X S |-> AfterEco(pair[2], ecos[pair[1]])]
<1>1. N \in Nat /\ \A n \in 1..N : ecos[n] \in Eco
  BY SequenceElements
<1>2. assocs \in S
  BY DEF AssociationsFrom, AssociationsOK
<1>3. \A v \in S : \A n \in 1..N : AfterEco(v, ecos[n]) \in S
  BY <1>1, AfterEcoFacts
<1> HIDE DEF S
<1>4. G \in [(1..N) \X S -> S]
  BY <1>3
<1>5. \A n \in 1..N : \A v \in S : G[<<n, v>>] = AfterEco(v, ecos[n])
  OBVIOUS
<1>6. RecursionExists(N, S, assocs, G)
  <2> HIDE DEF G, N
  <2> QED
    BY <1>1, <1>2, <1>4, RecursionUpTo
<1>7. PICK f \in [0..N -> S] : f[0] = assocs /\ \A n \in 1..N : f[n] = G[<<n, f[n - 1]>>]
  <2> HIDE DEF G
  <2> QED
    BY <1>6 DEF RecursionExists
<1>8. \A n \in 1..N : f[n] = AfterEco(f[n - 1], ecos[n])
  <2> SUFFICES ASSUME NEW n \in 1..N
               PROVE  f[n] = AfterEco(f[n - 1], ecos[n])
    OBVIOUS
  <2>1. n - 1 \in 0..N
    BY <1>1
  <2>2. f[n - 1] \in S
    BY <2>1
  <2> HIDE DEF G
  <2> QED
    BY <1>5, <1>7, <2>2
<1>9. Runs(f)
  BY <1>1, <1>7, <1>8
<1> DEFINE k == CHOOSE h : Runs(h)
<1>10. Runs(k)
  BY <1>9
<1>11. AfterEcos(assocs, ecos) = k[N]
  BY DEF AfterEcos
<1> HIDE DEF k
<1>12. k[0] = assocs /\ \A n \in 1..N : k[n] = AfterEco(k[n - 1], ecos[n])
  BY <1>1, <1>10
<1> DEFINE T == {n \in 0..N : k[n] \in S}
<1>13. 0 \in T
  BY <1>1, <1>2, <1>12
<1>14. ASSUME NEW n \in 0..(N - 1), n \in T
       PROVE  n + 1 \in T
  <2>1. n + 1 \in 0..N /\ n + 1 \in 1..N /\ (n + 1) - 1 = n
    BY <1>1
  <2>2. k[n + 1] = AfterEco(k[n], ecos[n + 1])
    BY <1>12, <2>1
  <2>3. k[n] \in S /\ AfterEco(k[n], ecos[n + 1]) \in S
    BY <1>3, <1>14, <2>1
  <2> QED
    BY <2>1, <2>2, <2>3
<1> HIDE DEF T
<1>15. \A n \in 0..N : n \in T
  BY <1>1, <1>13, <1>14, InductionUpTo
<1> QED
  BY <1>1, <1>11, <1>15 DEF T, S

-----------------------------------------------------------------------------
(* What every step guarantees *)

AcceptStep ==
  executed' # executed =>
    LET package == Last(executed')
    IN \A i \in DOMAIN eim_associations :
         eim_associations[i].eim_id = package[1] =>
           package[2] \notin eim_associations[i].accepted

EimStep ==
  /\ EimInv'
  /\ eim_associations # <<>> => eim_associations' # <<>>
  /\ AcceptStep

\* A step of the store that leaves the eIMs alone.
LEMMA StoreStepFacts ==
  ASSUME EimInv, SafeStep, UNCHANGED eimVars
  PROVE  EimStep
BY DEF EimInv, EimStep, AcceptStep, SafeStep, eimVars

LEMMA AddInitialEimFacts ==
  ASSUME EimInv, NEW configs \in InitialConfigs, AddInitialEim(configs)
  PROVE  EimStep
<1> DEFINE ecos == [k \in DOMAIN configs |-> Addition(configs[k])]
<1>1. /\ eim_associations' = AfterEcos(eim_associations, ecos)
      /\ UNCHANGED <<storeVars, executed>>
  BY DEF AddInitialEim, AfterConfigs
<1>2. ecos \in Seq(Eco)
  <2>1. /\ Len(configs) \in Nat
        /\ DOMAIN configs = 1..Len(configs)
        /\ \A k \in 1..Len(configs) : configs[k] \in EimConfig
    BY PackagesAssumption, SequenceElements
  <2>2. \A k \in 1..Len(configs) : Addition(configs[k]) \in Eco
    BY <2>1 DEF Addition, EimConfig, Eco
  <2> QED
    BY <2>1, <2>2
<1> HIDE DEF ecos
<1>3. eim_associations' \in AssociationsFrom(eim_associations)
  BY <1>1, <1>2, AfterEcosFacts DEF EimInv
<1>4. AssociationsOK(eim_associations') /\ (eim_associations # <<>> => eim_associations' # <<>>)
  BY <1>3 DEF AssociationsFrom
<1>5. result' \in Answers /\ result'.code = 0
  BY DEF AddInitialEim, Answer, Answers, Command
<1>6. StoreInv'
  BY <1>1, <1>5, SameStoreFacts DEF EimInv, SafeStep
<1> QED
  BY <1>1, <1>4, <1>5, <1>6 DEF EimInv, EimStep, AcceptStep

\* The counter of an accepted package is past every one accepted before.
LEMMA AcceptFacts ==
  ASSUME EimInv, NEW package \in Package, NEW i \in 1..Len(eim_associations),
         eim_associations[i].eim_id = package.eim_id, Exceeds(package, i)
  PROVE  /\ Accept(package, i) \in AssociationsFrom(eim_associations)
         /\ package.counter_value \notin eim_associations[i].accepted
<1> DEFINE old == eim_associations[i]
           c == package.counter_value
           a == [old EXCEPT !.counter_value = c, !.accepted = @ \union {c}]
<1>1. AssociationsOK(eim_associations)
  BY DEF EimInv
<1>2. old \in EimAssociation /\ i \in DOMAIN eim_associations
  BY <1>1, AssociationElements
<1>3. c \in Nat /\ old.counter_value \in Nat /\ old.accepted \subseteq Nat /\ c > old.counter_value
  BY <1>2 DEF Package, EimAssociation, Exceeds
<1>4. \A d \in old.accepted : d <= old.counter_value
  BY <1>1, <1>2 DEF AssociationsOK, CountersCover
<1>5. a \in EimAssociation /\ a.eim_id = old.eim_id /\ a.counter_value = c
      /\ a.accepted = old.accepted \union {c}
  BY <1>2, <1>3 DEF EimAssociation
<1>6. \A d \in a.accepted : d <= a.counter_value
  BY <1>3, <1>4, <1>5
<1>7. Accept(package, i) = [eim_associations EXCEPT ![i] = a]
  BY <1>2 DEF Accept, CounterAfter, EimAssociation
<1>8. Accept(package, i) \in AssociationsFrom(eim_associations)
  <2>1. a \in EimAssociation /\ a.eim_id = eim_associations[i].eim_id
    BY <1>5
  <2> HIDE DEF a
  <2>2. [eim_associations EXCEPT ![i] = a] \in AssociationsFrom(eim_associations)
    BY <1>1, <1>6, <2>1, ReplacedAssociation
  <2> QED
    BY <1>7, <2>2
<1> QED
  BY <1>3, <1>4, <1>8

LEMMA RefusePackageFacts ==
  ASSUME EimInv, NEW code \in Nat, RefusePackage(code)
  PROVE  EimStep
<1>1. result' \in Answers /\ UNCHANGED storeVars /\ UNCHANGED eimVars
  BY DEF RefusePackage, Refuse, Answer, Answers, Command
<1> QED
  BY <1>1, SameStoreFacts, StoreStepFacts DEF EimInv

LEMMA LoadEuiccPackageFacts ==
  ASSUME EimInv, NEW package \in Packages, LoadEuiccPackage(package)
  PROVE  EimStep
<1> DEFINE i == FindEim(eim_associations, package.eim_id)
<1>1. ASSUME NEW code \in {1, 2}, RefusePackage(code)
      PROVE  EimStep
  BY <1>1, RefusePackageFacts
<1>2. ASSUME i # 0,
             Exceeds(package, i),
             profiles' = AfterPsmos(profiles, package.psmoList),
             eim_associations' = AfterEcos(Accept(package, i), package.ecoList),
             executed' = Append(executed, <<package.eim_id, package.counter_value>>),
             Answer("package", IF package.well_formed THEN 0 ELSE Raised),
             UNCHANGED <<free_nvm, notifications, notification_seq, default_smdp_address>>
      PROVE  EimStep
  <2>1. /\ package \in Package
        /\ package.eim_id \in EimIds /\ package.counter_value \in Nat
        /\ package.psmoList \in Seq(Psmo) /\ package.ecoList \in Seq(Eco)
    BY PackagesAssumption DEF Package
  <2>2. i \in 1..Len(eim_associations) /\ eim_associations[i].eim_id = package.eim_id
    BY <1>2, FindEimFacts DEF EimInv
  <2> HIDE DEF i
  <2>3. /\ Accept(package, i) \in AssociationsFrom(eim_associations)
        /\ package.counter_value \notin eim_associations[i].accepted
    BY <1>2, <2>1, <2>2, AcceptFacts
  <2>4. AssociationsOK(Accept(package, i))
        /\ (eim_associations # <<>> => Accept(package, i) # <<>>)
    BY <2>3 DEF AssociationsFrom
  <2>5. eim_associations' \in AssociationsFrom(Accept(package, i))
    BY <1>2, <2>1, <2>4, AfterEcosFacts
  <2>6. AssociationsOK(eim_associations')
        /\ (eim_associations # <<>> => eim_associations' # <<>>)
    BY <2>4, <2>5 DEF AssociationsFrom
  <2>7. MemoryOK /\ QueueOK /\ profiles \in Seq(ProfileSlot) /\ AtMostOneEnabledIn(profiles)
    BY StoreInvParts DEF EimInv, MemoryOK, AtMostOneEnabled
  <2>8. profiles' \in ListsWithin(profiles)
    BY <1>2, <2>1, <2>7, AfterPsmosFacts
  <2>9. MemoryOK'
    <3>1. /\ profiles' \in Seq(ProfileSlot) /\ Len(profiles') <= Len(profiles)
          /\ Used(profiles') <= Used(profiles) /\ AtMostOneEnabledIn(profiles')
      BY <2>8 DEF ListsWithin
    <3>2. /\ Len(profiles) \in Nat /\ Len(profiles') \in Nat
          /\ Used(profiles) \in Nat /\ Used(profiles') \in Nat
      BY <2>7, <3>1, LenProperties, UsedNat
    <3> QED
      BY <1>2, <2>7, <3>1, <3>2, BoundsAssumption, NvmAssumption
         DEF MemoryOK, AtMostOneEnabled, NvmAccounted
  <2>10. QueueOK' /\ FreshNumbers
    BY <1>2, <2>7, SameQueueFacts
  <2>11. result' \in Answers
    BY <1>2 DEF Answer, Answers, Command, Raised
  <2>12. SafeStep
    <3>1. default_smdp_address' \in Addresses \union {NoAddress}
      BY <1>2, StoreInvParts DEF EimInv
    <3> QED
      BY <2>9, <2>10, <2>11, <3>1, SafeParts
  <2> DEFINE entry == <<package.eim_id, package.counter_value>>
  <2>13. entry \in EimIds \X Nat /\ executed \in Seq(EimIds \X Nat)
    BY <2>1 DEF EimInv
  <2>14. executed' \in Seq(EimIds \X Nat) /\ Last(executed') = entry
    <3> HIDE DEF entry
    <3>1. executed' = Append(executed, entry)
      BY <1>2 DEF entry
    <3> QED
      BY <2>13, <3>1, AppendProperties, LenProperties DEF Last
  <2>15. AcceptStep
    <3> SUFFICES ASSUME NEW j \in DOMAIN eim_associations,
                        eim_associations[j].eim_id = package.eim_id
                 PROVE  package.counter_value \notin eim_associations[j].accepted
      BY <2>14 DEF AcceptStep
    <3>1. i \in DOMAIN eim_associations
      BY <2>2, AssociationElements DEF EimInv
    <3>2. j = i
      BY <2>2, <3>1 DEF EimInv, AssociationsOK, EimsDiffer
    <3> QED
      BY <2>3, <3>2
  <2> QED
    BY <2>6, <2>11, <2>12, <2>14, <2>15 DEF EimStep, EimInv, SafeStep
<1> QED
  BY <1>1, <1>2 DEF LoadEuiccPackage

LEMMA EuiccMemoryResetSgp32Facts ==
  ASSUME EimInv, EuiccMemoryResetSgp32
  PROVE  EimStep
<1>1. ASSUME NEW op \in {"reset", "resetEim"}, Refuse(op, Raised), UNCHANGED eimVars
      PROVE  EimStep
  <2>1. result' \in Answers /\ UNCHANGED storeVars
    BY <1>1 DEF Refuse, Answer, Answers, Command, Raised
  <2> QED
    BY <1>1, <2>1, SameStoreFacts, StoreStepFacts DEF EimInv
<1> DEFINE options == [operational |-> TRUE, test |-> TRUE, address |-> TRUE]
<1>2. CASE EuiccMemoryReset(options) /\ UNCHANGED eimVars
  <2>1. options \in ResetOptions
    BY DEF ResetOptions
  <2> HIDE DEF options
  <2>2. SafeStep
    BY <1>2, <2>1, EuiccMemoryResetFacts DEF EimInv
  <2> QED
    BY <1>2, <2>2, StoreStepFacts
<1> QED
  BY <1>1, <1>2 DEF EuiccMemoryResetSgp32

-----------------------------------------------------------------------------
(* Theorems *)

LEMMA InitEimInv ==
  ASSUME EimInit
  PROVE  EimInv
<1>1. StoreInv
  BY InitStoreInv DEF EimInit
<1>2. AssociationsOK(eim_associations)
  <2>1. CASE eim_associations = <<>>
    BY <2>1 DEF AssociationsOK, EimsDiffer, CountersCover
  <2>2. ASSUME NEW eim_id \in EimIds, eim_associations = <<Associate(eim_id, 0)>>
        PROVE  AssociationsOK(eim_associations)
    <3>1. Associate(eim_id, 0) \in EimAssociation /\ Associate(eim_id, 0).accepted = {}
      BY AssociateFacts
    <3> QED
      BY <2>2, <3>1 DEF AssociationsOK, EimsDiffer, CountersCover
  <2> QED
    BY <2>1, <2>2 DEF EimInit
<1>3. executed = <<>>
  BY DEF EimInit
<1> QED
  BY <1>1, <1>2, <1>3 DEF EimInv

LEMMA EimNextFacts ==
  ASSUME EimInv, [EimNext \/ (Next /\ UNCHANGED eimVars)]_packageVars
  PROVE  EimStep \/ UNCHANGED packageVars
<1>1. CASE EimNext
  <2>1. CASE LoadNoPackage
    BY <2>1, RefusePackageFacts DEF LoadNoPackage, Raised
  <2> QED
    BY <1>1, <2>1, AddInitialEimFacts, LoadEuiccPackageFacts, EuiccMemoryResetSgp32Facts
       DEF EimNext
<1>2. CASE Next /\ UNCHANGED eimVars
  BY <1>2, NextSafe, StoreStepFacts DEF EimInv
<1> QED
  BY <1>1, <1>2

LEMMA EimStepFacts ==
  ASSUME EimInv, [EimNext \/ (Next /\ UNCHANGED eimVars)]_packageVars
  PROVE  /\ EimInv'
         /\ [eim_associations # <<>> => eim_associations' # <<>>]_packageVars
         /\ [AcceptStep]_packageVars
<1>1. CASE EimStep
  BY <1>1 DEF EimStep
<1>2. CASE UNCHANGED packageVars
  <2>1. UNCHANGED storeVars /\ UNCHANGED eimVars /\ result' = result
    BY <1>2 DEF packageVars, vars
  <2>2. result' \in Answers
    BY <2>1, StoreInvParts DEF EimInv
  <2>3. EimStep
    BY <2>1, <2>2, SameStoreFacts, StoreStepFacts DEF EimInv
  <2> QED
    BY <1>2, <2>3 DEF EimStep
<1> QED
  BY <1>1, <1>2, EimNextFacts

\* The store's invariants, one association per eIM and counters that have moved
\* past every package accepted hold in every state of every behaviour.
THEOREM EimInvariant == EimSpec => []EimInv
<1>1. EimInit => EimInv
  BY InitEimInv
<1>2. EimInv /\ [EimNext \/ (Next /\ UNCHANGED eimVars)]_packageVars => EimInv'
  BY EimStepFacts
<1> QED
  BY <1>1, <1>2, PTL DEF EimSpec

\* Associations, history and store keep their types.
THEOREM EimTypeCorrect == EimSpec => []EimTypeOK
<1>1. EimInv => EimTypeOK
  BY DEF EimInv, EimTypeOK, AssociationsOK, StoreInv
<1> QED
  BY <1>1, EimInvariant, PTL

\* No string of configuration commands gives an eIM a second association.
THEOREM EimsAreUnique == EimSpec => []EimIdsUnique
<1>1. EimInv => EimIdsUnique
  BY DEF EimInv, EimIdsUnique, AssociationsOK, EimsDiffer, IsInjective
<1> QED
  BY <1>1, EimInvariant, PTL

\* No package, however long, leaves two profiles enabled, and no mixture of
\* packages and local commands credits memory that is not there.
THEOREM StoreIsSoundWithEims == EimSpec => []StoreSoundAfterPackages
<1>1. EimInv => StoreSoundAfterPackages
  BY DEF EimInv, StoreInv, StoreSoundAfterPackages
<1> QED
  BY <1>1, EimInvariant, PTL

\* No package leaves an eUICC that had an eIM without any.
THEOREM EimsAreKept == EimSpec => EimNeverEmptied
<1>1. EimInv /\ [EimNext \/ (Next /\ UNCHANGED eimVars)]_packageVars
        => [eim_associations # <<>> => eim_associations' # <<>>]_packageVars
  BY EimStepFacts
<1> QED
  BY <1>1, EimInvariant, PTL DEF EimSpec, EimNeverEmptied

\* An association accepts no counter a second time.
THEOREM AcceptedOnce == EimSpec => PackagesAcceptedOnce
<1>1. EimInv /\ [EimNext \/ (Next /\ UNCHANGED eimVars)]_packageVars => [AcceptStep]_packageVars
  BY EimStepFacts
<1> QED
  BY <1>1, EimInvariant, PTL DEF EimSpec, PackagesAcceptedOnce, AcceptStep
=============================================================================
