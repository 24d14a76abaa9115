-------------------------- MODULE ProfileStoreProofs --------------------------
(***************************************************************************)
(* What ProfileStore guarantees for every set of ICCIDs and addresses,     *)
(* every size of the memory and every list of pre-installed profiles: its  *)
(* type invariant, its safety invariants, that notification numbers are    *)
(* never used again and that the queue tells which profile is enabled.     *)
(*                                                                         *)
(* The inductive invariant is StoreInv, the conjunction of the four        *)
(* invariants. They need each other: a memory reset recomputes free_nvm as *)
(* TotalNvm - Used(kept), which is a natural number only because the NVM   *)
(* of the profiles was accounted for before.                               *)
(***************************************************************************)
EXTENDS ProfileStore, SequenceLemmas

StoreInv == TypeOK /\ AtMostOneEnabled /\ NvmAccounted /\ NotificationsOrdered

-----------------------------------------------------------------------------
(* The NVM used by a list of profiles *)

LEMMA FootprintNat == \A len \in Nat : Footprint(len) \in Nat
BY NvmAssumption DEF Footprint

LEMMA SlotsOfList ==
  ASSUME NEW ps \in Seq(ProfileSlot)
  PROVE  /\ Len(ps) \in Nat
         /\ DOMAIN ps = 1..Len(ps)
         /\ \A j \in 1..Len(ps) : ps[j] \in ProfileSlot /\ Footprint(ps[j].data) \in Nat
<1>1. \A p \in ProfileSlot : p.data \in Nat
  BY DEF ProfileSlot
<1> QED
  BY <1>1, SequenceElements, FootprintNat

PartialSums(ps, f) ==
  /\ f \in [0..Len(ps) -> Nat]
  /\ f[0] = 0
  /\ \A n \in 1..Len(ps) : f[n] = f[n - 1] + Footprint(ps[n].data)

\* Used is the last of the partial sums along the list.
LEMMA UsedIsASum ==
  ASSUME NEW ps \in Seq(ProfileSlot)
  PROVE  \E f : PartialSums(ps, f) /\ Used(ps) = f[Len(ps)]
<1> DEFINE N == Len(ps)
           Sums(f) == f = [n \in 0..N |->
                             IF n = 0 THEN 0 ELSE f[n - 1] + Footprint(ps[n].data)]
           G == [pair \in (1..N) \X Nat |-> pair[2] + Footprint(ps[pair[1]].data)]
<1>1. N \in Nat /\ \A n \in 1..N : Footprint(ps[n].data) \in Nat
  BY SlotsOfList
<1>2. G \in [(1..N) \X Nat -> Nat]
  BY <1>1
<1>3. \A n \in 1..N, v \in Nat : G[<<n, v>>] = v + Footprint(ps[n].data)
  OBVIOUS
<1>4. PICK f \in [0..N -> Nat] : f[0] = 0 /\ \A n \in 1..N : f[n] = G[<<n, f[n - 1]>>]
  <2>1. N \in Nat /\ 0 \in Nat
    BY <1>1
  <2> HIDE DEF G, N
  <2>2. RecursionExists(N, Nat, 0, G)
    BY <2>1, <1>2, RecursionUpTo
  <2> QED
    BY <2>2 DEF RecursionExists
<1>5. \A n \in 1..N : f[n] = f[n - 1] + Footprint(ps[n].data)
  <2> SUFFICES ASSUME NEW n \in 1..N
               PROVE  f[n] = f[n - 1] + Footprint(ps[n].data)
    OBVIOUS
  <2>1. n - 1 \in 0..N
    BY <1>1
  <2>2. f[n - 1] \in Nat
    BY <2>1
  <2> HIDE DEF G
  <2> QED
    BY <1>3, <1>4, <2>2
<1>6. Sums(f)
  BY <1>1, <1>4, <1>5
<1> DEFINE g == CHOOSE h : Sums(h)
<1>7. Sums(g)
  BY <1>6
<1>8. Used(ps) = g[N]
  BY DEF Used
<1> HIDE DEF g
<1>9. \A n \in 0..N : g[n] \in Nat
  <2> DEFINE T == {n \in 0..N : g[n] \in Nat}
  <2>1. 0 \in T
    BY <1>1, <1>7
  <2>2. ASSUME NEW n \in 0..(N - 1), n \in T
        PROVE  n + 1 \in T
    <3>1. n + 1 \in 0..N /\ n + 1 # 0 /\ (n + 1) - 1 = n
      BY <1>1
    <3>2. g[n + 1] = g[n] + Footprint(ps[n + 1].data)
      BY <1>7, <3>1
    <3> QED
      BY <1>1, <2>2, <3>1, <3>2
  <2> HIDE DEF T
  <2>3. \A n \in 0..N : n \in T
    BY <1>1, <2>1, <2>2, InductionUpTo
  <2> QED
    BY <2>3 DEF T
<1>10. g \in [0..N -> Nat]
  BY <1>7, <1>9
<1>11. g[0] = 0 /\ \A n \in 1..N : g[n] = g[n - 1] + Footprint(ps[n].data)
  BY <1>1, <1>7
<1> QED
  BY <1>8, <1>10, <1>11 DEF PartialSums
LEMMA UsedNat ==
  ASSUME NEW ps \in Seq(ProfileSlot)
  PROVE  Used(ps) \in Nat
<1>1. PICK f : PartialSums(ps, f) /\ Used(ps) = f[Len(ps)]
  BY UsedIsASum
<1>2. Len(ps) \in 0..Len(ps)
  BY SlotsOfList
<1> QED
  BY <1>1, <1>2 DEF PartialSums

\* Partial sums that start with the same steps are the same up to there.
LEMMA SamePartialSums ==
  ASSUME NEW ps \in Seq(ProfileSlot), NEW qs \in Seq(ProfileSlot), NEW f, NEW g,
         PartialSums(ps, f), PartialSums(qs, g), NEW m \in 0..Len(ps), m <= Len(qs),
         \A n \in 1..m : Footprint(ps[n].data) = Footprint(qs[n].data)
  PROVE  f[m] = g[m]
<1> DEFINE T == {n \in 0..m : f[n] = g[n]}
<1>1. m \in Nat /\ Len(ps) \in Nat /\ Len(qs) \in Nat
  BY SlotsOfList
<1>2. 0 \in T
  BY <1>1 DEF PartialSums
<1>3. ASSUME NEW n \in 0..(m - 1), n \in T
      PROVE  n + 1 \in T
  <2>1. n + 1 \in 0..m /\ n + 1 \in 1..m /\ (n + 1) - 1 = n
    BY <1>1
  <2>2. f[n + 1] = f[n] + Footprint(ps[n + 1].data)
    BY <1>1, <2>1 DEF PartialSums
  <2>3. g[n + 1] = g[n] + Footprint(qs[n + 1].data)
    BY <1>1, <2>1 DEF PartialSums
  <2> QED
    BY <1>3, <2>1, <2>2, <2>3
<1> HIDE DEF T
<1>4. \A n \in 0..m : n \in T
  BY <1>1, <1>2, <1>3, InductionUpTo
<1> QED
  BY <1>1, <1>4 DEF T

\* Changing states, or anything but the contents, does not change the sum.
LEMMA UsedOfSameData ==
  ASSUME NEW ps \in Seq(ProfileSlot), NEW qs \in Seq(ProfileSlot), Len(ps) = Len(qs),
         \A n \in 1..Len(ps) : ps[n].data = qs[n].data
  PROVE  Used(ps) = Used(qs)
<1>1. PICK f : PartialSums(ps, f) /\ Used(ps) = f[Len(ps)]
  BY UsedIsASum
<1>2. PICK g : PartialSums(qs, g) /\ Used(qs) = g[Len(qs)]
  BY UsedIsASum
<1>3. Len(ps) \in 0..Len(ps) /\ Len(ps) <= Len(qs)
  BY SlotsOfList
<1>4. f[Len(ps)] = g[Len(ps)]
  BY <1>1, <1>2, <1>3, SamePartialSums
<1> QED
  BY <1>1, <1>2, <1>4

LEMMA UsedOfAppend ==
  ASSUME NEW ps \in Seq(ProfileSlot), NEW p \in ProfileSlot
  PROVE  Used(Append(ps, p)) = Used(ps) + Footprint(p.data)
<1> DEFINE qs == Append(ps, p)
           N == Len(ps)
<1>1. /\ N \in Nat
      /\ qs \in Seq(ProfileSlot)
      /\ Len(qs) = N + 1
      /\ \A n \in 1..N : qs[n] = ps[n]
      /\ qs[N + 1] = p
  BY SlotsOfList, AppendProperties
<1> HIDE DEF qs
<1>2. PICK f : PartialSums(ps, f) /\ Used(ps) = f[N]
  BY UsedIsASum
<1>3. PICK g : PartialSums(qs, g) /\ Used(qs) = g[N + 1]
  BY <1>1, UsedIsASum
<1>4. f[N] = g[N]
  BY <1>1, <1>2, <1>3, SamePartialSums
<1>5. g[N + 1] = g[N] + Footprint(p.data)
  BY <1>1, <1>3 DEF PartialSums
<1> QED
  BY <1>2, <1>3, <1>4, <1>5 DEF qs

LEMMA UsedOfRemoveAt ==
  ASSUME NEW ps \in Seq(ProfileSlot), NEW i \in 1..Len(ps)
  PROVE  Used(RemoveAt(ps, i)) + Footprint(ps[i].data) = Used(ps)
<1> DEFINE qs == RemoveAt(ps, i)
           N == Len(ps)
           w == Footprint(ps[i].data)
<1>1. /\ N \in Nat
      /\ \A n \in 1..N : Footprint(ps[n].data) \in Nat
      /\ qs \in Seq(ProfileSlot)
      /\ Len(qs) = N - 1
      /\ \A n \in 1..(N - 1) : qs[n] = IF n < i THEN ps[n] ELSE ps[n + 1]
  BY SlotsOfList, RemoveAtProperties
<1>2. w \in Nat
  BY <1>1
<1> HIDE DEF qs
<1>3. PICK f : PartialSums(ps, f) /\ Used(ps) = f[N]
  BY UsedIsASum
<1>4. PICK g : PartialSums(qs, g) /\ Used(qs) = g[N - 1]
  BY <1>1, UsedIsASum
<1> DEFINE T == {n \in 0..(N - i) : f[i + n] = g[(i - 1) + n] + w}
<1>5. 0 \in T
  <2>1. f[i - 1] = g[i - 1]
    <3>1. \A n \in 1..(i - 1) : Footprint(ps[n].data) = Footprint(qs[n].data)
      BY <1>1
    <3> DEFINE m == i - 1
    <3>2. m \in 0..Len(ps) /\ m <= Len(qs)
      BY <1>1
    <3>3. qs \in Seq(ProfileSlot) /\ \A n \in 1..m : Footprint(ps[n].data) = Footprint(qs[n].data)
      BY <1>1, <3>1
    <3> HIDE DEF m
    <3>4. f[m] = g[m]
      BY <1>3, <1>4, <3>2, <3>3, SamePartialSums
    <3> QED
      BY <3>4 DEF m
  <2>2. f[i] = f[i - 1] + w
    BY <1>1, <1>3 DEF PartialSums
  <2> QED
    BY <1>1, <2>1, <2>2
<1>6. ASSUME NEW n \in 0..((N - i) - 1), n \in T
      PROVE  n + 1 \in T
  <2>1. /\ n + 1 \in 0..(N - i) /\ i + (n + 1) \in 1..N /\ i + n \in 1..(N - 1)
        /\ (i + (n + 1)) - 1 = i + n /\ (i - 1) + (n + 1) = i + n
        /\ (i + n) - 1 = (i - 1) + n /\ (i + n) + 1 = i + (n + 1) /\ ~(i + n < i)
        /\ (i - 1) + n \in 0..(N - 1)
    BY <1>1
  <2>2. f[i + (n + 1)] = f[i + n] + Footprint(ps[i + (n + 1)].data)
    BY <1>3, <2>1 DEF PartialSums
  <2>3. g[i + n] = g[(i - 1) + n] + Footprint(qs[i + n].data)
    BY <1>1, <1>4, <2>1 DEF PartialSums
  <2>4. qs[i + n] = ps[i + (n + 1)]
    BY <1>1, <2>1
  <2>5. f[i + n] = g[(i - 1) + n] + w
    BY <1>6
  <2>6. g[(i - 1) + n] \in Nat /\ Footprint(ps[i + (n + 1)].data) \in Nat
    BY <1>1, <1>4, <2>1 DEF PartialSums
  <2> HIDE DEF w
  <2>7. f[i + (n + 1)] = g[(i - 1) + (n + 1)] + w
    BY <1>2, <2>1, <2>2, <2>3, <2>4, <2>5, <2>6
  <2> QED
    BY <2>1, <2>7
<1> HIDE DEF T
<1>7. N - i \in T
  <2> DEFINE M == N - i
  <2>1. M \in Nat /\ M \in 0..M
    BY <1>1
  <2>2. \A n \in 0..(M - 1) : n \in T => n + 1 \in T
    BY <1>6
  <2> HIDE DEF M
  <2>3. \A n \in 0..M : n \in T
    BY <1>5, <2>1, <2>2, InductionUpTo
  <2> QED
    BY <2>1, <2>3 DEF M
<1>8. i + (N - i) = N /\ (i - 1) + (N - i) = N - 1
  BY <1>1
<1> QED
  BY <1>3, <1>4, <1>7, <1>8 DEF T, qs
-----------------------------------------------------------------------------
(* The profiles a memory reset spares *)

SelectionSteps(ps, options, k) ==
  /\ k \in [0..Len(ps) -> Seq(ProfileSlot)]
  /\ k[0] = <<>>
  /\ \A n \in 1..Len(ps) :
       k[n] = Gather(k[n - 1], ps[n], options)

\* Survivors is what the selection has gathered at the end of the list.
LEMMA SurvivorsAreGathered ==
  ASSUME NEW ps \in Seq(ProfileSlot), NEW options
  PROVE  \E k : SelectionSteps(ps, options, k) /\ Survivors(ps, options) = k[Len(ps)]
<1> DEFINE N == Len(ps)
           Slots == Seq(ProfileSlot)
           Gathers(f) == f = [n \in 0..N |->
             IF n = 0 THEN <<>> ELSE Gather(f[n - 1], ps[n], options)]
           G == [pair \in (1..N) \X Slots |-> Gather(pair[2], ps[pair[1]], options)]
<1>1. N \in Nat /\ \A n \in 1..N : ps[n] \in ProfileSlot
  BY SlotsOfList
<1>2. <<>> \in Slots
  OBVIOUS
<1>3. \A v \in Slots : \A n \in 1..N : Gather(v, ps[n], options) \in Slots
  BY <1>1 DEF Gather
<1> HIDE DEF Slots
<1>4. G \in [(1..N) \X Slots -> Slots]
  BY <1>3
<1>5. \A n \in 1..N : \A v \in Slots :
        G[<<n, v>>] = Gather(v, ps[n], options)
  OBVIOUS
<1>6. RecursionExists(N, Slots, <<>>, G)
  <2> HIDE DEF G, N
  <2> QED
    BY <1>1, <1>2, <1>4, RecursionUpTo
<1>7. PICK f \in [0..N -> Slots] : f[0] = <<>> /\ \A n \in 1..N : f[n] = G[<<n, f[n - 1]>>]
  <2> HIDE DEF G
  <2> QED
    BY <1>6 DEF RecursionExists
<1>8. \A n \in 1..N : f[n] = Gather(f[n - 1], ps[n], options)
  <2> SUFFICES ASSUME NEW n \in 1..N
               PROVE  f[n] = Gather(f[n - 1], ps[n], options)
    OBVIOUS
  <2>1. n - 1 \in 0..N
    BY <1>1
  <2>2. f[n - 1] \in Slots
    BY <2>1
  <2> HIDE DEF G
  <2> QED
    BY <1>5, <1>7, <2>2
<1>9. Gathers(f)
  BY <1>1, <1>7, <1>8
<1> DEFINE k == CHOOSE h : Gathers(h)
<1>10. Gathers(k)
  BY <1>9
<1>11. Survivors(ps, options) = k[N]
  BY DEF Survivors
<1> HIDE DEF k
<1>12. k[0] = <<>>
  BY <1>1, <1>10
<1>13. \A n \in 1..N : k[n] = Gather(k[n - 1], ps[n], options)
  BY <1>1, <1>10
<1>14. \A n \in 0..N : k[n] \in Slots
  <2> DEFINE T == {n \in 0..N : k[n] \in Slots}
  <2>1. 0 \in T
    BY <1>1, <1>2, <1>12
  <2>2. ASSUME NEW n \in 0..(N - 1), n \in T
        PROVE  n + 1 \in T
    <3>1. n + 1 \in 0..N /\ n + 1 \in 1..N /\ (n + 1) - 1 = n
      BY <1>1
    <3>2. k[n + 1] = Gather(k[n], ps[n + 1], options)
      BY <1>13, <3>1
    <3>3. k[n] \in Slots /\ Gather(k[n], ps[n + 1], options) \in Slots
      BY <1>3, <2>2, <3>1
    <3> QED
      BY <3>1, <3>2, <3>3
  <2> HIDE DEF T
  <2>3. \A n \in 0..N : n \in T
    BY <1>1, <2>1, <2>2, InductionUpTo
  <2> QED
    BY <2>3 DEF T
<1>15. k \in [0..N -> Slots]
  BY <1>10, <1>14
<1> QED
  BY <1>11, <1>12, <1>13, <1>15 DEF SelectionSteps, Slots

\* Selecting never lengthens the list, never raises the NVM it uses and never
\* makes a second profile enabled.
LEMMA SurvivorsFacts ==
  ASSUME NEW ps \in Seq(ProfileSlot), NEW options
  PROVE  /\ Survivors(ps, options) \in Seq(ProfileSlot)
         /\ Len(Survivors(ps, options)) <= Len(ps)
         /\ Used(Survivors(ps, options)) <= Used(ps)
         /\ AtMostOneEnabledIn(ps) => AtMostOneEnabledIn(Survivors(ps, options))
<1> DEFINE N == Len(ps)
<1>1. N \in Nat /\ \A n \in 1..N : ps[n] \in ProfileSlot /\ Footprint(ps[n].data) \in Nat
  BY SlotsOfList
<1>2. PICK k : SelectionSteps(ps, options, k) /\ Survivors(ps, options) = k[N]
  BY SurvivorsAreGathered
<1>3. PICK f : PartialSums(ps, f) /\ Used(ps) = f[N]
  BY UsedIsASum
<1> DEFINE EnabledBefore(n) == \E m \in 1..n : IsEnabled(ps[m])
           Fine(n) == /\ Len(k[n]) <= n
                      /\ Used(k[n]) <= f[n]
                      /\ AtMostOneEnabledIn(ps) => AtMostOneEnabledIn(k[n])
                      /\ EnabledIn(k[n]) # {} => EnabledBefore(n)
           T == {n \in 0..N : Fine(n)}
<1>4. \A n \in 0..N : k[n] \in Seq(ProfileSlot) /\ f[n] \in Nat /\ Used(k[n]) \in Nat
  BY <1>2, <1>3, UsedNat DEF SelectionSteps, PartialSums
<1>5. 0 \in T
  <2>1. k[0] = <<>> /\ f[0] = 0
    BY <1>2, <1>3 DEF SelectionSteps, PartialSums
  <2>2. <<>> \in Seq(ProfileSlot) /\ Len(<<>>) = 0
    OBVIOUS
  <2>3. Used(<<>>) = 0
    <3>1. PICK g : PartialSums(<<>>, g) /\ Used(<<>>) = g[0]
      BY <2>2, UsedIsASum
    <3> QED
      BY <3>1 DEF PartialSums
  <2>4. EnabledIn(<<>>) = {}
    BY DEF EnabledIn
  <2>5. AtMostOneEnabledIn(<<>>)
    BY <2>4 DEF AtMostOneEnabledIn
  <2> QED
    BY <1>1, <2>1, <2>2, <2>3, <2>4, <2>5
<1>6. ASSUME NEW n \in 0..(N - 1), n \in T
      PROVE  n + 1 \in T
  <2> DEFINE p == ps[n + 1]
  <2>1. n + 1 \in 0..N /\ n + 1 \in 1..N /\ (n + 1) - 1 = n /\ n \in 0..N
    BY <1>1
  <2>2. k[n + 1] = IF SurvivesReset(p, options) THEN Append(k[n], p) ELSE k[n]
    BY <1>2, <2>1 DEF SelectionSteps, Gather
  <2>3. f[n + 1] = f[n] + Footprint(p.data)
    BY <1>3, <2>1 DEF PartialSums
  <2>4. p \in ProfileSlot /\ Footprint(p.data) \in Nat
    BY <1>1, <2>1
  <2>5. k[n] \in Seq(ProfileSlot) /\ f[n] \in Nat /\ Used(k[n]) \in Nat
    BY <1>4, <2>1
  <2>6. Fine(n)
    BY <1>6
  <2>7. EnabledBefore(n) => EnabledBefore(n + 1)
    BY <1>1
  <2>8. CASE SurvivesReset(p, options)
    <3> DEFINE q == Append(k[n], p)
    <3>1. /\ q \in Seq(ProfileSlot)
          /\ Len(q) = Len(k[n]) + 1
          /\ \A j \in 1..Len(k[n]) : q[j] = k[n][j]
          /\ q[Len(k[n]) + 1] = p
          /\ Len(k[n]) \in Nat
          /\ DOMAIN q = 1..Len(q)
          /\ DOMAIN k[n] = 1..Len(k[n])
      BY <2>4, <2>5, AppendProperties, LenProperties
    <3>2. Used(q) = Used(k[n]) + Footprint(p.data)
      BY <2>4, <2>5, UsedOfAppend
    <3> HIDE DEF q
    <3>3. Len(q) <= n + 1 /\ Used(q) <= f[n + 1]
      BY <2>3, <2>4, <2>5, <2>6, <3>1, <3>2
    <3>4. \A j \in EnabledIn(q) :
            \/ j \in EnabledIn(k[n])
            \/ j = Len(k[n]) + 1 /\ IsEnabled(p)
      BY <3>1 DEF EnabledIn
    <3>5. EnabledIn(q) # {} => EnabledBefore(n + 1)
      BY <2>1, <2>6, <2>7, <3>4
    <3>6. ASSUME AtMostOneEnabledIn(ps), NEW j1 \in EnabledIn(q), NEW j2 \in EnabledIn(q)
          PROVE  j1 = j2
      <4>1. IsEnabled(p) => ~EnabledBefore(n)
        <5> SUFFICES ASSUME IsEnabled(p), NEW m \in 1..n, IsEnabled(ps[m])
                     PROVE  FALSE
          OBVIOUS
        <5>1. m \in DOMAIN ps /\ n + 1 \in DOMAIN ps /\ m # n + 1
          BY <1>1, <2>1, SlotsOfList
        <5> QED
          BY <3>6, <5>1 DEF AtMostOneEnabledIn, EnabledIn
      <4>2. IsEnabled(p) => EnabledIn(k[n]) = {}
        BY <2>6, <4>1
      <4> QED
        BY <2>6, <3>4, <3>6, <4>2 DEF AtMostOneEnabledIn
    <3>7. AtMostOneEnabledIn(ps) => AtMostOneEnabledIn(q)
      BY <3>6 DEF AtMostOneEnabledIn
    <3>8. k[n + 1] = q
      BY <2>2, <2>8 DEF q
    <3> QED
      BY <2>1, <3>3, <3>5, <3>7, <3>8
  <2>9. CASE ~SurvivesReset(p, options)
    <3>1. Len(k[n]) \in Nat
      BY <2>5, LenProperties
    <3> HIDE DEF p
    <3> QED
      BY <2>1, <2>2, <2>3, <2>4, <2>5, <2>6, <2>7, <2>9, <3>1
  <2> QED
    BY <2>8, <2>9
<1> HIDE DEF T
<1>7. N \in T
  <2>1. \A n \in 0..N : n \in T
    BY <1>1, <1>5, <1>6, InductionUpTo
  <2> QED
    BY <1>1, <2>1
<1>8. N \in 0..N
  BY <1>1
<1> QED
  BY <1>2, <1>3, <1>4, <1>7, <1>8 DEF T
-----------------------------------------------------------------------------
(* Lookups *)

LEMMA FindFacts ==
  ASSUME NEW ps \in Seq(ProfileSlot), NEW target
  PROVE  Find(ps, target) = 0 \/ Find(ps, target) \in 1..Len(ps)
<1> DEFINE I == {i \in 1..Len(ps) : Matches(ps[i], target)}
<1>1. Find(ps, target) = IF I # {} THEN Min(I) ELSE 0
  BY DEF Find, SelectInSeq
<1>2. I # {} => Min(I) \in I
  <2>1. I \subseteq Nat
    BY SlotsOfList
  <2> HIDE DEF I
  <2> QED
    BY <2>1, MinOfNaturals
<1> QED
  BY <1>1, <1>2

LEMMA GetEnabledProfileFacts ==
  ASSUME NEW ps \in Seq(ProfileSlot)
  PROVE  \/ GetEnabledProfile(ps) = 0 /\ EnabledIn(ps) = {}
         \/ GetEnabledProfile(ps) \in EnabledIn(ps)
<1> DEFINE I == {i \in 1..Len(ps) : IsEnabled(ps[i])}
<1>1. GetEnabledProfile(ps) = IF I # {} THEN Min(I) ELSE 0
  BY DEF GetEnabledProfile, SelectInSeq
<1>2. I # {} => Min(I) \in I
  <2>1. I \subseteq Nat
    BY SlotsOfList
  <2> HIDE DEF I
  <2> QED
    BY <2>1, MinOfNaturals
<1>3. I = EnabledIn(ps)
  BY SlotsOfList DEF EnabledIn
<1> QED
  BY <1>1, <1>2, <1>3

LEMMA FindNotificationFacts ==
  ASSUME NEW ns \in Seq(Notification), NEW seq_number
  PROVE  FindNotification(ns, seq_number) = 0 \/ FindNotification(ns, seq_number) \in 1..Len(ns)
<1> DEFINE I == {i \in 1..Len(ns) : ns[i].seq_number = seq_number}
<1>1. FindNotification(ns, seq_number) = IF I # {} THEN Min(I) ELSE 0
  BY DEF FindNotification, SelectInSeq
<1>2. I # {} => Min(I) \in I
  <2>1. I \subseteq Nat
    BY LenProperties
  <2> HIDE DEF I
  <2> QED
    BY <2>1, MinOfNaturals
<1> QED
  BY <1>1, <1>2

-----------------------------------------------------------------------------
(* Changes of state *)

LEMMA SetStateFacts ==
  ASSUME NEW ps \in Seq(ProfileSlot), NEW i \in 1..Len(ps), NEW state \in ProfileState
  PROVE  /\ SetState(ps, i, state) \in Seq(ProfileSlot)
         /\ Len(SetState(ps, i, state)) = Len(ps)
         /\ \A j \in 1..Len(ps) : SetState(ps, i, state)[j].data = ps[j].data
         /\ EnabledIn(SetState(ps, i, state)) =
              IF state = "enabled" THEN EnabledIn(ps) \union {i} ELSE EnabledIn(ps) \ {i}
<1> DEFINE q == [ps[i] EXCEPT !.state = state]
           qs == [ps EXCEPT ![i] = q]
<1>1. Len(ps) \in Nat /\ DOMAIN ps = 1..Len(ps) /\ \A j \in 1..Len(ps) : ps[j] \in ProfileSlot
  BY SlotsOfList
<1>2. q \in ProfileSlot /\ q.data = ps[i].data /\ q.state = state
  BY <1>1 DEF ProfileSlot
<1>3. SetState(ps, i, state) = qs
  BY DEF SetState
<1>4. /\ qs \in Seq(ProfileSlot)
      /\ Len(qs) = Len(ps)
      /\ \A j \in 1..Len(ps) : qs[j] = IF j = i THEN q ELSE ps[j]
  <2> HIDE DEF q
  <2> QED
    BY <1>1, <1>2, ExceptSeq
<1> HIDE DEF qs
<1>5. \A j \in 1..Len(ps) : qs[j].data = ps[j].data
  BY <1>2, <1>4
<1>6. EnabledIn(qs) = IF state = "enabled" THEN EnabledIn(ps) \union {i} ELSE EnabledIn(ps) \ {i}
  <2>1. DOMAIN qs = 1..Len(ps)
    BY <1>4, LenProperties
  <2>2. \A j \in 1..Len(ps) :
          IsEnabled(qs[j]) <=> IF j = i THEN state = "enabled" ELSE IsEnabled(ps[j])
    BY <1>2, <1>4 DEF IsEnabled
  <2> HIDE DEF q
  <2> QED
    BY <1>1, <2>1, <2>2 DEF EnabledIn, ProfileState
<1> QED
  BY <1>3, <1>4, <1>5, <1>6

\* Switching a profile on leaves it the only one enabled.
LEMMA SwitchOnFacts ==
  ASSUME NEW ps \in Seq(ProfileSlot), NEW i \in 1..Len(ps), AtMostOneEnabledIn(ps)
  PROVE  /\ SwitchOn(ps, i) \in Seq(ProfileSlot)
         /\ Len(SwitchOn(ps, i)) = Len(ps)
         /\ \A j \in 1..Len(ps) : SwitchOn(ps, i)[j].data = ps[j].data
         /\ AtMostOneEnabledIn(SwitchOn(ps, i))
<1> DEFINE current == GetEnabledProfile(ps)
<1>1. "enabled" \in ProfileState /\ "disabled" \in ProfileState /\ "enabled" # "disabled"
  BY DEF ProfileState
<1>2. CASE current = 0
  <2>1. EnabledIn(ps) = {}
    BY <1>2, GetEnabledProfileFacts, SlotsOfList DEF EnabledIn
  <2>2. SwitchOn(ps, i) = SetState(ps, i, "enabled")
    BY <1>2 DEF SwitchOn
  <2>3. EnabledIn(SwitchOn(ps, i)) = {i}
    BY <1>1, <2>1, <2>2, SetStateFacts
  <2> QED
    BY <1>1, <2>2, <2>3, SetStateFacts DEF AtMostOneEnabledIn
<1>3. CASE current # 0
  <2> DEFINE qs == SetState(ps, current, "disabled")
  <2>1. current \in EnabledIn(ps) /\ current \in 1..Len(ps)
    BY <1>3, GetEnabledProfileFacts, SlotsOfList DEF EnabledIn
  <2>2. EnabledIn(ps) = {current}
    BY <2>1 DEF AtMostOneEnabledIn
  <2> HIDE DEF current
  <2>3. /\ qs \in Seq(ProfileSlot)
        /\ Len(qs) = Len(ps)
        /\ \A j \in 1..Len(ps) : qs[j].data = ps[j].data
        /\ EnabledIn(qs) = {}
    <3>1. /\ qs \in Seq(ProfileSlot)
          /\ Len(qs) = Len(ps)
          /\ \A j \in 1..Len(ps) : qs[j].data = ps[j].data
      BY <1>1, <2>1, SetStateFacts
    <3>2. EnabledIn(qs) = EnabledIn(ps) \ {current}
      BY <1>1, <2>1, SetStateFacts
    <3> QED
      BY <2>2, <3>1, <3>2
  <2>4. SwitchOn(ps, i) = SetState(qs, i, "enabled")
    BY <1>3 DEF SwitchOn, current
  <2> HIDE DEF qs
  <2>5. EnabledIn(SwitchOn(ps, i)) = {i}
    BY <1>1, <2>3, <2>4, SetStateFacts
  <2> QED
    BY <1>1, <2>3, <2>4, <2>5, SetStateFacts DEF AtMostOneEnabledIn
<1> QED
  BY <1>2, <1>3

\* Taking a profile out makes no other one enabled.
LEMMA OneEnabledOfRemoveAt ==
  ASSUME NEW ps \in Seq(ProfileSlot), NEW i \in 1..Len(ps), AtMostOneEnabledIn(ps)
  PROVE  AtMostOneEnabledIn(RemoveAt(ps, i))
<1> DEFINE qs == RemoveAt(ps, i)
<1>1. /\ qs \in Seq(ProfileSlot)
      /\ Len(qs) = Len(ps) - 1
      /\ \A j \in 1..(Len(ps) - 1) : qs[j] = IF j < i THEN ps[j] ELSE ps[j + 1]
  BY RemoveAtProperties
<1>2. Len(ps) \in Nat /\ DOMAIN qs = 1..(Len(ps) - 1) /\ DOMAIN ps = 1..Len(ps)
  BY <1>1, LenProperties
<1> HIDE DEF qs
<1>3. ASSUME NEW j \in EnabledIn(qs), NEW k \in EnabledIn(qs)
      PROVE  j = k
  <2> DEFINE m == IF j < i THEN j ELSE j + 1
             n == IF k < i THEN k ELSE k + 1
  <2>1. /\ j \in 1..(Len(ps) - 1) /\ k \in 1..(Len(ps) - 1)
        /\ IsEnabled(qs[j]) /\ IsEnabled(qs[k])
    BY <1>2 DEF EnabledIn
  <2>2. qs[j] = ps[m] /\ qs[k] = ps[n]
    BY <1>1, <2>1
  <2>3. m \in 1..Len(ps) /\ n \in 1..Len(ps)
    BY <1>2, <2>1
  <2>4. m = n
    BY <1>2, <2>1, <2>2, <2>3 DEF AtMostOneEnabledIn, EnabledIn
  <2> QED
    BY <1>2, <2>1, <2>4
<1>4. AtMostOneEnabledIn(qs)
  BY <1>3 DEF AtMostOneEnabledIn
<1> QED
  BY <1>4 DEF qs

-----------------------------------------------------------------------------
(* The queue of notifications *)

Events ==
  [operation : Operation, notification_address : Addresses \union {NoAddress}, iccid : Iccids]

QueueOK ==
  /\ notifications \in Seq(Notification)
  /\ notification_seq \in Nat
  /\ NotificationsOrdered

\* What NumbersNeverReused says of one step.
FreshNumbers ==
  \A k \in DOMAIN notifications' :
    \/ \E j \in DOMAIN notifications : notifications[j] = notifications'[k]
    \/ notifications'[k].seq_number > notification_seq

LEMMA EventFacts ==
  ASSUME NEW p \in ProfileSlot, NEW operation \in Operation
  PROVE  Event(operation, p) \in Events
BY DEF Event, Events, ProfileSlot

LEMMA AddNotificationsFacts ==
  ASSUME QueueOK, NEW events \in Seq(Events), AddNotifications(events)
  PROVE  QueueOK' /\ FreshNumbers
<1> DEFINE M == Len(events)
           L == Len(notifications)
           new == [k \in DOMAIN events |-> Number(events[k], notification_seq + k)]
           ns == notifications \o new
<1>1. /\ M \in Nat /\ L \in Nat /\ notification_seq \in Nat
      /\ DOMAIN events = 1..M /\ DOMAIN notifications = 1..L
      /\ \A k \in 1..M : events[k] \in Events
      /\ \A k \in 1..L : notifications[k] \in Notification
  BY SequenceElements DEF QueueOK
<1>2. \A k \in 1..M : /\ Number(events[k], notification_seq + k) \in Notification
                       /\ Number(events[k], notification_seq + k).seq_number = notification_seq + k
  BY <1>1 DEF Number, Notification, Events
<1>3. /\ new \in Seq(Notification) /\ Len(new) = M
      /\ \A k \in 1..M : new[k].seq_number = notification_seq + k
  BY <1>1, <1>2, IsASeq
<1> HIDE DEF new
<1>4. /\ ns \in Seq(Notification) /\ Len(ns) = L + M
      /\ \A k \in 1..(L + M) : ns[k] = IF k <= L THEN notifications[k] ELSE new[k - L]
  <2>1. notifications \in Seq(Notification)
    BY DEF QueueOK
  <2>2. /\ ns \in Seq(Notification)
        /\ Len(ns) = Len(notifications) + Len(new)
        /\ \A k \in 1..Len(notifications) + Len(new) :
             ns[k] = IF k <= Len(notifications) THEN notifications[k]
                     ELSE new[k - Len(notifications)]
    BY <1>3, <2>1, ConcatProperties
  <2> HIDE DEF ns
  <2> QED
    BY <1>3, <2>2
<1> HIDE DEF ns
<1>5. notifications' = ns /\ notification_seq' = notification_seq + M
  BY DEF AddNotifications, ns, new
<1>6. DOMAIN ns = 1..(L + M)
  BY <1>4, LenProperties
<1>7. ASSUME NEW k \in 1..(L + M), k > L
      PROVE  ns[k].seq_number = notification_seq + (k - L)
  <2>1. k - L \in 1..M /\ ~(k <= L)
    BY <1>1, <1>7
  <2>2. ns[k] = new[k - L]
    BY <1>4, <2>1
  <2> QED
    BY <1>3, <2>1, <2>2
<1>8. ASSUME NEW k \in 1..L
      PROVE  /\ ns[k] = notifications[k]
             /\ ns[k].seq_number \in Nat
             /\ ns[k].seq_number <= notification_seq
  <2>1. k \in 1..(L + M) /\ k <= L
    BY <1>1
  <2>2. ns[k] = notifications[k]
    BY <1>4, <2>1
  <2>3. notifications[k].seq_number \in Nat
    BY <1>1 DEF Notification
  <2>4. notifications[k].seq_number <= notification_seq
    BY <1>1 DEF QueueOK, NotificationsOrdered
  <2> QED
    BY <2>2, <2>3, <2>4
<1>9. \A i, j \in 1..L : i < j => ns[i].seq_number < ns[j].seq_number
  BY <1>1, <1>8 DEF QueueOK, NotificationsOrdered
<1>10. ASSUME NEW i \in 1..(L + M), NEW j \in 1..(L + M), i < j
       PROVE  ns[i].seq_number < ns[j].seq_number
  <2>1. CASE j <= L
    BY <1>1, <1>9, <1>10, <2>1
  <2>2. CASE j > L /\ i <= L
    BY <1>1, <1>7, <1>8, <1>10, <2>2
  <2>3. CASE j > L /\ i > L
    BY <1>1, <1>7, <1>10, <2>3
  <2> QED
    BY <1>1, <2>1, <2>2, <2>3
<1>11. \A i \in 1..(L + M) : ns[i].seq_number <= notification_seq + M
  BY <1>1, <1>7, <1>8
<1>12. NotificationsOrdered'
  BY <1>5, <1>6, <1>10, <1>11 DEF NotificationsOrdered
<1>13. FreshNumbers
  BY <1>1, <1>5, <1>6, <1>7, <1>8 DEF FreshNumbers
<1> QED
  BY <1>1, <1>4, <1>5, <1>12, <1>13 DEF QueueOK

LEMMA RemovedNotificationFacts ==
  ASSUME QueueOK, NEW i \in 1..Len(notifications),
         notifications' = RemoveAt(notifications, i), UNCHANGED notification_seq
  PROVE  QueueOK' /\ FreshNumbers
<1> DEFINE L == Len(notifications)
           ns == RemoveAt(notifications, i)
<1>1. L \in Nat /\ DOMAIN notifications = 1..L /\ notifications \in Seq(Notification)
  BY SequenceElements DEF QueueOK
<1>2. /\ ns \in Seq(Notification) /\ Len(ns) = L - 1
      /\ \A j \in 1..(L - 1) : ns[j] = IF j < i THEN notifications[j] ELSE notifications[j + 1]
  BY <1>1, RemoveAtProperties
<1> HIDE DEF ns
<1>3. DOMAIN ns = 1..(L - 1)
  BY <1>2, LenProperties
<1>4. \A j \in 1..(L - 1) :
        \E m \in 1..L : /\ ns[j] = notifications[m]
                        /\ m = IF j < i THEN j ELSE j + 1
  BY <1>1, <1>2
<1>5. notifications' = ns
  BY DEF ns
<1>6. NotificationsOrdered'
  <2>1. ASSUME NEW j \in 1..(L - 1), NEW k \in 1..(L - 1), j < k
        PROVE  ns[j].seq_number < ns[k].seq_number
    <3>1. PICK m \in 1..L : ns[j] = notifications[m] /\ m = IF j < i THEN j ELSE j + 1
      BY <1>4
    <3>2. PICK n \in 1..L : ns[k] = notifications[n] /\ n = IF k < i THEN k ELSE k + 1
      BY <1>4
    <3>3. m < n
      BY <1>1, <2>1, <3>1, <3>2
    <3> QED
      BY <1>1, <3>1, <3>2, <3>3 DEF QueueOK, NotificationsOrdered
  <2>2. \A j \in 1..(L - 1) : ns[j].seq_number <= notification_seq
    BY <1>1, <1>4 DEF QueueOK, NotificationsOrdered
  <2> QED
    BY <1>3, <1>5, <2>1, <2>2 DEF NotificationsOrdered
<1>7. FreshNumbers
  BY <1>1, <1>3, <1>4, <1>5 DEF FreshNumbers
<1> QED
  BY <1>2, <1>5, <1>6, <1>7 DEF QueueOK

LEMMA SameQueueFacts ==
  ASSUME QueueOK, UNCHANGED <<notifications, notification_seq>>
  PROVE  QueueOK' /\ FreshNumbers
BY DEF QueueOK, NotificationsOrdered, FreshNumbers
-----------------------------------------------------------------------------
(* Handlers *)

MemoryOK ==
  /\ profiles \in Seq(ProfileSlot)
  /\ Len(profiles) <= MaxProfiles
  /\ free_nvm \in Nat
  /\ AtMostOneEnabled
  /\ NvmAccounted

LEMMA StoreInvParts ==
  StoreInv <=> /\ MemoryOK
               /\ QueueOK
               /\ default_smdp_address \in Addresses \union {NoAddress}
               /\ result \in Answers
BY DEF StoreInv, TypeOK, MemoryOK, QueueOK

\* What every step guarantees: the invariant, and its share of the action
\* property NumbersNeverReused.
SafeStep == StoreInv' /\ FreshNumbers

LEMMA SameStoreFacts ==
  ASSUME StoreInv, UNCHANGED storeVars, result' \in Answers
  PROVE  SafeStep
<1>1. MemoryOK'
  BY StoreInvParts DEF MemoryOK, AtMostOneEnabled, NvmAccounted, storeVars
<1>2. QueueOK' /\ FreshNumbers
  BY StoreInvParts, SameQueueFacts DEF storeVars
<1>3. default_smdp_address' \in Addresses \union {NoAddress}
  BY StoreInvParts DEF storeVars
<1> QED
  BY <1>1, <1>2, <1>3, StoreInvParts DEF SafeStep, StoreInv, TypeOK, MemoryOK, QueueOK

\* A step is safe when its parts are.
LEMMA SafeParts ==
  ASSUME MemoryOK', QueueOK', FreshNumbers,
         default_smdp_address' \in Addresses \union {NoAddress},
         result' \in Answers
  PROVE  SafeStep
BY DEF SafeStep, StoreInv, TypeOK, MemoryOK, QueueOK

LEMMA EnableProfileFacts ==
  ASSUME StoreInv, NEW target, EnableProfile(target)
  PROVE  SafeStep
<1> DEFINE i == Find(profiles, target)
           current == GetEnabledProfile(profiles)
           events == SwitchEvents(profiles, i)
           qs == SwitchOn(profiles, i)
<1>1. CASE i = 0 /\ Refuse("enable", 1)
  BY <1>1, SameStoreFacts DEF Refuse, Answer, Answers, Command
<1>2. CASE i # 0 /\ IsEnabled(profiles[i]) /\ Refuse("enable", 4)
  BY <1>2, SameStoreFacts DEF Refuse, Answer, Answers, Command
<1>3. CASE /\ i # 0
           /\ profiles' = qs
           /\ AddNotifications(events)
           /\ Answer("enable", 0)
           /\ UNCHANGED <<free_nvm, default_smdp_address>>
  <2>1. MemoryOK /\ QueueOK /\ profiles \in Seq(ProfileSlot) /\ AtMostOneEnabledIn(profiles)
    BY StoreInvParts DEF MemoryOK, AtMostOneEnabled
  <2>2. i \in 1..Len(profiles)
    BY <1>3, <2>1, FindFacts
  <2>3. /\ qs \in Seq(ProfileSlot)
        /\ Len(qs) = Len(profiles)
        /\ \A j \in 1..Len(profiles) : qs[j].data = profiles[j].data
        /\ AtMostOneEnabledIn(qs)
    <3> HIDE DEF i
    <3> QED
      BY <2>1, <2>2, SwitchOnFacts
  <2>4. Used(qs) = Used(profiles)
    <3> HIDE DEF qs
    <3> QED
      BY <2>1, <2>3, UsedOfSameData
  <2>5. MemoryOK'
    <3> HIDE DEF qs
    <3> QED
      BY <1>3, <2>1, <2>3, <2>4 DEF MemoryOK, AtMostOneEnabled, NvmAccounted
  <2>6. events \in Seq(Events)
    <3>1. profiles[i] \in ProfileSlot
      BY <2>1, <2>2, SlotsOfList
    <3>2. Event("enable", profiles[i]) \in Events
      BY <3>1, EventFacts DEF Operation
    <3>3. current # 0 => Event("disable", profiles[current]) \in Events
      <4>1. current # 0 => current \in 1..Len(profiles)
        BY <2>1, GetEnabledProfileFacts, SlotsOfList DEF EnabledIn
      <4>2. current # 0 => profiles[current] \in ProfileSlot
        BY <2>1, <4>1, SlotsOfList
      <4> QED
        BY <4>2, EventFacts DEF Operation
    <3> HIDE DEF i
    <3> QED
      BY <3>2, <3>3 DEF SwitchEvents
  <2>7. QueueOK' /\ FreshNumbers
    <3> HIDE DEF events
    <3> QED
      BY <1>3, <2>1, <2>6, AddNotificationsFacts
  <2>8. default_smdp_address' \in Addresses \union {NoAddress}
    BY <1>3, StoreInvParts
  <2>9. result' \in Answers
    BY <1>3 DEF Answer, Answers, Command
  <2> QED
    BY <2>5, <2>7, <2>8, <2>9, SafeParts
<1> QED
  BY <1>1, <1>2, <1>3 DEF EnableProfile

LEMMA DisableProfileFacts ==
  ASSUME StoreInv, NEW target, DisableProfile(target)
  PROVE  SafeStep
<1> DEFINE i == Find(profiles, target)
           qs == SetState(profiles, i, "disabled")
           events == <<Event("disable", profiles[i])>>
<1>1. CASE i = 0 /\ Refuse("disable", 1)
  BY <1>1, SameStoreFacts DEF Refuse, Answer, Answers, Command
<1>2. CASE i # 0 /\ ~IsEnabled(profiles[i]) /\ Refuse("disable", 2)
  BY <1>2, SameStoreFacts DEF Refuse, Answer, Answers, Command
<1>3. CASE /\ i # 0
           /\ profiles' = qs
           /\ AddNotifications(events)
           /\ Answer("disable", 0)
           /\ UNCHANGED <<free_nvm, default_smdp_address>>
  <2>1. MemoryOK /\ QueueOK /\ profiles \in Seq(ProfileSlot) /\ AtMostOneEnabledIn(profiles)
    BY StoreInvParts DEF MemoryOK, AtMostOneEnabled
  <2>2. i \in 1..Len(profiles)
    BY <1>3, <2>1, FindFacts
  <2>3. /\ qs \in Seq(ProfileSlot)
        /\ Len(qs) = Len(profiles)
        /\ \A j \in 1..Len(profiles) : qs[j].data = profiles[j].data
        /\ EnabledIn(qs) \subseteq EnabledIn(profiles)
    <3>1. "disabled" \in ProfileState /\ "disabled" # "enabled"
      BY DEF ProfileState
    <3> HIDE DEF i
    <3> QED
      BY <2>1, <2>2, <3>1, SetStateFacts
  <2>4. Used(qs) = Used(profiles)
    <3> HIDE DEF qs
    <3> QED
      BY <2>1, <2>3, UsedOfSameData
  <2>5. MemoryOK'
    <3> HIDE DEF qs
    <3> QED
      BY <1>3, <2>1, <2>3, <2>4 DEF MemoryOK, AtMostOneEnabled, AtMostOneEnabledIn, NvmAccounted
  <2>6. events \in Seq(Events)
    <3>1. profiles[i] \in ProfileSlot
      BY <2>1, <2>2, SlotsOfList
    <3>2. Event("disable", profiles[i]) \in Events
      BY <3>1, EventFacts DEF Operation
    <3> QED
      BY <3>2
  <2>7. QueueOK' /\ FreshNumbers
    <3> HIDE DEF events
    <3> QED
      BY <1>3, <2>1, <2>6, AddNotificationsFacts
  <2>8. default_smdp_address' \in Addresses \union {NoAddress}
    BY <1>3, StoreInvParts
  <2>9. result' \in Answers
    BY <1>3 DEF Answer, Answers, Command
  <2> QED
    BY <2>5, <2>7, <2>8, <2>9, SafeParts
<1> QED
  BY <1>1, <1>2, <1>3 DEF DisableProfile
LEMMA DeleteProfileFacts ==
  ASSUME StoreInv, NEW target, DeleteProfile(target)
  PROVE  SafeStep
<1> DEFINE i == Find(profiles, target)
           qs == RemoveAt(profiles, i)
           w == Footprint(profiles[i].data)
           events == <<Event("delete", profiles[i])>>
<1>1. CASE i = 0 /\ Refuse("delete", 1)
  BY <1>1, SameStoreFacts DEF Refuse, Answer, Answers, Command
<1>2. CASE i # 0 /\ IsEnabled(profiles[i]) /\ Refuse("delete", 2)
  BY <1>2, SameStoreFacts DEF Refuse, Answer, Answers, Command
<1>3. CASE /\ i # 0
           /\ profiles' = qs
           /\ free_nvm' = free_nvm + w
           /\ AddNotifications(events)
           /\ Answer("delete", 0)
           /\ UNCHANGED default_smdp_address
  <2>1. MemoryOK /\ QueueOK /\ profiles \in Seq(ProfileSlot) /\ AtMostOneEnabledIn(profiles)
    BY StoreInvParts DEF MemoryOK, AtMostOneEnabled
  <2>2. i \in 1..Len(profiles) /\ Len(profiles) \in Nat
    BY <1>3, <2>1, FindFacts, LenProperties
  <2>3. profiles[i] \in ProfileSlot /\ w \in Nat
    BY <2>1, <2>2, SlotsOfList
  <2>4. /\ qs \in Seq(ProfileSlot)
        /\ Len(qs) = Len(profiles) - 1
        /\ \A j \in 1..(Len(profiles) - 1) :
             qs[j] = IF j < i THEN profiles[j] ELSE profiles[j + 1]
    <3> HIDE DEF i
    <3> QED
      BY <2>1, <2>2, RemoveAtProperties
  <2>5. Used(qs) + w = Used(profiles) /\ Used(qs) \in Nat /\ Used(profiles) \in Nat
    <3>1. Used(qs) + w = Used(profiles)
      <4> HIDE DEF i
      <4> QED
        BY <2>1, <2>2, UsedOfRemoveAt
    <3> HIDE DEF qs, w
    <3> QED
      BY <2>1, <2>4, <3>1, UsedNat
  <2>6. AtMostOneEnabledIn(qs)
    <3> HIDE DEF i
    <3> QED
      BY <2>1, <2>2, OneEnabledOfRemoveAt
  <2>7. MemoryOK'
    <3> HIDE DEF qs, w, i
    <3> QED
      BY <1>3, <2>1, <2>2, <2>3, <2>4, <2>5, <2>6, BoundsAssumption, NvmAssumption
         DEF MemoryOK, AtMostOneEnabled, NvmAccounted
  <2>8. events \in Seq(Events)
    <3>1. Event("delete", profiles[i]) \in Events
      BY <2>3, EventFacts DEF Operation
    <3> QED
      BY <3>1
  <2>9. QueueOK' /\ FreshNumbers
    <3> HIDE DEF events
    <3> QED
      BY <1>3, <2>1, <2>8, AddNotificationsFacts
  <2>10. default_smdp_address' \in Addresses \union {NoAddress}
    BY <1>3, StoreInvParts
  <2>11. result' \in Answers
    BY <1>3 DEF Answer, Answers, Command
  <2> QED
    BY <2>7, <2>9, <2>10, <2>11, SafeParts
<1> QED
  BY <1>1, <1>2, <1>3 DEF DeleteProfile

LEMMA EuiccMemoryResetFacts ==
  ASSUME StoreInv, NEW options \in ResetOptions, EuiccMemoryReset(options)
  PROVE  SafeStep
<1> DEFINE kept == Survivors(profiles, options)
<1>1. /\ profiles' = kept
      /\ default_smdp_address' =
           IF options.address THEN NoAddress ELSE default_smdp_address
      /\ UNCHANGED <<notifications, notification_seq>>
      /\ free_nvm' = free_nvm \/ free_nvm' = TotalNvm - Used(kept)
      /\ Answer("reset", 0) \/ Answer("reset", 1)
  BY DEF EuiccMemoryReset
<1>2. MemoryOK /\ QueueOK /\ profiles \in Seq(ProfileSlot) /\ AtMostOneEnabledIn(profiles)
  BY StoreInvParts DEF MemoryOK, AtMostOneEnabled
<1>3. /\ kept \in Seq(ProfileSlot)
      /\ Len(kept) <= Len(profiles)
      /\ Used(kept) <= Used(profiles)
      /\ AtMostOneEnabledIn(kept)
  BY <1>2, SurvivorsFacts
<1> HIDE DEF kept
<1>4. Used(kept) \in Nat /\ Used(profiles) \in Nat
  BY <1>2, <1>3, UsedNat
<1>5. Len(kept) \in Nat /\ Len(profiles) \in Nat
  BY <1>2, <1>3, LenProperties
<1>6. TotalNvm - Used(kept) \in Nat
  BY <1>2, <1>3, <1>4, NvmAssumption DEF MemoryOK, NvmAccounted
<1>7. MemoryOK'
  BY <1>1, <1>2, <1>3, <1>4, <1>5, <1>6, BoundsAssumption, NvmAssumption
     DEF MemoryOK, AtMostOneEnabled, NvmAccounted
<1>8. QueueOK' /\ FreshNumbers
  BY <1>1, <1>2, SameQueueFacts
<1>9. default_smdp_address' \in Addresses \union {NoAddress}
  BY <1>1, StoreInvParts
<1>10. result' \in Answers
  BY <1>1 DEF Answer, Answers, Command
<1> QED
  BY <1>7, <1>8, <1>9, <1>10, SafeParts

LEMMA SetNicknameFacts ==
  ASSUME StoreInv, NEW iccid, SetNickname(iccid)
  PROVE  SafeStep
BY SameStoreFacts DEF SetNickname, Refuse, Answer, Answers, Command

LEMMA SetDefaultDpAddressFacts ==
  ASSUME StoreInv, NEW address \in Addresses, SetDefaultDpAddress(address)
  PROVE  SafeStep
<1>1. MemoryOK'
  BY StoreInvParts DEF SetDefaultDpAddress, MemoryOK, AtMostOneEnabled, NvmAccounted
<1>2. QueueOK' /\ FreshNumbers
  BY StoreInvParts, SameQueueFacts DEF SetDefaultDpAddress
<1>3. default_smdp_address' \in Addresses \union {NoAddress}
  BY DEF SetDefaultDpAddress
<1>4. result' \in Answers
  BY DEF SetDefaultDpAddress, Answer, Answers, Command
<1> QED
  BY <1>1, <1>2, <1>3, <1>4, SafeParts

LEMMA RemoveNotificationFacts ==
  ASSUME StoreInv, NEW seq_number, RemoveNotification(seq_number)
  PROVE  SafeStep
<1> DEFINE i == FindNotification(notifications, seq_number)
<1>1. CASE i = 0 /\ Refuse("remove", 1)
  BY <1>1, SameStoreFacts DEF Refuse, Answer, Answers, Command
<1>2. CASE /\ i # 0
           /\ notifications' = RemoveAt(notifications, i)
           /\ Answer("remove", 0)
           /\ UNCHANGED <<profiles, free_nvm, notification_seq, default_smdp_address>>
  <2>1. QueueOK /\ notifications \in Seq(Notification)
    BY StoreInvParts DEF QueueOK
  <2>2. i \in 1..Len(notifications)
    BY <1>2, <2>1, FindNotificationFacts
  <2>3. MemoryOK'
    BY <1>2, StoreInvParts DEF MemoryOK, AtMostOneEnabled, NvmAccounted
  <2>4. QueueOK' /\ FreshNumbers
    <3> HIDE DEF i
    <3> QED
      BY <1>2, <2>1, <2>2, RemovedNotificationFacts
  <2>5. default_smdp_address' \in Addresses \union {NoAddress}
    BY <1>2, StoreInvParts
  <2>6. result' \in Answers
    BY <1>2 DEF Answer, Answers, Command
  <2> QED
    BY <2>3, <2>4, <2>5, <2>6, SafeParts
<1> QED
  BY <1>1, <1>2 DEF RemoveNotification

\* Installing, as a download does at its end, whatever the session it ends.
LEMMA InstallFacts ==
  ASSUME StoreInv, NEW iccid \in Iccids, NEW address \in Addresses \union {NoAddress},
         NEW len \in Nat, HasRoomFor(len), Install(iccid, address, len), Answer("install", 0)
  PROVE  SafeStep
<1> DEFINE p == DownloadedProfile(iccid, address, len)
           qs == Append(profiles, p)
           events == <<Event("install", p)>>
<1>1. MemoryOK /\ QueueOK /\ profiles \in Seq(ProfileSlot) /\ AtMostOneEnabledIn(profiles)
  BY StoreInvParts DEF MemoryOK, AtMostOneEnabled
<1>2. Len(profiles) \in Nat /\ DOMAIN profiles = 1..Len(profiles)
  BY <1>1, LenProperties
<1>3. p \in ProfileSlot /\ ~IsEnabled(p) /\ p.data = len
  BY <1>2 DEF DownloadedProfile, AllocateIsdpAid, ProfileSlot, ProfileState, ProfileClass, IsEnabled
<1>4. /\ profiles' = qs
      /\ free_nvm' = free_nvm - Footprint(len)
      /\ AddNotifications(events)
      /\ UNCHANGED default_smdp_address
  BY DEF Install
<1> HIDE DEF p
<1>5. /\ qs \in Seq(ProfileSlot)
      /\ Len(qs) = Len(profiles) + 1
      /\ \A j \in 1..Len(profiles) : qs[j] = profiles[j]
      /\ qs[Len(profiles) + 1] = p
  BY <1>1, <1>3, AppendProperties
<1>6. Used(qs) = Used(profiles) + Footprint(len)
  BY <1>1, <1>3, UsedOfAppend
<1>7. Footprint(len) \in Nat /\ Used(profiles) \in Nat
  BY <1>1, FootprintNat, UsedNat
<1> HIDE DEF qs
<1>8. AtMostOneEnabledIn(qs)
  <2>1. DOMAIN qs = 1..(Len(profiles) + 1)
    BY <1>5, LenProperties
  <2>2. EnabledIn(qs) \subseteq EnabledIn(profiles)
    BY <1>2, <1>3, <1>5, <2>1 DEF EnabledIn
  <2> QED
    BY <1>1, <2>2 DEF AtMostOneEnabledIn
<1>9. MemoryOK'
  BY <1>1, <1>2, <1>4, <1>5, <1>6, <1>7, <1>8, BoundsAssumption, NvmAssumption
     DEF MemoryOK, AtMostOneEnabled, NvmAccounted, HasRoomFor
<1>10. events \in Seq(Events)
  <2>1. Event("install", p) \in Events
    BY <1>3, EventFacts DEF Operation
  <2> QED
    BY <2>1
<1>11. QueueOK' /\ FreshNumbers
  <2> HIDE DEF events
  <2> QED
    BY <1>1, <1>4, <1>10, AddNotificationsFacts
<1>12. default_smdp_address' \in Addresses \union {NoAddress}
  BY <1>4, StoreInvParts
<1>13. result' \in Answers
  BY DEF Answer, Answers, Command
<1> QED
  BY <1>9, <1>11, <1>12, <1>13, SafeParts

LEMMA InstallProfileFacts ==
  ASSUME StoreInv, NEW iccid \in Iccids, NEW address \in Addresses, NEW len \in DataLengths,
         InstallProfile(iccid, address, len)
  PROVE  SafeStep
<1>1. CASE Refuse("install", 3)
  BY <1>1, SameStoreFacts DEF Refuse, Answer, Answers, Command
<1>2. CASE HasRoomFor(len) /\ Install(iccid, address, len) /\ Answer("install", 0)
  BY <1>2, InstallFacts, NvmAssumption
<1> QED
  BY <1>1, <1>2 DEF InstallProfile

-----------------------------------------------------------------------------
(* What becomes of the profiles in a step: the share of the action properties *)
(* ProtectedProfilesKept and StateChangesNotified                             *)

ProtectedStep ==
  \A i \in DOMAIN profiles :
    \/ IsEnabled(profiles[i])
    \/ result'.op = "reset" /\ profiles[i].profile_class = "provisioning"
    => \E j \in DOMAIN profiles' :
         /\ j <= i
         /\ profiles'[j].iccid = profiles[i].iccid
         /\ profiles'[j].isdp_aid = profiles[i].isdp_aid

NotifiedStep ==
  \A i \in DOMAIN profiles \intersect DOMAIN profiles' :
    (Len(profiles') >= Len(profiles) /\ profiles'[i].state # profiles[i].state)
    => \E k \in DOMAIN notifications' :
         /\ notifications'[k].seq_number > notification_seq
         /\ notifications'[k].iccid = profiles[i].iccid
         /\ notifications'[k].operation =
              IF IsEnabled(profiles'[i]) THEN "enable" ELSE "disable"

\* A profile that survives a selection comes to stand where it was or earlier,
\* a selection that leaves the list's length leaves the list, and nothing else
\* survives.
LEMMA SurvivorsInPlace ==
  ASSUME NEW ps \in Seq(ProfileSlot), NEW options
  PROVE  /\ \A i \in 1..Len(ps) :
              SurvivesReset(ps[i], options) =>
                \E j \in 1..Len(Survivors(ps, options)) :
                  j <= i /\ Survivors(ps, options)[j] = ps[i]
         /\ Len(Survivors(ps, options)) = Len(ps) =>
              \A i \in 1..Len(ps) : Survivors(ps, options)[i] = ps[i]
         /\ \A j \in 1..Len(Survivors(ps, options)) :
              \E i \in 1..Len(ps) : Survivors(ps, options)[j] = ps[i]
<1> DEFINE N == Len(ps)
<1>1. N \in Nat /\ \A n \in 1..N : ps[n] \in ProfileSlot
  BY SlotsOfList
<1>2. PICK k : SelectionSteps(ps, options, k) /\ Survivors(ps, options) = k[N]
  BY SurvivorsAreGathered
<1>3. \A n \in 0..N : k[n] \in Seq(ProfileSlot) /\ Len(k[n]) \in Nat
  BY <1>2, LenProperties DEF SelectionSteps
<1> DEFINE InPlace(n) == \A i \in 1..n :
                           SurvivesReset(ps[i], options) =>
                             \E j \in 1..Len(k[n]) : j <= i /\ k[n][j] = ps[i]
           Whole(n) == Len(k[n]) = n => \A i \in 1..n : k[n][i] = ps[i]
           Listed(n) == \A j \in 1..Len(k[n]) : \E i \in 1..n : k[n][j] = ps[i]
           T == {n \in 0..N : Len(k[n]) <= n /\ InPlace(n) /\ Whole(n) /\ Listed(n)}
<1>4. 0 \in T
  BY <1>1, <1>2 DEF SelectionSteps
<1>5. ASSUME NEW n \in 0..(N - 1), n \in T
      PROVE  n + 1 \in T
  <2>1. /\ n + 1 \in 0..N /\ n + 1 \in 1..N /\ (n + 1) - 1 = n /\ n \in 0..N
        /\ \A i \in 1..(n + 1) : i \in 1..n \/ i = n + 1
    BY <1>1
  <2>2. k[n + 1] = IF SurvivesReset(ps[n + 1], options) THEN Append(k[n], ps[n + 1]) ELSE k[n]
    BY <1>2, <2>1 DEF SelectionSteps, Gather
  <2>3. /\ k[n] \in Seq(ProfileSlot) /\ Len(k[n]) \in Nat /\ Len(k[n]) <= n
        /\ InPlace(n) /\ Whole(n) /\ Listed(n)
    BY <1>3, <1>5, <2>1
  <2>4. CASE SurvivesReset(ps[n + 1], options)
    <3>1. /\ Len(k[n + 1]) = Len(k[n]) + 1
          /\ \A j \in 1..Len(k[n]) : k[n + 1][j] = k[n][j]
          /\ k[n + 1][Len(k[n]) + 1] = ps[n + 1]
      BY <1>1, <2>1, <2>2, <2>3, <2>4, AppendProperties
    <3>2. InPlace(n + 1)
      <4> SUFFICES ASSUME NEW i \in 1..(n + 1), SurvivesReset(ps[i], options)
                   PROVE  \E j \in 1..Len(k[n + 1]) : j <= i /\ k[n + 1][j] = ps[i]
        OBVIOUS
      <4>1. CASE i \in 1..n
        <5>1. PICK j \in 1..Len(k[n]) : j <= i /\ k[n][j] = ps[i]
          BY <2>3, <4>1
        <5>2. j \in 1..Len(k[n + 1]) /\ k[n + 1][j] = ps[i]
          BY <2>3, <3>1, <5>1
        <5> QED
          BY <5>1, <5>2
      <4>2. CASE i = n + 1
        <5>1. Len(k[n]) + 1 \in 1..Len(k[n + 1]) /\ Len(k[n]) + 1 <= i
          BY <2>3, <3>1, <4>2
        <5> QED
          BY <3>1, <4>2, <5>1
      <4> QED
        BY <2>1, <4>1, <4>2
    <3>3. Whole(n + 1)
      <4> SUFFICES ASSUME Len(k[n + 1]) = n + 1, NEW i \in 1..(n + 1)
                   PROVE  k[n + 1][i] = ps[i]
        OBVIOUS
      <4>1. Len(k[n]) = n
        BY <2>1, <2>3, <3>1
      <4> QED
        BY <2>1, <2>3, <3>1, <4>1
    <3>4. Len(k[n + 1]) <= n + 1
      BY <2>1, <2>3, <3>1
    <3>5. Listed(n + 1)
      <4> SUFFICES ASSUME NEW j \in 1..Len(k[n + 1])
                   PROVE  \E i \in 1..(n + 1) : k[n + 1][j] = ps[i]
        OBVIOUS
      <4>1. n + 1 \in 1..(n + 1) /\ \A i \in 1..n : i \in 1..(n + 1)
        BY <2>1
      <4>2. j \in 1..Len(k[n]) \/ j = Len(k[n]) + 1
        BY <2>3, <3>1
      <4> QED
        BY <2>3, <3>1, <4>1, <4>2
    <3> QED
      BY <2>1, <3>2, <3>3, <3>4, <3>5
  <2>5. CASE ~SurvivesReset(ps[n + 1], options)
    <3>1. k[n + 1] = k[n]
      BY <2>2, <2>5
    <3>2. Len(k[n + 1]) <= n + 1 /\ Len(k[n + 1]) # n + 1
      BY <2>1, <2>3, <3>1
    <3>3. InPlace(n + 1)
      <4> SUFFICES ASSUME NEW i \in 1..(n + 1), SurvivesReset(ps[i], options)
                   PROVE  \E j \in 1..Len(k[n + 1]) : j <= i /\ k[n + 1][j] = ps[i]
        OBVIOUS
      <4>1. i \in 1..n
        BY <2>1, <2>5
      <4> QED
        BY <2>3, <3>1, <4>1
    <3>4. \A i \in 1..n : i \in 1..(n + 1)
      BY <2>1
    <3>5. Listed(n + 1)
      BY <2>3, <3>1, <3>4
    <3> QED
      BY <2>1, <3>2, <3>3, <3>5
  <2> QED
    BY <2>4, <2>5
<1> HIDE DEF T
<1>6. \A n \in 0..N : n \in T
  BY <1>1, <1>4, <1>5, InductionUpTo
<1>7. N \in T
  BY <1>1, <1>6
<1> QED
  BY <1>2, <1>7 DEF T

\* Every event of the list is queued under a number beyond the last one.
LEMMA QueuedFacts ==
  ASSUME QueueOK, NEW events \in Seq(Events), AddNotifications(events), NEW k \in 1..Len(events)
  PROVE  \E n \in DOMAIN notifications' :
           /\ notifications'[n].seq_number > notification_seq
           /\ notifications'[n].iccid = events[k].iccid
           /\ notifications'[n].operation = events[k].operation
<1> DEFINE M == Len(events)
           L == Len(notifications)
           new == [m \in DOMAIN events |-> Number(events[m], notification_seq + m)]
<1>1. /\ M \in Nat /\ L \in Nat /\ notification_seq \in Nat /\ DOMAIN events = 1..M
      /\ \A m \in 1..M : events[m] \in Events
      /\ notifications \in Seq(Notification)
  BY SequenceElements DEF QueueOK
<1>2. \A m \in 1..M : Number(events[m], notification_seq + m) \in Notification
  BY <1>1 DEF Number, Notification, Events
<1>3. new \in Seq(Notification) /\ Len(new) = M
  BY <1>1, <1>2, IsASeq
<1>4. new[k] = Number(events[k], notification_seq + k)
  BY <1>1
<1>5. notifications' = notifications \o new
  BY DEF AddNotifications
<1> HIDE DEF new
<1>6. /\ L + k \in DOMAIN notifications'
      /\ notifications'[L + k] = new[k]
  <2>1. /\ notifications' \in Seq(Notification) /\ Len(notifications') = L + M
        /\ \A m \in 1..(L + M) :
             notifications'[m] = IF m <= L THEN notifications[m] ELSE new[m - L]
    BY <1>1, <1>3, <1>5, ConcatProperties
  <2>2. L + k \in 1..(L + M) /\ ~(L + k <= L) /\ (L + k) - L = k
    BY <1>1
  <2>3. DOMAIN notifications' = 1..(L + M)
    BY <2>1, LenProperties
  <2> QED
    BY <2>1, <2>2, <2>3
<1>7. /\ new[k].seq_number > notification_seq
      /\ new[k].iccid = events[k].iccid
      /\ new[k].operation = events[k].operation
  BY <1>1, <1>4 DEF Number
<1> QED
  BY <1>6, <1>7

\* Setting a state changes nothing else of the list.
LEMMA SetStateIs ==
  ASSUME NEW ps \in Seq(ProfileSlot), NEW i \in 1..Len(ps), NEW state \in ProfileState
  PROVE  \A j \in 1..Len(ps) :
           /\ SetState(ps, i, state)[j].iccid = ps[j].iccid
           /\ SetState(ps, i, state)[j].isdp_aid = ps[j].isdp_aid
           /\ SetState(ps, i, state)[j].state = IF j = i THEN state ELSE ps[j].state
<1>1. Len(ps) \in Nat /\ DOMAIN ps = 1..Len(ps) /\ \A j \in 1..Len(ps) : ps[j] \in ProfileSlot
  BY SlotsOfList
<1> QED
  BY <1>1 DEF SetState, ProfileSlot

\* Switching a profile on changes that state, and that of the profile it disables.
LEMMA SwitchOnIs ==
  ASSUME NEW ps \in Seq(ProfileSlot), NEW i \in 1..Len(ps), AtMostOneEnabledIn(ps)
  PROVE  \A j \in 1..Len(ps) :
           /\ SwitchOn(ps, i)[j].iccid = ps[j].iccid
           /\ SwitchOn(ps, i)[j].isdp_aid = ps[j].isdp_aid
           /\ SwitchOn(ps, i)[j].state =
                IF j = i THEN "enabled"
                ELSE IF j = GetEnabledProfile(ps) THEN "disabled" ELSE ps[j].state
<1> DEFINE current == GetEnabledProfile(ps)
<1>1. "enabled" \in ProfileState /\ "disabled" \in ProfileState
  BY DEF ProfileState
<1>2. CASE current = 0
  <2>1. SwitchOn(ps, i) = SetState(ps, i, "enabled")
    BY <1>2 DEF SwitchOn
  <2>2. \A j \in 1..Len(ps) : j # current
    BY <1>2, SlotsOfList
  <2> HIDE DEF current
  <2> QED
    BY <1>1, <2>1, <2>2, SetStateIs DEF current
<1>3. CASE current # 0
  <2> DEFINE qs == SetState(ps, current, "disabled")
  <2>1. current \in 1..Len(ps)
    BY <1>3, GetEnabledProfileFacts, SlotsOfList DEF EnabledIn
  <2>2. SwitchOn(ps, i) = SetState(qs, i, "enabled")
    BY <1>3 DEF SwitchOn
  <2> HIDE DEF current
  <2>3. qs \in Seq(ProfileSlot) /\ Len(qs) = Len(ps)
    BY <1>1, <2>1, SetStateFacts
  <2>4. \A j \in 1..Len(ps) :
          /\ qs[j].iccid = ps[j].iccid
          /\ qs[j].isdp_aid = ps[j].isdp_aid
          /\ qs[j].state = IF j = current THEN "disabled" ELSE ps[j].state
    BY <1>1, <2>1, SetStateIs
  <2> HIDE DEF qs
  <2>5. \A j \in 1..Len(ps) :
          /\ SetState(qs, i, "enabled")[j].iccid = qs[j].iccid
          /\ SetState(qs, i, "enabled")[j].isdp_aid = qs[j].isdp_aid
          /\ SetState(qs, i, "enabled")[j].state = IF j = i THEN "enabled" ELSE qs[j].state
    BY <1>1, <2>3, SetStateIs
  <2> QED
    BY <2>2, <2>4, <2>5 DEF current
<1> QED
  BY <1>2, <1>3

ProfileStep == ProtectedStep /\ NotifiedStep

LEMMA SameProfilesFacts ==
  ASSUME profiles \in Seq(ProfileSlot), UNCHANGED profiles
  PROVE  ProfileStep
<1>1. \A i \in DOMAIN profiles : i <= i
  BY SlotsOfList
<1> QED
  BY <1>1 DEF ProfileStep, ProtectedStep, NotifiedStep

\* Profiles that keep their places keep their names there; a change of state is
\* reported by one of the events that are queued.
LEMMA SamePlacesFacts ==
  ASSUME profiles \in Seq(ProfileSlot), QueueOK,
         profiles' \in Seq(ProfileSlot), Len(profiles') >= Len(profiles),
         \A j \in 1..Len(profiles) : /\ profiles'[j].iccid = profiles[j].iccid
                                     /\ profiles'[j].isdp_aid = profiles[j].isdp_aid,
         NEW events \in Seq(Events), AddNotifications(events),
         \A j \in 1..Len(profiles) :
           profiles'[j].state # profiles[j].state =>
             \E k \in 1..Len(events) :
               /\ events[k].iccid = profiles[j].iccid
               /\ events[k].operation = IF IsEnabled(profiles'[j]) THEN "enable" ELSE "disable"
  PROVE  ProfileStep
<1>1. /\ Len(profiles) \in Nat /\ DOMAIN profiles = 1..Len(profiles)
      /\ Len(profiles') \in Nat /\ DOMAIN profiles' = 1..Len(profiles')
  BY SlotsOfList
<1>2. \A j \in DOMAIN profiles : j \in DOMAIN profiles' /\ j <= j
  BY <1>1
<1>3. ProtectedStep
  BY <1>1, <1>2 DEF ProtectedStep
<1>4. NotifiedStep
  <2> SUFFICES ASSUME NEW j \in 1..Len(profiles), profiles'[j].state # profiles[j].state
               PROVE  \E n \in DOMAIN notifications' :
                        /\ notifications'[n].seq_number > notification_seq
                        /\ notifications'[n].iccid = profiles[j].iccid
                        /\ notifications'[n].operation =
                             IF IsEnabled(profiles'[j]) THEN "enable" ELSE "disable"
    BY <1>1 DEF NotifiedStep
  <2>1. PICK k \in 1..Len(events) :
          /\ events[k].iccid = profiles[j].iccid
          /\ events[k].operation = IF IsEnabled(profiles'[j]) THEN "enable" ELSE "disable"
    OBVIOUS
  <2>2. PICK n \in DOMAIN notifications' :
          /\ notifications'[n].seq_number > notification_seq
          /\ notifications'[n].iccid = events[k].iccid
          /\ notifications'[n].operation = events[k].operation
    BY QueuedFacts
  <2> QED
    BY <2>1, <2>2
<1> QED
  BY <1>3, <1>4 DEF ProfileStep

\* Two profiles change state at most, and both changes are reported.
LEMMA EnableProfileKeeps ==
  ASSUME StoreInv, NEW target, EnableProfile(target)
  PROVE  ProfileStep
<1> DEFINE i == Find(profiles, target)
           current == GetEnabledProfile(profiles)
           events == SwitchEvents(profiles, i)
<1>1. MemoryOK /\ QueueOK /\ profiles \in Seq(ProfileSlot) /\ AtMostOneEnabledIn(profiles)
  BY StoreInvParts DEF MemoryOK, AtMostOneEnabled
<1>2. CASE UNCHANGED profiles
  BY <1>1, <1>2, SameProfilesFacts
<1>3. CASE /\ i # 0
           /\ ~IsEnabled(profiles[i])
           /\ profiles' = SwitchOn(profiles, i)
           /\ AddNotifications(events)
  <2>1. i \in 1..Len(profiles) /\ \A j \in 1..Len(profiles) : profiles[j] \in ProfileSlot
    BY <1>1, <1>3, FindFacts, SlotsOfList
  <2>2. current # 0 => current \in 1..Len(profiles)
    BY <1>1, GetEnabledProfileFacts, SlotsOfList DEF EnabledIn
  <2> HIDE DEF i, current
  <2>3. profiles' \in Seq(ProfileSlot) /\ Len(profiles') = Len(profiles)
    BY <1>1, <1>3, <2>1, SwitchOnFacts
  <2>4. \A j \in 1..Len(profiles) :
          /\ profiles'[j].iccid = profiles[j].iccid
          /\ profiles'[j].isdp_aid = profiles[j].isdp_aid
          /\ profiles'[j].state = IF j = i THEN "enabled"
                                  ELSE IF j = current THEN "disabled" ELSE profiles[j].state
    BY <1>1, <1>3, <2>1, SwitchOnIs DEF current
  <2>5. /\ Event("enable", profiles[i]) \in Events
        /\ current # 0 => Event("disable", profiles[current]) \in Events
    BY <2>1, <2>2, EventFacts DEF Operation
  <2>6. events = IF current = 0 THEN <<Event("enable", profiles[i])>>
                 ELSE <<Event("disable", profiles[current]), Event("enable", profiles[i])>>
    BY DEF SwitchEvents, current
  <2> HIDE DEF events
  <2>7. events \in Seq(Events)
    BY <2>5, <2>6
  <2>8. /\ \E k \in 1..Len(events) : events[k] = Event("enable", profiles[i])
        /\ current # 0 => \E k \in 1..Len(events) : events[k] = Event("disable", profiles[current])
    <3>1. CASE current = 0
      <4>1. events = <<Event("enable", profiles[i])>>
        BY <2>6, <3>1
      <4>2. 1 \in 1..Len(events) /\ events[1] = Event("enable", profiles[i])
        BY <4>1
      <4> QED
        BY <3>1, <4>2
    <3>2. CASE current # 0
      <4>1. events = <<Event("disable", profiles[current]), Event("enable", profiles[i])>>
        BY <2>6, <3>2
      <4>2. /\ 1 \in 1..Len(events) /\ events[1] = Event("disable", profiles[current])
            /\ 2 \in 1..Len(events) /\ events[2] = Event("enable", profiles[i])
        BY <4>1
      <4> QED
        BY <4>2
    <3> QED
      BY <3>1, <3>2
  <2>9. ASSUME NEW j \in 1..Len(profiles), profiles'[j].state # profiles[j].state
        PROVE  \E k \in 1..Len(events) :
                 /\ events[k].iccid = profiles[j].iccid
                 /\ events[k].operation = IF IsEnabled(profiles'[j]) THEN "enable" ELSE "disable"
    <3>1. CASE j = i
      BY <2>4, <2>8, <3>1 DEF Event, IsEnabled
    <3>2. CASE j = current /\ j # i
      <4>1. current # 0 /\ ~IsEnabled(profiles'[j])
        BY <2>1, <2>4, <3>2, SlotsOfList, <1>1 DEF IsEnabled
      <4> QED
        BY <2>8, <3>2, <4>1 DEF Event
    <3> QED
      BY <2>4, <2>9, <3>1, <3>2
  <2>10. Len(profiles) \in Nat
    BY <1>1, SlotsOfList
  <2>11. /\ Len(profiles') >= Len(profiles)
         /\ AddNotifications(events)
         /\ \A j \in 1..Len(profiles) : /\ profiles'[j].iccid = profiles[j].iccid
                                        /\ profiles'[j].isdp_aid = profiles[j].isdp_aid
    BY <1>3, <2>3, <2>4, <2>10
  <2> QED
    BY <1>1, <2>3, <2>7, <2>9, <2>11, SamePlacesFacts
<1> QED
  BY <1>2, <1>3 DEF EnableProfile, Refuse, storeVars

LEMMA DisableProfileKeeps ==
  ASSUME StoreInv, NEW target, DisableProfile(target)
  PROVE  ProfileStep
<1> DEFINE i == Find(profiles, target)
           events == <<Event("disable", profiles[i])>>
<1>1. MemoryOK /\ QueueOK /\ profiles \in Seq(ProfileSlot)
  BY StoreInvParts DEF MemoryOK
<1>2. CASE UNCHANGED profiles
  BY <1>1, <1>2, SameProfilesFacts
<1>3. CASE /\ i # 0
           /\ profiles' = SetState(profiles, i, "disabled")
           /\ AddNotifications(events)
  <2>1. i \in 1..Len(profiles) /\ \A j \in 1..Len(profiles) : profiles[j] \in ProfileSlot
    BY <1>1, <1>3, FindFacts, SlotsOfList
  <2> HIDE DEF i
  <2>2. "disabled" \in ProfileState
    BY DEF ProfileState
  <2>3. profiles' \in Seq(ProfileSlot) /\ Len(profiles') = Len(profiles)
    BY <1>1, <1>3, <2>1, <2>2, SetStateFacts
  <2>4. \A j \in 1..Len(profiles) :
          /\ profiles'[j].iccid = profiles[j].iccid
          /\ profiles'[j].isdp_aid = profiles[j].isdp_aid
          /\ profiles'[j].state = IF j = i THEN "disabled" ELSE profiles[j].state
    BY <1>1, <1>3, <2>1, <2>2, SetStateIs
  <2>5. events \in Seq(Events) /\ 1 \in 1..Len(events)
    <3>1. Event("disable", profiles[i]) \in Events
      BY <2>1, EventFacts DEF Operation
    <3> QED
      BY <3>1
  <2>6. events[1].iccid = profiles[i].iccid /\ events[1].operation = "disable"
    BY DEF Event
  <2> HIDE DEF events
  <2>7. \A j \in 1..Len(profiles) :
          profiles'[j].state # profiles[j].state =>
            \E k \in 1..Len(events) :
              /\ events[k].iccid = profiles[j].iccid
              /\ events[k].operation = IF IsEnabled(profiles'[j]) THEN "enable" ELSE "disable"
    BY <2>4, <2>5, <2>6 DEF IsEnabled
  <2>8. Len(profiles) \in Nat
    BY <1>1, SlotsOfList
  <2> QED
    BY <1>1, <1>3, <2>3, <2>4, <2>5, <2>7, <2>8, SamePlacesFacts
<1> QED
  BY <1>2, <1>3 DEF DisableProfile, Refuse, storeVars

\* The profiles behind the one that is deleted move up; none of them is enabled
\* without the deleted one having been another.
LEMMA DeleteProfileKeeps ==
  ASSUME StoreInv, NEW target, DeleteProfile(target)
  PROVE  ProfileStep
<1> DEFINE i == Find(profiles, target)
<1>1. MemoryOK /\ profiles \in Seq(ProfileSlot)
  BY StoreInvParts DEF MemoryOK
<1>2. CASE UNCHANGED profiles
  BY <1>1, <1>2, SameProfilesFacts
<1>3. CASE /\ i # 0
           /\ ~IsEnabled(profiles[i])
           /\ profiles' = RemoveAt(profiles, i)
           /\ Answer("delete", 0)
  <2>1. i \in 1..Len(profiles) /\ Len(profiles) \in Nat /\ DOMAIN profiles = 1..Len(profiles)
    BY <1>1, <1>3, FindFacts, SlotsOfList
  <2> HIDE DEF i
  <2>2. /\ profiles' \in Seq(ProfileSlot)
        /\ Len(profiles') = Len(profiles) - 1
        /\ \A j \in 1..(Len(profiles) - 1) :
             profiles'[j] = IF j < i THEN profiles[j] ELSE profiles[j + 1]
    BY <1>1, <1>3, <2>1, RemoveAtProperties
  <2>3. DOMAIN profiles' = 1..(Len(profiles) - 1)
    BY <2>2, LenProperties
  <2>4. ASSUME NEW m \in DOMAIN profiles, m # i
        PROVE  \E j \in DOMAIN profiles' : j <= m /\ profiles'[j] = profiles[m]
    <3>1. CASE m < i
      <4>1. m \in 1..(Len(profiles) - 1) /\ profiles'[m] = profiles[m] /\ m <= m
        BY <2>1, <2>2, <2>4, <3>1
      <4> QED
        BY <2>3, <4>1
    <3>2. CASE m > i
      <4>1. /\ m - 1 \in 1..(Len(profiles) - 1) /\ ~(m - 1 < i)
            /\ (m - 1) + 1 = m /\ m - 1 <= m
        BY <2>1, <2>4, <3>2
      <4>2. profiles'[m - 1] = profiles[m]
        BY <2>2, <4>1
      <4> QED
        BY <2>3, <4>1, <4>2
    <3> QED
      BY <2>1, <2>4, <3>1, <3>2
  <2>5. result'.op # "reset"
    BY <1>3 DEF Answer
  <2>6. ProtectedStep
    BY <1>3, <2>4, <2>5 DEF ProtectedStep
  <2>7. NotifiedStep
    BY <2>1, <2>2 DEF NotifiedStep
  <2> QED
    BY <2>6, <2>7 DEF ProfileStep
<1> QED
  BY <1>2, <1>3 DEF DeleteProfile, Refuse, storeVars

\* Enabled and provisioning profiles are among the survivors of a reset.
LEMMA EuiccMemoryResetKeeps ==
  ASSUME StoreInv, NEW options, EuiccMemoryReset(options)
  PROVE  ProfileStep
<1> DEFINE kept == Survivors(profiles, options)
<1>1. MemoryOK /\ profiles \in Seq(ProfileSlot)
  BY StoreInvParts DEF MemoryOK
<1>2. CASE UNCHANGED profiles
  BY <1>1, <1>2, SameProfilesFacts
<1>3. CASE profiles' = kept
  <2>1. /\ kept \in Seq(ProfileSlot) /\ Len(kept) <= Len(profiles)
        /\ \A i \in 1..Len(profiles) :
             SurvivesReset(profiles[i], options) =>
               \E j \in 1..Len(kept) : j <= i /\ kept[j] = profiles[i]
        /\ Len(kept) = Len(profiles) => \A i \in 1..Len(profiles) : kept[i] = profiles[i]
    BY <1>1, SurvivorsFacts, SurvivorsInPlace
  <2> HIDE DEF kept
  <2>2. /\ Len(profiles) \in Nat /\ DOMAIN profiles = 1..Len(profiles)
        /\ Len(kept) \in Nat /\ DOMAIN kept = 1..Len(kept)
    BY <1>1, <2>1, SlotsOfList
  <2>3. ProtectedStep
    BY <1>3, <2>1, <2>2 DEF ProtectedStep, SurvivesReset
  <2>4. ASSUME Len(profiles') >= Len(profiles), NEW i \in 1..Len(profiles)
        PROVE  profiles'[i] = profiles[i]
    <3>1. Len(kept) = Len(profiles)
      <4>1. Len(kept) >= Len(profiles)
        BY <1>3, <2>4
      <4>2. Len(kept) <= Len(profiles)
        BY <2>1
      <4>3. \A m, n \in Nat : m >= n /\ m <= n => m = n
        OBVIOUS
      <4>4. Len(kept) \in Nat /\ Len(profiles) \in Nat
        BY <2>2
      <4> QED
        BY <4>1, <4>2, <4>3, <4>4
    <3>2. kept[i] = profiles[i]
      BY <2>1, <3>1
    <3> QED
      BY <1>3, <3>2
  <2>5. NotifiedStep
    BY <2>2, <2>4 DEF NotifiedStep
  <2> QED
    BY <2>3, <2>5 DEF ProfileStep
<1> QED
  BY <1>2, <1>3 DEF EuiccMemoryReset, Refuse, storeVars

LEMMA InstallProfileKeeps ==
  ASSUME StoreInv, NEW iccid \in Iccids, NEW address \in Addresses, NEW len \in DataLengths,
         InstallProfile(iccid, address, len)
  PROVE  ProfileStep
<1> DEFINE p == DownloadedProfile(iccid, address, len)
<1>1. StoreInv' /\ profiles' \in Seq(ProfileSlot)
  BY InstallProfileFacts DEF SafeStep, StoreInv, TypeOK
<1>2. MemoryOK /\ profiles \in Seq(ProfileSlot)
  BY StoreInvParts DEF MemoryOK
<1>3. CASE UNCHANGED profiles
  BY <1>2, <1>3, SameProfilesFacts
<1>4. CASE profiles' = Append(profiles, p)
  <2> HIDE DEF p
  <2>1. /\ Len(profiles) \in Nat /\ DOMAIN profiles = 1..Len(profiles)
        /\ DOMAIN profiles' = 1..(Len(profiles) + 1)
        /\ \A j \in 1..Len(profiles) : profiles'[j] = profiles[j]
    BY <1>2, <1>4
  <2>2. \A j \in DOMAIN profiles : j \in DOMAIN profiles' /\ j <= j /\ profiles'[j] = profiles[j]
    BY <2>1
  <2> QED
    BY <2>2 DEF ProfileStep, ProtectedStep, NotifiedStep
<1> QED
  BY <1>3, <1>4 DEF InstallProfile, Install, Refuse, storeVars

LEMMA NextKeeps ==
  ASSUME StoreInv, Next
  PROVE  ProfileStep
<1>1. profiles \in Seq(ProfileSlot)
  BY DEF StoreInv, TypeOK
<1>2. ASSUME \/ \E iccid \in Iccids : SetNickname(iccid)
             \/ \E address \in Addresses : SetDefaultDpAddress(address)
             \/ \E seq_number \in 1..MaxNotificationSeq : RemoveNotification(seq_number)
      PROVE  ProfileStep
  BY <1>1, <1>2, SameProfilesFacts
     DEF SetNickname, SetDefaultDpAddress, RemoveNotification, Refuse, storeVars
<1> QED
  BY <1>2, EnableProfileKeeps, DisableProfileKeeps, DeleteProfileKeeps, EuiccMemoryResetKeeps,
     InstallProfileKeeps
     DEF Next, LocalManagement, Download

-----------------------------------------------------------------------------
(* QueueShowsEnabled *)

\* The queue after some events: those it had, then the events with their numbers.
LEMMA QueueExtended ==
  ASSUME QueueOK, NEW events \in Seq(Events), AddNotifications(events)
  PROVE  /\ DOMAIN notifications = 1..Len(notifications)
         /\ DOMAIN notifications' = 1..(Len(notifications) + Len(events))
         /\ \A k \in 1..Len(notifications) : notifications'[k] = notifications[k]
         /\ \A k \in 1..Len(events) :
              notifications'[Len(notifications) + k] = Number(events[k], notification_seq + k)
         /\ notification_seq' = notification_seq + Len(events)
<1> DEFINE M == Len(events)
           L == Len(notifications)
           new == [m \in DOMAIN events |-> Number(events[m], notification_seq + m)]
<1>1. /\ M \in Nat /\ L \in Nat /\ notification_seq \in Nat /\ DOMAIN events = 1..M
      /\ \A m \in 1..M : events[m] \in Events
      /\ notifications \in Seq(Notification) /\ DOMAIN notifications = 1..L
  BY SequenceElements DEF QueueOK
<1>2. \A m \in 1..M : Number(events[m], notification_seq + m) \in Notification
  BY <1>1 DEF Number, Notification, Events
<1>3. new \in Seq(Notification) /\ Len(new) = M
  BY <1>1, <1>2, IsASeq
<1>4. \A m \in 1..M : new[m] = Number(events[m], notification_seq + m)
  BY <1>1
<1>5. notifications' = notifications \o new /\ notification_seq' = notification_seq + M
  BY DEF AddNotifications
<1> HIDE DEF new
<1>6. /\ notifications' \in Seq(Notification) /\ Len(notifications') = L + M
      /\ \A m \in 1..(L + M) :
           notifications'[m] = IF m <= L THEN notifications[m] ELSE new[m - L]
  <2>1. LET ns == notifications \o new
        IN /\ ns \in Seq(Notification)
           /\ Len(ns) = Len(notifications) + Len(new)
           /\ \A m \in 1..Len(notifications) + Len(new) :
                ns[m] = IF m <= Len(notifications) THEN notifications[m]
                        ELSE new[m - Len(notifications)]
    BY <1>1, <1>3, ConcatProperties
  <2> QED
    BY <1>3, <1>5, <2>1
<1>7. DOMAIN notifications' = 1..(L + M)
  BY <1>6, LenProperties
<1>8. ASSUME NEW k \in 1..M
      PROVE  notifications'[L + k] = new[k]
  <2>1. L + k \in 1..(L + M) /\ ~(L + k <= L) /\ (L + k) - L = k
    BY <1>1
  <2> QED
    BY <1>6, <2>1
<1>9. \A k \in 1..L : k \in 1..(L + M) /\ k <= L
  BY <1>1
<1> QED
  BY <1>1, <1>4, <1>5, <1>6, <1>7, <1>8, <1>9

\* What QueueShowsEnabled says of the k-th notification.
IsLastSwitch(k) ==
  /\ TellsOfSwitch(notifications[k])
  /\ \A j \in DOMAIN notifications : j > k => ~TellsOfSwitch(notifications[j])
  /\ WholeFrom(k)

Shown(n) == IF n.operation = "enable" THEN {n.iccid} ELSE {}

LEMMA QueueShowsIs ==
  QueueShowsEnabled <=>
    \A k \in DOMAIN notifications :
      IsLastSwitch(k) => EnabledIccids(profiles) = Shown(notifications[k])
BY DEF QueueShowsEnabled, IsLastSwitch, Shown

\* As long as neither the queue nor the enabled profile changes.
LEMMA SameQueueShows ==
  ASSUME QueueShowsEnabled, UNCHANGED <<notifications, notification_seq>>,
         EnabledIccids(profiles') = EnabledIccids(profiles)
  PROVE  QueueShowsEnabled'
BY DEF QueueShowsEnabled, WholeFrom

\* An event that is no switch leaves what the queue tells.
LEMMA QuietEventShows ==
  ASSUME QueueOK, QueueShowsEnabled, NEW event \in Events, ~TellsOfSwitch(event),
         AddNotifications(<<event>>), EnabledIccids(profiles') = EnabledIccids(profiles)
  PROVE  QueueShowsEnabled'
<1> DEFINE L == Len(notifications)
<1>1. <<event>> \in Seq(Events) /\ Len(<<event>>) = 1 /\ <<event>>[1] = event /\ 1 \in 1..1
  OBVIOUS
<1>2. L \in Nat /\ notification_seq \in Nat /\ \A k \in 1..L : notifications[k] \in Notification
  BY SequenceElements DEF QueueOK
<1>3. /\ DOMAIN notifications = 1..L
      /\ DOMAIN notifications' = 1..(L + 1)
      /\ \A k \in 1..L : notifications'[k] = notifications[k]
      /\ notifications'[L + 1] = Number(event, notification_seq + 1)
      /\ notification_seq' = notification_seq + 1
  BY <1>1, QueueExtended
<1>4. /\ ~TellsOfSwitch(notifications'[L + 1])
      /\ notifications'[L + 1].seq_number = notification_seq + 1
  BY <1>3 DEF Number, TellsOfSwitch
<1>5. ASSUME NEW k \in 1..(L + 1), IsLastSwitch(k)'
      PROVE  k \in 1..L /\ IsLastSwitch(k)
  <2>1. k \in 1..L
    <3>1. k # L + 1
      BY <1>4, <1>5 DEF IsLastSwitch
    <3> QED
      BY <1>2, <3>1
  <2>2. notifications'[k] = notifications[k] /\ notifications[k].seq_number \in Nat
    BY <1>2, <1>3, <2>1 DEF Notification
  <2>3. ASSUME NEW number \in notifications[k].seq_number..notification_seq
        PROVE  \E j \in 1..L : notifications[j].seq_number = number
    <3>1. /\ number \in notifications[k].seq_number..(notification_seq + 1)
          /\ number # notification_seq + 1
      BY <1>2, <2>2, <2>3
    <3>2. PICK j \in 1..(L + 1) : notifications'[j].seq_number = number
      BY <1>3, <1>5, <2>2, <3>1 DEF IsLastSwitch, WholeFrom
    <3>3. j \in 1..L
      BY <1>2, <1>4, <3>1, <3>2
    <3> QED
      BY <1>3, <3>2, <3>3
  <2>4. \A j \in 1..L : j > k => ~TellsOfSwitch(notifications[j])
    <3>1. \A j \in 1..L : j \in 1..(L + 1)
      BY <1>2
    <3> QED
      BY <1>3, <1>5, <3>1 DEF IsLastSwitch
  <2>5. TellsOfSwitch(notifications[k])
    BY <1>5, <2>2 DEF IsLastSwitch
  <2> QED
    BY <1>3, <2>1, <2>3, <2>4, <2>5 DEF IsLastSwitch, WholeFrom
<1>6. \A k \in 1..(L + 1) :
        IsLastSwitch(k)' => EnabledIccids(profiles') = Shown(notifications'[k])
  BY <1>3, <1>5, QueueShowsIs
<1> QED
  BY <1>3, <1>6 DEF QueueShowsEnabled, IsLastSwitch, Shown

\* Of events that end with a switch the last one tells.
LEMMA SwitchShows ==
  ASSUME QueueOK, NEW events \in Seq(Events), AddNotifications(events),
         Len(events) >= 1, TellsOfSwitch(events[Len(events)]),
         EnabledIccids(profiles') = Shown(events[Len(events)])
  PROVE  QueueShowsEnabled'
<1> DEFINE L == Len(notifications)
           M == Len(events)
<1>1. L \in Nat /\ M \in Nat /\ M \in 1..M
  BY SequenceElements DEF QueueOK
<1>2. /\ DOMAIN notifications' = 1..(L + M)
      /\ notifications'[L + M] = Number(events[M], notification_seq + M)
  BY <1>1, QueueExtended
<1>3. /\ TellsOfSwitch(notifications'[L + M])
      /\ Shown(notifications'[L + M]) = Shown(events[M])
  BY <1>2 DEF Number, TellsOfSwitch, Shown
<1>4. ASSUME NEW k \in 1..(L + M), IsLastSwitch(k)'
      PROVE  k = L + M
  <2>1. L + M \in 1..(L + M) /\ (k # L + M => L + M > k)
    BY <1>1
  <2> QED
    BY <1>2, <1>3, <1>4, <2>1 DEF IsLastSwitch
<1>5. \A k \in 1..(L + M) :
        IsLastSwitch(k)' => EnabledIccids(profiles') = Shown(notifications'[k])
  BY <1>3, <1>4
<1> QED
  BY <1>2, <1>5 DEF QueueShowsEnabled, IsLastSwitch, Shown

\* A notification that is removed leaves those before it not whole, and those
\* behind it as they were.
LEMMA RemovedShows ==
  ASSUME QueueOK, QueueShowsEnabled, NEW i \in 1..Len(notifications),
         notifications' = RemoveAt(notifications, i),
         UNCHANGED <<notification_seq, profiles>>
  PROVE  QueueShowsEnabled'
<1> DEFINE L == Len(notifications)
           old(k) == IF k < i THEN k ELSE k + 1
<1>1. /\ L \in Nat /\ DOMAIN notifications = 1..L /\ notification_seq \in Nat
      /\ notifications \in Seq(Notification)
      /\ \A k \in 1..L : notifications[k].seq_number \in Nat
  <2>1. /\ L \in Nat /\ DOMAIN notifications = 1..L /\ notification_seq \in Nat
        /\ notifications \in Seq(Notification)
        /\ \A k \in 1..L : notifications[k] \in Notification
    BY SequenceElements DEF QueueOK
  <2> QED
    BY <2>1 DEF Notification
<1>2. /\ notifications' \in Seq(Notification) /\ Len(notifications') = L - 1
      /\ \A j \in 1..(L - 1) :
           notifications'[j] = IF j < i THEN notifications[j] ELSE notifications[j + 1]
  BY <1>1, RemoveAtProperties
<1>3. DOMAIN notifications' = 1..(L - 1)
  BY <1>2, LenProperties
<1>4. \A j \in 1..(L - 1) :
        old(j) \in 1..L /\ old(j) # i /\ notifications'[j] = notifications[old(j)]
  BY <1>1, <1>2
<1>5. ASSUME NEW k \in 1..(L - 1), IsLastSwitch(k)'
      PROVE  IsLastSwitch(old(k))
  <2>1. /\ TellsOfSwitch(notifications[old(k)])
        /\ \A number \in notifications[old(k)].seq_number..notification_seq :
             \E j \in 1..(L - 1) : notifications'[j].seq_number = number
        /\ \A j \in 1..(L - 1) : j > k => ~TellsOfSwitch(notifications'[j])
    BY <1>3, <1>4, <1>5 DEF IsLastSwitch, WholeFrom
  <2>2. WholeFrom(old(k))
    <3> SUFFICES ASSUME NEW number \in notifications[old(k)].seq_number..notification_seq
                 PROVE  \E m \in 1..L : notifications[m].seq_number = number
      BY <1>1 DEF WholeFrom
    <3>1. PICK j \in 1..(L - 1) : notifications'[j].seq_number = number
      BY <2>1
    <3>2. old(j) \in 1..L /\ notifications[old(j)].seq_number = number
      BY <1>4, <3>1
    <3> HIDE DEF old
    <3> QED
      BY <3>2
  <2>3. ~(i > old(k))
    <3> SUFFICES ASSUME i > old(k)
                 PROVE  FALSE
      OBVIOUS
    <3>1. notifications[i].seq_number \in notifications[old(k)].seq_number..notification_seq
      <4>1. /\ notifications[old(k)].seq_number < notifications[i].seq_number
            /\ notifications[i].seq_number <= notification_seq
        BY <1>1, <1>4 DEF QueueOK, NotificationsOrdered
      <4> QED
        BY <1>1, <1>4, <4>1
    <3>2. PICK j \in 1..(L - 1) : notifications'[j].seq_number = notifications[i].seq_number
      BY <2>1, <3>1
    <3>3. PICK m \in 1..L :
            m # i /\ notifications[m].seq_number = notifications[i].seq_number
      BY <1>4, <3>2
    <3> HIDE DEF old
    <3>4. /\ m \in DOMAIN notifications /\ i \in DOMAIN notifications
          /\ notifications[i].seq_number \in Nat
      BY <1>1
    <3>5. /\ m < i => notifications[m].seq_number < notifications[i].seq_number
          /\ i < m => notifications[i].seq_number < notifications[m].seq_number
      BY <3>4 DEF QueueOK, NotificationsOrdered
    <3>6. ~(m < i) /\ ~(i < m)
      BY <3>3, <3>4, <3>5
    <3> QED
      BY <1>1, <3>3, <3>6
  <2>4. ASSUME NEW m \in 1..L, m > old(k)
        PROVE  ~TellsOfSwitch(notifications[m])
    <3>1. /\ m > i /\ m - 1 \in 1..(L - 1) /\ m - 1 > k
          /\ ~(m - 1 < i) /\ (m - 1) + 1 = m
      BY <1>1, <1>4, <2>3, <2>4
    <3>2. notifications'[m - 1] = notifications[m]
      BY <1>2, <3>1
    <3> QED
      BY <2>1, <3>1, <3>2
  <2> HIDE DEF old
  <2> QED
    BY <1>1, <2>1, <2>2, <2>4 DEF IsLastSwitch
<1>6. \A k \in 1..(L - 1) :
        IsLastSwitch(k)' => EnabledIccids(profiles') = Shown(notifications'[k])
  BY <1>1, <1>4, <1>5, QueueShowsIs
<1> QED
  BY <1>3, <1>6 DEF QueueShowsEnabled, IsLastSwitch, Shown

\* Which profile is enabled only depends on names and states.
LEMMA SameEnabledIccids ==
  ASSUME NEW ps \in Seq(ProfileSlot), NEW qs \in Seq(ProfileSlot),
         \A i \in EnabledIn(ps) : \E j \in 1..Len(qs) : qs[j] = ps[i],
         \A j \in EnabledIn(qs) : \E i \in 1..Len(ps) : ps[i] = qs[j]
  PROVE  EnabledIccids(qs) = EnabledIccids(ps)
<1>1. DOMAIN ps = 1..Len(ps) /\ DOMAIN qs = 1..Len(qs)
  BY SlotsOfList
<1>2. ASSUME NEW i \in EnabledIn(ps)
      PROVE  ps[i].iccid \in EnabledIccids(qs)
  <2>1. PICK j \in 1..Len(qs) : qs[j] = ps[i]
    OBVIOUS
  <2>2. j \in EnabledIn(qs)
    BY <1>1, <2>1 DEF EnabledIn
  <2> QED
    BY <2>1, <2>2 DEF EnabledIccids
<1>3. ASSUME NEW j \in EnabledIn(qs)
      PROVE  qs[j].iccid \in EnabledIccids(ps)
  <2>1. PICK i \in 1..Len(ps) : ps[i] = qs[j]
    OBVIOUS
  <2>2. i \in EnabledIn(ps)
    BY <1>1, <2>1 DEF EnabledIn
  <2> QED
    BY <2>1, <2>2 DEF EnabledIccids
<1> QED
  BY <1>2, <1>3 DEF EnabledIccids

LEMMA EnableProfileShows ==
  ASSUME StoreInv, QueueShowsEnabled, NEW target, EnableProfile(target)
  PROVE  QueueShowsEnabled'
<1> DEFINE i == Find(profiles, target)
           current == GetEnabledProfile(profiles)
           events == SwitchEvents(profiles, i)
<1>1. QueueOK /\ profiles \in Seq(ProfileSlot) /\ AtMostOneEnabledIn(profiles)
  BY StoreInvParts DEF MemoryOK, AtMostOneEnabled
<1>2. CASE UNCHANGED storeVars
  BY <1>2, SameQueueShows DEF storeVars
<1>3. CASE /\ i # 0
           /\ profiles' = SwitchOn(profiles, i)
           /\ AddNotifications(events)
  <2>1. i \in 1..Len(profiles) /\ \A j \in 1..Len(profiles) : profiles[j] \in ProfileSlot
    BY <1>1, <1>3, FindFacts, SlotsOfList
  <2>2. /\ current # 0 => current \in 1..Len(profiles)
        /\ EnabledIn(profiles) \subseteq {current}
    BY <1>1, GetEnabledProfileFacts, SlotsOfList DEF EnabledIn, AtMostOneEnabledIn
  <2> HIDE DEF i, current
  <2>3. /\ profiles' \in Seq(ProfileSlot) /\ Len(profiles') = Len(profiles)
        /\ DOMAIN profiles' = 1..Len(profiles) /\ DOMAIN profiles = 1..Len(profiles)
    BY <1>1, <1>3, <2>1, SwitchOnFacts, SlotsOfList
  <2>4. \A j \in 1..Len(profiles) :
          /\ profiles'[j].iccid = profiles[j].iccid
          /\ profiles'[j].state = IF j = i THEN "enabled"
                                  ELSE IF j = current THEN "disabled" ELSE profiles[j].state
    BY <1>1, <1>3, <2>1, SwitchOnIs DEF current
  <2>5. EnabledIn(profiles') = {i}
    BY <2>1, <2>2, <2>3, <2>4 DEF EnabledIn, IsEnabled
  <2>6. EnabledIccids(profiles') = {profiles[i].iccid}
    BY <2>1, <2>4, <2>5 DEF EnabledIccids
  <2>7. /\ Event("enable", profiles[i]) \in Events
        /\ current # 0 => Event("disable", profiles[current]) \in Events
    BY <2>1, <2>2, EventFacts DEF Operation
  <2>8. events = IF current = 0 THEN <<Event("enable", profiles[i])>>
                 ELSE <<Event("disable", profiles[current]), Event("enable", profiles[i])>>
    BY DEF SwitchEvents, current
  <2> HIDE DEF events
  <2>9. /\ events \in Seq(Events) /\ Len(events) >= 1
        /\ events[Len(events)] = Event("enable", profiles[i])
    <3>1. CASE current = 0
      <4>1. events = <<Event("enable", profiles[i])>>
        BY <2>8, <3>1
      <4> QED
        BY <2>7, <4>1
    <3>2. CASE current # 0
      <4>1. events = <<Event("disable", profiles[current]), Event("enable", profiles[i])>>
        BY <2>8, <3>2
      <4> QED
        BY <2>7, <3>2, <4>1
    <3> QED
      BY <3>1, <3>2
  <2>10. /\ TellsOfSwitch(events[Len(events)])
         /\ Shown(events[Len(events)]) = {profiles[i].iccid}
    BY <2>9 DEF TellsOfSwitch, Shown, Event
  <2> QED
    BY <1>1, <1>3, <2>6, <2>9, <2>10, SwitchShows
<1> QED
  BY <1>2, <1>3 DEF EnableProfile, Refuse

LEMMA DisableProfileShows ==
  ASSUME StoreInv, QueueShowsEnabled, NEW target, DisableProfile(target)
  PROVE  QueueShowsEnabled'
<1> DEFINE i == Find(profiles, target)
           event == Event("disable", profiles[i])
<1>1. QueueOK /\ profiles \in Seq(ProfileSlot) /\ AtMostOneEnabledIn(profiles)
  BY StoreInvParts DEF MemoryOK, AtMostOneEnabled
<1>2. CASE UNCHANGED storeVars
  BY <1>2, SameQueueShows DEF storeVars
<1>3. CASE /\ i # 0
           /\ IsEnabled(profiles[i])
           /\ profiles' = SetState(profiles, i, "disabled")
           /\ AddNotifications(<<event>>)
  <2>1. i \in 1..Len(profiles) /\ DOMAIN profiles = 1..Len(profiles)
        /\ \A j \in 1..Len(profiles) : profiles[j] \in ProfileSlot
    BY <1>1, <1>3, FindFacts, SlotsOfList
  <2>2. EnabledIn(profiles) = {i}
    BY <1>1, <1>3, <2>1 DEF EnabledIn, AtMostOneEnabledIn
  <2> HIDE DEF i
  <2>3. EnabledIn(profiles') = EnabledIn(profiles) \ {i}
    <3>1. "disabled" \in ProfileState /\ "disabled" # "enabled"
      BY DEF ProfileState
    <3> QED
      BY <1>1, <1>3, <2>1, <3>1, SetStateFacts
  <2>4. EnabledIccids(profiles') = {}
    BY <2>2, <2>3 DEF EnabledIccids
  <2>5. event \in Events /\ TellsOfSwitch(event) /\ Shown(event) = {}
    <3>1. event \in Events
      BY <2>1, EventFacts DEF Operation
    <3> QED
      BY <3>1 DEF TellsOfSwitch, Shown, Event
  <2> HIDE DEF event
  <2>6. <<event>> \in Seq(Events) /\ Len(<<event>>) >= 1 /\ <<event>>[Len(<<event>>)] = event
    BY <2>5
  <2> QED
    BY <1>1, <1>3, <2>4, <2>5, <2>6, SwitchShows
<1> QED
  BY <1>2, <1>3 DEF DisableProfile, Refuse

LEMMA DeleteProfileShows ==
  ASSUME StoreInv, QueueShowsEnabled, NEW target, DeleteProfile(target)
  PROVE  QueueShowsEnabled'
<1> DEFINE i == Find(profiles, target)
           event == Event("delete", profiles[i])
<1>1. QueueOK /\ profiles \in Seq(ProfileSlot)
  BY StoreInvParts DEF MemoryOK
<1>2. CASE UNCHANGED storeVars
  BY <1>2, SameQueueShows DEF storeVars
<1>3. CASE /\ i # 0
           /\ ~IsEnabled(profiles[i])
           /\ profiles' = RemoveAt(profiles, i)
           /\ AddNotifications(<<event>>)
  <2>1. /\ i \in 1..Len(profiles) /\ Len(profiles) \in Nat /\ DOMAIN profiles = 1..Len(profiles)
        /\ profiles[i] \in ProfileSlot
    BY <1>1, <1>3, FindFacts, SlotsOfList
  <2> HIDE DEF i
  <2>2. /\ profiles' \in Seq(ProfileSlot)
        /\ Len(profiles') = Len(profiles) - 1
        /\ \A j \in 1..(Len(profiles) - 1) :
             profiles'[j] = IF j < i THEN profiles[j] ELSE profiles[j + 1]
    BY <1>1, <1>3, <2>1, RemoveAtProperties
  <2>3. DOMAIN profiles' = 1..(Len(profiles) - 1)
    BY <2>2, LenProperties
  <2>4. ASSUME NEW m \in EnabledIn(profiles)
        PROVE  \E j \in 1..Len(profiles') : profiles'[j] = profiles[m]
    <3>1. m \in 1..Len(profiles) /\ m # i
      BY <1>3, <2>1, <2>4 DEF EnabledIn
    <3>2. CASE m < i
      <4>1. m \in 1..(Len(profiles) - 1) /\ profiles'[m] = profiles[m]
        BY <2>1, <2>2, <3>1, <3>2
      <4> QED
        BY <2>2, <4>1
    <3>3. CASE m > i
      <4>1. m - 1 \in 1..(Len(profiles) - 1) /\ ~(m - 1 < i) /\ (m - 1) + 1 = m
        BY <2>1, <3>1, <3>3
      <4> QED
        BY <2>2, <4>1
    <3> QED
      BY <2>1, <3>1, <3>2, <3>3
  <2>5. ASSUME NEW j \in EnabledIn(profiles')
        PROVE  \E m \in 1..Len(profiles) : profiles[m] = profiles'[j]
    <3>1. j \in 1..(Len(profiles) - 1)
      BY <2>3, <2>5 DEF EnabledIn
    <3>2. j \in 1..Len(profiles) /\ j + 1 \in 1..Len(profiles)
      BY <2>1, <3>1
    <3> QED
      BY <2>2, <3>1, <3>2
  <2>6. EnabledIccids(profiles') = EnabledIccids(profiles)
    BY <1>1, <2>2, <2>4, <2>5, SameEnabledIccids
  <2>7. event \in Events /\ ~TellsOfSwitch(event)
    <3>1. event \in Events
      BY <2>1, EventFacts DEF Operation
    <3> QED
      BY <3>1 DEF TellsOfSwitch, Event
  <2> HIDE DEF event
  <2> QED
    BY <1>1, <1>3, <2>6, <2>7, QuietEventShows
<1> QED
  BY <1>2, <1>3 DEF DeleteProfile, Refuse

LEMMA EuiccMemoryResetShows ==
  ASSUME StoreInv, QueueShowsEnabled, NEW options, EuiccMemoryReset(options)
  PROVE  QueueShowsEnabled'
<1> DEFINE kept == Survivors(profiles, options)
<1>1. profiles \in Seq(ProfileSlot) /\ DOMAIN profiles = 1..Len(profiles)
  BY StoreInvParts, SlotsOfList DEF MemoryOK
<1>2. /\ profiles' = kept
      /\ UNCHANGED <<notifications, notification_seq>>
  BY DEF EuiccMemoryReset
<1>3. /\ kept \in Seq(ProfileSlot) /\ DOMAIN kept = 1..Len(kept)
      /\ \A i \in 1..Len(profiles) :
           SurvivesReset(profiles[i], options) => \E j \in 1..Len(kept) : kept[j] = profiles[i]
      /\ \A j \in 1..Len(kept) : \E i \in 1..Len(profiles) : kept[j] = profiles[i]
  <2>1. kept \in Seq(ProfileSlot)
    BY <1>1, SurvivorsFacts
  <2>2. /\ \A i \in 1..Len(profiles) :
             SurvivesReset(profiles[i], options) =>
               \E j \in 1..Len(kept) : j <= i /\ kept[j] = profiles[i]
        /\ \A j \in 1..Len(kept) : \E i \in 1..Len(profiles) : kept[j] = profiles[i]
    BY <1>1, SurvivorsInPlace
  <2> HIDE DEF kept
  <2>3. DOMAIN kept = 1..Len(kept)
    BY <2>1, SlotsOfList
  <2> QED
    BY <2>1, <2>2, <2>3
<1> HIDE DEF kept
<1>4. EnabledIccids(kept) = EnabledIccids(profiles)
  <2>1. \A i \in EnabledIn(profiles) : \E j \in 1..Len(kept) : kept[j] = profiles[i]
    BY <1>1, <1>3 DEF EnabledIn, SurvivesReset
  <2>2. \A j \in EnabledIn(kept) : \E i \in 1..Len(profiles) : profiles[i] = kept[j]
    BY <1>3 DEF EnabledIn
  <2> QED
    BY <1>1, <1>3, <2>1, <2>2, SameEnabledIccids
<1> QED
  BY <1>2, <1>4, SameQueueShows

LEMMA InstallProfileShows ==
  ASSUME StoreInv, QueueShowsEnabled, NEW iccid \in Iccids, NEW address \in Addresses,
         NEW len \in DataLengths, InstallProfile(iccid, address, len)
  PROVE  QueueShowsEnabled'
<1> DEFINE p == DownloadedProfile(iccid, address, len)
           event == Event("install", p)
<1>1. QueueOK /\ profiles \in Seq(ProfileSlot) /\ Len(profiles) \in Nat
  BY StoreInvParts, LenProperties DEF MemoryOK
<1>2. CASE UNCHANGED storeVars
  BY <1>2, SameQueueShows DEF storeVars
<1>3. CASE profiles' = Append(profiles, p) /\ AddNotifications(<<event>>)
  <2>1. p \in ProfileSlot /\ ~IsEnabled(p)
    BY <1>1, NvmAssumption DEF DownloadedProfile, AllocateIsdpAid, ProfileSlot, ProfileState,
                               ProfileClass, IsEnabled
  <2>2. event \in Events /\ ~TellsOfSwitch(event)
    <3>1. event \in Events
      BY <2>1, EventFacts DEF Operation
    <3> QED
      BY <3>1 DEF TellsOfSwitch, Event
  <2> HIDE DEF event, p
  <2>3. /\ profiles' \in Seq(ProfileSlot) /\ Len(profiles') = Len(profiles) + 1
        /\ \A j \in 1..Len(profiles) : profiles'[j] = profiles[j]
        /\ profiles'[Len(profiles) + 1] = p
    BY <1>1, <1>3, <2>1, AppendProperties
  <2>4. DOMAIN profiles = 1..Len(profiles) /\ DOMAIN profiles' = 1..(Len(profiles) + 1)
    BY <1>1, <2>3, SlotsOfList
  <2>5. \A m \in EnabledIn(profiles) : m \in 1..Len(profiles') /\ profiles'[m] = profiles[m]
    BY <1>1, <2>3, <2>4 DEF EnabledIn
  <2>6. \A j \in EnabledIn(profiles') : j \in 1..Len(profiles) /\ profiles[j] = profiles'[j]
    BY <1>1, <2>1, <2>3, <2>4 DEF EnabledIn
  <2>7. EnabledIccids(profiles') = EnabledIccids(profiles)
    BY <1>1, <2>3, <2>5, <2>6, SameEnabledIccids
  <2> QED
    BY <1>1, <1>3, <2>2, <2>7, QuietEventShows
<1> QED
  BY <1>2, <1>3 DEF InstallProfile, Install, Refuse

LEMMA RemoveNotificationShows ==
  ASSUME StoreInv, QueueShowsEnabled, NEW seq_number, RemoveNotification(seq_number)
  PROVE  QueueShowsEnabled'
<1>1. QueueOK /\ notifications \in Seq(Notification)
  BY StoreInvParts DEF QueueOK
<1>2. CASE UNCHANGED storeVars
  BY <1>2, SameQueueShows DEF storeVars
<1>3. ASSUME NEW i, i = FindNotification(notifications, seq_number), i # 0,
             notifications' = RemoveAt(notifications, i),
             UNCHANGED <<notification_seq, profiles>>
      PROVE  QueueShowsEnabled'
  <2>1. i \in 1..Len(notifications)
    BY <1>1, <1>3, FindNotificationFacts
  <2> QED
    BY <1>1, <1>3, <2>1, RemovedShows
<1> QED
  BY <1>2, <1>3 DEF RemoveNotification, Refuse

LEMMA NextShows ==
  ASSUME StoreInv, QueueShowsEnabled, [Next]_vars
  PROVE  QueueShowsEnabled'
<1>1. ASSUME \/ \E iccid \in Iccids : SetNickname(iccid)
             \/ \E address \in Addresses : SetDefaultDpAddress(address)
             \/ UNCHANGED vars
      PROVE  QueueShowsEnabled'
  BY <1>1, SameQueueShows DEF SetNickname, SetDefaultDpAddress, Refuse, storeVars, vars
<1> QED
  BY <1>1, EnableProfileShows, DisableProfileShows, DeleteProfileShows, EuiccMemoryResetShows,
     InstallProfileShows, RemoveNotificationShows
     DEF Next, LocalManagement, Download

-----------------------------------------------------------------------------
(* Theorems *)

LEMMA InitStoreInv == Init => StoreInv
<1> SUFFICES ASSUME Init
             PROVE  StoreInv
  OBVIOUS
<1>1. MemoryOK
  BY InitialProfilesAssumption, NvmAssumption DEF Init, MemoryOK, AtMostOneEnabled, NvmAccounted
<1>2. QueueOK
  BY DEF Init, QueueOK, NotificationsOrdered
<1>3. default_smdp_address \in Addresses \union {NoAddress} /\ result \in Answers
  BY DEF Init, Answers
<1> QED
  BY <1>1, <1>2, <1>3, StoreInvParts

LEMMA LocalManagementSafe ==
  ASSUME StoreInv, LocalManagement
  PROVE  SafeStep
BY EnableProfileFacts, DisableProfileFacts, DeleteProfileFacts, EuiccMemoryResetFacts,
   SetNicknameFacts, SetDefaultDpAddressFacts, RemoveNotificationFacts
   DEF LocalManagement

LEMMA NextSafe ==
  ASSUME StoreInv, Next
  PROVE  SafeStep
BY LocalManagementSafe, InstallProfileFacts DEF Next, Download

LEMMA StepSafe ==
  ASSUME StoreInv, [Next]_vars
  PROVE  /\ StoreInv'
         /\ [FreshNumbers]_vars
<1>1. CASE Next
  BY <1>1, NextSafe DEF SafeStep
<1>2. CASE UNCHANGED vars
  <2>1. result' \in Answers /\ UNCHANGED storeVars
    BY <1>2, StoreInvParts DEF vars
  <2> QED
    BY <1>2, <2>1, SameStoreFacts DEF SafeStep
<1> QED
  BY <1>1, <1>2

\* The four invariants hold together in every state of every behaviour.
THEOREM StoreInvariant == Spec => []StoreInv
<1>1. Init => StoreInv
  BY InitStoreInv
<1>2. StoreInv /\ [Next]_vars => StoreInv'
  BY StepSafe
<1> QED
  BY <1>1, <1>2, PTL DEF Spec

\* Every variable keeps its type; free_nvm never goes below zero, and the slots
\* never exceed max_profiles, in whatever order profiles come and go.
THEOREM TypeCorrect == Spec => []TypeOK
<1>1. StoreInv => TypeOK
  BY DEF StoreInv
<1> QED
  BY <1>1, StoreInvariant, PTL

\* No sequence of commands leaves two profiles enabled.
THEOREM OneEnabled == Spec => []AtMostOneEnabled
<1>1. StoreInv => AtMostOneEnabled
  BY DEF StoreInv
<1> QED
  BY <1>1, StoreInvariant, PTL

\* The free NVM and the NVM of the profiles never add up to more than there is.
THEOREM NvmIsAccounted == Spec => []NvmAccounted
<1>1. StoreInv => NvmAccounted
  BY DEF StoreInv
<1> QED
  BY <1>1, StoreInvariant, PTL

\* Pending notifications stay in the order of their numbers, all distinct.
THEOREM QueueIsOrdered == Spec => []NotificationsOrdered
<1>1. StoreInv => NotificationsOrdered
  BY DEF StoreInv
<1> QED
  BY <1>1, StoreInvariant, PTL

\* A notification that appears has a number that no notification had before.
THEOREM NumbersAreFresh == Spec => NumbersNeverReused
<1>1. StoreInv /\ [Next]_vars => [FreshNumbers]_vars
  BY StepSafe
<1> QED
  BY <1>1, StoreInvariant, PTL DEF Spec, NumbersNeverReused, FreshNumbers

\* The pending notifications, read in their order, tell which profile is enabled,
\* whatever commands came in between and whatever was acknowledged before.
THEOREM QueueIsTruthful == Spec => []QueueShowsEnabled
<1>1. Init => QueueShowsEnabled
  BY DEF Init, QueueShowsEnabled
<1>2. StoreInv /\ QueueShowsEnabled /\ [Next]_vars => QueueShowsEnabled'
  BY NextShows
<1> QED
  BY <1>1, <1>2, StoreInvariant, PTL DEF Spec

\* No command removes the enabled profile, and no memory reset a provisioning
\* one, whatever profiles around them come and go.
THEOREM ProtectedProfilesStay == Spec => ProtectedProfilesKept
<1>1. StoreInv /\ [Next]_vars => [ProtectedStep]_vars
  BY NextKeeps DEF ProfileStep
<1> QED
  BY <1>1, StoreInvariant, PTL DEF Spec, ProtectedProfilesKept, ProtectedStep

\* No profile changes its state without a notification of the change.
THEOREM StateChangesAreNotified == Spec => StateChangesNotified
<1>1. StoreInv /\ [Next]_vars => [NotifiedStep]_vars
  BY NextKeeps DEF ProfileStep
<1> QED
  BY <1>1, StoreInvariant, PTL DEF Spec, StateChangesNotified, NotifiedStep
=============================================================================
