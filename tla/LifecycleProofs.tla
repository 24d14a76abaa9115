---------------------------- MODULE LifecycleProofs ----------------------------
(***************************************************************************)
(* What a process keeps of its eUICCs, for any number of EIDs and of       *)
(* clients: the commit of persist_euiccs is the last thing that happens to *)
(* an eUICC where wait_closed waits, no connection is served twice after   *)
(* stop(), and the eUICCs restored from the database are a store that is   *)
(* saved as a whole.                                                       *)
(*                                                                         *)
(* The invariant is LifeInv.  Its heart is ConnectionsKnown: until the     *)
(* commit every connection belongs to a server that still listens or is    *)
(* waited for, so that none is left when the last one has closed.          *)
(***************************************************************************)
EXTENDS Lifecycle, TLAPS

ConnectionsKnown ==
  \A c \in Clients :
    conn[c] # NoConnection /\ phase \in {"binding", "serving", "stopping"} =>
      conn[c].eid \in ToSet(servers) \union {awaited}

ConnectionsServeInstances ==
  \A c \in Clients : conn[c] # NoConnection => conn[c].eid \in Instances

\* After the commit of a process that waited there is nobody left.
NobodyAfterCommit ==
  phase = "exiting" => /\ servers = <<>>
                       /\ waits_closed => \A c \in Clients : conn[c] = NoConnection

NoneWithoutProcess ==
  phase = "down" => /\ servers = <<>>
                    /\ \A c \in Clients : conn[c] = NoConnection /\ late[c] = 0

StoppingWaits == phase = "stopping" => waits_closed

\* A connection that was read late only waits for its client to take the answers.
LateIsOver ==
  \A c \in Clients :
    late[c] # 0 => /\ ~Running
                   /\ late[c] = 1
                   /\ conn[c] = NoConnection \/ conn[c].at = "draining"

LifeInv ==
  /\ LifecycleTypeOK
  /\ ConnectionsKnown
  /\ ConnectionsServeInstances
  /\ NobodyAfterCommit
  /\ NoneWithoutProcess
  /\ StoppingWaits
  /\ LateIsOver
  /\ SavedIsCurrent

LEMMA ToSetOfAppend ==
  ASSUME NEW S, NEW s \in Seq(S), NEW x \in S
  PROVE  ToSet(Append(s, x)) = ToSet(s) \union {x}
<1>1. /\ Len(s) \in Nat
      /\ DOMAIN s = 1..Len(s)
      /\ DOMAIN Append(s, x) = 1..(Len(s) + 1)
      /\ Append(s, x)[Len(s) + 1] = x
      /\ \A i \in 1..Len(s) : Append(s, x)[i] = s[i]
  OBVIOUS
<1> QED BY <1>1 DEF ToSet

LEMMA ToSetOfTail ==
  ASSUME NEW S, NEW s \in Seq(S), s # <<>>
  PROVE  ToSet(s) = ToSet(Tail(s)) \union {Head(s)} /\ Head(s) \in S
<1>1. /\ Len(s) \in Nat \ {0}
      /\ DOMAIN s = 1..Len(s)
      /\ DOMAIN Tail(s) = 1..(Len(s) - 1)
      /\ Head(s) = s[1]
      /\ \A i \in 1..(Len(s) - 1) : Tail(s)[i] = s[i + 1]
      /\ \A i \in 1..Len(s) : s[i] \in S
  OBVIOUS
<1>2. \A i \in 2..Len(s) : i - 1 \in 1..(Len(s) - 1) /\ s[i] = Tail(s)[i - 1]
  BY <1>1
<1>3. \A i \in 1..(Len(s) - 1) : i + 1 \in 1..Len(s) /\ Tail(s)[i] = s[i + 1]
  BY <1>1
<1>4. ToSet(s) = {s[i] : i \in 1..Len(s)} /\ ToSet(Tail(s)) = {Tail(s)[i] : i \in 1..(Len(s) - 1)}
  BY <1>1 DEF ToSet
<1>5. ToSet(s) \subseteq ToSet(Tail(s)) \union {Head(s)}
  <2> SUFFICES ASSUME NEW i \in 1..Len(s)
               PROVE  s[i] \in ToSet(Tail(s)) \union {Head(s)}
    BY <1>4
  <2>1. CASE i = 1
    BY <1>1, <2>1
  <2>2. CASE i \in 2..Len(s)
    BY <1>2, <1>4, <2>2
  <2> QED BY <1>1, <2>1, <2>2
<1>6. ToSet(Tail(s)) \subseteq ToSet(s)
  BY <1>3, <1>4
<1>7. 1 \in 1..Len(s)
  BY <1>1
<1> QED BY <1>1, <1>4, <1>5, <1>6, <1>7

LEMMA ToSetOfEmpty == ToSet(<<>>) = {} /\ \A S : <<>> \in Seq(S)
BY DEF ToSet

LEMMA EuiccsArePresent ==
  /\ TestEuicc \in Euicc
  /\ \A x \in Euicc : x # NoEuicc /\ x # NoRow
  /\ \A x \in Connection : x # NoConnection
  /\ NoServer \notin Eids
BY EidsAssumption, ContentAssumption, MaxSeqAssumption, AbsenceAssumption,
   NoConnectionAssumption DEF TestEuicc, Euicc

\* A command makes an eUICC of an eUICC, so the instances stay.
LEMMA CommandsKeepInstances ==
  ASSUME LifecycleTypeOK, NEW e \in Instances, Execute(e)
  PROVE  /\ memory' \in [Eids -> Euicc \union {NoEuicc}]
         /\ Instances' = Instances
         /\ \A x \in Eids : x # e => memory'[x] = memory[x]
         /\ memory'[e] \in Euicc
<1>1. e \in Eids /\ memory[e] \in Euicc /\ memory \in [Eids -> Euicc \union {NoEuicc}]
  BY DEF LifecycleTypeOK, Instances
<1>2. PICK after \in AfterCommands(memory[e]) : memory' = [memory EXCEPT ![e] = after]
  BY DEF Execute
<1>3. after \in Euicc
  BY <1>1, <1>2, MaxSeqAssumption DEF AfterCommands, Euicc
<1>4. \A x \in Eids : memory'[x] = IF x = e THEN after ELSE memory[x]
  BY <1>1, <1>2
<1>5. Instances' = Instances
  BY <1>1, <1>3, <1>4, EuiccsArePresent DEF Instances
<1> QED BY <1>1, <1>2, <1>3, <1>4, <1>5

LEMMA InitLifeInv == LifeInit => LifeInv
<1> SUFFICES ASSUME LifeInit PROVE LifeInv
  OBVIOUS
<1>1. rows \in [Eids -> Euicc \union {NoRow}]
  BY EuiccsArePresent DEF LifeInit
<1>2. Instances = {} /\ memory \in [Eids -> Euicc \union {NoEuicc}]
  BY DEF LifeInit, Instances
<1>3. LifecycleTypeOK
  <2>1. servers \in Seq(Eids) /\ ToSet(servers) \subseteq Instances /\ dispatchers \subseteq Instances
    BY ToSetOfEmpty DEF LifeInit
  <2>2. ~IsUp
    BY DEF LifeInit, IsUp
  <2>3. conn \in [Clients -> Connection \union {NoConnection}] /\ late \in [Clients -> 0..2]
    BY DEF LifeInit
  <2> QED BY <1>1, <1>2, <2>1, <2>2, <2>3 DEF LifeInit, LifecycleTypeOK
<1> QED BY <1>3 DEF LifeInit, LifeInv, ConnectionsKnown, ConnectionsServeInstances, NobodyAfterCommit,
          NoneWithoutProcess, StoppingWaits, LateIsOver, SavedIsCurrent

LEMMA StartPreserves ==
  ASSUME LifeInv, Start
  PROVE  LifeInv'
<1> USE DEF LifeInv, Start
<1>1. /\ memory' \in [Eids -> Euicc \union {NoEuicc}]
      /\ \A e \in TestEids : memory'[e] \in Euicc
      /\ \A e \in ExtraEids : memory'[e] = IF rows[e] # NoRow THEN rows[e] ELSE NoEuicc
      /\ \A e \in ExtraEids : rows[e] \in Euicc \union {NoRow}
  BY EuiccsArePresent, EidsAssumption DEF Loaded, LifecycleTypeOK, Eids
<1>2. TestEids \subseteq Instances' /\ TestEids # {}
  BY <1>1, EuiccsArePresent, EidsAssumption DEF Instances, Eids
<1>3. servers = <<>> /\ \A c \in Clients : conn[c] = NoConnection /\ late[c] = 0
  BY DEF NoneWithoutProcess
<1>4. \A e \in ExtraEids : rows'[e] # NoRow <=> e \in Instances'
  BY <1>1, EuiccsArePresent DEF Instances, Eids
<1>5. LifecycleTypeOK'
  BY <1>1, <1>2, <1>3, <1>4, ToSetOfEmpty DEF LifecycleTypeOK, IsUp
<1> QED BY <1>3, <1>5 DEF ConnectionsKnown, ConnectionsServeInstances, NobodyAfterCommit,
          NoneWithoutProcess, StoppingWaits, LateIsOver, SavedIsCurrent

LEMMA BindPreserves ==
  ASSUME LifeInv, Bind
  PROVE  LifeInv'
<1> USE DEF LifeInv, Bind
<1>1. PICK e \in Instances \ ToSet(servers) :
        /\ servers' = Append(servers, e)
        /\ phase' \in {"serving", "binding"}
  OBVIOUS
<1>2. servers' \in Seq(Eids) /\ ToSet(servers') = ToSet(servers) \union {e}
  BY <1>1, ToSetOfAppend DEF LifecycleTypeOK, Instances
<1>3. LifecycleTypeOK'
  BY <1>1, <1>2 DEF LifecycleTypeOK, Instances, IsUp
<1>4. ConnectionsKnown' /\ ConnectionsServeInstances'
  BY <1>1, <1>2 DEF ConnectionsKnown, ConnectionsServeInstances, Instances
<1>5. LateIsOver'
  BY <1>1 DEF LateIsOver, Running
<1> QED BY <1>1, <1>3, <1>4, <1>5
     DEF NobodyAfterCommit, NoneWithoutProcess, StoppingWaits, SavedIsCurrent

LEMMA HttpPostPreserves ==
  ASSUME LifeInv, NEW e \in Eids, HttpPost(e)
  PROVE  LifeInv'
<1>1. Instances' = Instances /\ memory' \in [Eids -> Euicc \union {NoEuicc}]
  BY CommandsKeepInstances DEF LifeInv, HttpPost
<1>2. LifecycleTypeOK'
  BY <1>1 DEF LifeInv, HttpPost, LifecycleTypeOK, IsUp
<1> QED BY <1>1, <1>2 DEF LifeInv, HttpPost, ConnectionsKnown, ConnectionsServeInstances,
          NobodyAfterCommit, NoneWithoutProcess, StoppingWaits, LateIsOver, SavedIsCurrent,
          Running

\* Steps that only change a connection, to none or to one of the same eUICC
\* that is no further from its end than it was.
LEMMA ConnectionStepPreserves ==
  ASSUME LifeInv, NEW c \in Clients, NEW k \in Connection \union {NoConnection},
         conn[c] # NoConnection,
         conn' = [conn EXCEPT ![c] = k],
         k # NoConnection => /\ k.eid = conn[c].eid
                             /\ k.at = conn[c].at \/ Running,
         UNCHANGED <<phase, waits_closed, rows, memory, serverVars, persisted, late>>
  PROVE  LifeInv'
<1> USE DEF LifeInv, serverVars
<1>1. \A d \in Clients : conn'[d] = IF d = c THEN k ELSE conn[d]
  BY DEF LifecycleTypeOK
<1>2. LifecycleTypeOK'
  BY DEF LifecycleTypeOK, IsUp, Instances
<1>3. ConnectionsKnown' /\ ConnectionsServeInstances'
  BY <1>1 DEF ConnectionsKnown, ConnectionsServeInstances, Instances
<1>4. NobodyAfterCommit' /\ NoneWithoutProcess'
  BY <1>1 DEF NobodyAfterCommit, NoneWithoutProcess
<1>5. LateIsOver'
  BY <1>1 DEF LateIsOver, Running
<1> QED BY <1>2, <1>3, <1>4, <1>5 DEF StoppingWaits, SavedIsCurrent, Instances

LEMMA LoopIsConnection ==
  ASSUME LifeInv, NEW c \in Clients, conn[c] # NoConnection
  PROVE  /\ Loop(c) \in Connection \union {NoConnection}
         /\ Loop(c) # NoConnection => Loop(c).eid = conn[c].eid /\ Running
<1>1. conn[c] \in Connection
  BY DEF LifeInv, LifecycleTypeOK
<1> QED BY <1>1 DEF Loop, Connection

LEMMA ConnectPreserves ==
  ASSUME LifeInv, NEW c \in Clients, NEW e \in Eids, Connect(c, e)
  PROVE  LifeInv'
<1> USE DEF LifeInv, Connect, serverVars
<1> DEFINE k == [eid |-> e, at |-> "accepted", sent |-> FALSE, eof |-> FALSE]
<1>1. k \in Connection
  BY DEF Connection
<1>2. /\ \A d \in Clients : conn'[d] = IF d = c THEN k ELSE conn[d]
      /\ \A d \in Clients : late'[d] = IF d = c THEN 0 ELSE late[d]
  BY DEF LifecycleTypeOK
<1>3. phase # "exiting" /\ phase # "down"
  BY ToSetOfEmpty DEF NobodyAfterCommit, IsUp
<1>4. LifecycleTypeOK'
  BY <1>1 DEF LifecycleTypeOK, IsUp, Instances
<1>5. ConnectionsKnown' /\ ConnectionsServeInstances'
  BY <1>2 DEF ConnectionsKnown, ConnectionsServeInstances, Instances, LifecycleTypeOK
<1>6. LateIsOver'
  BY <1>2 DEF LateIsOver, Running
<1> QED BY <1>3, <1>4, <1>5, <1>6
     DEF NobodyAfterCommit, NoneWithoutProcess, StoppingWaits, SavedIsCurrent, Instances

LEMMA ReadPreserves ==
  ASSUME LifeInv, NEW c \in Clients, Read(c)
  PROVE  LifeInv'
<1> USE DEF LifeInv, Read, IsAt, serverVars
<1>1. conn[c] \in Connection /\ conn[c] # NoConnection
  BY DEF LifecycleTypeOK
<1>2. PICK k \in {[conn[c] EXCEPT !.at = "draining", !.sent = FALSE], NoConnection} :
        conn' = [conn EXCEPT ![c] = k]
  OBVIOUS
<1>3. k = NoConnection \/ (k \in Connection /\ k.eid = conn[c].eid /\ k.at = "draining")
  BY <1>1, <1>2 DEF Connection
<1>4. \A d \in Clients : conn'[d] = IF d = c THEN k ELSE conn[d]
  BY <1>2 DEF LifecycleTypeOK
<1>5. late[c] = 0
  BY DEF LateIsOver
<1>6. \A d \in Clients : late'[d] = IF d = c THEN (IF Running THEN 0 ELSE 1) ELSE late[d]
  BY <1>5 DEF LifecycleTypeOK
<1>7. late' \in [Clients -> 0..2]
  BY DEF LifecycleTypeOK
<1>8. conn[c].eid \in Instances
  BY DEF ConnectionsServeInstances
<1>9. Instances' = Instances /\ memory' \in [Eids -> Euicc \union {NoEuicc}]
  BY <1>8, CommandsKeepInstances
<1>10. LifecycleTypeOK'
  BY <1>2, <1>3, <1>7, <1>9 DEF LifecycleTypeOK, IsUp
<1>11. ConnectionsKnown' /\ ConnectionsServeInstances'
  <2>1. \A d \in Clients : conn'[d] # NoConnection =>
                            conn[d] # NoConnection /\ conn'[d].eid = conn[d].eid
    BY <1>1, <1>3, <1>4
  <2>2. ConnectionsKnown'
    BY <2>1 DEF ConnectionsKnown
  <2>3. ConnectionsServeInstances'
    <3> SUFFICES ASSUME NEW d \in Clients, conn'[d] # NoConnection
                 PROVE  conn'[d].eid \in Instances'
      BY DEF ConnectionsServeInstances
    <3>1. conn[d] # NoConnection /\ conn'[d].eid = conn[d].eid
      BY <2>1
    <3>2. conn[d].eid \in Instances
      BY <3>1 DEF ConnectionsServeInstances
    <3> QED BY <1>9, <3>1, <3>2
  <2> QED BY <2>2, <2>3
<1>12. NobodyAfterCommit' /\ NoneWithoutProcess' /\ SavedIsCurrent'
  BY <1>1, <1>4 DEF NobodyAfterCommit, NoneWithoutProcess, SavedIsCurrent
<1>13. LateIsOver'
  <2> SUFFICES ASSUME NEW d \in Clients, late'[d] # 0
               PROVE  /\ ~Running
                      /\ late'[d] = 1
                      /\ conn'[d] = NoConnection \/ conn'[d].at = "draining"
    BY DEF LateIsOver, Running
  <2>1. CASE d = c
    BY <1>3, <1>4, <1>6, <2>1
  <2>2. CASE d # c
    <3>1. late'[d] = late[d] /\ conn'[d] = conn[d]
      BY <1>4, <1>6, <2>2
    <3> QED BY <3>1 DEF LateIsOver
  <2> QED BY <2>1, <2>2
<1> QED BY <1>10, <1>11, <1>12, <1>13 DEF StoppingWaits

\* The commit leaves rows and memory alike, or the rows as they were.
LEMMA PersistPreserves ==
  ASSUME LifeInv, Persist, phase \in {"serving", "stopping"},
         waits_closed => \A c \in Clients : conn[c] = NoConnection
  PROVE  LifeInv'
<1> USE DEF LifeInv, Persist
<1>1. rows' \in [Eids -> Euicc \union {NoRow}]
  BY DEF LifecycleTypeOK, Saved, RolledBack
<1>2. \A e \in ExtraEids : rows'[e] # NoRow <=> rows[e] # NoRow
  BY EuiccsArePresent DEF LifecycleTypeOK, Saved, RolledBack, IsUp, Instances, Eids
<1>3. LifecycleTypeOK'
  BY <1>1, <1>2, ToSetOfEmpty DEF LifecycleTypeOK, IsUp, Instances
<1>4. SavedIsCurrent'
  BY DEF SavedIsCurrent, Saved, Instances
<1>5. LateIsOver'
  BY DEF LateIsOver, Running
<1> QED BY <1>3, <1>4, <1>5 DEF ConnectionsKnown, ConnectionsServeInstances,
          NobodyAfterCommit, NoneWithoutProcess, StoppingWaits, Instances

LEMMA RequestStopPreserves ==
  ASSUME LifeInv, RequestStop
  PROVE  LifeInv'
<1>1. CASE ~waits_closed
  BY <1>1, PersistPreserves DEF RequestStop
<1>2. CASE waits_closed
  <2> USE <1>2 DEF LifeInv, RequestStop, serverVars
  <2>1. LifecycleTypeOK'
    BY DEF LifecycleTypeOK, IsUp, Instances
  <2>2. LateIsOver'
    BY DEF LateIsOver, Running
  <2> QED BY <2>1, <2>2 DEF ConnectionsKnown, ConnectionsServeInstances,
            NobodyAfterCommit, NoneWithoutProcess, StoppingWaits, SavedIsCurrent, Instances
<1> QED BY <1>1, <1>2

LEMMA CloseServerPreserves ==
  ASSUME LifeInv, CloseServer
  PROVE  LifeInv'
<1> USE DEF LifeInv, CloseServer
<1>1. /\ ToSet(servers) = ToSet(servers') \union {awaited'}
      /\ awaited' \in Eids
      /\ servers' \in Seq(Eids)
  BY ToSetOfTail DEF LifecycleTypeOK
<1>2. LifecycleTypeOK'
  BY <1>1 DEF LifecycleTypeOK, IsUp, Instances
<1>3. ConnectionsKnown'
  BY <1>1 DEF ConnectionsKnown, HasClosed
<1> QED BY <1>2, <1>3 DEF ConnectionsServeInstances, NobodyAfterCommit, NoneWithoutProcess,
          StoppingWaits, SavedIsCurrent, LateIsOver, Running, Instances

\* When the last server has closed, no connection is left.
LEMMA PersistClosedPreserves ==
  ASSUME LifeInv, PersistClosed
  PROVE  LifeInv'
<1>1. \A c \in Clients : conn[c] = NoConnection
  BY ToSetOfEmpty DEF LifeInv, PersistClosed, ConnectionsKnown, HasClosed
<1> QED BY <1>1, PersistPreserves DEF PersistClosed

LEMMA GonePreserves ==
  ASSUME LifeInv, Gone
  PROVE  LifeInv'
<1> USE DEF LifeInv, Gone
<1>1. Instances' = {}
  BY DEF Instances
<1>2. LifecycleTypeOK'
  <2>1. servers' \in Seq(Eids) /\ ToSet(servers') \subseteq Instances'
    BY ToSetOfEmpty
  <2>2. ~IsUp'
    BY DEF IsUp
  <2>3. conn' \in [Clients -> Connection \union {NoConnection}] /\ late' \in [Clients -> 0..2]
    OBVIOUS
  <2> QED BY <1>1, <2>1, <2>2, <2>3 DEF LifecycleTypeOK
<1> QED BY <1>2 DEF ConnectionsKnown, ConnectionsServeInstances, NobodyAfterCommit,
          NoneWithoutProcess, StoppingWaits, SavedIsCurrent, LateIsOver

LEMMA ClientStepPreserves ==
  ASSUME LifeInv, NEW c \in Clients,
         Accept(c) \/ Drain(c) \/ ReadEof(c) \/ Send(c) \/ HangUp(c)
  PROVE  LifeInv'
<1>1. conn[c] # NoConnection
  BY DEF Accept, Drain, ReadEof, Send, HangUp, IsAt, CanSend
<1>2. conn[c] \in Connection
  BY <1>1 DEF LifeInv, LifecycleTypeOK
<1>3. CASE Accept(c) \/ Drain(c) \/ ReadEof(c)
  <2>1. PICK k \in {Loop(c), NoConnection} : conn' = [conn EXCEPT ![c] = k]
    BY <1>3 DEF Accept, Drain, ReadEof, AfterEof
  <2> QED BY <1>1, <1>3, <2>1, LoopIsConnection, ConnectionStepPreserves
          DEF Accept, Drain, ReadEof
<1>4. CASE Send(c) \/ HangUp(c)
  <2>1. PICK k \in {[conn[c] EXCEPT !.sent = TRUE], [conn[c] EXCEPT !.eof = TRUE]} :
          conn' = [conn EXCEPT ![c] = k]
    BY <1>4 DEF Send, HangUp
  <2>2. k \in Connection /\ k.eid = conn[c].eid /\ k.at = conn[c].at
    BY <1>2 DEF Connection
  <2> HIDE DEF Send
  <2> QED BY <1>1, <1>4, <2>1, <2>2, ConnectionStepPreserves DEF Send, HangUp
<1> QED BY <1>3, <1>4

LEMMA StutterPreserves ==
  ASSUME LifeInv, UNCHANGED lifeVars
  PROVE  LifeInv'
BY DEF LifeInv, lifeVars, serverVars, LifecycleTypeOK, ConnectionsKnown,
   ConnectionsServeInstances, NobodyAfterCommit, NoneWithoutProcess, StoppingWaits,
   LateIsOver, SavedIsCurrent, Instances, IsUp, Running

LEMMA LifeInvariant == LifeSpec => []LifeInv
<1>1. LifeInv /\ [LifeNext]_lifeVars => LifeInv'
  <2> SUFFICES ASSUME LifeInv, [LifeNext]_lifeVars PROVE LifeInv'
    OBVIOUS
  <2>1. CASE Start \/ Bind \/ RequestStop
    BY <2>1, StartPreserves, BindPreserves, RequestStopPreserves
  <2>2. CASE Shutdown \/ Crash
    BY <2>2, CloseServerPreserves, PersistClosedPreserves, GonePreserves
    DEF Shutdown, Exit, Crash
  <2>3. ASSUME NEW e \in Eids, HttpPost(e) PROVE LifeInv'
    BY <2>3, HttpPostPreserves
  <2>4. ASSUME NEW c \in Clients, Handler(c) \/ ClientNext(c) PROVE LifeInv'
    BY <2>4, ConnectPreserves, ReadPreserves, ClientStepPreserves DEF Handler, ClientNext
  <2>5. CASE UNCHANGED lifeVars
    BY <2>5, StutterPreserves
  <2> QED BY <2>1, <2>2, <2>3, <2>4, <2>5 DEF LifeNext
<1> QED BY <1>1, InitLifeInv, PTL DEF LifeSpec

\* The process's and the database's state keep their types, and the instances
\* of a running process are the test eUICCs and those the database knows
\* (setup_euiccs, load_persisted_euiccs).
THEOREM LifecycleTypeCorrect == LifeSpec => []LifecycleTypeOK
<1>1. LifeInv => LifecycleTypeOK
  BY DEF LifeInv
<1> QED BY <1>1, LifeInvariant, PTL

\* Where wait_closed waits, what persist_euiccs committed is what the eUICCs
\* are when the process ends (lifespan).
THEOREM SavedStaysCurrent == LifeSpec => []SavedIsCurrent
<1>1. LifeInv => SavedIsCurrent
  BY DEF LifeInv
<1> QED BY <1>1, LifeInvariant, PTL

-----------------------------------------------------------------------------
(* The durable store *)

\* The two variables of the abstract store.
Seen == [e \in ExtraEids |-> VisibleRow(e)]

Kept == [e \in ExtraEids |-> rows[e]]

LEMMA InitRefines == LifeInit => Durability!Init
<1> SUFFICES ASSUME LifeInit PROVE Durability!Init
  OBVIOUS
<1>1. \A e \in ExtraEids : rows[e] \in Euicc \union {NoRow}
  BY EuiccsArePresent DEF LifeInit, Eids
<1>2. \A e \in ExtraEids : VisibleRow(e) = rows[e]
  BY DEF LifeInit, VisibleRow
<1> QED BY <1>1, <1>2 DEF Durability!Init

\* While there is a process and memory stays, what is seen stays; so it does
\* where a process starts.
LEMMA StartRefines ==
  ASSUME LifeInv, Start
  PROVE  Seen' = Seen /\ Kept' = Kept
<1>1. \A e \in ExtraEids : VisibleRow(e)' = VisibleRow(e)
  BY EuiccsArePresent, EidsAssumption
  DEF Start, Loaded, VisibleRow, LifeInv, LifecycleTypeOK, Eids
<1> QED BY <1>1 DEF Seen, Kept, Start

LEMMA UnseenRefines ==
  ASSUME UNCHANGED <<memory, rows>>, (phase = "down") = (phase' = "down")
  PROVE  Seen' = Seen /\ Kept' = Kept
BY DEF Seen, Kept, VisibleRow

LEMMA ExecuteRefines ==
  ASSUME LifeInv, IsUp, NEW e \in Instances, Execute(e), UNCHANGED <<phase, rows>>
  PROVE  Durability!Update \/ (Seen' = Seen /\ Kept' = Kept)
<1>1. /\ \A x \in Eids : x # e => memory'[x] = memory[x]
      /\ memory'[e] \in Euicc
  BY CommandsKeepInstances DEF LifeInv
<1>2. \A x \in ExtraEids : x # e => VisibleRow(x)' = VisibleRow(x)
  BY <1>1 DEF VisibleRow, Eids, IsUp
<1>3. CASE e \in ExtraEids
  <2>1. VisibleRow(e)' = memory'[e]
    BY <1>1, EuiccsArePresent DEF VisibleRow, IsUp
  <2>2. Seen' = [Seen EXCEPT ![e] = memory'[e]]
    BY <1>2, <2>1 DEF Seen
  <2> QED BY <1>1, <1>3, <2>2 DEF Durability!Update, Seen
<1>4. CASE e \notin ExtraEids
  <2>1. \A x \in ExtraEids : VisibleRow(x)' = VisibleRow(x)
    BY <1>2, <1>4
  <2> QED BY <2>1 DEF Seen, Kept
<1> QED BY <1>3, <1>4

\* A commit saves what is seen, all of it; a rollback leaves everything.
LEMMA PersistRefines ==
  ASSUME LifeInv, IsUp, Persist
  PROVE  Durability!Save \/ (Seen' = Seen /\ Kept' = Kept)
<1>1. \A e \in ExtraEids : VisibleRow(e)' = VisibleRow(e)
  BY DEF Persist, VisibleRow, IsUp
<1>2. CASE rows' = Saved
  <2>1. \A e \in ExtraEids : rows'[e] = VisibleRow(e)
    BY <1>2 DEF Saved, VisibleRow, IsUp, LifeInv, LifecycleTypeOK, Instances, Eids
  <2> QED BY <1>1, <2>1 DEF Durability!Save
<1>3. CASE rows' = RolledBack
  BY <1>1, <1>3 DEF RolledBack, Seen, Kept
<1> QED BY <1>2, <1>3 DEF Persist

LEMMA GoneRefines ==
  ASSUME Gone
  PROVE  Durability!Revert
<1>1. \A e \in ExtraEids : VisibleRow(e)' = rows[e] /\ rows'[e] = rows[e]
  BY DEF Gone, VisibleRow
<1> QED BY <1>1 DEF Durability!Revert

LEMMA StepRefines ==
  LifeInv /\ [LifeNext]_lifeVars => [Durability!Next]_Durability!storeVars
<1> SUFFICES ASSUME LifeInv, [LifeNext]_lifeVars
             PROVE  Durability!Next \/ (Seen' = Seen /\ Kept' = Kept)
  BY DEF Durability!storeVars, Seen, Kept
<1>1. CASE Start
  BY <1>1, StartRefines
<1>2. CASE Bind \/ (RequestStop /\ waits_closed) \/ CloseServer
  BY <1>2, UnseenRefines DEF Bind, RequestStop, CloseServer, serverVars
<1>3. CASE (RequestStop /\ ~waits_closed) \/ PersistClosed
  BY <1>3, PersistRefines DEF RequestStop, PersistClosed, IsUp, Durability!Next
<1>4. CASE Exit \/ Crash
  BY <1>4, GoneRefines DEF Exit, Crash, Durability!Next
<1>5. ASSUME NEW e \in Eids, HttpPost(e)
      PROVE  Durability!Next \/ (Seen' = Seen /\ Kept' = Kept)
  BY <1>5, ExecuteRefines DEF HttpPost, IsUp, Durability!Next
<1>6. ASSUME NEW c \in Clients, Read(c)
      PROVE  Durability!Next \/ (Seen' = Seen /\ Kept' = Kept)
  <2>1. conn[c].eid \in Instances /\ IsUp
    BY <1>6 DEF LifeInv, ConnectionsServeInstances, NoneWithoutProcess, Read, IsAt, IsUp
  <2> QED BY <1>6, <2>1, ExecuteRefines DEF Read, Durability!Next
<1>7. ASSUME NEW c \in Clients, Accept(c) \/ ReadEof(c) \/ ClientNext(c)
      PROVE  Seen' = Seen /\ Kept' = Kept
  BY <1>7, UnseenRefines DEF Accept, ReadEof, ClientNext, Connect, Send, HangUp, Drain
<1>8. CASE UNCHANGED lifeVars
  BY <1>8, UnseenRefines DEF lifeVars
<1> QED BY <1>1, <1>2, <1>3, <1>4, <1>5, <1>6, <1>7, <1>8
        DEF LifeNext, Shutdown, Handler

\* For the eUICCs that come from the database, the simulator implements a store
\* that is saved and lost as a whole: a command is an update, the commit of
\* persist_euiccs a save, the end of a process a revert.
THEOREM LifecycleImplementsStore == LifeSpec => ImplementsDurableStore
<1>1. LifeInv /\ [LifeNext]_lifeVars => [Durability!Next]_Durability!storeVars
  BY StepRefines
<1> QED BY <1>1, InitRefines, LifeInvariant, PTL
        DEF LifeSpec, ImplementsDurableStore, Durability!Spec

\* After stop() no connection has a second read handled (_handle_client).
THEOREM ReadsEndWithStop == LifeSpec => []OneMoreRead
<1>1. LifeInv => OneMoreRead
  BY DEF LifeInv, LateIsOver, OneMoreRead
<1> QED BY <1>1, LifeInvariant, PTL
=============================================================================
