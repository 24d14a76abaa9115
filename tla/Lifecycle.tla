------------------------------- MODULE Lifecycle -------------------------------
(***************************************************************************)
(* The life of the simulator's process: lifespan and setup_euiccs of       *)
(* app/main.py, the TCP server's start and stop, and what                  *)
(* app/models/database.py keeps of the eUICCs from one process to the      *)
(* next.                                                                   *)
(*                                                                         *)
(* Handlers have no await, so a command is one step.  From the             *)
(* configuration to the first bind nothing is awaited either: the database *)
(* is opened, the test eUICCs are created, the rows are loaded, in one     *)
(* step.  Binding a port and waiting for a server to close give way to     *)
(* clients.  A crash is what it loses: the process and all its memory.     *)
(***************************************************************************)
EXTENDS Integers, Sequences, SequencesExt

CONSTANTS
  TestEids,    \* the EIDs create_test_euiccs makes
  ExtraEids,   \* other EIDs the database may hold rows of
  Clients,     \* TCP clients
  Contents,    \* what of an eUICC is persisted, notification numbers apart
  TestContent, \* what create_test_euiccs puts there
  NoEuicc,     \* no instance of an EID
  NoRow,       \* no row of an EID
  NoConnection,
  NoServer,    \* stop() waits for no server
  MaxSeq       \* bound: notifications numbered

Eids == TestEids \union ExtraEids

ASSUME EidsAssumption ==
  TestEids # {} /\ TestEids \intersect ExtraEids = {} /\ NoServer \notin Eids

ASSUME ContentAssumption == TestContent \in Contents

ASSUME MaxSeqAssumption == MaxSeq \in Nat

VARIABLES
  phase,        \* where lifespan is, "down" while there is no process
  waits_closed, \* does wait_closed wait for connections? (Python 3.12.1 and later)
  rows,         \* the database, by EID
  memory,       \* EuiccManager.instances, by EID
  dispatchers,  \* main.dispatchers: the EIDs that have one
  servers,      \* ApduTcpServer._servers not closed yet: the EIDs of their ports
  awaited,      \* the server stop() has closed and waits for
  conn,         \* the connection of each client
  persisted,    \* history: persist_euiccs has committed in this process
  late          \* history: reads handled for a connection since stop() was called; 2 is more

serverVars == <<dispatchers, servers, awaited>>

lifeVars ==
  <<phase, waits_closed, rows, memory, serverVars, conn, persisted, late>>

-----------------------------------------------------------------------------
(* Data *)

\* What a command may change of an eUICC and a row may keep of it.  The
\* notification queue and the session have no column: every start empties
\* them, and the numbers alone tell of the notifications there were.
Euicc == [content : Contents, notification_seq : 0..MaxSeq]

ASSUME AbsenceAssumption == NoEuicc \notin Euicc /\ NoRow \notin Euicc

TestEuicc == [content |-> TestContent, notification_seq |-> 0]

\* at: before the dispatcher is looked up, in read(), or in drain().
\* sent: bytes the client sent and nobody has read; eof: the client hung up.
Connection ==
  [eid : Eids, at : {"accepted", "reading", "draining"}, sent : BOOLEAN, eof : BOOLEAN]

ASSUME NoConnectionAssumption == NoConnection \notin Connection

Instances == {e \in Eids : memory[e] # NoEuicc}

\* ApduTcpServer._running
Running == phase \in {"binding", "serving"}

IsUp == phase # "down"

-----------------------------------------------------------------------------
(* Startup *)

\* A broken variant: the rows are not looked at.
LoadedTestOnly == [e \in Eids |-> IF e \in TestEids THEN TestEuicc ELSE NoEuicc]

\* setup_euiccs, then load_persisted_euiccs: create_euicc_from_state leaves
\* an EID alone that has an instance already.
Loaded ==
  [e \in Eids |->
     IF e \in TestEids THEN TestEuicc
     ELSE IF rows[e] # NoRow THEN rows[e]
     ELSE NoEuicc]

\* Dispatchers are built between the two, so for the test eUICCs alone.
Start ==
  /\ phase = "down"
  /\ phase' = "binding"
  /\ waits_closed' \in BOOLEAN
  /\ memory' = Loaded
  /\ dispatchers' = TestEids
  /\ persisted' = FALSE
  /\ UNCHANGED <<rows, servers, awaited, conn, late>>

\* ApduTcpServer.start binds the ports one by one, those of the test eUICCs
\* first, and connections may come in between.
Bind ==
  /\ phase = "binding"
  /\ \E e \in Instances \ ToSet(servers) :
       /\ e \in ExtraEids => TestEids \subseteq ToSet(servers)
       /\ servers' = Append(servers, e)
       /\ phase' = IF Instances \subseteq ToSet(servers) \union {e} THEN "serving" ELSE "binding"
  /\ UNCHANGED <<waits_closed, rows, memory, dispatchers, awaited, conn, persisted, late>>

-----------------------------------------------------------------------------
(* Commands *)

\* What a command, or those of one read, may make of an eUICC: nothing, or a
\* change with or without notifications.
AfterCommands(euicc) ==
  [content : Contents, notification_seq : euicc.notification_seq..MaxSeq]

Execute(e) ==
  \E after \in AfterCommands(memory[e]) : memory' = [memory EXCEPT ![e] = after]

\* POST /api/apdu/{eid}: builds the dispatcher an eUICC may still lack.
HttpPost(e) ==
  /\ phase = "serving"
  /\ e \in Instances
  /\ dispatchers' = dispatchers \union {e}
  /\ Execute(e)
  /\ UNCHANGED <<phase, waits_closed, rows, servers, awaited, conn, persisted, late>>

-----------------------------------------------------------------------------
(* TCP clients *)

Connect(c, e) ==
  /\ IsUp
  /\ conn[c] = NoConnection
  /\ e \in ToSet(servers)
  /\ conn' = [conn EXCEPT ![c] = [eid |-> e, at |-> "accepted", sent |-> FALSE, eof |-> FALSE]]
  /\ late' = [late EXCEPT ![c] = 0]
  /\ UNCHANGED <<phase, waits_closed, rows, memory, serverVars, persisted>>

CanSend(c) == conn[c] # NoConnection /\ ~conn[c].eof

Send(c) ==
  /\ CanSend(c)
  /\ conn' = [conn EXCEPT ![c].sent = TRUE]
  /\ UNCHANGED <<phase, waits_closed, rows, memory, serverVars, persisted, late>>

HangUp(c) ==
  /\ CanSend(c)
  /\ conn' = [conn EXCEPT ![c].eof = TRUE]
  /\ UNCHANGED <<phase, waits_closed, rows, memory, serverVars, persisted, late>>

-----------------------------------------------------------------------------
(* ApduTcpServer._handle_client *)

IsAt(c, place) == conn[c] # NoConnection /\ conn[c].at = place

\* A broken variant: the loop goes on whatever stop() has said.
LoopAnyway(c) == [conn[c] EXCEPT !.at = "reading"]

\* while self._running: another read, or the end of the connection
Loop(c) == IF Running THEN [conn[c] EXCEPT !.at = "reading"] ELSE NoConnection

\* A connection to a port whose eUICC has no dispatcher is closed at once.
Accept(c) ==
  /\ IsAt(c, "accepted")
  /\ conn' = [conn EXCEPT ![c] = IF conn[c].eid \in dispatchers THEN Loop(c) ELSE NoConnection]
  /\ UNCHANGED <<phase, waits_closed, rows, memory, serverVars, persisted, late>>

\* One read: the commands it completes are executed and answered.  An exception
\* that leaves a handler ends the connection, the commands before it done.
Read(c) ==
  /\ IsAt(c, "reading")
  /\ conn[c].sent
  /\ Execute(conn[c].eid)
  /\ \E k \in {[conn[c] EXCEPT !.at = "draining", !.sent = FALSE], NoConnection} :
       conn' = [conn EXCEPT ![c] = k]
  /\ late' = [late EXCEPT ![c] = IF Running THEN 0 ELSE IF late[c] = 0 THEN 1 ELSE 2]
  /\ UNCHANGED <<phase, waits_closed, rows, serverVars, persisted>>

\* The client has taken its answers.
Drain(c) ==
  /\ IsAt(c, "draining")
  /\ conn' = [conn EXCEPT ![c] = Loop(c)]
  /\ UNCHANGED <<phase, waits_closed, rows, memory, serverVars, persisted, late>>

\* A broken variant: an empty read is read again.
ReadAgain(c) == conn[c]

AfterEof(c) == NoConnection

ReadEof(c) ==
  /\ IsAt(c, "reading")
  /\ ~conn[c].sent
  /\ conn[c].eof
  /\ conn' = [conn EXCEPT ![c] = AfterEof(c)]
  /\ UNCHANGED <<phase, waits_closed, rows, memory, serverVars, persisted, late>>

-----------------------------------------------------------------------------
(* Shutdown *)

\* A broken variant: a server counts as closed as soon as it listens no more.
ListensNoMore == TRUE

\* wait_closed of the server closed last has returned.
HasClosed == \A c \in Clients : conn[c] # NoConnection => conn[c].eid # awaited

\* All instances are written; rows of other EIDs stay.
Saved == [e \in Eids |-> IF memory[e] # NoEuicc THEN memory[e] ELSE rows[e]]

\* A broken variant: an eUICC written before the error keeps its new row.
KeptSoFar ==
  LET first == CHOOSE e \in ExtraEids : TRUE
  IN [rows EXCEPT ![first] = Saved[first]]

\* What an error leaves: one transaction holds all rows.
RolledBack == rows

\* persist_euiccs: an error is logged, and the shutdown goes on.
Persist ==
  /\ phase' = "exiting"
  /\ servers' = <<>>
  /\ awaited' = NoServer
  /\ \/ rows' = Saved /\ persisted' = TRUE
     \/ rows' = RolledBack /\ persisted' = FALSE
  /\ UNCHANGED <<waits_closed, memory, dispatchers, conn, late>>

\* The server asks for the end of lifespan, when HTTP requests are over, and
\* stop() begins.  Where wait_closed does not wait it never gives way either:
\* all servers are closed and the eUICCs persisted at once.
RequestStop ==
  /\ phase = "serving"
  /\ IF waits_closed
     THEN /\ phase' = "stopping"
          /\ UNCHANGED <<waits_closed, rows, memory, serverVars, conn, persisted, late>>
     ELSE Persist

\* stop() closes the servers one by one; the others still listen.
CloseServer ==
  /\ phase = "stopping"
  /\ HasClosed
  /\ servers # <<>>
  /\ awaited' = Head(servers)
  /\ servers' = Tail(servers)
  /\ UNCHANGED <<phase, waits_closed, rows, memory, dispatchers, conn, persisted, late>>

PersistClosed == phase = "stopping" /\ servers = <<>> /\ HasClosed /\ Persist

\* The process is gone, and with it all but the database.
Gone ==
  /\ phase' = "down"
  /\ memory' = [e \in Eids |-> NoEuicc]
  /\ dispatchers' = {}
  /\ servers' = <<>>
  /\ awaited' = NoServer
  /\ conn' = [c \in Clients |-> NoConnection]
  /\ persisted' = FALSE
  /\ late' = [c \in Clients |-> 0]
  /\ UNCHANGED <<waits_closed, rows>>

Exit == phase = "exiting" /\ Gone

\* Also a startup that fails to bind: lifespan raises, nothing is persisted.
Crash == phase \in {"binding", "serving", "stopping"} /\ Gone

-----------------------------------------------------------------------------
(* Specification *)

\* The database of a first start is empty, or holds rows that an earlier
\* release's test eUICCs or a copied file left there.
LifeInit ==
  /\ phase = "down"
  /\ waits_closed \in BOOLEAN
  /\ rows \in [Eids -> {TestEuicc, NoRow}]
  /\ memory = [e \in Eids |-> NoEuicc]
  /\ dispatchers = {}
  /\ servers = <<>>
  /\ awaited = NoServer
  /\ conn = [c \in Clients |-> NoConnection]
  /\ persisted = FALSE
  /\ late = [c \in Clients |-> 0]

Handler(c) == Accept(c) \/ Read(c) \/ ReadEof(c)

ClientNext(c) ==
  (\E e \in Eids : Connect(c, e)) \/ Send(c) \/ HangUp(c) \/ Drain(c)

Shutdown == CloseServer \/ PersistClosed \/ Exit

LifeNext ==
  \/ Start \/ Bind \/ RequestStop \/ Shutdown \/ Crash
  \/ \E e \in Eids : HttpPost(e)
  \/ \E c \in Clients : Handler(c) \/ ClientNext(c)

\* The event loop runs what is ready.  Nothing is assumed of the operator, who
\* starts and stops, nor of the clients, who may keep a connection for good
\* or never take an answer (Drain).
LifeFairness ==
  /\ WF_lifeVars(Shutdown)
  /\ \A c \in Clients : WF_lifeVars(Handler(c))

LifeSpec == LifeInit /\ [][LifeNext]_lifeVars /\ LifeFairness

-----------------------------------------------------------------------------
(* Properties *)

\* Types of the process's and the database's state; only a process that runs
\* has instances, and an EID of the database always has one.
LifecycleTypeOK ==
  /\ phase \in {"down", "binding", "serving", "stopping", "exiting"}
  /\ waits_closed \in BOOLEAN
  /\ rows \in [Eids -> Euicc \union {NoRow}]
  /\ memory \in [Eids -> Euicc \union {NoEuicc}]
  /\ dispatchers \subseteq Instances
  /\ servers \in Seq(Eids)
  /\ ToSet(servers) \subseteq Instances
  /\ awaited \in Eids \union {NoServer}
  /\ conn \in [Clients -> Connection \union {NoConnection}]
  /\ persisted \in BOOLEAN
  /\ late \in [Clients -> 0..2]
  /\ IsUp <=> Instances # {}
  /\ IsUp => \A e \in ExtraEids : rows[e] # NoRow <=> e \in Instances

\* Where wait_closed waits, no command comes between the commit of
\* persist_euiccs and the end of the process: what the rows say is what the
\* clients were last told (lifespan's stop() before persist_euiccs).
SavedIsCurrent ==
  phase = "exiting" /\ persisted /\ waits_closed =>
    \A e \in Instances : rows[e] = memory[e]

\* Once stop() was called a connection has at most one more read handled,
\* however its bytes come, and whatever closes first (_handle_client's loop).
OneMoreRead == \A c \in Clients : late[c] <= 1

\* A shutdown that was asked for ends, unless some client keeps a connection
\* open and silent, or leaves its answers unread, for ever.
KeepsOpen(c) ==
  \/ IsAt(c, "reading") /\ ~conn[c].sent /\ ~conn[c].eof
  \/ IsAt(c, "draining")

ShutdownEnds ==
  \/ phase = "stopping" ~> phase = "down"
  \/ <>[](waits_closed /\ \E c \in Clients : KeepsOpen(c))

\* For the eUICCs it restores, the simulator is a store that is saved as a
\* whole: what clients see is memory, or the rows while there is no process.
\* Crashes, failed commits, late commands and restarts are updates, saves and
\* reverts.
VisibleRow(e) ==
  IF phase = "down" THEN rows[e]
  ELSE IF memory[e] = NoEuicc THEN NoRow ELSE memory[e]

Durability == INSTANCE DurableStore WITH
  Objects <- ExtraEids,
  Values <- Euicc \union {NoRow},
  visible <- [e \in ExtraEids |-> VisibleRow(e)],
  saved <- [e \in ExtraEids |-> rows[e]]

ImplementsDurableStore == Durability!Spec

\* While the server runs, a connection it accepts is served ("The server accepts
\* connections, reads raw APDU bytes, dispatches to the ES10 handlers",
\* tcp_server.py).
PortsServe ==
  [][\A c \in Clients :
       IsAt(c, "accepted") /\ Running' => conn'[c] # NoConnection]_lifeVars

\* What was persisted is there again after the next start ("so state survives
\* server restarts", database.py).
StateSurvives ==
  [][phase = "down" /\ phase' = "binding" =>
       \A e \in Eids : rows[e] # NoRow => memory'[e] = rows[e]]_lifeVars
=============================================================================
