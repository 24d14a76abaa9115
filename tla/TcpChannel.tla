------------------------------ MODULE TcpChannel ------------------------------
(***************************************************************************)
(* The TCP front end: app/transport/tcp_server.py with the segment buffer  *)
(* of app/transport/tcp_protocol.py.  Every connection has a handler, and  *)
(* so a segment buffer, of its own; all of them dispatch to one eUICC.     *)
(*                                                                         *)
(* TCP keeps a connection's frames in order, and nothing comes between a   *)
(* frame and its handling but the end of the connection.  A segment that   *)
(* is on its way then is one that was never sent, so that sending and      *)
(* handling are one step here.  FrameParser models how frames are found in *)
(* the stream.                                                             *)
(***************************************************************************)
EXTENDS Segments

VARIABLES
  connected,      \* the clients that have a connection
  isd_selected,   \* ApduConnectionHandler.isd_selected, per connection
  segments,       \* ApduSegmentBuffer.segments, per connection
  expected_block, \* ApduSegmentBuffer.expected_block, per connection
  dispatched,     \* history: the data passed to the dispatcher
  missed          \* history: commands sent whole and not dispatched, in a row

handlerVars == <<connected, isd_selected, segments, expected_block>>

tcpVars == <<clientVars, handlerVars, dispatched, missed>>

-----------------------------------------------------------------------------
(* The segment buffer *)

SetBuffer(c, data, block) ==
  /\ segments' = [segments EXCEPT ![c] = data]
  /\ expected_block' = [expected_block EXCEPT ![c] = block]

\* A broken variant: the segments stay when the count goes back.
ForgetCount(c) == SetBuffer(c, segments[c], 0)

\* reset
ResetBuffer(c) == SetBuffer(c, <<>>, 0)

AddSegment(c, segment) ==
  SetBuffer(c, Append(segments[c], segment), expected_block[c] + 1)

-----------------------------------------------------------------------------
(* The connection handler *)

\* _handle_client: a connection begins with a new handler.
Connect(c) ==
  /\ c \notin connected
  /\ connected' = connected \union {c}
  /\ isd_selected' = [isd_selected EXCEPT ![c] = FALSE]
  /\ ResetBuffer(c)
  /\ UNCHANGED <<clientVars, dispatched, missed>>

\* The client hangs up, the connection breaks, or the server stops.
Disconnect(c) ==
  /\ c \in connected
  /\ connected' = connected \ {c}
  /\ StopSending(c)
  /\ missed' = [missed EXCEPT ![c] = 0]
  /\ UNCHANGED <<isd_selected, segments, expected_block, dispatched>>

\* A client begins a command, or gives one up.
BeginCommand(c) ==
  /\ c \in connected
  /\ \E length \in 1..MaxLength : Submit(c, length)
  /\ UNCHANGED <<handlerVars, dispatched, missed>>

GiveUpCommand(c) ==
  /\ IsSending(c)
  /\ StopSending(c)
  /\ missed' = [missed EXCEPT ![c] = 0]
  /\ UNCHANGED <<handlerVars, dispatched>>

\* _handle_select, with the ISD-R's AID or with another one
SelectIsdr(c) ==
  /\ isd_selected' = [isd_selected EXCEPT ![c] = TRUE]
  /\ ResetBuffer(c)

SelectOther(c) ==
  /\ isd_selected' = [isd_selected EXCEPT ![c] = FALSE]
  /\ UNCHANGED <<segments, expected_block>>

HandleSelect(c) ==
  /\ c \in connected
  /\ ~IsSending(c)
  /\ SelectIsdr(c) \/ SelectOther(c)
  /\ UNCHANGED <<clientVars, connected, dispatched, missed>>

\* A client that reads 6985 gives its command up.
RefuseUnselected(c) ==
  /\ ~isd_selected[c]
  /\ StopSending(c)
  /\ UNCHANGED <<handlerVars, dispatched, missed>>

\* A broken variant: the buffer goes on waiting for the block it expects.
KeepOnMismatch(c) == UNCHANGED <<segments, expected_block>>

\* A broken variant: the block that does not match counts as one.
CountOnMismatch(c) == SetBuffer(c, segments[c], expected_block[c] + 1)

OnMismatch(c) == ResetBuffer(c)

\* The segment is dropped with the ones before it, and acknowledged.
DropMismatched(c) ==
  /\ isd_selected[c]
  /\ BlockNumber(NextSegment(c)) # expected_block[c]
  /\ SegmentSent(c)
  /\ OnMismatch(c)
  /\ missed' = [missed EXCEPT ![c] = IF NextSegment(c).last THEN @ + 1 ELSE @]
  /\ UNCHANGED <<connected, isd_selected, dispatched>>

StoreSegment(c) ==
  /\ isd_selected[c]
  /\ BlockNumber(NextSegment(c)) = expected_block[c]
  /\ ~NextSegment(c).last
  /\ AddSegment(c, NextSegment(c))
  /\ SegmentSent(c)
  /\ UNCHANGED <<connected, isd_selected, dispatched, missed>>

\* The buffer is reset before the dispatcher is called. A command whose length
\* field is cut short raises out of identify_command and ends the connection.
Dispatch(c) ==
  /\ isd_selected[c]
  /\ BlockNumber(NextSegment(c)) = expected_block[c]
  /\ NextSegment(c).last
  /\ dispatched' = Append(dispatched, Append(segments[c], NextSegment(c)))
  /\ ResetBuffer(c)
  /\ SegmentSent(c)
  /\ missed' = [missed EXCEPT ![c] = 0]
  /\ connected' \in {connected, connected \ {c}}
  /\ UNCHANGED isd_selected

\* _handle_store_data
HandleStoreData(c) ==
  /\ IsSending(c)
  /\ RefuseUnselected(c) \/ DropMismatched(c) \/ StoreSegment(c) \/ Dispatch(c)

-----------------------------------------------------------------------------
(* Specification *)

TcpInit ==
  /\ ClientsInit
  /\ connected = {}
  /\ isd_selected = [c \in Senders |-> FALSE]
  /\ segments = [c \in Senders |-> <<>>]
  /\ expected_block = [c \in Senders |-> 0]
  /\ dispatched = <<>>
  /\ missed = [c \in Senders |-> 0]

TcpNext ==
  \E c \in Senders :
    \/ Connect(c)
    \/ Disconnect(c)
    \/ BeginCommand(c)
    \/ GiveUpCommand(c)
    \/ HandleSelect(c)
    \/ HandleStoreData(c)

TcpSpec == TcpInit /\ [][TcpNext]_tcpVars

-----------------------------------------------------------------------------
(* Properties *)

\* Types of the connections, their buffers and the histories.
TcpTypeOK ==
  /\ sending \in [Senders -> Transmission \union {Nothing}]
  /\ submitted \in Nat
  /\ connected \subseteq Senders
  /\ isd_selected \in [Senders -> BOOLEAN]
  /\ segments \in [Senders -> Seq(Segment)]
  /\ expected_block \in [Senders -> 0..(MaxLength - 1)]
  /\ dispatched \in Seq(Seq(Segment))
  /\ missed \in [Senders -> Nat]

\* What reaches the dispatcher is one command from its first segment to its
\* last, however many were begun and given up on the connection before ("All
\* segments received -- assemble and dispatch", _handle_store_data).
DispatchedWhole == \A i \in DOMAIN dispatched : IsWhole(dispatched[i])

\* A command may be lost to the rest of one that was given up. The next is not:
\* of two sent whole in a row, one is dispatched (ApduSegmentBuffer.add_segment).
LosesOneAtMost == \A c \in Senders : missed[c] <= 1

Channel == INSTANCE CommandChannel WITH
  pending <- [c \in Senders |-> IF IsSending(c) THEN sending[c].command ELSE 0],
  executed <- [i \in DOMAIN dispatched |-> CommandOf(dispatched[i])],
  issued <- submitted

\* Connections, buffers and block numbers implement the channel on which every
\* command is executed once or dropped (tcp_server.py, tcp_protocol.py).
ImplementsChannel == Channel!Spec
=============================================================================
