------------------------------- MODULE Segments -------------------------------
(***************************************************************************)
(* The clients of the APDU front ends.  A client cuts a command into       *)
(* STORE DATA segments and numbers them from 0 in P2, a byte; bit 7 of P1  *)
(* marks the last.  It sends them in order, one command at a time, may     *)
(* give a command up anywhere (its user cancels, it times out, it loses    *)
(* its memory) and start another.                                          *)
(***************************************************************************)
EXTENDS Integers, Sequences

CONSTANTS
  Senders,    \* the clients
  Nothing,    \* what a client that is between commands is sending
  Blocks,     \* block numbers that P2 can hold, 256
  MaxLength,  \* the longest command, in segments
  MaxCommands \* bound: commands that are sent in a run

ASSUME SegmentsAssumption ==
  /\ Blocks \in Nat \ {0}
  /\ MaxLength \in Nat \ {0}
  /\ MaxCommands \in Nat

VARIABLES
  sending,  \* per client, the command it is sending
  submitted \* commands begun so far

clientVars == <<sending, submitted>>

\* A segment knows the command it was cut from; that is not in its bytes.
Segment == [command : Nat, index : Nat, last : BOOLEAN]

Transmission == {t \in [command : Nat, length : 1..MaxLength, next : Nat] :
                   t.next < t.length}

ASSUME NothingAssumption == Nothing \notin Transmission

NextSegment(s) ==
  [command |-> sending[s].command,
   index |-> sending[s].next,
   last |-> sending[s].next + 1 = sending[s].length]

\* P2 of a segment
BlockNumber(segment) == segment.index % Blocks

\* The segments are those of one command, all of them, in order.
IsWhole(segments) ==
  /\ segments # <<>>
  /\ \A i \in DOMAIN segments :
       segments[i] = [command |-> segments[1].command,
                      index |-> i - 1,
                      last |-> i = Len(segments)]

\* The command that data handed to the dispatcher is, 0 for a mixture.
CommandOf(data) == IF IsWhole(data) THEN data[1].command ELSE 0

ClientsInit ==
  /\ sending = [s \in Senders |-> Nothing]
  /\ submitted = 0

IsSending(s) == sending[s] # Nothing

Submit(s, length) ==
  /\ ~IsSending(s)
  /\ submitted < MaxCommands
  /\ submitted' = submitted + 1
  /\ sending' = [sending EXCEPT
       ![s] = [command |-> submitted + 1, length |-> length, next |-> 0]]

\* The next segment is out; after the last, the client is done.
SegmentSent(s) ==
  /\ sending' = [sending EXCEPT
       ![s] = IF NextSegment(s).last THEN Nothing ELSE [sending[s] EXCEPT !.next = @ + 1]]
  /\ UNCHANGED submitted

StopSending(s) ==
  /\ sending' = [sending EXCEPT ![s] = Nothing]
  /\ UNCHANGED submitted
=============================================================================
