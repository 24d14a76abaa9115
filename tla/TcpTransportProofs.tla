-------------------------- MODULE TcpTransportProofs --------------------------
(***************************************************************************)
(* Proofs about the TCP transport: first TcpChannel, then FrameParser.     *)
(*                                                                         *)
(* TcpChannel, for any number of connections and commands and any number   *)
(* of blocks that the longest command does not exceed (with P2 a byte:     *)
(* commands of up to 256 segments).  A connection's buffer is in step with *)
(* its client when it holds what the client has sent of its command.  In   *)
(* the middle of a command it is in step or empty: a command that met the  *)
(* rest of another is dropped from its first segment on, and block numbers *)
(* other than 0 cannot bring it back.                                      *)
(*                                                                         *)
(* FrameParser, for any lists of case 3 commands with any data that an     *)
(* extended Lc can announce, read in pieces of any sizes: as long as no    *)
(* read ends behind a header and the frames fit, the parser has returned   *)
(* the commands that end in what was read, and buffers the stream behind   *)
(* them.  The induction over a read is over the turns of feed's loop, each *)
(* of which takes the next command or finds the rest incomplete.           *)
(***************************************************************************)
EXTENDS TcpChannel, FrameParser, SequenceLemmas

\* The buffer holds the segments sent of the command under way.
InStep(c) ==
  /\ Len(segments[c]) = sending[c].next
  /\ \A i \in 1..sending[c].next :
       segments[c][i] = [command |-> sending[c].command, index |-> i - 1, last |-> FALSE]

BlocksCounted(c) == expected_block[c] = Len(segments[c])

InStepOrEmpty(c) ==
  isd_selected[c] /\ IsSending(c) /\ sending[c].next > 0 =>
    InStep(c) \/ segments[c] = <<>>

\* After a command was lost, the next is in step from its first segment.
ReadyAfterLoss(c) ==
  missed[c] = 1 =>
    IF isd_selected[c] /\ IsSending(c) THEN InStep(c) ELSE segments[c] = <<>>

CommandsNumbered(c) == IsSending(c) => sending[c].command > 0

ConnectionInv(c) ==
  /\ BlocksCounted(c)
  /\ InStepOrEmpty(c)
  /\ ReadyAfterLoss(c)
  /\ CommandsNumbered(c)

TcpInv ==
  /\ TcpTypeOK
  /\ DispatchedWhole
  /\ LosesOneAtMost
  /\ \A c \in Senders : ConnectionInv(c)

-----------------------------------------------------------------------------

LEMMA TransmissionFields ==
  ASSUME NEW t \in Transmission
  PROVE  /\ t = [command |-> t.command, length |-> t.length, next |-> t.next]
         /\ t.command \in Nat
         /\ t.length \in 1..MaxLength
         /\ t.next \in Nat
         /\ t.next < t.length
  BY DEF Transmission

LEMMA ModSmall ==
  ASSUME NEW a \in Nat, NEW b \in Nat, a < b
  PROVE  a % b = a
  OBVIOUS

\* The segment a client sends next, and what its transmission becomes.
LEMMA NextSegmentIs ==
  ASSUME SegmentsAssumption, MaxLength <= Blocks, TcpTypeOK,
         NEW c \in Senders, IsSending(c)
  PROVE  /\ sending[c] \in Transmission
         /\ NextSegment(c) \in Segment
         /\ BlockNumber(NextSegment(c)) = sending[c].next
         /\ NextSegment(c).last \in BOOLEAN
         /\ ~NextSegment(c).last =>
              [sending[c] EXCEPT !.next = @ + 1] \in Transmission
         /\ NextSegment(c).command = sending[c].command
         /\ NextSegment(c).index = sending[c].next
         /\ NextSegment(c).last <=> sending[c].next + 1 = sending[c].length
<1>1. sending[c] \in Transmission
  BY DEF TcpTypeOK, IsSending
<1>2. /\ sending[c].command \in Nat
      /\ sending[c].length \in 1..MaxLength
      /\ sending[c].next \in Nat
      /\ sending[c].next < sending[c].length
  BY <1>1, TransmissionFields
<1>3. sending[c].next < Blocks
  BY <1>2 DEF SegmentsAssumption
<1>4. NextSegment(c) \in Segment
  BY <1>2 DEF NextSegment, Segment
<1>5. BlockNumber(NextSegment(c)) = sending[c].next
  BY <1>2, <1>3, ModSmall DEF NextSegment, BlockNumber, SegmentsAssumption
<1>6. ASSUME ~NextSegment(c).last
      PROVE  [sending[c] EXCEPT !.next = @ + 1] \in Transmission
  <2>1. sending[c] = [command |-> sending[c].command, length |-> sending[c].length,
                      next |-> sending[c].next]
    BY <1>1, TransmissionFields
  <2>2. sending[c].next + 1 # sending[c].length
    BY <1>6 DEF NextSegment
  <2>3. [command |-> sending[c].command, length |-> sending[c].length,
         next |-> sending[c].next + 1] \in Transmission
    BY <1>2, <2>2 DEF Transmission
  <2>4. [sending[c] EXCEPT !.next = @ + 1] =
          [command |-> sending[c].command, length |-> sending[c].length,
           next |-> sending[c].next + 1]
    BY <2>1
  <2> QED BY <2>3, <2>4
<1> QED BY <1>1, <1>2, <1>4, <1>5, <1>6 DEF NextSegment

\* A command dispatched in step is whole.
LEMMA InStepIsWhole ==
  ASSUME SegmentsAssumption, MaxLength <= Blocks, TcpTypeOK,
         NEW c \in Senders, IsSending(c), InStep(c), NextSegment(c).last
  PROVE  /\ IsWhole(Append(segments[c], NextSegment(c)))
         /\ Append(segments[c], NextSegment(c))[1].command = sending[c].command
<1> DEFINE data == Append(segments[c], NextSegment(c))
<1>1. /\ sending[c].next \in Nat
      /\ NextSegment(c) = [command |-> sending[c].command,
                           index |-> sending[c].next, last |-> TRUE]
  BY NextSegmentIs, TransmissionFields DEF NextSegment
<1>2. segments[c] \in Seq(Segment)
  BY DEF TcpTypeOK
<1>3. Len(segments[c]) = sending[c].next
  BY DEF InStep
<1>4. data # <<>> /\ Len(data) = sending[c].next + 1 /\ DOMAIN data = 1..(sending[c].next + 1)
  BY <1>2, <1>3, NextSegmentIs
<1>5. ASSUME NEW i \in DOMAIN data
      PROVE  data[i] = [command |-> sending[c].command, index |-> i - 1,
                        last |-> i = Len(data)]
  <2>1. CASE i = sending[c].next + 1
    <3>1. data[i] = NextSegment(c)
      BY <1>2, <1>3, <2>1, NextSegmentIs
    <3>2. (i = Len(data)) = TRUE
      BY <1>4, <2>1
    <3>3. i - 1 = sending[c].next
      BY <1>1, <2>1
    <3> QED BY <1>1, <3>1, <3>2, <3>3
  <2>2. CASE i \in 1..sending[c].next
    <3>1. data[i] = segments[c][i]
      BY <1>2, <1>3, <2>2
    <3>2. segments[c][i] = [command |-> sending[c].command, index |-> i - 1, last |-> FALSE]
      BY <2>2 DEF InStep
    <3>3. (i = Len(data)) = FALSE
      BY <1>1, <1>4, <2>2
    <3> QED BY <3>1, <3>2, <3>3
  <2> QED BY <1>1, <1>4, <1>5, <2>1, <2>2
<1>6. 1 \in DOMAIN data
  BY <1>1, <1>4
<1>7. data[1].command = sending[c].command
  <2>1. data[1] = [command |-> sending[c].command, index |-> 1 - 1, last |-> 1 = Len(data)]
    BY <1>5, <1>6
  <2> HIDE DEF data
  <2> QED BY <2>1
<1> QED BY <1>4, <1>5, <1>7 DEF IsWhole

-----------------------------------------------------------------------------

LEMMA TcpInvInit ==
  ASSUME SegmentsAssumption
  PROVE  TcpInit => TcpInv
<1> SUFFICES ASSUME TcpInit PROVE TcpInv
  OBVIOUS
<1>1. TcpTypeOK
  BY DEF TcpInit, ClientsInit, TcpTypeOK, SegmentsAssumption
<1>2. DispatchedWhole /\ LosesOneAtMost
  BY DEF TcpInit, DispatchedWhole, LosesOneAtMost
<1>3. ASSUME NEW c \in Senders PROVE ConnectionInv(c)
  BY <1>3 DEF TcpInit, ClientsInit, IsSending, ConnectionInv, BlocksCounted,
    InStepOrEmpty, ReadyAfterLoss, CommandsNumbered
<1> QED BY <1>1, <1>2, <1>3 DEF TcpInv

\* A step that leaves a connection's variables alone.
Untouched(d) ==
  /\ sending'[d] = sending[d]
  /\ isd_selected'[d] = isd_selected[d]
  /\ segments'[d] = segments[d]
  /\ expected_block'[d] = expected_block[d]
  /\ missed'[d] = missed[d]

\* A step of one connection is judged on that connection.
LEMMA OneConnection ==
  ASSUME TcpInv, NEW c \in Senders, TcpTypeOK', DispatchedWhole',
         ConnectionInv(c)', (missed[c] <= 1)',
         \A d \in Senders \ {c} : Untouched(d)
  PROVE  TcpInv'
<1>1. ASSUME NEW d \in Senders, d # c PROVE ConnectionInv(d)' /\ (missed[d] <= 1)'
  <2>1. Untouched(d) /\ ConnectionInv(d) /\ missed[d] <= 1
    BY <1>1 DEF TcpInv, LosesOneAtMost
  <2>2. InStep(d)' <=> InStep(d)
    BY <2>1 DEF Untouched, InStep
  <2> QED
    BY <2>1, <2>2 DEF Untouched, ConnectionInv, BlocksCounted, InStepOrEmpty,
      ReadyAfterLoss, CommandsNumbered, IsSending
<1>2. ASSUME NEW d \in Senders PROVE ConnectionInv(d)' /\ (missed[d] <= 1)'
  BY <1>1, <1>2
<1> QED BY <1>2 DEF TcpInv, LosesOneAtMost

LEMMA ConnectStep ==
  ASSUME SegmentsAssumption, TcpInv, NEW c \in Senders, Connect(c)
  PROVE  TcpInv'
<1> USE DEF Connect, ResetBuffer, SetBuffer, clientVars
<1>1. TcpTypeOK'
  BY DEF TcpInv, TcpTypeOK, SegmentsAssumption
<1>2. /\ segments'[c] = <<>> /\ expected_block'[c] = 0 /\ isd_selected'[c] = FALSE
      /\ missed'[c] = missed[c] /\ sending'[c] = sending[c]
  BY DEF TcpInv, TcpTypeOK
<1>3. ConnectionInv(c)' /\ (missed[c] <= 1)'
  BY <1>2 DEF TcpInv, ConnectionInv, BlocksCounted, InStepOrEmpty, ReadyAfterLoss,
    CommandsNumbered, IsSending, LosesOneAtMost
<1>4. DispatchedWhole'
  BY DEF TcpInv, DispatchedWhole
<1>5. \A d \in Senders \ {c} : Untouched(d)
  BY DEF TcpInv, TcpTypeOK, Untouched
<1> QED BY <1>1, <1>3, <1>4, <1>5, OneConnection

LEMMA ClientStopStep ==
  ASSUME SegmentsAssumption, TcpInv, NEW c \in Senders, Disconnect(c) \/ GiveUpCommand(c)
  PROVE  TcpInv'
<1>1. /\ sending' = [sending EXCEPT ![c] = Nothing]
      /\ missed' = [missed EXCEPT ![c] = 0]
      /\ connected' \subseteq connected
      /\ UNCHANGED <<submitted, isd_selected, segments, expected_block, dispatched>>
  BY DEF Disconnect, GiveUpCommand, StopSending, handlerVars
<1>2. TcpTypeOK'
  BY <1>1 DEF TcpInv, TcpTypeOK
<1>3. sending'[c] = Nothing /\ missed'[c] = 0
  BY <1>1 DEF TcpInv, TcpTypeOK
<1>4. ConnectionInv(c)' /\ (missed[c] <= 1)'
  BY <1>1, <1>3 DEF TcpInv, ConnectionInv, BlocksCounted, InStepOrEmpty, ReadyAfterLoss,
    CommandsNumbered, IsSending
<1>5. DispatchedWhole'
  BY <1>1 DEF TcpInv, DispatchedWhole
<1>6. \A d \in Senders \ {c} : Untouched(d)
  BY <1>1 DEF TcpInv, TcpTypeOK, Untouched
<1> QED BY <1>2, <1>4, <1>5, <1>6, OneConnection

\* A command begins in step if the buffer is empty; with segments left in it,
\* nothing has been lost.
LEMMA BeginCommandStep ==
  ASSUME SegmentsAssumption, NothingAssumption, TcpInv,
         NEW c \in Senders, BeginCommand(c)
  PROVE  TcpInv'
<1>1. PICK length \in 1..MaxLength : Submit(c, length)
  BY DEF BeginCommand
<1> DEFINE t == [command |-> submitted + 1, length |-> length, next |-> 0]
<1>2. /\ sending' = [sending EXCEPT ![c] = t]
      /\ submitted' = submitted + 1
      /\ ~IsSending(c)
      /\ UNCHANGED <<connected, isd_selected, segments, expected_block, dispatched, missed>>
  BY <1>1 DEF BeginCommand, Submit, handlerVars
<1>3. t \in Transmission
  BY DEF TcpInv, TcpTypeOK, Transmission
<1>4. TcpTypeOK'
  BY <1>2, <1>3 DEF TcpInv, TcpTypeOK
<1>5. sending'[c] = t
  BY <1>2 DEF TcpInv, TcpTypeOK
<1>6. segments[c] = <<>> => InStep(c)'
  <2>1. sending'[c].next = 0
    BY <1>5
  <2> QED BY <1>2, <2>1 DEF InStep
<1>7. ReadyAfterLoss(c)'
  BY <1>2, <1>6 DEF TcpInv, ConnectionInv, ReadyAfterLoss
<1>8. CommandsNumbered(c)' /\ InStepOrEmpty(c)' /\ BlocksCounted(c)'
  BY <1>2, <1>5 DEF TcpInv, TcpTypeOK, ConnectionInv, CommandsNumbered, InStepOrEmpty,
    BlocksCounted
<1>9. (missed[c] <= 1)' /\ DispatchedWhole'
  BY <1>2 DEF TcpInv, DispatchedWhole, LosesOneAtMost
<1>10. \A d \in Senders \ {c} : Untouched(d)
  BY <1>2 DEF TcpInv, TcpTypeOK, Untouched
<1> QED BY <1>4, <1>7, <1>8, <1>9, <1>10, OneConnection DEF ConnectionInv

LEMMA HandleSelectStep ==
  ASSUME SegmentsAssumption, TcpInv, NEW c \in Senders, HandleSelect(c)
  PROVE  TcpInv'
<1>1. /\ ~IsSending(c)
      /\ UNCHANGED <<sending, submitted, connected, dispatched, missed>>
  BY DEF HandleSelect, clientVars
<1>2. \/ /\ isd_selected' = [isd_selected EXCEPT ![c] = TRUE]
         /\ segments' = [segments EXCEPT ![c] = <<>>]
         /\ expected_block' = [expected_block EXCEPT ![c] = 0]
      \/ /\ isd_selected' = [isd_selected EXCEPT ![c] = FALSE]
         /\ UNCHANGED <<segments, expected_block>>
  BY DEF HandleSelect, SelectIsdr, SelectOther, ResetBuffer, SetBuffer
<1>3. TcpTypeOK'
  <2>1. isd_selected' \in [Senders -> BOOLEAN]
    BY <1>2 DEF TcpInv, TcpTypeOK
  <2>3. segments' \in [Senders -> Seq(Segment)]
    <3>1. <<>> \in Seq(Segment)
      OBVIOUS
    <3> QED BY <1>2, <3>1 DEF TcpInv, TcpTypeOK
  <2>2. expected_block' \in [Senders -> 0..(MaxLength - 1)]
    <3>1. 0 \in 0..(MaxLength - 1)
      BY DEF SegmentsAssumption
    <3> QED BY <1>2, <3>1 DEF TcpInv, TcpTypeOK
  <2> QED BY <1>1, <2>1, <2>2, <2>3 DEF TcpInv, TcpTypeOK
<1>4. \/ segments'[c] = <<>> /\ expected_block'[c] = 0
      \/ segments'[c] = segments[c] /\ expected_block'[c] = expected_block[c]
  BY <1>2 DEF TcpInv, TcpTypeOK
<1>5. ConnectionInv(c)' /\ (missed[c] <= 1)'
  BY <1>1, <1>4 DEF TcpInv, ConnectionInv, BlocksCounted, InStepOrEmpty, ReadyAfterLoss,
    CommandsNumbered, IsSending, LosesOneAtMost
<1>6. DispatchedWhole'
  BY <1>1 DEF TcpInv, DispatchedWhole
<1>7. \A d \in Senders \ {c} : Untouched(d)
  BY <1>1, <1>2 DEF TcpInv, TcpTypeOK, Untouched
<1> QED BY <1>3, <1>5, <1>6, <1>7, OneConnection

-----------------------------------------------------------------------------
(* STORE DATA *)

\* The client's side of a segment.
LEMMA SegmentSentIs ==
  ASSUME SegmentsAssumption, MaxLength <= Blocks, TcpTypeOK,
         NEW c \in Senders, IsSending(c), SegmentSent(c)
  PROVE  /\ sending' \in [Senders -> Transmission \union {Nothing}]
         /\ submitted' = submitted
         /\ \A d \in Senders \ {c} : sending'[d] = sending[d]
         /\ NextSegment(c).last => sending'[c] = Nothing
         /\ ~NextSegment(c).last =>
              /\ sending'[c] # Nothing => sending'[c].command = sending[c].command
              /\ sending'[c].next = sending[c].next + 1
<1>1. sending \in [Senders -> Transmission \union {Nothing}]
  BY DEF TcpTypeOK
<1>2. CASE NextSegment(c).last
  BY <1>1, <1>2 DEF SegmentSent
<1>3. CASE ~NextSegment(c).last
  <2> DEFINE t == [sending[c] EXCEPT !.next = @ + 1]
  <2>1. sending' = [sending EXCEPT ![c] = t]
    <3>1. sending' = [sending EXCEPT ![c] = IF NextSegment(c).last THEN Nothing ELSE t]
      BY DEF SegmentSent
    <3>2. (IF NextSegment(c).last THEN Nothing ELSE t) = t
      BY <1>3
    <3> HIDE DEF t
    <3> QED BY <3>1, <3>2
  <2>2. t \in Transmission
    BY <1>3, NextSegmentIs
  <2>3. t.command = sending[c].command /\ t.next = sending[c].next + 1
    <3>1. sending[c] = [command |-> sending[c].command, length |-> sending[c].length,
                        next |-> sending[c].next]
      BY NextSegmentIs, TransmissionFields
    <3> QED BY <3>1
  <2>4. sending'[c] = t
    BY <1>1, <2>1
  <2> HIDE DEF t
  <2>5. sending' \in [Senders -> Transmission \union {Nothing}]
    BY <1>1, <2>1, <2>2
  <2>6. \A d \in Senders \ {c} : sending'[d] = sending[d]
    BY <1>1, <2>1
  <2> QED BY <1>3, <2>3, <2>4, <2>5, <2>6 DEF SegmentSent
<1> QED BY <1>2, <1>3

LEMMA RefuseUnselectedStep ==
  ASSUME SegmentsAssumption, TcpInv, NEW c \in Senders, RefuseUnselected(c), IsSending(c)
  PROVE  TcpInv'
<1>1. /\ sending' = [sending EXCEPT ![c] = Nothing]
      /\ ~isd_selected[c]
      /\ UNCHANGED <<submitted, connected, isd_selected, segments, expected_block,
                     dispatched, missed>>
  BY DEF RefuseUnselected, StopSending, handlerVars
<1>2. TcpTypeOK'
  BY <1>1 DEF TcpInv, TcpTypeOK
<1>3. sending'[c] = Nothing
  BY <1>1 DEF TcpInv, TcpTypeOK
<1>4. ConnectionInv(c)' /\ (missed[c] <= 1)'
  BY <1>1, <1>3 DEF TcpInv, ConnectionInv, BlocksCounted, InStepOrEmpty, ReadyAfterLoss,
    CommandsNumbered, IsSending, LosesOneAtMost
<1>5. DispatchedWhole'
  BY <1>1 DEF TcpInv, DispatchedWhole
<1>6. \A d \in Senders \ {c} : Untouched(d)
  BY <1>1 DEF TcpInv, TcpTypeOK, Untouched
<1> QED BY <1>2, <1>4, <1>5, <1>6, OneConnection

\* In step, the block number is the one expected.
LEMMA InStepMatches ==
  ASSUME SegmentsAssumption, MaxLength <= Blocks, TcpInv,
         NEW c \in Senders, IsSending(c), InStep(c)
  PROVE  BlockNumber(NextSegment(c)) = expected_block[c]
  BY NextSegmentIs DEF InStep, TcpInv, ConnectionInv, BlocksCounted

\* Conversely, a block number that matches is that of a buffer in step.
LEMMA MatchIsInStep ==
  ASSUME SegmentsAssumption, MaxLength <= Blocks, TcpInv,
         NEW c \in Senders, IsSending(c), isd_selected[c],
         BlockNumber(NextSegment(c)) = expected_block[c]
  PROVE  InStep(c)
<1>1. /\ segments[c] \in Seq(Segment)
      /\ sending[c].next \in Nat
      /\ Len(segments[c]) = sending[c].next
  BY NextSegmentIs, TransmissionFields DEF TcpInv, TcpTypeOK, ConnectionInv, BlocksCounted
<1>2. CASE sending[c].next = 0
  BY <1>1, <1>2 DEF InStep
<1>3. CASE sending[c].next > 0
  <2>1. segments[c] # <<>>
    BY <1>1, <1>3
  <2> QED BY <1>3, <2>1 DEF TcpInv, ConnectionInv, InStepOrEmpty
<1> QED BY <1>1, <1>2, <1>3

LEMMA DropMismatchedStep ==
  ASSUME SegmentsAssumption, MaxLength <= Blocks, TcpInv,
         NEW c \in Senders, IsSending(c), DropMismatched(c)
  PROVE  TcpInv'
<1>1. /\ isd_selected[c]
      /\ BlockNumber(NextSegment(c)) # expected_block[c]
      /\ SegmentSent(c)
      /\ segments' = [segments EXCEPT ![c] = <<>>]
      /\ expected_block' = [expected_block EXCEPT ![c] = 0]
      /\ missed' = [missed EXCEPT ![c] = IF NextSegment(c).last THEN @ + 1 ELSE @]
      /\ UNCHANGED <<connected, isd_selected, dispatched>>
  BY DEF DropMismatched, OnMismatch, ResetBuffer, SetBuffer
<1>2. TcpTypeOK
  BY DEF TcpInv
<1>3. /\ sending' \in [Senders -> Transmission \union {Nothing}]
      /\ submitted' = submitted
      /\ \A d \in Senders \ {c} : sending'[d] = sending[d]
      /\ NextSegment(c).last => sending'[c] = Nothing
      /\ ~NextSegment(c).last =>
           /\ sending'[c] # Nothing => sending'[c].command = sending[c].command
           /\ sending'[c].next = sending[c].next + 1
  BY <1>1, <1>2, SegmentSentIs
<1>4. missed[c] = 0
  <2>1. ~InStep(c)
    BY <1>1, InStepMatches
  <2>2. missed[c] # 1 /\ missed[c] <= 1 /\ missed[c] \in Nat
    BY <1>1, <2>1 DEF TcpInv, TcpTypeOK, LosesOneAtMost, ConnectionInv, ReadyAfterLoss
  <2> QED BY <2>2
<1>5. TcpTypeOK'
  <2>1. segments' \in [Senders -> Seq(Segment)]
    BY <1>1, <1>2 DEF TcpTypeOK
  <2>2. 0 \in 0..(MaxLength - 1)
    BY DEF SegmentsAssumption
  <2>3. expected_block' \in [Senders -> 0..(MaxLength - 1)]
    BY <1>1, <1>2, <2>2 DEF TcpTypeOK
  <2>4. missed' \in [Senders -> Nat]
    BY <1>1, <1>2 DEF TcpTypeOK
  <2> QED BY <1>1, <1>2, <1>3, <2>1, <2>3, <2>4 DEF TcpTypeOK
<1>6. /\ segments'[c] = <<>> /\ expected_block'[c] = 0
      /\ missed'[c] = IF NextSegment(c).last THEN 1 ELSE 0
  BY <1>1, <1>2, <1>4 DEF TcpTypeOK
<1>7. /\ BlocksCounted(c)'
      /\ InStepOrEmpty(c)'
      /\ (missed[c] <= 1)'
  BY <1>6 DEF BlocksCounted, InStepOrEmpty
<1>8. ReadyAfterLoss(c)' /\ CommandsNumbered(c)'
  BY <1>3, <1>6 DEF ReadyAfterLoss, CommandsNumbered, IsSending, TcpInv, ConnectionInv
<1>9. DispatchedWhole'
  BY <1>1 DEF TcpInv, DispatchedWhole
<1>10. \A d \in Senders \ {c} : Untouched(d)
  BY <1>1, <1>2, <1>3 DEF TcpTypeOK, Untouched
<1> QED BY <1>5, <1>7, <1>8, <1>9, <1>10, OneConnection DEF ConnectionInv

LEMMA StoreSegmentStep ==
  ASSUME SegmentsAssumption, MaxLength <= Blocks, TcpInv,
         NEW c \in Senders, IsSending(c), StoreSegment(c)
  PROVE  TcpInv'
<1>1. /\ isd_selected[c]
      /\ BlockNumber(NextSegment(c)) = expected_block[c]
      /\ ~NextSegment(c).last
      /\ SegmentSent(c)
      /\ segments' = [segments EXCEPT ![c] = Append(segments[c], NextSegment(c))]
      /\ expected_block' = [expected_block EXCEPT ![c] = expected_block[c] + 1]
      /\ UNCHANGED <<connected, isd_selected, dispatched, missed>>
  BY DEF StoreSegment, AddSegment, SetBuffer
<1>2. TcpTypeOK
  BY DEF TcpInv
<1>3. /\ sending' \in [Senders -> Transmission \union {Nothing}]
      /\ submitted' = submitted
      /\ \A d \in Senders \ {c} : sending'[d] = sending[d]
      /\ sending'[c] # Nothing => sending'[c].command = sending[c].command
      /\ sending'[c].next = sending[c].next + 1
  BY <1>1, <1>2, SegmentSentIs
<1>4. InStep(c)
  BY <1>1, MatchIsInStep
<1>5. /\ segments[c] \in Seq(Segment)
      /\ NextSegment(c) \in Segment
      /\ Len(segments[c]) = sending[c].next
      /\ expected_block[c] = sending[c].next
      /\ sending[c].next \in Nat
      /\ sending[c].length \in 1..MaxLength
      /\ sending[c].next < sending[c].length
      /\ sending[c].next + 1 # sending[c].length
  BY <1>1, <1>2, <1>4, NextSegmentIs, TransmissionFields DEF TcpTypeOK, InStep
<1>6. NextSegment(c) = [command |-> sending[c].command, index |-> sending[c].next,
                        last |-> FALSE]
  <2>1. (sending[c].next + 1 = sending[c].length) = FALSE
    BY <1>5
  <2> QED BY <2>1 DEF NextSegment
<1>7. TcpTypeOK'
  <2>1. Append(segments[c], NextSegment(c)) \in Seq(Segment)
    BY <1>5
  <2>2. segments' \in [Senders -> Seq(Segment)]
    BY <1>1, <1>2, <2>1 DEF TcpTypeOK
  <2>3. expected_block[c] + 1 \in 0..(MaxLength - 1)
    BY <1>5 DEF SegmentsAssumption
  <2>4. expected_block' \in [Senders -> 0..(MaxLength - 1)]
    BY <1>1, <1>2, <2>3 DEF TcpTypeOK
  <2> QED BY <1>1, <1>2, <1>3, <2>2, <2>4 DEF TcpTypeOK
<1>8. /\ segments'[c] = Append(segments[c], NextSegment(c))
      /\ expected_block'[c] = expected_block[c] + 1
  BY <1>1, <1>2 DEF TcpTypeOK
<1>9. InStep(c)'
  <2>1. Len(segments'[c]) = sending'[c].next
    BY <1>3, <1>5, <1>8
  <2>2. ASSUME NEW i \in 1..(sending[c].next + 1), sending'[c] # Nothing
        PROVE  segments'[c][i] = [command |-> sending'[c].command, index |-> i - 1,
                                  last |-> FALSE]
    <3>1. CASE i = sending[c].next + 1
      <4>1. segments'[c][i] = NextSegment(c)
        BY <1>5, <1>8, <3>1
      <4>2. i - 1 = sending[c].next
        BY <1>5, <3>1
      <4> QED BY <1>3, <1>6, <2>2, <4>1, <4>2
    <3>2. CASE i \in 1..sending[c].next
      <4>1. segments'[c][i] = segments[c][i]
        BY <1>5, <1>8, <3>2
      <4> QED BY <1>3, <1>4, <2>2, <3>2, <4>1 DEF InStep
    <3> QED BY <1>5, <3>1, <3>2
  <2>3. sending'[c] # Nothing
    <3>1. sending'[c] = [sending[c] EXCEPT !.next = @ + 1]
      BY <1>1, <1>2 DEF SegmentSent, TcpTypeOK
    <3>2. sending'[c] \in Transmission
      BY <1>1, <1>2, <3>1, NextSegmentIs
    <3> QED BY <3>2, NothingAssumption
  <2> QED BY <1>3, <2>1, <2>2, <2>3 DEF InStep
<1>10. BlocksCounted(c)'
  BY <1>5, <1>8 DEF BlocksCounted
<1>11. InStepOrEmpty(c)'
  BY <1>9 DEF InStepOrEmpty
<1>12. IsSending(c)'
  <2>1. [sending[c] EXCEPT !.next = @ + 1] \in Transmission
    BY <1>1, <1>2, NextSegmentIs
  <2>2. sending'[c] = [sending[c] EXCEPT !.next = @ + 1]
    BY <1>1, <1>2 DEF SegmentSent, TcpTypeOK
  <2> QED BY <2>1, <2>2, NothingAssumption DEF IsSending
<1>13. ReadyAfterLoss(c)' /\ (missed[c] <= 1)'
  BY <1>1, <1>9, <1>12 DEF ReadyAfterLoss, TcpInv, LosesOneAtMost
<1>14. CommandsNumbered(c)'
  BY <1>3 DEF CommandsNumbered, IsSending, TcpInv, ConnectionInv
<1>15. DispatchedWhole'
  BY <1>1 DEF TcpInv, DispatchedWhole
<1>16. \A d \in Senders \ {c} : Untouched(d)
  BY <1>1, <1>2, <1>3 DEF TcpTypeOK, Untouched
<1> QED
  BY <1>7, <1>10, <1>11, <1>13, <1>14, <1>15, <1>16, OneConnection DEF ConnectionInv

\* Only a buffer in step dispatches, so that what it dispatches is whole.
LEMMA DispatchStep ==
  ASSUME SegmentsAssumption, MaxLength <= Blocks, TcpInv,
         NEW c \in Senders, IsSending(c), Dispatch(c)
  PROVE  TcpInv'
<1> DEFINE data == Append(segments[c], NextSegment(c))
<1>1. /\ isd_selected[c]
      /\ BlockNumber(NextSegment(c)) = expected_block[c]
      /\ NextSegment(c).last
      /\ SegmentSent(c)
      /\ dispatched' = Append(dispatched, data)
      /\ segments' = [segments EXCEPT ![c] = <<>>]
      /\ expected_block' = [expected_block EXCEPT ![c] = 0]
      /\ missed' = [missed EXCEPT ![c] = 0]
      /\ connected' \in {connected, connected \ {c}}
      /\ isd_selected' = isd_selected
  BY DEF Dispatch, ResetBuffer, SetBuffer
<1>2. TcpTypeOK
  BY DEF TcpInv
<1>3. /\ sending' \in [Senders -> Transmission \union {Nothing}]
      /\ submitted' = submitted
      /\ \A d \in Senders \ {c} : sending'[d] = sending[d]
      /\ sending'[c] = Nothing
  BY <1>1, <1>2, SegmentSentIs
<1>4. InStep(c)
  BY <1>1, MatchIsInStep
<1>5. IsWhole(data)
  BY <1>1, <1>2, <1>4, InStepIsWhole
<1>6. data \in Seq(Segment)
  <2>1. segments[c] \in Seq(Segment) /\ NextSegment(c) \in Segment
    BY <1>2, NextSegmentIs DEF TcpTypeOK
  <2> QED BY <2>1
<1> HIDE DEF data
<1>7. TcpTypeOK'
  <2>1. segments' \in [Senders -> Seq(Segment)]
    BY <1>1, <1>2 DEF TcpTypeOK
  <2>2. 0 \in 0..(MaxLength - 1)
    BY DEF SegmentsAssumption
  <2>3. expected_block' \in [Senders -> 0..(MaxLength - 1)]
    BY <1>1, <1>2, <2>2 DEF TcpTypeOK
  <2>4. missed' \in [Senders -> Nat] /\ connected' \subseteq Senders
    BY <1>1, <1>2 DEF TcpTypeOK
  <2>5. dispatched' \in Seq(Seq(Segment))
    BY <1>1, <1>2, <1>6 DEF TcpTypeOK
  <2> QED BY <1>1, <1>2, <1>3, <2>1, <2>3, <2>4, <2>5 DEF TcpTypeOK
<1>8. DispatchedWhole'
  <2>1. \A i \in DOMAIN dispatched' :
          \/ dispatched'[i] = data
          \/ i \in DOMAIN dispatched /\ dispatched'[i] = dispatched[i]
    <3>1. dispatched \in Seq(Seq(Segment))
      BY <1>2 DEF TcpTypeOK
    <3> QED BY <1>1, <1>6, <3>1
  <2> QED BY <1>5, <2>1 DEF TcpInv, DispatchedWhole
<1>9. segments'[c] = <<>> /\ expected_block'[c] = 0 /\ missed'[c] = 0
  BY <1>1, <1>2 DEF TcpTypeOK
<1>10. ConnectionInv(c)' /\ (missed[c] <= 1)'
  BY <1>3, <1>9 DEF ConnectionInv, BlocksCounted, InStepOrEmpty, ReadyAfterLoss,
    CommandsNumbered, IsSending
<1>11. \A d \in Senders \ {c} : Untouched(d)
  BY <1>1, <1>2, <1>3 DEF TcpTypeOK, Untouched
<1> QED BY <1>7, <1>8, <1>10, <1>11, OneConnection

-----------------------------------------------------------------------------

LEMMA TcpInvStep ==
  ASSUME SegmentsAssumption, NothingAssumption, MaxLength <= Blocks, TcpInv,
         [TcpNext]_tcpVars
  PROVE  TcpInv'
<1>1. CASE UNCHANGED tcpVars
  BY <1>1 DEF tcpVars, clientVars, handlerVars, TcpInv, TcpTypeOK, DispatchedWhole,
    LosesOneAtMost, ConnectionInv, BlocksCounted, InStepOrEmpty, ReadyAfterLoss,
    CommandsNumbered, InStep, IsSending
<1>2. ASSUME NEW c \in Senders, HandleStoreData(c) PROVE TcpInv'
  BY <1>2, RefuseUnselectedStep, DropMismatchedStep, StoreSegmentStep, DispatchStep
    DEF HandleStoreData
<1>3. ASSUME NEW c \in Senders,
             \/ Connect(c) \/ Disconnect(c) \/ BeginCommand(c) \/ GiveUpCommand(c)
             \/ HandleSelect(c)
      PROVE  TcpInv'
  BY <1>3, ConnectStep, ClientStopStep, BeginCommandStep, HandleSelectStep
<1> QED BY <1>1, <1>2, <1>3 DEF TcpNext

\* TcpInv holds of every behaviour.
THEOREM TcpInvariant ==
  ASSUME MaxLength <= Blocks
  PROVE  TcpSpec => []TcpInv
<1>1. TcpInit => TcpInv
  BY TcpInvInit, SegmentsAssumption
<1>2. TcpInv /\ [TcpNext]_tcpVars => TcpInv'
  BY TcpInvStep, SegmentsAssumption, NothingAssumption
<1> QED BY <1>1, <1>2, PTL DEF TcpSpec

\* Connections, buffers and histories keep their types; no buffer expects a
\* block beyond the longest command (ApduSegmentBuffer).
THEOREM TcpTypeCorrect ==
  ASSUME MaxLength <= Blocks
  PROVE  TcpSpec => []TcpTypeOK
<1>1. TcpInv => TcpTypeOK
  BY DEF TcpInv
<1> QED BY <1>1, TcpInvariant, PTL

\* No connection dispatches a mixture or a part of commands
\* (ApduConnectionHandler._handle_store_data).
THEOREM CommandsAreWhole ==
  ASSUME MaxLength <= Blocks
  PROVE  TcpSpec => []DispatchedWhole
<1>1. TcpInv => DispatchedWhole
  BY DEF TcpInv
<1> QED BY <1>1, TcpInvariant, PTL

\* Of two commands sent whole in a row, one is dispatched
\* (ApduSegmentBuffer.add_segment).
THEOREM OneIsLostAtMost ==
  ASSUME MaxLength <= Blocks
  PROVE  TcpSpec => []LosesOneAtMost
<1>1. TcpInv => LosesOneAtMost
  BY DEF TcpInv
<1> QED BY <1>1, TcpInvariant, PTL

-----------------------------------------------------------------------------
(* Refinement of CommandChannel *)

LEMMA TcpInitRefines == TcpInit => Channel!Init
<1> SUFFICES ASSUME TcpInit PROVE Channel!Init
  OBVIOUS
<1>1. dispatched = <<>> /\ submitted = 0 /\ \A c \in Senders : sending[c] = Nothing
  BY DEF TcpInit, ClientsInit
<1> QED BY <1>1 DEF Channel!Init, IsSending

\* What a sender waits for, in the abstract channel.
Pending(c) == IF IsSending(c) THEN sending[c].command ELSE 0

LEMMA OthersWait ==
  ASSUME NEW c \in Senders, \A d \in Senders \ {c} : sending'[d] = sending[d], NEW n,
         Pending(c)' = n
  PROVE  [d \in Senders |-> Pending(d)]' = [[d \in Senders |-> Pending(d)] EXCEPT ![c] = n]
  BY DEF Pending, IsSending

\* The commands executed, in the abstract channel.
Executed == [i \in DOMAIN dispatched |-> CommandOf(dispatched[i])]

LEMMA CommandIsNumber ==
  ASSUME NEW d \in Seq(Segment)
  PROVE  CommandOf(d) \in Nat
  BY DEF CommandOf, IsWhole, Segment

\* The abstract channel's actions under the refinement mapping.
LEMMA ChannelActions ==
  ASSUME NEW c \in Senders
  PROVE  /\ Channel!Drop(c) <=>
              /\ [d \in Senders |-> Pending(d)]' =
                   [[d \in Senders |-> Pending(d)] EXCEPT ![c] = 0]
              /\ UNCHANGED <<Executed, submitted>>
         /\ Channel!Issue(c) <=>
              /\ [d \in Senders |-> Pending(d)][c] = 0
              /\ submitted' = submitted + 1
              /\ [d \in Senders |-> Pending(d)]' =
                   [[d \in Senders |-> Pending(d)] EXCEPT ![c] = submitted + 1]
              /\ UNCHANGED Executed
         /\ Channel!Execute(c) <=>
              /\ [d \in Senders |-> Pending(d)][c] # 0
              /\ Executed' = Append(Executed, [d \in Senders |-> Pending(d)][c])
              /\ [d \in Senders |-> Pending(d)]' =
                   [[d \in Senders |-> Pending(d)] EXCEPT ![c] = 0]
              /\ UNCHANGED submitted
  BY DEF Channel!Drop, Channel!Issue, Channel!Execute, Pending, Executed

\* A step that neither issues nor executes keeps the sender waiting or drops
\* its command.
LEMMA WaitOrDrop ==
  ASSUME NEW c \in Senders,
         \A d \in Senders \ {c} : sending'[d] = sending[d],
         Pending(c)' \in {0, Pending(c)},
         UNCHANGED <<dispatched, submitted>>
  PROVE  [Channel!Next]_Channel!channelVars
<1>1. UNCHANGED <<Executed, submitted>>
  BY DEF Executed
<1>2. CASE Pending(c)' = 0
  BY <1>1, <1>2, OthersWait, ChannelActions DEF Channel!Next
<1>3. CASE Pending(c)' = Pending(c)
  <2>1. \A d \in Senders : Pending(d)' = Pending(d)
    BY <1>3 DEF Pending, IsSending
  <2>2. [d \in Senders |-> Pending(d)]' = [d \in Senders |-> Pending(d)]
    BY <2>1
  <2> QED BY <1>1, <2>2 DEF Channel!channelVars, Pending, Executed
<1> QED BY <1>2, <1>3

LEMMA ClientStepRefines ==
  ASSUME SegmentsAssumption, NothingAssumption, TcpInv, NEW c \in Senders,
         \/ Connect(c) \/ Disconnect(c) \/ GiveUpCommand(c) \/ HandleSelect(c)
         \/ RefuseUnselected(c)
  PROVE  [Channel!Next]_Channel!channelVars
<1>1. sending' \in {sending, [sending EXCEPT ![c] = Nothing]}
  BY DEF Connect, Disconnect, GiveUpCommand, HandleSelect, RefuseUnselected, StopSending,
    clientVars
<1>2. UNCHANGED <<dispatched, submitted>>
  BY DEF Connect, Disconnect, GiveUpCommand, HandleSelect, RefuseUnselected, StopSending,
    clientVars
<1>3. sending'[c] \in {sending[c], Nothing} /\ \A d \in Senders \ {c} : sending'[d] = sending[d]
  BY <1>1 DEF TcpInv, TcpTypeOK
<1>4. Pending(c)' \in {0, Pending(c)}
  BY <1>3 DEF Pending, IsSending
<1> QED BY <1>2, <1>3, <1>4, WaitOrDrop

LEMMA BeginCommandRefines ==
  ASSUME SegmentsAssumption, NothingAssumption, TcpInv, NEW c \in Senders,
         BeginCommand(c)
  PROVE  Channel!Next
<1>1. PICK length \in 1..MaxLength : Submit(c, length)
  BY DEF BeginCommand
<1> DEFINE t == [command |-> submitted + 1, length |-> length, next |-> 0]
<1>2. /\ sending' = [sending EXCEPT ![c] = t]
      /\ submitted' = submitted + 1
      /\ ~IsSending(c)
      /\ UNCHANGED dispatched
  BY <1>1 DEF BeginCommand, Submit
<1>3. t \in Transmission
  BY DEF TcpInv, TcpTypeOK, Transmission
<1>4. sending'[c] = t /\ \A d \in Senders \ {c} : sending'[d] = sending[d]
  BY <1>2 DEF TcpInv, TcpTypeOK
<1>5. Pending(c) = 0 /\ Pending(c)' = submitted + 1
  <2>1. t # Nothing /\ t.command = submitted + 1
    BY <1>3, NothingAssumption
  <2> HIDE DEF t
  <2> QED BY <1>2, <1>4, <2>1 DEF Pending, IsSending
<1>6. UNCHANGED Executed
  BY <1>2 DEF Executed
<1>7. Channel!Issue(c)
  BY <1>2, <1>4, <1>5, <1>6, OthersWait, ChannelActions
<1> QED BY <1>7 DEF Channel!Next

LEMMA DropMismatchedRefines ==
  ASSUME SegmentsAssumption, NothingAssumption, MaxLength <= Blocks, TcpInv,
         NEW c \in Senders, IsSending(c), DropMismatched(c) \/ StoreSegment(c)
  PROVE  [Channel!Next]_Channel!channelVars
<1>1. SegmentSent(c) /\ UNCHANGED dispatched /\ TcpTypeOK
  BY DEF DropMismatched, StoreSegment, TcpInv
<1>2. /\ submitted' = submitted
      /\ \A d \in Senders \ {c} : sending'[d] = sending[d]
      /\ NextSegment(c).last => sending'[c] = Nothing
      /\ ~NextSegment(c).last =>
           (sending'[c] # Nothing => sending'[c].command = sending[c].command)
  BY <1>1, SegmentSentIs
<1>3. Pending(c)' \in {0, Pending(c)}
  BY <1>2 DEF Pending, IsSending
<1> QED BY <1>1, <1>2, <1>3, WaitOrDrop

LEMMA DispatchRefines ==
  ASSUME SegmentsAssumption, NothingAssumption, MaxLength <= Blocks, TcpInv,
         NEW c \in Senders, IsSending(c), Dispatch(c)
  PROVE  Channel!Next
<1> DEFINE data == Append(segments[c], NextSegment(c))
<1>1. /\ isd_selected[c]
      /\ BlockNumber(NextSegment(c)) = expected_block[c]
      /\ NextSegment(c).last
      /\ SegmentSent(c)
      /\ dispatched' = Append(dispatched, data)
      /\ TcpTypeOK
  BY DEF Dispatch, TcpInv
<1>2. /\ submitted' = submitted
      /\ \A d \in Senders \ {c} : sending'[d] = sending[d]
      /\ sending'[c] = Nothing
  BY <1>1, SegmentSentIs
<1>3. IsWhole(data) /\ data[1].command = sending[c].command
  BY <1>1, MatchIsInStep, InStepIsWhole
<1>4. CommandOf(data) = sending[c].command
  BY <1>3 DEF CommandOf
<1>5. Pending(c) = sending[c].command /\ Pending(c) # 0 /\ Pending(c)' = 0
  <2>1. sending[c].command > 0 /\ sending[c].command \in Nat
    BY <1>1, NextSegmentIs, TransmissionFields DEF TcpInv, ConnectionInv, CommandsNumbered
  <2> QED BY <1>2, <2>1 DEF Pending, IsSending
<1>6. data \in Seq(Segment) /\ dispatched \in Seq(Seq(Segment))
  <2>1. segments[c] \in Seq(Segment) /\ NextSegment(c) \in Segment
    BY <1>1, NextSegmentIs DEF TcpTypeOK
  <2> QED BY <1>1, <2>1 DEF TcpTypeOK
<1> HIDE DEF data
<1>7. Executed' = Append(Executed, Pending(c))
  <2>1. /\ Len(dispatched) \in Nat
        /\ DOMAIN dispatched = 1..Len(dispatched)
        /\ DOMAIN dispatched' = 1..(Len(dispatched) + 1)
        /\ dispatched'[Len(dispatched) + 1] = data
        /\ \A i \in 1..Len(dispatched) : dispatched'[i] = dispatched[i]
    BY <1>1, <1>6
  <2>2. Executed' = [i \in 1..(Len(dispatched) + 1) |->
                       IF i = Len(dispatched) + 1 THEN Pending(c) ELSE Executed[i]]
    BY <1>4, <1>5, <2>1 DEF Executed
  <2>3. \A i \in DOMAIN dispatched : CommandOf(dispatched[i]) \in Nat
    BY <1>6, CommandIsNumber
  <2>4. Executed \in Seq(Nat) /\ Len(Executed) = Len(dispatched)
    BY <2>1, <2>3 DEF Executed
  <2>5. Pending(c) \in Nat
    BY <1>4, <1>5, <1>6, CommandIsNumber
  <2>6. Append(Executed, Pending(c)) =
          [i \in 1..(Len(Executed) + 1) |->
             IF i = Len(Executed) + 1 THEN Pending(c) ELSE Executed[i]]
    BY <2>4, <2>5, AppendIs
  <2> QED BY <2>2, <2>4, <2>6
<1>8. Channel!Execute(c)
  BY <1>2, <1>5, <1>7, OthersWait, ChannelActions
<1> QED BY <1>8 DEF Channel!Next

\* The TCP front end implements the command channel: with commands of up to
\* Blocks segments, every step executes a command, drops one, issues one, or
\* is not seen (tcp_server.py, tcp_protocol.py).
THEOREM TcpImplementsChannel ==
  ASSUME MaxLength <= Blocks
  PROVE  TcpSpec => ImplementsChannel
<1>1. TcpInv /\ [TcpNext]_tcpVars => [Channel!Next]_Channel!channelVars
  <2> SUFFICES ASSUME TcpInv, [TcpNext]_tcpVars
               PROVE  [Channel!Next]_Channel!channelVars
    OBVIOUS
  <2>1. CASE UNCHANGED tcpVars
    BY <2>1 DEF tcpVars, clientVars, Channel!channelVars, IsSending
  <2>2. ASSUME NEW c \in Senders, HandleStoreData(c)
        PROVE  [Channel!Next]_Channel!channelVars
    BY <2>2, SegmentsAssumption, NothingAssumption, ClientStepRefines,
      DropMismatchedRefines, DispatchRefines DEF HandleStoreData
  <2>3. ASSUME NEW c \in Senders,
               \/ Connect(c) \/ Disconnect(c) \/ BeginCommand(c) \/ GiveUpCommand(c)
               \/ HandleSelect(c)
        PROVE  [Channel!Next]_Channel!channelVars
    BY <2>3, SegmentsAssumption, NothingAssumption, ClientStepRefines, BeginCommandRefines
  <2> QED BY <2>1, <2>2, <2>3 DEF TcpNext
<1> QED BY <1>1, TcpInitRefines, TcpInvariant, PTL DEF TcpSpec, ImplementsChannel, Channel!Spec

-----------------------------------------------------------------------------
(* Frames (FrameParser) *)

IsSendable(cmds) == cmds \in Seq(Command) /\ \A i \in DOMAIN cmds : IsCase3(cmds[i])

\* Bytes are natural numbers, and so is an Lc that is not extended.
LEMMA ByteFacts ==
  /\ Byte \subseteq Nat /\ 0 \in Byte
  /\ \A n \in Nat \ {0} : n < ExtendedFrom => n \in Byte
BY SizesAssumption, SMT DEF Byte

LEMMA BigEndianIsNat ==
  ASSUME NEW hi \in Byte, NEW lo \in Byte
  PROVE  BigEndian(hi, lo) \in Nat
BY SMT DEF BigEndian, Byte

LEMMA MaxDataIsNat == MaxData \in Nat /\ MaxData = 65535
BY SMT DEF MaxData, BigEndian

\* Two bytes hold the length of the data.
LEMMA TwoBytes ==
  ASSUME NEW n \in 1..MaxData
  PROVE  /\ n \div 256 \in Byte /\ n % 256 \in Byte
         /\ BigEndian(n \div 256, n % 256) = n
<1> DEFINE hi == n \div 256
           lo == n % 256
<1>1. n \in Nat /\ n <= 65535
  BY MaxDataIsNat, SMT
<1>2. hi \in Int /\ lo \in 0..255 /\ 256 * hi + lo = n
  BY <1>1, SMT
<1> HIDE DEF hi, lo
<1>3. hi \in 0..255
  BY <1>1, <1>2, SMT
<1> QED
  BY <1>2, <1>3, SMT DEF Byte, BigEndian, hi, lo

\* The header, then an Lc of one byte or of three, then the data.
IsFrame(e, header, lc, data) ==
  /\ e \in Seq(Byte) /\ data \in Seq(Byte) /\ Len(data) \in Nat \ {0}
  /\ Len(e) = 4 + lc + Len(data)
  /\ \A i \in 1..4 : e[i] = header[i]
  /\ \/ lc = 1 /\ e[5] = Len(data)
     \/ lc = 3 /\ e[5] = 0 /\ BigEndian(e[6], e[7]) = Len(data)
  /\ \A i \in 1..Len(data) : e[4 + lc + i] = data[i]

LEMMA CommandFields ==
  ASSUME NEW cmd \in Command
  PROVE  /\ cmd.cla \in Byte /\ cmd.ins \in Byte /\ cmd.p1 \in Byte /\ cmd.p2 \in Byte
         /\ cmd.data \in Seq(Byte) /\ cmd.le \in Int
         /\ cmd = [cla |-> cmd.cla, ins |-> cmd.ins, p1 |-> cmd.p1, p2 |-> cmd.p2,
                   data |-> cmd.data, le |-> cmd.le]
BY DEF Command

\* The Lc of n bytes of data
LEMMA EncodedLc ==
  ASSUME NEW n \in 1..MaxData, n \in Nat \ {0}
  PROVE  /\ EncodeLc(n) \in Seq(Byte)
         /\ \/ Len(EncodeLc(n)) = 1 /\ EncodeLc(n)[1] = n
            \/ /\ Len(EncodeLc(n)) = 3
               /\ EncodeLc(n)[1] = 0 /\ BigEndian(EncodeLc(n)[2], EncodeLc(n)[3]) = n
<1>1. CASE n < ExtendedFrom
  <2>1. EncodeLc(n) = <<n>>
    BY <1>1 DEF EncodeLc
  <2>2. n \in Byte
    BY <1>1, ByteFacts
  <2> QED
    BY <2>1, <2>2
<1>2. CASE ~(n < ExtendedFrom)
  <2> DEFINE hi == n \div 256
             lo == n % 256
  <2>1. EncodeLc(n) = <<0, hi, lo>>
    BY <1>2 DEF EncodeLc
  <2>2. 0 \in Byte /\ hi \in Byte /\ lo \in Byte /\ BigEndian(hi, lo) = n
    BY ByteFacts, TwoBytes
  <2> HIDE DEF hi, lo
  <2> QED
    BY <2>1, <2>2
<1> QED
  BY <1>1, <1>2

\* A frame from its three parts
LEMMA FrameOfParts ==
  ASSUME NEW header \in Seq(Byte), Len(header) = 4,
         NEW data \in Seq(Byte), Len(data) \in Nat \ {0},
         NEW field \in Seq(Byte),
         \/ Len(field) = 1 /\ field[1] = Len(data)
         \/ /\ Len(field) = 3
            /\ field[1] = 0 /\ BigEndian(field[2], field[3]) = Len(data)
  PROVE  IsFrame(header \o field \o data, header, Len(field), data)
<1> DEFINE front == header \o field
<1>1. /\ front \in Seq(Byte) /\ Len(front) = 4 + Len(field) /\ Len(field) \in {1, 3}
      /\ \A i \in 1..(4 + Len(field)) : front[i] = IF i <= 4 THEN header[i] ELSE field[i - 4]
  <2>1. /\ front \in Seq(Byte) /\ Len(front) = Len(header) + Len(field)
        /\ \A i \in 1..(Len(header) + Len(field)) :
             front[i] = IF i <= Len(header) THEN header[i] ELSE field[i - Len(header)]
    BY ConcatProperties
  <2>2. Len(field) \in {1, 3}
    OBVIOUS
  <2> HIDE DEF front
  <2> QED
    BY <2>1, <2>2
<1> HIDE DEF front
<1> DEFINE e == front \o data
<1>2. /\ e \in Seq(Byte) /\ Len(e) = 4 + Len(field) + Len(data)
      /\ \A i \in 1..Len(e) :
           e[i] = IF i <= 4 + Len(field) THEN front[i] ELSE data[i - (4 + Len(field))]
  BY <1>1, ConcatProperties
<1> HIDE DEF e
<1>3. \A i \in 1..4 : e[i] = header[i]
  BY <1>1, <1>2
<1>4. \A i \in 1..Len(field) : e[4 + i] = field[i]
  BY <1>1, <1>2
<1>5. ASSUME NEW i \in 1..Len(data)
      PROVE  e[4 + Len(field) + i] = data[i]
  <2> DEFINE j == 4 + Len(field) + i
  <2>1. j \in 1..Len(e) /\ ~(j <= 4 + Len(field)) /\ j - (4 + Len(field)) = i
    BY <1>1, <1>2
  <2> QED
    BY <1>2, <2>1
<1>6. e[5] = field[1] /\ (Len(field) = 3 => e[6] = field[2] /\ e[7] = field[3])
  <2>1. 4 + 1 = 5 /\ 4 + 2 = 6 /\ 4 + 3 = 7
    OBVIOUS
  <2> QED
    BY <1>1, <1>4, <2>1
<1>7. \/ Len(field) = 1 /\ e[5] = Len(data)
      \/ Len(field) = 3 /\ e[5] = 0 /\ BigEndian(e[6], e[7]) = Len(data)
  BY <1>6
<1>8. IsFrame(e, header, Len(field), data)
  BY <1>2, <1>3, <1>5, <1>7 DEF IsFrame
<1> QED
  BY <1>8 DEF e, front

LEMMA EncodeFacts ==
  ASSUME NEW cmd \in Command, IsCase3(cmd)
  PROVE  \E lc \in {1, 3} : IsFrame(Encode(cmd), Header(cmd), lc, cmd.data)
<1>1. Header(cmd) \in Seq(Byte) /\ Len(Header(cmd)) = 4
  BY CommandFields DEF Header
<1>2. cmd.data \in Seq(Byte) /\ Len(cmd.data) \in 1..MaxData
  BY CommandFields DEF IsCase3
<1> DEFINE data == cmd.data
<1> HIDE DEF data
<1>3. data \in Seq(Byte) /\ Len(data) \in 1..MaxData /\ Len(data) \in Nat \ {0}
  <2>1. data \in Seq(Byte) /\ Len(data) \in 1..MaxData
    BY <1>2 DEF data
  <2> DEFINE n == Len(data)
  <2>2. n \in 1..MaxData
    BY <2>1
  <2> HIDE DEF n
  <2>3. n \in Nat \ {0}
    BY <2>2, MaxDataIsNat, SMT
  <2> QED
    BY <2>1, <2>3 DEF n
<1> DEFINE field == EncodeLc(Len(data))
<1>4. /\ field \in Seq(Byte)
      /\ \/ Len(field) = 1 /\ field[1] = Len(data)
         \/ /\ Len(field) = 3
            /\ field[1] = 0 /\ BigEndian(field[2], field[3]) = Len(data)
  BY <1>3, EncodedLc
<1> HIDE DEF field
<1>5. IsFrame(Header(cmd) \o field \o data, Header(cmd), Len(field), data)
  BY <1>1, <1>3, <1>4, FrameOfParts
<1>6. Encode(cmd) = Header(cmd) \o field \o data
  BY DEF Encode, field, data
<1> QED
  BY <1>4, <1>5, <1>6 DEF data

\* Any buffer that begins with a frame, or with a part of one, byte for byte.
LEMMA BodyEndOfFrame ==
  ASSUME NEW lc \in {1, 3}, NEW e, NEW header, NEW data, IsFrame(e, header, lc, data),
         NEW b \in Seq(Byte), HasLc(b),
         \A i \in 1..Len(b) : i <= Len(e) => b[i] = e[i]
  PROVE  BodyEnd(b) = Len(e) /\ Lc(b).size = lc
<1>1. Len(b) \in Nat /\ Len(b) >= 5 /\ Len(data) \in Nat /\ Len(e) \in Nat /\ Len(e) >= 5 + lc
  BY DEF HasLc, IsFrame
<1>2. b[5] = e[5]
  BY <1>1
<1>3. CASE lc = 1
  <2>1. e[5] = Len(data) /\ Len(data) # 0 /\ Len(e) = 5 + Len(data)
    BY <1>1, <1>3 DEF IsFrame
  <2>2. Lc(b) = [size |-> 1, value |-> Len(data)]
    BY <1>2, <2>1 DEF Lc
  <2> QED
    BY <1>1, <1>3, <2>1, <2>2 DEF BodyEnd
<1>4. CASE lc = 3
  <2>1. e[5] = 0 /\ Len(e) >= 8 /\ Len(e) = 7 + Len(data) /\ BigEndian(e[6], e[7]) = Len(data)
    BY <1>1, <1>4 DEF IsFrame
  <2>2. Len(b) >= 7
    BY <1>2, <2>1 DEF HasLc
  <2>3. b[6] = e[6] /\ b[7] = e[7]
    BY <1>1, <2>1, <2>2
  <2>4. Lc(b) = [size |-> 3, value |-> Len(data)]
    BY <1>2, <2>1, <2>3 DEF Lc
  <2> QED
    BY <1>1, <1>4, <2>1, <2>4 DEF BodyEnd
<1> QED
  BY <1>3, <1>4

\* A frame that has come whole is found, whatever follows it: the first byte behind
\* it is a class, so it is not taken for an Le.
LEMMA CompleteFrame ==
  ASSUME NEW lc \in {1, 3}, NEW e, NEW header, NEW data, IsFrame(e, header, lc, data),
         NEW b \in Seq(Byte), Len(e) <= Len(b),
         \A i \in 1..Len(e) : b[i] = e[i],
         Len(b) > Len(e) => b[Len(e) + 1] \in ClassBytes
  PROVE  FrameSize(b) = Len(e)
<1>1. Len(e) \in Nat /\ Len(b) \in Nat /\ Len(e) >= 5 + lc
  BY DEF IsFrame
<1>2. HasLc(b)
  <2>1. Len(b) >= 5 /\ b[5] = e[5]
    BY <1>1
  <2>2. lc = 1 => e[5] # 0
    BY DEF IsFrame
  <2> QED
    BY <1>1, <2>1, <2>2 DEF HasLc
<1>3. BodyEnd(b) = Len(e)
  BY <1>1, <1>2, BodyEndOfFrame
<1>4. ~IsLe(b, Len(e) + 1)
  BY <1>1 DEF IsLe
<1>5. Len(b) # 4 /\ Len(b) >= BodyEnd(b)
  BY <1>1, <1>3
<1> QED
  BY <1>2, <1>3, <1>4, <1>5 DEF FrameSize

\* A frame that has not come whole is not found, unless its header is all there is.
LEMMA IncompleteFrame ==
  ASSUME NEW lc \in {1, 3}, NEW e, NEW header, NEW data, IsFrame(e, header, lc, data),
         NEW b \in Seq(Byte), Len(b) < Len(e), Len(b) # 4,
         \A i \in 1..Len(b) : b[i] = e[i]
  PROVE  FrameSize(b) = 0
<1>1. HasLc(b) => BodyEnd(b) = Len(e)
  BY BodyEndOfFrame
<1>2. Len(e) \in Nat /\ Len(b) \in Nat
  BY DEF IsFrame
<1>3. ~(HasLc(b) /\ Len(b) >= BodyEnd(b))
  BY <1>1, <1>2
<1> QED
  BY <1>3 DEF FrameSize

\* decode gives back the command that was encoded.
LEMMA DecodedFrame ==
  ASSUME NEW cmd \in Command, IsCase3(cmd)
  PROVE  Decode(Encode(cmd)) = cmd
<1> DEFINE e == Encode(cmd)
           header == Header(cmd)
           data == cmd.data
<1>1. PICK lc \in {1, 3} : IsFrame(e, header, lc, data)
  BY EncodeFacts
<1>2. cmd.le = -1
  BY DEF IsCase3
<1>3. /\ header[1] = cmd.cla /\ header[2] = cmd.ins
      /\ header[3] = cmd.p1 /\ header[4] = cmd.p2
  BY DEF Header
<1>4. cmd = [cla |-> cmd.cla, ins |-> cmd.ins, p1 |-> cmd.p1, p2 |-> cmd.p2,
             data |-> data, le |-> cmd.le]
  BY CommandFields
<1> HIDE DEF e, header, data
<1>5. /\ Len(data) \in Nat /\ Len(e) = 4 + lc + Len(data) /\ Len(data) >= 1
      /\ e \in Seq(Byte) /\ data \in Seq(Byte) /\ Len(e) \in Nat /\ Len(e) >= 5 + lc
  BY <1>1 DEF IsFrame
<1>6. HasLc(e)
  <2>1. lc = 1 => e[5] # 0
    BY <1>1 DEF IsFrame
  <2> QED
    BY <1>5, <2>1 DEF HasLc
<1>7. BodyEnd(e) = Len(e) /\ Lc(e).size = lc
  BY <1>1, <1>5, <1>6, BodyEndOfFrame
<1>8. ~IsLe(e, BodyEnd(e) + 1)
  BY <1>5, <1>7 DEF IsLe
<1>9. SubSeq(e, 5 + lc, Len(e)) = data
  <2> DEFINE d == SubSeq(e, 5 + lc, Len(e))
  <2>1. \A i \in (5 + lc)..Len(e) : e[i] \in Byte
    BY <1>5, SequenceElements
  <2>2. /\ d \in Seq(Byte) /\ Len(d) = Len(data)
        /\ \A i \in 1..Len(data) : d[i] = e[4 + lc + i]
    BY <1>5, <2>1, SubSeqProperties
  <2> HIDE DEF d
  <2>3. \A i \in 1..Len(data) : d[i] = data[i]
    BY <1>1, <2>2 DEF IsFrame
  <2>4. d = data
    BY <1>5, <2>2, <2>3, SeqEqual
  <2> QED
    BY <2>4 DEF d
<1>10. Len(e) # 4
  BY <1>5
<1>11. Decode(e) = [cla |-> cmd.cla, ins |-> cmd.ins, p1 |-> cmd.p1, p2 |-> cmd.p2,
                    data |-> data, le |-> -1]
  <2>1. \A i \in 1..4 : e[i] = header[i]
    BY <1>1 DEF IsFrame
  <2>2. /\ e[1] = cmd.cla /\ e[2] = cmd.ins /\ e[3] = cmd.p1 /\ e[4] = cmd.p2
        /\ SubSeq(e, 5 + Lc(e).size, BodyEnd(e)) = data
    BY <1>3, <1>7, <1>9, <2>1
  <2> QED
    BY <1>8, <1>10, <2>2, Zenon DEF Decode
<1> QED
  BY <1>2, <1>4, <1>11 DEF e

\* Where the data of a frame ends
LEMMA LcTypes ==
  ASSUME NEW f \in Seq(Byte), HasLc(f)
  PROVE  /\ Lc(f) = [size |-> Lc(f).size, value |-> Lc(f).value]
         /\ Lc(f).size \in {1, 3} /\ Lc(f).value \in Nat
         /\ BodyEnd(f) \in Nat /\ BodyEnd(f) >= 4 + Lc(f).size
<1>1. Len(f) \in Nat /\ Len(f) >= 5 /\ \A i \in 1..Len(f) : f[i] \in Byte
  BY SequenceElements DEF HasLc
<1>2. CASE f[5] # 0
  <2>1. Lc(f) = [size |-> 1, value |-> f[5]]
    BY <1>2 DEF Lc
  <2>2. f[5] \in Nat
    <3>1. f[5] \in Byte
      BY <1>1
    <3> QED
      BY <3>1, ByteFacts
  <2> QED
    BY <2>1, <2>2 DEF BodyEnd
<1>3. CASE f[5] = 0
  <2> DEFINE v == BigEndian(f[6], f[7])
  <2>1. Lc(f) = [size |-> 3, value |-> v]
    BY <1>3 DEF Lc
  <2>2. v \in Nat
    <3>1. Len(f) >= 7
      BY <1>3 DEF HasLc
    <3>2. f[6] \in Byte /\ f[7] \in Byte
      BY <1>1, <3>1
    <3> QED
      BY <3>2, BigEndianIsNat
  <2> HIDE DEF v
  <2> QED
    BY <2>1, <2>2 DEF BodyEnd
<1> QED
  BY <1>2, <1>3

\* What feed takes from the buffer is a frame of it, whatever it holds.
LEMMA FrameIsThere ==
  ASSUME NEW b \in Seq(Byte)
  PROVE  /\ FrameSize(b) \in 0..Len(b)
         /\ \/ FrameSize(b) = 0
            \/ FrameSize(b) = 4 /\ Len(b) = 4
            \/ /\ HasLc(b)
               /\ FrameSize(b) \in {BodyEnd(b), BodyEnd(b) + 1}
<1>1. Len(b) \in Nat
  OBVIOUS
<1>2. CASE Len(b) = 4
  <2>1. FrameSize(b) = 4
    <3>1. ~HasLc(b)
      BY <1>2 DEF HasLc
    <3> QED
      BY <1>2, <3>1 DEF FrameSize
  <2> QED
    BY <1>2, <2>1
<1>3. CASE Len(b) # 4 /\ HasLc(b) /\ Len(b) >= BodyEnd(b)
  <2>1. BodyEnd(b) \in Nat
    BY <1>3, LcTypes
  <2>2. \/ FrameSize(b) = BodyEnd(b)
        \/ FrameSize(b) = BodyEnd(b) + 1 /\ BodyEnd(b) + 1 <= Len(b)
    BY <1>3 DEF FrameSize, IsLe
  <2> QED
    BY <1>1, <1>3, <2>1, <2>2
<1>4. CASE Len(b) # 4 /\ ~(HasLc(b) /\ Len(b) >= BodyEnd(b))
  <2>1. FrameSize(b) = 0
    BY <1>4 DEF FrameSize
  <2> QED
    BY <1>1, <2>1
<1> QED
  BY <1>2, <1>3, <1>4

LEMMA SubSeqOfBytes ==
  ASSUME NEW b \in Seq(Byte), NEW m \in Nat \ {0}, NEW n \in Nat, n <= Len(b)
  PROVE  /\ SubSeq(b, m, n) \in Seq(Byte)
         /\ Len(SubSeq(b, m, n)) = IF m <= n THEN n - m + 1 ELSE 0
         /\ \A i \in 1..(n - m + 1) : SubSeq(b, m, n)[i] = b[m + i - 1]
<1>1. \A i \in m..n : b[i] \in Byte
  BY SequenceElements
<1> QED
  BY <1>1, SubSeqProperties

\* What decode makes of a frame that frame_size found is a command.
LEMMA FrameGivesCommand ==
  ASSUME NEW b \in Seq(Byte), FrameSize(b) # 0
  PROVE  Decode(SubSeq(b, 1, FrameSize(b))) \in Command
<1> DEFINE size == FrameSize(b)
           frame == SubSeq(b, 1, size)
<1>1. /\ size \in 0..Len(b) /\ Len(b) \in Nat
      /\ size = 4 \/ (HasLc(b) /\ size \in {BodyEnd(b), BodyEnd(b) + 1})
  BY FrameIsThere
<1>2. size >= 4
  BY <1>1, LcTypes
<1> HIDE DEF size
<1>3. /\ frame \in Seq(Byte) /\ Len(frame) = size
      /\ \A i \in 1..size : frame[i] = b[i]
  BY <1>1, <1>2, SubSeqOfBytes
<1> HIDE DEF frame
<1>4. \A i \in 1..Len(frame) : frame[i] \in Byte
  BY <1>3, SequenceElements
<1>5. frame[1] \in Byte /\ frame[2] \in Byte /\ frame[3] \in Byte /\ frame[4] \in Byte
  BY <1>2, <1>3, <1>4
<1> DEFINE data == IF Len(frame) = 4 THEN <<>>
                   ELSE SubSeq(frame, 5 + Lc(frame).size, BodyEnd(frame))
           le == IF Len(frame) > 4 /\ IsLe(frame, BodyEnd(frame) + 1)
                 THEN frame[BodyEnd(frame) + 1] ELSE -1
<1>6. data \in Seq(Byte) /\ le \in Int
  <2>1. CASE size = 4
    BY <1>3, <2>1
  <2>2. CASE size # 4
    <3>1. HasLc(b) /\ size \in {BodyEnd(b), BodyEnd(b) + 1}
      BY <1>1, <2>2
    <3>2. Lc(b).size \in {1, 3} /\ BodyEnd(b) \in Nat /\ BodyEnd(b) >= 4 + Lc(b).size
      BY <3>1, LcTypes
    <3>3. size >= 5 /\ (Lc(b).size = 3 => size >= 7)
      BY <3>1, <3>2
    <3>4. frame[5] = b[5] /\ (Lc(b).size = 3 => frame[6] = b[6] /\ frame[7] = b[7])
      BY <1>3, <3>3
    <3>5. Lc(b).size = 1 <=> b[5] # 0
      BY <3>2 DEF Lc
    <3>6. Lc(frame) = Lc(b)
      BY <3>2, <3>4, <3>5, Zenon DEF Lc
    <3>7. BodyEnd(frame) = BodyEnd(b)
      BY <3>6 DEF BodyEnd
    <3>8. SubSeq(frame, 5 + Lc(b).size, BodyEnd(b)) \in Seq(Byte)
      <4>1. 5 + Lc(b).size \in Nat \ {0} /\ BodyEnd(b) <= Len(frame)
        BY <1>1, <1>3, <3>1, <3>2
      <4> QED
        BY <1>3, <3>2, <4>1, SubSeqOfBytes
    <3>9. IsLe(frame, BodyEnd(b) + 1) => frame[BodyEnd(b) + 1] \in Int
      <4>1. IsLe(frame, BodyEnd(b) + 1) => BodyEnd(b) + 1 \in 1..Len(frame)
        BY <1>1, <1>3, <3>2 DEF IsLe
      <4>2. IsLe(frame, BodyEnd(b) + 1) => frame[BodyEnd(b) + 1] \in Byte
        BY <1>4, <4>1
      <4>3. \A x \in Byte : x \in Int
        BY ByteFacts
      <4> QED
        BY <4>2, <4>3
    <3> QED
      BY <1>3, <2>2, <3>6, <3>7, <3>8, <3>9
  <2> QED
    BY <2>1, <2>2
<1>7. Decode(frame) = [cla |-> frame[1], ins |-> frame[2], p1 |-> frame[3], p2 |-> frame[4],
                       data |-> data, le |-> le]
  BY Zenon DEF Decode
<1> HIDE DEF data, le
<1>8. Decode(frame) \in Command
  BY <1>5, <1>6, <1>7 DEF Command
<1> QED
  BY <1>8 DEF frame, size

-----------------------------------------------------------------------------
(* Streams *)

\* Neighbouring slices of a sequence, put together
LEMMA ConcatSubSeqs ==
  ASSUME NEW S, NEW s \in Seq(S), NEW i \in 0..Len(s), NEW j \in i..Len(s), NEW k \in j..Len(s)
  PROVE  SubSeq(s, i + 1, j) \o SubSeq(s, j + 1, k) = SubSeq(s, i + 1, k)
<1> DEFINE a == SubSeq(s, i + 1, j)
           b == SubSeq(s, j + 1, k)
           c == SubSeq(s, i + 1, k)
<1>1. /\ Len(s) \in Nat /\ i \in Nat /\ j \in Nat /\ k \in Nat /\ i <= j /\ j <= k /\ k <= Len(s)
      /\ \A m \in 1..Len(s) : s[m] \in S
  BY SequenceElements
<1>2. /\ a \in Seq(S) /\ Len(a) = j - i /\ \A m \in 1..(j - i) : a[m] = s[i + m]
  <2>1. \A m \in (i + 1)..j : s[m] \in S
    BY <1>1
  <2> QED
    BY <1>1, <2>1, SubSeqProperties
<1>3. /\ b \in Seq(S) /\ Len(b) = k - j /\ \A m \in 1..(k - j) : b[m] = s[j + m]
  <2>1. \A m \in (j + 1)..k : s[m] \in S
    BY <1>1
  <2> QED
    BY <1>1, <2>1, SubSeqProperties
<1>4. /\ c \in Seq(S) /\ Len(c) = k - i /\ \A m \in 1..(k - i) : c[m] = s[i + m]
  <2>1. \A m \in (i + 1)..k : s[m] \in S
    BY <1>1
  <2> QED
    BY <1>1, <2>1, SubSeqProperties
<1> HIDE DEF a, b, c
<1>5. /\ a \o b \in Seq(S) /\ Len(a \o b) = k - i
      /\ \A m \in 1..(k - i) : (a \o b)[m] = IF m <= j - i THEN a[m] ELSE b[m - (j - i)]
  BY <1>1, <1>2, <1>3, ConcatProperties
<1>6. ASSUME NEW m \in 1..(k - i)
      PROVE  (a \o b)[m] = c[m]
  <2>1. CASE m <= j - i
    <3>1. m \in 1..(j - i)
      BY <1>1, <2>1
    <3> QED
      BY <1>2, <1>4, <1>5, <2>1, <3>1
  <2>2. CASE ~(m <= j - i)
    <3>1. m - (j - i) \in 1..(k - j) /\ j + (m - (j - i)) = i + m
      BY <1>1, <2>2
    <3>2. b[m - (j - i)] = s[i + m]
      BY <1>3, <3>1
    <3> QED
      BY <1>4, <1>5, <2>2, <3>2
  <2> QED
    BY <2>1, <2>2
<1>7. a \o b = c
  BY <1>4, <1>5, <1>6, SeqEqual
<1> QED
  BY <1>7 DEF a, b, c

\* The pieces put together one after the other
Joined(seqs, f) ==
  f[0] = <<>> /\ \A n \in 1..Len(seqs) : f[n] = f[n - 1] \o seqs[n]

LEMMA FlattenIs ==
  ASSUME NEW S, NEW seqs \in Seq(Seq(S)), NEW f \in [0..Len(seqs) -> Seq(S)],
         Joined(seqs, f)
  PROVE  FlattenSeq(seqs) = f[Len(seqs)]
<1> DEFINE N == Len(seqs)
           Next(g) == [i \in 1..N |-> IF i = 1 THEN seqs[i] ELSE g[i - 1] \o seqs[i]]
           flatten == CHOOSE g : g = Next(g)
           given == [i \in 1..N |-> f[i]]
<1>1. N \in Nat /\ \A n \in 1..N : seqs[n] \in Seq(S)
  BY SequenceElements
<1>2. f[0] = <<>> /\ \A n \in 1..N : f[n] = f[n - 1] \o seqs[n]
  BY DEF Joined
<1>3. CASE N = 0
  <2>1. seqs = <<>>
    BY <1>3
  <2> QED
    BY <1>2, <1>3, <2>1 DEF FlattenSeq
<1>5. N # 0 => f[1] = seqs[1]
  <2> SUFFICES ASSUME N # 0 PROVE f[1] = seqs[1]
    OBVIOUS
  <2>1. 1 \in 1..N /\ 1 - 1 = 0
    BY <1>1
  <2>2. f[1] = <<>> \o seqs[1] /\ seqs[1] \in Seq(S)
    BY <1>1, <1>2, <2>1
  <2> QED
    BY <2>2, ConcatEmptySeq
<1>4. CASE N # 0
  <2>1. given = Next(given)
    <3>1. ASSUME NEW i \in 1..N
          PROVE  f[i] = IF i = 1 THEN seqs[i] ELSE given[i - 1] \o seqs[i]
      <4>1. CASE i = 1
        BY <1>4, <1>5, <4>1
      <4>2. CASE i # 1
        <5>1. i - 1 \in 1..N
          BY <1>1, <4>2
        <5>2. given[i - 1] = f[i - 1]
          BY <5>1
        <5> QED
          BY <1>2, <4>2, <5>2
      <4> QED
        BY <4>1, <4>2
    <3> HIDE DEF N
    <3> QED
      BY <3>1
  <2>2. flatten = Next(flatten)
    <3> HIDE DEF given, Next
    <3> QED
      BY <2>1
  <2>3. FlattenSeq(seqs) = flatten[N]
    BY <1>4 DEF FlattenSeq
  <2> HIDE DEF flatten, N, given
  <2>4. \A i \in 1..N : flatten[i] = IF i = 1 THEN seqs[i] ELSE flatten[i - 1] \o seqs[i]
    BY <2>2
  <2> DEFINE T == {i \in 0..N : i # 0 => flatten[i] = f[i]}
  <2>5. 0 \in T
    BY <1>1
  <2>6. ASSUME NEW i \in 0..(N - 1), i \in T
        PROVE  i + 1 \in T
    <3>1. i + 1 \in 1..N /\ (i + 1) - 1 = i
      BY <1>1
    <3>2. f[i + 1] = f[i] \o seqs[i + 1]
      BY <1>2, <3>1
    <3>3. CASE i = 0
      <4>1. i + 1 = 1 /\ 1 \in 1..N
        BY <3>1, <3>3
      <4>2. flatten[1] = f[1]
        BY <1>4, <1>5, <2>4, <4>1
      <4> QED
        BY <1>1, <4>1, <4>2
    <3>4. CASE i # 0
      <4>1. i + 1 # 1
        BY <3>4
      <4>2. flatten[i + 1] = flatten[(i + 1) - 1] \o seqs[i + 1]
        BY <2>4, <3>1, <4>1
      <4>3. flatten[i] = f[i]
        BY <2>6, <3>4
      <4>4. flatten[i + 1] = f[i + 1]
        BY <3>1, <3>2, <4>2, <4>3
      <4>5. i + 1 \in 0..N
        BY <1>1, <3>1
      <4> QED
        BY <4>4, <4>5
    <3> QED
      BY <3>3, <3>4
  <2>7. \A i \in 0..N : i \in T
    <3> HIDE DEF T
    <3> QED
      BY <1>1, <2>5, <2>6, InductionUpTo
  <2>8. flatten[N] = f[N]
    BY <1>1, <1>4, <2>7
  <2> QED
    BY <2>3, <2>8 DEF N
<1> QED
  BY <1>3, <1>4

LEMMA JoinedExists ==
  ASSUME NEW S, NEW seqs \in Seq(Seq(S))
  PROVE  \E f \in [0..Len(seqs) -> Seq(S)] : Joined(seqs, f)
<1> DEFINE N == Len(seqs)
           G == [x \in (1..N) \X Seq(S) |-> x[2] \o seqs[x[1]]]
<1>1. N \in Nat /\ \A n \in 1..N : seqs[n] \in Seq(S)
  BY SequenceElements
<1>2. <<>> \in Seq(S)
  OBVIOUS
<1> HIDE DEF N
<1>3. G \in [(1..N) \X Seq(S) -> Seq(S)]
  <2>1. ASSUME NEW x \in (1..N) \X Seq(S)
        PROVE  x[2] \o seqs[x[1]] \in Seq(S)
    <3>1. x[1] \in 1..N /\ x[2] \in Seq(S)
      OBVIOUS
    <3> QED
      BY <1>1, <3>1
  <2> QED
    BY <2>1
<1>4. \A n \in 1..N : \A s \in Seq(S) : G[<<n, s>>] = s \o seqs[n]
  OBVIOUS
<1> HIDE DEF G
<1>5. PICK f \in [0..N -> Seq(S)] : f[0] = <<>> /\ \A n \in 1..N : f[n] = G[<<n, f[n - 1]>>]
  <2>1. RecursionExists(N, Seq(S), <<>>, G)
    BY <1>1, <1>2, <1>3, RecursionUpTo, Zenon
  <2> QED
    BY <2>1 DEF RecursionExists
<1>6. ASSUME NEW n \in 1..N
      PROVE  f[n] = f[n - 1] \o seqs[n]
  <2>1. n - 1 \in 0..N
    BY <1>1
  <2>2. f[n - 1] \in Seq(S)
    BY <2>1
  <2> QED
    BY <1>4, <1>5, <2>2
<1> QED
  BY <1>5, <1>6 DEF Joined, N

\* The stream up to the end of the k-th command, and where that is
Upto(cmds, k) == Stream(SubSeq(cmds, 1, k))
End(cmds, k) == Len(Upto(cmds, k))

LEMMA EncodingFacts ==
  ASSUME NEW cmds, IsSendable(cmds), NEW k \in 1..Len(cmds)
  PROVE  /\ cmds[k] \in Command /\ IsCase3(cmds[k])
         /\ Encode(cmds[k]) \in Seq(Byte)
         /\ Len(Encode(cmds[k])) \in Nat /\ Len(Encode(cmds[k])) >= 6
         /\ Encode(cmds[k])[1] \in ClassBytes
<1>1. cmds[k] \in Command /\ IsCase3(cmds[k])
  BY SequenceElements DEF IsSendable
<1> DEFINE e == Encode(cmds[k])
           header == Header(cmds[k])
           data == cmds[k].data
<1>2. PICK lc \in {1, 3} : IsFrame(e, header, lc, data)
  BY <1>1, EncodeFacts
<1>3. header[1] = cmds[k].cla /\ cmds[k].cla \in ClassBytes
  BY <1>1 DEF Header, IsCase3
<1> HIDE DEF e, header, data
<1>4. e[1] = header[1]
  BY <1>2 DEF IsFrame
<1>5. e \in Seq(Byte) /\ Len(e) = 4 + lc + Len(data) /\ Len(data) \in Nat \ {0}
  BY <1>2 DEF IsFrame
<1>6. Len(e) \in Nat /\ Len(e) >= 6
  BY <1>5
<1> QED
  BY <1>1, <1>3, <1>4, <1>5, <1>6 DEF e, header

LEMMA PrefixFacts ==
  ASSUME NEW S, NEW s \in Seq(S), NEW k \in 0..Len(s)
  PROVE  /\ SubSeq(s, 1, k) \in Seq(S)
         /\ Len(SubSeq(s, 1, k)) = k
         /\ \A n \in 1..k : SubSeq(s, 1, k)[n] = s[n]
<1>1. Len(s) \in Nat /\ \A i \in 1..Len(s) : s[i] \in S
  BY SequenceElements
<1>2. \A i \in 1..k : s[i] \in S
  BY <1>1
<1> QED
  BY <1>1, <1>2, SubSeqProperties

\* A stream grows by the encoding of the next command.
LEMMA StreamSteps ==
  ASSUME NEW cmds, IsSendable(cmds)
  PROVE  /\ Upto(cmds, 0) = <<>>
         /\ Upto(cmds, Len(cmds)) = Stream(cmds)
         /\ \A k \in 0..Len(cmds) : Upto(cmds, k) \in Seq(Byte)
         /\ \A k \in 1..Len(cmds) : Upto(cmds, k) = Upto(cmds, k - 1) \o Encode(cmds[k])
<1> DEFINE N == Len(cmds)
           seqs == [i \in DOMAIN cmds |-> Encode(cmds[i])]
<1>1. cmds \in Seq(Command) /\ N \in Nat /\ DOMAIN cmds = 1..N
  BY SequenceElements DEF IsSendable
<1>2. seqs \in Seq(Seq(Byte)) /\ Len(seqs) = N /\ \A i \in 1..N : seqs[i] = Encode(cmds[i])
  <2>1. \A i \in 1..N : Encode(cmds[i]) \in Seq(Byte)
    BY EncodingFacts
  <2> HIDE DEF N
  <2> QED
    BY <1>1, <2>1
<1> HIDE DEF N, seqs
<1>4. PICK g \in [0..N -> Seq(Byte)] : Joined(seqs, g)
  BY <1>2, JoinedExists
<1>5. g[0] = <<>> /\ \A n \in 1..N : g[n] = g[n - 1] \o Encode(cmds[n])
  BY <1>2, <1>4 DEF Joined
<1>6. ASSUME NEW k \in 0..N
      PROVE  Upto(cmds, k) = g[k]
  <2> DEFINE c == SubSeq(cmds, 1, k)
             parts == [i \in DOMAIN c |-> Encode(c[i])]
             h == [i \in 0..k |-> g[i]]
  <2>0. k \in 0..Len(cmds)
    BY DEF N
  <2>1. c \in Seq(Command) /\ Len(c) = k /\ \A n \in 1..k : c[n] = cmds[n]
    BY <1>1, <2>0, PrefixFacts
  <2>2. DOMAIN c = 1..k
    BY <2>1, SequenceElements
  <2> HIDE DEF c
  <2>3. parts = [i \in 1..k |-> Encode(cmds[i])]
    BY <2>1, <2>2
  <2>4. parts \in Seq(Seq(Byte)) /\ Len(parts) = k /\ \A i \in 1..k : parts[i] = Encode(cmds[i])
    <3>1. \A i \in 1..k : Encode(cmds[i]) \in Seq(Byte)
      BY <1>1, EncodingFacts DEF N
    <3> HIDE DEF parts
    <3> QED
      BY <1>1, <2>3, <3>1
  <2> HIDE DEF parts
  <2>5. h \in [0..k -> Seq(Byte)]
    BY <1>1
  <2>6. h[0] = <<>> /\ \A n \in 1..k : h[n] = h[n - 1] \o parts[n]
    <3>1. h[0] = <<>>
      BY <1>1, <1>5
    <3>2. ASSUME NEW n \in 1..k
          PROVE  h[n] = h[n - 1] \o parts[n]
      <4>1. n \in 1..N /\ n \in 0..k /\ n - 1 \in 0..k
        BY <1>1
      <4>2. h[n] = g[n] /\ h[n - 1] = g[n - 1]
        BY <4>1
      <4> QED
        BY <1>5, <2>4, <4>1, <4>2
    <3> QED
      BY <3>1, <3>2
  <2> HIDE DEF h
  <2>7. FlattenSeq(parts) = h[k]
    <3>1. Joined(parts, h)
      BY <2>4, <2>6 DEF Joined
    <3> QED
      BY <2>4, <2>5, <3>1, FlattenIs
  <2>8. h[k] = g[k]
    BY <1>1 DEF h
  <2> QED
    BY <2>7, <2>8 DEF Upto, Stream, c, parts
<1>7. SubSeq(cmds, 1, N) = cmds
  <2>0. N \in 0..N
    BY <1>1
  <2>1. /\ SubSeq(cmds, 1, N) \in Seq(Command) /\ Len(SubSeq(cmds, 1, N)) = N
        /\ \A n \in 1..N : SubSeq(cmds, 1, N)[n] = cmds[n]
    BY <1>1, <2>0, PrefixFacts DEF N
  <2> QED
    BY <1>1, <2>1, SeqEqual DEF N
<1>8. Upto(cmds, N) = Stream(cmds)
  BY <1>7 DEF Upto
<1>9. \A k \in 1..N : Upto(cmds, k) = Upto(cmds, k - 1) \o Encode(cmds[k])
  <2> SUFFICES ASSUME NEW k \in 1..N
               PROVE  Upto(cmds, k) = Upto(cmds, k - 1) \o Encode(cmds[k])
    OBVIOUS
  <2>1. k \in 0..N /\ k - 1 \in 0..N
    BY <1>1
  <2> QED
    BY <1>5, <1>6, <2>1
<1>10. Upto(cmds, 0) = <<>> /\ \A k \in 0..N : Upto(cmds, k) \in Seq(Byte)
  <2>1. 0 \in 0..N
    BY <1>1
  <2> QED
    BY <1>5, <1>6, <2>1
<1> QED
  BY <1>8, <1>9, <1>10 DEF N

LEMMA Ends ==
  ASSUME NEW cmds, IsSendable(cmds)
  PROVE  /\ Len(cmds) \in Nat
         /\ End(cmds, 0) = 0
         /\ Stream(cmds) \in Seq(Byte)
         /\ End(cmds, Len(cmds)) = Len(Stream(cmds))
         /\ \A k \in 0..Len(cmds) : End(cmds, k) \in Nat
         /\ \A k \in 1..Len(cmds) :
              End(cmds, k) = End(cmds, k - 1) + Len(Encode(cmds[k]))
<1>1. Len(cmds) \in Nat
  BY DEF IsSendable
<1>2. \A k \in 0..Len(cmds) : End(cmds, k) \in Nat
  <2> SUFFICES ASSUME NEW k \in 0..Len(cmds) PROVE End(cmds, k) \in Nat
    OBVIOUS
  <2>1. Upto(cmds, k) \in Seq(Byte)
    BY StreamSteps
  <2> QED
    BY <2>1 DEF End
<1>3. ASSUME NEW k \in 1..Len(cmds)
      PROVE  End(cmds, k) = End(cmds, k - 1) + Len(Encode(cmds[k]))
  <2>1. k - 1 \in 0..Len(cmds) /\ Encode(cmds[k]) \in Seq(Byte)
    BY <1>1, EncodingFacts
  <2>2. Upto(cmds, k - 1) \in Seq(Byte) /\ Upto(cmds, k) = Upto(cmds, k - 1) \o Encode(cmds[k])
    BY <2>1, StreamSteps
  <2> QED
    BY <2>1, <2>2, ConcatProperties DEF End
<1>4. Stream(cmds) \in Seq(Byte) /\ End(cmds, Len(cmds)) = Len(Stream(cmds))
  <2>1. Len(cmds) \in 0..Len(cmds)
    BY <1>1
  <2> QED
    BY <2>1, StreamSteps DEF End
<1>5. End(cmds, 0) = 0
  BY StreamSteps DEF End
<1> QED
  BY <1>1, <1>2, <1>3, <1>4, <1>5

\* What follows does not change what was sent.
LEMMA Laid ==
  ASSUME NEW cmds, IsSendable(cmds), NEW k \in 0..Len(cmds)
  PROVE  /\ End(cmds, k) <= Len(Stream(cmds))
         /\ \A i \in 1..End(cmds, k) : Stream(cmds)[i] = Upto(cmds, k)[i]
<1> DEFINE N == Len(cmds)
           Extends(m) == /\ End(cmds, k) <= End(cmds, m)
                         /\ \A i \in 1..End(cmds, k) : Upto(cmds, m)[i] = Upto(cmds, k)[i]
           T == {d \in 0..(N - k) : Extends(k + d)}
<1>1. N \in Nat /\ k \in Nat /\ k <= N /\ N - k \in Nat /\ End(cmds, k) \in Nat
  BY Ends
<1>2. 0 \in T
  BY <1>1
<1>3. ASSUME NEW d \in 0..((N - k) - 1), d \in T
      PROVE  d + 1 \in T
  <2> DEFINE m == k + d
             e == Encode(cmds[m + 1])
  <2>1. /\ m \in 0..N /\ m + 1 \in 1..N /\ (m + 1) - 1 = m /\ k + (d + 1) = m + 1
        /\ d + 1 \in 0..(N - k) /\ m + 1 \in 0..N
    BY <1>1
  <2>2. /\ Upto(cmds, m) \in Seq(Byte) /\ e \in Seq(Byte)
        /\ Upto(cmds, m + 1) = Upto(cmds, m) \o e
    BY <2>1, StreamSteps, EncodingFacts
  <2>3. Len(Upto(cmds, m)) = End(cmds, m) /\ End(cmds, m) \in Nat
        /\ Len(e) \in Nat /\ End(cmds, m + 1) = End(cmds, m) + Len(e)
    BY <2>1, Ends, EncodingFacts DEF End
  <2>4. Extends(m)
    BY <1>3
  <2> HIDE DEF m, e
  <2>5. \A i \in 1..(End(cmds, m) + Len(e)) :
          Upto(cmds, m + 1)[i] = IF i <= End(cmds, m) THEN Upto(cmds, m)[i] ELSE e[i - End(cmds, m)]
    BY <2>2, <2>3, ConcatProperties
  <2>6. Extends(m + 1)
    BY <1>1, <2>3, <2>4, <2>5
  <2> QED
    BY <2>1, <2>6
<1>4. \A d \in 0..(N - k) : d \in T
  <2> HIDE DEF T
  <2> QED
    BY <1>1, <1>2, <1>3, InductionUpTo
<1>5. Extends(N)
  <2>1. N - k \in 0..(N - k) /\ k + (N - k) = N
    BY <1>1
  <2> QED
    BY <1>4, <2>1
<1> QED
  BY <1>5, Ends, StreamSteps

\* Where the next command lies in the stream
LEMMA InStream ==
  ASSUME NEW cmds, IsSendable(cmds), NEW k \in 0..(Len(cmds) - 1)
  PROVE  /\ End(cmds, k) \in Nat /\ End(cmds, k + 1) \in Nat
         /\ End(cmds, k + 1) = End(cmds, k) + Len(Encode(cmds[k + 1]))
         /\ End(cmds, k + 1) <= Len(Stream(cmds))
         /\ \A i \in 1..Len(Encode(cmds[k + 1])) :
              Stream(cmds)[End(cmds, k) + i] = Encode(cmds[k + 1])[i]
<1> DEFINE e == Encode(cmds[k + 1])
           stop == End(cmds, k)
<1>1. /\ Len(cmds) \in Nat /\ k \in 0..Len(cmds) /\ k + 1 \in 0..Len(cmds)
      /\ k + 1 \in 1..Len(cmds) /\ (k + 1) - 1 = k
  BY Ends
<1>2. /\ stop \in Nat /\ End(cmds, k + 1) = stop + Len(e) /\ Len(e) \in Nat
      /\ e \in Seq(Byte) /\ Upto(cmds, k) \in Seq(Byte) /\ Len(Upto(cmds, k)) = stop
      /\ Upto(cmds, k + 1) = Upto(cmds, k) \o e
  BY <1>1, Ends, EncodingFacts, StreamSteps DEF End
<1>3. End(cmds, k + 1) <= Len(Stream(cmds))
      /\ \A i \in 1..End(cmds, k + 1) : Stream(cmds)[i] = Upto(cmds, k + 1)[i]
  BY <1>1, Laid
<1> HIDE DEF e, stop
<1>4. \A i \in 1..(stop + Len(e)) :
        Upto(cmds, k + 1)[i] = IF i <= stop THEN Upto(cmds, k)[i] ELSE e[i - stop]
  BY <1>2, ConcatProperties
<1>5. ASSUME NEW i \in 1..Len(e)
      PROVE  Stream(cmds)[stop + i] = e[i]
  <2>1. stop + i \in 1..(stop + Len(e)) /\ ~(stop + i <= stop) /\ (stop + i) - stop = i
    BY <1>2
  <2> QED
    BY <1>2, <1>3, <1>4, <2>1
<1> QED
  BY <1>2, <1>3, <1>5 DEF e, stop

-----------------------------------------------------------------------------
(* The parser on a stream *)

\* What the buffer holds of the stream up to r when k commands were taken.
Part(cmds, k, r) == SubSeq(Stream(cmds), End(cmds, k) + 1, r)

LEMMA PartFacts ==
  ASSUME NEW cmds, IsSendable(cmds), NEW k \in 0..Len(cmds),
         NEW r \in End(cmds, k)..Len(Stream(cmds))
  PROVE  /\ Part(cmds, k, r) \in Seq(Byte)
         /\ Len(Part(cmds, k, r)) = r - End(cmds, k)
         /\ \A i \in 1..(r - End(cmds, k)) :
              Part(cmds, k, r)[i] = Stream(cmds)[End(cmds, k) + i]
<1> DEFINE b == Stream(cmds)
           m == End(cmds, k) + 1
<1>1. b \in Seq(Byte) /\ End(cmds, k) \in Nat /\ Len(b) \in Nat
  BY Ends
<1>2. m \in Nat \ {0} /\ r \in Nat /\ r <= Len(b)
  BY <1>1
<1> HIDE DEF b
<1>3. /\ SubSeq(b, m, r) \in Seq(Byte)
      /\ Len(SubSeq(b, m, r)) = IF m <= r THEN r - m + 1 ELSE 0
      /\ \A i \in 1..(r - m + 1) : SubSeq(b, m, r)[i] = b[m + i - 1]
  BY <1>1, <1>2, SubSeqOfBytes
<1>4. (IF m <= r THEN r - m + 1 ELSE 0) = r - End(cmds, k) /\ r - m + 1 = r - End(cmds, k)
  BY <1>1, <1>2
<1>5. \A i \in 1..(r - End(cmds, k)) : m + i - 1 = End(cmds, k) + i
  BY <1>1
<1> QED
  BY <1>3, <1>4, <1>5 DEF Part, b

\* No frame is found in what has come of the next command.
LEMMA PartIncomplete ==
  ASSUME NEW cmds, IsSendable(cmds), NEW k \in 0..Len(cmds),
         NEW r \in End(cmds, k)..Len(Stream(cmds)),
         k < Len(cmds) => r < End(cmds, k + 1),
         r \notin HeaderEnds(cmds)
  PROVE  FrameSize(Part(cmds, k, r)) = 0
<1> DEFINE b == Part(cmds, k, r)
           stop == End(cmds, k)
<1>1. /\ stop \in Nat /\ Len(cmds) \in Nat /\ Len(Stream(cmds)) \in Nat
      /\ End(cmds, Len(cmds)) = Len(Stream(cmds))
  BY Ends
<1>2. /\ b \in Seq(Byte) /\ Len(b) = r - stop
      /\ \A i \in 1..(r - stop) : b[i] = Stream(cmds)[stop + i]
  BY PartFacts
<1> HIDE DEF b
<1>3. CASE k = Len(cmds)
  <2>1. Len(b) = 0
    BY <1>1, <1>2, <1>3
  <2>2. ~HasLc(b) /\ Len(b) # 4
    BY <2>1 DEF HasLc
  <2> QED
    BY <2>2 DEF FrameSize, b
<1>4. CASE k # Len(cmds)
  <2> DEFINE e == Encode(cmds[k + 1])
             header == Header(cmds[k + 1])
             data == cmds[k + 1].data
  <2>1. k \in 0..(Len(cmds) - 1) /\ k + 1 \in 1..Len(cmds) /\ (k + 1) - 1 = k
    BY <1>1, <1>4
  <2>2. /\ End(cmds, k + 1) = stop + Len(e) /\ Len(e) \in Nat
        /\ \A i \in 1..Len(e) : Stream(cmds)[stop + i] = e[i]
    BY <2>1, InStream, EncodingFacts
  <2>3. PICK lc \in {1, 3} : IsFrame(e, header, lc, data)
    BY <2>1, EncodingFacts, EncodeFacts
  <2>4. stop + 4 \in HeaderEnds(cmds)
    <3>1. k + 1 \in DOMAIN cmds
      BY <2>1, SequenceElements DEF IsSendable
    <3> QED
      BY <2>1, <3>1 DEF HeaderEnds, End, Upto
  <2> HIDE DEF e, header, data, stop
  <2>5. Len(b) < Len(e) /\ Len(b) # 4
    BY <1>1, <1>2, <2>1, <2>2, <2>4
  <2>6. ASSUME NEW i \in 1..Len(b)
        PROVE  b[i] = e[i]
    <3>1. i \in 1..(r - stop) /\ i \in 1..Len(e)
      BY <1>1, <1>2, <2>2, <2>5
    <3> QED
      BY <1>2, <2>2, <3>1
  <2> QED
    BY <1>2, <2>3, <2>5, <2>6, IncompleteFrame DEF b
<1> QED
  BY <1>3, <1>4

\* The next command is taken as it was sent.
LEMMA PartTaken ==
  ASSUME NEW cmds, IsSendable(cmds), NEW k \in 0..(Len(cmds) - 1),
         NEW r \in End(cmds, k + 1)..Len(Stream(cmds)), NEW fs
  PROVE  TakeFrame([frames |-> fs, rest |-> Part(cmds, k, r)]) =
           [frames |-> Append(fs, cmds[k + 1]), rest |-> Part(cmds, k + 1, r)]
<1> DEFINE b == Part(cmds, k, r)
           stop == End(cmds, k)
           e == Encode(cmds[k + 1])
           header == Header(cmds[k + 1])
           data == cmds[k + 1].data
           s == Stream(cmds)
<1>1. /\ stop \in Nat /\ Len(cmds) \in Nat /\ Len(s) \in Nat /\ s \in Seq(Byte)
      /\ End(cmds, Len(cmds)) = Len(s)
      /\ k + 1 \in 1..Len(cmds) /\ k \in 0..Len(cmds) /\ k + 1 \in 0..Len(cmds)
  BY Ends
<1>2. /\ End(cmds, k + 1) = stop + Len(e) /\ Len(e) \in Nat /\ e \in Seq(Byte)
      /\ Len(e) >= 6 /\ \A i \in 1..Len(e) : s[stop + i] = e[i]
  BY <1>1, InStream, EncodingFacts
<1>3. r \in stop..Len(s) /\ r \in Nat /\ stop + Len(e) <= r /\ r <= Len(s)
  BY <1>1, <1>2
<1>4. /\ b \in Seq(Byte) /\ Len(b) = r - stop
      /\ \A i \in 1..(r - stop) : b[i] = s[stop + i]
  BY <1>1, <1>3, PartFacts
<1>5. PICK lc \in {1, 3} : IsFrame(e, header, lc, data)
  BY <1>1, EncodingFacts, EncodeFacts
<1>6. r > End(cmds, k + 1) => s[End(cmds, k + 1) + 1] \in ClassBytes
  <2> SUFFICES ASSUME r > End(cmds, k + 1) PROVE s[End(cmds, k + 1) + 1] \in ClassBytes
    OBVIOUS
  <2>1. k + 1 \in 0..(Len(cmds) - 1) /\ (k + 1) + 1 \in 1..Len(cmds)
    BY <1>1, <1>2, <1>3
  <2> DEFINE f == Encode(cmds[(k + 1) + 1])
  <2>2. Len(f) \in Nat /\ Len(f) >= 6 /\ f[1] \in ClassBytes
    BY <2>1, EncodingFacts
  <2>3. \A i \in 1..Len(f) : s[End(cmds, k + 1) + i] = f[i]
    BY <2>1, InStream
  <2> HIDE DEF f, s
  <2> QED
    BY <2>2, <2>3
<1>7. SubSeq(b, Len(e) + 1, Len(b)) = Part(cmds, k + 1, r)
  <2> DEFINE c == SubSeq(b, Len(e) + 1, Len(b))
             p == Part(cmds, k + 1, r)
  <2>1. p \in Seq(Byte) /\ Len(p) = r - (stop + Len(e))
        /\ \A i \in 1..(r - (stop + Len(e))) : p[i] = s[(stop + Len(e)) + i]
    <3>1. /\ p \in Seq(Byte) /\ Len(p) = r - End(cmds, k + 1)
          /\ \A i \in 1..(r - End(cmds, k + 1)) : p[i] = s[End(cmds, k + 1) + i]
      BY <1>1, PartFacts
    <3> HIDE DEF p, e, stop, s
    <3> QED
      BY <1>2, <3>1
  <2> HIDE DEF p, b, e, stop, s
  <2>2. c \in Seq(Byte)
        /\ Len(c) = (IF Len(e) + 1 <= Len(b) THEN Len(b) - (Len(e) + 1) + 1 ELSE 0)
        /\ \A i \in 1..(Len(b) - (Len(e) + 1) + 1) : c[i] = b[(Len(e) + 1) + i - 1]
    BY <1>2, <1>4, SubSeqOfBytes
  <2> HIDE DEF c
  <2>3. Len(c) = Len(p)
    <3>0. Len(b) \in Nat /\ Len(e) <= Len(b)
      BY <1>1, <1>2, <1>3, <1>4
    <3>1. Len(e) + 1 <= Len(b) \/ Len(b) = Len(e)
      BY <1>2, <3>0
    <3>2. CASE Len(e) + 1 <= Len(b)
      BY <1>1, <1>2, <1>3, <1>4, <2>1, <2>2, <3>2
    <3>3. CASE Len(b) = Len(e)
      <4>1. r - (stop + Len(e)) = 0 /\ ~(Len(e) + 1 <= Len(b))
        BY <1>1, <1>2, <1>3, <1>4, <3>3
      <4> QED
        BY <2>1, <2>2, <4>1
    <3> QED
      BY <3>1, <3>2, <3>3
  <2>4. ASSUME NEW i \in 1..Len(c)
        PROVE  c[i] = p[i]
    <3>1. /\ i \in 1..(Len(b) - (Len(e) + 1) + 1) /\ i \in 1..(r - (stop + Len(e)))
          /\ Len(e) + i \in 1..(r - stop)
      BY <1>1, <1>2, <1>3, <1>4, <2>1, <2>3
    <3>2. (Len(e) + 1) + i - 1 = Len(e) + i /\ stop + (Len(e) + i) = (stop + Len(e)) + i
      BY <1>1, <1>2
    <3> QED
      BY <1>4, <2>1, <2>2, <3>1, <3>2
  <2> QED
    BY <2>1, <2>2, <2>3, <2>4, SeqEqual DEF c, p
<1>8. SubSeq(b, 1, Len(e)) = e
  <2> HIDE DEF b, e, stop, s
  <2>1. Len(e) \in 0..Len(b)
    BY <1>1, <1>2, <1>3, <1>4
  <2> DEFINE c == SubSeq(b, 1, Len(e))
  <2>2. c \in Seq(Byte) /\ Len(c) = Len(e) /\ \A i \in 1..Len(e) : c[i] = b[i]
    BY <1>4, <2>1, PrefixFacts
  <2>3. \A i \in 1..Len(e) : b[i] = e[i]
    BY <1>1, <1>2, <1>3, <1>4
  <2> HIDE DEF c
  <2>4. c = e
    BY <1>2, <2>2, <2>3, SeqEqual
  <2> QED
    BY <2>4 DEF c
<1>9. FrameSize(b) = Len(e)
  <2> HIDE DEF b, e, stop, s, header, data
  <2>2. \A i \in 1..Len(e) : b[i] = e[i]
    BY <1>1, <1>2, <1>3, <1>4
  <2>3. Len(e) <= Len(b)
    BY <1>1, <1>2, <1>3, <1>4
  <2>4. Len(b) > Len(e) => b[Len(e) + 1] \in ClassBytes
    <3> SUFFICES ASSUME Len(b) > Len(e) PROVE b[Len(e) + 1] \in ClassBytes
      OBVIOUS
    <3>1. Len(e) + 1 \in 1..(r - stop) /\ stop + (Len(e) + 1) = (stop + Len(e)) + 1
          /\ r > stop + Len(e)
      BY <1>1, <1>2, <1>3, <1>4
    <3> QED
      BY <1>2, <1>4, <1>6, <3>1
  <2> QED
    BY <1>4, <1>5, <2>2, <2>3, <2>4, CompleteFrame
<1>10. Decode(e) = cmds[k + 1]
  BY <1>1, EncodingFacts, DecodedFrame
<1> HIDE DEF b, e
<1>11. TakeFrame([frames |-> fs, rest |-> b]) =
         [frames |-> Append(fs, Decode(SubSeq(b, 1, Len(e)))),
          rest |-> SubSeq(b, Len(e) + 1, Len(b))]
  <2>1. Len(e) # 0
    BY <1>2
  <2> QED
    BY <1>9, <2>1 DEF TakeFrame
<1> QED
  BY <1>7, <1>8, <1>10, <1>11 DEF b

\* What the loop of feed works on: commands and bytes, never more bytes than n
LoopStates(n) == {s \in [frames : Seq(Command), rest : Seq(Byte)] : Len(s.rest) <= n}

\* A turn of the loop leaves commands and bytes, and no more of these.
LEMMA TakeFrameTypes ==
  ASSUME NEW n \in Nat, NEW s \in LoopStates(n)
  PROVE  TakeFrame(s) \in LoopStates(n)
<1> DEFINE size == FrameSize(s.rest)
<1>1. s.frames \in Seq(Command) /\ s.rest \in Seq(Byte) /\ Len(s.rest) <= n /\ Len(s.rest) \in Nat
  BY DEF LoopStates
<1> DEFINE b == s.rest
<1> HIDE DEF b
<1>2. b \in Seq(Byte) /\ Len(b) <= n /\ Len(b) \in Nat
  BY <1>1 DEF b
<1>3. CASE size = 0
  <2>1. TakeFrame(s) = s
    BY <1>3 DEF TakeFrame
  <2> QED
    BY <2>1
<1>4. CASE size # 0
  <2> DEFINE cmd == Decode(SubSeq(b, 1, FrameSize(b)))
             c == SubSeq(b, FrameSize(b) + 1, Len(b))
  <2>1. FrameSize(b) # 0 /\ FrameSize(b) \in 0..Len(b)
    BY <1>2, <1>4, FrameIsThere DEF b
  <2>2. cmd \in Command
    BY <1>2, <2>1, FrameGivesCommand
  <2>3. c \in Seq(Byte) /\ Len(c) <= n
    <3> DEFINE m == FrameSize(b) + 1
    <3>1. m \in Nat \ {0}
      BY <1>2, <2>1
    <3>2. c \in Seq(Byte) /\ Len(c) = (IF m <= Len(b) THEN Len(b) - m + 1 ELSE 0)
      BY <1>2, <3>1, SubSeqOfBytes
    <3> HIDE DEF m, c
    <3> QED
      BY <1>2, <3>1, <3>2
  <2>4. TakeFrame(s) = [frames |-> Append(s.frames, cmd), rest |-> c]
    BY <1>4 DEF TakeFrame, b
  <2> HIDE DEF cmd, c
  <2>5. Append(s.frames, cmd) \in Seq(Command)
    BY <1>1, <2>2
  <2> QED
    BY <2>3, <2>4, <2>5 DEF LoopStates
<1> QED
  BY <1>3, <1>4

\* The turns of the loop on b
Turns(b, f) ==
  /\ f[0] = [frames |-> <<>>, rest |-> b]
  /\ \A n \in 1..Len(b) : f[n] = TakeFrame(f[n - 1])

LEMMA ExtractAllIs ==
  ASSUME NEW b \in Seq(Byte)
  PROVE  \E f \in [0..Len(b) -> LoopStates(Len(b))] :
           Turns(b, f) /\ ExtractAll(b) = f[Len(b)]
<1> DEFINE N == Len(b)
           S == LoopStates(N)
           a == [frames |-> <<>>, rest |-> b]
           G == [x \in (1..N) \X S |-> TakeFrame(x[2])]
           Loop(f) == [n \in 0..N |-> IF n = 0 THEN a ELSE TakeFrame(f[n - 1])]
           taken == CHOOSE f : f = Loop(f)
<1>1. N \in Nat
  OBVIOUS
<1>2. a \in S
  BY <1>1 DEF LoopStates
<1>3. \A s \in S : TakeFrame(s) \in S
  BY <1>1, TakeFrameTypes
<1>4. ExtractAll(b) = taken[N]
  BY DEF ExtractAll
<1> HIDE DEF N, S, a
<1>5. G \in [(1..N) \X S -> S] /\ \A n \in 1..N : \A s \in S : G[<<n, s>>] = TakeFrame(s)
  BY <1>3
<1> HIDE DEF G
<1>6. RecursionExists(N, S, a, G)
  BY <1>1, <1>2, <1>5, RecursionUpTo, Zenon
<1>7. PICK g \in [0..N -> S] : g[0] = a /\ \A n \in 1..N : g[n] = G[<<n, g[n - 1]>>]
  BY <1>6 DEF RecursionExists
<1>8. g = Loop(g)
  <2>1. ASSUME NEW n \in 0..N
        PROVE  g[n] = IF n = 0 THEN a ELSE TakeFrame(g[n - 1])
    <3>1. CASE n = 0
      BY <1>7, <3>1
    <3>2. CASE n # 0
      <4>1. n \in 1..N /\ n - 1 \in 0..N
        BY <1>1, <3>2
      <4>2. g[n - 1] \in S
        BY <4>1
      <4> QED
        BY <1>5, <1>7, <3>2, <4>1, <4>2
    <3> QED
      BY <3>1, <3>2
  <2> QED
    BY <2>1
<1>9. taken = Loop(taken)
  <2> HIDE DEF Loop
  <2> QED
    BY <1>8
<1> HIDE DEF taken
<1>10. \A n \in 0..N : taken[n] = IF n = 0 THEN a ELSE TakeFrame(taken[n - 1])
  BY <1>9
<1> DEFINE T == {n \in 0..N : taken[n] \in S}
<1>11. \A n \in 0..N : n \in T
  <2>1. 0 \in T
    BY <1>1, <1>2, <1>10
  <2>2. ASSUME NEW n \in 0..(N - 1), n \in T
        PROVE  n + 1 \in T
    <3>1. n + 1 \in 0..N /\ n + 1 # 0 /\ (n + 1) - 1 = n
      BY <1>1
    <3>2. taken[n + 1] = TakeFrame(taken[n])
      BY <1>10, <3>1
    <3> QED
      BY <1>3, <2>2, <3>1, <3>2
  <2> HIDE DEF T
  <2> QED
    BY <1>1, <2>1, <2>2, InductionUpTo
<1>12. taken \in [0..N -> S]
  <2>1. taken = [n \in 0..N |-> taken[n]]
    BY <1>9
  <2> QED
    BY <1>11, <2>1
<1>13. Turns(b, taken)
  <2>1. taken[0] = a
    BY <1>1, <1>10
  <2>2. ASSUME NEW n \in 1..N
        PROVE  taken[n] = TakeFrame(taken[n - 1])
    <3>1. n \in 0..N /\ n # 0
      BY <1>1
    <3> QED
      BY <1>10, <3>1
  <2> QED
    BY <2>1, <2>2 DEF Turns, N, a
<1> QED
  BY <1>4, <1>12, <1>13 DEF N, S

LEMMA SliceIs ==
  ASSUME NEW S, NEW s \in Seq(S), NEW k \in 0..Len(s), NEW j \in k..Len(s)
  PROVE  /\ SubSeq(s, k + 1, j) \in Seq(S)
         /\ Len(SubSeq(s, k + 1, j)) = j - k
         /\ \A i \in 1..(j - k) : SubSeq(s, k + 1, j)[i] = s[k + i]
<1>1. /\ Len(s) \in Nat /\ k \in Nat /\ j \in Nat /\ k <= j /\ j <= Len(s)
      /\ \A i \in 1..Len(s) : s[i] \in S
  BY SequenceElements
<1>2. \A i \in (k + 1)..j : s[i] \in S
  BY <1>1
<1> QED
  BY <1>1, <1>2, SubSeqProperties

LEMMA SliceGrows ==
  ASSUME NEW S, NEW s \in Seq(S), NEW k \in 0..Len(s), NEW j \in k..Len(s), j < Len(s)
  PROVE  Append(SubSeq(s, k + 1, j), s[j + 1]) = SubSeq(s, k + 1, j + 1)
<1> DEFINE a == SubSeq(s, k + 1, j)
           c == SubSeq(s, k + 1, j + 1)
           x == s[j + 1]
<1>1. /\ Len(s) \in Nat /\ k \in Nat /\ j \in Nat /\ k <= j
      /\ j + 1 \in k..Len(s) /\ x \in S
  <2>1. Len(s) \in Nat /\ \A i \in 1..Len(s) : s[i] \in S
    BY SequenceElements
  <2> QED
    BY <2>1
<1>2. a \in Seq(S) /\ Len(a) = j - k /\ \A i \in 1..(j - k) : a[i] = s[k + i]
  BY SliceIs
<1>3. c \in Seq(S) /\ Len(c) = (j + 1) - k /\ \A i \in 1..((j + 1) - k) : c[i] = s[k + i]
  BY <1>1, SliceIs
<1>4. s[k + ((j + 1) - k)] = x
  <2>1. k + ((j + 1) - k) = j + 1
    BY <1>1
  <2> QED
    BY <2>1
<1> HIDE DEF a, c, x
<1>5. /\ Append(a, x) \in Seq(S) /\ Len(Append(a, x)) = (j + 1) - k
      /\ \A i \in 1..(j - k) : Append(a, x)[i] = a[i]
      /\ Append(a, x)[(j + 1) - k] = x
  <2> DEFINE n == Len(a)
  <2>1. n = j - k /\ n \in Nat /\ (j + 1) - k = n + 1
    BY <1>1, <1>2
  <2>0. a \in Seq(S) /\ x \in S
    BY <1>1, <1>2
  <2>2. Append(a, x) = [i \in 1..(n + 1) |-> IF i = n + 1 THEN x ELSE a[i]]
    BY <2>0, AppendIs
  <2>3. Append(a, x) \in Seq(S) /\ Len(Append(a, x)) = n + 1
    BY <1>1, <1>2
  <2> HIDE DEF n
  <2>4. \A i \in 1..n : Append(a, x)[i] = a[i]
    BY <2>1, <2>2
  <2>5. Append(a, x)[n + 1] = x
    BY <2>1, <2>2
  <2> QED
    BY <2>1, <2>3, <2>4, <2>5
<1>6. ASSUME NEW i \in 1..((j + 1) - k)
      PROVE  Append(a, x)[i] = c[i]
  <2>1. i \in 1..(j - k) \/ i = (j + 1) - k
    BY <1>1
  <2>2. CASE i \in 1..(j - k)
    BY <1>2, <1>3, <1>5, <2>2
  <2>3. CASE i = (j + 1) - k
    BY <1>3, <1>4, <1>5, <2>3
  <2> QED
    BY <2>1, <2>2, <2>3
<1>7. Append(a, x) = c
  BY <1>3, <1>5, <1>6, SeqEqual
<1> QED
  BY <1>7 DEF a, c, x

\* The commands up to j are those that end by r.
ReachedBy(cmds, j, r) ==
  /\ j \in 0..Len(cmds)
  /\ End(cmds, j) <= r
  /\ j < Len(cmds) => r < End(cmds, j + 1)

\* feed's loop takes from a part of the stream the commands that end in it.
LEMMA PartExtracted ==
  ASSUME NEW cmds, IsSendable(cmds), NEW k \in 0..Len(cmds),
         NEW r \in End(cmds, k)..Len(Stream(cmds)), r \notin HeaderEnds(cmds)
  PROVE  \E j \in k..Len(cmds) :
           /\ ReachedBy(cmds, j, r)
           /\ ExtractAll(Part(cmds, k, r)) =
                [frames |-> SubSeq(cmds, k + 1, j), rest |-> Part(cmds, j, r)]
<1> DEFINE N == Len(cmds)
           b == Part(cmds, k, r)
           State(j) == [frames |-> SubSeq(cmds, k + 1, j), rest |-> Part(cmds, j, r)]
<1>1. /\ cmds \in Seq(Command) /\ N \in Nat /\ k \in Nat /\ k <= N
      /\ Len(Stream(cmds)) \in Nat /\ End(cmds, k) \in Nat /\ r \in Nat
      /\ End(cmds, k) <= r /\ r <= Len(Stream(cmds))
      /\ \A j \in 0..N : End(cmds, j) \in Nat
  BY Ends DEF IsSendable
<1>2. b \in Seq(Byte) /\ Len(b) = r - End(cmds, k)
  BY PartFacts
<1>3. PICK f \in [0..Len(b) -> LoopStates(Len(b))] :
        Turns(b, f) /\ ExtractAll(b) = f[Len(b)]
  BY <1>2, ExtractAllIs
<1>4. f[0] = [frames |-> <<>>, rest |-> b] /\ \A n \in 1..Len(b) : f[n] = TakeFrame(f[n - 1])
  BY <1>3 DEF Turns
<1>5. \A j \in k..N : j < N =>
        End(cmds, j + 1) \in Nat /\ End(cmds, j + 1) >= End(cmds, j) + 6
  <2> SUFFICES ASSUME NEW j \in k..N, j < N
               PROVE  End(cmds, j + 1) \in Nat /\ End(cmds, j + 1) >= End(cmds, j) + 6
    OBVIOUS
  <2> DEFINE size == Len(Encode(cmds[j + 1]))
  <2>1. j \in 0..(Len(cmds) - 1) /\ j + 1 \in 1..Len(cmds) /\ j \in 0..N
    BY <1>1
  <2>2. /\ End(cmds, j + 1) = End(cmds, j) + size
        /\ End(cmds, j + 1) \in Nat /\ size \in Nat /\ size >= 6
    BY <2>1, InStream, EncodingFacts
  <2> HIDE DEF size
  <2>3. End(cmds, j) \in Nat
    BY <1>1, <2>1
  <2> QED
    BY <2>2, <2>3
<1> DEFINE Past(n, j) == /\ End(cmds, j) <= r
                         /\ f[n] = State(j)
                         /\ \/ End(cmds, j) - End(cmds, k) >= n
                            \/ j < N => r < End(cmds, j + 1)
           T == {n \in 0..Len(b) : \E j \in k..N : Past(n, j)}
<1>6. 0 \in T
  <2>1. SubSeq(cmds, k + 1, k) = <<>>
    <3>1. k \in k..N
      BY <1>1
    <3>2. SubSeq(cmds, k + 1, k) \in Seq(Command) /\ Len(SubSeq(cmds, k + 1, k)) = k - k
      BY <1>1, <3>1, SliceIs
    <3> QED
      BY <1>1, <3>2
  <2>2. f[0] = State(k)
    BY <1>4, <2>1
  <2> HIDE DEF State, b, N
  <2>3. Past(0, k) /\ k \in k..N
    BY <1>1, <2>2
  <2>4. 0 \in 0..Len(b)
    BY <1>2
  <2> QED
    BY <2>3, <2>4
<1>7. ASSUME NEW n \in 0..(Len(b) - 1), n \in T
      PROVE  n + 1 \in T
  <2>1. PICK j \in k..N : Past(n, j)
    BY <1>7
  <2>2. /\ n + 1 \in 1..Len(b) /\ n + 1 \in 0..Len(b) /\ (n + 1) - 1 = n
        /\ j \in 0..N /\ End(cmds, j) \in Nat
    BY <1>1, <1>2
  <2>3. f[n + 1] = TakeFrame(State(j))
    BY <1>4, <2>1, <2>2
  <2>4. CASE j < N => r < End(cmds, j + 1)
    <3>1. r \in End(cmds, j)..Len(Stream(cmds))
      BY <1>1, <2>1, <2>2
    <3>2. FrameSize(Part(cmds, j, r)) = 0
      BY <2>2, <2>4, <3>1, PartIncomplete
    <3>3. TakeFrame(State(j)) = State(j)
      BY <3>2 DEF TakeFrame
    <3> HIDE DEF State, b, N
    <3>4. Past(n + 1, j)
      BY <2>1, <2>3, <2>4, <3>3
    <3> QED
      BY <2>2, <3>4
  <2>5. CASE ~(j < N => r < End(cmds, j + 1))
    <3>1. /\ j < N /\ j \in 0..(Len(cmds) - 1) /\ j + 1 \in k..N
          /\ End(cmds, j + 1) \in Nat /\ End(cmds, j + 1) >= End(cmds, j) + 6
          /\ r \in End(cmds, j + 1)..Len(Stream(cmds)) /\ End(cmds, j + 1) <= r
      BY <1>1, <1>5, <2>2, <2>5
    <3>2. TakeFrame(State(j)) =
            [frames |-> Append(SubSeq(cmds, k + 1, j), cmds[j + 1]),
             rest |-> Part(cmds, j + 1, r)]
      BY <3>1, PartTaken
    <3>3. Append(SubSeq(cmds, k + 1, j), cmds[j + 1]) = SubSeq(cmds, k + 1, j + 1)
      BY <1>1, <3>1, SliceGrows
    <3>4. f[n + 1] = State(j + 1)
      BY <2>3, <3>2, <3>3
    <3> HIDE DEF State, b, N
    <3>5. End(cmds, j) - End(cmds, k) >= n
      BY <2>1, <2>5
    <3>6. End(cmds, j + 1) - End(cmds, k) >= n + 1
      BY <1>1, <2>2, <3>1, <3>5
    <3>7. Past(n + 1, j + 1)
      BY <3>1, <3>4, <3>6
    <3> QED
      BY <2>2, <3>1, <3>7
  <2> QED
    BY <2>4, <2>5
<1>8. Len(b) \in T
  <2>1. Len(b) \in Nat
    BY <1>2
  <2>2. \A n \in 0..Len(b) : n \in T
    <3> HIDE DEF T, b
    <3> QED
      BY <1>6, <1>7, <2>1, InductionUpTo
  <2>3. Len(b) \in 0..Len(b)
    BY <2>1
  <2> QED
    BY <2>2, <2>3
<1>9. PICK j \in k..N : Past(Len(b), j)
  BY <1>8
<1>10. ReachedBy(cmds, j, r)
  <2>1. j \in 0..N /\ End(cmds, j) \in Nat /\ End(cmds, j) <= r
    BY <1>1, <1>9
  <2>2. j < N => r < End(cmds, j + 1)
    <3>1. End(cmds, j) - End(cmds, k) >= r - End(cmds, k) \/ (j < N => r < End(cmds, j + 1))
      BY <1>2, <1>9
    <3> HIDE DEF N
    <3> QED
      BY <1>1, <1>5, <2>1, <3>1
  <2> QED
    BY <2>1, <2>2 DEF ReachedBy
<1> QED
  BY <1>3, <1>9, <1>10

-----------------------------------------------------------------------------
(* The parser *)

LEMMA StreamsAreSendable == \A cmds \in Streams : IsSendable(cmds)
BY StreamsAssumption DEF IsSendable

\* What has been parsed and what is buffered, when the parser keeps its promise
InStepWithStream(k) ==
  /\ ReachedBy(sent, k, read)
  /\ parsed = SubSeq(sent, 1, k)
  /\ buffer = Part(sent, k, read)

ParserInv ==
  /\ ParserTypeOK
  /\ IsSplittable => \E k \in 0..Len(sent) : InStepWithStream(k)

LEMMA ParserInitially ==
  ASSUME ParserInit
  PROVE  ParserInv
<1> DEFINE N == Len(sent)
<1>1. IsSendable(sent) /\ sent \in Streams
  BY StreamsAreSendable DEF ParserInit
<1>2. read = 0 /\ buffer = <<>> /\ parsed = <<>> /\ cut = FALSE
  BY DEF ParserInit
<1>3. /\ N \in Nat /\ End(sent, 0) = 0 /\ Len(Stream(sent)) \in Nat /\ 0 \in 0..N
      /\ sent \in Seq(Command) /\ 0 \in 0..Len(Stream(sent))
  BY <1>1, Ends DEF IsSendable
<1>4. ParserTypeOK
  <2>1. MaxBuffer \in Nat
    BY SizesAssumption
  <2>2. buffer \in Seq(Byte) /\ Len(buffer) = 0 /\ parsed \in Seq(Command)
    BY <1>2
  <2>3. Len(buffer) <= MaxBuffer
    BY <2>1, <2>2
  <2> QED
    BY <1>1, <1>2, <1>3, <2>2, <2>3 DEF ParserTypeOK
<1>5. InStepWithStream(0)
  <2>1. 0 < N => 0 < End(sent, 0 + 1)
    <3> SUFFICES ASSUME 0 < N PROVE 0 < End(sent, 0 + 1)
      OBVIOUS
    <3>1. 0 \in 0..(N - 1) /\ 0 + 1 \in 1..N
      BY <1>3
    <3> DEFINE size == Len(Encode(sent[0 + 1]))
    <3>2. End(sent, 0 + 1) = End(sent, 0) + size /\ size \in Nat /\ size >= 6
      BY <1>1, <3>1, InStream, EncodingFacts
    <3> HIDE DEF size
    <3> QED
      BY <1>3, <3>2
  <2>2. ReachedBy(sent, 0, 0)
    BY <1>3, <2>1 DEF ReachedBy
  <2>3. SubSeq(sent, 1, 0) = <<>>
    <3>1. SubSeq(sent, 1, 0) \in Seq(Command) /\ Len(SubSeq(sent, 1, 0)) = 0
      BY <1>3, PrefixFacts
    <3> QED
      BY <3>1
  <2>4. Part(sent, 0, 0) = <<>>
    <3>1. 0 \in End(sent, 0)..Len(Stream(sent))
      BY <1>3
    <3>2. Part(sent, 0, 0) \in Seq(Byte) /\ Len(Part(sent, 0, 0)) = 0 - End(sent, 0)
      BY <1>1, <1>3, <3>1, PartFacts
    <3> QED
      BY <1>3, <3>2
  <2> QED
    BY <1>2, <2>2, <2>3, <2>4 DEF InStepWithStream
<1> QED
  BY <1>3, <1>4, <1>5 DEF ParserInv

\* What a read adds
LEMMA Arrival ==
  ASSUME ParserTypeOK, NEW n \in 1..ChunkSize, Arrive(n)
  PROVE  /\ IsSendable(sent) /\ sent \in Streams /\ sent' = sent
         /\ read \in Nat /\ n \in Nat /\ n >= 1 /\ n <= ChunkSize
         /\ read' = read + n /\ read' \in 0..Len(Stream(sent))
         /\ cut' \in BOOLEAN
         /\ IsSplittable' => IsSplittable /\ read' \notin HeaderEnds(sent)
         /\ Buffered(n) \in Seq(Byte)
<1>1. IsSendable(sent) /\ sent \in Streams
  BY StreamsAreSendable DEF ParserTypeOK
<1>2. Stream(sent) \in Seq(Byte) /\ Len(Stream(sent)) \in Nat
  BY <1>1, Ends
<1>3. /\ sent' = sent /\ read' = read + n /\ n <= Len(Stream(sent)) - read
      /\ cut' = (cut \/ read + n \in HeaderEnds(sent))
  BY DEF Arrive
<1>4. read \in Nat /\ read <= Len(Stream(sent)) /\ cut \in BOOLEAN
  BY <1>2 DEF ParserTypeOK
<1>5. n \in Nat /\ n >= 1 /\ n <= ChunkSize
  BY SizesAssumption
<1>6. read' \in 0..Len(Stream(sent)) /\ read + n <= Len(Stream(sent)) /\ read + n \in Nat
  BY <1>2, <1>3, <1>4, <1>5
<1>7. cut' \in BOOLEAN
  BY <1>3, <1>4
<1>8. IsSplittable' => IsSplittable /\ read' \notin HeaderEnds(sent)
  BY <1>3 DEF IsSplittable
<1>9. Buffered(n) \in Seq(Byte)
  <2>1. read + 1 \in Nat \ {0}
    BY <1>4
  <2>2. SubSeq(Stream(sent), read + 1, read + n) \in Seq(Byte)
    BY <1>2, <1>6, <2>1, SubSeqOfBytes
  <2>3. buffer \in Seq(Byte)
    BY DEF ParserTypeOK
  <2> QED
    BY <2>2, <2>3 DEF Buffered
<1> QED
  BY <1>1, <1>3, <1>4, <1>5, <1>6, <1>7, <1>8, <1>9

\* As long as the promise holds, what is buffered is what came of the next
\* command, with the read behind it, and fits.
LEMMA ArrivalInStep ==
  ASSUME ParserInv, NEW n \in 1..ChunkSize, Arrive(n), IsSplittable'
  PROVE  \E k \in 0..Len(sent) :
           /\ parsed = SubSeq(sent, 1, k)
           /\ End(sent, k) <= read
           /\ read' \in End(sent, k)..Len(Stream(sent))
           /\ Buffered(n) = Part(sent, k, read')
           /\ Len(Buffered(n)) <= MaxBuffer
<1>1. /\ IsSendable(sent) /\ read \in Nat /\ n \in Nat /\ n >= 1 /\ n <= ChunkSize
      /\ read' = read + n /\ read' \in 0..Len(Stream(sent)) /\ IsSplittable
  BY Arrival DEF ParserInv
<1>2. PICK k \in 0..Len(sent) : InStepWithStream(k)
  BY <1>1 DEF ParserInv
<1>3. ReachedBy(sent, k, read) /\ parsed = SubSeq(sent, 1, k) /\ buffer = Part(sent, k, read)
  BY <1>2 DEF InStepWithStream
<1>4. /\ End(sent, k) \in Nat /\ Len(sent) \in Nat /\ Len(Stream(sent)) \in Nat
      /\ Stream(sent) \in Seq(Byte) /\ End(sent, Len(sent)) = Len(Stream(sent))
  BY <1>1, Ends
<1>5. End(sent, k) <= read /\ (k < Len(sent) => read < End(sent, k + 1))
  BY <1>3 DEF ReachedBy
<1>6. /\ read' \in End(sent, k)..Len(Stream(sent)) /\ read \in End(sent, k)..Len(Stream(sent))
      /\ End(sent, k) \in 0..Len(Stream(sent)) /\ read' \in read..Len(Stream(sent))
  BY <1>1, <1>4, <1>5
<1>7. Buffered(n) = Part(sent, k, read')
  <2>1. SubSeq(Stream(sent), End(sent, k) + 1, read) \o SubSeq(Stream(sent), read + 1, read')
          = SubSeq(Stream(sent), End(sent, k) + 1, read')
    BY <1>4, <1>6, ConcatSubSeqs
  <2> QED
    BY <1>1, <1>3, <2>1 DEF Buffered, Part
<1>8. Len(Buffered(n)) = read' - End(sent, k)
  BY <1>1, <1>6, <1>7, PartFacts
<1>9. k # Len(sent)
  BY <1>1, <1>4, <1>5, <1>6
<1>10. Len(Buffered(n)) <= MaxBuffer
  <2> DEFINE size == Len(Encode(sent[k + 1]))
  <2>1. k \in 0..(Len(sent) - 1) /\ k + 1 \in 1..Len(sent) /\ k < Len(sent)
    BY <1>4, <1>9
  <2>2. End(sent, k + 1) = End(sent, k) + size /\ size \in Nat
    BY <1>1, <2>1, InStream, EncodingFacts
  <2>3. size - 1 + ChunkSize <= MaxBuffer
    <3>1. k + 1 \in DOMAIN sent
      BY <1>1, <2>1, SequenceElements DEF IsSendable
    <3> QED
      BY <1>1, <3>1 DEF IsSplittable, FitsBuffer
  <2>4. ChunkSize \in Nat /\ MaxBuffer \in Nat
    BY SizesAssumption
  <2> HIDE DEF size
  <2> QED
    BY <1>1, <1>4, <1>5, <1>8, <2>1, <2>2, <2>3, <2>4
<1> QED
  BY <1>3, <1>5, <1>6, <1>7, <1>10

LEMMA FeedKeeps ==
  ASSUME ParserInv, NEW n \in 1..ChunkSize, Feed(n)
  PROVE  ParserInv'
<1> DEFINE b == Buffered(n)
<1>1. Arrive(n) /\ ParserTypeOK
  BY DEF Feed, ParserInv
<1>2. /\ IsSendable(sent) /\ sent \in Streams /\ sent' = sent
      /\ read' \in 0..Len(Stream(sent)) /\ cut' \in BOOLEAN
      /\ IsSplittable' => IsSplittable /\ read' \notin HeaderEnds(sent)
      /\ b \in Seq(Byte)
  BY <1>1, Arrival
<1>3. Len(b) <= MaxBuffer /\ buffer' = ExtractAll(b).rest
      /\ parsed' = parsed \o ExtractAll(b).frames
  BY DEF Feed
<1>4. Len(b) \in Nat /\ MaxBuffer \in Nat /\ parsed \in Seq(Command)
  BY <1>1, <1>2, SizesAssumption DEF ParserTypeOK
<1>5. ParserTypeOK'
  <2>1. PICK f \in [0..Len(b) -> LoopStates(Len(b))] : ExtractAll(b) = f[Len(b)]
    BY <1>2, ExtractAllIs
  <2>2. Len(b) \in 0..Len(b)
    BY <1>4
  <2>3. ExtractAll(b) \in LoopStates(Len(b))
    BY <2>1, <2>2
  <2>4. /\ buffer' \in Seq(Byte) /\ Len(buffer') <= Len(b) /\ Len(buffer') \in Nat
        /\ parsed' \in Seq(Command)
    BY <1>3, <1>4, <2>3 DEF LoopStates
  <2>5. Len(buffer') <= MaxBuffer
    BY <1>3, <1>4, <2>4
  <2> QED
    BY <1>2, <2>4, <2>5 DEF ParserTypeOK
<1>6. ASSUME IsSplittable'
      PROVE  \E k \in 0..Len(sent) : InStepWithStream(k)'
  <2>1. PICK k \in 0..Len(sent) :
          /\ parsed = SubSeq(sent, 1, k)
          /\ read' \in End(sent, k)..Len(Stream(sent))
          /\ b = Part(sent, k, read')
    BY <1>1, <1>6, ArrivalInStep
  <2>2. PICK j \in k..Len(sent) :
          /\ ReachedBy(sent, j, read')
          /\ ExtractAll(b) = [frames |-> SubSeq(sent, k + 1, j), rest |-> Part(sent, j, read')]
    BY <1>2, <1>6, <2>1, PartExtracted
  <2>3. sent \in Seq(Command) /\ Len(sent) \in Nat
    BY <1>2 DEF IsSendable
  <2>4. parsed' = SubSeq(sent, 1, j)
    <3>1. 0 \in 0..Len(sent) /\ k \in 0..Len(sent) /\ 0 + 1 = 1
      BY <2>3
    <3>2. SubSeq(sent, 0 + 1, k) \o SubSeq(sent, k + 1, j) = SubSeq(sent, 0 + 1, j)
      BY <2>3, <3>1, ConcatSubSeqs
    <3>3. ExtractAll(b).frames = SubSeq(sent, k + 1, j)
      BY <2>2
    <3>4. parsed' = SubSeq(sent, 1, k) \o SubSeq(sent, k + 1, j)
      BY <1>3, <2>1, <3>3, Zenon
    <3> QED
      BY <3>1, <3>2, <3>4
  <2>5. buffer' = Part(sent, j, read')
    BY <1>3, <2>2
  <2>6. InStepWithStream(j)'
    BY <1>2, <2>2, <2>4, <2>5 DEF InStepWithStream
  <2>7. j \in 0..Len(sent)
    BY <2>3
  <2> QED
    BY <2>6, <2>7
<1> QED
  BY <1>2, <1>5, <1>6 DEF ParserInv

LEMMA FeedOverflowKeeps ==
  ASSUME ParserInv, NEW n \in 1..ChunkSize, FeedOverflow(n)
  PROVE  ParserInv'
<1>1. Arrive(n) /\ ParserTypeOK
  BY DEF FeedOverflow, ParserInv
<1>2. /\ sent \in Streams /\ sent' = sent
      /\ read' \in 0..Len(Stream(sent)) /\ cut' \in BOOLEAN /\ Buffered(n) \in Seq(Byte)
  BY <1>1, Arrival
<1>3. buffer' = <<>> /\ parsed' = parsed /\ Len(Buffered(n)) > MaxBuffer
  BY DEF FeedOverflow
<1>4. MaxBuffer \in Nat /\ Len(Buffered(n)) \in Nat
  BY <1>2, SizesAssumption
<1>5. ParserTypeOK'
  <2>1. Len(buffer') <= MaxBuffer /\ buffer' \in Seq(Byte)
    BY <1>3, <1>4
  <2> QED
    BY <1>1, <1>2, <1>3, <2>1 DEF ParserTypeOK
<1>6. ~IsSplittable'
  <2> SUFFICES ASSUME IsSplittable' PROVE FALSE
    OBVIOUS
  <2>1. Len(Buffered(n)) <= MaxBuffer
    BY <1>1, ArrivalInStep
  <2> QED
    BY <1>3, <1>4, <2>1
<1> QED
  BY <1>5, <1>6 DEF ParserInv

\* ApduFrameParser.feed keeps in step with the stream: what it has returned and
\* what it holds are the commands that have come, and the rest.
THEOREM ParserInvariant == ParserSpec => []ParserInv
<1>1. ParserInit => ParserInv
  BY ParserInitially
<1>2. ParserInv /\ [ParserNext]_parserVars => ParserInv'
  <2> SUFFICES ASSUME ParserInv, [ParserNext]_parserVars
               PROVE  ParserInv'
    OBVIOUS
  <2>1. ASSUME NEW n \in 1..ChunkSize, Feed(n)
        PROVE  ParserInv'
    BY <2>1, FeedKeeps
  <2>2. ASSUME NEW n \in 1..ChunkSize, FeedOverflow(n)
        PROVE  ParserInv'
    BY <2>2, FeedOverflowKeeps
  <2>3. CASE UNCHANGED parserVars
    BY <2>3 DEF parserVars, ParserInv, ParserTypeOK, IsSplittable, InStepWithStream
  <2> QED
    BY <2>1, <2>2, <2>3 DEF ParserNext
<1> QED
  BY <1>1, <1>2, PTL DEF ParserSpec

\* The parser's state keeps its types, whatever the reads: what feed takes from the
\* buffer are always commands, and the buffer stays within its limit.
THEOREM ParserTypes == ParserSpec => []ParserTypeOK
<1>1. ParserInv => ParserTypeOK
  BY DEF ParserInv
<1> QED
  BY <1>1, ParserInvariant, PTL

\* Whatever bytes the data of the commands holds, the commands found in the stream
\* are those sent, in order, unless a read ends behind a header.
THEOREM ParsedInOrder == ParserSpec => []ParsedAreSent
<1>1. ParserInv => ParsedAreSent
  <2> SUFFICES ASSUME ParserInv, IsSplittable
               PROVE  IsPrefix(parsed, sent)
    BY DEF ParsedAreSent
  <2>1. IsSendable(sent) /\ sent \in Seq(Command) /\ Len(sent) \in Nat
    BY StreamsAreSendable DEF ParserInv, ParserTypeOK, IsSendable
  <2>2. PICK k \in 0..Len(sent) : parsed = SubSeq(sent, 1, k)
    BY DEF ParserInv, InStepWithStream
  <2>3. parsed \in Seq(Command) /\ Len(parsed) = k
    BY <2>1, <2>2, PrefixFacts
  <2>4. SubSeq(parsed, 1, k) = parsed
    <3>1. k \in 0..Len(parsed)
      BY <2>1, <2>3
    <3>2. /\ SubSeq(parsed, 1, k) \in Seq(Command) /\ Len(SubSeq(parsed, 1, k)) = k
          /\ \A i \in 1..k : SubSeq(parsed, 1, k)[i] = parsed[i]
      BY <2>3, <3>1, PrefixFacts
    <3> QED
      BY <2>3, <3>2, SeqEqual
  <2> QED
    BY <2>1, <2>2, <2>3, <2>4 DEF IsPrefix
<1> QED
  BY <1>1, ParserInvariant, PTL

\* No command stays in the buffer when its last byte has been read.
THEOREM NoCommandHeldBack == ParserSpec => []NothingHeldBack
<1>1. ParserInv => NothingHeldBack
  <2> SUFFICES ASSUME ParserInv, IsSplittable
               PROVE  NothingHeldBack
    BY DEF NothingHeldBack
  <2> DEFINE s == Stream(sent)
  <2>1. /\ IsSendable(sent) /\ sent \in Seq(Command) /\ Len(sent) \in Nat
        /\ read \in 0..Len(s)
    BY StreamsAreSendable DEF ParserInv, ParserTypeOK, IsSendable
  <2>2. PICK k \in 0..Len(sent) : InStepWithStream(k)
    BY DEF ParserInv
  <2>3. /\ End(sent, k) <= read /\ (k < Len(sent) => read < End(sent, k + 1))
        /\ parsed = SubSeq(sent, 1, k) /\ buffer = Part(sent, k, read)
    BY <2>2 DEF InStepWithStream, ReachedBy
  <2>4. /\ s \in Seq(Byte) /\ Len(s) \in Nat /\ End(sent, k) \in Nat
        /\ Upto(sent, k) \in Seq(Byte) /\ Len(Upto(sent, k)) = End(sent, k)
    BY <2>1, Ends, StreamSteps DEF End
  <2>5. Len(parsed) = k
    BY <2>1, <2>3, PrefixFacts
  <2>6. Upto(sent, k) \o buffer = SubSeq(s, 1, read)
    <3>1. End(sent, k) <= Len(s) /\ \A i \in 1..End(sent, k) : s[i] = Upto(sent, k)[i]
      BY <2>1, Laid
    <3> HIDE DEF s
    <3>2. /\ 0 \in 0..Len(s) /\ End(sent, k) \in 0..Len(s) /\ read \in End(sent, k)..Len(s)
          /\ 0 + 1 = 1
      BY <2>1, <2>3, <2>4, <3>1
    <3>3. /\ SubSeq(s, 1, End(sent, k)) \in Seq(Byte)
          /\ Len(SubSeq(s, 1, End(sent, k))) = End(sent, k)
          /\ \A i \in 1..End(sent, k) : SubSeq(s, 1, End(sent, k))[i] = s[i]
      BY <2>4, <3>2, PrefixFacts
    <3>4. Upto(sent, k) = SubSeq(s, 1, End(sent, k))
      BY <2>4, <3>1, <3>3, SeqEqual
    <3>5. SubSeq(s, 0 + 1, End(sent, k)) \o SubSeq(s, End(sent, k) + 1, read)
            = SubSeq(s, 0 + 1, read)
      BY <2>4, <3>2, ConcatSubSeqs
    <3> QED
      BY <2>3, <3>2, <3>4, <3>5 DEF Part, s
  <2>7. k < Len(sent) => Len(buffer) < Len(Encode(sent[k + 1]))
    <3> SUFFICES ASSUME k < Len(sent)
                 PROVE  Len(buffer) < Len(Encode(sent[k + 1]))
      OBVIOUS
    <3> DEFINE size == Len(Encode(sent[k + 1]))
    <3>1. k \in 0..(Len(sent) - 1) /\ k + 1 \in 1..Len(sent) /\ read \in End(sent, k)..Len(s)
      BY <2>1, <2>3, <2>4
    <3>2. End(sent, k + 1) = End(sent, k) + size /\ size \in Nat
      BY <2>1, <3>1, InStream, EncodingFacts
    <3>3. Len(buffer) = read - End(sent, k)
      BY <2>1, <2>3, <3>1, PartFacts
    <3> HIDE DEF size, s
    <3>4. Len(buffer) < size
      BY <2>1, <2>3, <2>4, <3>1, <3>2, <3>3
    <3> QED
      BY <3>4 DEF size
  <2> QED
    BY <2>5, <2>6, <2>7 DEF NothingHeldBack, Upto
<1> QED
  BY <1>1, ParserInvariant, PTL

=============================================================================
