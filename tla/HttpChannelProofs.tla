--------------------------- MODULE HttpChannelProofs ---------------------------
(***************************************************************************)
(* Proofs about HttpChannel, for any number of clients, commands and       *)
(* blocks, and commands of any length, those that run out of block numbers *)
(* included; and about the abstract channel that it implements while no    *)
(* command is disturbed.                                                   *)
(*                                                                         *)
(* Without a disturbance one client at most is sending, and the buffer is  *)
(* in step with it: it holds what the client has sent.  Or the buffer is   *)
(* stuck: a command longer than there are block numbers has filled it, it  *)
(* waits for a block that does not exist, and passes over everything.      *)
(***************************************************************************)
EXTENDS HttpChannel, SequenceLemmas

\* Types of the clients, the processor and the histories.
HttpTypeOK ==
  /\ sending \in [Senders -> Transmission \union {Nothing}]
  /\ submitted \in Nat
  /\ selected \in BOOLEAN
  /\ segments \in Seq(Segment)
  /\ expected_block \in Nat
  /\ dispatched \in Seq(Seq(Segment))
  /\ disturbed \in BOOLEAN

\* The buffer holds the segments that s has sent of its command.
InStep(s) ==
  /\ Len(segments) = sending[s].next
  /\ \A i \in 1..sending[s].next :
       segments[i] = [command |-> sending[s].command, index |-> i - 1, last |-> FALSE]

\* No block number matches.
IsStuck == expected_block = Blocks

BlocksCounted == expected_block = Len(segments) /\ expected_block <= Blocks

\* Before SELECT nothing is stored, and no command gets past its first segment.
NothingUnselected ==
  ~selected => segments = <<>> /\ \A s \in Senders : IsSending(s) => sending[s].next = 0

OneAtATime == \A r, s \in Senders : IsSending(r) /\ IsSending(s) => r = s

BufferInStep ==
  /\ \A s \in Senders : IsSending(s) => InStep(s)
  /\ (\A s \in Senders : ~IsSending(s)) => segments = <<>>

CommandsNumbered == \A s \in Senders : IsSending(s) => sending[s].command > 0

HttpInv ==
  /\ HttpTypeOK
  /\ BlocksCounted
  /\ NothingUnselected
  /\ CommandsNumbered
  /\ UndisturbedWhole
  /\ ~disturbed => OneAtATime /\ (IsStuck \/ BufferInStep)

-----------------------------------------------------------------------------
(* Clients *)

LEMMA TransmissionFields ==
  ASSUME NEW t \in Transmission
  PROVE  /\ t = [command |-> t.command, length |-> t.length, next |-> t.next]
         /\ t.command \in Nat /\ t.length \in 1..MaxLength /\ t.next \in Nat
         /\ t.next < t.length
BY DEF Transmission

\* The segment a client sends next; its block number wraps.
LEMMA NextSegmentIs ==
  ASSUME HttpTypeOK, NEW s \in Senders, IsSending(s)
  PROVE  /\ sending[s] \in Transmission
         /\ NextSegment(s) \in Segment
         /\ NextSegment(s).last <=> sending[s].next + 1 = sending[s].length
         /\ BlockNumber(NextSegment(s)) \in 0..(Blocks - 1)
         /\ sending[s].next < Blocks => BlockNumber(NextSegment(s)) = sending[s].next
<1>1. sending[s] \in Transmission
  BY DEF HttpTypeOK, IsSending
<1>2. /\ sending[s].command \in Nat
      /\ sending[s].length \in 1..MaxLength
      /\ sending[s].next \in Nat
  BY <1>1, TransmissionFields
<1>3. NextSegment(s) \in Segment
  BY <1>2 DEF NextSegment, Segment
<1>4. \A a \in Nat : a % Blocks \in 0..(Blocks - 1) /\ (a < Blocks => a % Blocks = a)
  BY SegmentsAssumption DEF SegmentsAssumption
<1>5. BlockNumber(NextSegment(s)) = sending[s].next % Blocks
  BY DEF NextSegment, BlockNumber
<1> QED
  BY <1>1, <1>2, <1>3, <1>4, <1>5 DEF NextSegment

\* What a segment sent makes of its client.
LEMMA SegmentSentIs ==
  ASSUME HttpTypeOK, NEW s \in Senders, IsSending(s), SegmentSent(s)
  PROVE  /\ sending' \in [Senders -> Transmission \union {Nothing}]
         /\ submitted' = submitted
         /\ \A r \in Senders \ {s} : sending'[r] = sending[r]
         /\ NextSegment(s).last => sending'[s] = Nothing
         /\ ~NextSegment(s).last =>
              /\ sending'[s] # Nothing
              /\ sending'[s].command = sending[s].command
              /\ sending'[s].next = sending[s].next + 1
<1> DEFINE t == [sending[s] EXCEPT !.next = @ + 1]
<1>1. sending \in [Senders -> Transmission \union {Nothing}] /\ sending[s] \in Transmission
  BY NextSegmentIs DEF HttpTypeOK
<1>2. /\ t = [command |-> sending[s].command, length |-> sending[s].length,
              next |-> sending[s].next + 1]
      /\ sending[s].command \in Nat
      /\ sending[s].length \in 1..MaxLength
      /\ sending[s].next \in Nat
      /\ sending[s].next < sending[s].length
  BY <1>1, TransmissionFields
<1>3. ~NextSegment(s).last => t \in Transmission
  BY <1>2, NextSegmentIs DEF Transmission
<1>4. t.command = sending[s].command /\ t.next = sending[s].next + 1
  BY <1>2
<1>5. sending' = [sending EXCEPT ![s] = IF NextSegment(s).last THEN Nothing ELSE t]
      /\ submitted' = submitted
  BY DEF SegmentSent
<1> HIDE DEF t
<1>6. ~NextSegment(s).last => t # Nothing
  BY <1>3, NothingAssumption
<1> QED
  BY <1>1, <1>3, <1>4, <1>5, <1>6

\* A command dispatched in step is whole.
LEMMA InStepIsWhole ==
  ASSUME HttpTypeOK, NEW s \in Senders, IsSending(s), InStep(s), NextSegment(s).last
  PROVE  /\ IsWhole(Append(segments, NextSegment(s)))
         /\ Append(segments, NextSegment(s))[1].command = sending[s].command
<1> DEFINE data == Append(segments, NextSegment(s))
           n == sending[s].next
<1>1. /\ n \in Nat
      /\ NextSegment(s) = [command |-> sending[s].command, index |-> n, last |-> TRUE]
      /\ NextSegment(s) \in Segment
  BY NextSegmentIs, TransmissionFields DEF NextSegment
<1>2. segments \in Seq(Segment) /\ Len(segments) = n
  BY DEF HttpTypeOK, InStep
<1>3. /\ data # <<>> /\ Len(data) = n + 1 /\ DOMAIN data = 1..(n + 1)
      /\ data[n + 1] = NextSegment(s)
      /\ \A i \in 1..n : data[i] = segments[i]
  BY <1>1, <1>2, AppendProperties, LenProperties
<1> HIDE DEF data
<1>4. ASSUME NEW i \in DOMAIN data
      PROVE  data[i] = [command |-> sending[s].command, index |-> i - 1, last |-> i = Len(data)]
  <2>1. CASE i = n + 1
    <3>1. (i = Len(data)) = TRUE /\ i - 1 = n
      BY <1>1, <1>3, <2>1
    <3> QED BY <1>1, <1>3, <2>1, <3>1
  <2>2. CASE i \in 1..n
    <3>1. (i = Len(data)) = FALSE
      BY <1>1, <1>3, <2>2
    <3>2. data[i] = [command |-> sending[s].command, index |-> i - 1, last |-> FALSE]
      BY <1>3, <2>2 DEF InStep
    <3> QED BY <3>1, <3>2
  <2> QED BY <1>1, <1>3, <2>1, <2>2
<1>5. 1 \in DOMAIN data
  BY <1>1, <1>3
<1>6. data[1].command = sending[s].command
  BY <1>4, <1>5
<1> QED
  BY <1>3, <1>4, <1>6 DEF IsWhole, data

LEMMA HttpInvInit == HttpInit => HttpInv
<1> SUFFICES ASSUME HttpInit PROVE HttpInv
  OBVIOUS
<1>1. HttpTypeOK
  <2>1. <<>> \in Seq(Segment) /\ <<>> \in Seq(Seq(Segment))
    OBVIOUS
  <2>2. [s \in Senders |-> Nothing] \in [Senders -> Transmission \union {Nothing}]
    OBVIOUS
  <2> QED BY <2>1, <2>2 DEF HttpInit, ClientsInit, HttpTypeOK
<1> QED
  BY <1>1, SegmentsAssumption
     DEF HttpInit, ClientsInit, HttpInv, IsSending, BlocksCounted, NothingUnselected,
         CommandsNumbered, UndisturbedWhole, OneAtATime, BufferInStep, SegmentsAssumption

LEMMA BeginCommandStep ==
  ASSUME HttpInv, NEW s \in Senders, BeginCommand(s)
  PROVE  HttpInv'
<1>1. PICK length \in 1..MaxLength : Submit(s, length)
  BY DEF BeginCommand
<1> DEFINE t == [command |-> submitted + 1, length |-> length, next |-> 0]
<1>2. HttpTypeOK
  BY DEF HttpInv
<1>3. t \in Transmission
  BY <1>2 DEF HttpTypeOK, Transmission
<1>4. t.command > 0 /\ t.next = 0
  BY <1>2 DEF HttpTypeOK
<1>5. /\ sending' = [sending EXCEPT ![s] = t]
      /\ submitted' = submitted + 1
      /\ disturbed' = (disturbed \/ \E r \in Senders : IsSending(r))
      /\ UNCHANGED <<selected, segments, expected_block, dispatched>>
  BY <1>1 DEF BeginCommand, Submit, processorVars
<1> HIDE DEF t
<1>6. HttpTypeOK'
  BY <1>2, <1>3, <1>5 DEF HttpTypeOK
<1>7. \A r \in Senders : sending'[r] = IF r = s THEN t ELSE sending[r]
  BY <1>2, <1>5 DEF HttpTypeOK
<1>8. NothingUnselected' /\ CommandsNumbered'
  BY <1>4, <1>5, <1>7 DEF HttpInv, NothingUnselected, CommandsNumbered, IsSending
<1>9. ASSUME ~disturbed' PROVE OneAtATime' /\ (IsStuck \/ BufferInStep)'
  <2>1. ~disturbed /\ \A r \in Senders : sending[r] = Nothing
    BY <1>5, <1>9 DEF IsSending
  <2>2. \A r \in Senders : sending'[r] # Nothing => r = s
    BY <1>7, <2>1
  <2>3. OneAtATime'
    BY <2>2 DEF OneAtATime, IsSending
  <2>4. CASE IsStuck
    BY <1>5, <2>3, <2>4 DEF IsStuck
  <2>5. CASE BufferInStep
    <3>1. segments = <<>>
      BY <2>1, <2>5 DEF BufferInStep, IsSending
    <3>2. InStep(s)'
      BY <1>4, <1>5, <1>7, <3>1 DEF InStep
    <3> QED BY <1>5, <2>2, <2>3, <3>1, <3>2 DEF BufferInStep, IsSending
  <2> QED BY <2>1, <2>4, <2>5 DEF HttpInv
<1> QED
  BY <1>5, <1>6, <1>8, <1>9 DEF HttpInv, BlocksCounted, UndisturbedWhole

\* A client that stops sends nothing; this disturbs the next if it had begun.
LEMMA ClientStops ==
  ASSUME HttpInv, NEW s \in Senders, IsSending(s), StopSending(s),
         UNCHANGED <<processorVars, dispatched>>,
         disturbed' \in BOOLEAN, disturbed => disturbed',
         ~disturbed' => sending[s].next = 0
  PROVE  HttpInv'
<1>1. HttpTypeOK
  BY DEF HttpInv
<1>2. /\ sending' = [sending EXCEPT ![s] = Nothing]
      /\ UNCHANGED <<submitted, selected, segments, expected_block, dispatched>>
  BY DEF StopSending, processorVars
<1>3. HttpTypeOK'
  BY <1>1, <1>2 DEF HttpTypeOK
<1>4. \A r \in Senders : sending'[r] = IF r = s THEN Nothing ELSE sending[r]
  BY <1>1, <1>2 DEF HttpTypeOK
<1>5. NothingUnselected' /\ CommandsNumbered'
  BY <1>2, <1>4 DEF HttpInv, NothingUnselected, CommandsNumbered, IsSending
<1>6. ASSUME ~disturbed' PROVE OneAtATime' /\ (IsStuck \/ BufferInStep)'
  <2>1. ~disturbed /\ OneAtATime /\ (IsStuck \/ BufferInStep) /\ sending[s].next = 0
    BY <1>6 DEF HttpInv
  <2>2. \A r \in Senders : sending'[r] = Nothing
    BY <1>4, <2>1 DEF OneAtATime, IsSending
  <2>3. OneAtATime'
    BY <2>2 DEF OneAtATime, IsSending
  <2>4. CASE IsStuck
    BY <1>2, <2>3, <2>4 DEF IsStuck
  <2>5. CASE BufferInStep
    <3>1. Len(segments) = 0
      BY <2>1, <2>5 DEF BufferInStep, InStep
    <3>2. segments = <<>>
      BY <1>1, <3>1 DEF HttpTypeOK
    <3> QED BY <1>2, <2>2, <2>3, <3>2 DEF BufferInStep, IsSending
  <2> QED BY <2>1, <2>4, <2>5
<1> QED
  BY <1>2, <1>3, <1>5, <1>6 DEF HttpInv, BlocksCounted, UndisturbedWhole

LEMMA GiveUpCommandStep ==
  ASSUME HttpInv, NEW s \in Senders, GiveUpCommand(s)
  PROVE  HttpInv'
<1>1. sending[s].next \in Nat /\ disturbed \in BOOLEAN
  BY NextSegmentIs, TransmissionFields DEF HttpInv, HttpTypeOK, GiveUpCommand
<1>2. disturbed' = (disturbed \/ sending[s].next > 0)
  BY DEF GiveUpCommand
<1>3. disturbed' \in BOOLEAN
  BY <1>1, <1>2
<1>4. disturbed => disturbed'
  BY <1>1, <1>2
<1>5. ~disturbed' => sending[s].next = 0
  <2>1. sending[s].next > 0 => disturbed'
    BY <1>2
  <2> QED BY <1>1, <2>1
<1> QED
  BY <1>3, <1>4, <1>5, ClientStops DEF GiveUpCommand

-----------------------------------------------------------------------------
(* The processor *)

LEMMA HandleSelectStep ==
  ASSUME HttpInv, NEW s \in Senders, HandleSelect(s)
  PROVE  HttpInv'
BY DEF HandleSelect, clientVars, HttpInv, HttpTypeOK, BlocksCounted, NothingUnselected,
       CommandsNumbered, UndisturbedWhole, OneAtATime, IsStuck, BufferInStep, InStep, IsSending

LEMMA RefuseUnselectedStep ==
  ASSUME HttpInv, NEW s \in Senders, IsSending(s), RefuseUnselected(s), UNCHANGED disturbed
  PROVE  HttpInv'
<1>1. sending[s].next = 0 /\ disturbed \in BOOLEAN
  BY DEF HttpInv, HttpTypeOK, NothingUnselected, RefuseUnselected
<1> QED
  BY <1>1, ClientStops DEF RefuseUnselected

\* A buffer in step passes a segment over only when the block numbers are used
\* up, and then for good.
LEMMA PassOverMismatchedStep ==
  ASSUME HttpInv, NEW s \in Senders, IsSending(s), PassOverMismatched(s), UNCHANGED disturbed
  PROVE  HttpInv'
<1>1. HttpTypeOK
  BY DEF HttpInv
<1>2. /\ SegmentSent(s)
      /\ selected
      /\ BlockNumber(NextSegment(s)) # expected_block
      /\ UNCHANGED <<selected, segments, expected_block, dispatched>>
  BY DEF PassOverMismatched, processorVars
<1>3. /\ sending' \in [Senders -> Transmission \union {Nothing}]
      /\ submitted' = submitted
      /\ \A r \in Senders \ {s} : sending'[r] = sending[r]
      /\ sending'[s] # Nothing => sending'[s].command = sending[s].command
  BY <1>1, <1>2, SegmentSentIs
<1>4. HttpTypeOK'
  BY <1>1, <1>2, <1>3 DEF HttpTypeOK
<1>5. NothingUnselected' /\ CommandsNumbered'
  BY <1>2, <1>3 DEF HttpInv, NothingUnselected, CommandsNumbered, IsSending
<1>6. ASSUME ~disturbed' PROVE OneAtATime' /\ IsStuck'
  <2>1. ~disturbed /\ OneAtATime /\ (IsStuck \/ BufferInStep)
    BY <1>6 DEF HttpInv
  <2>2. OneAtATime'
    BY <1>3, <2>1 DEF OneAtATime, IsSending
  <2>3. IsStuck
    <3> SUFFICES ASSUME BufferInStep PROVE IsStuck
      BY <2>1
    <3>1. expected_block = sending[s].next /\ expected_block <= Blocks
      BY DEF HttpInv, BlocksCounted, BufferInStep, InStep
    <3>2. ~(sending[s].next < Blocks)
      BY <1>1, <1>2, <3>1, NextSegmentIs
    <3>3. sending[s].next \in Nat
      BY <1>1, NextSegmentIs, TransmissionFields
    <3> QED BY <3>1, <3>2, <3>3, SegmentsAssumption DEF SegmentsAssumption, IsStuck
  <2> QED BY <1>2, <2>2, <2>3 DEF IsStuck
<1> QED
  BY <1>2, <1>4, <1>5, <1>6 DEF HttpInv, BlocksCounted, UndisturbedWhole

\* A segment that matches comes to a buffer that is not stuck.
LEMMA MatchIsInStep ==
  ASSUME HttpInv, NEW s \in Senders, IsSending(s),
         BlockNumber(NextSegment(s)) = expected_block
  PROVE  expected_block < Blocks /\ (~disturbed => OneAtATime /\ InStep(s))
<1>1. expected_block \in 0..(Blocks - 1)
  BY NextSegmentIs DEF HttpInv
<1>2. expected_block < Blocks /\ ~IsStuck
  BY <1>1, SegmentsAssumption DEF SegmentsAssumption, IsStuck
<1> QED
  BY <1>2 DEF HttpInv, BufferInStep

LEMMA StoreSegmentStep ==
  ASSUME HttpInv, NEW s \in Senders, IsSending(s), StoreSegment(s), UNCHANGED disturbed
  PROVE  HttpInv'
<1> DEFINE data == Append(segments, NextSegment(s))
           n == sending[s].next
<1>1. HttpTypeOK
  BY DEF HttpInv
<1>2. /\ SegmentSent(s)
      /\ selected
      /\ BlockNumber(NextSegment(s)) = expected_block
      /\ ~NextSegment(s).last
      /\ segments' = data
      /\ expected_block' = expected_block + 1
      /\ UNCHANGED <<selected, dispatched>>
  BY DEF StoreSegment
<1>3. /\ sending' \in [Senders -> Transmission \union {Nothing}]
      /\ submitted' = submitted
      /\ \A r \in Senders \ {s} : sending'[r] = sending[r]
      /\ sending'[s] # Nothing
      /\ sending'[s].command = sending[s].command
      /\ sending'[s].next = n + 1
  BY <1>1, <1>2, SegmentSentIs
<1>4. /\ NextSegment(s) \in Segment /\ segments \in Seq(Segment) /\ n \in Nat
      /\ NextSegment(s) = [command |-> sending[s].command, index |-> n, last |-> FALSE]
  BY <1>1, <1>2, NextSegmentIs, TransmissionFields DEF HttpTypeOK, NextSegment
<1>5. /\ data \in Seq(Segment) /\ Len(data) = Len(segments) + 1 /\ Len(segments) \in Nat
      /\ \A i \in 1..Len(segments) : data[i] = segments[i]
      /\ data[Len(segments) + 1] = NextSegment(s)
  BY <1>4, AppendProperties, LenProperties
<1> HIDE DEF data
<1>6. HttpTypeOK'
  BY <1>1, <1>2, <1>3, <1>5 DEF HttpTypeOK
<1>7. NothingUnselected' /\ CommandsNumbered'
  BY <1>2, <1>3 DEF HttpInv, NothingUnselected, CommandsNumbered, IsSending
<1>8. BlocksCounted'
  <2>1. expected_block = Len(segments) /\ expected_block < Blocks
    BY <1>2, MatchIsInStep DEF HttpInv, BlocksCounted
  <2>2. Blocks \in Nat
    BY SegmentsAssumption DEF SegmentsAssumption
  <2> QED BY <1>2, <1>5, <2>1, <2>2 DEF BlocksCounted
<1>9. ASSUME ~disturbed' PROVE OneAtATime' /\ BufferInStep'
  <2>1. OneAtATime /\ InStep(s)
    BY <1>2, <1>9, MatchIsInStep
  <2>2. \A r \in Senders : IsSending(r)' => r = s
    BY <1>3, <2>1 DEF OneAtATime, IsSending
  <2>3. InStep(s)'
    <3>1. Len(segments) = n
      BY <2>1 DEF InStep
    <3>2. ASSUME NEW i \in 1..(n + 1)
          PROVE  data[i] = [command |-> sending[s].command, index |-> i - 1, last |-> FALSE]
      <4>1. CASE i \in 1..n
        BY <1>5, <2>1, <3>1, <4>1 DEF InStep
      <4>2. CASE i = n + 1
        <5>1. i - 1 = n /\ data[i] = NextSegment(s)
          BY <1>4, <1>5, <3>1, <4>2
        <5> QED BY <1>4, <5>1
      <4> QED BY <1>4, <4>1, <4>2
    <3> QED BY <1>2, <1>3, <1>5, <3>1, <3>2 DEF InStep
  <2> QED BY <1>3, <2>2, <2>3 DEF OneAtATime, BufferInStep, IsSending
<1> QED
  BY <1>2, <1>6, <1>7, <1>8, <1>9 DEF HttpInv, UndisturbedWhole

LEMMA DispatchStep ==
  ASSUME HttpInv, NEW s \in Senders, IsSending(s), Dispatch(s), UNCHANGED disturbed
  PROVE  HttpInv'
<1> DEFINE data == Append(segments, NextSegment(s))
<1>1. HttpTypeOK
  BY DEF HttpInv
<1>2. /\ SegmentSent(s)
      /\ selected
      /\ BlockNumber(NextSegment(s)) = expected_block
      /\ NextSegment(s).last
      /\ dispatched' = Append(dispatched, data)
      /\ segments' = <<>> /\ expected_block' = 0
      /\ UNCHANGED selected
  BY DEF Dispatch, ResetBuffer
<1>3. /\ sending' \in [Senders -> Transmission \union {Nothing}]
      /\ submitted' = submitted
      /\ \A r \in Senders \ {s} : sending'[r] = sending[r]
      /\ sending'[s] = Nothing
  BY <1>1, <1>2, SegmentSentIs
<1>4. data \in Seq(Segment) /\ dispatched \in Seq(Seq(Segment))
  <2>1. NextSegment(s) \in Segment /\ segments \in Seq(Segment)
    BY <1>1, NextSegmentIs DEF HttpTypeOK
  <2> QED BY <1>1, <2>1, AppendProperties DEF HttpTypeOK
<1>5. ~disturbed => OneAtATime /\ IsWhole(data)
  BY <1>1, <1>2, MatchIsInStep, InStepIsWhole
<1> HIDE DEF data
<1>6. /\ dispatched' \in Seq(Seq(Segment))
      /\ DOMAIN dispatched = 1..Len(dispatched) /\ Len(dispatched) \in Nat
      /\ DOMAIN dispatched' = 1..(Len(dispatched) + 1)
      /\ \A i \in 1..Len(dispatched) : dispatched'[i] = dispatched[i]
      /\ dispatched'[Len(dispatched) + 1] = data
  BY <1>2, <1>4, AppendProperties, LenProperties
<1>7. HttpTypeOK'
  BY <1>1, <1>2, <1>3, <1>6 DEF HttpTypeOK
<1>8. NothingUnselected' /\ CommandsNumbered' /\ BlocksCounted'
  BY <1>2, <1>3, SegmentsAssumption
     DEF HttpInv, NothingUnselected, CommandsNumbered, BlocksCounted, IsSending, SegmentsAssumption
<1>9. UndisturbedWhole'
  <2>1. \A i \in DOMAIN dispatched' : i \in 1..Len(dispatched) \/ i = Len(dispatched) + 1
    BY <1>6
  <2> QED BY <1>5, <1>6, <2>1 DEF HttpInv, UndisturbedWhole
<1>10. ASSUME ~disturbed' PROVE OneAtATime' /\ BufferInStep'
  <2>1. \A r \in Senders : sending'[r] = Nothing
    BY <1>3, <1>5, <1>10 DEF OneAtATime, IsSending
  <2> QED BY <1>2, <2>1 DEF OneAtATime, BufferInStep, IsSending
<1> QED
  BY <1>7, <1>8, <1>9, <1>10 DEF HttpInv

LEMMA HttpInvStep == HttpInv /\ [HttpNext]_httpVars => HttpInv'
<1> SUFFICES ASSUME HttpInv, [HttpNext]_httpVars PROVE HttpInv'
  OBVIOUS
<1>1. CASE UNCHANGED httpVars
  BY <1>1 DEF httpVars, clientVars, processorVars, HttpInv, HttpTypeOK, BlocksCounted,
    NothingUnselected, CommandsNumbered, UndisturbedWhole, OneAtATime, IsStuck, BufferInStep,
    InStep, IsSending
<1>2. ASSUME NEW s \in Senders, HandleStoreData(s) PROVE HttpInv'
  BY <1>2, RefuseUnselectedStep, PassOverMismatchedStep, StoreSegmentStep, DispatchStep
     DEF HandleStoreData
<1> QED
  BY <1>1, <1>2, BeginCommandStep, GiveUpCommandStep, HandleSelectStep DEF HttpNext

\* HttpInv holds of every behaviour.
THEOREM HttpInvariant == HttpSpec => []HttpInv
BY HttpInvInit, HttpInvStep, PTL DEF HttpSpec

\* Whatever the commands' lengths, one after the other they are dispatched
\* whole or not at all (ApduProcessor.process_apdu).
THEOREM WholeWhenUndisturbed == HttpSpec => []UndisturbedWhole
<1>1. HttpInv => UndisturbedWhole
  BY DEF HttpInv
<1> QED BY <1>1, HttpInvariant, PTL

-----------------------------------------------------------------------------
(* Refinement of CommandChannel *)

\* What a sender waits for, and what was executed, in the abstract channel.
Pending(s) == IF IsSending(s) THEN sending[s].command ELSE 0

Executed == [i \in DOMAIN dispatched |-> CommandOf(dispatched[i])]

LEMMA OthersWait ==
  ASSUME NEW s \in Senders, \A r \in Senders \ {s} : sending'[r] = sending[r], NEW n,
         Pending(s)' = n
  PROVE  [r \in Senders |-> Pending(r)]' = [[r \in Senders |-> Pending(r)] EXCEPT ![s] = n]
BY DEF Pending, IsSending

\* The abstract channel's actions under the refinement mapping.
LEMMA ChannelActions ==
  ASSUME NEW s \in Senders
  PROVE  /\ Channel!Drop(s) <=>
              /\ [r \in Senders |-> Pending(r)]' =
                   [[r \in Senders |-> Pending(r)] EXCEPT ![s] = 0]
              /\ UNCHANGED <<Executed, submitted>>
         /\ Channel!Issue(s) <=>
              /\ [r \in Senders |-> Pending(r)][s] = 0
              /\ submitted' = submitted + 1
              /\ [r \in Senders |-> Pending(r)]' =
                   [[r \in Senders |-> Pending(r)] EXCEPT ![s] = submitted + 1]
              /\ UNCHANGED Executed
         /\ Channel!Execute(s) <=>
              /\ [r \in Senders |-> Pending(r)][s] # 0
              /\ Executed' = Append(Executed, [r \in Senders |-> Pending(r)][s])
              /\ [r \in Senders |-> Pending(r)]' =
                   [[r \in Senders |-> Pending(r)] EXCEPT ![s] = 0]
              /\ UNCHANGED submitted
BY DEF Channel!Drop, Channel!Issue, Channel!Execute, Pending, Executed

\* A step that neither issues nor executes keeps the sender waiting or drops
\* its command.
LEMMA WaitOrDrop ==
  ASSUME NEW s \in Senders,
         \A r \in Senders \ {s} : sending'[r] = sending[r],
         Pending(s)' \in {0, Pending(s)},
         UNCHANGED <<dispatched, submitted>>
  PROVE  [Channel!Next]_Channel!channelVars
<1>1. UNCHANGED <<Executed, submitted>>
  BY DEF Executed
<1>2. CASE Pending(s)' = 0
  BY <1>1, <1>2, OthersWait, ChannelActions DEF Channel!Next
<1>3. CASE Pending(s)' = Pending(s)
  <2>1. [r \in Senders |-> Pending(r)]' = [r \in Senders |-> Pending(r)]
    BY <1>3 DEF Pending, IsSending
  <2> QED BY <1>1, <2>1 DEF Channel!channelVars, Pending, Executed
<1> QED BY <1>2, <1>3

LEMMA BeginCommandRefines ==
  ASSUME HttpInv, NEW s \in Senders, BeginCommand(s)
  PROVE  Channel!Next
<1>1. PICK length \in 1..MaxLength : Submit(s, length)
  BY DEF BeginCommand
<1> DEFINE t == [command |-> submitted + 1, length |-> length, next |-> 0]
<1>2. /\ sending' = [sending EXCEPT ![s] = t]
      /\ submitted' = submitted + 1
      /\ ~IsSending(s)
      /\ UNCHANGED dispatched
  BY <1>1 DEF BeginCommand, Submit
<1>3. t # Nothing /\ t.command = submitted + 1
  <2>1. t \in Transmission
    BY DEF HttpInv, HttpTypeOK, Transmission
  <2> QED BY <2>1, NothingAssumption
<1>4. sending'[s] = t /\ \A r \in Senders \ {s} : sending'[r] = sending[r]
  BY <1>2 DEF HttpInv, HttpTypeOK
<1> HIDE DEF t
<1>5. Pending(s) = 0 /\ Pending(s)' = submitted + 1
  BY <1>2, <1>3, <1>4 DEF Pending, IsSending
<1>6. UNCHANGED Executed
  BY <1>2 DEF Executed
<1>7. Channel!Issue(s)
  BY <1>2, <1>4, <1>5, <1>6, OthersWait, ChannelActions
<1> QED BY <1>7 DEF Channel!Next

\* A step of the client's that dispatches nothing.
LEMMA NoDispatchRefines ==
  ASSUME HttpInv, NEW s \in Senders,
         \/ GiveUpCommand(s) \/ HandleSelect(s)
         \/ IsSending(s) /\ (RefuseUnselected(s) \/ PassOverMismatched(s) \/ StoreSegment(s))
  PROVE  [Channel!Next]_Channel!channelVars
<1>1. HttpTypeOK
  BY DEF HttpInv
<1>2. CASE GiveUpCommand(s) \/ HandleSelect(s) \/ RefuseUnselected(s)
  <2>1. sending' \in {sending, [sending EXCEPT ![s] = Nothing]} /\ UNCHANGED <<dispatched, submitted>>
    BY <1>2 DEF GiveUpCommand, HandleSelect, RefuseUnselected, StopSending, clientVars
  <2>2. sending'[s] \in {sending[s], Nothing} /\ \A r \in Senders \ {s} : sending'[r] = sending[r]
    BY <1>1, <2>1 DEF HttpTypeOK
  <2>3. Pending(s)' \in {0, Pending(s)}
    BY <2>2 DEF Pending, IsSending
  <2> QED BY <2>1, <2>2, <2>3, WaitOrDrop
<1>3. CASE IsSending(s) /\ (PassOverMismatched(s) \/ StoreSegment(s))
  <2>1. SegmentSent(s) /\ UNCHANGED dispatched
    BY <1>3 DEF PassOverMismatched, StoreSegment
  <2>2. /\ submitted' = submitted
        /\ \A r \in Senders \ {s} : sending'[r] = sending[r]
        /\ sending'[s] # Nothing => sending'[s].command = sending[s].command
    BY <1>1, <1>3, <2>1, SegmentSentIs
  <2>3. Pending(s)' \in {0, Pending(s)}
    BY <1>3, <2>2 DEF Pending, IsSending
  <2> QED BY <2>1, <2>2, <2>3, WaitOrDrop
<1> QED BY <1>2, <1>3

LEMMA CommandIsNumber ==
  ASSUME NEW d \in Seq(Segment)
  PROVE  CommandOf(d) \in Nat
BY DEF CommandOf, IsWhole, Segment

LEMMA DispatchRefines ==
  ASSUME HttpInv, ~disturbed, NEW s \in Senders, IsSending(s), Dispatch(s)
  PROVE  Channel!Next
<1> DEFINE data == Append(segments, NextSegment(s))
<1>1. HttpTypeOK
  BY DEF HttpInv
<1>2. /\ BlockNumber(NextSegment(s)) = expected_block
      /\ NextSegment(s).last
      /\ SegmentSent(s)
      /\ dispatched' = Append(dispatched, data)
  BY DEF Dispatch
<1>3. /\ submitted' = submitted
      /\ \A r \in Senders \ {s} : sending'[r] = sending[r]
      /\ sending'[s] = Nothing
  BY <1>1, <1>2, SegmentSentIs
<1>4. CommandOf(data) = sending[s].command
  BY <1>1, <1>2, MatchIsInStep, InStepIsWhole DEF CommandOf
<1>5. Pending(s) = sending[s].command /\ Pending(s) # 0 /\ Pending(s)' = 0
  <2>1. sending[s].command > 0 /\ sending[s].command \in Nat
    BY <1>1, NextSegmentIs, TransmissionFields DEF HttpInv, CommandsNumbered
  <2> QED BY <1>3, <2>1 DEF Pending, IsSending
<1>6. data \in Seq(Segment) /\ dispatched \in Seq(Seq(Segment))
  <2>1. NextSegment(s) \in Segment /\ segments \in Seq(Segment)
    BY <1>1, NextSegmentIs DEF HttpTypeOK
  <2> QED BY <1>1, <2>1, AppendProperties DEF HttpTypeOK
<1> HIDE DEF data
<1>7. Executed' = Append(Executed, Pending(s))
  <2>1. /\ Len(dispatched) \in Nat
        /\ DOMAIN dispatched = 1..Len(dispatched)
        /\ DOMAIN dispatched' = 1..(Len(dispatched) + 1)
        /\ dispatched'[Len(dispatched) + 1] = data
        /\ \A i \in 1..Len(dispatched) : dispatched'[i] = dispatched[i]
    BY <1>2, <1>6
  <2>2. Executed' = [i \in 1..(Len(dispatched) + 1) |->
                       IF i = Len(dispatched) + 1 THEN Pending(s) ELSE Executed[i]]
    BY <1>4, <1>5, <2>1 DEF Executed
  <2>3. \A i \in DOMAIN dispatched : CommandOf(dispatched[i]) \in Nat
    BY <1>6, CommandIsNumber
  <2>4. Executed \in Seq(Nat) /\ Len(Executed) = Len(dispatched)
    BY <2>1, <2>3 DEF Executed
  <2>5. Pending(s) \in Nat
    BY <1>4, <1>5, <1>6, CommandIsNumber
  <2>6. Append(Executed, Pending(s)) =
          [i \in 1..(Len(Executed) + 1) |->
             IF i = Len(Executed) + 1 THEN Pending(s) ELSE Executed[i]]
    BY <2>4, <2>5, AppendIs
  <2> QED BY <2>2, <2>4, <2>6
<1>8. Channel!Execute(s)
  BY <1>3, <1>5, <1>7, OthersWait, ChannelActions
<1> QED BY <1>8 DEF Channel!Next

LEMMA UndisturbedStepRefines ==
  ASSUME HttpInv, ~disturbed, [HttpNext]_httpVars
  PROVE  [Channel!Next]_Channel!channelVars
<1>1. CASE UNCHANGED httpVars
  BY <1>1 DEF httpVars, clientVars, Channel!channelVars, IsSending
<1>2. ASSUME NEW s \in Senders, HandleStoreData(s)
      PROVE  [Channel!Next]_Channel!channelVars
  BY <1>2, NoDispatchRefines, DispatchRefines DEF HandleStoreData
<1> QED
  BY <1>1, <1>2, BeginCommandRefines, NoDispatchRefines DEF HttpNext

\* As long as no command meets another, clients of the shared processor have
\* what connections always have: a command is executed once and whole, or
\* dropped (main.apdu_debug, ApduProcessor.process_apdu).
THEOREM HttpImplementsChannel == HttpSpec => ChannelUndisturbed
<1>1. HttpInit => Channel!Init
  BY DEF HttpInit, ClientsInit, Channel!Init, IsSending
<1>2. HttpInv /\ ~disturbed /\ [HttpNext]_httpVars => [Channel!Next]_Channel!channelVars
  BY UndisturbedStepRefines
<1> QED
  BY <1>1, <1>2, HttpInvariant, PTL DEF HttpSpec, ChannelUndisturbed, Channel!Spec

-----------------------------------------------------------------------------
(* The abstract channel, with variables of its own: it executes no command   *)
(* twice, for numbers are issued in order, a number is pending with one      *)
(* sender, and is gone from it once it is executed.                          *)

VARIABLES pending, executed, issued

Abstract == INSTANCE CommandChannel

\* Commands that are pending or executed have been issued.
Issued ==
  /\ \A s \in Senders : pending[s] <= issued
  /\ \A i \in DOMAIN executed : executed[i] \in 1..issued

\* A command that is pending is so with one sender, and has not been executed.
PendingOnce ==
  \A s \in Senders : pending[s] # 0 =>
    /\ \A r \in Senders \ {s} : pending[r] # pending[s]
    /\ \A i \in DOMAIN executed : executed[i] # pending[s]

ExecutedOnce ==
  \A i, j \in DOMAIN executed : executed[i] = executed[j] => i = j

ChannelInv == Abstract!TypeOK /\ Issued /\ PendingOnce /\ ExecutedOnce

LEMMA ChannelInvInit == Abstract!Init => ChannelInv
  BY DEF Abstract!Init, ChannelInv, Abstract!TypeOK, Issued, PendingOnce, ExecutedOnce

LEMMA ChannelInvStep == ChannelInv /\ [Abstract!Next]_Abstract!channelVars => ChannelInv'
<1> SUFFICES ASSUME ChannelInv, [Abstract!Next]_Abstract!channelVars PROVE ChannelInv'
  OBVIOUS
<1> USE DEF ChannelInv, Abstract!TypeOK
<1>1. CASE UNCHANGED Abstract!channelVars
  BY <1>1 DEF Abstract!channelVars, Issued, PendingOnce, ExecutedOnce
<1>2. ASSUME NEW s \in Senders, Abstract!Issue(s) PROVE ChannelInv'
  <2>1. Abstract!TypeOK'
    BY <1>2 DEF Abstract!Issue
  <2>2. Issued'
    BY <1>2 DEF Abstract!Issue, Issued
  <2>3. PendingOnce'
    BY <1>2 DEF Abstract!Issue, Issued, PendingOnce
  <2>4. ExecutedOnce'
    BY <1>2 DEF Abstract!Issue, ExecutedOnce
  <2> QED BY <2>1, <2>2, <2>3, <2>4
<1>3. ASSUME NEW s \in Senders, Abstract!Execute(s) PROVE ChannelInv'
  <2>1. Abstract!TypeOK'
    BY <1>3 DEF Abstract!Execute
  <2>2. \A i \in DOMAIN executed' :
          \/ i \in DOMAIN executed /\ executed'[i] = executed[i]
          \/ i = Len(executed) + 1 /\ executed'[i] = pending[s]
    BY <1>3 DEF Abstract!Execute
  <2>3. Issued'
    BY <1>3, <2>2 DEF Abstract!Execute, Issued
  <2>4. PendingOnce'
    BY <1>3, <2>2 DEF Abstract!Execute, PendingOnce
  <2>5. ExecutedOnce'
    BY <1>3, <2>2 DEF Abstract!Execute, PendingOnce, ExecutedOnce
  <2> QED BY <2>1, <2>3, <2>4, <2>5
<1>4. ASSUME NEW s \in Senders, Abstract!Drop(s) PROVE ChannelInv'
  BY <1>4 DEF Abstract!Drop, Issued, PendingOnce, ExecutedOnce
<1> QED BY <1>1, <1>2, <1>3, <1>4 DEF Abstract!Next

\* A command channel executes no command twice: what tcp_server.py owes to
\* clients that issue each command once.
THEOREM ChannelAtMostOnce == Abstract!Spec => []Abstract!AtMostOnce
<1>1. ChannelInv => Abstract!AtMostOnce
  BY DEF ChannelInv, ExecutedOnce, Abstract!AtMostOnce, Abstract!IsInjective
<1> QED BY <1>1, ChannelInvInit, ChannelInvStep, PTL DEF Abstract!Spec
=============================================================================
