----------------------------- MODULE HttpChannel ------------------------------
(***************************************************************************)
(* The HTTP front end: POST /api/apdu/{eid} of app/main.py with the        *)
(* ApduProcessor of app/services/apdu_handler.py.  An eUICC has one        *)
(* processor, and so one segment buffer, that all requests share; a        *)
(* request is handled in one piece.  SELECT leaves the buffer alone, and a *)
(* segment that is out of place is passed over and acknowledged.           *)
(***************************************************************************)
EXTENDS Segments

VARIABLES
  selected,       \* ApduProcessor.selected_aid is the ISD-R's
  segments,       \* ApduSegmentBuffer.segments
  expected_block, \* ApduSegmentBuffer.expected_block
  dispatched,     \* history: the data passed to the dispatcher
  disturbed       \* history: a command met with another, or was left unfinished

processorVars == <<selected, segments, expected_block>>

httpVars == <<clientVars, processorVars, dispatched, disturbed>>

-----------------------------------------------------------------------------
(* Clients *)

\* A command begun while another is under way disturbs it, and so does one
\* given up after its first segment.
BeginCommand(s) ==
  /\ \E length \in 1..MaxLength : Submit(s, length)
  /\ disturbed' = (disturbed \/ \E r \in Senders : IsSending(r))
  /\ UNCHANGED <<processorVars, dispatched>>

GiveUpCommand(s) ==
  /\ IsSending(s)
  /\ StopSending(s)
  /\ disturbed' = (disturbed \/ sending[s].next > 0)
  /\ UNCHANGED <<processorVars, dispatched>>

-----------------------------------------------------------------------------
(* The processor *)

\* A broken variant: the segments stay when the count goes back.
ForgetCount ==
  /\ expected_block' = 0
  /\ UNCHANGED segments

\* reset
ResetBuffer ==
  /\ segments' = <<>>
  /\ expected_block' = 0

\* _handle_select: another AID is refused and deselects nothing.
HandleSelect(s) ==
  /\ ~IsSending(s)
  /\ selected' = TRUE
  /\ UNCHANGED <<clientVars, segments, expected_block, dispatched, disturbed>>

\* A client that reads 6985 gives its command up.
RefuseUnselected(s) ==
  /\ ~selected
  /\ StopSending(s)
  /\ UNCHANGED <<processorVars, dispatched>>

PassOverMismatched(s) ==
  /\ selected
  /\ BlockNumber(NextSegment(s)) # expected_block
  /\ SegmentSent(s)
  /\ UNCHANGED <<processorVars, dispatched>>

StoreSegment(s) ==
  /\ selected
  /\ BlockNumber(NextSegment(s)) = expected_block
  /\ ~NextSegment(s).last
  /\ segments' = Append(segments, NextSegment(s))
  /\ expected_block' = expected_block + 1
  /\ SegmentSent(s)
  /\ UNCHANGED <<selected, dispatched>>

\* process_apdu hands the data back, and apdu_debug dispatches it.
Dispatch(s) ==
  /\ selected
  /\ BlockNumber(NextSegment(s)) = expected_block
  /\ NextSegment(s).last
  /\ dispatched' = Append(dispatched, Append(segments, NextSegment(s)))
  /\ ResetBuffer
  /\ SegmentSent(s)
  /\ UNCHANGED selected

\* _handle_store_data
HandleStoreData(s) ==
  /\ IsSending(s)
  /\ RefuseUnselected(s) \/ PassOverMismatched(s) \/ StoreSegment(s) \/ Dispatch(s)
  /\ UNCHANGED disturbed

-----------------------------------------------------------------------------
(* Specification *)

HttpInit ==
  /\ ClientsInit
  /\ selected = FALSE
  /\ segments = <<>>
  /\ expected_block = 0
  /\ dispatched = <<>>
  /\ disturbed = FALSE

HttpNext ==
  \E s \in Senders :
    BeginCommand(s) \/ GiveUpCommand(s) \/ HandleSelect(s) \/ HandleStoreData(s)

HttpSpec == HttpInit /\ [][HttpNext]_httpVars

-----------------------------------------------------------------------------
(* Properties *)

\* While commands come one after the other and none is left unfinished, what
\* is dispatched is whole: SELECT in between, or a command refused for want of
\* it, does no harm (ApduProcessor.process_apdu).
UndisturbedWhole == ~disturbed => \A i \in DOMAIN dispatched : IsWhole(dispatched[i])

Channel == INSTANCE CommandChannel WITH
  pending <- [s \in Senders |-> IF IsSending(s) THEN sending[s].command ELSE 0],
  executed <- [i \in DOMAIN dispatched |-> CommandOf(dispatched[i])],
  issued <- submitted

\* Without a disturbance the shared processor is the channel that the
\* connections of tcp_server.py always are: every command is executed once or
\* dropped.
ChannelUndisturbed == []~disturbed => Channel!Spec
=============================================================================
