----------------------------- MODULE FrameParser ------------------------------
(***************************************************************************)
(* Finding APDU frames in a TCP stream: ApduFrameParser.feed of            *)
(* app/transport/tcp_protocol.py with ApduCodec.frame_size and decode of   *)
(* app/transport/apdu_codec.py.  There is nothing between frames: whether  *)
(* a byte is the Le of the frame before it or the class of the next, and   *)
(* whether four bytes are a command or the head of one, is decided on the  *)
(* bytes that have come so far.                                            *)
(*                                                                         *)
(* A client sends commands with data and without Le (case 3 of ISO 7816-4, *)
(* the form of README.md's examples); the network cuts the stream where it *)
(* likes.                                                                  *)
(***************************************************************************)
EXTENDS Integers, SequencesExt

CONSTANTS
  Streams,      \* the lists of commands that a client sends
  ExtendedFrom, \* data of this length or more is sent with an extended Lc, 256
  ChunkSize,    \* bytes that one read returns at most, 4096
  MaxBuffer     \* ApduFrameParser._max_buffer, 65536

Byte == 0..255

\* ApduCommand; le -1 stands for None.
Command ==
  [cla : Byte, ins : Byte, p1 : Byte, p2 : Byte, data : Seq(Byte), le : Int]

\* The bytes that frame_size and decode take for the class of a next command
ClassBytes == {128, 132, 0, 12, 4}

\* The two bytes of an extended Lc
BigEndian(hi, lo) == 256 * hi + lo

MaxData == BigEndian(255, 255)

\* What a client sends: a known class, data as long as an extended Lc can say,
\* no Le.
IsCase3(cmd) == cmd.cla \in ClassBytes /\ Len(cmd.data) \in 1..MaxData /\ cmd.le = -1

ASSUME StreamsAssumption ==
  \A cmds \in Streams : cmds \in Seq(Command) /\ \A i \in DOMAIN cmds : IsCase3(cmds[i])

\* A short Lc is a byte.
ASSUME SizesAssumption ==
  ExtendedFrom \in 1..256 /\ ChunkSize \in Nat \ {0} /\ MaxBuffer \in Nat

VARIABLES
  sent,   \* the commands on the stream
  read,   \* bytes of the stream read so far
  buffer, \* ApduFrameParser._buffer
  parsed, \* history: the commands that feed has returned
  cut     \* history: a read has ended right behind a header

parserVars == <<sent, read, buffer, parsed, cut>>

-----------------------------------------------------------------------------
(* The client's side of the stream *)

Header(cmd) == <<cmd.cla, cmd.ins, cmd.p1, cmd.p2>>

EncodeLc(n) == IF n < ExtendedFrom THEN <<n>> ELSE <<0, n \div 256, n % 256>>

Encode(cmd) == Header(cmd) \o EncodeLc(Len(cmd.data)) \o cmd.data

Stream(cmds) == FlattenSeq([i \in DOMAIN cmds |-> Encode(cmds[i])])

\* Where the headers end in the stream
HeaderEnds(cmds) == {Len(Stream(SubSeq(cmds, 1, k - 1))) + 4 : k \in DOMAIN cmds}

-----------------------------------------------------------------------------
(* ApduCodec *)

\* A broken variant: only the class of the commands sent here is known.
IsLeProprietaryOnly(bytes, i) == i <= Len(bytes) /\ bytes[i] # 128

\* The byte at i is an Le.
IsLe(bytes, i) == i <= Len(bytes) /\ bytes[i] \notin ClassBytes

\* The Lc field of a frame of five bytes or more, seven if it is extended
Lc(bytes) ==
  IF bytes[5] # 0
  THEN [size |-> 1, value |-> bytes[5]]
  ELSE [size |-> 3, value |-> BigEndian(bytes[6], bytes[7])]

HasLc(bytes) == Len(bytes) >= 5 /\ (bytes[5] # 0 \/ Len(bytes) >= 7)

BodyEnd(bytes) == 4 + Lc(bytes).size + Lc(bytes).value

\* frame_size: the length of the first frame, 0 while it is incomplete.
FrameSize(bytes) ==
  CASE Len(bytes) = 4 -> 4
    [] HasLc(bytes) /\ Len(bytes) >= BodyEnd(bytes) ->
         IF IsLe(bytes, BodyEnd(bytes) + 1) THEN BodyEnd(bytes) + 1 ELSE BodyEnd(bytes)
    [] OTHER -> 0

\* decode, on the frames that frame_size finds: case 2 is not among them.
Decode(frame) ==
  [cla |-> frame[1], ins |-> frame[2], p1 |-> frame[3], p2 |-> frame[4],
   data |-> IF Len(frame) = 4 THEN <<>>
            ELSE SubSeq(frame, 5 + Lc(frame).size, BodyEnd(frame)),
   le |-> IF Len(frame) > 4 /\ IsLe(frame, BodyEnd(frame) + 1)
          THEN frame[BodyEnd(frame) + 1] ELSE -1]

-----------------------------------------------------------------------------
(* ApduFrameParser *)

\* A turn of feed's loop: the first frame, if it is complete, goes from the
\* buffer to the commands.
TakeFrame(state) ==
  LET size == FrameSize(state.rest)
  IN IF size = 0
     THEN state
     ELSE [frames |-> Append(state.frames, Decode(SubSeq(state.rest, 1, size))),
           rest |-> SubSeq(state.rest, size + 1, Len(state.rest))]

\* A broken variant: a read gives one frame at most.
ExtractFirst(bytes) == TakeFrame([frames |-> <<>>, rest |-> bytes])

\* The loop of feed.  A frame has a byte at least, so it is done after as many
\* turns as there are bytes.
ExtractAll(bytes) ==
  LET taken[n \in 0..Len(bytes)] ==
        IF n = 0 THEN [frames |-> <<>>, rest |-> bytes] ELSE TakeFrame(taken[n - 1])
  IN taken[Len(bytes)]

\* The buffer with the next n bytes of the stream
Buffered(n) == buffer \o SubSeq(Stream(sent), read + 1, read + n)

\* A read of the connection
Arrive(n) ==
  /\ n <= Len(Stream(sent)) - read
  /\ read' = read + n
  /\ cut' = (cut \/ read + n \in HeaderEnds(sent))
  /\ UNCHANGED sent

\* A broken variant: parsing pauses, and the buffer grows on.
PauseOverflow(n) ==
  /\ Arrive(n)
  /\ Len(Buffered(n)) > MaxBuffer
  /\ buffer' = Buffered(n)
  /\ UNCHANGED parsed

\* Too much is buffered: complete frames go with the rest.
FeedOverflow(n) ==
  /\ Arrive(n)
  /\ Len(Buffered(n)) > MaxBuffer
  /\ buffer' = <<>>
  /\ UNCHANGED parsed

\* feed
Feed(n) ==
  /\ Arrive(n)
  /\ Len(Buffered(n)) <= MaxBuffer
  /\ buffer' = ExtractAll(Buffered(n)).rest
  /\ parsed' = parsed \o ExtractAll(Buffered(n)).frames

-----------------------------------------------------------------------------
(* Specification *)

ParserInit ==
  /\ sent \in Streams
  /\ read = 0
  /\ buffer = <<>>
  /\ parsed = <<>>
  /\ cut = FALSE

ParserNext == \E n \in 1..ChunkSize : Feed(n) \/ FeedOverflow(n)

ParserSpec == ParserInit /\ [][ParserNext]_parserVars

-----------------------------------------------------------------------------
(* Properties *)

\* Whatever is buffered before a read, the read fits: no frame of the stream
\* can overflow the buffer.
FitsBuffer(cmds) ==
  \A i \in DOMAIN cmds : Len(Encode(cmds[i])) - 1 + ChunkSize <= MaxBuffer

\* What keeps its promise: a stream whose frames fit, and of which no read so
\* far has ended right behind a header.  Four bytes in the buffer are a whole
\* command to frame_size, and what follows is then parsed as the next.
IsSplittable == FitsBuffer(sent) /\ ~cut

\* Types of the parser's state.
ParserTypeOK ==
  /\ sent \in Streams
  /\ read \in 0..Len(Stream(sent))
  /\ buffer \in Seq(Byte) /\ Len(buffer) <= MaxBuffer
  /\ parsed \in Seq(Command)
  /\ cut \in BOOLEAN

\* However else the stream is cut, the commands found in it are those sent, in
\* order (ApduFrameParser.feed).
ParsedAreSent == IsSplittable => IsPrefix(parsed, sent)

\* No command is held back: those whose last byte has been read have been
\* returned, and the buffer holds what was read of the next one.
NothingHeldBack ==
  IsSplittable =>
    \E k \in 0..Len(sent) :
      /\ Len(parsed) = k
      /\ Stream(SubSeq(sent, 1, k)) \o buffer = SubSeq(Stream(sent), 1, read)
      /\ k < Len(sent) => Len(buffer) < Len(Encode(sent[k + 1]))
=============================================================================
