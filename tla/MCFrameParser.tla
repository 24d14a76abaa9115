---------------------------- MODULE MCFrameParser -----------------------------
(***************************************************************************)
(* FrameParser for TLC: streams of up to three commands whose data holds   *)
(* bytes that look like a class, a length and neither, with the sizes of   *)
(* tcp_protocol.py and tcp_server.py scaled down.                          *)
(***************************************************************************)
EXTENDS FrameParser

Store(p1, p2, data) ==
  [cla |-> 128, ins |-> 226, p1 |-> p1, p2 |-> p2, data |-> data, le |-> -1]

Select(data) ==
  [cla |-> 0, ins |-> 164, p1 |-> 4, p2 |-> 0, data |-> data, le |-> -1]

\* One byte, a class byte, a length that reaches into the next command, the
\* whole of a header, and data that needs an extended Lc
MCCommands ==
  {Select(<<160>>), Store(17, 0, <<128>>), Store(145, 1, <<191, 5>>),
   Store(145, 0, <<128, 226, 145, 0>>), Store(145, 0, [i \in 1..6 |-> i])}

MCStreams == UNION {[1..n -> MCCommands] : n \in 0..3}

\* One that no buffer of this size holds
MCOverlong == {<<Store(145, 0, [i \in 1..13 |-> 128]), Select(<<160>>)>>}

MCAllStreams == MCStreams \union MCOverlong
=============================================================================
