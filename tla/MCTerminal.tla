------------------------------ MODULE MCTerminal ------------------------------
(* Terminal on screens of a few cells, and its decoder on short outputs.   *)
(* What the decoder feeds is what the parser is fed, any character at all, *)
(* and neither reads the other's state: each is run while the other rests  *)
(* in an initial state.                                                    *)
EXTENDS Terminal, Utf8

BufferInit == Init /\ DecoderInit

BufferNext ==
  \/ DecoderInit /\ Next /\ UNCHANGED DecoderVars
  \/ Init /\ Packet /\ UNCHANGED vars

BufferSpec == BufferInit /\ [][BufferNext]_<<vars, DecoderVars>>
=============================================================================
