---------------------------- MODULE MCAudioStream ----------------------------
(* A small instance of AudioStream. *)
EXTENDS AudioStream, TLC

\* Streams with all methods, and plain ones.
Outs == {OutMethods, OutMethods \ {"pause", "resume", "create_mmap_buffer"}}
Ins  == {InMethods, CommonMethods \cup {"read", "set_gain"}}

Voice == [source |-> "voice", gain |-> 1, dest |-> "bt"]
Mic   == [source |-> "mic", gain |-> 1, dest |-> "none"]
Lists == {<<>>, <<Voice>>, <<Mic, Voice>>}

Symmetry == Permutations(Streams) \cup Permutations(Blocks)
=============================================================================
