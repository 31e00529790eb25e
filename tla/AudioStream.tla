------------------------------ MODULE AudioStream ------------------------------
(***************************************************************************)
(* The methods of the wrapper's open streams (audio/hal/audio_stream.cpp). *)
(*                                                                         *)
(* A client stream is a block of memory with a table of methods and the    *)
(* Amazon stream they go to.  Nearly all of them only pass the call on.    *)
(* Two have to make up for structures that have grown since: the           *)
(* description of a mapped buffer, which the Amazon stream fills in part,  *)
(* and the tracks of an input, which it reads in a smaller layout.         *)
(*                                                                         *)
(* A stream is written or read by one thread and controlled by others.     *)
(* Opening and closing are one step here; that this loses nothing is what  *)
(* AudioDevice shows with StreamService.                                   *)
(***************************************************************************)
EXTENDS Naturals, Sequences, SequencesExt

CONSTANTS
  Threads,     \* threads that call the wrapper
  Streams,     \* memory for Amazon streams
  Blocks,      \* memory for client streams
  Closed,      \* no stream is open in this memory
  OutTables,   \* which methods an Amazon output may implement
  InTables,    \* which methods an Amazon input may implement
  TrackLists   \* the tracks a client may tell an input of

\* struct audio_stream, the same for client and Amazon.
CommonMethods ==
  {"get_sample_rate", "set_sample_rate", "get_buffer_size", "get_channels",
   "get_format", "set_format", "standby", "dump", "get_device", "set_device",
   "set_parameters", "get_parameters", "add_audio_effect",
   "remove_audio_effect"}

OutMethods == CommonMethods \cup
  {"get_latency", "set_volume", "write", "get_render_position",
   "get_next_write_timestamp", "set_callback", "pause", "resume", "drain",
   "flush", "get_presentation_position", "start", "stop",
   "create_mmap_buffer", "get_mmap_position", "update_source_metadata"}

InMethods == CommonMethods \cup
  {"set_gain", "read", "get_input_frames_lost", "get_capture_position",
   "start", "stop", "create_mmap_buffer", "get_mmap_position",
   "get_active_microphones", "update_sink_metadata"}

\* Methods of the client's streams that the Amazon layout has no place for.
NewerMethods == {"set_event_callback", "set_microphone_direction"}

\* A track of the client's, with the devices it goes to, and of Amazon's.
Track       == [source : {"mic", "voice"}, gain : {0, 1}, dest : {"none", "bt"}]
AmazonTrack == [source : {"mic", "voice"}, gain : {0, 1}]

ASSUME ConstantsAssumption ==
  /\ OutTables \subseteq SUBSET OutMethods
  /\ InTables \subseteq SUBSET InMethods
  /\ TrackLists \subseteq Seq(Track)
  /\ Closed \notin Streams
  /\ Closed \notin [kind : {"in", "out"}, methods : SUBSET (OutMethods \cup InMethods)]

VARIABLES
  amazon,  \* the Amazon streams
  block,   \* the client's streams
  call,    \* what each thread is doing
  array,   \* the tracks each thread has converted
  info     \* the description of a mapped buffer each thread asked for

vars == <<amazon, block, call, array, info>>

\* A description of a mapped buffer: what the Amazon stream knows of it, and the
\* flags behind that.
Junk == [known |-> "junk", flags |-> "junk"]

Idle == [pc |-> "idle", block |-> Closed, method |-> "none", tracks |-> <<>>, i |-> 0]

InCall(w) == \E t \in Threads : call[t].block = w

-----------------------------------------------------------------------------
(* create_v28_audio_stream_out_ext and its twin.                           *)

\* Mutant: malloc leaves in place what was in the memory.
MallocTable == NewerMethods

CallocTable == {}

Forward(list, methods) == list \cap methods

\* Mutant: a line is missing.
ForwardedOutNoVolume == OutMethods \ {"set_volume"}

ForwardedOut ==
  {"get_sample_rate", "set_sample_rate", "get_buffer_size", "get_channels",
   "get_format", "set_format", "standby", "dump", "get_device", "set_device",
   "set_parameters", "get_parameters", "add_audio_effect",
   "remove_audio_effect", "get_latency", "set_volume", "write",
   "get_render_position", "get_next_write_timestamp", "set_callback", "pause",
   "resume", "drain", "flush", "get_presentation_position", "start", "stop",
   "create_mmap_buffer", "get_mmap_position", "update_source_metadata"}

ForwardedIn ==
  {"get_sample_rate", "set_sample_rate", "get_buffer_size", "get_channels",
   "get_format", "set_format", "standby", "dump", "get_device", "set_device",
   "set_parameters", "get_parameters", "add_audio_effect",
   "remove_audio_effect", "set_gain", "read", "get_input_frames_lost",
   "get_capture_position", "start", "stop", "create_mmap_buffer",
   "get_mmap_position", "get_active_microphones", "update_sink_metadata"}

Open(s, w, kind, methods, list) ==
  /\ amazon[s] = Closed
  /\ block[w] = Closed
  /\ amazon' = [amazon EXCEPT ![s] = [kind |-> kind, methods |-> methods]]
  /\ block' = [block EXCEPT
       ![w] = [kind |-> kind, amazon |-> s,
               table |-> CallocTable \cup Forward(list, methods)]]
  /\ UNCHANGED <<call, array, info>>

OpenOutput(s, w) == \E methods \in OutTables : Open(s, w, "out", methods, ForwardedOut)

OpenInput(s, w) == \E methods \in InTables : Open(s, w, "in", methods, ForwardedIn)

\* The client closes a stream once it no longer calls it.
Close(w) ==
  /\ block[w] # Closed
  /\ ~InCall(w)
  /\ amazon' = [amazon EXCEPT ![block[w].amazon] = Closed]
  /\ block' = [block EXCEPT ![w] = Closed]
  /\ UNCHANGED <<call, array, info>>

-----------------------------------------------------------------------------
(* The methods.                                                            *)

\* The client looks for a null pointer, and calls what is not null.
MayCall(t, w, method) ==
  call[t] = Idle /\ block[w] # Closed /\ method \in block[w].table

Enter(t, w, method) ==
  /\ MayCall(t, w, method)
  /\ call' = [call EXCEPT ![t] = [Idle EXCEPT !.pc = "amazon", !.block = w,
                                              !.method = method]]
  /\ UNCHANGED <<amazon, block>>

CommonForward(t, w) ==
  /\ \E method \in CommonMethods : Enter(t, w, method)
  /\ UNCHANGED <<array, info>>

OutForward(t, w) ==
  /\ block[w] # Closed /\ block[w].kind = "out"
  /\ \E method \in block[w].table \ (CommonMethods \cup {"create_mmap_buffer"}) :
       Enter(t, w, method)
  /\ UNCHANGED <<array, info>>

InForward(t, w) ==
  /\ block[w] # Closed /\ block[w].kind = "in"
  /\ \E method \in block[w].table \ (CommonMethods \cup
                     {"create_mmap_buffer", "update_sink_metadata"}) :
       Enter(t, w, method)
  /\ UNCHANGED <<array, info>>

\* Mutant: only what the Amazon stream knows of is cleared.
ClearedKnown(i) == [i EXCEPT !.known = "zero"]

\* memset over the client's structure, with whatever is in it.
Cleared(i) == [i EXCEPT !.known = "zero", !.flags = "zero"]

CreateMmapBuffer(t, w) ==
  /\ Enter(t, w, "create_mmap_buffer")
  /\ info' = [info EXCEPT ![t] = Cleared(Junk)]
  /\ UNCHANGED array

\* Mutant: the vector is a static one.
ArrayStatic(t) == CHOOSE u \in Threads : TRUE

\* The vector is a local variable.
Array(t) == t

NoTrack == [source |-> "mic", gain |-> 0]

UpdateSinkMetadata(t, w, tracks) ==
  /\ MayCall(t, w, "update_sink_metadata")
  /\ array' = [array EXCEPT ![Array(t)] = [i \in DOMAIN tracks |-> NoTrack]]
  /\ call' = [call EXCEPT ![t] = [pc |-> "convert", block |-> w,
                method |-> "update_sink_metadata", tracks |-> tracks, i |-> 1]]
  /\ UNCHANGED <<amazon, block, info>>

ToAmazonTrack(track) == [source |-> track.source, gain |-> track.gain]

ConvertTrack(t) ==
  /\ call[t].pc = "convert"
  /\ LET i == call[t].i
     IN  IF i <= Len(call[t].tracks)
         THEN /\ array' = [array EXCEPT
                   ![Array(t)] = ReplaceAt(@, i, ToAmazonTrack(call[t].tracks[i]))]
              /\ call' = [call EXCEPT ![t].i = i + 1]
         ELSE /\ call' = [call EXCEPT ![t].pc = "amazon"]
              /\ UNCHANGED array
  /\ UNCHANGED <<amazon, block, info>>

\* The Amazon stream fills the description of a mapped buffer or fails; the
\* vector of tracks is destroyed.
AmazonReturns(t) ==
  /\ call[t].pc = "amazon"
  /\ \/ UNCHANGED info
     \/ /\ call[t].method = "create_mmap_buffer"
        /\ info' = [info EXCEPT ![t].known = "filled"]
  /\ IF call[t].method = "update_sink_metadata"
     THEN array' = [array EXCEPT ![Array(t)] = <<>>]
     ELSE UNCHANGED array
  /\ call' = [call EXCEPT ![t] = Idle]
  /\ UNCHANGED <<amazon, block>>

-----------------------------------------------------------------------------

Init ==
  /\ amazon = [s \in Streams |-> Closed]
  /\ block = [w \in Blocks |-> Closed]
  /\ call = [t \in Threads |-> Idle]
  /\ array = [t \in Threads |-> <<>>]
  /\ info = [t \in Threads |-> [known |-> "zero", flags |-> "zero"]]

Method(t, w) ==
  \/ CommonForward(t, w) \/ OutForward(t, w) \/ InForward(t, w)
  \/ CreateMmapBuffer(t, w)
  \/ \E tracks \in TrackLists : UpdateSinkMetadata(t, w, tracks)

Next ==
  \/ \E s \in Streams, w \in Blocks : OpenOutput(s, w) \/ OpenInput(s, w)
  \/ \E w \in Blocks : Close(w)
  \/ \E t \in Threads : \/ \E w \in Blocks : Method(t, w)
                        \/ ConvertTrack(t)
                        \/ AmazonReturns(t)

Spec == Init /\ [][Next]_vars

-----------------------------------------------------------------------------
(* Properties.                                                             *)

\* Every call that the wrapper passes on reaches a method that the Amazon stream
\* behind the client's has, however often the memory of both has been used for
\* streams of either kind before and what else is open.
CallsLand ==
  \A t \in Threads : call[t].pc = "amazon" =>
    LET stream == amazon[block[call[t].block].amazon]
    IN  stream # Closed /\ call[t].method \in stream.methods

\* No method of an Amazon stream is hidden from the client, which would go
\* without it as if the device could not do that.
NothingHidden ==
  \A w \in Blocks : block[w] # Closed =>
    amazon[block[w].amazon].methods \subseteq block[w].table

\* When the Amazon stream is told of the tracks of an input, they are all the
\* tracks of this call, in their order and in its layout, whoever else is in the
\* same method.
MetadataIntact ==
  \A t \in Threads :
    call[t].pc = "amazon" /\ call[t].method = "update_sink_metadata" =>
      LET tracks == call[t].tracks
      IN  /\ array[Array(t)] \in Seq(AmazonTrack)
          /\ array[Array(t)] = [i \in DOMAIN tracks |-> ToAmazonTrack(tracks[i])]

\* The client never takes junk for a description of a mapped buffer, nor for the
\* flags that the Amazon stream does not know, also when that has failed.
MmapClean == \A t \in Threads : info[t].known # "junk" /\ info[t].flags = "zero"
=============================================================================
