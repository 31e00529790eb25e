---------------------------- MODULE AudioDevice ----------------------------
(***************************************************************************)
(* The wrapper around Amazon's primary audio HAL (audio/hal/audio_hw.cpp,  *)
(* audio_stream.cpp, asp.cpp): a device whose methods translate their      *)
(* arguments and call the same method of the Amazon device.                *)
(*                                                                         *)
(* The wrapper keeps no table of streams.  A stream of the client is a     *)
(* block of memory with a pointer to an Amazon stream, allocated after the *)
(* Amazon stream is open and freed after it is closed, so in between every *)
(* Amazon stream must be in the hands of exactly one call or one block.    *)
(*                                                                         *)
(* Beside the device there may be Amazon's audio signal processor, ASP: a  *)
(* library that something else loads into the process, or not.  The first  *)
(* call that needs it looks for it and the answer is kept forever.         *)
(*                                                                         *)
(* The methods run on the threads of the service's hwbinder pool.  An      *)
(* action is one call into the Amazon device, the ASP or the allocator     *)
(* with what the wrapper computes before the next one.                     *)
(***************************************************************************)
EXTENDS Naturals

CONSTANTS
  Threads,        \* threads of the hwbinder pool
  Streams,        \* memory for the Amazon device's streams
  Wrappers,       \* memory for the client's streams
  Closed,         \* no stream is open at this place
  NoStream,       \* this memory is free
  NoWrapper,      \* a call has no wrapper in hand
  Configs,        \* stream configurations the client may ask for
  AmazonConfigs,  \* the ones the Amazon device accepts
  AmazonTables,   \* which methods an Amazon device may implement
  Volumes         \* voice volumes, in thousandths

Config == [rate : Nat, mask : {"mono", "stereo"}, format : {"pcm16", "float"}]

\* ASP_CAPTURE_SAMPLE_RATE and the other two values asp_runs_capture's caller
\* compares with.
AspConfig == [rate |-> 16000, mask |-> "mono", format |-> "pcm16"]

\* "other" stands for the methods that only pass their arguments on.
Methods ==
  {"open_output_stream", "close_output_stream", "open_input_stream",
   "close_input_stream", "set_voice_volume", "get_audio_port", "other"}

\* The Amazon device can close what it can open, and captures in the format
\* that Amazon's own signal processor puts out.
ASSUME ConstantsAssumption ==
  /\ Configs \subseteq Config
  /\ AmazonConfigs \subseteq Configs
  /\ AspConfig \in AmazonConfigs
  /\ AmazonTables \subseteq SUBSET Methods
  /\ \A table \in AmazonTables :
       /\ "open_output_stream" \in table => "close_output_stream" \in table
       /\ "open_input_stream" \in table => "close_input_stream" \in table
  /\ Volumes \subseteq Nat
  /\ NoStream \notin Streams
  /\ NoWrapper \notin Wrappers
  /\ Threads \cap Wrappers = {}

VARIABLES
  context,     \* is the wrapper device allocated?
  amazon,      \* the methods of the open Amazon device
  table,       \* the non-null methods of the wrapper device
  stream,      \* what the Amazon device has open at each place
  wrapper,     \* the Amazon stream each client stream points to
  held,        \* the client streams the client may use
  call,        \* what each thread is doing
  library,     \* libasp.so in this process
  asp,         \* what get_asp_command has cached
  aspVoice,    \* the last voice volume the ASP was notified of
  aspVolume,   \* was the ASP's capture volume set to the maximum?
  voiceVolume  \* the last voice volume given to the Amazon device

device == <<context, amazon, table>>
memory == <<stream, wrapper, held>>
sound  == <<library, asp, aspVoice, aspVolume, voiceVolume>>
vars   == <<device, memory, call, sound>>

-----------------------------------------------------------------------------
(* Calls and streams.                                                      *)

Sources == {"voice_communication", "voice_recognition", "mic"}

Stream ==
  [kind : {"in", "out"}, source : Sources, config : Configs]

ASSUME ClosedAssumption == Closed \notin Stream

\* pc is the next thing a thread does; method what an unadorned forward calls;
\* retried says that the client follows a suggestion.
Call ==
  [pc      : {"idle", "openDevice", "amazonOpen", "retry", "refused", "wrap",
              "undo", "setVolume", "amazonClose", "free", "amazonVolume",
              "notify", "forward"},
   kind    : {"in", "out"},
   source  : Sources,
   config  : Configs,
   retried : BOOLEAN,
   stream  : Streams \cup {NoStream},
   wrapper : Wrappers \cup {NoWrapper},
   volume  : Volumes \cup {0},
   method  : Methods]

Idle ==
  [pc |-> "idle", kind |-> "out", source |-> "mic", config |-> AspConfig,
   retried |-> FALSE, stream |-> NoStream, wrapper |-> NoWrapper,
   volume |-> 0, method |-> "other"]

Become(t, c) == call' = [call EXCEPT ![t] = c]
Return(t)    == Become(t, Idle)
Goto(t, pc)  == Become(t, [call[t] EXCEPT !.pc = pc])

\* The client looks for a null pointer before it calls a method.
MayCall(t, method) == call[t] = Idle /\ method \in table

OpenMethod(kind) ==
  IF kind = "in" THEN "open_input_stream" ELSE "open_output_stream"

CloseMethod(kind) ==
  IF kind = "in" THEN "close_input_stream" ELSE "close_output_stream"

\* Mutant: the library is looked for each time.
ResolvedEachTime == IF library = "loaded" THEN "present" ELSE "absent"

\* get_asp_command: dlopen with RTLD_NOLOAD the first time, then the static.
Resolved ==
  IF asp # "unresolved" THEN asp
  ELSE IF library = "loaded" THEN "present" ELSE "absent"

\* The library is loaded by someone else; it may not have the symbol.
LoadLibrary ==
  /\ library = "missing"
  /\ library' \in {"loaded", "unusable"}
  /\ UNCHANGED <<device, memory, call, asp, aspVoice, aspVolume, voiceVolume>>

-----------------------------------------------------------------------------
(* adev_open and adev_close.  The client opens and closes the device while *)
(* no other call runs and closes it after its streams.                     *)

Quiet == \A t \in Threads : call[t] = Idle

\* calloc of the context.
OpenDevice(t) ==
  /\ Quiet
  /\ ~context
  /\ context' = TRUE
  /\ Become(t, [Idle EXCEPT !.pc = "openDevice"])
  /\ UNCHANGED <<amazon, table, memory, sound>>

\* FORWARD copies the null pointers, except for get_audio_port.
OpenAmazonDevice(t) ==
  /\ call[t].pc = "openDevice"
  /\ \/ /\ amazon' \in AmazonTables
        /\ table' = amazon' \cup {"get_audio_port"}
        /\ UNCHANGED context
     \/ /\ context' = FALSE
        /\ UNCHANGED <<amazon, table>>
  /\ Return(t)
  /\ UNCHANGED <<memory, sound>>

CloseDevice ==
  /\ Quiet
  /\ context
  /\ held = {}
  /\ context' = FALSE
  /\ amazon' = {}
  /\ table' = {}
  /\ UNCHANGED <<memory, call, sound>>

-----------------------------------------------------------------------------
(* adev_open_output_stream and adev_open_input_stream.                     *)

AspRunsCapture(source) ==
  Resolved = "present" /\ source \in {"voice_communication",
                                      "voice_recognition"}

OpenOutputStream(t, config) ==
  /\ MayCall(t, "open_output_stream")
  /\ Become(t, [Idle EXCEPT !.pc = "amazonOpen", !.config = config])
  /\ UNCHANGED <<device, memory, sound>>

\* -EINVAL with another configuration: the client tries once more with it.
Refuse(t, c, suggestion) ==
  Become(t, IF c.kind = "in" /\ ~c.retried
            THEN [c EXCEPT !.pc = "retry", !.config = suggestion]
            ELSE [c EXCEPT !.pc = "refused"])

\* Mutant: the channel mask is missing.
SuggestionAnyMask(config) == [AspConfig EXCEPT !.mask = config.mask]

\* Mutant: a format that the ASP does not put out.
SuggestionFloat(config) == [AspConfig EXCEPT !.format = "float"]

\* All that a configuration has here is set.
Suggestion(config) == AspConfig

\* What the ASP cannot capture is refused with what it can.
EnterOpenInput(t, c) ==
  /\ asp' = Resolved
  /\ IF AspRunsCapture(c.source) /\ c.config # AspConfig
     THEN Refuse(t, c, Suggestion(c.config))
     ELSE Become(t, [c EXCEPT !.pc = "amazonOpen"])
  /\ UNCHANGED <<device, memory, library, aspVoice, aspVolume, voiceVolume>>

OpenInputStream(t, source, config) ==
  /\ MayCall(t, "open_input_stream")
  /\ EnterOpenInput(t, [Idle EXCEPT !.kind = "in", !.source = source,
                                    !.config = config])

RetryOpenInput(t) ==
  /\ call[t].pc = "retry"
  /\ EnterOpenInput(t, [call[t] EXCEPT !.retried = TRUE])

GiveUp(t) ==
  /\ call[t].pc = "refused"
  /\ Return(t)
  /\ UNCHANGED <<device, memory, sound>>

\* The Amazon device opens a stream, suggests what it can do, or fails.
AmazonOpen(t) ==
  /\ call[t].pc = "amazonOpen"
  /\ \/ /\ call[t].config \in AmazonConfigs
        /\ \E s \in Streams :
             /\ stream[s] = Closed
             /\ stream' = [stream EXCEPT
                  ![s] = [kind   |-> call[t].kind,
                          source |-> call[t].source,
                          config |-> call[t].config]]
             /\ Become(t, [call[t] EXCEPT !.pc = "wrap", !.stream = s])
     \/ /\ call[t].config \notin AmazonConfigs
        /\ \E suggestion \in AmazonConfigs : Refuse(t, call[t], suggestion)
        /\ UNCHANGED stream
     \/ Return(t) /\ UNCHANGED stream
  /\ UNCHANGED <<device, wrapper, held, sound>>

\* create_v28_audio_stream_out_ext and its twin: calloc may fail.
Wrap(t) ==
  /\ call[t].pc = "wrap"
  /\ \/ \E w \in Wrappers :
          /\ wrapper[w] = NoStream
          /\ wrapper' = [wrapper EXCEPT ![w] = call[t].stream]
          /\ IF call[t].source = "voice_communication"
             THEN /\ Become(t, [call[t] EXCEPT !.pc = "setVolume",
                                               !.wrapper = w])
                  /\ UNCHANGED held
             ELSE held' = held \cup {w} /\ Return(t)
     \/ Goto(t, "undo") /\ UNCHANGED <<wrapper, held>>
  /\ UNCHANGED <<device, stream, sound>>

\* Mutant: the Amazon stream stays open when there is no memory.
UndoOpenLeaks(t) ==
  /\ call[t].pc = "undo"
  /\ Return(t)
  /\ UNCHANGED <<device, memory, sound>>

UndoOpen(t) ==
  /\ call[t].pc = "undo"
  /\ stream' = [stream EXCEPT ![call[t].stream] = Closed]
  /\ Return(t)
  /\ UNCHANGED <<device, wrapper, held, sound>>

\* ASP_CMD_SET_VOLUME, ASP_VOLUME_MAX.
SetCaptureVolume(t) ==
  /\ call[t].pc = "setVolume"
  /\ asp' = Resolved
  /\ aspVolume' = (aspVolume \/ Resolved = "present")
  /\ held' = held \cup {call[t].wrapper}
  /\ Return(t)
  /\ UNCHANGED <<device, stream, wrapper, library, aspVoice, voiceVolume>>

-----------------------------------------------------------------------------
(* adev_close_output_stream and adev_close_input_stream.                   *)

CloseStream(t, w) ==
  /\ w \in held
  /\ MayCall(t, CloseMethod(stream[wrapper[w]].kind))
  /\ held' = held \ {w}
  /\ Become(t, [Idle EXCEPT !.pc = "amazonClose", !.wrapper = w,
                            !.kind = stream[wrapper[w]].kind])
  /\ UNCHANGED <<device, stream, wrapper, sound>>

\* The Amazon device may use the memory again at once.
AmazonClose(t) ==
  /\ call[t].pc = "amazonClose"
  /\ stream' = [stream EXCEPT ![wrapper[call[t].wrapper]] = Closed]
  /\ Goto(t, "free")
  /\ UNCHANGED <<device, wrapper, held, sound>>

FreeWrapper(t) ==
  /\ call[t].pc = "free"
  /\ wrapper' = [wrapper EXCEPT ![call[t].wrapper] = NoStream]
  /\ Return(t)
  /\ UNCHANGED <<device, stream, held, sound>>

-----------------------------------------------------------------------------
(* adev_set_voice_volume, adev_get_audio_port and the plain forwards.      *)

\* The audio server has one lock around its calls of set_voice_volume.
SetVoiceVolume(t, v) ==
  /\ MayCall(t, "set_voice_volume")
  /\ \A u \in Threads : call[u].pc \notin {"amazonVolume", "notify"}
  /\ Become(t, [Idle EXCEPT !.pc = "amazonVolume", !.volume = v])
  /\ UNCHANGED <<device, memory, sound>>

AmazonSetVoiceVolume(t) ==
  /\ call[t].pc = "amazonVolume"
  /\ voiceVolume' = call[t].volume
  /\ Goto(t, "notify")
  /\ UNCHANGED <<device, memory, library, asp, aspVoice, aspVolume>>

\* Mutant: the percentage is truncated.
PercentTruncated(v) == v \div 10

\* lroundf(volume * 100), halves away from zero.
Percent(v) == (v + 5) \div 10

\* ASP_CMD_NOTIFY_VOICE_VOLUME, whatever the Amazon device answered.
NotifyVoiceVolume(t) ==
  /\ call[t].pc = "notify"
  /\ asp' = Resolved
  /\ aspVoice' = IF Resolved = "present" THEN Percent(call[t].volume)
                 ELSE aspVoice
  /\ Return(t)
  /\ UNCHANGED <<device, memory, library, aspVolume, voiceVolume>>

\* Mutant: the Amazon method is not compared with null.
ImplementedAnyway(method) == TRUE

Implemented(method) == method \in amazon

\* Without the method in the Amazon device, -ENOSYS.
GetAudioPort(t) ==
  /\ MayCall(t, "get_audio_port")
  /\ IF Implemented("get_audio_port")
     THEN Become(t, [Idle EXCEPT !.pc = "forward",
                                 !.method = "get_audio_port"])
     ELSE UNCHANGED call
  /\ UNCHANGED <<device, memory, sound>>

Forward(t) ==
  /\ MayCall(t, "other")
  /\ Become(t, [Idle EXCEPT !.pc = "forward"])
  /\ UNCHANGED <<device, memory, sound>>

Forwarded(t) ==
  /\ call[t].pc = "forward"
  /\ Return(t)
  /\ UNCHANGED <<device, memory, sound>>

-----------------------------------------------------------------------------

Init ==
  /\ context = FALSE
  /\ amazon = {}
  /\ table = {}
  /\ stream = [s \in Streams |-> Closed]
  /\ wrapper = [w \in Wrappers |-> NoStream]
  /\ held = {}
  /\ call = [t \in Threads |-> Idle]
  /\ library = "missing"
  /\ asp = "unresolved"
  /\ aspVoice = 0
  /\ aspVolume = FALSE
  /\ voiceVolume = 0

Enter(t) ==
  \/ OpenDevice(t)
  \/ \E config \in Configs :
       \/ OpenOutputStream(t, config)
       \/ \E source \in Sources : OpenInputStream(t, source, config)
  \/ \E w \in Wrappers : CloseStream(t, w)
  \/ \E v \in Volumes : SetVoiceVolume(t, v)
  \/ GetAudioPort(t)
  \/ Forward(t)

Proceed(t) ==
  \/ OpenAmazonDevice(t) \/ RetryOpenInput(t) \/ GiveUp(t) \/ AmazonOpen(t)
  \/ Wrap(t) \/ UndoOpen(t) \/ SetCaptureVolume(t) \/ AmazonClose(t)
  \/ FreeWrapper(t) \/ AmazonSetVoiceVolume(t) \/ NotifyVoiceVolume(t)
  \/ Forwarded(t)

Next ==
  \/ \E t \in Threads : Enter(t) \/ Proceed(t)
  \/ CloseDevice
  \/ LoadLibrary

Spec == Init /\ [][Next]_vars

-----------------------------------------------------------------------------
(* Properties.                                                             *)

\* Every variable has its type.
TypeOK ==
  /\ context \in BOOLEAN
  /\ amazon \subseteq Methods
  /\ table \subseteq Methods
  /\ stream \in [Streams -> Stream \cup {Closed}]
  /\ wrapper \in [Wrappers -> Streams \cup {NoStream}]
  /\ held \subseteq Wrappers
  /\ call \in [Threads -> Call]
  /\ library \in {"missing", "loaded", "unusable"}
  /\ asp \in {"unresolved", "present", "absent"}
  /\ aspVoice \in Nat
  /\ aspVolume \in BOOLEAN
  /\ voiceVolume \in Nat

\* The calls and the client streams that are responsible for the Amazon stream
\* at s.  A client stream that is only waiting to be freed is not.
OwnersOf(s) ==
  {t \in Threads : call[t].pc \in {"wrap", "undo"} /\ call[t].stream = s}
    \cup {w \in Wrappers :
            /\ wrapper[w] = s
            /\ \A t \in Threads : ~(call[t].pc = "free" /\ call[t].wrapper = w)}

\* Every open Amazon stream has exactly one owner and what has been closed has
\* none, at every step of any number of opens and closes that fail half-way or
\* run at the same time: nothing leaks, nothing is closed twice, and a stream
\* the client uses points to an open Amazon stream.
StreamsOwned ==
  \A s \in Streams :
    IF stream[s] = Closed THEN OwnersOf(s) = {}
    ELSE \E owner \in Threads \cup Wrappers : OwnersOf(s) = {owner}

\* The Amazon methods a thread is about to call.
Calling(c) ==
  CASE c.pc = "amazonOpen" -> {OpenMethod(c.kind)}
    [] c.pc \in {"undo", "amazonClose"} -> {CloseMethod(c.kind)}
    [] c.pc = "amazonVolume" -> {"set_voice_volume"}
    [] c.pc = "forward" -> {c.method}
    [] OTHER -> {}

\* No call of the wrapper goes through a null pointer of the Amazon device:
\* the client's checks of the wrapper's pointers are enough, and for
\* get_audio_port, which it does not check, the wrapper's own check is.
NoNullCall == \A t \in Threads : Calling(call[t]) \subseteq amazon

\* A client that follows the suggestion it was refused with is not refused
\* again: the ASP's and the Amazon device's demands never play ping-pong.
OneRetrySuffices ==
  \A t \in Threads : call[t].pc = "refused" => call[t].kind = "out"

\* While the wrapper knows of an ASP, the ASP has been told everything: the
\* voice volume that the Amazon device was given last, to the nearest percent and
\* not the one below, and the capture volume before the client got a stream for a
\* voice call.
AspInformed ==
  asp = "present" =>
    /\ \/ aspVoice * 10 <= voiceVolume + 5 /\ voiceVolume < aspVoice * 10 + 5
       \/ \E t \in Threads : call[t].pc = "notify"
    /\ \A w \in held : stream[wrapper[w]].source = "voice_communication"
                         => aspVolume

\* The streams as the client has them: a handle stands for the stream that its
\* block points to.
OpenStreams ==
  [w \in Wrappers |-> IF w \in held THEN stream[wrapper[w]] ELSE Closed]

Service ==
  INSTANCE StreamService WITH
    Handles  <- Wrappers,
    None     <- Closed,
    Playable <- [kind : {"in", "out"}, source : Sources, config : AmazonConfigs],
    Inputs   <- [kind : {"in"}, source : Sources, config : AmazonConfigs],
    Unfit    <- [kind : {"in"}, source : Sources \ {"mic"},
                 config : AmazonConfigs \ {AspConfig}],
    open     <- OpenStreams

\* Opening and closing look like one step to the client, although each takes up
\* to four during which other threads open and close: a handle never comes to
\* stand for another stream, or for none, and the ASP is decided on once, before
\* the first input and for all that follow.
ImplementsService == Service!Spec
=============================================================================
