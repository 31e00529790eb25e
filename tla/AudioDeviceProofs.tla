------------------------- MODULE AudioDeviceProofs -------------------------
(***************************************************************************)
(* Proofs about AudioDevice, for any number of threads, streams and client *)
(* streams, any configurations and any Amazon device.                      *)
(***************************************************************************)
EXTENDS AudioDevice, TLAPS

-----------------------------------------------------------------------------
(* The inductive invariant.                                                *)

\* The client streams a call still works on, although the client no longer or
\* not yet may use them.
InHand(t) == call[t].pc \in {"setVolume", "amazonClose", "free"}

\* What is opened, or going to be, has been checked against what is known of the
\* ASP, and input is not opened before that is known.
Fit(x, known) ==
  /\ x.kind = "out" => x.source = "mic"
  /\ x.kind = "in" => known # "unresolved"
  /\ known = "present" /\ x.source # "mic" => x.config = AspConfig

\* A device that is not open, or not yet, has no methods, no streams and no calls.
DeviceInv ==
  /\ amazon = {} \/ amazon \in AmazonTables
  /\ table \subseteq amazon \cup {"get_audio_port"}
  /\ context = FALSE => amazon = {} /\ table = {} /\ held = {} /\ Quiet
  /\ \A t \in Threads : call[t].pc = "openDevice" =>
       /\ context # FALSE
       /\ amazon = {} /\ table = {} /\ held = {}
       /\ \A u \in Threads \ {t} : call[u] = Idle

\* A call that needs a method of the Amazon device was let in because it is there.
MethodThere(c) ==
  /\ c.pc \in {"amazonOpen", "retry", "wrap", "undo"}
       => OpenMethod(c.kind) \in amazon
  /\ c.pc = "amazonClose" => CloseMethod(c.kind) \in amazon
  /\ c.pc = "amazonVolume" => "set_voice_volume" \in amazon
  /\ c.pc = "forward" => c.method \in amazon

MethodInv == \A t \in Threads : MethodThere(call[t])

\* What is asked for, suggested or open is fit; a second try can be opened.
FitCall(c, known) ==
  /\ c.pc \in {"amazonOpen", "retry"} => Fit(c, known)
  /\ c.pc = "retry" \/ (c.pc = "amazonOpen" /\ c.retried)
       => c.config \in AmazonConfigs
  /\ c.pc = "retry" => c.kind = "in"
  /\ c.pc = "setVolume" => known # "unresolved"

FitInv ==
  /\ \A t \in Threads : FitCall(call[t], asp)
  /\ \A s \in Streams : stream[s] # Closed =>
       Fit(stream[s], asp) /\ stream[s].config \in AmazonConfigs

\* A call that has opened a stream and not wrapped it yet knows what it opened.
NewInv ==
  \A t \in Threads : call[t].pc \in {"wrap", "undo"} =>
    /\ call[t].stream \in Streams
    /\ stream[call[t].stream] = [kind   |-> call[t].kind,
                                 source |-> call[t].source,
                                 config |-> call[t].config]

\* A client stream is the client's or in the hands of one call.
BlocksInv ==
  /\ \A w \in held : wrapper[w] # NoStream
  /\ \A t \in Threads : InHand(t) =>
       /\ call[t].wrapper \in Wrappers \ held
       /\ wrapper[call[t].wrapper] # NoStream
       /\ \A u \in Threads \ {t} : InHand(u) => call[u].wrapper # call[t].wrapper

\* The volumes, with what the ASP will have to know when it is found.
Rounded ==
  aspVoice * 10 <= voiceVolume + 5 /\ voiceVolume < aspVoice * 10 + 5

SoundInv ==
  /\ asp = "absent" \/ Rounded \/ \E t \in Threads : call[t].pc = "notify"
  /\ \A t \in Threads : call[t].pc = "notify" => call[t].volume = voiceVolume
  /\ \A t, u \in Threads :
       call[t].pc \in {"amazonVolume", "notify"}
         /\ call[u].pc \in {"amazonVolume", "notify"} => t = u
  /\ asp = "present" =>
       \A w \in held : stream[wrapper[w]].source = "voice_communication"
                         => aspVolume

StreamInv == TypeOK /\ DeviceInv /\ MethodInv /\ FitInv /\ NewInv /\ BlocksInv
             /\ StreamsOwned

DeviceIInv == StreamInv /\ SoundInv /\ OneRetrySuffices

-----------------------------------------------------------------------------
(* Types.                                                                  *)

\* A thread between two calls has a record of a call as well.
LEMMA IdleTyped == Idle \in Call
BY ConstantsAssumption DEF Idle, Call, AspConfig, Config, Sources, Methods

\* A volume is a number of percent.
LEMMA PercentTyped ==
  ASSUME NEW v \in Nat
  PROVE  Percent(v) \in Nat
BY DEF Percent

\* The beginning of adev_open_input_stream, which its second try repeats.
LEMMA EnterOpenInputTyped ==
  ASSUME TypeOK, NEW t \in Threads, NEW c \in Call, EnterOpenInput(t, c)
  PROVE  TypeOK'
<1>1. /\ [c EXCEPT !.pc = "amazonOpen"] \in Call
      /\ [c EXCEPT !.pc = "refused"] \in Call
      /\ [c EXCEPT !.pc = "retry", !.config = Suggestion(c.config)] \in Call
  BY ConstantsAssumption DEF Call, Suggestion
<1>2. call' \in [Threads -> Call]
  BY <1>1 DEF EnterOpenInput, Become, Refuse, TypeOK
<1>3. asp' \in {"unresolved", "present", "absent"}
  BY DEF EnterOpenInput, Resolved, TypeOK
<1> QED
  BY <1>2, <1>3 DEF EnterOpenInput, TypeOK, device, memory

\* The client stream of a handle, or in the hands of a call that has not closed
\* it, points to an open stream and to one that no other such block points to.
LEMMA Alone ==
  ASSUME TypeOK, StreamsOwned, BlocksInv, NEW w \in Wrappers,
         \/ w \in held
         \/ \E t \in Threads : /\ call[t].pc \in {"setVolume", "amazonClose"}
                               /\ call[t].wrapper = w
  PROVE  /\ wrapper[w] \in Streams
         /\ stream[wrapper[w]] \in Stream
         /\ OwnersOf(wrapper[w]) = {w}
<1>1. wrapper[w] # NoStream
  BY DEF BlocksInv, InHand
<1>2. wrapper[w] \in Streams
  BY <1>1 DEF TypeOK
<1>3. ASSUME NEW u \in Threads, call[u].pc = "free"
      PROVE  call[u].wrapper # w
  BY <1>3 DEF BlocksInv, InHand
<1>4. w \in OwnersOf(wrapper[w])
  BY <1>3 DEF OwnersOf
<1>5. /\ stream[wrapper[w]] # Closed
      /\ \E owner \in Threads \cup Wrappers : OwnersOf(wrapper[w]) = {owner}
  BY <1>2, <1>4 DEF StreamsOwned
<1> QED
  BY <1>2, <1>4, <1>5 DEF TypeOK

\* A call is entered.
LEMMA EnterTyped ==
  ASSUME TypeOK, StreamsOwned, BlocksInv, NEW t \in Threads, Enter(t)
  PROVE  TypeOK'
<1> USE IdleTyped
<1>1. CASE OpenDevice(t)
  <2>1. [Idle EXCEPT !.pc = "openDevice"] \in Call
    BY DEF Call
  <2> QED
    BY <1>1, <2>1 DEF OpenDevice, Become, TypeOK, memory, sound
<1>2. ASSUME NEW config \in Configs, OpenOutputStream(t, config)
      PROVE  TypeOK'
  <2>1. [Idle EXCEPT !.pc = "amazonOpen", !.config = config] \in Call
    BY DEF Call
  <2> QED
    BY <1>2, <2>1 DEF OpenOutputStream, Become, TypeOK, device, memory, sound
<1>3. ASSUME NEW config \in Configs, NEW source \in Sources,
             OpenInputStream(t, source, config)
      PROVE  TypeOK'
  <2>1. [Idle EXCEPT !.kind = "in", !.source = source, !.config = config]
          \in Call
    BY DEF Call
  <2> QED
    BY <1>3, <2>1, EnterOpenInputTyped DEF OpenInputStream
<1>4. ASSUME NEW w \in Wrappers, CloseStream(t, w)
      PROVE  TypeOK'
  <2>1. stream[wrapper[w]] \in Stream
    BY <1>4, Alone DEF CloseStream
  <2>2. [Idle EXCEPT !.pc = "amazonClose", !.wrapper = w,
                     !.kind = stream[wrapper[w]].kind] \in Call
    BY <2>1 DEF Call, Stream
  <2> QED
    BY <1>4, <2>2
    DEF CloseStream, Become, TypeOK, device, sound
<1>5. ASSUME NEW v \in Volumes, SetVoiceVolume(t, v)
      PROVE  TypeOK'
  <2>1. [Idle EXCEPT !.pc = "amazonVolume", !.volume = v] \in Call
    BY DEF Call
  <2> QED
    BY <1>5, <2>1
    DEF SetVoiceVolume, Become, TypeOK, device, memory, sound
<1>6. CASE GetAudioPort(t)
  <2>1. [Idle EXCEPT !.pc = "forward", !.method = "get_audio_port"] \in Call
    BY DEF Call, Methods
  <2> QED
    BY <1>6, <2>1 DEF GetAudioPort, Become, TypeOK, device, memory, sound
<1>7. CASE Forward(t)
  <2>1. [Idle EXCEPT !.pc = "forward"] \in Call
    BY DEF Call
  <2> QED
    BY <1>7, <2>1 DEF Forward, Become, TypeOK, device, memory, sound
<1> QED
  BY <1>1, <1>2, <1>3, <1>4, <1>5, <1>6, <1>7 DEF Enter

\* A call takes its next step.
LEMMA ProceedTyped ==
  ASSUME TypeOK, BlocksInv, NEW t \in Threads, Proceed(t)
  PROVE  TypeOK'
<1> USE IdleTyped
<1>1. CASE OpenAmazonDevice(t)
  <2>1. amazon' \subseteq Methods /\ table' \subseteq Methods
    BY <1>1, ConstantsAssumption DEF OpenAmazonDevice, TypeOK, Methods
  <2> QED
    BY <1>1, <2>1 DEF OpenAmazonDevice, Return, Become, TypeOK, memory, sound
<1>2. CASE RetryOpenInput(t)
  <2>1. [call[t] EXCEPT !.retried = TRUE] \in Call
    BY DEF Call, TypeOK
  <2> QED
    BY <1>2, <2>1, EnterOpenInputTyped DEF RetryOpenInput
<1>3. CASE GiveUp(t)
  BY <1>3 DEF GiveUp, Return, Become, TypeOK, device, memory, sound
<1>4. CASE AmazonOpen(t)
  <2>1. /\ call[t] \in Call
        /\ [kind |-> call[t].kind, source |-> call[t].source,
            config |-> call[t].config] \in Stream
    BY DEF TypeOK, Call, Stream
  <2>2. /\ \A s \in Streams :
             [call[t] EXCEPT !.pc = "wrap", !.stream = s] \in Call
        /\ [call[t] EXCEPT !.pc = "refused"] \in Call
        /\ \A suggestion \in Configs :
             [call[t] EXCEPT !.pc = "retry", !.config = suggestion] \in Call
    BY <2>1 DEF Call
  <2>3. call' \in [Threads -> Call]
    <3>1. ASSUME NEW s \in Streams,
                 Become(t, [call[t] EXCEPT !.pc = "wrap", !.stream = s])
          PROVE  call' \in [Threads -> Call]
      BY <3>1, <2>2 DEF Become, TypeOK
    <3>2. ASSUME NEW suggestion \in Configs, Refuse(t, call[t], suggestion)
          PROVE  call' \in [Threads -> Call]
      BY <3>2, <2>2 DEF Refuse, Become, TypeOK
    <3>3. ASSUME Return(t)
          PROVE  call' \in [Threads -> Call]
      BY <3>3 DEF Return, Become, TypeOK
    <3> QED
      BY <1>4, <3>1, <3>2, <3>3, ConstantsAssumption DEF AmazonOpen
  <2>4. stream' \in [Streams -> Stream \cup {Closed}]
    BY <1>4, <2>1 DEF AmazonOpen, TypeOK
  <2> QED
    BY <1>4, <2>3, <2>4 DEF AmazonOpen, TypeOK, device, sound
<1>5. CASE Wrap(t)
  <2>1. /\ \A w \in Wrappers :
             [call[t] EXCEPT !.pc = "setVolume", !.wrapper = w] \in Call
        /\ [call[t] EXCEPT !.pc = "undo"] \in Call
    BY DEF TypeOK, Call
  <2>2. call' \in [Threads -> Call]
    BY <1>5, <2>1 DEF Wrap, Become, Return, Goto, TypeOK
  <2>3. call[t].stream \in Streams \cup {NoStream}
    BY DEF TypeOK, Call
  <2>4. wrapper' \in [Wrappers -> Streams \cup {NoStream}]
    BY <1>5, <2>3 DEF Wrap, TypeOK
  <2>5. held' \subseteq Wrappers
    BY <1>5 DEF Wrap, TypeOK
  <2> QED
    BY <1>5, <2>2, <2>4, <2>5 DEF Wrap, TypeOK, device, sound
<1>6. CASE UndoOpen(t)
  BY <1>6 DEF UndoOpen, Return, Become, TypeOK, device, sound
<1>7. CASE SetCaptureVolume(t)
  <2>1. call[t].wrapper \in Wrappers
    BY <1>7 DEF SetCaptureVolume, BlocksInv, InHand
  <2> QED
    BY <1>7, <2>1 DEF SetCaptureVolume, Return, Become, TypeOK, device, Resolved
<1>8. CASE AmazonClose(t)
  <2>1. [call[t] EXCEPT !.pc = "free"] \in Call
    BY DEF TypeOK, Call
  <2> QED
    BY <1>8, <2>1 DEF AmazonClose, Goto, Become, TypeOK, device, sound
<1>9. CASE FreeWrapper(t)
  BY <1>9 DEF FreeWrapper, Return, Become, TypeOK, device, sound
<1>10. CASE AmazonSetVoiceVolume(t)
  <2>1. /\ [call[t] EXCEPT !.pc = "notify"] \in Call
        /\ call[t].volume \in Nat
    BY ConstantsAssumption DEF TypeOK, Call
  <2> QED
    BY <1>10, <2>1 DEF AmazonSetVoiceVolume, Goto, Become, TypeOK, device, memory
<1>11. CASE NotifyVoiceVolume(t)
  <2>1. Percent(call[t].volume) \in Nat
    BY PercentTyped, ConstantsAssumption DEF TypeOK, Call
  <2> QED
    BY <1>11, <2>1
    DEF NotifyVoiceVolume, Return, Become, Resolved, TypeOK, device, memory
<1>12. CASE Forwarded(t)
  BY <1>12 DEF Forwarded, Return, Become, TypeOK, device, memory, sound
<1> QED
  BY <1>1, <1>2, <1>3, <1>4, <1>5, <1>6, <1>7, <1>8, <1>9, <1>10, <1>11, <1>12
  DEF Proceed

-----------------------------------------------------------------------------
(* Calls.                                                                  *)

\* A thread between two calls is at no step of one.
LEMMA IdlePc == Idle.pc = "idle"
BY DEF Idle

\* Every thread has its own program counter and locals.
LEMMA CallFunction ==
  ASSUME TypeOK
  PROVE  call \in [Threads -> Call]
BY DEF TypeOK

\* The device is open or it is not.
LEMMA ContextBoolean ==
  ASSUME TypeOK, ~context
  PROVE  context = FALSE
<1>1. context \in BOOLEAN
  BY DEF TypeOK
<1> QED
  BY <1>1, Zenon

\* A step of a thread changes no other thread's call.
LEMMA Others ==
  ASSUME TypeOK, NEW t \in Threads, Enter(t) \/ Proceed(t)
  PROVE  \A u \in Threads \ {t} : call'[u] = call[u]
<1>1. CASE Enter(t)
  BY <1>1, CallFunction
  DEF Enter, OpenDevice, OpenOutputStream, OpenInputStream, EnterOpenInput,
      Refuse, CloseStream, SetVoiceVolume, GetAudioPort, Forward, Become
<1>2. CASE Proceed(t)
  BY <1>2, CallFunction
  DEF Proceed, OpenAmazonDevice, RetryOpenInput, EnterOpenInput, GiveUp,
      AmazonOpen, Refuse, Wrap, UndoOpen, SetCaptureVolume, AmazonClose,
      FreeWrapper, AmazonSetVoiceVolume, NotifyVoiceVolume, Forwarded, Return,
      Goto, Become
<1> QED
  BY <1>1, <1>2

-----------------------------------------------------------------------------
(* What a step makes of the thread's own call, field by field.             *)

\* The device is opened.
LEMMA EntersOpen ==
  ASSUME TypeOK, NEW t \in Threads
  PROVE  /\ OpenDevice(t) => call'[t].pc = "openDevice"
         /\ \A config : OpenOutputStream(t, config) =>
              /\ call'[t].pc = "amazonOpen" /\ call'[t].kind = "out"
              /\ call'[t].source = "mic" /\ call'[t].config = config
              /\ ~call'[t].retried
BY CallFunction DEF OpenDevice, OpenOutputStream, Become, Idle

\* Calls other than opening something begin with the method or the stream they
\* are for.
LEMMA EntersOther ==
  ASSUME TypeOK, NEW t \in Threads
  PROVE  /\ \A w : CloseStream(t, w) =>
              /\ call'[t].pc = "amazonClose" /\ call'[t].wrapper = w
              /\ call'[t].kind = stream[wrapper[w]].kind
         /\ \A v : SetVoiceVolume(t, v) =>
              call'[t].pc = "amazonVolume" /\ call'[t].volume = v
         /\ GetAudioPort(t) =>
              \/ call' = call
              \/ /\ call'[t].pc = "forward" /\ call'[t].method \in amazon
         /\ Forward(t) => call'[t].pc = "forward" /\ call'[t].method = "other"
<1>1. \A w : CloseStream(t, w) =>
        /\ call'[t].pc = "amazonClose" /\ call'[t].wrapper = w
        /\ call'[t].kind = stream[wrapper[w]].kind
  BY CallFunction DEF CloseStream, Become, Idle
<1>2. \A v : SetVoiceVolume(t, v) =>
        call'[t].pc = "amazonVolume" /\ call'[t].volume = v
  BY CallFunction DEF SetVoiceVolume, Become, Idle
<1>3. GetAudioPort(t) =>
        \/ call' = call
        \/ /\ call'[t].pc = "forward" /\ call'[t].method \in amazon
  BY CallFunction DEF GetAudioPort, Implemented, Become, Idle
<1>4. Forward(t) => call'[t].pc = "forward" /\ call'[t].method = "other"
  BY CallFunction DEF Forward, Become, Idle
<1> QED
  BY <1>1, <1>2, <1>3, <1>4

\* An input is refused by the wrapper, or the decision about the ASP is made.
LEMMA EntersOpenInput ==
  ASSUME TypeOK, NEW t \in Threads, NEW c \in Call, EnterOpenInput(t, c),
         c.kind = "in"
  PROVE  /\ call'[t].kind = "in" /\ call'[t].source = c.source
         /\ \/ /\ call'[t].pc = "amazonOpen" /\ call'[t].config = c.config
               /\ call'[t].retried = c.retried
               /\ ~(AspRunsCapture(c.source) /\ c.config # AspConfig)
            \/ /\ call'[t].pc = "retry" /\ call'[t].config = AspConfig
               /\ ~c.retried
            \/ /\ call'[t].pc = "refused" /\ c.retried
               /\ AspRunsCapture(c.source) /\ c.config # AspConfig
<1>1. CASE AspRunsCapture(c.source) /\ c.config # AspConfig /\ ~c.retried
  <2>1. call'[t] = [c EXCEPT !.pc = "retry", !.config = AspConfig]
    BY <1>1, CallFunction DEF EnterOpenInput, Refuse, Become, Suggestion
  <2> QED
    BY <1>1, <2>1 DEF Call
<1>2. CASE AspRunsCapture(c.source) /\ c.config # AspConfig /\ c.retried
  <2>1. call'[t] = [c EXCEPT !.pc = "refused"]
    BY <1>2, CallFunction DEF EnterOpenInput, Refuse, Become
  <2> QED
    BY <1>2, <2>1 DEF Call
<1>3. CASE ~(AspRunsCapture(c.source) /\ c.config # AspConfig)
  <2>1. call'[t] = [c EXCEPT !.pc = "amazonOpen"]
    BY <1>3, CallFunction DEF EnterOpenInput, Become
  <2> QED
    BY <1>3, <2>1 DEF Call
<1> QED
  BY <1>1, <1>2, <1>3

\* An input is asked for.
LEMMA OpensInput ==
  ASSUME TypeOK, NEW t \in Threads, NEW source \in Sources,
         NEW config \in Configs, OpenInputStream(t, source, config)
  PROVE  /\ call'[t].kind = "in" /\ call'[t].source = source
         /\ \/ /\ call'[t].pc = "amazonOpen" /\ call'[t].config = config
               /\ ~call'[t].retried
               /\ ~(AspRunsCapture(source) /\ config # AspConfig)
            \/ call'[t].pc = "retry" /\ call'[t].config = AspConfig
<1> DEFINE c == [Idle EXCEPT !.kind = "in", !.source = source, !.config = config]
<1>1. /\ c \in Call /\ c.kind = "in" /\ c.source = source
      /\ c.config = config /\ c.retried = FALSE
  BY IdleTyped DEF Call, Idle
<1>2. EnterOpenInput(t, c)
  BY DEF OpenInputStream
<1> HIDE DEF c
<1> QED
  BY <1>1, <1>2, EntersOpenInput

\* The client follows the suggestion.
LEMMA RetriesInput ==
  ASSUME TypeOK, NEW t \in Threads, RetryOpenInput(t), call[t].kind = "in"
  PROVE  /\ call'[t].kind = "in" /\ call'[t].source = call[t].source
         /\ \/ /\ call'[t].pc = "amazonOpen"
               /\ call'[t].config = call[t].config
               /\ ~(AspRunsCapture(call[t].source) /\ call[t].config # AspConfig)
            \/ /\ call'[t].pc = "refused"
               /\ AspRunsCapture(call[t].source) /\ call[t].config # AspConfig
<1> DEFINE c == [call[t] EXCEPT !.retried = TRUE]
<1>1. /\ c \in Call /\ c.kind = "in" /\ c.source = call[t].source
      /\ c.config = call[t].config /\ c.retried = TRUE
  BY CallFunction DEF Call
<1>2. EnterOpenInput(t, c)
  BY DEF RetryOpenInput
<1> HIDE DEF c
<1> QED
  BY <1>1, <1>2, EntersOpenInput

\* Only an input that was refused is tried again.
LEMMA RetryIsIn ==
  ASSUME FitInv, NEW t \in Threads, RetryOpenInput(t)
  PROVE  call[t].kind = "in"
BY DEF FitInv, FitCall, RetryOpenInput

\* A call that closes, sets or passes on something comes to its end.
LEMMA Ends ==
  ASSUME TypeOK, NEW t \in Threads,
         \/ OpenAmazonDevice(t) \/ GiveUp(t) \/ UndoOpen(t)
         \/ SetCaptureVolume(t) \/ FreeWrapper(t) \/ NotifyVoiceVolume(t)
         \/ Forwarded(t)
  PROVE  call'[t] = Idle
BY CallFunction
DEF OpenAmazonDevice, GiveUp, UndoOpen, SetCaptureVolume, FreeWrapper,
    NotifyVoiceVolume, Forwarded, Return, Become

\* The Amazon device opens or refuses a stream.
LEMMA OpensAmazon ==
  ASSUME TypeOK, NEW t \in Threads, AmazonOpen(t)
  PROVE  \/ \E s \in Streams :
              /\ stream[s] = Closed
              /\ stream' = [stream EXCEPT
                   ![s] = [kind   |-> call[t].kind,
                           source |-> call[t].source,
                           config |-> call[t].config]]
              /\ call[t].config \in AmazonConfigs
              /\ call'[t].pc = "wrap" /\ call'[t].stream = s
              /\ call'[t].kind = call[t].kind
              /\ call'[t].source = call[t].source
              /\ call'[t].config = call[t].config
         \/ /\ stream' = stream
            /\ call[t].config \notin AmazonConfigs
            /\ call'[t].kind = call[t].kind
            /\ call'[t].source = call[t].source
            /\ \/ /\ call'[t].pc = "retry" /\ call[t].kind = "in"
                  /\ call'[t].config \in AmazonConfigs
               \/ /\ call'[t].pc = "refused"
                  /\ call[t].kind = "out" \/ call[t].retried
         \/ stream' = stream /\ call'[t] = Idle
<1>1. ASSUME NEW s \in Streams,
             Become(t, [call[t] EXCEPT !.pc = "wrap", !.stream = s])
      PROVE  /\ call'[t].pc = "wrap" /\ call'[t].stream = s
             /\ call'[t].kind = call[t].kind
             /\ call'[t].source = call[t].source
             /\ call'[t].config = call[t].config
  BY <1>1, CallFunction DEF Become, Call
<1>2. ASSUME NEW suggestion \in AmazonConfigs, Refuse(t, call[t], suggestion)
      PROVE  /\ call'[t].kind = call[t].kind
             /\ call'[t].source = call[t].source
             /\ \/ /\ call'[t].pc = "retry" /\ call[t].kind = "in"
                   /\ call'[t].config \in AmazonConfigs
                \/ /\ call'[t].pc = "refused"
                   /\ call[t].kind = "out" \/ call[t].retried
  BY <1>2, CallFunction DEF Refuse, Become, Call
<1>3. Return(t) => call'[t] = Idle
  BY CallFunction DEF Return, Become
<1> QED
  BY <1>1, <1>2, <1>3 DEF AmazonOpen

\* The stream is wrapped, or the memory for it cannot be had.
LEMMA Wraps ==
  ASSUME TypeOK, NEW t \in Threads, Wrap(t)
  PROVE  \/ \E w \in Wrappers :
              /\ wrapper[w] = NoStream
              /\ wrapper' = [wrapper EXCEPT ![w] = call[t].stream]
              /\ \/ /\ call[t].source = "voice_communication"
                    /\ held' = held
                    /\ call'[t].pc = "setVolume" /\ call'[t].wrapper = w
                 \/ /\ call[t].source # "voice_communication"
                    /\ held' = held \cup {w} /\ call'[t] = Idle
         \/ /\ UNCHANGED <<wrapper, held>>
            /\ call'[t].pc = "undo"
            /\ call'[t].stream = call[t].stream
            /\ call'[t].kind = call[t].kind
            /\ call'[t].source = call[t].source
            /\ call'[t].config = call[t].config
<1>1. ASSUME NEW w \in Wrappers,
             Become(t, [call[t] EXCEPT !.pc = "setVolume", !.wrapper = w])
      PROVE  call'[t].pc = "setVolume" /\ call'[t].wrapper = w
  BY <1>1, CallFunction DEF Become, Call
<1>2. Return(t) => call'[t] = Idle
  BY CallFunction DEF Return, Become
<1>3. ASSUME Goto(t, "undo")
      PROVE  /\ call'[t].pc = "undo"
             /\ call'[t].stream = call[t].stream
             /\ call'[t].kind = call[t].kind
             /\ call'[t].source = call[t].source
             /\ call'[t].config = call[t].config
  BY <1>3, CallFunction DEF Goto, Become, Call
<1> QED
  BY <1>1, <1>2, <1>3 DEF Wrap

\* A call that goes on has the arguments it had.
LEMMA Continues ==
  ASSUME TypeOK, NEW t \in Threads
  PROVE  /\ AmazonClose(t) =>
              call'[t].pc = "free" /\ call'[t].wrapper = call[t].wrapper
         /\ AmazonSetVoiceVolume(t) =>
              call'[t].pc = "notify" /\ call'[t].volume = call[t].volume
BY CallFunction DEF AmazonClose, AmazonSetVoiceVolume, Goto, Become, Call

-----------------------------------------------------------------------------
(* The device.                                                             *)

\* While a call is in progress, or may begin, the device is open.
LEMMA Opened ==
  ASSUME DeviceInv, NEW t \in Threads,
         table # {} \/ call[t].pc \notin {"idle", "openDevice"}
  PROVE  context # FALSE /\ \A u \in Threads : call[u].pc # "openDevice"
BY IdlePc DEF DeviceInv, Quiet

\* A device that is closed stays without methods, streams and calls.
LEMMA DeviceKept ==
  ASSUME TypeOK, DeviceInv, FitInv, NEW t \in Threads, Enter(t) \/ Proceed(t)
  PROVE  DeviceInv'
<1> USE CallFunction
<1>1. CASE OpenDevice(t)
  <2>1. /\ amazon = {} /\ table = {} /\ held = {}
        /\ UNCHANGED <<amazon, table, held>>
    <3>1. context = FALSE
      BY <1>1, ContextBoolean DEF OpenDevice
    <3> QED
      BY <1>1, <3>1 DEF OpenDevice, DeviceInv, memory
  <2>2. \A u \in Threads \ {t} : call'[u] = Idle
    BY <1>1 DEF OpenDevice, Quiet, Become
  <2> QED
    <3>1. (amazon = {} \/ amazon \in AmazonTables)'
      BY <2>1
    <3>2. (table \subseteq amazon \cup {"get_audio_port"})'
      BY <2>1
    <3>3. context' = TRUE
      BY <1>1 DEF OpenDevice
    <3>4. \A u \in Threads \ {t} : call'[u].pc # "openDevice"
      BY <2>2 DEF Idle
    <3> QED
      BY <2>1, <2>2, <3>1, <3>2, <3>3, <3>4 DEF DeviceInv
<1>2. CASE OpenAmazonDevice(t)
  <2>1. /\ amazon = {} /\ table = {} /\ held = {} /\ held' = held
    BY <1>2 DEF OpenAmazonDevice, DeviceInv, memory
  <2>2. \A u \in Threads : call'[u] = Idle
    BY <1>2 DEF OpenAmazonDevice, DeviceInv, Return, Become
  <2> QED
    <3>1. \/ amazon' \in AmazonTables /\ table' = amazon' \cup {"get_audio_port"}
          \/ amazon' = {} /\ table' = {}
      BY <1>2, <2>1 DEF OpenAmazonDevice
    <3>2. context' # FALSE \/ (amazon' = {} /\ table' = {})
      BY <1>2, <2>1 DEF OpenAmazonDevice, DeviceInv
    <3>3. Quiet' /\ \A u \in Threads : call'[u].pc # "openDevice"
      BY <2>2, IdlePc DEF Quiet
    <3> QED
      BY <2>1, <3>1, <3>2, <3>3 DEF DeviceInv
<1>3. ASSUME \/ Enter(t) /\ ~OpenDevice(t)
             \/ Proceed(t) /\ ~OpenAmazonDevice(t)
      PROVE  DeviceInv'
  <2>1. /\ UNCHANGED device
        /\ call'[t].pc # "openDevice"
        /\ table # {} \/ call[t].pc \notin {"idle", "openDevice"}
    <3>1. CASE Enter(t) /\ ~OpenDevice(t)
      <4>1. UNCHANGED device /\ table # {} /\ call[t].pc = "idle"
        BY <3>1, IdlePc
        DEF Enter, OpenOutputStream, OpenInputStream, EnterOpenInput,
            CloseStream, SetVoiceVolume, GetAudioPort, Forward, MayCall
      <4>2. ASSUME NEW config \in Configs, NEW source \in Sources,
                   OpenInputStream(t, source, config)
            PROVE  call'[t].pc # "openDevice"
        BY <4>2, OpensInput
      <4> QED
        BY <3>1, <4>1, <4>2, EntersOpen, EntersOther DEF Enter
    <3>2. CASE Proceed(t) /\ ~OpenAmazonDevice(t)
      <4>1. UNCHANGED device /\ call[t].pc \notin {"idle", "openDevice"}
        BY <3>2
        DEF Proceed, RetryOpenInput, EnterOpenInput, GiveUp, AmazonOpen, Wrap,
            UndoOpen, SetCaptureVolume, AmazonClose, FreeWrapper,
            AmazonSetVoiceVolume, NotifyVoiceVolume, Forwarded
      <4>2. call'[t].pc # "openDevice"
        BY <3>2, RetryIsIn, RetriesInput, OpensAmazon, Wraps, Continues, Ends,
           IdlePc DEF Proceed
      <4> QED
        BY <4>1, <4>2
    <3> QED
      BY <1>3, <3>1, <3>2
  <2>2. context # FALSE /\ \A u \in Threads : call[u].pc # "openDevice"
    BY <2>1, Opened
  <2>3. \A u \in Threads : call'[u].pc # "openDevice"
    BY <1>3, <2>1, <2>2, Others
  <2> QED
    BY <2>1, <2>2, <2>3 DEF DeviceInv, device
<1> QED
  BY <1>1, <1>2, <1>3

\* Whatever a thread is about to do next is in the table of the Amazon device.
LEMMA MethodKept ==
  ASSUME TypeOK, DeviceInv, MethodInv, FitInv, NEW t \in Threads,
         Enter(t) \/ Proceed(t)
  PROVE  MethodInv'
<1>1. MethodThere(call[t])
  BY DEF MethodInv
<1>2. \A method \in table : method # "get_audio_port" => method \in amazon
  BY DEF DeviceInv
<1>3. \A kind \in {"in", "out"} : OpenMethod(kind) \in amazon
                                   => CloseMethod(kind) \in amazon
  BY ConstantsAssumption DEF DeviceInv, OpenMethod, CloseMethod
<1>4. CASE OpenAmazonDevice(t)
  <2>1. \A u \in Threads : call'[u].pc = "idle"
    BY <1>4, Ends, Others, IdlePc DEF OpenAmazonDevice, DeviceInv, Proceed
  <2> QED
    BY <2>1 DEF MethodInv, MethodThere
<1>5. ASSUME Enter(t)
      PROVE  amazon' = amazon /\ MethodThere(call[t])'
  <2>1. amazon' = amazon
    <3>1. OpenDevice(t) \/ UNCHANGED device
      BY <1>5
      DEF Enter, OpenOutputStream, OpenInputStream, EnterOpenInput,
          CloseStream, SetVoiceVolume, GetAudioPort, Forward
    <3> QED
      BY <3>1 DEF OpenDevice, device
  <2>2. CASE OpenDevice(t)
    BY <2>1, <2>2, EntersOpen DEF MethodThere
  <2>3. ASSUME NEW config \in Configs, OpenOutputStream(t, config)
        PROVE  MethodThere(call[t])'
    BY <2>1, <2>3, <1>2, EntersOpen
    DEF OpenOutputStream, MayCall, MethodThere, OpenMethod
  <2>4. ASSUME NEW config \in Configs, NEW source \in Sources,
               OpenInputStream(t, source, config)
        PROVE  MethodThere(call[t])'
    BY <2>1, <2>4, <1>2, OpensInput
    DEF OpenInputStream, MayCall, MethodThere, OpenMethod
  <2>5. ASSUME NEW w \in Wrappers, CloseStream(t, w)
        PROVE  MethodThere(call[t])'
    BY <2>1, <2>5, <1>2, EntersOther
    DEF CloseStream, MayCall, MethodThere, CloseMethod
  <2>6. ASSUME NEW v \in Volumes, SetVoiceVolume(t, v)
        PROVE  MethodThere(call[t])'
    BY <2>1, <2>6, <1>2, EntersOther DEF SetVoiceVolume, MayCall, MethodThere
  <2>7. CASE GetAudioPort(t)
    BY <2>1, <2>7, <1>1, EntersOther DEF MethodThere
  <2>8. CASE Forward(t)
    BY <2>1, <2>8, <1>2, EntersOther DEF Forward, MayCall, MethodThere
  <2> QED
    BY <1>5, <2>1, <2>2, <2>3, <2>4, <2>5, <2>6, <2>7, <2>8 DEF Enter
<1>6. ASSUME Proceed(t), ~OpenAmazonDevice(t)
      PROVE  amazon' = amazon /\ MethodThere(call[t])'
  <2>1. amazon' = amazon
    <3>1. UNCHANGED device
      BY <1>6
      DEF Proceed, RetryOpenInput, EnterOpenInput, GiveUp, AmazonOpen, Wrap,
          UndoOpen, SetCaptureVolume, AmazonClose, FreeWrapper,
          AmazonSetVoiceVolume, NotifyVoiceVolume, Forwarded
    <3> QED
      BY <3>1 DEF device
  <2>2. CASE call'[t] = Idle
    BY <2>1, <2>2, IdlePc DEF MethodThere
  <2>3. CASE RetryOpenInput(t)
    BY <2>1, <2>3, <1>1, RetryIsIn, RetriesInput DEF RetryOpenInput, MethodThere
  <2>4. CASE AmazonOpen(t)
    BY <2>1, <2>2, <2>4, <1>1, OpensAmazon DEF AmazonOpen, MethodThere
  <2>5. CASE Wrap(t)
    BY <2>1, <2>2, <2>5, <1>1, Wraps DEF Wrap, MethodThere
  <2>6. CASE AmazonClose(t) \/ AmazonSetVoiceVolume(t)
    BY <2>1, <2>6, Continues DEF MethodThere
  <2> QED
    BY <1>6, <2>1, <2>2, <2>3, <2>4, <2>5, <2>6, Ends DEF Proceed
<1> QED
  BY <1>4, <1>5, <1>6, Others DEF MethodInv, MethodThere

-----------------------------------------------------------------------------
(* Streams and client streams.                                             *)

\* What is known of the ASP stays known.
LEMMA AspStays ==
  ASSUME TypeOK, [Next]_vars
  PROVE  asp # "unresolved" => asp' = asp
<1>1. CASE UNCHANGED vars
  BY <1>1 DEF vars, sound
<1>2. CASE CloseDevice \/ LoadLibrary
  BY <1>2 DEF CloseDevice, LoadLibrary, sound
<1>3. ASSUME NEW t \in Threads, Enter(t)
      PROVE  asp # "unresolved" => asp' = asp
  BY <1>3
  DEF Enter, OpenDevice, OpenOutputStream, OpenInputStream, EnterOpenInput,
      CloseStream, SetVoiceVolume, GetAudioPort, Forward, sound, Resolved
<1>4. ASSUME NEW t \in Threads, Proceed(t)
      PROVE  asp # "unresolved" => asp' = asp
  BY <1>4
  DEF Proceed, OpenAmazonDevice, RetryOpenInput, EnterOpenInput, GiveUp,
      AmazonOpen, Wrap, UndoOpen, SetCaptureVolume, AmazonClose, FreeWrapper,
      AmazonSetVoiceVolume, NotifyVoiceVolume, Forwarded, sound, Resolved
<1> QED
  BY <1>1, <1>2, <1>3, <1>4 DEF Next

\* What has been found fit stays so: the decision about the ASP is made once.
LEMMA FitStays ==
  ASSUME TypeOK, [Next]_vars, NEW x, x.kind \in {"in", "out"}, Fit(x, asp)
  PROVE  Fit(x, asp')
BY AspStays DEF Fit

\* What an input is found fit for is what is known from now on.
LEMMA InputFits ==
  ASSUME TypeOK, NEW t \in Threads,
         \/ RetryOpenInput(t) /\ call[t].kind = "in"
         \/ \E config \in Configs, source \in Sources :
              OpenInputStream(t, source, config)
  PROVE  call'[t].pc \in {"amazonOpen", "retry"} => Fit(call'[t], asp')
<1>1. ASSUME NEW config \in Configs, NEW source \in Sources,
             OpenInputStream(t, source, config)
      PROVE  call'[t].pc \in {"amazonOpen", "retry"} => Fit(call'[t], asp')
  <2>1. asp' = Resolved /\ asp' \in {"present", "absent"}
    BY <1>1 DEF OpenInputStream, EnterOpenInput, Resolved, TypeOK
  <2> QED
    BY <1>1, <2>1, OpensInput DEF AspRunsCapture, Fit, Sources
<1>2. CASE RetryOpenInput(t) /\ call[t].kind = "in"
  <2>1. asp' = Resolved /\ asp' \in {"present", "absent"}
    BY <1>2 DEF RetryOpenInput, EnterOpenInput, Resolved, TypeOK
  <2>2. call[t].source \in Sources
    BY CallFunction DEF Call
  <2> QED
    BY <1>2, <2>1, <2>2, RetriesInput DEF AspRunsCapture, Fit, Sources
<1> QED
  BY <1>1, <1>2

\* What becomes of the Amazon device's streams.
LEMMA StreamsChange ==
  ASSUME TypeOK, NEW t \in Threads, Enter(t) \/ Proceed(t)
  PROVE  \/ stream' = stream
         \/ AmazonOpen(t)
         \/ UndoOpen(t)
         \/ AmazonClose(t)
BY DEF Enter, OpenDevice, OpenOutputStream, OpenInputStream, EnterOpenInput,
       CloseStream, SetVoiceVolume, GetAudioPort, Forward, Proceed,
       OpenAmazonDevice, RetryOpenInput, GiveUp, Wrap, SetCaptureVolume,
       FreeWrapper, AmazonSetVoiceVolume, NotifyVoiceVolume, Forwarded, memory

\* A call that has not wrapped what it opened is its only owner.
LEMMA AloneNew ==
  ASSUME TypeOK, StreamsOwned, NewInv, NEW t \in Threads,
         call[t].pc \in {"wrap", "undo"}
  PROVE  /\ call[t].stream \in Streams
         /\ stream[call[t].stream] # Closed
         /\ OwnersOf(call[t].stream) = {t}
<1>1. call[t].stream \in Streams
  BY DEF NewInv
<1>2. t \in OwnersOf(call[t].stream)
  BY DEF OwnersOf
<1> QED
  BY <1>1, <1>2 DEF StreamsOwned

\* What is asked for, suggested or open is fit after any step of a call.
LEMMA FitKept ==
  ASSUME TypeOK, StreamsOwned, FitInv, NewInv, NEW t \in Threads,
         Enter(t) \/ Proceed(t)
  PROVE  FitInv'
<1>1. [Next]_vars
  BY DEF Next
<1>2. ASSUME NEW u \in Threads
      PROVE  FitCall(call'[u], asp')
  <2>1. CASE call'[u] = call[u]
    <3>1. call[u].kind \in {"in", "out"}
      BY CallFunction DEF Call
    <3> QED
      BY <1>1, <2>1, <3>1, AspStays, FitStays DEF FitInv, FitCall
  <2>2. CASE u # t
    BY <2>1, <2>2, Others
  <2>3. ASSUME u = t, call'[u].pc \notin {"amazonOpen", "retry", "setVolume"}
        PROVE  FitCall(call'[u], asp')
    BY <2>3 DEF FitCall
  <2>4. ASSUME u = t, NEW config \in Configs, OpenOutputStream(t, config)
        PROVE  FitCall(call'[u], asp')
    BY <2>4, EntersOpen DEF Fit, FitCall
  <2>5. ASSUME u = t, NEW config \in Configs, NEW source \in Sources,
               OpenInputStream(t, source, config)
        PROVE  FitCall(call'[u], asp')
    BY <2>5, OpensInput, InputFits, ConstantsAssumption
    DEF FitCall
  <2>6. ASSUME u = t, RetryOpenInput(t)
        PROVE  FitCall(call'[u], asp')
    BY <2>6, RetryIsIn, RetriesInput, InputFits
    DEF FitInv, FitCall, RetryOpenInput
  <2>7. ASSUME u = t, AmazonOpen(t)
        PROVE  FitCall(call'[u], asp')
    <3>1. asp' = asp
      BY <2>7 DEF AmazonOpen, sound
    <3>2. Fit(call[t], asp)
      BY <2>7 DEF AmazonOpen, FitInv, FitCall
    <3> QED
      BY <2>3, <2>7, <3>1, <3>2, OpensAmazon, IdlePc, ConstantsAssumption
      DEF Fit, FitCall
  <2>8. ASSUME u = t, Wrap(t)
        PROVE  FitCall(call'[u], asp')
    <3>1. asp' = asp
      BY <2>8 DEF Wrap, sound
    <3>2. ASSUME call[t].source = "voice_communication"
          PROVE  asp # "unresolved"
      <4>1. Fit(stream[call[t].stream], asp) /\ call[t].pc = "wrap"
        BY <2>8, AloneNew DEF Wrap, FitInv
      <4>2. call[t].kind \in {"in", "out"}
        BY CallFunction DEF Call
      <4>3. stream[call[t].stream] = [kind   |-> call[t].kind,
                                      source |-> call[t].source,
                                      config |-> call[t].config]
        BY <2>8 DEF NewInv, Wrap
      <4>4. /\ stream[call[t].stream].kind = call[t].kind
            /\ stream[call[t].stream].source = call[t].source
        BY <4>3
      <4> QED
        BY <3>2, <4>1, <4>2, <4>4 DEF Fit
    <3>3. \/ call'[t].pc = "setVolume" /\ asp # "unresolved"
          \/ call'[t].pc \in {"undo", "idle"}
      BY <2>8, <3>2, Wraps, IdlePc
    <3> QED
      BY <2>8, <3>1, <3>3 DEF FitCall
  <2>9. CASE u = t /\ Enter(t)
    BY <2>1, <2>3, <2>4, <2>5, <2>9, EntersOpen, EntersOther DEF Enter
  <2>10. CASE u = t /\ Proceed(t)
    BY <2>3, <2>6, <2>7, <2>8, <2>10, Ends, Continues, IdlePc DEF Proceed
  <2> QED
    BY <2>2, <2>9, <2>10
<1>3. ASSUME NEW s \in Streams, stream'[s] # Closed
      PROVE  Fit(stream'[s], asp') /\ stream'[s].config \in AmazonConfigs
  <2>1. CASE stream'[s] = stream[s]
    <3>1. stream[s].kind \in {"in", "out"}
      BY <1>3, <2>1 DEF TypeOK, Stream
    <3> QED
      BY <1>1, <1>3, <2>1, <3>1, FitStays DEF FitInv
  <2>2. CASE AmazonOpen(t)
    <3>1. asp' = asp
      BY <2>2 DEF AmazonOpen, sound
    <3>2. Fit(call[t], asp)
      BY <2>2 DEF AmazonOpen, FitInv, FitCall
    <3> QED
      BY <2>1, <2>2, <3>1, <3>2, OpensAmazon DEF TypeOK, Fit
  <2>3. CASE UndoOpen(t) \/ AmazonClose(t)
    BY <1>3, <2>1, <2>3 DEF UndoOpen, AmazonClose, TypeOK
  <2> QED
    BY <2>1, <2>2, <2>3, StreamsChange
<1> QED
  BY <1>2, <1>3 DEF FitInv

\* Nothing is closed, or opened over, that somebody else owns.
LEMMA NotTaken ==
  ASSUME TypeOK, StreamsOwned, NewInv, BlocksInv, NEW t \in Threads,
         Enter(t) \/ Proceed(t), NEW s \in Streams,
         \E owner \in (Threads \cup Wrappers) \ {t} :
           /\ owner \in OwnersOf(s)
           /\ AmazonClose(t) => owner # call[t].wrapper
  PROVE  stream'[s] = stream[s]
<1>1. stream[s] # Closed
  BY DEF StreamsOwned
<1>2. CASE AmazonOpen(t)
  BY <1>1, <1>2, OpensAmazon DEF TypeOK
<1>3. CASE UndoOpen(t)
  <2>1. s # call[t].stream
    BY <1>3, AloneNew DEF UndoOpen
  <2> QED
    BY <1>3, <2>1 DEF UndoOpen, TypeOK
<1>4. CASE AmazonClose(t)
  <2>1. s # wrapper[call[t].wrapper]
    BY <1>4, Alone DEF AmazonClose, BlocksInv, InHand
  <2> QED
    BY <1>4, <2>1 DEF AmazonClose, TypeOK
<1> QED
  BY <1>2, <1>3, <1>4, StreamsChange

\* A call knows what it has opened, whatever other threads open.
LEMMA NewKept ==
  ASSUME TypeOK, StreamsOwned, NewInv, BlocksInv, NEW t \in Threads,
         Enter(t) \/ Proceed(t)
  PROVE  NewInv'
<1> SUFFICES ASSUME NEW u \in Threads, call'[u].pc \in {"wrap", "undo"}
             PROVE  /\ call'[u].stream \in Streams
                    /\ stream'[call'[u].stream] = [kind   |-> call'[u].kind,
                                                  source |-> call'[u].source,
                                                  config |-> call'[u].config]
  BY DEF NewInv
<1>1. CASE u # t
  <2>1. call'[u] = call[u]
    BY <1>1, Others
  <2>2. u \in OwnersOf(call[u].stream) /\ call[u].stream \in Streams
    BY <2>1 DEF OwnersOf, NewInv
  <2>3. AmazonClose(t) => u # call[t].wrapper
    BY ConstantsAssumption DEF AmazonClose, BlocksInv, InHand
  <2>4. stream'[call[u].stream] = stream[call[u].stream]
    BY <1>1, <2>2, <2>3, NotTaken
  <2> QED
    BY <2>1, <2>4 DEF NewInv
<1>2. ASSUME u = t, AmazonOpen(t)
      PROVE  /\ call'[u].stream \in Streams
             /\ stream'[call'[u].stream] = [kind   |-> call'[u].kind,
                                           source |-> call'[u].source,
                                           config |-> call'[u].config]
  BY <1>2, OpensAmazon, IdlePc DEF TypeOK
<1>3. ASSUME u = t, Wrap(t)
      PROVE  /\ call'[u].stream \in Streams
             /\ stream'[call'[u].stream] = [kind   |-> call'[u].kind,
                                           source |-> call'[u].source,
                                           config |-> call'[u].config]
  BY <1>3, Wraps, IdlePc DEF Wrap, NewInv
<1>4. ASSUME u = t
      PROVE  AmazonOpen(t) \/ Wrap(t)
  <2>1. CASE Enter(t)
    <3>1. call[t].pc = "idle" \/ OpenDevice(t)
      BY <2>1, IdlePc
      DEF Enter, OpenOutputStream, OpenInputStream, CloseStream,
          SetVoiceVolume, GetAudioPort, Forward, MayCall
    <3> QED
      BY <1>4, <2>1, <3>1, EntersOpen, EntersOther, OpensInput DEF Enter
  <2>2. CASE Proceed(t)
    <3>1. RetryOpenInput(t) => call'[t].pc \in {"amazonOpen", "retry", "refused"}
      BY CallFunction DEF RetryOpenInput, EnterOpenInput, Refuse, Become, Call
    <3> QED
      BY <1>4, <2>2, <3>1, Ends, Continues, IdlePc DEF Proceed
  <2> QED
    BY <2>1, <2>2
<1> QED
  BY <1>1, <1>2, <1>3, <1>4

\* Which calls have a client stream in hand after a step.
LEMMA HandsChange ==
  ASSUME TypeOK, FitInv, NEW t \in Threads, Enter(t) \/ Proceed(t)
  PROVE  \/ ~InHand(t)'
         \/ /\ InHand(t) /\ call'[t].wrapper = call[t].wrapper
            /\ UNCHANGED <<wrapper, held>>
         \/ Wrap(t)
         \/ \E w \in Wrappers : CloseStream(t, w)
<1>1. CASE Enter(t)
  <2>1. GetAudioPort(t) => call[t].pc = "idle"
    BY IdlePc DEF GetAudioPort, MayCall
  <2> QED
    BY <1>1, <2>1, EntersOpen, EntersOther, OpensInput DEF Enter, InHand
<1>2. CASE Proceed(t)
  <2>1. AmazonClose(t) => InHand(t) /\ UNCHANGED <<wrapper, held>>
    BY DEF AmazonClose, InHand
  <2> QED
    BY <1>2, <2>1, RetryIsIn, RetriesInput, OpensAmazon, Continues, Ends, IdlePc
    DEF Proceed, InHand
<1> QED
  BY <1>1, <1>2

\* What a step may do to the blocks of memory and to who has them.
LEMMA MemoryChanges ==
  ASSUME TypeOK, NEW t \in Threads, Enter(t) \/ Proceed(t)
  PROVE  \/ UNCHANGED <<wrapper, held>>
         \/ Wrap(t)
         \/ SetCaptureVolume(t)
         \/ FreeWrapper(t)
         \/ \E w \in Wrappers : CloseStream(t, w)
BY DEF Enter, OpenDevice, OpenOutputStream, OpenInputStream, EnterOpenInput,
       SetVoiceVolume, GetAudioPort, Forward, Proceed, OpenAmazonDevice,
       RetryOpenInput, GiveUp, AmazonOpen, UndoOpen, AmazonClose,
       AmazonSetVoiceVolume, NotifyVoiceVolume, Forwarded, memory

\* A block of memory is never in two hands.
LEMMA BlocksKept ==
  ASSUME TypeOK, FitInv, NewInv, BlocksInv, NEW t \in Threads,
         Enter(t) \/ Proceed(t)
  PROVE  BlocksInv'
<1> USE DEF InHand
<1>1. \A u \in Threads \ {t} : call'[u] = call[u]
  BY Others
<1>2. ASSUME UNCHANGED <<wrapper, held>>,
             \/ ~InHand(t)'
             \/ InHand(t) /\ call'[t].wrapper = call[t].wrapper
      PROVE  BlocksInv'
  BY <1>1, <1>2 DEF BlocksInv
<1>3. CASE Wrap(t)
  <2>1. call[t].stream # NoStream
    BY <1>3, ConstantsAssumption DEF Wrap, NewInv
  <2>2. ASSUME NEW w \in Wrappers, wrapper[w] = NoStream,
               wrapper' = [wrapper EXCEPT ![w] = call[t].stream],
               \/ /\ held' = held
                  /\ call'[t].pc = "setVolume" /\ call'[t].wrapper = w
               \/ held' = held \cup {w} /\ call'[t] = Idle
        PROVE  BlocksInv'
    <3>1. /\ wrapper'[w] # NoStream
          /\ \A v \in Wrappers \ {w} : wrapper'[v] = wrapper[v]
      BY <2>1, <2>2 DEF TypeOK
    <3>2. w \notin held /\ \A u \in Threads : InHand(u) => call[u].wrapper # w
      BY <2>2 DEF BlocksInv
    <3>3. held \subseteq Wrappers
      BY DEF TypeOK
    <3> QED
      BY <1>1, <2>2, <3>1, <3>2, <3>3, IdlePc DEF BlocksInv
  <2> QED
    BY <1>2, <1>3, <2>2, Wraps
<1>4. CASE SetCaptureVolume(t)
  <2>1. call'[t].pc = "idle"
    BY <1>4, Ends, IdlePc
  <2> QED
    BY <1>1, <1>4, <2>1 DEF SetCaptureVolume, BlocksInv
<1>5. CASE FreeWrapper(t)
  <2>1. call'[t].pc = "idle"
    BY <1>5, Ends, IdlePc
  <2>2. \A w \in Wrappers \ {call[t].wrapper} : wrapper'[w] = wrapper[w]
    BY <1>5 DEF FreeWrapper, TypeOK
  <2>3. held' = held /\ held \subseteq Wrappers /\ InHand(t)
    BY <1>5 DEF FreeWrapper, TypeOK
  <2> QED
    BY <1>1, <2>1, <2>2, <2>3 DEF BlocksInv
<1>6. ASSUME NEW w \in Wrappers, CloseStream(t, w)
      PROVE  BlocksInv'
  <2>1. call'[t].pc = "amazonClose" /\ call'[t].wrapper = w
    BY <1>6, EntersOther
  <2> QED
    BY <1>1, <1>6, <2>1 DEF CloseStream, BlocksInv
<1> QED
  BY <1>2, <1>3, <1>4, <1>5, <1>6, HandsChange, MemoryChanges

-----------------------------------------------------------------------------
(* Owners.                                                                 *)

\* Who owns streams after a step that neither opens, closes, wraps nor frees.
LEMMA OwnersStay ==
  ASSUME TypeOK, NEW t \in Threads, Enter(t) \/ Proceed(t),
         wrapper' = wrapper,
         call[t].pc \notin {"wrap", "undo", "free"},
         call'[t].pc \notin {"wrap", "undo", "free"},
         NEW s \in Streams
  PROVE  OwnersOf(s)' = OwnersOf(s)
<1>1. \A u \in Threads \ {t} : call'[u] = call[u]
  BY Others
<1> QED
  BY <1>1 DEF OwnersOf

\* A new stream belongs to the call that opened it.
LEMMA OwnedWhenOpened ==
  ASSUME TypeOK, StreamsOwned, NEW t \in Threads, AmazonOpen(t)
  PROVE  StreamsOwned'
<1>1. Proceed(t) /\ wrapper' = wrapper /\ call[t].pc = "amazonOpen"
  BY DEF Proceed, AmazonOpen
<1>2. ASSUME stream' = stream, call'[t].pc \notin {"wrap", "undo", "free"}
      PROVE  StreamsOwned'
  BY <1>1, <1>2, OwnersStay DEF StreamsOwned
<1>3. ASSUME NEW s \in Streams, stream[s] = Closed, NEW x, x \in Stream,
             stream' = [stream EXCEPT ![s] = x],
             call'[t].pc = "wrap", call'[t].stream = s
      PROVE  StreamsOwned'
  <2>1. OwnersOf(s) = {} /\ stream'[s] # Closed
    BY <1>3, ClosedAssumption DEF StreamsOwned, TypeOK
  <2>2. \A u \in Threads \ {t} : call'[u] = call[u]
    BY <1>1, Others
  <2>3. OwnersOf(s)' = {t}
    BY <1>1, <1>3, <2>1, <2>2 DEF OwnersOf
  <2>4. ASSUME NEW r \in Streams \ {s}
        PROVE  OwnersOf(r)' = OwnersOf(r) /\ stream'[r] = stream[r]
    BY <1>1, <1>3, <2>2 DEF OwnersOf, TypeOK
  <2> QED
    BY <2>1, <2>3, <2>4 DEF StreamsOwned
<1>4. [kind |-> call[t].kind, source |-> call[t].source,
       config |-> call[t].config] \in Stream
  BY CallFunction DEF Call, Stream
<1> QED
  BY <1>2, <1>3, <1>4, OpensAmazon, IdlePc

\* The block of memory takes the stream over from the call.
LEMMA OwnedWhenWrapped ==
  ASSUME TypeOK, StreamsOwned, NewInv, BlocksInv, NEW t \in Threads, Wrap(t)
  PROVE  StreamsOwned'
<1> PICK s \in Streams : s = call[t].stream
  BY AloneNew DEF Wrap
<1>1. /\ stream[s] # Closed /\ OwnersOf(s) = {t}
      /\ stream' = stream /\ call[t].pc = "wrap"
  BY AloneNew DEF Wrap
<1>2. \A u \in Threads \ {t} : call'[u] = call[u]
  BY Others DEF Proceed
<1>3. ASSUME NEW w \in Wrappers, wrapper[w] = NoStream,
             wrapper' = [wrapper EXCEPT ![w] = s],
             call'[t].pc \in {"setVolume", "idle"}
      PROVE  StreamsOwned'
  <2>1. \A u \in Threads : ~(call'[u].pc = "free" /\ call'[u].wrapper = w)
    BY <1>2, <1>3 DEF BlocksInv, InHand
  <2>2. wrapper'[w] = s /\ \A v \in Wrappers \ {w} : wrapper'[v] = wrapper[v]
    BY <1>3 DEF TypeOK
  <2>3. OwnersOf(s)' = {w}
    BY <1>1, <1>2, <1>3, <2>1, <2>2, ConstantsAssumption DEF OwnersOf
  <2>4. ASSUME NEW r \in Streams \ {s}
        PROVE  OwnersOf(r)' = OwnersOf(r)
    BY <1>1, <1>2, <1>3, <2>2, ConstantsAssumption DEF OwnersOf
  <2> QED
    BY <1>1, <2>3, <2>4 DEF StreamsOwned
<1>4. ASSUME wrapper' = wrapper, call'[t].pc = "undo", call'[t].stream = s
      PROVE  StreamsOwned'
  <2>1. ASSUME NEW r \in Streams
        PROVE  OwnersOf(r)' = OwnersOf(r)
    BY <1>1, <1>2, <1>4 DEF OwnersOf
  <2> QED
    BY <1>1, <2>1 DEF StreamsOwned
<1> QED
  BY <1>3, <1>4, Wraps, IdlePc

\* A stream that could not be wrapped is closed again.
LEMMA OwnedWhenUndone ==
  ASSUME TypeOK, StreamsOwned, NewInv, NEW t \in Threads, UndoOpen(t)
  PROVE  StreamsOwned'
<1> PICK s \in Streams : s = call[t].stream
  BY AloneNew DEF UndoOpen
<1>1. OwnersOf(s) = {t} /\ call[t].pc = "undo"
  BY AloneNew DEF UndoOpen
<1>2. \A u \in Threads \ {t} : call'[u] = call[u]
  BY Others DEF Proceed
<1>3. /\ stream'[s] = Closed /\ wrapper' = wrapper
      /\ \A r \in Streams \ {s} : stream'[r] = stream[r]
  BY <1>1 DEF UndoOpen, TypeOK
<1>4. call'[t].pc = "idle"
  BY Ends, IdlePc
<1>5. OwnersOf(s)' = {}
  BY <1>1, <1>2, <1>3, <1>4, ConstantsAssumption DEF OwnersOf
<1>6. ASSUME NEW r \in Streams \ {s}
      PROVE  OwnersOf(r)' = OwnersOf(r)
  BY <1>2, <1>3, <1>4, <1>1 DEF OwnersOf
<1> QED
  BY <1>3, <1>5, <1>6 DEF StreamsOwned

\* A stream that is closed belongs to no block any more.
LEMMA OwnedWhenClosed ==
  ASSUME TypeOK, StreamsOwned, BlocksInv, NEW t \in Threads, AmazonClose(t)
  PROVE  StreamsOwned'
<1> PICK w \in Wrappers : w = call[t].wrapper
  BY DEF AmazonClose, BlocksInv, InHand
<1> PICK s \in Streams : s = wrapper[w]
  BY Alone DEF AmazonClose
<1>1. OwnersOf(s) = {w} /\ call[t].pc = "amazonClose"
  BY Alone DEF AmazonClose
<1>2. \A u \in Threads \ {t} : call'[u] = call[u]
  BY Others DEF Proceed
<1>3. /\ stream'[s] = Closed /\ wrapper' = wrapper
      /\ \A r \in Streams \ {s} : stream'[r] = stream[r]
  BY <1>1 DEF AmazonClose, TypeOK
<1>4. call'[t].pc = "free" /\ call'[t].wrapper = w
  BY Continues
<1>5. OwnersOf(s)' = {}
  BY <1>1, <1>2, <1>3, <1>4, ConstantsAssumption DEF OwnersOf
<1>6. ASSUME NEW r \in Streams \ {s}
      PROVE  OwnersOf(r)' = OwnersOf(r)
  BY <1>1, <1>2, <1>3, <1>4 DEF OwnersOf
<1> QED
  BY <1>3, <1>5, <1>6 DEF StreamsOwned

\* Nothing is lost with the memory that is given back.
LEMMA OwnedWhenFreed ==
  ASSUME TypeOK, StreamsOwned, BlocksInv, NEW t \in Threads, FreeWrapper(t)
  PROVE  StreamsOwned'
<1> PICK w \in Wrappers : w = call[t].wrapper
  BY DEF FreeWrapper, BlocksInv, InHand
<1>1. call[t].pc = "free" /\ stream' = stream
  BY DEF FreeWrapper
<1>2. \A u \in Threads \ {t} : call'[u] = call[u]
  BY Others DEF Proceed
<1>3. wrapper'[w] = NoStream /\ \A v \in Wrappers \ {w} : wrapper'[v] = wrapper[v]
  BY <1>1 DEF FreeWrapper, TypeOK
<1>4. call'[t].pc = "idle"
  BY Ends, IdlePc
<1>5. ASSUME NEW r \in Streams
      PROVE  OwnersOf(r)' = OwnersOf(r)
  BY <1>1, <1>2, <1>3, <1>4, ConstantsAssumption DEF OwnersOf
<1> QED
  BY <1>1, <1>5 DEF StreamsOwned

\* No step of a call leaves a stream without an owner or with two.
LEMMA OwnedKept ==
  ASSUME TypeOK, StreamsOwned, FitInv, NewInv, BlocksInv, NEW t \in Threads,
         Enter(t) \/ Proceed(t)
  PROVE  StreamsOwned'
<1>1. CASE AmazonOpen(t) \/ Wrap(t) \/ UndoOpen(t) \/ AmazonClose(t)
             \/ FreeWrapper(t)
  BY <1>1, OwnedWhenOpened, OwnedWhenWrapped, OwnedWhenUndone, OwnedWhenClosed,
     OwnedWhenFreed
<1>2. ASSUME ~(AmazonOpen(t) \/ Wrap(t) \/ UndoOpen(t) \/ AmazonClose(t)
                 \/ FreeWrapper(t))
      PROVE  StreamsOwned'
  <2>1. UNCHANGED <<stream, wrapper>>
    BY <1>2, StreamsChange, MemoryChanges DEF SetCaptureVolume, CloseStream
  <2>2. call[t].pc \notin {"wrap", "undo", "free"}
    BY <1>2, IdlePc
    DEF Enter, OpenDevice, OpenOutputStream, OpenInputStream, CloseStream,
        SetVoiceVolume, GetAudioPort, Forward, MayCall, Quiet, Proceed,
        OpenAmazonDevice, RetryOpenInput, GiveUp, SetCaptureVolume,
        AmazonSetVoiceVolume, NotifyVoiceVolume, Forwarded
  <2>3. call'[t].pc \notin {"wrap", "undo", "free"}
    <3>1. CASE Enter(t)
      BY <2>2, <3>1, EntersOpen, EntersOther, OpensInput DEF Enter
    <3>2. CASE Proceed(t)
      BY <1>2, <3>2, RetryIsIn, RetriesInput, Continues, Ends, IdlePc DEF Proceed
    <3> QED
      BY <3>1, <3>2
  <2> QED
    BY <2>1, <2>2, <2>3, OwnersStay DEF StreamsOwned
<1> QED
  BY <1>1, <1>2

-----------------------------------------------------------------------------
(* The client and the ASP.                                                 *)

\* A handle the client keeps goes on standing for the same stream.
LEMMA HandleStays ==
  ASSUME StreamInv, NEW t \in Threads, Enter(t) \/ Proceed(t),
         NEW w \in held, w \in held'
  PROVE  /\ wrapper'[w] = wrapper[w]
         /\ stream'[wrapper[w]] = stream[wrapper[w]]
<1> USE DEF StreamInv
<1>1. w \in Wrappers /\ wrapper[w] # NoStream
  BY DEF TypeOK, BlocksInv
<1>2. wrapper'[w] = wrapper[w]
  <2>1. CASE Wrap(t)
    BY <1>1, <2>1, Wraps DEF TypeOK
  <2>2. CASE FreeWrapper(t)
    BY <1>1, <2>2 DEF FreeWrapper, BlocksInv, InHand, TypeOK
  <2> QED
    BY <2>1, <2>2, MemoryChanges DEF SetCaptureVolume, CloseStream
<1>3. wrapper[w] \in Streams /\ w \in OwnersOf(wrapper[w])
  BY <1>1, Alone
<1>4. w # t /\ (AmazonClose(t) => w # call[t].wrapper)
  BY <1>1, ConstantsAssumption DEF AmazonClose, BlocksInv, InHand
<1>5. stream'[wrapper[w]] = stream[wrapper[w]]
  BY <1>1, <1>3, <1>4, NotTaken
<1> QED
  BY <1>2, <1>5

\* A new handle stands for a stream that is open and that was let in.
LEMMA HandleNew ==
  ASSUME StreamInv, NEW t \in Threads, Enter(t) \/ Proceed(t),
         NEW w \in held' \ held
  PROVE  /\ held' = held \cup {w} /\ stream' = stream
         /\ w \in Wrappers /\ wrapper'[w] \in Streams
         /\ stream[wrapper'[w]] \in Stream
         /\ \/ /\ Wrap(t)
               /\ stream[wrapper'[w]].source # "voice_communication"
            \/ SetCaptureVolume(t)
<1> USE DEF StreamInv
<1>1. CASE Wrap(t)
  <2>1. /\ stream' = stream /\ call[t].stream \in Streams
        /\ stream[call[t].stream] = [kind   |-> call[t].kind,
                                    source |-> call[t].source,
                                    config |-> call[t].config]
    BY <1>1 DEF Wrap, NewInv
  <2>2. stream[call[t].stream] \in Stream
    BY <1>1, <2>1, AloneNew DEF Wrap, TypeOK
  <2>3. /\ w \in Wrappers /\ held' = held \cup {w}
        /\ wrapper'[w] = call[t].stream
        /\ call[t].source # "voice_communication"
    BY <1>1, Wraps DEF TypeOK
  <2> QED
    BY <1>1, <2>1, <2>2, <2>3
<1>2. CASE SetCaptureVolume(t)
  <2>1. /\ w = call[t].wrapper /\ held' = held \cup {w}
        /\ UNCHANGED <<stream, wrapper>> /\ call[t].pc = "setVolume"
    BY <1>2 DEF SetCaptureVolume
  <2>2. w \in Wrappers
    BY <2>1 DEF BlocksInv, InHand
  <2> QED
    BY <1>2, <2>1, <2>2, Alone
<1> QED
  BY <1>1, <1>2, MemoryChanges DEF FreeWrapper, CloseStream

\* Who holds the client's lock around set_voice_volume.
InVolume(c) == c.pc \in {"amazonVolume", "notify"}

\* What the ASP has been told follows the volume, up to its rounding.
LEMMA VolumesKept ==
  ASSUME TypeOK, FitInv, SoundInv, NEW t \in Threads, Enter(t) \/ Proceed(t)
  PROVE  /\ \A u \in Threads :
              call'[u].pc = "notify" => call'[u].volume = voiceVolume'
         /\ \A u, v \in Threads :
              InVolume(call'[u]) /\ InVolume(call'[v]) => u = v
         /\ asp' = "absent" \/ Rounded'
              \/ \E u \in Threads : call'[u].pc = "notify"
<1>1. \A u \in Threads \ {t} : call'[u] = call[u]
  BY Others
<1>2. \A u, v \in Threads : InVolume(call[u]) /\ InVolume(call[v]) => u = v
  BY DEF SoundInv, InVolume
<1>3. asp = "absent" => asp' = "absent"
  BY AspStays DEF Next
<1>4. CASE AmazonSetVoiceVolume(t)
  BY <1>1, <1>2, <1>4, Continues DEF AmazonSetVoiceVolume, InVolume
<1>5. CASE NotifyVoiceVolume(t)
  <2>1. call'[t].pc = "idle" /\ voiceVolume' = voiceVolume
    BY <1>5, Ends, IdlePc DEF NotifyVoiceVolume
  <2>2. call[t].volume = voiceVolume /\ voiceVolume \in Nat
    BY <1>5 DEF NotifyVoiceVolume, SoundInv, TypeOK
  <2>3. asp' = "absent" \/ aspVoice' = Percent(voiceVolume)
    BY <1>5, <2>2 DEF NotifyVoiceVolume, Resolved, TypeOK
  <2>4. asp' = "absent" \/ Rounded'
    BY <2>1, <2>2, <2>3 DEF Percent, Rounded
  <2>5. \A u \in Threads : call'[u].pc # "notify"
    BY <1>1, <1>2, <1>5, <2>1 DEF NotifyVoiceVolume, InVolume
  <2> QED
    BY <1>1, <1>2, <2>1, <2>4, <2>5 DEF InVolume
<1>6. ASSUME ~AmazonSetVoiceVolume(t), ~NotifyVoiceVolume(t)
      PROVE  /\ UNCHANGED <<aspVoice, voiceVolume>>
             /\ call[t].pc # "notify" /\ call'[t].pc # "notify"
             /\ \/ ~InVolume(call'[t])
                \/ \A u \in Threads : ~InVolume(call[u])
  <2>1. CASE Enter(t)
    <3>1. UNCHANGED <<aspVoice, voiceVolume>>
      BY <2>1
      DEF Enter, OpenDevice, OpenOutputStream, OpenInputStream, EnterOpenInput,
          CloseStream, SetVoiceVolume, GetAudioPort, Forward, sound
    <3>2. call[t].pc = "idle"
      BY <2>1, IdlePc
      DEF Enter, OpenDevice, OpenOutputStream, OpenInputStream, CloseStream,
          SetVoiceVolume, GetAudioPort, Forward, MayCall, Quiet
    <3>3. ASSUME NEW v \in Volumes, SetVoiceVolume(t, v)
          PROVE  \A u \in Threads : ~InVolume(call[u])
      BY <3>3 DEF SetVoiceVolume, InVolume
    <3> QED
      BY <2>1, <3>1, <3>2, <3>3, EntersOpen, EntersOther, OpensInput
      DEF Enter, InVolume
  <2>2. CASE Proceed(t)
    <3>1. UNCHANGED <<aspVoice, voiceVolume>> /\ call[t].pc # "notify"
      BY <1>6, <2>2
      DEF Proceed, OpenAmazonDevice, RetryOpenInput, EnterOpenInput, GiveUp,
          AmazonOpen, Wrap, UndoOpen, SetCaptureVolume, AmazonClose,
          FreeWrapper, Forwarded, sound
    <3> QED
      BY <1>6, <2>2, <3>1, RetryIsIn, RetriesInput, OpensAmazon, Wraps,
         Continues, Ends, IdlePc
      DEF Proceed, InVolume
  <2> QED
    BY <2>1, <2>2
<1>7. ASSUME ~AmazonSetVoiceVolume(t), ~NotifyVoiceVolume(t)
      PROVE  /\ \A u \in Threads :
                  call'[u].pc = "notify" => call'[u].volume = voiceVolume'
             /\ \A u, v \in Threads :
                  InVolume(call'[u]) /\ InVolume(call'[v]) => u = v
             /\ asp' = "absent" \/ Rounded'
                  \/ \E u \in Threads : call'[u].pc = "notify"
  BY <1>1, <1>2, <1>3, <1>6, <1>7 DEF SoundInv, Rounded
<1> QED
  BY <1>4, <1>5, <1>7

\* The ASP is informed after any step of a call.
LEMMA SoundKept ==
  ASSUME StreamInv, SoundInv, NEW t \in Threads, Enter(t) \/ Proceed(t)
  PROVE  SoundInv'
<1> USE DEF StreamInv
<1>1. ASSUME asp' = "present", NEW w \in held',
             stream'[wrapper'[w]].source = "voice_communication"
      PROVE  aspVolume'
  <2>1. CASE w \in held
    <3>1. stream[wrapper[w]].source = "voice_communication"
      BY <1>1, <2>1, HandleStays
    <3>2. wrapper[w] \in Streams /\ stream[wrapper[w]] \in Stream
      BY <2>1, Alone DEF TypeOK
    <3>3. asp # "unresolved"
      BY <3>1, <3>2, ClosedAssumption DEF FitInv, Fit, Stream
    <3>4. asp = "present"
      BY <1>1, <3>3, AspStays DEF Next
    <3>5. aspVolume
      BY <2>1, <3>1, <3>4 DEF SoundInv
    <3>6. CASE SetCaptureVolume(t)
      BY <3>5, <3>6 DEF SetCaptureVolume
    <3>7. CASE ~SetCaptureVolume(t)
      <4>1. aspVolume' = aspVolume
        BY <3>7
        DEF Enter, OpenDevice, OpenOutputStream, OpenInputStream, EnterOpenInput,
            CloseStream, SetVoiceVolume, GetAudioPort, Forward, Proceed,
            OpenAmazonDevice, RetryOpenInput, GiveUp, AmazonOpen, Wrap, UndoOpen,
            AmazonClose, FreeWrapper, AmazonSetVoiceVolume, NotifyVoiceVolume,
            Forwarded, sound
      <4> QED
        BY <3>5, <4>1
    <3> QED
      BY <3>6, <3>7
  <2>2. CASE w \notin held
    <3>1. SetCaptureVolume(t)
      BY <1>1, <2>2, HandleNew
    <3> QED
      BY <1>1, <3>1 DEF SetCaptureVolume
  <2> QED
    BY <2>1, <2>2
<1> QED
  BY <1>1, VolumesKept DEF SoundInv, InVolume

\* A suggestion that was followed is not answered with another.
LEMMA RetryKept ==
  ASSUME TypeOK, FitInv, OneRetrySuffices, NEW t \in Threads,
         Enter(t) \/ Proceed(t)
  PROVE  OneRetrySuffices'
<1>1. ASSUME call'[t].pc = "refused"
      PROVE  call'[t].kind = "out"
  <2>1. CASE RetryOpenInput(t)
    <3>1. FitCall(call[t], asp) /\ call[t].pc = "retry" /\ call[t].kind = "in"
      BY <2>1, RetryIsIn DEF FitInv, RetryOpenInput
    <3>2. ~(AspRunsCapture(call[t].source) /\ call[t].config # AspConfig)
      BY <3>1 DEF FitCall, Fit, AspRunsCapture, Resolved
    <3> QED
      BY <1>1, <2>1, <3>1, <3>2, RetriesInput
  <2>2. CASE AmazonOpen(t)
    <3>1. call[t].retried => call[t].config \in AmazonConfigs
      BY <2>2 DEF AmazonOpen, FitInv, FitCall
    <3> QED
      BY <1>1, <2>2, <3>1, OpensAmazon, IdlePc
  <2>3. CASE GetAudioPort(t) /\ call' = call
    BY <1>1, <2>3 DEF OneRetrySuffices
  <2>4. CASE Enter(t)
    BY <1>1, <2>3, <2>4, EntersOpen, EntersOther, OpensInput DEF Enter
  <2>5. CASE Proceed(t)
    BY <1>1, <2>1, <2>2, <2>5, Wraps, Continues, Ends, IdlePc DEF Proceed
  <2> QED
    BY <2>4, <2>5
<1> QED
  BY <1>1, Others DEF OneRetrySuffices

-----------------------------------------------------------------------------
(* The theorems.                                                           *)

\* Nothing is open at first.
LEMMA InitDeviceIInv == Init => DeviceIInv
<1> SUFFICES ASSUME Init
             PROVE  DeviceIInv
  OBVIOUS
<1>1. \A t \in Threads : call[t] = Idle /\ call[t].pc = "idle"
  BY IdlePc DEF Init
<1>2. TypeOK
  BY IdleTyped DEF Init, TypeOK
<1>3. DeviceInv /\ MethodInv /\ FitInv /\ NewInv /\ BlocksInv
  BY <1>1
  DEF Init, DeviceInv, Quiet, MethodInv, MethodThere, FitInv, FitCall, NewInv,
      BlocksInv, InHand
<1>4. StreamsOwned
  <2>1. \A s \in Streams : OwnersOf(s) = {} /\ stream[s] = Closed
    BY <1>1, ConstantsAssumption DEF Init, OwnersOf
  <2> QED
    BY <2>1 DEF StreamsOwned
<1>5. SoundInv /\ OneRetrySuffices
  BY <1>1 DEF Init, SoundInv, Rounded, OneRetrySuffices
<1> QED
  BY <1>2, <1>3, <1>4, <1>5 DEF DeviceIInv, StreamInv

\* Every step of the wrapper and its client keeps the invariant.
LEMMA NextDeviceIInv == DeviceIInv /\ [Next]_vars => DeviceIInv'
<1> SUFFICES ASSUME DeviceIInv, [Next]_vars
             PROVE  DeviceIInv'
  OBVIOUS
<1> USE DEF DeviceIInv, StreamInv
<1>1. ASSUME NEW t \in Threads, Enter(t) \/ Proceed(t)
      PROVE  DeviceIInv'
  <2>1. TypeOK'
    BY <1>1, EnterTyped, ProceedTyped
  <2>2. DeviceInv' /\ MethodInv'
    BY <1>1, DeviceKept, MethodKept
  <2>3. FitInv' /\ NewInv' /\ BlocksInv' /\ StreamsOwned'
    BY <1>1, FitKept, NewKept, BlocksKept, OwnedKept
  <2>4. SoundInv' /\ OneRetrySuffices'
    BY <1>1, SoundKept, RetryKept
  <2> QED
    BY <2>1, <2>2, <2>3, <2>4
<1>2. CASE CloseDevice
  <2>1. \A t \in Threads : call[t] = Idle /\ call[t].pc = "idle"
    BY <1>2, IdlePc DEF CloseDevice, Quiet
  <2>2. /\ UNCHANGED <<call, stream, wrapper, held, asp, aspVoice, aspVolume,
                      voiceVolume, library>>
        /\ context' = FALSE /\ amazon' = {} /\ table' = {} /\ held = {}
    BY <1>2 DEF CloseDevice, memory, sound
  <2>3. TypeOK'
    BY <2>2 DEF TypeOK
  <2>4. DeviceInv' /\ MethodInv'
    BY <2>1, <2>2 DEF DeviceInv, Quiet, MethodInv, MethodThere
  <2>5. FitInv' /\ NewInv' /\ BlocksInv'
    BY <2>2 DEF FitInv, NewInv, BlocksInv, InHand
  <2>6. StreamsOwned'
    BY <2>2 DEF StreamsOwned, OwnersOf
  <2>7. SoundInv' /\ OneRetrySuffices'
    BY <2>2 DEF SoundInv, Rounded, OneRetrySuffices
  <2> QED
    BY <2>3, <2>4, <2>5, <2>6, <2>7
<1>3. CASE LoadLibrary \/ UNCHANGED vars
  <2>1. /\ UNCHANGED <<call, stream, wrapper, held, asp, aspVoice, aspVolume,
                      voiceVolume, context, amazon, table>>
        /\ library' \in {"missing", "loaded", "unusable"}
    BY <1>3 DEF LoadLibrary, vars, device, memory, sound, TypeOK
  <2>2. TypeOK'
    BY <2>1 DEF TypeOK
  <2>3. DeviceInv' /\ MethodInv'
    BY <2>1 DEF DeviceInv, Quiet, MethodInv, MethodThere
  <2>4. FitInv' /\ NewInv' /\ BlocksInv'
    BY <2>1 DEF FitInv, NewInv, BlocksInv, InHand
  <2>5. StreamsOwned'
    BY <2>1 DEF StreamsOwned, OwnersOf
  <2>6. SoundInv' /\ OneRetrySuffices'
    BY <2>1 DEF SoundInv, Rounded, OneRetrySuffices
  <2> QED
    BY <2>2, <2>3, <2>4, <2>5, <2>6
<1> QED
  BY <1>1, <1>2, <1>3 DEF Next

\* What is known of every call in progress, of every block of memory and of the
\* decision about the ASP holds however the calls of any number of threads are
\* interleaved.
THEOREM DeviceInvariant == Spec => []DeviceIInv
BY InitDeviceIInv, NextDeviceIInv, PTL DEF Spec

\* Every variable of the wrapper has its type: in particular a handle the client
\* closes leads to a stream whose kind says which method closes it.
THEOREM DeviceTyped == Spec => []TypeOK
<1>1. DeviceIInv => TypeOK
  BY DEF DeviceIInv, StreamInv
<1> QED
  BY <1>1, DeviceInvariant, PTL

\* However the steps of any number of opens and closes are interleaved, and
\* whichever of them fail, every Amazon stream has exactly one owner.
THEOREM EveryStreamOwned == Spec => []StreamsOwned
<1>1. DeviceIInv => StreamsOwned
  BY DEF DeviceIInv, StreamInv
<1> QED
  BY <1>1, DeviceInvariant, PTL

\* Whatever methods an Amazon device lacks, the wrapper never calls one of them.
THEOREM NullNeverCalled == Spec => []NoNullCall
<1>1. DeviceIInv => NoNullCall
  <2> SUFFICES ASSUME DeviceIInv, NEW t \in Threads
               PROVE  Calling(call[t]) \subseteq amazon
    BY DEF NoNullCall
  <2>1. MethodThere(call[t])
    BY DEF DeviceIInv, StreamInv, MethodInv
  <2>2. CASE call[t].pc = "undo"
    <3>1. call[t].kind \in {"in", "out"}
      BY CallFunction DEF DeviceIInv, StreamInv, Call
    <3>2. CloseMethod(call[t].kind) \in amazon
      BY <2>1, <2>2, <3>1, ConstantsAssumption
      DEF MethodThere, DeviceIInv, StreamInv, DeviceInv, OpenMethod, CloseMethod
    <3> QED
      BY <2>2, <3>2 DEF Calling
  <2>3. CASE call[t].pc # "undo"
    BY <2>1, <2>3 DEF MethodThere, Calling
  <2> QED
    BY <2>2, <2>3
<1> QED
  BY <1>1, DeviceInvariant, PTL

\* Whatever the ASP and the Amazon device demand, a client of an input that
\* follows one suggestion is not refused with another.
THEOREM OneRetryEnough == Spec => []OneRetrySuffices
<1>1. DeviceIInv => OneRetrySuffices
  BY DEF DeviceIInv
<1> QED
  BY <1>1, DeviceInvariant, PTL

\* An ASP the wrapper knows of has been told of the volumes, for any volumes and
\* whenever its library appears.
THEOREM AspAlwaysInformed == Spec => []AspInformed
<1>1. DeviceIInv => AspInformed
  BY DEF DeviceIInv, SoundInv, Rounded, AspInformed
<1> QED
  BY <1>1, DeviceInvariant, PTL

\* The answer about the ASP is given once: however many threads ask, and whenever
\* its library appears, none of them changes what another has been told.
THEOREM AspIsDecidedOnce == Spec => [][asp = "unresolved"]_asp
<1>1. DeviceIInv /\ [Next]_vars => [asp = "unresolved"]_asp
  BY AspStays DEF DeviceIInv, StreamInv
<1> QED
  BY <1>1, DeviceInvariant, PTL DEF Spec

\* An input the client has been given is one that the ASP can capture, whether
\* another thread was the one to find the ASP, before or after this one asked.
InputsFit ==
  \A w \in held : stream[wrapper[w]].kind = "in" =>
    /\ asp # "unresolved"
    /\ asp = "present" /\ stream[wrapper[w]].source # "mic"
         => stream[wrapper[w]].config = AspConfig

\* No interleaving of opens lets the client have an input past the ASP.
THEOREM InputsAlwaysFit == Spec => []InputsFit
<1>1. DeviceIInv => InputsFit
  <2> SUFFICES ASSUME DeviceIInv, NEW w \in held
               PROVE  Fit(stream[wrapper[w]], asp)
    BY DEF InputsFit, Fit
  <2>1. stream[wrapper[w]] \in Stream /\ wrapper[w] \in Streams
    <3>1. w \in Wrappers
      BY DEF DeviceIInv, StreamInv, TypeOK
    <3> QED
      BY <3>1, Alone DEF DeviceIInv, StreamInv
  <2> QED
    BY <2>1, ClosedAssumption DEF DeviceIInv, StreamInv, FitInv
<1> QED
  BY <1>1, DeviceInvariant, PTL

-----------------------------------------------------------------------------
(* The wrapper implements StreamService.                                   *)

OpenOf(w) == IF w \in held THEN stream[wrapper[w]] ELSE Closed

\* The client's view of the memory, handle by handle.
LEMMA OpenStreamsIs == OpenStreams = [w \in Wrappers |-> OpenOf(w)]
BY DEF OpenStreams, OpenOf

\* What a handle stands for while the client keeps it, or while it has it not.
LEMMA HandlesStay ==
  ASSUME DeviceIInv, NEW t \in Threads, Enter(t) \/ Proceed(t),
         NEW w \in Wrappers, w \in held <=> w \in held'
  PROVE  OpenOf(w)' = OpenOf(w)
BY HandleStays DEF DeviceIInv, OpenOf

\* A stream behind a handle, old or new, is one that the service may open.
LEMMA HandlesFit ==
  ASSUME DeviceIInv, NEW x \in Stream, NEW s \in Streams, stream[s] = x
  PROVE  /\ x # Closed
         /\ x \in [kind : {"in", "out"}, source : Sources, config : AmazonConfigs]
         /\ x \in [kind : {"in"}, source : Sources, config : AmazonConfigs]
              => asp # "unresolved"
         /\ asp = "present" =>
              x \notin [kind : {"in"}, source : Sources \ {"mic"},
                       config : AmazonConfigs \ {AspConfig}]
<1>1. x # Closed
  BY ClosedAssumption
<1>2. Fit(x, asp) /\ x.config \in AmazonConfigs
  BY <1>1 DEF DeviceIInv, StreamInv, FitInv
<1>3. x \in [kind : {"in", "out"}, source : Sources, config : AmazonConfigs]
  BY <1>2 DEF Stream
<1>4. x \in [kind : {"in"}, source : Sources, config : AmazonConfigs]
        => asp # "unresolved"
  BY <1>2 DEF Fit
<1>5. asp = "present" =>
        x \notin [kind : {"in"}, source : Sources \ {"mic"},
                 config : AmazonConfigs \ {AspConfig}]
  BY <1>2 DEF Fit
<1> QED
  BY <1>1, <1>3, <1>4, <1>5

\* A step in which the client gets a handle opens a stream for the service.
LEMMA NewHandleOpens ==
  ASSUME DeviceIInv, NEW t \in Threads, Enter(t) \/ Proceed(t),
         NEW w \in held' \ held
  PROVE  Service!Next
<1> USE DEF DeviceIInv, StreamInv
<1>1. /\ held' = held \cup {w} /\ w \in Wrappers
      /\ wrapper'[w] \in Streams /\ stream' = stream
      /\ stream[wrapper'[w]] \in Stream
  BY HandleNew
<1> PICK x \in Stream : x = stream[wrapper'[w]]
  BY <1>1
<1>2. OpenOf(w) = Closed /\ OpenOf(w)' = x
  BY <1>1 DEF OpenOf
<1>3. \A v \in Wrappers \ {w} : OpenOf(v)' = OpenOf(v)
  BY <1>1, HandlesStay
<1>4. OpenStreams' = [OpenStreams EXCEPT ![w] = x]
  <2>1. OpenStreams' = [v \in Wrappers |-> OpenOf(v)']
    BY DEF OpenStreams, OpenOf
  <2>2. [OpenStreams EXCEPT ![w] = x]
          = [v \in Wrappers |-> IF v = w THEN x ELSE OpenOf(v)]
    BY OpenStreamsIs
  <2>3. \A v \in Wrappers : OpenOf(v)' = IF v = w THEN x ELSE OpenOf(v)
    BY <1>2, <1>3
  <2> QED
    BY <2>1, <2>2, <2>3
<1>5. asp' = asp
  <2>1. Wrap(t) => asp' = asp
    BY DEF Wrap, sound
  <2>2. ASSUME SetCaptureVolume(t)
        PROVE  asp' = asp
    <3>1. asp' = Resolved
      BY <2>2 DEF SetCaptureVolume
    <3> QED
      BY <2>2, <3>1 DEF SetCaptureVolume, FitInv, FitCall, Resolved
  <2> QED
    BY <2>1, <2>2, HandleNew
<1>6. OpenStreams[w] = Closed
  BY <1>1, <1>2, OpenStreamsIs
<1>7. Service!Open(w, x)
  BY <1>1, <1>4, <1>5, <1>6, HandlesFit DEF Service!Open
<1> QED
  BY <1>1, <1>7, HandlesFit DEF Service!Next

\* A step in which the client gives a handle up closes it for the service.
LEMMA LostHandleCloses ==
  ASSUME DeviceIInv, NEW t \in Threads, Enter(t) \/ Proceed(t),
         NEW w \in held \ held'
  PROVE  Service!Next
<1>1. ASSUME NEW v \in Wrappers, CloseStream(t, v)
      PROVE  /\ v = w /\ held' = held \ {w} /\ asp' = asp /\ w \in Wrappers
  BY <1>1 DEF CloseStream, sound
<1>2. /\ held' = held \ {w} /\ asp' = asp /\ w \in Wrappers
  <2>1. Wrap(t) => held \subseteq held'
    BY Wraps DEF DeviceIInv, StreamInv
  <2> QED
    BY <1>1, <2>1, MemoryChanges
    DEF DeviceIInv, StreamInv, SetCaptureVolume, FreeWrapper
<1>3. OpenOf(w)' = Closed
  BY <1>2 DEF OpenOf
<1>4. \A v \in Wrappers \ {w} : OpenOf(v)' = OpenOf(v)
  BY <1>2, HandlesStay
<1>5. OpenStreams' = [OpenStreams EXCEPT ![w] = Closed]
  <2>1. OpenStreams' = [v \in Wrappers |-> OpenOf(v)']
    BY DEF OpenStreams, OpenOf
  <2>2. [OpenStreams EXCEPT ![w] = Closed]
          = [v \in Wrappers |-> IF v = w THEN Closed ELSE OpenOf(v)]
    BY OpenStreamsIs
  <2>3. \A v \in Wrappers : OpenOf(v)' = IF v = w THEN Closed ELSE OpenOf(v)
    BY <1>3, <1>4
  <2> QED
    BY <2>1, <2>2, <2>3
<1>6. OpenStreams[w] # Closed
  <2>1. stream[wrapper[w]] \in Stream
    BY <1>2, Alone DEF DeviceIInv, StreamInv
  <2> QED
    BY <1>2, <2>1, OpenStreamsIs, ClosedAssumption DEF OpenOf
<1>7. Service!Close(w)
  BY <1>2, <1>5, <1>6 DEF Service!Close
<1> QED
  BY <1>2, <1>7 DEF Service!Next

\* Any other step is one in which the ASP is decided on, or none at all.
LEMMA OtherStepsResolve ==
  ASSUME DeviceIInv, [Next]_vars, OpenStreams' = OpenStreams
  PROVE  [Service!Next]_(Service!vars)
<1>1. asp' \in {"unresolved", "present", "absent"}
  BY NextDeviceIInv DEF DeviceIInv, StreamInv, TypeOK
<1>2. asp' = asp \/ Service!Resolve
  BY <1>1, AspStays DEF Service!Resolve, DeviceIInv, StreamInv, TypeOK
<1> QED
  BY <1>2 DEF Service!Next, Service!vars

\* Every step is one step of StreamService or none.
LEMMA StepImplements ==
  DeviceIInv /\ [Next]_vars => [Service!Next]_(Service!vars)
<1> SUFFICES ASSUME DeviceIInv, [Next]_vars
             PROVE  [Service!Next]_(Service!vars)
  OBVIOUS
<1> USE DEF DeviceIInv, StreamInv
<1>1. ASSUME NEW t \in Threads, Enter(t) \/ Proceed(t)
      PROVE  [Service!Next]_(Service!vars)
  <2>1. CASE held \ held' # {}
    BY <1>1, <2>1, LostHandleCloses
  <2>2. CASE held' \ held # {}
    BY <1>1, <2>2, NewHandleOpens
  <2>3. CASE held' = held
    <3>1. \A w \in Wrappers : OpenOf(w)' = OpenOf(w)
      BY <1>1, <2>3, HandlesStay
    <3>2. OpenStreams' = [w \in Wrappers |-> OpenOf(w)']
      BY DEF OpenStreams, OpenOf
    <3>3. OpenStreams' = OpenStreams
      BY <3>1, <3>2, OpenStreamsIs
    <3> QED
      BY <3>3, OtherStepsResolve
  <2> QED
    BY <2>1, <2>2, <2>3
<1>2. CASE CloseDevice \/ LoadLibrary \/ UNCHANGED vars
  <2>1. UNCHANGED <<stream, wrapper, held>>
    BY <1>2 DEF CloseDevice, LoadLibrary, vars, memory
  <2>2. OpenStreams' = OpenStreams
    BY <2>1 DEF OpenStreams
  <2> QED
    BY <2>2, OtherStepsResolve
<1> QED
  BY <1>1, <1>2 DEF Next

\* To the client an open and a close are one step each, whatever happens in
\* between on other threads: handles stand for the streams they were opened for
\* until they are closed, and input is opened under one decision about the ASP.
THEOREM DeviceImplementsService == Spec => ImplementsService
<1>1. Init => Service!Init
  BY DEF Init, Service!Init, OpenStreams
<1> QED
  BY <1>1, StepImplements, DeviceInvariant, PTL
  DEF Spec, ImplementsService, Service!Spec
=============================================================================
