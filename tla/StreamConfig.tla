----------------------------- MODULE StreamConfig -----------------------------
(***************************************************************************)
(* What becomes of a stream configuration on its way through the wrapper   *)
(* (audio/hal/audio_hw.cpp): the client's structure is copied to one in    *)
(* the Amazon device's layout, that device changes it to what it can do,   *)
(* and part of it is copied back, into the structure the client will use   *)
(* for its next attempt.                                                   *)
(***************************************************************************)
EXTENDS Naturals

CONSTANTS
  Basics,        \* rate, mask, format and frame count a client may ask for
  AmazonBasics,  \* what the Amazon device can do
  Offloads,      \* descriptions of compressed streams
  Unset,         \* the Amazon device's structure before the first call
  MaxTries       \* how often a client asks

\* The fields of audio_offload_info_t that Amazon's layout has too, besides its
\* version and size.
OffloadFields ==
  {"sample_rate", "channel_mask", "format", "stream_type", "bit_rate",
   "duration_us", "has_video", "is_streaming", "bit_width",
   "offload_buffer_size", "usage"}

Basic == [sample_rate : {16000, 48000}, channel_mask : {"mono", "stereo"},
          format : {"pcm16", "float"}, frame_count : Nat]

\* layout stands for version and size.
Offload == [layout : {"client"}, fields : [OffloadFields -> Nat], newer : Nat]

AmazonOffload == [layout : {"amazon"}, fields : [OffloadFields -> Nat]]

ASSUME ConstantsAssumption ==
  /\ Basics \subseteq Basic /\ AmazonBasics \subseteq Basic
  /\ Offloads \subseteq Offload
  /\ MaxTries \in Nat

VARIABLES
  config,  \* the client's structure
  asked,   \* history: what was in it when the current or last call was made
  info,    \* the description of its stream, as the client filled it in
  amazon,  \* the Amazon device's structure in the current or last call
  pc,      \* the next step of the call, or how the last one ended
  method,  \* the method of the current or last call
  asp,     \* does an ASP run capture?
  tries    \* calls so far

vars == <<config, asked, info, amazon, pc, method, asp, tries>>

-----------------------------------------------------------------------------
(* The conversions.                                                        *)

\* Mutant: the last line is missing.
ToAmazonConfigNoUsage(c) ==
  [basic   |-> c.basic,
   offload |-> [layout |-> "amazon",
                fields |-> [c.offload.fields EXCEPT !["usage"] = 0]]]

\* Mutant: the frame count is not copied.
ToAmazonConfigNoFrames(c) ==
  [basic   |-> [c.basic EXCEPT !.frame_count = 0],
   offload |-> [layout |-> "amazon", fields |-> c.offload.fields]]

ToAmazonConfig(c) ==
  [basic   |-> c.basic,
   offload |-> [layout |-> "amazon", fields |-> c.offload.fields]]

\* Mutant: the description of the stream is copied back, too.
FromAmazonConfigWhole(a, c) ==
  [basic   |-> a.basic,
   offload |-> [c.offload EXCEPT !.fields = a.offload.fields]]

FromAmazonConfig(a, c) == [c EXCEPT !.basic = a.basic]

\* What the ASP can capture, with the rest of what was asked for.
AspSuggestion(c) ==
  [c EXCEPT !.basic = [@ EXCEPT !.sample_rate  = 16000,
                                !.channel_mask = "mono",
                                !.format       = "pcm16"]]

-----------------------------------------------------------------------------
(* adev_get_input_buffer_size, adev_open_output_stream and                 *)
(* adev_open_input_stream.  A client that is refused may ask again with    *)
(* what it then finds in its structure.                                    *)

Enter(m) ==
  /\ pc \in {"filled", "refused", "sized"}
  /\ tries < MaxTries
  /\ tries' = tries + 1
  /\ method' = m
  /\ asked' = config
  /\ UNCHANGED <<info, asp>>

ToAmazon ==
  /\ amazon' = ToAmazonConfig(config)
  /\ pc' = "amazon"
  /\ UNCHANGED config

GetInputBufferSize == Enter("get_input_buffer_size") /\ ToAmazon

OpenOutputStream == Enter("open_output_stream") /\ ToAmazon

\* "voice" is a source that asp_runs_capture has in mind.
OpenInputStream(source) ==
  /\ Enter("open_input_stream")
  /\ IF asp /\ source = "voice" /\ config # AspSuggestion(config)
     THEN /\ config' = AspSuggestion(config)
          /\ pc' = "refused"
          /\ UNCHANGED amazon
     ELSE ToAmazon

AmazonSizes ==
  /\ pc = "amazon" /\ method = "get_input_buffer_size"
  /\ pc' = "sized"
  /\ UNCHANGED <<config, asked, info, amazon, method, asp, tries>>

\* The Amazon device says what it has opened, or refuses and says what it would,
\* or fails and leaves what it was asked for; what it does with the description
\* of the stream is its own affair.
AmazonOpens ==
  /\ pc = "amazon" /\ method # "get_input_buffer_size"
  /\ pc' \in {"opened", "rejected"}
  /\ \E basic \in AmazonBasics \cup {amazon.basic}, offload \in {amazon.offload,
         [amazon.offload EXCEPT !.fields = [f \in OffloadFields |-> 0]]} :
       /\ pc' = "opened" => basic \in AmazonBasics
       /\ amazon' = [basic |-> basic, offload |-> offload]
  /\ UNCHANGED <<config, asked, info, method, asp, tries>>

\* from_amazon_config stands in front of the check of rc; there may be no memory
\* for the client's stream.
Return ==
  /\ pc \in {"opened", "rejected"}
  /\ config' = FromAmazonConfig(amazon, config)
  /\ pc' \in IF pc = "opened" THEN {"done", "refused"} ELSE {"refused"}
  /\ UNCHANGED <<asked, info, amazon, method, asp, tries>>

-----------------------------------------------------------------------------

Init ==
  /\ config \in [basic : Basics, offload : Offloads]
  /\ asked = config
  /\ info = config.offload
  /\ amazon = Unset
  /\ pc = "filled"
  /\ method = "none"
  /\ asp \in BOOLEAN
  /\ tries = 0

Next ==
  \/ GetInputBufferSize
  \/ OpenOutputStream
  \/ \E source \in {"voice", "mic"} : OpenInputStream(source)
  \/ AmazonSizes
  \/ AmazonOpens
  \/ Return

Spec == Init /\ [][Next]_vars

-----------------------------------------------------------------------------
(* Properties.                                                             *)

\* The description of a compressed stream is the client's: however many attempts
\* are refused, by whom and with what suggestion, the next starts with all of it.
InfoKept == config.offload = info

\* The Amazon device is asked for exactly what the client asks for, in whatever
\* attempt and after whatever suggestion, and in a description that calls itself
\* neither longer nor newer than its own layout.
AmazonTold ==
  pc = "amazon" =>
    /\ amazon.offload \in AmazonOffload
    /\ amazon.basic = config.basic
    /\ \A f \in OffloadFields : amazon.offload.fields[f] = info.fields[f]

\* A refused client finds a configuration that whoever refused can do, the Amazon
\* device or the ASP, or just what it asked for: an error that suggests nothing
\* does not spoil the next attempt, and there is never a mixture, neither of two
\* answers nor of a request and what the Amazon layout makes of it.
SuggestionUsable ==
  pc = "refused" =>
    \/ config = asked
    \/ config.basic \in AmazonBasics
    \/ /\ method = "open_input_stream" /\ asp
       /\ config = AspSuggestion(asked)
=============================================================================
