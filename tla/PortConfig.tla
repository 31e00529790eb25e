----------------------------- MODULE PortConfig -----------------------------
(***************************************************************************)
(* The conversions between the audio framework's ports and those of the    *)
(* Amazon device, whose structures are from before some fields were added  *)
(* (audio/hal/audio_hw.cpp, audio_port_config.h, audio_amazon.h), and the  *)
(* three methods that use them.                                            *)
(*                                                                         *)
(* A structure is a record: "common" stands for all the fields in front of *)
(* the first difference, copied by one memcpy, "ext" for what both layouts *)
(* have in the member of the union that goes with the type, "newer" for    *)
(* what only the framework has there.  create_audio_patch fills two arrays *)
(* on the stack, whose elements are garbage until they are written.        *)
(***************************************************************************)
EXTENDS Naturals, Sequences

CONSTANTS
  Values,     \* contents of fields
  Zero,       \* the content that memset leaves
  Garbage,    \* what is in an array element nobody has written
  PortsMax,   \* AUDIO_PATCH_PORTS_MAX
  Patchable,  \* port configurations the framework may patch or set
  Askable     \* ports the framework may ask for

Types == {"none", "device", "mix", "session"}

\* audio_port_config: flags sits between gain and ext.
Config ==
  [common : Values, type : Types, flags : Values, ext : Values, newer : Values]

\* amazon_audio_port_config; without a type the union is all zero.
AmazonConfig ==
  {c \in [common : Values, type : Types, ext : Values] :
     c.type = "none" => c.ext = Zero}

\* audio_port.
Port ==
  [common : Values, type : Types, ext : Values, newer : Values,
   active : Config]

\* v28_audio_port.
AmazonPort ==
  {p \in [common : Values, type : Types, ext : Values, active : AmazonConfig] :
     p.type = "none" => p.ext = Zero}

ASSUME ConstantsAssumption ==
  /\ Zero \in Values
  /\ Garbage \notin AmazonConfig
  /\ PortsMax \in Nat
  /\ Patchable \subseteq Config
  /\ Askable \subseteq Port

-----------------------------------------------------------------------------
(* The conversions.                                                        *)

\* The switch over the type: the default copies nothing.
Ext(x) == IF x.type \in {"device", "mix", "session"} THEN x.ext ELSE Zero

\* Mutant: the case of a session is missing.
ToAmazonConfigNoSession(c) ==
  [common |-> c.common, type |-> c.type,
   ext |-> IF c.type \in {"device", "mix"} THEN c.ext ELSE Zero]

ToAmazonConfig(c) ==
  [common |-> c.common, type |-> c.type, ext |-> Ext(c)]

FromAmazonConfig(a) ==
  [common |-> a.common, type |-> a.type, flags |-> Zero, ext |-> Ext(a),
   newer |-> Zero]

ToAmazonPort(p) ==
  [common |-> p.common, type |-> p.type, ext |-> Ext(p),
   active |-> ToAmazonConfig(p.active)]

FromAmazonPort(a) ==
  [common |-> a.common, type |-> a.type, ext |-> Ext(a), newer |-> Zero,
   active |-> FromAmazonConfig(a.active)]

-----------------------------------------------------------------------------

VARIABLES
  pc,       \* what the current call does next
  sources,  \* arguments of create_audio_patch
  sinks,
  i,        \* its loop counter
  amazonSources,  \* its arrays
  amazonSinks,
  config,   \* the argument of set_audio_port_config
  amazonConfig,
  asked,    \* the argument of get_audio_port as the framework passed it
  port,     \* and as it is now
  amazonPort,
  rc        \* did the Amazon device return an error?

patch == <<sources, sinks, i, amazonSources, amazonSinks>>
set   == <<config, amazonConfig>>
get   == <<asked, port, amazonPort, rc>>
vars  == <<pc, patch, set, get>>

Slots == 0 .. PortsMax - 1

NoConfig == [common |-> Zero, type |-> "none", flags |-> Zero, ext |-> Zero,
             newer |-> Zero]

NoPort == [common |-> Zero, type |-> "none", ext |-> Zero, newer |-> Zero,
           active |-> NoConfig]

-----------------------------------------------------------------------------
(* adev_create_audio_patch.                                                *)

\* Mutant: the counts are not compared with the size of the arrays.
FitsAlways(list) == TRUE

Fits(list) == Len(list) <= PortsMax

CreateAudioPatch(from, to) ==
  /\ pc = "idle"
  /\ Fits(from)
  /\ Fits(to)
  /\ pc' = "sources"
  /\ sources' = from
  /\ sinks' = to
  /\ i' = 0
  /\ amazonSources' = [s \in Slots |-> Garbage]
  /\ amazonSinks' = [s \in Slots |-> Garbage]
  /\ UNCHANGED <<set, get>>

ConvertSource ==
  /\ pc = "sources"
  /\ IF i < Len(sources)
     THEN /\ amazonSources' = [amazonSources EXCEPT
                                 ![i] = ToAmazonConfig(sources[i + 1])]
          /\ i' = i + 1
          /\ UNCHANGED pc
     ELSE /\ pc' = "sinks"
          /\ i' = 0
          /\ UNCHANGED amazonSources
  /\ UNCHANGED <<sources, sinks, amazonSinks, set, get>>

ConvertSink ==
  /\ pc = "sinks"
  /\ IF i < Len(sinks)
     THEN /\ amazonSinks' = [amazonSinks EXCEPT
                               ![i] = ToAmazonConfig(sinks[i + 1])]
          /\ i' = i + 1
          /\ UNCHANGED pc
     ELSE /\ pc' = "patched"
          /\ UNCHANGED <<i, amazonSinks>>
  /\ UNCHANGED <<sources, sinks, amazonSources, set, get>>

-----------------------------------------------------------------------------
(* adev_set_audio_port_config and adev_get_audio_port.                     *)

SetAudioPortConfig(c) ==
  /\ pc = "idle"
  /\ pc' = "configured"
  /\ config' = c
  /\ amazonConfig' = ToAmazonConfig(c)
  /\ UNCHANGED <<patch, get>>

GetAudioPort(p) ==
  /\ pc = "idle"
  /\ pc' = "getPort"
  /\ asked' = p
  /\ port' = p
  /\ amazonPort' = ToAmazonPort(p)
  /\ UNCHANGED <<patch, set, rc>>

\* Mutant: the answer is copied back after an error, too.
CopiedBackAlways(failed) == TRUE

CopiedBack(failed) == ~failed

\* The Amazon device may have written half an answer before it fails.
AmazonGetAudioPort ==
  /\ pc = "getPort"
  /\ pc' = "gotPort"
  /\ amazonPort' \in AmazonPort
  /\ rc' \in BOOLEAN
  /\ port' = IF CopiedBack(rc') THEN FromAmazonPort(amazonPort') ELSE port
  /\ UNCHANGED <<patch, set, asked>>

\* Back to the framework; the arrays go with the stack frame.
Return ==
  /\ pc \in {"patched", "configured", "gotPort"}
  /\ pc' = "idle"
  /\ sources' = <<>>
  /\ sinks' = <<>>
  /\ i' = 0
  /\ amazonSources' = [s \in Slots |-> Garbage]
  /\ amazonSinks' = [s \in Slots |-> Garbage]
  /\ config' = NoConfig
  /\ amazonConfig' = ToAmazonConfig(NoConfig)
  /\ asked' = NoPort
  /\ port' = NoPort
  /\ amazonPort' = ToAmazonPort(NoPort)
  /\ rc' = FALSE

-----------------------------------------------------------------------------

Init ==
  /\ pc = "idle"
  /\ sources = <<>>
  /\ sinks = <<>>
  /\ i = 0
  /\ amazonSources = [s \in Slots |-> Garbage]
  /\ amazonSinks = [s \in Slots |-> Garbage]
  /\ config = NoConfig
  /\ amazonConfig = ToAmazonConfig(NoConfig)
  /\ asked = NoPort
  /\ port = NoPort
  /\ amazonPort = ToAmazonPort(NoPort)
  /\ rc = FALSE

\* One more than fits, so that the guard matters.
Lists == UNION {[1 .. n -> Patchable] : n \in 0 .. PortsMax + 1}

Next ==
  \/ \E from, to \in Lists : CreateAudioPatch(from, to)
  \/ ConvertSource \/ ConvertSink
  \/ \E c \in Patchable : SetAudioPortConfig(c)
  \/ \E p \in Askable : GetAudioPort(p)
  \/ AmazonGetAudioPort
  \/ Return

Spec == Init /\ [][Next]_vars

-----------------------------------------------------------------------------
(* Properties.                                                             *)

\* What a configuration looks like to the framework after the Amazon layout
\* has dropped what it has no room for.
Forget(c) ==
  [common |-> c.common, type |-> c.type, flags |-> Zero, ext |-> Ext(c),
   newer |-> Zero]

\* No element outside the arrays of create_audio_patch is written or read,
\* whatever number of sources and sinks the framework passes.
InBounds ==
  /\ pc = "sources" /\ i < Len(sources) => i \in Slots
  /\ pc = "sinks" /\ i < Len(sinks) => i \in Slots
  /\ pc = "patched" => Len(sources) <= PortsMax /\ Len(sinks) <= PortsMax

\* Read back, what the Amazon device is given is what the framework passed,
\* each port in its place and none of it garbage, less the newer fields.
NothingElseLost ==
  /\ pc = "patched" =>
       /\ \A n \in 1 .. Len(sources) :
            FromAmazonConfig(amazonSources[n - 1]) = Forget(sources[n])
       /\ \A n \in 1 .. Len(sinks) :
            FromAmazonConfig(amazonSinks[n - 1]) = Forget(sinks[n])
  /\ pc = "configured" => FromAmazonConfig(amazonConfig) = Forget(config)

\* get_audio_port gives the framework all that the Amazon device answered, or
\* leaves the framework's port alone if it failed.
AnswerOrNothing ==
  pc = "gotPort" =>
    IF rc THEN port = asked ELSE ToAmazonPort(port) = amazonPort
=============================================================================
