-------------------------- MODULE PortConfigProofs --------------------------
(***************************************************************************)
(* Proofs about PortConfig, for any contents of the fields and any size of *)
(* the arrays.                                                             *)
(***************************************************************************)
EXTENDS PortConfig, TLAPS

-----------------------------------------------------------------------------
(* The conversions as functions.                                           *)

\* What the framework sends and reads back differs only where the Amazon
\* layout has no room.
LEMMA FrameworkRoundTrip ==
  ASSUME NEW c \in Config
  PROVE  /\ ToAmazonConfig(c) \in AmazonConfig
         /\ FromAmazonConfig(ToAmazonConfig(c)) = Forget(c)
<1>1. ToAmazonConfig(c) \in AmazonConfig
  BY ConstantsAssumption DEF Config, AmazonConfig, ToAmazonConfig, Ext, Types
<1>2. Ext(ToAmazonConfig(c)) = Ext(c)
  BY DEF ToAmazonConfig, Ext
<1>3. FromAmazonConfig(ToAmazonConfig(c))
        = [common |-> c.common, type |-> c.type, flags |-> Zero,
           ext |-> Ext(c), newer |-> Zero]
  BY <1>2 DEF FromAmazonConfig, ToAmazonConfig
<1> QED
  BY <1>1, <1>3 DEF Forget

\* What the Amazon device sends is not changed by the way there and back.
LEMMA AmazonRoundTrip ==
  ASSUME NEW a \in AmazonConfig
  PROVE  ToAmazonConfig(FromAmazonConfig(a)) = a
<1>1. a = [common |-> a.common, type |-> a.type, ext |-> a.ext]
  BY DEF AmazonConfig
<1>2. Ext(a) = a.ext
  BY DEF AmazonConfig, Ext, Types
<1>3. Ext(FromAmazonConfig(a)) = a.ext
  BY <1>2 DEF FromAmazonConfig, AmazonConfig, Ext, Types
<1> QED
  BY <1>1, <1>3 DEF ToAmazonConfig, FromAmazonConfig

LEMMA AmazonPortRoundTrip ==
  ASSUME NEW a \in AmazonPort
  PROVE  ToAmazonPort(FromAmazonPort(a)) = a
<1>1. a = [common |-> a.common, type |-> a.type, ext |-> a.ext,
           active |-> a.active]
  BY DEF AmazonPort
<1>2. Ext(a) = a.ext
  BY DEF AmazonPort, Ext, Types
<1>3. Ext(FromAmazonPort(a)) = a.ext
  BY <1>2 DEF FromAmazonPort, AmazonPort, Ext, Types
<1>4. ToAmazonConfig(FromAmazonConfig(a.active)) = a.active
  BY AmazonRoundTrip DEF AmazonPort
<1> QED
  BY <1>1, <1>3, <1>4 DEF ToAmazonPort, FromAmazonPort

-----------------------------------------------------------------------------
(* The methods.                                                            *)

\* The first n elements of an array are the converted arguments.
Filled(array, args, n) ==
  \A k \in 1 .. n : array[k - 1] = ToAmazonConfig(args[k])

Typed ==
  /\ pc \in {"idle", "sources", "sinks", "patched", "configured", "getPort",
             "gotPort"}
  /\ sources \in Seq(Config)
  /\ sinks \in Seq(Config)
  /\ i \in Nat
  /\ amazonSources \in [Slots -> AmazonConfig \cup {Garbage}]
  /\ amazonSinks \in [Slots -> AmazonConfig \cup {Garbage}]
  /\ config \in Config
  /\ amazonPort \in AmazonPort \/ pc # "gotPort"

Filling ==
  /\ pc \in {"sources", "sinks", "patched"}
       => Len(sources) <= PortsMax /\ Len(sinks) <= PortsMax
  /\ pc = "sources" => i <= Len(sources) /\ Filled(amazonSources, sources, i)
  /\ pc \in {"sinks", "patched"}
       => Filled(amazonSources, sources, Len(sources))
  /\ pc = "sinks" => i <= Len(sinks) /\ Filled(amazonSinks, sinks, i)
  /\ pc = "patched" => Filled(amazonSinks, sinks, Len(sinks))

Answering ==
  /\ pc = "configured" => amazonConfig = ToAmazonConfig(config)
  /\ pc = "getPort" => port = asked
  /\ AnswerOrNothing

PortInv == Typed /\ Filling /\ Answering

\* Writing the next element of an array keeps what is there.
LEMMA FillNext ==
  ASSUME NEW array \in [Slots -> AmazonConfig \cup {Garbage}],
         NEW args \in Seq(Config), Len(args) <= PortsMax,
         NEW n \in Nat, n < Len(args), Filled(array, args, n)
  PROVE  LET next == [array EXCEPT ![n] = ToAmazonConfig(args[n + 1])]
         IN  /\ next \in [Slots -> AmazonConfig \cup {Garbage}]
             /\ Filled(next, args, n + 1)
<1> DEFINE next == [array EXCEPT ![n] = ToAmazonConfig(args[n + 1])]
<1>1. n \in Slots /\ n + 1 \in 1 .. Len(args)
  BY ConstantsAssumption DEF Slots
<1>2. ToAmazonConfig(args[n + 1]) \in AmazonConfig
  BY <1>1, FrameworkRoundTrip
<1>3. next \in [Slots -> AmazonConfig \cup {Garbage}]
  BY <1>2
<1>4. ASSUME NEW k \in 1 .. n + 1
      PROVE  next[k - 1] = ToAmazonConfig(args[k])
  <2>1. k - 1 \in Slots
    BY <1>1, ConstantsAssumption DEF Slots
  <2>2. CASE k = n + 1
    BY <1>1, <2>1, <2>2
  <2>3. CASE k # n + 1
    <3>1. k \in 1 .. n /\ k - 1 # n
      BY <2>3
    <3>2. next[k - 1] = array[k - 1]
      BY <2>1, <3>1
    <3> QED
      BY <3>1, <3>2 DEF Filled
  <2> QED
    BY <2>2, <2>3
<1> QED
  BY <1>3, <1>4 DEF Filled

LEMMA NothingIsTyped ==
  /\ NoConfig \in Config
  /\ ToAmazonConfig(NoConfig) \in AmazonConfig
  /\ [s \in Slots |-> Garbage] \in [Slots -> AmazonConfig \cup {Garbage}]
<1>1. NoConfig \in Config
  BY ConstantsAssumption DEF NoConfig, Config, Types
<1> QED
  BY <1>1, FrameworkRoundTrip

LEMMA InitPortInv == Init => PortInv
BY NothingIsTyped
   DEF Init, PortInv, Typed, Filling, Answering, AnswerOrNothing

LEMMA NextPortInv == PortInv /\ [Next]_vars => PortInv'
<1> SUFFICES ASSUME PortInv, [Next]_vars
             PROVE  PortInv'
  OBVIOUS
<1> USE DEF PortInv
<1>1. ASSUME NEW from \in Lists, NEW to \in Lists, CreateAudioPatch(from, to)
      PROVE  PortInv'
  <2>1. from \in Seq(Config) /\ to \in Seq(Config)
    BY ConstantsAssumption DEF Lists
  <2>2. Typed'
    BY <1>1, <2>1, NothingIsTyped DEF CreateAudioPatch, Typed, set, get
  <2>3. Filling'
    BY <1>1, <2>1 DEF CreateAudioPatch, Fits, Filling, Filled
  <2>4. Answering'
    BY <1>1 DEF CreateAudioPatch, Answering, AnswerOrNothing
  <2> QED
    BY <2>2, <2>3, <2>4
<1>2. CASE ConvertSource
  <2>1. pc = "sources" /\ UNCHANGED <<sources, sinks, amazonSinks, set, get>>
    BY <1>2 DEF ConvertSource
  <2>2. Answering'
    BY <1>2, <2>1 DEF ConvertSource, Answering, AnswerOrNothing
  <2>3. CASE i < Len(sources)
    <3>1. /\ amazonSources' \in [Slots -> AmazonConfig \cup {Garbage}]
          /\ Filled(amazonSources', sources, i + 1)
      <4>1. /\ amazonSources \in [Slots -> AmazonConfig \cup {Garbage}]
            /\ sources \in Seq(Config) /\ i \in Nat
        BY DEF Typed
      <4>2. Len(sources) <= PortsMax /\ Filled(amazonSources, sources, i)
        BY <2>1 DEF Filling
      <4>3. amazonSources'
              = [amazonSources EXCEPT ![i] = ToAmazonConfig(sources[i + 1])]
        BY <1>2, <2>3 DEF ConvertSource
      <4> QED
        BY ONLY <2>3, <4>1, <4>2, <4>3, FillNext
    <3>2. pc' = pc /\ i' = i + 1
      BY <1>2, <2>3 DEF ConvertSource
    <3>3. Typed'
      BY <2>1, <3>1, <3>2 DEF Typed, set, get
    <3>4. Filling'
      BY <2>1, <2>3, <3>1, <3>2 DEF Filling, Typed
    <3> QED
      BY <2>2, <3>3, <3>4
  <2>4. CASE ~(i < Len(sources))
    <3>1. i = Len(sources)
      BY <2>1, <2>4 DEF Filling, Typed
    <3>2. pc' = "sinks" /\ i' = 0 /\ amazonSources' = amazonSources
      BY <1>2, <2>4 DEF ConvertSource
    <3>3. Typed'
      BY <2>1, <3>2 DEF Typed, set, get
    <3>4. Filling'
      BY <2>1, <3>1, <3>2 DEF Filling, Filled, Typed
    <3> QED
      BY <2>2, <3>3, <3>4
  <2> QED
    BY <2>3, <2>4
<1>3. CASE ConvertSink
  <2>1. pc = "sinks" /\ UNCHANGED <<sources, sinks, amazonSources, set, get>>
    BY <1>3 DEF ConvertSink
  <2>2. Answering'
    BY <1>3, <2>1 DEF ConvertSink, Answering, AnswerOrNothing
  <2>3. CASE i < Len(sinks)
    <3>1. /\ amazonSinks' \in [Slots -> AmazonConfig \cup {Garbage}]
          /\ Filled(amazonSinks', sinks, i + 1)
      <4>1. /\ amazonSinks \in [Slots -> AmazonConfig \cup {Garbage}]
            /\ sinks \in Seq(Config) /\ i \in Nat
        BY DEF Typed
      <4>2. Len(sinks) <= PortsMax /\ Filled(amazonSinks, sinks, i)
        BY <2>1 DEF Filling
      <4>3. amazonSinks'
              = [amazonSinks EXCEPT ![i] = ToAmazonConfig(sinks[i + 1])]
        BY <1>3, <2>3 DEF ConvertSink
      <4> QED
        BY ONLY <2>3, <4>1, <4>2, <4>3, FillNext
    <3>2. pc' = pc /\ i' = i + 1
      BY <1>3, <2>3 DEF ConvertSink
    <3>3. Typed'
      BY <2>1, <3>1, <3>2 DEF Typed, set, get
    <3>4. Filling'
      BY <2>1, <2>3, <3>1, <3>2 DEF Filling, Typed
    <3> QED
      BY <2>2, <3>3, <3>4
  <2>4. CASE ~(i < Len(sinks))
    <3>1. i = Len(sinks)
      BY <2>1, <2>4 DEF Filling, Typed
    <3>2. pc' = "patched" /\ i' = i /\ amazonSinks' = amazonSinks
      BY <1>3, <2>4 DEF ConvertSink
    <3>3. Typed'
      BY <2>1, <3>2 DEF Typed, set, get
    <3>4. Filling'
      BY <2>1, <3>1, <3>2 DEF Filling, Typed
    <3> QED
      BY <2>2, <3>3, <3>4
  <2> QED
    BY <2>3, <2>4
<1>4. ASSUME NEW c \in Patchable, SetAudioPortConfig(c)
      PROVE  PortInv'
  <2>1. c \in Config
    BY ConstantsAssumption
  <2>2. Typed'
    BY <1>4, <2>1 DEF SetAudioPortConfig, Typed, patch, get
  <2>3. Filling' /\ Answering'
    BY <1>4 DEF SetAudioPortConfig, Filling, Answering, AnswerOrNothing
  <2> QED
    BY <2>2, <2>3
<1>5. ASSUME NEW p \in Askable, GetAudioPort(p)
      PROVE  PortInv'
  BY <1>5 DEF GetAudioPort, patch, set, Typed, Filling, Answering,
              AnswerOrNothing
<1>6. CASE AmazonGetAudioPort
  <2>1. Typed' /\ Filling'
    BY <1>6 DEF AmazonGetAudioPort, patch, set, Typed, Filling
  <2>2. ~rc' => ToAmazonPort(port') = amazonPort'
    BY <1>6, AmazonPortRoundTrip DEF AmazonGetAudioPort, CopiedBack
  <2>3. Answering'
    BY <1>6, <2>2 DEF AmazonGetAudioPort, CopiedBack, Answering, AnswerOrNothing
  <2> QED
    BY <2>1, <2>3
<1>7. CASE Return
  BY <1>7, NothingIsTyped DEF Return, Typed, Filling, Answering,
                              AnswerOrNothing
<1>8. CASE UNCHANGED vars
  BY <1>8 DEF vars, patch, set, get, Typed, Filling, Filled, Answering,
              AnswerOrNothing
<1> QED
  BY <1>1, <1>2, <1>3, <1>4, <1>5, <1>6, <1>7, <1>8 DEF Next

LEMMA PortInvHolds == Spec => []PortInv
BY InitPortInv, NextPortInv, PTL DEF Spec

\* The arrays of create_audio_patch are not overrun, whatever their size and
\* whatever counts the framework passes.
THEOREM PatchInBounds == Spec => []InBounds
<1>1. PortInv => InBounds
  BY ConstantsAssumption DEF PortInv, Typed, Filling, InBounds, Slots
<1> QED
  BY <1>1, PortInvHolds, PTL

\* The Amazon device gets every port of a patch, in its place and complete but
\* for the newer fields, and so it does with a configuration that is set.
THEOREM PatchComplete == Spec => []NothingElseLost
<1>1. PortInv => NothingElseLost
  <2> SUFFICES ASSUME PortInv
               PROVE  NothingElseLost
    OBVIOUS
  <2>1. ASSUME NEW array, NEW args \in Seq(Config), NEW n \in 1 .. Len(args),
               Filled(array, args, Len(args))
        PROVE  FromAmazonConfig(array[n - 1]) = Forget(args[n])
    <3>1. array[n - 1] = ToAmazonConfig(args[n]) /\ args[n] \in Config
      BY <2>1 DEF Filled
    <3> QED
      BY <3>1, FrameworkRoundTrip
  <2>2. ASSUME pc = "patched"
        PROVE  /\ \A n \in 1 .. Len(sources) :
                    FromAmazonConfig(amazonSources[n - 1]) = Forget(sources[n])
               /\ \A n \in 1 .. Len(sinks) :
                    FromAmazonConfig(amazonSinks[n - 1]) = Forget(sinks[n])
    BY <2>1, <2>2 DEF PortInv, Typed, Filling
  <2>3. ASSUME pc = "configured"
        PROVE  FromAmazonConfig(amazonConfig) = Forget(config)
    BY <2>3, FrameworkRoundTrip DEF PortInv, Typed, Answering
  <2> QED
    BY <2>2, <2>3 DEF NothingElseLost
<1> QED
  BY <1>1, PortInvHolds, PTL

\* get_audio_port answers with all the Amazon device said, or changes nothing.
THEOREM PortAnswered == Spec => []AnswerOrNothing
<1>1. PortInv => AnswerOrNothing
  BY DEF PortInv, Answering
<1> QED
  BY <1>1, PortInvHolds, PTL
=============================================================================
