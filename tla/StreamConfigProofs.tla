-------------------------- MODULE StreamConfigProofs --------------------------
(***************************************************************************)
(* Proofs about StreamConfig, for any configurations that the client and   *)
(* the Amazon device have, any description of a stream and any number of   *)
(* attempts.                                                               *)
(***************************************************************************)
EXTENDS StreamConfig, TLAPS

Config == [basic : Basic, offload : Offload]

\* What a call has found out so far.
CallInv ==
  /\ config \in Config
  /\ pc \in {"filled", "amazon", "sized", "opened", "rejected", "done", "refused"}
  /\ pc \in {"amazon", "opened", "rejected"} => config = asked
  /\ pc \in {"opened", "rejected"} =>
       amazon.basic \in AmazonBasics \cup {config.basic}

ConfigInv == CallInv /\ InfoKept /\ AmazonTold /\ SuggestionUsable

-----------------------------------------------------------------------------
(* The conversions.                                                        *)

\* The Amazon structure has what the client's has, but for newer fields.
LEMMA ToAmazonConfigIs ==
  ASSUME NEW c \in Config
  PROVE  /\ ToAmazonConfig(c).basic = c.basic
         /\ ToAmazonConfig(c).offload \in AmazonOffload
         /\ ToAmazonConfig(c).offload.fields = c.offload.fields
BY DEF Config, Offload, AmazonOffload, ToAmazonConfig

\* On the way back only the basic fields are taken.
LEMMA FromAmazonConfigIs ==
  ASSUME NEW c \in Config, NEW a, a.basic \in Basic
  PROVE  /\ FromAmazonConfig(a, c) \in Config
         /\ FromAmazonConfig(a, c).basic = a.basic
         /\ FromAmazonConfig(a, c).offload = c.offload
         /\ a.basic = c.basic => FromAmazonConfig(a, c) = c
BY DEF Config, FromAmazonConfig

AspBasic(b) == [b EXCEPT !.sample_rate = 16000, !.channel_mask = "mono",
                         !.format = "pcm16"]

\* What the ASP captures is a configuration.
LEMMA AspBasicIs ==
  ASSUME NEW b \in Basic
  PROVE  AspBasic(b) = [sample_rate |-> 16000, channel_mask |-> "mono",
                        format |-> "pcm16", frame_count |-> b.frame_count]
<1> DEFINE r1 == [b EXCEPT !.sample_rate = 16000]
           r2 == [r1 EXCEPT !.channel_mask = "mono"]
           r3 == [r2 EXCEPT !.format = "pcm16"]
<1> HIDE DEF r1, r2, r3
<1>1. r1 = [sample_rate |-> 16000, channel_mask |-> b.channel_mask,
            format |-> b.format, frame_count |-> b.frame_count]
  BY DEF Basic, r1
<1>2. r2 = [sample_rate |-> 16000, channel_mask |-> "mono",
            format |-> b.format, frame_count |-> b.frame_count]
  BY <1>1 DEF r2
<1>3. r3 = [sample_rate |-> 16000, channel_mask |-> "mono",
            format |-> "pcm16", frame_count |-> b.frame_count]
  BY <1>2 DEF r3
<1>4. AspBasic(b) = r3
  BY DEF AspBasic, r1, r2, r3
<1> QED
  BY <1>3, <1>4

\* The ASP suggests a configuration, with the client's description of the stream.
LEMMA AspSuggestionIs ==
  ASSUME NEW c \in Config
  PROVE  /\ AspSuggestion(c) \in Config
         /\ AspSuggestion(c).offload = c.offload
<1>1. AspBasic(c.basic) \in Basic
  BY AspBasicIs DEF Config, Basic
<1>2. AspSuggestion(c) = [c EXCEPT !.basic = AspBasic(c.basic)]
  BY DEF AspSuggestion, AspBasic
<1> QED
  BY <1>1, <1>2 DEF Config

-----------------------------------------------------------------------------
(* The invariant.                                                          *)

\* The client has filled in its structure.
LEMMA InitConfigInv == Init => ConfigInv
BY ConstantsAssumption
DEF Init, ConfigInv, CallInv, Config, InfoKept, AmazonTold, SuggestionUsable

\* The Amazon structure is made of the client's.
LEMMA ToAmazonKeeps ==
  ASSUME ConfigInv, ToAmazon, info' = info, asked' = config
  PROVE  ConfigInv'
<1>1. config \in Config /\ config.offload = info
  BY DEF ConfigInv, CallInv, InfoKept
<1>2. config' = config /\ pc' = "amazon" /\ amazon' = ToAmazonConfig(config)
  BY DEF ToAmazon
<1> QED
  BY <1>1, <1>2, ToAmazonConfigIs
  DEF ConfigInv, CallInv, InfoKept, AmazonTold, SuggestionUsable

\* Every step of a call, and every new call, keeps the invariant.
LEMMA NextConfigInv == ConfigInv /\ [Next]_vars => ConfigInv'
<1> SUFFICES ASSUME ConfigInv, [Next]_vars
             PROVE  ConfigInv'
  OBVIOUS
<1>1. CASE GetInputBufferSize \/ OpenOutputStream
  BY <1>1, ToAmazonKeeps DEF GetInputBufferSize, OpenOutputStream, Enter
<1>2. ASSUME NEW source \in {"voice", "mic"}, OpenInputStream(source)
      PROVE  ConfigInv'
  <2>1. CASE asp /\ source = "voice" /\ config # AspSuggestion(config)
    <3>1. /\ config' = AspSuggestion(config) /\ pc' = "refused"
          /\ method' = "open_input_stream" /\ asked' = config
          /\ UNCHANGED <<info, asp>>
      BY <1>2, <2>1 DEF OpenInputStream, Enter
    <3>2. config \in Config /\ config.offload = info
      BY DEF ConfigInv, CallInv, InfoKept
    <3>3. config' \in Config /\ InfoKept'
      BY <3>1, <3>2, AspSuggestionIs DEF InfoKept
    <3>4. config' = AspSuggestion(asked')
      BY <3>1
    <3> QED
      BY <2>1, <3>1, <3>3, <3>4
      DEF ConfigInv, CallInv, AmazonTold, SuggestionUsable
  <2>2. CASE ~(asp /\ source = "voice" /\ config # AspSuggestion(config))
    BY <1>2, <2>2, ToAmazonKeeps DEF OpenInputStream, Enter
  <2> QED
    BY <2>1, <2>2
<1>3. CASE AmazonSizes
  BY <1>3 DEF AmazonSizes, ConfigInv, CallInv, InfoKept, AmazonTold,
              SuggestionUsable
<1>4. CASE AmazonOpens
  BY <1>4 DEF AmazonOpens, ConfigInv, CallInv, InfoKept, AmazonTold,
              SuggestionUsable
<1>5. CASE Return
  <2>1. /\ config' = FromAmazonConfig(amazon, config)
        /\ pc' \in {"done", "refused"}
        /\ UNCHANGED <<asked, info, amazon>>
    BY <1>5 DEF Return
  <2>2. /\ config \in Config /\ config.offload = info /\ config = asked
        /\ amazon.basic \in AmazonBasics \cup {config.basic}
        /\ amazon.basic \in Basic
    BY <1>5, ConstantsAssumption DEF Return, ConfigInv, CallInv, InfoKept, Config
  <2>3. /\ config' \in Config /\ config'.basic = amazon.basic
        /\ config'.offload = info
        /\ amazon.basic = config.basic => config' = asked'
    BY <2>1, <2>2, FromAmazonConfigIs
  <2> QED
    BY <2>1, <2>2, <2>3
    DEF ConfigInv, CallInv, InfoKept, AmazonTold, SuggestionUsable
<1>6. CASE UNCHANGED vars
  BY <1>6 DEF vars, ConfigInv, CallInv, InfoKept, AmazonTold, SuggestionUsable
<1> QED
  BY <1>1, <1>2, <1>3, <1>4, <1>5, <1>6 DEF Next

\* What a call has found out so far is in the client's structure or the Amazon
\* one, whatever was asked before.
THEOREM ConfigInvariant == Spec => []ConfigInv
BY InitConfigInv, NextConfigInv, PTL DEF Spec

\* However many attempts are refused, by the ASP or the Amazon device, the client
\* still has the whole description of its stream.
THEOREM InfoIsKept == Spec => []InfoKept
<1>1. ConfigInv => InfoKept
  BY DEF ConfigInv
<1> QED
  BY <1>1, ConfigInvariant, PTL

\* The Amazon device is asked for what the client asks for, in its own layout.
THEOREM AmazonIsTold == Spec => []AmazonTold
<1>1. ConfigInv => AmazonTold
  BY DEF ConfigInv
<1> QED
  BY <1>1, ConfigInvariant, PTL

\* Whatever a client is refused with, it is what it asked for, or one of those who
\* refuse can do it.
THEOREM SuggestionsUsable == Spec => []SuggestionUsable
<1>1. ConfigInv => SuggestionUsable
  BY DEF ConfigInv
<1> QED
  BY <1>1, ConfigInvariant, PTL
=============================================================================
