-------------------------- MODULE AudioStreamProofs --------------------------
(***************************************************************************)
(* Proofs about AudioStream, for any number of threads and streams, any    *)
(* methods that the Amazon streams have and any tracks.                    *)
(***************************************************************************)
EXTENDS AudioStream, TLAPS

-----------------------------------------------------------------------------
(* The inductive invariant.                                                *)

AllMethods == OutMethods \cup InMethods

CallRecord ==
  [pc : {"idle", "convert", "amazon"}, block : Blocks \cup {Closed},
   method : AllMethods \cup {"none"}, tracks : Seq(Track), i : Nat]

TypeInv ==
  /\ amazon \in [Streams -> [kind : {"in", "out"}, methods : SUBSET AllMethods]
                              \cup {Closed}]
  /\ block \in [Blocks -> [kind : {"in", "out"}, amazon : Streams,
                           table : SUBSET AllMethods] \cup {Closed}]
  /\ call \in [Threads -> CallRecord]
  /\ array \in [Threads -> Seq(AmazonTrack)]

\* The client's streams have an open Amazon stream each, none of them the same,
\* and its methods.
BlockInv ==
  /\ \A w \in Blocks : block[w] # Closed =>
       /\ amazon[block[w].amazon] # Closed
       /\ block[w].table = amazon[block[w].amazon].methods
       /\ block[w].kind = "out" => block[w].table \subseteq OutMethods
  /\ \A v, w \in Blocks :
       block[v] # Closed /\ block[w] # Closed /\ block[v].amazon = block[w].amazon
         => v = w

\* A call goes to a stream that the client has not closed, and to a method of it.
CallInv ==
  \A t \in Threads :
    /\ call[t].pc # "idle" =>
         /\ call[t].block \in Blocks /\ block[call[t].block] # Closed
         /\ call[t].method \in block[call[t].block].table
    /\ call[t].pc = "convert" => call[t].method = "update_sink_metadata"

\* The tracks before the one that is converted next have been converted.
TrackInv ==
  \A t \in Threads : call[t].method = "update_sink_metadata" =>
    /\ array[t] \in [DOMAIN call[t].tracks -> AmazonTrack]
    /\ \A j \in DOMAIN call[t].tracks :
         call[t].pc = "amazon" \/ j < call[t].i =>
           array[t][j] = ToAmazonTrack(call[t].tracks[j])

MmapInv == info \in [Threads -> [known : {"zero", "filled"}, flags : {"zero"}]]

MethodsInv == TypeInv /\ BlockInv /\ CallInv /\ TrackInv /\ MmapInv

-----------------------------------------------------------------------------
(* The tables of methods.                                                  *)

\* The wrapper passes on every method that the Amazon streams may have.
LEMMA AllForwarded == ForwardedOut = OutMethods /\ ForwardedIn = InMethods
<1>1. ForwardedOut = OutMethods
  BY DEF ForwardedOut, OutMethods, CommonMethods
<1>2. ForwardedIn = InMethods
  BY DEF ForwardedIn, InMethods, CommonMethods
<1> QED
  BY <1>1, <1>2

\* Only inputs have sinks.
LEMMA NoSinkInOutputs ==
  /\ "update_sink_metadata" \notin CommonMethods
  /\ "update_sink_metadata" \notin OutMethods
  /\ "update_sink_metadata" \in AllMethods
  /\ "create_mmap_buffer" \in AllMethods
BY DEF CommonMethods, OutMethods, InMethods, AllMethods

-----------------------------------------------------------------------------
(* Opening and closing.                                                    *)

\* A stream is opened and wrapped.
LEMMA OpenKeeps ==
  ASSUME MethodsInv, NEW s \in Streams, NEW w \in Blocks,
         NEW kind \in {"in", "out"}, NEW methods \in SUBSET AllMethods,
         NEW list, methods \subseteq list,
         kind = "out" => methods \subseteq OutMethods,
         Open(s, w, kind, methods, list)
  PROVE  MethodsInv'
<1> USE DEF MethodsInv
<1>1. /\ amazon[s] = Closed /\ block[w] = Closed
      /\ amazon' = [amazon EXCEPT ![s] = [kind |-> kind, methods |-> methods]]
      /\ block' = [block EXCEPT
           ![w] = [kind |-> kind, amazon |-> s, table |-> methods]]
      /\ UNCHANGED <<call, array, info>>
  <2>1. CallocTable \cup Forward(list, methods) = methods
    BY DEF CallocTable, Forward
  <2> QED
    BY <2>1 DEF Open
<1>2. [kind |-> kind, methods |-> methods] # Closed
  BY ConstantsAssumption DEF AllMethods
<1>3. TypeInv'
  BY <1>1 DEF TypeInv
<1>4. /\ \A v \in Blocks \ {w} : block'[v] = block[v]
      /\ \A r \in Streams \ {s} : amazon'[r] = amazon[r]
      /\ \A v \in Blocks \ {w} : block[v] # Closed =>
           block[v].amazon \in Streams \ {s}
  BY <1>1 DEF TypeInv, BlockInv
<1>5. /\ block'[w].amazon = s /\ block'[w].table = methods
      /\ block'[w].kind = kind
      /\ amazon'[s] # Closed /\ amazon'[s].methods = methods
  BY <1>1, <1>2 DEF TypeInv
<1>6. BlockInv'
  BY <1>4, <1>5 DEF BlockInv
<1>7. CallInv'
  BY <1>1, <1>4 DEF CallInv
<1>8. TrackInv' /\ MmapInv'
  BY <1>1 DEF TrackInv, MmapInv
<1> QED
  BY <1>3, <1>6, <1>7, <1>8

\* A stream that no call goes through is closed.
LEMMA CloseKeeps ==
  ASSUME MethodsInv, NEW w \in Blocks, Close(w)
  PROVE  MethodsInv'
<1> USE DEF MethodsInv
<1>1. /\ block[w] # Closed
      /\ \A t \in Threads : call[t].block # w
      /\ amazon' = [amazon EXCEPT ![block[w].amazon] = Closed]
      /\ block' = [block EXCEPT ![w] = Closed]
      /\ UNCHANGED <<call, array, info>>
  BY DEF Close, InCall
<1>2. block[w].amazon \in Streams
  BY <1>1 DEF TypeInv
<1>3. TypeInv'
  BY <1>1 DEF TypeInv
<1>4. /\ \A v \in Blocks \ {w} : block'[v] = block[v]
      /\ \A r \in Streams \ {block[w].amazon} : amazon'[r] = amazon[r]
      /\ \A v \in Blocks \ {w} : block[v] # Closed =>
           block[v].amazon \in Streams \ {block[w].amazon}
      /\ block'[w] = Closed
  BY <1>1, <1>2 DEF TypeInv, BlockInv
<1>5. BlockInv'
  BY <1>4 DEF BlockInv
<1>6. CallInv'
  BY <1>1, <1>4 DEF CallInv
<1>7. TrackInv' /\ MmapInv'
  BY <1>1 DEF TrackInv, MmapInv
<1> QED
  BY <1>3, <1>5, <1>6, <1>7

-----------------------------------------------------------------------------
(* The methods.                                                            *)

\* A call that needs no conversion, and a description that has been cleared.
LEMMA CalledIs ==
  ASSUME NEW w, NEW method
  PROVE  [Idle EXCEPT !.pc = "amazon", !.block = w, !.method = method]
           = [pc |-> "amazon", block |-> w, method |-> method,
              tracks |-> <<>>, i |-> 0]
<1> DEFINE r1 == [Idle EXCEPT !.pc = "amazon"]
           r2 == [r1 EXCEPT !.block = w]
           r3 == [r2 EXCEPT !.method = method]
<1> HIDE DEF r1, r2, r3
<1>1. r1 = [pc |-> "amazon", block |-> Closed, method |-> "none",
            tracks |-> <<>>, i |-> 0]
  BY DEF r1, Idle
<1>2. r2 = [pc |-> "amazon", block |-> w, method |-> "none",
            tracks |-> <<>>, i |-> 0]
  BY <1>1 DEF r2
<1>3. r3 = [pc |-> "amazon", block |-> w, method |-> method,
            tracks |-> <<>>, i |-> 0]
  BY <1>2 DEF r3
<1>4. r3 = [Idle EXCEPT !.pc = "amazon", !.block = w, !.method = method]
  BY DEF r1, r2, r3
<1> QED
  BY <1>3, <1>4

\* The wrapper clears the client's description of a mapped buffer.
LEMMA ClearedIs == Cleared(Junk) = [known |-> "zero", flags |-> "zero"]
<1> DEFINE r1 == [Junk EXCEPT !.known = "zero"]
           r2 == [r1 EXCEPT !.flags = "zero"]
<1> HIDE DEF r1, r2
<1>1. r1 = [known |-> "zero", flags |-> "junk"]
  BY DEF r1, Junk
<1>2. r2 = [known |-> "zero", flags |-> "zero"]
  BY <1>1 DEF r2
<1>3. r2 = Cleared(Junk)
  BY DEF Cleared, r1, r2
<1> QED
  BY <1>2, <1>3

\* A method whose arguments need no conversion is called at once.
LEMMA EnterKeeps ==
  ASSUME MethodsInv, NEW t \in Threads, NEW w \in Blocks, NEW method,
         Enter(t, w, method), method # "update_sink_metadata", array' = array
  PROVE  TypeInv' /\ BlockInv' /\ CallInv' /\ TrackInv'
<1> USE DEF MethodsInv
<1> DEFINE c == [pc |-> "amazon", block |-> w, method |-> method,
                 tracks |-> <<>>, i |-> 0]
<1>1. /\ block[w] # Closed /\ method \in block[w].table
      /\ call' = [call EXCEPT ![t] = c]
      /\ UNCHANGED <<amazon, block, array>>
  BY CalledIs DEF Enter, MayCall
<1>2. method \in AllMethods
  BY <1>1 DEF TypeInv
<1>3. c \in CallRecord
  <2>1. <<>> \in Seq(Track)
    OBVIOUS
  <2> QED
    BY <1>2, <2>1 DEF CallRecord
<1>4. c.pc = "amazon" /\ c.block = w /\ c.method = method
  OBVIOUS
<1> HIDE DEF c
<1>5. call'[t] = c /\ \A u \in Threads \ {t} : call'[u] = call[u]
  BY <1>1 DEF TypeInv
<1>6. TypeInv'
  BY <1>1, <1>3 DEF TypeInv
<1>7. BlockInv'
  BY <1>1 DEF BlockInv
<1>8. CallInv'
  BY <1>1, <1>4, <1>5 DEF CallInv
<1>9. TrackInv'
  BY <1>1, <1>4, <1>5 DEF TrackInv
<1> QED
  BY <1>6, <1>7, <1>8, <1>9

\* The vector starts with as many tracks as the client's.
LEMMA UpdateKeeps ==
  ASSUME MethodsInv, NEW t \in Threads, NEW w \in Blocks, NEW tracks \in TrackLists,
         UpdateSinkMetadata(t, w, tracks)
  PROVE  MethodsInv'
<1> USE DEF MethodsInv
<1> DEFINE c == [pc |-> "convert", block |-> w,
                 method |-> "update_sink_metadata", tracks |-> tracks, i |-> 1]
           a == [i \in DOMAIN tracks |-> NoTrack]
<1>1. /\ block[w] # Closed /\ "update_sink_metadata" \in block[w].table
      /\ call' = [call EXCEPT ![t] = c]
      /\ array' = [array EXCEPT ![t] = a]
      /\ UNCHANGED <<amazon, block, info>>
  BY DEF UpdateSinkMetadata, MayCall, Array
<1>2. tracks \in Seq(Track) /\ DOMAIN tracks = 1 .. Len(tracks)
  BY ConstantsAssumption
<1>3. c \in CallRecord
  BY <1>2, NoSinkInOutputs DEF CallRecord
<1>4. /\ c.pc = "convert" /\ c.block = w /\ c.method = "update_sink_metadata"
      /\ c.tracks = tracks /\ c.i = 1
  OBVIOUS
<1>5. a \in [DOMAIN tracks -> AmazonTrack] /\ a \in Seq(AmazonTrack)
  BY <1>2 DEF NoTrack, AmazonTrack
<1> HIDE DEF c, a
<1>6. /\ call'[t] = c /\ array'[t] = a
      /\ \A u \in Threads \ {t} : call'[u] = call[u] /\ array'[u] = array[u]
  BY <1>1 DEF TypeInv
<1>7. TypeInv'
  BY <1>1, <1>3, <1>5 DEF TypeInv
<1>8. BlockInv' /\ MmapInv'
  BY <1>1 DEF BlockInv, MmapInv
<1>9. CallInv'
  BY <1>1, <1>4, <1>6 DEF CallInv
<1>10. TrackInv'
  BY <1>2, <1>4, <1>5, <1>6 DEF TrackInv
<1> QED
  BY <1>7, <1>8, <1>9, <1>10

\* Each step of the loop converts the track it is at.
LEMMA ConvertKeeps ==
  ASSUME MethodsInv, NEW t \in Threads, ConvertTrack(t)
  PROVE  MethodsInv'
<1> USE DEF MethodsInv
<1> PICK tracks \in Seq(Track) : tracks = call[t].tracks
  BY DEF TypeInv, CallRecord
<1> PICK i \in Nat : i = call[t].i
  BY DEF TypeInv, CallRecord
<1>1. /\ call[t].pc = "convert" /\ call[t].method = "update_sink_metadata"
      /\ UNCHANGED <<amazon, block, info>>
  BY DEF ConvertTrack, CallInv
<1>2. /\ DOMAIN tracks = 1 .. Len(tracks) /\ Len(tracks) \in Nat
      /\ array[t] \in [DOMAIN tracks -> AmazonTrack]
      /\ \A j \in DOMAIN tracks : j < i => array[t][j] = ToAmazonTrack(tracks[j])
  BY <1>1 DEF TrackInv
<1>3. BlockInv' /\ MmapInv'
  BY <1>1 DEF BlockInv, MmapInv
<1>4. CASE i <= Len(tracks)
  <2> DEFINE a == [array[t] EXCEPT ![i] = ToAmazonTrack(tracks[i])]
             c == [call[t] EXCEPT !.i = i + 1]
  <2>1. array' = [array EXCEPT ![t] = a] /\ call' = [call EXCEPT ![t] = c]
    BY <1>4 DEF ConvertTrack, Array, ReplaceAt
  <2>2. call[t] \in CallRecord
    BY DEF TypeInv
  <2>3. /\ c \in CallRecord
        /\ c.pc = call[t].pc /\ c.block = call[t].block
        /\ c.method = call[t].method /\ c.tracks = tracks /\ c.i = i + 1
    BY <2>2 DEF CallRecord
  <2>4. \A j \in DOMAIN tracks : ToAmazonTrack(tracks[j]) \in AmazonTrack
    <3>1. \A j \in DOMAIN tracks : tracks[j] \in Track
      BY <1>2
    <3> QED
      BY <3>1 DEF ToAmazonTrack, Track, AmazonTrack
  <2>5. /\ a \in [DOMAIN tracks -> AmazonTrack]
        /\ \A j \in DOMAIN tracks : j < i + 1 => a[j] = ToAmazonTrack(tracks[j])
    <3>1. \A j \in DOMAIN tracks :
            a[j] = IF j = i THEN ToAmazonTrack(tracks[j]) ELSE array[t][j]
      BY <1>2
    <3>2. DOMAIN a = DOMAIN tracks
      BY <1>2
    <3>3. a \in [DOMAIN tracks -> AmazonTrack]
      BY <1>2, <2>4
    <3> HIDE DEF a
    <3>4. \A j \in DOMAIN tracks : j < i + 1 => j = i \/ j < i
      BY <1>2
    <3> QED
      BY <1>2, <3>1, <3>3, <3>4
  <2> HIDE DEF a, c
  <2>6. a \in Seq(AmazonTrack)
    BY <1>2, <2>5
  <2>7. /\ call'[t] = c /\ array'[t] = a
        /\ \A u \in Threads \ {t} : call'[u] = call[u] /\ array'[u] = array[u]
    BY <2>1 DEF TypeInv
  <2>8. TypeInv'
    BY <1>1, <2>1, <2>3, <2>6 DEF TypeInv
  <2>9. CallInv'
    BY <1>1, <2>3, <2>7 DEF CallInv
  <2>10. TrackInv'
    BY <1>1, <2>3, <2>5, <2>7 DEF TrackInv
  <2> QED
    BY <1>3, <2>8, <2>9, <2>10
<1>5. CASE ~(i <= Len(tracks))
  <2> DEFINE c == [call[t] EXCEPT !.pc = "amazon"]
  <2>1. array' = array /\ call' = [call EXCEPT ![t] = c]
    BY <1>5 DEF ConvertTrack
  <2>2. c \in CallRecord /\ call[t] \in CallRecord
    BY DEF TypeInv, CallRecord
  <2>3. /\ c.pc = "amazon" /\ c.block = call[t].block
        /\ c.method = call[t].method /\ c.tracks = tracks
    BY <2>2 DEF CallRecord
  <2>4. \A j \in DOMAIN tracks : array[t][j] = ToAmazonTrack(tracks[j])
    BY <1>2, <1>5
  <2> HIDE DEF c
  <2>5. call'[t] = c /\ \A u \in Threads \ {t} : call'[u] = call[u]
    BY <2>1 DEF TypeInv
  <2>6. TypeInv'
    BY <1>1, <2>1, <2>2 DEF TypeInv
  <2>7. CallInv'
    BY <1>1, <2>3, <2>5 DEF CallInv
  <2>8. TrackInv'
    BY <1>1, <1>2, <2>1, <2>3, <2>4, <2>5 DEF TrackInv
  <2> QED
    BY <1>3, <2>6, <2>7, <2>8
<1> QED
  BY <1>4, <1>5

\* A thread between two calls is in no method.
LEMMA IdleIs ==
  Idle \in CallRecord /\ Idle.pc = "idle" /\ Idle.method = "none"
BY DEF Idle, CallRecord

\* The Amazon stream returns.
LEMMA ReturnKeeps ==
  ASSUME MethodsInv, NEW t \in Threads, AmazonReturns(t)
  PROVE  MethodsInv'
<1> USE DEF MethodsInv
<1>1. /\ call' = [call EXCEPT ![t] = Idle] /\ UNCHANGED <<amazon, block>>
      /\ array' \in {array, [array EXCEPT ![t] = <<>>]}
      /\ info' \in {info, [info EXCEPT ![t].known = "filled"]}
  BY DEF AmazonReturns, Array
<1>2. /\ call'[t] = Idle
      /\ \A u \in Threads \ {t} : call'[u] = call[u] /\ array'[u] = array[u]
  BY <1>1 DEF TypeInv
<1>3. TypeInv'
  <2>1. <<>> \in Seq(AmazonTrack)
    OBVIOUS
  <2> QED
    BY <1>1, <2>1, IdleIs DEF TypeInv
<1>4. BlockInv'
  BY <1>1 DEF BlockInv
<1>5. CallInv'
  BY <1>1, <1>2, IdleIs DEF CallInv
<1>6. TrackInv'
  BY <1>2, IdleIs DEF TrackInv
<1>7. MmapInv'
  BY <1>1 DEF MmapInv
<1> QED
  BY <1>3, <1>4, <1>5, <1>6, <1>7

\* A method is called.
LEMMA MethodKeeps ==
  ASSUME MethodsInv, NEW t \in Threads, NEW w \in Blocks, Method(t, w)
  PROVE  MethodsInv'
<1> USE DEF MethodsInv
<1>1. ASSUME CommonForward(t, w) \/ OutForward(t, w) \/ InForward(t, w)
      PROVE  MethodsInv'
  <2>1. PICK method : Enter(t, w, method) /\ method # "update_sink_metadata"
    <3>1. CASE OutForward(t, w)
      <4>1. block[w].table \subseteq OutMethods
        BY <3>1 DEF OutForward, BlockInv
      <4>2. PICK method \in block[w].table : Enter(t, w, method)
        BY <3>1 DEF OutForward
      <4> QED
        BY <4>1, <4>2, NoSinkInOutputs
    <3>2. CASE InForward(t, w)
      <4>1. PICK method \in block[w].table \ {"update_sink_metadata"} :
              Enter(t, w, method)
        BY <3>2 DEF InForward
      <4> QED
        BY <4>1
    <3>3. CASE CommonForward(t, w)
      <4>1. PICK method \in CommonMethods : Enter(t, w, method)
        BY <3>3 DEF CommonForward
      <4> QED
        BY <4>1, NoSinkInOutputs
    <3> QED
      BY <1>1, <3>1, <3>2, <3>3
  <2>2. UNCHANGED <<array, info>>
    BY <1>1 DEF CommonForward, OutForward, InForward
  <2> QED
    BY <2>1, <2>2, EnterKeeps DEF MmapInv
<1>2. CASE CreateMmapBuffer(t, w)
  <2>1. info' = [info EXCEPT ![t] = [known |-> "zero", flags |-> "zero"]]
    BY <1>2, ClearedIs DEF CreateMmapBuffer
  <2>2. MmapInv'
    BY <2>1 DEF MmapInv
  <2> QED
    BY <1>2, <2>2, EnterKeeps DEF CreateMmapBuffer
<1> QED
  BY <1>1, <1>2, UpdateKeeps DEF Method

-----------------------------------------------------------------------------
(* The theorems.                                                           *)

\* Nothing is open at first.
LEMMA InitMethodsInv == Init => MethodsInv
<1> SUFFICES ASSUME Init
             PROVE  MethodsInv
  OBVIOUS
<1>1. TypeInv
  BY IdleIs DEF Init, TypeInv
<1>2. BlockInv /\ CallInv /\ TrackInv /\ MmapInv
  BY IdleIs DEF Init, BlockInv, CallInv, TrackInv, MmapInv
<1> QED
  BY <1>1, <1>2 DEF MethodsInv

\* Every step of the streams and their client keeps the invariant.
LEMMA NextMethodsInv == MethodsInv /\ [Next]_vars => MethodsInv'
<1> SUFFICES ASSUME MethodsInv, [Next]_vars
             PROVE  MethodsInv'
  OBVIOUS
<1>1. ASSUME NEW s \in Streams, NEW w \in Blocks, OpenOutput(s, w)
      PROVE  MethodsInv'
  <2>1. \A methods \in OutTables :
          methods \in SUBSET AllMethods /\ methods \subseteq OutMethods
    BY ConstantsAssumption DEF AllMethods
  <2> QED
    BY <1>1, <2>1, OpenKeeps, AllForwarded DEF OpenOutput
<1>2. ASSUME NEW s \in Streams, NEW w \in Blocks, OpenInput(s, w)
      PROVE  MethodsInv'
  <2>1. \A methods \in InTables :
          methods \in SUBSET AllMethods /\ methods \subseteq InMethods
    BY ConstantsAssumption DEF AllMethods
  <2> QED
    BY <1>2, <2>1, OpenKeeps, AllForwarded DEF OpenInput
<1>3. CASE UNCHANGED vars
  BY <1>3 DEF vars, MethodsInv, TypeInv, BlockInv, CallInv, TrackInv, MmapInv
<1> QED
  BY <1>1, <1>2, <1>3, CloseKeeps, MethodKeeps, ConvertKeeps, ReturnKeeps DEF Next

\* A block of memory that a call goes through belongs to a stream that is open,
\* with the methods that stream has, for any number of streams and threads.
THEOREM MethodsInvariant == Spec => []MethodsInv
BY InitMethodsInv, NextMethodsInv, PTL DEF Spec

\* No call is passed on to a null pointer or to a stream that is closed, whatever
\* is opened and closed and whatever methods the Amazon streams lack.
THEOREM CallsAlwaysLand == Spec => []CallsLand
<1>1. MethodsInv => CallsLand
  BY DEF MethodsInv, CallInv, BlockInv, CallsLand
<1> QED
  BY <1>1, MethodsInvariant, PTL

\* The client has every method that the Amazon stream has.
THEOREM NothingIsHidden == Spec => []NothingHidden
<1>1. MethodsInv => NothingHidden
  BY DEF MethodsInv, BlockInv, NothingHidden
<1> QED
  BY <1>1, MethodsInvariant, PTL

\* The tracks that the Amazon stream is told of are those of the call, for any
\* number of tracks and of threads in the same method.
THEOREM MetadataIsIntact == Spec => []MetadataIntact
<1>1. MethodsInv => MetadataIntact
  <2> SUFFICES ASSUME MethodsInv, NEW t \in Threads, call[t].pc = "amazon",
                      call[t].method = "update_sink_metadata"
               PROVE  /\ array[t] \in Seq(AmazonTrack)
                      /\ array[t] = [i \in DOMAIN call[t].tracks |->
                                       ToAmazonTrack(call[t].tracks[i])]
    BY DEF MetadataIntact, Array
  <2> QED
    BY DEF MethodsInv, TypeInv, TrackInv
<1> QED
  BY <1>1, MethodsInvariant, PTL

\* A failed or an old Amazon stream leaves no junk in a mapped buffer.
THEOREM MmapIsClean == Spec => []MmapClean
<1>1. MethodsInv => MmapClean
  BY DEF MethodsInv, MmapInv, MmapClean
<1> QED
  BY <1>1, MethodsInvariant, PTL
=============================================================================
