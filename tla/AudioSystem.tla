----------------------------- MODULE AudioSystem -----------------------------
(***************************************************************************)
(* The audio server, the service process and the wrapper inside it:        *)
(* AudioService composed with StreamService, which AudioDevice implements. *)
(* The streams and the answer about the ASP live in the memory of one      *)
(* incarnation of the process; the handles live in the audio server.       *)
(***************************************************************************)
EXTENDS AudioService

CONSTANTS Handles, None, Playable, Inputs, Unfit

\* A stream that can be played is a stream.
ASSUME NoneAssumption == None \notin Playable

VARIABLES
  open,   \* as in StreamService
  asp,
  using,  \* the handles the audio server has been given
  early   \* history: the running process was asked for the ASP before main had
          \* registered everything

W == INSTANCE StreamService

systemVars == <<vars, open, asp, using, early>>

-----------------------------------------------------------------------------

\* The memory of a process goes with it.
Memory ==
  IF Alive' THEN UNCHANGED <<open, asp, early>>
  ELSE open' = [h \in Handles |-> None] /\ asp' = "unresolved" /\ early' = FALSE

\* An audio server that is started again knows of no handle.
AudioServer == using' = IF client' = 0 THEN {} ELSE using

Aftermath == Memory /\ AudioServer

\* configureRpcThreadpool leaves room for threads besides the one of main.  The first
\* of them starts when an interface is first passed to the service manager: calls are
\* served while main goes on registering.
Serves == Alive /\ family > 1

Connected == Serves /\ client = incarnation

\* A call of the audio server, handled at once.
OpenStream(h, s) ==
  /\ Connected
  /\ h \notin using
  /\ W!Open(h, s)
  /\ using' = using \cup {h}
  /\ UNCHANGED <<vars, early>>

CloseStream(h) ==
  /\ Connected
  /\ h \in using
  /\ W!Close(h)
  /\ using' = using \ {h}
  /\ UNCHANGED <<vars, early>>

\* Does the process hold the implementation of the signal processor's interface,
\* which comes with the library?
AspRegistered ==
  \E i \in {Asp11, Asp10} : registry[i] = incarnation

\* An input that is asked for, or the voice volume.  Something else may have
\* loaded the library, too.
Resolve ==
  /\ Connected
  /\ W!Resolve
  /\ AspRegistered => asp' = "present"
  /\ early' = (status = "registering")
  /\ UNCHANGED <<vars, using>>

-----------------------------------------------------------------------------

SystemInit == Init /\ W!Init /\ using = {} /\ early = FALSE

Opens == \E h \in Handles, s \in Playable : OpenStream(h, s)

SystemNext ==
  \/ Next /\ Aftermath
  \/ Opens
  \/ \E h \in Handles : CloseStream(h)
  \/ Resolve

\* As in AudioService; and an audio server that can play something does.
Fairness ==
  /\ WF_systemVars(Main /\ Aftermath) /\ WF_systemVars(Start /\ Aftermath)
  /\ WF_systemVars(Reap /\ Aftermath) /\ WF_systemVars(Connect /\ Aftermath)
  /\ WF_systemVars(Opens)

SystemSpec == SystemInit /\ [][SystemNext]_systemVars /\ Fairness

-----------------------------------------------------------------------------
(* Properties.                                                             *)

\* No handle outlives the process it was given by: as long as there is a process
\* to call, every handle of the audio server stands for a stream in it, and every
\* stream in it is one the audio server can still close.
HandlesValid ==
  Alive => using = {h \in Handles : open[h] # None}

\* A process that has an ASP of its own captures nothing that its ASP would have to
\* capture and cannot: no order of registrations, deaths, answers and streams lets an
\* input pass by it, unless the process was asked for the ASP while main was still
\* registering (which nothing prevents: "absent" is then its answer for good).
OwnAspFits ==
  Alive /\ AspRegistered /\ ~early =>
    \A h \in using : open[h] \notin Inputs \cap Unfit

\* A stream that is open ends by being closed or by a fault, at whatever point main
\* is by then: an optional interface that cannot be had never takes it away.
StreamsSurvive ==
  [][\A h \in Handles : open[h] # None /\ open'[h] = None =>
       h \notin using' \/ faults' > faults]_systemVars

\* Whatever dies, and whenever: the audio server will have a working stream again.
SoundComesBack == []<>(\E h \in using : open[h] # None)
=============================================================================
