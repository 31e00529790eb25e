----------------------------- MODULE PenService -----------------------------
(***************************************************************************)
(* The pen's battery warning (Pen/src/org/lineageos/pen/PenService.kt and  *)
(* BootCompletedReceiver.kt).                                              *)
(*                                                                         *)
(* The kernel reports the pen's battery level in uevents.  A thread of     *)
(* UEventObserver first collects the observers of an event and then calls  *)
(* them; the service's observer posts to the main looper, which shows or   *)
(* withdraws one notification.  The service is created and destroyed on    *)
(* the main looper too.  The process may crash: what it has queued is lost *)
(* and what it shows stays, and the system creates the service again.      *)
(***************************************************************************)
EXTENDS Naturals, Sequences

CONSTANTS
  Levels,     \* battery levels the pen reports
  Threshold,  \* config_penLowBatteryThreshold
  NoLevel,    \* no event, no notification, or an event without a level
  MaxQueue    \* how many updates may be waiting for the main looper

ASSUME ConstantsAssumption ==
  /\ Levels \subseteq Nat
  /\ Threshold \in Nat
  /\ NoLevel \notin Levels
  /\ MaxQueue \in Nat \ {0}

VARIABLES
  started,    \* has the service been started for good?
  created,    \* does the service exist?
  observing,  \* is the observer registered?
  event,      \* the event the UEventObserver thread is delivering
  queue,      \* levels posted to the main looper
  shown,      \* the level in the notification, if there is one
  reported,   \* history: the last level the observer has posted
  dismissed   \* history: the user swiped the current warning away

service == <<started, created, observing>>
history == <<reported, dismissed>>
penVars == <<service, event, queue, shown, history>>

Delivered == event = <<>>

-----------------------------------------------------------------------------
(* The system, the user and the kernel.                                    *)

\* BootCompletedReceiver: startService creates a service that is not there.
BootCompleted ==
  /\ ~started
  /\ started' = TRUE
  /\ UNCHANGED <<created, observing, event, queue, shown, history>>

Crash ==
  /\ created \/ ~Delivered \/ queue # <<>>
  /\ created' = FALSE
  /\ observing' = FALSE
  /\ event' = <<>>
  /\ queue' = <<>>
  /\ reported' = NoLevel
  /\ UNCHANGED <<started, shown, dismissed>>

\* Swiped away, or tapped: setAutoCancel.
Dismiss ==
  /\ shown # NoLevel
  /\ shown' = NoLevel
  /\ dismissed' = TRUE
  /\ UNCHANGED <<service, event, queue, reported>>

\* The thread has found the observer registered; the level may be unreadable.
UEvent(level) ==
  /\ observing
  /\ Delivered
  /\ Len(queue) < MaxQueue
  /\ event' = <<level>>
  /\ UNCHANGED <<service, queue, shown, history>>

-----------------------------------------------------------------------------
(* The observer.                                                           *)

Readable(level) == level # NoLevel

OnUEvent ==
  /\ event # <<>>
  /\ event' = <<>>
  /\ IF Readable(event[1])
     THEN /\ queue' = Append(queue, event[1])
          /\ reported' = event[1]
          /\ dismissed' = FALSE
     ELSE UNCHANGED <<queue, history>>
  /\ UNCHANGED <<service, shown>>

-----------------------------------------------------------------------------
(* The main looper.                                                        *)

OnCreate ==
  /\ started
  /\ ~created
  /\ created' = TRUE
  /\ observing' = TRUE
  /\ UNCHANGED <<started, event, queue, shown, history>>

\* Mutant: the observer stays registered.
StopObservingNever == UNCHANGED observing

StopObserving == observing' = FALSE

\* The thread may be about to call the observer, and posts stay queued.
OnDestroy ==
  /\ created
  /\ started' = FALSE
  /\ created' = FALSE
  /\ StopObserving
  /\ UNCHANGED <<event, queue, shown, history>>

\* Mutant: the threshold itself is not low.
WarningBelow(level) == IF level >= Threshold THEN NoLevel ELSE level

\* Mutant: a charged pen's warning is not withdrawn.
WarningStays(level) == IF level > Threshold THEN shown ELSE level

Warning(level) == IF level > Threshold THEN NoLevel ELSE level

UpdateBatteryLevel ==
  /\ queue # <<>>
  /\ queue' = Tail(queue)
  /\ shown' = Warning(Head(queue))
  /\ dismissed' = FALSE
  /\ UNCHANGED <<service, event, reported>>

-----------------------------------------------------------------------------

PenInit ==
  /\ started = FALSE
  /\ created = FALSE
  /\ observing = FALSE
  /\ event = <<>>
  /\ queue = <<>>
  /\ shown = NoLevel
  /\ reported = NoLevel
  /\ dismissed = FALSE

PenNext ==
  \/ BootCompleted \/ Crash \/ Dismiss
  \/ \E level \in Levels \cup {NoLevel} : UEvent(level)
  \/ OnUEvent
  \/ OnCreate \/ OnDestroy \/ UpdateBatteryLevel

PenSpec == PenInit /\ [][PenNext]_penVars

\* The main looper and the UEventObserver thread keep running, and the system
\* creates a service that is wanted.
FairPenSpec ==
  /\ PenSpec
  /\ WF_penVars(OnUEvent) /\ WF_penVars(UpdateBatteryLevel) /\ WF_penVars(OnCreate)

-----------------------------------------------------------------------------
(* Properties.                                                             *)

\* Once the main looper has caught up, the user is warned of the last level
\* that was reported exactly when it is at or below the threshold, unless the
\* user has dismissed that very warning; a late update never overtakes a
\* newer one.
WarnedOfLast ==
  queue = <<>> /\ reported # NoLevel =>
    shown = IF reported <= Threshold /\ ~dismissed THEN reported ELSE NoLevel

\* A service that is destroyed and has nothing left to do stays silent until it
\* is created again: only the user still changes what is shown.
SilentAfterDestroy ==
  [][~created /\ event = <<>> /\ queue = <<>>
       => event' = <<>> /\ (shown' # shown => dismissed')]_penVars

\* Every report reaches the screen: a warning of a charged pen does not stay.
ChargedWithdrawn ==
  (reported # NoLevel /\ reported > Threshold)
    ~> (shown = NoLevel \/ reported = NoLevel \/ reported <= Threshold)
=============================================================================
