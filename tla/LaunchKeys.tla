----------------------------- MODULE LaunchKeys -----------------------------
(***************************************************************************)
(* The files key and the split-screen key of the Amazon keyboard           *)
(* (KeyHandler.kt): the input thread posts a job for each press, the       *)
(* handler thread checks that the device is in use and then starts the     *)
(* files app, or reads the window mode and injects a shortcut.             *)
(*                                                                         *)
(* The keyguard, the setup wizard, the window mode and the dispatcher that *)
(* works through the injected events go their own way in between.          *)
(***************************************************************************)
EXTENDS Naturals, Sequences

CONSTANT
  MaxPresses,  \* how often a key is pressed
  MaxFaults    \* how many of the handler's calls throw an exception

ASSUME BoundsAssumption == MaxPresses \in Nat /\ MaxFaults \in Nat

Keys      == {"files", "split"}
Keyboards == {"amazon", "other"}
Modes     == {"full", "split"}

VARIABLES
  held,      \* the keys that are down, of either keyboard
  jobs,      \* messages of the handler
  pc,        \* the next call of the job in progress
  shortcut,  \* key code it injects
  injected,  \* events the dispatcher has not come to
  down,      \* key codes the dispatcher has seen go down
  locked,    \* is the keyguard locked?
  setUp,     \* has the current user completed the setup?
  mode,      \* window mode of the topmost task
  \* What the properties look back at:
  presses,   \* how many times a key of the Amazon keyboard has been pressed
  handled,   \* how many jobs are over
  faults,    \* how many calls have failed
  seen,      \* which conditions have held since the job was begun
  wanted,    \* the mode the last job with the split key wanted
  lost       \* key codes whose release could not be injected

handler == <<jobs, pc, shortcut>>
world   == <<locked, setUp, mode>>
vars    == <<held, handler, injected, down, world, presses, handled, faults,
             seen, wanted, lost>>

-----------------------------------------------------------------------------
(* The input thread.                                                       *)

\* Does handleKeyEvent post a job?  Other keyboards have the scancodes, too.
Posts(keyboard, action, repeat) ==
  keyboard = "amazon" /\ action = "down" /\ repeat = 0

HandleKeyEvent(key, keyboard, action, repeat) ==
  /\ jobs' = IF Posts(keyboard, action, repeat) THEN Append(jobs, key) ELSE jobs
  /\ UNCHANGED <<pc, shortcut, injected, down, world, handled, faults, seen,
                 wanted, lost>>

Press(key, keyboard) ==
  /\ <<key, keyboard>> \notin held
  /\ presses < MaxPresses
  /\ held' = held \cup {<<key, keyboard>>}
  /\ presses' = IF keyboard = "amazon" THEN presses + 1 ELSE presses
  /\ HandleKeyEvent(key, keyboard, "down", 0)

Repeat(key, keyboard) ==
  /\ <<key, keyboard>> \in held
  /\ HandleKeyEvent(key, keyboard, "down", 1)
  /\ UNCHANGED <<held, presses>>

Release(key, keyboard) ==
  /\ <<key, keyboard>> \in held
  /\ held' = held \ {<<key, keyboard>>}
  /\ HandleKeyEvent(key, keyboard, "up", 0)
  /\ UNCHANGED presses

-----------------------------------------------------------------------------
(* The handler thread: one step per call it makes.                         *)

Finish ==
  /\ pc' = "idle"
  /\ shortcut' = "none"
  /\ handled' = handled + 1
  /\ jobs' = Tail(jobs)

Proceed(next) ==
  /\ pc' = next
  /\ UNCHANGED <<jobs, handled>>

\* A job begins: canLaunch asks the keyguard.
AskKeyguard ==
  /\ pc = "idle"
  /\ jobs # <<>>
  /\ IF locked THEN Finish ELSE Proceed("setup") /\ UNCHANGED shortcut
  /\ seen' = {c \in {"unlocked", "setUp"} :
                IF c = "setUp" THEN setUp ELSE ~locked}
  /\ UNCHANGED <<held, injected, down, world, presses, faults, wanted, lost>>

\* Mutant: canLaunch asks only the keyguard.
SetUpIgnored == TRUE

UserSetupComplete == setUp

AskSetup ==
  /\ pc = "setup"
  /\ IF ~UserSetupComplete THEN Finish
     ELSE /\ Proceed(IF Head(jobs) = "files" THEN "launch" ELSE "tasks")
          /\ UNCHANGED shortcut
  /\ UNCHANGED <<held, injected, down, world, presses, faults, seen, wanted,
                 lost>>

\* Whether there is a files app or not.
StartActivity ==
  /\ pc = "launch"
  /\ Finish
  /\ UNCHANGED <<held, injected, down, world, presses, faults, seen, wanted,
                 lost>>

\* Mutant: the two shortcuts are the wrong way round.
ShortcutSwapped == IF mode = "split" THEN "left" ELSE "up"

Shortcut == IF mode = "split" THEN "up" ELSE "left"

GetTasks ==
  /\ pc = "tasks"
  /\ Proceed("down")
  /\ shortcut' = Shortcut
  /\ wanted' \in Modes \ {mode}
  /\ UNCHANGED <<held, injected, down, world, presses, faults, seen, lost>>

InjectDown ==
  /\ pc = "down"
  /\ injected' = Append(injected, [action |-> "down", code |-> shortcut])
  /\ Proceed("up")
  /\ UNCHANGED <<held, shortcut, down, world, presses, faults, seen, wanted,
                 lost>>

\* Mutant: only one event is injected.
WithoutUp == injected

WithUp == Append(injected, [action |-> "up", code |-> shortcut])

InjectUp ==
  /\ pc = "up"
  /\ injected' = WithUp
  /\ lost' = lost \ {shortcut}
  /\ Finish
  /\ UNCHANGED <<held, down, world, presses, faults, seen, wanted>>

\* Mutant: nothing catches the exception, all messages go with the thread.
Uncaught == pc' = "idle" /\ jobs' = <<>> /\ UNCHANGED <<shortcut, handled>>

Caught == Finish

\* The call throws; runCatching ends the job, whatever is left of it.
Throw ==
  /\ jobs # <<>>
  /\ faults < MaxFaults
  /\ faults' = faults + 1
  /\ wanted' = IF pc = "down" THEN "any" ELSE wanted
  /\ lost' = IF pc = "up" THEN lost \cup {shortcut} ELSE lost
  /\ Caught
  /\ UNCHANGED <<held, injected, down, world, presses, seen>>

-----------------------------------------------------------------------------
(* The dispatcher, the keyguard, the setup and the user.                   *)

\* The window manager acts on a shortcut when its key goes down.
Dispatch ==
  /\ injected # <<>>
  /\ LET event == Head(injected)
     IN  IF event.action = "down"
         THEN /\ down' = down \cup {event.code}
              /\ mode' = IF event.code = "left" THEN "split" ELSE "full"
         ELSE /\ down' = down \ {event.code}
              /\ UNCHANGED mode
  /\ injected' = Tail(injected)
  /\ UNCHANGED <<held, handler, locked, setUp, presses, handled, faults, seen,
                 wanted, lost>>

ToggleKeyguard ==
  /\ locked' = ~locked
  /\ seen' = IF locked THEN seen \cup {"unlocked"} ELSE seen
  /\ UNCHANGED <<held, handler, injected, down, setUp, mode, presses, handled,
                 faults, wanted, lost>>

\* The setup is completed, or another user is switched to.
ToggleSetup ==
  /\ setUp' = ~setUp
  /\ seen' = IF setUp THEN seen ELSE seen \cup {"setUp"}
  /\ UNCHANGED <<held, handler, injected, down, locked, mode, presses, handled,
                 faults, wanted, lost>>

\* The mode is changed by hand.
ChangeMode ==
  /\ mode' \in Modes \ {mode}
  /\ wanted' = "any"
  /\ UNCHANGED <<held, handler, injected, down, locked, setUp, presses, handled,
                 faults, seen, lost>>

-----------------------------------------------------------------------------

Init ==
  /\ held = {}
  /\ jobs = <<>>
  /\ pc = "idle"
  /\ shortcut = "none"
  /\ injected = <<>>
  /\ down = {}
  /\ locked \in BOOLEAN
  /\ setUp \in BOOLEAN
  /\ mode \in Modes
  /\ presses = 0
  /\ handled = 0
  /\ faults = 0
  /\ seen = {}
  /\ wanted = "any"
  /\ lost = {}

Handle ==
  \/ AskKeyguard \/ AskSetup \/ StartActivity
  \/ GetTasks \/ InjectDown \/ InjectUp \/ Throw

Next ==
  \/ \E key \in Keys, keyboard \in Keyboards :
       Press(key, keyboard) \/ Repeat(key, keyboard) \/ Release(key, keyboard)
  \/ Handle
  \/ Dispatch
  \/ ToggleKeyguard \/ ToggleSetup \/ ChangeMode

Spec == Init /\ [][Next]_vars

FairSpec == Spec /\ WF_vars(Handle)

-----------------------------------------------------------------------------
(* Properties.                                                             *)

Quiet == jobs = <<>> /\ injected = <<>>

\* Nothing is started or injected unless, at some time since the job was begun,
\* the keyguard was open, and at some time the setup was complete.
InUse == pc \in {"launch", "tasks", "down", "up"} => seen = {"unlocked", "setUp"}

\* When all is done no key of a shortcut stays down, unless its release could not
\* be injected.
KeysReleased == Quiet => down \subseteq lost

\* However many presses and shortcuts overlap, in the end the window mode is the
\* opposite of the one that the last press of the split key found, unless
\* somebody else has changed it since.
SplitToggled == Quiet /\ wanted # "any" => mode = wanted

\* Every press of a key of the Amazon keyboard is handled, an exception in an earlier one or not.
EveryPressHandled ==
  \A n \in 1 .. MaxPresses : presses = n ~> handled >= n
=============================================================================
