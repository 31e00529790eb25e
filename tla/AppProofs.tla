----------------------------- MODULE AppProofs -----------------------------
(***************************************************************************)
(* Proofs about the two apps that queue what they are told for a looper:   *)
(* about LaunchKeys, for any number of presses and of calls that throw,    *)
(* and about PenService, for any levels and any length of the queue.       *)
(*                                                                         *)
(* What the events that are still to be dispatched will do to the keys, or *)
(* the levels still posted to the warning, is said by the last of them.    *)
(***************************************************************************)
EXTENDS LaunchKeys, PenService, TLAPS

-----------------------------------------------------------------------------
(* The inductive invariant.                                                *)

Codes  == {"up", "left"}
Event  == [action : {"down", "up"}, code : Codes]
Steps  == {"idle", "setup", "launch", "tasks", "down", "up"}
InUseNow == {"unlocked", "setUp"}

KeysTypeOK ==
  /\ jobs \in Seq(Keys)
  /\ pc \in Steps
  /\ shortcut \in Codes \cup {"none"}
  /\ injected \in Seq(Event)
  /\ down \subseteq Codes
  /\ setUp \in BOOLEAN
  /\ locked \in BOOLEAN
  /\ mode \in Modes
  /\ seen \subseteq InUseNow
  /\ wanted \in Modes \cup {"any"}

\* A job in progress is still the first of its queue.
JobInv ==
  /\ pc # "idle" => jobs # <<>>
  /\ pc \in {"down", "up"} => shortcut \in Codes

\* A job in progress has seen the keyguard open and sees the setup complete.
SeenInv ==
  /\ pc # "idle" => "unlocked" \in seen
  /\ pc # "idle" /\ setUp # FALSE => "setUp" \in seen
  /\ InUse

\* Will this key be down when all events have been dispatched?
StaysDown(c) ==
  \/ \E i \in DOMAIN injected :
       /\ injected[i].action = "down" /\ injected[i].code = c
       /\ \A j \in DOMAIN injected :
            j > i => ~(injected[j].action = "up" /\ injected[j].code = c)
  \/ /\ c \in down
     /\ \A j \in DOMAIN injected :
          ~(injected[j].action = "up" /\ injected[j].code = c)

\* If so, its release is the next thing to be injected or has been lost.
KeyInv ==
  \A c \in Codes : StaysDown(c) => c \in lost \/ (pc = "up" /\ shortcut = c)

\* What the window manager makes of a shortcut.
ModeOf(code) == IF code = "left" THEN "split" ELSE "full"

\* Will this be the mode when all events have been dispatched?
Becomes(m) ==
  \/ \E i \in DOMAIN injected :
       /\ injected[i].action = "down" /\ ModeOf(injected[i].code) = m
       /\ \A j \in DOMAIN injected : j > i => injected[j].action # "down"
  \/ /\ mode = m
     /\ \A j \in DOMAIN injected : injected[j].action # "down"

\* It is the wanted one, once a job that wants another has injected its shortcut.
ModeInv ==
  wanted # "any" => IF pc = "down" THEN ModeOf(shortcut) = wanted
                                   ELSE Becomes(wanted)

KeysInv == KeysTypeOK /\ JobInv /\ SeenInv /\ KeyInv /\ ModeInv

-----------------------------------------------------------------------------
(* Events.                                                                 *)

\* A sequence with one more element.
LEMMA Appended ==
  ASSUME NEW S, NEW s \in Seq(S), NEW e \in S
  PROVE  /\ Append(s, e) \in Seq(S)
         /\ DOMAIN s = 1 .. Len(s) /\ Len(s) \in Nat
         /\ DOMAIN Append(s, e) = 1 .. Len(s) + 1
         /\ Append(s, e)[Len(s) + 1] = e
         /\ \A i \in DOMAIN s : Append(s, e)[i] = s[i]
OBVIOUS

\* A sequence without its head.
LEMMA Taken ==
  ASSUME NEW S, NEW s \in Seq(S), s # <<>>
  PROVE  /\ Tail(s) \in Seq(S) /\ Head(s) \in S /\ Head(s) = s[1]
         /\ DOMAIN s = 1 .. Len(s) /\ Len(s) \in Nat \ {0}
         /\ DOMAIN Tail(s) = 1 .. Len(s) - 1
         /\ \A i \in DOMAIN Tail(s) : Tail(s)[i] = s[i + 1]
OBVIOUS

\* Another event decides about its own key and no other.
LEMMA StaysDownAppend ==
  ASSUME injected \in Seq(Event), NEW e \in Event,
         injected' = Append(injected, e), down' = down, NEW c, StaysDown(c)'
  PROVE  IF e.code = c THEN e.action = "down" ELSE StaysDown(c)
<1> PICK n \in Nat : n = Len(injected)
  OBVIOUS
<1>1. /\ DOMAIN injected = 1 .. n /\ DOMAIN injected' = 1 .. n + 1
      /\ injected'[n + 1] = e
      /\ \A i \in 1 .. n : injected'[i] = injected[i]
  BY Appended
<1>2. CASE e.code = c
  <2> SUFFICES ASSUME e.action = "up"
               PROVE  FALSE
    BY <1>2 DEF Event
  <2>1. n + 1 \in DOMAIN injected'
    BY <1>1
  <2> QED
    BY <1>1, <1>2, <2>1 DEF StaysDown
<1>3. CASE e.code # c
  <2>1. ASSUME NEW i \in DOMAIN injected',
               injected'[i].action = "down" /\ injected'[i].code = c,
               \A j \in DOMAIN injected' :
                 j > i => ~(injected'[j].action = "up" /\ injected'[j].code = c)
        PROVE  StaysDown(c)
    <3>1. i \in 1 .. n
      BY <1>1, <1>3, <2>1
    <3> QED
      BY <1>1, <2>1, <3>1 DEF StaysDown
  <2>2. ASSUME c \in down',
               \A j \in DOMAIN injected' :
                 ~(injected'[j].action = "up" /\ injected'[j].code = c)
        PROVE  StaysDown(c)
    BY <1>1, <2>2 DEF StaysDown
  <2> QED
    BY <1>3, <2>1, <2>2 DEF StaysDown
<1> QED
  BY <1>2, <1>3

\* Dispatching an event changes nothing about what will be down in the end.
LEMMA StaysDownTake ==
  ASSUME injected \in Seq(Event), injected # <<>>, injected' = Tail(injected),
         down' = IF injected[1].action = "down" THEN down \cup {injected[1].code}
                                               ELSE down \ {injected[1].code},
         NEW c, StaysDown(c)'
  PROVE  StaysDown(c)
<1> PICK n \in Nat \ {0} : n = Len(injected)
  BY Taken
<1>1. /\ DOMAIN injected = 1 .. n /\ DOMAIN injected' = 1 .. n - 1
      /\ \A i \in 1 .. n - 1 : injected'[i] = injected[i + 1]
  BY Taken
<1>2. ASSUME NEW j \in DOMAIN injected, j > 1
      PROVE  j - 1 \in DOMAIN injected' /\ injected'[j - 1] = injected[j]
  BY <1>1, <1>2
<1>3. ASSUME NEW i \in DOMAIN injected',
             injected'[i].action = "down" /\ injected'[i].code = c,
             \A j \in DOMAIN injected' :
               j > i => ~(injected'[j].action = "up" /\ injected'[j].code = c)
      PROVE  StaysDown(c)
  <2>1. i + 1 \in DOMAIN injected /\ injected[i + 1] = injected'[i]
    BY <1>1
  <2>2. ASSUME NEW j \in DOMAIN injected, j > i + 1
        PROVE  ~(injected[j].action = "up" /\ injected[j].code = c)
    <3>1. j - 1 > i /\ j > 1 /\ i \in Nat
      BY <1>1, <2>2
    <3> QED
      BY <1>2, <1>3, <3>1
  <2> QED
    BY <1>3, <2>1, <2>2 DEF StaysDown
<1>4. ASSUME c \in down',
             \A j \in DOMAIN injected' :
               ~(injected'[j].action = "up" /\ injected'[j].code = c)
      PROVE  StaysDown(c)
  <2>1. \A j \in DOMAIN injected : j > 1 =>
          ~(injected[j].action = "up" /\ injected[j].code = c)
    BY <1>2, <1>4
  <2>2. 1 \in DOMAIN injected /\ \A j \in DOMAIN injected : j = 1 \/ j > 1
    BY <1>1
  <2>3. CASE injected[1].action = "down" /\ injected[1].code = c
    BY <2>1, <2>2, <2>3 DEF StaysDown
  <2>4. CASE ~(injected[1].action = "down" /\ injected[1].code = c)
    <3>1. c \in down /\ ~(injected[1].action = "up" /\ injected[1].code = c)
      BY <1>4, <2>4
    <3> QED
      BY <2>1, <2>2, <3>1 DEF StaysDown
  <2> QED
    BY <2>3, <2>4
<1> QED
  BY <1>3, <1>4 DEF StaysDown

\* A shortcut decides about the mode, the release of its key does not.
LEMMA BecomesAppend ==
  ASSUME injected \in Seq(Event), NEW e \in Event,
         injected' = Append(injected, e), mode' = mode, NEW m,
         IF e.action = "down" THEN ModeOf(e.code) = m ELSE Becomes(m)
  PROVE  Becomes(m)'
<1> PICK n \in Nat : n = Len(injected)
  OBVIOUS
<1>1. /\ DOMAIN injected = 1 .. n /\ DOMAIN injected' = 1 .. n + 1
      /\ injected'[n + 1] = e
      /\ \A i \in 1 .. n : injected'[i] = injected[i]
  BY Appended
<1>2. CASE e.action = "down"
  <2>1. n + 1 \in DOMAIN injected' /\ \A j \in DOMAIN injected' : ~(j > n + 1)
    BY <1>1
  <2> QED
    BY <1>1, <1>2, <2>1 DEF Becomes
<1>3. CASE e.action # "down"
  <2>1. \A j \in DOMAIN injected' : j \in DOMAIN injected \/ j = n + 1
    BY <1>1
  <2>2. ASSUME NEW i \in DOMAIN injected,
               injected[i].action = "down" /\ ModeOf(injected[i].code) = m,
               \A j \in DOMAIN injected : j > i => injected[j].action # "down"
        PROVE  Becomes(m)'
    <3>1. i \in DOMAIN injected'
      BY <1>1
    <3>2. \A j \in DOMAIN injected' : j > i => injected'[j].action # "down"
      BY <1>1, <1>3, <2>1, <2>2
    <3> QED
      BY <1>1, <2>2, <3>1, <3>2 DEF Becomes
  <2>3. ASSUME mode = m, \A j \in DOMAIN injected : injected[j].action # "down"
        PROVE  Becomes(m)'
    BY <1>1, <1>3, <2>1, <2>3 DEF Becomes
  <2> QED
    BY <1>3, <2>2, <2>3 DEF Becomes
<1> QED
  BY <1>2, <1>3

\* What the mode becomes stays the same when an event is dispatched.
LEMMA BecomesTake ==
  ASSUME injected \in Seq(Event), injected # <<>>, injected' = Tail(injected),
         mode' = IF injected[1].action = "down" THEN ModeOf(injected[1].code)
                                               ELSE mode,
         NEW m, Becomes(m)
  PROVE  Becomes(m)'
<1> PICK n \in Nat \ {0} : n = Len(injected)
  BY Taken
<1>1. /\ DOMAIN injected = 1 .. n /\ DOMAIN injected' = 1 .. n - 1
      /\ \A i \in 1 .. n - 1 : injected'[i] = injected[i + 1]
  BY Taken
<1>2. \A i \in DOMAIN injected' :
        i + 1 \in DOMAIN injected /\ injected'[i] = injected[i + 1] /\ i + 1 > 1
  BY <1>1
<1>3. ASSUME NEW i \in DOMAIN injected,
             injected[i].action = "down" /\ ModeOf(injected[i].code) = m,
             \A j \in DOMAIN injected : j > i => injected[j].action # "down"
      PROVE  Becomes(m)'
  <2>1. CASE i = 1
    <3>1. \A j \in DOMAIN injected' : injected'[j].action # "down"
      BY <1>2, <1>3, <2>1
    <3> QED
      BY <1>3, <2>1, <3>1 DEF Becomes
  <2>2. CASE i # 1
    <3>1. i - 1 \in DOMAIN injected' /\ injected'[i - 1] = injected[i]
      BY <1>1, <2>2
    <3>2. \A j \in DOMAIN injected' : j > i - 1 => j + 1 > i
      BY <1>1
    <3>3. \A j \in DOMAIN injected' : j > i - 1 => injected'[j].action # "down"
      BY <1>2, <1>3, <3>2
    <3> QED
      BY <1>3, <3>1, <3>3 DEF Becomes
  <2> QED
    BY <2>1, <2>2
<1>4. ASSUME mode = m, \A j \in DOMAIN injected : injected[j].action # "down"
      PROVE  Becomes(m)'
  <2>1. 1 \in DOMAIN injected
    BY <1>1
  <2> QED
    BY <1>2, <1>4, <2>1 DEF Becomes
<1> QED
  BY <1>3, <1>4 DEF Becomes

-----------------------------------------------------------------------------
(* The steps.                                                              *)

\* A step that leaves the events, the shortcut and what they do alone.
LEMMA EventsStay ==
  ASSUME KeysInv, UNCHANGED <<injected, down, mode>>
  PROVE  /\ \A c : StaysDown(c)' = StaysDown(c)
         /\ \A m : Becomes(m)' = Becomes(m)
BY DEF StaysDown, Becomes

\* A key of the keyboard is pressed, held or released.
LEMMA KeyEventKeeps ==
  ASSUME KeysInv, NEW key \in Keys, NEW keyboard, NEW action, NEW repeat,
         HandleKeyEvent(key, keyboard, action, repeat)
  PROVE  KeysInv'
<1> USE DEF KeysInv
<1>1. /\ UNCHANGED <<pc, shortcut, injected, down, locked, setUp, mode, seen,
                     wanted, lost>>
      /\ jobs' \in {jobs, Append(jobs, key)}
  BY DEF HandleKeyEvent, world
<1>2. jobs' \in Seq(Keys) /\ (jobs # <<>> => jobs' # <<>>)
  BY <1>1, Appended DEF KeysTypeOK
<1>3. KeysTypeOK' /\ JobInv' /\ SeenInv'
  BY <1>1, <1>2 DEF KeysTypeOK, JobInv, SeenInv, InUse
<1>4. KeyInv' /\ ModeInv'
  BY <1>1, EventsStay DEF KeyInv, ModeInv
<1> QED
  BY <1>3, <1>4

\* A job that ends without injecting anything.
LEMMA FinishKeeps ==
  ASSUME KeysInv, Finish, jobs # <<>>,
         UNCHANGED <<injected, down, locked, setUp, mode>>,
         seen' \subseteq InUseNow,
         \/ wanted' = wanted /\ pc # "down"
         \/ wanted' = "any",
         \/ lost' = lost /\ pc # "up"
         \/ lost' = lost \cup {shortcut}
  PROVE  KeysInv'
<1> USE DEF KeysInv
<1>1. pc' = "idle" /\ shortcut' = "none" /\ jobs' \in Seq(Keys)
  BY Taken DEF Finish, KeysTypeOK
<1>2. KeysTypeOK' /\ JobInv' /\ SeenInv'
  BY <1>1 DEF KeysTypeOK, Steps, JobInv, SeenInv, InUse
<1>3. KeyInv'
  BY <1>1, EventsStay DEF KeyInv
<1>4. ModeInv'
  BY <1>1, EventsStay DEF ModeInv
<1> QED
  BY <1>2, <1>3, <1>4

\* A job is begun with the question whether the keyguard is locked.
LEMMA AskKeyguardKeeps ==
  ASSUME KeysInv, AskKeyguard
  PROVE  KeysInv'
<1> USE DEF KeysInv
<1>1. /\ pc = "idle" /\ jobs # <<>>
      /\ UNCHANGED <<injected, down, locked, setUp, mode, wanted, lost>>
  BY DEF AskKeyguard, world
<1>2. /\ seen' \subseteq InUseNow
      /\ locked = FALSE => "unlocked" \in seen'
      /\ setUp # FALSE => "setUp" \in seen'
  BY DEF AskKeyguard, KeysTypeOK, InUseNow
<1>3. CASE locked = TRUE
  BY <1>1, <1>2, <1>3, FinishKeeps DEF AskKeyguard
<1>4. CASE locked = FALSE
  <2>1. pc' = "setup" /\ UNCHANGED <<jobs, shortcut>>
    BY <1>4 DEF AskKeyguard, Proceed
  <2>2. KeysTypeOK' /\ JobInv' /\ SeenInv'
    BY <1>1, <1>2, <1>4, <2>1 DEF KeysTypeOK, Steps, JobInv, SeenInv, InUse
  <2>3. KeyInv' /\ ModeInv'
    BY <1>1, <2>1, EventsStay DEF KeyInv, ModeInv
  <2> QED
    BY <2>2, <2>3
<1> QED
  BY <1>3, <1>4 DEF KeysTypeOK

\* The second question, whether the setup is complete.
LEMMA AskSetupKeeps ==
  ASSUME KeysInv, AskSetup
  PROVE  KeysInv'
<1> USE DEF KeysInv
<1>1. /\ pc = "setup" /\ jobs # <<>>
      /\ UNCHANGED <<injected, down, locked, setUp, mode, seen, wanted, lost>>
  BY DEF AskSetup, world, JobInv
<1>2. CASE setUp = FALSE
  BY <1>1, <1>2, FinishKeeps DEF AskSetup, UserSetupComplete, KeysTypeOK
<1>3. CASE setUp = TRUE
  <2>1. pc' \in {"launch", "tasks"} /\ UNCHANGED <<jobs, shortcut>>
    BY <1>3 DEF AskSetup, UserSetupComplete, Proceed
  <2>2. seen = InUseNow
    BY <1>1, <1>3 DEF SeenInv, KeysTypeOK, InUseNow
  <2>3. KeysTypeOK' /\ JobInv' /\ SeenInv'
    BY <1>1, <2>1, <2>2
    DEF KeysTypeOK, Steps, JobInv, SeenInv, InUse, InUseNow
  <2>4. KeyInv' /\ ModeInv'
    BY <1>1, <2>1, EventsStay DEF KeyInv, ModeInv
  <2> QED
    BY <2>3, <2>4
<1> QED
  BY <1>2, <1>3 DEF KeysTypeOK

\* The shortcut for the mode that the job wants.
LEMMA GetTasksKeeps ==
  ASSUME KeysInv, GetTasks
  PROVE  KeysInv'
<1> USE DEF KeysInv
<1>1. /\ pc = "tasks" /\ pc' = "down"
      /\ UNCHANGED <<jobs, injected, down, locked, setUp, mode, seen, lost>>
      /\ shortcut' = IF mode = "split" THEN "up" ELSE "left"
      /\ wanted' \in Modes \ {mode}
  BY DEF GetTasks, Proceed, Shortcut, world
<1>2. KeysTypeOK' /\ JobInv' /\ SeenInv'
  BY <1>1 DEF KeysTypeOK, Steps, Codes, JobInv, SeenInv, InUse
<1>3. KeyInv'
  BY <1>1, EventsStay DEF KeyInv
<1>4. ModeInv'
  BY <1>1 DEF ModeInv, ModeOf, KeysTypeOK, Modes
<1> QED
  BY <1>2, <1>3, <1>4

\* The first event of a shortcut.
LEMMA InjectDownKeeps ==
  ASSUME KeysInv, InjectDown
  PROVE  KeysInv'
<1> USE DEF KeysInv
<1> DEFINE e == [action |-> "down", code |-> shortcut]
<1>1. /\ pc = "down" /\ pc' = "up" /\ injected' = Append(injected, e)
      /\ UNCHANGED <<jobs, shortcut, down, locked, setUp, mode, seen, wanted,
                     lost>>
  BY DEF InjectDown, Proceed, world
<1>2. e \in Event /\ e.action = "down" /\ e.code = shortcut
  BY <1>1 DEF JobInv, Event
<1> HIDE DEF e
<1>3. injected \in Seq(Event) /\ injected' \in Seq(Event)
  BY <1>1, <1>2, Appended DEF KeysTypeOK
<1>4. KeysTypeOK' /\ JobInv' /\ SeenInv'
  BY <1>1, <1>3 DEF KeysTypeOK, Steps, JobInv, SeenInv, InUse
<1>5. KeyInv'
  BY <1>1, <1>2, <1>3, StaysDownAppend DEF KeyInv
<1>6. ModeInv'
  BY <1>1, <1>2, <1>3, BecomesAppend DEF ModeInv
<1> QED
  BY <1>4, <1>5, <1>6

\* The second event of a shortcut, which may be lost.
LEMMA InjectUpKeeps ==
  ASSUME KeysInv, InjectUp
  PROVE  KeysInv'
<1> USE DEF KeysInv
<1> DEFINE e == [action |-> "up", code |-> shortcut]
<1>1. /\ pc = "up" /\ pc' = "idle" /\ shortcut' = "none"
      /\ injected' = Append(injected, e) /\ lost' = lost \ {shortcut}
      /\ jobs' = Tail(jobs)
      /\ UNCHANGED <<down, locked, setUp, mode, seen, wanted>>
  BY DEF InjectUp, WithUp, Finish, world
<1>2. e \in Event /\ e.action = "up" /\ e.code = shortcut
  BY <1>1 DEF JobInv, Event
<1> HIDE DEF e
<1>3. /\ injected \in Seq(Event) /\ injected' \in Seq(Event)
      /\ jobs' \in Seq(Keys)
  BY <1>1, <1>2, Appended, Taken DEF KeysTypeOK, JobInv
<1>4. KeysTypeOK' /\ JobInv' /\ SeenInv'
  BY <1>1, <1>3 DEF KeysTypeOK, Steps, JobInv, SeenInv, InUse
<1>5. KeyInv'
  BY <1>1, <1>2, <1>3, StaysDownAppend DEF KeyInv
<1>6. ModeInv'
  BY <1>1, <1>2, <1>3, BecomesAppend DEF ModeInv
<1> QED
  BY <1>4, <1>5, <1>6

\* An event takes effect.
LEMMA DispatchKeeps ==
  ASSUME KeysInv, Dispatch
  PROVE  KeysInv'
<1> USE DEF KeysInv
<1>1. /\ injected # <<>> /\ injected \in Seq(Event)
      /\ injected' = Tail(injected) /\ injected' \in Seq(Event)
      /\ injected[1] \in Event /\ Head(injected) = injected[1]
      /\ UNCHANGED <<jobs, pc, shortcut, locked, setUp, seen, wanted, lost>>
  BY Taken DEF Dispatch, handler, KeysTypeOK
<1>2. /\ down' = IF injected[1].action = "down" THEN down \cup {injected[1].code}
                                               ELSE down \ {injected[1].code}
      /\ mode' = IF injected[1].action = "down" THEN ModeOf(injected[1].code)
                                               ELSE mode
  BY <1>1 DEF Dispatch, ModeOf
<1>3. KeysTypeOK' /\ JobInv' /\ SeenInv'
  BY <1>1, <1>2 DEF KeysTypeOK, Event, ModeOf, Modes, JobInv, SeenInv, InUse
<1>4. KeyInv'
  BY <1>1, <1>2, StaysDownTake DEF KeyInv
<1>5. ModeInv'
  BY <1>1, <1>2, BecomesTake DEF ModeInv
<1> QED
  BY <1>3, <1>4, <1>5

\* The keyguard, the setup and the window mode change on their own.
LEMMA WorldKeeps ==
  ASSUME KeysInv, ToggleKeyguard \/ ToggleSetup \/ ChangeMode
  PROVE  KeysInv'
<1> USE DEF KeysInv
<1>1. CASE ToggleKeyguard
  <2>1. /\ UNCHANGED <<jobs, pc, shortcut, injected, down, setUp, mode, wanted,
                       lost>>
        /\ locked' \in BOOLEAN /\ seen \subseteq seen' /\ seen' \subseteq InUseNow
    BY <1>1 DEF ToggleKeyguard, handler, KeysTypeOK, InUseNow
  <2>2. KeysTypeOK' /\ JobInv' /\ SeenInv'
    BY <2>1 DEF KeysTypeOK, JobInv, SeenInv, InUse, InUseNow
  <2>3. KeyInv' /\ ModeInv'
    BY <2>1, EventsStay DEF KeyInv, ModeInv
  <2> QED
    BY <2>2, <2>3
<1>2. CASE ToggleSetup
  <2>1. /\ UNCHANGED <<jobs, pc, shortcut, injected, down, locked, mode, wanted,
                       lost>>
        /\ setUp' \in BOOLEAN /\ seen \subseteq seen' /\ seen' \subseteq InUseNow
        /\ setUp' # FALSE => "setUp" \in seen'
    BY <1>2 DEF ToggleSetup, handler, KeysTypeOK, InUseNow
  <2>2. KeysTypeOK' /\ JobInv' /\ SeenInv'
    BY <2>1 DEF KeysTypeOK, JobInv, SeenInv, InUse, InUseNow
  <2>3. KeyInv' /\ ModeInv'
    BY <2>1, EventsStay DEF KeyInv, ModeInv
  <2> QED
    BY <2>2, <2>3
<1>3. CASE ChangeMode
  <2>1. /\ UNCHANGED <<jobs, pc, shortcut, injected, down, locked, setUp, seen,
                       lost>>
        /\ mode' \in Modes /\ wanted' = "any"
    BY <1>3 DEF ChangeMode, handler
  <2>2. KeysTypeOK' /\ JobInv' /\ SeenInv'
    BY <2>1 DEF KeysTypeOK, JobInv, SeenInv, InUse
  <2>3. KeyInv' /\ ModeInv'
    BY <2>1 DEF KeyInv, ModeInv, StaysDown
  <2> QED
    BY <2>2, <2>3
<1> QED
  BY <1>1, <1>2, <1>3

-----------------------------------------------------------------------------
(* The theorems.                                                           *)

\* Nothing is pressed at first.
LEMMA InitKeysInv == Init => KeysInv
BY DEF Init, KeysInv, KeysTypeOK, Steps, JobInv, SeenInv, InUse, KeyInv,
       StaysDown, ModeInv

\* Every step of the handler, the keys and the system keeps the invariant.
LEMMA NextKeysInv == KeysInv /\ [Next]_vars => KeysInv'
<1> SUFFICES ASSUME KeysInv, [Next]_vars
             PROVE  KeysInv'
  OBVIOUS
<1>1. ASSUME NEW key \in Keys, NEW keyboard \in Keyboards,
             \/ Press(key, keyboard)
             \/ Repeat(key, keyboard)
             \/ Release(key, keyboard)
      PROVE  KeysInv'
  BY <1>1, KeyEventKeeps DEF Press, Repeat, Release
<1>2. CASE StartActivity \/ Throw
  <2>1. /\ Finish /\ jobs # <<>>
        /\ UNCHANGED <<injected, down, locked, setUp, mode, seen>>
        /\ \/ wanted' = wanted /\ pc # "down"
           \/ wanted' = "any"
        /\ \/ lost' = lost /\ pc # "up"
           \/ lost' = lost \cup {shortcut}
    BY <1>2 DEF StartActivity, Throw, Caught, world, KeysInv, JobInv
  <2> QED
    BY <2>1, FinishKeeps DEF KeysInv, KeysTypeOK
<1>3. CASE UNCHANGED vars
  <2>1. UNCHANGED <<jobs, pc, shortcut, injected, down, locked, setUp, mode,
                    seen, wanted, lost>>
    BY <1>3 DEF vars, handler, world
  <2>2. KeysTypeOK' /\ JobInv' /\ SeenInv'
    BY <2>1 DEF KeysInv, KeysTypeOK, JobInv, SeenInv, InUse
  <2>3. KeyInv' /\ ModeInv'
    BY <2>1, EventsStay DEF KeysInv, KeyInv, ModeInv
  <2> QED
    BY <2>2, <2>3 DEF KeysInv
<1> QED
  BY <1>1, <1>2, <1>3, AskKeyguardKeeps, AskSetupKeeps, GetTasksKeeps,
     InjectDownKeeps, InjectUpKeeps, DispatchKeeps, WorldKeeps DEF Next, Handle

\* What the job in progress has seen, and what the keys and the window mode will
\* be once every event has been dispatched, for any presses and exceptions.
THEOREM KeysInvariant == Spec => []KeysInv
BY InitKeysInv, NextKeysInv, PTL DEF Spec

\* A job that starts something has seen the keyguard open and the setup complete.
THEOREM OnlyInUse == Spec => []InUse
<1>1. KeysInv => InUse
  BY DEF KeysInv, SeenInv
<1> QED
  BY <1>1, KeysInvariant, PTL

\* No key of a shortcut is left down, however many shortcuts overlap and
\* whichever calls throw, unless its own release has been lost.
THEOREM KeysAreReleased == Spec => []KeysReleased
<1>1. KeysInv => KeysReleased
  <2> SUFFICES ASSUME KeysInv, Quiet, NEW c \in down
               PROVE  c \in lost
    BY DEF KeysReleased
  <2>1. pc # "up" /\ c \in Codes /\ DOMAIN injected = {}
    BY DEF KeysInv, KeysTypeOK, JobInv, Quiet
  <2>2. StaysDown(c)
    BY <2>1 DEF StaysDown
  <2> QED
    BY <2>1, <2>2 DEF KeysInv, KeyInv
<1> QED
  BY <1>1, KeysInvariant, PTL

\* The last press of the split key decides about the mode, however many of them
\* overlap.
THEOREM SplitIsToggled == Spec => []SplitToggled
<1>1. KeysInv => SplitToggled
  <2> SUFFICES ASSUME KeysInv, Quiet, wanted # "any"
               PROVE  mode = wanted
    BY DEF SplitToggled
  <2>1. pc # "down" /\ DOMAIN injected = {}
    BY DEF KeysInv, JobInv, Quiet
  <2> QED
    BY <2>1 DEF KeysInv, ModeInv, Becomes
<1> QED
  BY <1>1, KeysInvariant, PTL

\* Every press is one that has been handled or one that waits in the queue.
PressesCounted ==
  presses \in Nat /\ handled \in Nat /\ presses = handled + Len(jobs)

\* No press is lost, however many of them wait and whichever calls throw: what
\* has not been handled is still in the queue, for the handler to take.
THEOREM NoPressIsLost == Spec => []PressesCounted
<1>1. Init => PressesCounted
  BY DEF Init, PressesCounted
<1>2. KeysInv /\ PressesCounted /\ [Next]_vars => PressesCounted'
  <2> SUFFICES ASSUME KeysInv, PressesCounted, [Next]_vars
               PROVE  PressesCounted'
    OBVIOUS
  <2>1. ASSUME NEW key \in Keys, Press(key, "amazon")
        PROVE  PressesCounted'
    <3>1. /\ jobs' = Append(jobs, key) /\ presses' = presses + 1
          /\ handled' = handled
      BY <2>1 DEF Press, HandleKeyEvent, Posts
    <3>2. Len(jobs) \in Nat /\ Len(jobs') = Len(jobs) + 1
      BY <3>1 DEF KeysInv, KeysTypeOK
    <3> QED
      BY <3>1, <3>2 DEF PressesCounted
  <2>2. ASSUME NEW key \in Keys, NEW keyboard \in Keyboards,
               \/ Press(key, keyboard) /\ keyboard # "amazon"
               \/ Repeat(key, keyboard)
               \/ Release(key, keyboard)
        PROVE  PressesCounted'
    BY <2>2 DEF Press, Repeat, Release, HandleKeyEvent, Posts, PressesCounted
  <2>3. ASSUME Finish, jobs # <<>>, presses' = presses
        PROVE  PressesCounted'
    <3>1. Len(jobs) \in Nat /\ Len(jobs') = Len(jobs) - 1
      BY <2>3 DEF Finish, KeysInv, KeysTypeOK
    <3> QED
      BY <2>3, <3>1 DEF Finish, PressesCounted
  <2>4. ASSUME UNCHANGED <<jobs, presses, handled>>
        PROVE  PressesCounted'
    BY <2>4 DEF PressesCounted
  <2>5. CASE Handle
    <3>1. jobs # <<>> /\ presses' = presses
      BY <2>5 DEF Handle, AskKeyguard, AskSetup, StartActivity, GetTasks,
                  InjectDown, InjectUp, Throw, KeysInv, JobInv
    <3>2. Finish \/ UNCHANGED <<jobs, handled>>
      BY <2>5 DEF Handle, AskKeyguard, AskSetup, StartActivity, GetTasks,
                  InjectDown, InjectUp, Throw, Caught, Proceed
    <3> QED
      BY <2>3, <2>4, <3>1, <3>2
  <2>6. CASE Dispatch \/ ToggleKeyguard \/ ToggleSetup \/ ChangeMode
    BY <2>4, <2>6 DEF Dispatch, ToggleKeyguard, ToggleSetup, ChangeMode, handler
  <2>7. CASE UNCHANGED vars
    BY <2>4, <2>7 DEF vars, handler
  <2> QED
    BY <2>1, <2>2, <2>5, <2>6, <2>7 DEF Next
<1> QED
  BY <1>1, <1>2, KeysInvariant, PTL DEF Spec

-----------------------------------------------------------------------------
(* The pen's battery warning.                                              *)

PenTypeOK ==
  /\ event # <<>> => event[1] \in Levels \cup {NoLevel}
  /\ queue \in Seq(Levels)
  /\ reported \in Levels \cup {NoLevel}
  /\ dismissed \in BOOLEAN

\* The last level reported is the last one that waits for the main looper.
LastReported == queue # <<>> => reported = queue[Len(queue)]

PenInv ==
  /\ PenTypeOK
  /\ LastReported
  /\ created = FALSE => observing = FALSE
  /\ WarnedOfLast

\* Nothing is reported at first.
LEMMA InitPenInv == PenInit => PenInv
<1> SUFFICES ASSUME PenInit
             PROVE  PenInv
  OBVIOUS
<1>1. <<>> \in Seq(Levels)
  OBVIOUS
<1> QED
  BY <1>1 DEF PenInit, PenInv, PenTypeOK, LastReported, WarnedOfLast

\* A step that reports nothing and handles no report.
LEMMA NoReportKeeps ==
  ASSUME PenInv, UNCHANGED <<event, queue, reported>>,
         created' = FALSE => observing' = FALSE,
         \/ UNCHANGED <<shown, dismissed>>
         \/ shown' = NoLevel /\ dismissed' = TRUE
  PROVE  PenInv'
<1> USE DEF PenInv
<1>1. PenTypeOK' /\ LastReported'
  BY DEF PenTypeOK, LastReported
<1>2. CASE UNCHANGED <<shown, dismissed>>
  BY <1>1, <1>2 DEF WarnedOfLast
<1>3. CASE shown' = NoLevel /\ dismissed' = TRUE
  <2>1. WarnedOfLast'
    BY <1>3, Zenon DEF WarnedOfLast
  <2> QED
    BY <1>1, <2>1
<1> QED
  BY <1>2, <1>3

\* The observer posts what it is told, and forgets an event without a level.
LEMMA OnUEventKeeps ==
  ASSUME PenInv, OnUEvent
  PROVE  PenInv'
<1> USE DEF PenInv
<1>1. /\ event' = <<>> /\ event[1] \in Levels \cup {NoLevel}
      /\ UNCHANGED <<created, observing, shown>>
  BY DEF OnUEvent, service, PenTypeOK
<1>2. CASE event[1] = NoLevel
  <2>1. UNCHANGED <<queue, reported, dismissed>>
    BY <1>2 DEF OnUEvent, Readable, history
  <2> QED
    BY <1>1, <2>1 DEF PenTypeOK, LastReported, WarnedOfLast
<1>3. CASE event[1] # NoLevel
  <2>1. /\ queue' = Append(queue, event[1]) /\ reported' = event[1]
        /\ dismissed' = FALSE
    BY <1>3 DEF OnUEvent, Readable
  <2>2. /\ queue' \in Seq(Levels) /\ queue' # <<>>
        /\ queue'[Len(queue')] = event[1]
    BY <1>1, <1>3, <2>1 DEF PenTypeOK
  <2> QED
    BY <1>1, <2>1, <2>2 DEF PenTypeOK, LastReported, WarnedOfLast
<1> QED
  BY <1>2, <1>3

\* The main looper shows or withdraws the warning: of the last level reported,
\* when no other is waiting.
LEMMA UpdateKeeps ==
  ASSUME PenInv, UpdateBatteryLevel
  PROVE  PenInv'
<1> USE DEF PenInv
<1>1. /\ queue # <<>> /\ queue' = Tail(queue) /\ dismissed' = FALSE
      /\ shown' = IF Head(queue) > Threshold THEN NoLevel ELSE Head(queue)
      /\ UNCHANGED <<created, observing, event, reported>>
  BY DEF UpdateBatteryLevel, Warning, service
<1>2. queue' \in Seq(Levels) /\ Head(queue) \in Levels
  BY <1>1 DEF PenTypeOK
<1>3. CASE queue' = <<>>
  <2> PICK n \in Nat \ {0} : n = Len(queue)
    BY <1>1, Taken DEF PenTypeOK
  <2>0. Len(queue) = 1
    <3>1. DOMAIN queue' = 1 .. n - 1
      BY <1>1, Taken DEF PenTypeOK
    <3>2. DOMAIN queue' = {}
      BY <1>3
    <3>3. ~(1 \in 1 .. n - 1)
      BY <3>1, <3>2
    <3> QED
      BY <3>3
  <2>1. reported = Head(queue)
    BY <1>1, <2>0, Taken DEF PenTypeOK, LastReported
  <2>2. reported \in Nat /\ Threshold \in Nat
    BY <1>2, <2>1, ConstantsAssumption
  <2>3. shown' = IF reported <= Threshold THEN reported ELSE NoLevel
    <3>1. shown' = IF reported > Threshold THEN NoLevel ELSE reported
      BY <1>1, <2>1
    <3> QED
      BY <2>2, <3>1
  <2> QED
    BY <1>1, <1>2, <1>3, <2>3 DEF PenTypeOK, LastReported, WarnedOfLast
<1>4. CASE queue' # <<>>
  <2> PICK n \in Nat \ {0} : n = Len(queue)
    BY <1>1, Taken DEF PenTypeOK
  <2>0. n > 1 /\ Len(queue') = n - 1
    BY <1>1, <1>4, Taken DEF PenTypeOK
  <2>1. queue'[Len(queue')] = queue[Len(queue)]
    BY <1>1, <2>0, Taken DEF PenTypeOK
  <2> QED
    BY <1>1, <1>2, <1>4, <2>1 DEF PenTypeOK, LastReported, WarnedOfLast
<1> QED
  BY <1>3, <1>4

\* Every step of the kernel, the service and the user keeps the invariant.
LEMMA NextPenInv == PenInv /\ [PenNext]_penVars => PenInv'
<1> SUFFICES ASSUME PenInv, [PenNext]_penVars
             PROVE  PenInv'
  OBVIOUS
<1>1. CASE BootCompleted \/ Dismiss \/ OnCreate \/ OnDestroy
  <2>1. /\ UNCHANGED <<event, queue, reported>>
        /\ created' = FALSE => observing' = FALSE
        /\ \/ UNCHANGED <<shown, dismissed>>
           \/ shown' = NoLevel /\ dismissed' = TRUE
    BY <1>1 DEF BootCompleted, Dismiss, OnCreate, OnDestroy,
                StopObserving, service, history, PenInv
  <2> QED
    BY <2>1, NoReportKeeps
<1>2. CASE Crash
  <2>1. <<>> \in Seq(Levels)
    OBVIOUS
  <2> QED
    BY <1>2, <2>1
    DEF Crash, PenInv, PenTypeOK, LastReported, WarnedOfLast
<1>3. ASSUME NEW level \in Levels \cup {NoLevel}, UEvent(level)
      PROVE  PenInv'
  BY <1>3 DEF UEvent, service, history, PenInv, PenTypeOK,
              LastReported, WarnedOfLast
<1>4. CASE UNCHANGED penVars
  BY <1>4, NoReportKeeps DEF penVars, service, history, PenInv
<1> QED
  BY <1>1, <1>2, <1>3, <1>4, OnUEventKeeps, UpdateKeeps DEF PenNext

\* What is reported, what waits and what is shown go together, whatever crashes.
THEOREM PenInvariant == PenSpec => []PenInv
BY InitPenInv, NextPenInv, PTL DEF PenSpec

\* Once the main looper has caught up, the warning is that of the last report,
\* whatever the levels, the threshold and the length of the queue are.
THEOREM WarnedOfTheLast == PenSpec => []WarnedOfLast
<1>1. PenInv => WarnedOfLast
  BY DEF PenInv
<1> QED
  BY <1>1, PenInvariant, PTL

\* Nothing but the user changes what a destroyed service has left on the screen.
THEOREM DestroyedIsSilent == PenSpec => SilentAfterDestroy
<1>1. PenInv /\ [PenNext]_penVars
        => [~created /\ event = <<>> /\ queue = <<>>
              => event' = <<>> /\ (shown' # shown => dismissed')]_penVars
  <2> SUFFICES ASSUME PenInv, PenNext, ~created, event = <<>>, queue = <<>>
               PROVE  event' = <<>> /\ (shown' # shown => dismissed')
    BY Zenon
  <2>1. ~observing
    BY DEF PenInv
  <2> QED
    BY <2>1
    DEF PenNext, BootCompleted, Crash, Dismiss, UEvent,
        OnUEvent, OnCreate, OnDestroy, UpdateBatteryLevel,
        service, history
<1> QED
  BY <1>1, PenInvariant, PTL DEF PenSpec, SilentAfterDestroy
=============================================================================
