--------------------------- MODULE TrackpadProofs ---------------------------
(***************************************************************************)
(* Proofs about Trackpad, for every set of users and devices and every     *)
(* bound.  The inductive invariant says where a disagreement may still be  *)
(* on its way to being repaired: either a broadcast that will make the     *)
(* handler repair it is in flight, or the handler is working on it now.    *)
(***************************************************************************)
EXTENDS Trackpad, SequenceTheorems, TLAPS

\* A broadcast that makes the handler apply the current user's setting.
FixPending == \E e \in InFlight : e.what \in {"bootCompleted", "userSwitched"}

\* A broadcast that makes the handler drop its connection.
DetachPending ==
  \E e \in InFlight : e.what = "detached" /\ e.dev \in Keyboards

\* What the handler holds at each call; nothing of it is still unplugged.
ConnectionAt ==
  /\ run.pc = "idle" => run = Idle
  /\ run.pc \in {"findDevice", "openDevice", "claimInterface"}
       => connection = NoDevice
  /\ run.pc \in {"openDevice", "claimInterface"}
       => run.found \in Trackpads \ unplugged
  /\ run.pc \in {"bulkTransfer", "writeSetting"} => connection # NoDevice
  /\ connection \notin unplugged

\* A device that is gone, and that the handler uses, has been announced gone.
GoneAnnounced ==
  /\ connection \in attached \cup {NoDevice} \/ DetachPending
  /\ run.pc \in {"openDevice", "claimInterface"}
       => run.found \in attached \/ DetachPending

\* What a job is about to send is what the current setting asks for, or the
\* user has been switched since the setting was read.
WantCurrent ==
  run.pc \in {"findDevice", "openDevice", "claimInterface", "bulkTransfer"} =>
    \/ FixPending
    \/ run.want = IF run.job = "toggleTrackpad" THEN setting[user]
                                                ELSE ~setting[user]

\* Between jobs a connected trackpad obeys the setting or will be made to.
IdleAgrees ==
  run.pc = "idle" /\ connection # NoDevice =>
    FixPending \/ pad[connection] = ~setting[user]

\* SettledAgrees is the consequence of this invariant when the queues are
\* empty.  AckBeforeWrite holds with a fallible settings provider too, so it
\* is part of the first of two invariants.
HandleInv == TypeOK /\ HandlesOwned /\ ConnectionAt /\ AckBeforeWrite

SyncInv == HandleInv /\ GoneAnnounced /\ WantCurrent /\ IdleAgrees

-----------------------------------------------------------------------------
(* Sequences as sets of messages.                                          *)

\* Appending adds one element.
LEMMA RangeAppend ==
  ASSUME NEW S, NEW s \in Seq(S), NEW e \in S
  PROVE  /\ Append(s, e) \in Seq(S)
         /\ Range(Append(s, e)) = Range(s) \cup {e}
<1> DEFINE t == Append(s, e)
<1>1. /\ t \in Seq(S)
      /\ Len(s) \in Nat
      /\ DOMAIN s = 1 .. Len(s)
      /\ DOMAIN t = 1 .. Len(s) + 1
      /\ \A i \in 1 .. Len(s) : t[i] = s[i]
      /\ t[Len(s) + 1] = e
  OBVIOUS
<1>2. ASSUME NEW x \in Range(t)
      PROVE  x \in Range(s) \cup {e}
  <2>1. PICK i \in DOMAIN t : x = t[i]
    BY <1>2 DEF Range
  <2>2. CASE i = Len(s) + 1
    BY <1>1, <2>1, <2>2
  <2>3. CASE i \in 1 .. Len(s)
    BY <1>1, <2>1, <2>3 DEF Range
  <2> QED
    BY <1>1, <2>1, <2>2, <2>3
<1>3. ASSUME NEW x \in Range(s)
      PROVE  x \in Range(t)
  <2>1. PICK i \in 1 .. Len(s) : x = s[i]
    BY <1>1, <1>3 DEF Range
  <2>2. i \in DOMAIN t /\ x = t[i]
    BY <1>1, <2>1
  <2> QED
    BY <2>2 DEF Range
<1>4. e \in Range(t)
  <2>1. Len(s) + 1 \in DOMAIN t
    BY <1>1
  <2> QED
    BY <1>1, <2>1 DEF Range
<1> QED
  BY <1>1, <1>2, <1>3, <1>4

\* A nonempty sequence is its head and its tail.
LEMMA RangeHeadTail ==
  ASSUME NEW S, NEW s \in Seq(S), s # <<>>
  PROVE  /\ Head(s) \in S
         /\ Tail(s) \in Seq(S)
         /\ Range(s) = Range(Tail(s)) \cup {Head(s)}
<1> DEFINE t == Tail(s)
<1>1. /\ Head(s) \in S
      /\ t \in Seq(S)
      /\ Len(s) \in Nat \ {0}
      /\ DOMAIN s = 1 .. Len(s)
      /\ DOMAIN t = 1 .. Len(s) - 1
      /\ \A i \in 1 .. Len(s) - 1 : t[i] = s[i + 1]
      /\ Head(s) = s[1]
  OBVIOUS
<1>2. ASSUME NEW x \in Range(s)
      PROVE  x \in Range(t) \cup {Head(s)}
  <2>1. PICK i \in 1 .. Len(s) : x = s[i]
    BY <1>1, <1>2 DEF Range
  <2>2. CASE i = 1
    BY <1>1, <2>1, <2>2
  <2>3. CASE i # 1
    <3>1. i - 1 \in DOMAIN t /\ x = t[i - 1]
      BY <1>1, <2>1, <2>3
    <3> QED
      BY <3>1 DEF Range
  <2> QED
    BY <2>2, <2>3
<1>3. ASSUME NEW x \in Range(t)
      PROVE  x \in Range(s)
  <2>1. PICK i \in 1 .. Len(s) - 1 : x = t[i]
    BY <1>1, <1>3 DEF Range
  <2>2. i + 1 \in DOMAIN s /\ x = s[i + 1]
    BY <1>1, <2>1
  <2> QED
    BY <2>2 DEF Range
<1>4. Head(s) \in Range(s)
  <2>1. 1 \in DOMAIN s
    BY <1>1
  <2> QED
    BY <1>1, <2>1 DEF Range
<1> QED
  BY <1>1, <1>2, <1>3, <1>4

-----------------------------------------------------------------------------
(* HandleInv is inductive.                                                 *)

\* Idle is one of the states of the handler thread.
LEMMA IdleInRun == Idle \in Run /\ Idle.pc = "idle"
BY DEF Idle, Run

\* A bound that is used up by one stays a bound.
LEMMA SpendType ==
  ASSUME NEW what \in {"press", "switch", "fault"}, Spend(what),
         budget \in [{"press", "switch", "fault"} -> Nat]
  PROVE  budget' \in [{"press", "switch", "fault"} -> Nat]
BY DEF Spend

\* The handler starts with nothing in its hands.
LEMMA InitHandleInv == Init => HandleInv
<1> SUFFICES ASSUME Init
             PROVE  HandleInv
  OBVIOUS
<1> USE ConstantsAssumption
<1>1. userPending \in Seq(Message)
  BY DEF Init, Message, Broadcast
<1>2. TypeOK
  BY <1>1 DEF TypeOK, Init, Idle, Run
<1>3. HandlesOwned /\ ConnectionAt /\ AckBeforeWrite
  BY DEF Init, Idle, HandlesOwned, ConnectionAt, AckBeforeWrite
<1> QED
  BY <1>2, <1>3 DEF HandleInv

\* No step of the handler, the system or the user loses hold of a descriptor.
LEMMA NextHandleInv == HandleInv /\ [Next]_vars => HandleInv'
<1> SUFFICES ASSUME HandleInv, [Next]_vars
             PROVE  HandleInv'
  OBVIOUS
<1> USE ConstantsAssumption
<1> USE DEF HandleInv
<1>1. ASSUME NEW d \in Devices, Attach(d)
      PROVE  HandleInv'
  <2>1. TypeOK'
    BY <1>1 DEF Attach, TypeOK, conn, Broadcast, Message
  <2>2. HandlesOwned' /\ AckBeforeWrite'
    BY <1>1 DEF Attach, conn, TypeOK, HandlesOwned, AckBeforeWrite, ConnectionAt
  <2>3. ConnectionAt'
    BY <1>1 DEF Attach, conn, TypeOK, ConnectionAt
  <2> QED
    BY <2>1, <2>2, <2>3
<1>2. ASSUME NEW d \in Devices, Detach(d)
      PROVE  HandleInv'
  <2>1. TypeOK'
    BY <1>2 DEF Detach, TypeOK, conn, Broadcast, Message
  <2>2. HandlesOwned' /\ ConnectionAt' /\ AckBeforeWrite'
    BY <1>2 DEF Detach, conn, HandlesOwned, AckBeforeWrite, ConnectionAt
  <2> QED
    BY <2>1, <2>2
<1>3. ASSUME NEW u \in Users, SwitchUser(u)
      PROVE  HandleInv'
  <2>1. TypeOK'
    BY <1>3 DEF SwitchUser, Spend, TypeOK, conn, Broadcast, Message
  <2>2. HandlesOwned' /\ ConnectionAt' /\ AckBeforeWrite'
    BY <1>3 DEF SwitchUser, conn, HandlesOwned, AckBeforeWrite, ConnectionAt
  <2> QED
    BY <2>1, <2>2
<1>4. ASSUME DeliverUsb \/ DeliverUser
      PROVE  HandleInv'
  <2>1. TypeOK'
    <3>1. CASE DeliverUsb
      <4>1. Head(usbPending) \in Message /\ Tail(usbPending) \in Seq(Message)
        BY <3>1, RangeHeadTail DEF DeliverUsb, TypeOK
      <4> QED
        BY <3>1, <4>1 DEF DeliverUsb, TypeOK, env, conn
    <3>2. CASE DeliverUser
      <4>1. Head(userPending) \in Message /\ Tail(userPending) \in Seq(Message)
        BY <3>2, RangeHeadTail DEF DeliverUser, TypeOK
      <4> QED
        BY <3>2, <4>1 DEF DeliverUser, TypeOK, env, conn
    <3> QED
      BY <1>4, <3>1, <3>2
  <2>2. HandlesOwned' /\ ConnectionAt' /\ AckBeforeWrite'
    BY <1>4 DEF DeliverUsb, DeliverUser, env, conn, HandlesOwned,
                AckBeforeWrite, ConnectionAt
  <2> QED
    BY <2>1, <2>2
<1>5. ASSUME NEW d \in Devices \cup {NoDevice}, NEW down \in BOOLEAN,
             NEW repeat \in {0, 1}, HandleKeyEvent(d, down, repeat)
      PROVE  HandleInv'
  <2>1. TypeOK'
    <3>1. Broadcast("toggleTrackpad", NoDevice) \in Message
      BY DEF Broadcast, Message
    <3>2. budget' \in [{"press", "switch", "fault"} -> Nat]
      BY <1>5, SpendType DEF HandleKeyEvent, TypeOK
    <3>3. \/ queue' = Append(queue, Broadcast("toggleTrackpad", NoDevice))
          \/ queue' = queue
      BY <1>5 DEF HandleKeyEvent
    <3>4. queue' \in Seq(Message)
      <4>1. queue \in Seq(Message)
        BY DEF TypeOK
      <4> QED
        BY <3>1, <3>3, <4>1
    <3> QED
      BY <1>5, <3>2, <3>4 DEF HandleKeyEvent, TypeOK, env, conn
  <2>2. HandlesOwned' /\ ConnectionAt' /\ AckBeforeWrite'
    BY <1>5 DEF HandleKeyEvent, env, conn, HandlesOwned, AckBeforeWrite,
                ConnectionAt
  <2> QED
    BY <2>1, <2>2
<1>6. ASSUME OnAttached \/ OnUserBroadcast \/ OnToggleKey
      PROVE  HandleInv'
  <2>0. Tail(queue) \in Seq(Message)
    BY <1>6, RangeHeadTail DEF OnAttached, OnUserBroadcast, OnToggleKey, Take,
                               TypeOK
  <2>1. run = Idle /\ run' \in Run /\ (run' = run \/ run'.pc = "readSetting")
    <3>1. run = Idle
      BY <1>6 DEF OnAttached, OnUserBroadcast, OnToggleKey, Take
    <3>2. \/ UNCHANGED run
          \/ Start("applyTrackpadState")
          \/ Start("toggleTrackpad")
      BY <1>6 DEF OnAttached, OnUserBroadcast, OnToggleKey
    <3>3. ASSUME NEW job \in {"applyTrackpadState", "toggleTrackpad"},
                 Start(job)
          PROVE  run' \in Run /\ run'.pc = "readSetting"
      BY <3>3 DEF Start, Idle, Run
    <3> QED
      BY <3>1, <3>2, <3>3, IdleInRun
  <2>2. /\ queue' \in Seq(Message)
        /\ UNCHANGED <<setting, env, pad, conn, usbPending, userPending, budget>>
    BY <1>6, <2>0 DEF OnAttached, OnUserBroadcast, OnToggleKey, Take
  <2>3. TypeOK'
    BY <2>1, <2>2 DEF TypeOK, env, conn
  <2>4. HandlesOwned' /\ ConnectionAt' /\ AckBeforeWrite'
    BY <2>1, <2>2, IdleInRun DEF env, conn, HandlesOwned, AckBeforeWrite,
                                 ConnectionAt
  <2> QED
    BY <2>3, <2>4
<1>7. ASSUME OnDetached
      PROVE  HandleInv'
  <2>0. Tail(queue) \in Seq(Message)
    BY <1>7, RangeHeadTail DEF OnDetached, Take, TypeOK
  <2>1. TypeOK'
    BY <1>7, <2>0 DEF OnDetached, Take, CloseConnection, TypeOK, env, conn
  <2>2. HandlesOwned' /\ ConnectionAt' /\ AckBeforeWrite'
    BY <1>7 DEF OnDetached, Take, CloseConnection, Idle, TypeOK, env, conn,
                HandlesOwned, AckBeforeWrite, ConnectionAt
  <2> QED
    BY <2>1, <2>2
<1>8. ASSUME ReadSetting
      PROVE  HandleInv'
  <2>1. TypeOK'
    BY <1>8 DEF ReadSetting, Run, TypeOK, env, conn, mail
  <2>2. HandlesOwned' /\ ConnectionAt' /\ AckBeforeWrite'
    BY <1>8 DEF ReadSetting, Run, TypeOK, env, conn, mail, HandlesOwned,
                AckBeforeWrite, ConnectionAt
  <2> QED
    BY <2>1, <2>2
<1>9. ASSUME FindDevice
      PROVE  HandleInv'
  <2>1. /\ run.pc = "findDevice" /\ run \in Run
        /\ UNCHANGED <<setting, env, pad, conn, mail, budget>>
    BY <1>9 DEF FindDevice, HasTrackpad, TypeOK
  <2>2. \/ run' = Idle
        \/ \E d \in attached \cap Trackpads :
             run' = [run EXCEPT !.pc = "openDevice", !.found = d]
    BY <1>9 DEF FindDevice, HasTrackpad
  <2>3. CASE run' = Idle
    BY <2>1, <2>3, IdleInRun DEF TypeOK, env, conn, mail, HandlesOwned,
                                 AckBeforeWrite, ConnectionAt
  <2>4. ASSUME NEW d \in attached \cap Trackpads,
               run' = [run EXCEPT !.pc = "openDevice", !.found = d]
        PROVE  HandleInv'
    <3>1. run' \in Run /\ run'.pc = "openDevice" /\ run'.found = d
      BY <2>1, <2>4 DEF Run, TypeOK
    <3>2. d \notin unplugged
      BY DEF TypeOK
    <3> QED
      BY <2>1, <3>1, <3>2 DEF TypeOK, env, conn, mail, HandlesOwned,
                              AckBeforeWrite, ConnectionAt
  <2> QED
    BY <2>2, <2>3, <2>4
<1>10. ASSUME OpenDevice
       PROVE  HandleInv'
  <2>1. /\ run.pc = "openDevice" /\ run \in Run
        /\ connection = NoDevice /\ run.found \in Trackpads \ unplugged
        /\ UNCHANGED <<setting, env, pad, connection, endpoint, mail>>
    BY <1>10 DEF OpenDevice, TypeOK, ConnectionAt
  <2>2. budget' \in [{"press", "switch", "fault"} -> Nat]
    BY <1>10, SpendType DEF OpenDevice, CallFails, TypeOK
  <2>3. CASE handles' = handles \cup {run.found} /\ Goto("claimInterface")
    <3>1. /\ run' \in Run
          /\ run'.pc = "claimInterface" /\ run'.found = run.found
      BY <2>1, <2>3 DEF Goto, Run
    <3> QED
      BY <2>1, <2>2, <2>3, <3>1 DEF TypeOK, env, mail, HandlesOwned,
                                    AckBeforeWrite, ConnectionAt
  <2>4. CASE handles' = handles /\ run' = Idle
    BY <2>1, <2>2, <2>4, IdleInRun DEF TypeOK, env, mail, HandlesOwned,
                                       AckBeforeWrite, ConnectionAt
  <2> QED
    BY <1>10, <2>3, <2>4 DEF OpenDevice
<1>11. ASSUME ClaimInterface
       PROVE  HandleInv'
  <2>1. /\ run.pc = "claimInterface" /\ run \in Run
        /\ connection = NoDevice /\ run.found \in Trackpads \ unplugged
        /\ handles = {run.found}
        /\ UNCHANGED <<setting, env, pad, mail>>
    BY <1>11 DEF ClaimInterface, FoundClosed, TypeOK, ConnectionAt, HandlesOwned
  <2>2. budget' \in [{"press", "switch", "fault"} -> Nat]
    BY <1>11, SpendType DEF ClaimInterface, FoundClosed, CallFails, TypeOK
  <2>3. CASE /\ connection' = run.found /\ endpoint' = run.found
             /\ handles' = handles /\ Goto("bulkTransfer")
    <3>1. run' \in Run /\ run'.pc = "bulkTransfer"
      BY <2>1, <2>3 DEF Goto, Run
    <3> QED
      BY <2>1, <2>2, <2>3, <3>1 DEF TypeOK, env, mail, HandlesOwned,
                                    AckBeforeWrite, ConnectionAt
  <2>4. CASE /\ handles' = handles \ {run.found} /\ run' = Idle
             /\ UNCHANGED <<connection, endpoint>>
    BY <2>1, <2>2, <2>4, IdleInRun DEF TypeOK, env, mail, HandlesOwned,
                                       AckBeforeWrite, ConnectionAt
  <2> QED
    BY <1>11, <2>3, <2>4 DEF ClaimInterface, FoundClosed
<1>12. ASSUME TransferOk
       PROVE  HandleInv'
  <2>1. /\ run.pc = "bulkTransfer" /\ run \in Run
        /\ connection \in Trackpads
        /\ pad' = [pad EXCEPT ![connection] = run.want]
        /\ UNCHANGED <<setting, env, conn, mail, budget>>
    BY <1>12 DEF TransferOk, TypeOK, ConnectionAt
  <2>2. /\ run' \in Run
        /\ \/ run'.pc = "writeSetting" /\ run'.want = run.want
           \/ run' = Idle
    BY <1>12, <2>1, IdleInRun DEF TransferOk, Goto, Run
  <2>3. pad' \in [Devices -> BOOLEAN] /\ pad'[connection] = run.want
    BY <2>1 DEF TypeOK, Run
  <2>4. TypeOK'
    BY <2>1, <2>2, <2>3 DEF TypeOK, env, conn, mail
  <2>5. HandlesOwned' /\ ConnectionAt' /\ AckBeforeWrite'
    BY <2>1, <2>2, <2>3, IdleInRun DEF TypeOK, env, conn, HandlesOwned,
                                       AckBeforeWrite, ConnectionAt
  <2> QED
    BY <2>4, <2>5
<1>13. ASSUME TransferFails
       PROVE  HandleInv'
  <2>1. /\ run.pc = "bulkTransfer" /\ run \in Run
        /\ run' = Idle /\ CloseConnection
        /\ UNCHANGED <<setting, env, mail>>
    BY <1>13 DEF TransferFails, TypeOK
  <2>2. pad' \in [Devices -> BOOLEAN]
    BY <1>13, <2>1 DEF TransferFails, TypeOK, Run
  <2>3. budget' \in [{"press", "switch", "fault"} -> Nat]
    BY <1>13, SpendType DEF TransferFails, TypeOK
  <2>4. TypeOK'
    BY <2>1, <2>2, <2>3, IdleInRun DEF CloseConnection, TypeOK, env, mail
  <2>5. HandlesOwned' /\ ConnectionAt' /\ AckBeforeWrite'
    BY <2>1, IdleInRun DEF CloseConnection, TypeOK, env, HandlesOwned,
                           AckBeforeWrite, ConnectionAt
  <2> QED
    BY <2>4, <2>5
<1>14. ASSUME WriteSetting
       PROVE  HandleInv'
  <2>1. TypeOK'
    BY <1>14 DEF WriteSetting, UserCurrent, Idle, Run, TypeOK, env, conn, mail
  <2>2. HandlesOwned' /\ ConnectionAt' /\ AckBeforeWrite'
    BY <1>14 DEF WriteSetting, UserCurrent, Idle, TypeOK, env, conn, mail,
                 HandlesOwned,
                 AckBeforeWrite, ConnectionAt
  <2> QED
    BY <2>1, <2>2
<1>15. CASE UNCHANGED vars
  BY <1>15 DEF vars, env, conn, mail, TypeOK, HandlesOwned, AckBeforeWrite,
               ConnectionAt
<1> QED
  BY <1>1, <1>2, <1>3, <1>4, <1>5, <1>6, <1>7, <1>8, <1>9, <1>10, <1>11,
     <1>12, <1>13, <1>14, <1>15
     DEF Next, Environment, Deliver, Handler

\* What the handler holds at each of its calls.
THEOREM HandleInvHolds == Spec => []HandleInv
BY InitHandleInv, NextHandleInv, PTL DEF Spec

\* The variables of the handler have their types, and the endpoint it holds is
\* always one of a keyboard with the trackpad interface (openConnection).
THEOREM TypeCorrect == Spec => []TypeOK
<1>1. HandleInv => TypeOK
  BY DEF HandleInv
<1> QED
  BY <1>1, HandleInvHolds, PTL

\* No path through openConnection, setTrackpadEnabled and closeConnection
\* leaks a descriptor, for any number of keyboards, users, faults and presses.
THEOREM NoDescriptorLeaks == Spec => []HandlesOwned
<1>1. HandleInv => HandlesOwned
  BY DEF HandleInv
<1> QED
  BY <1>1, HandleInvHolds, PTL

\* toggleTrackpad stores only what the keyboard has accepted.
THEOREM StoredIsAcknowledged == Spec => []AckBeforeWrite
<1>1. HandleInv => AckBeforeWrite
  BY DEF HandleInv
<1> QED
  BY <1>1, HandleInvHolds, PTL

-----------------------------------------------------------------------------
(* What is in flight after a step.                                         *)

\* While nothing is taken, what is pending stays pending.
LEMMA Growing ==
  InFlight \subseteq InFlight'
    => (FixPending => FixPending') /\ (DetachPending => DetachPending')
BY DEF FixPending, DetachPending

\* A broadcast that is sent is in flight.
LEMMA SentIsInFlight ==
  ASSUME TypeOK, NEW e \in Message, UNCHANGED queue,
         \/ usbPending' = Append(usbPending, e) /\ UNCHANGED userPending
         \/ userPending' = Append(userPending, e) /\ UNCHANGED usbPending
  PROVE  InFlight' = InFlight \cup {e}
<1>1. usbPending \in Seq(Message) /\ userPending \in Seq(Message)
  BY DEF TypeOK
<1>2. CASE usbPending' = Append(usbPending, e) /\ UNCHANGED userPending
  <2>1. Range(usbPending') = Range(usbPending) \cup {e}
    BY <1>1, <1>2, RangeAppend
  <2> QED
    BY <1>2, <2>1 DEF InFlight
<1>3. CASE userPending' = Append(userPending, e) /\ UNCHANGED usbPending
  <2>1. Range(userPending') = Range(userPending) \cup {e}
    BY <1>1, <1>3, RangeAppend
  <2> QED
    BY <1>3, <2>1 DEF InFlight
<1> QED
  BY <1>2, <1>3

\* A delivery moves a broadcast to the queue and no further.
LEMMA DeliveredIsInFlight ==
  ASSUME TypeOK, DeliverUsb \/ DeliverUser
  PROVE  InFlight' = InFlight
<1>1. /\ queue \in Seq(Message)
      /\ usbPending \in Seq(Message)
      /\ userPending \in Seq(Message)
  BY DEF TypeOK
<1>2. CASE DeliverUsb
  <2>1. /\ Head(usbPending) \in Message
        /\ Range(usbPending) = Range(Tail(usbPending)) \cup {Head(usbPending)}
    BY <1>1, <1>2, RangeHeadTail DEF DeliverUsb
  <2>2. Range(queue') = Range(queue) \cup {Head(usbPending)}
    BY <1>1, <1>2, <2>1, RangeAppend DEF DeliverUsb
  <2> QED
    BY <1>2, <2>1, <2>2 DEF DeliverUsb, InFlight
<1>3. CASE DeliverUser
  <2>1. /\ Head(userPending) \in Message
        /\ Range(userPending) = Range(Tail(userPending)) \cup {Head(userPending)}
    BY <1>1, <1>3, RangeHeadTail DEF DeliverUser
  <2>2. Range(queue') = Range(queue) \cup {Head(userPending)}
    BY <1>1, <1>3, <2>1, RangeAppend DEF DeliverUser
  <2> QED
    BY <1>3, <2>1, <2>2 DEF DeliverUser, InFlight
<1> QED
  BY <1>2, <1>3

\* The input thread only posts.
LEMMA PressKeepsInFlight ==
  ASSUME TypeOK, NEW d, NEW down, NEW repeat, HandleKeyEvent(d, down, repeat)
  PROVE  InFlight \subseteq InFlight'
<1> DEFINE e == Broadcast("toggleTrackpad", NoDevice)
<1>1. queue \in Seq(Message) /\ e \in Message
  BY DEF TypeOK, Broadcast, Message
<1>2. queue' = Append(queue, e) \/ queue' = queue
  BY DEF HandleKeyEvent
<1>3. Range(queue) \subseteq Range(queue')
  <2>1. Range(Append(queue, e)) = Range(queue) \cup {e}
    BY <1>1, RangeAppend
  <2> HIDE DEF e
  <2> QED
    BY <1>2, <2>1
<1> QED
  BY <1>3 DEF HandleKeyEvent, InFlight

\* The handler thread takes the first message of the queue, and only that.
LEMMA TakenLeavesInFlight ==
  ASSUME TypeOK, NEW what, Take(what)
  PROVE  /\ InFlight \subseteq InFlight' \cup {Head(queue)}
         /\ Head(queue).what = what
<1>1. Range(queue) = Range(Tail(queue)) \cup {Head(queue)}
  <2>1. queue \in Seq(Message) /\ queue # <<>>
    BY DEF TypeOK, Take
  <2> QED
    BY <2>1, RangeHeadTail
<1> QED
  BY <1>1 DEF Take, InFlight

-----------------------------------------------------------------------------
(* A device that is gone has been announced gone.                          *)

\* Where every step leaves what is in flight, but for a message taken.
LEMMA StaysInFlight ==
  ASSUME TypeOK, [Next]_vars,
         ~(OnAttached \/ OnDetached \/ OnUserBroadcast \/ OnToggleKey)
  PROVE  InFlight \subseteq InFlight'
<1> USE ConstantsAssumption
<1>1. ASSUME NEW d \in Devices, Attach(d) \/ Detach(d)
      PROVE  InFlight \subseteq InFlight'
  <2>1. /\ Broadcast("attached", d) \in Message
        /\ Broadcast("detached", d) \in Message
    BY DEF Broadcast, Message
  <2> QED
    BY <1>1, <2>1, SentIsInFlight DEF Attach, Detach
<1>2. ASSUME NEW u \in Users, SwitchUser(u)
      PROVE  InFlight \subseteq InFlight'
  <2>1. Broadcast("userSwitched", NoDevice) \in Message
    BY DEF Broadcast, Message
  <2> QED
    BY <1>2, <2>1, SentIsInFlight DEF SwitchUser
<1>3. ASSUME UNCHANGED mail
      PROVE  InFlight \subseteq InFlight'
  BY <1>3 DEF mail, InFlight
<1>4. CASE \/ ReadSetting \/ FindDevice \/ OpenDevice \/ ClaimInterface
           \/ TransferOk \/ TransferFails \/ WriteSetting \/ UNCHANGED vars
  <2>1. UNCHANGED mail
    BY <1>4 DEF ReadSetting, FindDevice, OpenDevice, ClaimInterface, TransferOk,
                TransferFails, WriteSetting, vars
  <2> QED
    BY <1>3, <2>1
<1> QED
  BY <1>1, <1>2, <1>4, DeliveredIsInFlight, PressKeepsInFlight
  DEF Next, Environment, Deliver, Handler

\* Only a detached keyboard's own message takes the announcement away, and with
\* it goes the connection.
LEMMA NextGone == HandleInv /\ GoneAnnounced /\ [Next]_vars => GoneAnnounced'
<1> SUFFICES ASSUME HandleInv, GoneAnnounced, [Next]_vars
             PROVE  GoneAnnounced'
  OBVIOUS
<1>0. TypeOK /\ ConnectionAt
  BY DEF HandleInv
<1> USE ConstantsAssumption
<1>1. ASSUME NEW d \in Devices, Detach(d)
      PROVE  GoneAnnounced'
  <2> DEFINE e == Broadcast("detached", d)
  <2>1. e \in Message /\ e.what = "detached" /\ e.dev = d
    BY DEF Broadcast, Message
  <2>2. InFlight' = InFlight \cup {e}
    BY <1>0, <1>1, <2>1, SentIsInFlight DEF Detach
  <2>3. d \in Keyboards => DetachPending'
    BY <2>1, <2>2 DEF DetachPending
  <2>4. connection \in attached' \cup {NoDevice} \/ DetachPending'
    BY <1>0, <1>1, <2>2, <2>3, Growing DEF Detach, GoneAnnounced, TypeOK
  <2>5. run.pc \in {"openDevice", "claimInterface"}
          => run.found \in attached' \/ DetachPending'
    BY <1>0, <1>1, <2>2, <2>3, Growing DEF Detach, GoneAnnounced, ConnectionAt
  <2> QED
    BY <1>1, <2>4, <2>5 DEF Detach, conn, GoneAnnounced
<1>2. CASE OnDetached
  <2>1. UNCHANGED <<attached, run>> /\ run = Idle
    BY <1>2 DEF OnDetached, Take, env
  <2>2. CASE Head(queue).dev \in Keyboards
    <3>1. connection' = NoDevice
      BY <1>2, <2>2 DEF OnDetached, IsAmazonKeyboard, CloseConnection
    <3> QED
      BY <2>1, <3>1, IdleInRun DEF GoneAnnounced
  <2>3. CASE Head(queue).dev \notin Keyboards
    <3>1. UNCHANGED conn
      BY <1>2, <2>3 DEF OnDetached, IsAmazonKeyboard
    <3>2. InFlight \subseteq InFlight' \cup {Head(queue)}
      BY <1>0, <1>2, TakenLeavesInFlight DEF OnDetached
    <3>3. DetachPending => DetachPending'
      BY <2>3, <3>2 DEF DetachPending
    <3> QED
      BY <2>1, <3>1, <3>3, IdleInRun DEF conn, GoneAnnounced
  <2> QED
    BY <2>2, <2>3
<1>3. CASE OnAttached \/ OnUserBroadcast \/ OnToggleKey
  <2>1. UNCHANGED <<env, conn>> /\ run = Idle
    BY <1>3 DEF OnAttached, OnUserBroadcast, OnToggleKey, Take
  <2>2. run' = run \/ run'.pc = "readSetting"
    BY <1>3 DEF OnAttached, OnUserBroadcast, OnToggleKey, Start, Idle
  <2>3. /\ InFlight \subseteq InFlight' \cup {Head(queue)}
        /\ Head(queue).what # "detached"
    BY <1>0, <1>3, TakenLeavesInFlight
       DEF OnAttached, OnUserBroadcast, OnToggleKey
  <2>4. DetachPending => DetachPending'
    BY <2>3 DEF DetachPending
  <2> QED
    BY <2>1, <2>2, <2>4, IdleInRun DEF env, conn, GoneAnnounced
<1>4. ASSUME ~(OnAttached \/ OnDetached \/ OnUserBroadcast \/ OnToggleKey)
      PROVE  DetachPending => DetachPending'
  BY <1>0, <1>4, StaysInFlight, Growing
<1>5. ASSUME attached \subseteq attached',
             connection' \in {connection, NoDevice},
             \/ run'.pc \notin {"openDevice", "claimInterface"}
             \/ run' = run
             \/ run'.found \in attached,
             DetachPending => DetachPending'
      PROVE  GoneAnnounced'
  BY <1>5 DEF GoneAnnounced
<1>6. CASE OpenDevice
  <2>1. /\ run.pc = "openDevice" /\ run \in Run
        /\ UNCHANGED <<attached, connection, mail>>
    BY <1>0, <1>6 DEF OpenDevice, TypeOK, env
  <2>2. run' = Idle \/ run'.found = run.found
    BY <1>6, <2>1 DEF OpenDevice, Goto, Run
  <2>3. DetachPending => DetachPending'
    BY <2>1 DEF mail, DetachPending, InFlight
  <2> QED
    BY <2>1, <2>2, <2>3, IdleInRun DEF GoneAnnounced
<1>7. CASE ClaimInterface
  <2>1. /\ run.pc = "claimInterface" /\ run \in Run
        /\ UNCHANGED <<attached, mail>>
    BY <1>0, <1>7 DEF ClaimInterface, TypeOK, env
  <2>2. \/ run' = Idle /\ connection' = connection
        \/ run'.pc = "bulkTransfer" /\ connection' = run.found
    BY <1>7, <2>1 DEF ClaimInterface, Goto, Run
  <2>3. DetachPending => DetachPending'
    BY <2>1 DEF mail, DetachPending, InFlight
  <2> QED
    BY <2>1, <2>2, <2>3, IdleInRun DEF GoneAnnounced
<1>8. CASE FindDevice
  <2>1. UNCHANGED <<attached, connection, mail>> /\ run \in Run
    BY <1>0, <1>8 DEF FindDevice, TypeOK, env, conn
  <2>2. run' = Idle \/ run'.found \in attached
    BY <1>8, <2>1 DEF FindDevice, HasTrackpad, Run
  <2>3. DetachPending => DetachPending'
    BY <2>1 DEF mail, DetachPending, InFlight
  <2> QED
    BY <1>5, <2>1, <2>2, <2>3, IdleInRun
<1>9. CASE ReadSetting \/ TransferOk \/ TransferFails \/ WriteSetting
  <2>1. UNCHANGED <<attached, mail>> /\ connection' \in {connection, NoDevice}
    BY <1>9 DEF ReadSetting, TransferOk, TransferFails, WriteSetting,
                CloseConnection, env, conn
  <2>2. run'.pc \notin {"openDevice", "claimInterface"}
    BY <1>0, <1>9, IdleInRun
    DEF ReadSetting, TransferOk, TransferFails, WriteSetting, Goto, TypeOK, Run
  <2>3. DetachPending => DetachPending'
    BY <2>1 DEF mail, DetachPending, InFlight
  <2> QED
    BY <1>5, <2>1, <2>2, <2>3
<1>10. ASSUME UNCHANGED <<connection, run>>, attached \subseteq attached',
              ~(OnAttached \/ OnDetached \/ OnUserBroadcast \/ OnToggleKey)
       PROVE  GoneAnnounced'
  BY <1>4, <1>5, <1>10
<1>11. CASE OnAttached \/ OnDetached \/ OnUserBroadcast \/ OnToggleKey
  BY <1>2, <1>3, <1>11
<1>12. CASE \/ UNCHANGED vars
            \/ \E d \in Devices : Attach(d)
            \/ \E u \in Users : SwitchUser(u)
            \/ \E d \in Devices \cup {NoDevice}, down \in BOOLEAN,
                  repeat \in {0, 1} : HandleKeyEvent(d, down, repeat)
            \/ Deliver
  <2>1. UNCHANGED <<connection, run>> /\ attached \subseteq attached'
    BY <1>12 DEF vars, Attach, SwitchUser, HandleKeyEvent, Deliver, DeliverUsb,
                 DeliverUser, env, conn
  <2> QED
    BY <1>10, <1>11, <2>1
<1> QED
  BY <1>1, <1>6, <1>7, <1>8, <1>9, <1>11, <1>12
     DEF Next, Environment, Handler

\* A connection to a keyboard that has been pulled out is never left alone: the
\* broadcast that makes the handler drop it is on its way, whatever fails and
\* however many keyboards there are.
THEOREM GoneIsAnnounced == Spec => []GoneAnnounced
<1>1. Init => GoneAnnounced
  BY DEF Init, Idle, GoneAnnounced
<1> QED
  BY <1>1, NextGone, HandleInvHolds, PTL DEF Spec

-----------------------------------------------------------------------------
(* SyncInv is inductive when the settings provider takes every write.      *)

\* At boot the handler has no connection to disagree with.
LEMMA InitSyncInv == Init => SyncInv
<1> SUFFICES ASSUME Init
             PROVE  SyncInv
  OBVIOUS
<1>1. GoneAnnounced /\ WantCurrent /\ IdleAgrees
  BY DEF Init, Idle, GoneAnnounced, WantCurrent, IdleAgrees
<1> QED
  BY <1>1, InitHandleInv DEF SyncInv

\* No step makes them disagree without something being on its way to mend it.
LEMMA NextSyncInv ==
  ASSUME PutMayFail = FALSE
  PROVE  SyncInv /\ [Next]_vars => SyncInv'
<1> SUFFICES ASSUME SyncInv, [Next]_vars
             PROVE  SyncInv'
  OBVIOUS
<1>0. HandleInv' /\ GoneAnnounced' /\ TypeOK /\ ConnectionAt
  BY NextHandleInv, NextGone DEF SyncInv, HandleInv
<1> SUFFICES WantCurrent' /\ IdleAgrees'
  BY <1>0 DEF SyncInv
<1> USE ConstantsAssumption
<1> USE DEF SyncInv
<1>1. ASSUME NEW d \in Devices, Attach(d)
      PROVE  WantCurrent' /\ IdleAgrees'
  <2>1. InFlight \subseteq InFlight'
    <3>1. Broadcast("attached", d) \in Message
      BY DEF Broadcast, Message
    <3> QED
      BY <1>0, <1>1, <3>1, SentIsInFlight DEF Attach
  <2>2. WantCurrent'
    BY <1>1, <2>1, Growing DEF Attach, conn, WantCurrent
  <2>3. connection # NoDevice => pad'[connection] = pad[connection]
    BY <1>0, <1>1 DEF Attach, TypeOK, ConnectionAt
  <2>4. IdleAgrees'
    BY <1>1, <2>1, <2>3, Growing DEF Attach, conn, IdleAgrees
  <2> QED
    BY <2>2, <2>4
<1>2. ASSUME NEW d \in Devices, Detach(d)
      PROVE  WantCurrent' /\ IdleAgrees'
  <2> DEFINE e == Broadcast("detached", d)
  <2>1. e \in Message /\ e.what = "detached" /\ e.dev = d
    BY DEF Broadcast, Message
  <2>2. InFlight' = InFlight \cup {e}
    BY <1>0, <1>2, <2>1, SentIsInFlight DEF Detach
  <2> QED
    BY <1>2, <2>2, Growing DEF Detach, conn, WantCurrent, IdleAgrees
<1>3. ASSUME NEW u \in Users, SwitchUser(u)
      PROVE  WantCurrent' /\ IdleAgrees'
  <2> DEFINE e == Broadcast("userSwitched", NoDevice)
  <2>1. e \in Message /\ e.what = "userSwitched"
    BY DEF Broadcast, Message
  <2>2. InFlight' = InFlight \cup {e}
    BY <1>0, <1>3, <2>1, SentIsInFlight DEF SwitchUser
  <2>3. FixPending'
    BY <2>1, <2>2 DEF FixPending
  <2> QED
    BY <2>3 DEF WantCurrent, IdleAgrees
<1>4. ASSUME DeliverUsb \/ DeliverUser
      PROVE  WantCurrent' /\ IdleAgrees'
  <2>1. InFlight' = InFlight
    BY <1>0, <1>4, DeliveredIsInFlight
  <2> QED
    BY <1>4, <2>1, Growing DEF DeliverUsb, DeliverUser, env, conn,
                               WantCurrent, IdleAgrees
<1>5. ASSUME NEW d \in Devices \cup {NoDevice}, NEW down \in BOOLEAN,
             NEW repeat \in {0, 1}, HandleKeyEvent(d, down, repeat)
      PROVE  WantCurrent' /\ IdleAgrees'
  <2>1. InFlight \subseteq InFlight'
    BY <1>0, <1>5, PressKeepsInFlight
  <2> QED
    BY <1>5, <2>1, Growing DEF HandleKeyEvent, env, conn, GoneAnnounced,
                               WantCurrent, IdleAgrees
<1>6. ASSUME OnAttached \/ OnUserBroadcast \/ OnToggleKey
      PROVE  WantCurrent' /\ IdleAgrees'
  <2>1. UNCHANGED <<setting, env, pad, conn>> /\ run = Idle
    BY <1>6 DEF OnAttached, OnUserBroadcast, OnToggleKey, Take
  <2>2. run' = run \/ run'.pc = "readSetting"
    BY <1>6 DEF OnAttached, OnUserBroadcast, OnToggleKey, Start, Idle
  <2>5. CASE run'.pc = "readSetting"
    BY <2>5 DEF WantCurrent, IdleAgrees
  <2>6. CASE run' = run /\ ~OnUserBroadcast
    <3>1. FixPending => FixPending'
      <4>1. /\ InFlight \subseteq InFlight' \cup {Head(queue)}
            /\ Head(queue).what \in {"attached", "toggleTrackpad"}
        BY <1>0, <1>6, <2>6, TakenLeavesInFlight DEF OnAttached, OnToggleKey
      <4> QED
        BY <4>1 DEF FixPending
    <3> QED
      BY <2>1, <2>6, <3>1, IdleInRun
         DEF env, conn, WantCurrent, IdleAgrees
  <2>7. OnUserBroadcast => run'.pc = "readSetting"
    BY DEF OnUserBroadcast, Start, Idle
  <2> QED
    BY <2>2, <2>5, <2>6, <2>7
<1>7. ASSUME OnDetached
      PROVE  WantCurrent' /\ IdleAgrees'
  <2>1. UNCHANGED <<setting, env, pad, run>> /\ run = Idle
    BY <1>7 DEF OnDetached, Take
  <2>2. CASE Head(queue).dev \in Keyboards
    <3>1. connection' = NoDevice
      BY <1>7, <2>2 DEF OnDetached, IsAmazonKeyboard, CloseConnection
    <3> QED
      BY <2>1, <3>1, IdleInRun DEF WantCurrent, IdleAgrees
  <2>3. CASE Head(queue).dev \notin Keyboards
    <3>1. UNCHANGED conn
      BY <1>7, <2>3 DEF OnDetached, IsAmazonKeyboard
    <3>2. /\ InFlight \subseteq InFlight' \cup {Head(queue)}
          /\ Head(queue).what = "detached"
      BY <1>0, <1>7, TakenLeavesInFlight DEF OnDetached
    <3>3. FixPending => FixPending'
      BY <3>2 DEF FixPending
    <3> QED
      BY <2>1, <3>1, <3>3, IdleInRun
         DEF env, conn, WantCurrent, IdleAgrees
  <2> QED
    BY <2>2, <2>3
<1>8. ASSUME UNCHANGED mail
      PROVE  InFlight' = InFlight /\ (FixPending' <=> FixPending)
  BY <1>8 DEF mail, InFlight, FixPending
<1>9. ASSUME ReadSetting
      PROVE  WantCurrent' /\ IdleAgrees'
  <2>1. UNCHANGED <<setting, env, pad, conn, mail, budget>>
    BY <1>9 DEF ReadSetting
  <2>2. /\ run'.pc \in {"findDevice", "bulkTransfer"}
        /\ run'.want = IF run'.job = "toggleTrackpad" THEN setting[user]
                                                      ELSE ~setting[user]
    BY <1>0, <1>9 DEF ReadSetting, TypeOK, Run
  <2> QED
    BY <1>8, <2>1, <2>2 DEF env, conn, WantCurrent, IdleAgrees
<1>10. ASSUME FindDevice
       PROVE  WantCurrent' /\ IdleAgrees'
  <2>1. /\ run.pc = "findDevice" /\ run \in Run /\ connection = NoDevice
        /\ UNCHANGED <<setting, env, pad, conn, mail, budget>>
    BY <1>0, <1>10 DEF FindDevice, HasTrackpad, TypeOK, ConnectionAt
  <2>2. \/ run' = Idle
        \/ /\ run'.pc = "openDevice" /\ run'.found \in attached
           /\ run'.want = run.want /\ run'.job = run.job
    BY <1>10, <2>1 DEF FindDevice, HasTrackpad, Run
  <2> QED
    BY <1>8, <2>1, <2>2, IdleInRun
       DEF env, conn, WantCurrent, IdleAgrees
<1>11. ASSUME OpenDevice
       PROVE  WantCurrent' /\ IdleAgrees'
  <2>1. /\ run.pc = "openDevice" /\ run \in Run /\ connection = NoDevice
        /\ UNCHANGED <<setting, env, pad, connection, mail>>
    BY <1>0, <1>11 DEF OpenDevice, TypeOK, ConnectionAt
  <2>2. \/ run' = Idle
        \/ /\ run'.pc = "claimInterface" /\ run'.found = run.found
           /\ run'.want = run.want /\ run'.job = run.job
    BY <1>11, <2>1 DEF OpenDevice, Goto, Run
  <2> QED
    BY <1>8, <2>1, <2>2, IdleInRun
       DEF env, WantCurrent, IdleAgrees
<1>12. ASSUME ClaimInterface
       PROVE  WantCurrent' /\ IdleAgrees'
  <2>1. /\ run.pc = "claimInterface" /\ run \in Run /\ connection = NoDevice
        /\ UNCHANGED <<setting, env, pad, mail>>
    BY <1>0, <1>12 DEF ClaimInterface, FoundClosed, TypeOK, ConnectionAt
  <2>2. \/ run' = Idle /\ connection' = connection
        \/ /\ run'.pc = "bulkTransfer" /\ connection' = run.found
           /\ run'.want = run.want /\ run'.job = run.job
    BY <1>12, <2>1 DEF ClaimInterface, FoundClosed, Goto, Run
  <2> QED
    BY <1>8, <2>1, <2>2, IdleInRun
       DEF env, WantCurrent, IdleAgrees
<1>13. ASSUME TransferOk
       PROVE  WantCurrent' /\ IdleAgrees'
  <2>1. /\ run.pc = "bulkTransfer" /\ run \in Run
        /\ UNCHANGED <<setting, env, conn, mail, budget>>
    BY <1>0, <1>13 DEF TransferOk, TypeOK
  <2>2. pad'[connection] = run.want
    BY <1>0, <1>13 DEF TransferOk, TypeOK
  <2>3. \/ run.job = "toggleTrackpad" /\ run'.pc = "writeSetting"
        \/ run.job # "toggleTrackpad" /\ run' = Idle
    BY <1>13, <2>1 DEF TransferOk, Goto, Run
  <2> QED
    BY <1>8, <2>1, <2>2, <2>3, IdleInRun
       DEF env, conn, WantCurrent, IdleAgrees
<1>14. ASSUME TransferFails
       PROVE  WantCurrent' /\ IdleAgrees'
  <2>1. connection' = NoDevice /\ run' = Idle
    BY <1>14 DEF TransferFails, CloseConnection
  <2> QED
    BY <2>1, IdleInRun DEF WantCurrent, IdleAgrees
<1>15. ASSUME WriteSetting
       PROVE  WantCurrent' /\ IdleAgrees'
  <2>1. /\ run.pc = "writeSetting" /\ run' = Idle
        /\ UNCHANGED <<env, pad, conn, mail, budget>>
    BY <1>15 DEF WriteSetting, UserCurrent
  <2>2. setting'[user] = ~run.want
    BY <1>0, <1>15 DEF WriteSetting, UserCurrent, TypeOK
  <2>3. pad[connection] = run.want /\ run.want \in BOOLEAN
    BY <1>0, <2>1 DEF HandleInv, AckBeforeWrite, TypeOK, Run
  <2> QED
    BY <1>8, <2>1, <2>2, <2>3, IdleInRun
       DEF env, conn, WantCurrent, IdleAgrees
<1>16. CASE UNCHANGED vars
  BY <1>8, <1>16 DEF vars, env, conn, WantCurrent, IdleAgrees
<1> QED
  BY <1>1, <1>2, <1>3, <1>4, <1>5, <1>6, <1>7, <1>9, <1>10, <1>11, <1>12,
     <1>13, <1>14, <1>15, <1>16
     DEF Next, Environment, Deliver, Handler

\* Once nothing is in flight, a connection that is kept open is to a keyboard
\* that is still there and that obeys the current user's setting: for any
\* number of keyboards, users, key presses, user switches and USB faults, as
\* long as the settings provider takes every write.
THEOREM SettledAgreement ==
  ASSUME PutMayFail = FALSE
  PROVE  Spec => []SettledAgrees
<1>1. SyncInv => SettledAgrees
  <2> SUFFICES ASSUME SyncInv, Settled, connection # NoDevice
               PROVE  /\ connection \in attached
                      /\ pad[connection] = ~setting[user]
    BY DEF SettledAgrees
  <2>1. InFlight = {}
    BY DEF Settled, InFlight, Range
  <2>2. ~FixPending /\ ~DetachPending
    BY <2>1 DEF FixPending, DetachPending
  <2>3. connection \in attached
    BY <2>2 DEF SyncInv, GoneAnnounced
  <2>4. pad[connection] = ~setting[user]
    BY <2>2, IdleInRun DEF SyncInv, IdleAgrees, Settled
  <2> QED
    BY <2>3, <2>4
<1> QED
  BY <1>1, InitSyncInv, NextSyncInv, PTL DEF Spec

-----------------------------------------------------------------------------
(* Without USB faults and with one keyboard at a time, a trackpad that is  *)
(* plugged in is always about to be noticed: nothing that makes the        *)
(* handler lose its connection, or give a job up, comes without an attach  *)
(* broadcast of the new keyboard behind it.                                *)

OneKeyboard == \A d, e \in attached \cap Keyboards : d = e

UserMail ==
  \A e \in Range(userPending) : e.what \in {"bootCompleted", "userSwitched"}

DetachesKeyboard(e) == e.what = "detached" /\ e.dev \in Keyboards

\* Behind every detach of a keyboard in these messages comes the attach of d.
Followed(s, d) ==
  \A i \in DOMAIN s : DetachesKeyboard(s[i]) =>
    \E j \in DOMAIN s : j > i /\ s[j] = Broadcast("attached", d)

\* So it does in the broadcasts, and in the queue unless it is still to come.
AttachOrdered(d) ==
  /\ Followed(usbPending, d)
  /\ Followed(queue, d) \/ Broadcast("attached", d) \in Range(usbPending)

\* The handler has a connection to d, or a job or a broadcast that gives it one.
Noticed(d) ==
  \/ Broadcast("attached", d) \in InFlight
  \/ FixPending
  \/ run.pc # "idle"
  \/ connection = d

NoticedInv ==
  /\ OneKeyboard
  /\ UserMail
  /\ budget["fault"] = 0
  /\ \A d \in attached \cap Trackpads : AttachOrdered(d) /\ Noticed(d)

\* A message that detaches no keyboard, or the attach of d, may come last.
LEMMA FollowedAppend ==
  ASSUME NEW s \in Seq(Message), NEW e \in Message, NEW d,
         \/ Followed(s, d) /\ ~DetachesKeyboard(e)
         \/ e = Broadcast("attached", d)
  PROVE  Followed(Append(s, e), d)
<1> DEFINE t == Append(s, e)
<1> PICK n \in Nat : n = Len(s)
  OBVIOUS
<1>1. /\ DOMAIN s = 1 .. n /\ DOMAIN t = 1 .. n + 1
      /\ \A i \in 1 .. n : t[i] = s[i]
      /\ t[n + 1] = e
  OBVIOUS
<1> HIDE DEF t
<1>2. CASE Followed(s, d) /\ ~DetachesKeyboard(e)
  <2> SUFFICES ASSUME NEW i \in DOMAIN t, DetachesKeyboard(t[i])
               PROVE  \E j \in DOMAIN t : j > i /\ t[j] = Broadcast("attached", d)
    BY DEF Followed, t
  <2>1. i \in 1 .. n /\ t[i] = s[i]
    <3>1. i # n + 1
      BY <1>1, <1>2
    <3> QED
      BY <1>1, <3>1
  <2>2. PICK j \in 1 .. n : j > i /\ s[j] = Broadcast("attached", d)
    BY <1>1, <1>2, <2>1 DEF Followed
  <2> QED
    BY <1>1, <2>2
<1>3. CASE e = Broadcast("attached", d)
  <2> SUFFICES ASSUME NEW i \in DOMAIN t, DetachesKeyboard(t[i])
               PROVE  \E j \in DOMAIN t : j > i /\ t[j] = Broadcast("attached", d)
    BY DEF Followed, t
  <2>1. i # n + 1
    BY <1>1, <1>3 DEF DetachesKeyboard, Broadcast
  <2>2. n + 1 \in DOMAIN t /\ n + 1 > i
    BY <1>1, <2>1
  <2> QED
    BY <1>1, <1>3, <2>2
<1> QED
  BY <1>2, <1>3

\* The first message may be taken.
LEMMA FollowedTail ==
  ASSUME NEW s \in Seq(Message), s # <<>>, NEW d, Followed(s, d)
  PROVE  Followed(Tail(s), d)
<1> DEFINE t == Tail(s)
<1> PICK n \in Nat \ {0} : n = Len(s)
  OBVIOUS
<1>1. /\ DOMAIN s = 1 .. n /\ DOMAIN t = 1 .. n - 1
      /\ \A i \in 1 .. n - 1 : t[i] = s[i + 1]
  OBVIOUS
<1> HIDE DEF t
<1> SUFFICES ASSUME NEW i \in DOMAIN t, DetachesKeyboard(t[i])
             PROVE  \E j \in DOMAIN t : j > i /\ t[j] = Broadcast("attached", d)
  BY DEF Followed, t
<1>2. i + 1 \in DOMAIN s /\ t[i] = s[i + 1]
  BY <1>1
<1>3. PICK j \in DOMAIN s : j > i + 1 /\ s[j] = Broadcast("attached", d)
  BY <1>2 DEF Followed
<1>4. j - 1 \in DOMAIN t /\ j - 1 > i /\ t[j - 1] = s[j]
  BY <1>1, <1>2, <1>3
<1> QED
  BY <1>3, <1>4

\* When the first message detaches a keyboard, the attach of d is behind it.
LEMMA FollowedHead ==
  ASSUME NEW s \in Seq(Message), s # <<>>, NEW d, Followed(s, d),
         DetachesKeyboard(Head(s))
  PROVE  Broadcast("attached", d) \in Range(Tail(s))
<1> DEFINE t == Tail(s)
<1> PICK n \in Nat \ {0} : n = Len(s)
  OBVIOUS
<1>1. /\ DOMAIN s = 1 .. n /\ DOMAIN t = 1 .. n - 1 /\ Head(s) = s[1]
      /\ \A i \in 1 .. n - 1 : t[i] = s[i + 1]
  OBVIOUS
<1> HIDE DEF t
<1>2. PICK j \in DOMAIN s : j > 1 /\ s[j] = Broadcast("attached", d)
  <2>1. 1 \in DOMAIN s
    BY <1>1
  <2> QED
    BY <1>1, <2>1 DEF Followed
<1>3. j - 1 \in DOMAIN t /\ t[j - 1] = s[j]
  BY <1>1, <1>2
<1>4. Broadcast("attached", d) \in Range(t)
  BY <1>2, <1>3 DEF Range
<1> QED
  BY <1>4 DEF t

\* A keyboard that is said to be gone is not the last that will be heard of.
LEMMA AttachBehindDetach ==
  ASSUME UserMail, DetachPending, NEW d, AttachOrdered(d)
  PROVE  Broadcast("attached", d) \in InFlight
<1>1. PICK e \in InFlight : DetachesKeyboard(e)
  BY DEF DetachPending, DetachesKeyboard
<1>2. CASE e \in Range(queue)
  BY <1>1, <1>2 DEF AttachOrdered, Followed, Range, InFlight
<1>3. CASE e \in Range(usbPending)
  BY <1>1, <1>3 DEF AttachOrdered, Followed, Range, InFlight
<1>4. e \notin Range(userPending)
  BY <1>1 DEF UserMail, DetachesKeyboard
<1> QED
  BY <1>2, <1>3, <1>4 DEF InFlight

\* The mail of a device d that stays plugged in, after any step.
LEMMA NextAttachOrdered ==
  ASSUME ManyKeyboards = FALSE, TypeOK, OneKeyboard, UserMail, [Next]_vars,
         NEW d \in attached \cap Trackpads, d \in attached', AttachOrdered(d)
  PROVE  AttachOrdered(d)'
<1> USE ConstantsAssumption
<1> DEFINE a == Broadcast("attached", d)
<1>0. /\ queue \in Seq(Message) /\ usbPending \in Seq(Message)
      /\ userPending \in Seq(Message) /\ d \in Keyboards
  BY DEF TypeOK
<1>1. ASSUME NEW e \in Message, UNCHANGED queue,
             usbPending' = Append(usbPending, e), ~DetachesKeyboard(e)
      PROVE  AttachOrdered(d)'
  <2>1. Followed(Append(usbPending, e), d)
    BY <1>0, <1>1, FollowedAppend DEF AttachOrdered
  <2>2. Range(usbPending') = Range(usbPending) \cup {e}
    BY <1>0, <1>1, RangeAppend
  <2> QED
    BY <1>1, <2>1, <2>2 DEF AttachOrdered, Followed
<1>2. ASSUME NEW b \in Devices, Attach(b)
      PROVE  AttachOrdered(d)'
  <2>1. Broadcast("attached", b) \in Message
        /\ ~DetachesKeyboard(Broadcast("attached", b))
    BY DEF Broadcast, Message, DetachesKeyboard
  <2> QED
    BY <1>1, <1>2, <2>1 DEF Attach
<1>3. ASSUME NEW b \in Devices, Detach(b)
      PROVE  AttachOrdered(d)'
  <2>1. b \in attached /\ b # d
    BY <1>3 DEF Detach
  <2>2. b \notin Keyboards
    BY <1>0, <2>1 DEF OneKeyboard
  <2>3. Broadcast("detached", b) \in Message
        /\ ~DetachesKeyboard(Broadcast("detached", b))
    BY <2>2 DEF Broadcast, Message, DetachesKeyboard
  <2> QED
    BY <1>1, <1>3, <2>3 DEF Detach
<1>4. CASE DeliverUsb
  <2> PICK e \in Message : e = Head(usbPending)
    BY <1>0, <1>4, RangeHeadTail DEF DeliverUsb
  <2>1. /\ usbPending # <<>> /\ usbPending' = Tail(usbPending)
        /\ queue' = Append(queue, e)
    BY <1>4 DEF DeliverUsb
  <2>2. Followed(usbPending', d)
    BY <1>0, <2>1, FollowedTail DEF AttachOrdered
  <2>3. Range(usbPending) = Range(usbPending') \cup {e}
    BY <1>0, <2>1, RangeHeadTail
  <2>4. CASE a \in Range(usbPending')
    BY <2>2, <2>4 DEF AttachOrdered, Followed
  <2>5. CASE e = a
    <3>1. Followed(Append(queue, e), d)
      BY <1>0, <2>5, FollowedAppend
    <3> QED
      BY <2>1, <2>2, <3>1 DEF AttachOrdered, Followed
  <2>6. CASE e # a /\ a \notin Range(usbPending')
    <3>1. Followed(queue, d)
      BY <2>3, <2>6 DEF AttachOrdered
    <3>2. ~DetachesKeyboard(e)
      BY <1>0, <2>1, <2>6, FollowedHead DEF AttachOrdered
    <3>3. Followed(Append(queue, e), d)
      BY <1>0, <3>1, <3>2, FollowedAppend
    <3> QED
      BY <2>1, <2>2, <3>3 DEF AttachOrdered, Followed
  <2> QED
    BY <2>4, <2>5, <2>6
<1>5. ASSUME NEW e \in Message, queue' = Append(queue, e), UNCHANGED usbPending,
             ~DetachesKeyboard(e)
      PROVE  AttachOrdered(d)'
  <2>1. Followed(queue, d) => Followed(Append(queue, e), d)
    BY <1>0, <1>5, FollowedAppend
  <2> QED
    BY <1>5, <2>1 DEF AttachOrdered, Followed
<1>6. CASE DeliverUser
  <2>1. Head(userPending) \in Message /\ Head(userPending) \in Range(userPending)
    BY <1>0, <1>6, RangeHeadTail DEF DeliverUser
  <2>2. ~DetachesKeyboard(Head(userPending))
    BY <2>1 DEF UserMail, DetachesKeyboard
  <2> QED
    BY <1>5, <1>6, <2>1, <2>2 DEF DeliverUser
<1>7. ASSUME UNCHANGED <<queue, usbPending>>
      PROVE  AttachOrdered(d)'
  BY <1>7 DEF AttachOrdered, Followed
<1>8. ASSUME NEW b, NEW down, NEW repeat, HandleKeyEvent(b, down, repeat)
      PROVE  AttachOrdered(d)'
  <2> PICK e \in Message : e = Broadcast("toggleTrackpad", NoDevice)
    BY DEF Broadcast, Message
  <2>1. ~DetachesKeyboard(e)
    BY DEF Broadcast, DetachesKeyboard
  <2>2. queue' \in {queue, Append(queue, e)} /\ UNCHANGED usbPending
    BY <1>8 DEF HandleKeyEvent
  <2> QED
    BY <1>5, <1>7, <2>1, <2>2
<1>9. CASE OnAttached \/ OnDetached \/ OnUserBroadcast \/ OnToggleKey
  <2>1. queue # <<>> /\ queue' = Tail(queue) /\ UNCHANGED usbPending
    BY <1>9 DEF OnAttached, OnDetached, OnUserBroadcast, OnToggleKey, Take
  <2>2. Followed(queue, d) => Followed(Tail(queue), d)
    BY <1>0, <2>1, FollowedTail
  <2> QED
    BY <2>1, <2>2 DEF AttachOrdered, Followed
<1>10. CASE \/ ReadSetting \/ FindDevice \/ OpenDevice \/ ClaimInterface
            \/ TransferOk \/ TransferFails \/ WriteSetting \/ UNCHANGED vars
            \/ \E u \in Users : SwitchUser(u)
  <2>1. UNCHANGED <<queue, usbPending>>
    BY <1>10 DEF ReadSetting, FindDevice, OpenDevice, ClaimInterface, TransferOk,
                 TransferFails, WriteSetting, SwitchUser, vars, mail
  <2> QED
    BY <1>7, <2>1
<1> QED
  BY <1>2, <1>3, <1>4, <1>6, <1>8, <1>9, <1>10
     DEF Next, Environment, Deliver, Handler

\* When the handler has given a device up, the attach of d is on its way.
LEMMA NoticedAfterLoss ==
  ASSUME HandleInv, GoneAnnounced, OneKeyboard, UserMail,
         NEW d \in attached \cap Trackpads, AttachOrdered(d)
  PROVE  /\ connection # NoDevice /\ connection # d
              => Broadcast("attached", d) \in InFlight
         /\ run.pc \in {"openDevice", "claimInterface"} /\ run.found \notin attached
              => Broadcast("attached", d) \in InFlight
<1> USE ConstantsAssumption
<1>1. ASSUME connection # NoDevice, connection # d
      PROVE  DetachPending
  <2>1. connection \notin attached
    BY <1>1 DEF HandleInv, TypeOK, OneKeyboard
  <2> QED
    BY <1>1, <2>1 DEF GoneAnnounced
<1>2. ASSUME run.pc \in {"openDevice", "claimInterface"}, run.found \notin attached
      PROVE  DetachPending
  BY <1>2 DEF GoneAnnounced
<1> QED
  BY <1>1, <1>2, AttachBehindDetach

\* The device d that stays plugged in has still been noticed after a step.
LEMMA NextNoticed ==
  ASSUME HandleInv, GoneAnnounced, NoticedInv, [Next]_vars,
         NEW d \in attached \cap Trackpads, d \in attached'
  PROVE  Noticed(d)'
<1> USE ConstantsAssumption
<1> DEFINE a == Broadcast("attached", d)
<1>0. /\ TypeOK /\ ConnectionAt /\ OneKeyboard /\ UserMail
      /\ AttachOrdered(d) /\ Noticed(d) /\ d \in Keyboards
  BY DEF HandleInv, NoticedInv
<1>1. ASSUME run'.pc # "idle" \/ connection' = d
      PROVE  Noticed(d)'
  BY <1>1 DEF Noticed
<1>2. ASSUME InFlight \subseteq InFlight', UNCHANGED <<run, connection>>
      PROVE  Noticed(d)'
  BY <1>0, <1>2, Growing DEF Noticed
<1>3. ASSUME UNCHANGED mail, a \in InFlight
      PROVE  Noticed(d)'
  BY <1>3 DEF Noticed, InFlight, mail
<1>4. CASE OnUserBroadcast \/ OnToggleKey
  <2>1. run'.pc # "idle"
    BY <1>4 DEF OnUserBroadcast, OnToggleKey, Start, Idle
  <2> QED
    BY <1>1, <2>1
<1>5. CASE OnAttached
  <2>1. CASE Head(queue).dev \in Keyboards
    <3>1. run'.pc # "idle"
      BY <1>5, <2>1 DEF OnAttached, IsAmazonKeyboard, Start, Idle
    <3> QED
      BY <1>1, <3>1
  <2>2. CASE Head(queue).dev \notin Keyboards
    <3>1. /\ InFlight \subseteq InFlight' \cup {Head(queue)}
          /\ Head(queue).what = "attached"
      BY <1>0, <1>5, TakenLeavesInFlight DEF OnAttached
    <3>2. a \in InFlight => a \in InFlight'
      BY <1>0, <2>2, <3>1 DEF Broadcast
    <3>3. FixPending => FixPending'
      BY <3>1 DEF FixPending
    <3>4. UNCHANGED <<run, connection>>
      BY <1>5, <2>2 DEF OnAttached, IsAmazonKeyboard, conn
    <3> QED
      BY <1>0, <3>2, <3>3, <3>4 DEF Noticed
  <2> QED
    BY <2>1, <2>2
<1>6. CASE OnDetached
  <2>1. /\ InFlight \subseteq InFlight' \cup {Head(queue)}
        /\ Head(queue).what = "detached" /\ Head(queue) \in InFlight
    <3>1. queue \in Seq(Message) /\ queue # <<>>
      BY <1>0, <1>6 DEF OnDetached, Take, TypeOK
    <3>2. Head(queue) \in Range(queue)
      BY <3>1, RangeHeadTail
    <3> QED
      BY <1>0, <1>6, <3>2, TakenLeavesInFlight DEF OnDetached, InFlight
  <2>2. a \in InFlight => a \in InFlight'
    BY <2>1 DEF Broadcast
  <2>3. CASE Head(queue).dev \in Keyboards
    <3>1. DetachPending
      BY <2>1, <2>3 DEF DetachPending
    <3>2. a \in InFlight
      BY <1>0, <3>1, AttachBehindDetach
    <3> QED
      BY <2>2, <3>2 DEF Noticed
  <2>4. CASE Head(queue).dev \notin Keyboards
    <3>1. UNCHANGED <<run, connection>>
      BY <1>6, <2>4 DEF OnDetached, IsAmazonKeyboard, conn
    <3>2. FixPending => FixPending'
      BY <2>1 DEF FixPending
    <3> QED
      BY <1>0, <2>2, <3>1, <3>2 DEF Noticed
  <2> QED
    BY <2>3, <2>4
<1>7. CASE ReadSetting
  <2>1. run'.pc # "idle"
    BY <1>0, <1>7 DEF ReadSetting, TypeOK, Run
  <2> QED
    BY <1>1, <2>1
<1>8. CASE FindDevice
  <2>1. PICK b \in attached \cap Keyboards :
          run' = IF HasTrackpad(b)
                 THEN [run EXCEPT !.pc = "openDevice", !.found = b] ELSE Idle
    BY <1>0, <1>8 DEF FindDevice
  <2>2. b = d
    BY <1>0, <2>1 DEF OneKeyboard
  <2>3. run'.pc # "idle"
    BY <1>0, <2>1, <2>2 DEF HasTrackpad, TypeOK, Run
  <2> QED
    BY <1>1, <2>3
<1>9. CASE OpenDevice \/ ClaimInterface
  <2>1. run'.pc # "idle" \/ run.found \notin attached
    BY <1>0, <1>9
    DEF OpenDevice, ClaimInterface, Goto, CallFails, Spend, NoticedInv, TypeOK, Run
  <2>2. UNCHANGED mail /\ run.pc \in {"openDevice", "claimInterface"}
    BY <1>9 DEF OpenDevice, ClaimInterface
  <2> QED
    BY <1>0, <1>1, <1>3, <2>1, <2>2, NoticedAfterLoss
<1>10. CASE TransferOk \/ TransferFails \/ WriteSetting
  <2>1. UNCHANGED mail /\ connection # NoDevice
    BY <1>0, <1>10 DEF TransferOk, TransferFails, WriteSetting, ConnectionAt
  <2>2. CASE connection # d
    BY <1>0, <1>3, <2>1, <2>2, NoticedAfterLoss
  <2>3. CASE connection = d
    <3>1. ~TransferFails
      BY <2>3 DEF TransferFails, Spend, NoticedInv
    <3>2. connection' = d
      BY <1>10, <2>3, <3>1 DEF TransferOk, WriteSetting, conn
    <3> QED
      BY <1>1, <3>2
  <2> QED
    BY <2>2, <2>3
<1>11. CASE \/ UNCHANGED vars
            \/ \E b \in Devices : Attach(b) \/ Detach(b)
            \/ \E u \in Users : SwitchUser(u)
            \/ \E b \in Devices \cup {NoDevice}, down \in BOOLEAN,
                  repeat \in {0, 1} : HandleKeyEvent(b, down, repeat)
            \/ Deliver
  <2>1. UNCHANGED <<run, connection>>
    BY <1>11 DEF vars, Attach, Detach, SwitchUser, HandleKeyEvent, Deliver,
                 DeliverUsb, DeliverUser, conn
  <2>2. CASE OnAttached \/ OnDetached \/ OnUserBroadcast \/ OnToggleKey
    BY <1>4, <1>5, <1>6, <2>2
  <2>3. CASE ~(OnAttached \/ OnDetached \/ OnUserBroadcast \/ OnToggleKey)
    BY <1>0, <1>2, <2>1, <2>3, StaysInFlight
  <2> QED
    BY <2>2, <2>3
<1> QED
  BY <1>4, <1>5, <1>6, <1>7, <1>8, <1>9, <1>10, <1>11
     DEF Next, Environment, Handler

\* A keyboard that is plugged in, or has been before, is noticed after any step.
LEMMA NextNoticedInv ==
  ASSUME ManyKeyboards = FALSE
  PROVE  HandleInv /\ GoneAnnounced /\ NoticedInv /\ [Next]_vars => NoticedInv'
<1> SUFFICES ASSUME HandleInv, GoneAnnounced, NoticedInv, [Next]_vars
             PROVE  NoticedInv'
  OBVIOUS
<1> USE ConstantsAssumption
<1>0. /\ TypeOK /\ OneKeyboard /\ UserMail /\ budget["fault"] = 0
      /\ userPending \in Seq(Message)
  BY DEF HandleInv, NoticedInv, TypeOK
<1>1. attached' \subseteq attached \/ \E d \in Devices : Attach(d)
  BY DEF Next, Environment, Deliver, Handler, vars, env, Detach, SwitchUser,
         HandleKeyEvent, DeliverUsb, DeliverUser, OnAttached, OnDetached,
         OnUserBroadcast, OnToggleKey, Take, ReadSetting, FindDevice, OpenDevice,
         ClaimInterface, TransferOk, TransferFails, WriteSetting
<1>2. OneKeyboard'
  BY <1>0, <1>1 DEF OneKeyboard, Attach
<1>3. UserMail'
  <2>1. CASE \E u \in Users : SwitchUser(u)
    <3>1. PICK e \in Message : /\ userPending' = Append(userPending, e)
                               /\ e.what = "userSwitched"
      BY <2>1 DEF SwitchUser, Broadcast, Message
    <3>2. Range(userPending') = Range(userPending) \cup {e}
      BY <1>0, <3>1, RangeAppend
    <3> QED
      BY <1>0, <3>1, <3>2 DEF UserMail
  <2>2. CASE DeliverUser
    <3>1. Range(userPending) = Range(userPending') \cup {Head(userPending)}
      BY <1>0, <2>2, RangeHeadTail DEF DeliverUser
    <3> QED
      BY <1>0, <3>1 DEF UserMail
  <2>3. CASE ~DeliverUser /\ ~\E u \in Users : SwitchUser(u)
    <3>1. UNCHANGED userPending
      BY <2>3 DEF Next, Environment, Deliver, Handler, vars, mail, Attach, Detach,
         HandleKeyEvent, DeliverUsb, OnAttached, OnDetached, OnUserBroadcast,
         OnToggleKey, Take, ReadSetting, FindDevice, OpenDevice, ClaimInterface,
         TransferOk, TransferFails, WriteSetting
    <3> QED
      BY <1>0, <3>1 DEF UserMail
  <2> QED
    BY <2>1, <2>2, <2>3
<1>4. budget'["fault"] = 0
  <2>1. \/ UNCHANGED budget
        \/ Spend("press") \/ Spend("switch") \/ Spend("fault")
    BY DEF Next, Environment, Deliver, Handler, vars, Attach, Detach, SwitchUser,
       HandleKeyEvent, DeliverUsb, DeliverUser, OnAttached, OnDetached,
       OnUserBroadcast, OnToggleKey, Take, ReadSetting, FindDevice, OpenDevice,
       ClaimInterface, CallFails, TransferOk, TransferFails, WriteSetting
  <2>2. ~Spend("fault")
    BY <1>0 DEF Spend
  <2> QED
    BY <1>0, <2>1, <2>2 DEF Spend, TypeOK
<1>5. ASSUME NEW d \in attached' \cap Trackpads
      PROVE  AttachOrdered(d)' /\ Noticed(d)'
  <2>1. CASE d \in attached
    BY <1>0, <1>5, <2>1, NextAttachOrdered, NextNoticed DEF NoticedInv
  <2>2. CASE d \notin attached
    <3>1. Attach(d)
      BY <1>1, <1>5, <2>2 DEF Attach
    <3> DEFINE a == Broadcast("attached", d)
    <3>2. a \in Message
      BY <1>5 DEF Broadcast, Message
    <3>3. usbPending' = Append(usbPending, a) /\ usbPending \in Seq(Message)
      BY <1>0, <3>1 DEF Attach, TypeOK
    <3>4. Followed(usbPending', d)
      BY <3>2, <3>3, FollowedAppend
    <3>5. Range(usbPending') = Range(usbPending) \cup {a}
      BY <3>2, <3>3, RangeAppend
    <3>6. AttachOrdered(d)'
      BY <3>4, <3>5 DEF AttachOrdered, Followed
    <3>7. Noticed(d)'
      BY <3>5 DEF Noticed, InFlight
    <3> QED
      BY <3>6, <3>7
  <2> QED
    BY <2>1, <2>2
<1> QED
  BY <1>2, <1>3, <1>4, <1>5 DEF NoticedInv

\* Whenever everything has settled, the trackpads that are plugged in obey the
\* current user's setting.
SettledObeyed ==
  Settled => \A d \in attached \cap Trackpads : pad[d] = ~setting[user]

\* EventuallyObeyed without its "eventually": with one keyboard at a time and no
\* faults, no order of attaches, detaches, user switches and presses ends with
\* nothing left to do and a trackpad that does not obey.
THEOREM SettledIsObeyed ==
  ASSUME ManyKeyboards = FALSE, PutMayFail = FALSE, Bound["fault"] = 0
  PROVE  Spec => []SettledObeyed
<1>1. Init => NoticedInv
  <2> SUFFICES ASSUME Init
               PROVE  NoticedInv
    OBVIOUS
  <2>1. OneKeyboard /\ budget["fault"] = 0
    BY DEF Init, OneKeyboard
  <2>2. Range(userPending) = {Broadcast("bootCompleted", NoDevice)}
    BY DEF Init, Range
  <2>3. UserMail
    BY <2>2 DEF UserMail, Broadcast
  <2>4. FixPending
    <3>1. Broadcast("bootCompleted", NoDevice) \in InFlight
      BY <2>2 DEF InFlight
    <3>2. Broadcast("bootCompleted", NoDevice).what = "bootCompleted"
      BY DEF Broadcast
    <3> QED
      BY <3>1, <3>2 DEF FixPending
  <2>5. \A d : AttachOrdered(d)
    BY DEF Init, AttachOrdered, Followed
  <2> QED
    BY <2>1, <2>3, <2>4, <2>5 DEF NoticedInv, Noticed
<1>2. SyncInv /\ NoticedInv /\ [Next]_vars => NoticedInv'
  BY NextNoticedInv DEF SyncInv
<1>3. SyncInv /\ NoticedInv => SettledObeyed
  <2> SUFFICES ASSUME SyncInv, NoticedInv, Settled,
                      NEW d \in attached \cap Trackpads
               PROVE  pad[d] = ~setting[user]
    BY DEF SettledObeyed
  <2>1. InFlight = {}
    BY DEF Settled, InFlight, Range
  <2>2. ~FixPending
    BY <2>1 DEF FixPending
  <2>3. connection = d /\ connection # NoDevice
    BY <2>1, <2>2, IdleInRun, ConstantsAssumption
    DEF NoticedInv, Noticed, Settled
  <2> QED
    BY <2>2, <2>3, IdleInRun DEF SyncInv, IdleAgrees, Settled
<1> QED
  BY <1>1, <1>2, <1>3, InitSyncInv, NextSyncInv, PTL DEF Spec

-----------------------------------------------------------------------------
(* What a job has read: only the handler writes the setting, so it is      *)
(* still what is stored when the job comes to its end.                     *)

ReadStands ==
  /\ run.pc = "writeSetting" => run.job = "toggleTrackpad"
  /\ run.pc \in {"findDevice", "openDevice", "claimInterface", "bulkTransfer",
                 "writeSetting"} /\ run.job = "toggleTrackpad"
       => run.readAs \in Users /\ run.want = setting[run.readAs]
  /\ run.pc \in {"findDevice", "openDevice", "claimInterface", "bulkTransfer"}
       /\ run.job = "applyTrackpadState"
       => run.readAs \in Users /\ run.want = ~setting[run.readAs]

\* Only the handler writes the setting, and only as its last step.
LEMMA NextReadStands ==
  TypeOK /\ ReadStands /\ [Next]_vars => ReadStands'
<1> SUFFICES ASSUME TypeOK, ReadStands, [Next]_vars
             PROVE  ReadStands'
  OBVIOUS
<1>1. run \in Run /\ user \in Users /\ setting \in [Users -> BOOLEAN]
  BY DEF TypeOK
<1>2. CASE UNCHANGED <<run, setting>>
  BY <1>2 DEF ReadStands
<1>3. CASE run' = Idle
  BY <1>3, IdleInRun DEF ReadStands
<1>4. ASSUME NEW job, Start(job)
      PROVE  ReadStands'
  BY <1>4 DEF Start, Idle, ReadStands
<1>5. CASE ReadSetting
  <2>1. /\ UNCHANGED setting /\ run'.pc # "writeSetting"
        /\ run'.readAs = user /\ run'.job = run.job
        /\ run.job = "toggleTrackpad" => run'.want = setting[user]
        /\ run.job = "applyTrackpadState" => run'.want = ~setting[user]
    BY <1>1, <1>5 DEF ReadSetting, Run
  <2> QED
    BY <1>1, <2>1 DEF ReadStands
<1>6. CASE /\ UNCHANGED setting
           /\ run.pc \in {"findDevice", "openDevice", "claimInterface",
                          "bulkTransfer"}
           /\ run'.job = run.job /\ run'.want = run.want
           /\ run'.readAs = run.readAs
           /\ run'.pc = "writeSetting" => run.job = "toggleTrackpad"
  BY <1>6 DEF ReadStands
<1>7. ASSUME NEW d \in attached,
             UNCHANGED setting, run.pc = "findDevice",
             run' = [run EXCEPT !.pc = "openDevice", !.found = d]
      PROVE  ReadStands'
  BY <1>1, <1>6, <1>7 DEF Run
<1>8. CASE FindDevice
  BY <1>3, <1>7, <1>8 DEF FindDevice, HasTrackpad
<1>9. ASSUME NEW pc \in {"claimInterface", "bulkTransfer"},
             UNCHANGED setting, run.pc \in {"openDevice", "claimInterface"},
             Goto(pc)
      PROVE  ReadStands'
  BY <1>1, <1>6, <1>9 DEF Goto, Run
<1>10. CASE OpenDevice \/ ClaimInterface
  BY <1>3, <1>9, <1>10 DEF OpenDevice, ClaimInterface, FoundClosed
<1>11. CASE TransferOk
  <2>1. CASE run.job = "toggleTrackpad"
    BY <1>1, <1>6, <1>11, <2>1 DEF TransferOk, Goto, Run
  <2>2. CASE run.job # "toggleTrackpad"
    BY <1>3, <1>11, <2>2 DEF TransferOk
  <2> QED
    BY <2>1, <2>2
<1>12. CASE OnAttached \/ OnDetached \/ OnUserBroadcast \/ OnToggleKey
  BY <1>2, <1>4, <1>12 DEF OnAttached, OnDetached, OnUserBroadcast,
                           OnToggleKey, Take
<1>13. CASE TransferFails \/ WriteSetting
  BY <1>3, <1>13 DEF TransferFails, WriteSetting, UserCurrent
<1>14. CASE Environment \/ Deliver
  BY <1>2, <1>14 DEF Environment, Attach, Detach, SwitchUser, HandleKeyEvent,
                     Deliver, DeliverUsb, DeliverUser
<1> QED
  BY <1>2, <1>5, <1>8, <1>10, <1>11, <1>12, <1>13, <1>14
     DEF Next, Handler, vars

\* A toggle during which the user stays the same flips exactly that user's
\* setting, however many attaches, detaches and presses come in between.
THEOREM TogglesFlip == Spec => ToggleFlips
<1> DEFINE Flip == setting' # setting /\ run.readAs = user
                     => setting' = [setting EXCEPT ![user] = ~@]
<1>1. Init => ReadStands
  BY DEF Init, Idle, ReadStands
<1>2. TypeOK /\ ReadStands /\ [Next]_vars => [Flip]_vars
  <2> SUFFICES ASSUME TypeOK, ReadStands, Next, setting' # setting,
                      run.readAs = user
               PROVE  setting' = [setting EXCEPT ![user] = ~@]
    BY DEF vars
  <2>1. run.pc = "writeSetting"
        /\ setting' = [setting EXCEPT ![user] = ~run.want]
    BY DEF Next, Environment, Attach, Detach, SwitchUser, HandleKeyEvent,
           Deliver, DeliverUsb, DeliverUser, Handler, OnAttached, OnDetached,
           OnUserBroadcast, OnToggleKey, Take, ReadSetting, FindDevice,
           OpenDevice, ClaimInterface, TransferOk, TransferFails, WriteSetting,
           UserCurrent
  <2>2. run.want = setting[user]
    BY <2>1 DEF ReadStands
  <2> QED
    BY <2>1, <2>2
<1> QED
  BY <1>1, <1>2, NextReadStands, TypeCorrect, PTL DEF Spec, ToggleFlips

\* A job that ends with the keyboard having taken what it sent, and its own write
\* not refused, leaves the trackpad in use as the setting of the user it was read
\* for, whatever earlier jobs have failed and however the settings provider fares.
THEOREM EveryJobHeals == Spec => JobsHeal
<1> DEFINE Done == /\ run.pc \in {"bulkTransfer", "writeSetting"} /\ run' = Idle
                   /\ run.readAs = user /\ connection' # NoDevice
                   /\ run.job = "applyTrackpadState" \/ setting' # setting
           Heal == Done => pad'[connection'] = ~setting'[user']
<1>1. Init => ReadStands
  BY DEF Init, Idle, ReadStands
<1>2. HandleInv /\ ReadStands /\ [Next]_vars => [Heal]_vars
  <2> SUFFICES ASSUME HandleInv, ReadStands, Next, Done
               PROVE  pad'[connection'] = ~setting'[user']
    BY DEF vars
  <2>1. run # Idle /\ run.pc # "idle" /\ run \in Run
    BY IdleInRun DEF HandleInv, TypeOK
  <2>2. TransferOk \/ WriteSetting
    <3>1. ~UNCHANGED run
      BY <2>1
    <3>2. ~Environment /\ ~Deliver
      BY <3>1 DEF Environment, Attach, Detach, SwitchUser, HandleKeyEvent,
                  Deliver, DeliverUsb, DeliverUser
    <3>3. ~TransferFails
      BY DEF TransferFails, CloseConnection
    <3>4. ~OnAttached /\ ~OnDetached /\ ~OnUserBroadcast /\ ~OnToggleKey
      BY <2>1 DEF OnAttached, OnDetached, OnUserBroadcast, OnToggleKey, Take
    <3>5. ~ReadSetting /\ ~FindDevice /\ ~OpenDevice /\ ~ClaimInterface
      BY DEF ReadSetting, FindDevice, OpenDevice, ClaimInterface
    <3> QED
      BY <3>2, <3>3, <3>4, <3>5 DEF Next, Handler
  <2>3. CASE TransferOk
    <3>1. /\ run.pc = "bulkTransfer" /\ UNCHANGED <<setting, env, conn>>
          /\ pad' = [pad EXCEPT ![connection] = run.want]
      BY <2>3 DEF TransferOk
    <3>2. connection \in Devices /\ pad'[connection] = run.want
      BY <2>3, <3>1, ConstantsAssumption DEF HandleInv, TypeOK, ConnectionAt
    <3>3. run.want = ~setting[user]
      BY <3>1 DEF ReadStands
    <3> QED
      BY <3>1, <3>2, <3>3 DEF env, conn
  <2>4. CASE WriteSetting
    <3>1. /\ run.pc = "writeSetting" /\ UNCHANGED <<env, pad, conn>>
          /\ setting' = setting
               \/ setting' = [setting EXCEPT ![user] = ~run.want]
      BY <2>4 DEF WriteSetting, UserCurrent
    <3>2. run.job = "toggleTrackpad"
      BY <3>1 DEF ReadStands
    <3>3. setting'[user] = ~run.want /\ run.want \in BOOLEAN
      BY <2>1, <3>1, <3>2 DEF HandleInv, TypeOK, Run
    <3>4. pad[connection] = run.want
      BY <3>1 DEF HandleInv, AckBeforeWrite
    <3> QED
      BY <3>1, <3>3, <3>4 DEF env, conn
  <2> QED
    BY <2>2, <2>3, <2>4
<1> QED
  BY <1>1, <1>2, NextReadStands, TypeCorrect, HandleInvHolds, PTL
     DEF Spec, JobsHeal
=============================================================================
