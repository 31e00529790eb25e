------------------------------ MODULE Trackpad ------------------------------
(***************************************************************************)
(* The trackpad half of the Amazon keyboard's key handler                  *)
(* (KeyHandler/src/org/lineageos/keyhandler/KeyHandler.kt).                *)
(*                                                                         *)
(* A key of the docked keyboard switches its trackpad on and off.  The     *)
(* choice is kept in a per-user setting, DISABLE_TRACKPAD; the trackpad    *)
(* itself is told over USB.  Keyboard and setting can disagree, so the     *)
(* handler re-applies the setting at boot, at every attach and after every *)
(* user switch.                                                            *)
(*                                                                         *)
(* Three parties run concurrently.  The input thread calls handleKeyEvent, *)
(* which only posts a message.  The system sends broadcasts, which reach   *)
(* the same message queue some time after the event they report.  The      *)
(* handler thread takes one message at a time and talks to the settings    *)
(* provider and to the keyboard, which may be pulled out between any two   *)
(* of its calls.  An action of the handler below is one such call with the *)
(* computation up to the next one.                                         *)
(***************************************************************************)
EXTENDS Naturals, Sequences, Functions

CONSTANTS
  Users,          \* users of the tablet
  Devices,        \* USB devices; a device plugged in again is a new device
  Keyboards,      \* the devices with the keyboard's vendor and product id
  Trackpads,      \* the keyboards with an OUT endpoint on interface 3
  NoDevice,       \* Kotlin's null, for a device, connection or endpoint
  NoUser,         \* no setting has been read yet
  ManyKeyboards,  \* may two keyboards be plugged in at the same time?
  PutMayFail,     \* may the settings provider refuse a write?
  Bound           \* how many key presses, user switches and USB faults

ASSUME ConstantsAssumption ==
  /\ Trackpads \subseteq Keyboards
  /\ Keyboards \subseteq Devices
  /\ NoDevice \notin Devices
  /\ NoUser \notin Users
  /\ Users # {}
  /\ ManyKeyboards \in BOOLEAN
  /\ PutMayFail \in BOOLEAN
  /\ Bound \in [{"press", "switch", "fault"} -> Nat]

VARIABLES
  setting,      \* DISABLE_TRACKPAD of each user
  user,         \* the current user
  attached,     \* the devices in UsbManager.deviceList
  unplugged,    \* the devices not plugged in yet
  pad,          \* is the trackpad of a device on?
  handles,      \* the devices this process holds an open descriptor of
  connection,   \* the device KeyHandler.connection is open on
  endpoint,     \* the device KeyHandler.endpoint belongs to
  queue,        \* messages of the handler thread
  usbPending,   \* USB broadcasts sent and not delivered
  userPending,  \* boot and user-switch broadcasts sent and not delivered
  run,          \* the handler thread's program counter and locals
  budget        \* presses, switches and faults still allowed

env  == <<attached, unplugged, user>>
conn == <<handles, connection, endpoint>>
mail == <<queue, usbPending, userPending>>
vars == <<setting, env, pad, conn, mail, run, budget>>

-----------------------------------------------------------------------------
(* Messages and the handler thread's locals.                               *)

Message ==
  [what : {"attached", "detached", "bootCompleted", "userSwitched",
           "toggleTrackpad"},
   dev  : Devices \cup {NoDevice}]

Broadcast(what, dev) == [what |-> what, dev |-> dev]

\* Everything sent or posted that the handler thread has not taken yet.
InFlight == Range(queue) \cup Range(usbPending) \cup Range(userPending)

\* pc is the next call; job the function that runs; want the argument of
\* setTrackpadEnabled; found the device openConnection works on; readAs the
\* user whose setting the job has read.
Run ==
  [pc     : {"idle", "readSetting", "findDevice", "openDevice",
             "claimInterface", "bulkTransfer", "writeSetting"},
   job    : {"none", "applyTrackpadState", "toggleTrackpad"},
   want   : BOOLEAN,
   found  : Devices \cup {NoDevice},
   readAs : Users \cup {NoUser}]

Idle == [pc |-> "idle", job |-> "none", want |-> FALSE, found |-> NoDevice,
         readAs |-> NoUser]

\* isAmazonKeyboard, of a device that may be null.
IsAmazonKeyboard(d) == d \in Keyboards

Spend(what) ==
  /\ budget[what] > 0
  /\ budget' = [budget EXCEPT ![what] = @ - 1]

-----------------------------------------------------------------------------
(* The environment: the user at the keyboard and the Android system.       *)

\* The keyboard comes up with its trackpad in any state, and the system
\* lists it before it tells anyone.
Attach(d) ==
  /\ d \in unplugged
  /\ ManyKeyboards \/ d \notin Keyboards \/ attached \cap Keyboards = {}
  /\ unplugged' = unplugged \ {d}
  /\ attached' = attached \cup {d}
  /\ \E on \in BOOLEAN : pad' = [pad EXCEPT ![d] = on]
  /\ usbPending' = Append(usbPending, Broadcast("attached", d))
  /\ UNCHANGED <<setting, user, conn, queue, userPending, run, budget>>

\* An open descriptor outlives its device.
Detach(d) ==
  /\ d \in attached
  /\ attached' = attached \ {d}
  /\ usbPending' = Append(usbPending, Broadcast("detached", d))
  /\ UNCHANGED <<setting, user, unplugged, pad, conn, queue, userPending, run,
                 budget>>

SwitchUser(u) ==
  /\ u # user
  /\ Spend("switch")
  /\ user' = u
  /\ userPending' = Append(userPending, Broadcast("userSwitched", NoDevice))
  /\ UNCHANGED <<setting, attached, unplugged, pad, conn, queue, usbPending,
                 run>>

\* The receiver is registered with the handler: a delivery is a message.
DeliverUsb ==
  /\ usbPending # <<>>
  /\ queue' = Append(queue, Head(usbPending))
  /\ usbPending' = Tail(usbPending)
  /\ UNCHANGED <<setting, env, pad, conn, userPending, run, budget>>

DeliverUser ==
  /\ userPending # <<>>
  /\ queue' = Append(queue, Head(userPending))
  /\ userPending' = Tail(userPending)
  /\ UNCHANGED <<setting, env, pad, conn, usbPending, run, budget>>

\* The trackpad key goes down, repeats or comes up.  The device is the one
\* getInputDevice returns, null when the keyboard is gone by now.
HandleKeyEvent(d, down, repeat) ==
  /\ d \notin unplugged
  /\ IF IsAmazonKeyboard(d) /\ down /\ repeat = 0
     THEN /\ Spend("press")
          /\ queue' = Append(queue, Broadcast("toggleTrackpad", NoDevice))
     ELSE UNCHANGED <<queue, budget>>
  /\ UNCHANGED <<setting, env, pad, conn, usbPending, userPending, run>>

-----------------------------------------------------------------------------
(* The handler thread: the receiver's onReceive and the posted runnable.   *)

Start(job) == run' = [Idle EXCEPT !.pc = "readSetting", !.job = job]

CloseConnection ==
  /\ handles' = handles \ {connection}
  /\ connection' = NoDevice
  /\ endpoint' = NoDevice

Take(what) ==
  /\ run = Idle
  /\ queue # <<>>
  /\ Head(queue).what = what
  /\ queue' = Tail(queue)
  /\ UNCHANGED <<setting, env, pad, usbPending, userPending, budget>>

\* Mutant: a keyboard that is plugged in is not told the setting.
OnAttachedNoApply == Take("attached") /\ UNCHANGED <<conn, run>>

OnAttached ==
  /\ Take("attached")
  /\ IF IsAmazonKeyboard(Head(queue).dev)
     THEN Start("applyTrackpadState")
     ELSE UNCHANGED run
  /\ UNCHANGED conn

\* Mutant: the connection survives its keyboard.
OnDetachedKeepsConnection == Take("detached") /\ UNCHANGED <<conn, run>>

OnDetached ==
  /\ Take("detached")
  /\ IF IsAmazonKeyboard(Head(queue).dev)
     THEN CloseConnection
     ELSE UNCHANGED conn
  /\ UNCHANGED run

\* Mutant: nothing happens when the user is switched.
OnUserBroadcastBootOnly ==
  /\ \/ Take("bootCompleted") /\ Start("applyTrackpadState")
     \/ Take("userSwitched") /\ UNCHANGED run
  /\ UNCHANGED conn

OnUserBroadcast ==
  /\ Take("bootCompleted") \/ Take("userSwitched")
  /\ Start("applyTrackpadState")
  /\ UNCHANGED conn

OnToggleKey ==
  /\ Take("toggleTrackpad")
  /\ Start("toggleTrackpad")
  /\ UNCHANGED conn

-----------------------------------------------------------------------------
(* The handler thread: applyTrackpadState, toggleTrackpad and the calls of *)
(* setTrackpadEnabled and openConnection.                                  *)

Goto(pc) == run' = [run EXCEPT !.pc = pc]

\* An apply wants what the setting says, a toggle the opposite of it.
ReadSetting ==
  /\ run.pc = "readSetting"
  /\ run' = [run EXCEPT
               !.want   = IF run.job = "toggleTrackpad"
                          THEN setting[user] ELSE ~setting[user],
               !.readAs = user,
               !.pc     = IF connection = NoDevice
                          THEN "findDevice" ELSE "bulkTransfer"]
  /\ UNCHANGED <<setting, env, pad, conn, mail, budget>>

\* Mutant: the interface count and the endpoint are not looked at.
HasTrackpadAny(d) == TRUE

HasTrackpad(d) == d \in Trackpads

\* deviceList is a hash map: its first keyboard is any of them.  Having
\* picked one without the trackpad interface the code looks no further.
FindDevice ==
  /\ run.pc = "findDevice"
  /\ \/ /\ attached \cap Keyboards = {}
        /\ run' = Idle
     \/ \E d \in attached \cap Keyboards :
          run' = IF HasTrackpad(d)
                 THEN [run EXCEPT !.pc = "openDevice", !.found = d]
                 ELSE Idle
  /\ UNCHANGED <<setting, env, pad, conn, mail, budget>>

\* A call on the found device fails once it is gone, or by a fault.
CallFails ==
  \/ run.found \notin attached /\ UNCHANGED budget
  \/ Spend("fault")

OpenDevice ==
  /\ run.pc = "openDevice"
  /\ \/ /\ run.found \in attached
        /\ handles' = handles \cup {run.found}
        /\ Goto("claimInterface")
        /\ UNCHANGED budget
     \/ /\ CallFails
        /\ run' = Idle
        /\ UNCHANGED handles
  /\ UNCHANGED <<setting, env, pad, connection, endpoint, mail>>

\* Mutant: the descriptor stays open when the claim fails.
FoundLeaked == handles

FoundClosed == handles \ {run.found}

ClaimInterface ==
  /\ run.pc = "claimInterface"
  /\ \/ /\ run.found \in attached
        /\ connection' = run.found
        /\ endpoint' = run.found
        /\ Goto("bulkTransfer")
        /\ UNCHANGED <<handles, budget>>
     \/ /\ CallFails
        /\ handles' = FoundClosed
        /\ run' = Idle
        /\ UNCHANGED <<connection, endpoint>>
  /\ UNCHANGED <<setting, env, pad, mail>>

TransferOk ==
  /\ run.pc = "bulkTransfer"
  /\ connection \in attached
  /\ pad' = [pad EXCEPT ![connection] = run.want]
  /\ IF run.job = "toggleTrackpad"
     THEN Goto("writeSetting")
     ELSE run' = Idle
  /\ UNCHANGED <<setting, env, conn, mail, budget>>

\* Mutant: the result of the transfer is not looked at.
TransferFailsUnnoticed ==
  /\ run.pc = "bulkTransfer"
  /\ (connection \notin attached /\ UNCHANGED budget) \/ Spend("fault")
  /\ IF run.job = "toggleTrackpad" THEN Goto("writeSetting") ELSE run' = Idle
  /\ UNCHANGED <<setting, env, pad, conn, mail>>

\* Short, timed out or refused.  A timed out report may have reached the
\* keyboard all the same.
TransferFails ==
  /\ run.pc = "bulkTransfer"
  /\ \/ connection \notin attached /\ UNCHANGED <<pad, budget>>
     \/ /\ Spend("fault")
        /\ \/ UNCHANGED pad
           \/ pad' = [pad EXCEPT ![connection] = run.want]
  /\ CloseConnection
  /\ run' = Idle
  /\ UNCHANGED <<setting, env, mail>>

\* Mutant: the setting of one fixed user is written, whoever the user is.
Owner == CHOOSE u \in Users : TRUE

\* USER_CURRENT is resolved again: the user may have changed since the read.
UserCurrent == user

WriteSetting ==
  /\ run.pc = "writeSetting"
  /\ \/ setting' = [setting EXCEPT ![UserCurrent] = ~run.want]
     \/ PutMayFail /\ UNCHANGED setting
  /\ run' = Idle
  /\ UNCHANGED <<env, pad, conn, mail, budget>>

-----------------------------------------------------------------------------

\* The handler is created at boot: keyboards that are already plugged in
\* raise no attach broadcast, and LOCKED_BOOT_COMPLETED is still to come.
Init ==
  /\ setting \in [Users -> BOOLEAN]
  /\ user \in Users
  /\ attached \in SUBSET Devices
  /\ ManyKeyboards \/ \A d, e \in attached \cap Keyboards : d = e
  /\ unplugged = Devices \ attached
  /\ pad \in [Devices -> BOOLEAN]
  /\ \A d \in unplugged : pad[d]
  /\ handles = {}
  /\ connection = NoDevice
  /\ endpoint = NoDevice
  /\ queue = <<>>
  /\ usbPending = <<>>
  /\ userPending = <<Broadcast("bootCompleted", NoDevice)>>
  /\ run = Idle
  /\ budget = Bound

Deliver == DeliverUsb \/ DeliverUser

Handler ==
  \/ OnAttached \/ OnDetached \/ OnUserBroadcast \/ OnToggleKey
  \/ ReadSetting \/ FindDevice \/ OpenDevice \/ ClaimInterface
  \/ TransferOk \/ TransferFails \/ WriteSetting

Environment ==
  \/ \E d \in Devices : Attach(d) \/ Detach(d)
  \/ \E u \in Users : SwitchUser(u)
  \/ \E d \in Devices \cup {NoDevice}, down \in BOOLEAN, repeat \in {0, 1} :
       HandleKeyEvent(d, down, repeat)

Next == Environment \/ Deliver \/ Handler

Spec == Init /\ [][Next]_vars

\* The looper keeps running and its calls return (bulkTransfer within
\* USB_TIMEOUT_MS); the system delivers the broadcasts it has sent.
FairSpec ==
  /\ Spec
  /\ WF_vars(Handler)
  /\ WF_vars(DeliverUsb)
  /\ WF_vars(DeliverUser)

-----------------------------------------------------------------------------
(* Properties.                                                             *)

\* Every variable has its type.
TypeOK ==
  /\ setting \in [Users -> BOOLEAN]
  /\ user \in Users
  /\ attached \subseteq Devices
  /\ unplugged \subseteq Devices \ attached
  /\ pad \in [Devices -> BOOLEAN]
  /\ handles \subseteq Devices
  /\ connection \in Trackpads \cup {NoDevice}
  /\ endpoint \in Trackpads \cup {NoDevice}
  /\ queue \in Seq(Message)
  /\ usbPending \in Seq(Message)
  /\ userPending \in Seq(Message)
  /\ run \in Run
  /\ budget \in [{"press", "switch", "fault"} -> Nat]

\* A descriptor is open exactly while KeyHandler.connection owns it or
\* openConnection is about to claim it, and connection and endpoint are null
\* or of one device together: no early return leaks or strands a descriptor.
HandlesOwned ==
  /\ handles = ({connection} \ {NoDevice})
                 \cup (IF run.pc = "claimInterface" THEN {run.found} ELSE {})
  /\ connection = endpoint

\* toggleTrackpad stores a choice only after the keyboard has accepted it:
\* between the transfer and the write the connected trackpad is as wanted.
AckBeforeWrite ==
  run.pc = "writeSetting" => /\ connection # NoDevice
                             /\ pad[connection] = run.want

\* The handler thread has nothing to do and nothing is on its way to it.
Settled == run = Idle /\ queue = <<>> /\ usbPending = <<>> /\ userPending = <<>>

\* Whenever everything has settled, a connection that is kept open is to a
\* keyboard that is still there, and its trackpad is on exactly when the
\* current user's setting does not disable it: whatever failed, was pulled
\* out or was switched on the way, nothing stale is left behind.
SettledAgrees ==
  Settled /\ connection # NoDevice =>
    /\ connection \in attached
    /\ pad[connection] = ~setting[user]

\* A toggle during which the user stays the same flips that user's setting
\* and no other: two presses never act on one reading of it.
ToggleFlips ==
  [][setting' # setting /\ run.readAs = user
       => setting' = [setting EXCEPT ![user] = ~@]]_vars

\* When the settings provider has refused a write after the keyboard took it, the
\* two disagree, but nothing builds on that: the next job that the keyboard takes
\* and whose own write is not refused, press or broadcast, makes the trackpad in
\* use agree with the setting of the user it was read for.
JobsHeal ==
  [][   /\ run.pc \in {"bulkTransfer", "writeSetting"} /\ run' = Idle
        /\ run.readAs = user /\ connection' # NoDevice
        /\ run.job = "applyTrackpadState" \/ setting' # setting
     => pad'[connection'] = ~setting'[user']]_vars

\* A connection to a keyboard that has been pulled out is dropped in the end.
StaleDropped ==
  connection \notin attached \cup {NoDevice}
    ~> connection \in attached \cup {NoDevice}

\* Without faults, once the environment has come to rest the trackpads that
\* are plugged in obey the current user's setting for good.
EventuallyObeyed ==
  <>[](\A d \in attached \cap Trackpads : pad[d] = ~setting[user])
=============================================================================
