# TLA+ models of android_hardware_amazon

The repository holds the Amazon-specific glue of an Android tablet: a key
handler for the docked keyboard, a service that warns of a low pen battery, a
wrapper that adapts Amazon's old audio HAL to the current one, the process that
serves the audio interfaces, and a small logging shim.  All of it talks to
something it does not control: a keyboard that can be pulled out, a proprietary
audio device, a library that may or may not be loaded.  The specifications here
model the glue and leave that other side as free as it is.

## Inventory

| Component | State it keeps | Operations | Talks to |
|---|---|---|---|
| Key handler, trackpad half (`KeyHandler.kt`) | open USB connection and endpoint; the per-user setting in the settings provider | key press; attach, detach, boot and user-switch broadcasts | input thread and broadcasts post to one handler thread; USB and settings calls |
| Key handler, files and split-screen keys (`KeyHandler.kt` 119-171) | none of its own | two key presses | keyguard, activity manager, input injection |
| Pen service (`PenService.kt`, `BootCompletedReceiver.kt`) | whether the observer is registered; one notification | create, destroy, uevent, battery update | UEventObserver thread posts to the main looper |
| Audio wrapper (`audio_hw.cpp`, `audio_stream.cpp`, `asp.cpp`) | the wrapped device, one block of memory per stream, a static function pointer | about 25 device methods, 40 stream methods | binder threads call it, it calls the Amazon device and the ASP |
| Conversions (`audio_hw.cpp` 36-160, `audio_port_config.h`, `in_update_sink_metadata`) | none | structures to the Amazon layout and back | called by the wrapper |
| Audio service (`service.cpp`, `.rc`) | what has been registered | start-up; restart by init | hwservicemanager, init |
| libamazonlog (`amazonlog.c`) | extension table of an event, owned by the caller | append an entry, map a priority to a name and back; stubs | proprietary callers |
| HIDL interfaces, VINTF matrix, build files | none | none | declarations only |

What is hard, and what makes each part correct:

* **Trackpad.** The keyboard is told over USB and the choice is stored in a
  setting; nothing makes the two atomic.  Broadcasts arrive late and between
  presses, the keyboard can vanish between any two calls, a transfer that timed
  out may have been applied, and the user may be switched inside a toggle.
  Correct means: no descriptor leaks, a choice is stored only when the keyboard
  took it, and once all messages are handled keyboard and setting agree.
* **Audio wrapper.** Methods run concurrently; opening a stream has four steps
  that can each fail; whether there is an ASP is decided once, by whoever asks
  first.  Correct means: every Amazon stream has exactly one owner, no null
  method is called and none is hidden, the decision about the ASP is coherent with
  everything that was opened and set before it, and to the client opening and
  closing look like one step.
* **Stream configurations.** A refused client finds a suggestion in its own
  structure, or what an error has left there, and tries again with it.  Correct means:
  nothing else in the structure changes, whatever is suggested and however often, and
  what it finds is one answer or its own request, never a mixture.
* **Pen service.** Two threads and a lifecycle.  Correct means: the warning on
  the screen is that of the last report, and a destroyed service falls silent.
* **Audio service.** Mandatory interfaces abort the process, optional ones do
  not, the newest version wins; calls are served while the later interfaces are still
  being registered; init restarts it together with the audio server.
  Correct means, too, that no handle of the audio server outlives the process it
  came from, that a stream that is open survives what fails later in the start-up, and
  that sound comes back.
* **Split-screen key.** The decision is made on a window mode that an earlier
  shortcut, still on its way, is about to change; a shortcut is two events.
  Correct means: nothing is started on a locked device, no key stays down, and the
  last press decides.
* **Conversions, libamazonlog.** Bounded arrays, fields that the old layout does
  not have, C strings cut to fit, signed numbers used as indices.

The file `PROJECT.json` lists every hazard at its line with the properties that
cover it.

## Modules

### `Trackpad`

The input thread, the system and the handler thread as one specification.

| Code | Specification |
|---|---|
| `trackpadDisabled` (43-58) | `setting[user]`, read by `ReadSetting`, written by `WriteSetting` for whoever is the user at that moment |
| `connection`, `endpoint` (40-41) | `connection`, `endpoint`, and `handles`: the descriptors the process really has open |
| messages of `handler` | `queue`; broadcasts the system still holds are in `usbPending` and `userPending` |
| `receiver.onReceive` (60-78) | `OnAttached`, `OnDetached`, `OnUserBroadcast` |
| `handleKeyEvent` (95-117) | `HandleKeyEvent` posts, `OnToggleKey` takes |
| `toggleTrackpad`, `applyTrackpadState` | `run.job`; they differ in the value wanted and in the write at the end |
| `setTrackpadEnabled` (185-202) | `TransferOk`, `TransferFails` |
| `openConnection` (204-225) | `FindDevice`, `OpenDevice`, `ClaimInterface` |
| `closeConnection` (227-231) | `CloseConnection`, part of the actions that call it |

Each action of the handler thread is one call that leaves the process together
with the code up to the next such call, so an attach, a detach, a press or a user
switch can fall between any two of them.  `pad[d]` is what the trackpad itself
does.  A device that is plugged in again is a new device, with its trackpad in
any state; an open descriptor outlives its device.  USB broadcasts keep their
order among themselves and so do user broadcasts; the two kinds may overtake each
other.

### `TrackpadProofs`

Theorems about `Trackpad` for all users, devices and bounds.  What this and the other
modules of proofs establish is said under Proofs.  Each extends the component it is
about; `AppProofs` extends both `LaunchKeys` and `PenService`.

### `AudioDevice`, `AudioDeviceProofs`

The wrapper's device on several binder threads.  `stream[s]` is what the Amazon
device has open at an address it may use again, `wrapper[w]` the pointer in a
client stream's memory, `held` what the client may use, `call[t]` the program
counter and locals of the method a thread runs.  `adev_open_input_stream` is
`OpenInputStream` (ask for the ASP, refuse with a suggestion), `AmazonOpen`,
`Wrap` (the allocation) and `UndoOpen` or `SetCaptureVolume`.  `asp` is the static
of `get_asp_command`, `Resolved` its value after a call.  Methods without logic of
their own are one action, `Forward`; what matters of them is whether a pointer is
null, so the Amazon device implements any set of methods from `AmazonTables`.

At the end of the module `OpenStreams` reads the memory of the wrapper as the client
sees it, and `ImplementsService` says that with this mapping every behaviour is one
of `StreamService`.

`ClosedAssumption` keeps the constant `Closed` apart from the streams there are, so
that an address in use is told from one that is not.  Assumed of the other side, and
stated in `ConstantsAssumption` or in the action: the Amazon device can close what it
can open and can capture in the format of Amazon's own signal processor; the client
opens the device before and closes it after everything else, closes each stream once,
follows a suggestion at most once, and holds one lock around `set_voice_volume`, as the
audio server does.

### `StreamService`

What the wrapper promises: a handle is opened at once, stands for one stream until it
is closed at once, and whether there is an ASP is decided once, before the first
input is opened and for all that follow.  With an ASP, a stream that captures voice
is opened in the ASP's format or not at all.

### `AudioStream`, `AudioStreamProofs`

The methods of open streams, on several threads.  `amazon[s]` is an Amazon stream with
the methods it implements, `block[w]` the client's memory: the pointer to the Amazon
stream and the methods that are not null.  `ForwardedOut` and `ForwardedIn` are the
lists of `FORWARD` lines, `CallocTable` what stands in the memory before.  Methods
that only pass their arguments on are `CommonForward`, `OutForward` and `InForward`;
`CreateMmapBuffer` clears the client's description first; `UpdateSinkMetadata` and
`ConvertTrack` fill a vector, a track at a step, that `AmazonReturns` destroys.
Opening and closing are one step here, which `ImplementsService` justifies.  The
client calls no method of a stream while it closes it.

### `StreamConfig`, `StreamConfigProofs`

One client's structure on its way through `get_input_buffer_size`,
`open_output_stream` and `open_input_stream`, again and again.  `config` is the
client's structure, `amazon` the one on the wrapper's stack, `info` what the client
filled in at first, `asked` what was in the structure when the call was made.  An
Amazon device that opens a stream may overwrite its structure with anything it can do;
one that refuses may do so, too, or leave the structure as `to_amazon_config` has filled
it (`AmazonOpens`).  `Return` is `from_amazon_config`, which the code calls before it
looks at the result, and the end of the call, which after an open may still be a
refusal, for want of memory.  Here, other than in `AudioDevice`, the
client asks for what it wants in any order and follows suggestions as often as it
likes.  An offload description is its fields, with `layout` for version and size and
`newer` for what Amazon's layout has no room for.

### `PenService`, `AppProofs`

Kernel, observer thread and main looper.  `event` is an event whose delivery has
begun: the UEventObserver thread collects observers first and calls them later, so
it may call one that has been removed.  `reported` and `dismissed` are history
variables for the properties.

The proofs about it are in the second part of `AppProofs`.  That module extends
`LaunchKeys` too, so the specification of the pen service is named apart from that one:
`PenInit`, `PenNext`, `penVars`, `PenSpec`, `FairPenSpec`.

### `PortConfig`, `PortConfigProofs`

The conversions of ports and their configurations as operators of the same names
(`ToAmazonConfig` is `to_amazon_port_config`, and so on) and the three methods that
use them.  `common` stands for all fields in front of the first difference, `ext`
for the member of the union that goes with the type, `flags` and `newer` for what
only the framework has.  The two arrays of `create_audio_patch` start out as
garbage and are filled one element per step.  A call that is refused with `-EINVAL`
changes nothing and is no step.  Assumed of the Amazon device: it leaves the union
of a port without a type zero.

### `AmazonLog`, `VitalsTable`, `AmazonLogProofs`

`VitalsTable` is what the extension table of a vitals event promises: a list of
pairs per type of data, each string cut to the room there is, that only grows, up to
a limit.  `AmazonLog` is the code, with arrays of characters that hold junk until
they are written, `strncpy` and the terminator after it, and the casts to unsigned.
The table is implemented under the mapping that reads the arrays as C strings
(`StringIn`).  The owner zeroes the counts of an event, as the callers have to for
the code to work.  Names of priorities are paths; a path is the sequence of its
components.

### `LaunchKeys`, `AppProofs`

The other two keys, on an Amazon keyboard and on another.  `held`, `Press`, `Repeat` and
`Release` are the input thread's,
`jobs` the handler's messages, `pc` the next call of the job in progress; each of
`canLaunch`'s two questions, `getTasks`, and the injection of either event is a step,
and each of them may throw.  `injected` is what the dispatcher has not come to; a
shortcut takes effect when its key goes down.  `seen`, `wanted`, `lost`, `presses`
and `handled` are history for the properties.

### `AudioService`

`main` of the service, one step per attempt to register an interface: `Register`,
`RegisterFails`, `LoadLibrary`.  `Start` and `Reap` are init with the `.rc` file:
`Reap` includes `onrestart restart audioserver`.  `registry[i]` is the incarnation
that the service manager has interface `i` from, which it may go on having for a
while after a death; `behind[i]` is the interface whose implementation it has there.
The two differ from a list of names because version 1.1 of the signal processor's
interface extends 1.0 (`IHalAudioSignalProcessor.hal`): the service manager enters an
implementation under its whole chain (`Chain`), so 1.1 is offered under both names.

### `AudioSystem`, `AudioSystemProofs`

Extends `AudioService` with the streams inside the process, by an instance of
`StreamService`, and with `using`, the handles of the audio server.  Every step of
`AudioService` is followed by its `Aftermath`: the memory of a process goes with it,
and an audio server that is restarted knows of no handle.  `configureRpcThreadpool(16,
true)` reserves one of its threads for `main` and leaves the transport the others, the
first of which starts with the first interface that is registered: a process serves
(`Serves`) from then on, whatever `main` is doing.  `early` remembers whether the
process was asked for the ASP before `main` had come to the end of its loops.  Assumed:
the implementation of the signal processor's interface brings its library into the
process; something else may, too.

### Modules for model checking

`MCTrackpad`, `MCAudioDevice`, `MCAudioStream`, `MCStreamConfig`, `MCAudioSystem`,
`MCPortConfig` and `MCAmazonLog` hold the values of the constants.  The other modules
need only numbers.

## Runs

| Run | Question | Bounds |
|---|---|---|
| `trackpad_safety` | `HandlesOwned`, `AckBeforeWrite`, `ToggleFlips`, `JobsHeal` | 2 users, 2 keyboards at once, 1 press, 1 switch, 1 fault, writes may fail |
| `trackpad_settled` | `SettledAgrees` | 2 users, 1 keyboard at a time (2 in sequence), 2 presses, 1 switch, 1 fault |
| `trackpad_sync` | `EventuallyObeyed` | as above, 1 press, 1 switch, no USB faults |
| `trackpad_stale` | `TypeOK`, `StaleDropped` | 1 user; 1 full keyboard, 1 without trackpad interface, 1 other device, 1 fault |
| `audio_streams` | `TypeOK`, `StreamsOwned`, `NoNullCall`, `OneRetrySuffices`, `AspInformed`, `ImplementsService` | 2 threads, 2 streams, 3 configurations (one the Amazon device refuses), 3 method tables, 2 volumes |
| `audio_stream` | `CallsLand`, `NothingHidden`, `MetadataIntact`, `MmapClean` | 2 threads, 2 streams, 2 method tables of each kind, up to 2 tracks |
| `stream_config` | `InfoKept`, `AmazonTold`, `SuggestionUsable` | 3 attempts, 16 configurations of which the Amazon device has 4, 2 offload descriptions |
| `audio_system` | `ServesMandatory`, `NewestOffered`, `HandlesValid`, `OwnAspFits`, `StreamsSurvive`, `SoundComesBack` | 3 deaths, 2 handles, 3 streams |
| `pen` | `WarnedOfLast`, `SilentAfterDestroy`, `ChargedWithdrawn` | levels below, at and above the threshold, 3 queued updates |
| `port_config` | `InBounds`, `NothingElseLost`, `AnswerOrNothing` | arrays of 2, up to 3 ports, all types, two values per field |
| `amazon_log` | `NamesAgree`, `ImplementsTable` | arrays of 3 characters, strings of 0, 2 and 3, limits 1 and 2, ints from -8 to 7 |
| `launch_keys` | `InUse`, `KeysReleased`, `SplitToggled`, `EveryPressHandled` | 3 presses, 1 exception |

Why the bounds are enough.  In `Trackpad` one job touches one connection, so what
can go wrong needs a job in progress and one event of each kind during it, then
one more message to expose it; two devices give an unplugged keyboard and its
successor, two users a setting before and after a switch.  Every device can be
attached and detached once, which bounds the broadcasts without a bound on the
queues.  In `AudioDevice` a conflict over an address needs two threads, and so does a
stream that is opened while a volume is set; the library appears on its own.  In
`AudioStream` two threads can be in the same method of two streams, and two blocks of
memory can be used for any sequence of kinds.  In `StreamConfig` the third attempt
follows a suggestion of the ASP and one of the Amazon device.  The bounds are the
constants `Bound` (presses, switches, faults), `Streams`, `Wrappers`, `Blocks`,
`Handles`, `MaxTries`, `MaxQueue`, `MaxPresses` and `MaxFaults`.  In `PortConfig` and `AmazonLog` every array is met
empty, full and overfull, and every string shorter than, as long as and longer than
its room; both are proved for all sizes besides.  In `LaunchKeys` a third press is
handled after two that overlapped; in `AudioSystem` a death can hit a start-up, the
repeated start-up and the service that came of it.

Deadlock is checked in `port_config` and `audio_stream`, where every call returns, in
`amazon_log`, where a caller can always ask for another name, and in `audio_system`,
where an audio server that has found its service can always use it.
The other systems may come to rest, with nothing plugged in or out and no key
pressed.

Symmetry is used for runs without liveness properties only: users and devices
(keyboards that are all alike) in `Trackpad`, threads, streams and client streams
in `AudioDevice`, streams and blocks in `AudioStream`.

### Fairness

`Trackpad!FairSpec` has weak fairness of the handler thread as a whole and of the
delivery of broadcasts: the looper takes the next message as long as there is one,
its USB transfer returns within `USB_TIMEOUT_MS` and its other calls are binder
calls that return; the system delivers a broadcast it has sent.  Nothing is assumed
of the user, the keyboard or faults.  `PenService!FairPenSpec` has weak fairness of the
observer thread, of the main looper and of creating a service that is wanted.
`LaunchKeys!FairSpec` has weak fairness of the handler thread, which never waits for
anything.  `AudioSystem!Fairness` has it of `main`, of init's two steps (a service
that is not oneshot is started again without end), of the audio server's wait for the
interface and of an audio server that can open a stream and has one to play.

## Proofs

TLAPS checks the theorems of eight modules.  Each holds for every value of the
constants that satisfies the assumptions of the component, all of which TLC evaluates
in the runs.  The theorems about a component follow from one inductive invariant,
named in the list; what it adds to the properties of the runs is why they hold.
Theorems about modules with a fair specification are stated for `Spec` (`PenSpec`), which
`FairSpec` (`FairPenSpec`) implies.

| Property of a run | Theorem | From |
|---|---|---|
| `Trackpad`: `TypeOK`, `HandlesOwned`, `AckBeforeWrite` | `TypeCorrect`, `NoDescriptorLeaks`, `StoredIsAcknowledged` | `HandleInv` |
| `SettledAgrees` | `SettledAgreement` (if writes succeed) | `SyncInv` |
| `ToggleFlips`, `JobsHeal` | `TogglesFlip`, `EveryJobHeals` | `HandleInv`, `ReadStands` |
| `AudioDevice`: `TypeOK`, `StreamsOwned`, `NoNullCall`, `OneRetrySuffices`, `AspInformed` | `DeviceTyped`, `EveryStreamOwned`, `NullNeverCalled`, `OneRetryEnough`, `AspAlwaysInformed` | `DeviceIInv` |
| `ImplementsService` | `DeviceImplementsService` | `DeviceIInv` |
| `AudioStream`: `CallsLand`, `NothingHidden`, `MetadataIntact`, `MmapClean` | `CallsAlwaysLand`, `NothingIsHidden`, `MetadataIsIntact`, `MmapIsClean` | `MethodsInv` |
| `StreamConfig`: `InfoKept`, `AmazonTold`, `SuggestionUsable` | `InfoIsKept`, `AmazonIsTold`, `SuggestionsUsable` | `ConfigInv` |
| `AudioSystem`: `ServesMandatory`, `NewestOffered`, `HandlesValid`, `OwnAspFits`, `StreamsSurvive` | `MandatoryServed`, `NewestIsOffered`, `HandlesAreValid`, `InputsFitOwnAsp`, `OpenStreamsSurvive` | `SystemIInv` |
| `LaunchKeys`: `InUse`, `KeysReleased`, `SplitToggled` | `OnlyInUse`, `KeysAreReleased`, `SplitIsToggled` | `KeysInv` |
| `PenService`: `WarnedOfLast`, `SilentAfterDestroy` | `WarnedOfTheLast`, `DestroyedIsSilent` | `PenInv` |
| `PortConfig`: `InBounds`, `NothingElseLost`, `AnswerOrNothing` | `PatchInBounds`, `PatchComplete`, `PortAnswered` | `PortInv` |
| `AmazonLog`: `NamesAgree`, `ImplementsTable` | `NamesAlwaysAgree`, `TableImplemented` | `TableInv` |

A liveness property says that something comes about in the end.  What can be proved of
it is that nothing is lost on the way: in every state it has come about, or something
that will bring it about is there.  That this something does happen is left to the
fairness of the specification and to TLC.

| Liveness of a run | What is proved of every state | Theorem, from |
|---|---|---|
| `StaleDropped` | the broadcast that makes the handler drop its connection is in flight | `GoneIsAnnounced`, from `HandleInv` |
| `EventuallyObeyed` | when nothing is left to do, every trackpad obeys | `SettledIsObeyed`, from `SyncInv` and `NoticedInv` |
| `EveryPressHandled` | a press that has not been handled is in the queue | `NoPressIsLost`, from `KeysInv` |
| `SoundComesBack` | there is a stream, or the next step towards one is due | `SoundIsOnTheWay`, from `SystemIInv` |
| `ChargedWithdrawn` | when no update waits, a charged pen has no warning | `WarnedOfTheLast`, from `PenInv` |

The other theorems are no property of a run: `AspIsDecidedOnce` and `InputsAlwaysFit`
of `AudioDevice`, `LivesAreServices` of `AudioSystem`,
`TableNotOverrun` of `AmazonLog`, and the invariants themselves.

### Trackpad

From `ConstantsAssumption`, for every set of users and devices, any bound on presses,
switches and faults, and any number of keyboards.

* `HandleInv` is inductive: `TypeOK`, `HandlesOwned`, `AckBeforeWrite` and
  `ConnectionAt`, which says what the handler holds at each program counter.  It is
  needed because `HandlesOwned` by itself does not know that `ClaimInterface` is
  reached without a connection, nor that the device it works on is no longer
  waiting to be plugged in (attaching a device sets its trackpad to any state).
  Consequences: `TypeCorrect`, `NoDescriptorLeaks`, `StoredIsAcknowledged`.
* `SyncInv` adds where a disagreement may still be hiding: a device in use that is
  gone has a detach broadcast in flight (`GoneAnnounced`); what a job is about to
  send is what the current setting asks for, or a user broadcast is in flight
  (`WantCurrent`); between jobs a connected trackpad agrees with the setting, or
  such a broadcast is in flight (`IdleAgrees`).  It is inductive if the settings
  provider takes every write, and yields `SettledAgreement`.  `GoneAnnounced` needs
  only `HandleInv` (`NextGone`), so `GoneIsAnnounced` holds with refused writes, too.  The lemmas on
  `Range`, `Append` and `Tail` say that sending adds to what is in flight, that
  delivery keeps it and that the handler takes away only the head.
* `ReadStands` says that what a job has read is still what is stored when the job comes
  to its end, because only the handler writes the setting.  With it follow the two
  action properties: `TogglesFlip`, and, with what `HandleInv` knows of the trackpad
  between the transfer and the write, `EveryJobHeals`, whether the settings provider
  takes every write or not.
* `NoticedInv` is about the trackpads themselves, connected or not: one that is plugged
  in is connected, or a job is running, or a broadcast is in flight that starts one.
  A job may be given up, and a connection dropped, because of an older keyboard; by then
  the attach of the newer must still be to come.  So the invariant has to speak of order:
  behind every detach of a keyboard, in the broadcasts and in the queue, comes the attach
  of the one that is plugged in now (`Followed`, `AttachOrdered`).  The lemmas say that a
  new message, a delivery and the taking of the head keep it so, and `NoticedAfterLoss`
  that with `GoneAnnounced` it follows whenever the handler loses a device.
  `SettledIsObeyed` supposes what `EventuallyObeyed` is checked with: one keyboard at a
  time, no USB faults and a settings provider that takes every write.  Without any of
  these it is false, as said under the limits.

### The audio wrapper

From `ConstantsAssumption` and `ClosedAssumption`, for any number of threads, addresses
and blocks, any volumes and configurations, and any methods an Amazon device has.

* `DeviceIInv` is made of parts that need each other.  Already `TypeOK` is not
  inductive: `CloseStream` reads the kind of the stream behind a handle, so a type needs
  `StreamsOwned`, which needs that no block is in two hands (`BlocksInv`) and that a
  call which has opened a stream and not wrapped it knows which (`NewInv`).  `Alone`
  sums this up: a block that is the client's, or is being closed, is the only one that
  leads to its stream.
* `MethodInv` says why a method is there when it is called: the call was let in because
  of it.  Closing has to rest on opening, since the client is not refused there.
* `FitInv` says that everything open, or about to be opened, agrees with what is known
  of the ASP by now, which the ASP's decision has to preserve (`FitStays`): a stream
  opened before the decision can only be an output.  From this comes
  `OneRetrySuffices`.
  So does `InputsAlwaysFit`, which is about the inputs the client has, and
  `AspIsDecidedOnce` is the lemma under it (`AspStays`).
* `SoundInv` follows the voice volume from the Amazon device to the ASP through the one
  thread that is in between.
* The refinement: `NewHandleOpens` says that the step in which a handle is given to the
  client is an `Open` of `StreamService`, `LostHandleCloses` that the beginning of a
  close is its `Close`, `OtherStepsResolve` that no other step changes what a handle
  stands for (`HandlesStay`), and that such a step decides about the ASP or is a stutter.
  The first needs that the ASP has been asked for by the time the capture volume is set
  (`FitCall`): otherwise one step of the code would be two of the service.

`MethodsInv` of `AudioStream` holds from its `ConstantsAssumption`, one conjunct of which
keeps `Closed` apart from the Amazon streams.  `BlockInv` says that no two blocks
have the same Amazon stream and that each has exactly its methods, whatever the block
was used for before; `CallInv` that a call is in a block that stays
open under it; `TrackInv` that the tracks before the one at hand have been converted.
`AllForwarded` is the fact about the lists of forwarded methods that `NothingHidden`
rests on.

`ConfigInv` of `StreamConfig` adds to the three properties only the types and, of a call
the Amazon device has answered, that a stream it has opened is in one of its
configurations, while an error may have left the one that was asked for.  The work is in
the lemmas on the conversions: what each of them keeps.

### The audio service

`SystemIInv` holds from `NoneAssumption`, which keeps `None` apart from the streams, for
any number of deaths, handles and streams.  `OrderInv` orders the registrations and says
that nothing in the registry is from a process yet to come, without which a new process
could find an interface registered in its name; `MandatoryInv` says which are
there once the process has come that far; `VersionInv` that the newer version of an
interface has failed when the older is tried, and that neither is registered before
`main` comes to them.  `ClientInv` and `MemoryInv` tie the audio server and the memory of
the process to its life: an audio server uses the running process or the one that has
just died, and a new process has an empty memory.  `AspInv` is about a process that was
not asked for the ASP during its start-up and has found none: it has registered none,
and as `main` has left its loops it never will (`AspRegisteredEarly`).

`Decided` says of the streams of a process what `StreamService` asks of each when it is
opened.  With `AspInv` it gives `InputsFitOwnAsp`: but for an early question the answer
about the ASP, once given, is the right one for a process that has registered an ASP, so
every input of such a process fits.  `OpenStreamsSurvive` goes through the ways a stream
can end: a registration that fails ends the process only over a mandatory family, which
is a fault.  `LivesAreServices` is what connects the two levels: but for deaths, a
step of the system is a step of `StreamService` or none, which is what the wrapper in the
process implements (`DeviceImplementsService`).

### Files and split-screen keys

`KeysInv` holds for any number of presses and exceptions.  The properties speak of the
time when all events have been dispatched, so the invariant has to say of any time what
will then be: `StaysDown(c)` and `Becomes(m)` look at the last event in the queue that
counts for a key or for the mode.  `KeyInv` says that a key that will stay down is about
to be released or its release has been lost; `ModeInv` that the mode will be the one
the last press wants.  The lemmas say how the two change when an event is injected or
dispatched.  `NoPressIsLost` counts: a job in progress is still the first of the queue, so
it leaves the queue in the step in which it is counted as handled, and an exception is
such a step, too.

### Pen service

`PenInv` follows from `PenService`'s `ConstantsAssumption` for any levels, any
threshold and any length of the queue. `WarnedOfLast` speaks of an empty queue; what
makes it inductive is `LastReported`, that the last element of a queue that is not
empty is the last level that has been reported, so the update that empties the queue
is the one of that level. For `SilentAfterDestroy` it adds that a service that does
not exist observes nothing.

### Conversions and libamazonlog

`PortConfigProofs` holds for any contents of the fields and any size of the arrays.
The lemmas on the round trips (`FrameworkRoundTrip`, `AmazonPortRoundTrip`) say what
a conversion and its reverse keep; `PortInv` adds that the first `i` elements of an
array are the first `i` arguments, converted (`Filled`), which is what the loops
preserve and what `NothingElseLost` does not say of an unfinished array.

`AmazonLogProofs` holds for strings, limits and ints of any size.  `StoredReads` is
the fact about C strings: what is stored reads back as the beginning of what was
given, whatever the array held.  With the inductive `TableInv` (types and bounds) it
gives that a call appends to the list of its type and leaves the other alone
(`SetDataAppends`), and from that `TableImplemented`: every step of the code is a
step of `VitalsTable` or none.  `NamesAlwaysAgree` rests on the names being distinct
and on what the cast to unsigned lets through.

### Only model-checked

* Liveness under fairness, out of the prover's reach: `EventuallyObeyed` and
  `StaleDropped` of `Trackpad`, `EveryPressHandled` of `LaunchKeys`, `SoundComesBack` of
  `AudioSystem` and `ChargedWithdrawn` of `PenService`.
* That the steps that are bound to happen can happen: the theorems on liveness name the
  broadcast, the message or the state that makes one possible, not `ENABLED`.

## Limits of the code the models show

* If the user is switched between the read and the write of a toggle, the new
  user's setting is overwritten by the old user's choice.  `ToggleFlips` is about
  toggles without a switch; `SettledAgrees` still holds.
* If the settings provider refuses a write, trackpad and setting disagree until the
  next job; `SettledAgrees` is stated for `PutMayFail = FALSE`, and `JobsHeal` says
  that the next job which is not refused itself ends the disagreement.
* With a USB fault and no further event, a trackpad may stay as it is: nothing
  retries.  That is why `SettledAgrees` speaks of connections that are kept, and why
  `EventuallyObeyed` is checked without faults.
* With two keyboards, only one is told.
* Two quick presses of the split-screen key ask for the same mode.  `SplitToggled`
  says that the last one decides, not that each one toggles.
* The keyguard may lock between the check and what follows; `InUse` says that it was
  open at some time since the job was begun.
* A process that has looked for the ASP and not found it does not look again.  The
  order of registration does not prevent that: the core interfaces come first, and an
  input that is asked for, or a voice volume that is set, before the signal processor's
  interface is registered may settle that there is none.  `OwnAspFits` says that this is
  the only way in which an input can pass by the ASP of its process; a library that
  comes by another way may be missed, too.
* After an error of the Amazon device the client's configuration is overwritten with
  what is in the Amazon structure.  `SuggestionUsable` says what that can be: something
  the Amazon device can do, if it has suggested something, or else what was asked for,
  so a client that follows a plain error asks for the same again.
* After a crash of the pen service an old warning stays until the next report.

## Not modelled

Logging, wording of notifications, the bytes of the USB report, buffer contents, what
the Amazon streams do with sound.  The vndbinder and AIDL thread pools and the size of
the binder mapping are left out: nothing in the repository says what they have to be,
nor which sizes may be configured.  The stubs of `libamazonlog` return 0 and have no
state.  Interfaces, VINTF matrix and build files have no behaviour.

An abstract specification of the trackpad half with one atomic toggle is not
implemented by the code: between the transfer and the write of the setting the user
may be switched, and then the transfer has followed one user's setting and the write
changes another's.  `SettledAgrees`, `ToggleFlips` and `JobsHeal` say what is left.

## Plan

1. Done: all modules above, the composition of the audio service with the streams,
   `StreamService` and its implementation by `AudioDevice`.
2. Done: the inductive invariants of all components, a theorem for every safety property
   of a run, the two refinements, and of each liveness property what is proved of every
   state.
3. Left to TLC: the liveness properties under fairness.
