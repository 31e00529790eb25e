----------------------------- MODULE StreamService -----------------------------
(***************************************************************************)
(* What the wrapper promises its client of streams, without the steps it   *)
(* takes: a handle is opened and closed at once and stands for the same    *)
(* stream in between, and whether an ASP captures voice is decided once,   *)
(* before the first input is opened.                                       *)
(***************************************************************************)

CONSTANTS
  Handles,   \* the client's streams
  None,      \* a handle that is not in use
  Playable,  \* the streams that the Amazon device can open
  Inputs,    \* the ones that capture
  Unfit      \* the ones that an ASP would have to capture and cannot

VARIABLES
  open,  \* the stream that each handle stands for
  asp    \* "unresolved", "present" or "absent"

vars == <<open, asp>>

Init == open = [h \in Handles |-> None] /\ asp = "unresolved"

Open(h, s) ==
  /\ open[h] = None
  /\ s \in Playable
  /\ s \in Inputs => asp # "unresolved"
  /\ asp = "present" => s \notin Unfit
  /\ open' = [open EXCEPT ![h] = s]
  /\ UNCHANGED asp

Close(h) ==
  /\ open[h] # None
  /\ open' = [open EXCEPT ![h] = None]
  /\ UNCHANGED asp

Resolve ==
  /\ asp = "unresolved"
  /\ asp' \in {"present", "absent"}
  /\ UNCHANGED open

Next ==
  \/ \E h \in Handles : Close(h) \/ \E s \in Playable : Open(h, s)
  \/ Resolve

Spec == Init /\ [][Next]_vars
=============================================================================
