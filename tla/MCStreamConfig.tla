--------------------------- MODULE MCStreamConfig ---------------------------
(* A small instance of StreamConfig. *)
EXTENDS StreamConfig

AllBasics == [sample_rate : {16000, 48000}, channel_mask : {"mono", "stereo"},
              format : {"pcm16", "float"}, frame_count : {0, 480}]

\* The Amazon device decides on the frame count itself, and has no float.
Accepted == {b \in AllBasics : b.format = "pcm16" /\ b.frame_count = 480}

\* What the initializer leaves, and everything set.
Infos == {[layout |-> "client", fields |-> [f \in OffloadFields |-> n], newer |-> n]
            : n \in {0, 1}}
=============================================================================
