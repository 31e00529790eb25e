--------------------------- MODULE MCAudioDevice ---------------------------
(* Small instances of AudioDevice.                                         *)
EXTENDS AudioDevice, TLC

Stereo48k == [rate |-> 48000, mask |-> "stereo", format |-> "pcm16"]
Stereo16k == [rate |-> 16000, mask |-> "stereo", format |-> "pcm16"]

\* The Amazon device cannot do the last one.
TwoConfigs    == {AspConfig, Stereo48k}
ThreeConfigs  == {AspConfig, Stereo48k, Stereo16k}

\* Everything, and two devices that lack something.
Full       == Methods
PlayOnly   == {"open_output_stream", "close_output_stream", "other"}
Some       == {Full, Full \ {"get_audio_port"}, PlayOnly}

TwoVolumes == {0, 506}

Symmetry == Permutations(Threads) \cup Permutations(Streams)
              \cup Permutations(Wrappers)
=============================================================================
