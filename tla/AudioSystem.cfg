\* Three deaths, and an audio server with two streams.
CONSTANTS
  h1 = h1  h2 = h2
  Handles = {h1, h2}
  None = None
  Playable <- Streams
  Inputs <- Voices
  Unfit = {"voice 48 kHz"}
  MaxFaults = 3
SPECIFICATION SystemSpec
INVARIANTS ServesMandatory NewestOffered HandlesValid OwnAspFits
PROPERTIES StreamsSurvive SoundComesBack
