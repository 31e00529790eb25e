---------------------------- MODULE MCAudioSystem ----------------------------
(* A small instance of AudioSystem. *)
EXTENDS AudioSystem

Streams == {"music", "voice 16 kHz", "voice 48 kHz"}
Voices  == {"voice 16 kHz", "voice 48 kHz"}
=============================================================================
