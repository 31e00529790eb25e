---------------------------- MODULE AudioService ----------------------------
(***************************************************************************)
(* The process that serves the audio interfaces (audio/service/service.cpp *)
(* and its .rc file): it registers each family of interfaces with the      *)
(* service manager, one version after the other, and then joins the        *)
(* threads that serve calls.  init restarts it when it dies, together with *)
(* the audio server, which uses the first of the interfaces.               *)
(***************************************************************************)
EXTENDS Naturals, Sequences

CONSTANT MaxFaults  \* crashes, and failures to register what is mandatory

ASSUME FaultsAssumption == MaxFaults \in Nat

Asp10 == "IHalAudioSignalProcessor 1.0"
Asp11 == "IHalAudioSignalProcessor 1.1"

\* mandatoryInterfaces and optionalInterfaces.
Families ==
  << [mandatory |-> TRUE,  versions |-> <<"IDevicesFactory">>],
     [mandatory |-> TRUE,  versions |-> <<"IEffectsFactory">>],
     [mandatory |-> FALSE, versions |-> <<Asp11, Asp10>>] >>

Interfaces ==
  {"IDevicesFactory", "IEffectsFactory", Asp11, Asp10,
   "IBluetoothAudioProviderFactory"}

\* The interfaces that an implementation of i is offered as: i and what it extends.
\* (Those of the factories have no names of their own here: they come and go with
\* the factories.)
Chain(i) == IF i = Asp11 THEN {Asp11, Asp10} ELSE {i}

VARIABLES
  status,    \* of the process
  incarnation,  \* how often it has been started
  family,    \* what it registers next: a family
  version,   \* and one of its versions
  registry,  \* which incarnation the service manager has an interface from
  behind,    \* and of which of its interfaces it is the implementation
  failed,    \* interfaces this incarnation could not register
  client,    \* which incarnation the audio server uses, if any
  faults

process == <<status, incarnation, family, version, failed>>
offers  == <<registry, behind>>
vars    == <<process, offers, client, faults>>

Alive == status \in {"registering", "library", "serving"}

-----------------------------------------------------------------------------
(* main.                                                                   *)

Current == Families[family].versions[version]

\* Mutant: what is optional is registered after the process has begun to serve.
NextFamilyJoins ==
  /\ family' = family + 1
  /\ version' = 1
  /\ status' = IF family < Len(Families) /\ Families[family + 1].mandatory
               THEN status ELSE "serving"

NextFamily ==
  /\ family' = family + 1
  /\ version' = 1
  /\ status' = IF family = Len(Families) THEN "library" ELSE status

NextVersion ==
  /\ version' = version + 1
  /\ UNCHANGED <<family, status>>

\* Mutant: the loop over the versions goes on after the first success.
AfterSuccessGoOn ==
  IF version < Len(Families[family].versions) THEN NextVersion ELSE NextFamily

AfterSuccess == NextFamily

\* main is in one of its two loops over the families.
Registering == Alive /\ family \in DOMAIN Families

\* The service manager enters an implementation under its whole chain at once, over
\* whatever it had there.
Register ==
  /\ Registering
  /\ registry' = [i \in Interfaces |->
                    IF i \in Chain(Current) THEN incarnation ELSE registry[i]]
  /\ behind' = [i \in Interfaces |->
                  IF i \in Chain(Current) THEN Current ELSE behind[i]]
  /\ AfterSuccess
  /\ UNCHANGED <<incarnation, failed, client, faults>>

\* What the process does when the last version of a family has failed.
Abort == status' = "dead" /\ UNCHANGED <<family, version>>

\* Mutant: a failure is logged, even of a mandatory family.
GiveUpWarn == NextFamily

\* Mutant: a failure aborts, even of an optional family.
GiveUpFatal == Abort

\* LOG_ALWAYS_FATAL_IF for the mandatory families, ALOGW_IF for the others.
GiveUp == IF Families[family].mandatory THEN Abort ELSE NextFamily

MoreVersions == version < Len(Families[family].versions)

RegisterFails ==
  /\ Registering
  /\ failed' = failed \cup {Current}
  /\ IF Families[family].mandatory
     THEN faults < MaxFaults /\ faults' = faults + 1
     ELSE UNCHANGED faults
  /\ IF MoreVersions THEN NextVersion ELSE GiveUp
  /\ UNCHANGED <<incarnation, offers, client>>

\* The library of the Bluetooth provider is loaded, has the factory function and
\* that function returns STATUS_OK, or any of these fails.
LoadLibrary ==
  /\ status = "library"
  /\ status' = "serving"
  /\ registry' \in {registry, [registry EXCEPT
                                 !["IBluetoothAudioProviderFactory"] =
                                   incarnation]}
  /\ UNCHANGED <<behind, incarnation, family, version, failed, client, faults>>

Crash ==
  /\ Alive
  /\ faults < MaxFaults
  /\ faults' = faults + 1
  /\ status' = "dead"
  /\ UNCHANGED <<incarnation, family, version, failed, offers, client>>

-----------------------------------------------------------------------------
(* init, the service manager and the audio server.                         *)

Start ==
  /\ status = "stopped"
  /\ status' = "registering"
  /\ incarnation' = incarnation + 1
  /\ family' = 1
  /\ version' = 1
  /\ failed' = {}
  /\ UNCHANGED <<offers, client, faults>>

\* Mutant: without onrestart the audio server stays.
OnRestartNothing == UNCHANGED client

OnRestart == client' = 0

\* init finds the process dead and restarts the audio server before it does so
\* with the service itself.
Reap ==
  /\ status = "dead"
  /\ status' = "stopped"
  /\ OnRestart
  /\ UNCHANGED <<incarnation, family, version, failed, offers, faults>>

\* The service manager is told of the death, at some time.
DropDead ==
  /\ \E i \in Interfaces : registry[i] # 0 /\ (registry[i] # incarnation \/ ~Alive)
  /\ registry' = [i \in Interfaces |->
                    IF registry[i] = incarnation /\ Alive THEN registry[i] ELSE 0]
  /\ UNCHANGED <<process, behind, client, faults>>

\* The audio server waits for the interface and uses it, if its process lives.
Connect ==
  /\ client = 0
  /\ Alive
  /\ registry["IDevicesFactory"] = incarnation
  /\ client' = incarnation
  /\ UNCHANGED <<process, offers, faults>>

-----------------------------------------------------------------------------

Init ==
  /\ status = "stopped"
  /\ incarnation = 0
  /\ family = 1
  /\ version = 1
  /\ registry = [i \in Interfaces |-> 0]
  /\ behind = [i \in Interfaces |-> i]
  /\ failed = {}
  /\ client = 0
  /\ faults = 0

Main == Register \/ RegisterFails \/ LoadLibrary

Next == Main \/ Crash \/ Start \/ Reap \/ DropDead \/ Connect

Spec == Init /\ [][Next]_vars

-----------------------------------------------------------------------------
(* Properties.                                                             *)

\* A process that has come to joinRpcThreadpool has registered all that is
\* mandatory, whatever other incarnations had registered or failed to.
ServesMandatory ==
  status = "serving" =>
    /\ registry["IDevicesFactory"] = incarnation
    /\ registry["IEffectsFactory"] = incarnation

\* One process offers one signal processor: a client that asks for the older
\* interface is served by the implementation of the newer one, through the interface
\* it extends, unless the newer one could not be registered; there are never two
\* implementations side by side, each with a state of its own.
NewestOffered ==
  incarnation > 0 /\ registry[Asp10] = incarnation =>
    IF registry[Asp11] = incarnation THEN behind[Asp10] = Asp11
    ELSE Asp11 \in failed

=============================================================================
