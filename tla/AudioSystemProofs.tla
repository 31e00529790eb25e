-------------------------- MODULE AudioSystemProofs --------------------------
(***************************************************************************)
(* Proofs about AudioSystem: for any number of deaths, any handles and any *)
(* streams.                                                                *)
(***************************************************************************)
EXTENDS AudioSystem, TLAPS

-----------------------------------------------------------------------------
(* The inductive invariant.                                                *)

ServiceTypeOK ==
  /\ status \in {"stopped", "registering", "library", "serving", "dead"}
  /\ incarnation \in Nat
  /\ family \in 1..4
  /\ version \in {1, 2}
  /\ registry \in [Interfaces -> Nat]
  /\ behind \in [Interfaces -> Interfaces]
  /\ failed \subseteq Interfaces
  /\ client \in Nat
  /\ faults \in Nat

\* The process registers one version of one family after the other, and nothing is
\* ever registered from a process that has not been started yet.
OrderInv ==
  /\ status # "stopped" => incarnation > 0
  /\ status = "registering" => family < 4 /\ (version = 2 => family = 3)
  /\ status \in {"library", "serving"} => family = 4
  /\ \A i \in Interfaces : registry[i] <= incarnation

\* What is mandatory is there as soon as the process has gone past it.
MandatoryInv ==
  Alive =>
    /\ family > 1 => registry["IDevicesFactory"] = incarnation
    /\ family > 2 => registry["IEffectsFactory"] = incarnation

\* The two versions of the ASP's interface are tried in their order.
VersionInv ==
  status = "registering" =>
    /\ registry[Asp11] # incarnation
    /\ registry[Asp10] # incarnation
    /\ version = 2 => Asp11 \in failed

\* The audio server uses the running process, or the one that has just died.
ClientInv ==
  /\ client \in {0, incarnation}
  /\ status = "stopped" => client = 0

\* A process starts with an empty memory, and an audio server that is not connected
\* has no handles.
MemoryInv ==
  /\ open \in [Handles -> Playable \cup {None}]
  /\ using \subseteq Handles
  /\ asp \in {"unresolved", "present", "absent"}
  /\ early \in BOOLEAN
  /\ ~Alive => open = [h \in Handles |-> None] /\ asp = "unresolved"
  /\ client = 0 => using = {}

\* A process that was asked late enough and has found no ASP has none of its own,
\* and will have none.
AspInv ==
  Alive /\ asp = "absent" /\ early = FALSE =>
    status # "registering" /\ ~AspRegistered

ServiceInv == ServiceTypeOK /\ OrderInv /\ MandatoryInv /\ VersionInv
              /\ NewestOffered /\ ClientInv

SystemIInv == ServiceInv /\ MemoryInv /\ HandlesValid /\ AspInv

-----------------------------------------------------------------------------
(* The service process.                                                    *)

\* What is registered, in which order, and what may fail.
LEMMA FamiliesAre ==
  /\ Len(Families) = 3
  /\ Families[1].mandatory /\ Families[2].mandatory /\ ~Families[3].mandatory
  /\ Families[1].versions = <<"IDevicesFactory">>
  /\ Families[2].versions = <<"IEffectsFactory">>
  /\ Families[3].versions = <<Asp11, Asp10>>
BY DEF Families, Asp11, Asp10

\* main registers while, and only while, it has families left.
LEMMA RegisteringIs ==
  ASSUME ServiceTypeOK, OrderInv
  PROVE  Registering <=> status = "registering"
<1>1. DOMAIN Families = 1..3
  BY DEF Families
<1>2. CASE status = "registering"
  BY <1>1, <1>2 DEF Registering, Alive, ServiceTypeOK, OrderInv
<1>3. CASE status # "registering"
  BY <1>1, <1>3 DEF Registering, Alive, OrderInv
<1> QED
  BY <1>2, <1>3

\* The interface that main is about to register.
LEMMA CurrentIs ==
  ASSUME ServiceTypeOK, OrderInv, status = "registering"
  PROVE  \/ /\ family = 1 /\ version = 1 /\ Current = "IDevicesFactory"
            /\ ~MoreVersions /\ Families[family].mandatory
         \/ /\ family = 2 /\ version = 1 /\ Current = "IEffectsFactory"
            /\ ~MoreVersions /\ Families[family].mandatory
         \/ /\ family = 3 /\ version = 1 /\ Current = Asp11
            /\ MoreVersions /\ ~Families[family].mandatory
         \/ /\ family = 3 /\ version = 2 /\ Current = Asp10
            /\ ~MoreVersions /\ ~Families[family].mandatory
<1>1. family \in {1, 2, 3}
  BY DEF ServiceTypeOK, OrderInv
<1>2. version = 1 \/ (version = 2 /\ family = 3)
  BY DEF ServiceTypeOK, OrderInv
<1>3. CASE family = 1
  BY <1>2, <1>3, FamiliesAre DEF Current, MoreVersions
<1>4. CASE family = 2
  BY <1>2, <1>4, FamiliesAre DEF Current, MoreVersions
<1>5. CASE family = 3
  BY <1>2, <1>5, FamiliesAre DEF Current, MoreVersions
<1> QED
  BY <1>1, <1>3, <1>4, <1>5

\* Nothing is registered before the first start.
LEMMA InitService == Init => ServiceInv
<1> SUFFICES ASSUME Init
             PROVE  ServiceInv
  OBVIOUS
<1>1. ServiceTypeOK
  BY DEF Init, ServiceTypeOK
<1>2. OrderInv /\ MandatoryInv /\ VersionInv /\ NewestOffered /\ ClientInv
  BY DEF Init, OrderInv, MandatoryInv, VersionInv, NewestOffered, ClientInv, Alive
<1> QED
  BY <1>1, <1>2 DEF ServiceInv

\* The two versions of the ASP's interface are interfaces unlike the others.
LEMMA InterfaceNames ==
  /\ "IDevicesFactory" \in Interfaces /\ "IEffectsFactory" \in Interfaces
  /\ Asp11 \in Interfaces /\ Asp10 \in Interfaces
  /\ Asp11 # Asp10
  /\ Asp11 # "IDevicesFactory" /\ Asp11 # "IEffectsFactory"
  /\ Asp10 # "IDevicesFactory" /\ Asp10 # "IEffectsFactory"
  /\ Asp11 # "IBluetoothAudioProviderFactory"
  /\ Asp10 # "IBluetoothAudioProviderFactory"
BY DEF Interfaces, Asp11, Asp10

\* A registration succeeds: on to the next family.
LEMMA RegisterKeeps ==
  ASSUME ServiceInv, Register
  PROVE  ServiceInv'
<1> USE DEF ServiceInv
<1>1. status = "registering" /\ UNCHANGED <<incarnation, failed, client, faults>>
  BY RegisteringIs DEF Register
<1>2. Current \in Interfaces
  BY <1>1, CurrentIs, InterfaceNames
  DEF Asp11, Asp10
<1>3. /\ registry' \in [Interfaces -> Nat]
      /\ registry'[Current] = incarnation
      /\ behind' \in [Interfaces -> Interfaces]
      /\ \A i \in Chain(Current) : registry'[i] = incarnation /\ behind'[i] = Current
      /\ \A i \in Interfaces \ Chain(Current) : registry'[i] = registry[i]
  <2>1. Current \in Chain(Current) /\ Chain(Current) \subseteq Interfaces
    BY <1>2, InterfaceNames DEF Chain
  <2> QED
    BY <1>2, <2>1 DEF Register, ServiceTypeOK
<1>4. /\ family' = family + 1 /\ version' = 1
      /\ status' = IF family = 3 THEN "library" ELSE "registering"
  BY <1>1, FamiliesAre DEF Register, AfterSuccess, NextFamily
<1>5. ServiceTypeOK'
  BY <1>1, <1>3, <1>4, CurrentIs DEF ServiceTypeOK
<1>6. OrderInv'
  <2>1. \A i \in Interfaces : registry'[i] \in {registry[i], incarnation}
    BY <1>3
  <2> QED
    BY <1>1, <1>4, <2>1, CurrentIs DEF ServiceTypeOK, OrderInv
<1>7. MandatoryInv'
  <2>1. \A i \in Interfaces : registry'[i] \in {registry[i], incarnation}
    BY <1>3
  <2> QED
    BY <1>1, <1>3, <1>4, <2>1, CurrentIs, InterfaceNames
    DEF ServiceTypeOK, OrderInv, MandatoryInv, Alive
<1>8. VersionInv' /\ NewestOffered'
  <2>1. CASE family \in {1, 2}
    <3>1. Asp11 \notin Chain(Current) /\ Asp10 \notin Chain(Current)
      BY <1>1, <2>1, CurrentIs, InterfaceNames DEF Chain
    <3>2. registry'[Asp11] = registry[Asp11] /\ registry'[Asp10] = registry[Asp10]
      BY <1>3, <3>1, InterfaceNames
    <3> QED
      BY <1>1, <1>4, <2>1, <3>2 DEF ServiceTypeOK, VersionInv, NewestOffered
  <2>2. CASE family = 3 /\ version = 1
    <3>1. Current = Asp11 /\ Chain(Current) = {Asp11, Asp10}
      BY <1>1, <2>2, CurrentIs DEF Chain
    <3>2. registry'[Asp11] = incarnation /\ behind'[Asp10] = Asp11
      BY <1>3, <3>1
    <3> QED
      BY <1>1, <1>4, <2>2, <3>2 DEF VersionInv, NewestOffered
  <2>3. CASE family = 3 /\ version = 2
    <3>1. Current = Asp10 /\ Asp11 \notin Chain(Current)
      BY <1>1, <2>3, CurrentIs, InterfaceNames DEF Chain
    <3>2. registry'[Asp11] # incarnation /\ Asp11 \in failed
      BY <1>1, <1>3, <2>3, <3>1, InterfaceNames DEF VersionInv
    <3> QED
      BY <1>1, <1>4, <2>3, <3>2 DEF VersionInv, NewestOffered
  <2> QED
    BY <1>1, <2>1, <2>2, <2>3, CurrentIs
<1>9. ClientInv'
  BY <1>1, <1>4 DEF OrderInv, ClientInv
<1> QED
  BY <1>5, <1>6, <1>7, <1>8, <1>9

\* A registration fails: on to the older version, the next family, or to death.
LEMMA RegisterFailsKeeps ==
  ASSUME ServiceInv, RegisterFails
  PROVE  ServiceInv'
<1> USE DEF ServiceInv
<1>1. /\ status = "registering" /\ UNCHANGED <<incarnation, registry, behind, client>>
      /\ failed' = failed \cup {Current} /\ faults' \in Nat
  BY RegisteringIs DEF RegisterFails, ServiceTypeOK, offers
<1>2. Current \in Interfaces
  BY <1>1, CurrentIs, InterfaceNames
  DEF Asp11, Asp10
<1>3. CASE family = 3 /\ version = 1
  <2>1. /\ Current = Asp11 /\ version' = 2
        /\ UNCHANGED <<family, status>>
    BY <1>1, <1>3, CurrentIs DEF RegisterFails, NextVersion
  <2>2. ServiceTypeOK'
    BY <1>1, <1>2, <1>3, <2>1 DEF ServiceTypeOK
  <2>3. OrderInv'
    BY <1>1, <1>2, <1>3, <2>1 DEF ServiceTypeOK, OrderInv
  <2>4. MandatoryInv'
    BY <1>1, <1>2, <1>3, <2>1, InterfaceNames
    DEF ServiceTypeOK, OrderInv, MandatoryInv, Alive
  <2>5. VersionInv'
    BY <1>1, <1>2, <1>3, <2>1, InterfaceNames
    DEF ServiceTypeOK, OrderInv, VersionInv
  <2>6. NewestOffered'
    BY <1>1, <1>2, <1>3, <2>1, InterfaceNames
    DEF ServiceTypeOK, OrderInv, VersionInv, NewestOffered
  <2>7. ClientInv'
    BY <1>1, <1>2, <1>3, <2>1 DEF OrderInv, ClientInv
  <2> QED
    BY <2>2, <2>3, <2>4, <2>5, <2>6, <2>7
<1>4. CASE family = 3 /\ version = 2
  <2>1. status' = "library" /\ family' = 4 /\ version' = 1
    BY <1>1, <1>4, CurrentIs, FamiliesAre DEF RegisterFails, GiveUp, NextFamily
  <2>2. ServiceTypeOK'
    BY <1>1, <1>2, <1>4, <2>1 DEF ServiceTypeOK
  <2>3. OrderInv'
    BY <1>1, <1>2, <1>4, <2>1 DEF ServiceTypeOK, OrderInv
  <2>4. MandatoryInv'
    BY <1>1, <1>2, <1>4, <2>1, InterfaceNames
    DEF ServiceTypeOK, OrderInv, MandatoryInv, Alive
  <2>5. VersionInv'
    BY <1>1, <1>2, <1>4, <2>1, InterfaceNames
    DEF ServiceTypeOK, OrderInv, VersionInv
  <2>6. NewestOffered'
    BY <1>1, <1>2, <1>4, <2>1, InterfaceNames
    DEF ServiceTypeOK, OrderInv, VersionInv, NewestOffered
  <2>7. ClientInv'
    BY <1>1, <1>2, <1>4, <2>1 DEF OrderInv, ClientInv
  <2> QED
    BY <2>2, <2>3, <2>4, <2>5, <2>6, <2>7
<1>5. CASE family \in {1, 2}
  <2>1. status' = "dead" /\ UNCHANGED <<family, version>>
    BY <1>1, <1>5, CurrentIs DEF RegisterFails, GiveUp, Abort
  <2> QED
    BY <1>1, <1>2, <1>5, <2>1
    DEF ServiceTypeOK, OrderInv, MandatoryInv, VersionInv, NewestOffered,
        ClientInv, Alive, Interfaces, Asp11, Asp10
<1> QED
  BY <1>1, <1>3, <1>4, <1>5, CurrentIs

\* Having registered everything, main serves.
LEMMA LoadLibraryKeeps ==
  ASSUME ServiceInv, LoadLibrary
  PROVE  ServiceInv'
<1> USE DEF ServiceInv
<1>1. /\ registry' \in [Interfaces -> Nat] /\ behind' = behind
      /\ \A i \in Interfaces : registry'[i] \in {registry[i], incarnation}
      /\ \A i \in Interfaces \ {"IBluetoothAudioProviderFactory"} :
           registry'[i] = registry[i]
  BY DEF LoadLibrary, ServiceTypeOK
<1>2. ServiceTypeOK'
  BY <1>1 DEF ServiceTypeOK, LoadLibrary
<1>3. OrderInv'
  BY <1>1 DEF ServiceTypeOK, OrderInv, LoadLibrary
<1>4. MandatoryInv'
  BY <1>1, InterfaceNames
  DEF ServiceTypeOK, OrderInv, MandatoryInv, Alive, LoadLibrary
<1>5. VersionInv'
  BY <1>1, InterfaceNames
  DEF ServiceTypeOK, OrderInv, VersionInv, LoadLibrary
<1>6. NewestOffered'
  BY <1>1, InterfaceNames
  DEF ServiceTypeOK, OrderInv, VersionInv, NewestOffered, LoadLibrary
<1>7. ClientInv'
  BY <1>1 DEF OrderInv, ClientInv, LoadLibrary
<1> QED
  BY <1>2, <1>3, <1>4, <1>5, <1>6, <1>7

\* init starts the process again.
LEMMA StartKeeps ==
  ASSUME ServiceInv, Start
  PROVE  ServiceInv'
<1> USE DEF ServiceInv
<1>1. ServiceTypeOK'
  BY DEF ServiceTypeOK, Start, offers
<1>2. OrderInv'
  BY DEF ServiceTypeOK, OrderInv, Start, offers
<1>3. MandatoryInv'
  BY DEF MandatoryInv, Start
<1>4. VersionInv'
  BY InterfaceNames DEF ServiceTypeOK, OrderInv, VersionInv, Start, offers
<1>5. NewestOffered'
  <2>1. registry[Asp10] \in Nat /\ registry[Asp10] <= incarnation
    BY InterfaceNames DEF ServiceTypeOK, OrderInv
  <2>2. registry'[Asp10] # incarnation'
    BY <2>1 DEF ServiceTypeOK, Start, offers
  <2> QED
    BY <2>2 DEF NewestOffered
<1>6. ClientInv'
  BY DEF OrderInv, ClientInv, Start
<1> QED
  BY <1>1, <1>2, <1>3, <1>4, <1>5, <1>6

\* The service manager drops what a dead process has registered.
LEMMA DropDeadKeeps ==
  ASSUME ServiceInv, DropDead
  PROVE  ServiceInv'
<1> USE DEF ServiceInv
<1>1. /\ registry' \in [Interfaces -> Nat]
      /\ \A i \in Interfaces : registry'[i] \in {0, registry[i]}
      /\ \A i \in Interfaces : Alive /\ registry[i] = incarnation
                                => registry'[i] = incarnation
      /\ UNCHANGED <<status, incarnation, family, version, failed, behind, client,
                     faults>>
  BY DEF DropDead, ServiceTypeOK, process
<1>2. ServiceTypeOK' /\ OrderInv' /\ ClientInv'
  BY <1>1 DEF ServiceTypeOK, OrderInv, ClientInv
<1>3. MandatoryInv'
  BY <1>1, InterfaceNames DEF MandatoryInv, Alive
<1>4. \A i \in Interfaces : registry'[i] = incarnation /\ incarnation > 0
                              => registry[i] = incarnation
  BY <1>1 DEF ServiceTypeOK
<1>5. VersionInv'
  BY <1>1, <1>4, InterfaceNames DEF OrderInv, VersionInv
<1>6. NewestOffered'
  <2>1. Alive \/ registry'[Asp10] = 0 \/ registry'[Asp10] # incarnation
    BY InterfaceNames DEF DropDead
  <2> QED
    BY <1>1, <1>4, <2>1, InterfaceNames DEF ServiceTypeOK, NewestOffered
<1> QED
  BY <1>2, <1>3, <1>5, <1>6

\* Death, init and the audio server.
LEMMA OthersKeep ==
  ASSUME ServiceInv, Crash \/ Reap \/ Connect \/ UNCHANGED vars
  PROVE  ServiceInv'
<1> USE DEF ServiceInv
<1>1. /\ UNCHANGED <<incarnation, family, version, registry, behind, failed>>
      /\ status' \in {status, "dead", "stopped"}
      /\ status' # status => incarnation > 0 /\ status' # "registering"
      /\ client' \in {0, incarnation, client} /\ faults' \in Nat
      /\ status' = "stopped" => client' = 0
  BY DEF Crash, Reap, OnRestart, Connect, vars, process, offers, ServiceTypeOK,
         OrderInv, ClientInv, Alive
<1>2. ServiceTypeOK'
  BY <1>1 DEF ServiceTypeOK
<1>3. OrderInv'
  BY <1>1 DEF ServiceTypeOK, OrderInv
<1>4. MandatoryInv'
  BY <1>1, InterfaceNames
  DEF ServiceTypeOK, OrderInv, MandatoryInv, Alive
<1>5. VersionInv'
  BY <1>1, InterfaceNames
  DEF ServiceTypeOK, OrderInv, VersionInv
<1>6. NewestOffered'
  BY <1>1, InterfaceNames
  DEF ServiceTypeOK, OrderInv, VersionInv, NewestOffered
<1>7. ClientInv'
  BY <1>1 DEF OrderInv, ClientInv
<1> QED
  BY <1>2, <1>3, <1>4, <1>5, <1>6, <1>7

\* Any step of the service.
LEMMA ServiceKept ==
  ASSUME ServiceInv, [Next]_vars
  PROVE  ServiceInv'
BY RegisterKeeps, RegisterFailsKeeps, LoadLibraryKeeps, StartKeeps,
   DropDeadKeeps, OthersKeep DEF Next, Main

-----------------------------------------------------------------------------
(* The audio server and the memory of the process.                         *)

\* Nothing runs and nothing is open at first.
LEMMA InitSystem == SystemInit => SystemIInv
<1> SUFFICES ASSUME SystemInit
             PROVE  SystemIInv
  OBVIOUS
<1>1. ServiceInv
  BY InitService DEF SystemInit
<1>2. /\ status = "stopped" /\ open = [h \in Handles |-> None]
      /\ asp = "unresolved" /\ using = {} /\ early = FALSE
  BY DEF SystemInit, Init, W!Init
<1>3. MemoryInv /\ HandlesValid /\ AspInv
  BY <1>2 DEF MemoryInv, HandlesValid, AspInv, Alive
<1> QED
  BY <1>1, <1>3 DEF SystemIInv

\* An interface of the ASP is registered only while main is in its loops.
LEMMA AspRegisteredEarly ==
  ASSUME ServiceInv, Next, Alive, status # "registering", Alive', AspRegistered'
  PROVE  AspRegistered /\ status' # "registering"
<1>1. LoadLibrary \/ DropDead \/ Connect
  BY RegisteringIs
  DEF Next, Main, Register, RegisterFails, Crash, Start, Reap, Alive, ServiceInv
<1>2. /\ \A i \in {Asp11, Asp10} : registry'[i] \in {0, registry[i]}
      /\ incarnation' = incarnation /\ status' # "registering"
  BY <1>1, InterfaceNames
  DEF LoadLibrary, DropDead, Connect, process, offers, ServiceInv, ServiceTypeOK
<1>3. incarnation > 0 /\ incarnation \in Nat
  BY DEF ServiceInv, ServiceTypeOK, OrderInv, Alive
<1>4. \A i \in {Asp11, Asp10} : registry'[i] = incarnation => registry[i] = incarnation
  BY <1>2, <1>3
<1> QED
  BY <1>2, <1>4 DEF AspRegistered

\* A step that leaves a process alive, and what it cannot have been.
LEMMA AliveAfter ==
  ASSUME ServiceInv, Next, Alive'
  PROVE  /\ client' = 0 => client = 0
         /\ ~Alive => status = "stopped"
<1>1. CASE Register \/ RegisterFails
  BY <1>1 DEF Register, RegisterFails, Registering
<1>2. CASE LoadLibrary \/ Start \/ DropDead
  BY <1>2 DEF LoadLibrary, Start, DropDead, process, Alive
<1>3. CASE Connect
  BY <1>3 DEF Connect, process, Alive
<1>4. CASE Crash \/ Reap
  BY <1>4 DEF Crash, Reap, Alive
<1> QED
  BY <1>1, <1>2, <1>3, <1>4 DEF Next, Main

\* The memory of the process and the handles, after any step.
LEMMA NextSystem ==
  ASSUME SystemIInv, Next, Aftermath
  PROVE  MemoryInv' /\ HandlesValid' /\ AspInv'
<1> USE DEF SystemIInv
<1>1. CASE ~Alive'
  <2>1. /\ open' = [h \in Handles |-> None] /\ asp' = "unresolved"
        /\ early' = FALSE
    BY <1>1 DEF Aftermath, Memory
  <2>2. using' \in {{}, using} /\ (client' = 0 => using' = {})
    BY DEF Aftermath, AudioServer
  <2> QED
    BY <1>1, <2>1, <2>2 DEF MemoryInv, HandlesValid, AspInv
<1>2. CASE Alive'
  <2>1. UNCHANGED <<open, asp, early>>
    BY <1>2 DEF Aftermath, Memory
  <2>2. client' = 0 => client = 0
    BY <1>2, AliveAfter
  <2>3. using' = using
    BY <2>2 DEF Aftermath, AudioServer, MemoryInv
  <2>4. MemoryInv'
    BY <1>2, <2>1, <2>2, <2>3 DEF MemoryInv
  <2>5. HandlesValid'
    <3>1. CASE Alive
      BY <2>1, <2>3, <3>1 DEF HandlesValid
    <3>2. CASE ~Alive
      BY <1>2, <2>1, <2>3, <3>2, AliveAfter
      DEF MemoryInv, ServiceInv, ClientInv, HandlesValid
    <3> QED
      BY <3>1, <3>2
  <2>6. AspInv'
    <3> SUFFICES ASSUME asp' = "absent", early' = FALSE
                 PROVE  status' # "registering" /\ ~AspRegistered'
      BY DEF AspInv
    <3>1. asp = "absent" /\ early = FALSE
      BY <2>1
    <3>2. Alive
      BY <3>1 DEF MemoryInv
    <3>3. status # "registering" /\ ~AspRegistered
      BY <3>1, <3>2 DEF AspInv
    <3>4. ~AspRegistered'
      BY <1>2, <3>2, <3>3, AspRegisteredEarly
    <3>5. status' # "registering"
      BY <3>2, <3>3
      DEF Next, Main, Register, RegisterFails, AfterSuccess, NextFamily, NextVersion,
          GiveUp, Abort, LoadLibrary, Crash, Start, Reap, DropDead, Connect, process,
          Alive
    <3> QED
      BY <3>4, <3>5
  <2> QED
    BY <2>4, <2>5, <2>6
<1> QED
  BY <1>1, <1>2

\* The streams and the audio server leave the service as it is.
LEMMA ServiceStays ==
  ASSUME ServiceInv, UNCHANGED vars
  PROVE  /\ ServiceInv' /\ (AspRegistered' <=> AspRegistered)
         /\ UNCHANGED <<status, client, incarnation>> /\ (Alive' <=> Alive)
<1>1. ServiceInv'
  BY OthersKeep
<1>2. UNCHANGED <<status, client, incarnation, registry>>
  BY DEF vars, process, offers
<1> QED
  BY <1>1, <1>2 DEF Alive, AspRegistered

\* Every step of the service, its streams and the audio server keeps the invariant.
LEMMA NextSystemIInv == SystemIInv /\ [SystemNext]_systemVars => SystemIInv'
<1> SUFFICES ASSUME SystemIInv, [SystemNext]_systemVars
             PROVE  SystemIInv'
  OBVIOUS
<1> USE DEF SystemIInv
<1>1. CASE Next /\ Aftermath
  BY <1>1, ServiceKept, NextSystem
<1>2. ASSUME NEW h \in Handles, NEW s \in Playable, OpenStream(h, s)
      PROVE  SystemIInv'
  <2>1. /\ UNCHANGED vars /\ Alive /\ client # 0
        /\ open' = [open EXCEPT ![h] = s] /\ s # None
        /\ using' = using \cup {h} /\ asp' = asp /\ early' = early
    BY <1>2, NoneAssumption
    DEF OpenStream, Connected, Serves, Alive, W!Open, ServiceInv, OrderInv,
        ServiceTypeOK
  <2>2. MemoryInv'
    BY <2>1, ServiceStays DEF MemoryInv
  <2>3. HandlesValid'
    BY <2>1 DEF HandlesValid, MemoryInv
  <2>4. AspInv'
    BY <2>1, ServiceStays DEF AspInv
  <2> QED
    BY <2>1, <2>2, <2>3, <2>4, ServiceStays
<1>3. ASSUME NEW h \in Handles, CloseStream(h)
      PROVE  SystemIInv'
  <2>1. /\ UNCHANGED vars /\ Alive /\ client # 0
        /\ open' = [open EXCEPT ![h] = None]
        /\ using' = using \ {h} /\ asp' = asp /\ early' = early
    BY <1>3
    DEF CloseStream, Connected, Serves, Alive, W!Close, ServiceInv, OrderInv,
        ServiceTypeOK
  <2>2. MemoryInv'
    BY <2>1, ServiceStays DEF MemoryInv
  <2>3. HandlesValid'
    BY <2>1 DEF HandlesValid, MemoryInv
  <2>4. AspInv'
    BY <2>1, ServiceStays DEF AspInv
  <2> QED
    BY <2>1, <2>2, <2>3, <2>4, ServiceStays
<1>4. CASE Resolve
  <2>1. /\ UNCHANGED vars /\ UNCHANGED <<open, using>>
        /\ Alive /\ asp' \in {"present", "absent"}
        /\ AspRegistered => asp' = "present"
        /\ early' = (status = "registering")
    BY <1>4 DEF Resolve, Connected, Serves, W!Resolve
  <2>2. MemoryInv' /\ HandlesValid'
    BY <2>1, ServiceStays DEF MemoryInv, HandlesValid
  <2>3. AspInv'
    BY <2>1, ServiceStays DEF AspInv
  <2> QED
    BY <2>1, <2>2, <2>3, ServiceStays
<1>5. CASE UNCHANGED systemVars
  <2>1. UNCHANGED vars /\ UNCHANGED <<open, asp, using, early>>
    BY <1>5 DEF systemVars
  <2> QED
    BY <2>1, ServiceStays DEF MemoryInv, HandlesValid, AspInv
<1> QED
  BY <1>1, <1>2, <1>3, <1>4, <1>5 DEF SystemNext, Opens

-----------------------------------------------------------------------------
(* The theorems.                                                           *)

\* Everything that is known of the service, its streams and the audio server holds
\* through any number of deaths of the process at any point.
THEOREM SystemInvariant == SystemSpec => []SystemIInv
BY InitSystem, NextSystemIInv, PTL DEF SystemSpec

\* A process that serves calls has registered all the mandatory interfaces itself.
THEOREM MandatoryServed == SystemSpec => []ServesMandatory
<1>1. SystemIInv => ServesMandatory
  BY DEF SystemIInv, ServiceInv, OrderInv, MandatoryInv, ServesMandatory, Alive
<1> QED
  BY <1>1, SystemInvariant, PTL

\* The older version of an interface is there only if the newer could not be.
THEOREM NewestIsOffered == SystemSpec => []NewestOffered
<1>1. SystemIInv => NewestOffered
  BY DEF SystemIInv, ServiceInv
<1> QED
  BY <1>1, SystemInvariant, PTL

\* However often the process dies, the audio server's handles are exactly the
\* streams that are open in the process it talks to.
THEOREM HandlesAreValid == SystemSpec => []HandlesValid
<1>1. SystemIInv => HandlesValid
  BY DEF SystemIInv
<1> QED
  BY <1>1, SystemInvariant, PTL

\* Once a stream is open, only its closing or a fault ends it, even while main still
\* tries to register what is optional.
THEOREM OpenStreamsSurvive == SystemSpec => StreamsSurvive
<1> DEFINE Survives ==
             \A h \in Handles : open[h] # None /\ open'[h] = None =>
               h \notin using' \/ faults' > faults
<1>1. SystemIInv /\ [SystemNext]_systemVars => [Survives]_systemVars
  <2> SUFFICES ASSUME SystemIInv, [SystemNext]_systemVars, ~UNCHANGED systemVars,
                      NEW h \in Handles, open[h] # None, open'[h] = None
               PROVE  h \notin using' \/ faults' > faults
    OBVIOUS
  <2>1. open \in [Handles -> Playable \cup {None}]
    BY DEF SystemIInv, MemoryInv
  <2>2. CASE Next /\ Aftermath
    <3>1. ~Alive' /\ Alive
      BY <2>2 DEF Aftermath, Memory, SystemIInv, MemoryInv
    <3>2. Crash \/ RegisterFails
      BY <2>2, <3>1, RegisteringIs
      DEF Next, Main, Register, AfterSuccess, NextFamily, LoadLibrary, Start, Reap,
          DropDead, Connect, process, Alive, SystemIInv, ServiceInv
    <3>3. RegisterFails => Families[family].mandatory
      <4> SUFFICES ASSUME RegisterFails, ~Families[family].mandatory
                   PROVE  FALSE
        OBVIOUS
      <4>1. status = "registering"
        BY RegisteringIs DEF RegisterFails, SystemIInv, ServiceInv
      <4>2. status' \in {"registering", "library"}
        BY <4>1 DEF RegisterFails, NextVersion, GiveUp, NextFamily
      <4> QED
        BY <3>1, <4>2 DEF Alive
    <3>4. faults' = faults + 1
      BY <3>2, <3>3 DEF Crash, RegisterFails
    <3> QED
      BY <3>4 DEF SystemIInv, ServiceInv, ServiceTypeOK
  <2>3. ASSUME NEW g \in Handles, NEW s \in Playable, OpenStream(g, s)
        PROVE  FALSE
    BY <2>1, <2>3, NoneAssumption DEF OpenStream, W!Open
  <2>4. ASSUME NEW g \in Handles, CloseStream(g)
        PROVE  h \notin using'
    BY <2>1, <2>4 DEF CloseStream, W!Close
  <2>5. CASE Resolve
    BY <2>5 DEF Resolve, W!Resolve
  <2> QED
    BY <2>2, <2>3, <2>4, <2>5 DEF SystemNext, Opens
<1> QED
  BY <1>1, SystemInvariant, PTL DEF SystemSpec, StreamsSurvive

-----------------------------------------------------------------------------
(* The streams and the ASP.                                                *)

\* What is open fits what the process has decided about the ASP: no input before
\* it has decided, none that an ASP cannot capture once it has found one.
Decided ==
  \A h \in Handles : open[h] # None =>
    /\ asp = "unresolved" => open[h] \notin Inputs
    /\ asp = "present" => open[h] \notin Inputs \cap Unfit

\* Only an open handle can disturb this, and it is opened to fit.
LEMMA NextDecided == SystemIInv /\ Decided /\ [SystemNext]_systemVars => Decided'
<1> SUFFICES ASSUME SystemIInv, Decided, [SystemNext]_systemVars
             PROVE  Decided'
  OBVIOUS
<1>0. open \in [Handles -> Playable \cup {None}]
  BY DEF SystemIInv, MemoryInv
<1>1. CASE Next /\ Aftermath
  BY <1>1 DEF Aftermath, Memory, Decided
<1>2. ASSUME NEW h \in Handles, NEW s \in Playable, OpenStream(h, s)
      PROVE  Decided'
  BY <1>0, <1>2 DEF OpenStream, W!Open, Decided
<1>3. ASSUME NEW h \in Handles, CloseStream(h)
      PROVE  Decided'
  BY <1>0, <1>3 DEF CloseStream, W!Close, Decided
<1>4. CASE Resolve
  BY <1>4 DEF Resolve, W!Resolve, Decided
<1>5. CASE UNCHANGED systemVars
  BY <1>5 DEF systemVars, Decided
<1> QED
  BY <1>1, <1>2, <1>3, <1>4, <1>5 DEF SystemNext, Opens

\* No order of registrations, deaths, answers and streams lets an input pass by the
\* ASP of its process, unless the process was asked before main had come to it.
THEOREM InputsFitOwnAsp == SystemSpec => []OwnAspFits
<1>1. SystemInit => Decided
  BY DEF SystemInit, W!Init, Decided
<1>2. SystemIInv /\ Decided => OwnAspFits
  <2> SUFFICES ASSUME SystemIInv, Decided, Alive, AspRegistered, ~early, NEW h \in using
               PROVE  open[h] \notin Inputs \cap Unfit
    BY DEF OwnAspFits
  <2>1. h \in Handles /\ open[h] # None
    BY DEF SystemIInv, HandlesValid
  <2>2. asp \in {"unresolved", "present"}
    BY DEF SystemIInv, MemoryInv, AspInv
  <2> QED
    BY <2>1, <2>2 DEF Decided
<1> QED
  BY <1>1, <1>2, NextDecided, SystemInvariant, PTL DEF SystemSpec

-----------------------------------------------------------------------------
(* The way back to sound.                                                  *)

\* SoundComesBack without its "comes": in every state something that is bound to
\* happen leads on towards a stream, and when it is the audio server's turn, its
\* call finds the process it is connected to and any handle free to be opened.
OnTheWay ==
  \/ status \in {"stopped", "dead", "library"}
  \/ status = "registering" /\ family \in DOMAIN Families
  \/ Serves /\ client = 0 /\ registry["IDevicesFactory"] = incarnation
  \/ Connected /\ using = {} /\ \A h \in Handles : open[h] = None
  \/ Connected /\ \E h \in using : open[h] # None

\* The audio server is never left with a dead process that it takes for the living
\* one, or with handles that stand for nothing.
THEOREM SoundIsOnTheWay == SystemSpec => []OnTheWay
<1>1. SystemIInv => OnTheWay
  <2> SUFFICES ASSUME SystemIInv
               PROVE  OnTheWay
    OBVIOUS
  <2>1. CASE status = "registering"
    <3>1. family \in 1..3
      BY <2>1 DEF SystemIInv, ServiceInv, ServiceTypeOK, OrderInv
    <3>2. DOMAIN Families = 1..3
      BY DEF Families
    <3> QED
      BY <2>1, <3>1, <3>2 DEF OnTheWay
  <2>2. CASE status = "serving"
    <3>1. registry["IDevicesFactory"] = incarnation /\ client \in {0, incarnation}
      BY <2>2 DEF SystemIInv, ServiceInv, OrderInv, MandatoryInv, ClientInv, Alive
    <3>2. using = {h \in Handles : open[h] # None}
      BY <2>2 DEF SystemIInv, HandlesValid, Alive
    <3>3. Serves
      BY <2>2 DEF SystemIInv, ServiceInv, OrderInv, Serves, Alive
    <3> QED
      BY <3>1, <3>2, <3>3 DEF OnTheWay, Connected
  <2> QED
    BY <2>1, <2>2 DEF OnTheWay, SystemIInv, ServiceInv, ServiceTypeOK
<1> QED
  BY <1>1, SystemInvariant, PTL

\* In each of its lives the process is a StreamService, which is what AudioDevice
\* implements; a death ends it with an empty memory.
THEOREM LivesAreServices ==
  SystemSpec => [][W!Next \/ (~Alive' /\ W!Init')]_(W!vars)
<1>1. [SystemNext]_systemVars => [W!Next \/ (~Alive' /\ W!Init')]_(W!vars)
  <2> SUFFICES ASSUME [SystemNext]_systemVars
               PROVE  W!Next \/ (~Alive' /\ W!Init') \/ UNCHANGED W!vars
    OBVIOUS
  <2>1. CASE Next /\ Aftermath
    BY <2>1 DEF Aftermath, Memory, W!Init, W!vars
  <2>2. ASSUME NEW h \in Handles,
               CloseStream(h) \/ \E s \in Playable : OpenStream(h, s)
        PROVE  W!Next
    BY <2>2 DEF CloseStream, OpenStream, W!Next
  <2>3. CASE Resolve
    BY <2>3 DEF Resolve, W!Next
  <2>4. CASE UNCHANGED systemVars
    BY <2>4 DEF systemVars, W!vars
  <2> QED
    BY <2>1, <2>2, <2>3, <2>4 DEF SystemNext, Opens
<1> QED
  BY <1>1, PTL DEF SystemSpec
=============================================================================
