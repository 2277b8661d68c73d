------------------------------ MODULE EngineBoot ------------------------------
(***************************************************************************)
(* The life of the engine process on its device: main opens the registry   *)
(* of resources, builds the workflow, whose channels claim pins, lines and *)
(* topics, runs it, closes everything, and exits with a code from which    *)
(* the orchestrator decides whether to start it again (cmd/engine/main.go, *)
(* resource/registry.go, build/build.go, component/boot.go).               *)
(*                                                                         *)
(* What outlives the process is part of the state: the PWM outputs that    *)
(* the kernel keeps exported, the broker and its subscriptions. A process  *)
(* may be killed between any two writes, and the next one may come with    *)
(* another deployment.                                                     *)
(*                                                                         *)
(* Channels are records of their kind, the resource they are mapped to,    *)
(* their place on it (line, output or topic) and a setting: the period of  *)
(* a PWM output, 0 if the frequency yields none; whether anything          *)
(* subscribes to an MQTT channel. ADC, DAC, camera and log channels set up *)
(* nothing, the UART is the subject of SerialPort.                         *)
(***************************************************************************)
EXTENDS Integers, Sequences, FiniteSets

CONSTANTS
  FamilyOf,    \* the family of each resource
  OpenOrder,   \* the families, in the order NewRegistry opens them
  CloseOrder,  \* the families, in the order CloseAll closes them
  Deployments, \* what may be deployed: resources and channels
  Levels       \* duty cycles a workflow writes, in percent; any number may come

Resources == DOMAIN FamilyOf
Kinds == {"gpioin", "gpioout", "pwm", "mqtt"}
SetupOrder == <<"gpioin", "gpioout", "pwm", "mqtt">>
Channels == UNION {d.channels : d \in Deployments}
Place(c) == <<c.ref, c.at>>
Pins == {Place(c) : c \in {d \in Channels : d.kind = "pwm"}}
Topics == {Place(c) : c \in {d \in Channels : d.kind = "mqtt"}}
Periods == {c.setting : c \in {d \in Channels : d.kind = "pwm"}}

FamilyFor(kind) == IF kind \in {"gpioin", "gpioout"} THEN "gpio" ELSE kind

ASSUME DeploymentAssumption ==
  /\ \A r \in Resources : \E i \in DOMAIN OpenOrder : OpenOrder[i] = FamilyOf[r]
  /\ \A r \in Resources : \E i \in DOMAIN CloseOrder : CloseOrder[i] = FamilyOf[r]
  /\ \A d \in Deployments :
       /\ d.resources \subseteq Resources
       /\ \A c \in d.channels : c.kind \in Kinds /\ c.ref \in Resources /\ c.setting \in Nat
  /\ Levels \subseteq Int

VARIABLES
  \* the device and the broker
  pins,     \* sysfs: the state of each PWM output
  broker,   \* the broker is reachable
  linked,   \* the engine's connection is up
  subs,     \* topics the broker delivers on that connection
  \* the orchestrator
  dep,      \* the deployment
  code,     \* how the last process ended
  \* the process
  phase,    \* where main is
  opened,   \* drivers in the registry
  todo,     \* channels that SetupAll has still to set up
  claims,   \* channels whose place their driver has recorded
  doing,    \* the PWM channel being configured or closed, and the next write
  \* history, of this process
  had,      \* drivers it opened
  closes,   \* how often it closed each
  mine,     \* outputs it exported
  stuck,    \* outputs for which a write of Close failed
  wrote,    \* what it last wrote to each output
  \* history, of all processes
  trouble   \* something other than a broker that is late

device == <<pins, broker, linked, subs>>
history == <<had, closes, mine, stuck, wrote>>
process == <<opened, todo, claims, doing>>
vars == <<device, dep, code, phase, process, history, trouble>>

Phases == {"down", "opening", "building", "running", "closing"}
Codes == {"none", "0", "1", "78", "killed"}
NoChannel == [kind |-> "none", ref |-> "none", at |-> 0, setting |-> 0]
Idle == [chan |-> NoChannel, write |-> "none"]
Writes == {"duty", "period", "enable", "disable", "unexport"}

Outputs == [exported : BOOLEAN, enabled : BOOLEAN, duty : Nat, period : Periods \cup {0}]
InProgress == [chan : Channels, write : Writes] \cup {Idle}

TypeOK ==
  /\ pins \in [Pins -> Outputs]
  /\ broker \in BOOLEAN /\ linked \in BOOLEAN /\ trouble \in BOOLEAN
  /\ subs \subseteq Topics
  /\ dep \in Deployments
  /\ code \in Codes
  /\ phase \in Phases
  /\ opened \subseteq had /\ had \subseteq dep.resources
  /\ todo \subseteq dep.channels /\ claims \subseteq dep.channels
  /\ doing \in InProgress
  /\ closes \in [Resources -> Nat]
  /\ mine \subseteq Pins /\ stuck \subseteq Pins
  /\ wrote \in [Pins -> Nat]

Off == [exported |-> FALSE, enabled |-> FALSE, duty |-> 0, period |-> 0]

Init ==
  /\ pins = [p \in Pins |-> Off]
  /\ broker \in BOOLEAN
  /\ linked = FALSE
  /\ subs = {}
  /\ dep \in Deployments
  /\ code = "none"
  /\ phase = "down"
  /\ opened = {} /\ todo = {} /\ claims = {} /\ doing = Idle
  /\ had = {}
  /\ closes = [r \in Resources |-> 0]
  /\ mine = {} /\ stuck = {}
  /\ wrote = [p \in Pins |-> 0]
  /\ trouble = FALSE

\* The first of the order for which something is left.
IsNext(x, order, left) ==
  \E i \in DOMAIN order :
    order[i] = x /\ x \in left /\ \A j \in 1 .. i - 1 : order[j] \notin left

-----------------------------------------------------------------------------
(* The orchestrator and the end of a process *)

Launch(d) ==
  /\ phase' = "opening"
  /\ dep' = d
  /\ opened' = {} /\ todo' = {} /\ claims' = {} /\ doing' = Idle
  /\ had' = {}
  /\ closes' = [r \in Resources |-> 0]
  /\ mine' = {} /\ stuck' = {}
  /\ wrote' = [p \in Pins |-> 0]
  /\ UNCHANGED <<device, code>>

\* The first start, and a restart: never after a permanent failure (78).
Start ==
  /\ phase = "down"
  /\ code \in {"none", "1", "killed"}
  /\ Launch(dep)
  /\ UNCHANGED trouble

Redeploy ==
  /\ phase = "down"
  /\ code # "none"
  /\ \E d \in Deployments : Launch(d)
  /\ trouble' = TRUE

\* The connection ends with the process, what sysfs holds does not.
Exit(c) ==
  /\ phase' = "down"
  /\ code' = c
  /\ linked' = FALSE /\ subs' = {}
  /\ doing' = Idle
  /\ UNCHANGED <<broker, dep>>

\* The process is killed; the device and its kernel go on. (A loss of power would
\* reset the outputs as well; it is not modelled.)
Crash ==
  /\ phase # "down"
  /\ Exit("killed")
  /\ trouble' = TRUE
  /\ UNCHANGED <<pins, opened, todo, claims, history>>

\* BootFail: an invalid configuration, before anything is open or while the
\* workflow is built. os.Exit closes nothing.
BootFail ==
  /\ phase = "building" \/ (phase = "opening" /\ opened = {})
  /\ doing = Idle
  /\ Exit("78")
  /\ trouble' = TRUE
  /\ UNCHANGED <<pins, opened, todo, claims, history>>

-----------------------------------------------------------------------------
(* NewRegistry *)

Openable(r) ==
  /\ phase = "opening"
  /\ r \in dep.resources \ opened
  /\ IsNext(FamilyOf[r], OpenOrder, {FamilyOf[s] : s \in dep.resources \ opened})

OpenOne ==
  \E r \in Resources :
    /\ Openable(r)
    /\ FamilyOf[r] = "mqtt" => broker
    /\ opened' = opened \cup {r}
    /\ had' = had \cup {r}
    /\ linked' = (linked \/ FamilyOf[r] = "mqtt")
    /\ UNCHANGED <<pins, broker, subs, dep, code, phase, todo, claims, doing, closes,
                   mine, stuck, wrote, trouble>>

\* Mutant of CodeFor: every failed open is permanent.
CodeForNoRetry(r) == "78"

\* transient and IsTransient: only an MQTT connection is worth a retry.
CodeFor(r) == IF FamilyOf[r] = "mqtt" THEN "1" ELSE "78"

\* Mutant of CloseOpened: CloseAll forgets the first family.
CloseOpenedRest(open) ==
  /\ opened' = {}
  /\ closes' = [r \in Resources |->
                 IF r \in open /\ FamilyOf[r] # CloseOrder[1] THEN closes[r] + 1 ELSE closes[r]]

\* CloseAll of drivers that have nothing configured yet.
CloseOpened(open) ==
  /\ opened' = {}
  /\ closes' = [r \in Resources |-> IF r \in open THEN closes[r] + 1 ELSE closes[r]]

\* A missing device, a refused or unreachable broker: what is open is closed.
OpenFails ==
  \E r \in Resources :
    /\ Openable(r)
    /\ CloseOpened(opened)
    /\ Exit(CodeFor(r))
    /\ trouble' = (trouble \/ FamilyOf[r] # "mqtt" \/ broker)
    /\ UNCHANGED <<pins, todo, claims, had, mine, stuck, wrote>>

\* Every resource is open; buildChannels looks up the driver of every channel.
Resolve ==
  /\ phase = "opening"
  /\ opened = dep.resources
  /\ IF \A c \in dep.channels : c.ref \in opened /\ FamilyOf[c.ref] = FamilyFor(c.kind)
     THEN /\ phase' = "building"
          /\ todo' = dep.channels
          /\ UNCHANGED <<device, dep, code, opened, claims, doing>>
     ELSE /\ Exit("78")
          /\ UNCHANGED <<pins, opened, todo, claims>>
  /\ UNCHANGED <<history, trouble>>

-----------------------------------------------------------------------------
(* SetupAll *)

Settable(c, kinds) ==
  /\ phase = "building"
  /\ doing = Idle
  /\ c \in todo
  /\ c.kind \in kinds
  /\ IsNext(c.kind, SetupOrder, {d.kind : d \in todo})

\* Mutant of Taken: a second channel takes the place over.
TakenNever(c) == FALSE

\* claimLine, Configure, Subscribe: a place has one owner.
Taken(c) == \E d \in claims : Place(d) = Place(c)

\* The driver's map now holds c for its place.
Claimed(c) ==
  /\ claims' = {d \in claims : Place(d) # Place(c)} \cup {c}
  /\ todo' = todo \ {c}

\* A Setup that fails ends the boot, with everything left as it is.
Refuse(fault) ==
  /\ Exit("78")
  /\ trouble' = (trouble \/ fault)
  /\ UNCHANGED <<pins, opened, todo, claims, history>>

SetupLine ==
  \E c \in Channels :
    /\ Settable(c, {"gpioin", "gpioout"})
    /\ ~Taken(c)
    /\ \/ /\ Claimed(c)
          /\ UNCHANGED <<device, dep, code, phase, opened, doing, history, trouble>>
       \/ Refuse(TRUE)

\* A frequency that is not positive, a line, an output or a topic that has its
\* owner. An MQTT channel that nothing subscribes to claims no topic.
SetupRefused ==
  \E c \in Channels :
    /\ Settable(c, Kinds)
    /\ \/ c.kind = "pwm" /\ c.setting = 0
       \/ Taken(c) /\ (c.kind = "mqtt" => c.setting > 0)
    /\ Refuse(FALSE)

SetupSubscription ==
  \E c \in Channels :
    /\ Settable(c, {"mqtt"})
    /\ c.setting > 0
    /\ ~Taken(c)
    /\ \/ /\ linked
          /\ Claimed(c)
          /\ subs' = subs \cup {Place(c)}
          /\ UNCHANGED <<pins, broker, linked, dep, code, phase, opened, doing, history, trouble>>
       \/ Refuse(linked)

\* A channel that is only published to, or not used, sets up nothing.
SetupUnheard ==
  \E c \in Channels :
    /\ Settable(c, {"mqtt"})
    /\ c.setting = 0
    /\ todo' = todo \ {c}
    /\ UNCHANGED <<device, dep, code, phase, opened, claims, doing, history, trouble>>

\* Mutant of ConfigureOrder: the period first.
ConfigureOrderPeriodFirst == <<"period", "duty", "enable">>

\* Configure, once the output is exported: the writes in their order.
ConfigureOrder == <<"duty", "period", "enable">>

WriteAfter(w) ==
  LET i == CHOOSE j \in DOMAIN ConfigureOrder : ConfigureOrder[j] = w
  IN IF i = Len(ConfigureOrder) THEN "none" ELSE ConfigureOrder[i + 1]

\* An output that is exported already (EBUSY) is taken as it is. A new export
\* starts from what the hardware kept or from zero, as the driver has it.
Exported(pin) ==
  IF pin.exported THEN {pin} ELSE {[pin EXCEPT !.exported = TRUE], [Off EXCEPT !.exported = TRUE]}

ConfigureExport ==
  \E c \in Channels :
    /\ Settable(c, {"pwm"})
    /\ c.setting > 0
    /\ ~Taken(c)
    /\ \/ /\ \E pin \in Exported(pins[Place(c)]) : pins' = [pins EXCEPT ![Place(c)] = pin]
          /\ mine' = mine \cup {Place(c)}
          /\ doing' = [chan |-> c, write |-> ConfigureOrder[1]]
          /\ UNCHANGED <<broker, linked, subs, dep, code, phase, opened, todo, claims,
                         had, closes, stuck, wrote, trouble>>
       \/ Refuse(TRUE)

Configured(pin, c, w) ==
  CASE w = "duty"   -> [pin EXCEPT !.duty = 0]
    [] w = "period" -> [pin EXCEPT !.period = c.setting]
    [] w = "enable" -> [pin EXCEPT !.enabled = TRUE]

\* The directory of the output may not appear in time, a write may fail. Only
\* the last write makes the output known to the driver.
ConfigureWrite ==
  /\ phase = "building"
  /\ doing # Idle
  /\ LET c == doing.chan  next == WriteAfter(doing.write) IN
     \/ /\ pins' = [pins EXCEPT ![Place(c)] = Configured(@, c, doing.write)]
        /\ IF next = "none" THEN doing' = Idle /\ Claimed(c)
           ELSE doing' = [doing EXCEPT !.write = next] /\ UNCHANGED <<todo, claims>>
        /\ UNCHANGED <<broker, linked, subs, dep, code, phase, opened, history, trouble>>
     \/ Refuse(TRUE)

\* SetupAll is through, the nodes are set up, Runner.Run begins.
BuildDone ==
  /\ phase = "building"
  /\ todo = {}
  /\ phase' = "running"
  /\ UNCHANGED <<device, dep, code, process, history, trouble>>

-----------------------------------------------------------------------------
(* Running *)

\* Mutant of Clamp: a negative duty is written as it is.
ClampHighOnly(l) == IF l > 100 THEN 100 ELSE l

Clamp(l) == IF l < 0 THEN 0 ELSE IF l > 100 THEN 100 ELSE l

\* WriteAnalog, with the period that Configure recorded. One that fails leaves
\* the output as it was.
WriteAnalog ==
  /\ phase = "running"
  /\ \E c \in claims, l \in Levels :
       /\ c.kind = "pwm"
       /\ LET duty == (Clamp(l) * c.setting) \div 100 IN
          /\ pins' = [pins EXCEPT ![Place(c)].duty = duty]
          /\ wrote' = [wrote EXCEPT ![Place(c)] = duty]
  /\ UNCHANGED <<broker, linked, subs, dep, code, phase, process, had, closes, mine,
                 stuck, trouble>>

\* A signal, or an error that ends Runner.Run.
RunEnds ==
  /\ phase = "running"
  /\ phase' = "closing"
  /\ UNCHANGED <<device, dep, code, process, history, trouble>>

-----------------------------------------------------------------------------
(* CloseAll *)

Closable(r) ==
  /\ phase = "closing"
  /\ r \in opened
  /\ IsNext(FamilyOf[r], CloseOrder, {FamilyOf[s] : s \in opened})

\* linuxPWM.Close: every output it knows is disabled and unexported. A write
\* that fails is logged.
CloseDisable ==
  \E c \in claims :
    /\ Closable(c.ref)
    /\ c.kind = "pwm"
    /\ doing = Idle
    /\ doing' = [chan |-> c, write |-> "unexport"]
    /\ \/ pins' = [pins EXCEPT ![Place(c)].enabled = FALSE] /\ UNCHANGED <<stuck, trouble>>
       \/ stuck' = stuck \cup {Place(c)} /\ trouble' = TRUE /\ UNCHANGED pins
    /\ UNCHANGED <<broker, linked, subs, dep, code, phase, opened, todo, claims,
                   had, closes, mine, wrote>>

CloseUnexport ==
  /\ phase = "closing"
  /\ doing # Idle
  /\ claims' = claims \ {doing.chan}
  /\ doing' = Idle
  /\ LET p == Place(doing.chan) IN
     \/ pins' = [pins EXCEPT ![p].exported = FALSE] /\ UNCHANGED <<stuck, trouble>>
     \/ stuck' = stuck \cup {p} /\ trouble' = TRUE /\ UNCHANGED pins
  /\ UNCHANGED <<broker, linked, subs, dep, code, phase, opened, todo,
                 had, closes, mine, wrote>>

\* closeFamily: a driver has closed what it held and leaves its map.
CloseDriver ==
  \E r \in Resources :
    /\ Closable(r)
    /\ doing = Idle
    /\ FamilyOf[r] = "pwm" => \A c \in claims : c.ref # r
    /\ opened' = opened \ {r}
    /\ closes' = [closes EXCEPT ![r] = @ + 1]
    /\ claims' = {c \in claims : c.ref # r}
    /\ IF FamilyOf[r] = "mqtt" THEN linked' = FALSE /\ subs' = {}
       ELSE UNCHANGED <<linked, subs>>
    /\ UNCHANGED <<pins, broker, dep, code, phase, todo, doing, had, mine, stuck,
                   wrote, trouble>>

\* main returns, or ends by logging the runner's error.
Return ==
  /\ phase = "closing"
  /\ opened = {}
  /\ \E c \in {"0", "1"} : Exit(c)
  /\ UNCHANGED <<pins, opened, todo, claims, history, trouble>>

-----------------------------------------------------------------------------
(* The broker and the connection, which paho restores with a clean session *)

BrokerComes ==
  /\ ~broker
  /\ broker' = TRUE
  /\ UNCHANGED <<pins, linked, subs, dep, code, phase, process, history, trouble>>

BrokerGoes ==
  /\ broker
  /\ broker' = FALSE
  /\ linked' = FALSE /\ subs' = {}
  /\ trouble' = TRUE
  /\ UNCHANGED <<pins, dep, code, phase, process, history>>

LinkLost ==
  /\ linked
  /\ linked' = FALSE /\ subs' = {}
  /\ trouble' = TRUE
  /\ UNCHANGED <<pins, broker, dep, code, phase, process, history>>

Reconnect ==
  /\ ~linked /\ broker
  /\ phase # "down"
  /\ \E r \in opened : FamilyOf[r] = "mqtt"
  /\ linked' = TRUE
  /\ UNCHANGED <<pins, broker, subs, dep, code, phase, process, history, trouble>>

Boot ==
  \/ OpenOne \/ OpenFails \/ Resolve
  \/ SetupLine \/ SetupRefused \/ SetupSubscription \/ SetupUnheard
  \/ ConfigureExport \/ ConfigureWrite \/ BuildDone

Next ==
  \/ Start \/ Redeploy \/ Crash \/ BootFail
  \/ Boot
  \/ WriteAnalog \/ RunEnds
  \/ CloseDisable \/ CloseUnexport \/ CloseDriver \/ Return
  \/ BrokerComes \/ BrokerGoes \/ LinkLost \/ Reconnect

Spec == Init /\ [][Next]_vars

\* Every call made at boot has a time limit (mqtt.go:20, pwm_linux.go:27), and
\* the orchestrator restarts what exits with 1 (docs/component-contract.md:193).
FairSpec == Spec /\ WF_vars(Boot) /\ WF_vars(Start)

-----------------------------------------------------------------------------
(* What the boot and the drivers promise *)

\* "the kernel never sees duty > period when a stale export is reused"
\* (pwm_linux.go:72): whatever killed process left the output behind, at
\* whatever write, with whatever frequency, and whatever the workflow writes.
DutyWithinPeriod ==
  \A p \in Pins : pins[p].exported => pins[p].duty <= pins[p].period

\* A workflow runs only with every channel set up as it asks: it is the owner
\* of its place, and a PWM output runs at its frequency and at the duty that
\* this process has written, zero before the first write.
RunningAsDeployed ==
  phase = "running" =>
    \A c \in dep.channels :
      /\ c \in claims \/ (c.kind = "mqtt" /\ c.setting = 0)
      /\ c.kind = "pwm" =>
           pins[Place(c)] = [exported |-> TRUE, enabled |-> TRUE,
                             duty |-> wrote[Place(c)], period |-> c.setting]

\* A process that ends by closing its registry, after a run or because a
\* resource did not open, has closed every driver it opened exactly once and
\* leaves no output exported or running; one whose write fails does not keep
\* the others from being closed (registry.go:45-49, pwm_linux.go:148-151).
EndedCleanly ==
  (phase = "down" /\ code \in {"0", "1"}) =>
    /\ \A r \in Resources : closes[r] = IF r \in had THEN 1 ELSE 0
    /\ \A p \in mine \ stuck : ~pins[p].exported /\ ~pins[p].enabled

\* A deployment without conflicts.
Sound(d) ==
  /\ \A c \in d.channels : c.ref \in d.resources /\ FamilyOf[c.ref] = FamilyFor(c.kind)
  /\ \A c \in d.channels : c.kind = "pwm" => c.setting > 0
  /\ \A c, e \in d.channels : Place(c) = Place(e) => c = e

\* Where the broker is only late, the engine is restarted until it comes, and
\* then runs: no order of starting the two fails the deployment (main.go:66-70).
LateBrokerIsWaitedFor ==
  (Sound(dep) /\ <>[]broker /\ []~trouble) => <>(phase = "running")

=============================================================================
