--------------------------- MODULE EngineBootProofs ---------------------------
(***************************************************************************)
(* Proofs about EngineBoot, for any resources, any deployments, any number *)
(* of crashes, restarts and redeployments, and any duty cycles.            *)
(***************************************************************************)
EXTENDS EngineBoot, TLAPS

Configuring == {"duty", "period", "enable"}

\* Whatever a process leaves behind, or is about to write.
DutyBelow == \A p \in Pins : pins[p].duty <= pins[p].period

OneOwner == \A c, d \in claims : Place(c) = Place(d) => c = d

\* What the write in progress is about.
DoingKnown ==
  /\ doing.write \in {"none", "unexport"} \cup Configuring
  /\ doing.write \in Configuring =>
       /\ phase = "building"
       /\ doing.chan \in todo
       /\ doing.chan.kind = "pwm"
       /\ ~Taken(doing.chan)
       /\ pins[Place(doing.chan)].exported
  /\ doing.write = "unexport" =>
       /\ phase = "closing"
       /\ doing.chan \in claims
       /\ doing.chan.kind = "pwm"
       /\ Place(doing.chan) \in stuck \/ ~pins[Place(doing.chan)].enabled

\* How far Configure has come.
Halfway ==
  /\ doing.write \in {"period", "enable"} => pins[Place(doing.chan)].duty = 0
  /\ doing.write = "enable" => pins[Place(doing.chan)].period = doing.chan.setting

AsSet(c) == [exported |-> TRUE, enabled |-> TRUE, duty |-> wrote[Place(c)], period |-> c.setting]

\* The outputs that the driver knows are as this process has set them.
OutputsKnown ==
  phase \in {"building", "running"} =>
    \A c \in claims :
      c.kind = "pwm" => pins[Place(c)] = AsSet(c)

NothingWritten == phase \in {"opening", "building"} => \A p \in Pins : wrote[p] = 0

\* No channel is forgotten between Resolve and Run.
Complete ==
  /\ phase = "building" =>
       \A c \in dep.channels : c \in todo \/ c \in claims \/ (c.kind = "mqtt" /\ c.setting = 0)
  /\ phase = "running" =>
       \A c \in dep.channels : c \in claims \/ (c.kind = "mqtt" /\ c.setting = 0)

\* A claim holds a driver that is still open, of the family it needs.
ClaimsHaveDrivers ==
  /\ phase \in {"building", "running"} =>
       \A c \in dep.channels : c.ref \in opened /\ FamilyOf[c.ref] = FamilyFor(c.kind)
  /\ phase = "closing" =>
       \A c \in claims : c.ref \in opened /\ FamilyOf[c.ref] = FamilyFor(c.kind)

NothingYet ==
  phase = "opening" =>
    claims = {} /\ todo = {} /\ mine = {} /\ stuck = {} /\ doing = Idle /\ had = opened

ClosedOnce ==
  phase # "down" => \A r \in Resources : closes[r] = IF r \in had /\ r \notin opened THEN 1 ELSE 0

\* An output that this process exported is known to the driver, or is about to
\* be, or is off again.
NoneForgotten ==
  phase # "down" =>
    \A p \in mine \ stuck :
      \/ \E c \in claims : c.kind = "pwm" /\ Place(c) = p
      \/ doing.write \in Configuring /\ Place(doing.chan) = p
      \/ ~pins[p].exported /\ ~pins[p].enabled

BootInv ==
  /\ TypeOK
  /\ DutyBelow /\ OneOwner /\ DoingKnown /\ Halfway /\ OutputsKnown /\ NothingWritten
  /\ Complete /\ ClaimsHaveDrivers /\ NothingYet
  /\ ClosedOnce /\ NoneForgotten /\ EndedCleanly

LEMMA WriteOrder ==
  /\ ConfigureOrder[1] = "duty"
  /\ WriteAfter("duty") = "period" /\ WriteAfter("period") = "enable" /\ WriteAfter("enable") = "none"
<1>1. /\ DOMAIN ConfigureOrder = 1 .. 3 /\ Len(ConfigureOrder) = 3
      /\ ConfigureOrder[1] = "duty" /\ ConfigureOrder[2] = "period" /\ ConfigureOrder[3] = "enable"
  BY DEF ConfigureOrder
<1>2. /\ (CHOOSE j \in DOMAIN ConfigureOrder : ConfigureOrder[j] = "duty") = 1
      /\ (CHOOSE j \in DOMAIN ConfigureOrder : ConfigureOrder[j] = "period") = 2
      /\ (CHOOSE j \in DOMAIN ConfigureOrder : ConfigureOrder[j] = "enable") = 3
  BY <1>1
<1> QED BY <1>1, <1>2 DEF WriteAfter

LEMMA DutyOfLevel ==
  ASSUME NEW l \in Int, NEW s \in Nat
  PROVE  (Clamp(l) * s) \div 100 \in Nat /\ (Clamp(l) * s) \div 100 <= s
<1> DEFINE k == Clamp(l)
<1>1. k \in 0 .. 100 BY DEF Clamp
<1> HIDE DEF k
<1>2. k * s \in Nat /\ k * s <= 100 * s BY <1>1
<1> DEFINE n == k * s
<1> HIDE DEF n
<1>3. n \in Nat /\ n <= 100 * s BY <1>2 DEF n
<1>4. n \div 100 \in Nat /\ n \div 100 <= s BY <1>3
<1> QED BY <1>4 DEF n, k

LEMMA ChannelFacts ==
  /\ \A d \in Deployments : d.channels \subseteq Channels /\ d.resources \subseteq Resources
  /\ \A c \in Channels : c.kind \in Kinds /\ c.ref \in Resources /\ c.setting \in Nat
  /\ \A c \in Channels : c.kind = "pwm" => Place(c) \in Pins /\ c.setting \in Periods
  /\ \A c \in Channels : c.kind = "mqtt" => Place(c) \in Topics
  /\ Periods \subseteq Nat
BY DeploymentAssumption DEF Channels, Pins, Periods, Topics

-----------------------------------------------------------------------------
(* Steps that several actions share *)

\* A process begins: only what outlives a process matters.
LEMMA LaunchStep ==
  ASSUME BootInv, NEW d \in Deployments, Launch(d), trouble' \in BOOLEAN
  PROVE  BootInv'
<1>1. /\ phase' = "opening" /\ dep' = d /\ opened' = {} /\ todo' = {} /\ claims' = {}
      /\ doing' = Idle /\ had' = {} /\ mine' = {} /\ stuck' = {}
      /\ closes' = [r \in Resources |-> 0] /\ wrote' = [p \in Pins |-> 0]
      /\ UNCHANGED <<pins, broker, linked, subs, code>>
  BY DEF Launch, device
<1>2. TypeOK'
  BY <1>1 DEF BootInv, TypeOK, Phases, InProgress
<1>3. DutyBelow' BY <1>1 DEF BootInv, DutyBelow
<1>4. DoingKnown' /\ Halfway'
  BY <1>1 DEF DoingKnown, Halfway, Idle, Configuring
<1>5. OneOwner' /\ NothingYet' /\ ClosedOnce' /\ NoneForgotten' /\ EndedCleanly'
  BY <1>1 DEF OneOwner, NothingYet, ClosedOnce, NoneForgotten, EndedCleanly
<1>6. OutputsKnown' /\ NothingWritten' /\ Complete' /\ ClaimsHaveDrivers'
  BY <1>1 DEF OutputsKnown, NothingWritten, Complete, ClaimsHaveDrivers
<1> QED BY <1>2, <1>3, <1>4, <1>5, <1>6 DEF BootInv

\* A process ends without touching an output or a driver.
LEMMA ExitStep ==
  ASSUME BootInv, NEW c \in Codes, Exit(c),
         UNCHANGED <<pins, opened, todo, claims, history>>, trouble' \in BOOLEAN,
         EndedCleanly'
  PROVE  BootInv'
<1>1. /\ phase' = "down" /\ code' = c /\ doing' = Idle /\ linked' = FALSE /\ subs' = {}
      /\ UNCHANGED <<pins, broker, dep, opened, todo, claims, had, closes, mine, stuck, wrote>>
  BY DEF Exit, history
<1>2. TypeOK'
  BY <1>1 DEF BootInv, TypeOK, Phases, InProgress
<1>3. DutyBelow' /\ OneOwner'
  BY <1>1 DEF BootInv, DutyBelow, OneOwner
<1>4. DoingKnown' /\ Halfway'
  BY <1>1 DEF DoingKnown, Halfway, Idle, Configuring
<1>5. NothingYet' /\ ClosedOnce' /\ NoneForgotten'
  BY <1>1 DEF NothingYet, ClosedOnce, NoneForgotten
<1>6. OutputsKnown' /\ NothingWritten' /\ Complete' /\ ClaimsHaveDrivers'
  BY <1>1 DEF OutputsKnown, NothingWritten, Complete, ClaimsHaveDrivers
<1> QED BY <1>2, <1>3, <1>4, <1>5, <1>6 DEF BootInv

LEMMA FailStep ==
  ASSUME BootInv, NEW c \in {"78", "killed"}, Exit(c),
         UNCHANGED <<pins, opened, todo, claims, history>>, trouble' \in BOOLEAN
  PROVE  BootInv'
<1>1. EndedCleanly' BY DEF Exit, EndedCleanly
<1> QED BY <1>1, ExitStep DEF Codes

LEMMA RefuseStep ==
  ASSUME BootInv, NEW fault \in BOOLEAN, Refuse(fault)
  PROVE  BootInv'
<1>1. trouble' \in BOOLEAN BY DEF Refuse, BootInv, TypeOK
<1> QED BY <1>1, FailStep DEF Refuse

\* The broker and the connection: the drivers' claims do not depend on them.
LEMMA LinkStep ==
  ASSUME BootInv, broker' \in BOOLEAN, linked' \in BOOLEAN, trouble' \in BOOLEAN,
         subs' \subseteq Topics, UNCHANGED <<pins, dep, code, phase, process, history>>
  PROVE  BootInv'
<1>1. UNCHANGED <<pins, dep, code, phase, opened, todo, claims, doing, had, closes, mine,
                  stuck, wrote>>
  BY DEF process, history
<1>2. TypeOK' BY <1>1 DEF BootInv, TypeOK
<1>3. DutyBelow' /\ OneOwner' /\ DoingKnown' /\ Halfway'
  BY <1>1 DEF BootInv, DutyBelow, OneOwner, DoingKnown, Halfway, Taken
<1>4. OutputsKnown' /\ NothingWritten' /\ Complete' /\ ClaimsHaveDrivers'
  BY <1>1 DEF BootInv, OutputsKnown, AsSet, NothingWritten, Complete, ClaimsHaveDrivers
<1>5. NothingYet' /\ ClosedOnce'
  BY <1>1 DEF BootInv, NothingYet, ClosedOnce
<1>6. NoneForgotten'
  BY <1>1 DEF BootInv, NoneForgotten
<1>7. EndedCleanly'
  BY <1>1 DEF BootInv, EndedCleanly
<1> QED BY <1>2, <1>3, <1>4, <1>5, <1>6, <1>7 DEF BootInv

\* The driver records a channel whose place was free, and whose output, if it
\* has one, is now as it should be. The connection may gain a topic.
LEMMA ClaimStep ==
  ASSUME BootInv, phase = "building", NEW c \in todo, ~Taken(c), Claimed(c),
         c.kind = "pwm" => pins'[Place(c)] = AsSet(c),
         pins' \in [Pins -> Outputs],
         \A p \in Pins : p # Place(c) => pins'[p] = pins[p],
         DutyBelow', doing' = Idle, subs' \subseteq Topics,
         doing # Idle => doing.chan = c /\ c.kind = "pwm",
         c.kind # "pwm" => UNCHANGED pins,
         UNCHANGED <<broker, linked, dep, code, phase, opened, history, trouble>>
  PROVE  BootInv'
<1>1. /\ claims' = claims \cup {c} /\ todo' = todo \ {c}
      /\ UNCHANGED <<broker, linked, dep, code, phase, opened, had, closes, mine, stuck,
                     wrote, trouble>>
  BY DEF Claimed, Taken, history
<1>2. /\ dep \in Deployments /\ c \in dep.channels /\ c \in Channels
      /\ claims \subseteq dep.channels /\ claims \subseteq Channels
  BY ChannelFacts DEF BootInv, TypeOK
<1>3. TypeOK' BY <1>1, <1>2 DEF BootInv, TypeOK, InProgress
<1>4. OneOwner' BY <1>1 DEF BootInv, OneOwner, Taken
<1>5. DoingKnown' /\ Halfway' BY DEF DoingKnown, Halfway, Idle, Configuring
<1>6. OutputsKnown'
  <2> SUFFICES ASSUME NEW e \in claims', e.kind = "pwm"
               PROVE  pins'[Place(e)] = AsSet(e)'
    BY DEF OutputsKnown
  <2>1. AsSet(e)' = AsSet(e) BY <1>1 DEF AsSet
  <2>2. CASE e = c BY <2>1, <2>2
  <2>3. CASE e \in claims
    <3>1. Place(e) # Place(c) /\ Place(e) \in Pins BY <1>2, <2>3, ChannelFacts DEF Taken
    <3>2. pins[Place(e)] = AsSet(e) BY <2>3 DEF BootInv, OutputsKnown
    <3> QED BY <3>1, <3>2, <2>1
  <2> QED BY <1>1, <2>2, <2>3
<1>7. NothingWritten' /\ NothingYet' /\ ClosedOnce' /\ EndedCleanly'
  BY <1>1 DEF BootInv, NothingWritten, NothingYet, ClosedOnce, EndedCleanly
<1>8. Complete' /\ ClaimsHaveDrivers'
  BY <1>1 DEF BootInv, Complete, ClaimsHaveDrivers
<1>9. NoneForgotten'
  <2> SUFFICES ASSUME NEW p \in mine \ stuck
               PROVE  \/ \E e \in claims' : e.kind = "pwm" /\ Place(e) = p
                      \/ ~pins'[p].exported /\ ~pins'[p].enabled
    BY <1>1 DEF NoneForgotten
  <2>1. CASE c.kind = "pwm" /\ Place(c) = p BY <1>1, <2>1
  <2>2. CASE \E e \in claims : e.kind = "pwm" /\ Place(e) = p BY <1>1, <2>2
  <2>3. CASE ~pins[p].exported /\ ~pins[p].enabled /\ (c.kind # "pwm" \/ Place(c) # p)
    BY <2>3 DEF BootInv, TypeOK
  <2> QED BY <2>1, <2>2, <2>3 DEF BootInv, NoneForgotten, Idle, Configuring
<1> QED BY <1>3, <1>4, <1>5, <1>6, <1>7, <1>8, <1>9 DEF BootInv

-----------------------------------------------------------------------------
(* NewRegistry *)

LEMMA OpenOneStep == ASSUME BootInv, OpenOne PROVE BootInv'
<1> PICK r \in Resources :
      /\ phase = "opening" /\ r \in dep.resources \ opened
      /\ opened' = opened \cup {r} /\ had' = had \cup {r}
      /\ linked' = (linked \/ FamilyOf[r] = "mqtt")
      /\ UNCHANGED <<pins, broker, subs, dep, code, phase, todo, claims, doing, closes,
                     mine, stuck, wrote, trouble>>
  BY DEF OpenOne, Openable
<1>1. TypeOK' BY DEF BootInv, TypeOK
<1>2. DutyBelow' /\ OneOwner' /\ DoingKnown' /\ Halfway'
  BY DEF BootInv, DutyBelow, OneOwner, DoingKnown, Halfway, Taken
<1>3. OutputsKnown' /\ NothingWritten' /\ Complete' /\ ClaimsHaveDrivers'
  BY DEF BootInv, OutputsKnown, NothingWritten, Complete, ClaimsHaveDrivers
<1>4. NothingYet' BY DEF BootInv, NothingYet
<1>5. ClosedOnce' BY DEF BootInv, NothingYet, ClosedOnce
<1>6. NoneForgotten' /\ EndedCleanly'
  BY DEF BootInv, NothingYet, NoneForgotten, EndedCleanly
<1> QED BY <1>1, <1>2, <1>3, <1>4, <1>5, <1>6 DEF BootInv

LEMMA OpenFailsStep == ASSUME BootInv, OpenFails PROVE BootInv'
<1> PICK r \in Resources :
      /\ phase = "opening" /\ phase' = "down" /\ code' = CodeFor(r)
      /\ opened' = {} /\ doing' = Idle /\ linked' = FALSE /\ subs' = {}
      /\ closes' = [s \in Resources |-> IF s \in opened THEN closes[s] + 1 ELSE closes[s]]
      /\ trouble' = (trouble \/ FamilyOf[r] # "mqtt" \/ broker)
      /\ UNCHANGED <<pins, broker, dep, todo, claims, had, mine, stuck, wrote>>
  BY DEF OpenFails, Openable, CloseOpened, Exit
<1>1. TypeOK'
  <2>1. CodeFor(r) \in Codes BY DEF CodeFor, Codes
  <2>2. trouble' \in BOOLEAN BY DEF BootInv, TypeOK
  <2>3. closes' \in [Resources -> Nat] BY DEF BootInv, TypeOK
  <2> QED BY <2>1, <2>2, <2>3 DEF BootInv, TypeOK, Phases, InProgress
<1>2. DutyBelow' /\ OneOwner' BY DEF BootInv, DutyBelow, OneOwner
<1>3. DoingKnown' /\ Halfway' BY DEF DoingKnown, Halfway, Idle, Configuring
<1>4. OutputsKnown' /\ NothingWritten' /\ Complete' /\ ClaimsHaveDrivers'
  BY DEF OutputsKnown, NothingWritten, Complete, ClaimsHaveDrivers
<1>5. NothingYet' /\ ClosedOnce' /\ NoneForgotten'
  BY DEF NothingYet, ClosedOnce, NoneForgotten
<1>6. EndedCleanly'
  <2>1. mine' = {} /\ had = opened BY DEF BootInv, NothingYet
  <2>2. \A s \in Resources : closes[s] = 0 BY <2>1 DEF BootInv, ClosedOnce
  <2> QED BY <2>1, <2>2 DEF EndedCleanly
<1> QED BY <1>1, <1>2, <1>3, <1>4, <1>5, <1>6 DEF BootInv

LEMMA ResolveStep == ASSUME BootInv, Resolve PROVE BootInv'
<1>1. /\ phase = "opening" /\ opened = dep.resources /\ UNCHANGED history
      /\ trouble' = trouble /\ trouble \in BOOLEAN
  BY DEF Resolve, BootInv, TypeOK
<1>2. CASE Exit("78") /\ UNCHANGED <<pins, opened, todo, claims>>
  BY <1>1, <1>2, FailStep
<1>3. CASE /\ \A c \in dep.channels : c.ref \in opened /\ FamilyOf[c.ref] = FamilyFor(c.kind)
           /\ phase' = "building" /\ todo' = dep.channels
           /\ UNCHANGED <<device, dep, code, opened, claims, doing>>
  <2>1. /\ claims = {} /\ mine = {} /\ stuck = {} /\ doing = Idle /\ had = opened
        /\ claims' = {} /\ mine' = {} /\ stuck' = {} /\ doing' = Idle /\ phase' = "building"
        /\ todo' = dep.channels
        /\ UNCHANGED <<pins, broker, linked, subs, dep, code, opened, had, closes, wrote, trouble>>
    BY <1>1, <1>3 DEF device, history, BootInv, NothingYet
  <2>2. TypeOK' BY <2>1 DEF BootInv, TypeOK, Phases
  <2>3. DutyBelow' /\ OneOwner' BY <2>1 DEF BootInv, DutyBelow, OneOwner
  <2>4. DoingKnown' /\ Halfway' BY <2>1 DEF DoingKnown, Halfway, Idle, Configuring
  <2>5. OutputsKnown' /\ NothingYet' /\ NoneForgotten' /\ EndedCleanly'
    BY <2>1 DEF OutputsKnown, NothingYet, NoneForgotten, EndedCleanly
  <2>6. NothingWritten' BY <1>1, <2>1 DEF BootInv, NothingWritten
  <2>7. Complete' /\ ClaimsHaveDrivers' BY <1>3, <2>1 DEF Complete, ClaimsHaveDrivers
  <2>8. ClosedOnce' BY <1>1, <2>1 DEF BootInv, ClosedOnce
  <2> QED BY <2>2, <2>3, <2>4, <2>5, <2>6, <2>7, <2>8 DEF BootInv
<1> QED BY <1>1, <1>2, <1>3 DEF Resolve

-----------------------------------------------------------------------------
(* SetupAll *)

LEMMA SetupLineStep == ASSUME BootInv, SetupLine PROVE BootInv'
<1> PICK c \in Channels :
      /\ Settable(c, {"gpioin", "gpioout"}) /\ ~Taken(c)
      /\ \/ /\ Claimed(c)
            /\ UNCHANGED <<device, dep, code, phase, opened, doing, history, trouble>>
         \/ Refuse(TRUE)
  BY DEF SetupLine
<1>1. CASE Refuse(TRUE) BY <1>1, RefuseStep
<1>2. CASE Claimed(c) /\ UNCHANGED <<device, dep, code, phase, opened, doing, history, trouble>>
  <2>1. phase = "building" /\ c \in todo /\ doing = Idle /\ c.kind # "pwm" BY DEF Settable
  <2>2. UNCHANGED <<pins, broker, linked, subs, dep, code, phase, opened, doing, history, trouble>>
    BY <1>2 DEF device
  <2>3. pins' \in [Pins -> Outputs] /\ DutyBelow' /\ subs' \subseteq Topics
    BY <2>2 DEF BootInv, TypeOK, DutyBelow
  <2> QED BY <1>2, <2>1, <2>2, <2>3, ClaimStep
<1> QED BY <1>1, <1>2

LEMMA SetupSubscriptionStep == ASSUME BootInv, SetupSubscription PROVE BootInv'
<1> PICK c \in Channels :
      /\ Settable(c, {"mqtt"}) /\ ~Taken(c)
      /\ \/ /\ Claimed(c) /\ subs' = subs \cup {Place(c)}
            /\ UNCHANGED <<pins, broker, linked, dep, code, phase, opened, doing, history, trouble>>
         \/ Refuse(linked)
  BY DEF SetupSubscription
<1>1. CASE Refuse(linked) BY <1>1, RefuseStep DEF BootInv, TypeOK
<1>2. CASE /\ Claimed(c) /\ subs' = subs \cup {Place(c)}
           /\ UNCHANGED <<pins, broker, linked, dep, code, phase, opened, doing, history, trouble>>
  <2>1. phase = "building" /\ c \in todo /\ doing = Idle /\ c.kind = "mqtt" BY DEF Settable
  <2>2. pins' \in [Pins -> Outputs] /\ DutyBelow' /\ subs' \subseteq Topics
    BY <1>2, <2>1, ChannelFacts DEF BootInv, TypeOK, DutyBelow
  <2> QED BY <1>2, <2>1, <2>2, ClaimStep
<1> QED BY <1>1, <1>2

LEMMA SetupUnheardStep == ASSUME BootInv, SetupUnheard PROVE BootInv'
<1> PICK c \in Channels :
      /\ phase = "building" /\ doing = Idle /\ c \in todo /\ c.kind = "mqtt" /\ c.setting = 0
      /\ todo' = todo \ {c}
      /\ UNCHANGED <<device, dep, code, phase, opened, claims, doing, history, trouble>>
  BY DEF SetupUnheard, Settable
<1>1. UNCHANGED <<pins, broker, linked, subs, dep, code, phase, opened, claims, doing, had,
                  closes, mine, stuck, wrote, trouble>>
  BY DEF device, history
<1>2. TypeOK' BY <1>1 DEF BootInv, TypeOK
<1>3. DutyBelow' /\ OneOwner' /\ Halfway'
  BY <1>1 DEF BootInv, DutyBelow, OneOwner, Halfway
<1>4. DoingKnown' BY <1>1 DEF DoingKnown, Idle, Configuring
<1>5. OutputsKnown' /\ NothingWritten' BY <1>1 DEF BootInv, OutputsKnown, AsSet, NothingWritten
<1>6. Complete' /\ ClaimsHaveDrivers' BY <1>1 DEF BootInv, Complete, ClaimsHaveDrivers
<1>7. NothingYet' /\ ClosedOnce' /\ NoneForgotten' /\ EndedCleanly'
  BY <1>1 DEF BootInv, NothingYet, ClosedOnce, NoneForgotten, EndedCleanly
<1> QED BY <1>2, <1>3, <1>4, <1>5, <1>6, <1>7 DEF BootInv

LEMMA ConfigureExportStep == ASSUME BootInv, ConfigureExport PROVE BootInv'
<1> PICK c \in Channels :
      /\ phase = "building" /\ doing = Idle /\ c \in todo /\ c.kind = "pwm" /\ ~Taken(c)
      /\ \/ /\ \E pin \in Exported(pins[Place(c)]) : pins' = [pins EXCEPT ![Place(c)] = pin]
            /\ mine' = mine \cup {Place(c)}
            /\ doing' = [chan |-> c, write |-> ConfigureOrder[1]]
            /\ UNCHANGED <<broker, linked, subs, dep, code, phase, opened, todo, claims,
                           had, closes, stuck, wrote, trouble>>
         \/ Refuse(TRUE)
  BY DEF ConfigureExport, Settable
<1>1. CASE Refuse(TRUE) BY <1>1, RefuseStep
<1>2. CASE ~Refuse(TRUE)
  <2> PICK pin \in Exported(pins[Place(c)]) : pins' = [pins EXCEPT ![Place(c)] = pin] BY <1>2
  <2>1. /\ mine' = mine \cup {Place(c)} /\ doing' = [chan |-> c, write |-> "duty"]
        /\ UNCHANGED <<broker, linked, subs, dep, code, phase, opened, todo, claims,
                       had, closes, stuck, wrote, trouble>>
    BY <1>2, WriteOrder
  <2>2. c \in Channels /\ Place(c) \in Pins BY ChannelFacts
  <2>3. pin \in Outputs /\ pin.exported /\ pin.duty <= pin.period
    <3> DEFINE old == pins[Place(c)]
    <3>1. old \in Outputs /\ old.duty <= old.period BY <2>2 DEF BootInv, TypeOK, DutyBelow
    <3> HIDE DEF old
    <3>2. CASE pin = old /\ old.exported BY <3>1, <3>2
    <3>3. CASE pin = [old EXCEPT !.exported = TRUE] BY <3>1, <3>3 DEF Outputs
    <3>4. CASE pin = [Off EXCEPT !.exported = TRUE]
      <4>1. pin = [exported |-> TRUE, enabled |-> FALSE, duty |-> 0, period |-> 0]
        BY <3>4 DEF Off
      <4> QED BY <4>1 DEF Outputs
    <3> QED BY <3>2, <3>3, <3>4 DEF Exported, old
  <2>4. /\ pins' \in [Pins -> Outputs] /\ pins'[Place(c)] = pin
        /\ \A p \in Pins : p # Place(c) => pins'[p] = pins[p]
    BY <2>2, <2>3 DEF BootInv, TypeOK
  <2>5. TypeOK' BY <2>1, <2>2, <2>4 DEF BootInv, TypeOK, InProgress, Writes
  <2>6. DutyBelow' BY <2>3, <2>4 DEF BootInv, DutyBelow
  <2>7. OneOwner' BY <2>1 DEF BootInv, OneOwner
  <2>8. DoingKnown' /\ Halfway'
    BY <2>1, <2>3, <2>4 DEF DoingKnown, Halfway, Configuring, Taken
  <2>9. OutputsKnown'
    <3> SUFFICES ASSUME NEW e \in claims, e.kind = "pwm" PROVE pins'[Place(e)] = AsSet(e)'
      BY <2>1 DEF OutputsKnown
    <3>1. Place(e) # Place(c) /\ Place(e) \in Pins
      BY ChannelFacts DEF Taken, BootInv, TypeOK
    <3>2. pins[Place(e)] = AsSet(e) /\ AsSet(e)' = AsSet(e)
      BY <2>1 DEF BootInv, OutputsKnown, AsSet
    <3> QED BY <3>1, <3>2, <2>4
  <2>10. NothingWritten' /\ Complete' /\ ClaimsHaveDrivers'
    BY <2>1 DEF BootInv, NothingWritten, Complete, ClaimsHaveDrivers
  <2>11. NothingYet' /\ ClosedOnce' /\ EndedCleanly'
    BY <2>1 DEF BootInv, NothingYet, ClosedOnce, EndedCleanly
  <2>12. NoneForgotten'
    <3> SUFFICES ASSUME NEW p \in mine' \ stuck, p # Place(c)
                 PROVE  \/ \E e \in claims : e.kind = "pwm" /\ Place(e) = p
                        \/ ~pins'[p].exported /\ ~pins'[p].enabled
      BY <2>1 DEF NoneForgotten, Configuring
    <3>1. p \in mine \ stuck /\ p \in Pins BY <2>1 DEF BootInv, TypeOK
    <3>2. doing.write \notin Configuring BY DEF Idle, Configuring
    <3> QED BY <3>1, <3>2, <2>4 DEF BootInv, NoneForgotten
  <2> QED BY <2>5, <2>6, <2>7, <2>8, <2>9, <2>10, <2>11, <2>12 DEF BootInv
<1> QED BY <1>1, <1>2

\* One of the writes of Configure.
LEMMA ConfigureWriteStep == ASSUME BootInv, ConfigureWrite PROVE BootInv'
<1> DEFINE c == doing.chan
           w == doing.write
           next == WriteAfter(w)
<1>1. CASE Refuse(TRUE) BY <1>1, RefuseStep
<1>2. CASE ~Refuse(TRUE)
  <2>1. /\ phase = "building" /\ doing # Idle
        /\ pins' = [pins EXCEPT ![Place(c)] = Configured(@, c, w)]
        /\ IF next = "none" THEN doing' = Idle /\ Claimed(c)
           ELSE doing' = [doing EXCEPT !.write = next] /\ UNCHANGED <<todo, claims>>
        /\ UNCHANGED <<broker, linked, subs, dep, code, phase, opened, history, trouble>>
    BY <1>2 DEF ConfigureWrite
  <2>2. /\ doing \in [chan : Channels, write : Writes] /\ w \in Configuring
        /\ c \in todo /\ c.kind = "pwm" /\ ~Taken(c) /\ pins[Place(c)].exported
    BY <2>1 DEF BootInv, TypeOK, InProgress, DoingKnown, Writes, Configuring
  <2>3. c \in Channels /\ Place(c) \in Pins /\ c.setting \in Nat /\ c.setting \in Periods
    BY <2>2, ChannelFacts
  <2> DEFINE old == pins[Place(c)]
             new == Configured(old, c, w)
  <2>4. old \in Outputs /\ old.duty <= old.period /\ pins \in [Pins -> Outputs]
    BY <2>3 DEF BootInv, TypeOK, DutyBelow
  <2>5. /\ w = "duty" => new = [old EXCEPT !.duty = 0]
        /\ w = "period" => new = [old EXCEPT !.period = c.setting]
        /\ w = "enable" => new = [old EXCEPT !.enabled = TRUE]
    BY DEF Configured
  <2>6. /\ w \in {"period", "enable"} => old.duty = 0
        /\ w = "enable" => old.period = c.setting
    BY DEF BootInv, Halfway
  <2>7. new \in Outputs /\ new.exported /\ new.duty <= new.period
    <3> HIDE DEF old, new, c, w
    <3>1. old.exported BY <2>2 DEF old, c
    <3>2. CASE w = "duty" BY <3>1, <3>2, <2>4, <2>5, ChannelFacts DEF Outputs
    <3>3. CASE w = "period" BY <3>1, <3>3, <2>3, <2>4, <2>5, <2>6 DEF Outputs
    <3>4. CASE w = "enable" BY <3>1, <3>4, <2>4, <2>5 DEF Outputs
    <3> QED BY <3>2, <3>3, <3>4, <2>2 DEF Configuring
  <2>8. /\ w \in {"duty", "period", "enable"} => new.duty = 0
        /\ w \in {"period", "enable"} => new.period = c.setting
        /\ w = "enable" => new.enabled
    BY <2>2, <2>3, <2>4, <2>5, <2>6 DEF Outputs, Configuring
  <2> HIDE DEF new
  <2>9. /\ pins' \in [Pins -> Outputs] /\ pins'[Place(c)] = new
        /\ \A p \in Pins : p # Place(c) => pins'[p] = pins[p]
    BY <2>1, <2>3, <2>4, <2>7 DEF new
  <2>10. DutyBelow' BY <2>7, <2>9 DEF BootInv, DutyBelow
  <2>11. CASE w = "enable"
    <3>1. doing' = Idle /\ Claimed(c) BY <2>1, <2>11, WriteOrder
    <3>2. wrote[Place(c)] = 0 BY <2>1, <2>3 DEF BootInv, NothingWritten
    <3>3. new = AsSet(c)
      BY <2>4, <2>7, <2>8, <2>11, <3>2 DEF Outputs, AsSet
    <3>4. subs' \subseteq Topics BY <2>1 DEF BootInv, TypeOK
    <3> HIDE DEF c, w
    <3> QED BY <2>1, <2>2, <2>9, <2>10, <3>1, <3>3, <3>4, ClaimStep DEF c
  <2>12. CASE w # "enable"
    <3>1. /\ w \in {"duty", "period"} /\ next \in {"period", "enable"}
          /\ doing' = [chan |-> c, write |-> next]
          /\ w = "duty" => next = "period"
      BY <2>1, <2>2, <2>12, WriteOrder DEF Configuring
    <3>2. UNCHANGED <<broker, linked, subs, dep, code, phase, opened, todo, claims, had,
                      closes, mine, stuck, wrote, trouble>>
      BY <2>1, <3>1 DEF history
    <3>3. TypeOK' BY <2>3, <2>9, <3>1, <3>2 DEF BootInv, TypeOK, InProgress, Writes
    <3>4. OneOwner' BY <3>2 DEF BootInv, OneOwner
    <3>5. DoingKnown' BY <2>1, <2>2, <2>7, <2>9, <3>1, <3>2 DEF DoingKnown, Configuring, Taken
    <3>6. Halfway' BY <2>2, <2>8, <2>9, <3>1, <2>12 DEF Halfway, Configuring
    <3>7. OutputsKnown'
      <4> SUFFICES ASSUME NEW e \in claims, e.kind = "pwm" PROVE pins'[Place(e)] = AsSet(e)'
        BY <3>2 DEF OutputsKnown
      <4>1. Place(e) # Place(c) /\ Place(e) \in Pins
        BY <2>2, ChannelFacts DEF Taken, BootInv, TypeOK
      <4>2. pins[Place(e)] = AsSet(e) /\ AsSet(e)' = AsSet(e)
        BY <2>1, <3>2 DEF BootInv, OutputsKnown, AsSet
      <4> QED BY <4>1, <4>2, <2>9
    <3>8. NothingWritten' /\ Complete' /\ ClaimsHaveDrivers'
      BY <3>2 DEF BootInv, NothingWritten, Complete, ClaimsHaveDrivers
    <3>9. NothingYet' /\ ClosedOnce' /\ EndedCleanly'
      BY <2>1, <3>2 DEF BootInv, NothingYet, ClosedOnce, EndedCleanly
    <3>10. NoneForgotten'
      <4> SUFFICES ASSUME NEW p \in mine \ stuck, p # Place(c)
                   PROVE  \/ \E e \in claims : e.kind = "pwm" /\ Place(e) = p
                          \/ ~pins'[p].exported /\ ~pins'[p].enabled
        BY <3>1, <3>2 DEF NoneForgotten, Configuring
      <4>1. p \in Pins BY DEF BootInv, TypeOK
      <4> QED BY <4>1, <2>1, <2>9 DEF BootInv, NoneForgotten
    <3> QED BY <2>10, <3>3, <3>4, <3>5, <3>6, <3>7, <3>8, <3>9, <3>10 DEF BootInv
  <2> QED BY <2>11, <2>12
<1> QED BY <1>1, <1>2

LEMMA BuildDoneStep == ASSUME BootInv, BuildDone PROVE BootInv'
<1>1. /\ phase = "building" /\ todo = {} /\ phase' = "running"
      /\ UNCHANGED <<pins, broker, linked, subs, dep, code, opened, todo, claims, doing, had,
                     closes, mine, stuck, wrote, trouble>>
  BY DEF BuildDone, device, process, history
<1>2. TypeOK' BY <1>1 DEF BootInv, TypeOK, Phases
<1>3. DutyBelow' /\ OneOwner' /\ Halfway'
  BY <1>1 DEF BootInv, DutyBelow, OneOwner, Halfway
<1>4. DoingKnown' BY <1>1 DEF BootInv, DoingKnown
<1>5. OutputsKnown' /\ NothingWritten'
  BY <1>1 DEF BootInv, OutputsKnown, AsSet, NothingWritten
<1>6. Complete' /\ ClaimsHaveDrivers' BY <1>1 DEF BootInv, Complete, ClaimsHaveDrivers
<1>7. NothingYet' /\ ClosedOnce' /\ NoneForgotten' /\ EndedCleanly'
  BY <1>1 DEF BootInv, NothingYet, ClosedOnce, NoneForgotten, EndedCleanly
<1> QED BY <1>2, <1>3, <1>4, <1>5, <1>6, <1>7 DEF BootInv

-----------------------------------------------------------------------------
(* Running *)

LEMMA WriteAnalogStep == ASSUME BootInv, WriteAnalog PROVE BootInv'
<1>1. /\ phase = "running"
      /\ UNCHANGED <<broker, linked, subs, dep, code, phase, opened, todo, claims, doing, had,
                     closes, mine, stuck, trouble>>
  BY DEF WriteAnalog, process
<1> PICK c \in claims, l \in Levels :
      /\ c.kind = "pwm"
      /\ pins' = [pins EXCEPT ![Place(c)].duty = (Clamp(l) * c.setting) \div 100]
      /\ wrote' = [wrote EXCEPT ![Place(c)] = (Clamp(l) * c.setting) \div 100]
  BY DEF WriteAnalog
<1> DEFINE duty == (Clamp(l) * c.setting) \div 100
<1>2. Place(c) \in Pins /\ c.setting \in Nat /\ l \in Int
  BY ChannelFacts, DeploymentAssumption DEF BootInv, TypeOK
<1>3. duty \in Nat /\ duty <= c.setting BY <1>2, DutyOfLevel
<1>4. /\ pins' = [pins EXCEPT ![Place(c)].duty = duty]
      /\ wrote' = [wrote EXCEPT ![Place(c)] = duty]
  OBVIOUS
<1> HIDE DEF duty
<1>5. pins \in [Pins -> Outputs] /\ wrote \in [Pins -> Nat] BY DEF BootInv, TypeOK
<1>6. pins[Place(c)] = AsSet(c) BY <1>1 DEF BootInv, OutputsKnown
<1>7. /\ pins'[Place(c)] = [exported |-> TRUE, enabled |-> TRUE, duty |-> duty,
                            period |-> c.setting]
      /\ wrote'[Place(c)] = duty
  <2> DEFINE old == pins[Place(c)]
  <2>1. pins'[Place(c)] = [old EXCEPT !.duty = duty] /\ wrote'[Place(c)] = duty /\ old \in Outputs
    BY <1>2, <1>4, <1>5
  <2>2. old.exported = TRUE /\ old.enabled = TRUE /\ old.period = c.setting
    BY <1>6 DEF AsSet
  <2> HIDE DEF old
  <2> DEFINE new == pins'[Place(c)]
  <2>3. new \in Outputs BY <2>1, <1>3 DEF Outputs
  <2>4. new.exported = TRUE /\ new.enabled = TRUE /\ new.period = c.setting /\ new.duty = duty
    BY <2>1, <2>2, <1>3 DEF Outputs
  <2> HIDE DEF new
  <2>5. new = [exported |-> TRUE, enabled |-> TRUE, duty |-> duty, period |-> c.setting]
    BY <2>3, <2>4 DEF Outputs
  <2> QED BY <2>1, <2>5 DEF new
<1>8. \A p \in Pins : p # Place(c) => pins'[p] = pins[p] /\ wrote'[p] = wrote[p]
  BY <1>2, <1>4, <1>5
<1>9. wrote' \in [Pins -> Nat] /\ pins' \in [Pins -> Outputs]
  BY <1>2, <1>3, <1>4, <1>5 DEF Outputs
<1>10. TypeOK' BY <1>1, <1>9 DEF BootInv, TypeOK
<1>11. DutyBelow' BY <1>3, <1>7, <1>8 DEF BootInv, DutyBelow, AsSet
<1>12. OneOwner' /\ DoingKnown' /\ Halfway'
  <2>1. doing.write \notin Configuring /\ doing.write # "unexport"
    BY <1>1 DEF BootInv, DoingKnown
  <2> QED BY <1>1, <2>1 DEF BootInv, OneOwner, DoingKnown, Halfway, Configuring
<1>13. OutputsKnown'
  <2> SUFFICES ASSUME NEW e \in claims, e.kind = "pwm" PROVE pins'[Place(e)] = AsSet(e)'
    BY <1>1 DEF OutputsKnown
  <2>1. CASE e = c
    <3>1. AsSet(e)' = [exported |-> TRUE, enabled |-> TRUE, duty |-> duty, period |-> c.setting]
      BY <2>1, <1>7 DEF AsSet
    <3> QED BY <2>1, <3>1, <1>7
  <2>2. CASE e # c
    <3>1. Place(e) # Place(c) /\ Place(e) \in Pins
      BY <2>2, ChannelFacts DEF BootInv, OneOwner, TypeOK
    <3>2. pins[Place(e)] = AsSet(e) BY <1>1 DEF BootInv, OutputsKnown
    <3> QED BY <3>1, <3>2, <1>8 DEF AsSet
  <2> QED BY <2>1, <2>2
<1>14. NothingWritten' /\ Complete' /\ ClaimsHaveDrivers'
  BY <1>1 DEF BootInv, NothingWritten, Complete, ClaimsHaveDrivers
<1>15. NothingYet' /\ ClosedOnce' /\ EndedCleanly'
  BY <1>1 DEF BootInv, NothingYet, ClosedOnce, EndedCleanly
<1>16. NoneForgotten'
  <2> SUFFICES ASSUME NEW p \in mine \ stuck, p # Place(c), p \in Pins
               PROVE  \/ \E e \in claims : e.kind = "pwm" /\ Place(e) = p
                      \/ doing.write \in Configuring /\ Place(doing.chan) = p
                      \/ ~pins'[p].exported /\ ~pins'[p].enabled
    BY <1>1 DEF NoneForgotten, BootInv, TypeOK
  <2> QED BY <1>1, <1>8 DEF BootInv, NoneForgotten
<1> QED BY <1>10, <1>11, <1>12, <1>13, <1>14, <1>15, <1>16 DEF BootInv

LEMMA RunEndsStep == ASSUME BootInv, RunEnds PROVE BootInv'
<1>1. /\ phase = "running" /\ phase' = "closing"
      /\ UNCHANGED <<pins, broker, linked, subs, dep, code, opened, todo, claims, doing, had,
                     closes, mine, stuck, wrote, trouble>>
  BY DEF RunEnds, device, process, history
<1>2. TypeOK' BY <1>1 DEF BootInv, TypeOK, Phases
<1>3. DutyBelow' /\ OneOwner' /\ Halfway'
  BY <1>1 DEF BootInv, DutyBelow, OneOwner, Halfway
<1>4. DoingKnown' BY <1>1 DEF BootInv, DoingKnown
<1>5. OutputsKnown' /\ NothingWritten' /\ Complete'
  BY <1>1 DEF OutputsKnown, NothingWritten, Complete
<1>6. ClaimsHaveDrivers' BY <1>1 DEF BootInv, TypeOK, ClaimsHaveDrivers
<1>7. NothingYet' /\ ClosedOnce' /\ NoneForgotten' /\ EndedCleanly'
  BY <1>1 DEF BootInv, NothingYet, ClosedOnce, NoneForgotten, EndedCleanly
<1> QED BY <1>2, <1>3, <1>4, <1>5, <1>6, <1>7 DEF BootInv

-----------------------------------------------------------------------------
(* CloseAll *)

LEMMA CloseDisableStep == ASSUME BootInv, CloseDisable PROVE BootInv'
<1> PICK c \in claims :
      /\ phase = "closing" /\ c.kind = "pwm" /\ doing = Idle
      /\ doing' = [chan |-> c, write |-> "unexport"]
      /\ \/ pins' = [pins EXCEPT ![Place(c)].enabled = FALSE] /\ UNCHANGED <<stuck, trouble>>
         \/ stuck' = stuck \cup {Place(c)} /\ trouble' = TRUE /\ UNCHANGED pins
      /\ UNCHANGED <<broker, linked, subs, dep, code, phase, opened, todo, claims,
                     had, closes, mine, wrote>>
  BY DEF CloseDisable, Closable
<1>1. c \in Channels /\ Place(c) \in Pins /\ pins \in [Pins -> Outputs]
  BY ChannelFacts DEF BootInv, TypeOK
<1>2. /\ pins' \in [Pins -> Outputs] /\ stuck' \subseteq Pins /\ trouble' \in BOOLEAN
      /\ stuck \subseteq stuck'
      /\ Place(c) \in stuck' \/ ~pins'[Place(c)].enabled
      /\ \A p \in Pins : p # Place(c) => pins'[p] = pins[p]
      /\ \A p \in Pins : pins'[p].duty = pins[p].duty /\ pins'[p].period = pins[p].period
  <2>1. CASE pins' = [pins EXCEPT ![Place(c)].enabled = FALSE] /\ UNCHANGED <<stuck, trouble>>
    <3>1. [pins[Place(c)] EXCEPT !.enabled = FALSE] \in Outputs BY <1>1 DEF Outputs
    <3>2. pins'[Place(c)] = [pins[Place(c)] EXCEPT !.enabled = FALSE] BY <2>1, <1>1
    <3>3. \A p \in Pins : p # Place(c) => pins'[p] = pins[p] BY <2>1, <1>1
    <3>4. pins' \in [Pins -> Outputs] BY <2>1, <3>1, <1>1
    <3> QED BY <2>1, <3>2, <3>3, <3>4, <1>1 DEF BootInv, TypeOK, Outputs
  <2>2. CASE stuck' = stuck \cup {Place(c)} /\ trouble' = TRUE /\ UNCHANGED pins
    BY <2>2, <1>1 DEF BootInv, TypeOK
  <2> QED BY <2>1, <2>2
<1>3. TypeOK' BY <1>1, <1>2 DEF BootInv, TypeOK, InProgress, Writes
<1>4. DutyBelow' /\ OneOwner' BY <1>2 DEF BootInv, DutyBelow, OneOwner
<1>5. DoingKnown' /\ Halfway' BY <1>2 DEF DoingKnown, Halfway, Configuring
<1>6. OutputsKnown' /\ NothingWritten' /\ Complete' /\ NothingYet'
  BY DEF OutputsKnown, NothingWritten, Complete, NothingYet
<1>7. ClaimsHaveDrivers' /\ ClosedOnce' /\ EndedCleanly'
  BY DEF BootInv, ClaimsHaveDrivers, ClosedOnce, EndedCleanly
<1>8. NoneForgotten'
  <2> SUFFICES ASSUME NEW p \in mine \ stuck, p # Place(c), p \in Pins
               PROVE  \/ \E e \in claims : e.kind = "pwm" /\ Place(e) = p
                      \/ ~pins'[p].exported /\ ~pins'[p].enabled
    BY <1>2 DEF NoneForgotten, BootInv, TypeOK
  <2> QED BY <1>2 DEF BootInv, NoneForgotten, Idle, Configuring
<1> QED BY <1>3, <1>4, <1>5, <1>6, <1>7, <1>8 DEF BootInv

LEMMA CloseUnexportStep == ASSUME BootInv, CloseUnexport PROVE BootInv'
<1> DEFINE c == doing.chan
<1>1. /\ phase = "closing" /\ doing # Idle /\ claims' = claims \ {c} /\ doing' = Idle
      /\ \/ pins' = [pins EXCEPT ![Place(c)].exported = FALSE] /\ UNCHANGED <<stuck, trouble>>
         \/ stuck' = stuck \cup {Place(c)} /\ trouble' = TRUE /\ UNCHANGED pins
      /\ UNCHANGED <<broker, linked, subs, dep, code, phase, opened, todo,
                     had, closes, mine, wrote>>
  BY DEF CloseUnexport
<1>2. doing \in [chan : Channels, write : Writes] /\ doing.write = "unexport"
  BY <1>1 DEF BootInv, TypeOK, InProgress, DoingKnown, Writes, Configuring
<1>3. /\ c \in claims /\ c.kind = "pwm" /\ Place(c) \in Pins
      /\ Place(c) \in stuck \/ ~pins[Place(c)].enabled
      /\ pins \in [Pins -> Outputs]
  BY <1>2, ChannelFacts DEF BootInv, TypeOK, DoingKnown
<1>4. /\ pins' \in [Pins -> Outputs] /\ stuck' \subseteq Pins /\ trouble' \in BOOLEAN
      /\ stuck \subseteq stuck'
      /\ Place(c) \in stuck' \/ (~pins'[Place(c)].enabled /\ ~pins'[Place(c)].exported)
      /\ \A p \in Pins : p # Place(c) => pins'[p] = pins[p]
      /\ \A p \in Pins : pins'[p].duty = pins[p].duty /\ pins'[p].period = pins[p].period
  <2> HIDE DEF c
  <2>1. CASE pins' = [pins EXCEPT ![Place(c)].exported = FALSE] /\ UNCHANGED <<stuck, trouble>>
    <3>1. [pins[Place(c)] EXCEPT !.exported = FALSE] \in Outputs BY <1>3 DEF Outputs
    <3>2. pins'[Place(c)] = [pins[Place(c)] EXCEPT !.exported = FALSE] BY <2>1, <1>3
    <3>3. \A p \in Pins : p # Place(c) => pins'[p] = pins[p] BY <2>1, <1>3
    <3>4. pins' \in [Pins -> Outputs] BY <2>1, <3>1, <1>3
    <3> QED BY <2>1, <3>2, <3>3, <3>4, <1>3 DEF BootInv, TypeOK, Outputs
  <2>2. CASE stuck' = stuck \cup {Place(c)} /\ trouble' = TRUE /\ UNCHANGED pins
    BY <2>2, <1>3 DEF BootInv, TypeOK
  <2> QED BY <2>1, <2>2, <1>1
<1>5. TypeOK' BY <1>1, <1>4 DEF BootInv, TypeOK, InProgress
<1>6. DutyBelow' /\ OneOwner' BY <1>1, <1>4 DEF BootInv, DutyBelow, OneOwner
<1>7. DoingKnown' /\ Halfway' BY <1>1 DEF DoingKnown, Halfway, Idle, Configuring
<1>8. OutputsKnown' /\ NothingWritten' /\ Complete' /\ NothingYet'
  BY <1>1 DEF OutputsKnown, NothingWritten, Complete, NothingYet
<1>9. ClaimsHaveDrivers' /\ ClosedOnce' /\ EndedCleanly'
  BY <1>1 DEF BootInv, ClaimsHaveDrivers, ClosedOnce, EndedCleanly
<1>10. NoneForgotten'
  <2> SUFFICES ASSUME NEW p \in mine \ stuck, p # Place(c), p \in Pins
               PROVE  \/ \E e \in claims' : e.kind = "pwm" /\ Place(e) = p
                      \/ ~pins'[p].exported /\ ~pins'[p].enabled
    BY <1>1, <1>4 DEF NoneForgotten, BootInv, TypeOK
  <2>1. doing.write \notin Configuring BY <1>2 DEF Configuring
  <2> QED BY <1>1, <1>4, <2>1 DEF BootInv, NoneForgotten
<1> QED BY <1>5, <1>6, <1>7, <1>8, <1>9, <1>10 DEF BootInv

LEMMA CloseDriverStep == ASSUME BootInv, CloseDriver PROVE BootInv'
<1> PICK r \in Resources :
      /\ phase = "closing" /\ r \in opened /\ doing = Idle
      /\ FamilyOf[r] = "pwm" => \A c \in claims : c.ref # r
      /\ opened' = opened \ {r} /\ closes' = [closes EXCEPT ![r] = @ + 1]
      /\ claims' = {c \in claims : c.ref # r}
      /\ IF FamilyOf[r] = "mqtt" THEN linked' = FALSE /\ subs' = {} ELSE UNCHANGED <<linked, subs>>
      /\ UNCHANGED <<pins, broker, dep, code, phase, todo, doing, had, mine, stuck, wrote, trouble>>
  BY DEF CloseDriver, Closable
<1>1. TypeOK'
  <2>1. closes' \in [Resources -> Nat] BY DEF BootInv, TypeOK
  <2>2. linked' \in BOOLEAN /\ subs' \subseteq Topics BY DEF BootInv, TypeOK
  <2> QED BY <2>1, <2>2 DEF BootInv, TypeOK
<1>2. DutyBelow' /\ OneOwner' BY DEF BootInv, DutyBelow, OneOwner
<1>3. DoingKnown' /\ Halfway' BY DEF DoingKnown, Halfway, Idle, Configuring
<1>4. OutputsKnown' /\ NothingWritten' /\ Complete' /\ NothingYet'
  BY DEF OutputsKnown, NothingWritten, Complete, NothingYet
<1>5. ClaimsHaveDrivers' BY DEF BootInv, ClaimsHaveDrivers
<1>6. ClosedOnce'
  <2>1. closes \in [Resources -> Nat] /\ r \in had BY DEF BootInv, TypeOK
  <2>2. \A s \in Resources : closes[s] = IF s \in had /\ s \notin opened THEN 1 ELSE 0
    BY DEF BootInv, ClosedOnce
  <2>3. closes[r] = 0 /\ closes'[r] = 1 BY <2>1, <2>2
  <2> QED BY <2>1, <2>2, <2>3 DEF ClosedOnce
<1>7. NoneForgotten'
  <2> SUFFICES ASSUME NEW p \in mine \ stuck
               PROVE  \/ \E e \in claims' : e.kind = "pwm" /\ Place(e) = p
                      \/ ~pins[p].exported /\ ~pins[p].enabled
    BY DEF NoneForgotten
  <2>1. CASE ~pins[p].exported /\ ~pins[p].enabled BY <2>1
  <2>2. CASE \E e \in claims : e.kind = "pwm" /\ Place(e) = p
    <3> PICK e \in claims : e.kind = "pwm" /\ Place(e) = p BY <2>2
    <3>1. FamilyOf[e.ref] = "pwm" BY DEF BootInv, ClaimsHaveDrivers, FamilyFor
    <3> QED BY <3>1
  <2> QED BY <2>1, <2>2 DEF BootInv, NoneForgotten, Idle, Configuring
<1>8. EndedCleanly' BY DEF EndedCleanly
<1> QED BY <1>1, <1>2, <1>3, <1>4, <1>5, <1>6, <1>7, <1>8 DEF BootInv

\* main returns once every driver is closed: no claim is left, nothing is in
\* progress, so that no output of this process is forgotten.
LEMMA ReturnStep == ASSUME BootInv, Return PROVE BootInv'
<1> PICK c \in {"0", "1"} : Exit(c) BY DEF Return
<1>1. /\ phase = "closing" /\ opened = {} /\ trouble' \in BOOLEAN
      /\ UNCHANGED <<pins, opened, todo, claims, history, trouble>>
  BY DEF Return, BootInv, TypeOK
<1>2. claims = {} BY <1>1 DEF BootInv, ClaimsHaveDrivers
<1>3. doing.write \notin Configuring BY <1>1 DEF BootInv, DoingKnown
<1>4. EndedCleanly'
  BY <1>1, <1>2, <1>3 DEF BootInv, NoneForgotten, ClosedOnce, EndedCleanly, history
<1> QED BY <1>1, <1>4, ExitStep DEF Codes

-----------------------------------------------------------------------------
(* The invariant, and what follows from it *)

LEMMA InitInv == ASSUME Init PROVE BootInv
<1>1. TypeOK
  BY DEF Init, TypeOK, Off, Outputs, InProgress, Codes, Phases
<1>2. DutyBelow /\ OneOwner BY DEF Init, DutyBelow, OneOwner, Off
<1>3. DoingKnown /\ Halfway BY DEF Init, DoingKnown, Halfway, Idle, Configuring
<1>4. OutputsKnown /\ NothingWritten /\ Complete /\ ClaimsHaveDrivers
  BY DEF Init, OutputsKnown, NothingWritten, Complete, ClaimsHaveDrivers
<1>5. NothingYet /\ ClosedOnce /\ NoneForgotten /\ EndedCleanly
  BY DEF Init, NothingYet, ClosedOnce, NoneForgotten, EndedCleanly
<1> QED BY <1>1, <1>2, <1>3, <1>4, <1>5 DEF BootInv

LEMMA StepInv == ASSUME BootInv, [Next]_vars PROVE BootInv'
<1>0. /\ broker \in BOOLEAN /\ linked \in BOOLEAN /\ trouble \in BOOLEAN
      /\ subs \subseteq Topics /\ dep \in Deployments
  BY DEF BootInv, TypeOK
<1>1. CASE Start BY <1>0, <1>1, LaunchStep DEF Start
<1>2. CASE Redeploy BY <1>2, LaunchStep DEF Redeploy
<1>3. CASE Crash BY <1>3, FailStep DEF Crash
<1>4. CASE BootFail BY <1>4, FailStep DEF BootFail
<1>5. CASE OpenOne BY <1>5, OpenOneStep
<1>6. CASE OpenFails BY <1>6, OpenFailsStep
<1>7. CASE Resolve BY <1>7, ResolveStep
<1>8. CASE SetupLine BY <1>8, SetupLineStep
<1>9. CASE SetupRefused BY <1>9, RefuseStep DEF SetupRefused
<1>10. CASE SetupSubscription BY <1>10, SetupSubscriptionStep
<1>11. CASE SetupUnheard BY <1>11, SetupUnheardStep
<1>12. CASE ConfigureExport BY <1>12, ConfigureExportStep
<1>13. CASE ConfigureWrite BY <1>13, ConfigureWriteStep
<1>14. CASE BuildDone BY <1>14, BuildDoneStep
<1>15. CASE WriteAnalog BY <1>15, WriteAnalogStep
<1>16. CASE RunEnds BY <1>16, RunEndsStep
<1>17. CASE CloseDisable BY <1>17, CloseDisableStep
<1>18. CASE CloseUnexport BY <1>18, CloseUnexportStep
<1>19. CASE CloseDriver BY <1>19, CloseDriverStep
<1>20. CASE Return BY <1>20, ReturnStep
<1>21. CASE BrokerComes BY <1>0, <1>21, LinkStep DEF BrokerComes
<1>22. CASE BrokerGoes BY <1>0, <1>22, LinkStep DEF BrokerGoes, process, history
<1>23. CASE LinkLost BY <1>0, <1>23, LinkStep DEF LinkLost
<1>24. CASE Reconnect BY <1>0, <1>24, LinkStep DEF Reconnect
<1>25. CASE UNCHANGED vars BY <1>0, <1>25, LinkStep DEF vars, device
<1> QED BY <1>1, <1>2, <1>3, <1>4, <1>5, <1>6, <1>7, <1>8, <1>9, <1>10, <1>11, <1>12, <1>13,
           <1>14, <1>15, <1>16, <1>17, <1>18, <1>19, <1>20, <1>21, <1>22, <1>23, <1>24, <1>25
        DEF Next, Boot

LEMMA Invariance == Spec => []BootInv
BY InitInv, StepInv, PTL DEF Spec

\* The state of the device, of the process and of its history has its type
\* through every crash, restart and redeployment, and a process closes nothing
\* it did not open.
THEOREM BootTypeCorrect == Spec => []TypeOK
<1>1. BootInv => TypeOK BY DEF BootInv
<1> QED BY <1>1, Invariance, PTL

\* No order of crashes and of boots with other frequencies lets an exported
\* output have a duty above its period (linuxPWM.Configure, WriteAnalog).
THEOREM DutyNeverAbovePeriod == Spec => []DutyWithinPeriod
<1>1. BootInv => DutyWithinPeriod BY DEF BootInv, DutyBelow, DutyWithinPeriod
<1> QED BY <1>1, Invariance, PTL

\* A workflow that runs owns every place of its deployment, with every PWM
\* output as its channel asks, whatever an earlier process left there.
THEOREM RunsAsDeployed == Spec => []RunningAsDeployed
<1>1. BootInv => RunningAsDeployed
  BY DEF BootInv, Complete, OutputsKnown, AsSet, RunningAsDeployed
<1> QED BY <1>1, Invariance, PTL

\* A process that ends through CloseAll has closed each of its drivers once and
\* left none of its outputs on, for every order of resources and families.
THEOREM ClosesCleanly == Spec => []EndedCleanly
<1>1. BootInv => EndedCleanly BY DEF BootInv
<1> QED BY <1>1, Invariance, PTL

-----------------------------------------------------------------------------
(* Why a boot ends, and how outputs change                                  *)
(*                                                                          *)
(* The properties of this section speak of the cause of an exit and of      *)
(* single writes to an output. They need what BootInv does not say: that    *)
(* the connection is there unless something took it away, and that the      *)
(* driver's map holds only channels that are set up and not waiting.        *)

\* A boot that has opened its broker has the connection, unless something
\* other than a late broker happened.
LinkKept ==
  ~trouble /\ phase \in {"opening", "building", "running"} /\ (\E r \in opened : FamilyOf[r] = "mqtt")
    => linked

Disjoint == claims \cap todo = {}

\* What the driver knows of, or is busy with, this process has exported.
ClaimsAreMine ==
  phase # "down" =>
    /\ \A c \in claims : c.kind = "pwm" => Place(c) \in mine
    /\ doing # Idle => Place(doing.chan) \in mine

\* No claim, made or in the making, has a frequency without a period or a
\* topic that nobody listens to.
ClaimsHaveSettings ==
  /\ \A c \in claims : c.kind \in {"pwm", "mqtt"} => c.setting > 0
  /\ doing.write \in Configuring => doing.chan.setting > 0

ClaimInv == Disjoint /\ ClaimsAreMine /\ ClaimsHaveSettings

\* A channel that asks something of its driver.
Listened(c) == c.kind # "mqtt" \/ c.setting > 0

\* The exit code that stops the orchestrator (78) is deserved: the deployment
\* is at fault, or something other than a late broker has happened. In turn, a
\* deployment that is at fault never runs: a workflow runs only if its
\* references and families match, every frequency yields a period, and no two
\* channels that ask for something ask for the same place.
VerdictIsEarned ==
  /\ code = "78" /\ Sound(dep) => trouble
  /\ phase = "running" =>
       \A c, e \in dep.channels :
         /\ c.ref \in dep.resources /\ FamilyOf[c.ref] = FamilyFor(c.kind)
         /\ c.kind = "pwm" => c.setting > 0
         /\ Listened(c) /\ Listened(e) /\ Place(c) = Place(e) => c = e

Cause == code = "78" /\ Sound(dep) => trouble

\* Nothing is written to an output that this process has not exported, the
\* period of an exported output changes only while its duty is zero, and an
\* output is switched on only with a duty of zero (pwm_linux.go:72-90).
OutputsChangeSafely ==
  [][\A p \in Pins :
       /\ pins'[p] # pins[p] => p \in mine'
       /\ pins[p].exported /\ pins'[p].period # pins[p].period => pins[p].duty = 0
       /\ ~pins[p].enabled /\ pins'[p].enabled => pins'[p].duty = 0]_vars

\* A write in progress, while the channels are set up, is one of Configure's.
LEMMA InConfigure ==
  ASSUME BootInv, phase = "building", doing # Idle
  PROVE  /\ doing.write \in Configuring /\ doing.chan \in todo /\ doing.chan \in Channels
         /\ doing.chan.kind = "pwm" /\ ~Taken(doing.chan) /\ Place(doing.chan) \in Pins
<1>1. doing \in [chan : Channels, write : Writes] BY DEF BootInv, TypeOK, InProgress
<1>2. doing.write \in Configuring BY <1>1 DEF BootInv, DoingKnown, Writes, Configuring
<1> QED BY <1>1, <1>2, ChannelFacts DEF BootInv, DoingKnown

\* The claims of a process only shrink, and what is left is not touched.
LEMMA ClaimsShrink ==
  ASSUME ClaimInv, todo' \subseteq todo, claims' \subseteq claims, mine \subseteq mine',
         phase' # "down" => phase # "down",
         \/ doing' = Idle
         \/ doing' = doing
         \/ /\ doing'.chan \in claims /\ doing'.chan.kind = "pwm"
            /\ doing'.write \notin Configuring
            /\ phase # "down"
  PROVE  ClaimInv'
<1>1. Disjoint' BY DEF ClaimInv, Disjoint
<1>2. ClaimsAreMine' BY DEF ClaimInv, ClaimsAreMine
<1>3. ClaimsHaveSettings' BY DEF ClaimInv, ClaimsHaveSettings, Idle, Configuring
<1> QED BY <1>1, <1>2, <1>3 DEF ClaimInv

\* The driver takes a channel into its map.
LEMMA ClaimsGrow ==
  ASSUME ClaimInv, NEW c \in todo, Claimed(c), doing' = Idle, mine' = mine, phase # "down",
         c.kind = "pwm" => Place(c) \in mine,
         c.kind \in {"pwm", "mqtt"} => c.setting > 0
  PROVE  ClaimInv'
<1>1. claims' \subseteq claims \cup {c} /\ todo' = todo \ {c} BY DEF Claimed
<1>2. Disjoint' BY <1>1 DEF ClaimInv, Disjoint
<1>3. ClaimsAreMine' BY <1>1 DEF ClaimInv, ClaimsAreMine
<1>4. ClaimsHaveSettings' BY <1>1 DEF ClaimInv, ClaimsHaveSettings, Idle, Configuring
<1> QED BY <1>2, <1>3, <1>4 DEF ClaimInv

LEMMA ClaimStepInv == ASSUME BootInv, ClaimInv, [Next]_vars PROVE ClaimInv'
<1>1. ASSUME NEW d \in Deployments, Launch(d) PROVE ClaimInv'
  BY <1>1 DEF Launch, ClaimInv, Disjoint, ClaimsAreMine, ClaimsHaveSettings, Idle, Configuring
<1>2. ASSUME NEW c \in Codes, Exit(c), UNCHANGED <<todo, claims, mine>> PROVE ClaimInv'
  BY <1>2, ClaimsShrink DEF Exit
<1>3. ASSUME NEW fault \in BOOLEAN, Refuse(fault) PROVE ClaimInv'
  BY <1>2, <1>3 DEF Refuse, history, Codes
<1>4. CASE Start BY <1>1, <1>4 DEF Start, BootInv, TypeOK
<1>5. CASE Redeploy BY <1>1, <1>5 DEF Redeploy
<1>6. CASE Crash BY <1>2, <1>6 DEF Crash, history, Codes
<1>7. CASE BootFail BY <1>2, <1>7 DEF BootFail, history, Codes
<1>8. CASE OpenOne BY <1>8, ClaimsShrink DEF OpenOne
<1>9. CASE OpenFails
  <2>1. PICK r \in Resources : Exit(CodeFor(r)) /\ UNCHANGED <<todo, claims, mine>>
    BY <1>9 DEF OpenFails
  <2>2. CodeFor(r) \in Codes BY DEF CodeFor, Codes
  <2> QED BY <2>1, <2>2, <1>2
<1>10. CASE Resolve
  <2>1. claims = {} /\ doing = Idle BY <1>10 DEF Resolve, BootInv, NothingYet
  <2>2. CASE Exit("78") /\ UNCHANGED <<todo, claims>>
    BY <1>2, <1>10, <2>2 DEF Resolve, history, Codes
  <2>3. CASE UNCHANGED <<claims, doing>>
    BY <2>1, <2>3 DEF ClaimInv, Disjoint, ClaimsAreMine, ClaimsHaveSettings, Idle, Configuring
  <2> QED BY <1>10, <2>2, <2>3 DEF Resolve
<1>11. CASE SetupLine
  <2>1. PICK c \in Channels :
          /\ Settable(c, {"gpioin", "gpioout"})
          /\ \/ Claimed(c) /\ UNCHANGED <<doing, history>>
             \/ Refuse(TRUE)
    BY <1>11 DEF SetupLine
  <2> QED BY <2>1, <1>3, ClaimsGrow DEF Settable, history
<1>12. CASE SetupRefused BY <1>3, <1>12 DEF SetupRefused
<1>13. CASE SetupSubscription
  <2>1. PICK c \in Channels :
          /\ Settable(c, {"mqtt"}) /\ c.setting > 0
          /\ \/ Claimed(c) /\ UNCHANGED <<doing, history>>
             \/ Refuse(linked)
    BY <1>13 DEF SetupSubscription
  <2>2. linked \in BOOLEAN BY DEF BootInv, TypeOK
  <2> QED BY <2>1, <2>2, <1>3, ClaimsGrow DEF Settable, history
<1>14. CASE SetupUnheard BY <1>14, ClaimsShrink DEF SetupUnheard, history
<1>15. CASE ConfigureExport
  <2>1. PICK c \in Channels :
          /\ Settable(c, {"pwm"}) /\ c.setting > 0
          /\ \/ /\ mine' = mine \cup {Place(c)}
                /\ doing' = [chan |-> c, write |-> ConfigureOrder[1]]
                /\ UNCHANGED <<phase, todo, claims>>
             \/ Refuse(TRUE)
    BY <1>15 DEF ConfigureExport
  <2>2. CASE /\ mine' = mine \cup {Place(c)}
             /\ doing' = [chan |-> c, write |-> ConfigureOrder[1]]
             /\ UNCHANGED <<phase, todo, claims>>
    BY <2>1, <2>2 DEF Settable, ClaimInv, Disjoint, ClaimsAreMine, ClaimsHaveSettings
  <2> QED BY <2>1, <2>2, <1>3
<1>16. CASE ConfigureWrite
  <2> DEFINE c == doing.chan  next == WriteAfter(doing.write)
  <2>1. /\ phase = "building" /\ doing # Idle
        /\ \/ doing' = Idle /\ Claimed(c) /\ UNCHANGED history
           \/ doing' = [doing EXCEPT !.write = next] /\ UNCHANGED <<phase, todo, claims, history>>
           \/ Refuse(TRUE)
    BY <1>16 DEF ConfigureWrite
  <2>2. doing.write \in Configuring /\ c \in todo /\ c \in Channels /\ c.kind = "pwm"
    BY <2>1, InConfigure
  <2>3. c.setting > 0 /\ Place(c) \in mine
    BY <2>1, <2>2 DEF ClaimInv, ClaimsAreMine, ClaimsHaveSettings
  <2>4. CASE doing' = Idle /\ Claimed(c) /\ UNCHANGED history
    <3> HIDE DEF c
    <3> QED BY <2>1, <2>2, <2>3, <2>4, ClaimsGrow DEF history
  <2>5. CASE doing' = [doing EXCEPT !.write = next] /\ UNCHANGED <<phase, todo, claims, history>>
    <3>1. doing \in [chan : Channels, write : Writes] BY <2>1 DEF BootInv, TypeOK, InProgress
    <3>2. doing'.chan = c BY <3>1, <2>5
    <3> QED BY <2>1, <2>3, <2>5, <3>2
         DEF ClaimInv, Disjoint, ClaimsAreMine, ClaimsHaveSettings, history
  <2> QED BY <2>1, <2>4, <2>5, <1>3
<1>17. CASE BuildDone BY <1>17, ClaimsShrink DEF BuildDone, process, history
<1>18. CASE WriteAnalog BY <1>18, ClaimsShrink DEF WriteAnalog, process
<1>19. CASE RunEnds BY <1>19, ClaimsShrink DEF RunEnds, process, history
<1>20. CASE CloseDisable
  <2>1. PICK c \in claims :
          /\ phase = "closing" /\ c.kind = "pwm" /\ doing' = [chan |-> c, write |-> "unexport"]
          /\ UNCHANGED <<phase, todo, claims, mine>>
    BY <1>20 DEF CloseDisable, Closable
  <2>2. doing'.write \notin Configuring BY <2>1 DEF Configuring
  <2> QED BY <2>1, <2>2, ClaimsShrink
<1>21. CASE CloseUnexport BY <1>21, ClaimsShrink DEF CloseUnexport
<1>22. CASE CloseDriver BY <1>22, ClaimsShrink DEF CloseDriver
<1>23. CASE Return BY <1>2, <1>23 DEF Return, history, Codes
<1>24. CASE UNCHANGED <<phase, process, history>>
  BY <1>24, ClaimsShrink DEF process, history
<1> QED BY <1>4, <1>5, <1>6, <1>7, <1>8, <1>9, <1>10, <1>11, <1>12, <1>13, <1>14, <1>15, <1>16,
           <1>17, <1>18, <1>19, <1>20, <1>21, <1>22, <1>23, <1>24
        DEF Next, Boot, BrokerComes, BrokerGoes, LinkLost, Reconnect, vars

LEMMA LinkStepInv == ASSUME BootInv, LinkKept, [Next]_vars PROVE LinkKept'
<1>1. CASE Start \/ Redeploy BY <1>1 DEF Start, Redeploy, Launch, LinkKept
<1>2. CASE Crash \/ BootFail \/ OpenFails \/ SetupRefused \/ Return
  BY <1>2 DEF Crash, BootFail, OpenFails, SetupRefused, Return, Refuse, Exit, LinkKept
<1>3. CASE OpenOne
  <2> PICK r \in Resources :
        /\ opened' = opened \cup {r} /\ linked' = (linked \/ FamilyOf[r] = "mqtt")
        /\ UNCHANGED <<phase, trouble>>
    BY <1>3 DEF OpenOne
  <2>1. CASE FamilyOf[r] = "mqtt" BY <2>1 DEF LinkKept
  <2>2. CASE FamilyOf[r] # "mqtt" BY <2>2 DEF LinkKept
  <2> QED BY <2>1, <2>2
<1>4. CASE Resolve BY <1>4 DEF Resolve, Openable, Exit, device, LinkKept
<1>5. CASE SetupLine
  BY <1>5 DEF SetupLine, Settable, Refuse, Exit, device, history, LinkKept
<1>6. CASE SetupSubscription
  BY <1>6 DEF SetupSubscription, Settable, Refuse, Exit, history, LinkKept
<1>7. CASE SetupUnheard BY <1>7 DEF SetupUnheard, device, LinkKept
<1>8. CASE ConfigureExport
  BY <1>8 DEF ConfigureExport, Settable, Refuse, Exit, history, LinkKept
<1>9. CASE ConfigureWrite BY <1>9 DEF ConfigureWrite, Refuse, Exit, history, LinkKept
<1>10. CASE BuildDone BY <1>10 DEF BuildDone, device, process, LinkKept
<1>11. CASE WriteAnalog BY <1>11 DEF WriteAnalog, process, LinkKept
<1>12. CASE RunEnds BY <1>12 DEF RunEnds, LinkKept
<1>13. CASE CloseDisable \/ CloseUnexport \/ CloseDriver
  BY <1>13 DEF CloseDisable, CloseUnexport, CloseDriver, Closable, LinkKept
<1>14. CASE BrokerComes \/ BrokerGoes \/ LinkLost \/ Reconnect
  BY <1>14 DEF BrokerComes, BrokerGoes, LinkLost, Reconnect, process, LinkKept
<1>15. CASE UNCHANGED vars BY <1>15 DEF vars, device, process, LinkKept
<1> QED BY <1>1, <1>2, <1>3, <1>4, <1>5, <1>6, <1>7, <1>8, <1>9, <1>10, <1>11, <1>12, <1>13,
           <1>14, <1>15 DEF Next, Boot

\* Two channels of a sound deployment are never in each other's way.
LEMMA SoundIsFree ==
  ASSUME BootInv, Disjoint, phase = "building", NEW c \in todo, Sound(dep)
  PROVE  ~Taken(c) /\ (c.kind = "pwm" => c.setting > 0)
<1>1. todo \subseteq dep.channels /\ claims \subseteq dep.channels BY DEF BootInv, TypeOK
<1>2. ASSUME Taken(c) PROVE FALSE
  <2> PICK d \in claims : Place(d) = Place(c) BY <1>2 DEF Taken
  <2>1. d = c BY <1>1 DEF Sound
  <2> QED BY <2>1 DEF Disjoint
<1> QED BY <1>1, <1>2 DEF Sound

LEMMA CauseStep ==
  ASSUME BootInv, Disjoint, LinkKept, Cause, [Next]_vars
  PROVE  Cause'
<1>1. CASE UNCHANGED <<dep, code>> /\ (trouble => trouble') BY <1>1 DEF Cause, Sound
<1>2. CASE trouble' BY <1>2 DEF Cause
<1>3. CASE code' # "78" BY <1>3 DEF Cause
<1>4. ASSUME NEW fault \in BOOLEAN, Refuse(fault), fault \/ trouble PROVE Cause'
  BY <1>2, <1>4 DEF Refuse
<1>22. ASSUME UNCHANGED dep, ~Sound(dep) PROVE Cause'
  BY <1>22 DEF Cause, Sound
<1>5. CASE Start BY <1>1, <1>5 DEF Start, Launch
<1>6. CASE Redeploy \/ Crash \/ BootFail BY <1>2, <1>6 DEF Redeploy, Crash, BootFail
<1>7. CASE OpenOne BY <1>1, <1>7 DEF OpenOne
<1>8. CASE OpenFails
  <2> PICK r \in Resources :
        Exit(CodeFor(r)) /\ trouble' = (trouble \/ FamilyOf[r] # "mqtt" \/ broker)
    BY <1>8 DEF OpenFails
  <2>1. CASE FamilyOf[r] = "mqtt" BY <1>3, <2>1 DEF Exit, CodeFor
  <2>2. CASE FamilyOf[r] # "mqtt" BY <1>2, <2>2
  <2> QED BY <2>1, <2>2
<1>9. CASE Resolve
  <2>1. CASE UNCHANGED <<dep, code>> BY <1>1, <1>9, <2>1 DEF Resolve
  <2>2. CASE /\ opened = dep.resources
             /\ ~\A c \in dep.channels : c.ref \in opened /\ FamilyOf[c.ref] = FamilyFor(c.kind)
             /\ Exit("78")
    BY <1>22, <2>2 DEF Sound, Exit
  <2> QED BY <1>9, <2>1, <2>2 DEF Resolve
<1>10. CASE SetupLine
  <2>1. UNCHANGED <<dep, code, trouble>> \/ Refuse(TRUE) BY <1>10 DEF SetupLine
  <2> QED BY <1>1, <1>4, <2>1
<1>11. CASE SetupRefused
  <2>1. PICK c \in Channels :
          /\ Settable(c, Kinds)
          /\ \/ c.kind = "pwm" /\ c.setting = 0
             \/ Taken(c) /\ (c.kind = "mqtt" => c.setting > 0)
          /\ UNCHANGED dep
    BY <1>11 DEF SetupRefused, Refuse, Exit
  <2>2. phase = "building" /\ c \in todo BY <2>1 DEF Settable
  <2>3. ~Sound(dep) BY <2>1, <2>2, SoundIsFree
  <2> QED BY <2>1, <2>3, <1>22
<1>12. CASE SetupSubscription
  <2>1. PICK c \in Channels :
          /\ Settable(c, {"mqtt"})
          /\ \/ UNCHANGED <<dep, code, trouble>>
             \/ Refuse(linked)
    BY <1>12 DEF SetupSubscription
  <2>2. /\ phase = "building" /\ c.kind = "mqtt" /\ c \in dep.channels
    BY <2>1 DEF Settable, BootInv, TypeOK
  <2>3. c.ref \in opened /\ FamilyOf[c.ref] = "mqtt"
    BY <2>2 DEF BootInv, ClaimsHaveDrivers, FamilyFor
  <2>4. trouble \/ linked BY <2>2, <2>3 DEF LinkKept
  <2>5. linked \in BOOLEAN BY DEF BootInv, TypeOK
  <2> QED BY <1>1, <1>4, <2>1, <2>4, <2>5
<1>13. CASE SetupUnheard BY <1>1, <1>13 DEF SetupUnheard
<1>14. CASE ConfigureExport
  <2>1. UNCHANGED <<dep, code, trouble>> \/ Refuse(TRUE) BY <1>14 DEF ConfigureExport
  <2> QED BY <1>1, <1>4, <2>1
<1>15. CASE ConfigureWrite
  <2>1. UNCHANGED <<dep, code, trouble>> \/ Refuse(TRUE) BY <1>15 DEF ConfigureWrite
  <2> QED BY <1>1, <1>4, <2>1
<1>16. CASE BuildDone \/ WriteAnalog \/ RunEnds BY <1>1, <1>16 DEF BuildDone, WriteAnalog, RunEnds
<1>17. CASE CloseDisable \/ CloseUnexport \/ CloseDriver
  BY <1>1, <1>2, <1>17 DEF CloseDisable, CloseUnexport, CloseDriver
<1>18. CASE Return BY <1>3, <1>18 DEF Return, Exit
<1>19. CASE BrokerComes \/ BrokerGoes \/ LinkLost \/ Reconnect
  BY <1>1, <1>2, <1>19 DEF BrokerComes, BrokerGoes, LinkLost, Reconnect
<1>20. CASE UNCHANGED vars BY <1>1, <1>20 DEF vars
<1> QED BY <1>5, <1>6, <1>7, <1>8, <1>9, <1>10, <1>11, <1>12, <1>13, <1>14, <1>15, <1>16, <1>17,
           <1>18, <1>19, <1>20 DEF Next, Boot

VerdictInv == BootInv /\ ClaimInv /\ LinkKept /\ Cause

LEMMA VerdictInvariance == Spec => []VerdictInv
<1>1. Init => VerdictInv
  <2> SUFFICES ASSUME Init PROVE VerdictInv OBVIOUS
  <2>1. BootInv BY InitInv
  <2>2. ClaimInv
    BY DEF Init, ClaimInv, Disjoint, ClaimsAreMine, ClaimsHaveSettings, Idle, Configuring
  <2>3. LinkKept /\ Cause BY DEF Init, LinkKept, Cause
  <2> QED BY <2>1, <2>2, <2>3 DEF VerdictInv
<1>2. VerdictInv /\ [Next]_vars => VerdictInv'
  <2> SUFFICES ASSUME VerdictInv, [Next]_vars PROVE VerdictInv' OBVIOUS
  <2>1. BootInv' BY StepInv DEF VerdictInv
  <2>2. ClaimInv' BY ClaimStepInv DEF VerdictInv
  <2>3. LinkKept' BY LinkStepInv DEF VerdictInv
  <2>4. Cause' BY CauseStep DEF VerdictInv, ClaimInv
  <2> QED BY <2>1, <2>2, <2>3, <2>4 DEF VerdictInv
<1> QED BY <1>1, <1>2, PTL DEF Spec

LEMMA RunsOnlySound ==
  ASSUME BootInv, ClaimInv, phase = "running", NEW c \in dep.channels, NEW e \in dep.channels
  PROVE  /\ c.ref \in dep.resources /\ FamilyOf[c.ref] = FamilyFor(c.kind)
         /\ c.kind = "pwm" => c.setting > 0
         /\ Listened(c) /\ Listened(e) /\ Place(c) = Place(e) => c = e
<1>1. /\ c \in claims \/ (c.kind = "mqtt" /\ c.setting = 0)
      /\ e \in claims \/ (e.kind = "mqtt" /\ e.setting = 0)
  BY DEF BootInv, Complete
<1>2. c.ref \in dep.resources /\ FamilyOf[c.ref] = FamilyFor(c.kind)
  BY DEF BootInv, ClaimsHaveDrivers, TypeOK
<1>3. c.kind = "pwm" => c.setting > 0 BY <1>1 DEF ClaimInv, ClaimsHaveSettings
<1>4. Listened(c) => c \in claims BY <1>1 DEF Listened
<1>5. Listened(e) => e \in claims BY <1>1 DEF Listened
<1> QED BY <1>2, <1>3, <1>4, <1>5 DEF BootInv, OneOwner

\* The engine gives a deployment up for good only for a reason, however late
\* the broker comes and however often it was restarted, and it runs no
\* deployment in which two channels would share a pin, a line or a topic
\* (main.go CodeFor, registry claimLine, Configure, Subscribe).
THEOREM VerdictEarned == Spec => []VerdictIsEarned
<1>1. VerdictInv => VerdictIsEarned
  BY RunsOnlySound DEF VerdictInv, Cause, VerdictIsEarned
<1> QED BY <1>1, VerdictInvariance, PTL

-----------------------------------------------------------------------------
(* Single writes to an output *)

OutputStep ==
  \A p \in Pins :
    /\ pins'[p] # pins[p] => p \in mine'
    /\ pins[p].exported /\ pins'[p].period # pins[p].period => pins[p].duty = 0
    /\ ~pins[p].enabled /\ pins'[p].enabled => pins'[p].duty = 0

\* An action that changes one output.
LEMMA OneOutput ==
  ASSUME pins \in [Pins -> Outputs], NEW q \in Pins, q \in mine', NEW new \in Outputs,
         pins' = [pins EXCEPT ![q] = new],
         pins[q].exported /\ new.period # pins[q].period => pins[q].duty = 0,
         ~pins[q].enabled /\ new.enabled => new.duty = 0
  PROVE  OutputStep
<1>1. pins'[q] = new OBVIOUS
<1>2. \A p \in Pins : p # q => pins'[p] = pins[p] OBVIOUS
<1> QED BY <1>1, <1>2 DEF OutputStep

LEMMA NoOutput == ASSUME UNCHANGED pins PROVE OutputStep
BY DEF OutputStep

LEMMA OutputsStepSafely ==
  ASSUME BootInv, ClaimInv, [Next]_vars
  PROVE  OutputStep
<1>0. pins \in [Pins -> Outputs] BY DEF BootInv, TypeOK
<1>1. CASE UNCHANGED pins BY <1>1, NoOutput
<1>2. CASE ConfigureExport
  <2>1. PICK c \in Channels :
          /\ Settable(c, {"pwm"}) /\ c.setting > 0 /\ ~Taken(c)
          /\ \/ /\ \E pin \in Exported(pins[Place(c)]) : pins' = [pins EXCEPT ![Place(c)] = pin]
                /\ mine' = mine \cup {Place(c)}
             \/ Refuse(TRUE)
    BY <1>2 DEF ConfigureExport
  <2>2. CASE Refuse(TRUE) BY <1>1, <2>2 DEF Refuse
  <2>3. ASSUME NEW pin \in Exported(pins[Place(c)]), pins' = [pins EXCEPT ![Place(c)] = pin],
               mine' = mine \cup {Place(c)}
        PROVE  OutputStep
    <3> DEFINE q == Place(c)
    <3>1. q \in Pins BY <2>1, ChannelFacts DEF Settable
    <3>2. pins[q] \in Outputs BY <1>0, <3>1
    <3>3. pin \in Outputs /\ (pin.enabled => pins[q].enabled) /\ (pins[q].exported => pin = pins[q])
      <4> DEFINE old == pins[q]
      <4> SUFFICES pin \in Outputs /\ (pin.enabled => old.enabled) /\ (old.exported => pin = old)
        OBVIOUS
      <4> HIDE DEF old
      <4>1. old \in Outputs BY <3>2 DEF old
      <4>2. CASE old.exported /\ pin = old BY <4>1, <4>2
      <4>3. CASE ~old.exported /\ pin = [old EXCEPT !.exported = TRUE]
        BY <4>1, <4>3 DEF Outputs
      <4>4. CASE ~old.exported /\ pin = [Off EXCEPT !.exported = TRUE]
        BY <4>1, <4>4 DEF Outputs, Off
      <4>5. pin \in Exported(old) BY <2>3 DEF old
      <4> QED BY <4>2, <4>3, <4>4, <4>5 DEF Exported
    <3> HIDE DEF q
    <3>4. q \in mine' /\ pins' = [pins EXCEPT ![q] = pin] BY <2>3 DEF q
    <3> QED BY <1>0, <3>1, <3>3, <3>4, OneOutput
  <2> QED BY <2>1, <2>2, <2>3
<1>3. CASE ConfigureWrite
  <2> DEFINE c == doing.chan  q == Place(c)  w == doing.write
             new == Configured(pins[q], c, w)
  <2>1. /\ phase = "building" /\ doing # Idle
        /\ \/ pins' = [pins EXCEPT ![q] = new] /\ UNCHANGED history
           \/ Refuse(TRUE)
    BY <1>3 DEF ConfigureWrite
  <2>2. CASE Refuse(TRUE) BY <1>1, <2>2 DEF Refuse
  <2>3. CASE pins' = [pins EXCEPT ![q] = new] /\ UNCHANGED history
    <3>1. w \in Configuring /\ c \in Channels /\ c.kind = "pwm" /\ q \in Pins
      BY <2>1, InConfigure
    <3>2. c.setting \in Periods BY <3>1, ChannelFacts
    <3>3. q \in mine' BY <2>1, <2>3 DEF ClaimInv, ClaimsAreMine, history
    <3>4. pins[q] \in Outputs BY <1>0, <3>1
    <3>5. w \in {"period", "enable"} => pins[q].duty = 0 BY DEF BootInv, Halfway
    <3>6. /\ new \in Outputs
          /\ new.period # pins[q].period => pins[q].duty = 0
          /\ ~pins[q].enabled /\ new.enabled => new.duty = 0
      <4> HIDE DEF c, q, w
      <4>1. CASE w = "duty" BY <4>1, <3>4 DEF Configured, Outputs
      <4>2. CASE w = "period" BY <4>2, <3>2, <3>4, <3>5 DEF Configured, Outputs
      <4>3. CASE w = "enable" BY <4>3, <3>4, <3>5 DEF Configured, Outputs
      <4> QED BY <3>1, <4>1, <4>2, <4>3 DEF Configuring
    <3> HIDE DEF new, q
    <3> QED BY <1>0, <2>3, <3>1, <3>3, <3>6, OneOutput
  <2> QED BY <2>1, <2>2, <2>3
<1>4. CASE WriteAnalog
  <2> PICK c \in claims, l \in Levels :
        /\ phase = "running" /\ c.kind = "pwm" /\ UNCHANGED mine
        /\ pins' = [pins EXCEPT ![Place(c)].duty = (Clamp(l) * c.setting) \div 100]
    BY <1>4 DEF WriteAnalog
  <2> DEFINE q == Place(c)  duty == (Clamp(l) * c.setting) \div 100
             new == [pins[q] EXCEPT !.duty = duty]
  <2>1. c \in Channels /\ c.setting \in Nat /\ q \in Pins /\ l \in Int
    BY ChannelFacts, DeploymentAssumption DEF BootInv, TypeOK
  <2>2. duty \in Nat BY <2>1, DutyOfLevel
  <2>3. q \in mine' BY DEF ClaimInv, ClaimsAreMine
  <2>4. pins[q] \in Outputs /\ pins[q] = AsSet(c) BY <1>0, <2>1 DEF BootInv, OutputsKnown
  <2> HIDE DEF duty
  <2>5. pins' = [pins EXCEPT ![q] = new] BY <1>0 DEF duty
  <2>6. new \in Outputs /\ new.period = pins[q].period /\ pins[q].enabled
    <3>1. pins[q].enabled BY <2>4 DEF AsSet
    <3> QED BY <2>2, <2>4, <3>1 DEF Outputs
  <2> HIDE DEF new, q
  <2> QED BY <1>0, <2>1, <2>3, <2>5, <2>6, OneOutput
<1>5. CASE CloseDisable
  <2> PICK c \in claims :
        /\ phase = "closing" /\ c.kind = "pwm" /\ UNCHANGED mine
        /\ pins' = [pins EXCEPT ![Place(c)].enabled = FALSE] \/ UNCHANGED pins
    BY <1>5 DEF CloseDisable, Closable
  <2> DEFINE q == Place(c)  new == [pins[q] EXCEPT !.enabled = FALSE]
  <2>1. q \in Pins BY ChannelFacts DEF BootInv, TypeOK
  <2>2. q \in mine' BY DEF ClaimInv, ClaimsAreMine
  <2>3. pins[q] \in Outputs BY <1>0, <2>1
  <2>4. new \in Outputs /\ new.period = pins[q].period /\ ~new.enabled BY <2>3 DEF Outputs
  <2>5. pins' = [pins EXCEPT ![q] = new] \/ UNCHANGED pins BY <1>0
  <2> HIDE DEF new, q
  <2> QED BY <1>0, <1>1, <2>1, <2>2, <2>4, <2>5, OneOutput
<1>6. CASE CloseUnexport
  <2> DEFINE q == Place(doing.chan)  new == [pins[q] EXCEPT !.exported = FALSE]
  <2>1. /\ phase = "closing" /\ doing # Idle /\ UNCHANGED mine
        /\ pins' = [pins EXCEPT ![q].exported = FALSE] \/ UNCHANGED pins
    BY <1>6 DEF CloseUnexport
  <2>2. q \in mine /\ q \in mine' /\ q \in Pins
    BY <2>1 DEF ClaimInv, ClaimsAreMine, BootInv, TypeOK
  <2>3. pins[q] \in Outputs BY <1>0, <2>2
  <2>4. new \in Outputs /\ new.period = pins[q].period /\ (new.enabled <=> pins[q].enabled)
    BY <2>3 DEF Outputs
  <2>5. pins' = [pins EXCEPT ![q] = new] \/ UNCHANGED pins BY <1>0, <2>1
  <2> HIDE DEF new, q
  <2> QED BY <1>0, <1>1, <2>2, <2>4, <2>5, OneOutput
<1>7. CASE Start \/ Redeploy BY <1>1, <1>7 DEF Start, Redeploy, Launch, device
<1>8. CASE Crash \/ BootFail \/ OpenOne \/ OpenFails \/ SetupRefused \/ Return
  BY <1>1, <1>8 DEF Crash, BootFail, OpenOne, OpenFails, SetupRefused, Refuse, Return
<1>9. CASE Resolve \/ SetupLine \/ SetupSubscription \/ SetupUnheard \/ BuildDone
  BY <1>1, <1>9
     DEF Resolve, SetupLine, SetupSubscription, SetupUnheard, BuildDone, Refuse, device
<1>10. CASE RunEnds \/ CloseDriver BY <1>1, <1>10 DEF RunEnds, CloseDriver, device
<1>11. CASE BrokerComes \/ BrokerGoes \/ LinkLost \/ Reconnect \/ UNCHANGED vars
  BY <1>1, <1>11 DEF BrokerComes, BrokerGoes, LinkLost, Reconnect, vars, device
<1> QED BY <1>2, <1>3, <1>4, <1>5, <1>6, <1>7, <1>8, <1>9, <1>10, <1>11 DEF Next, Boot

\* Between any two writes of Configure, WriteAnalog and Close, and whatever an
\* earlier process left on the output, no write can make it jump: the order
\* duty, period, enable is kept and only the owner writes (pwm_linux.go:72-151).
THEOREM OutputsAreSafe == Spec => OutputsChangeSafely
<1>1. VerdictInv /\ [Next]_vars => OutputStep BY OutputsStepSafely DEF VerdictInv
<1>2. OutputStep => [OutputStep]_vars OBVIOUS
<1>3. VerdictInv /\ [Next]_vars => [OutputStep]_vars BY <1>1, <1>2
<1>4. Spec => [][OutputStep]_vars BY <1>3, VerdictInvariance, PTL DEF Spec
<1> QED BY <1>4 DEF OutputsChangeSafely, OutputStep

=============================================================================
