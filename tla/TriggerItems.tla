---------------------------- MODULE TriggerItems ----------------------------
(***************************************************************************)
(* Which items make a trigger of go/engine/node/trigger fire, the choice   *)
(* that EngineRunner leaves open: the edge filter of OnPinEdge, the        *)
(* hysteresis of OnThreshold, and the times at which an Alarm rings.       *)
(* These are functions without a state of their own, compared here with a  *)
(* reference definition over small inputs.                                 *)
(***************************************************************************)
LOCAL INSTANCE Integers
LOCAL INSTANCE Sequences
LOCAL INSTANCE FiniteSetsExt

Directions == {"rising", "falling", "both"}

\* OnPinEdge.matches, and the switch at the end of OnThreshold.analyze.
Matches(direction, rising) ==
  CASE direction = "rising" -> rising
    [] direction = "falling" -> ~rising
    [] direction = "both" -> TRUE

-----------------------------------------------------------------------------
(* OnThreshold, as a function of the updates s that its channel accepted *)

\* wasAbove after the first i values of s, with the threshold at 0.
Above(s, deadband) ==
  LET above[i \in 1 .. Len(s)] ==
        IF i = 1 THEN s[1] > 0
        ELSE IF above[i - 1] THEN s[i] > -deadband ELSE s[i] > deadband
  IN  above

\* The values at which the trigger fires; the first one only seeds.
Crossings(s, deadband, direction) ==
  LET above == Above(s, deadband)
  IN  {i \in 2 .. Len(s) : above[i] # above[i - 1] /\ Matches(direction, above[i])}

\* A value outside the band decides the side, and so does the first one; a
\* value inside leaves it.
Side(s, i, deadband) ==
  s[Max({1} \cup {j \in 2 .. i : s[j] > deadband \/ s[j] <= -deadband})] > 0

\* s without its k-th value, which found the channel full.
Without(s, k) == SubSeq(s, 1, k - 1) \o SubSeq(s, k + 1, Len(s))

MaxUpdates == 4
Updates == UNION {[1 .. n -> -3 .. 3] : n \in 1 .. MaxUpdates}

\* The trigger fires when the side changes, in its direction, and only then,
\* with the band's borders where threshold.go:121-123 puts them.
ASSUME CrossingsAreChangesOfSide ==
  \A s \in Updates, deadband \in 0 .. 2, direction \in Directions :
    Crossings(s, deadband, direction) =
      {i \in 2 .. Len(s) :
         Side(s, i, deadband) # Side(s, i - 1, deadband)
         /\ Matches(direction, Side(s, i, deadband))}

\* Updates dropped at a full channel, never the first, may hide crossings but
\* never add one. (A dropped first value could: what follows would seed.)
ASSUME DroppedUpdatesAddNoCrossing ==
  \A s \in Updates, deadband \in 0 .. 2, direction \in Directions :
    \A k \in 2 .. Len(s) :
      Cardinality(Crossings(Without(s, k), deadband, direction))
        <= Cardinality(Crossings(s, deadband, direction))

\* A negative dead band, which no schema excludes, fires without end on a
\* constant signal.
ASSUME NegativeDeadbandChatters == Crossings(<<1, 1, 1, 1>>, -2, "both") = 2 .. 4

-----------------------------------------------------------------------------
(* Alarm: times are whole hours; a zone is z ahead of UTC before the hour  *)
(* `at` of UTC and z + shift after it.                                     *)

DayLength == 6
Week == 2          \* days, enough for a restriction to weekdays
Offset(zone, u) == IF u < zone.at THEN zone.z ELSE zone.z + zone.shift
Local(zone, u) == u + Offset(zone, u)
DayOf(zone, u) == Local(zone, u) \div DayLength
HourOf(zone, u) == Local(zone, u) % DayLength

\* time.Date: the offset at the local time taken as UTC is tried first.
Date(zone, day, hour) ==
  LET local == day * DayLength + hour
      guess == local - Offset(zone, local)
  IN  IF Offset(zone, guess) = Offset(zone, local) THEN guess ELSE local - Offset(zone, guess)

\* candidate.AddDate(0, 0, 1)
DayAfter(zone, u) == Date(zone, DayOf(zone, u) + 1, HourOf(zone, u))

\* now + nextDelay(now), for an alarm at `hour` on `days`; {} is every day.
NextRing(zone, hour, days, now) ==
  LET today == Date(zone, DayOf(zone, now), hour)
      first == IF today > now THEN today ELSE DayAfter(zone, today)
      roll[i \in 0 .. Week] ==
        IF i = 0 THEN first
        ELSE IF days # {} /\ DayOf(zone, roll[i - 1]) % Week \notin days
             THEN DayAfter(zone, roll[i - 1]) ELSE roll[i - 1]
  IN  roll[Week]

\* The first n rings of an alarm that is set up at `start`.
Rings(zone, hour, days, start, n) ==
  LET ring[i \in 1 .. n] ==
        NextRing(zone, hour, days, IF i = 1 THEN start ELSE ring[i - 1])
  IN  ring

\* The clocks change on one of the days 1 to 3. Put forward, they skip an hour.
Zones == [z : -4 .. 4, at : 12 .. 17, shift : {-1, 0, 1}]
Skipped(zone, hour) ==
  zone.shift = 1 /\ HourOf(zone, zone.at - 1) = (hour - 1) % DayLength

\* An alarm whose hour no change of the clocks skips rings first at its next
\* hour, and then at this hour on every day that it is set for, once.
ASSUME AlarmRingsDaily ==
  \A zone \in Zones, hour \in 0 .. DayLength - 1 :
   \A days \in SUBSET (0 .. Week - 1), start \in {0, 3} :
    LET rings == Rings(zone, hour, days, start, 4)
        On(day) == days = {} \/ day % Week \in days
        Due(u) == HourOf(zone, u) = hour /\ On(DayOf(zone, u))
        NextDay(i) == DayOf(zone, rings[i]) + 1
    IN  Skipped(zone, hour) \/
          /\ \A i \in 1 .. 4 : Due(rings[i])
          /\ \A u \in start + 1 .. rings[1] : Due(u) => DayOf(zone, u) = DayOf(zone, rings[1])
          /\ \A i \in 1 .. 3 :
               DayOf(zone, rings[i + 1]) = IF On(NextDay(i)) THEN NextDay(i) ELSE NextDay(i) + 1

\* A skipped hour upsets the alarm: date.AddDate starts from the shifted time,
\* so that the next ring is an hour off too, and west of Greenwich, where the
\* shifted time is earlier, the alarm rings twice on the day of the change.
ASSUME SkippedHourUpsetsAlarm ==
  /\ \E zone \in Zones, hour \in 1 .. DayLength - 1 :
       LET rings == Rings(zone, hour, {0}, 0, 4)
       IN  /\ Skipped(zone, hour)
           /\ \E i \in 1 .. 4 : DayOf(zone, rings[i]) > 3 /\ HourOf(zone, rings[i]) # hour
  /\ \E zone \in Zones, hour \in 1 .. DayLength - 1 :
       LET rings == Rings(zone, hour, {}, 0, 4)
       IN  /\ Skipped(zone, hour)
           /\ \E i \in 1 .. 3 : DayOf(zone, rings[i]) = DayOf(zone, rings[i + 1])

=============================================================================
