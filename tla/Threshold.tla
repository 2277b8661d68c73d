----------------------------- MODULE Threshold -----------------------------
(***************************************************************************)
(* OnThreshold.analyze of go/engine/node/trigger/threshold.go as a machine *)
(* that runs for ever, on any numbers: what TriggerItems compares with a   *)
(* reference over short lists of small numbers is proved here. Numbers     *)
(* are integers, as if floats were counted in units of their last place.   *)
(*                                                                         *)
(* The trigger gets its updates through a channel that drops what does not *)
(* fit. A second machine, which exists in no process, analyses every       *)
(* update, so that one can say what the dropped ones cost.                 *)
(***************************************************************************)
EXTENDS Integers, TLAPS

CONSTANTS
  Limit,      \* t.threshold
  Deadband,   \* t.deadband
  Direction   \* t.direction

\* A dead band is a width. The schema does not exclude a negative one, with which
\* none of this holds (TriggerItems, NegativeDeadbandChatters).
BandIsAWidth == Limit \in Int /\ Deadband \in Nat

VARIABLES
  trigger,    \* the trigger's side, and the crossings it has seen each way
  complete,   \* the same for one that is sent every update
  decisive    \* history: the value that put the trigger on its side

vars == <<trigger, complete, decisive>>

Machine == [seeded : BOOLEAN, wasAbove : BOOLEAN, rises : Nat, falls : Nat]

Start == [seeded |-> FALSE, wasAbove |-> FALSE, rises |-> 0, falls |-> 0]

Init == trigger = Start /\ complete = Start /\ decisive = 0

NowAbove(m, x) == IF m.wasAbove THEN x > Limit - Deadband ELSE x > Limit + Deadband

\* The first value only seeds. Later ones cross when they pass the far border of
\* the band.
Analyze(m, x) ==
  CASE ~m.seeded -> [m EXCEPT !.seeded = TRUE, !.wasAbove = x > Limit]
    [] m.seeded /\ ~m.wasAbove /\ NowAbove(m, x) ->
         [m EXCEPT !.wasAbove = TRUE, !.rises = m.rises + 1]
    [] m.seeded /\ m.wasAbove /\ ~NowAbove(m, x) ->
         [m EXCEPT !.wasAbove = FALSE, !.falls = m.falls + 1]
    [] OTHER -> m

\* Events emitted: the crossings in the trigger's direction.
Fired(m) ==
  CASE Direction = "rising" -> m.rises
    [] Direction = "falling" -> m.falls
    [] OTHER -> m.rises + m.falls

InBand(x) == Limit - Deadband < x /\ x <= Limit + Deadband

\* The watched variable is set to x. The first update finds the channel empty;
\* later ones may find it full.
Update(x, kept) ==
  /\ ~trigger.seeded => kept
  /\ trigger' = IF kept THEN Analyze(trigger, x) ELSE trigger
  /\ complete' = Analyze(complete, x)
  /\ decisive' = IF kept /\ (~trigger.seeded \/ ~InBand(x)) THEN x ELSE decisive

Next == \E x \in Int, kept \in BOOLEAN : Update(x, kept)

Spec == Init /\ [][Next]_vars

-----------------------------------------------------------------------------

\* The trigger is on the side of the last value it got from outside the band, or
\* of the first: whatever happens inside the band is forgotten.
SideIsDecided ==
  trigger.seeded =>
    (trigger.wasAbove <=> decisive > Limit) /\ decisive \in Int

\* Updates dropped at the full channel may hide crossings and let others come
\* late, but however many are dropped and when, they never add an event, in
\* either direction.
DroppedUpdatesAddNoEvent == Fired(trigger) <= Fired(complete)

\* Rises and falls take turns.
CrossingsAlternate ==
  trigger.rises <= trigger.falls + 1 /\ trigger.falls <= trigger.rises + 1

-----------------------------------------------------------------------------

\* What a crossing that one machine has seen and the other has not is worth.
Ahead(m, k) == IF m.wasAbove /\ ~k.wasAbove THEN 1 ELSE 0

\* Where the two stand on different sides, the complete one has seen a crossing
\* more towards its own; each machine's count says on which side it began.
ThresholdInv ==
  /\ trigger \in Machine /\ complete \in Machine
  /\ trigger.seeded = complete.seeded
  /\ SideIsDecided
  /\ trigger.rises + Ahead(complete, trigger) <= complete.rises
  /\ trigger.falls + Ahead(trigger, complete) <= complete.falls
  /\ ~trigger.seeded => trigger.rises = trigger.falls
  /\ \/ trigger.wasAbove /\ trigger.rises - trigger.falls \in {0, 1}
     \/ ~trigger.wasAbove /\ trigger.falls - trigger.rises \in {0, 1}

LEMMA AnalyzeFields ==
  ASSUME BandIsAWidth, NEW m \in Machine, NEW x \in Int
  PROVE  LET a == Analyze(m, x) IN
         /\ a \in Machine /\ a.seeded
         /\ ~m.seeded => a.wasAbove = (x > Limit) /\ a.rises = m.rises /\ a.falls = m.falls
         /\ m.seeded =>
              /\ a.wasAbove = NowAbove(m, x)
              /\ a.rises = m.rises + Ahead(a, m)
              /\ a.falls = m.falls + Ahead(m, a)
<1> DEFINE a == Analyze(m, x)
           above == NowAbove(m, x)
<1>1. /\ m.seeded \in BOOLEAN /\ m.wasAbove \in BOOLEAN /\ m.rises \in Nat /\ m.falls \in Nat
  BY DEF Machine
<1> DEFINE high == x > Limit
<1>0. above \in BOOLEAN /\ high \in BOOLEAN
  <2>1. \A p \in Int : (x > p) \in BOOLEAN OBVIOUS
  <2>2. Limit \in Int /\ Limit - Deadband \in Int /\ Limit + Deadband \in Int
    BY DEF BandIsAWidth
  <2>3. high \in BOOLEAN BY <2>1, <2>2
  <2>4. above \in BOOLEAN
    <3>1. CASE m.wasAbove BY <2>1, <2>2, <3>1 DEF NowAbove
    <3>2. CASE ~m.wasAbove BY <2>1, <2>2, <3>2 DEF NowAbove
    <3> QED BY <3>1, <3>2
  <2> QED BY <2>3, <2>4
<1> HIDE DEF above, high
<1>2. CASE ~m.seeded
  <2>1. a = [m EXCEPT !.seeded = TRUE, !.wasAbove = high] BY <1>2 DEF Analyze, high
  <2> HIDE DEF a
  <2>2. /\ a \in Machine /\ a.seeded /\ a.wasAbove = high
        /\ a.rises = m.rises /\ a.falls = m.falls
    BY <1>0, <2>1 DEF Machine
  <2> QED BY <1>2, <2>2 DEF a, high
<1>3. CASE m.seeded /\ ~m.wasAbove /\ above
  <2>1. a = [m EXCEPT !.wasAbove = TRUE, !.rises = m.rises + 1]
    BY <1>3 DEF Analyze, above
  <2> HIDE DEF a
  <2>2. /\ a \in Machine /\ a.seeded /\ a.wasAbove
        /\ a.rises = m.rises + 1 /\ a.falls = m.falls
    <3>1. TRUE \in BOOLEAN /\ m.rises + 1 \in Nat BY <1>1
    <3> QED BY <1>3, <2>1, <3>1 DEF Machine
  <2> QED BY <1>0, <1>1, <1>3, <2>2 DEF a, above, Ahead
<1>4. CASE m.seeded /\ m.wasAbove /\ ~above
  <2>1. a = [m EXCEPT !.wasAbove = FALSE, !.falls = m.falls + 1]
    BY <1>4 DEF Analyze, above
  <2> HIDE DEF a
  <2>2. /\ a \in Machine /\ a.seeded /\ ~a.wasAbove
        /\ a.rises = m.rises /\ a.falls = m.falls + 1
    <3>1. FALSE \in BOOLEAN /\ m.falls + 1 \in Nat BY <1>1
    <3> QED BY <1>4, <2>1, <3>1 DEF Machine
  <2> QED BY <1>0, <1>1, <1>4, <2>2 DEF a, above, Ahead, Machine
<1>5. CASE m.seeded /\ (m.wasAbove <=> above)
  <2>1. a = m BY <1>5 DEF Analyze, above
  <2> HIDE DEF a
  <2> QED BY <1>0, <1>1, <1>5, <2>1 DEF a, above, Ahead
<1> QED BY <1>2, <1>3, <1>4, <1>5

\* A value above the band puts every machine above, one below it below, and one
\* inside leaves it where it is.
LEMMA BandDecides ==
  ASSUME BandIsAWidth, NEW m \in Machine, NEW x \in Int
  PROVE  /\ InBand(x) => NowAbove(m, x) = m.wasAbove
         /\ ~InBand(x) => NowAbove(m, x) = (x > Limit)
BY DEF Machine, NowAbove, InBand, BandIsAWidth

LEMMA UpdateKeeps ==
  ASSUME BandIsAWidth, ThresholdInv, NEW x \in Int, NEW kept \in BOOLEAN, Update(x, kept)
  PROVE  ThresholdInv'
<1> DEFINE t == Analyze(trigger, x)
           c == Analyze(complete, x)
<1>1. /\ trigger \in Machine /\ complete \in Machine /\ trigger.seeded = complete.seeded
      /\ trigger.rises \in Nat /\ trigger.falls \in Nat
      /\ complete.rises \in Nat /\ complete.falls \in Nat
      /\ trigger.wasAbove \in BOOLEAN /\ complete.wasAbove \in BOOLEAN
      /\ trigger.seeded \in BOOLEAN
  BY DEF ThresholdInv, Machine
<1>2. /\ t \in Machine /\ t.seeded
      /\ ~trigger.seeded =>
           t.wasAbove = (x > Limit) /\ t.rises = trigger.rises /\ t.falls = trigger.falls
      /\ trigger.seeded =>
           /\ t.wasAbove = NowAbove(trigger, x)
           /\ t.rises = trigger.rises + Ahead(t, trigger)
           /\ t.falls = trigger.falls + Ahead(trigger, t)
  BY <1>1, AnalyzeFields
<1>3. /\ c \in Machine /\ c.seeded
      /\ ~complete.seeded =>
           c.wasAbove = (x > Limit) /\ c.rises = complete.rises /\ c.falls = complete.falls
      /\ complete.seeded =>
           /\ c.wasAbove = NowAbove(complete, x)
           /\ c.rises = complete.rises + Ahead(c, complete)
           /\ c.falls = complete.falls + Ahead(complete, c)
  BY <1>1, AnalyzeFields
<1>4. /\ InBand(x) => /\ NowAbove(trigger, x) = trigger.wasAbove
                      /\ NowAbove(complete, x) = complete.wasAbove
      /\ ~InBand(x) => /\ NowAbove(trigger, x) = (x > Limit)
                       /\ NowAbove(complete, x) = (x > Limit)
  BY <1>1, BandDecides
<1>5. /\ trigger' = IF kept THEN t ELSE trigger
      /\ complete' = c
      /\ decisive' = IF kept /\ (~trigger.seeded \/ ~InBand(x)) THEN x ELSE decisive
      /\ ~trigger.seeded => kept
  BY DEF Update
<1>6. /\ t.rises \in Nat /\ t.falls \in Nat /\ t.wasAbove \in BOOLEAN
      /\ c.rises \in Nat /\ c.falls \in Nat /\ c.wasAbove \in BOOLEAN
  BY <1>2, <1>3 DEF Machine
<1> HIDE DEF t, c
<1>7. SideIsDecided'
  BY <1>1, <1>2, <1>4, <1>5 DEF ThresholdInv, SideIsDecided
<1>8. trigger' \in Machine /\ complete' \in Machine /\ trigger'.seeded = complete'.seeded
  BY <1>1, <1>2, <1>3, <1>5
<1>9. /\ trigger'.rises + Ahead(complete', trigger') <= complete'.rises
      /\ trigger'.falls + Ahead(trigger', complete') <= complete'.falls
  <2>1. /\ trigger.rises + Ahead(complete, trigger) <= complete.rises
        /\ trigger.falls + Ahead(trigger, complete) <= complete.falls
    BY DEF ThresholdInv
  <2>2. CASE ~kept BY <1>1, <1>3, <1>5, <1>6, <2>1, <2>2 DEF Ahead
  <2>3. CASE kept BY <1>1, <1>2, <1>3, <1>4, <1>5, <1>6, <2>1, <2>3 DEF Ahead
  <2> QED BY <2>2, <2>3
<1>10. ~trigger'.seeded => trigger'.rises = trigger'.falls
  BY <1>1, <1>2, <1>5
<1>11. \/ trigger'.wasAbove /\ trigger'.rises - trigger'.falls \in {0, 1}
       \/ ~trigger'.wasAbove /\ trigger'.falls - trigger'.rises \in {0, 1}
  BY <1>1, <1>2, <1>5, <1>6 DEF ThresholdInv, Ahead
<1> QED BY <1>7, <1>8, <1>9, <1>10, <1>11 DEF ThresholdInv

LEMMA ThresholdInvariance ==
  ASSUME BandIsAWidth PROVE Spec => []ThresholdInv
<1>1. Init => ThresholdInv
  BY DEF Init, Start, ThresholdInv, Machine, SideIsDecided, Ahead
<1>2. ThresholdInv /\ [Next]_vars => ThresholdInv'
  <2>1. CASE UNCHANGED vars BY <2>1 DEF vars, ThresholdInv, SideIsDecided
  <2>2. CASE Next BY <2>2, UpdateKeeps DEF Next
  <2> QED BY <2>1, <2>2
<1> QED BY <1>1, <1>2, PTL DEF Spec

\* For any threshold and any width of the band, of any values in any order: the
\* band hides what stays inside it, crossings alternate, and dropped updates add
\* no event (threshold.go:105-139).
THEOREM ThresholdIsASchmittTrigger ==
  ASSUME BandIsAWidth
  PROVE  Spec => [](SideIsDecided /\ CrossingsAlternate /\ DroppedUpdatesAddNoEvent)
<1>1. ThresholdInv => SideIsDecided /\ CrossingsAlternate /\ DroppedUpdatesAddNoEvent
  <2> SUFFICES ASSUME ThresholdInv
               PROVE  SideIsDecided /\ CrossingsAlternate /\ DroppedUpdatesAddNoEvent
    OBVIOUS
  <2>1. /\ trigger.rises \in Nat /\ trigger.falls \in Nat
        /\ complete.rises \in Nat /\ complete.falls \in Nat
    BY DEF ThresholdInv, Machine
  <2>2. CrossingsAlternate BY <2>1 DEF ThresholdInv, CrossingsAlternate
  <2>3. trigger.rises <= complete.rises /\ trigger.falls <= complete.falls
    BY <2>1 DEF ThresholdInv, Ahead
  <2>4. DroppedUpdatesAddNoEvent BY <2>1, <2>3 DEF DroppedUpdatesAddNoEvent, Fired
  <2> QED BY <2>2, <2>4 DEF ThresholdInv
<1> QED BY <1>1, ThresholdInvariance, PTL

=============================================================================
