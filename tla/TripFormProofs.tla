--------------------------- MODULE TripFormProofs ---------------------------
(* Theorems about TripForm, for every unit of time and every set of items. *)
EXTENDS TripForm, TLAPS

(* Days as instants.  The lemmas keep the products out of later steps.  *)

Midnight(day) == day * Day

\* An instant is a midnight and a time of day.
LEMMA AtMidnight ==
  ASSUME NEW day \in Int, NEW t \in Int
  PROVE  At(day, t) = Midnight(day) + t /\ At(day, t) \in Int /\ Midnight(day) \in Int
BY UnitsAssumption DEF At, Midnight

\* A day that begins less than a day after another began is not later.
LEMMA NotLater ==
  ASSUME NEW a \in Int, NEW b \in Int, Midnight(a) < Midnight(b) + Day
  PROVE  a <= b
<1>1. SUFFICES ASSUME b + 1 <= a PROVE FALSE
  OBVIOUS
<1>2. Day \in Int /\ Day > 0
  BY UnitsAssumption
<1>3. (a - b - 1) * Day >= 0
  BY <1>1, <1>2
<1>4. (a - b - 1) * Day = a * Day - b * Day - Day
  BY <1>2
<1>5. a * Day >= b * Day + Day
  BY <1>2, <1>3, <1>4
<1> QED
  BY <1>2, <1>5 DEF Midnight

\* The day after begins where the day ends.
LEMMA NextMidnight ==
  ASSUME NEW a \in Int
  PROVE  Midnight(a + 1) = Midnight(a) + Day
BY UnitsAssumption DEF Midnight

-----------------------------------------------------------------------------
(* Types.  The counters stay natural numbers because each guard asks for one. *)

LEMMA TypedAtFirst == ASSUME Init PROVE TypeOK
<1> USE UnitsAssumption, FormBounds
<1>1. 0 \in 0 .. MaxDay /\ 0 \in TimeOfDay
  BY DEF TimeOfDay
<1>2. ClockTyped
  BY <1>1 DEF Init, Closed, ClockTyped
<1>3. dateAt \in Opening /\ timeAt \in Opening
  BY <1>1 DEF Init, Opening
<1>4. ArrivalTyped
  BY <1>3 DEF Init, ArrivalTyped, Instant
<1>5. BoxesTyped /\ RequestsTyped /\ ScreenTyped
  BY DEF Init, BoxesTyped, RequestsTyped, ScreenTyped
<1> QED
  BY <1>2, <1>4, <1>5 DEF TypeOK

LEMMA ClockStays ==
  ASSUME TypeOK, [Next]_vars
  PROVE  ClockTyped'
<1> USE UnitsAssumption, FormBounds DEF TypeOK, ClockTyped, TimeOfDay
<1>1. Closed \in [mode : {"none", "date", "time"}, day : 0 .. MaxDay,
                  time : TimeOfDay]
  BY DEF Closed
<1>2. CASE Tick
  BY <1>2 DEF Tick
<1>3. ASSUME NEW mode \in {"date", "time"}, OpenPicker(mode)
      PROVE  ClockTyped'
  BY <1>3 DEF OpenPicker, clock
<1>4. CASE CancelPicker
  BY <1>1, <1>4 DEF CancelPicker, clock
<1>5. ASSUME NEW day \in Date, DateDone(day)
      PROVE  ClockTyped'
  BY <1>1, <1>5 DEF DateDone, clock
<1>6. ASSUME NEW t \in TimeOfDay, TimeDone(t)
      PROVE  ClockTyped'
  BY <1>1, <1>6 DEF TimeDone, clock
<1>7. CASE Saved
  BY <1>1, <1>7 DEF Saved, clock
<1>8. CASE UNCHANGED <<clock, picker>>
  BY <1>8 DEF clock
<1> QED
  BY <1>2, <1>3, <1>4, <1>5, <1>6, <1>7, <1>8
     DEF Next, Answer, TapAll, Fill, Leave, Return, Back, Save, Serve, Fail,
         Refusal, ServeLate, TapItem, vars

LEMMA ArrivalStays ==
  ASSUME TypeOK, [Next]_vars
  PROVE  ArrivalTyped'
<1> USE DEF TypeOK, ClockTyped, ArrivalTyped
<1>1. ASSUME NEW day \in Date, DateDone(day)
      PROVE  ArrivalTyped'
  <2>1. At(day, picker.time) \in Int
    BY AtMidnight DEF Date, TimeOfDay
  <2>2. Opened \in Opening
    BY DEF Opened, Opening
  <2> QED
    BY <1>1, <2>1, <2>2 DEF DateDone, Instant
<1>2. ASSUME NEW t \in TimeOfDay, TimeDone(t)
      PROVE  ArrivalTyped'
  <2>1. At(picker.day, t) \in Int
    BY AtMidnight DEF TimeOfDay
  <2>2. Now \in Int
    BY AtMidnight DEF Now, TimeOfDay
  <2>3. At(dateAt.day, dateAt.time) \in Int
    BY AtMidnight DEF Opening, TimeOfDay
  <2>4. Opened \in Opening
    BY DEF Opened, Opening
  <2>5. Given(dateStamp) => StartOf(At(picker.day, t)) \in Int
    BY <2>1, <2>2 DEF StartOf, Given, Instant
  <2> QED
    BY <1>2, <2>2, <2>3, <2>4, <2>5 DEF TimeDone, Instant
<1>3. CASE UNCHANGED <<dates, picks>>
  BY <1>3 DEF dates, picks
<1> QED
  BY <1>1, <1>2, <1>3
     DEF Next, Answer, Tick, OpenPicker, CancelPicker, TapItem, TapAll, Fill,
         Leave, Return, Back, Save, Serve, Fail, Saved, Refusal, ServeLate, vars

LEMMA BoxesStay ==
  ASSUME TypeOK, [Next]_vars
  PROVE  BoxesTyped'
<1> USE DEF TypeOK, BoxesTyped
<1>1. ASSUME NEW i \in Items, TapItem(i)
      PROVE  BoxesTyped'
  BY <1>1 DEF TapItem
<1>2. CASE TapAll \/ Fill \/ Return
  BY <1>2 DEF TapAll, Fill, Return, boxes
<1>3. CASE UNCHANGED <<filled, boxes>>
  BY <1>3 DEF boxes
<1> QED
  BY <1>1, <1>2, <1>3
     DEF Next, Answer, Tick, OpenPicker, CancelPicker, DateDone, TimeDone,
         Leave, Back, Save, Serve, Fail, Saved, Refusal, ServeLate, vars

LEMMA RequestsStay ==
  ASSUME TypeOK, [Next]_vars
  PROVE  RequestsTyped'
<1> USE DEF TypeOK, RequestsTyped
<1>1. CASE Save \/ Serve
  BY <1>1 DEF Save, Serve
<1>2. CASE Fail \/ ServeLate
  BY <1>2 DEF Fail, ServeLate
<1>3. CASE Saved \/ Refusal
  BY <1>3 DEF Saved, Refusal, NotSaved
<1>4. CASE UNCHANGED requests
  BY <1>4 DEF requests
<1> QED
  BY <1>1, <1>2, <1>3, <1>4
     DEF Next, Answer, Tick, OpenPicker, CancelPicker, DateDone, TimeDone,
         TapItem, TapAll, Fill, Leave, Return, Back, vars

LEMMA ScreenStays ==
  ASSUME TypeOK, [Next]_vars
  PROVE  ScreenTyped'
<1> USE DEF TypeOK, ScreenTyped
<1>1. CASE Leave \/ Return \/ Back
  BY <1>1, Zenon DEF Leave, Return, Back, requests, picks
<1>2. CASE Save \/ Serve \/ Fail \/ ServeLate
  BY <1>2, Zenon DEF Save, Serve, Fail, ServeLate, Blocked, picks
<1>3. CASE Saved \/ Refusal
  BY <1>3, Zenon DEF Saved, Refusal, NotSaved, picks
<1>4. ASSUME NEW day \in Date, DateDone(day)
      PROVE  ScreenTyped'
  BY <1>4, Zenon DEF DateDone, requests
<1>5. ASSUME NEW t \in TimeOfDay, TimeDone(t)
      PROVE  ScreenTyped'
  BY <1>5, Zenon DEF TimeDone, requests
<1>6. CASE UNCHANGED <<place, hud, requests, returned, picks>>
  BY <1>6, Zenon DEF requests, picks
<1> QED
  BY <1>1, <1>2, <1>3, <1>4, <1>5, <1>6
     DEF Next, Answer, Tick, OpenPicker, CancelPicker, TapItem, TapAll, Fill,
         vars

\* The type invariant is inductive by itself.
THEOREM FormTyped == Spec => []TypeOK
<1>1. ASSUME TypeOK, [Next]_vars PROVE TypeOK'
  BY <1>1, ClockStays, ArrivalStays, BoxesStay, RequestsStay,
     ScreenStays DEF TypeOK
<1> QED
  BY <1>1, TypedAtFirst, PTL DEF Spec

-----------------------------------------------------------------------------
(* The arrival.  A sheet was opened in the past; a date shown is the day of   *)
(* date_timestamp, and was not in the past when it was picked.                *)

OpenedBefore == picker.mode # "none" => At(picker.day, picker.time) <= Now
DateKept ==
  Given(dateText) => /\ dateStamp = At(dateText, dateAt.time)
                     /\ dateAt.day <= dateText
Arrival == /\ TypeOK /\ OpenedBefore /\ DateKept
           /\ StartNearShown /\ StartNotPast

LEMMA Typed == TypeOK /\ [Next]_vars => TypeOK'
BY ClockStays, ArrivalStays, BoxesStay, RequestsStay, ScreenStays DEF TypeOK

\* Instants of typed days and times are integers.
LEMMA Instants ==
  ASSUME TypeOK
  PROVE  /\ Now = Midnight(today) + time /\ Midnight(today) \in Int
         /\ At(picker.day, picker.time) = Midnight(picker.day) + picker.time
         /\ Midnight(picker.day) \in Int
         /\ At(dateAt.day, dateAt.time) = Midnight(dateAt.day) + dateAt.time
         /\ Midnight(dateAt.day) \in Int
         /\ today \in Int /\ time \in 0 .. Day - 1
         /\ picker.day \in Int /\ picker.time \in 0 .. Day - 1
         /\ dateAt.day \in Int /\ dateAt.time \in 0 .. Day - 1
<1>1. today \in Int /\ time \in Int /\ time \in 0 .. Day - 1
  BY DEF TypeOK, ClockTyped, TimeOfDay
<1>2. picker.day \in Int /\ picker.time \in Int /\ picker.time \in 0 .. Day - 1
  BY DEF TypeOK, ClockTyped, TimeOfDay
<1>3. dateAt.day \in Int /\ dateAt.time \in Int /\ dateAt.time \in 0 .. Day - 1
  BY DEF TypeOK, ArrivalTyped, Opening, TimeOfDay
<1> QED
  BY <1>1, <1>2, <1>3, AtMidnight DEF Now

\* The clock never goes back.
LEMMA ClockAdvances ==
  ASSUME TypeOK, Tick
  PROVE  Now' = Now + 1 /\ Now \in Int
<1>1. Now = Midnight(today) + time /\ Midnight(today) \in Int /\ time \in Int
      /\ today \in Int
  BY Instants
<1>2. CASE time' = time + 1 /\ today' = today
  BY <1>1, <1>2, AtMidnight DEF Now
<1>3. CASE time = Day - 1 /\ time' = 0 /\ today' = today + 1
  <2>1. At(today + 1, 0) = Midnight(today) + Day
    BY <1>1, AtMidnight, NextMidnight, UnitsAssumption
  <2> QED
    BY <1>1, <1>3, <2>1, UnitsAssumption DEF Now
<1> QED
  BY <1>2, <1>3 DEF Tick

LEMMA SheetOpened ==
  ASSUME TypeOK, OpenedBefore, [Next]_vars
  PROVE  OpenedBefore'
<1>1. CASE Tick
  <2>1. At(picker.day, picker.time) \in Int
    BY Instants
  <2> QED
    BY <1>1, <2>1, ClockAdvances DEF OpenedBefore, Tick
<1>2. ASSUME NEW mode \in {"date", "time"}, OpenPicker(mode)
      PROVE  OpenedBefore'
  BY <1>2, Instants DEF OpenPicker, OpenedBefore, Now, clock
<1>3. CASE picker' = Closed
  BY <1>3 DEF Closed, OpenedBefore
<1>4. CASE UNCHANGED <<clock, picker>>
  BY <1>4 DEF OpenedBefore, clock, Now
<1> QED
  BY <1>1, <1>2, <1>3, <1>4
     DEF Next, Answer, CancelPicker, DateDone, TimeDone, TapItem, TapAll, Fill,
         Leave, Return, Back, Save, Serve, Fail, Saved, Refusal, ServeLate, vars

\* An accepted date is not before the day its sheet was opened.
LEMMA DateAccepted ==
  ASSUME TypeOK, OpenedBefore, NEW day \in Date, DateDone(day),
         ~DatePast(At(day, picker.time))
  PROVE  picker.day <= day
<1>1. day \in Int /\ Hour \in Int /\ Hour < Day /\ Day \in Int
  BY UnitsAssumption DEF Date
<1>2. picker.time \in Int
  BY Instants, UnitsAssumption
<1>3. At(day, picker.time) = Midnight(day) + picker.time /\ Midnight(day) \in Int
  BY <1>1, <1>2, AtMidnight
<1>4. At(picker.day, picker.time) <= Now /\ Now <= At(day, picker.time) + Hour
  BY <1>1, <1>3, Instants DEF DateDone, OpenedBefore, DatePast
<1>5. Midnight(picker.day) < Midnight(day) + Day
  BY <1>1, <1>3, <1>4, Instants
<1> QED
  BY <1>1, <1>5, NotLater, Instants

LEMMA DateStays ==
  ASSUME Arrival, [Next]_vars
  PROVE  DateKept'
<1>1. ASSUME NEW day \in Date, DateDone(day)
      PROVE  DateKept'
  <2>1. CASE DatePast(At(day, picker.time))
    BY <1>1, <2>1 DEF DateDone, DateKept, Given
  <2>2. CASE ~DatePast(At(day, picker.time))
    <3>1. picker.day <= day
      BY <1>1, <2>2, DateAccepted DEF Arrival
    <3>2. /\ dateStamp' = At(day, picker.time) /\ dateText' = day
          /\ dateAt' = [day |-> picker.day, time |-> picker.time]
      BY <1>1, <2>2 DEF DateDone, Opened
    <3> QED
      BY <3>1, <3>2 DEF DateKept
  <2> QED
    BY <2>1, <2>2
<1>2. CASE UNCHANGED <<dateText, dateStamp, dateAt>>
  BY <1>2 DEF DateKept, Arrival
<1> QED
  BY <1>1, <1>2
     DEF Next, Answer, Tick, OpenPicker, CancelPicker, TimeDone, TapItem, TapAll,
         Fill, Leave, Return, Back, Save, Serve, Fail, Saved, Refusal,
         ServeLate, vars, dates, picks

\* What a time that was taken makes of start_timestamp, with the date shown.
LEMMA TimeNear ==
  ASSUME Arrival, NEW t \in TimeOfDay, Given(dateText), Given(dateStamp),
         Now - At(dateAt.day, dateAt.time) < Hour, picker.day = dateAt.day
  PROVE  StartOf(At(picker.day, t)) \in
           {At(dateText, t),
            At(dateText, t) - (Now - At(dateAt.day, dateAt.time))}
<1> DEFINE D == dateText
           v == At(picker.day, t)
<1>1. TypeOK /\ dateStamp = At(D, dateAt.time) /\ dateAt.day <= D
  BY DEF Arrival, DateKept
<1>2. D \in Int /\ t \in Int /\ dateAt.time \in Int /\ Day \in Int /\ Hour \in Int
  BY <1>1, Instants, UnitsAssumption
     DEF TypeOK, ArrivalTyped, Date, Given, TimeOfDay
<1>3. /\ dateStamp = Midnight(D) + dateAt.time /\ Midnight(D) \in Int
      /\ At(D, t) = Midnight(D) + t
  BY <1>1, <1>2, AtMidnight
<1>4. v = Midnight(dateAt.day) + t
  <2>1. dateAt.day \in Int /\ picker.day = dateAt.day
    BY <1>1, Instants
  <2>2. At(dateAt.day, t) = Midnight(dateAt.day) + t
    BY <1>2, <2>1, AtMidnight
  <2> QED
    BY <2>1, <2>2
<1>5. CASE Soon(dateStamp)
  <2>1. Midnight(D) < Midnight(dateAt.day) + Day
    BY <1>1, <1>2, <1>3, <1>5, Instants DEF Soon
  <2>2. D = dateAt.day
    BY <1>1, <1>2, <2>1, NotLater, Instants
  <2> QED
    BY <1>3, <1>4, <1>5, <2>2 DEF StartOf
<1>6. CASE ~Soon(dateStamp)
  <2>1. StartOf(v) = dateStamp - (Now - v)
    BY <1>6 DEF StartOf
  <2> QED
    BY <1>1, <1>2, <1>3, <1>4, <2>1, Instants
<1> QED
  BY <1>5, <1>6

LEMMA NearStays ==
  ASSUME Arrival, [Next]_vars
  PROVE  StartNearShown'
<1>1. ASSUME NEW day \in Date, DateDone(day)
      PROVE  StartNearShown'
  BY <1>1 DEF DateDone, StartNearShown, Given, Arrival
<1>2. ASSUME NEW t \in TimeOfDay, TimeDone(t)
      PROVE  StartNearShown'
  <2>1. CASE ~Given(dateStamp)
    BY <1>2, <2>1 DEF TimeDone, StartNearShown, Arrival
  <2>2. CASE Given(dateStamp) /\ Soon(dateStamp) /\ TooEarly(At(picker.day, t))
    BY <1>2, <2>2 DEF TimeDone, StartNearShown, Given
  <2>3. CASE Given(dateStamp) /\ ~(Soon(dateStamp) /\ TooEarly(At(picker.day, t)))
    <3>1. /\ startStamp' = StartOf(At(picker.day, t)) /\ timeText' = t
          /\ timeAt' = [day |-> picker.day, time |-> picker.time]
          /\ lag' = Now - At(dateAt.day, dateAt.time)
          /\ dateText' = dateText /\ dateAt' = dateAt
      BY <1>2, <2>3 DEF TimeDone, Opened
    <3> QED
      BY <2>3, <3>1, TimeNear DEF StartNearShown
  <2> QED
    BY <2>1, <2>2, <2>3
<1>3. CASE UNCHANGED <<dates, picks>>
  BY <1>3 DEF dates, picks, StartNearShown, Arrival
<1> QED
  BY <1>1, <1>2, <1>3
     DEF Next, Answer, Tick, OpenPicker, CancelPicker, TapItem, TapAll, Fill,
         Leave, Return, Back, Save, Serve, Fail, Saved, Refusal, ServeLate, vars

\* How early a time that was taken may be.
LEMMA TimeLate ==
  ASSUME TypeOK, OpenedBefore, picker.mode = "time", NEW t \in TimeOfDay,
         Given(dateStamp),
         ~(Soon(dateStamp) /\ TooEarly(At(picker.day, t)))
  PROVE  /\ StartOf(At(picker.day, t)) \in Int
         /\ StartOf(At(picker.day, t)) > At(picker.day, picker.time) - Hour
<1> DEFINE v == At(picker.day, t)
<1>1. /\ Day \in Int /\ Hour \in Int /\ Minute \in Int /\ Hour >= 0
      /\ Minute <= Hour /\ t \in 0 .. Day - 1 /\ t \in Int
      /\ dateStamp \in Int
  BY UnitsAssumption DEF TimeOfDay, TypeOK, ArrivalTyped, Given, Instant
<1>2. v = Midnight(picker.day) + t /\ At(picker.day, picker.time) <= Now
  BY <1>1, Instants, AtMidnight DEF OpenedBefore
<1>3. CASE Soon(dateStamp)
  <2>1. StartOf(v) = v /\ v - Now > Hour - Minute
    BY <1>1, <1>2, <1>3, Instants DEF StartOf, TooEarly
  <2> QED
    BY <1>1, <1>2, <2>1, Instants
<1>4. CASE ~Soon(dateStamp)
  <2>1. StartOf(v) = dateStamp - (Now - v) /\ dateStamp - Now > Day - Hour
    BY <1>1, <1>2, <1>4, Instants DEF StartOf, Soon
  <2> QED
    BY <1>1, <1>2, <2>1, Instants
<1> QED
  BY <1>3, <1>4

LEMMA NotPastStays ==
  ASSUME Arrival, [Next]_vars
  PROVE  StartNotPast'
<1>1. ASSUME NEW t \in TimeOfDay, TimeDone(t)
      PROVE  StartNotPast'
  <2>1. CASE ~Given(dateStamp)
    BY <1>1, <2>1 DEF TimeDone, StartNotPast, Arrival
  <2>2. CASE Given(dateStamp) /\ Soon(dateStamp) /\ TooEarly(At(picker.day, t))
    BY <1>1, <2>2 DEF TimeDone, StartNotPast, Given
  <2>3. CASE Given(dateStamp) /\ ~(Soon(dateStamp) /\ TooEarly(At(picker.day, t)))
    <3>1. /\ startStamp' = StartOf(At(picker.day, t))
          /\ timeAt' = [day |-> picker.day, time |-> picker.time]
      BY <1>1, <2>3 DEF TimeDone, Opened
    <3>2. /\ StartOf(At(picker.day, t)) \in Int
          /\ StartOf(At(picker.day, t)) > At(picker.day, picker.time) - Hour
      BY <1>1, <2>3, TimeLate DEF Arrival, TimeDone
    <3> QED
      BY <3>1, <3>2, FormBounds DEF StartNotPast, Given
  <2> QED
    BY <2>1, <2>2, <2>3
<1>2. CASE UNCHANGED <<timeText, startStamp, timeAt>>
  BY <1>2 DEF StartNotPast, Arrival, Given
<1> QED
  BY <1>1, <1>2
     DEF Next, Answer, Tick, OpenPicker, CancelPicker, DateDone, TapItem, TapAll,
         Fill, Leave, Return, Back, Save, Serve, Fail, Saved, Refusal,
         ServeLate, vars, dates, picks

LEMMA ArrivalHolds == Spec => []Arrival
<1>1. ASSUME Init PROVE Arrival
  BY <1>1, TypedAtFirst
     DEF Init, Arrival, OpenedBefore, DateKept, StartNearShown, StartNotPast,
         Given, Closed
<1>2. ASSUME Arrival, [Next]_vars PROVE Arrival'
  BY <1>2, Typed, SheetOpened, DateStays, NearStays, NotPastStays DEF Arrival
<1> QED
  BY <1>1, <1>2, PTL DEF Spec

\* Date and time picked on one day and within the hour, date first: the arrival
\* saved is the one shown, or earlier by the time between the two picks.
THEOREM ArrivalNear == Spec => []StartNearShown
BY ArrivalHolds, PTL DEF Arrival

\* The arrival saved is never more than an hour before the time was asked for.
THEOREM ArrivalAhead == Spec => []StartNotPast
BY ArrivalHolds, PTL DEF Arrival

-----------------------------------------------------------------------------
(* The boxes *)

\* A box shows its flag unless all were set together since its last tap.
THEOREM BoxesFollow == Spec => []BoxesFollowFlags
<1>1. Init => BoxesFollowFlags
  BY DEF Init, BoxesFollowFlags
<1>2. ASSUME BoxesFollowFlags, [Next]_vars
      PROVE  BoxesFollowFlags'
  <2>1. ASSUME NEW i \in Items, TapItem(i)
        PROVE  BoxesFollowFlags'
    BY <1>2, <2>1 DEF TapItem, BoxesFollowFlags
  <2>2. CASE TapAll \/ Return
    BY <2>2 DEF TapAll, Return, BoxesFollowFlags
  <2>3. CASE UNCHANGED boxes
    BY <1>2, <2>3 DEF BoxesFollowFlags, boxes
  <2> QED
    BY <1>2, <2>1, <2>2, <2>3
       DEF Next, Answer, Tick, OpenPicker, CancelPicker, DateDone, TimeDone,
           Fill, Leave, Back, Save, Serve, Fail, Saved, Refusal, ServeLate, vars
<1> QED
  BY <1>1, <1>2, PTL DEF Spec

-----------------------------------------------------------------------------
(* The requests.  As long as the HUD was not taken away and no answer lost,   *)
(* one request is out at a time, under a HUD, and nothing follows a trip.     *)

Single ==
  ~returned /\ ~lost =>
    /\ late = 0 /\ Out <= 1
    /\ place = "form" /\ Out = 1 => hud
    /\ place = "away" => Out = 0
    /\ \/ trips = 0 /\ stored = 0
       \/ /\ trips = 1 /\ sent = 0 /\ refused = 0
          /\ stored = 1 \/ place = "gone"
Requested == TypeOK /\ Single

LEMMA SingleStays ==
  ASSUME Requested, [Next]_vars
  PROVE  Single'
<1> USE DEF Requested, TypeOK, RequestsTyped, Single, Out
<1>1. CASE Leave
  <2>1. UNCHANGED requests /\ place = "form" /\ place' = "away"
    BY <1>1 DEF Leave, Uncovered
  <2>2. returned' = (returned \/ Out > 0)
    BY <1>1 DEF Leave
  <2>3. CASE Out > 0
    BY <2>2, <2>3
  <2>4. CASE ~(Out > 0) /\ returned
    BY <2>2, <2>4
  <2>5. CASE ~(Out > 0) /\ ~returned
    BY <2>1, <2>5 DEF requests
  <2> QED
    BY <2>3, <2>4, <2>5
<1>2. CASE Return \/ Back
  BY <1>2 DEF Return, Back, requests, Uncovered
<1>3. CASE Save
  <2> SUFFICES ASSUME ~returned, ~lost PROVE Single'
    BY <1>3 DEF Save
  <2>1. place = "form" /\ ~hud /\ hud' /\ place' = "form"
    BY <1>3, Zenon DEF Save, Blocked, Tappable, Uncovered
  <2>2. /\ sent' = sent + 1 /\ stored' = stored /\ refused' = refused
        /\ late' = late /\ trips' = trips
    BY <1>3 DEF Save
  <2>3. Out = 0 /\ late = 0 /\ trips = 0
    BY <2>1
  <2> QED
    BY <2>1, <2>2, <2>3
<1>4. CASE Serve
  BY <1>4 DEF Serve
<1>5. CASE Fail
  BY <1>5 DEF Fail
<1>6. CASE ServeLate
  BY <1>6 DEF ServeLate
<1>7. CASE Saved
  BY <1>7 DEF Saved
<1>8. CASE Refusal
  BY <1>8 DEF Refusal, NotSaved
<1>9. CASE UNCHANGED <<place, hud, requests, returned>>
  BY <1>9 DEF requests
<1> QED
  BY <1>1, <1>2, <1>3, <1>4, <1>5, <1>6, <1>7, <1>8, <1>9
     DEF Next, Answer, Tick, OpenPicker, CancelPicker, DateDone, TimeDone,
         TapItem, TapAll, Fill, vars

\* One form makes one trip, unless the HUD was taken away or an answer lost.
THEOREM OneTrip == Spec => []TripOnce
<1>1. ASSUME Init PROVE Requested
  <2>1. Out = 0 /\ late = 0 /\ trips = 0 /\ stored = 0 /\ place = "form"
    BY <1>1 DEF Init, Out
  <2> QED
    BY <1>1, <2>1, TypedAtFirst DEF Requested, Single
<1>2. ASSUME Requested, [Next]_vars PROVE Requested'
  BY <1>2, Typed, SingleStays DEF Requested
<1>3. Requested => TripOnce
  BY DEF Requested, Single, TripOnce, TypeOK, RequestsTyped
<1> QED
  BY <1>1, <1>2, <1>3, PTL DEF Spec
-----------------------------------------------------------------------------
(* The HUD of a save *)

\* A HUD lies over the form only while a save is under way or its completion is
\* still to run.
HudBusy == hud => Out > 0

\* What the network and the completions do to the three numbers of requests.
LEMMA ServedOut ==
  ASSUME RequestsTyped, Serve \/ Fail
  PROVE  Out' = Out
<1> sent \in Nat /\ stored \in Nat /\ refused \in Nat
  BY DEF RequestsTyped
<1>1. CASE Serve
  BY <1>1 DEF Serve, Out
<1>2. CASE Fail
  BY <1>2 DEF Fail, Out
<1> QED BY <1>1, <1>2

\* However the form is left and whatever is answered, no HUD is left behind: the
\* safety half of FormUnblocked.
THEOREM FormRests == Spec => []HudBusy
<1>1. Init => HudBusy
  BY DEF Init, HudBusy
<1>2. ASSUME TypeOK, HudBusy, [Next]_vars PROVE HudBusy'
  <2>1. sent \in Nat /\ stored \in Nat /\ refused \in Nat
    BY <1>2 DEF TypeOK, RequestsTyped
  <2>2. CASE Leave \/ Back \/ Saved \/ Refusal
    BY <2>2 DEF Leave, Back, Saved, Refusal, NotSaved, HudBusy
  <2>3. CASE Save
    BY <2>1, <2>3 DEF Save, HudBusy, Out
  <2>4. CASE Serve \/ Fail \/ ServeLate \/ UNCHANGED <<hud, requests>>
    <3>1. hud' => hud
      BY <2>4, Zenon DEF Serve, Fail, ServeLate
    <3>2. Out' = Out
      BY <1>2, <2>4, ServedOut DEF Out, ServeLate, requests, TypeOK
    <3> QED BY <1>2, <3>1, <3>2 DEF HudBusy
  <2> QED
    BY <1>2, <2>2, <2>3, <2>4
       DEF Next, Answer, Tick, OpenPicker, CancelPicker, DateDone, TimeDone,
           TapItem, TapAll, Fill, Return, vars
<1> QED
  BY <1>1, <1>2, FormTyped, PTL DEF Spec

\* What is left for the network and the completions to do with the saves of a form.
ToDo == 3 * sent + 2 * stored + refused

LEMMA AnswerAdvances ==
  ASSUME RequestsTyped, Answer
  PROVE  ToDo' < ToDo
<1>1. sent \in Nat /\ stored \in Nat /\ refused \in Nat
  BY DEF RequestsTyped
<1>2. CASE Serve
  BY <1>1, <1>2 DEF Serve, ToDo
<1>3. CASE Fail
  BY <1>1, <1>3 DEF Fail, ToDo
<1>4. CASE Saved
  BY <1>1, <1>4 DEF Saved, ToDo
<1>5. CASE Refusal
  BY <1>1, <1>5 DEF Refusal, NotSaved, ToDo
<1> QED BY <1>2, <1>3, <1>4, <1>5 DEF Answer

\* Under a HUD there is less to do with each step of the network and of the
\* completions, and no other step adds to it, so that the HUD goes as soon as
\* these steps are taken: the save button is the only thing that adds a request,
\* and the HUD covers it.
Progress == hud => ToDo' <= ToDo /\ (Answer => ToDo' < ToDo)

THEOREM FormAdvances == Spec => [][Progress]_vars
<1>1. ASSUME TypeOK, [Next]_vars PROVE [Progress]_vars
  <2> SUFFICES ASSUME hud, Next PROVE ToDo' <= ToDo /\ (Answer => ToDo' < ToDo)
    BY <1>1 DEF Progress
  <2>1. RequestsTyped
    BY <1>1 DEF TypeOK
  <2>2. Answer => ToDo' < ToDo
    BY <2>1, AnswerAdvances
  <2>3. ToDo' \in Int /\ ToDo \in Int
    BY <1>1, <2>1, Typed DEF ToDo, TypeOK, RequestsTyped
  <2>4. ~Answer => UNCHANGED ToDo
    <3>1. ~Save
      BY DEF Save, Tappable
    <3> QED
      BY <3>1 DEF Next, Tick, OpenPicker, CancelPicker, DateDone, TimeDone, TapItem,
                  TapAll, Fill, Leave, Return, Back, ServeLate, requests, ToDo
  <2> QED
    BY <2>2, <2>3, <2>4
<1> QED
  BY <1>1, FormTyped, PTL DEF Spec
=============================================================================
