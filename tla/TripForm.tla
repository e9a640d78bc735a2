------------------------------ MODULE TripForm ------------------------------
(***************************************************************************)
(* NewTripVC: the form that publishes a trip, from its first appearance to *)
(* the moment it leaves the navigation stack.                              *)
(*                                                                         *)
(* Instants are counted in ticks from some midnight of the device's time   *)
(* zone; the timestamps of the code are instants, its texts are days and   *)
(* times of day.  A picker starts from the instant at which it was opened: *)
(* in date mode the user changes the day of it and keeps its time, in time *)
(* mode the user changes its time and keeps the day.                       *)
(*                                                                         *)
(* The two places, the weight and the price only matter as being filled.   *)
(***************************************************************************)
EXTENDS Integers

CONSTANTS Items,      \* what may be brought, one check box each
          Day,        \* ONE_DAY_TIMESTAMP
          Hour,       \* ONE_HOUR_TIMESTAMP
          Minute,     \* ONE_MIN_TIMESTAMP
          Never,      \* nil, or an empty text
          MaxDay,     \* bound: the last day of a behaviour
          MaxSaves    \* bound: createTravel requests of the form

ASSUME UnitsAssumption ==
  /\ Day \in Nat /\ Hour \in Nat /\ Minute \in Nat \ {0}
  /\ Minute <= Hour /\ Hour < Day
ASSUME FormBounds ==
  MaxDay \in Nat /\ MaxSaves \in Nat /\ Never \notin Int

Date == 0 .. MaxDay + 1           \* what the date picker offers
TimeOfDay == 0 .. Day - 1
At(day, time) == day * Day + time

VARIABLES
  today, time,   \* the clock of the device
  picker,        \* the sheet over the screen, and when it was opened
  dateStamp,     \* date_timestamp
  startStamp,    \* start_timestamp
  dateText,      \* edt_date
  timeText,      \* edt_time
  filled,        \* the places, the weight and the price are given
  on,            \* the boxes shown ticked
  checked,       \* is_document_check and its like
  selectAll,     \* is_selectall
  allOn,         \* the box "Select All" is shown ticked
  place,         \* "form", "away" (covered) or "gone"
  hud,           \* a HUD lies over the form
  sent, stored, refused, \* createTravel: unserved, answered well, answered ill
  late,          \* given up by the app before the server handled them
  trips,         \* trips the server made of this form
  \* observations
  dateAt,        \* when the picker of dateStamp was opened
  timeAt,        \* when the picker of startStamp was opened
  lag,           \* from dateAt to the end of the time picker
  paired,        \* no date was picked after the time
  whole,         \* boxes set together since their own last tap
  returned,      \* the form was left for another screen with a request out
  lost           \* an answer did not come through

clock == <<today, time>>
dates == <<dateStamp, startStamp, dateText, timeText>>
picks == <<dateAt, timeAt, lag, paired>>
boxes == <<on, checked, selectAll, allOn, whole>>
requests == <<sent, stored, refused, late, trips, lost>>
vars == <<clock, picker, dates, picks, filled, boxes, place, hud, requests,
          returned>>

Now == At(today, time)
Opening == [day : 0 .. MaxDay, time : TimeOfDay]
Closed == [mode |-> "none", day |-> 0, time |-> 0]
Instant == Int \cup {Never}
Given(x) == x # Never

ClockTyped ==
  /\ today \in 0 .. MaxDay /\ time \in TimeOfDay
  /\ picker \in [mode : {"none", "date", "time"}, day : 0 .. MaxDay,
                 time : TimeOfDay]
ArrivalTyped ==
  /\ dateStamp \in Instant /\ startStamp \in Instant
  /\ dateText \in Date \cup {Never} /\ timeText \in TimeOfDay \cup {Never}
  /\ dateAt \in Opening /\ timeAt \in Opening /\ lag \in Int
BoxesTyped ==
  /\ on \subseteq Items /\ checked \subseteq Items /\ whole \subseteq Items
  /\ selectAll \in BOOLEAN /\ allOn \in BOOLEAN /\ filled \in BOOLEAN
RequestsTyped ==
  /\ sent \in Nat /\ stored \in Nat /\ refused \in Nat /\ late \in Nat
  /\ trips \in Nat
ScreenTyped ==
  /\ place \in {"form", "away", "gone"} /\ hud \in BOOLEAN
  /\ paired \in BOOLEAN /\ returned \in BOOLEAN /\ lost \in BOOLEAN
TypeOK == /\ ClockTyped /\ ArrivalTyped /\ BoxesTyped
          /\ RequestsTyped /\ ScreenTyped

Init ==
  /\ today = 0 /\ time \in TimeOfDay /\ picker = Closed
  /\ dateStamp = Never /\ startStamp = Never
  /\ dateText = Never /\ timeText = Never /\ filled = FALSE
  /\ on = {} /\ checked = {} /\ whole = {}
  /\ selectAll = FALSE /\ allOn = FALSE
  /\ place = "form" /\ hud = FALSE
  /\ sent = 0 /\ stored = 0 /\ refused = 0 /\ late = 0 /\ trips = 0
  /\ dateAt = [day |-> 0, time |-> 0] /\ timeAt = dateAt /\ lag = 0
  /\ paired = FALSE /\ returned = FALSE /\ lost = FALSE

\* Neither a sheet nor a HUD covers the form.  The navigation bar and the tabs
\* lie outside what a HUD covers.
Uncovered == place = "form" /\ picker.mode = "none"
Tappable == Uncovered /\ ~hud

Tick ==
  /\ \/ time < Day - 1 /\ time' = time + 1 /\ UNCHANGED today
     \/ time = Day - 1 /\ today < MaxDay /\ time' = 0 /\ today' = today + 1
  /\ UNCHANGED <<picker, dates, picks, filled, boxes, place, hud, requests,
                 returned>>

-----------------------------------------------------------------------------
(* The arrival *)

\* btnStartDateClicked, btnEndDateClicked: the sheet opens at this instant.
OpenPicker(mode) ==
  /\ Tappable /\ picker' = [mode |-> mode, day |-> today, time |-> time]
  /\ UNCHANGED <<clock, dates, picks, filled, boxes, place, hud, requests,
                 returned>>

CancelPicker ==
  /\ picker.mode # "none" /\ picker' = Closed
  /\ UNCHANGED <<clock, dates, picks, filled, boxes, place, hud, requests,
                 returned>>

Opened == [day |-> picker.day, time |-> picker.time]

\* A date more than an hour ago is refused.
DatePast(stamp) == Now > stamp + Hour

\* doneBlock of btnStartDateClicked.  A refusal empties the text and keeps
\* date_timestamp; no path touches the time.
DateDone(day) ==
  /\ picker.mode = "date" /\ picker' = Closed
  /\ LET stamp == At(day, picker.time)
     IN \/ /\ DatePast(stamp) /\ dateText' = Never
           /\ UNCHANGED <<dateStamp, dateAt, paired>>
        \/ /\ ~DatePast(stamp) /\ dateStamp' = stamp /\ dateText' = day
           /\ dateAt' = Opened /\ paired' = FALSE
  /\ UNCHANGED <<clock, startStamp, timeText, timeAt, lag, filled, boxes,
                 place, hud, requests, returned>>

\* date_timestamp lies within the next 23 hours: the time is taken for today's.
\* The mutant decides by the hour the user is asked to leave.
SoonWithin(stamp) == stamp - Now <= Day + Hour
Soon(stamp) == stamp - Now <= Day - Hour

\* Today's time must be an hour ahead.  The mutant asks nothing.
TooEarlyNever(value) == FALSE
TooEarly(value) == value - Now <= Hour - Minute

\* What start_timestamp becomes: the time picked, today, or on the day of
\* date_timestamp, moved by what the clock says now.
StartOf(value) == IF Soon(dateStamp) THEN value ELSE dateStamp - (Now - value)

\* doneBlock of btnEndDateClicked.  Without a date nothing happens; a refusal
\* empties the text and keeps start_timestamp.
TimeDone(t) ==
  /\ picker.mode = "time" /\ picker' = Closed
  /\ LET value == At(picker.day, t)
     IN \/ ~Given(dateStamp) /\ UNCHANGED <<startStamp, timeText, timeAt, lag, paired>>
        \/ /\ Given(dateStamp) /\ Soon(dateStamp) /\ TooEarly(value)
           /\ timeText' = Never
           /\ UNCHANGED <<startStamp, timeAt, lag, paired>>
        \/ /\ Given(dateStamp) /\ ~(Soon(dateStamp) /\ TooEarly(value))
           /\ startStamp' = StartOf(value) /\ timeText' = t
           /\ timeAt' = Opened /\ paired' = TRUE
           /\ lag' = Now - At(dateAt.day, dateAt.time)
  /\ UNCHANGED <<clock, dateStamp, dateText, dateAt, filled, boxes, place, hud,
                 requests, returned>>

-----------------------------------------------------------------------------
(* The boxes *)

\* docBtnClicked and the eleven others: the flag turns, the box shows the flag.
\* The mutant shows what "Select All" says.
TapItemAsAll(i) ==
  /\ Tappable /\ whole' = whole \ {i}
  /\ checked' = IF i \in checked THEN checked \ {i} ELSE checked \cup {i}
  /\ on' = IF selectAll THEN on \cup {i} ELSE on \ {i}
  /\ UNCHANGED <<clock, picker, dates, picks, filled, selectAll, allOn, place,
                 hud, requests, returned>>
TapItem(i) ==
  /\ Tappable /\ whole' = whole \ {i}
  /\ checked' = IF i \in checked THEN checked \ {i} ELSE checked \cup {i}
  /\ on' = IF i \in checked' THEN on \cup {i} ELSE on \ {i}
  /\ UNCHANGED <<clock, picker, dates, picks, filled, selectAll, allOn, place,
                 hud, requests, returned>>

\* checkallBtnClicked: the boxes change, their flags do not.
TapAll ==
  /\ Tappable /\ selectAll' = ~selectAll /\ allOn' = ~selectAll
  /\ on' = (IF selectAll THEN {} ELSE Items) /\ whole' = Items
  /\ UNCHANGED <<clock, picker, dates, picks, filled, checked, place, hud,
                 requests, returned>>

\* The weight and the price are typed on a keyboard, which lies above a HUD; a
\* place is picked on a sheet over the form or, as iOS likes it, in its place.
Fill ==
  /\ place # "gone" /\ picker.mode = "none" /\ filled' \in BOOLEAN \ {filled}
  /\ UNCHANGED <<clock, picker, dates, picks, boxes, place, hud, requests,
                 returned>>

-----------------------------------------------------------------------------
(* Coming and going *)

Out == sent + stored + refused

\* Another tab, or the screen that picks a place: viewDidDisappear hides the HUD.
Leave ==
  /\ Uncovered /\ place' = "away" /\ hud' = FALSE
  /\ returned' = (returned \/ Out > 0)
  /\ UNCHANGED <<clock, picker, dates, picks, filled, boxes, requests>>

\* viewWillAppear: setUI and setSelectAllCheck untick every box; the flags,
\* is_selectall, the texts and the timestamps stay.
Return ==
  /\ place = "away" /\ place' = "form"
  /\ on' = {} /\ allOn' = FALSE /\ whole' = Items
  /\ UNCHANGED <<clock, picker, dates, picks, filled, checked, selectAll, hud,
                 requests, returned>>

\* addTappedLeftBtn
Back ==
  /\ Uncovered /\ place' = "gone" /\ hud' = FALSE
  /\ UNCHANGED <<clock, picker, dates, picks, filled, boxes, requests, returned>>

-----------------------------------------------------------------------------
(* Saving *)

\* What saveBtnClicked asks for before it sends.
Complete == filled /\ Given(dateText) /\ Given(timeText) /\ on # {}

\* showLoadingView.  The mutant sends without a HUD.
Unblocked == UNCHANGED hud
Blocked == hud' = TRUE

\* saveBtnClicked
Save ==
  /\ Tappable /\ Complete /\ sent + stored + refused + trips + late < MaxSaves
  /\ Blocked /\ sent' = sent + 1
  /\ UNCHANGED <<clock, picker, dates, picks, filled, boxes, place, stored,
                 refused, late, trips, lost, returned>>

\* The server makes a trip of a request, or refuses it.
Serve ==
  /\ sent > 0 /\ sent' = sent - 1
  /\ \/ stored' = stored + 1 /\ trips' = trips + 1 /\ UNCHANGED refused
     \/ refused' = refused + 1 /\ UNCHANGED <<stored, trips>>
  /\ UNCHANGED <<clock, picker, dates, picks, filled, boxes, place, hud, late,
                 lost, returned>>

\* No answer comes through: .failure, before or after the server acted.
Fail ==
  /\ refused' = refused + 1 /\ lost' = TRUE
  /\ \/ sent > 0 /\ sent' = sent - 1 /\ late' = late + 1 /\ UNCHANGED stored
     \/ stored > 0 /\ stored' = stored - 1 /\ UNCHANGED <<sent, late>>
  /\ UNCHANGED <<clock, picker, dates, picks, filled, boxes, place, hud, trips,
                 returned>>

\* A request the app gave up reaches the server.
ServeLate ==
  /\ late > 0 /\ late' = late - 1 /\ trips' = trips + 1
  /\ UNCHANGED <<clock, picker, dates, picks, filled, boxes, place, hud, sent,
                 stored, refused, lost, returned>>

\* The completion of createTravel: the HUD goes and, on success, the form.  A
\* form that was popped has no navigation controller to pop from.
Saved ==
  /\ stored > 0 /\ stored' = stored - 1 /\ hud' = FALSE /\ place' = "gone"
  /\ picker' = Closed
  /\ UNCHANGED <<clock, dates, picks, filled, boxes, sent, refused, late, trips,
                 lost, returned>>

\* The mutant leaves the HUD.
NotSavedQuietly == refused > 0 /\ refused' = refused - 1 /\ UNCHANGED hud
NotSaved == refused > 0 /\ refused' = refused - 1 /\ hud' = FALSE

Refusal ==
  /\ NotSaved
  /\ UNCHANGED <<clock, picker, dates, picks, filled, boxes, place, sent,
                 stored, late, trips, lost, returned>>

-----------------------------------------------------------------------------
Answer == Serve \/ Fail \/ Saved \/ Refusal

Next ==
  \/ Tick \/ CancelPicker \/ TapAll \/ Fill \/ Leave \/ Return \/ Back
  \/ Save \/ Answer \/ ServeLate
  \/ \E mode \in {"date", "time"} : OpenPicker(mode)
  \/ \E day \in Date : DateDone(day)
  \/ \E t \in TimeOfDay : TimeDone(t)
  \/ \E i \in Items : TapItem(i)

Spec == Init /\ [][Next]_vars

(* Fairness: a request is answered or times out, and its completion runs. *)
FairSpec == Spec /\ WF_vars(Answer)

-----------------------------------------------------------------------------
(* Safety *)

\* When date and time were picked on one day and within the hour, date first,
\* the trip is saved with the arrival the form shows, or earlier by the time
\* that went by between the two picks: btnEndDateClicked takes the day from
\* date_timestamp, which has the time of day of an earlier moment.
StartNearShown ==
  /\ Given(dateText) /\ Given(timeText) /\ paired
  /\ lag < Hour /\ timeAt.day = dateAt.day
  => startStamp \in {At(dateText, timeText), At(dateText, timeText) - lag}

\* However long ago the date was picked, the arrival saved is never more than
\* an hour before the moment the user was asked for the time, and the fallback
\* of saveBtnClicked to the present moment is never taken.
StartNotPast ==
  Given(timeText) => /\ Given(startStamp)
                     /\ startStamp > At(timeAt.day, timeAt.time) - Hour

\* A box shows its flag unless all boxes were set together since it was last
\* tapped ("Select All" and viewWillAppear do not touch the flags): only then
\* may a tap leave a box as it was.
BoxesFollowFlags == \A i \in Items \ whole : i \in on <=> i \in checked

\* One form makes one trip, unless the form was left for another screen while a
\* request was out, which takes the HUD away, or an answer was lost.
TripOnce == trips > 1 => returned \/ lost

(* Liveness *)

\* The HUD of a save goes away.
FormUnblocked == hud ~> ~hud
=============================================================================
