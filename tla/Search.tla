------------------------------- MODULE Search -------------------------------
(***************************************************************************)
(* The tab "Search" (SearchVC): two fields filled from an autocompletion   *)
(* of places, two dates, the button that searches, the one that starts     *)
(* anew, and the list of trips found.                                      *)
(*                                                                         *)
(* A request empties the list and its answer appends to it and redraws, so *)
(* the list is modelled by the requests whose answers it holds: trip data  *)
(* do not matter.  A request also leaves the fields as they are, and every *)
(* successful answer resets part of them, whatever was filled in since.    *)
(* Requests of Alamofire are answered in any order.                        *)
(***************************************************************************)
EXTENDS Naturals, Sequences

CONSTANTS Ends,        \* the two fields: flying from, flying to
          Cities,      \* places the autocompletion offers that are no country
          Countries,   \* and those that are one
          Blank,       \* nil, and the text of an empty field
          MaxDay,      \* bound: days a date picker is set to
          MaxSearches  \* bound: requests ever made

Places == Cities \cup Countries

ASSUME SearchBounds == MaxDay \in Nat /\ MaxSearches \in Nat \ {0}
ASSUME SearchPlaces == Cities \cap Countries = {} /\ Blank \notin Places

\* Day 1 is past: more than an hour before now.  The day does not change while
\* the filters are being filled in.
Day == 1 .. MaxDay
Today == 2
NoDate == 0
Dates == Day \cup {NoDate}

Serial == 1 .. MaxSearches
Field == [text : Places \cup {Blank},       \* edt_flyingfrom.text
          id : Places \cup {Blank},         \* from_id
          isCountry : BOOLEAN,              \* from_is_country
          country : Countries \cup {Blank}] \* from_country

VARIABLES
  field,      \* the fields flying from and flying to, and what they stand for
  startText,  \* edt_fromdate.text
  endText,    \* edt_todate.text
  start,      \* start_timestamp
  end,        \* end_timestamp
  found,      \* ds_search: the requests whose answers it holds
  drawn,      \* the rows of the last reloadData
  shown,      \* the screen is visible
  hud,        \* a HUD covers it
  made,       \* requests made
  out,        \* those not answered yet
  \* observations
  alone,      \* nothing else was outstanding when the last request was made
  failed,     \* an answer brought no list, and no list came since
  left,       \* the screen was left while a list was awaited, and none came since
  wiped,      \* fields emptied by Refresh and not filled or reset since
  worn,       \* fields whose country is that of an earlier place
  dropped     \* dates of which an end date that was refused changed one side only

dates == <<startText, endText, start, end>>
list == <<found, drawn>>
requests == <<made, out>>
watchList == <<alone, failed, left>>
watchFields == <<wiped, worn, dropped>>
vars == <<field, dates, list, shown, hud, requests, watchList, watchFields>>

TypeOK ==
  /\ field \in [Ends -> Field]
  /\ startText \in Dates /\ endText \in Dates /\ start \in Dates /\ end \in Dates
  /\ found \in Seq(Serial) /\ drawn \in Seq(Serial)
  /\ shown \in BOOLEAN /\ hud \in BOOLEAN
  /\ made \in Serial /\ out \subseteq Serial
  /\ alone \in BOOLEAN /\ failed \in BOOLEAN /\ left \in BOOLEAN
  /\ wiped \subseteq Ends /\ worn \subseteq Ends
  /\ dropped \subseteq {"start", "end"}

EmptyField == [text |-> Blank, id |-> Blank, isCountry |-> FALSE, country |-> Blank]

\* viewDidLoad has asked for all trips.
Fresh(serial) ==
  /\ field' = [e \in Ends |-> EmptyField]
  /\ startText' = NoDate /\ endText' = NoDate /\ start' = NoDate /\ end' = NoDate
  /\ found' = <<>> /\ drawn' = <<>> /\ shown' = TRUE /\ hud' = TRUE
  /\ made' = serial /\ out' = {serial}
  /\ alone' = TRUE /\ failed' = FALSE /\ left' = FALSE
  /\ wiped' = {} /\ worn' = {} /\ dropped' = {}

Init ==
  /\ field = [e \in Ends |-> EmptyField]
  /\ startText = NoDate /\ endText = NoDate /\ start = NoDate /\ end = NoDate
  /\ found = <<>> /\ drawn = <<>> /\ shown = TRUE /\ hud = TRUE
  /\ made = 1 /\ out = {1}
  /\ alone = TRUE /\ failed = FALSE /\ left = FALSE
  /\ wiped = {} /\ worn = {} /\ dropped = {}

\* The HUD covers the view, not the bars.
Touchable == shown /\ ~hud

-----------------------------------------------------------------------------
(* The filters *)

\* What a field becomes when a place is chosen: from_country is written for a
\* country and kept for a city.  The mutant keeps from_is_country for a city too.
OfCountry(p) == [text |-> p, id |-> p, isCountry |-> TRUE, country |-> p]
TakenLoosely(f, p) ==
  IF p \in Countries THEN OfCountry(p) ELSE [f EXCEPT !.text = p, !.id = p]
Taken(f, p) ==
  IF p \in Countries THEN OfCountry(p)
  ELSE [text |-> p, id |-> p, isCountry |-> FALSE, country |-> f.country]

\* flyingFromFieldTapped or flyingToFieldTapped, and didAutocompleteWith.
ChoosePlace(e, p) ==
  /\ Touchable
  /\ field' = [field EXCEPT ![e] = Taken(field[e], p)]
  /\ wiped' = wiped \ {e}
  /\ worn' = IF p \in Cities /\ field[e].country # Blank THEN worn \cup {e}
             ELSE worn \ {e}
  /\ UNCHANGED <<dates, list, shown, hud, requests, watchList, dropped>>

\* btnStartDateClicked: a past day empties the field and the filter.
ChooseStart(d) ==
  /\ Touchable
  /\ start' = IF d < Today THEN NoDate ELSE d
  /\ startText' = start'
  /\ dropped' = dropped \ {"start"}
  /\ UNCHANGED <<field, endText, end, list, shown, hud, requests, watchList,
                 wiped, worn>>

\* Whether an end date is refused: it is past, or not after the start, which is
\* an hour from now if there is none.  A date picker keeps the time of day it was
\* opened at, so an end on the start's own day is the later one.
EndRefused(d) == d < Today \/ IF start = NoDate THEN d = Today ELSE d < start

\* btnEndDateClicked, an end that is accepted.
ChooseEnd(d) ==
  /\ Touchable /\ ~EndRefused(d)
  /\ end' = d /\ endText' = d
  /\ dropped' = dropped \ {"end"}
  /\ UNCHANGED <<field, startText, start, list, shown, hud, requests, watchList,
                 wiped, worn>>

\* btnEndDateClicked, an end that is refused: the text that is emptied is that of
\* the end, the filter that is emptied that of the start.
RefuseEnd(d) ==
  /\ Touchable /\ EndRefused(d)
  /\ start' = NoDate /\ endText' = NoDate
  /\ dropped' = {"start", "end"}
  /\ UNCHANGED <<field, startText, end, list, shown, hud, requests, watchList,
                 wiped, worn>>

-----------------------------------------------------------------------------
(* Requests *)

\* removeAll.  The mutant leaves the list to the answer.
EmptiedNever == found
Emptied == <<>>

\* showLoadingView.  The mutant searches without a HUD.
Uncovered == UNCHANGED hud
Covered == hud' = TRUE

\* setDataSource: the list goes, the drawn rows stay under the HUD.
Ask ==
  /\ made < MaxSearches
  /\ made' = made + 1 /\ out' = out \cup {made + 1}
  /\ found' = Emptied /\ Covered
  /\ alone' = (out = {}) /\ failed' = FALSE /\ left' = FALSE
  /\ UNCHANGED <<drawn, shown>>

\* searchBtnClicked: what is sent is what the fields hold.
Search ==
  /\ Touchable /\ Ask
  /\ UNCHANGED <<field, dates, watchFields>>

\* refreshBtnClicked: texts and dates go, the ids and countries stay for now,
\* and none of them is sent.
Refresh ==
  /\ Touchable /\ Ask
  /\ field' = [e \in Ends |-> [field[e] EXCEPT !.text = Blank]]
  /\ startText' = NoDate /\ endText' = NoDate /\ start' = NoDate /\ end' = NoDate
  /\ wiped' = Ends /\ dropped' = {}
  /\ UNCHANGED worn

\* What every successful answer does to the fields; the country is reset only
\* when trips were found.
Reset(f) ==
  [text |-> Blank, id |-> Blank, isCountry |-> FALSE, country |-> f.country]

\* The completion of getTravel with trips: appended, drawn, the fields reset.
Listed(n) ==
  /\ n \in out /\ out' = out \ {n} /\ hud' = FALSE
  /\ found' = Append(found, n) /\ drawn' = found'
  /\ field' = [e \in Ends |-> EmptyField]
  /\ failed' = FALSE /\ left' = FALSE /\ wiped' = {} /\ worn' = {}
  /\ UNCHANGED <<dates, shown, made, alone, dropped>>

\* What reloadData draws when no trip was found.  The mutant reloads only in the
\* loop over the trips.
DrawnInLoop == drawn
DrawnAnyway == found

\* The completion with an empty list.
NoneFound(n) ==
  /\ n \in out /\ out' = out \ {n} /\ hud' = FALSE
  /\ drawn' = DrawnAnyway
  /\ field' = [e \in Ends |-> Reset(field[e])]
  /\ failed' = FALSE /\ left' = FALSE /\ wiped' = {}
  /\ worn' = {e \in Ends : field[e].country # Blank}
  /\ UNCHANGED <<dates, found, shown, made, alone, dropped>>

\* The completion without one: refused, timed out, or success of another shape.
NoAnswer(n) ==
  /\ n \in out /\ out' = out \ {n} /\ hud' = FALSE
  /\ failed' = TRUE
  /\ UNCHANGED <<field, dates, list, shown, made, alone, left, watchFields>>

Answer(n) == Listed(n) \/ NoneFound(n) \/ NoAnswer(n)

-----------------------------------------------------------------------------
(* The screen *)

\* Another tab, or the page of a trip or of a user, comes over the screen;
\* viewDidDisappear hides the HUD.
Leave ==
  /\ shown /\ shown' = FALSE /\ hud' = FALSE
  /\ left' = (left \/ out # {})
  /\ UNCHANGED <<field, dates, list, requests, alone, failed, watchFields>>

\* viewWillAppear: nothing is loaded again.
Return ==
  /\ ~shown /\ shown' = TRUE
  /\ UNCHANGED <<field, dates, list, hud, requests, watchList, watchFields>>

\* A row that is drawn and no longer held is tapped or redrawn: the subscript
\* traps, and the app is started again.
Trap ==
  /\ Touchable /\ Len(found) < Len(drawn)
  /\ made < MaxSearches /\ Fresh(made + 1)

Next ==
  \/ \E e \in Ends, p \in Places : ChoosePlace(e, p)
  \/ \E d \in Day : ChooseStart(d) \/ ChooseEnd(d) \/ RefuseEnd(d)
  \/ Search \/ Refresh \/ Leave \/ Return \/ Trap
  \/ \E n \in Serial : Answer(n)

Spec == Init /\ [][Next]_vars

\* Alamofire answers or times out, and the completion runs.
Fairness == \A n \in Serial : WF_vars(Answer(n))
FairSpec == Spec /\ Fairness

-----------------------------------------------------------------------------
(* Properties *)

\* The id and the country flag that a search sends for a field are those of the
\* place its text names; the code is that of a country, and of nothing else.
PlaceAsShown(e) == /\ field[e].id = field[e].text
                   /\ field[e].isCountry <=> field[e].text \in Countries
CodeMeant(e) == IF field[e].text \in Countries THEN field[e].text ELSE Blank

\* A search sends the filters its fields show: the id and the country flag of the
\* place unless Refresh emptied only its text (wiped), its country code unless it
\* is left over from an earlier place (worn), a date unless an end date was
\* refused, which empties one text and the other date (dropped).
FiltersAsShown ==
  /\ \A e \in Ends :
       /\ e \notin wiped => PlaceAsShown(e)
       /\ e \notin wiped \cup worn => field[e].country = CodeMeant(e)
  /\ "start" \notin dropped => start = startText
  /\ "end" \notin dropped => end = endText

\* The list holds the answer to the last request and to no other, if nothing else
\* was outstanding when it was made; once that answer is there, it is drawn.
RowsOfLast ==
  alone => /\ found \in {<<>>, <<made>>}
           /\ out \subseteq {made}
           /\ made \in out => found = <<>>
           /\ out = {} /\ ~failed => drawn = found

\* While the rows can be touched they are the ones held, so no subscript traps,
\* unless loading failed or the screen was left, which hides the HUD, while a
\* list was awaited.
RowsHeld == Touchable /\ ~failed /\ ~left => found = drawn

\* A list that is awaited comes, or fails to, and the HUD goes.
ListSettles ==
  (found # drawn \/ hud) ~> (~hud /\ (found = drawn \/ failed))
=============================================================================
