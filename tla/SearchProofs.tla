---------------------------- MODULE SearchProofs ----------------------------
(***************************************************************************)
(* Theorems about Search, for any places, days and number of requests.     *)
(***************************************************************************)
EXTENDS Search, SequenceTheorems, TLAPS

\* A list that is extended by the number of a request is one.
LEMMA Appended ==
  ASSUME NEW s \in Seq(Serial), NEW n \in Serial
  PROVE  Append(s, n) \in Seq(Serial)
  OBVIOUS

LEMMA FieldShapes ==
  /\ EmptyField \in Field
  /\ \A f \in Field, p \in Places : Taken(f, p) \in Field
  /\ \A f \in Field : Reset(f) \in Field /\ [f EXCEPT !.text = Blank] \in Field
  <1>1. EmptyField \in Field BY DEF EmptyField, Field
  <1>2. ASSUME NEW f \in Field, NEW p \in Places PROVE Taken(f, p) \in Field
    <2>1. f.country \in Countries \cup {Blank} BY DEF Field
    <2> QED BY <2>1 DEF Taken, OfCountry, Field
  <1>3. ASSUME NEW f \in Field
        PROVE  Reset(f) \in Field /\ [f EXCEPT !.text = Blank] \in Field
    <2>1. Reset(f) = [text |-> Blank, id |-> Blank, isCountry |-> FALSE,
                      country |-> f.country]
      BY DEF Reset, EmptyField
    <2>2. [f EXCEPT !.text = Blank] = [text |-> Blank, id |-> f.id,
                          isCountry |-> f.isCountry, country |-> f.country]
      BY DEF Field
    <2>3. f.id \in Places \cup {Blank} /\ f.country \in Countries \cup {Blank}
          /\ f.isCountry \in BOOLEAN
      BY DEF Field
    <2> QED BY <2>1, <2>2, <2>3 DEF Field
  <1> QED BY <1>1, <1>2, <1>3

LEMMA AskTyped ==
  ASSUME TypeOK, Ask
  PROVE  /\ found' \in Seq(Serial) /\ drawn' \in Seq(Serial)
         /\ shown' \in BOOLEAN /\ hud' \in BOOLEAN
         /\ made' \in Serial /\ out' \subseteq Serial
         /\ alone' \in BOOLEAN /\ failed' \in BOOLEAN /\ left' \in BOOLEAN
  <1>1. made' \in Serial /\ out' \subseteq Serial
    BY SearchBounds DEF TypeOK, Ask, Serial
  <1>2. found' \in Seq(Serial) /\ drawn' \in Seq(Serial)
    BY DEF TypeOK, Ask, Emptied
  <1>3. shown' \in BOOLEAN /\ hud' \in BOOLEAN
    BY DEF TypeOK, Ask, Covered
  <1>4. alone' \in BOOLEAN /\ failed' \in BOOLEAN /\ left' \in BOOLEAN
    BY DEF Ask
  <1> QED BY <1>1, <1>2, <1>3, <1>4

\* Every variable of the screen keeps its type, and the list holds answers to
\* requests that were made.
THEOREM SearchTyped == Spec => []TypeOK
  <1>1. Init => TypeOK
    <2> SUFFICES ASSUME Init PROVE TypeOK OBVIOUS
    <2>1. field \in [Ends -> Field] BY FieldShapes DEF Init
    <2>2. made \in Serial /\ out \subseteq Serial BY SearchBounds DEF Init, Serial
    <2>3. shown \in BOOLEAN /\ hud \in BOOLEAN /\ alone \in BOOLEAN
          /\ failed \in BOOLEAN /\ left \in BOOLEAN
      BY Zenon DEF Init
    <2>4. found \in Seq(Serial) /\ drawn \in Seq(Serial) BY DEF Init
    <2>5. /\ startText \in Dates /\ endText \in Dates
          /\ start \in Dates /\ end \in Dates
          /\ wiped \subseteq Ends /\ worn \subseteq Ends /\ dropped \subseteq {"start", "end"}
      BY DEF Init, Dates
    <2> QED BY <2>1, <2>2, <2>3, <2>4, <2>5 DEF TypeOK
  <1>2. TypeOK /\ [Next]_vars => TypeOK'
    <2> SUFFICES ASSUME TypeOK, [Next]_vars PROVE TypeOK' OBVIOUS
    <2> USE FieldShapes
    <2>1. ASSUME NEW e \in Ends, NEW p \in Places, ChoosePlace(e, p) PROVE TypeOK'
      BY <2>1 DEF ChoosePlace, TypeOK, dates, list, requests, watchList
    <2>2. ASSUME NEW d \in Day, ChooseStart(d) \/ ChooseEnd(d) \/ RefuseEnd(d)
          PROVE  TypeOK'
      <3>1. startText' \in Dates /\ endText' \in Dates /\ start' \in Dates
            /\ end' \in Dates
        BY <2>2 DEF ChooseStart, ChooseEnd, RefuseEnd, TypeOK, Dates
      <3> QED BY <3>1, <2>2
            DEF ChooseStart, ChooseEnd, RefuseEnd, TypeOK, list, requests, watchList
    <2>3. CASE Search
      BY <2>3, AskTyped DEF Search, TypeOK, dates, watchFields
    <2>4. CASE Refresh
      <3>1. field' \in [Ends -> Field]
        BY <2>4 DEF Refresh, TypeOK
      <3>2. startText' \in Dates /\ endText' \in Dates /\ start' \in Dates
            /\ end' \in Dates
        BY <2>4 DEF Refresh, Dates
      <3> QED BY <2>4, <3>1, <3>2, AskTyped DEF Refresh, TypeOK
    <2>5. CASE Leave
      BY <2>5 DEF Leave, TypeOK, dates, list, requests, watchFields
    <2>6. CASE Return
      BY <2>6 DEF Return, TypeOK, dates, list, requests, watchList, watchFields
    <2>7. CASE Trap
      <3>1. made' \in Serial /\ out' \subseteq Serial
        BY <2>7, SearchBounds DEF Trap, Fresh, TypeOK, Serial
      <3>2. field' \in [Ends -> Field] BY <2>7 DEF Trap, Fresh
      <3>3. shown' \in BOOLEAN /\ hud' \in BOOLEAN /\ alone' \in BOOLEAN
            /\ failed' \in BOOLEAN /\ left' \in BOOLEAN
        BY <2>7, Zenon DEF Trap, Fresh
      <3>4. found' \in Seq(Serial) /\ drawn' \in Seq(Serial)
        BY <2>7 DEF Trap, Fresh
      <3>5. /\ startText' \in Dates /\ endText' \in Dates
            /\ start' \in Dates /\ end' \in Dates
            /\ wiped' \subseteq Ends /\ worn' \subseteq Ends
            /\ dropped' \subseteq {"start", "end"}
        BY <2>7 DEF Trap, Fresh, Dates
      <3> QED BY <3>1, <3>2, <3>3, <3>4, <3>5 DEF TypeOK
    <2>8. ASSUME NEW n \in Serial, Answer(n) PROVE TypeOK'
      <3>1. CASE Listed(n)
        <4>1. found' \in Seq(Serial) BY <3>1, Appended DEF Listed, TypeOK
        <4>2. field' \in [Ends -> Field] BY <3>1 DEF Listed
        <4> QED BY <3>1, <4>1, <4>2 DEF Listed, TypeOK, dates
      <3>2. CASE NoneFound(n)
        <4>1. field' \in [Ends -> Field] BY <3>2 DEF NoneFound, TypeOK
        <4> QED BY <3>2, <4>1 DEF NoneFound, DrawnAnyway, TypeOK, dates
      <3>3. CASE NoAnswer(n)
        BY <3>3 DEF NoAnswer, TypeOK, dates, list, watchFields
      <3> QED BY <2>8, <3>1, <3>2, <3>3 DEF Answer
    <2>9. CASE UNCHANGED vars
      BY <2>9 DEF vars, TypeOK, dates, list, requests, watchList, watchFields
    <2> QED BY <2>1, <2>2, <2>3, <2>4, <2>5, <2>6, <2>7, <2>8, <2>9 DEF Next
  <1> QED BY <1>1, <1>2, PTL DEF Spec

-----------------------------------------------------------------------------
(* The filters *)

\* One field, as FiltersAsShown speaks of it; a country code that is not worn is
\* that of the text, or there is none.
FieldAsShown(e) ==
  /\ e \notin wiped => PlaceAsShown(e)
  /\ e \notin wiped \cup worn => field[e].country = CodeMeant(e)

\* What Refresh leaves behind belongs to no text: a field that is not worn and is
\* emptied by Refresh is filled again by a place or reset by an answer.
DatesAsShown ==
  /\ "start" \notin dropped => start = startText
  /\ "end" \notin dropped => end = endText
FilterInv == (\A e \in Ends : FieldAsShown(e)) /\ DatesAsShown

\* A field that has just been filled shows what it sends.
LEMMA ChosenAsShown ==
  ASSUME TypeOK, FilterInv, NEW e \in Ends, NEW p \in Places, ChoosePlace(e, p)
  PROVE  \A f \in Ends : FieldAsShown(f)'
  <1> SUFFICES ASSUME NEW f \in Ends PROVE FieldAsShown(f)' OBVIOUS
  <1>1. CASE f = e
    <2>1. field'[e] = Taken(field[e], p) BY DEF ChoosePlace, TypeOK
    <2>2. field'[e].text = p /\ field'[e].id = p
          /\ field'[e].country = IF p \in Countries THEN p ELSE field[e].country
      BY <2>1 DEF Taken, OfCountry
    <2>5. field'[e].isCountry <=> p \in Countries
      BY <2>1 DEF Taken, OfCountry
    <2>3. PlaceAsShown(e)' BY <2>2, <2>5 DEF PlaceAsShown
    <2>4. ASSUME e \notin worn' PROVE field'[e].country = CodeMeant(e)'
      <3>1. p \in Cities => field[e].country = Blank BY <2>4 DEF ChoosePlace
      <3> QED BY <2>2, <3>1, SearchPlaces DEF CodeMeant, Places
    <2> QED BY <1>1, <2>3, <2>4 DEF FieldAsShown
  <1>2. CASE f # e
    <2>1. field'[f] = field[f] BY <1>2 DEF ChoosePlace, TypeOK
    <2>2. (f \in wiped' <=> f \in wiped) /\ (f \in worn' <=> f \in worn)
      BY <1>2 DEF ChoosePlace
    <2>3. FieldAsShown(f) BY DEF FilterInv
    <2>4. (PlaceAsShown(f)' <=> PlaceAsShown(f)) /\ CodeMeant(f)' = CodeMeant(f)
      BY <2>1 DEF PlaceAsShown, CodeMeant
    <2> QED BY <2>1, <2>2, <2>3, <2>4 DEF FieldAsShown
  <1> QED BY <1>1, <1>2

\* What an answer resets shows what it sends.
LEMMA ResetAsShown ==
  ASSUME NEW e \in Ends, TypeOK,
         field'[e] = EmptyField \/ field'[e] = Reset(field[e]),
         field'[e] = Reset(field[e]) /\ e \notin worn' => field[e].country = Blank
  PROVE  FieldAsShown(e)'
  <1>1. field'[e].text = Blank /\ field'[e].id = Blank /\ field'[e].isCountry = FALSE
    BY DEF EmptyField, Reset
  <1>2. e \notin worn' => field'[e].country = Blank
    BY DEF EmptyField, Reset
  <1>3. Blank \notin Countries BY SearchPlaces DEF Places
  <1>4. PlaceAsShown(e)' BY <1>1, <1>3 DEF PlaceAsShown
  <1>5. CodeMeant(e)' = Blank BY <1>1, <1>3 DEF CodeMeant
  <1> QED BY <1>2, <1>4, <1>5 DEF FieldAsShown

\* What does not touch a field leaves it as it is shown.
LEMMA KeptAsShown ==
  ASSUME FilterInv, UNCHANGED <<field, wiped, worn>>
  PROVE  \A e \in Ends : FieldAsShown(e)'
  BY DEF FilterInv, FieldAsShown, PlaceAsShown, CodeMeant

LEMMA DatesKept ==
  ASSUME FilterInv, UNCHANGED <<dates, dropped>>
  PROVE  DatesAsShown'
  BY DEF FilterInv, DatesAsShown, dates

\* A search sends the filters the fields show, up to what Refresh, a place chosen
\* over another or a refused end date is known to leave behind.
THEOREM FiltersMatch == Spec => []FiltersAsShown
  <1>1. Init => FilterInv
    <2> SUFFICES ASSUME Init, NEW e \in Ends PROVE FieldAsShown(e) /\ DatesAsShown
      BY DEF FilterInv, Init, DatesAsShown
    <2>1. field[e] = EmptyField BY DEF Init
    <2>2. field[e].text = Blank /\ field[e].id = Blank /\ field[e].isCountry = FALSE
          /\ field[e].country = Blank
      BY <2>1 DEF EmptyField
    <2>3. Blank \notin Countries BY SearchPlaces DEF Places
    <2>4. FieldAsShown(e) BY <2>2, <2>3 DEF FieldAsShown, PlaceAsShown, CodeMeant
    <2> QED BY <2>4 DEF Init, DatesAsShown
  <1>2. TypeOK /\ FilterInv /\ [Next]_vars => FilterInv'
    <2> SUFFICES ASSUME TypeOK, FilterInv, [Next]_vars
                 PROVE  (\A e \in Ends : FieldAsShown(e)') /\ DatesAsShown'
      BY DEF FilterInv
    <2>1. ASSUME NEW e \in Ends, NEW p \in Places, ChoosePlace(e, p)
          PROVE  (\A f \in Ends : FieldAsShown(f)') /\ DatesAsShown'
      <3>1. UNCHANGED <<dates, dropped>> BY <2>1 DEF ChoosePlace
      <3> QED BY <2>1, <3>1, ChosenAsShown, DatesKept
    <2>2. ASSUME NEW d \in Day, ChooseStart(d) \/ ChooseEnd(d) \/ RefuseEnd(d)
          PROVE  (\A e \in Ends : FieldAsShown(e)') /\ DatesAsShown'
      <3>1. UNCHANGED <<field, wiped, worn>>
        BY <2>2 DEF ChooseStart, ChooseEnd, RefuseEnd
      <3>2. ChooseStart(d) => DatesAsShown'
        BY DEF ChooseStart, FilterInv, DatesAsShown
      <3>3. ChooseEnd(d) => DatesAsShown'
        BY DEF ChooseEnd, FilterInv, DatesAsShown
      <3>4. RefuseEnd(d) => DatesAsShown'
        BY DEF RefuseEnd, DatesAsShown
      <3> QED BY <2>2, <3>1, <3>2, <3>3, <3>4, KeptAsShown
    <2>3. CASE Search
      BY <2>3, KeptAsShown, DatesKept DEF Search, watchFields
    <2>4. CASE Refresh
      <3>1. wiped' = Ends BY <2>4 DEF Refresh
      <3> QED BY <2>4, <3>1 DEF Refresh, FieldAsShown, DatesAsShown
    <2>5. CASE Leave \/ Return
      BY <2>5, KeptAsShown, DatesKept DEF Leave, Return, watchFields
    <2>6. CASE Trap
      <3>1. ASSUME NEW e \in Ends PROVE FieldAsShown(e)'
        <4>1. field'[e] = EmptyField BY <2>6 DEF Trap, Fresh
        <4>2. EmptyField # Reset(field[e]) \/ field[e].country = Blank
          BY DEF EmptyField, Reset
        <4> QED BY <4>1, <4>2, ResetAsShown
      <3> QED BY <2>6, <3>1 DEF Trap, Fresh, DatesAsShown
    <2>7. ASSUME NEW n \in Serial, Answer(n)
          PROVE  (\A e \in Ends : FieldAsShown(e)') /\ DatesAsShown'
      <3>1. CASE Listed(n)
        <4>1. ASSUME NEW e \in Ends PROVE FieldAsShown(e)'
          <5>1. field'[e] = EmptyField BY <3>1 DEF Listed
          <5>2. EmptyField # Reset(field[e]) \/ field[e].country = Blank
            BY DEF EmptyField, Reset
          <5> QED BY <5>1, <5>2, ResetAsShown
        <4> QED BY <3>1, <4>1, DatesKept DEF Listed
      <3>2. CASE NoneFound(n)
        <4>1. ASSUME NEW e \in Ends PROVE FieldAsShown(e)'
          BY <3>2, ResetAsShown DEF NoneFound
        <4> QED BY <3>2, <4>1, DatesKept DEF NoneFound
      <3>3. CASE NoAnswer(n)
        BY <3>3, KeptAsShown, DatesKept DEF NoAnswer, watchFields
      <3> QED BY <2>7, <3>1, <3>2, <3>3 DEF Answer
    <2>8. CASE UNCHANGED vars
      BY <2>8, KeptAsShown, DatesKept DEF vars, watchFields
    <2> QED BY <2>1, <2>2, <2>3, <2>4, <2>5, <2>6, <2>7, <2>8 DEF Next
  <1>3. FilterInv => FiltersAsShown
    BY DEF FilterInv, FieldAsShown, DatesAsShown, FiltersAsShown
  <1> QED BY <1>1, <1>2, <1>3, SearchTyped, PTL DEF Spec

-----------------------------------------------------------------------------
(* The list *)

\* The list of the last request alone: it has that answer, and no other.
THEOREM ListOfLast == Spec => []RowsOfLast
  <1>1. Init => RowsOfLast
    BY DEF Init, RowsOfLast
  <1>2. TypeOK /\ RowsOfLast /\ [Next]_vars => RowsOfLast'
    <2> SUFFICES ASSUME TypeOK, RowsOfLast, [Next]_vars PROVE RowsOfLast' OBVIOUS
    <2>1. CASE Search \/ Refresh
      <3>1. Ask BY <2>1 DEF Search, Refresh
      <3>2. alone' => out' = {made'} BY <3>1 DEF Ask
      <3>3. found' = <<>> BY <3>1 DEF Ask, Emptied
      <3> QED BY <3>2, <3>3 DEF RowsOfLast
    <2>2. CASE Trap
      BY <2>2 DEF Trap, Fresh, RowsOfLast
    <2>3. ASSUME NEW n \in Serial, Answer(n) PROVE RowsOfLast'
      <3> SUFFICES ASSUME alone' PROVE RowsOfLast' BY DEF RowsOfLast
      <3>1. alone /\ made' = made /\ n \in out
        BY <2>3 DEF Answer, Listed, NoneFound, NoAnswer
      <3>2. n = made /\ found = <<>> BY <3>1 DEF RowsOfLast
      <3>3. out' = {} BY <2>3, <3>1, <3>2 DEF Answer, Listed, NoneFound, NoAnswer, RowsOfLast
      <3>4. CASE Listed(n)
        BY <3>1, <3>2, <3>3, <3>4 DEF Listed, RowsOfLast
      <3>5. CASE NoneFound(n)
        BY <3>1, <3>2, <3>3, <3>5 DEF NoneFound, DrawnAnyway, RowsOfLast
      <3>6. CASE NoAnswer(n)
        <4>1. failed' = TRUE /\ UNCHANGED list BY <3>6 DEF NoAnswer
        <4> QED BY <3>1, <3>2, <3>3, <4>1 DEF list, RowsOfLast
      <3> QED BY <2>3, <3>4, <3>5, <3>6 DEF Answer
    <2>4. CASE UNCHANGED <<list, requests, alone, failed>>
      BY <2>4 DEF list, requests, RowsOfLast
    <2>5. ASSUME NEW e \in Ends, NEW p \in Places, ChoosePlace(e, p)
          PROVE  UNCHANGED <<list, requests, alone, failed>>
      BY <2>5 DEF ChoosePlace, watchList
    <2>6. ASSUME NEW d \in Day, ChooseStart(d) \/ ChooseEnd(d) \/ RefuseEnd(d)
          PROVE  UNCHANGED <<list, requests, alone, failed>>
      BY <2>6 DEF ChooseStart, ChooseEnd, RefuseEnd, watchList
    <2>7. ASSUME Leave \/ Return \/ UNCHANGED vars
          PROVE  UNCHANGED <<list, requests, alone, failed>>
      BY <2>7 DEF Leave, Return, vars, watchList
    <2> QED BY <2>1, <2>2, <2>3, <2>4, <2>5, <2>6, <2>7 DEF Next
  <1> QED BY <1>1, <1>2, SearchTyped, PTL DEF Spec

\* The HUD is up as long as the rows drawn are not those held, unless it was
\* lowered by a failure or by leaving the screen.
HeldInv == found = drawn \/ hud \/ failed \/ left
\* A HUD lies only over a visible screen with a request under way.
HudInv == hud => shown /\ out # {}

LEMMA HudStays ==
  TypeOK /\ HeldInv /\ HudInv /\ [Next]_vars => HeldInv' /\ HudInv'
<1> SUFFICES ASSUME TypeOK, HeldInv, HudInv, [Next]_vars
             PROVE  HeldInv' /\ HudInv'
  OBVIOUS
<1>1. CASE Search \/ Refresh
  <2>1. Ask /\ shown BY <1>1 DEF Search, Refresh, Touchable
  <2> QED BY <2>1 DEF Ask, Covered, HeldInv, HudInv
<1>2. CASE Trap
  BY <1>2 DEF Trap, Fresh, HeldInv, HudInv
<1>3. ASSUME NEW n \in Serial, Answer(n) PROVE HeldInv' /\ HudInv'
  BY <1>3 DEF Answer, Listed, NoneFound, DrawnAnyway, NoAnswer, HeldInv, HudInv
<1>4. CASE Leave
  BY <1>4 DEF Leave, list, HeldInv, HudInv
<1>5. CASE Return
  BY <1>5 DEF Return, list, watchList, requests, HeldInv, HudInv
<1>6. CASE UNCHANGED <<list, hud, shown, requests, watchList>>
  BY <1>6 DEF list, requests, watchList, HeldInv, HudInv
<1>7. ASSUME NEW e \in Ends, NEW p \in Places, ChoosePlace(e, p)
      PROVE  UNCHANGED <<list, hud, shown, requests, watchList>>
  BY <1>7 DEF ChoosePlace
<1>8. ASSUME NEW d \in Day, ChooseStart(d) \/ ChooseEnd(d) \/ RefuseEnd(d)
      PROVE  UNCHANGED <<list, hud, shown, requests, watchList>>
  BY <1>8 DEF ChooseStart, ChooseEnd, RefuseEnd
<1>9. CASE UNCHANGED vars
  BY <1>6, <1>9 DEF vars
<1> QED BY <1>1, <1>2, <1>3, <1>4, <1>5, <1>6, <1>7, <1>8, <1>9 DEF Next

LEMMA HudHolds == Spec => [](HeldInv /\ HudInv)
<1>1. Init => HeldInv /\ HudInv
  BY DEF Init, HeldInv, HudInv
<1> QED BY <1>1, HudStays, SearchTyped, PTL DEF Spec

\* While the rows can be touched they are the ones held, unless loading failed or
\* the screen was left: SearchVC draws under its HUD.
THEOREM RowsUnderHud == Spec => []RowsHeld
<1>1. HeldInv /\ HudInv => RowsHeld
  BY DEF HeldInv, HudInv, RowsHeld, Touchable
<1> QED BY <1>1, HudHolds, PTL
-----------------------------------------------------------------------------
(* At rest *)

\* With no request under way, no HUD lies over the screen, and the rows drawn are
\* those held unless the last answer brought no list.
SearchRest == out = {} => ~hud /\ (found = drawn \/ failed)

\* What the completions of getTravel leave behind, in whatever order and however
\* often they come, whether or not the screen was left meanwhile: the safety half
\* of ListSettles.
THEOREM SearchRests == Spec => []SearchRest
<1>1. Init => SearchRest
  BY DEF Init, SearchRest
<1>2. SearchRest /\ HudInv /\ [Next]_vars => SearchRest'
  <2> SUFFICES ASSUME SearchRest, HudInv, [Next]_vars PROVE SearchRest'
    OBVIOUS
  <2>1. CASE Search \/ Refresh
    <3>1. made + 1 \in out' BY <2>1 DEF Search, Refresh, Ask
    <3> QED BY <3>1 DEF SearchRest
  <2>2. CASE Trap
    BY <2>2 DEF Trap, Fresh, SearchRest
  <2>3. ASSUME NEW n \in Serial, Answer(n) PROVE SearchRest'
    BY <2>3 DEF Answer, Listed, NoneFound, DrawnAnyway, NoAnswer, SearchRest
  <2>4. CASE Leave
    BY <2>4 DEF Leave, list, requests, SearchRest
  <2>5. CASE UNCHANGED <<list, hud, requests, failed>>
    BY <2>5 DEF list, requests, SearchRest
  <2>6. CASE Return \/ UNCHANGED vars
    BY <2>5, <2>6 DEF Return, vars, watchList
  <2>7. ASSUME NEW e \in Ends, NEW p \in Places, ChoosePlace(e, p)
        PROVE  UNCHANGED <<list, hud, requests, failed>>
    BY <2>7 DEF ChoosePlace, watchList
  <2>8. ASSUME NEW d \in Day, ChooseStart(d) \/ ChooseEnd(d) \/ RefuseEnd(d)
        PROVE  UNCHANGED <<list, hud, requests, failed>>
    BY <2>8 DEF ChooseStart, ChooseEnd, RefuseEnd, watchList
  <2> QED BY <2>1, <2>2, <2>3, <2>4, <2>5, <2>6, <2>7, <2>8 DEF Next
<1> QED BY <1>1, <1>2, HudHolds, PTL DEF Spec
=============================================================================
