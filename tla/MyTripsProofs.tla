---------------------------- MODULE MyTripsProofs ----------------------------
(* Theorems about MyTrips, for every bound and every set of values. *)
EXTENDS MyTrips, WellFoundedInduction, TLAPS

(* Requests *)

\* A request is of the set its kind names.
LEMMA Kinds ==
  ASSUME NEW r \in Requests
  PROVE  /\ r.kind = "list" => r \in ListRequests
         /\ r.kind = "change" => r \in ChangeRequests
         /\ r.kind = "none" <=> r = Free
         /\ r.kind \in {"none", "list", "change"}
BY DEF Requests, Free, ListRequests, ChangeRequests

LEMMA PostedTyped ==
  ASSUME NEW reqs \in [Slot -> Requests], NEW r \in Requests
  PROVE  Posted(reqs, r) \in [Slot -> Requests]
BY DEF Posted

LEMMA OrphanedTyped ==
  ASSUME NEW reqs \in [Slot -> Requests]
  PROVE  Orphaned(reqs) \in [Slot -> Requests]
<1>1. SUFFICES ASSUME NEW s \in Slot, reqs[s].kind = "change"
               PROVE  [reqs[s] EXCEPT !.here = FALSE] \in Requests
  BY DEF Orphaned
<1>2. reqs[s] \in ChangeRequests
  BY <1>1, Kinds
<1> QED
  BY <1>2 DEF ChangeRequests, Requests

LEMMA AnsweredTyped ==
  ASSUME req \in [Slot -> Requests], NEW s \in Slot
  PROVE  Answered(s) \in [Slot -> Requests]
BY DEF Answered, Requests

LEMMA ListRequestTyped == ListRequest \in Requests
BY DEF ListRequest, Requests, ListRequests, Lists

\* What an orphan keeps.
LEMMA Orphans ==
  ASSUME NEW reqs \in [Slot -> Requests], NEW s \in Slot
  PROVE  /\ Orphaned(reqs)[s].kind = reqs[s].kind
         /\ reqs[s].kind # "change" => Orphaned(reqs)[s] = reqs[s]
         /\ reqs[s].kind = "change" => Orphaned(reqs)[s].here = FALSE
         /\ IsFree(Orphaned(reqs), s) <=> IsFree(reqs, s)
<1>1. CASE reqs[s].kind # "change"
  BY <1>1 DEF Orphaned, IsFree
<1>2. CASE reqs[s].kind = "change"
  <2>1. reqs[s] \in ChangeRequests
    BY <1>2, Kinds
  <2>2. Orphaned(reqs)[s] = [reqs[s] EXCEPT !.here = FALSE]
    BY <1>2 DEF Orphaned
  <2> QED
    BY <1>2, <2>1, <2>2 DEF ChangeRequests, IsFree, Free
<1> QED
  BY <1>1, <1>2

\* A request is posted in one slot, which was free.
LEMMA PostedOnce ==
  ASSUME NEW reqs, NEW r, NEW s \in Slot, NEW t \in Slot,
         Lowest(reqs, s), Lowest(reqs, t)
  PROVE  s = t
BY TripBounds DEF Lowest, Slot

-----------------------------------------------------------------------------
(* Types *)

LEMMA WithoutTyped ==
  ASSUME trips \in Lists, NEW i \in DOMAIN trips
  PROVE  Without(i) \in Lists
<1>1. Len(trips) \in Nat /\ i \in 1 .. Len(trips)
  BY DEF Lists
<1>2. Len(trips) - 1 \in Nat
  BY <1>1
<1>3. \A j \in 1 .. Len(trips) - 1 :
        (IF j < i THEN trips[j] ELSE trips[j + 1]) \in Trip
  BY <1>1 DEF Lists
<1> QED
  BY <1>2, <1>3 DEF Without, Lists

LEMMA HandledTyped ==
  ASSUME ServerTyped, NEW c \in Change, Handled(c)
  PROVE  trips' \in Lists /\ made' \in 0 .. MaxTrips
<1> USE TripBounds DEF ServerTyped
<1>1. CASE Create(c)
  <2>1. made + 1 \in 1 .. MaxTrips /\ c.val \in Values
    BY <1>1 DEF Create, Change
  <2>2. [id |-> made + 1, val |-> c.val] \in Trip
    BY <2>1 DEF Trip
  <2> QED
    BY <1>1, <2>1, <2>2 DEF Create, Lists
<1>2. CASE Update(c)
  <2>1. PICK i \in DOMAIN trips : trips' = [trips EXCEPT ![i].val = c.val]
    BY <1>2 DEF Update
  <2>2. trips[i] \in Trip /\ c.val \in Values
    BY <2>1 DEF Lists, Change
  <2>3. [trips[i] EXCEPT !.val = c.val] \in Trip
    BY <2>2 DEF Trip
  <2>4. trips' = [trips EXCEPT ![i] = [trips[i] EXCEPT !.val = c.val]]
    BY <2>1
  <2>5. trips' \in Seq(Trip)
    BY <2>1, <2>3, <2>4 DEF Lists
  <2>6. made' = made
    BY <1>2 DEF Update
  <2> QED
    BY <2>5, <2>6 DEF Lists
<1>3. CASE Delete(c)
  <2>1. made' = made /\ \E i \in DOMAIN trips : trips' = Without(i)
    BY <1>3 DEF Delete
  <2>2. trips \in Lists
    OBVIOUS
  <2> QED
    BY <2>1, <2>2, WithoutTyped
<1> QED
  BY <1>1, <1>2, <1>3 DEF Handled

LEMMA RefusedTyped ==
  ASSUME req \in [Slot -> Requests], NEW s \in Slot, req[s].kind # "none"
  PROVE  Refused(s) \in [Slot -> Requests]
<1>1. CASE req[s].kind = "list"
  <2>1. <<>> \in Lists
    BY DEF Lists
  <2>2. [ListRequest EXCEPT !.phase = "bad"] \in Requests
    BY <2>1 DEF Requests, ListRequests, ListRequest
  <2> QED
    BY <1>1, <2>2 DEF Refused
<1>2. CASE req[s].kind = "change"
  <2>1. req[s] \in ChangeRequests
    BY <1>2, Kinds
  <2>2. [req[s] EXCEPT !.phase = "bad"] \in Requests
    BY <2>1 DEF Requests, ChangeRequests
  <2> QED
    BY <1>2, <2>2 DEF Refused
<1> QED
  BY <1>1, <1>2, Kinds

LEMMA AppearTyped ==
  ASSUME TypeOK, NEW reqs \in [Slot -> Requests], NEW under \in BOOLEAN,
         Appear(reqs, under)
  PROVE  ListTyped' /\ hud' \in BOOLEAN /\ forgotten' \in BOOLEAN
         /\ RequestsTyped' /\ WatchTyped'
<1>1. ListTyped'
  BY DEF TypeOK, ListTyped, Appear, Emptied, Lists
<1>2. RequestsTyped'
  BY PostedTyped, ListRequestTyped DEF Appear, RequestsTyped
<1>3. WatchTyped'
  BY DEF Appear, WatchTyped, Asking, Quiet
<1> QED
  BY <1>1, <1>2, <1>3 DEF Appear

LEMMA PoppedTyped ==
  ASSUME TypeOK, NEW reqs \in [Slot -> Requests], Popped(reqs), UNCHANGED shown
  PROVE  ListTyped' /\ ScreenTyped' /\ RequestsTyped' /\ WatchTyped'
<1>1. ListTyped' /\ hud' \in BOOLEAN /\ forgotten' \in BOOLEAN
      /\ RequestsTyped' /\ WatchTyped'
  <2>1. CASE shown
    BY <2>1, AppearTyped, OrphanedTyped DEF Popped
  <2>2. CASE ~shown
    BY <2>2, OrphanedTyped
       DEF Popped, TypeOK, ListTyped, WatchTyped, RequestsTyped, ScreenTyped,
           list, watch
  <2> QED
    BY <2>1, <2>2
<1>2. ScreenTyped'
  BY <1>1 DEF TypeOK, ScreenTyped, Popped, PageGone
<1> QED
  BY <1>1, <1>2

LEMMA AskTyped ==
  ASSUME RequestsTyped, NEW c \in Change, NEW here \in BOOLEAN, Ask(c, here)
  PROVE  RequestsTyped'
<1>1. [kind |-> "change", phase |-> "sent", change |-> c, here |-> here] \in Requests
  BY DEF Requests, ChangeRequests
<1> QED
  BY <1>1, PostedTyped DEF RequestsTyped, Ask

LEMMA TripIsNotNone == None \notin Trip
BY DEF None, Trip

\* What the server does keeps its types.
LEMMA ServeTyped ==
  ASSUME TypeOK, NEW s \in Slot, Serve(s) \/ Fail(s)
  PROVE  ServerTyped' /\ RequestsTyped'
<1>1. req \in [Slot -> Requests] /\ req[s].kind # "none"
  BY DEF TypeOK, RequestsTyped, Serve, Fail
<1>2. Refused(s) \in [Slot -> Requests]
  BY <1>1, RefusedTyped
<1>3. CASE Serve(s)
  <2>1. late' = late
    BY <1>3 DEF Serve
  <2>2. CASE req[s].kind = "list" /\ req' = [req EXCEPT ![s].phase = "ok", ![s].list = trips]
             /\ UNCHANGED <<trips, made>>
    <3>1. req[s] \in ListRequests
      BY <1>1, <2>2, Kinds
    <3>2. [[req[s] EXCEPT !.phase = "ok"] EXCEPT !.list = trips] \in Requests
      BY <3>1 DEF Requests, ListRequests, TypeOK, ServerTyped
    <3> QED
      BY <1>1, <2>1, <2>2, <3>2 DEF RequestsTyped, TypeOK, ServerTyped
  <2>3. CASE req[s].kind = "change" /\ Handled(req[s].change)
             /\ req' = [req EXCEPT ![s].phase = "ok"]
    <3>1. req[s] \in ChangeRequests
      BY <1>1, <2>3, Kinds
    <3>2. [req[s] EXCEPT !.phase = "ok"] \in Requests /\ req[s].change \in Change
      BY <3>1 DEF Requests, ChangeRequests
    <3>3. trips' \in Lists /\ made' \in 0 .. MaxTrips
      BY <2>3, <3>2, HandledTyped DEF TypeOK
    <3> QED
      BY <1>1, <2>1, <2>3, <3>2, <3>3 DEF RequestsTyped, TypeOK, ServerTyped
  <2>4. CASE req' = Refused(s) /\ UNCHANGED <<trips, made>>
    BY <1>2, <2>1, <2>4 DEF RequestsTyped, TypeOK, ServerTyped
  <2> QED
    BY <1>3, <2>2, <2>3, <2>4 DEF Serve
<1>4. CASE Fail(s)
  <2>1. req[s].kind = "change" => req[s].change \in Change
    BY <1>1, Kinds DEF ChangeRequests
  <2>2. late' \subseteq Change
    BY <1>4, <2>1 DEF Fail, Astray, TypeOK, ServerTyped
  <2> QED
    BY <1>2, <1>4, <2>2 DEF Fail, RequestsTyped, TypeOK, ServerTyped
<1> QED
  BY <1>3, <1>4

LEMMA RestartTyped == ASSUME TypeOK, Restart PROVE TypeOK'
<1>1. OnTheWay \subseteq Change
  <2>1. ASSUME NEW s \in Slot, req[s].kind = "change" PROVE req[s].change \in Change
    BY <2>1, Kinds DEF TypeOK, RequestsTyped, ChangeRequests
  <2> QED
    BY <2>1 DEF OnTheWay
<1>2. ServerTyped'
  BY <1>1 DEF Restart, Astray, TypeOK, ServerTyped
<1>3. RequestsTyped'
  BY DEF Restart, RequestsTyped, Requests
<1>4. ListTyped'
  BY DEF Restart, ListTyped, Lists
<1>5. ScreenTyped'
  BY DEF Restart, ScreenTyped
<1>6. WatchTyped'
  BY Zenon DEF Restart, WatchTyped
<1> QED
  BY <1>2, <1>3, <1>4, <1>5, <1>6 DEF TypeOK

\* The completions of one request.
LEMMA CompletionTyped ==
  ASSUME TypeOK, NEW s \in Slot,
         Loaded(s) \/ NotLoaded(s) \/ Changed(s) \/ NotChanged(s)
  PROVE  TypeOK'
<1>1. Answered(s) \in [Slot -> Requests]
  BY AnsweredTyped DEF TypeOK, RequestsTyped
<1>2. CASE Loaded(s)
  <2>1. req[s] \in ListRequests
    BY <1>2, Kinds DEF Loaded, TypeOK, RequestsTyped
  <2>2. rows' \in Lists /\ drawn' \in Lists
    BY <1>2, <2>1 DEF Loaded, Drawn, ListRequests, Lists, TypeOK, ListTyped
  <2>3. hud' \in BOOLEAN /\ failed' \in BOOLEAN /\ UNCHANGED <<server, top, one, shown, forgotten, question, doubled, alone>>
    BY <1>2 DEF Loaded
  <2>4. ScreenTyped' /\ WatchTyped' /\ ServerTyped'
    BY <2>3 DEF TypeOK, ScreenTyped, WatchTyped, ServerTyped, question, server
  <2> QED
    BY <1>1, <1>2, <2>2, <2>4 DEF TypeOK, ListTyped, RequestsTyped, Loaded
<1>3. CASE NotLoaded(s)
  <2>1. hud' \in BOOLEAN /\ failed' \in BOOLEAN
        /\ UNCHANGED <<server, list, top, one, shown, forgotten, question, doubled, alone>>
    BY <1>3 DEF NotLoaded, Hidden
  <2>2. ScreenTyped' /\ WatchTyped' /\ ServerTyped' /\ ListTyped'
    BY <2>1 DEF TypeOK, ScreenTyped, WatchTyped, ServerTyped, ListTyped, question,
                server, list
  <2> QED
    BY <1>1, <1>3, <2>2 DEF TypeOK, RequestsTyped, NotLoaded
<1>4. CASE Changed(s)
  <2>1. ServerTyped' /\ UNCHANGED shown
    BY <1>4 DEF Changed, TypeOK, ServerTyped, server
  <2>2. CASE req[s].here
    BY <1>1, <1>4, <2>1, <2>2, PoppedTyped DEF Changed, TypeOK
  <2>3. CASE ~req[s].here
    BY <1>1, <1>4, <2>1, <2>3
       DEF Changed, TypeOK, ListTyped, ScreenTyped, RequestsTyped, WatchTyped,
           list, question, watch, cover
  <2> QED
    BY <2>2, <2>3
<1>5. CASE NotChanged(s)
  <2>1. hud' \in BOOLEAN /\ UNCHANGED <<server, list, top, one, shown, forgotten, question, watch>>
    BY <1>5 DEF NotChanged
  <2>2. ScreenTyped' /\ WatchTyped' /\ ServerTyped' /\ ListTyped'
    BY <2>1 DEF TypeOK, ScreenTyped, WatchTyped, ServerTyped, ListTyped, question,
                server, list, watch
  <2> QED
    BY <1>1, <1>5, <2>2 DEF TypeOK, RequestsTyped, NotChanged
<1> QED
  BY <1>2, <1>3, <1>4, <1>5

\* Steps of the user that ask for something.
LEMMA AskingTyped ==
  ASSUME TypeOK, (\E v \in Values : Save(v)) \/ Confirm
  PROVE  TypeOK'
<1>1. CASE \E v \in Values : Save(v)
  <2>1. PICK v \in Values : Save(v)
    BY <1>1
  <2>2. CASE top = "form"
    <3>1. [kind |-> "create", id |-> 0, val |-> v] \in Change
      BY TripBounds DEF Change
    <3> QED
      BY <2>1, <2>2, <3>1, AskTyped
         DEF Save, TypeOK, ServerTyped, ListTyped, ScreenTyped, WatchTyped, server,
             list, question, watch, cover
  <2>3. CASE top = "detail"
    <3>1. one \in Trip
      BY <2>3 DEF TypeOK, ScreenTyped
    <3>2. [kind |-> "update", id |-> one.id, val |-> v] \in Change
      BY <3>1, TripBounds DEF Change, Trip
    <3> QED
      BY <2>1, <2>3, <3>2, AskTyped
         DEF Save, TypeOK, ServerTyped, ListTyped, ScreenTyped, WatchTyped, server,
             list, question, watch, cover
  <2> QED
    BY <2>1, <2>2, <2>3 DEF Save, TypeOK, ScreenTyped
<1>2. CASE Confirm
  <2>1. asked \in Trip
    BY <1>2 DEF Confirm, TypeOK, ScreenTyped
  <2>2. [kind |-> "delete", id |-> asked.id, val |-> asked.val] \in Change
    BY <2>1, TripBounds DEF Change, Trip
  <2>3. RequestsTyped'
    BY <1>2, <2>2, AskTyped DEF Confirm, TypeOK
  <2>4. hud' \in BOOLEAN /\ forgotten' \in BOOLEAN /\ alone' \in BOOLEAN /\ alert' = "none" /\ asked' = None
        /\ UNCHANGED <<server, list, top, one, shown, doubled, failed>>
    BY <1>2 DEF Confirm
  <2> QED
    BY <2>3, <2>4 DEF TypeOK, ServerTyped, ListTyped, ScreenTyped, WatchTyped,
                      server, list
<1> QED
  BY <1>1, <1>2

\* Every variable of the tab keeps its type.
THEOREM TripsTyped == Spec => []TypeOK
<1>1. ASSUME Init PROVE TypeOK
  <2>1. ServerTyped /\ ListTyped /\ RequestsTyped
    BY <1>1, TripBounds
       DEF Init, ServerTyped, ListTyped, RequestsTyped, Lists, Requests
  <2>2. ScreenTyped
    BY <1>1 DEF Init, ScreenTyped
  <2>3. WatchTyped
    BY <1>1, Zenon DEF Init, WatchTyped
  <2> QED
    BY <2>1, <2>2, <2>3 DEF TypeOK
<1>2. ASSUME TypeOK, [Next]_vars PROVE TypeOK'
  <2>1. CASE Leave \/ NewTrip \/ AskDelete \/ Cancel \/ UNCHANGED vars
    <3>1. ServerTyped' /\ ListTyped' /\ RequestsTyped' /\ WatchTyped'
      BY <1>2, <2>1
         DEF Leave, NewTrip, AskDelete, Cancel, vars, TypeOK, ServerTyped, ListTyped,
             RequestsTyped, WatchTyped, server, list, watch
    <3>2. shown' \in BOOLEAN /\ hud' \in BOOLEAN /\ forgotten' \in BOOLEAN
      BY <1>2, <2>1, Zenon
         DEF Leave, NewTrip, AskDelete, Cancel, vars, TypeOK, ScreenTyped, Held, cover
    <3>3. ScreenTyped'
      BY <1>2, <2>1, <3>2
         DEF Leave, NewTrip, AskDelete, Cancel, vars, TypeOK, ScreenTyped, question
    <3> QED
      BY <3>1, <3>3 DEF TypeOK
  <2>2. CASE Return
    <3>1. Covered \in BOOLEAN /\ req \in [Slot -> Requests]
      BY <1>2 DEF Covered, TypeOK, ScreenTyped, RequestsTyped
    <3>2. ListTyped' /\ hud' \in BOOLEAN /\ forgotten' \in BOOLEAN /\ RequestsTyped'
          /\ WatchTyped'
      <4>1. CASE top = "list"
        BY <1>2, <2>2, <3>1, <4>1, AppearTyped DEF Return
      <4>2. CASE top # "list"
        BY <1>2, <2>2, <4>2
           DEF Return, TypeOK, ListTyped, ScreenTyped, RequestsTyped, WatchTyped, list,
               watch, cover
      <4> QED
        BY <4>1, <4>2
    <3>3. ServerTyped' /\ ScreenTyped'
      BY <1>2, <2>2, <3>2
         DEF Return, TypeOK, ServerTyped, ScreenTyped, server, question
    <3> QED
      BY <3>2, <3>3 DEF TypeOK
  <2>3. CASE Back
    BY <1>2, <2>3, PoppedTyped
       DEF Back, TypeOK, ServerTyped, RequestsTyped, server
  <2>4. CASE \E i \in DOMAIN drawn : Open(i)
    <3>1. PICK i : Open(i)
      BY <2>4
    <3>2. one' \in Trip
      BY <1>2, <3>1 DEF Open, TypeOK, ListTyped, Lists
    <3> QED
      BY <1>2, <3>1, <3>2, TripIsNotNone
         DEF Open, TypeOK, ServerTyped, ListTyped, ScreenTyped, RequestsTyped,
             WatchTyped, server, list, question, watch, cover
  <2>5. CASE (\E v \in Values : Save(v)) \/ Confirm
    BY <1>2, <2>5, AskingTyped
  <2>6. CASE \E s \in Slot : Serve(s) \/ Fail(s)
    BY <1>2, <2>6, ServeTyped
       DEF Serve, Fail, TypeOK, ListTyped, ScreenTyped, WatchTyped, list, question,
           watch, cover
  <2>7. CASE \E s \in Slot : Loaded(s) \/ NotLoaded(s) \/ Changed(s) \/ NotChanged(s)
    BY <1>2, <2>7, CompletionTyped
  <2>8. CASE ServeLate
    <3>1. PICK c \in late : Handled(c) /\ late' = late \ {c}
      BY <2>8 DEF ServeLate
    <3>2. ServerTyped'
      BY <1>2, <3>1, HandledTyped DEF TypeOK, ServerTyped
    <3> QED
      BY <1>2, <2>8, <3>2
         DEF ServeLate, TypeOK, ListTyped, ScreenTyped, RequestsTyped, WatchTyped,
             list, question, watch, cover
  <2>9. CASE Restart \/ Trap
    BY <1>2, <2>9, RestartTyped DEF Trap
  <2> QED
    BY <1>2, <2>1, <2>2, <2>3, <2>4, <2>5, <2>6, <2>7, <2>8, <2>9 DEF Next, Answer
<1> QED
  BY <1>1, <1>2, PTL DEF Spec

-----------------------------------------------------------------------------
(* Rows and what is drawn of them *)

\* A screen that waits for a change is on top until it is popped.
Homes ==
  /\ \A s \in Slot : req[s].kind = "change" /\ req[s].here => top # "list"
  /\ alert = "here" => top # "list"

LEMMA PostedKeeps ==
  ASSUME NEW reqs, NEW r, NEW s \in Slot
  PROVE  Posted(reqs, r)[s] \in {r, reqs[s]}
BY DEF Posted

\* An appearance over requests whose screens are gone.
LEMMA HomesOnList ==
  ASSUME NEW reqs, \A s \in Slot : ~(reqs[s].kind = "change" /\ reqs[s].here),
         NEW under, Appear(reqs, under), alert' # "here"
  PROVE  Homes'
<1>1. SUFFICES ASSUME NEW s \in Slot
               PROVE ~(req'[s].kind = "change" /\ req'[s].here)
  BY DEF Homes
<1>2. req'[s] = ListRequest \/ req'[s] = reqs[s]
  BY PostedKeeps DEF Appear
<1> QED
  BY <1>2 DEF ListRequest

LEMMA HomesPopped ==
  ASSUME TypeOK, NEW reqs \in [Slot -> Requests], Popped(reqs)
  PROVE  Homes'
<1>1. \A s \in Slot : ~(Orphaned(reqs)[s].kind = "change" /\ Orphaned(reqs)[s].here)
  BY Orphans
<1>2. alert' # "here"
  BY DEF Popped
<1>3. CASE shown
  BY <1>1, <1>2, <1>3, HomesOnList DEF Popped
<1>4. CASE ~shown
  BY <1>1, <1>2, <1>4 DEF Popped, Homes
<1> QED
  BY <1>3, <1>4

LEMMA HomesStay ==
  ASSUME TypeOK, Homes, [Next]_vars
  PROVE  Homes'
<1>1. CASE Leave \/ NewTrip \/ AskDelete \/ Cancel \/ UNCHANGED vars
  BY <1>1 DEF Leave, NewTrip, AskDelete, Cancel, vars, question, Homes
<1>2. CASE Return
  <2>1. CASE top = "list"
    BY <1>2, <2>1, HomesOnList DEF Return, Homes, question
  <2>2. CASE top # "list"
    BY <1>2, <2>2 DEF Return, Homes
  <2> QED
    BY <2>1, <2>2
<1>3. CASE Back
  BY <1>3, HomesPopped DEF Back, TypeOK, RequestsTyped
<1>4. CASE \E i \in DOMAIN drawn : Open(i)
  BY <1>4 DEF Open, Homes, question
<1>5. CASE \E v \in Values : Save(v)
  BY <1>5 DEF Save, Homes
<1>6. CASE Confirm
  <2>1. ASSUME NEW s \in Slot, req'[s].kind = "change", req'[s].here
        PROVE  top' # "list"
    <3>1. req'[s] = req[s] \/ req'[s].here = (alert = "here")
      BY <1>6, PostedKeeps DEF Confirm, Ask
    <3> QED
      BY <1>6, <2>1, <3>1 DEF Confirm, Homes
  <2> QED
    BY <1>6, <2>1 DEF Confirm, Homes
<1>7. ASSUME NEW s \in Slot, Serve(s) \/ Fail(s)
      PROVE  Homes'
  <2>1. ASSUME NEW t \in Slot, req'[t].kind = "change", req'[t].here
        PROVE  req[t].kind = "change" /\ req[t].here
    <3>1. req[s] \in Requests /\ req[t] \in Requests
      BY DEF TypeOK, RequestsTyped
    <3>2. CASE t # s
      BY <1>7, <2>1, <3>2 DEF Serve, Fail, Refused, TypeOK, RequestsTyped
    <3>3. CASE t = s /\ req[s].kind = "list"
      <4>1. req[s] \in ListRequests
        BY <3>1, <3>3, Kinds
      <4> QED
        BY <1>7, <2>1, <3>3, <4>1
           DEF Serve, Fail, Refused, TypeOK, RequestsTyped, ListRequests, ListRequest
    <3>4. CASE t = s /\ req[s].kind = "change"
      <4>1. req[s] \in ChangeRequests
        BY <3>1, <3>4, Kinds
      <4> QED
        BY <1>7, <2>1, <3>4, <4>1
           DEF Serve, Fail, Refused, TypeOK, RequestsTyped, ChangeRequests
    <3> QED
      BY <1>7, <3>1, <3>2, <3>3, <3>4, Kinds DEF Serve, Fail
  <2> QED
    BY <1>7, <2>1 DEF Homes, Serve, Fail, question
<1>8. ASSUME NEW s \in Slot, Loaded(s) \/ NotLoaded(s) \/ Changed(s) \/ NotChanged(s)
      PROVE  Homes'
  <2>1. \A t \in Slot : Answered(s)[t] = req[t] \/ Answered(s)[t].kind = "none"
    BY DEF Answered, Free, TypeOK, RequestsTyped
  <2>2. CASE Changed(s) /\ req[s].here
    BY <2>2, HomesPopped, AnsweredTyped DEF Changed, TypeOK, RequestsTyped
  <2>3. CASE ~(Changed(s) /\ req[s].here)
    <3>1. req' = Answered(s) /\ UNCHANGED <<top, question>>
      BY <1>8, <2>3 DEF Loaded, NotLoaded, Changed, NotChanged
    <3> QED
      BY <2>1, <3>1 DEF Homes, question
  <2> QED
    BY <2>2, <2>3
<1>9. CASE ServeLate
  BY <1>9 DEF ServeLate, Homes, question
<1>10. CASE Restart \/ Trap
  BY <1>10 DEF Trap, Restart, Homes, Free
<1> QED
  BY <1>1, <1>2, <1>3, <1>4, <1>5, <1>6, <1>7, <1>8, <1>9, <1>10 DEF Next, Answer

\* Once the HUD is off the list, the rows drawn are those a tap opens, unless
\* loading failed: what reloadData drew in MyTripVC is what didSelectRowAt reads.
THEOREM TapOpensDrawn == Spec => []TapOpensShown
<1>1. ASSUME Init PROVE Homes /\ TapOpensShown
  BY <1>1 DEF Init, Homes, Free, TapOpensShown, OnList
<1>2. ASSUME TypeOK, Homes, TapOpensShown, [Next]_vars PROVE TapOpensShown'
  <2> USE <1>2 DEF TapOpensShown, OnList
  <2>1. CASE Leave \/ NewTrip \/ AskDelete \/ Cancel \/ UNCHANGED vars
    BY <2>1 DEF Leave, NewTrip, AskDelete, Cancel, vars, list, watch, cover
  <2>2. CASE Return
    BY <2>2 DEF Return, Appear, list, watch, cover
  <2>3. CASE Back \/ \E s \in Slot : Changed(s)
    <3>1. CASE \E reqs : Popped(reqs) /\ UNCHANGED shown
      BY <3>1 DEF Popped, Appear
    <3>2. CASE UNCHANGED <<list, top, shown, cover, watch>>
      BY <3>2 DEF list, watch, cover
    <3> QED
      BY <2>3, <3>1, <3>2 DEF Back, Changed
  <2>4. CASE \E i \in DOMAIN drawn : Open(i)
    BY <2>4 DEF Open
  <2>5. CASE (\E v \in Values : Save(v)) \/ Confirm
    BY <2>5 DEF Save, Confirm, list, watch
  <2>6. CASE (\E s \in Slot : Serve(s) \/ Fail(s)) \/ ServeLate
    BY <2>6 DEF Serve, Fail, ServeLate, list, watch, cover
  <2>7. ASSUME NEW s \in Slot, Loaded(s) \/ NotLoaded(s) PROVE TapOpensShown'
    BY <2>7 DEF Loaded, NotLoaded, Drawn
  <2>8. ASSUME NEW s \in Slot, NotChanged(s) PROVE TapOpensShown'
    <3>1. top = "list" => ~req[s].here
      BY <2>8 DEF NotChanged, Homes
    <3> QED
      BY <2>8, <3>1 DEF NotChanged, list, watch
  <2>9. CASE Restart \/ Trap
    BY <2>9 DEF Restart, Trap
  <2> QED
    BY <2>1, <2>2, <2>3, <2>4, <2>5, <2>6, <2>7, <2>8, <2>9 DEF Next, Answer
<1>3. ASSUME TypeOK, Homes, [Next]_vars PROVE Homes'
  BY <1>3, HomesStay
<1> QED
  BY <1>1, <1>2, <1>3, TripsTyped, PTL DEF Spec

-----------------------------------------------------------------------------
(* HUDs *)

\* The tab covers its screen only while it is selected, and asks only over a page.
HeldHere ==
  /\ hud => shown
  /\ alert # "none" => shown
  /\ alert = "here" => top = "detail"

LEMMA HeldHolds == Spec => [](HeldHere /\ ForgottenOnPage)
<1> DEFINE Inv == HeldHere /\ ForgottenOnPage
<1>1. ASSUME Init PROVE Inv
  BY <1>1 DEF Init, HeldHere, ForgottenOnPage
<1>2. ASSUME Inv, [Next]_vars PROVE Inv'
  <2> USE <1>2 DEF HeldHere, ForgottenOnPage
  <2>1. CASE Leave \/ NewTrip \/ AskDelete \/ Cancel \/ UNCHANGED vars
             \/ \E i \in DOMAIN drawn : Open(i)
    BY <2>1 DEF Leave, NewTrip, AskDelete, Cancel, Open, vars, question, cover, Held,
                Touchable, Uncovered, Covered
  <2>2. CASE Return
    BY <2>2 DEF Return, Appear, question, cover, Covered
  <2>3. CASE Back \/ \E s \in Slot : Changed(s)
    <3>1. CASE \E reqs : Popped(reqs) /\ UNCHANGED shown
      BY <3>1 DEF Popped, Appear
    <3>2. CASE UNCHANGED <<top, shown, cover, question>>
      BY <3>2 DEF cover, question
    <3> QED
      BY <2>3, <3>1, <3>2 DEF Back, Changed
  <2>4. CASE \E v \in Values : Save(v)
    <3>1. shown /\ alert = "none" /\ UNCHANGED <<top, shown, forgotten, question>>
      BY <2>4 DEF Save, Uncovered, Touchable
    <3> QED
      BY <3>1 DEF question
  <2>5. CASE Confirm
    <3>1. shown /\ alert' = "none" /\ UNCHANGED <<top, shown>>
      BY <2>5 DEF Confirm
    <3>2. forgotten' => forgotten \/ alert = "here"
      BY <2>5, Zenon DEF Confirm
    <3> QED
      BY <3>1, <3>2
  <2>6. CASE (\E s \in Slot : Serve(s) \/ Fail(s)) \/ ServeLate
    <3>1. UNCHANGED <<top, shown, cover, question>>
      BY <2>6 DEF Serve, Fail, ServeLate
    <3> QED
      BY <3>1 DEF cover, question
  <2>7. CASE \E s \in Slot : Loaded(s) \/ NotLoaded(s) \/ NotChanged(s)
    <3>1. UNCHANGED <<top, shown, forgotten, question>>
      BY <2>7 DEF Loaded, NotLoaded, NotChanged
    <3>2. hud' => hud
      BY <2>7, Zenon DEF Loaded, NotLoaded, NotChanged, Hidden
    <3> QED
      BY <3>1, <3>2 DEF question
  <2>8. CASE Restart \/ Trap
    BY <2>8 DEF Restart, Trap
  <2> QED
    BY <2>1, <2>2, <2>3, <2>4, <2>5, <2>6, <2>7, <2>8 DEF Next, Answer
<1> QED
  BY <1>1, <1>2, PTL DEF Spec

\* The one screen that puts up a HUD over another is the page of a trip: the list
\* and the form never stay covered by a HUD that MyTripVC or NewTripVC forgot.
THEOREM ForgottenOverPage == Spec => []ForgottenOnPage
BY HeldHolds, PTL

-----------------------------------------------------------------------------
(* Each trip in one row *)

\* Each trip is kept once by the server, with an id it was given.
Kept == /\ Distinct(trips)
        /\ \A i \in DOMAIN trips : trips[i].id <= made

\* Every answer under way lists each trip once.
AnswersDistinct ==
  \A s \in Slot : req[s].kind = "list" => Distinct(req[s].list)

\* While the list did not appear twice, one request of it at most is under way,
\* and until that is answered there is no row.
RowsWait ==
  ~doubled =>
    /\ Distinct(rows)
    /\ \A s, t \in Slot : req[s].kind = "list" /\ req[t].kind = "list" => s = t
    /\ \A s \in Slot : req[s].kind = "list" => rows = <<>>

LEMMA HandledKept ==
  ASSUME TypeOK, Kept, NEW c \in Change, Handled(c)
  PROVE  Kept'
<1>1. trips \in Lists /\ made \in Nat /\ trips \in Seq(Trip)
  BY TripBounds DEF TypeOK, ServerTyped, Lists
<1>2. ASSUME NEW i \in DOMAIN trips PROVE trips[i] \in Trip /\ trips[i].id \in Nat
  <2>1. trips[i] \in Trip
    BY <1>1, <1>2
  <2> QED
    BY <2>1, TripBounds DEF Trip
<1>3. CASE Create(c)
  <2>1. Len(trips') = Len(trips) + 1 /\ made' = made + 1
        /\ \A i \in DOMAIN trips' :
             trips'[i] = IF i = Len(trips) + 1 THEN [id |-> made + 1, val |-> c.val]
                         ELSE trips[i]
    BY <1>1, <1>3 DEF Create
  <2>2. \A i \in DOMAIN trips' :
          \/ i = Len(trips) + 1 /\ trips'[i].id = made + 1
          \/ i \in DOMAIN trips /\ trips'[i].id = trips[i].id /\ trips[i].id <= made
    BY <1>1, <1>3, <2>1 DEF Create, Kept
  <2> QED
    BY <1>1, <1>2, <2>1, <2>2 DEF Kept, Distinct
<1>4. CASE Update(c)
  <2>1. PICK j \in DOMAIN trips : trips' = [trips EXCEPT ![j].val = c.val]
    BY <1>4 DEF Update
  <2>2. DOMAIN trips' = DOMAIN trips /\ made' = made
        /\ \A i \in DOMAIN trips : trips'[i].id = trips[i].id
    BY <1>2, <1>4, <2>1 DEF Update, Trip
  <2> QED
    BY <2>2 DEF Kept, Distinct
<1>5. CASE Delete(c)
  <2>1. PICK k \in DOMAIN trips : trips' = Without(k)
    BY <1>5 DEF Delete
  <2>2. Len(trips) \in Nat /\ k \in 1 .. Len(trips)
        /\ DOMAIN trips' = 1 .. Len(trips) - 1 /\ made' = made
    BY <1>1, <1>5, <2>1 DEF Delete, Without
  <2> DEFINE from(i) == IF i < k THEN i ELSE i + 1
  <2>3. \A i \in DOMAIN trips' : from(i) \in DOMAIN trips /\ trips'[i] = trips[from(i)]
    BY <1>1, <2>1, <2>2 DEF Without
  <2>4. \A i, j \in DOMAIN trips' : from(i) = from(j) => i = j
    BY <2>2
  <2> QED
    BY <2>2, <2>3, <2>4 DEF Kept, Distinct
<1> QED
  BY <1>3, <1>4, <1>5 DEF Handled

\* Steps that make no request for the list.
LEMMA RowsWaitStill ==
  ASSUME AnswersDistinct, RowsWait, UNCHANGED <<rows, doubled>>,
         \A s \in Slot : req'[s].kind = "list" =>
           req[s].kind = "list" /\ (req'[s].list = req[s].list \/ Distinct(req'[s].list))
  PROVE  AnswersDistinct' /\ RowsWait'
BY DEF AnswersDistinct, RowsWait, Distinct

LEMMA AppearWaits ==
  ASSUME NEW reqs, NEW under, Appear(reqs, under),
         \A s \in Slot : reqs[s].kind = "list" => Distinct(reqs[s].list)
  PROVE  AnswersDistinct' /\ RowsWait'
<1>1. \A s \in Slot : req'[s] = ListRequest \/ req'[s] = reqs[s]
  BY PostedKeeps DEF Appear
<1>2. AnswersDistinct'
  BY <1>1 DEF AnswersDistinct, ListRequest, Distinct
<1>3. ASSUME ~doubled' PROVE \A s \in Slot : req'[s].kind = "list" => Lowest(reqs, s)
  BY <1>3 DEF Appear, Asking, Posted
<1>4. rows' = <<>> /\ Distinct(rows')
  BY DEF Appear, Emptied, Distinct
<1> QED
  BY <1>2, <1>3, <1>4, PostedOnce DEF RowsWait

LEMMA PoppedWaits ==
  ASSUME AnswersDistinct, RowsWait, NEW reqs \in [Slot -> Requests], Popped(reqs),
         \A s \in Slot : reqs[s].kind = "list" => reqs[s] = req[s]
  PROVE  AnswersDistinct' /\ RowsWait'
<1>1. \A s \in Slot : Orphaned(reqs)[s].kind = "list" =>
                        reqs[s].kind = "list" /\ Orphaned(reqs)[s] = req[s]
  BY Orphans
<1>2. CASE shown
  <2>1. Appear(Orphaned(reqs), FALSE)
    BY <1>2 DEF Popped
  <2>2. \A s \in Slot : Orphaned(reqs)[s].kind = "list" =>
                          Distinct(Orphaned(reqs)[s].list)
    BY <1>1 DEF AnswersDistinct
  <2> QED
    BY <2>1, <2>2, AppearWaits
<1>3. CASE ~shown
  <2>1. req' = Orphaned(reqs) /\ UNCHANGED <<rows, doubled>>
    BY <1>3 DEF Popped, list, watch
  <2>2. \A s \in Slot : req'[s].kind = "list" =>
          req[s].kind = "list" /\ req'[s].list = req[s].list
    BY <1>1, <2>1
  <2> QED
    BY <2>1, <2>2, RowsWaitStill
<1> QED
  BY <1>2, <1>3

LEMMA ServeWaits ==
  ASSUME TypeOK, Kept, AnswersDistinct, RowsWait, NEW s \in Slot, Serve(s) \/ Fail(s)
  PROVE  Kept' /\ AnswersDistinct' /\ RowsWait'
<1>1. req \in [Slot -> Requests] /\ req[s] \in Requests
  BY DEF TypeOK, RequestsTyped
<1>2. Kept'
  <2>1. CASE req[s].kind = "change" /\ Handled(req[s].change)
    BY <1>1, <2>1, Kinds, HandledKept DEF ChangeRequests
  <2>2. CASE UNCHANGED <<trips, made>>
    BY <2>2 DEF Kept, Distinct
  <2> QED
    BY <2>1, <2>2 DEF Serve, Fail
<1>3. ASSUME NEW t \in Slot, req'[t].kind = "list"
      PROVE  req[t].kind = "list" /\ (req'[t].list = req[t].list \/ Distinct(req'[t].list))
  <2>1. CASE t # s
    BY <1>1, <1>3, <2>1 DEF Serve, Fail, Refused
  <2>2. CASE t = s /\ req[s].kind = "list"
    <3>1. req[s] \in ListRequests
      BY <1>1, <2>2, Kinds
    <3>2. req'[s].list \in {trips, <<>>}
      BY <1>1, <2>2, <3>1
         DEF Serve, Fail, Refused, ListRequests, ListRequest
    <3> QED
      BY <2>2, <3>2 DEF Kept, Distinct
  <2>3. CASE t = s /\ req[s].kind = "change"
    <3>1. req[s] \in ChangeRequests
      BY <1>1, <2>3, Kinds
    <3> QED
      BY <1>1, <1>3, <2>3, <3>1 DEF Serve, Fail, Refused, ChangeRequests
  <2> QED
    BY <1>1, <2>1, <2>2, <2>3, Kinds DEF Serve, Fail
<1> QED
  BY <1>2, <1>3, RowsWaitStill DEF Serve, Fail, list, watch

LEMMA CompletionWaits ==
  ASSUME TypeOK, AnswersDistinct, RowsWait, NEW s \in Slot,
         Loaded(s) \/ NotLoaded(s) \/ Changed(s) \/ NotChanged(s)
  PROVE  AnswersDistinct' /\ RowsWait'
<1>1. req \in [Slot -> Requests] /\ Answered(s) \in [Slot -> Requests]
  BY AnsweredTyped DEF TypeOK, RequestsTyped
<1>2. \A t \in Slot : Answered(s)[t].kind = "list" => t # s /\ Answered(s)[t] = req[t]
  BY <1>1 DEF Answered, Free
<1>3. CASE Loaded(s)
  <2>1. AnswersDistinct'
    BY <1>2, <1>3 DEF Loaded, AnswersDistinct, Distinct
  <2>2. ASSUME ~doubled' PROVE rows = <<>> /\ Distinct(req[s].list)
                               /\ \A t \in Slot : Answered(s)[t].kind # "list"
    BY <1>2, <1>3, <2>2 DEF Loaded, AnswersDistinct, RowsWait
  <2>3. req[s].list \in Seq(Trip)
    BY <1>1, <1>3, Kinds DEF Loaded, ListRequests, Lists
  <2>4. ASSUME ~doubled' PROVE rows' = req[s].list
    BY <1>3, <2>2, <2>3, <2>4 DEF Loaded
  <2> QED
    BY <1>3, <2>1, <2>2, <2>4 DEF Loaded, RowsWait, Distinct
<1>4. CASE Changed(s) /\ req[s].here
  BY <1>1, <1>2, <1>4, PoppedWaits DEF Changed
<1>5. CASE NotLoaded(s) \/ NotChanged(s) \/ (Changed(s) /\ ~req[s].here)
  BY <1>2, <1>5, RowsWaitStill DEF NotLoaded, NotChanged, Changed, list, watch
<1> QED
  BY <1>3, <1>4, <1>5

\* Whatever is answered, and in whatever order, a trip has one row in MyTripVC,
\* unless the list appeared while it was already being loaded.
THEOREM RowsStayOnce == Spec => []RowsOnce
<1> DEFINE Inv == Kept /\ AnswersDistinct /\ RowsWait
<1>1. ASSUME Init PROVE Inv
  BY <1>1 DEF Init, Kept, AnswersDistinct, RowsWait, Distinct, Free
<1>2. ASSUME TypeOK, Inv, [Next]_vars PROVE Inv'
  <2>1. CASE Leave \/ NewTrip \/ AskDelete \/ Cancel \/ UNCHANGED vars
             \/ \E i \in DOMAIN drawn : Open(i)
    <3>1. UNCHANGED <<server, list, req, watch>>
      BY <2>1 DEF Leave, NewTrip, AskDelete, Cancel, vars, Open
    <3> QED
      BY <1>2, <3>1
         DEF server, list, watch, Kept, AnswersDistinct, RowsWait, Distinct
  <2>2. CASE Return
    <3>1. CASE top = "list"
      BY <1>2, <2>2, <3>1, AppearWaits DEF Return, server, Kept, Distinct, AnswersDistinct
    <3>2. CASE top # "list"
      BY <1>2, <2>2, <3>2, RowsWaitStill DEF Return, server, list, watch, Kept, Distinct
    <3> QED
      BY <3>1, <3>2
  <2>3. CASE Back
    BY <1>2, <2>3, PoppedWaits
       DEF Back, server, Kept, Distinct, TypeOK, RequestsTyped
  <2>4. CASE (\E v \in Values : Save(v)) \/ Confirm
    <3>1. PICK c, here : Ask(c, here)
      BY <2>4 DEF Save, Confirm
    <3>2. \A s \in Slot : req'[s].kind = "list" => req'[s] = req[s]
      BY <3>1, PostedKeeps DEF Ask
    <3>3. UNCHANGED <<trips, made, rows, doubled>>
      BY <2>4 DEF Save, Confirm, server, list, watch
    <3> QED
      BY <1>2, <3>2, <3>3, RowsWaitStill DEF Kept, Distinct
  <2>5. CASE \E s \in Slot : Serve(s) \/ Fail(s)
    BY <1>2, <2>5, ServeWaits
  <2>6. CASE \E s \in Slot : Loaded(s) \/ NotLoaded(s) \/ Changed(s) \/ NotChanged(s)
    <3>1. UNCHANGED server
      BY <2>6 DEF Loaded, NotLoaded, Changed, NotChanged
    <3> QED
      BY <1>2, <2>6, <3>1, CompletionWaits DEF server, Kept, Distinct
  <2>7. CASE ServeLate
    <3>1. Kept'
      BY <1>2, <2>7, HandledKept DEF ServeLate, TypeOK, ServerTyped
    <3> QED
      BY <1>2, <2>7, <3>1, RowsWaitStill DEF ServeLate, list, watch
  <2>8. CASE Restart \/ Trap
    BY <1>2, <2>8
       DEF Restart, Trap, Kept, AnswersDistinct, RowsWait, Distinct, Free
  <2> QED
    BY <1>2, <2>1, <2>2, <2>3, <2>4, <2>5, <2>6, <2>7, <2>8 DEF Next, Answer
<1>3. Inv => RowsOnce
  BY DEF RowsWait, RowsOnce
<1> QED
  BY <1>1, <1>2, <1>3, TripsTyped, PTL DEF Spec
-----------------------------------------------------------------------------
(* The list and the server *)

Pending(s) == req[s].kind = "list"

\* What was alone when the list appeared stays alone until a deletion is
\* confirmed: one request at most is under way, it brings what the server has,
\* and once it is answered the rows are that, or it failed.
Alone ==
  OnList /\ alone =>
    /\ late = {} /\ \A s \in Slot : req[s].kind # "change"
    /\ \A s, t \in Slot : Pending(s) /\ Pending(t) => s = t
    /\ \A s \in Slot : Pending(s) =>
         rows = <<>> /\ (req[s].phase = "ok" => req[s].list = trips)
    /\ (\A s \in Slot : ~Pending(s)) => failed \/ (rows = trips /\ drawn = trips)

\* Nothing else is outstanding at an appearance that is alone: the request is in
\* the first slot.
LEMMA AppearAlone ==
  ASSUME NEW reqs, NEW under, Appear(reqs, under), UNCHANGED late
  PROVE  Alone'
<1>1. SUFFICES ASSUME alone' PROVE Alone'
  BY DEF Alone
<1>2. late' = {} /\ \A s \in Slot : reqs[s] = Free
  BY <1>1 DEF Appear, Quiet, IsFree
<1>3. 1 \in Slot /\ \A s \in Slot : Lowest(reqs, s) <=> s = 1
  BY <1>2, TripBounds DEF Lowest, IsFree, Slot
<1>4. \A s \in Slot : req'[s] = IF s = 1 THEN ListRequest ELSE Free
  BY <1>2, <1>3 DEF Appear, Posted
<1>5. rows' = <<>>
  BY DEF Appear, Emptied
<1> QED
  BY <1>2, <1>3, <1>4, <1>5 DEF Alone, Pending, ListRequest, Free

LEMMA PoppedAlone ==
  ASSUME NEW reqs, Popped(reqs), UNCHANGED <<late, shown>>
  PROVE  Alone'
<1>1. CASE shown
  BY <1>1, AppearAlone DEF Popped
<1>2. CASE ~shown
  BY <1>2 DEF Alone, OnList
<1> QED
  BY <1>1, <1>2

LEMMA ServeAlone ==
  ASSUME TypeOK, Alone, NEW s \in Slot, Serve(s) \/ Fail(s)
  PROVE  Alone'
<1>1. SUFFICES ASSUME OnList', alone' PROVE Alone'
  BY DEF Alone
<1>2. req \in [Slot -> Requests] /\ UNCHANGED <<list, top, shown, watch>>
  BY DEF Serve, Fail, TypeOK, RequestsTyped
<1>3. OnList /\ alone
  BY <1>1, <1>2 DEF OnList, watch
<1>4. req[s] \in ListRequests /\ Pending(s)
  BY <1>2, <1>3, Kinds DEF Alone, Serve, Fail, Pending
<1>5. late' = {} /\ UNCHANGED <<trips, made>>
  BY <1>3, <1>4, Zenon DEF Alone, Serve, Fail, Astray, Pending
<1>6. req'[s].kind = "list" /\ (req'[s].phase = "ok" => req'[s].list = trips)
  BY <1>2, <1>4 DEF Serve, Fail, Refused, ListRequests, ListRequest, Pending
<1>7. \A t \in Slot : t # s => req'[t] = req[t]
  BY <1>2 DEF Serve, Fail, Refused
<1> QED
  BY <1>2, <1>3, <1>4, <1>5, <1>6, <1>7 DEF Alone, Pending, list

LEMMA CompletionAlone ==
  ASSUME TypeOK, Alone, NEW s \in Slot,
         Loaded(s) \/ NotLoaded(s) \/ Changed(s) \/ NotChanged(s)
  PROVE  Alone'
<1>1. CASE Changed(s) /\ req[s].here
  BY <1>1, PoppedAlone DEF Changed, server
<1>2. CASE ~(Changed(s) /\ req[s].here)
  <2>1. SUFFICES ASSUME OnList', alone' PROVE Alone'
    BY DEF Alone
  <2>2. req' = Answered(s) /\ UNCHANGED <<server, top, shown, alone>>
    BY <1>2 DEF Loaded, NotLoaded, Changed, NotChanged, watch
  <2>3. OnList /\ alone
    BY <2>1, <2>2 DEF OnList
  <2>4. req \in [Slot -> Requests] /\ req[s].kind # "change"
    BY <2>3 DEF TypeOK, RequestsTyped, Alone
  <2>5. Pending(s) /\ req[s] \in ListRequests
    BY <2>4, Kinds DEF Loaded, NotLoaded, Changed, NotChanged, Pending
  <2>6. \A t \in Slot : req'[t].kind = "none"
    BY <2>2, <2>3, <2>4, <2>5, Kinds DEF Answered, Free, Alone, Pending
  <2>7. failed' \/ (rows' = trips /\ drawn' = trips)
    <3>1. CASE Loaded(s)
      <4>1. rows = <<>> /\ req[s].list = trips /\ trips \in Seq(Trip)
        BY <2>3, <2>5, <3>1 DEF Alone, Loaded, TypeOK, ServerTyped, Lists
      <4> QED
        BY <3>1, <4>1 DEF Loaded, Drawn
    <3>2. CASE NotLoaded(s)
      BY <3>2 DEF NotLoaded
    <3> QED
      BY <2>4, <3>1, <3>2 DEF Changed, NotChanged
  <2> QED
    BY <2>2, <2>3, <2>6, <2>7 DEF Alone, Pending, server
<1> QED
  BY <1>1, <1>2

\* When nothing is under way any more, MyTripVC shows the trips of the server, if
\* the appearance it loaded for was alone and that load did not fail.
THEOREM ListStaysCurrent == Spec => []ListCurrent
<1>1. ASSUME Init PROVE Alone
  BY <1>1 DEF Init, Alone, OnList
<1>2. ASSUME TypeOK, Alone, [Next]_vars PROVE Alone'
  <2>1. CASE Leave \/ NewTrip \/ (\E i \in DOMAIN drawn : Open(i))
             \/ (\E v \in Values : Save(v)) \/ Confirm
    BY <2>1 DEF Leave, NewTrip, Open, Save, Confirm, Alone, OnList
  <2>2. CASE AskDelete \/ Cancel \/ UNCHANGED vars
    <3>1. UNCHANGED <<server, list, top, shown, req, watch>>
      BY <2>2 DEF AskDelete, Cancel, vars
    <3> QED
      BY <1>2, <3>1 DEF Alone, OnList, Pending, server, list, watch
  <2>3. CASE Return
    <3>1. CASE top = "list"
      BY <2>3, <3>1, AppearAlone DEF Return, server
    <3>2. CASE top # "list"
      BY <2>3, <3>2 DEF Return, Alone, OnList
    <3> QED
      BY <3>1, <3>2
  <2>4. CASE Back
    BY <2>4, PoppedAlone DEF Back, server
  <2>5. CASE \E s \in Slot : Serve(s) \/ Fail(s)
    BY <1>2, <2>5, ServeAlone
  <2>6. CASE \E s \in Slot : Loaded(s) \/ NotLoaded(s) \/ Changed(s) \/ NotChanged(s)
    BY <1>2, <2>6, CompletionAlone
  <2>7. CASE ServeLate
    BY <1>2, <2>7 DEF ServeLate, Alone, OnList, watch
  <2>8. CASE Restart \/ Trap
    BY <2>8 DEF Restart, Trap, Alone, OnList
  <2> QED
    BY <1>2, <2>1, <2>2, <2>3, <2>4, <2>5, <2>6, <2>7, <2>8 DEF Next, Answer
<1>3. TypeOK /\ Alone => ListCurrent
  BY DEF Alone, ListCurrent, Quiet, IsFree, Pending, Free
<1> QED
  BY <1>1, <1>2, <1>3, TripsTyped, PTL DEF Spec
-----------------------------------------------------------------------------
(* Who lowers the HUD *)

\* A request that would lower the HUD of the screen on top: that of the list, or
\* a change asked for by a page or form that is not popped.
Owner(reqs, s) ==
  IF top = "list" THEN reqs[s].kind = "list"
  ELSE reqs[s].kind = "change" /\ reqs[s].here
HudOwned == hud => \E s \in Slot : Owner(req, s)

\* With room for it, a request is posted.
LEMMA PostedThere ==
  ASSUME NEW reqs, NEW r, Room(reqs)
  PROVE  \E s \in Slot : Posted(reqs, r)[s] = r
<1> DEFINE S == {s \in Slot : IsFree(reqs, s)}
           R == OpToRel(<, Nat)
<1>1. S # {} /\ S \subseteq Nat
  BY TripBounds DEF Room, Slot
<1>2. IsWellFoundedOn(R, Nat)
  BY NatLessThanWellFounded, Zenon
<1>3. \A m, n \in Nat : <<m, n>> \in R <=> m < n
  BY Zenon DEF OpToRel
<1> HIDE DEF R
<1>4. PICK s \in S : \A t \in S : ~(<<t, s>> \in R)
  BY <1>1, <1>2, WFMin
<1>5. Lowest(reqs, s)
  BY <1>1, <1>3, <1>4 DEF Lowest, Slot
<1> QED
  BY <1>5 DEF Posted

LEMMA PostedBeside ==
  ASSUME NEW reqs, NEW r, NEW s \in Slot, ~IsFree(reqs, s)
  PROVE  Posted(reqs, r)[s] = reqs[s]
BY DEF Posted, Lowest

\* The list that comes on top asks, if the tab is selected.
LEMMA AppearOwned ==
  ASSUME NEW reqs, NEW under, Room(reqs), Appear(reqs, under), top' = "list"
  PROVE  HudOwned'
<1>1. PICK s \in Slot : req'[s] = ListRequest
  BY PostedThere DEF Appear
<1> QED
  BY <1>1 DEF HudOwned, Owner, ListRequest

LEMMA PoppedOwned ==
  ASSUME HeldHere, NEW reqs \in [Slot -> Requests], Popped(reqs)
  PROVE  HudOwned'
<1>1. CASE shown
  <2>1. Room(reqs) /\ Appear(Orphaned(reqs), FALSE) /\ top' = "list"
    BY <1>1 DEF Popped, PageGone
  <2>2. Room(Orphaned(reqs))
    BY <2>1, Orphans DEF Room
  <2> QED
    BY <2>1, <2>2, AppearOwned
<1>2. CASE ~shown
  BY <1>2 DEF Popped, HeldHere, HudOwned
<1> QED
  BY <1>1, <1>2

\* The server and the network change neither what a request is nor who made it.
LEMMA ServedOwned ==
  ASSUME TypeOK, NEW s \in Slot, Serve(s) \/ Fail(s), NEW t \in Slot, Owner(req, t)
  PROVE  Owner(req', t)
<1>1. req[s] \in Requests /\ req[s] # Free
  BY Kinds DEF TypeOK, RequestsTyped, Serve, Fail
<1>2. CASE t # s
  <2>1. req'[t] = req[t]
    BY <1>2 DEF Serve, Fail, Refused, TypeOK, RequestsTyped
  <2> QED
    BY <2>1 DEF Owner
<1>3. CASE t = s /\ req[s].kind = "list"
  <2>1. req[s] \in ListRequests
    BY <1>1, <1>3, Kinds
  <2>2. req'[s].kind = "list"
    BY <1>3, <2>1
       DEF Serve, Fail, Refused, TypeOK, RequestsTyped, ListRequests, ListRequest
  <2> QED
    BY <1>3, <2>2 DEF Owner
<1>4. CASE t = s /\ req[s].kind = "change"
  <2>1. req[s] \in ChangeRequests
    BY <1>1, <1>4, Kinds
  <2>2. req'[s].kind = "change" /\ req'[s].here = req[s].here
    BY <1>4, <2>1 DEF Serve, Fail, Refused, TypeOK, RequestsTyped, ChangeRequests
  <2> QED
    BY <1>4, <2>2 DEF Owner
<1> QED
  BY <1>1, <1>2, <1>3, <1>4, Kinds

LEMMA CompletionOwned ==
  ASSUME TypeOK, HeldHere, HudOwned, NEW s \in Slot,
         Loaded(s) \/ NotLoaded(s) \/ Changed(s) \/ NotChanged(s)
  PROVE  HudOwned'
<1>1. CASE Changed(s) /\ req[s].here
  BY <1>1, AnsweredTyped, PoppedOwned DEF Changed, TypeOK, RequestsTyped
<1>2. CASE ~(Changed(s) /\ req[s].here)
  <2>1. req' = Answered(s) /\ top' = top
    BY <1>2 DEF Loaded, NotLoaded, Changed, NotChanged
  <2>2. hud' => hud /\ ~Owner(req, s)
    <3>1. CASE Loaded(s) \/ NotLoaded(s)
      BY <3>1 DEF Loaded, NotLoaded, Hidden, Owner
    <3>2. CASE Changed(s)
      <4>1. hud' = hud /\ req[s].kind = "change" /\ ~req[s].here
        BY <1>2, <3>2 DEF Changed, cover
      <4> QED
        BY <4>1 DEF Owner
    <3>3. CASE NotChanged(s)
      BY <3>3 DEF NotChanged, Owner
    <3> QED
      BY <3>1, <3>2, <3>3
  <2>3. SUFFICES ASSUME hud' PROVE \E t \in Slot : Owner(req, t)'
    BY DEF HudOwned
  <2>4. PICK t \in Slot : Owner(req, t) /\ t # s
    BY <2>2, <2>3 DEF HudOwned
  <2>5. req'[t] = req[t]
    BY <2>1, <2>4 DEF Answered, TypeOK, RequestsTyped
  <2> QED
    BY <2>1, <2>4, <2>5 DEF Owner
<1> QED
  BY <1>1, <1>2

\* The HUD of the screen on top is there for a request whose completion lowers it
\* or takes the screen away, whatever other requests are answered meanwhile: the
\* safety half of TripsUnblocked.
THEOREM HudLowered == Spec => []HudOwned
<1>1. Init => HudOwned
  BY DEF Init, HudOwned
<1>2. ASSUME TypeOK, HeldHere, HudOwned, [Next]_vars PROVE HudOwned'
  <2>1. CASE Leave \/ NewTrip \/ Restart \/ Trap \/ \E i \in DOMAIN drawn : Open(i)
    <3>1. ~hud'
      BY <2>1 DEF Leave, Held, NewTrip, Open, Uncovered, Covered, cover, Restart, Trap
    <3> QED
      BY <3>1 DEF HudOwned
  <2>2. CASE UNCHANGED <<req, top, hud>>
    BY <1>2, <2>2 DEF HudOwned, Owner
  <2>3. CASE AskDelete \/ Cancel \/ ServeLate \/ UNCHANGED vars
    BY <2>2, <2>3 DEF AskDelete, Cancel, ServeLate, vars, cover
  <2>4. CASE Return
    <3>1. CASE top = "list"
      BY <2>4, <3>1, AppearOwned DEF Return
    <3>2. CASE top # "list"
      BY <2>2, <2>4, <3>2 DEF Return, cover
    <3> QED
      BY <3>1, <3>2
  <2>5. CASE Back
    BY <1>2, <2>5, PoppedOwned DEF Back, TypeOK, RequestsTyped
  <2>6. ASSUME NEW v \in Values, Save(v) PROVE HudOwned'
    <3>1. PICK s \in Slot : req'[s].kind = "change" /\ req'[s].here
      BY <2>6, PostedThere DEF Save, Ask
    <3> QED
      BY <2>6, <3>1 DEF Save, HudOwned, Owner
  <2>7. CASE Confirm
    <3>1. top' = top
      BY <2>7 DEF Confirm
    <3>2. CASE alert = "here"
      <4>1. PICK s \in Slot : req'[s].kind = "change" /\ req'[s].here
        <5>1. PICK c : Ask(c, TRUE)
          <6>1. (alert = "here") = TRUE
            BY <3>2
          <6> QED
            BY <2>7, <6>1, Zenon DEF Confirm
        <5> QED
          BY <5>1, PostedThere DEF Ask
      <4>2. top' # "list"
        BY <1>2, <3>1, <3>2 DEF HeldHere
      <4> QED
        BY <4>1, <4>2 DEF HudOwned, Owner
    <3>3. CASE alert # "here"
      <4>1. SUFFICES ASSUME hud' PROVE \E t \in Slot : Owner(req, t)'
        BY DEF HudOwned
      <4>2. PICK t \in Slot : Owner(req, t)
        BY <1>2, <2>7, <3>3, <4>1 DEF Confirm, HudOwned
      <4>3. ~IsFree(req, t)
        BY <4>2 DEF IsFree, Free, Owner
      <4>4. req'[t] = req[t]
        BY <2>7, <4>3, PostedBeside DEF Confirm, Ask
      <4> QED
        BY <3>1, <4>2, <4>4 DEF Owner
    <3> QED
      BY <3>2, <3>3
  <2>8. ASSUME NEW s \in Slot, Serve(s) \/ Fail(s) PROVE HudOwned'
    <3>1. hud' = hud /\ top' = top
      BY <2>8 DEF Serve, Fail, cover
    <3>2. \A t \in Slot : Owner(req, t) => Owner(req', t)
      BY <1>2, <2>8, ServedOwned
    <3> QED
      BY <1>2, <3>1, <3>2 DEF HudOwned, Owner
  <2>9. ASSUME NEW s \in Slot, Loaded(s) \/ NotLoaded(s) \/ Changed(s) \/ NotChanged(s)
        PROVE  HudOwned'
    BY <1>2, <2>9, CompletionOwned
  <2> QED
    BY <1>2, <2>1, <2>3, <2>4, <2>5, <2>6, <2>7, <2>8, <2>9 DEF Next, Answer
<1> QED
  BY <1>1, <1>2, HeldHolds, TripsTyped, PTL DEF Spec
=============================================================================
