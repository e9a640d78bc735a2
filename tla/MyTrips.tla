------------------------------ MODULE MyTrips ------------------------------
(***************************************************************************)
(* The tab "My trips": the list (MyTripVC), the page of a trip pushed over *)
(* it (MyTripDetail) or the form of a new trip (NewTripVC, of which only   *)
(* the saving matters here), and the server that keeps the trips.          *)
(*                                                                         *)
(* The app answers taps and completions on one queue; requests are served  *)
(* and answered in any order.  Active trips and history are two arrays     *)
(* that are emptied, filled and drawn together: they are one list here.    *)
(* The user is signed in, and changes trips on this device only.           *)
(***************************************************************************)
EXTENDS Naturals, Sequences, FiniteSets

CONSTANTS Values,       \* what a trip says: weight, price, items, notes
          MaxTrips,     \* bound: trips ever made
          MaxRequests,  \* bound: requests outstanding
          MaxLate       \* bound: requests the app gave up and the server has

ASSUME TripBounds == /\ MaxTrips \in Nat /\ MaxRequests \in Nat \ {0}
                     /\ MaxLate \in Nat

None == [id |-> 0]
Trip == [id : 1 .. MaxTrips, val : Values]
Lists == Seq(Trip)
Slot == 1 .. MaxRequests
Change == [kind : {"create", "update", "delete"}, id : 0 .. MaxTrips, val : Values]

Free == [kind |-> "none"]
ListRequest == [kind |-> "list", phase |-> "sent", list |-> <<>>]
ListRequests == [kind : {"list"}, phase : {"sent", "ok", "bad"}, list : Lists]
ChangeRequests == [kind : {"change"}, phase : {"sent", "ok", "bad"},
                   change : Change, here : BOOLEAN]
Requests == {Free} \cup ListRequests \cup ChangeRequests

VARIABLES
  trips,    \* the server's trips of the user
  made,     \* trips ever made
  late,     \* changes the app gave up that may still arrive
  rows,     \* ds_active and ds_history
  drawn,    \* the rows of the last reloadData
  top,      \* the screen on top: "list", "detail" or "form"
  one,      \* the trip of MyTripDetail
  shown,    \* the tab is selected
  hud,      \* the HUD of the screen on top shows, the newest one it put up
  forgotten,\* an older one still lies over it, and nothing hides it
  alert,    \* "none", "here", or "gone": over a page that was popped
  asked,    \* the trip the alert asks to delete
  req,      \* requests of the app; here: the screen that made it is not popped
  \* observations
  doubled,  \* at the last appearance of the list a list was already asked for
  failed,   \* the last list request answered since then failed
  alone     \* nothing else was outstanding then, or confirmed since

server == <<trips, made, late>>
list == <<rows, drawn>>
question == <<alert, asked>>
cover == <<hud, forgotten>>
watch == <<doubled, failed, alone>>
vars == <<server, list, top, one, shown, cover, question, req, watch>>

ServerTyped == trips \in Lists /\ made \in 0 .. MaxTrips /\ late \subseteq Change
ListTyped == rows \in Lists /\ drawn \in Lists
ScreenTyped ==
  /\ top \in {"list", "detail", "form"} /\ shown \in BOOLEAN
  /\ hud \in BOOLEAN /\ forgotten \in BOOLEAN
  /\ one \in Trip \cup {None} /\ asked \in Trip \cup {None}
  /\ alert \in {"none", "here", "gone"}
  /\ top = "detail" => one # None
  /\ alert # "none" => asked # None
RequestsTyped == req \in [Slot -> Requests]
WatchTyped == doubled \in BOOLEAN /\ failed \in BOOLEAN /\ alone \in BOOLEAN
TypeOK == /\ ServerTyped /\ ListTyped /\ ScreenTyped /\ RequestsTyped
          /\ WatchTyped

Init ==
  /\ trips = <<>> /\ made = 0 /\ late = {}
  /\ rows = <<>> /\ drawn = <<>>
  /\ top = "list" /\ one = None /\ shown = FALSE
  /\ hud = FALSE /\ forgotten = FALSE
  /\ alert = "none" /\ asked = None /\ req = [s \in Slot |-> Free]
  /\ doubled = FALSE /\ failed = FALSE /\ alone = FALSE

-----------------------------------------------------------------------------
(* Requests *)

IsFree(reqs, s) == reqs[s] = Free
Lowest(reqs, s) == IsFree(reqs, s) /\ \A t \in Slot : t < s => ~IsFree(reqs, t)
Room(reqs) == \E s \in Slot : IsFree(reqs, s)
Posted(reqs, r) == [s \in Slot |-> IF Lowest(reqs, s) THEN r ELSE reqs[s]]
Answered(s) == [req EXCEPT ![s] = Free]
Asking(reqs, kind) == \E s \in Slot : reqs[s].kind = kind
Quiet(reqs) == late = {} /\ \A s \in Slot : IsFree(reqs, s)

\* The screen of these requests was popped: its navigationController is nil.
Orphaned(reqs) ==
  [s \in Slot |-> IF reqs[s].kind = "change" THEN [reqs[s] EXCEPT !.here = FALSE]
                  ELSE reqs[s]]

-----------------------------------------------------------------------------
(* The list *)

\* removeAll.  The mutant keeps the rows.
EmptiedNever == rows
Emptied == <<>>

\* viewWillAppear and setDataSource: the rows go, the drawn ones stay, a HUD
\* comes over what lies there.  The mutant loads what is not loaded yet.
AppearOnce(reqs, under) ==
  /\ hud' = (rows = <<>>) /\ forgotten' = under
  /\ req' = IF rows = <<>> THEN Posted(reqs, ListRequest) ELSE reqs
  /\ doubled' = Asking(reqs, "list") /\ failed' = FALSE /\ alone' = Quiet(reqs)
  /\ UNCHANGED list
Appear(reqs, under) ==
  /\ rows' = Emptied /\ req' = Posted(reqs, ListRequest)
  /\ hud' = TRUE /\ forgotten' = under
  /\ doubled' = Asking(reqs, "list") /\ failed' = FALSE /\ alone' = Quiet(reqs)
  /\ UNCHANGED drawn

\* popViewController.
PageGone == top' = "list" /\ one' = None

\* The list comes back on top; if the tab is not selected, it appears later.
Popped(reqs) ==
  /\ PageGone
  /\ IF shown THEN Room(reqs) /\ Appear(Orphaned(reqs), FALSE)
     ELSE /\ req' = Orphaned(reqs) /\ forgotten' = FALSE
          /\ UNCHANGED <<list, hud, watch>>
  /\ alert' = IF alert = "here" THEN "gone" ELSE alert
  /\ UNCHANGED asked

\* What reloadData draws.  The mutant reloads only lists that have a trip, as
\* if the branch for an empty answer were left out.
DrawnIfAny(now) == IF now = <<>> THEN drawn ELSE now
Drawn(now) == now

\* The completion of getMyTrips appends and reloads.
Loaded(s) ==
  /\ req[s].kind = "list" /\ req[s].phase = "ok" /\ req' = Answered(s)
  /\ rows' = rows \o req[s].list /\ drawn' = Drawn(rows')
  /\ hud' = (hud /\ top # "list") /\ failed' = FALSE
  /\ UNCHANGED <<server, top, one, shown, forgotten, question, doubled, alone>>

\* A failure only hides the HUD.  The mutant does not.
HiddenNever == hud
Hidden == hud /\ top # "list"
NotLoaded(s) ==
  /\ req[s].kind = "list" /\ req[s].phase = "bad" /\ req' = Answered(s)
  /\ hud' = Hidden /\ failed' = TRUE
  /\ UNCHANGED <<server, list, top, one, shown, forgotten, question, doubled, alone>>

-----------------------------------------------------------------------------
(* What the user does *)

Touchable == shown /\ alert = "none"
Covered == hud \/ forgotten
Uncovered == Touchable /\ ~Covered

\* viewDidDisappear hides the HUD the screen holds.
Held == FALSE

\* Another tab, then this one again.
Leave ==
  /\ Touchable /\ shown' = FALSE /\ hud' = Held
  /\ UNCHANGED <<server, list, top, one, forgotten, question, req, watch>>
Return ==
  /\ ~shown /\ shown' = TRUE
  /\ IF top = "list" THEN Room(req) /\ Appear(req, Covered)
     ELSE UNCHANGED <<list, cover, req, watch>>
  /\ UNCHANGED <<server, top, one, question>>

\* didSelectRowAt: the row tapped is one drawn, the trip opened one of rows.
Open(i) ==
  /\ Uncovered /\ top = "list" /\ i \in DOMAIN rows
  /\ top' = "detail" /\ one' = rows[i]
  /\ UNCHANGED <<server, list, shown, cover, question, req, watch>>

\* newTripBtnClicked
NewTrip ==
  /\ Uncovered /\ top = "list" /\ top' = "form"
  /\ UNCHANGED <<server, list, one, shown, cover, question, req, watch>>

\* addTappedLeftBtn of both pages.  The bar lies outside the HUD.
Back ==
  /\ Touchable /\ top # "list" /\ Popped(req)
  /\ UNCHANGED <<server, shown>>

Ask(change, here) ==
  Room(req) /\ req' = Posted(req, [kind |-> "change", phase |-> "sent",
                                   change |-> change, here |-> here])

\* saveBtnClicked of the form, upateTripBtnClicked of the page.
Save(v) ==
  /\ Uncovered /\ top # "list" /\ hud' = TRUE
  /\ Ask(IF top = "form" THEN [kind |-> "create", id |-> 0, val |-> v]
         ELSE [kind |-> "update", id |-> one.id, val |-> v], TRUE)
  /\ UNCHANGED <<server, list, top, one, shown, forgotten, question, watch>>

\* addTappedRightBtn: the alert.  The bar lies outside the HUD.
AskDelete ==
  /\ Touchable /\ top = "detail" /\ alert' = "here" /\ asked' = one
  /\ UNCHANGED <<server, list, top, one, shown, cover, req, watch>>
Cancel ==
  /\ alert # "none" /\ alert' = "none" /\ asked' = None
  /\ UNCHANGED <<server, list, top, one, shown, cover, req, watch>>
\* Its OK.  The page puts up a HUD and forgets the one of a save, or of an
\* earlier deletion, that is still up.
Confirm ==
  /\ alert # "none" /\ alert' = "none" /\ asked' = None
  /\ hud' = (hud \/ alert = "here")
  /\ forgotten' = (forgotten \/ (hud /\ alert = "here"))
  /\ Ask([kind |-> "delete", id |-> asked.id, val |-> asked.val], alert = "here")
  /\ alone' = FALSE
  /\ UNCHANGED <<server, list, top, one, shown, doubled, failed>>

-----------------------------------------------------------------------------
(* The server and the network *)

Without(i) ==
  [j \in 1 .. Len(trips) - 1 |-> IF j < i THEN trips[j] ELSE trips[j + 1]]

Create(c) ==
  /\ c.kind = "create" /\ made < MaxTrips /\ made' = made + 1
  /\ trips' = Append(trips, [id |-> made + 1, val |-> c.val])
Update(c) ==
  /\ c.kind = "update" /\ UNCHANGED made
  /\ \E i \in DOMAIN trips :
       trips[i].id = c.id /\ trips' = [trips EXCEPT ![i].val = c.val]
Delete(c) ==
  /\ c.kind = "delete" /\ UNCHANGED made
  /\ \E i \in DOMAIN trips : trips[i].id = c.id /\ trips' = Without(i)
Handled(c) == Create(c) \/ Update(c) \/ Delete(c)

\* What is refused, or lost on its way back, brings nothing.
Refused(s) ==
  [req EXCEPT ![s] = IF @.kind = "list" THEN [ListRequest EXCEPT !.phase = "bad"]
                     ELSE [@ EXCEPT !.phase = "bad"]]

Serve(s) ==
  /\ req[s].kind # "none" /\ req[s].phase = "sent"
  /\ \/ /\ req[s].kind = "list"
        /\ req' = [req EXCEPT ![s].phase = "ok", ![s].list = trips]
        /\ UNCHANGED <<trips, made>>
     \/ /\ req[s].kind = "change" /\ Handled(req[s].change)
        /\ req' = [req EXCEPT ![s].phase = "ok"]
     \/ req' = Refused(s) /\ UNCHANGED <<trips, made>>
  /\ UNCHANGED <<late, list, top, one, shown, cover, question, watch>>

\* Changes that are on their way to the server.
OnTheWay == {req[s].change : s \in {t \in Slot : req[t].kind = "change"
                                                 /\ req[t].phase = "sent"}}
\* Some of these arrive though nobody waits for an answer.
Astray(changes) ==
  \E c \in SUBSET changes : late' = late \cup c /\ Cardinality(late') <= MaxLate

\* .failure: the answer, or the request, does not come through.
Fail(s) ==
  /\ req[s].kind # "none" /\ req[s].phase # "bad"
  /\ req' = Refused(s)
  /\ Astray(IF req[s].kind = "change" /\ req[s].phase = "sent"
            THEN {req[s].change} ELSE {})
  /\ UNCHANGED <<trips, made, list, top, one, shown, cover, question, watch>>

ServeLate ==
  /\ \E c \in late : Handled(c) /\ late' = late \ {c}
  /\ UNCHANGED <<list, top, one, shown, cover, question, req, watch>>

\* The completion of createTravel, updateMyTrips or deleteMyTrips.
Changed(s) ==
  /\ req[s].kind = "change" /\ req[s].phase = "ok"
  /\ IF req[s].here THEN Popped(Answered(s))
     ELSE req' = Answered(s) /\ UNCHANGED <<list, top, one, cover, question, watch>>
  /\ UNCHANGED <<server, shown>>
NotChanged(s) ==
  /\ req[s].kind = "change" /\ req[s].phase = "bad" /\ req' = Answered(s)
  /\ hud' = (hud /\ ~req[s].here)
  /\ UNCHANGED <<server, list, top, one, shown, forgotten, question, watch>>

\* The process ends and starts again with another tab selected.
Restart ==
  /\ Astray(OnTheWay)
  /\ rows' = <<>> /\ drawn' = <<>> /\ top' = "list" /\ one' = None
  /\ shown' = FALSE /\ hud' = FALSE /\ forgotten' = FALSE
  /\ alert' = "none" /\ asked' = None
  /\ req' = [s \in Slot |-> Free]
  /\ doubled' = FALSE /\ failed' = FALSE /\ alone' = FALSE
  /\ UNCHANGED <<trips, made>>

\* A tap on a drawn row that rows does not have: the subscript traps.
Trap ==
  /\ Uncovered /\ top = "list" /\ Len(drawn) > Len(rows)
  /\ Restart

-----------------------------------------------------------------------------
Answer(s) ==
  Serve(s) \/ Fail(s) \/ Loaded(s) \/ NotLoaded(s) \/ Changed(s) \/ NotChanged(s)

Next ==
  \/ Leave \/ Return \/ NewTrip \/ Back \/ AskDelete \/ Cancel \/ Confirm
  \/ ServeLate \/ Restart \/ Trap
  \/ \E i \in DOMAIN drawn : Open(i)
  \/ \E v \in Values : Save(v)
  \/ \E s \in Slot : Answer(s)

Spec == Init /\ [][Next]_vars

(* Fairness: each request is answered or times out, and its completion runs. *)
FairSpec == Spec /\ \A s \in Slot : WF_vars(Answer(s))

-----------------------------------------------------------------------------
(* Safety *)

OnList == shown /\ top = "list"
Distinct(some) == \A i, j \in DOMAIN some : some[i].id = some[j].id => i = j

\* A trip has one row, whatever is answered, unless the list appeared while it
\* was already being loaded: setDataSource empties the rows when it asks and
\* appends when it is answered, once for each request.
RowsOnce == ~doubled => Distinct(rows)

\* Once the HUD is off the list, the rows drawn are those a tap opens, so that no
\* tap traps, unless loading failed: then the old rows stay drawn.
TapOpensShown == OnList /\ ~hud /\ ~failed => drawn = rows

\* When nothing is under way any more, the list is the server's, if nothing else
\* was when it appeared, no deletion was confirmed since, and it loaded.  Both
\* successes of the pages over it lead to a new request, even from another tab.
ListCurrent ==
  OnList /\ alone /\ ~failed /\ Quiet(req) => rows = trips /\ drawn = trips

\* A HUD is forgotten over the page of a trip only, which Back or a success pops:
\* the list, which asks again each time it appears, and the form never stay covered.
ForgottenOnPage == forgotten => top = "detail"

(* Liveness *)

\* A screen covered by a HUD can be touched again, whichever of its requests is
\* answered and how, unless a second HUD was put over the first.
TripsUnblocked == Covered ~> (~Covered \/ forgotten)
=============================================================================
