------------------------------ MODULE Reviews ------------------------------
(***************************************************************************)
(* The reviews of a user: the page on which another one rates him          *)
(* (RateUserVC) and his own page, where he replies (RatingVC), over the    *)
(* call manageReview, whose requests are answered in any order.            *)
(*                                                                         *)
(* A review is its id, the ids are numbers in the order the server made    *)
(* them, and none is ever removed.  Texts, stars and replies tell no       *)
(* property apart: a reply changes nothing here but the screen.            *)
(***************************************************************************)
EXTENDS Naturals, Sequences, FiniteSets, SequencesExt

CONSTANTS MaxRequests,  \* bound: requests ever sent
          MaxReviews,   \* bound: reviews the server holds
          MaxFaults     \* bound: requests without an answer

ASSUME ReviewBounds ==
  MaxRequests \in Nat /\ MaxReviews \in Nat /\ MaxFaults \in Nat

VARIABLES
  store,      \* the author of each review
  requests,   \* manageReview calls that may still do something
  asked,      \* requests sent so far
  \* the two pages
  shown,      \* the page is on the screen
  reviews,    \* reviews
  drawn,      \* rows the table draws
  covered,    \* the HUD is over the page
  modal,      \* the dialogue is open
  review_id,  \* review_id of RateUserVC
  \* observations
  since,      \* the request of the page's last appearance
  fresh,      \* that request was answered with the reviews
  late,       \* a request from before the appearance was answered after it
  unsure,     \* a submission was out when RateUserVC appeared, or failed
  blind,      \* the dialogue was opened on a list that was not fresh, or unsure
  doubt,      \* a submission without review_id was made in such a case
  faults

pages == <<shown, reviews, drawn, covered, modal, review_id>>
observed == <<since, fresh, late, unsure, blind, doubt>>
vars == <<store, requests, asked, pages, observed, faults>>

Pages == {"rate", "own"}
Authors == {"me", "other"}
Ids == 1 .. MaxReviews
NoId == 0
Request == [n : 1 .. MaxRequests, page : Pages \cup {"gone"},
            type : {"get", "give", "reply"}, id : Ids \cup {NoId},
            state : {"sent", "served", "adrift"}, count : 0 .. MaxReviews]

TypeOK ==
  /\ store \in Seq(Authors) /\ Len(store) <= MaxReviews
  /\ requests \subseteq Request /\ asked \in 0 .. MaxRequests
  /\ shown \in [Pages -> BOOLEAN] /\ reviews \in [Pages -> Seq(Ids)]
  /\ drawn \in [Pages -> Nat] /\ covered \in [Pages -> BOOLEAN]
  /\ modal \in [Pages -> BOOLEAN] /\ review_id \in Ids \cup {NoId}
  /\ since \in [Pages -> 0 .. MaxRequests] /\ fresh \in [Pages -> BOOLEAN]
  /\ late \in [Pages -> BOOLEAN]
  /\ unsure \in BOOLEAN /\ blind \in BOOLEAN /\ doubt \in BOOLEAN
  /\ faults \in 0 .. MaxFaults

Both(x) == [s \in Pages |-> x]

Init ==
  /\ store \in UNION {[1 .. k -> {"other"}] : k \in 0 .. MaxReviews}
  /\ requests = {} /\ asked = 0
  /\ shown = Both(FALSE) /\ reviews = Both(<<>>) /\ drawn = Both(0)
  /\ covered = Both(FALSE) /\ modal = Both(FALSE) /\ review_id = NoId
  /\ since = Both(0) /\ fresh = Both(FALSE) /\ late = Both(FALSE)
  /\ unsure = FALSE /\ blind = FALSE /\ doubt = FALSE
  /\ faults = 0

-----------------------------------------------------------------------------
(* The pages *)

\* manageReview: a request with the HUD of its page.
Manage(s, type, id) ==
  /\ asked < MaxRequests /\ asked' = asked + 1
  /\ requests' = requests \cup {[n |-> asked + 1, page |-> s, type |-> type, id |-> id,
                                 state |-> "sent", count |-> 0]}
  /\ covered' = [covered EXCEPT ![s] = TRUE]

Giving == \E q \in requests : q.type = "give"

\* viewWillAppear: the reviews are dropped and asked for; the table is not reloaded.
Appear(s) ==
  /\ ~shown[s] /\ shown' = [shown EXCEPT ![s] = TRUE]
  /\ Manage(s, "get", NoId)
  /\ reviews' = [reviews EXCEPT ![s] = <<>>] /\ modal' = [modal EXCEPT ![s] = FALSE]
  /\ since' = [since EXCEPT ![s] = asked + 1] /\ fresh' = [fresh EXCEPT ![s] = FALSE]
  /\ late' = [late EXCEPT ![s] = FALSE]
  /\ unsure' = IF s = "rate" THEN Giving ELSE unsure
  /\ UNCHANGED <<store, drawn, review_id, blind, doubt, faults>>

\* Another tab: viewDidDisappear hides the HUD.
Leave(s) ==
  /\ shown[s] /\ shown' = [shown EXCEPT ![s] = FALSE]
  /\ covered' = [covered EXCEPT ![s] = FALSE]
  /\ UNCHANGED <<store, requests, asked, reviews, drawn, modal, review_id, observed, faults>>

\* Back from RateUserVC: the next page is a new one.
Back ==
  /\ shown["rate"] /\ shown' = [shown EXCEPT !["rate"] = FALSE]
  /\ covered' = [covered EXCEPT !["rate"] = FALSE]
  /\ modal' = [modal EXCEPT !["rate"] = FALSE] /\ review_id' = NoId
  /\ reviews' = [reviews EXCEPT !["rate"] = <<>>] /\ drawn' = [drawn EXCEPT !["rate"] = 0]
  /\ requests' = {[q EXCEPT !.page = IF @ = "rate" THEN "gone" ELSE @] : q \in requests}
  /\ UNCHANGED <<store, asked, observed, faults>>

Touchable(s) == shown[s] /\ ~covered[s]

\* setReviewModal(true) takes the id of the user's own review, the first row of his
\* if there is one.  The mutant looks at the first row only.
OwnFirst(rs) == {i \in DOMAIN rs : i = 1 /\ store[rs[i]] = "me"}
Own(rs) == {i \in DOMAIN rs : store[rs[i]] = "me"}
RateUser ==
  /\ Touchable("rate") /\ ~modal["rate"] /\ modal' = [modal EXCEPT !["rate"] = TRUE]
  /\ \/ Own(reviews["rate"]) = {} /\ UNCHANGED review_id
     \/ \E i \in Own(reviews["rate"]) :
          (\A j \in Own(reviews["rate"]) : i <= j) /\ review_id' = reviews["rate"][i]
  /\ blind' = (unsure \/ ~fresh["rate"])
  /\ UNCHANGED <<store, requests, asked, shown, reviews, drawn, covered, since, fresh, late,
                 unsure, doubt, faults>>

\* A row of the own page: reviews has it, or the subscript traps.
Select(i) ==
  /\ Touchable("own") /\ ~modal["own"] /\ i <= Len(reviews["own"])
  /\ modal' = [modal EXCEPT !["own"] = TRUE]
  /\ UNCHANGED <<store, requests, asked, shown, reviews, drawn, covered, review_id, observed,
                 faults>>

\* The dialogue's own way back: review_id stays.
Close(s) ==
  /\ Touchable(s) /\ modal[s] /\ modal' = [modal EXCEPT ![s] = FALSE]
  /\ UNCHANGED <<store, requests, asked, shown, reviews, drawn, covered, review_id, observed,
                 faults>>

\* reviewBtnClicked with stars and a text, replyBtnClicked with a text.
ReviewUser ==
  /\ Touchable("rate") /\ modal["rate"] /\ Manage("rate", "give", review_id)
  /\ doubt' = (doubt \/ (review_id = NoId /\ (blind \/ Giving)))
  /\ UNCHANGED <<store, shown, reviews, drawn, modal, review_id, since, fresh, late, unsure,
                 blind, faults>>
Reply ==
  /\ Touchable("own") /\ modal["own"] /\ Manage("own", "reply", NoId)
  /\ UNCHANGED <<store, shown, reviews, drawn, modal, review_id, observed, faults>>

-----------------------------------------------------------------------------
(* The server and its answers *)

AnotherReview ==
  /\ Len(store) < MaxReviews /\ store' = Append(store, "other")
  /\ UNCHANGED <<requests, asked, pages, observed, faults>>

\* A review without an id is a new one.  What is given up on may still come through.
Stored(q) == IF q.type = "give" /\ q.id = NoId THEN Append(store, "me") ELSE store
Serve(q) ==
  /\ q.state # "served" /\ Len(Stored(q)) <= MaxReviews /\ store' = Stored(q)
  /\ requests' = (requests \ {q}) \cup
       IF q.state = "sent"
       THEN {[q EXCEPT !.state = "served", !.count = Len(Stored(q))]} ELSE {}
  /\ UNCHANGED <<asked, pages, observed, faults>>

\* Every completion hides the HUD of its page and reloads the table; those of the
\* dialogue close it.  The mutant does not reload.
CompletedHidden(q, rs) == drawn
Completed(q, rs) == [drawn EXCEPT ![q.page] = Len(rs)]
Completion(q, rs) ==
  /\ covered' = [covered EXCEPT ![q.page] = FALSE]
  /\ reviews' = [reviews EXCEPT ![q.page] = rs] /\ drawn' = Completed(q, rs)
  /\ modal' = [modal EXCEPT ![q.page] = @ /\ q.type = "get"]
  /\ late' = [late EXCEPT ![q.page] = @ \/ q.n < since[q.page]]

\* Success: the list asked for on entry is appended, the answer to the dialogue's
\* request replaces what is there.  The mutant appends that too.
Received(q) == [i \in 1 .. q.count |-> i]
KeptAlways(q) == reviews[q.page]
Kept(q) == IF q.type = "get" THEN reviews[q.page] ELSE <<>>
Answer(q) ==
  /\ q.state = "served" /\ requests' = requests \ {q}
  /\ IF q.page = "gone" THEN UNCHANGED <<pages, late, fresh>>
     ELSE /\ Completion(q, Kept(q) \o Received(q)) /\ UNCHANGED <<shown, review_id>>
          /\ fresh' = [fresh EXCEPT ![q.page] = @ \/ q.n = since[q.page]]
  /\ UNCHANGED <<store, asked, since, unsure, blind, doubt, faults>>

\* No answer in time: the request may be handled all the same.
Fail(q) ==
  /\ q.state # "adrift" /\ faults < MaxFaults /\ faults' = faults + 1
  /\ requests' = (requests \ {q}) \cup
       IF q.state = "sent" /\ q.type = "give" THEN {[q EXCEPT !.state = "adrift"]} ELSE {}
  /\ IF q.page = "gone" THEN UNCHANGED <<pages, late, fresh>>
     ELSE Completion(q, reviews[q.page]) /\ UNCHANGED <<shown, review_id, fresh>>
  /\ unsure' = (unsure \/ q.type = "give")
  /\ UNCHANGED <<store, asked, since, blind, doubt>>

Next ==
  \/ \E s \in Pages : Appear(s) \/ Leave(s) \/ Close(s)
  \/ Back \/ RateUser \/ ReviewUser \/ Reply
  \/ \E i \in 1 .. drawn["own"] : Select(i)
  \/ AnotherReview
  \/ \E q \in requests : Serve(q) \/ Answer(q) \/ Fail(q)

Spec == Init /\ [][Next]_vars

-----------------------------------------------------------------------------
(* Properties *)

\* A user reviews another once, and from then on changes his review, unless he
\* submits one while a submission of his is out, or from a dialogue opened before the
\* list of this appearance was there, or after a submission failed or was out as the
\* page appeared.
Mine == {i \in DOMAIN store : store[i] = "me"}
OneReview == ~doubt => \A i, j \in Mine : i = j

\* A page shows no review twice, unless a request from before its appearance was
\* answered after it.
ReviewsOnce == \A s \in Pages : ~late[s] => IsInjective(reviews[s])

\* What can be tapped is held: the table of a page that nothing covers draws as many
\* rows as there are reviews, or the subscript of didSelectRowAt would trap.
RowsCounted == \A s \in Pages : Touchable(s) => drawn[s] = Len(reviews[s])
=============================================================================
