--------------------------- MODULE ReviewsProofs ---------------------------
(* Proofs about the reviews of a user and the two pages that show them. *)
EXTENDS Reviews, SequenceTheorems, TLAPS

-----------------------------------------------------------------------------
(* Types *)

\* What an answer brings: the ids up to its count, in their order.
LEMMA ReceivedFacts ==
  ASSUME NEW q \in Request
  PROVE  /\ Received(q) \in Seq(Ids) /\ DOMAIN Received(q) = 1 .. q.count
         /\ q.count \in Nat /\ Len(Received(q)) = q.count
         /\ \A i \in 1 .. q.count : Received(q)[i] = i
<1>1. q.count \in Nat /\ q.count <= MaxReviews
  BY ReviewBounds DEF Request
<1>2. \A i \in 1 .. q.count : i \in Ids
  BY <1>1, ReviewBounds DEF Ids
<1>3. Received(q) \in [1 .. q.count -> Ids]
  BY <1>2 DEF Received
<1>4. Received(q) \in Seq(Ids)
  BY <1>1, <1>3, SeqDef, Zenon
<1>5. Len(Received(q)) = q.count
  BY <1>1, <1>3, <1>4, LenProperties
<1> QED BY <1>1, <1>3, <1>4, <1>5 DEF Received

\* The rows after an answer: those kept, then those received.
LEMMA RowsFacts ==
  ASSUME NEW q \in Request, q.page \in Pages, reviews[q.page] \in Seq(Ids)
  PROVE  /\ Kept(q) \in Seq(Ids) /\ Kept(q) \o Received(q) \in Seq(Ids)
         /\ Len(Kept(q) \o Received(q)) = Len(Kept(q)) + q.count
         /\ \A i \in DOMAIN Kept(q) :
              /\ i \in DOMAIN (Kept(q) \o Received(q))
              /\ (Kept(q) \o Received(q))[i] = Kept(q)[i]
         /\ \A i \in 1 .. q.count :
              /\ Len(Kept(q)) + i \in DOMAIN (Kept(q) \o Received(q))
              /\ (Kept(q) \o Received(q))[Len(Kept(q)) + i] = i
         /\ \A i \in DOMAIN (Kept(q) \o Received(q)) :
              \/ i \in DOMAIN Kept(q) /\ (Kept(q) \o Received(q))[i] = Kept(q)[i]
              \/ /\ i - Len(Kept(q)) \in 1 .. q.count
                 /\ (Kept(q) \o Received(q))[i] = i - Len(Kept(q))
<1> DEFINE k == Kept(q)
           r == Received(q)
<1>1. k \in Seq(Ids) BY EmptySeq DEF Kept
<1>2. /\ r \in Seq(Ids) /\ Len(r) = q.count /\ q.count \in Nat
      /\ \A i \in 1 .. q.count : r[i] = i
  BY ReceivedFacts
<1> HIDE DEF k, r
<1>3. /\ k \o r \in Seq(Ids) /\ Len(k \o r) = Len(k) + Len(r)
      /\ \A i \in 1 .. Len(k) + Len(r) :
           (k \o r)[i] = IF i <= Len(k) THEN k[i] ELSE r[i - Len(k)]
  BY <1>1, <1>2, ConcatProperties
<1>4. /\ DOMAIN k = 1 .. Len(k) /\ Len(k) \in Nat
      /\ DOMAIN (k \o r) = 1 .. Len(k) + q.count
  BY <1>1, <1>2, <1>3, LenProperties
<1>5. \A i \in DOMAIN k : i \in DOMAIN (k \o r) /\ (k \o r)[i] = k[i]
  BY <1>2, <1>3, <1>4
<1>6. \A i \in 1 .. q.count : Len(k) + i \in DOMAIN (k \o r) /\ (k \o r)[Len(k) + i] = i
  <2>1. SUFFICES ASSUME NEW i \in 1 .. q.count
                 PROVE  Len(k) + i \in DOMAIN (k \o r) /\ (k \o r)[Len(k) + i] = i
    OBVIOUS
  <2>2. /\ Len(k) + i \in 1 .. Len(k) + Len(r) /\ ~(Len(k) + i <= Len(k))
        /\ (Len(k) + i) - Len(k) = i
    BY <1>2, <1>4
  <2>3. (k \o r)[Len(k) + i] = r[(Len(k) + i) - Len(k)] BY <1>3, <2>2
  <2> QED BY <1>2, <1>4, <2>2, <2>3
<1>7. \A i \in DOMAIN (k \o r) :
        \/ i \in DOMAIN k /\ (k \o r)[i] = k[i]
        \/ i - Len(k) \in 1 .. q.count /\ (k \o r)[i] = i - Len(k)
  <2>1. SUFFICES ASSUME NEW i \in DOMAIN (k \o r), i \notin DOMAIN k
                 PROVE  i - Len(k) \in 1 .. q.count /\ (k \o r)[i] = i - Len(k)
    BY <1>5
  <2>2. i - Len(k) \in 1 .. q.count /\ ~(i <= Len(k)) BY <1>2, <1>4, <2>1
  <2>3. (k \o r)[i] = r[i - Len(k)] BY <1>2, <1>3, <1>4, <2>2
  <2> QED BY <1>2, <2>2, <2>3
<1> QED BY <1>1, <1>2, <1>3, <1>5, <1>6, <1>7 DEF k, r

LEMMA InitTyped == Init => TypeOK
<1> SUFFICES ASSUME Init PROVE TypeOK
  OBVIOUS
<1>1. PICK k \in 0 .. MaxReviews : store \in [1 .. k -> {"other"}]
  BY DEF Init
<1>2. k \in Nat /\ k <= MaxReviews
  BY ReviewBounds
<1>3. store \in [1 .. k -> Authors]
  BY <1>1 DEF Authors
<1>4. store \in Seq(Authors)
  BY <1>2, <1>3, SeqDef
<1>5. Len(store) <= MaxReviews
  BY <1>2, <1>3, <1>4, LenProperties
<1>6. <<>> \in Seq(Ids)
  BY EmptySeq
<1>7. /\ shown \in [Pages -> BOOLEAN] /\ covered \in [Pages -> BOOLEAN]
      /\ modal \in [Pages -> BOOLEAN] /\ fresh \in [Pages -> BOOLEAN]
      /\ late \in [Pages -> BOOLEAN]
  BY DEF Init, Both
<1>8. unsure \in BOOLEAN /\ blind \in BOOLEAN /\ doubt \in BOOLEAN
  BY DEF Init
<1>9. /\ requests \subseteq Request /\ asked \in 0 .. MaxRequests
      /\ drawn \in [Pages -> Nat] /\ since \in [Pages -> 0 .. MaxRequests]
      /\ review_id \in Ids \cup {NoId} /\ faults \in 0 .. MaxFaults
  BY ReviewBounds DEF Init, Both
<1>10. reviews \in [Pages -> Seq(Ids)]
  BY <1>6 DEF Init, Both
<1> QED BY <1>4, <1>5, <1>7, <1>8, <1>9, <1>10, Zenon DEF TypeOK

\* A request of a page is well formed, and so is what the server and the network
\* make of one.
LEMMA RequestFacts ==
  /\ \A s \in Pages, t \in {"get", "give", "reply"}, id \in Ids \cup {NoId},
        n \in 1 .. MaxRequests :
       [n |-> n, page |-> s, type |-> t, id |-> id, state |-> "sent", count |-> 0]
         \in Request
  /\ \A q \in Request : /\ [q EXCEPT !.state = "adrift"] \in Request
                        /\ [q EXCEPT !.page = "gone"] \in Request
                        /\ \A c \in 0 .. MaxReviews :
                             [q EXCEPT !.state = "served", !.count = c] \in Request
<1>1. 0 \in 0 .. MaxReviews BY ReviewBounds
<1>2. \A s \in Pages, t \in {"get", "give", "reply"}, id \in Ids \cup {NoId},
         n \in 1 .. MaxRequests :
        [n |-> n, page |-> s, type |-> t, id |-> id, state |-> "sent", count |-> 0]
          \in Request
  BY <1>1 DEF Request
<1>3. ASSUME NEW q \in Request
      PROVE  /\ [q EXCEPT !.state = "adrift"] \in Request
             /\ [q EXCEPT !.page = "gone"] \in Request
  BY DEF Request
<1>4. ASSUME NEW q \in Request, NEW c \in 0 .. MaxReviews
      PROVE  [q EXCEPT !.state = "served", !.count = c] \in Request
  BY DEF Request
<1> QED BY <1>2, <1>3, <1>4

\* Manage adds one request, of the page and with the HUD over it.
Asking(s, type, id) ==
  [n |-> asked + 1, page |-> s, type |-> type, id |-> id, state |-> "sent", count |-> 0]

LEMMA ManageFacts ==
  ASSUME TypeOK, NEW s \in Pages, NEW type \in {"get", "give", "reply"},
         NEW id \in Ids \cup {NoId}, Manage(s, type, id)
  PROVE  /\ asked \in Nat /\ asked' = asked + 1 /\ asked' \in 0 .. MaxRequests
         /\ Asking(s, type, id) \in Request
         /\ requests' = requests \cup {Asking(s, type, id)} /\ requests' \subseteq Request
         /\ covered' = [covered EXCEPT ![s] = TRUE] /\ covered' \in [Pages -> BOOLEAN]
<1>1. asked \in Nat /\ asked + 1 \in 1 .. MaxRequests /\ asked + 1 \in 0 .. MaxRequests
  BY ReviewBounds DEF Manage, TypeOK
<1>2. Asking(s, type, id) \in Request
  BY <1>1, RequestFacts DEF Asking
<1>3. covered' = [covered EXCEPT ![s] = TRUE] /\ covered' \in [Pages -> BOOLEAN]
  BY DEF Manage, TypeOK
<1> QED BY <1>1, <1>2, <1>3 DEF Manage, TypeOK, Asking

\* What the server holds after a request.
LEMMA StoredFacts ==
  ASSUME TypeOK, NEW q \in requests
  PROVE  /\ Stored(q) \in Seq(Authors) /\ Len(Stored(q)) \in Nat /\ Len(store) \in Nat
         /\ DOMAIN store = 1 .. Len(store) /\ DOMAIN Stored(q) = 1 .. Len(Stored(q))
         /\ \A i \in DOMAIN store : i \in DOMAIN Stored(q) /\ Stored(q)[i] = store[i]
         /\ ~(q.type = "give" /\ q.id = NoId) => Stored(q) = store
         /\ q.type = "give" /\ q.id = NoId =>
              Len(Stored(q)) = Len(store) + 1 /\ Stored(q)[Len(store) + 1] = "me"
<1>1. store \in Seq(Authors) /\ Len(store) \in Nat /\ DOMAIN store = 1 .. Len(store)
  BY LenProperties DEF TypeOK
<1>2. CASE q.type = "give" /\ q.id = NoId
  <2>1. Stored(q) = Append(store, "me") BY <1>2 DEF Stored
  <2>2. "me" \in Authors BY DEF Authors
  <2>3. /\ Append(store, "me") \in Seq(Authors)
        /\ Len(Append(store, "me")) = Len(store) + 1
        /\ \A i \in 1 .. Len(store) : Append(store, "me")[i] = store[i]
        /\ Append(store, "me")[Len(store) + 1] = "me"
    BY <1>1, <2>2, AppendProperties
  <2>4. DOMAIN Stored(q) = 1 .. Len(store) + 1 BY <1>1, <2>1, <2>3, LenProperties
  <2> QED BY <1>1, <1>2, <2>1, <2>3, <2>4
<1>3. CASE ~(q.type = "give" /\ q.id = NoId)
  <2>1. Stored(q) = store BY <1>3 DEF Stored
  <2> QED BY <1>1, <1>3, <2>1
<1> QED BY <1>2, <1>3

\* What a completion does to the pages, whatever the rows.
LEMMA CompletionTyped ==
  ASSUME TypeOK, NEW q \in requests, q.page \in Pages, NEW rs \in Seq(Ids), Completion(q, rs)
  PROVE  /\ reviews' \in [Pages -> Seq(Ids)] /\ drawn' \in [Pages -> Nat]
         /\ covered' \in [Pages -> BOOLEAN] /\ modal' \in [Pages -> BOOLEAN]
         /\ late' \in [Pages -> BOOLEAN]
<1>1. reviews' \in [Pages -> Seq(Ids)] BY DEF Completion, TypeOK
<1>2. drawn' \in [Pages -> Nat]
  <2>1. Len(rs) \in Nat BY LenProperties
  <2> QED BY <2>1 DEF Completion, Completed, TypeOK
<1>3. covered' \in [Pages -> BOOLEAN] BY DEF Completion, TypeOK
<1>4. modal' \in [Pages -> BOOLEAN]
  <2>1. (modal[q.page] /\ q.type = "get") \in BOOLEAN OBVIOUS
  <2>2. modal' = [modal EXCEPT ![q.page] = modal[q.page] /\ q.type = "get"]
    BY DEF Completion
  <2> QED BY <2>1, <2>2 DEF TypeOK
<1>5. late' \in [Pages -> BOOLEAN]
  <2>1. (late[q.page] \/ q.n < since[q.page]) \in BOOLEAN OBVIOUS
  <2>2. late' = [late EXCEPT ![q.page] = late[q.page] \/ q.n < since[q.page]]
    BY DEF Completion
  <2> QED BY <2>1, <2>2 DEF TypeOK
<1> QED BY <1>1, <1>2, <1>3, <1>4, <1>5

LEMMA AppearTyped == ASSUME TypeOK, NEW s \in Pages, Appear(s) PROVE TypeOK'
<1>1. /\ Manage(s, "get", NoId) /\ UNCHANGED <<store, drawn, review_id, blind, doubt, faults>>
  BY DEF Appear
<1>2. asked' \in 0 .. MaxRequests /\ requests' \subseteq Request
      /\ asked + 1 \in 0 .. MaxRequests /\ covered' \in [Pages -> BOOLEAN]
  <2>1. NoId \in Ids \cup {NoId} OBVIOUS
  <2>2. asked' = asked + 1 /\ asked' \in 0 .. MaxRequests /\ requests' \subseteq Request
        /\ covered' \in [Pages -> BOOLEAN]
    BY <1>1, <2>1, ManageFacts
  <2> QED BY <2>2
<1>3. <<>> \in Seq(Ids) BY EmptySeq
<1>4. reviews' \in [Pages -> Seq(Ids)] BY <1>3 DEF Appear, TypeOK
<1>5. since' \in [Pages -> 0 .. MaxRequests] BY <1>2 DEF Appear, TypeOK
<1>6. /\ shown' \in [Pages -> BOOLEAN] /\ modal' \in [Pages -> BOOLEAN]
      /\ fresh' \in [Pages -> BOOLEAN] /\ late' \in [Pages -> BOOLEAN]
  BY DEF Appear, TypeOK
<1>7. unsure' \in BOOLEAN BY DEF Appear, TypeOK, Giving
<1> QED BY <1>1, <1>2, <1>4, <1>5, <1>6, <1>7 DEF TypeOK

LEMMA BackTyped == ASSUME TypeOK, Back PROVE TypeOK'
<1>1. <<>> \in Seq(Ids) BY EmptySeq
<1>2. reviews' \in [Pages -> Seq(Ids)] /\ drawn' \in [Pages -> Nat]
  BY <1>1 DEF Back, TypeOK
<1>3. /\ shown' \in [Pages -> BOOLEAN] /\ modal' \in [Pages -> BOOLEAN]
      /\ covered' \in [Pages -> BOOLEAN] /\ review_id' \in Ids \cup {NoId}
  BY DEF Back, TypeOK
<1>4. requests' \subseteq Request
  <2>1. ASSUME NEW q \in requests
        PROVE  [q EXCEPT !.page = IF q.page = "rate" THEN "gone" ELSE q.page] \in Request
    <3>1. q \in Request BY DEF TypeOK
    <3> QED BY <3>1 DEF Request
  <2> QED BY <2>1 DEF Back
<1> QED BY <1>2, <1>3, <1>4 DEF Back, observed, TypeOK

LEMMA RateUserTyped == ASSUME TypeOK, RateUser PROVE TypeOK'
<1>1. review_id' \in Ids \cup {NoId}
  <2>1. CASE UNCHANGED review_id BY <2>1 DEF TypeOK
  <2>2. CASE \E i \in Own(reviews["rate"]) : review_id' = reviews["rate"][i]
    <3>1. reviews["rate"] \in Seq(Ids) BY DEF TypeOK, Pages
    <3> QED BY <2>2, <3>1, LenProperties, ElementOfSeq DEF Own
  <2> QED BY <2>1, <2>2 DEF RateUser
<1>2. modal' \in [Pages -> BOOLEAN] BY DEF RateUser, TypeOK
<1>3. blind' \in BOOLEAN BY DEF RateUser, TypeOK, Pages
<1> QED BY <1>1, <1>2, <1>3 DEF RateUser, TypeOK

LEMMA ReviewUserTyped == ASSUME TypeOK, ReviewUser PROVE TypeOK'
<1>1. Manage("rate", "give", review_id) /\ "rate" \in Pages /\ review_id \in Ids \cup {NoId}
  BY DEF ReviewUser, Pages, TypeOK
<1>2. asked' \in 0 .. MaxRequests /\ requests' \subseteq Request
      /\ covered' \in [Pages -> BOOLEAN]
  BY <1>1, ManageFacts
<1>3. doubt' \in BOOLEAN BY DEF ReviewUser, TypeOK, Giving
<1> QED BY <1>2, <1>3 DEF ReviewUser, TypeOK

LEMMA ReplyTyped == ASSUME TypeOK, Reply PROVE TypeOK'
<1>1. Manage("own", "reply", NoId) /\ "own" \in Pages /\ NoId \in Ids \cup {NoId}
  BY DEF Reply, Pages
<1>2. asked' \in 0 .. MaxRequests /\ requests' \subseteq Request
      /\ covered' \in [Pages -> BOOLEAN]
  BY <1>1, ManageFacts
<1> QED BY <1>2 DEF Reply, observed, TypeOK

LEMMA ServeTyped == ASSUME TypeOK, NEW q \in requests, Serve(q) PROVE TypeOK'
<1>1. /\ Stored(q) \in Seq(Authors) /\ Len(Stored(q)) \in 0 .. MaxReviews
  BY StoredFacts, ReviewBounds DEF Serve
<1>2. [q EXCEPT !.state = "served", !.count = Len(Stored(q))] \in Request
  BY <1>1, RequestFacts DEF TypeOK
<1>3. requests' \subseteq Request BY <1>2 DEF Serve, TypeOK
<1>4. store' \in Seq(Authors) /\ Len(store') <= MaxReviews BY <1>1 DEF Serve
<1> QED BY <1>3, <1>4 DEF Serve, pages, observed, TypeOK

LEMMA AnswerTyped == ASSUME TypeOK, NEW q \in requests, Answer(q) PROVE TypeOK'
<1>1. q \in Request /\ requests' \subseteq Request BY DEF Answer, TypeOK
<1>2. CASE q.page = "gone" BY <1>1, <1>2 DEF Answer, pages, TypeOK
<1>3. CASE q.page # "gone"
  <2>1. q.page \in Pages BY <1>1, <1>3 DEF Request
  <2>2. reviews[q.page] \in Seq(Ids) BY <2>1 DEF TypeOK
  <2>3. Completion(q, Kept(q) \o Received(q)) /\ UNCHANGED <<shown, review_id>>
    BY <1>3 DEF Answer
  <2>4. Kept(q) \o Received(q) \in Seq(Ids) BY <1>1, <2>1, <2>2, RowsFacts
  <2>5. fresh' \in [Pages -> BOOLEAN]
    <3>1. (fresh[q.page] \/ q.n = since[q.page]) \in BOOLEAN OBVIOUS
    <3>2. fresh' = [fresh EXCEPT ![q.page] = fresh[q.page] \/ q.n = since[q.page]]
      BY <1>3 DEF Answer
    <3> QED BY <3>1, <3>2 DEF TypeOK
  <2>6. /\ reviews' \in [Pages -> Seq(Ids)] /\ drawn' \in [Pages -> Nat]
        /\ covered' \in [Pages -> BOOLEAN] /\ modal' \in [Pages -> BOOLEAN]
        /\ late' \in [Pages -> BOOLEAN]
    BY <2>1, <2>3, <2>4, CompletionTyped
  <2> QED BY <1>1, <2>3, <2>5, <2>6 DEF Answer, TypeOK
<1> QED BY <1>2, <1>3

LEMMA FailTyped == ASSUME TypeOK, NEW q \in requests, Fail(q) PROVE TypeOK'
<1>1. q \in Request BY DEF TypeOK
<1>2. requests' \subseteq Request BY <1>1, RequestFacts DEF Fail, TypeOK
<1>3. faults' \in 0 .. MaxFaults BY ReviewBounds DEF Fail, TypeOK
<1>4. unsure' \in BOOLEAN BY DEF Fail, TypeOK
<1>5. CASE q.page = "gone" BY <1>2, <1>3, <1>4, <1>5 DEF Fail, pages, TypeOK
<1>6. CASE q.page # "gone"
  <2>1. q.page \in Pages BY <1>1, <1>6 DEF Request
  <2>2. Completion(q, reviews[q.page]) /\ UNCHANGED <<shown, review_id, fresh>>
    BY <1>6 DEF Fail
  <2>3. reviews[q.page] \in Seq(Ids) BY <2>1 DEF TypeOK
  <2>4. /\ reviews' \in [Pages -> Seq(Ids)] /\ drawn' \in [Pages -> Nat]
        /\ covered' \in [Pages -> BOOLEAN] /\ modal' \in [Pages -> BOOLEAN]
        /\ late' \in [Pages -> BOOLEAN]
    BY <2>1, <2>2, <2>3, CompletionTyped
  <2> QED BY <1>2, <1>3, <1>4, <2>2, <2>4 DEF Fail, TypeOK
<1> QED BY <1>5, <1>6

LEMMA StepTyped == TypeOK /\ [Next]_vars => TypeOK'
<1> SUFFICES ASSUME TypeOK, [Next]_vars PROVE TypeOK'
  OBVIOUS
<1>1. CASE \E s \in Pages : Appear(s) BY <1>1, AppearTyped
<1>2. CASE \E s \in Pages : Leave(s) BY <1>2 DEF Leave, observed, TypeOK
<1>3. CASE \E s \in Pages : Close(s) BY <1>3 DEF Close, observed, TypeOK
<1>4. CASE Back BY <1>4, BackTyped
<1>5. CASE RateUser BY <1>5, RateUserTyped
<1>6. CASE ReviewUser BY <1>6, ReviewUserTyped
<1>7. CASE Reply BY <1>7, ReplyTyped
<1>8. CASE \E i \in 1 .. drawn["own"] : Select(i) BY <1>8 DEF Select, observed, TypeOK
<1>9. CASE AnotherReview
  <2>1. "other" \in Authors BY DEF Authors
  <2>2. store' \in Seq(Authors) /\ Len(store') <= MaxReviews
    BY <1>9, <2>1, AppendProperties, LenProperties, ReviewBounds DEF AnotherReview, TypeOK
  <2> QED BY <1>9, <2>2 DEF AnotherReview, pages, observed, TypeOK
<1>10. CASE \E q \in requests : Serve(q) BY <1>10, ServeTyped
<1>11. CASE \E q \in requests : Answer(q) BY <1>11, AnswerTyped
<1>12. CASE \E q \in requests : Fail(q) BY <1>12, FailTyped
<1>13. CASE UNCHANGED vars BY <1>13 DEF vars, pages, observed, TypeOK
<1> QED
  BY <1>1, <1>2, <1>3, <1>4, <1>5, <1>6, <1>7, <1>8, <1>9, <1>10, <1>11, <1>12, <1>13
     DEF Next

\* The variables of the two pages keep their types.
THEOREM ReviewsTyped == Spec => []TypeOK
BY InitTyped, StepTyped, PTL DEF Spec

-----------------------------------------------------------------------------
(* What can be tapped *)

LEMMA CompletionFacts ==
  ASSUME TypeOK, NEW q \in requests, q.page \in Pages, NEW rs, Completion(q, rs)
  PROVE  /\ ~covered'[q.page] /\ reviews'[q.page] = rs /\ drawn'[q.page] = Len(rs)
         /\ modal'[q.page] => modal[q.page] /\ q.type = "get"
         /\ late'[q.page] <=> late[q.page] \/ q.n < since[q.page]
         /\ \A s \in Pages : s # q.page =>
              /\ covered'[s] = covered[s] /\ reviews'[s] = reviews[s]
              /\ drawn'[s] = drawn[s] /\ modal'[s] = modal[s] /\ late'[s] = late[s]
<1>1. /\ ~covered'[q.page]
      /\ \A s \in Pages : s # q.page => covered'[s] = covered[s]
  BY DEF Completion, TypeOK
<1>2. /\ reviews'[q.page] = rs
      /\ \A s \in Pages : s # q.page => reviews'[s] = reviews[s]
  BY DEF Completion, TypeOK
<1>3. /\ drawn'[q.page] = Len(rs)
      /\ \A s \in Pages : s # q.page => drawn'[s] = drawn[s]
  BY DEF Completion, Completed, TypeOK
<1>4. /\ modal'[q.page] => modal[q.page] /\ q.type = "get"
      /\ \A s \in Pages : s # q.page => modal'[s] = modal[s]
  <2>1. modal' = [modal EXCEPT ![q.page] = modal[q.page] /\ q.type = "get"]
    BY DEF Completion
  <2>2. modal \in [Pages -> BOOLEAN] BY DEF TypeOK
  <2> QED BY <2>1, <2>2, Zenon
<1>5. /\ late'[q.page] <=> late[q.page] \/ q.n < since[q.page]
      /\ \A s \in Pages : s # q.page => late'[s] = late[s]
  <2>1. late' = [late EXCEPT ![q.page] = late[q.page] \/ q.n < since[q.page]]
    BY DEF Completion
  <2>2. late \in [Pages -> BOOLEAN] BY DEF TypeOK
  <2> QED BY <2>1, <2>2, Zenon
<1> QED BY <1>1, <1>2, <1>3, <1>4, <1>5

LEMMA StepCounted == TypeOK /\ RowsCounted /\ [Next]_vars => RowsCounted'
<1> SUFFICES ASSUME TypeOK, RowsCounted, [Next]_vars PROVE RowsCounted'
  OBVIOUS
<1>1. CASE \E s \in Pages : Appear(s)
  <2>1. PICK s \in Pages : Appear(s) BY <1>1
  <2>2. covered'[s] BY <2>1 DEF Appear, Manage, TypeOK
  <2>3. \A t \in Pages : t # s =>
          shown'[t] = shown[t] /\ covered'[t] = covered[t] /\ reviews'[t] = reviews[t]
    BY <2>1 DEF Appear, Manage, TypeOK
  <2>4. drawn' = drawn BY <2>1 DEF Appear
  <2> QED BY <2>2, <2>3, <2>4 DEF RowsCounted, Touchable
<1>2. CASE \E s \in Pages : Leave(s)
  BY <1>2 DEF Leave, RowsCounted, Touchable, TypeOK
<1>3. CASE Back
  BY <1>3 DEF Back, RowsCounted, Touchable, TypeOK
<1>4. CASE RateUser \/ (\E s \in Pages : Close(s)) \/ (\E i \in 1 .. drawn["own"] : Select(i))
  BY <1>4 DEF RateUser, Close, Select, RowsCounted, Touchable
<1>5. CASE ReviewUser \/ Reply
  <2>1. PICK s \in Pages : covered' = [covered EXCEPT ![s] = TRUE]
    BY <1>5 DEF ReviewUser, Reply, Manage, Pages
  <2>2. UNCHANGED <<shown, reviews, drawn>> BY <1>5 DEF ReviewUser, Reply
  <2> QED BY <2>1, <2>2 DEF RowsCounted, Touchable, TypeOK
<1>6. CASE AnotherReview \/ (\E q \in requests : Serve(q)) \/ UNCHANGED vars
  BY <1>6 DEF AnotherReview, Serve, vars, pages, RowsCounted, Touchable
<1>7. CASE \E q \in requests : Answer(q) \/ Fail(q)
  <2>1. PICK q \in requests : Answer(q) \/ Fail(q) BY <1>7
  <2>2. CASE UNCHANGED pages BY <2>2 DEF pages, RowsCounted, Touchable
  <2>3. CASE ~UNCHANGED pages
    <3>1. PICK rs : Completion(q, rs) /\ UNCHANGED shown
      BY <2>1, <2>3 DEF Answer, Fail
    <3>2. q.page \in Pages
      BY <2>1, <2>3 DEF Answer, Fail, Request, TypeOK
    <3> QED BY <3>1, <3>2, CompletionFacts DEF RowsCounted, Touchable
  <2> QED BY <2>2, <2>3
<1> QED BY <1>1, <1>2, <1>3, <1>4, <1>5, <1>6, <1>7 DEF Next

\* What can be tapped is held: the table of a page that nothing covers draws as many
\* rows as there are reviews, however requests of the page were answered.
THEOREM RowsAreCounted == Spec => []RowsCounted
<1>1. Init => RowsCounted
  BY DEF Init, RowsCounted, Touchable, Both
<1> QED BY <1>1, InitTyped, StepTyped, StepCounted, PTL DEF Spec

-----------------------------------------------------------------------------
(* No review twice *)

\* Requests have a number each, and only the request of a page's last appearance
\* has the number kept in since.
Numbered ==
  /\ \A q \in requests : q.n <= asked
  /\ \A p, q \in requests : p.n = q.n => p = q
  /\ \A s \in Pages : since[s] <= asked
Gets ==
  \A q \in requests : q.page \in Pages =>
    /\ q.type = "get" => q.n <= since[q.page]
    /\ q.n = since[q.page] => q.type = "get"

\* Until that request is answered the page has no rows and, while it is on the
\* screen, its HUD, so that no later request is its own.
Awaited(s) == \E q \in requests : q.page = s /\ q.n = since[s]
Waiting(s) ==
  ~late[s] /\ Awaited(s) =>
    /\ reviews[s] = <<>> /\ (shown[s] => covered[s])
    /\ \A q \in requests : q.page = s => q.n <= since[s]
Listing == Numbered /\ Gets /\ (\A s \in Pages : Waiting(s)) /\ ReviewsOnce

LEMMA NumberFacts ==
  ASSUME TypeOK
  PROVE  /\ asked \in Nat /\ \A q \in requests : q \in Request /\ q.n \in Nat /\ q.n # 0
         /\ \A s \in Pages : since[s] \in Nat
BY ReviewBounds DEF TypeOK, Request

\* A request the server or the network deals with is gone or stays, with another
\* state, where it was.
LEMMA MovedFacts ==
  ASSUME TypeOK, NEW q \in requests, Serve(q) \/ Answer(q) \/ Fail(q)
  PROVE  /\ \E r \in Request :
              /\ r.n = q.n /\ r.page = q.page /\ r.type = q.type /\ r.id = q.id
              /\ requests' \subseteq (requests \ {q}) \cup {r}
         /\ UNCHANGED <<asked, since>>
         /\ Answer(q) \/ (Fail(q) /\ q.type = "get") => requests' = requests \ {q}
<1>1. q \in Request BY DEF TypeOK
<1>2. UNCHANGED <<asked, since>> BY DEF Serve, Answer, Fail, observed
<1>3. CASE Serve(q)
  <2> DEFINE r == [q EXCEPT !.state = "served", !.count = Len(Stored(q))]
  <2>1. r \in Request
    <3>1. Len(Stored(q)) \in 0 .. MaxReviews
      BY <1>3, StoredFacts, ReviewBounds DEF Serve
    <3> QED BY <1>1, <3>1, RequestFacts
  <2>2. r.n = q.n /\ r.page = q.page /\ r.type = q.type /\ r.id = q.id
    BY <1>1 DEF Request
  <2>3. requests' \subseteq (requests \ {q}) \cup {r} BY <1>3 DEF Serve
  <2>4. Answer(q) \/ (Fail(q) /\ q.type = "get") => requests' = requests \ {q}
    BY DEF Answer, Fail
  <2> QED BY <1>2, <2>1, <2>2, <2>3, <2>4
<1>4. CASE Answer(q)
  <2>1. requests' = requests \ {q} BY <1>4 DEF Answer
  <2> QED BY <1>1, <1>2, <2>1
<1>5. CASE Fail(q)
  <2> DEFINE r == [q EXCEPT !.state = "adrift"]
  <2>1. r \in Request BY <1>1, RequestFacts
  <2>2. r.n = q.n /\ r.page = q.page /\ r.type = q.type /\ r.id = q.id
    BY <1>1 DEF Request
  <2>3. requests' \subseteq (requests \ {q}) \cup {r} BY <1>5 DEF Fail
  <2>4. Answer(q) \/ (Fail(q) /\ q.type = "get") => requests' = requests \ {q}
    BY DEF Answer, Fail
  <2> QED BY <1>2, <2>1, <2>2, <2>3, <2>4
<1> QED BY <1>3, <1>4, <1>5

LEMMA MovedNumbered ==
  ASSUME TypeOK, Numbered, Gets, NEW q \in requests, Serve(q) \/ Answer(q) \/ Fail(q)
  PROVE  /\ Numbered' /\ Gets'
         /\ \A s \in Pages : Awaited(s)' => Awaited(s)
         /\ \A s \in Pages : (\A p \in requests : p.page = s => p.n <= since[s])
                             => \A p \in requests' : p.page = s => p.n <= since'[s]
         /\ \A s \in Pages : requests' = requests \ {q} /\ q.page = s /\ q.n = since[s]
                             => ~Awaited(s)'
<1>1. PICK r \in Request :
        /\ r.n = q.n /\ r.page = q.page /\ r.type = q.type /\ r.id = q.id
        /\ requests' \subseteq (requests \ {q}) \cup {r}
  BY MovedFacts
<1>2. UNCHANGED <<asked, since>> BY MovedFacts
<1>3. Numbered' BY <1>1, <1>2 DEF Numbered
<1>4. Gets' BY <1>1, <1>2 DEF Gets
<1>5. \A s \in Pages : Awaited(s)' => Awaited(s) BY <1>1, <1>2 DEF Awaited
<1>6. \A s \in Pages : (\A p \in requests : p.page = s => p.n <= since[s])
                       => \A p \in requests' : p.page = s => p.n <= since'[s]
  BY <1>1, <1>2
<1>7. \A s \in Pages : requests' = requests \ {q} /\ q.page = s /\ q.n = since[s]
                       => ~Awaited(s)'
  BY <1>2 DEF Awaited, Numbered
<1> QED BY <1>3, <1>4, <1>5, <1>6, <1>7

\* A page on which nothing of this changes.
LEMMA Unmoved ==
  ASSUME NEW s \in Pages, Waiting(s), ~late[s] => IsInjective(reviews[s]),
         late'[s] = late[s], since'[s] = since[s], reviews'[s] = reviews[s],
         shown'[s] => shown[s] /\ (covered[s] => covered'[s]),
         Awaited(s)' => Awaited(s) /\
           ((\A p \in requests : p.page = s => p.n <= since[s]) =>
              \A p \in requests' : p.page = s => p.n <= since'[s])
  PROVE  Waiting(s)' /\ (~late'[s] => IsInjective(reviews'[s]))
<1>1. Waiting(s)' BY DEF Waiting
<1>2. ~late'[s] => IsInjective(reviews'[s]) OBVIOUS
<1> QED BY <1>1, <1>2

LEMMA AppearListing == ASSUME TypeOK, Listing, NEW s \in Pages, Appear(s) PROVE Listing'
<1> DEFINE r == Asking(s, "get", NoId)
<1>1. /\ asked \in Nat /\ asked' = asked + 1 /\ requests' = requests \cup {r}
      /\ covered' = [covered EXCEPT ![s] = TRUE]
  BY ManageFacts DEF Appear
<1>2. r.n = asked + 1 /\ r.page = s /\ r.type = "get" BY DEF Asking
<1>3. /\ since'[s] = asked + 1 /\ reviews'[s] = <<>> /\ covered'[s] /\ ~late'[s]
      /\ \A t \in Pages : t # s =>
           /\ since'[t] = since[t] /\ reviews'[t] = reviews[t] /\ late'[t] = late[t]
           /\ shown'[t] = shown[t] /\ covered'[t] = covered[t]
  BY <1>1 DEF Appear, TypeOK
<1> HIDE DEF r
<1>4. \A q \in requests : q.n \in Nat /\ q.n <= asked BY NumberFacts DEF Listing, Numbered
<1>5. \A t \in Pages : since[t] \in Nat /\ since[t] <= asked
  BY NumberFacts DEF Listing, Numbered
<1>6. Numbered'
  <2>1. \A q \in requests' : q.n <= asked' BY <1>1, <1>2, <1>4
  <2>2. \A p, q \in requests' : p.n = q.n => p = q
    BY <1>1, <1>2, <1>4 DEF Listing, Numbered
  <2>3. \A t \in Pages : since'[t] <= asked' BY <1>1, <1>3, <1>5
  <2> QED BY <2>1, <2>2, <2>3 DEF Numbered
<1>7. Gets'
  <2>1. SUFFICES ASSUME NEW q \in requests', q.page \in Pages
                 PROVE  /\ q.type = "get" => q.n <= since'[q.page]
                        /\ q.n = since'[q.page] => q.type = "get"
    BY DEF Gets
  <2>2. CASE q = r BY <1>1, <1>2, <1>3, <2>2
  <2>3. CASE q \in requests /\ q.page = s BY <1>1, <1>3, <1>4, <2>3
  <2>4. CASE q \in requests /\ q.page # s BY <1>3, <2>1, <2>4 DEF Listing, Gets
  <2> QED BY <1>1, <2>1, <2>2, <2>3, <2>4
<1>8. ASSUME NEW t \in Pages PROVE Waiting(t)' /\ (~late'[t] => IsInjective(reviews'[t]))
  <2>1. CASE t = s
    <3>1. \A q \in requests' : q.page = s => q.n <= since'[s] BY <1>1, <1>2, <1>3, <1>4
    <3>2. Waiting(s)' BY <1>3, <3>1 DEF Waiting
    <3>3. IsInjective(reviews'[s]) BY <1>3 DEF IsInjective
    <3> QED BY <2>1, <3>2, <3>3
  <2>2. CASE t # s
    <3>1. Awaited(t)' => Awaited(t) BY <1>1, <1>2, <1>3, <2>2 DEF Awaited
    <3>2. (\A p \in requests : p.page = t => p.n <= since[t]) =>
            \A p \in requests' : p.page = t => p.n <= since'[t]
      BY <1>1, <1>2, <1>3, <2>2
    <3> QED BY <1>3, <2>2, <3>1, <3>2, Unmoved DEF Listing, ReviewsOnce
  <2> QED BY <2>1, <2>2
<1> QED BY <1>6, <1>7, <1>8 DEF Listing, ReviewsOnce

\* A dialogue's request: its page is uncovered, so nothing is awaited there unless late.
LEMMA SubmitListing ==
  ASSUME TypeOK, Listing, NEW s \in Pages, NEW type \in {"give", "reply"},
         NEW id \in Ids \cup {NoId}, Manage(s, type, id), Touchable(s),
         UNCHANGED <<shown, reviews, since, late>>
  PROVE  Listing'
<1> DEFINE r == Asking(s, type, id)
<1>1. /\ asked \in Nat /\ asked' = asked + 1 /\ requests' = requests \cup {r}
      /\ covered' = [covered EXCEPT ![s] = TRUE]
  BY ManageFacts
<1>2. r.n = asked + 1 /\ r.page = s /\ r.type # "get" BY DEF Asking
<1> HIDE DEF r
<1>3. \A q \in requests : q.n \in Nat /\ q.n <= asked BY NumberFacts DEF Listing, Numbered
<1>4. \A t \in Pages : since[t] \in Nat /\ since[t] <= asked
  BY NumberFacts DEF Listing, Numbered
<1>5. Numbered'
  <2>1. \A q \in requests' : q.n <= asked' BY <1>1, <1>2, <1>3
  <2>2. \A p, q \in requests' : p.n = q.n => p = q
    BY <1>1, <1>2, <1>3 DEF Listing, Numbered
  <2>3. \A t \in Pages : since'[t] <= asked' BY <1>1, <1>4
  <2> QED BY <2>1, <2>2, <2>3 DEF Numbered
<1>6. Gets'
  <2>1. \A t \in Pages : r.n # since[t] BY <1>1, <1>2, <1>4
  <2> QED BY <1>1, <1>2, <2>1 DEF Listing, Gets
<1>7. ASSUME NEW t \in Pages PROVE Waiting(t)' /\ (~late'[t] => IsInjective(reviews'[t]))
  <2>1. Awaited(t)' => Awaited(t) BY <1>1, <1>2, <1>4 DEF Awaited
  <2>2. CASE t = s
    <3>1. late[s] \/ ~Awaited(s) BY DEF Listing, Waiting, Touchable
    <3>2. Waiting(s)' BY <2>1, <2>2, <3>1 DEF Waiting
    <3> QED BY <2>2, <3>2 DEF Listing, ReviewsOnce
  <2>3. CASE t # s
    <3>1. covered'[t] = covered[t] BY <1>1, <2>3 DEF TypeOK
    <3>2. (\A p \in requests : p.page = t => p.n <= since[t]) =>
            \A p \in requests' : p.page = t => p.n <= since'[t]
      BY <1>1, <1>2, <2>3
    <3> QED BY <2>1, <3>1, <3>2, Unmoved DEF Listing, ReviewsOnce
  <2> QED BY <2>2, <2>3
<1> QED BY <1>5, <1>6, <1>7 DEF Listing, ReviewsOnce

LEMMA BackListing == ASSUME TypeOK, Listing, Back PROVE Listing'
<1>1. UNCHANGED <<asked, since, late>> BY DEF Back, observed
<1>2. /\ \A q \in requests' : \E p \in requests :
           /\ q = [p EXCEPT !.page = IF p.page = "rate" THEN "gone" ELSE p.page]
      /\ reviews'["rate"] = <<>>
      /\ \A t \in Pages : t # "rate" =>
           reviews'[t] = reviews[t] /\ shown'[t] = shown[t] /\ covered'[t] = covered[t]
  BY DEF Back, TypeOK, Pages
<1>3. ASSUME NEW p \in requests,
             NEW q, q = [p EXCEPT !.page = IF p.page = "rate" THEN "gone" ELSE p.page]
      PROVE  /\ q.n = p.n /\ q.type = p.type /\ q.page # "rate"
             /\ q.page \in Pages => q.page = p.page
  BY <1>3 DEF TypeOK, Request, Pages
<1>4. Numbered'
  <2>1. \A q \in requests' : q.n <= asked' BY <1>1, <1>2, <1>3 DEF Listing, Numbered
  <2>2. \A p, q \in requests' : p.n = q.n => p = q
    BY <1>2, <1>3 DEF Listing, Numbered
  <2> QED BY <1>1, <2>1, <2>2 DEF Listing, Numbered
<1>5. Gets'
  <2>1. SUFFICES ASSUME NEW q \in requests', q.page \in Pages
                 PROVE  /\ q.type = "get" => q.n <= since'[q.page]
                        /\ q.n = since'[q.page] => q.type = "get"
    BY DEF Gets
  <2>2. PICK p \in requests : q.n = p.n /\ q.type = p.type /\ q.page = p.page
    BY <1>2, <1>3, <2>1
  <2> QED BY <1>1, <2>1, <2>2 DEF Listing, Gets
<1>6. ASSUME NEW t \in Pages PROVE Waiting(t)' /\ (~late'[t] => IsInjective(reviews'[t]))
  <2>1. CASE t = "rate"
    <3>1. ~Awaited(t)' BY <1>2, <1>3, <2>1 DEF Awaited
    <3>2. IsInjective(reviews'[t]) BY <1>2, <2>1 DEF IsInjective
    <3> QED BY <3>1, <3>2 DEF Waiting
  <2>2. CASE t # "rate"
    <3>1. \A q \in requests' : q.page = t => \E p \in requests : p.page = t /\ p.n = q.n
      BY <1>2, <1>3
    <3>2. Awaited(t)' => Awaited(t) BY <1>1, <3>1 DEF Awaited
    <3>3. (\A p \in requests : p.page = t => p.n <= since[t]) =>
            \A p \in requests' : p.page = t => p.n <= since'[t]
      BY <1>1, <3>1
    <3> QED BY <1>1, <1>2, <2>2, <3>2, <3>3, Unmoved DEF Listing, ReviewsOnce
  <2> QED BY <2>1, <2>2
<1> QED BY <1>4, <1>5, <1>6 DEF Listing, ReviewsOnce

\* A request that is served, or of a page that is gone.
LEMMA StillListing ==
  ASSUME TypeOK, Listing, NEW q \in requests, Serve(q) \/ Answer(q) \/ Fail(q),
         UNCHANGED <<shown, reviews, covered, late>>
  PROVE  Listing'
<1>1. /\ Numbered' /\ Gets'
      /\ \A s \in Pages : Awaited(s)' => Awaited(s)
      /\ \A s \in Pages : (\A p \in requests : p.page = s => p.n <= since[s])
                          => \A p \in requests' : p.page = s => p.n <= since'[s]
  BY MovedNumbered DEF Listing
<1>2. since' = since BY MovedFacts
<1>3. ASSUME NEW t \in Pages PROVE Waiting(t)' /\ (~late'[t] => IsInjective(reviews'[t]))
  BY <1>1, <1>2, Unmoved DEF Listing, ReviewsOnce
<1> QED BY <1>1, <1>3 DEF Listing, ReviewsOnce

\* A completion on its page: it is the awaited one, which ends the wait, one from
\* before, or one from after, when nothing was awaited.
LEMMA CompletedListing ==
  ASSUME TypeOK, Listing, NEW q \in requests, q.page \in Pages, NEW rs,
         Answer(q) \/ Fail(q), Completion(q, rs), UNCHANGED shown,
         ~late'[q.page] => IsInjective(rs)
  PROVE  Listing'
<1>1. /\ Numbered' /\ Gets'
      /\ \A s \in Pages : Awaited(s)' => Awaited(s)
      /\ \A s \in Pages : (\A p \in requests : p.page = s => p.n <= since[s])
                          => \A p \in requests' : p.page = s => p.n <= since'[s]
      /\ \A s \in Pages : requests' = requests \ {q} /\ q.page = s /\ q.n = since[s]
                          => ~Awaited(s)'
  BY MovedNumbered DEF Listing
<1>2. /\ since' = since
      /\ Answer(q) \/ (Fail(q) /\ q.type = "get") => requests' = requests \ {q}
  BY MovedFacts
<1>3. /\ reviews'[q.page] = rs
      /\ late'[q.page] <=> late[q.page] \/ q.n < since[q.page]
      /\ \A s \in Pages : s # q.page =>
           /\ covered'[s] = covered[s] /\ reviews'[s] = reviews[s] /\ late'[s] = late[s]
  BY CompletionFacts
<1>4. ASSUME NEW t \in Pages PROVE Waiting(t)' /\ (~late'[t] => IsInjective(reviews'[t]))
  <2>1. CASE t = q.page
    <3>1. ASSUME ~late'[t] PROVE ~Awaited(t)'
      <4>1. ~late[t] /\ ~(q.n < since[t]) BY <1>3, <2>1, <3>1
      <4>2. CASE q.n = since[t]
        <5>1. q.type = "get" BY <2>1, <4>2 DEF Listing, Gets
        <5> QED BY <1>1, <1>2, <2>1, <4>2, <5>1
      <4>3. CASE q.n # since[t]
        <5>1. ~(q.n <= since[t]) BY <4>1, <4>3, NumberFacts
        <5>2. ~Awaited(t) BY <2>1, <4>1, <5>1 DEF Listing, Waiting
        <5> QED BY <1>1, <5>2
      <4> QED BY <4>2, <4>3
    <3>2. Waiting(t)' BY <3>1 DEF Waiting
    <3> QED BY <1>3, <2>1, <3>2
  <2>2. CASE t # q.page
    BY <1>1, <1>2, <1>3, <2>2, Unmoved DEF Listing, ReviewsOnce
  <2> QED BY <2>1, <2>2
<1> QED BY <1>1, <1>4 DEF Listing, ReviewsOnce

LEMMA AnswerListing == ASSUME TypeOK, Listing, NEW q \in requests, Answer(q) PROVE Listing'
<1>1. q \in Request BY DEF TypeOK
<1>2. CASE q.page = "gone" BY <1>2, StillListing DEF Answer, pages
<1>3. CASE q.page # "gone"
  <2> DEFINE rs == Kept(q) \o Received(q)
  <2>1. q.page \in Pages BY <1>1, <1>3 DEF Request
  <2>2. reviews[q.page] \in Seq(Ids) BY <2>1 DEF TypeOK
  <2>3. Completion(q, rs) /\ UNCHANGED shown BY <1>3 DEF Answer
  <2>4. ASSUME ~late'[q.page] PROVE IsInjective(rs)
    <3>1. ~late[q.page] /\ ~(q.n < since[q.page])
      BY <2>1, <2>3, <2>4, CompletionFacts
    <3>2. Kept(q) = <<>>
      <4>1. CASE q.type # "get" BY <4>1 DEF Kept
      <4>2. CASE q.type = "get"
        <5>1. q.n <= since[q.page] BY <2>1, <4>2 DEF Listing, Gets
        <5>2. q.n = since[q.page] BY <2>1, <3>1, <5>1, NumberFacts
        <5>3. reviews[q.page] = <<>>
          BY <2>1, <3>1, <5>2 DEF Listing, Waiting, Awaited
        <5> QED BY <4>2, <5>3 DEF Kept
      <4> QED BY <4>1, <4>2
    <3>3. Len(Kept(q)) = 0 /\ DOMAIN Kept(q) = {} BY <3>2
    <3>4. \A i \in DOMAIN rs : i \in Int /\ rs[i] = i
      <4>1. \A i \in DOMAIN rs : \/ i \in DOMAIN Kept(q)
                                 \/ /\ i - Len(Kept(q)) \in 1 .. q.count
                                    /\ rs[i] = i - Len(Kept(q))
        BY <1>1, <2>1, <2>2, RowsFacts
      <4>2. rs \in Seq(Ids) BY <1>1, <2>1, <2>2, RowsFacts
      <4>3. DOMAIN rs = 1 .. Len(rs) /\ Len(rs) \in Nat BY <4>2, LenProperties
      <4> HIDE DEF rs
      <4> QED BY <3>3, <4>1, <4>3
    <3> HIDE DEF rs
    <3> QED BY <3>4 DEF IsInjective
  <2> HIDE DEF rs
  <2> QED BY <2>1, <2>3, <2>4, CompletedListing
<1> QED BY <1>2, <1>3

LEMMA FailListing == ASSUME TypeOK, Listing, NEW q \in requests, Fail(q) PROVE Listing'
<1>1. CASE q.page = "gone" BY <1>1, StillListing DEF Fail, pages
<1>2. CASE q.page # "gone"
  <2>1. q.page \in Pages BY <1>2 DEF Request, TypeOK
  <2>2. Completion(q, reviews[q.page]) /\ UNCHANGED shown BY <1>2 DEF Fail
  <2>3. ~late'[q.page] => ~late[q.page] BY <2>1, <2>2, CompletionFacts
  <2>4. ~late'[q.page] => IsInjective(reviews[q.page])
    BY <2>1, <2>3 DEF Listing, ReviewsOnce
  <2> QED BY <2>1, <2>2, <2>4, CompletedListing
<1> QED BY <1>1, <1>2

LEMMA StepListing == TypeOK /\ Listing /\ [Next]_vars => Listing'
<1> SUFFICES ASSUME TypeOK, Listing, [Next]_vars PROVE Listing'
  OBVIOUS
<1>1. CASE \E s \in Pages : Appear(s) BY <1>1, AppearListing
<1>2. CASE \E s \in Pages : Leave(s)
  <2>1. PICK s \in Pages : Leave(s) BY <1>2
  <2>2. /\ UNCHANGED <<requests, asked, reviews, since, late>>
        /\ ~shown'[s]
        /\ \A t \in Pages : t # s => shown'[t] = shown[t] /\ covered'[t] = covered[t]
    BY <2>1 DEF Leave, observed, TypeOK
  <2>3. Numbered' /\ Gets' BY <2>2 DEF Listing, Numbered, Gets
  <2>4. ASSUME NEW t \in Pages PROVE Waiting(t)'
    BY <2>2 DEF Listing, Waiting, Awaited
  <2>5. ReviewsOnce' BY <2>2 DEF Listing, ReviewsOnce
  <2> QED BY <2>3, <2>4, <2>5 DEF Listing
<1>3. CASE Back BY <1>3, BackListing
<1>4. CASE ReviewUser
  <2>1. Manage("rate", "give", review_id) /\ Touchable("rate")
        /\ UNCHANGED <<shown, reviews, since, late>>
    BY <1>4 DEF ReviewUser
  <2>2. "rate" \in Pages /\ review_id \in Ids \cup {NoId} BY DEF Pages, TypeOK
  <2> QED BY <2>1, <2>2, SubmitListing
<1>5. CASE Reply
  <2>1. Manage("own", "reply", NoId) /\ Touchable("own")
        /\ UNCHANGED <<shown, reviews, since, late>>
    BY <1>5 DEF Reply, observed
  <2>2. "own" \in Pages /\ NoId \in Ids \cup {NoId} BY DEF Pages
  <2> QED BY <2>1, <2>2, SubmitListing
<1>6. CASE UNCHANGED <<requests, asked, shown, reviews, covered, since, late>>
  BY <1>6 DEF Listing, Numbered, Gets, Waiting, Awaited, ReviewsOnce
<1>7. CASE \E s \in Pages : Close(s) BY <1>6, <1>7 DEF Close, observed
<1>8. CASE \E i \in 1 .. drawn["own"] : Select(i) BY <1>6, <1>8 DEF Select, observed
<1>9. CASE RateUser BY <1>6, <1>9 DEF RateUser
<1>10. CASE AnotherReview BY <1>6, <1>10 DEF AnotherReview, pages, observed
<1>11. CASE \E q \in requests : Serve(q)
  <2>1. PICK q \in requests : Serve(q) BY <1>11
  <2>2. UNCHANGED <<shown, reviews, covered, late>> BY <2>1 DEF Serve, pages, observed
  <2> QED BY <2>1, <2>2, StillListing
<1>12. CASE \E q \in requests : Answer(q) BY <1>12, AnswerListing
<1>13. CASE \E q \in requests : Fail(q) BY <1>13, FailListing
<1>14. CASE UNCHANGED vars BY <1>6, <1>14 DEF vars, pages, observed
<1> QED
  BY <1>1, <1>2, <1>3, <1>4, <1>5, <1>7, <1>8, <1>9, <1>10, <1>11, <1>12, <1>13, <1>14
     DEF Next

LEMMA InitListing == Init => Listing
<1> SUFFICES ASSUME Init PROVE Listing
  OBVIOUS
<1>1. Numbered /\ Gets BY ReviewBounds DEF Init, Numbered, Gets, Both
<1>2. \A s \in Pages : ~Awaited(s) BY DEF Init, Awaited
<1>3. \A s \in Pages : reviews[s] = <<>> BY DEF Init, Both
<1>4. IsInjective(<<>>) BY DEF IsInjective
<1> QED BY <1>1, <1>2, <1>3, <1>4 DEF Listing, Waiting, ReviewsOnce

\* A page shows no review twice, unless a request from before its appearance was
\* answered after it: the answers in between replace the rows, and that of the
\* appearance finds none.
THEOREM ReviewsShownOnce == Spec => []ReviewsOnce
<1>1. Listing => ReviewsOnce BY DEF Listing
<1> QED BY <1>1, InitTyped, StepTyped, InitListing, StepListing, PTL DEF Spec

-----------------------------------------------------------------------------
(* One review *)

\* Submissions are the rating page's, and what it shows is in the store.
Kinds ==
  \A q \in requests : /\ q.type = "give" => q.page # "own"
                      /\ q.type = "reply" => q.page = "own"
Known ==
  /\ \A k \in DOMAIN reviews["rate"] : reviews["rate"][k] \in DOMAIN store
  /\ \A q \in requests : q.count <= Len(store)

\* An id that is kept or sent is that of a review of mine, and the answer to a
\* submission holds one.
Told(q) == \E i \in Mine : i <= q.count
Named ==
  /\ review_id # NoId => review_id \in Mine
  /\ \A q \in requests : q.type = "give" /\ q.id # NoId => q.id \in Mine
  /\ \A q \in requests : q.type = "give" /\ q.state = "served" => Told(q)

\* A submission of a page that is gone, or given up, is known to be out.
Stray(q) == q.type = "give" /\ (q.page = "gone" \/ q.state = "adrift")
Strays ==
  \A q \in requests : Stray(q) =>
    /\ shown["rate"] \/ q.state = "adrift" => unsure
    /\ modal["rate"] => blind

\* While the list of this appearance is awaited no submission adds a review, and
\* its answer holds mine, if there is one.
Adding == {q \in requests : q.type = "give" /\ q.id = NoId /\ q.state # "served"}
Awaiting ==
  Awaited("rate") =>
    /\ ~fresh["rate"] /\ (modal["rate"] => blind)
    /\ ~unsure /\ ~doubt => Adding = {}
Seen ==
  \A q \in requests :
    q.page = "rate" /\ q.n = since["rate"] /\ q.state = "served" /\ ~unsure /\ ~doubt =>
      Mine = {} \/ Told(q)

\* A fresh list has my review, so that a dialogue without an id means there is none.
Fresh ==
  shown["rate"] /\ fresh["rate"] /\ ~unsure /\ ~doubt /\ ~Giving /\ Mine # {} =>
    \E k \in DOMAIN reviews["rate"] : reviews["rate"][k] \in Mine
Opened == modal["rate"] /\ ~blind /\ review_id = NoId /\ ~Giving /\ ~doubt => Mine = {}

\* At most one review is there or being added.
Single ==
  ~doubt => /\ \A p, q \in Adding : p = q
            /\ Adding # {} => Mine = {}
            /\ \A i, j \in Mine : i = j

Rating ==
  Kinds /\ Known /\ Named /\ Strays /\ Awaiting /\ Seen /\ Fresh /\ Opened /\ Single

LEMMA MineFacts ==
  ASSUME TypeOK
  PROVE  /\ Len(store) \in Nat /\ DOMAIN store = 1 .. Len(store)
         /\ \A i \in Mine : i \in Nat /\ i # NoId /\ i <= Len(store) /\ i \in DOMAIN store
         /\ Own(reviews["rate"]) = {k \in DOMAIN reviews["rate"] :
                                      store[reviews["rate"][k]] = "me"}
<1>1. Len(store) \in Nat /\ DOMAIN store = 1 .. Len(store)
  BY LenProperties DEF TypeOK
<1> QED BY <1>1 DEF Mine, Own, NoId

LEMMA InitRating == Init => Rating
<1> SUFFICES ASSUME Init PROVE Rating
  OBVIOUS
<1>1. requests = {} /\ reviews["rate"] = <<>> /\ ~shown["rate"] /\ ~modal["rate"]
      /\ review_id = NoId
  BY DEF Init, Both, Pages
<1>2. Mine = {} BY DEF Init, Mine
<1>3. Kinds /\ Known /\ Named BY <1>1 DEF Kinds, Known, Named
<1>4. Strays /\ Awaiting /\ Seen BY <1>1 DEF Strays, Awaiting, Awaited, Seen
<1>5. Fresh /\ Opened BY <1>1 DEF Fresh, Opened
<1>6. Single BY <1>1, <1>2 DEF Single, Adding
<1> QED BY <1>3, <1>4, <1>5, <1>6 DEF Rating

\* A step that leaves the rating page as it is, or leaves it, and may add requests
\* of the other one.
LEMMA CalmRating ==
  ASSUME TypeOK, Rating, requests \subseteq requests',
         \A r \in requests' \ requests : r.page = "own" /\ r.type # "give" /\ r.count = 0,
         UNCHANGED <<store, review_id, unsure, blind, doubt>>,
         reviews'["rate"] = reviews["rate"], since'["rate"] = since["rate"],
         fresh'["rate"] = fresh["rate"],
         shown'["rate"] => shown["rate"], modal'["rate"] => modal["rate"]
  PROVE  Rating'
<1>1. Mine' = Mine BY DEF Mine
<1>2. Adding' = Adding BY DEF Adding
<1>3. Giving' <=> Giving BY DEF Giving
<1>4. Awaited("rate")' <=> Awaited("rate") BY DEF Awaited
<1>5. Kinds' BY DEF Rating, Kinds
<1>6. Known'
  <2>1. 0 <= Len(store) BY MineFacts
  <2> QED BY <2>1 DEF Rating, Known
<1>7. Named' BY <1>1 DEF Rating, Named, Told
<1>8. Strays' BY DEF Rating, Strays, Stray
<1>9. Awaiting' BY <1>2, <1>4 DEF Rating, Awaiting
<1>10. Seen' BY <1>1 DEF Rating, Seen, Told
<1>11. Fresh' BY <1>1, <1>3 DEF Rating, Fresh
<1>12. Opened' BY <1>1, <1>3 DEF Rating, Opened
<1>13. Single' BY <1>1, <1>2 DEF Rating, Single
<1> QED
  BY <1>5, <1>6, <1>7, <1>8, <1>9, <1>10, <1>11, <1>12, <1>13 DEF Rating

LEMMA AppearRating == ASSUME TypeOK, Listing, Rating, Appear("rate") PROVE Rating'
<1> DEFINE r == Asking("rate", "get", NoId)
<1>1. /\ asked \in Nat /\ requests' = requests \cup {r}
      /\ UNCHANGED <<store, review_id, blind, doubt>>
  <2>1. "rate" \in Pages /\ NoId \in Ids \cup {NoId} /\ Manage("rate", "get", NoId)
    BY DEF Pages, Appear
  <2> QED BY <2>1, ManageFacts DEF Appear
<1>2. /\ r.n = asked + 1 /\ r.page = "rate" /\ r.type = "get" /\ r.state = "sent"
      /\ r.count = 0
  BY DEF Asking
<1>3. /\ since'["rate"] = asked + 1 /\ reviews'["rate"] = <<>> /\ ~modal'["rate"]
      /\ ~fresh'["rate"] /\ unsure' = Giving
  BY DEF Appear, TypeOK, Pages
<1> HIDE DEF r
<1>4. Mine' = Mine BY <1>1 DEF Mine
<1>5. Adding' = Adding BY <1>1, <1>2 DEF Adding
<1>6. Kinds' BY <1>1, <1>2 DEF Rating, Kinds
<1>7. Known'
  <2>1. 0 <= Len(store) BY MineFacts
  <2> QED BY <1>1, <1>2, <1>3, <2>1 DEF Rating, Known
<1>8. Named' BY <1>1, <1>2, <1>4 DEF Rating, Named, Told
<1>9. Strays' BY <1>1, <1>2, <1>3 DEF Strays, Stray, Giving
<1>10. Awaiting'
  <2>1. ~unsure' => Adding = {} BY <1>3 DEF Adding, Giving
  <2> QED BY <1>3, <1>5, <2>1 DEF Awaiting
<1>11. Seen'
  <2>1. \A q \in requests : q.n # asked + 1 BY NumberFacts DEF Listing, Numbered
  <2> QED BY <1>1, <1>2, <1>3, <2>1 DEF Seen
<1>12. Fresh' /\ Opened' BY <1>3 DEF Fresh, Opened
<1>13. Single' BY <1>1, <1>4, <1>5 DEF Rating, Single
<1> QED
  BY <1>6, <1>7, <1>8, <1>9, <1>10, <1>11, <1>12, <1>13 DEF Rating

LEMMA BackRating == ASSUME TypeOK, Rating, Back PROVE Rating'
<1> DEFINE f(p) == [p EXCEPT !.page = IF p.page = "rate" THEN "gone" ELSE p.page]
<1>1. /\ UNCHANGED <<store, unsure, blind, doubt>>
      /\ ~shown'["rate"] /\ ~modal'["rate"] /\ review_id' = NoId
      /\ reviews'["rate"] = <<>>
  BY DEF Back, observed, TypeOK, Pages
<1>2. requests' = {f(p) : p \in requests} BY DEF Back
<1>3. \A p \in requests :
        /\ f(p).type = p.type /\ f(p).id = p.id /\ f(p).state = p.state
        /\ f(p).count = p.count /\ f(p).n = p.n /\ f(p).page # "rate"
        /\ f(p).page = "own" <=> p.page = "own"
  BY DEF TypeOK, Request, Pages
<1> HIDE DEF f
<1>4. Mine' = Mine BY <1>1 DEF Mine
<1>5. \A q \in Adding' : \E p \in Adding : q = f(p)
  BY <1>2, <1>3 DEF Adding
<1>6. ~Awaited("rate")' BY <1>2, <1>3 DEF Awaited
<1>7. Kinds' BY <1>2, <1>3 DEF Rating, Kinds
<1>8. Known' BY <1>1, <1>2, <1>3 DEF Rating, Known
<1>9. Named' BY <1>1, <1>2, <1>3, <1>4 DEF Rating, Named, Told
<1>10. Strays' BY <1>1, <1>2, <1>3 DEF Rating, Strays, Stray
<1>11. Awaiting' BY <1>6 DEF Awaiting
<1>12. Seen' BY <1>2, <1>3 DEF Seen
<1>13. Fresh' /\ Opened' BY <1>1 DEF Fresh, Opened
<1>14. Single' BY <1>1, <1>4, <1>5 DEF Rating, Single
<1> QED
  BY <1>7, <1>8, <1>9, <1>10, <1>11, <1>12, <1>13, <1>14 DEF Rating

LEMMA RateUserRating == ASSUME TypeOK, Rating, RateUser PROVE Rating'
<1>1. /\ UNCHANGED <<store, requests, reviews, since, fresh, unsure, doubt, shown>>
      /\ shown["rate"] /\ (blind' <=> unsure \/ ~fresh["rate"])
  BY DEF RateUser, Touchable
<1>2. Mine' = Mine /\ Adding' = Adding /\ (Giving' <=> Giving)
      /\ (Awaited("rate")' <=> Awaited("rate"))
  BY <1>1 DEF Mine, Adding, Giving, Awaited
<1>3. \/ Own(reviews["rate"]) = {} /\ review_id' = review_id
      \/ review_id' \in Mine
  <2>1. ASSUME NEW i \in Own(reviews["rate"]) PROVE reviews["rate"][i] \in Mine
    BY DEF Own, Mine, Rating, Known
  <2> QED BY <2>1 DEF RateUser
<1>4. Kinds' /\ Known' BY <1>1 DEF Rating, Kinds, Known
<1>5. Named' BY <1>1, <1>2, <1>3 DEF Rating, Named, Told
<1>6. Strays' BY <1>1 DEF Rating, Strays, Stray
<1>7. Awaiting' BY <1>1, <1>2 DEF Rating, Awaiting
<1>8. Seen' BY <1>1, <1>2 DEF Rating, Seen, Told
<1>9. Fresh' BY <1>1, <1>2 DEF Rating, Fresh
<1>10. Opened'
  <2>1. SUFFICES ASSUME ~blind', review_id' = NoId, ~Giving, ~doubt, Mine # {} PROVE FALSE
    BY <1>1, <1>2 DEF Opened
  <2>2. Own(reviews["rate"]) = {} BY <1>3, <2>1, MineFacts
  <2>3. PICK k \in DOMAIN reviews["rate"] : reviews["rate"][k] \in Mine
    BY <1>1, <2>1 DEF Rating, Fresh
  <2>4. k \in Own(reviews["rate"]) BY <2>3 DEF Own, Mine
  <2> QED BY <2>2, <2>4
<1>11. Single' BY <1>1, <1>2 DEF Rating, Single
<1> QED BY <1>4, <1>5, <1>6, <1>7, <1>8, <1>9, <1>10, <1>11 DEF Rating

LEMMA ReviewUserRating == ASSUME TypeOK, Listing, Rating, ReviewUser PROVE Rating'
<1> DEFINE r == Asking("rate", "give", review_id)
<1>1. /\ asked \in Nat /\ requests' = requests \cup {r}
      /\ UNCHANGED <<store, review_id, reviews, modal, shown, since, fresh, unsure, blind>>
      /\ modal["rate"]
      /\ doubt' <=> doubt \/ (review_id = NoId /\ (blind \/ Giving))
  <2>1. "rate" \in Pages /\ review_id \in Ids \cup {NoId}
        /\ Manage("rate", "give", review_id)
    BY DEF Pages, ReviewUser, TypeOK
  <2>2. asked \in Nat /\ requests' = requests \cup {r} BY <2>1, ManageFacts
  <2> QED BY <2>2 DEF ReviewUser
<1>2. /\ r.n = asked + 1 /\ r.page = "rate" /\ r.type = "give" /\ r.id = review_id
      /\ r.state = "sent" /\ r.count = 0
  BY DEF Asking
<1> HIDE DEF r
<1>3. Mine' = Mine BY <1>1 DEF Mine
<1>4. Giving' BY <1>1, <1>2 DEF Giving
<1>5. Adding' = IF review_id = NoId THEN Adding \cup {r} ELSE Adding
  BY <1>1, <1>2 DEF Adding
<1>6. since["rate"] # asked + 1
  BY <1>1, NumberFacts DEF Listing, Numbered, Pages
<1>7. Awaited("rate")' <=> Awaited("rate") BY <1>1, <1>2, <1>6 DEF Awaited
<1>8. Kinds' BY <1>1, <1>2 DEF Rating, Kinds
<1>9. Known'
  <2>1. 0 <= Len(store) BY MineFacts
  <2> QED BY <1>1, <1>2, <2>1 DEF Rating, Known
<1>10. Named' BY <1>1, <1>2, <1>3 DEF Rating, Named, Told
<1>11. Strays' BY <1>1, <1>2 DEF Rating, Strays, Stray
<1>12. Awaiting' BY <1>1, <1>5, <1>7 DEF Rating, Awaiting
<1>13. Seen' BY <1>1, <1>2, <1>3 DEF Rating, Seen, Told
<1>14. Fresh' /\ Opened' BY <1>4 DEF Fresh, Opened
<1>15. Single'
  <2>1. SUFFICES ASSUME ~doubt'
                 PROVE  /\ \A p, q \in Adding' : p = q
                        /\ Adding' # {} => Mine = {}
                        /\ \A i, j \in Mine : i = j
    BY <1>3 DEF Single
  <2>2. CASE review_id = NoId
    <3>1. ~doubt /\ ~blind /\ ~Giving BY <1>1, <2>1, <2>2
    <3>2. Adding = {} BY <3>1 DEF Adding, Giving
    <3>3. Mine = {} BY <1>1, <2>2, <3>1 DEF Rating, Opened
    <3> QED BY <1>5, <2>2, <3>2, <3>3
  <2>3. CASE review_id # NoId BY <1>1, <1>5, <2>1, <2>3 DEF Rating, Single
  <2> QED BY <2>2, <2>3
<1> QED
  BY <1>8, <1>9, <1>10, <1>11, <1>12, <1>13, <1>14, <1>15 DEF Rating

\* The store as a longer one with the same reviews in front.
LEMMA AnotherRating == ASSUME TypeOK, Rating, AnotherReview PROVE Rating'
<1>1. store' = Append(store, "other") /\ UNCHANGED <<requests, pages, observed>>
  BY DEF AnotherReview
<1>2. /\ Len(store) \in Nat /\ Len(store') = Len(store) + 1
      /\ DOMAIN store = 1 .. Len(store) /\ DOMAIN store' = 1 .. Len(store) + 1
      /\ \A i \in DOMAIN store : store'[i] = store[i]
      /\ store'[Len(store) + 1] = "other"
  <2>1. store \in Seq(Authors) /\ "other" \in Authors BY DEF TypeOK, Authors
  <2> QED BY <1>1, <2>1, AppendProperties, LenProperties
<1>3. Mine' = Mine
  <2>1. \A i \in DOMAIN store' : i \in DOMAIN store \/ i = Len(store) + 1 BY <1>2
  <2>2. DOMAIN store \subseteq DOMAIN store' BY <1>2
  <2> QED BY <1>2, <2>1, <2>2 DEF Mine
<1>4. Known'
  <2>1. DOMAIN store \subseteq DOMAIN store' BY <1>2
  <2>2. \A q \in requests : q.count \in Nat BY ReviewBounds DEF TypeOK, Request
  <2>3. \A q \in requests : q.count <= Len(store') BY <1>2, <2>2 DEF Rating, Known
  <2> QED BY <1>1, <2>1, <2>3 DEF Rating, Known, pages
<1>5. Adding' = Adding /\ (Giving' <=> Giving) /\ (Awaited("rate")' <=> Awaited("rate"))
  BY <1>1 DEF Adding, Giving, Awaited, observed
<1>6. Kinds' BY <1>1 DEF Rating, Kinds
<1>7. Named' BY <1>1, <1>3 DEF Rating, Named, Told, pages
<1>8. Strays' BY <1>1 DEF Rating, Strays, Stray, pages, observed
<1>9. Awaiting' BY <1>1, <1>5 DEF Rating, Awaiting, pages, observed
<1>10. Seen' BY <1>1, <1>3 DEF Rating, Seen, Told, observed
<1>11. Fresh' /\ Opened'
  BY <1>1, <1>3, <1>5 DEF Rating, Fresh, Opened, pages, observed
<1>12. Single' BY <1>1, <1>3, <1>5 DEF Rating, Single, observed
<1> QED BY <1>4, <1>6, <1>7, <1>8, <1>9, <1>10, <1>11, <1>12 DEF Rating

\* A submission that adds a review is the only one, and none of mine was there.
LEMMA ServeRating == ASSUME TypeOK, Rating, NEW q \in requests, Serve(q) PROVE Rating'
<1> DEFINE r == [q EXCEPT !.state = "served", !.count = Len(Stored(q))]
           last == Len(store) + 1
<1>1. /\ requests' = (requests \ {q}) \cup (IF q.state = "sent" THEN {r} ELSE {})
      /\ store' = Stored(q) /\ q.state # "served" /\ q \in Request
      /\ UNCHANGED <<reviews, modal, shown, review_id, since, fresh, unsure, blind, doubt>>
  BY DEF Serve, pages, observed, TypeOK
<1>2. /\ r.n = q.n /\ r.page = q.page /\ r.type = q.type /\ r.id = q.id
      /\ r.state = "served" /\ r.count = Len(store')
  BY <1>1 DEF Request
<1>3. /\ Len(store) \in Nat /\ Len(store') \in Nat /\ Len(store) <= Len(store')
      /\ DOMAIN store \subseteq DOMAIN store'
  <2>1. /\ Len(Stored(q)) \in Nat /\ Len(store) \in Nat
        /\ q.type = "give" /\ q.id = NoId => Len(Stored(q)) = Len(store) + 1
        /\ ~(q.type = "give" /\ q.id = NoId) => Stored(q) = store
        /\ \A i \in DOMAIN store : i \in DOMAIN Stored(q)
    BY StoredFacts
  <2> QED BY <1>1, <2>1
<1>4. /\ ~(q.type = "give" /\ q.id = NoId) => Mine' = Mine
      /\ q.type = "give" /\ q.id = NoId => Mine' = Mine \cup {last} /\ last = Len(store')
  <2>1. CASE ~(q.type = "give" /\ q.id = NoId)
    BY <1>1, <2>1, StoredFacts DEF Mine
  <2>2. CASE q.type = "give" /\ q.id = NoId
    <3>1. /\ DOMAIN store = 1 .. Len(store) /\ DOMAIN store' = 1 .. Len(store')
          /\ Len(store') = Len(store) + 1 /\ Len(store) \in Nat
          /\ \A i \in DOMAIN store : store'[i] = store[i]
          /\ store'[Len(store) + 1] = "me"
      BY <1>1, <2>2, StoredFacts
    <3>2. DOMAIN store' = DOMAIN store \cup {last} BY <3>1
    <3> HIDE DEF last
    <3>3. store'[last] = "me" /\ last = Len(store') BY <3>1 DEF last
    <3>4. Mine' = Mine \cup {last} BY <3>1, <3>2, <3>3 DEF Mine
    <3> QED BY <2>2, <3>3, <3>4
  <2> QED BY <2>1, <2>2
<1> HIDE DEF r, last
<1>5. Adding' = Adding \ {q}
  BY <1>1, <1>2 DEF Adding
<1>6. q \in Adding <=> q.type = "give" /\ q.id = NoId BY <1>1 DEF Adding
<1>7. Awaited("rate")' => Awaited("rate") BY <1>1, <1>2 DEF Awaited
<1>8. \A i \in Mine' : i <= Len(store')
  <2>1. \A i \in Mine : i \in Nat /\ i <= Len(store) BY MineFacts
  <2> QED BY <1>3, <1>4, <2>1
<1>9. ~Giving' =>
        \/ q.type # "give" /\ ~Giving
        \/ Stray(q) /\ q.state = "adrift"
  <2>1. SUFFICES ASSUME ~Giving', q.type = "give" PROVE Stray(q) /\ q.state = "adrift"
    BY <1>1 DEF Giving
  <2>2. q.state # "sent" BY <1>1, <1>2, <2>1 DEF Giving
  <2> QED BY <1>1, <2>1, <2>2 DEF Stray, Request
<1>10. Kinds' BY <1>1, <1>2 DEF Rating, Kinds
<1>11. Known'
  <2>1. \A p \in requests : p.count \in Nat BY ReviewBounds DEF TypeOK, Request
  <2>2. \A p \in requests : p.count <= Len(store') BY <1>3, <2>1 DEF Rating, Known
  <2>3. r.count <= Len(store') BY <1>2, <1>3
  <2> QED BY <1>1, <1>3, <2>2, <2>3 DEF Rating, Known
<1>12. Named'
  <2>1. Mine \subseteq Mine' BY <1>4
  <2>2. ASSUME r.type = "give" PROVE \E i \in Mine' : i <= r.count
    <3>1. CASE q.id = NoId
      <4>1. Len(store') \in Mine' BY <1>2, <1>4, <2>2, <3>1
      <4> QED BY <1>2, <1>3, <4>1
    <3>2. CASE q.id # NoId
      <4>1. q.id \in Mine' BY <1>2, <2>1, <2>2, <3>2 DEF Rating, Named
      <4> QED BY <1>2, <1>8, <4>1
    <3> QED BY <3>1, <3>2
  <2>3. \A p \in requests' : p.type = "give" /\ p.state = "served" => Told(p)'
    BY <1>1, <2>1, <2>2 DEF Rating, Named, Told
  <2>4. \A p \in requests' : p.type = "give" /\ p.id # NoId => p.id \in Mine'
    BY <1>1, <1>2, <2>1 DEF Rating, Named
  <2>5. review_id' # NoId => review_id' \in Mine' BY <1>1, <2>1 DEF Rating, Named
  <2> QED BY <2>3, <2>4, <2>5 DEF Named
<1>13. Strays' BY <1>1, <1>2 DEF Rating, Strays, Stray
<1>14. Awaiting' BY <1>1, <1>5, <1>7 DEF Rating, Awaiting
<1>15. Seen'
  <2>1. SUFFICES ASSUME NEW p \in requests', p.page = "rate", p.n = since["rate"],
                        p.state = "served", ~unsure, ~doubt
                 PROVE  Mine' = {} \/ \E i \in Mine' : i <= p.count
    BY <1>1 DEF Seen, Told
  <2>2. CASE p = r BY <1>2, <1>8, <2>2
  <2>3. CASE p \in requests
    <3>1. Adding = {} BY <2>1, <2>3 DEF Rating, Awaiting, Awaited
    <3>2. Mine' = Mine BY <1>4, <1>6, <3>1
    <3> QED BY <2>1, <2>3, <3>2 DEF Rating, Seen, Told
  <2> QED BY <1>1, <2>1, <2>2, <2>3
<1>16. Fresh'
  <2>1. SUFFICES ASSUME shown["rate"], fresh["rate"], ~unsure, ~doubt, ~Giving', Mine' # {}
                 PROVE  \E k \in DOMAIN reviews["rate"] : reviews["rate"][k] \in Mine'
    BY <1>1 DEF Fresh
  <2>2. q.type # "give" /\ ~Giving BY <1>9, <2>1 DEF Rating, Strays
  <2> QED BY <1>4, <2>1, <2>2 DEF Rating, Fresh
<1>17. Opened'
  <2>1. SUFFICES ASSUME modal["rate"], ~blind, review_id = NoId, ~Giving', ~doubt
                 PROVE  Mine' = {}
    BY <1>1 DEF Opened
  <2>2. q.type # "give" /\ ~Giving BY <1>9, <2>1 DEF Rating, Strays
  <2> QED BY <1>4, <2>1, <2>2 DEF Rating, Opened
<1>18. Single'
  <2>1. SUFFICES ASSUME ~doubt
                 PROVE  /\ \A p, t \in Adding' : p = t
                        /\ Adding' # {} => Mine' = {}
                        /\ \A i, j \in Mine' : i = j
    BY <1>1 DEF Single
  <2>2. CASE q \in Adding
    <3>1. Adding' = {} /\ Mine = {} BY <1>5, <2>1, <2>2 DEF Rating, Single
    <3> QED BY <1>4, <1>6, <2>2, <3>1
  <2>3. CASE q \notin Adding BY <1>4, <1>5, <1>6, <2>1, <2>3 DEF Rating, Single
  <2> QED BY <2>2, <2>3
<1> QED
  BY <1>10, <1>11, <1>12, <1>13, <1>14, <1>15, <1>16, <1>17, <1>18 DEF Rating

\* What the answer to a request is to the rating page.
LEMMA AnswerFacts ==
  ASSUME TypeOK, NEW q \in requests, Answer(q)
  PROVE  /\ q \in Request /\ q.state = "served" /\ requests' = requests \ {q}
         /\ UNCHANGED <<store, since, unsure, blind, doubt, shown, review_id>>
         /\ q.page = "rate" =>
              /\ q.page \in Pages /\ reviews[q.page] \in Seq(Ids)
              /\ reviews'["rate"] = Kept(q) \o Received(q)
              /\ modal'["rate"] => modal["rate"] /\ q.type = "get"
              /\ fresh'["rate"] <=> fresh["rate"] \/ q.n = since["rate"]
         /\ q.page # "rate" =>
              /\ reviews'["rate"] = reviews["rate"] /\ modal'["rate"] = modal["rate"]
              /\ fresh'["rate"] = fresh["rate"]
<1>1. /\ q \in Request /\ q.state = "served" /\ requests' = requests \ {q}
      /\ UNCHANGED <<store, since, unsure, blind, doubt>>
  BY DEF Answer, TypeOK
<1>2. CASE q.page = "gone" BY <1>1, <1>2 DEF Answer, pages
<1>3. CASE q.page # "gone"
  <2>1. q.page \in Pages /\ "rate" \in Pages BY <1>1, <1>3 DEF Request, Pages
  <2>2. Completion(q, Kept(q) \o Received(q)) /\ UNCHANGED <<shown, review_id>>
    BY <1>3 DEF Answer
  <2>3. fresh' = [fresh EXCEPT ![q.page] = fresh[q.page] \/ q.n = since[q.page]]
    BY <1>3 DEF Answer
  <2>4. fresh \in [Pages -> BOOLEAN] BY DEF TypeOK
  <2>5. /\ q.page = "rate" => (fresh'["rate"] <=> fresh["rate"] \/ q.n = since["rate"])
        /\ q.page # "rate" => fresh'["rate"] = fresh["rate"]
    BY <2>1, <2>3, <2>4, Zenon
  <2>6. reviews[q.page] \in Seq(Ids) BY <2>1 DEF TypeOK
  <2>7. /\ reviews'[q.page] = Kept(q) \o Received(q)
        /\ modal'[q.page] => modal[q.page] /\ q.type = "get"
        /\ \A s \in Pages : s # q.page => reviews'[s] = reviews[s] /\ modal'[s] = modal[s]
    BY <2>1, <2>2, CompletionFacts
  <2>8. q.page # "rate" =>
          reviews'["rate"] = reviews["rate"] /\ modal'["rate"] = modal["rate"]
    BY <2>1, <2>7
  <2> QED BY <1>1, <2>1, <2>2, <2>5, <2>6, <2>7, <2>8, Zenon
<1> QED BY <1>2, <1>3

LEMMA AnswerRating == ASSUME TypeOK, Listing, Rating, NEW q \in requests, Answer(q) PROVE Rating'
<1>1. /\ q \in Request /\ q.state = "served" /\ requests' = requests \ {q}
      /\ UNCHANGED <<store, since, unsure, blind, doubt, shown, review_id>>
  BY AnswerFacts
<1>2. q.page = "rate" =>
        /\ q.page \in Pages /\ reviews[q.page] \in Seq(Ids)
        /\ reviews'["rate"] = Kept(q) \o Received(q)
        /\ modal'["rate"] => modal["rate"] /\ q.type = "get"
        /\ fresh'["rate"] <=> fresh["rate"] \/ q.n = since["rate"]
  BY AnswerFacts
<1>3. q.page # "rate" =>
        /\ reviews'["rate"] = reviews["rate"] /\ modal'["rate"] = modal["rate"]
        /\ fresh'["rate"] = fresh["rate"]
  BY AnswerFacts
<1>4. Mine' = Mine /\ Adding' = Adding BY <1>1 DEF Mine, Adding
<1>5. q.type # "give" => (Giving' <=> Giving) BY <1>1 DEF Giving
<1>6. Awaited("rate")' => Awaited("rate") /\ ~(q.page = "rate" /\ q.n = since["rate"])
  BY <1>1, MovedNumbered DEF Listing, Pages
<1>7. modal'["rate"] => modal["rate"] BY <1>2, <1>3
<1>8. q.type = "give" => q.page = "rate" \/ Stray(q)
  BY <1>1 DEF Rating, Kinds, Stray, Request, Pages
<1>9. Kinds' BY <1>1 DEF Rating, Kinds
<1>10. Known'
  <2>1. \A p \in requests' : p.count <= Len(store') BY <1>1 DEF Rating, Known
  <2>2. CASE q.page # "rate" BY <1>1, <1>3, <2>1, <2>2 DEF Rating, Known
  <2>3. CASE q.page = "rate"
    <3>1. \A k \in DOMAIN Kept(q) : Kept(q)[k] \in DOMAIN store
      BY <2>3 DEF Kept, Rating, Known
    <3>2. \A n \in 1 .. q.count : n \in DOMAIN store
      <4>1. /\ q.count \in Nat /\ q.count <= Len(store)
            /\ Len(store) \in Nat /\ DOMAIN store = 1 .. Len(store)
        BY <1>1, MineFacts, ReviewBounds DEF Request, Rating, Known
      <4> QED BY <4>1
    <3>3. \A k \in DOMAIN reviews'["rate"] :
            \/ k \in DOMAIN Kept(q) /\ reviews'["rate"][k] = Kept(q)[k]
            \/ /\ k - Len(Kept(q)) \in 1 .. q.count
               /\ reviews'["rate"][k] = k - Len(Kept(q))
      <4>1. /\ q \in Request /\ q.page \in Pages /\ reviews[q.page] \in Seq(Ids)
            /\ reviews'["rate"] = Kept(q) \o Received(q)
        BY <1>1, <1>2, <2>3
      <4>2. \A k \in DOMAIN (Kept(q) \o Received(q)) :
              \/ k \in DOMAIN Kept(q) /\ (Kept(q) \o Received(q))[k] = Kept(q)[k]
              \/ /\ k - Len(Kept(q)) \in 1 .. q.count
                 /\ (Kept(q) \o Received(q))[k] = k - Len(Kept(q))
        BY <4>1, RowsFacts, Zenon
      <4> QED BY <4>1, <4>2, Zenon
    <3>4. \A k \in DOMAIN reviews'["rate"] : reviews'["rate"][k] \in DOMAIN store
      BY <3>1, <3>2, <3>3, Zenon
    <3> QED BY <1>1, <2>1, <3>4 DEF Known
  <2> QED BY <2>2, <2>3
<1>11. Named' BY <1>1, <1>4 DEF Rating, Named, Told
<1>12. Strays' BY <1>1, <1>7 DEF Rating, Strays, Stray
<1>13. Awaiting'
  <2>1. SUFFICES ASSUME Awaited("rate")'
                 PROVE  /\ ~fresh'["rate"] /\ (modal'["rate"] => blind)
                        /\ ~unsure /\ ~doubt => Adding = {}
    BY <1>1, <1>4 DEF Awaiting
  <2>2. fresh'["rate"] => fresh["rate"] BY <1>2, <1>3, <1>6, <2>1
  <2> QED BY <1>6, <1>7, <2>1, <2>2 DEF Rating, Awaiting
<1>14. Seen' BY <1>1, <1>4 DEF Rating, Seen, Told
<1>15. Fresh'
  <2>1. SUFFICES ASSUME shown["rate"], fresh'["rate"], ~unsure, ~doubt, ~Giving', Mine # {}
                 PROVE  \E k \in DOMAIN reviews'["rate"] : reviews'["rate"][k] \in Mine
    BY <1>1, <1>4 DEF Fresh
  <2>2. q.page = "rate" \/ q.type # "give"
    BY <1>8, <2>1 DEF Rating, Strays
  <2>3. CASE q.page # "rate" BY <1>3, <1>5, <2>1, <2>2, <2>3 DEF Rating, Fresh
  <2>4. CASE q.page = "rate" /\ Told(q)
    <3>1. PICK i \in Mine : i <= q.count BY <2>4 DEF Told
    <3>2. i \in 1 .. q.count
      BY <1>1, <3>1, MineFacts, ReviewBounds DEF Request, NoId
    <3>3. /\ Len(Kept(q)) + i \in DOMAIN reviews'["rate"]
          /\ reviews'["rate"][Len(Kept(q)) + i] = i
      <4>1. /\ q \in Request /\ q.page \in Pages /\ reviews[q.page] \in Seq(Ids)
            /\ reviews'["rate"] = Kept(q) \o Received(q)
        BY <1>1, <1>2, <2>4
      <4>2. /\ Len(Kept(q)) + i \in DOMAIN (Kept(q) \o Received(q))
            /\ (Kept(q) \o Received(q))[Len(Kept(q)) + i] = i
        BY <3>2, <4>1, RowsFacts, Zenon
      <4> QED BY <4>1, <4>2, Zenon
    <3> QED BY <3>1, <3>3, Zenon
  <2>5. CASE q.page = "rate" /\ ~Told(q)
    <3>1. q.n # since["rate"] BY <1>1, <2>1, <2>5 DEF Rating, Seen
    <3>2. q.type = "get" /\ fresh["rate"]
      BY <1>1, <1>2, <2>1, <2>5, <3>1 DEF Rating, Named, Kinds, Request
    <3>3. PICK k \in DOMAIN reviews["rate"] : reviews["rate"][k] \in Mine
      BY <1>5, <2>1, <3>2 DEF Rating, Fresh
    <3>4. Kept(q) = reviews["rate"] BY <2>5, <3>2 DEF Kept
    <3>5. k \in DOMAIN reviews'["rate"] /\ reviews'["rate"][k] = reviews["rate"][k]
      BY <1>1, <1>2, <2>5, <3>4, RowsFacts
    <3> QED BY <3>3, <3>5
  <2> QED BY <2>3, <2>4, <2>5
<1>16. Opened'
  <2>1. SUFFICES ASSUME modal'["rate"], ~blind, review_id = NoId, ~Giving', ~doubt
                 PROVE  Mine = {}
    BY <1>1, <1>4 DEF Opened
  <2>2. q.type # "give"
    BY <1>2, <1>7, <1>8, <2>1 DEF Rating, Strays
  <2> QED BY <1>5, <1>7, <2>1, <2>2 DEF Rating, Opened
<1>17. Single' BY <1>1, <1>4 DEF Rating, Single
<1> QED
  BY <1>9, <1>10, <1>11, <1>12, <1>13, <1>14, <1>15, <1>16, <1>17 DEF Rating

\* What a request without an answer is to the rating page: a submission that was not
\* handled stays as one that may be.
LEMMA FailFacts ==
  ASSUME TypeOK, NEW q \in requests, Fail(q)
  PROVE  LET r == [q EXCEPT !.state = "adrift"] IN
         /\ q \in Request /\ q.state # "adrift"
         /\ requests' = (requests \ {q}) \cup
              (IF q.state = "sent" /\ q.type = "give" THEN {r} ELSE {})
         /\ r.n = q.n /\ r.page = q.page /\ r.type = q.type /\ r.id = q.id
         /\ r.state = "adrift" /\ r.count = q.count
         /\ UNCHANGED <<store, since, blind, doubt, shown, review_id>>
         /\ unsure' <=> unsure \/ q.type = "give"
         /\ reviews'["rate"] = reviews["rate"] /\ fresh'["rate"] = fresh["rate"]
         /\ modal'["rate"] => modal["rate"] /\ ~(q.page = "rate" /\ q.type = "give")
<1> DEFINE r == [q EXCEPT !.state = "adrift"]
<1>1. /\ q \in Request /\ q.state # "adrift"
      /\ requests' = (requests \ {q}) \cup
           (IF q.state = "sent" /\ q.type = "give" THEN {r} ELSE {})
      /\ UNCHANGED <<store, since, blind, doubt>>
  BY DEF Fail, TypeOK
<1>2. /\ r.n = q.n /\ r.page = q.page /\ r.type = q.type /\ r.id = q.id
      /\ r.state = "adrift" /\ r.count = q.count
  BY <1>1 DEF Request
<1>3. unsure' <=> unsure \/ q.type = "give"
  <2>1. unsure' = (unsure \/ q.type = "give") BY DEF Fail
  <2> QED BY <2>1, Zenon
<1>4. /\ UNCHANGED <<shown, review_id>>
      /\ reviews'["rate"] = reviews["rate"] /\ fresh'["rate"] = fresh["rate"]
      /\ modal'["rate"] => modal["rate"] /\ ~(q.page = "rate" /\ q.type = "give")
  <2>1. CASE q.page = "gone" BY <2>1 DEF Fail, pages
  <2>2. CASE q.page # "gone"
    <3>1. q.page \in Pages /\ "rate" \in Pages BY <1>1, <2>2 DEF Request, Pages
    <3>2. Completion(q, reviews[q.page]) /\ UNCHANGED <<shown, review_id, fresh>>
      BY <2>2 DEF Fail
    <3>3. /\ reviews'[q.page] = reviews[q.page]
          /\ modal'[q.page] => modal[q.page] /\ q.type = "get"
          /\ \A s \in Pages : s # q.page => reviews'[s] = reviews[s] /\ modal'[s] = modal[s]
      BY <3>1, <3>2, CompletionFacts
    <3> QED BY <3>1, <3>2, <3>3
  <2> QED BY <2>1, <2>2
<1> QED BY <1>1, <1>2, <1>3, <1>4, Zenon

LEMMA FailRating == ASSUME TypeOK, Listing, Rating, NEW q \in requests, Fail(q) PROVE Rating'
<1> DEFINE r == [q EXCEPT !.state = "adrift"]
<1>1. /\ q \in Request /\ q.state # "adrift"
      /\ requests' = (requests \ {q}) \cup
           (IF q.state = "sent" /\ q.type = "give" THEN {r} ELSE {})
      /\ r.n = q.n /\ r.page = q.page /\ r.type = q.type /\ r.id = q.id
      /\ r.state = "adrift" /\ r.count = q.count
  BY FailFacts
<1>2. /\ UNCHANGED <<store, since, blind, doubt, shown, review_id>>
      /\ unsure' <=> unsure \/ q.type = "give"
      /\ reviews'["rate"] = reviews["rate"] /\ fresh'["rate"] = fresh["rate"]
      /\ modal'["rate"] => modal["rate"] /\ ~(q.page = "rate" /\ q.type = "give")
  BY FailFacts
<1> HIDE DEF r
<1>3. Mine' = Mine BY <1>2 DEF Mine
<1>4. q.type # "give" => Adding' = Adding /\ (Giving' <=> Giving)
  BY <1>1 DEF Adding, Giving
<1>5. Awaited("rate")' => Awaited("rate")
  BY MovedNumbered DEF Listing, Pages
<1>6. q.type = "give" => q.page = "rate" \/ Stray(q)
  BY <1>1 DEF Rating, Kinds, Stray, Request, Pages
<1>7. Kinds' BY <1>1 DEF Rating, Kinds
<1>8. Known' BY <1>1, <1>2 DEF Rating, Known
<1>9. Named' BY <1>1, <1>2, <1>3 DEF Rating, Named, Told
<1>10. Strays'
  <2>1. SUFFICES ASSUME NEW p \in requests', Stray(p)
                 PROVE  /\ shown["rate"] \/ p.state = "adrift" => unsure'
                        /\ modal'["rate"] => blind
    BY <1>2 DEF Strays, Stray
  <2>2. CASE p \in requests BY <1>2, <2>1, <2>2 DEF Rating, Strays
  <2>3. CASE p \notin requests
    <3>1. p = r /\ q.type = "give" BY <1>1, <2>1, <2>3
    <3> QED BY <1>2, <1>6, <3>1 DEF Rating, Strays
  <2> QED BY <2>2, <2>3
<1>11. Awaiting'
  <2>1. SUFFICES ASSUME Awaited("rate")'
                 PROVE  /\ ~fresh["rate"] /\ (modal'["rate"] => blind)
                        /\ ~unsure' /\ ~doubt => Adding' = {}
    BY <1>2 DEF Awaiting
  <2> QED BY <1>2, <1>4, <1>5, <2>1 DEF Rating, Awaiting
<1>12. Seen' BY <1>1, <1>2, <1>3 DEF Rating, Seen, Told
<1>13. Fresh' BY <1>2, <1>3, <1>4 DEF Rating, Fresh
<1>14. Opened'
  <2>1. SUFFICES ASSUME modal'["rate"], ~blind, review_id = NoId, ~Giving', ~doubt
                 PROVE  Mine = {}
    BY <1>2, <1>3 DEF Opened
  <2>2. q.type # "give" BY <1>2, <1>6, <2>1 DEF Rating, Strays
  <2> QED BY <1>2, <1>4, <2>1, <2>2 DEF Rating, Opened
<1>15. Single'
  <2>1. SUFFICES ASSUME ~doubt
                 PROVE  /\ \A p, t \in Adding' : p = t
                        /\ Adding' # {} => Mine = {}
                        /\ \A i, j \in Mine : i = j
    BY <1>2, <1>3 DEF Single
  <2>2. CASE q \in Adding
    <3>1. Adding = {q} /\ Mine = {} BY <2>1, <2>2 DEF Rating, Single
    <3>2. Adding' \subseteq {r} BY <1>1, <3>1 DEF Adding
    <3> QED BY <3>1, <3>2
  <2>3. CASE q \notin Adding
    <3>1. Adding' \subseteq Adding BY <1>1, <2>3 DEF Adding
    <3> QED BY <2>1, <3>1 DEF Rating, Single
  <2> QED BY <2>2, <2>3
<1> QED
  BY <1>7, <1>8, <1>9, <1>10, <1>11, <1>12, <1>13, <1>14, <1>15 DEF Rating

LEMMA StepRating == TypeOK /\ Listing /\ Rating /\ [Next]_vars => Rating'
<1> SUFFICES ASSUME TypeOK, Listing, Rating, [Next]_vars PROVE Rating'
  OBVIOUS
<1>1. CASE \E s \in Pages : Appear(s)
  <2>1. PICK s \in Pages : Appear(s) BY <1>1
  <2>2. CASE s = "rate" BY <2>1, <2>2, AppearRating
  <2>3. CASE s # "rate"
    <3>1. s = "own" BY <2>3 DEF Pages
    <3> DEFINE r == Asking("own", "get", NoId)
    <3>2. Manage("own", "get", NoId) /\ "own" \in Pages /\ NoId \in Ids \cup {NoId}
      BY <2>1, <3>1 DEF Appear, Pages
    <3>3. requests' = requests \cup {r} BY <3>2, ManageFacts
    <3>4. r.page = "own" /\ r.type # "give" /\ r.count = 0 BY DEF Asking
    <3> HIDE DEF r
    <3>5. /\ requests \subseteq requests'
          /\ \A p \in requests' \ requests :
               p.page = "own" /\ p.type # "give" /\ p.count = 0
      BY <3>3, <3>4
    <3>6. /\ UNCHANGED <<store, review_id, unsure, blind, doubt>>
          /\ reviews'["rate"] = reviews["rate"] /\ since'["rate"] = since["rate"]
          /\ fresh'["rate"] = fresh["rate"] /\ shown'["rate"] = shown["rate"]
          /\ modal'["rate"] = modal["rate"]
      BY <2>1, <3>1 DEF Appear, TypeOK, Pages
    <3> QED BY <3>5, <3>6, CalmRating
  <2> QED BY <2>2, <2>3
<1>2. CASE Reply
  <2> DEFINE r == Asking("own", "reply", NoId)
  <2>1. Manage("own", "reply", NoId) /\ "own" \in Pages /\ NoId \in Ids \cup {NoId}
    BY <1>2 DEF Reply, Pages
  <2>2. requests' = requests \cup {r} BY <2>1, ManageFacts
  <2>3. r.page = "own" /\ r.type # "give" /\ r.count = 0 BY DEF Asking
  <2> HIDE DEF r
  <2>4. /\ requests \subseteq requests'
        /\ \A p \in requests' \ requests :
             p.page = "own" /\ p.type # "give" /\ p.count = 0
    BY <2>2, <2>3
  <2>5. UNCHANGED <<store, review_id, unsure, blind, doubt, reviews, since, fresh, shown, modal>>
    BY <1>2 DEF Reply, observed
  <2> QED BY <2>4, <2>5, CalmRating
<1>3. ASSUME UNCHANGED <<requests, store, review_id, unsure, blind, doubt, reviews, since, fresh>>,
             shown'["rate"] => shown["rate"], modal'["rate"] => modal["rate"]
      PROVE  Rating'
  BY <1>3, CalmRating
<1>4. CASE \E s \in Pages : Leave(s)
  <2>1. PICK s \in Pages : Leave(s) BY <1>4
  <2>2. shown'["rate"] => shown["rate"] BY <2>1 DEF Leave, TypeOK, Pages
  <2> QED BY <1>3, <2>1, <2>2 DEF Leave, observed
<1>5. CASE \E s \in Pages : Close(s)
  <2>1. PICK s \in Pages : Close(s) BY <1>5
  <2>2. modal'["rate"] => modal["rate"] BY <2>1 DEF Close, TypeOK, Pages
  <2> QED BY <1>3, <2>1, <2>2 DEF Close, observed
<1>6. CASE \E i \in 1 .. drawn["own"] : Select(i)
  <2>1. PICK i \in 1 .. drawn["own"] : Select(i) BY <1>6
  <2>2. modal'["rate"] => modal["rate"] BY <2>1 DEF Select, TypeOK, Pages
  <2> QED BY <1>3, <2>1, <2>2 DEF Select, observed
<1>7. CASE UNCHANGED vars BY <1>3, <1>7 DEF vars, pages, observed
<1>8. CASE Back BY <1>8, BackRating
<1>9. CASE RateUser BY <1>9, RateUserRating
<1>10. CASE ReviewUser BY <1>10, ReviewUserRating
<1>11. CASE AnotherReview BY <1>11, AnotherRating
<1>12. CASE \E q \in requests : Serve(q) BY <1>12, ServeRating
<1>13. CASE \E q \in requests : Answer(q) BY <1>13, AnswerRating
<1>14. CASE \E q \in requests : Fail(q) BY <1>14, FailRating
<1> QED
  BY <1>1, <1>2, <1>4, <1>5, <1>6, <1>7, <1>8, <1>9, <1>10, <1>11, <1>12, <1>13, <1>14
     DEF Next

\* A user reviews another once, outside the cases in which the dialogue cannot know:
\* either the fresh list shows his review, whose id the dialogue takes, or the dialogue
\* that has none waits for its answer, which brings it.
THEOREM OneReviewKept == Spec => []OneReview
<1>1. Rating => OneReview BY DEF Rating, Single, OneReview
<1> QED
  BY <1>1, InitTyped, StepTyped, InitListing, StepListing, InitRating, StepRating, PTL
     DEF Spec
=============================================================================
