------------------------- MODULE MessageSendProofs -------------------------
(* Proofs about the chat screen, for every value of the constants. *)
EXTENDS MessageSend, SequenceTheorems, FiniteSetTheorems, TLAPS

-----------------------------------------------------------------------------
(* Sequences *)

\* What taking the head off a non-empty sequence leaves.
LEMMA TailFacts ==
  ASSUME NEW S, NEW q \in Seq(S), q # <<>>
  PROVE  /\ Tail(q) \in Seq(S) /\ Head(q) = q[1] /\ q[1] \in S
         /\ Len(q) \in Nat \ {0} /\ Len(Tail(q)) = Len(q) - 1
         /\ DOMAIN q = 1 .. Len(q) /\ DOMAIN Tail(q) = 1 .. Len(q) - 1
         /\ \A i \in 1 .. Len(q) - 1 : Tail(q)[i] = q[i + 1]
<1>1. Tail(q) \in Seq(S) /\ Head(q) \in S /\ Len(Tail(q)) = Len(q) - 1
  BY HeadTailProperties
<1>2. Len(q) \in Nat \ {0} /\ DOMAIN q = 1 .. Len(q) /\ Head(q) = q[1]
  BY EmptySeq, LenProperties
<1>3. \A i \in 1 .. Len(q) - 1 : Tail(q)[i] = q[i + 1]
  BY <1>2
<1> QED BY <1>1, <1>2, <1>3, LenProperties

\* What appending to a sequence gives.
LEMMA AppendFacts ==
  ASSUME NEW S, NEW q \in Seq(S), NEW e \in S
  PROVE  /\ Append(q, e) \in Seq(S) /\ Len(Append(q, e)) = Len(q) + 1
         /\ Len(q) \in Nat
         /\ DOMAIN q = 1 .. Len(q)
         /\ DOMAIN Append(q, e) = 1 .. Len(q) + 1
         /\ \A i \in 1 .. Len(q) : Append(q, e)[i] = q[i]
         /\ Append(q, e)[Len(q) + 1] = e
BY AppendProperties, LenProperties

\* Deleting one element of a sequence, as Array.remove(at:) does.
LEMMA RemovedFacts ==
  ASSUME NEW S, NEW q \in Seq(S), NEW i \in DOMAIN q
  PROVE  SubSeq(q, 1, i - 1) \o SubSeq(q, i + 1, Len(q)) \in Seq(S)
<1>1. Len(q) \in Nat /\ DOMAIN q = 1 .. Len(q) /\ \A j \in DOMAIN q : q[j] \in S
  BY LenProperties, ElementOfSeq
<1>2. SubSeq(q, 1, i - 1) \in Seq(S)
  BY <1>1, SubSeqProperties
<1>3. SubSeq(q, i + 1, Len(q)) \in Seq(S)
  BY <1>1, SubSeqProperties
<1> QED BY <1>2, <1>3, ConcatProperties

-----------------------------------------------------------------------------
(* Type correctness *)

\* A position among the rows, and what stands there.
LEMMA RowType ==
  ASSUME view \in Seq(Row), NEW i \in DOMAIN view
  PROVE  /\ i \in Nat /\ view[i] \in Row /\ view[i].key \in Key
         /\ view[i].me \in BOOLEAN /\ view[i].body \in Body
<1>1. i \in 1 .. Len(view) /\ Len(view) \in Nat
  BY LenProperties
<1>2. view[i] \in Row
  BY <1>1, ElementOfSeq
<1> QED BY <1>1, <1>2 DEF Row

\* The head of the outstanding requests is a request, and what is left is a
\* sequence of requests.
LEMMA WireType ==
  ASSUME wire \in Seq(Request), wire # <<>>
  PROVE  Head(wire) \in Request /\ Tail(wire) \in Seq(Request)
BY TailFacts

\* A request asked for at the end of the line is one of the kinds listed.
LEMMA ReqType ==
  ASSUME NEW step \in ChainStep \cup QueryStep \cup RowStep, NEW s \in Screen,
         NEW k \in Key \cup {0}, NEW b \in Body, NEW q \in Seq(Request)
  PROVE  Append(q, Req(step, s, k, b)) \in Seq(Request)
<1>1. Req(step, s, k, b) \in Request
  BY DEF Req, Request
<1> QED BY <1>1, AppendFacts

LEMMA InitType == Init => TypeOK
<1> SUFFICES ASSUME Init PROVE TypeOK
  OBVIOUS
<1>1. view \in Seq(Row) /\ wire \in Seq(Request) /\ posts \in Seq(Message) /\ Len(posts) = 0
  BY EmptySeq DEF Init
<1>2. 1 \in Screen /\ 0 <= MaxPosts
  BY BoundsAssumption DEF Screen
<1>3. /\ rowActs \in 0 .. MaxRowActs /\ rejects \in 0 .. MaxFaults
      /\ wiped \in 0 .. MaxPosts
  BY BoundsAssumption DEF Init
<1> QED BY <1>1, <1>2, <1>3 DEF Init, TypeOK, Causes

LEMMA ContinueType ==
  ASSUME wire \in Seq(Request), wire # <<>>
  PROVE  Continue(Head(wire)) \in Seq(Request)
<1> DEFINE r == Head(wire)
<1>1. r \in Request /\ Tail(wire) \in Seq(Request)
  BY WireType
<1>2. [r EXCEPT !.step = After(@)] \in Request
  BY <1>1 DEF Request, After, ChainStep
<1> QED BY <1>1, <1>2, AppendFacts DEF Continue

\* Every step keeps the types: one lemma per action that writes more than
\* scalars, then the case split.
LEMMA DoSendType ==
  ASSUME TypeOK, wire # <<>>, NEW s \in Screen, NEW body \in Body, DoSend(s, body)
  PROVE  /\ wire' \in Seq(Request)
         /\ posts' \in Seq(Message) /\ Len(posts') <= MaxPosts
         /\ sending' \in [Screen -> BOOLEAN] /\ cause' \in [Screen -> Causes]
<1>1. Tail(wire) \in Seq(Request)
  BY WireType DEF TypeOK
<1>2. CASE Dropped
  BY <1>1, <1>2 DEF Dropped, TypeOK
<1>3. CASE Latched(s)
  BY <1>1, <1>3 DEF Latched, TypeOK, Causes
<1>4. CASE Sent(s, body)
  <2> DEFINE m == [me |-> TRUE, body |-> body]
  <2>1. m \in Message
    BY DEF Message
  <2>2. Len(posts) \in Nat /\ Append(posts, m) \in Seq(Message) /\ Len(Append(posts, m)) = Len(posts) + 1
    BY <2>1, AppendFacts DEF TypeOK
  <2>3. NewKey \in Key
    BY <1>4, <2>2, BoundsAssumption DEF Sent, NewKey, Key
  <2>4. wire' \in Seq(Request)
    BY <1>1, <1>4, <2>3, ReqType DEF Sent, ChainStep
  <2>5. posts' \in Seq(Message) /\ Len(posts') <= MaxPosts
    BY <1>4, <2>2, BoundsAssumption DEF Sent
  <2>6. sending' \in [Screen -> BOOLEAN] /\ cause' \in [Screen -> Causes]
    BY <1>4 DEF Sent, TypeOK
  <2> QED BY <2>4, <2>5, <2>6
<1> QED BY <1>2, <1>3, <1>4 DEF DoSend

LEMMA UserType == TypeOK /\ User => TypeOK'
<1> SUFFICES ASSUME TypeOK, User PROVE TypeOK'
  OBVIOUS
<1> USE DEF TypeOK
<1>0. Len(wire) \in Nat /\ NoText \in Body /\ screen \in Screen
  BY LenProperties DEF Body
<1>1. CASE Open
  <2>1. screen + 1 \in Screen
    BY <1>1, BoundsAssumption DEF Open, Screen
  <2> QED BY <1>1, <2>1, EmptySeq DEF Open, Appear, image, latch, lists, history
<1>2. CASE Leave
  BY <1>2 DEF Leave, Disappear, edit, image, latch, lists, history
<1>3. CASE Cover
  BY <1>3 DEF Cover, Disappear, edit, image, latch, lists, history
<1>4. CASE Uncover
  BY <1>4, EmptySeq DEF Uncover, Appear, image, latch, lists, history
<1>5. CASE Erase
  BY <1>5 DEF Erase, place, edit, thread, image, latch, lists, history
<1>6. CASE TapSend
  <2>1. wire' \in Seq(Request)
    BY <1>0, <1>6, ReqType DEF TapSend, QueryStep
  <2> QED BY <1>6, <2>1 DEF TapSend, place, edit, thread, image, latch, lists, history
<1>7. CASE TapSave
  <2> DEFINE k == view[edtIndex].key
             b == text[screen]
             rows == [view EXCEPT ![edtIndex] = RowEdited(@, b)]
  <2>1. edtIndex \in DOMAIN view /\ view[edtIndex] \in Row
    BY <1>7, RowType DEF TapSave
  <2>2. k \in Key /\ b \in Body /\ screen \in Screen
    BY <2>1 DEF Row, Body
  <2>3. RowEdited(view[edtIndex], b) \in Row
    BY <2>1, <2>2 DEF RowEdited, Row
  <2>4. rows \in Seq(Row)
    BY <2>1, <2>3, ExceptSeq
  <2>5. wire' \in Seq(Request)
    BY <1>7, <2>2, ReqType DEF TapSave, RowStep
  <2>6. view' \in Seq(Row) /\ resurrected' \subseteq Key
    BY <1>7, <2>2, <2>4 DEF TapSave
  <2> QED BY <1>7, <2>5, <2>6 DEF TapSave, place, image, latch, lists
<1>8. CASE TapSaveTraps
  BY <1>8, EmptySeq DEF TapSaveTraps, ProcessLost, lists, Causes
<1>9. CASE Dismiss
  BY <1>9 DEF Dismiss, place, edit, thread, latch, lists, history
<1>10. CASE TapPost
  <2>1. wire' \in Seq(Request)
    BY <1>0, <1>10, ReqType DEF TapPost, QueryStep
  <2> QED BY <1>10, <2>1 DEF TapPost, place, edit, thread, image, latch, lists, history
<1>11. ASSUME NEW t \in Texts, Type(t) PROVE TypeOK'
  BY <1>11 DEF Type, place, edit, thread, image, latch, lists
<1>12. ASSUME NEW i \in DOMAIN view, EditBegin(i) PROVE TypeOK'
  <2>1. view[i] \in Row /\ i \in Nat /\ view[i].key \in Key
    BY RowType
  <2>2. view[i].body \in Texts \cup {NoText}
    BY <1>12, <2>1 DEF EditBegin, Row, Body
  <2>3. rowActs' \in 0 .. MaxRowActs
    BY <1>12, BoundsAssumption DEF EditBegin
  <2> QED BY <1>12, <2>1, <2>2, <2>3 DEF EditBegin, place, thread, image, latch, lists
<1>13. ASSUME NEW i \in DOMAIN view, Remove(i) PROVE TypeOK'
  <2>1. view[i] \in Row /\ view[i].key \in Key
    BY RowType
  <2>2. wire' \in Seq(Request)
    BY <1>0, <1>13, <2>1, ReqType DEF Remove, RowStep
  <2>3. rowActs' \in 0 .. MaxRowActs
    BY <1>13, BoundsAssumption DEF Remove
  <2>4. view' \in Seq(Row)
    BY <1>13, RemovedFacts DEF Remove
  <2> QED BY <1>13, <2>2, <2>3, <2>4 DEF Remove, place, image, latch, lists
<1>14. ASSUME NEW m \in Images, Pick(m) PROVE TypeOK'
  <2>1. uploads' \subseteq Upload
    BY <1>14 DEF Pick, Upload
  <2> QED BY <1>14, <2>1 DEF Pick, place, edit, thread, latch, lists, history
<1> QED BY <1>1, <1>2, <1>3, <1>4, <1>5, <1>6, <1>7, <1>8, <1>9, <1>10, <1>11,
          <1>12, <1>13, <1>14 DEF User

LEMMA AnswerType == TypeOK /\ Answer => TypeOK'
<1> SUFFICES ASSUME TypeOK, Answer PROVE TypeOK'
  OBVIOUS
<1> USE DEF TypeOK
<1> DEFINE r == Head(wire)
<1>0. /\ wire # <<>> /\ r \in Request /\ Tail(wire) \in Seq(Request)
      /\ r.screen \in Screen /\ r.body \in Body /\ r.key \in Key \cup {0}
  <2>1. wire # <<>>
    BY DEF Answer, Answered, TextStatusAnswered, ImageStatusAnswered, MessageAccepted,
           MyListAccepted, PartnerListAccepted, RowWriteAccepted
  <2> QED BY <2>1, WireType DEF Request
<1>1. CASE TextStatusAnswered
  <2>1. text[r.screen] \in Body
    BY <1>0 DEF Body
  <2>2. DoSend(r.screen, text[r.screen])
    BY <1>1 DEF TextStatusAnswered
  <2>3. /\ wire' \in Seq(Request)
        /\ posts' \in Seq(Message) /\ Len(posts') <= MaxPosts
        /\ sending' \in [Screen -> BOOLEAN] /\ cause' \in [Screen -> Causes]
    BY <1>0, <2>1, <2>2, DoSendType
  <2>4. text' \in [Screen -> Texts \cup {NoText}] /\ spilled' \subseteq Texts
    BY <1>0, <1>1 DEF TextStatusAnswered, BoxEmptied
  <2> QED BY <1>1, <2>3, <2>4 DEF TextStatusAnswered, place, edit, thread, image, lists
<1>2. CASE ImageStatusAnswered
  <2>1. /\ wire' \in Seq(Request)
        /\ posts' \in Seq(Message) /\ Len(posts') <= MaxPosts
        /\ sending' \in [Screen -> BOOLEAN] /\ cause' \in [Screen -> Causes]
    <3>1. CASE url[r.screen] = NoImage /\ Dropped
      BY <1>0, <3>1 DEF Dropped
    <3>2. CASE url[r.screen] # NoImage /\ DoSend(r.screen, url[r.screen])
      <4>1. url[r.screen] \in Body
        BY <1>0, <3>2 DEF Body
      <4> QED BY <1>0, <3>2, <4>1, DoSendType
    <3> QED BY <1>2, <3>1, <3>2 DEF ImageStatusAnswered
  <2> QED BY <1>2, <2>1 DEF ImageStatusAnswered, place, edit, thread, image, lists, history
<1>3. CASE MessageAccepted
  <2>1. room' \in [Key -> Message \cup {Absent}]
    BY <1>0, <1>3 DEF MessageAccepted, Message
  <2>2. wire' \in Seq(Request)
    BY <1>0, <1>3, ContinueType DEF MessageAccepted
  <2> QED BY <1>3, <2>1, <2>2 DEF MessageAccepted, place, edit, thread, image, latch,
                                  lists, history
<1>4. CASE MyListAccepted
  <2>1. wire' \in Seq(Request)
    BY <1>0, <1>4, ContinueType DEF MyListAccepted
  <2> QED BY <1>0, <1>4, <2>1 DEF MyListAccepted, place, edit, thread, image, latch, history
<1>5. CASE PartnerListAccepted
  BY <1>0, <1>5 DEF PartnerListAccepted, Released, place, edit, thread, history
<1>6. CASE RowWriteAccepted
  <2>1. room' \in [Key -> Message \cup {Absent}]
    BY <1>0, <1>6 DEF RowWriteAccepted, Message
  <2> QED BY <1>0, <1>6, <2>1 DEF RowWriteAccepted, place, edit, thread, image, latch,
                                  lists, history
<1> QED BY <1>1, <1>2, <1>3, <1>4, <1>5, <1>6 DEF Answer

LEMMA OtherType ==
  TypeOK /\ (ChildAdded \/ Storage \/ Partner \/ Kill \/ WriteRejected) => TypeOK'
<1> SUFFICES ASSUME TypeOK, ChildAdded \/ Storage \/ Partner \/ Kill \/ WriteRejected
             PROVE  TypeOK'
  OBVIOUS
<1> USE DEF TypeOK
<1>0. Len(posts) \in Nat
  BY LenProperties
<1>1. CASE ChildAdded
  <2>1. PICK k \in Visible \ seen, m \in Message :
          /\ view' = AddRow(view, [key |-> k, me |-> m.me, body |-> m.body])
          /\ seen' = seen \cup {k}
    BY <1>1 DEF ChildAdded
  <2>2. k \in Key /\ [key |-> k, me |-> m.me, body |-> m.body] \in Row
    BY DEF Visible, Row, Message
  <2>3. view' \in Seq(Row) /\ seen' \subseteq Key
    BY <2>1, <2>2, AppendFacts DEF AddRow
  <2> QED BY <1>1, <2>3 DEF ChildAdded, place, edit, image, latch, lists, history
<1>2. CASE Storage
  <2>1. PICK u \in uploads : PutAnswered(u) \/ UrlAnswered(u)
    BY <1>2 DEF Storage
  <2>2. u \in Upload
    BY <2>1
  <2>3. CASE PutAnswered(u)
    <3>1. [u EXCEPT !.phase = "url"] \in Upload
      BY <2>2 DEF Upload
    <3>2. uploads' \subseteq Upload
      BY <2>3, <3>1 DEF PutAnswered
    <3> QED BY <2>3, <3>2 DEF PutAnswered, place, edit, thread, latch, lists, history
  <2>4. CASE UrlAnswered(u)
    <3>1. url' \in [Screen -> Images \cup {NoImage}] /\ uploads' \subseteq Upload
      BY <2>2, <2>4 DEF UrlAnswered, UrlTaken, Upload
    <3> QED BY <2>4, <3>1 DEF UrlAnswered, place, edit, thread, latch, lists, history
  <2> QED BY <2>1, <2>3, <2>4
<1>3. ASSUME NEW b \in PartnerBodies, PartnerPosts(b) PROVE TypeOK'
  <2> DEFINE k == Len(posts) + 1
             m == [me |-> FALSE, body |-> b]
  <2>1. m \in Message
    BY BodiesAssumption DEF Message, Body
  <2>2. k \in Key
    <3>1. Cardinality(Asked) \in Nat
      <4>1. IsFiniteSet(DOMAIN wire)
        BY LenProperties, FS_Interval
      <4> QED BY <4>1, FS_Subset, FS_CardinalityType DEF Asked
    <3> QED BY <1>0, <1>3, <3>1, BoundsAssumption DEF PartnerPosts, MayPost, Key
  <2>3. posts' \in Seq(Message) /\ Len(posts') = k
    BY <1>3, <2>1, AppendFacts DEF PartnerPosts
  <2> QED BY <1>0, <1>3, <2>1, <2>2, <2>3, BoundsAssumption
          DEF PartnerPosts, Key, place, edit, thread, image, latch, history
<1>4. ASSUME NEW k \in Key, PartnerRemoves(k) PROVE TypeOK'
  BY <1>4 DEF PartnerRemoves, place, edit, image, latch, lists, history
<1>5. CASE PartnerDeletes
  BY <1>0, <1>5, BoundsAssumption DEF PartnerDeletes, place, edit, image, latch
<1>6. CASE Kill
  BY <1>6, EmptySeq DEF Kill, ProcessLost, lists, Causes
<1>7. CASE WriteRejected
  <2>1. rejects' \in 0 .. MaxFaults
    BY <1>7, BoundsAssumption DEF WriteRejected, MayFail
  <2>2. wire # <<>> /\ wire' \in Seq(Request) /\ Head(wire).screen \in Screen
    BY <1>7, WireType DEF WriteRejected, Request
  <2>3. cause' \in [Screen -> Causes]
    BY <1>7, <2>2 DEF WriteRejected, Causes
  <2> QED BY <1>7, <2>1, <2>2, <2>3 DEF WriteRejected, place, edit, image, lists
<1> QED BY <1>1, <1>2, <1>3, <1>4, <1>5, <1>6, <1>7 DEF Partner

\* Every variable keeps its type, whatever the bounds and whatever the texts and
\* images are: keys, rows and requests are always ones the program made.
THEOREM TypeCorrect == Spec => []TypeOK
<1>1. Init => TypeOK
  BY InitType
<1>2. TypeOK /\ [Next]_vars => TypeOK'
  <2> SUFFICES ASSUME TypeOK, [Next]_vars PROVE TypeOK'
    OBVIOUS
  <2>1. CASE Next
    BY <2>1, UserType, AnswerType, OtherType DEF Next
  <2>2. CASE UNCHANGED vars
    BY <2>2 DEF TypeOK, vars, place, edit, thread, image, latch, lists, history
  <2> QED BY <2>1, <2>2
<1> QED BY <1>1, <1>2, PTL DEF Spec

-----------------------------------------------------------------------------
(* The chain of writes behind a send, cut out of the steps of the screen: what *)
(* a step may do to the outstanding requests, the latch and the two lists.     *)

pipeline == <<wire, sending, cause, posts, mine, theirs, wiped>>

AtHead(steps) == wire # <<>> /\ Head(wire).step \in steps
Taken == wire' = Tail(wire)

\* A query, an edit or a removal joins the line.
Queue == /\ \E e \in Request : e.step \notin ChainStep /\ wire' = Append(wire, e)
         /\ UNCHANGED <<sending, cause, posts, mine, theirs, wiped>>
\* One of those is answered and changes nothing of the chain.
Skip == /\ AtHead(QueryStep \cup RowStep) /\ Taken
        /\ UNCHANGED <<sending, cause, posts, mine, theirs, wiped>>
\* A status answer finds an empty text behind the latch.
Lock(s) == /\ AtHead(QueryStep) /\ Taken /\ ~sending[s]
           /\ sending' = [sending EXCEPT ![s] = TRUE]
           /\ cause' = [cause EXCEPT ![s] = "empty"]
           /\ UNCHANGED <<posts, mine, theirs, wiped>>
\* A status answer starts a chain.
Start(s, b) ==
  /\ AtHead(QueryStep) /\ ~sending[s] /\ Len(posts) < MaxPosts
  /\ posts' = Append(posts, [me |-> TRUE, body |-> b])
  /\ wire' = Append(Tail(wire), Req("message", s, Len(posts) + 1, b))
  /\ sending' = [sending EXCEPT ![s] = TRUE]
  /\ UNCHANGED <<cause, mine, theirs, wiped>>
\* A completion starts the next write of its chain.
Advance ==
  /\ AtHead({"message", "mine"}) /\ wire' = Continue(Head(wire))
  /\ mine' = IF Head(wire).step = "mine" THEN Head(wire).key ELSE mine
  /\ UNCHANGED <<sending, cause, posts, theirs, wiped>>
\* The last completion of a chain.
Finish == /\ AtHead({"theirs"}) /\ Taken
          /\ theirs' = Head(wire).key
          /\ sending' = [sending EXCEPT ![Head(wire).screen] = FALSE]
          /\ UNCHANGED <<cause, posts, mine, wiped>>
\* A write of a chain is refused.
Refuse == /\ AtHead(ChainStep) /\ Taken
          /\ cause' = [cause EXCEPT ![Head(wire).screen] = "rejected"]
          /\ rejects' > 0 /\ UNCHANGED <<sending, posts, mine, theirs, wiped>>
\* The process dies.
Lose == /\ wire' = <<>> /\ sending' = [s \in Screen |-> FALSE]
        /\ cause' = [s \in Screen |-> "none"]
        /\ killed' /\ UNCHANGED <<posts, mine, theirs, wiped>>
\* The partner posts, or deletes the chat.
Arrive == /\ \E m \in Message : ~m.me /\ posts' = Append(posts, m)
          /\ mine' = Len(posts) + 1 /\ theirs' = Len(posts) + 1
          /\ UNCHANGED <<wire, sending, cause, wiped>>
Wipe == /\ mine' = 0 /\ theirs' = 0 /\ wiped' = Len(posts)
        /\ UNCHANGED <<wire, sending, cause, posts>>

PipelineStep ==
  \/ UNCHANGED pipeline \/ Queue \/ Skip \/ Advance \/ Finish \/ Refuse \/ Lose
  \/ Arrive \/ Wipe \/ \E s \in Screen : Lock(s) \/ \E b \in Body : Start(s, b)

LEMMA DoSendSteps ==
  ASSUME NEW s \in Screen, NEW b \in Body, DoSend(s, b), AtHead(QueryStep),
         UNCHANGED <<mine, theirs, wiped>>
  PROVE  Skip \/ Lock(s) \/ Start(s, b)
<1>1. CASE Dropped
  BY <1>1 DEF Dropped, Skip, AtHead, Taken
<1>2. CASE LatchFree(s) /\ Latched(s)
  BY <1>2 DEF LatchFree, Latched, Lock, AtHead, Taken
<1>3. CASE LatchFree(s) /\ Sent(s, b)
  BY <1>3 DEF LatchFree, Sent, Start, NewKey
<1> QED BY <1>1, <1>2, <1>3 DEF DoSend

\* Every step of the screen moves its pipeline in one of these ways.
LEMMA Steps == TypeOK /\ [Next]_vars => PipelineStep
<1> SUFFICES ASSUME TypeOK, [Next]_vars PROVE PipelineStep
  OBVIOUS
<1> USE DEF PipelineStep
<1>0. NoText \in Body /\ screen \in Screen
  BY DEF TypeOK, Body
<1>1. CASE UNCHANGED vars
  BY <1>1 DEF vars, pipeline, latch, lists, history
<1>2. CASE User
  <2>1. CASE \/ Open \/ Leave \/ Cover \/ Uncover \/ Erase \/ Dismiss
             \/ (\E t \in Texts : Type(t)) \/ (\E i \in DOMAIN view : EditBegin(i))
             \/ (\E m \in Images : Pick(m))
    BY <2>1 DEF Open, Leave, Cover, Uncover, Erase, Dismiss, Type, EditBegin, Pick,
                pipeline, latch, lists, history
  <2>2. ASSUME NEW st \in QueryStep \cup RowStep, NEW k \in Key, NEW b \in Body
        PROVE  /\ Req(st, screen, k, b) \in Request
               /\ Req(st, screen, k, b).step \notin ChainStep
    BY <1>0 DEF Req, Request, QueryStep, RowStep, ChainStep
  <2>3. CASE TapSend \/ TapPost
    <3>1. PICK st \in QueryStep : wire' = Append(wire, Req(st, screen, 0, NoText))
      BY <2>3 DEF TapSend, TapPost, QueryStep
    <3>2. /\ Req(st, screen, 0, NoText) \in Request
          /\ Req(st, screen, 0, NoText).step \notin ChainStep
      BY <1>0 DEF Req, Request, QueryStep, ChainStep
    <3> QED BY <2>3, <3>1, <3>2 DEF TapSend, TapPost, Queue, latch, lists, history
  <2>4. CASE TapSave
    <3>1. view[edtIndex].key \in Key /\ text[screen] \in Body
      BY <1>0, <2>4, RowType DEF TapSave, TypeOK, Body
    <3>2. wire' = Append(wire, Req("edit", screen, view[edtIndex].key, text[screen]))
      BY <2>4 DEF TapSave
    <3>3. UNCHANGED <<sending, cause, posts, mine, theirs, wiped>>
      BY <2>4 DEF TapSave, latch, lists
    <3> QED BY <2>2, <3>1, <3>2, <3>3 DEF Queue, RowStep
  <2>5. ASSUME NEW i \in DOMAIN view, Remove(i) PROVE Queue
    <3>1. view[i].key \in Key
      BY RowType DEF TypeOK
    <3>2. wire' = Append(wire, Req("remove", screen, view[i].key, NoText))
      BY <2>5 DEF Remove
    <3>3. UNCHANGED <<sending, cause, posts, mine, theirs, wiped>>
      BY <2>5 DEF Remove, latch, lists
    <3> QED BY <1>0, <2>2, <3>1, <3>2, <3>3 DEF Queue, RowStep
  <2>6. CASE TapSaveTraps
    BY <2>6 DEF TapSaveTraps, ProcessLost, Lose, lists
  <2> QED BY <1>2, <2>1, <2>3, <2>4, <2>5, <2>6 DEF User
<1>3. CASE TextStatusAnswered
  <2>1. AtHead(QueryStep) /\ Head(wire).screen \in Screen
    BY <1>3, WireType DEF TextStatusAnswered, Answered, AtHead, QueryStep, TypeOK, Request
  <2>2. text[Head(wire).screen] \in Body
    BY <2>1 DEF TypeOK, Body
  <2>3. UNCHANGED <<mine, theirs, wiped>>
    BY <1>3 DEF TextStatusAnswered, lists
  <2>4. DoSend(Head(wire).screen, text[Head(wire).screen])
    BY <1>3 DEF TextStatusAnswered
  <2> QED BY <2>1, <2>2, <2>3, <2>4, DoSendSteps
<1>4. CASE ImageStatusAnswered
  <2>1. AtHead(QueryStep) /\ Head(wire).screen \in Screen
    BY <1>4, WireType DEF ImageStatusAnswered, Answered, AtHead, QueryStep, TypeOK, Request
  <2>2. UNCHANGED <<mine, theirs, wiped>>
    BY <1>4 DEF ImageStatusAnswered, lists, history
  <2>3. CASE Dropped
    BY <2>1, <2>2, <2>3 DEF Dropped, Skip, AtHead, Taken
  <2>4. CASE /\ url[Head(wire).screen] # NoImage
             /\ DoSend(Head(wire).screen, url[Head(wire).screen])
    <3>1. url[Head(wire).screen] \in Body
      BY <2>1, <2>4 DEF TypeOK, Body
    <3> QED BY <2>1, <2>2, <2>4, <3>1, DoSendSteps
  <2> QED BY <1>4, <2>3, <2>4 DEF ImageStatusAnswered
<1>5. CASE MessageAccepted
  BY <1>5 DEF MessageAccepted, Answered, Advance, AtHead, latch, lists, history
<1>6. CASE MyListAccepted
  BY <1>6 DEF MyListAccepted, Answered, Advance, AtHead, latch, history
<1>7. CASE PartnerListAccepted
  BY <1>7 DEF PartnerListAccepted, Answered, Finish, AtHead, Taken, Released, history
<1>8. CASE RowWriteAccepted
  BY <1>8 DEF RowWriteAccepted, Skip, AtHead, Taken, latch, lists, history
<1>9. CASE ChildAdded \/ Storage
  BY <1>9 DEF ChildAdded, Storage, PutAnswered, UrlAnswered, pipeline, latch, lists, history
<1>10. CASE Partner
  <2>1. ASSUME NEW b \in PartnerBodies, PartnerPosts(b) PROVE Arrive
    <3>1. [me |-> FALSE, body |-> b] \in Message
      BY BodiesAssumption DEF Message, Body
    <3> QED BY <2>1, <3>1 DEF PartnerPosts, Arrive, latch, history
  <2>2. ASSUME NEW k \in Key, PartnerRemoves(k) PROVE UNCHANGED pipeline
    BY <2>2 DEF PartnerRemoves, pipeline, latch, lists, history
  <2>3. CASE PartnerDeletes
    BY <2>3 DEF PartnerDeletes, Wipe, latch
  <2> QED BY <1>10, <2>1, <2>2, <2>3 DEF Partner
<1>11. CASE Kill
  BY <1>11 DEF Kill, ProcessLost, Lose, lists
<1>12. CASE WriteRejected
  <2>1. CASE Head(wire).step \in ChainStep
    <3>1. rejects' > 0
      BY <1>12, BoundsAssumption DEF WriteRejected, TypeOK
    <3> QED BY <1>12, <2>1, <3>1 DEF WriteRejected, Refuse, AtHead, Taken, lists
  <2>2. CASE Head(wire).step \notin ChainStep
    BY <1>12, <2>2 DEF WriteRejected, Skip, AtHead, Taken, lists
  <2> QED BY <2>1, <2>2
<1> QED BY <1>1, <1>2, <1>3, <1>4, <1>5, <1>6, <1>7, <1>8, <1>9, <1>10, <1>11, <1>12
        DEF Next, Answer

-----------------------------------------------------------------------------
(* One chain per screen, and no latch without its reason *)

\* What follows the head moves one place forward; what is appended stands last.
LEMMA TailMoves ==
  ASSUME NEW q \in Seq(Request), q # <<>>
  PROVE  /\ Len(q) \in Nat \ {0} /\ DOMAIN q = 1 .. Len(q)
         /\ DOMAIN Tail(q) = 1 .. Len(q) - 1
         /\ q[1] = Head(q) /\ q[1] \in Request
         /\ \A i \in DOMAIN Tail(q) : i + 1 \in DOMAIN q /\ Tail(q)[i] = q[i + 1]
         /\ \A i \in DOMAIN q : i = 1 \/ (i - 1 \in DOMAIN Tail(q) /\ Tail(q)[i - 1] = q[i])
<1>1. /\ Len(q) \in Nat \ {0} /\ DOMAIN q = 1 .. Len(q) /\ DOMAIN Tail(q) = 1 .. Len(q) - 1
      /\ q[1] = Head(q) /\ q[1] \in Request
      /\ \A i \in 1 .. Len(q) - 1 : Tail(q)[i] = q[i + 1]
  BY TailFacts
<1> HIDE DEF Request
<1>2. \A i \in DOMAIN q : i # 1 => i - 1 \in 1 .. Len(q) - 1 /\ (i - 1) + 1 = i
  BY <1>1
<1>3. \A i \in DOMAIN Tail(q) : i + 1 \in DOMAIN q
  BY <1>1
<1> QED BY <1>1, <1>2, <1>3

LEMMA PushMoves ==
  ASSUME NEW q \in Seq(Request), q # <<>>, NEW e \in Request
  PROVE  LET n == Append(Tail(q), e)
         IN /\ Len(q) \in Nat \ {0} /\ DOMAIN q = 1 .. Len(q) /\ DOMAIN n = DOMAIN q
            /\ q[1] = Head(q) /\ n[Len(q)] = e
            /\ \A i \in DOMAIN n : i = Len(q) \/ (i + 1 \in DOMAIN q /\ n[i] = q[i + 1])
<1>1. /\ Len(q) \in Nat \ {0} /\ DOMAIN q = 1 .. Len(q) /\ q[1] = Head(q)
      /\ Tail(q) \in Seq(Request) /\ Len(Tail(q)) = Len(q) - 1
      /\ \A i \in 1 .. Len(q) - 1 : Tail(q)[i] = q[i + 1]
  BY TailFacts
<1> DEFINE n == Append(Tail(q), e)
<1>2. /\ DOMAIN n = 1 .. (Len(q) - 1) + 1 /\ n[(Len(q) - 1) + 1] = e
      /\ \A i \in 1 .. Len(q) - 1 : n[i] = Tail(q)[i]
  BY <1>1, AppendFacts
<1> QED BY <1>1, <1>2

\* The latch and the chains are consistent.
Latching == OneChainPerScreen /\ LatchExplained

LEMMA LatchingStep == TypeOK /\ Latching /\ PipelineStep => Latching'
<1> SUFFICES ASSUME TypeOK, Latching, PipelineStep PROVE Latching'
  OBVIOUS
<1> USE DEF Latching, OneChainPerScreen, LatchExplained, InChain
<1>0. /\ wire \in Seq(Request) /\ sending \in [Screen -> BOOLEAN]
      /\ cause \in [Screen -> Causes]
  BY DEF TypeOK
<1>1. CASE UNCHANGED pipeline
  BY <1>1 DEF pipeline
<1>2. CASE Queue
  <2>1. PICK e \in Request : e.step \notin ChainStep /\ wire' = Append(wire, e)
    BY <1>2 DEF Queue
  <2>2. /\ Len(wire) \in Nat /\ DOMAIN wire = 1 .. Len(wire)
        /\ DOMAIN wire' = 1 .. Len(wire) + 1
        /\ \A i \in 1 .. Len(wire) : wire'[i] = wire[i]
        /\ wire'[Len(wire) + 1] = e
    BY <1>0, <2>1, AppendFacts
  <2>3. \A s \in Screen : InChain(s)' = InChain(s)
    BY <2>1, <2>2
  <2> QED BY <1>2, <2>3 DEF Queue
<1>3. ASSUME wire # <<>>, Taken
      PROVE  \A s \in Screen :
               /\ \A i \in InChain(s)' : i + 1 \in InChain(s)
               /\ \A i \in InChain(s) : i # 1 => i - 1 \in InChain(s)'
               /\ \A i \in InChain(s) : i \in Nat
               /\ \A i \in InChain(s)' : i \in Nat
  BY <1>0, <1>3, TailMoves DEF Taken
<1>4. CASE Skip
  <2>1. wire # <<>> /\ wire[1] = Head(wire) /\ Head(wire).step \notin ChainStep
    BY <1>0, <1>4, TailMoves DEF Skip, AtHead, QueryStep, RowStep, ChainStep
  <2>2. \A s \in Screen : 1 \notin InChain(s)
    BY <2>1
  <2> QED BY <1>3, <1>4, <2>1, <2>2 DEF Skip
<1>5. ASSUME NEW s \in Screen, Lock(s) PROVE Latching'
  <2>1. wire # <<>> /\ wire[1] = Head(wire) /\ Head(wire).step \notin ChainStep
    BY <1>0, <1>5, TailMoves DEF Lock, AtHead, QueryStep, ChainStep
  <2>2. \A z \in Screen : 1 \notin InChain(z)
    BY <2>1
  <2>3. InChain(s) = {}
    BY <1>5 DEF Lock
  <2> QED BY <1>0, <1>3, <1>5, <2>1, <2>2, <2>3 DEF Lock
<1>6. ASSUME NEW s \in Screen, NEW b \in Body, Start(s, b) PROVE Latching'
  <2> DEFINE e == Req("message", s, Len(posts) + 1, b)
  <2>1. wire # <<>> /\ Head(wire).step \notin ChainStep /\ wire' = Append(Tail(wire), e)
    BY <1>6 DEF Start, AtHead, QueryStep, ChainStep
  <2>2. e \in Request /\ e.step \in ChainStep /\ e.screen = s
    <3>1. Len(posts) + 1 \in Key
      BY <1>6, LenProperties, BoundsAssumption DEF Start, Key, TypeOK
    <3> QED BY <3>1 DEF Req, Request, ChainStep
  <2>3. /\ Len(wire) \in Nat \ {0} /\ DOMAIN wire = 1 .. Len(wire) /\ DOMAIN wire' = DOMAIN wire
        /\ wire[1] = Head(wire) /\ wire'[Len(wire)] = e
        /\ \A i \in DOMAIN wire' : i = Len(wire) \/ (i + 1 \in DOMAIN wire /\ wire'[i] = wire[i + 1])
    BY <1>0, <2>1, <2>2, PushMoves
  <2>4. InChain(s) = {}
    BY <1>6 DEF Start
  <2>5. InChain(s)' = {Len(wire)}
    BY <2>2, <2>3, <2>4
  <2>6. \A z \in Screen \ {s} : /\ \A i \in InChain(z)' : i + 1 \in InChain(z) /\ i \in Nat
                                /\ \A i \in InChain(z) : i - 1 \in InChain(z)' /\ i \in Nat
    BY <2>1, <2>2, <2>3
  <2>7. sending'[s] /\ \A z \in Screen \ {s} : sending'[z] = sending[z]
    BY <1>0, <1>6 DEF Start
  <2>8. cause' = cause
    BY <1>6 DEF Start
  <2>9. OneChainPerScreen'
    <3>1. \A i, j \in InChain(s)' : i = j /\ sending'[s]
      BY <2>5, <2>7
    <3>2. ASSUME NEW z \in Screen \ {s}, NEW i \in InChain(z)', NEW j \in InChain(z)'
          PROVE  i = j /\ sending'[z]
      <4>1. i + 1 \in InChain(z) /\ j + 1 \in InChain(z) /\ i \in Nat /\ j \in Nat
        BY <2>6
      <4>2. i + 1 = j + 1 /\ sending[z]
        BY <4>1
      <4> QED BY <2>7, <4>1, <4>2
    <3> QED BY <3>1, <3>2
  <2>10. LatchExplained'
    <3>1. InChain(s)' # {}
      BY <2>5
    <3>2. ASSUME NEW z \in Screen \ {s}, sending'[z]
          PROVE  InChain(z)' # {} \/ cause'[z] # "none"
      <4>1. InChain(z) # {} \/ cause[z] # "none"
        BY <2>7, <3>2
      <4> QED BY <2>6, <2>8, <4>1
    <3> QED BY <3>1, <3>2
  <2> QED BY <2>9, <2>10
<1>7. ASSUME NEW s \in Screen, s = Head(wire).screen, Advance PROVE Latching'
  <2> DEFINE r == Head(wire)
             e == [r EXCEPT !.step = After(@)]
  <2>1. wire # <<>> /\ r.step \in ChainStep /\ wire' = Append(Tail(wire), e)
    BY <1>7 DEF Advance, AtHead, Continue, ChainStep
  <2>2. e \in Request /\ e.step \in ChainStep /\ e.screen = s
    BY <1>0, <1>7, <2>1, WireType DEF Request, After, ChainStep
  <2>3. /\ Len(wire) \in Nat \ {0} /\ DOMAIN wire = 1 .. Len(wire) /\ DOMAIN wire' = DOMAIN wire
        /\ wire[1] = Head(wire) /\ wire'[Len(wire)] = e
        /\ \A i \in DOMAIN wire' : i = Len(wire) \/ (i + 1 \in DOMAIN wire /\ wire'[i] = wire[i + 1])
    BY <1>0, <2>1, <2>2, PushMoves
  <2>4. InChain(s) = {1} /\ InChain(s)' = {Len(wire)}
    <3>1. 1 \in InChain(s)
      BY <1>7, <2>1, <2>3
    <3>2. InChain(s) = {1}
      BY <2>2, <3>1
    <3>3. Len(wire) \in InChain(s)'
      <4>1. Len(wire) \in DOMAIN wire'
        BY <2>3
      <4>2. wire'[Len(wire)].step \in ChainStep /\ wire'[Len(wire)].screen = s
        BY <2>2, <2>3
      <4> QED BY <4>1, <4>2
    <3>4. ASSUME NEW i \in InChain(s)', i # Len(wire) PROVE FALSE
      <4>1. i + 1 \in InChain(s) /\ i \in 1 .. Len(wire)
        BY <2>3, <3>4
      <4> QED BY <3>2, <4>1
    <3> QED BY <3>2, <3>3, <3>4
  <2>5. ASSUME NEW z \in Screen \ {s}
        PROVE  /\ \A i \in InChain(z)' : i + 1 \in InChain(z) /\ i \in Nat
               /\ \A i \in InChain(z) : i - 1 \in InChain(z)' /\ i \in Nat
    BY <1>7, <2>1, <2>2, <2>3
  <2>6. sending' = sending /\ cause' = cause
    BY <1>7 DEF Advance
  <2>7. OneChainPerScreen'
    <3>1. \A i, j \in InChain(s)' : i = j /\ sending'[s]
      BY <2>2, <2>4, <2>6
    <3>2. ASSUME NEW z \in Screen \ {s}, NEW i \in InChain(z)', NEW j \in InChain(z)'
          PROVE  i = j /\ sending'[z]
      <4>1. i + 1 \in InChain(z) /\ j + 1 \in InChain(z) /\ i \in Nat /\ j \in Nat
        BY <2>5
      <4>2. i + 1 = j + 1 /\ sending[z]
        BY <4>1
      <4> QED BY <2>6, <4>1, <4>2
    <3> QED BY <3>1, <3>2
  <2>8. LatchExplained'
    <3>1. InChain(s)' # {}
      BY <2>4
    <3>2. ASSUME NEW z \in Screen \ {s}, sending'[z]
          PROVE  InChain(z)' # {} \/ cause'[z] # "none"
      <4>1. InChain(z) # {} \/ cause[z] # "none"
        BY <2>6, <3>2
      <4> QED BY <2>5, <2>6, <4>1
    <3> QED BY <3>1, <3>2
  <2> QED BY <2>7, <2>8
<1>8. ASSUME NEW s \in Screen, AtHead(ChainStep), s = Head(wire).screen, Taken
      PROVE  /\ InChain(s)' = {}
             /\ \A z \in Screen \ {s} :
                  /\ \A i \in InChain(z)' : i + 1 \in InChain(z) /\ i \in Nat
                  /\ \A i \in InChain(z) : i - 1 \in InChain(z)' /\ i \in Nat
  <2>1. wire # <<>> /\ wire[1] = Head(wire) /\ Head(wire).step \in ChainStep /\ 1 \in DOMAIN wire
    BY <1>0, <1>8, TailMoves DEF AtHead
  <2>2. InChain(s) = {1}
    BY <1>8, <2>1
  <2>3. InChain(s)' = {}
    <3>1. ASSUME NEW i \in InChain(s)' PROVE FALSE
      <4>1. i \in Nat /\ i + 1 \in InChain(s) /\ i # 0
        BY <1>0, <1>3, <1>8, <2>1, TailMoves DEF Taken
      <4> QED BY <2>2, <4>1
    <3> QED BY <3>1
  <2>4. \A z \in Screen \ {s} : 1 \notin InChain(z)
    BY <1>8, <2>1
  <2> QED BY <1>3, <1>8, <2>1, <2>3, <2>4
<1>9. ASSUME NEW s \in Screen, s = Head(wire).screen, Finish \/ Refuse PROVE Latching'
  <2>1. AtHead(ChainStep) /\ Taken
    BY <1>9 DEF Finish, Refuse, AtHead, ChainStep
  <2>2. /\ InChain(s)' = {}
        /\ \A z \in Screen \ {s} :
             /\ \A i \in InChain(z)' : i + 1 \in InChain(z) /\ i \in Nat
             /\ \A i \in InChain(z) : i - 1 \in InChain(z)' /\ i \in Nat
    BY <1>8, <1>9, <2>1
  <2>3. /\ \A z \in Screen \ {s} : sending'[z] = sending[z] /\ cause'[z] = cause[z]
        /\ ~sending'[s] \/ cause'[s] # "none"
    BY <1>0, <1>9 DEF Finish, Refuse
  <2>4. OneChainPerScreen'
    <3>1. ASSUME NEW z \in Screen \ {s}, NEW i \in InChain(z)', NEW j \in InChain(z)'
          PROVE  i = j /\ sending'[z]
      <4>1. i + 1 \in InChain(z) /\ j + 1 \in InChain(z) /\ i \in Nat /\ j \in Nat
        BY <2>2
      <4>2. i + 1 = j + 1 /\ sending[z]
        BY <4>1
      <4> QED BY <2>3, <4>1, <4>2
    <3> QED BY <2>2, <3>1
  <2>5. LatchExplained'
    <3>1. ASSUME NEW z \in Screen \ {s}, sending'[z]
          PROVE  InChain(z)' # {} \/ cause'[z] # "none"
      <4>1. InChain(z) # {} \/ cause[z] # "none"
        BY <2>3, <3>1
      <4> QED BY <2>2, <2>3, <4>1
    <3> QED BY <2>3, <3>1
  <2> QED BY <2>4, <2>5
<1>10. CASE Advance \/ Finish \/ Refuse
  <2>1. Head(wire).screen \in Screen
    BY <1>0, <1>10, WireType DEF Advance, Finish, Refuse, AtHead, Request
  <2> QED BY <1>7, <1>9, <1>10, <2>1
<1>11. CASE Lose
  BY <1>11 DEF Lose
<1>12. CASE Arrive \/ Wipe
  BY <1>12 DEF Arrive, Wipe
<1> HIDE DEF Latching
<1> QED BY <1>1, <1>2, <1>4, <1>5, <1>6, <1>10, <1>11, <1>12 DEF PipelineStep

LEMMA LatchingInit == Init => Latching
BY DEF Init, Latching, OneChainPerScreen, LatchExplained, InChain

\* However many status answers reach doSend and in whatever order, a screen has
\* at most one chain of writes outstanding and holds its latch meanwhile.
THEOREM OneChain == Spec => []OneChainPerScreen
<1>1. TypeOK /\ Latching /\ [Next]_vars => Latching'
  BY Steps, LatchingStep
<1> QED BY <1>1, LatchingInit, TypeCorrect, PTL DEF Spec, Latching

\* A latch is never lost but for an empty text taken behind it or a refused write.
THEOREM LatchHasReason == Spec => []LatchExplained
<1>1. TypeOK /\ Latching /\ [Next]_vars => Latching'
  BY Steps, LatchingStep
<1> QED BY <1>1, LatchingInit, TypeCorrect, PTL DEF Spec, Latching


-----------------------------------------------------------------------------
(* The partner's list never runs ahead of mine *)

Chains == {i \in DOMAIN wire : wire[i].step \in ChainStep}

Stage(step) == IF step = "message" THEN 1 ELSE IF step = "mine" THEN 2 ELSE 3

\* i is further along than j: at a later write, or at the same one and before it
\* in the line.
Ahead(i, j) == \/ Stage(wire[i].step) > Stage(wire[j].step)
               \/ Stage(wire[i].step) = Stage(wire[j].step) /\ i < j

Fresh == theirs > wiped /\ posts[theirs].me

KeysPosted == theirs \in DOMAIN posts \cup {0} /\ \A i \in Chains : wire[i].key \in DOMAIN posts
KeysDistinct == \A i, j \in Chains : wire[i].key = wire[j].key => i = j
OldestAhead == \A i, j \in Chains : wire[i].key < wire[j].key => Ahead(i, j)
MineWritten == \A i \in Chains :
                 wire[i].step = "theirs" /\ wire[i].key > wiped => wire[i].key <= mine
TheirsBehind == Fresh => theirs <= mine /\ \A i \in Chains : theirs < wire[i].key

\* The strengthening of PreviewsInOrder that every step keeps: of two chains the
\* one with the older message is ahead, so no chain writes my list after a newer
\* one has.
Ordering == KeysPosted /\ KeysDistinct /\ OldestAhead /\ MineWritten /\ TheirsBehind

\* The requests a step leaves are old ones, none ahead of another that was not
\* before, when it takes at most the head and appends no write of a chain.
Thinned ==
  \E d \in {0, 1} :
    \A i \in Chains' : i + d \in Chains /\ wire'[i] = wire[i + d]

LEMMA ThinnedKeeps ==
  ASSUME TypeOK, TypeOK', Ordering, Thinned, UNCHANGED <<posts, mine, wiped>>,
         \/ theirs' = theirs
         \/ theirs' \in DOMAIN posts /\ theirs' <= mine /\ \A i \in Chains' : theirs' < wire'[i].key
         \/ theirs' \in DOMAIN posts /\ theirs' <= wiped
  PROVE  Ordering'
<1>1. PICK d \in {0, 1} : \A i \in Chains' : i + d \in Chains /\ wire'[i] = wire[i + d]
  BY DEF Thinned
<1>2. \A i \in Chains' : i \in Nat
  <2>1. wire' \in Seq(Request)
    BY DEF TypeOK
  <2>2. DOMAIN wire' \subseteq Nat
    BY <2>1, LenProperties
  <2> QED BY <2>2 DEF Chains
<1>3. KeysPosted'
  BY <1>1 DEF Ordering, KeysPosted
<1>4. KeysDistinct'
  <2> SUFFICES ASSUME NEW i \in Chains', NEW j \in Chains', wire'[i].key = wire'[j].key
               PROVE  i = j
    BY DEF KeysDistinct
  <2>1. i + d = j + d
    BY <1>1 DEF Ordering, KeysDistinct
  <2> QED BY <1>2, <2>1
<1>5. OldestAhead'
  <2> SUFFICES ASSUME NEW i \in Chains', NEW j \in Chains', wire'[i].key < wire'[j].key
               PROVE  Ahead(i, j)'
    BY DEF OldestAhead
  <2>1. Ahead(i + d, j + d)
    BY <1>1 DEF Ordering, OldestAhead
  <2> QED BY <1>1, <1>2, <2>1 DEF Ahead, Stage
<1>6. MineWritten'
  BY <1>1 DEF Ordering, MineWritten
<1>7. TheirsBehind'
  <2>1. CASE theirs' = theirs
    BY <1>1, <2>1 DEF Ordering, TheirsBehind, Fresh
  <2>2. CASE theirs' <= mine /\ \A i \in Chains' : theirs' < wire'[i].key
    BY <2>2 DEF TheirsBehind
  <2>3. CASE theirs' \in DOMAIN posts /\ theirs' <= wiped
    <3>1. theirs' \in Nat /\ wiped \in Nat
      BY <2>3, LenProperties DEF TypeOK
    <3> QED BY <2>3, <3>1 DEF TheirsBehind, Fresh
  <2> QED BY <2>1, <2>2, <2>3
<1> QED BY <1>3, <1>4, <1>5, <1>6, <1>7 DEF Ordering

\* The chain that ends is that of the oldest message under way.
LEMMA OldestEnds ==
  ASSUME TypeOK, Ordering, Finish, NEW i \in Chains'
  PROVE  Head(wire).key < wire'[i].key
<1> DEFINE k == Head(wire).key
<1>0. wire \in Seq(Request) /\ DOMAIN posts \subseteq Nat
  BY LenProperties DEF TypeOK
<1>1. wire # <<>> /\ Taken /\ Head(wire).step = "theirs"
  BY DEF Finish, AtHead
<1>2. 1 \in Chains /\ wire[1] = Head(wire)
  BY <1>0, <1>1, TailMoves DEF Chains, ChainStep
<1>3. i \in Nat \ {0} /\ i + 1 \in Chains /\ wire'[i] = wire[i + 1]
  BY <1>0, <1>1, TailMoves DEF Taken, Chains
<1>4. k \in Nat /\ wire[i + 1].key # k /\ wire[i + 1].key \in Nat
  BY <1>0, <1>2, <1>3 DEF Ordering, KeysDistinct, KeysPosted
<1>5. ~Ahead(i + 1, 1)
  BY <1>1, <1>2, <1>3 DEF Ahead, Stage
<1>6. ~(wire[i + 1].key < wire[1].key)
  BY <1>2, <1>3, <1>5 DEF Ordering, OldestAhead
<1> QED BY <1>2, <1>3, <1>4, <1>6

LEMMA OrderingStep == TypeOK /\ TypeOK' /\ Ordering /\ PipelineStep => Ordering'
<1> SUFFICES ASSUME TypeOK, TypeOK', Ordering, PipelineStep PROVE Ordering'
  OBVIOUS
<1>0. /\ wire \in Seq(Request) /\ posts \in Seq(Message)
      /\ Len(posts) \in Nat /\ DOMAIN posts = 1 .. Len(posts)
      /\ wiped \in Nat /\ mine \in Nat /\ theirs \in Nat
  BY LenProperties DEF TypeOK, Key
<1>1. CASE UNCHANGED pipeline
  BY <1>1 DEF pipeline, Ordering, KeysPosted, KeysDistinct, OldestAhead, MineWritten,
              TheirsBehind, Fresh, Chains, Ahead
<1>2. CASE Queue
  <2>1. PICK e \in Request : e.step \notin ChainStep /\ wire' = Append(wire, e)
    BY <1>2 DEF Queue
  <2>2. /\ Len(wire) \in Nat /\ DOMAIN wire = 1 .. Len(wire)
        /\ DOMAIN wire' = 1 .. Len(wire) + 1
        /\ \A i \in 1 .. Len(wire) : wire'[i] = wire[i]
        /\ wire'[Len(wire) + 1] = e
    BY <1>0, <2>1, AppendFacts
  <2>3. \A i \in Chains' : i + 0 \in Chains /\ wire'[i] = wire[i + 0]
    BY <2>1, <2>2 DEF Chains
  <2>4. Thinned
    BY <2>3 DEF Thinned
  <2> QED BY <1>2, <2>4, ThinnedKeeps DEF Queue
<1>3. ASSUME wire # <<>>, Taken PROVE Thinned
  <2>1. \A i \in Chains' : i + 1 \in Chains /\ wire'[i] = wire[i + 1]
    BY <1>0, <1>3, TailMoves DEF Taken, Chains
  <2> QED BY <2>1 DEF Thinned
<1>4. CASE Skip \/ Refuse \/ \E s \in Screen : Lock(s)
  <2>1. /\ wire # <<>> /\ Taken /\ UNCHANGED <<posts, mine, theirs, wiped>>
    BY <1>4 DEF Skip, Refuse, Lock, AtHead
  <2> QED BY <1>3, <2>1, ThinnedKeeps
<1>5. CASE Finish
  <2> DEFINE k == Head(wire).key
  <2>1. /\ wire # <<>> /\ Taken /\ UNCHANGED <<posts, mine, wiped>> /\ theirs' = k
        /\ Head(wire).step = "theirs"
    BY <1>5 DEF Finish, AtHead
  <2>2. 1 \in Chains /\ wire[1] = Head(wire)
    BY <1>0, <2>1, TailMoves DEF Chains, ChainStep
  <2>3. k \in DOMAIN posts
    BY <2>2 DEF Ordering, KeysPosted
  <2>4. \A i \in Chains' : k < wire'[i].key
    BY <1>5, OldestEnds
  <2>5. k <= wiped \/ k <= mine
    BY <1>0, <2>1, <2>2, <2>3 DEF Ordering, MineWritten
  <2>6. Thinned
    BY <1>3, <2>1
  <2> QED BY <2>1, <2>3, <2>4, <2>5, <2>6, ThinnedKeeps
<1>6. CASE Lose
  <2>1. wire' = <<>> /\ UNCHANGED <<posts, mine, theirs, wiped>>
    BY <1>6 DEF Lose
  <2>2. Chains' = {}
    BY <2>1 DEF Chains
  <2>3. Thinned
    BY <2>2 DEF Thinned
  <2> QED BY <2>1, <2>3, ThinnedKeeps
<1>7. CASE Wipe
  <2>1. /\ mine' = 0 /\ theirs' = 0 /\ wiped' = Len(posts)
        /\ UNCHANGED <<wire, posts>>
    BY <1>7 DEF Wipe
  <2>2. \A i \in Chains : wire[i].key \in Nat /\ wire[i].key <= Len(posts)
    BY <1>0 DEF Ordering, KeysPosted
  <2>3. KeysPosted' /\ KeysDistinct' /\ OldestAhead'
    BY <2>1 DEF Ordering, KeysPosted, KeysDistinct, OldestAhead, Ahead, Chains
  <2>4. MineWritten'
    BY <1>0, <2>1, <2>2 DEF MineWritten, Chains
  <2>5. TheirsBehind'
    BY <1>0, <2>1 DEF TheirsBehind, Fresh
  <2> QED BY <2>3, <2>4, <2>5 DEF Ordering
<1>8. CASE Arrive
  <2>1. PICK m \in Message : ~m.me /\ posts' = Append(posts, m)
    BY <1>8 DEF Arrive
  <2>2. /\ DOMAIN posts' = 1 .. Len(posts) + 1 /\ posts'[Len(posts) + 1] = m
    BY <1>0, <2>1, AppendFacts
  <2>3. mine' = Len(posts) + 1 /\ theirs' = Len(posts) + 1 /\ UNCHANGED <<wire, wiped>>
    BY <1>8 DEF Arrive
  <2>4. \A i \in Chains : wire[i].key \in Nat /\ wire[i].key <= Len(posts)
    BY <1>0 DEF Ordering, KeysPosted
  <2>5. KeysPosted'
    BY <1>0, <2>2, <2>3 DEF Ordering, KeysPosted, Chains
  <2>6. KeysDistinct' /\ OldestAhead'
    BY <2>3 DEF Ordering, KeysDistinct, OldestAhead, Ahead, Chains
  <2>7. MineWritten'
    BY <1>0, <2>3, <2>4 DEF MineWritten, Chains
  <2>8. TheirsBehind'
    BY <2>1, <2>2, <2>3 DEF TheirsBehind, Fresh
  <2> QED BY <2>5, <2>6, <2>7, <2>8 DEF Ordering
<1>9. ASSUME NEW e \in Request, wire # <<>>, wire' = Append(Tail(wire), e)
      PROVE  /\ Len(wire) \in Nat \ {0} /\ wire'[Len(wire)] = e /\ wire[1] = Head(wire)
             /\ 1 \in DOMAIN wire
             /\ \A i \in Chains' : /\ i \in 1 .. Len(wire)
                                   /\ \/ i = Len(wire) /\ wire'[i] = e
                                      \/ i + 1 \in Chains /\ wire'[i] = wire[i + 1]
  BY <1>0, <1>9, PushMoves DEF Chains
<1>10. ASSUME NEW s \in Screen, NEW b \in Body, Start(s, b) PROVE Ordering'
  <2> DEFINE k == Len(posts) + 1
             m == [me |-> TRUE, body |-> b]
             e == Req("message", s, k, b)
  <2>1. /\ wire # <<>> /\ wire' = Append(Tail(wire), e) /\ posts' = Append(posts, m)
        /\ UNCHANGED <<mine, theirs, wiped>> /\ Head(wire).step \notin ChainStep
    BY <1>10 DEF Start, AtHead, QueryStep, ChainStep
  <2>2. e \in Request /\ e.step = "message" /\ e.key = k
    <3>1. k \in Key
      BY <1>0, <1>10, BoundsAssumption DEF Start, Key
    <3> QED BY <3>1 DEF Req, Request, ChainStep
  <2>3. /\ DOMAIN posts' = 1 .. k /\ \A i \in DOMAIN posts : posts'[i] = posts[i]
    <3>1. m \in Message
      BY DEF Message
    <3> QED BY <1>0, <2>1, <3>1, AppendFacts
  <2>4. \A i \in Chains' : /\ i \in 1 .. Len(wire)
                           /\ \/ i = Len(wire) /\ wire'[i] = e
                              \/ i + 1 \in Chains /\ wire'[i] = wire[i + 1]
    BY <1>9, <2>1, <2>2
  <2> HIDE DEF e, m
  <2>5. Len(wire) \in Nat \ {0}
    BY <1>9, <2>1, <2>2
  <2>6. \A i \in Chains : wire[i].key \in Nat /\ wire[i].key < k
    BY <1>0 DEF Ordering, KeysPosted
  <2>7. KeysPosted'
    BY <1>0, <2>1, <2>2, <2>3, <2>4 DEF Ordering, KeysPosted
  <2>8. KeysDistinct'
    <3> SUFFICES ASSUME NEW i \in Chains', NEW j \in Chains', wire'[i].key = wire'[j].key
                 PROVE  i = j
      BY DEF KeysDistinct
    <3>1. CASE i + 1 \in Chains /\ wire'[i] = wire[i + 1] /\ j + 1 \in Chains /\ wire'[j] = wire[j + 1]
      <4>1. i + 1 = j + 1
        BY <3>1 DEF Ordering, KeysDistinct
      <4> QED BY <2>4, <4>1
    <3> QED BY <1>0, <2>2, <2>4, <2>6, <3>1
  <2>9. OldestAhead'
    <3> SUFFICES ASSUME NEW i \in Chains', NEW j \in Chains', wire'[i].key < wire'[j].key
                 PROVE  Ahead(i, j)'
      BY DEF OldestAhead
    <3>1. CASE i + 1 \in Chains /\ wire'[i] = wire[i + 1] /\ j + 1 \in Chains /\ wire'[j] = wire[j + 1]
      <4>1. Ahead(i + 1, j + 1)
        BY <3>1 DEF Ordering, OldestAhead
      <4> QED BY <2>4, <3>1, <4>1 DEF Ahead, Stage
    <3>2. CASE i + 1 \in Chains /\ wire'[i] = wire[i + 1] /\ j = Len(wire) /\ wire'[j] = e
      <4>1. wire[i + 1].step \in ChainStep /\ i \in 1 .. Len(wire) /\ i # j
        BY <1>0, <2>2, <2>4, <2>6, <3>2 DEF Chains
      <4> QED BY <2>2, <2>5, <3>2, <4>1 DEF Ahead, Stage, ChainStep
    <3>3. CASE i = Len(wire) /\ wire'[i] = e
      BY <1>0, <2>2, <2>4, <2>6, <3>3
    <3> QED BY <2>4, <3>1, <3>2, <3>3
  <2>10. MineWritten'
    BY <2>1, <2>2, <2>4 DEF Ordering, MineWritten
  <2>11. TheirsBehind'
    BY <1>0, <2>1, <2>2, <2>3, <2>4 DEF Ordering, TheirsBehind, Fresh, KeysPosted
  <2> QED BY <2>7, <2>8, <2>9, <2>10, <2>11 DEF Ordering
<1>11. CASE Advance
  <2> DEFINE r == Head(wire)
             k == Head(wire).key
             e == [r EXCEPT !.step = After(@)]
  <2>1. /\ wire # <<>> /\ r.step \in {"message", "mine"} /\ wire' = Append(Tail(wire), e)
        /\ UNCHANGED <<posts, theirs, wiped>>
        /\ mine' = IF r.step = "mine" THEN k ELSE mine
    BY <1>11 DEF Advance, AtHead, Continue
  <2>2. /\ e \in Request /\ e.key = k
        /\ e.step = IF r.step = "message" THEN "mine" ELSE "theirs"
    BY <1>0, <2>1, WireType DEF Request, After, ChainStep
  <2>3. \A i \in Chains' : /\ i \in 1 .. Len(wire)
                           /\ \/ i = Len(wire) /\ wire'[i] = e
                              \/ i + 1 \in Chains /\ wire'[i] = wire[i + 1]
    BY <1>9, <2>1, <2>2
  <2>4. Len(wire) \in Nat \ {0} /\ 1 \in Chains /\ wire[1] = r
    BY <1>9, <2>1, <2>2 DEF Chains, ChainStep
  <2> HIDE DEF e
  <2>5. /\ k \in DOMAIN posts /\ k \in Nat
        /\ \A i \in Chains : wire[i].key \in Nat /\ (i # 1 => wire[i].key # k)
    BY <1>0, <2>4 DEF Ordering, KeysPosted, KeysDistinct
  <2>6. ASSUME NEW i \in Chains, i \in Nat \ {0, 1}, Stage(wire[i].step) <= Stage(r.step)
        PROVE  k < wire[i].key
    <3>1. ~Ahead(i, 1)
      BY <2>1, <2>4, <2>6 DEF Ahead, Stage
    <3>2. ~(wire[i].key < wire[1].key)
      BY <2>4, <3>1 DEF Ordering, OldestAhead
    <3> QED BY <2>4, <2>5, <2>6, <3>2
  <2>7. KeysPosted'
    BY <2>1, <2>2, <2>3, <2>5 DEF Ordering, KeysPosted
  <2>8. KeysDistinct'
    <3> SUFFICES ASSUME NEW i \in Chains', NEW j \in Chains', wire'[i].key = wire'[j].key
                 PROVE  i = j
      BY DEF KeysDistinct
    <3>1. CASE i + 1 \in Chains /\ wire'[i] = wire[i + 1] /\ j + 1 \in Chains /\ wire'[j] = wire[j + 1]
      <4>1. i + 1 = j + 1
        BY <3>1 DEF Ordering, KeysDistinct
      <4> QED BY <2>3, <4>1
    <3> QED BY <2>2, <2>3, <2>5, <3>1
  <2>9. OldestAhead'
    <3> SUFFICES ASSUME NEW i \in Chains', NEW j \in Chains', wire'[i].key < wire'[j].key
                 PROVE  Ahead(i, j)'
      BY DEF OldestAhead
    <3>0. i \in 1 .. Len(wire) /\ j \in 1 .. Len(wire)
      BY <2>3
    <3>1. CASE i + 1 \in Chains /\ wire'[i] = wire[i + 1] /\ j + 1 \in Chains /\ wire'[j] = wire[j + 1]
      <4>1. Ahead(i + 1, j + 1)
        BY <3>1 DEF Ordering, OldestAhead
      <4> QED BY <3>0, <3>1, <4>1 DEF Ahead, Stage
    <3>2. CASE i + 1 \in Chains /\ wire'[i] = wire[i + 1] /\ j = Len(wire) /\ wire'[j] = e
      <4>1. i + 1 \in Nat \ {0, 1} /\ wire[i + 1].key < k
        BY <2>2, <3>0, <3>2
      <4>2. ~(Stage(wire[i + 1].step) <= Stage(r.step))
        BY <2>5, <2>6, <3>2, <4>1
      <4>3. i # j
        BY <2>2, <2>5, <3>2, <4>1
      <4> QED BY <2>1, <2>2, <2>4, <3>0, <3>2, <4>2, <4>3 DEF Ahead, Stage
    <3>3. CASE i = Len(wire) /\ wire'[i] = e /\ j + 1 \in Chains /\ wire'[j] = wire[j + 1]
      <4>1. Ahead(1, j + 1)
        BY <2>2, <2>4, <3>3 DEF Ordering, OldestAhead
      <4> QED BY <2>1, <2>2, <2>4, <3>0, <3>3, <4>1 DEF Ahead, Stage
    <3>4. CASE i = Len(wire) /\ j = Len(wire)
      BY <2>5, <3>4, <2>2, <2>3
    <3> QED BY <2>3, <3>1, <3>2, <3>3, <3>4
  <2>10. MineWritten'
    <3> SUFFICES ASSUME NEW i \in Chains', wire'[i].step = "theirs", wire'[i].key > wiped'
                 PROVE  wire'[i].key <= mine'
      BY DEF MineWritten
    <3>1. CASE i = Len(wire) /\ wire'[i] = e
      BY <2>1, <2>2, <2>5, <3>1
    <3>2. CASE i + 1 \in Chains /\ wire'[i] = wire[i + 1]
      <4>1. wire[i + 1].key <= mine
        BY <2>1, <3>2 DEF Ordering, MineWritten
      <4>2. ASSUME r.step = "mine" PROVE wire[i + 1].key <= k
        <5>1. ~Ahead(1, i + 1)
          BY <2>4, <3>2, <4>2 DEF Ahead, Stage
        <5>2. ~(wire[1].key < wire[i + 1].key)
          BY <2>4, <3>2, <5>1 DEF Ordering, OldestAhead
        <5> QED BY <2>4, <2>5, <3>2, <5>2
      <4> QED BY <2>1, <3>2, <4>1, <4>2
    <3> QED BY <2>3, <3>1, <3>2
  <2>11. TheirsBehind'
    <3> SUFFICES ASSUME Fresh PROVE theirs <= mine' /\ \A i \in Chains' : theirs < wire'[i].key
      BY <2>1 DEF TheirsBehind, Fresh
    <3>1. theirs <= mine /\ theirs < k /\ \A i \in Chains : theirs < wire[i].key
      BY <2>4 DEF Ordering, TheirsBehind
    <3> QED BY <1>0, <2>1, <2>2, <2>3, <2>5, <3>1
  <2> QED BY <2>7, <2>8, <2>9, <2>10, <2>11 DEF Ordering
<1> QED BY <1>1, <1>2, <1>4, <1>5, <1>6, <1>7, <1>8, <1>10, <1>11 DEF PipelineStep

LEMMA OrderingInit == Init => Ordering
BY DEF Init, Ordering, KeysPosted, KeysDistinct, OldestAhead, MineWritten, TheirsBehind,
       Fresh, Chains

\* When the partner's list shows a message of mine, my own list shows it or a
\* later one, whatever screens the chains of writes were started from.
THEOREM PreviewsOrdered == Spec => []PreviewsInOrder
<1>1. TypeOK /\ TypeOK' /\ Ordering /\ [Next]_vars => Ordering'
  BY Steps, OrderingStep
<1>2. Ordering => PreviewsInOrder
  BY DEF Ordering, TheirsBehind, Fresh, PreviewsInOrder
<1> QED BY <1>1, <1>2, OrderingInit, TypeCorrect, PTL DEF Spec

-----------------------------------------------------------------------------
(* No message is left out *)

\* No write was refused and the process never died with one outstanding.
Faultless == rejects = 0 /\ ~killed
\* The messages whose chain of writes is running.
Moving == {wire[i].key : i \in Chains}

\* What the user sent is on its way, or the partner's list shows it or a later
\* message, unless the partner deleted the chat since.
NoneLeftOut ==
  Faultless => \A k \in DOMAIN posts :
                 posts[k].me /\ wiped < k => k \in Moving \/ k <= theirs
\* It holds because no message gets ahead of another: while one is on its way, so
\* are all that the user sent after it.
NoneAhead ==
  Faultless => \A k \in DOMAIN posts, c \in Moving : posts[k].me /\ c < k => k \in Moving
Through == NoneLeftOut /\ NoneAhead

LEMMA FaultsStay == TypeOK /\ [Next]_vars /\ Faultless' => Faultless
<1> SUFFICES ASSUME TypeOK, [Next]_vars PROVE Faultless' => Faultless
  OBVIOUS
<1>1. (rejects' = rejects \/ rejects' = rejects + 1) /\ (killed' = killed \/ killed' = TRUE)
  BY DEF Next, User, Open, Leave, Cover, Uncover, Erase, TapSend, TapSave, TapSaveTraps,
         ProcessLost, Dismiss, TapPost, Type, EditBegin, Remove, Pick, Answer,
         TextStatusAnswered, ImageStatusAnswered, MessageAccepted, MyListAccepted,
         PartnerListAccepted, RowWriteAccepted, ChildAdded, Storage, PutAnswered,
         UrlAnswered, Partner, PartnerPosts, PartnerRemoves, PartnerDeletes, Kill,
         WriteRejected, history, vars
<1>2. rejects \in Nat
  BY BoundsAssumption DEF TypeOK
<1> QED BY <1>1, <1>2 DEF Faultless

\* Taking a request off the line that is no write of a chain, or adding one, changes
\* nothing of the messages on their way.
LEMMA MovingKept ==
  ASSUME TypeOK, wire # <<>>, Taken, Head(wire).step \notin ChainStep
  PROVE  Moving' = Moving
<1>1. /\ \A i \in Chains' : i + 1 \in Chains /\ wire'[i] = wire[i + 1]
      /\ \A i \in Chains : i - 1 \in Chains' /\ wire'[i - 1] = wire[i]
  BY TailMoves DEF TypeOK, Taken, Chains
<1> QED BY <1>1 DEF Moving

LEMMA MovingQueued ==
  ASSUME TypeOK, Queue
  PROVE  Moving' = Moving
<1>1. PICK e \in Request : e.step \notin ChainStep /\ wire' = Append(wire, e)
  BY DEF Queue
<1>2. wire \in Seq(Request)
  BY DEF TypeOK
<1>3. Chains' = Chains /\ \A i \in Chains : wire'[i] = wire[i]
  BY <1>1, <1>2, AppendFacts DEF Chains
<1> QED BY <1>3 DEF Moving

\* The head gives way to a write of a chain at the end of the line.
LEMMA MovingPushed ==
  ASSUME TypeOK, wire # <<>>, NEW e \in Request, e.step \in ChainStep,
         wire' = Append(Tail(wire), e)
  PROVE  /\ Moving' \subseteq Moving \cup {e.key}
         /\ e.key \in Moving'
         /\ \A c \in Moving : c \in Moving' \/ (Head(wire).step \in ChainStep /\ c = Head(wire).key)
<1> DEFINE n == Append(Tail(wire), e)
<1>0. wire \in Seq(Request)
  BY DEF TypeOK
<1>1. /\ Len(wire) \in Nat \ {0} /\ DOMAIN wire = 1 .. Len(wire) /\ DOMAIN wire' = DOMAIN wire
      /\ wire[1] = Head(wire) /\ wire'[Len(wire)] = e
      /\ \A i \in DOMAIN wire' : i = Len(wire) \/ (i + 1 \in DOMAIN wire /\ wire'[i] = wire[i + 1])
  BY <1>0, PushMoves
<1>2. Len(wire) \in Chains'
  BY <1>1 DEF Chains
<1>3. ASSUME NEW i \in Chains' PROVE wire'[i].key \in Moving \cup {e.key}
  <2>1. CASE i = Len(wire)
    BY <1>1, <2>1
  <2>2. CASE i + 1 \in DOMAIN wire /\ wire'[i] = wire[i + 1]
    <3>1. i + 1 \in Chains
      BY <2>2 DEF Chains
    <3> QED BY <2>2, <3>1 DEF Moving
  <2> QED BY <1>1, <2>1, <2>2 DEF Chains
<1>4. ASSUME NEW i \in Chains, i # 1 PROVE wire[i].key \in Moving'
  <2>1. i - 1 \in DOMAIN wire' /\ i - 1 # Len(wire) /\ (i - 1) + 1 = i
    BY <1>1, <1>4 DEF Chains
  <2>2. wire'[i - 1] = wire[i]
    BY <1>1, <2>1
  <2>3. i - 1 \in Chains'
    BY <2>1, <2>2 DEF Chains
  <2> QED BY <2>2, <2>3 DEF Moving
<1>5. e.key \in Moving'
  BY <1>1, <1>2 DEF Moving
<1>6. Moving' \subseteq Moving \cup {e.key}
  BY <1>3 DEF Moving
<1>7. ASSUME NEW c \in Moving, c \notin Moving'
      PROVE  Head(wire).step \in ChainStep /\ c = Head(wire).key
  <2>1. PICK i \in Chains : c = wire[i].key
    BY DEF Moving
  <2>2. i = 1
    BY <1>4, <1>7, <2>1
  <2> QED BY <1>1, <2>1, <2>2 DEF Chains
<1> QED BY <1>5, <1>6, <1>7

LEMMA ThroughStep ==
  ASSUME TypeOK, TypeOK', Ordering, Through, PipelineStep, Faultless, Faultless'
  PROVE  Through'
<1> USE DEF Through, NoneLeftOut, NoneAhead
<1>0. /\ DOMAIN posts = 1 .. Len(posts) /\ Len(posts) \in Nat /\ posts \in Seq(Message)
      /\ wiped \in Nat /\ theirs \in Nat
  BY LenProperties DEF TypeOK, Key
<1>1. ASSUME Moving' = Moving, UNCHANGED <<posts, theirs, wiped>> PROVE Through'
  BY <1>1
<1>2. CASE UNCHANGED pipeline
  <2>1. Moving' = Moving
    BY <1>2 DEF pipeline, Moving, Chains
  <2> QED BY <1>1, <1>2, <2>1 DEF pipeline
<1>3. CASE Queue
  BY <1>1, <1>3, MovingQueued DEF Queue
<1>4. CASE Skip \/ \E s \in Screen : Lock(s)
  <2>1. wire # <<>> /\ Taken /\ Head(wire).step \notin ChainStep
        /\ UNCHANGED <<posts, theirs, wiped>>
    BY <1>4 DEF Skip, Lock, AtHead, QueryStep, RowStep, ChainStep
  <2> QED BY <1>1, <2>1, MovingKept
<1>5. CASE Advance
  <2> DEFINE r == Head(wire)
             e == [r EXCEPT !.step = After(@)]
  <2>1. wire # <<>> /\ r.step \in {"message", "mine"} /\ wire' = Append(Tail(wire), e)
        /\ UNCHANGED <<posts, theirs, wiped>>
    BY <1>5 DEF Advance, AtHead, Continue
  <2>2. e \in Request /\ e.key = r.key /\ e.step \in ChainStep
    BY <2>1, WireType DEF TypeOK, Request, After, ChainStep
  <2>3. r.key \in Moving
    <3>1. 1 \in Chains /\ wire[1] = r
      BY <2>1, TailMoves DEF TypeOK, Chains, ChainStep
    <3> QED BY <3>1 DEF Moving
  <2> HIDE DEF e
  <2>4. /\ Moving' \subseteq Moving \cup {e.key} /\ e.key \in Moving'
        /\ \A c \in Moving : c \in Moving' \/ (r.step \in ChainStep /\ c = r.key)
    BY <2>1, <2>2, MovingPushed
  <2> HIDE DEF r
  <2>5. Moving' = Moving
    BY <2>2, <2>3, <2>4
  <2> QED BY <1>1, <2>1, <2>5
<1>6. ASSUME NEW s \in Screen, NEW b \in Body, Start(s, b) PROVE Through'
  <2> DEFINE k == Len(posts) + 1
             m == [me |-> TRUE, body |-> b]
             e == Req("message", s, k, b)
  <2>1. wire # <<>> /\ wire' = Append(Tail(wire), e) /\ posts' = Append(posts, m)
        /\ UNCHANGED <<theirs, wiped>> /\ Head(wire).step \notin ChainStep
    BY <1>6 DEF Start, AtHead, QueryStep, ChainStep
  <2>2. e \in Request /\ e.step \in ChainStep /\ e.key = k
    <3>1. k \in Key
      BY <1>0, <1>6, BoundsAssumption DEF Start, Key
    <3> QED BY <3>1 DEF Req, Request, ChainStep
  <2>3. DOMAIN posts' = 1 .. k /\ \A i \in DOMAIN posts : posts'[i] = posts[i]
    <3>1. m \in Message
      BY DEF Message
    <3> QED BY <1>0, <2>1, <3>1, AppendFacts
  <2> HIDE DEF e, m
  <2>4. Moving' = Moving \cup {k}
    BY <2>1, <2>2, MovingPushed
  <2>5. \A j \in DOMAIN posts' : j = k \/ (j \in DOMAIN posts /\ posts'[j] = posts[j] /\ j < k)
    BY <1>0, <2>3
  <2> HIDE DEF k
  <2>6. \A j \in DOMAIN posts' : posts'[j].me /\ wiped' < j => j \in Moving' \/ j <= theirs'
    BY <2>1, <2>4, <2>5
  <2>7. ASSUME NEW j \in DOMAIN posts', NEW c \in Moving', posts'[j].me, c < j
        PROVE  j \in Moving'
    <3>1. CASE j = k
      BY <2>4, <3>1
    <3>2. CASE j # k
      <4>1. j \in DOMAIN posts /\ posts[j].me /\ j < k
        BY <2>5, <2>7, <3>2
      <4>2. k \in Nat /\ j \in Nat
        BY <1>0, <4>1 DEF k
      <4>3. c # k
        BY <2>7, <4>1, <4>2
      <4> QED BY <2>4, <2>7, <4>1, <4>3
    <3> QED BY <3>1, <3>2
  <2> QED BY <2>6, <2>7
<1>7. CASE Finish
  <2> DEFINE k == Head(wire).key
  <2>1. wire # <<>> /\ Taken /\ UNCHANGED <<posts, wiped>> /\ theirs' = k
        /\ Head(wire).step = "theirs"
    BY <1>7 DEF Finish, AtHead
  <2>2. 1 \in Chains /\ wire[1] = Head(wire)
    BY <2>1, TailMoves DEF TypeOK, Chains, ChainStep
  <2>3. k \in Moving /\ k \in Nat
    BY <1>0, <2>2 DEF Moving, Ordering, KeysPosted
  <2>4. \A c \in Moving' : c \in Moving /\ k < c
    <3>1. \A i \in Chains' : i + 1 \in Chains /\ wire'[i] = wire[i + 1]
      BY <2>1, TailMoves DEF TypeOK, Taken, Chains
    <3>2. \A i \in Chains' : k < wire'[i].key
      BY <1>7, OldestEnds
    <3> QED BY <3>1, <3>2 DEF Moving
  <2>5. \A c \in Moving : c \in Nat /\ (c \in Moving' \/ c = k)
    <3>1. \A i \in Chains : i = 1 \/ (i - 1 \in Chains' /\ wire'[i - 1] = wire[i])
      BY <2>1, TailMoves DEF TypeOK, Taken, Chains
    <3>2. \A i \in Chains : wire[i].key \in Nat
      BY <1>0 DEF Ordering, KeysPosted
    <3> QED BY <2>2, <3>1, <3>2 DEF Moving
  <2> HIDE DEF k
  <2>6. ASSUME NEW j \in DOMAIN posts, posts[j].me, j \notin Moving' PROVE j <= k
    <3>1. CASE j = k
      BY <2>3, <3>1
    <3>2. CASE j # k
      <4>1. j \notin Moving
        BY <2>5, <2>6, <3>2
      <4>2. ~(k < j)
        BY <2>3, <2>6, <4>1
      <4> QED BY <1>0, <2>3, <4>2
    <3> QED BY <3>1, <3>2
  <2>7. ASSUME NEW j \in DOMAIN posts, NEW c \in Moving', posts[j].me, c < j
        PROVE  j \in Moving'
    <3>1. k < c /\ c \in Nat /\ j \in Nat
      BY <1>0, <2>4, <2>5
    <3> QED BY <2>3, <2>6, <2>7, <3>1
  <2> QED BY <2>1, <2>6, <2>7
<1>8. CASE Arrive
  <2>1. PICK m \in Message : ~m.me /\ posts' = Append(posts, m)
    BY <1>8 DEF Arrive
  <2>2. DOMAIN posts' = 1 .. Len(posts) + 1 /\ posts'[Len(posts) + 1] = m
        /\ \A i \in DOMAIN posts : posts'[i] = posts[i]
    BY <1>0, <2>1, AppendFacts
  <2>3. Moving' = Moving /\ theirs' = Len(posts) + 1 /\ wiped' = wiped
    BY <1>8 DEF Arrive, Moving, Chains
  <2>4. \A j \in DOMAIN posts' :
          j <= Len(posts) + 1 /\ (posts'[j].me => j \in DOMAIN posts /\ posts[j].me)
    BY <1>0, <2>1, <2>2
  <2> QED BY <2>3, <2>4
<1>9. CASE Wipe
  <2>1. Moving' = Moving /\ wiped' = Len(posts) /\ posts' = posts
    BY <1>9 DEF Wipe, Moving, Chains
  <2>2. \A j \in DOMAIN posts : ~(Len(posts) < j)
    BY <1>0
  <2> QED BY <2>1, <2>2
<1>10. ~Refuse /\ ~Lose
  BY DEF Refuse, Lose, Faultless
<1> QED BY <1>2, <1>3, <1>4, <1>5, <1>6, <1>7, <1>8, <1>9, <1>10 DEF PipelineStep

\* Each message the user sent is on its way or has reached the partner's list, or a
\* later one has, whichever screen it was sent from and whether or not that screen
\* was left: no path through the nested completions of doSend drops one, as long as
\* nothing is refused and the process lives.
THEOREM MessagesThrough == Spec => []NoneLeftOut
<1>1. Init => Through
  BY DEF Init, Through, NoneLeftOut, NoneAhead, Moving, Chains
<1>2. TypeOK /\ TypeOK' /\ Ordering /\ Through /\ [Next]_vars => Through'
  <2>1. Faultless' \/ Through'
    BY DEF Through, NoneLeftOut, NoneAhead
  <2> QED BY <2>1, Steps, FaultsStay, ThroughStep
<1>3. TypeOK /\ TypeOK' /\ Ordering /\ [Next]_vars => Ordering'
  BY Steps, OrderingStep
<1>4. Through => NoneLeftOut
  BY DEF Through
<1> QED BY <1>1, <1>2, <1>3, <1>4, OrderingInit, TypeCorrect, PTL DEF Spec

-----------------------------------------------------------------------------
(* The image preview *)

\* While the last pick of a screen is clear, its uploads are of the picture the
\* preview shows; once they are over, downloadURL is that picture too.
PickedUploads ==
  \A s \in Screen : preview[s] # NoImage /\ ~blurred[s] =>
     \A u \in uploads : u.screen = s => u.image = preview[s]

Pictured == PickedUploads /\ PreviewIsWhatPosts

LEMMA PicturedKept == TypeOK /\ Pictured /\ UNCHANGED image => Pictured'
BY DEF Pictured, PickedUploads, PreviewIsWhatPosts, image

\* The steps that change the image state.
LEMMA PicturedStep == TypeOK /\ Pictured /\ [Next]_vars => Pictured'
<1> SUFFICES ASSUME TypeOK, Pictured, [Next]_vars PROVE Pictured'
  OBVIOUS
<1> USE DEF Pictured, PickedUploads, PreviewIsWhatPosts
<1>1. /\ url \in [Screen -> Images \cup {NoImage}] /\ screen \in Screen
      /\ preview \in [Screen -> Images \cup {NoImage}]
      /\ uploads \subseteq Upload /\ blurred \in [Screen -> BOOLEAN]
      /\ NoImage \notin Images
  BY BodiesAssumption DEF TypeOK
<1>2. CASE UNCHANGED image
  BY <1>2, PicturedKept
<1>3. ASSUME NEW m \in Images, Pick(m) PROVE Pictured'
  <2> DEFINE e == [screen |-> screen, image |-> m, phase |-> "put"]
  <2>1. /\ uploads' = uploads \cup {e} /\ url' = url
        /\ preview' = [preview EXCEPT ![screen] = m]
        /\ blurred' = [blurred EXCEPT ![screen] = \E u \in uploads : u.screen = screen]
    BY <1>3 DEF Pick
  <2>2. e.screen = screen /\ e.image = m
    OBVIOUS
  <2>3. \A s \in Screen : s # screen => preview'[s] = preview[s] /\ blurred'[s] = blurred[s]
    BY <1>1, <2>1
  <2>4. preview'[screen] = m
    BY <1>1, <2>1
  <2>5. ~blurred'[screen] => \A u \in uploads : u.screen # screen
    BY <1>1, <2>1
  <2> HIDE DEF e
  <2>6. PickedUploads'
    BY <2>1, <2>2, <2>3, <2>4, <2>5
  <2>7. PreviewIsWhatPosts'
    BY <2>1, <2>2, <2>3
  <2> QED BY <2>6, <2>7
<1>4. CASE Dismiss
  BY <1>1, <1>4 DEF Dismiss
<1>5. CASE TapSaveTraps \/ Kill
  BY <1>5 DEF TapSaveTraps, Kill, ProcessLost
<1>6. CASE PartnerListAccepted
  <2>1. UNCHANGED <<url, uploads, blurred>>
    BY <1>6 DEF PartnerListAccepted
  <2>2. \A s \in Screen : preview'[s] = preview[s] \/ preview'[s] = NoImage
    BY <1>1, <1>6 DEF PartnerListAccepted
  <2> QED BY <2>1, <2>2
<1>7. ASSUME NEW u \in uploads, PutAnswered(u) PROVE Pictured'
  <2> DEFINE e == [u EXCEPT !.phase = "url"]
  <2>1. UNCHANGED <<url, preview>>
    BY <1>7 DEF PutAnswered
  <2>2. e.screen = u.screen /\ e.image = u.image /\ u.screen \in Screen
    BY <1>1 DEF Upload
  <2>3. CASE uploads' = (uploads \ {u}) \cup {e} /\ UNCHANGED blurred
    <3> HIDE DEF e
    <3> QED BY <1>1, <2>1, <2>2, <2>3
  <2>4. CASE uploads' = uploads \ {u} /\ blurred' = [blurred EXCEPT ![u.screen] = TRUE]
    BY <1>1, <2>1, <2>2, <2>4
  <2> QED BY <1>7, <2>3, <2>4 DEF PutAnswered
<1>8. ASSUME NEW u \in uploads, UrlAnswered(u) PROVE Pictured'
  <2>1. uploads' = uploads \ {u} /\ UNCHANGED preview /\ u.screen \in Screen
    BY <1>1, <1>8 DEF UrlAnswered, Upload
  <2>2. CASE url' = [url EXCEPT ![u.screen] = u.image] /\ UNCHANGED blurred
    BY <1>1, <2>1, <2>2
  <2>3. CASE url' = url /\ blurred' = [blurred EXCEPT ![u.screen] = TRUE]
    BY <1>1, <2>1, <2>3
  <2> QED BY <1>8, <2>2, <2>3 DEF UrlAnswered, UrlTaken
<1>9. CASE User
  <2>1. CASE \/ Open \/ Leave \/ Cover \/ Uncover \/ Erase \/ TapSend \/ TapSave \/ TapPost
             \/ \E t \in Texts : Type(t)
             \/ \E i \in DOMAIN view : EditBegin(i) \/ Remove(i)
    BY <1>2, <2>1 DEF Open, Leave, Cover, Uncover, Erase, TapSend, TapSave, TapPost, Type,
                      EditBegin, Remove
  <2> QED BY <1>3, <1>4, <1>5, <1>9, <2>1 DEF User
<1>10. CASE Answer
  BY <1>2, <1>6, <1>10 DEF Answer, TextStatusAnswered, ImageStatusAnswered, MessageAccepted,
                           MyListAccepted, RowWriteAccepted
<1>11. CASE ChildAdded \/ Partner \/ WriteRejected
  BY <1>2, <1>11 DEF ChildAdded, Partner, PartnerPosts, PartnerRemoves, PartnerDeletes,
                     WriteRejected
<1>12. CASE UNCHANGED vars
  BY <1>2, <1>12 DEF vars
<1> QED BY <1>5, <1>7, <1>8, <1>9, <1>10, <1>11, <1>12 DEF Next, Storage

LEMMA PicturedInit == Init => Pictured
BY DEF Init, Pictured, PickedUploads, PreviewIsWhatPosts

\* Once nothing is uploading, Post sends the picture the preview shows.
THEOREM PicturePosted == Spec => []PreviewIsWhatPosts
<1>1. Pictured => PreviewIsWhatPosts
  BY DEF Pictured
<1> QED BY <1>1, PicturedInit, PicturedStep, TypeCorrect, PTL DEF Spec

-----------------------------------------------------------------------------
(* What is saved goes to the message chosen *)

\* A screen not opened yet edits nothing.
Unopened == \A s \in Screen : isEdit[s] => s <= screen
Aimed == Unopened /\ EditHitsChosen

\* The first screen edits nothing.
LEMMA AimedInit == Init => Aimed
<1> SUFFICES ASSUME Init PROVE Aimed
  OBVIOUS
<1>1. screen \in Screen /\ \A s \in Screen : ~isEdit[s]
  BY BoundsAssumption DEF Init, Screen
<1> QED BY <1>1 DEF Aimed, Unopened, EditHitsChosen

\* Rows arrive at the end; every other change of the rows or of the index either
\* ends edit mode or is counted as a disturbance.
LEMMA AimedStep == TypeOK /\ Aimed /\ [Next]_vars => Aimed'
<1> SUFFICES ASSUME TypeOK, Aimed, [Next]_vars PROVE Aimed'
  OBVIOUS
<1> USE DEF Aimed, Unopened, EditHitsChosen
<1>1. /\ screen \in Screen /\ view \in Seq(Row) /\ isEdit \in [Screen -> BOOLEAN]
      /\ \A s \in Screen : s \in Nat
  BY DEF TypeOK, Screen
<1>2. ASSUME UNCHANGED <<screen, isEdit, edtIndex, chosen, disturbed, view>>
      PROVE  Aimed'
  BY <1>2
<1>3. CASE Open
  <2>1. ~isEdit[screen'] /\ screen' \in Screen /\ screen' = screen + 1
    BY <1>1, <1>3, BoundsAssumption DEF Open, Screen
  <2> QED BY <1>1, <1>3, <2>1 DEF Open
<1>4. CASE Uncover
  BY <1>1, <1>4 DEF Uncover
<1>5. CASE TapSave
  BY <1>1, <1>5 DEF TapSave, place
<1>6. CASE TapSaveTraps \/ Kill
  BY <1>1, <1>6 DEF TapSaveTraps, Kill, ProcessLost
<1>7. ASSUME NEW i \in DOMAIN view, EditBegin(i) PROVE Aimed'
  BY <1>1, <1>7 DEF EditBegin, place, thread
<1>8. ASSUME NEW i \in DOMAIN view, Remove(i) PROVE Aimed'
  BY <1>1, <1>8 DEF Remove, place
<1>9. CASE ChildAdded
  <2>1. PICK k \in Visible \ seen, m \in Message :
          view' = Append(view, [key |-> k, me |-> m.me, body |-> m.body])
    BY <1>9 DEF ChildAdded, AddRow
  <2>2. [key |-> k, me |-> m.me, body |-> m.body] \in Row
    BY DEF Visible, Row, Message
  <2>3. \A i \in DOMAIN view : i \in DOMAIN view' /\ view'[i] = view[i]
    BY <1>1, <2>1, <2>2, AppendFacts
  <2> QED BY <1>1, <1>9, <2>3 DEF ChildAdded, place, edit
<1>10. CASE User
  <2>1. CASE \/ Leave \/ Cover \/ Erase \/ TapSend \/ Dismiss \/ TapPost
             \/ (\E t \in Texts : Type(t)) \/ \E m \in Images : Pick(m)
    BY <1>2, <2>1 DEF Leave, Cover, Erase, TapSend, Dismiss, TapPost, Type, Pick,
                      edit, place, thread
  <2> QED BY <1>3, <1>4, <1>5, <1>6, <1>7, <1>8, <1>10, <2>1 DEF User
<1>11. CASE Answer \/ Storage \/ Partner \/ WriteRejected
  BY <1>2, <1>11 DEF Answer, TextStatusAnswered, ImageStatusAnswered, MessageAccepted,
       MyListAccepted, PartnerListAccepted, RowWriteAccepted, Storage, PutAnswered,
       UrlAnswered, Partner, PartnerPosts, PartnerRemoves, PartnerDeletes,
       WriteRejected, edit, place, thread
<1>12. CASE UNCHANGED vars
  BY <1>2, <1>12 DEF vars, edit, place, thread
<1> QED BY <1>6, <1>9, <1>10, <1>11, <1>12 DEF Next

\* What is saved in edit mode goes to the message chosen, unless rows were removed
\* or reloaded since.
THEOREM SavedWhereChosen == Spec => []EditHitsChosen
<1>1. Aimed => EditHitsChosen
  BY DEF Aimed
<1> QED BY <1>1, AimedInit, AimedStep, TypeCorrect, PTL DEF Spec

-----------------------------------------------------------------------------
(* A typed text is posted once *)

Items(q) == {q[i] : i \in DOMAIN q}

\* What the operations on sequences do to the set of their elements.
LEMMA AppendItems ==
  ASSUME NEW S, NEW q \in Seq(S), NEW e \in S
  PROVE  Items(Append(q, e)) = Items(q) \cup {e}
<1> DEFINE n == Append(q, e)
<1>1. /\ Len(q) \in Nat /\ DOMAIN q = 1 .. Len(q) /\ DOMAIN n = 1 .. Len(q) + 1
      /\ \A i \in 1 .. Len(q) : n[i] = q[i]
      /\ n[Len(q) + 1] = e
  BY AppendFacts
<1> HIDE DEF n
<1>2. \A i \in DOMAIN n : n[i] = e \/ (i \in DOMAIN q /\ n[i] = q[i])
  BY <1>1
<1>3. /\ \A i \in DOMAIN q : i \in DOMAIN n /\ n[i] = q[i]
      /\ Len(q) + 1 \in DOMAIN n /\ n[Len(q) + 1] = e
  BY <1>1
<1>4. Items(n) \subseteq Items(q) \cup {e} BY <1>2 DEF Items
<1>5. Items(q) \subseteq Items(n) /\ e \in Items(n) BY <1>3 DEF Items
<1> QED BY <1>4, <1>5 DEF n

LEMMA TailItems ==
  ASSUME NEW S, NEW q \in Seq(S), q # <<>>
  PROVE  Items(Tail(q)) \subseteq Items(q) /\ Head(q) \in Items(q)
<1>1. /\ Head(q) = q[1] /\ Len(q) \in Nat \ {0}
      /\ DOMAIN q = 1 .. Len(q) /\ DOMAIN Tail(q) = 1 .. Len(q) - 1
      /\ \A i \in 1 .. Len(q) - 1 : Tail(q)[i] = q[i + 1]
  BY TailFacts
<1>2. \A i \in DOMAIN Tail(q) : i + 1 \in DOMAIN q /\ Tail(q)[i] = q[i + 1]
  BY <1>1
<1>3. 1 \in DOMAIN q /\ Head(q) = q[1] BY <1>1
<1> QED BY <1>2, <1>3 DEF Items

LEMMA PushItems ==
  ASSUME NEW S, NEW q \in Seq(S), q # <<>>, NEW e \in S
  PROVE  Items(Append(Tail(q), e)) \subseteq Items(q) \cup {e}
<1> DEFINE t == Tail(q)
<1>1. t \in Seq(S) /\ Items(t) \subseteq Items(q)
  BY TailFacts, TailItems
<1> HIDE DEF t
<1>2. Items(Append(t, e)) = Items(t) \cup {e}
  BY <1>1, AppendItems
<1> QED BY <1>1, <1>2 DEF t

\* A sequence without one place: what comes after it moves one place forward.
Without(q, i) == SubSeq(q, 1, i - 1) \o SubSeq(q, i + 1, Len(q))

\* What is left of a sequence was in it, before the gap or after it.
LEMMA Removed ==
  ASSUME NEW S, NEW q \in Seq(S), NEW i \in DOMAIN q
  PROVE  /\ DOMAIN Without(q, i) = 1 .. Len(q) - 1
         /\ \A j \in DOMAIN Without(q, i) :
              /\ j \in Nat
              /\ j < i => j \in DOMAIN q /\ Without(q, i)[j] = q[j]
              /\ ~(j < i) => j + 1 \in DOMAIN q /\ Without(q, i)[j] = q[j + 1]
<1> DEFINE a == SubSeq(q, 1, i - 1)  b == SubSeq(q, i + 1, Len(q))  n == Len(q)
           p == Without(q, i)
<1>1. n \in Nat /\ DOMAIN q = 1 .. n /\ \A j \in 1 .. n : q[j] \in S
  BY LenProperties, ElementOfSeq
<1>2. i \in Nat /\ 1 <= i /\ i <= n
  BY <1>1
<1>3. /\ a \in Seq(S) /\ Len(a) = i - 1
      /\ \A j \in 1 .. i - 1 : a[j] = q[j]
  <2>1. \A j \in 1 .. i - 1 : q[j] \in S BY <1>1, <1>2
  <2>2. /\ a \in Seq(S) /\ Len(a) = IF 1 <= i - 1 THEN (i - 1) - 1 + 1 ELSE 0
        /\ \A j \in 1 .. (i - 1) - 1 + 1 : a[j] = q[1 + j - 1]
    BY <1>2, <2>1, SubSeqProperties
  <2>3. Len(a) = i - 1 BY <1>2, <2>2
  <2>4. ASSUME NEW j \in 1 .. i - 1 PROVE a[j] = q[j]
    <3>1. 1 + j - 1 = j /\ j \in 1 .. (i - 1) - 1 + 1 BY <1>2
    <3> QED BY <2>2, <3>1
  <2> QED BY <2>2, <2>3, <2>4
<1>4. /\ b \in Seq(S) /\ Len(b) = n - i
      /\ \A j \in 1 .. n - i : b[j] = q[i + j]
  <2>1. \A j \in i + 1 .. n : q[j] \in S BY <1>1, <1>2
  <2>2. /\ b \in Seq(S)
        /\ Len(b) = IF i + 1 <= n THEN n - (i + 1) + 1 ELSE 0
        /\ \A j \in 1 .. n - (i + 1) + 1 : b[j] = q[(i + 1) + j - 1]
    BY <1>1, <1>2, <2>1, SubSeqProperties
  <2>3. Len(b) = n - i BY <1>1, <1>2, <2>2
  <2>4. ASSUME NEW j \in 1 .. n - i PROVE b[j] = q[i + j]
    <3>1. (i + 1) + j - 1 = i + j /\ j \in 1 .. n - (i + 1) + 1 BY <1>1, <1>2
    <3> QED BY <2>2, <3>1
  <2> QED BY <2>2, <2>3, <2>4
<1>5. p = a \o b BY DEF Without
<1> HIDE DEF a, b, p, n
<1>6. /\ p \in Seq(S) /\ Len(p) = Len(a) + Len(b)
      /\ \A j \in 1 .. Len(a) + Len(b) :
           p[j] = IF j <= Len(a) THEN a[j] ELSE b[j - Len(a)]
  BY <1>3, <1>4, <1>5, ConcatProperties
<1>7. Len(p) = n - 1
  BY <1>1, <1>2, <1>3, <1>4, <1>6
<1>8. DOMAIN p = 1 .. n - 1
  BY <1>6, <1>7, LenProperties
<1>9. ASSUME NEW j \in 1 .. n - 1
      PROVE  /\ j \in Nat
             /\ j < i => j \in 1 .. n /\ p[j] = q[j]
             /\ ~(j < i) => j + 1 \in 1 .. n /\ p[j] = q[j + 1]
  <2>1. p[j] = IF j <= i - 1 THEN a[j] ELSE b[j - (i - 1)]
    BY <1>1, <1>2, <1>3, <1>4, <1>6
  <2>2. CASE j < i
    <3>1. j \in 1 .. i - 1 /\ j <= i - 1 BY <1>1, <1>2, <2>2
    <3> QED BY <1>1, <1>2, <1>3, <2>1, <2>2, <3>1
  <2>3. CASE ~(j < i)
    <3>1. ~(j <= i - 1) /\ j - (i - 1) \in 1 .. n - i BY <1>1, <1>2, <2>3
    <3>2. i + (j - (i - 1)) = j + 1 BY <1>1, <1>2
    <3>3. p[j] = q[j + 1] BY <1>4, <2>1, <3>1, <3>2
    <3> QED BY <1>1, <1>2, <2>3, <3>3
  <2> QED BY <2>2, <2>3
<1> QED BY <1>1, <1>8, <1>9 DEF p, n

LEMMA RemovedItems ==
  ASSUME NEW S, NEW q \in Seq(S), NEW i \in DOMAIN q
  PROVE  Items(Without(q, i)) \subseteq Items(q)
<1> DEFINE p == Without(q, i)
<1>1. ASSUME NEW j \in DOMAIN p PROVE p[j] \in Items(q)
  BY Removed DEF Items
<1> QED BY <1>1 DEF Items

\* The texts on the user's side have been typed.
Known(b, T) == b \in Texts => b \in T
OwnTyped ==
  /\ \A s \in Screen : Known(text[s], typed)
  /\ \A r \in Items(view) : r.me => Known(r.body, typed)
  /\ \A k \in Key : room[k] # Absent /\ room[k].me => Known(room[k].body, typed)
  /\ \A r \in Items(wire) : Known(r.body, typed)
  /\ \A m \in Items(posts) : m.me => Known(m.body, typed)
\* A text typed into a box, and not put there to edit, is in no other box and no
\* message of mine, unless one came of a box in edit mode.
Posted == {m.body : m \in {n \in Items(posts) : n.me}}
Boxed ==
  \A s \in Screen : text[s] \in Texts /\ ~isEdit[s] =>
    /\ text[s] \in Posted => text[s] \in spilled
    /\ \A u \in Screen : text[u] = text[s] /\ ~isEdit[u] => u = s
Once == OwnTyped /\ Boxed /\ TextPostedOnce

LEMMA EmptyItems == Items(<<>>) = {}
BY EmptySeq DEF Items

LEMMA OnceInit == Init => Once
<1> SUFFICES ASSUME Init PROVE Once
  OBVIOUS
<1>1. /\ NoText \notin Texts /\ Items(view) = {} /\ Items(wire) = {} /\ Items(posts) = {}
      /\ DOMAIN posts = {} /\ \A k \in Key : room[k] = Absent
      /\ \A s \in Screen : text[s] = NoText
  BY BodiesAssumption, EmptyItems DEF Init
<1> QED BY <1>1 DEF Once, OwnTyped, Known, Boxed, TextPostedOnce

\* What was not typed: the empty text and pictures.
LEMMA NothingOwned == Known(NoText, typed) /\ \A m \in Images : Known(m, typed)
BY BodiesAssumption DEF Known

\* What a step may add to what is typed, shown, stored, sent or posted.
LEMMA OwnedFrom ==
  ASSUME OwnTyped, typed \subseteq typed',
         \A s \in Screen : text'[s] = text[s] \/ Known(text'[s], typed'),
         \A r \in Items(view') : r \in Items(view) \/ (r.me => Known(r.body, typed')),
         \A k \in Key : room'[k] = room[k] \/ room'[k] = Absent
                        \/ (room'[k].me => Known(room'[k].body, typed')),
         \A r \in Items(wire') : r \in Items(wire) \/ Known(r.body, typed'),
         \A m \in Items(posts') : m \in Items(posts) \/ (m.me => Known(m.body, typed'))
  PROVE  OwnTyped'
BY DEF OwnTyped, Known

LEMMA ReqBody == \A st, s, k, b : Req(st, s, k, b).body = b /\ Req(st, s, k, b).step = st
                                  /\ Req(st, s, k, b).key = k
BY DEF Req

\* What a send adds.
LEMMA SentItems ==
  ASSUME TypeOK, wire # <<>>, NEW s \in Screen, NEW b \in Body, DoSend(s, b)
  PROVE  /\ \A r \in Items(wire') : r \in Items(wire) \/ r.body = b
         /\ posts' = posts \/ posts' = Append(posts, [me |-> TRUE, body |-> b])
         /\ \A m \in Items(posts') : m \in Items(posts) \/ m = [me |-> TRUE, body |-> b]
<1>1. /\ wire \in Seq(Request) /\ Tail(wire) \in Seq(Request)
      /\ Items(Tail(wire)) \subseteq Items(wire) /\ posts \in Seq(Message)
  BY WireType, TailItems DEF TypeOK
<1>2. CASE Dropped \/ Latched(s)
  BY <1>1, <1>2 DEF Dropped, Latched
<1>3. CASE Sent(s, b)
  <2> DEFINE e == Req("message", s, NewKey, b)  m == [me |-> TRUE, body |-> b]
  <2>1. Len(posts) \in Nat /\ m \in Message BY <1>1, LenProperties DEF Message
  <2>2. e \in Request
    <3>1. NewKey \in Key BY <1>3, <2>1, BoundsAssumption DEF Sent, NewKey, Key
    <3> QED BY <3>1 DEF Req, Request, ChainStep
  <2>3. wire' = Append(Tail(wire), e) /\ posts' = Append(posts, m)
    BY <1>3 DEF Sent
  <2>4. e.body = b BY ReqBody
  <2> HIDE DEF e, m
  <2>5. Items(wire') \subseteq Items(wire) \cup {e}
    <3>1. Items(Append(Tail(wire), e)) \subseteq Items(wire) \cup {e}
      BY <1>1, <2>2, PushItems
    <3> QED BY <2>3, <3>1
  <2>6. Items(posts') = Items(posts) \cup {m} BY <1>1, <2>1, <2>3, AppendItems
  <2> QED BY <1>1, <2>3, <2>4, <2>5, <2>6 DEF m
<1> QED BY <1>2, <1>3 DEF DoSend

\* A user's step takes texts from the box, the rows, or what is typed just now.
LEMMA OwnedUser == TypeOK /\ OwnTyped /\ User => OwnTyped'
<1> SUFFICES ASSUME TypeOK, OwnTyped, User PROVE OwnTyped'
  OBVIOUS
<1>1. /\ text \in [Screen -> Texts \cup {NoText}] /\ screen \in Screen
      /\ view \in Seq(Row) /\ wire \in Seq(Request)
      /\ text[screen] \in Body /\ NoText \in Body /\ Known(text[screen], typed)
  BY DEF TypeOK, Body, OwnTyped
<1>2. CASE \/ Leave \/ Cover \/ Dismiss \/ \E m \in Images : Pick(m)
  BY <1>2 DEF Leave, Cover, Dismiss, Pick, OwnTyped, Known, Items, history, thread
<1>3. CASE Open \/ Uncover \/ TapSaveTraps
  <2>1. /\ Items(view') = {} /\ (wire' = wire \/ Items(wire') = {})
        /\ \A s \in Screen : text'[s] = text[s] \/ text'[s] = NoText
        /\ typed' = typed /\ room' = room /\ posts' = posts
    BY <1>3, EmptyItems DEF Open, Uncover, TapSaveTraps, ProcessLost, Appear, history
  <2>2. Known(NoText, typed') BY BodiesAssumption DEF Known
  <2>3. Items(wire') \subseteq Items(wire) /\ Items(posts') = Items(posts)
    BY <2>1 DEF Items
  <2> QED BY <2>1, <2>2, <2>3, OwnedFrom
<1>4. CASE Erase \/ \E t \in Texts : Type(t)
  <2>1. /\ \A s \in Screen : text'[s] = text[s] \/ Known(text'[s], typed')
        /\ typed \subseteq typed'
    BY <1>1, <1>4, BodiesAssumption DEF Erase, Type, Known, history
  <2>2. UNCHANGED <<view, room, wire, posts>>
    BY <1>4 DEF Erase, Type, thread
  <2>3. Items(view') = Items(view) /\ Items(wire') = Items(wire)
        /\ Items(posts') = Items(posts)
    BY <2>2 DEF Items
  <2> QED BY <2>1, <2>2, <2>3, OwnedFrom
<1>5. ASSUME NEW st \in QueryStep \cup RowStep, NEW k \in Key \cup {0}, NEW b \in Body,
             Known(b, typed), wire' = Append(wire, Req(st, screen, k, b)), typed' = typed
      PROVE  \A r \in Items(wire') : r \in Items(wire) \/ Known(r.body, typed')
  <2>1. Req(st, screen, k, b) \in Request
    BY <1>1 DEF Req, Request
  <2>2. Items(wire') = Items(wire) \cup {Req(st, screen, k, b)}
    BY <1>1, <1>5, <2>1, AppendItems
  <2> QED BY <1>5, <2>2, ReqBody DEF Known
<1>6. CASE TapSend \/ TapPost
  <2>1. /\ UNCHANGED <<typed, text, view, room, posts>>
        /\ \E st \in QueryStep : wire' = Append(wire, Req(st, screen, 0, NoText))
    BY <1>6 DEF TapSend, TapPost, QueryStep, history, thread
  <2>2. Items(view') = Items(view) /\ Items(posts') = Items(posts)
    BY <2>1 DEF Items
  <2>3. \A r \in Items(wire') : r \in Items(wire) \/ Known(r.body, typed')
    BY <1>1, <1>5, <2>1, NothingOwned
  <2> QED BY <2>1, <2>2, <2>3, OwnedFrom
<1>7. CASE TapSave
  <2> DEFINE k == view[edtIndex].key  b == text[screen]
  <2>1. edtIndex \in DOMAIN view /\ view[edtIndex] \in Row /\ k \in Key
    BY <1>1, <1>7, RowType DEF TapSave
  <2>2. /\ UNCHANGED <<typed, room, posts>>
        /\ wire' = Append(wire, Req("edit", screen, k, b))
        /\ view' = [view EXCEPT ![edtIndex] = RowEdited(@, b)]
        /\ text' = [text EXCEPT ![screen] = NoText]
    BY <1>7 DEF TapSave
  <2>3. \A r \in Items(wire') : r \in Items(wire) \/ Known(r.body, typed')
    BY <1>1, <1>5, <2>1, <2>2 DEF RowStep
  <2>4. Items(posts') = Items(posts) BY <2>2 DEF Items
  <2>5. \A s \in Screen : text'[s] = text[s] \/ Known(text'[s], typed')
    BY <1>1, <2>2, BodiesAssumption DEF Known
  <2>6. ASSUME NEW r \in Items(view') PROVE r \in Items(view) \/ (r.me => Known(r.body, typed'))
    <3>1. PICK i \in DOMAIN view : r = view'[i]
      BY <2>2 DEF Items
    <3>2. CASE i # edtIndex
      BY <2>2, <3>1, <3>2 DEF Items
    <3>3. CASE i = edtIndex
      <4>1. r = RowEdited(view[i], b) BY <2>2, <3>1, <3>3
      <4>2. view[i] \in Items(view) BY DEF Items
      <4>3. r.me = view[i].me /\ (r.body = view[i].body \/ r.body = b)
        BY <2>1, <3>3, <4>1 DEF RowEdited, Row
      <4> QED BY <1>1, <2>2, <4>2, <4>3 DEF OwnTyped, Known
    <3> QED BY <3>2, <3>3
  <2> QED BY <2>2, <2>3, <2>4, <2>5, <2>6, OwnedFrom
<1>8. ASSUME NEW i \in DOMAIN view, EditBegin(i) PROVE OwnTyped'
  <2>1. view[i] \in Items(view) /\ view[i].me BY <1>8 DEF Items, EditBegin
  <2>2. UNCHANGED <<typed, view, wire, room, posts>>
        /\ text' = [text EXCEPT ![screen] = view[i].body]
    BY <1>8 DEF EditBegin, thread
  <2>3. Known(view[i].body, typed) BY <2>1 DEF OwnTyped
  <2>4. \A s \in Screen : text'[s] = text[s] \/ Known(text'[s], typed')
    BY <1>1, <2>2, <2>3 DEF Known
  <2>5. Items(view') = Items(view) /\ Items(wire') = Items(wire)
        /\ Items(posts') = Items(posts)
    BY <2>2 DEF Items
  <2> QED BY <2>2, <2>4, <2>5, OwnedFrom
<1>9. ASSUME NEW i \in DOMAIN view, Remove(i) PROVE OwnTyped'
  <2>1. view[i].key \in Key BY <1>1, RowType
  <2>2. /\ UNCHANGED <<typed, text, room, posts>> /\ view' = Without(view, i)
        /\ wire' = Append(wire, Req("remove", screen, view[i].key, NoText))
    BY <1>9 DEF Remove, Without
  <2>3. \A r \in Items(wire') : r \in Items(wire) \/ Known(r.body, typed')
    BY <1>1, <1>5, <2>1, <2>2, NothingOwned DEF RowStep
  <2>4. Items(view') \subseteq Items(view)
    <3>1. Items(Without(view, i)) \subseteq Items(view)
      BY <1>1, RemovedItems
    <3> QED BY <2>2, <3>1
  <2>5. Items(posts') = Items(posts) BY <2>2 DEF Items
  <2> QED BY <2>2, <2>3, <2>4, <2>5, OwnedFrom
<1> QED BY <1>2, <1>3, <1>4, <1>6, <1>7, <1>8, <1>9 DEF User

\* An answer moves a text from a box or the wire to the wire, the room or posts.
LEMMA OwnedAnswer == TypeOK /\ OwnTyped /\ Answer => OwnTyped'
<1> SUFFICES ASSUME TypeOK, OwnTyped, Answer PROVE OwnTyped'
  OBVIOUS
<1> DEFINE r == Head(wire)
<1>1. /\ wire # <<>> /\ r \in Request /\ Tail(wire) \in Seq(Request)
      /\ r.screen \in Screen /\ r.body \in Body /\ r.key \in Key \cup {0}
      /\ Items(Tail(wire)) \subseteq Items(wire) /\ r \in Items(wire) /\ Known(r.body, typed)
  <2>1. wire # <<>>
    BY DEF Answer, Answered, TextStatusAnswered, ImageStatusAnswered, MessageAccepted,
           MyListAccepted, PartnerListAccepted, RowWriteAccepted
  <2>2. r \in Request /\ Tail(wire) \in Seq(Request)
    BY <2>1, WireType DEF TypeOK
  <2>3. Items(Tail(wire)) \subseteq Items(wire) /\ r \in Items(wire)
    BY <2>1, TailItems DEF TypeOK
  <2> QED BY <2>1, <2>2, <2>3 DEF Request, OwnTyped
<1>2. view' = view /\ typed' = typed /\ Items(view') = Items(view)
  BY DEF Answer, TextStatusAnswered, ImageStatusAnswered, MessageAccepted,
         MyListAccepted, PartnerListAccepted, RowWriteAccepted, thread, history, Items
<1>3. ASSUME NEW b \in Body, Known(b, typed), DoSend(r.screen, b)
      PROVE  /\ \A e \in Items(wire') : e \in Items(wire) \/ Known(e.body, typed')
             /\ \A m \in Items(posts') : m \in Items(posts) \/ (m.me => Known(m.body, typed'))
  <2>1. /\ \A e \in Items(wire') : e \in Items(wire) \/ e.body = b
        /\ \A m \in Items(posts') : m \in Items(posts) \/ m = [me |-> TRUE, body |-> b]
    BY <1>1, <1>3, SentItems
  <2> QED BY <1>2, <1>3, <2>1 DEF Known
<1>4. CASE TextStatusAnswered
  <2>1. /\ DoSend(r.screen, text[r.screen]) /\ room' = room
        /\ text' = [text EXCEPT ![r.screen] = NoText]
    BY <1>4 DEF TextStatusAnswered, BoxEmptied
  <2>2. text[r.screen] \in Body /\ Known(text[r.screen], typed)
    BY <1>1 DEF TypeOK, Body, OwnTyped
  <2>3. \A s \in Screen : text'[s] = text[s] \/ Known(text'[s], typed')
    BY <1>1, <2>1, BodiesAssumption DEF Known, TypeOK
  <2> QED BY <1>2, <1>3, <2>1, <2>2, <2>3, OwnedFrom
<1>5. CASE ImageStatusAnswered
  <2>1. text' = text /\ room' = room
    BY <1>5 DEF ImageStatusAnswered
  <2>2. CASE Dropped
    <3>1. Items(wire') \subseteq Items(wire) /\ Items(posts') = Items(posts)
      BY <1>1, <2>2 DEF Dropped, Items
    <3> QED BY <1>2, <2>1, <3>1, OwnedFrom
  <2>3. CASE url[r.screen] # NoImage /\ DoSend(r.screen, url[r.screen])
    <3>1. url[r.screen] \in Images /\ url[r.screen] \in Body
      BY <1>1, <2>3 DEF TypeOK, Body
    <3>2. Known(url[r.screen], typed) BY <3>1, NothingOwned
    <3> QED BY <1>2, <1>3, <2>1, <2>3, <3>1, <3>2, OwnedFrom
  <2> QED BY <1>5, <2>2, <2>3 DEF ImageStatusAnswered
<1>6. ASSUME wire' = Continue(r)
      PROVE  \A e \in Items(wire') : e \in Items(wire) \/ Known(e.body, typed')
  <2> DEFINE n == [r EXCEPT !.step = After(@)]
  <2>1. n \in Request /\ n.body = r.body
    BY <1>1 DEF Request, After, ChainStep
  <2>2. wire' = Append(Tail(wire), n) BY <1>6 DEF Continue
  <2>3. Items(wire') \subseteq Items(wire) \cup {n}
    <3> HIDE DEF n
    <3>1. Items(Append(Tail(wire), n)) \subseteq Items(wire) \cup {n}
      BY <1>1, <2>1, PushItems DEF TypeOK
    <3> QED BY <2>2, <3>1
  <2> HIDE DEF n
  <2> QED BY <1>1, <1>2, <2>1, <2>3 DEF Known
<1>7. CASE MessageAccepted \/ MyListAccepted
  <2>1. wire' = Continue(r) /\ text' = text /\ posts' = posts
    BY <1>7 DEF MessageAccepted, MyListAccepted
  <2>2. Items(posts') = Items(posts) BY <2>1 DEF Items
  <2>3. \/ room' = room
        \/ room' = [room EXCEPT ![r.key] = [me |-> TRUE, body |-> r.body]]
    BY <1>7 DEF MessageAccepted, MyListAccepted
  <2>4. \A k \in Key : room'[k] = room[k] \/ (room'[k].me => Known(room'[k].body, typed'))
    BY <1>1, <1>2, <2>3 DEF TypeOK, Known
  <2> QED BY <1>2, <1>6, <2>1, <2>2, <2>4, OwnedFrom
<1>8. CASE PartnerListAccepted \/ RowWriteAccepted
  <2>1. wire' = Tail(wire) /\ text' = text /\ posts' = posts
    BY <1>8 DEF PartnerListAccepted, RowWriteAccepted
  <2>2. Items(posts') = Items(posts) /\ Items(wire') \subseteq Items(wire)
    BY <1>1, <2>1 DEF Items
  <2>3. \/ room' = room
        \/ room' = [room EXCEPT ![r.key] = Absent]
        \/ room' = [room EXCEPT ![r.key] = [me |-> TRUE, body |-> r.body]]
    BY <1>8 DEF PartnerListAccepted, RowWriteAccepted
  <2>4. \A k \in Key : room'[k] = room[k] \/ room'[k] = Absent
                       \/ (room'[k].me => Known(room'[k].body, typed'))
    BY <1>1, <1>2, <2>3 DEF TypeOK, Known
  <2> QED BY <1>2, <2>1, <2>2, <2>4, OwnedFrom
<1> QED BY <1>4, <1>5, <1>7, <1>8 DEF Answer

\* A new row shows what the room or the wire has; the partner's texts are not mine.
LEMMA OwnedOther ==
  TypeOK /\ OwnTyped /\ (ChildAdded \/ Storage \/ Partner \/ Kill \/ WriteRejected)
    => OwnTyped'
<1> SUFFICES ASSUME TypeOK, OwnTyped,
                    ChildAdded \/ Storage \/ Partner \/ Kill \/ WriteRejected
             PROVE  OwnTyped'
  OBVIOUS
<1>1. /\ view \in Seq(Row) /\ wire \in Seq(Request) /\ posts \in Seq(Message)
      /\ Len(posts) \in Nat
  BY LenProperties DEF TypeOK
<1>2. CASE ChildAdded
  <2>1. PICK k \in Visible, m \in Message :
          Holds(k, m) /\ view' = Append(view, [key |-> k, me |-> m.me, body |-> m.body])
    BY <1>2 DEF ChildAdded, AddRow
  <2> DEFINE row == [key |-> k, me |-> m.me, body |-> m.body]
  <2>2. k \in Key /\ row \in Row
    BY DEF Visible, Row, Message
  <2>3. m.me => Known(m.body, typed)
    <3>1. CASE Pending(k) = {} /\ m = room[k]
      <4>1. room[k] # Absent BY <2>1, <3>1 DEF Visible
      <4> QED BY <2>2, <3>1, <4>1 DEF OwnTyped
    <3>2. ASSUME NEW i \in Pending(k), m = [me |-> TRUE, body |-> wire[i].body]
          PROVE  Known(m.body, typed)
      <4>1. wire[i] \in Items(wire) BY DEF Pending, Items
      <4> QED BY <3>2, <4>1 DEF OwnTyped
    <3> QED BY <2>1, <3>1, <3>2 DEF Holds
  <2>4. UNCHANGED <<typed, text, room, wire, posts>>
    BY <1>2 DEF ChildAdded, history
  <2>5. Items(wire') = Items(wire) /\ Items(posts') = Items(posts)
    BY <2>4 DEF Items
  <2>6. row.body = m.body /\ row.me = m.me OBVIOUS
  <2>7. Items(view') = Items(view) \cup {row}
    <3> HIDE DEF row
    <3>1. Items(Append(view, row)) = Items(view) \cup {row} BY <1>1, <2>2, AppendItems
    <3> QED BY <2>1, <3>1 DEF row
  <2> HIDE DEF row
  <2> QED BY <2>3, <2>4, <2>5, <2>6, <2>7, OwnedFrom
<1>3. CASE Storage
  <2>1. UNCHANGED <<typed, text, view, room, wire, posts>>
    BY <1>3 DEF Storage, PutAnswered, UrlAnswered, thread, history
  <2> QED BY <2>1 DEF OwnTyped, Items
<1>4. ASSUME NEW b \in PartnerBodies, PartnerPosts(b) PROVE OwnTyped'
  <2> DEFINE m == [me |-> FALSE, body |-> b]
  <2>1. m \in Message /\ ~m.me BY BodiesAssumption DEF Message, Body
  <2>2. /\ UNCHANGED <<typed, text, view, wire>> /\ posts' = Append(posts, m)
        /\ room' = [room EXCEPT ![Len(posts) + 1] = m]
    BY <1>4 DEF PartnerPosts, thread, history
  <2>3. Items(view') = Items(view) /\ Items(wire') = Items(wire)
    BY <2>2 DEF Items
  <2>4. \A k \in Key : room'[k] = room[k] \/ room'[k] = m
    BY <2>2 DEF TypeOK
  <2> HIDE DEF m
  <2>5. Items(posts') = Items(posts) \cup {m}
    BY <1>1, <2>1, <2>2, AppendItems
  <2> QED BY <2>1, <2>2, <2>3, <2>4, <2>5, OwnedFrom
<1>5. CASE (\E k \in Key : PartnerRemoves(k)) \/ PartnerDeletes
  <2>1. UNCHANGED <<typed, text, view, wire, posts>>
        /\ \A k \in Key : room'[k] = room[k] \/ room'[k] = Absent
    BY <1>5 DEF PartnerRemoves, PartnerDeletes, history, TypeOK
  <2>2. Items(view') = Items(view) /\ Items(wire') = Items(wire)
        /\ Items(posts') = Items(posts)
    BY <2>1 DEF Items
  <2> QED BY <2>1, <2>2, OwnedFrom
<1>6. CASE Kill
  <2>1. /\ Items(view') = {} /\ Items(wire') = {} /\ Items(posts') = Items(posts)
        /\ \A s \in Screen : text'[s] = NoText
        /\ typed' = typed /\ room' = room
    BY <1>6, EmptyItems DEF Kill, ProcessLost
  <2>2. Known(NoText, typed') BY BodiesAssumption DEF Known
  <2> QED BY <2>1, <2>2, OwnedFrom
<1>7. CASE WriteRejected
  <2>1. wire # <<>> /\ wire' = Tail(wire) /\ UNCHANGED <<typed, text, view, room, posts>>
    BY <1>7 DEF WriteRejected
  <2>2. Items(wire') \subseteq Items(wire) BY <1>1, <2>1, TailItems
  <2>3. Items(view') = Items(view) /\ Items(posts') = Items(posts)
    BY <2>1 DEF Items
  <2> QED BY <2>1, <2>2, <2>3, OwnedFrom
<1> QED BY <1>2, <1>3, <1>4, <1>5, <1>6, <1>7 DEF Partner

LEMMA OwnedStep == TypeOK /\ OwnTyped /\ [Next]_vars => OwnTyped'
<1>1. OwnTyped /\ UNCHANGED vars => OwnTyped'
  BY DEF OwnTyped, Items, vars, thread, history
<1> QED BY <1>1, OwnedUser, OwnedAnswer, OwnedOther DEF Next

\* No message of mine is new, and a box that now holds a text and is not in edit
\* mode held it before.
LEMMA BoxedFrom ==
  ASSUME Boxed, spilled \subseteq spilled', Posted' \subseteq Posted,
         \A s \in Screen : text'[s] \in Texts /\ ~isEdit'[s]
                           => text'[s] = text[s] /\ ~isEdit[s]
  PROVE  Boxed'
BY DEF Boxed

\* One message of mine is new.
LEMMA OnceMore ==
  ASSUME TypeOK, TextPostedOnce, spilled \subseteq spilled',
         NEW b \in Body, posts' = Append(posts, [me |-> TRUE, body |-> b]),
         b \in Texts /\ b \in Posted => b \in spilled'
  PROVE  TextPostedOnce' /\ Posted' \subseteq Posted \cup {b}
<1> DEFINE m == [me |-> TRUE, body |-> b]
<1>1. m \in Message /\ m.body = b /\ posts \in Seq(Message)
  BY DEF Message, TypeOK
<1>2. posts' = Append(posts, m) OBVIOUS
<1> HIDE DEF m
<1>3. /\ Len(posts) \in Nat /\ DOMAIN posts = 1 .. Len(posts)
      /\ DOMAIN posts' = 1 .. Len(posts) + 1
      /\ \A i \in 1 .. Len(posts) : posts'[i] = posts[i]
      /\ posts'[Len(posts) + 1] = m
  BY <1>1, <1>2, AppendFacts
<1>4. \A i \in DOMAIN posts' :
        \/ i \in DOMAIN posts /\ posts'[i] = posts[i]
        \/ i = Len(posts) + 1 /\ posts'[i] = m
  BY <1>3
<1>5. \A i \in DOMAIN posts : posts[i].me => posts[i].body \in Posted
  BY DEF Posted, Items
<1>6. TextPostedOnce'
  BY <1>1, <1>4, <1>5 DEF TextPostedOnce
<1>7. \A i \in DOMAIN posts' : posts'[i].me => posts'[i].body \in Posted \cup {b}
  BY <1>1, <1>4, <1>5
<1> QED BY <1>6, <1>7 DEF Posted, Items

\* A text is posted out of a box, which is emptied by the same callback.
LEMMA OnceStep == TypeOK /\ Once /\ [Next]_vars => Once'
<1> SUFFICES ASSUME TypeOK, Once, [Next]_vars PROVE Once'
  OBVIOUS
<1> USE DEF Once
<1>0. OwnTyped' BY OwnedStep
<1>1. /\ text \in [Screen -> Texts \cup {NoText}] /\ screen \in Screen
      /\ isEdit \in [Screen -> BOOLEAN] /\ NoText \notin Texts
      /\ posts \in Seq(Message)
  BY BodiesAssumption DEF TypeOK
<1>2. ASSUME UNCHANGED <<posts, spilled>>,
             \A s \in Screen : text'[s] \in Texts /\ ~isEdit'[s]
                               => text'[s] = text[s] /\ ~isEdit[s]
      PROVE  Once'
  <2>1. Posted' = Posted BY <1>2 DEF Posted, Items
  <2>2. TextPostedOnce' BY <1>2 DEF TextPostedOnce
  <2> QED BY <1>0, <1>2, <2>1, <2>2, BoxedFrom
<1>3. ASSUME NEW t \in Texts, Type(t) PROVE Once'
  <2>1. /\ t \notin typed /\ text' = [text EXCEPT ![screen] = t]
        /\ UNCHANGED <<posts, spilled, isEdit>>
    BY <1>3 DEF Type, edit
  <2>2. TextPostedOnce' /\ Posted' = Posted
    BY <2>1 DEF TextPostedOnce, Posted, Items
  <2>3. t \notin Posted /\ \A s \in Screen : text[s] # t
    BY <2>1 DEF OwnTyped, Known, Posted
  <2>4. Boxed' BY <1>1, <2>1, <2>2, <2>3 DEF Boxed
  <2> QED BY <1>0, <2>2, <2>4
<1>4. CASE User
  <2>1. CASE \/ Open \/ Leave \/ Cover \/ Uncover \/ TapSend \/ Dismiss \/ TapPost
             \/ (\E i \in DOMAIN view : Remove(i)) \/ \E m \in Images : Pick(m)
    BY <1>2, <2>1 DEF Open, Leave, Cover, Uncover, TapSend, Dismiss, TapPost, Remove,
                      Pick, edit, history
  <2>2. CASE \/ Erase \/ TapSave \/ TapSaveTraps \/ \E i \in DOMAIN view : EditBegin(i)
    <3>1. UNCHANGED <<posts, spilled>>
      BY <2>2 DEF Erase, TapSave, TapSaveTraps, ProcessLost, EditBegin, history
    <3>2. \A s \in Screen : text'[s] \in Texts /\ ~isEdit'[s]
                            => text'[s] = text[s] /\ ~isEdit[s]
      BY <1>1, <2>2 DEF Erase, TapSave, TapSaveTraps, ProcessLost, EditBegin, edit
    <3> QED BY <1>2, <3>1, <3>2
  <2> QED BY <1>3, <1>4, <2>1, <2>2 DEF User
<1>5. CASE TextStatusAnswered
  <2> DEFINE s == Head(wire).screen  b == text[s]
  <2>1. wire # <<>> /\ s \in Screen
    BY <1>5, WireType DEF TextStatusAnswered, Answered, TypeOK, Request
  <2>2. /\ DoSend(s, b) /\ text' = [text EXCEPT ![s] = NoText] /\ isEdit' = isEdit
        /\ spilled' = IF isEdit[s] /\ b # NoText THEN spilled \cup {b} ELSE spilled
    BY <1>5 DEF TextStatusAnswered, BoxEmptied, edit
  <2>3. b \in Body /\ b \in Texts \cup {NoText} BY <1>1, <2>1 DEF Body
  <2>4. posts' = posts \/ posts' = Append(posts, [me |-> TRUE, body |-> b])
    BY <2>1, <2>2, <2>3, SentItems
  <2>5. spilled \subseteq spilled' /\ (isEdit[s] /\ b \in Texts => b \in spilled')
    BY <1>1, <2>2
  <2>6. TextPostedOnce' /\ Posted' \subseteq Posted \cup {b}
    <3>1. CASE posts' = posts
      BY <2>5, <3>1 DEF TextPostedOnce, Posted, Items
    <3>2. CASE posts' = Append(posts, [me |-> TRUE, body |-> b])
      <4>1. b \in Texts /\ b \in Posted => b \in spilled'
        BY <2>1, <2>5 DEF Boxed
      <4> QED BY <2>3, <2>5, <3>2, <4>1, OnceMore
    <3> QED BY <2>4, <3>1, <3>2
  <2>7. Boxed'
    <3>1. SUFFICES ASSUME NEW z \in Screen, text'[z] \in Texts, ~isEdit[z]
                   PROVE  /\ text'[z] \in Posted' => text'[z] \in spilled'
                          /\ \A u \in Screen : text'[u] = text'[z] /\ ~isEdit[u] => u = z
      BY <2>2 DEF Boxed
    <3>2. z # s /\ text'[z] = text[z] BY <1>1, <2>1, <2>2, <3>1
    <3>3. \A u \in Screen : text'[u] = text'[z] => text[u] = text[z]
      BY <1>1, <2>1, <2>2, <3>1, <3>2
    <3>4. text[z] = b => b \in spilled'
      BY <2>1, <2>5, <3>1, <3>2 DEF Boxed
    <3> QED BY <2>5, <2>6, <3>1, <3>2, <3>3, <3>4 DEF Boxed
  <2> QED BY <1>0, <2>6, <2>7
<1>6. CASE ImageStatusAnswered
  <2> DEFINE s == Head(wire).screen
  <2>1. /\ wire # <<>> /\ s \in Screen /\ UNCHANGED <<text, isEdit, spilled>>
    BY <1>6, WireType
       DEF ImageStatusAnswered, Answered, TypeOK, Request, edit, history
  <2>2. CASE posts' = posts BY <1>2, <2>1, <2>2
  <2>3. CASE url[s] # NoImage /\ DoSend(s, url[s])
    <3>1. url[s] \in Body /\ url[s] \notin Texts
      BY <2>1, <2>3, BodiesAssumption DEF TypeOK, Body
    <3>2. posts' = posts \/ posts' = Append(posts, [me |-> TRUE, body |-> url[s]])
      BY <2>1, <2>3, <3>1, SentItems
    <3>3. CASE posts' = Append(posts, [me |-> TRUE, body |-> url[s]])
      <4>1. TextPostedOnce' /\ Posted' \subseteq Posted \cup {url[s]}
        BY <2>1, <3>1, <3>3, OnceMore
      <4>2. Boxed' BY <2>1, <3>1, <4>1 DEF Boxed
      <4> QED BY <1>0, <4>1, <4>2
    <3> QED BY <2>2, <3>2, <3>3
  <2> QED BY <1>6, <2>2, <2>3 DEF ImageStatusAnswered, Dropped
<1>7. CASE \/ MessageAccepted \/ MyListAccepted \/ PartnerListAccepted
           \/ RowWriteAccepted \/ ChildAdded \/ Storage \/ WriteRejected
           \/ UNCHANGED vars
  BY <1>2, <1>7 DEF MessageAccepted, MyListAccepted, PartnerListAccepted,
     RowWriteAccepted, ChildAdded, Storage, PutAnswered, UrlAnswered, WriteRejected,
     vars, edit, history
<1>8. CASE Kill
  <2>1. UNCHANGED <<posts, spilled>> /\ \A s \in Screen : text'[s] = NoText
    BY <1>8 DEF Kill, ProcessLost
  <2> QED BY <1>1, <1>2, <2>1
<1>9. CASE Partner
  <2>1. CASE posts' = posts
    BY <1>2, <1>9, <2>1 DEF Partner, PartnerPosts, PartnerRemoves, PartnerDeletes,
                            edit, history
  <2>2. ASSUME NEW b \in PartnerBodies, PartnerPosts(b) PROVE Once'
    <3> DEFINE m == [me |-> FALSE, body |-> b]
    <3>1. m \in Message /\ ~m.me BY BodiesAssumption DEF Message, Body
    <3>2. posts' = Append(posts, m) /\ UNCHANGED <<text, isEdit, spilled>>
      BY <2>2 DEF PartnerPosts, edit, history
    <3> HIDE DEF m
    <3>3. \A i \in DOMAIN posts' :
            (i \in DOMAIN posts /\ posts'[i] = posts[i]) \/ ~posts'[i].me
      <4>1. /\ Len(posts) \in Nat /\ DOMAIN posts = 1 .. Len(posts)
            /\ DOMAIN posts' = 1 .. Len(posts) + 1
            /\ \A i \in 1 .. Len(posts) : posts'[i] = posts[i]
            /\ posts'[Len(posts) + 1] = m
        BY <1>1, <3>1, <3>2, AppendFacts
      <4> QED BY <3>1, <4>1
    <3>4. TextPostedOnce' BY <3>2, <3>3 DEF TextPostedOnce
    <3>5. Posted' \subseteq Posted BY <3>3 DEF Posted, Items
    <3> QED BY <1>0, <3>2, <3>4, <3>5, BoxedFrom
  <2>3. CASE (\E k \in Key : PartnerRemoves(k)) \/ PartnerDeletes
    BY <2>1, <2>3 DEF PartnerRemoves, PartnerDeletes
  <2> QED BY <1>9, <2>2, <2>3 DEF Partner
<1> QED BY <1>4, <1>5, <1>6, <1>7, <1>8, <1>9 DEF Next, Answer

\* A typed text becomes one message, unless a status answer took it out of a box
\* in edit mode.
THEOREM PostedOnce == Spec => []TextPostedOnce
<1>1. Once => TextPostedOnce
  BY DEF Once
<1> QED BY <1>1, OnceInit, OnceStep, TypeCorrect, PTL DEF Spec

-----------------------------------------------------------------------------
(* The rows and the messages *)

\* The outstanding requests that write a message, and the last of them.
Writes(r, k) == r.key = k /\ r.step \in {"message"} \cup RowStep
At(q, k) == {i \in DOMAIN q : Writes(q[i], k)}
Last(q, k, r) == \E i \in At(q, k) : (\A j \in At(q, k) : j <= i) /\ q[i] = r
Removing(q, k) == \E i \in At(q, k) : q[i].step = "remove"
\* The device holds the message, m being what the room has.
Held(q, m, k) ==
  IF At(q, k) = {} THEN m # Absent
  ELSE \E r \in Request : Last(q, k, r) /\ r.step # "remove"

\* What is outstanding of a message after one more request.
LEMMA AppendAt ==
  ASSUME NEW q \in Seq(Request), NEW e \in Request, NEW k
  PROVE  /\ At(Append(q, e), k) = {} <=> At(q, k) = {} /\ ~Writes(e, k)
         /\ Writes(e, k) => \A r \in Request : Last(Append(q, e), k, r) <=> r = e
         /\ ~Writes(e, k) => \A r \in Request : Last(Append(q, e), k, r) <=> Last(q, k, r)
         /\ Removing(Append(q, e), k)
            <=> Removing(q, k) \/ (Writes(e, k) /\ e.step = "remove")
<1> DEFINE t == Append(q, e)  l == Len(q) + 1
<1>1. /\ Len(q) \in Nat /\ DOMAIN q = 1 .. Len(q) /\ DOMAIN t = 1 .. Len(q) + 1
      /\ \A i \in 1 .. Len(q) : t[i] = q[i]
      /\ t[Len(q) + 1] = e
  BY AppendFacts
<1> HIDE DEF t
<1>2. /\ l \in DOMAIN t /\ t[l] = e /\ l \in Nat
      /\ \A i \in DOMAIN t : i \in Nat /\ i <= l
      /\ \A i \in DOMAIN q : i \in DOMAIN t /\ t[i] = q[i] /\ i < l
      /\ \A i \in DOMAIN t : i = l \/ (i \in DOMAIN q /\ t[i] = q[i])
  BY <1>1
<1> HIDE DEF l
<1>3. /\ \A i \in At(q, k) : i \in At(t, k) /\ t[i] = q[i] /\ i \in Nat /\ i < l
      /\ \A i \in At(t, k) : i \in Nat /\ (i = l \/ (i \in At(q, k) /\ t[i] = q[i]))
      /\ l \in At(t, k) <=> Writes(e, k)
      /\ t[l] = e /\ l \in Nat /\ \A i \in At(t, k) : i <= l
  BY <1>2 DEF At
<1>4. At(t, k) = {} <=> At(q, k) = {} /\ ~Writes(e, k)
  BY <1>3
<1>5. ASSUME Writes(e, k), NEW r \in Request PROVE Last(t, k, r) <=> r = e
  <2>1. Last(t, k, e) BY <1>3, <1>5 DEF Last
  <2>2. ASSUME Last(t, k, r) PROVE r = e
    <3>1. PICK i \in At(t, k) : (\A j \in At(t, k) : j <= i) /\ t[i] = r
      BY <2>2 DEF Last
    <3>2. l <= i /\ i <= l /\ i \in Nat BY <1>3, <1>5, <3>1
    <3>3. i = l BY <1>3, <3>2
    <3> QED BY <1>3, <3>1, <3>3
  <2> QED BY <2>1, <2>2
<1>6. ASSUME ~Writes(e, k), NEW r \in Request PROVE Last(t, k, r) <=> Last(q, k, r)
  <2>1. At(t, k) = At(q, k) /\ \A i \in At(q, k) : t[i] = q[i]
    BY <1>3, <1>6
  <2> QED BY <2>1, Zenon DEF Last
<1>7. Removing(t, k) <=> Removing(q, k) \/ (Writes(e, k) /\ e.step = "remove")
  BY <1>3 DEF Removing
<1> QED BY <1>4, <1>5, <1>6, <1>7 DEF t

\* What was outstanding of a message before the oldest request was answered.
LEMMA TailAt ==
  ASSUME NEW q \in Seq(Request), q # <<>>, NEW k
  PROVE  /\ At(q, k) = {} <=> At(Tail(q), k) = {} /\ ~Writes(Head(q), k)
         /\ \A r \in Request :
              Last(q, k, r) <=> \/ Last(Tail(q), k, r)
                                \/ At(Tail(q), k) = {} /\ Writes(Head(q), k) /\ r = Head(q)
         /\ Removing(q, k)
            <=> Removing(Tail(q), k) \/ (Writes(Head(q), k) /\ Head(q).step = "remove")
<1> DEFINE t == Tail(q)  h == Head(q)
<1>1. /\ Len(q) \in Nat \ {0} /\ DOMAIN q = 1 .. Len(q) /\ DOMAIN t = 1 .. Len(q) - 1
      /\ q[1] = h
      /\ \A i \in DOMAIN t : i + 1 \in DOMAIN q /\ t[i] = q[i + 1]
      /\ \A i \in DOMAIN q : i = 1 \/ (i - 1 \in DOMAIN t /\ t[i - 1] = q[i])
  BY TailMoves
<1> HIDE DEF t, h
<1>2. /\ \A i \in DOMAIN q : i \in Nat /\ 1 <= i
      /\ \A i \in DOMAIN t : i \in Nat /\ 1 <= i
      /\ 1 \in DOMAIN q
  BY <1>1
<1>3. /\ \A i \in At(q, k) : /\ i \in Nat /\ 1 <= i
                             /\ i = 1 \/ (i - 1 \in At(t, k) /\ t[i - 1] = q[i])
      /\ \A i \in At(t, k) : /\ i \in Nat /\ 1 <= i
                             /\ i + 1 \in At(q, k) /\ q[i + 1] = t[i]
      /\ 1 \in At(q, k) <=> Writes(h, k)
  BY <1>1, <1>2 DEF At
<1>4. At(q, k) = {} <=> At(t, k) = {} /\ ~Writes(h, k)
  BY <1>3
<1>5. ASSUME NEW r \in Request, Last(q, k, r)
      PROVE  Last(t, k, r) \/ (At(t, k) = {} /\ Writes(h, k) /\ r = h)
  <2>1. PICK i \in At(q, k) : (\A j \in At(q, k) : j <= i) /\ q[i] = r
    BY <1>5 DEF Last
  <2>2. CASE i = 1
    <3>1. At(t, k) = {}
      <4>1. SUFFICES ASSUME NEW j \in At(t, k) PROVE FALSE
        OBVIOUS
      <4>2. j \in Nat /\ 1 <= j /\ j + 1 <= 1 BY <1>3, <2>1, <2>2
      <4> QED BY <4>2
    <3> QED BY <1>1, <1>3, <2>1, <2>2, <3>1
  <2>3. CASE i # 1
    <3>1. i \in Nat /\ i - 1 \in At(t, k) /\ t[i - 1] = r BY <1>3, <2>1, <2>3
    <3>2. ASSUME NEW j \in At(t, k) PROVE j <= i - 1
      <4>1. j \in Nat /\ j + 1 <= i BY <1>3, <2>1
      <4> QED BY <3>1, <4>1
    <3> QED BY <3>1, <3>2 DEF Last
  <2> QED BY <2>2, <2>3
<1>6. ASSUME NEW r \in Request, Last(t, k, r) PROVE Last(q, k, r)
  <2>1. PICK i \in At(t, k) : (\A j \in At(t, k) : j <= i) /\ t[i] = r
    BY <1>6 DEF Last
  <2>2. i \in Nat /\ i + 1 \in At(q, k) /\ q[i + 1] = r BY <1>3, <2>1
  <2>3. ASSUME NEW j \in At(q, k) PROVE j <= i + 1
    <3>1. j \in Nat /\ (j = 1 \/ j - 1 <= i) BY <1>3, <2>1
    <3> QED BY <2>2, <3>1
  <2> QED BY <2>2, <2>3 DEF Last
<1>7. ASSUME At(t, k) = {}, Writes(h, k) PROVE Last(q, k, h)
  <2>1. 1 \in At(q, k) /\ q[1] = h /\ \A j \in At(q, k) : j <= 1 BY <1>1, <1>3, <1>7
  <2> QED BY <2>1 DEF Last
<1>8. Removing(q, k) => Removing(t, k) \/ (Writes(h, k) /\ h.step = "remove")
  BY <1>1, <1>3 DEF Removing
<1>9. Removing(t, k) \/ (Writes(h, k) /\ h.step = "remove") => Removing(q, k)
  BY <1>1, <1>3 DEF Removing
<1> QED BY <1>4, <1>5, <1>6, <1>7, <1>8, <1>9 DEF t, h

LEMMA EmptyAt == \A k, r : At(<<>>, k) = {} /\ ~Last(<<>>, k, r) /\ ~Removing(<<>>, k)
BY EmptySeq DEF At, Last, Removing

\* What the device holds, in the terms above.
LEMMA VisibleHeld ==
  ASSUME TypeOK, NEW k \in Key
  PROVE  /\ k \in Visible <=> Held(wire, room[k], k)
         /\ Pending(k) = At(wire, k)
<1>1. Pending(k) = At(wire, k) BY DEF Pending, At, Writes
<1>2. \A i \in DOMAIN wire : wire[i] \in Request
  BY LenProperties, ElementOfSeq DEF TypeOK
<1>3. \A i \in At(wire, k) : wire[i] \in Request BY <1>2 DEF At
<1> QED BY <1>1, <1>3 DEF Visible, Held, Last

\* One request is the last.
LEMMA LastOne ==
  ASSUME NEW q \in Seq(Request), NEW k, NEW r, NEW e, Last(q, k, r), Last(q, k, e)
  PROVE  r = e
<1>1. \A i \in At(q, k) : i \in Nat BY LenProperties DEF At
<1>2. PICK i \in At(q, k) : (\A j \in At(q, k) : j <= i) /\ q[i] = r BY DEF Last
<1>3. PICK j \in At(q, k) : (\A l \in At(q, k) : l <= j) /\ q[j] = e BY DEF Last
<1>4. i <= j /\ j <= i /\ i \in Nat /\ j \in Nat BY <1>1, <1>2, <1>3
<1>5. i = j BY <1>4
<1> QED BY <1>2, <1>3, <1>5

\* Keys are numbers of messages made so far.
Numbered ==
  /\ \A r \in Items(view) : r.key <= Len(posts)
  /\ \A k \in Key : At(wire, k) # {} \/ room[k] # Absent => k <= Len(posts)
\* The listener was told of a row's message, or the device does not hold it.
Told ==
  Listening => \A r \in Items(view) :
    r.key \in seen \/ r.key \in resurrected \/ ~Held(wire, room[r.key], r.key)
\* A message being removed has no row, and is not held, unless an edit follows.
Gone ==
  /\ \A r \in Items(view) : Removing(wire, r.key) => r.key \in resurrected
  /\ \A k \in Key : Removing(wire, k) /\ Held(wire, room[k], k) => k \in resurrected
\* A text row agrees with the last write of its message, or with the room.
Agrees(r) ==
  \/ r.body \in Images \/ r.key \in resurrected \/ rejects > 0
  \/ /\ At(wire, r.key) = {} => room[r.key] = Absent \/ room[r.key].body = r.body
     /\ \A e \in Request :
          Last(wire, r.key, e) /\ e.step # "remove" => e.body = r.body
Rows == /\ RowsDistinct /\ Numbered /\ Told /\ Gone
        /\ \A r \in Items(view) : Agrees(r)

\* A step takes from what is known of a message, and adds nothing to it.
Follows(k) ==
  /\ At(wire, k)' # {} \/ room'[k] # Absent => At(wire, k) # {} \/ room[k] # Absent
  /\ Held(wire, room[k], k)' => Held(wire, room[k], k) \/ Removing(wire, k)
  /\ Removing(wire, k)' => Removing(wire, k)
  /\ \A e \in Request : Last(wire, k, e)' => Last(wire, k, e)
  /\ At(wire, k)' = {} =>
       \/ room'[k] = Absent \/ rejects' > 0
       \/ At(wire, k) = {} /\ room'[k] = room[k]
       \/ \E e \in Request : /\ Last(wire, k, e) /\ e.step # "remove"
                             /\ room'[k].body = e.body

LEMMA RowItems ==
  ASSUME TypeOK
  PROVE  /\ \A r \in Items(view) : r \in Row /\ r.key \in Key
         /\ \A i \in DOMAIN view : view[i] \in Items(view) /\ view[i].key \in Key
         /\ Len(posts) \in Nat /\ \A k \in Key : k \in Nat
BY RowType, LenProperties DEF TypeOK, Items, Key

\* The rows stay, and every message follows or is new.
LEMMA RowsKept ==
  ASSUME TypeOK, Rows, view' = view, resurrected \subseteq resurrected',
         Len(posts') \in Nat, Len(posts) <= Len(posts'),
         rejects > 0 => rejects' > 0,
         \A k \in Key : k <= Len(posts) => Follows(k),
         \A k \in Key : ~(k <= Len(posts)) =>
           /\ At(wire, k)' # {} \/ room'[k] # Absent => k <= Len(posts')
           /\ ~Removing(wire, k)',
         Listening' => Listening /\ \A k \in seen : k \in seen' \/ ~Held(wire, room[k], k)'
  PROVE  Rows'
<1>1. /\ \A r \in Items(view) : r.key \in Key /\ r.key \in Nat /\ r.key <= Len(posts)
      /\ Len(posts) \in Nat /\ \A k \in Key : k \in Nat
      /\ Items(view') = Items(view)
  BY RowItems DEF Rows, Numbered
<1>2. RowsDistinct'
  BY DEF Rows, RowsDistinct
<1>3. Numbered'
  <2>1. ASSUME NEW k \in Key, At(wire, k)' # {} \/ room'[k] # Absent
        PROVE  k <= Len(posts')
    <3>1. CASE k <= Len(posts) BY <1>1, <3>1
    <3>2. CASE ~(k <= Len(posts)) BY <2>1, <3>2
    <3> QED BY <3>1, <3>2
  <2>2. \A r \in Items(view') : r.key <= Len(posts') BY <1>1
  <2> QED BY <2>1, <2>2 DEF Numbered
<1>4. \A r \in Items(view) : Follows(r.key)
  BY <1>1
<1>5. Told'
  <2>1. SUFFICES ASSUME Listening', NEW r \in Items(view)
                 PROVE  \/ r.key \in seen' \/ r.key \in resurrected'
                        \/ ~Held(wire, room[r.key], r.key)'
    BY <1>1 DEF Told
  <2>2. \/ r.key \in seen \/ r.key \in resurrected
        \/ ~Held(wire, room[r.key], r.key)
    BY <2>1 DEF Rows, Told
  <2>3. Held(wire, room[r.key], r.key)'
        => Held(wire, room[r.key], r.key) \/ Removing(wire, r.key)
    BY <1>4 DEF Follows
  <2>4. Removing(wire, r.key) => r.key \in resurrected BY DEF Rows, Gone
  <2> QED BY <2>1, <2>2, <2>3, <2>4
<1>6. Gone'
  <2>1. ASSUME NEW r \in Items(view), Removing(wire, r.key)' PROVE r.key \in resurrected'
    <3>1. Removing(wire, r.key) BY <1>4, <2>1 DEF Follows
    <3> QED BY <3>1 DEF Rows, Gone
  <2>2. ASSUME NEW k \in Key, Removing(wire, k)', Held(wire, room[k], k)'
        PROVE  k \in resurrected'
    <3>1. Follows(k) BY <2>2
    <3>2. Removing(wire, k) BY <2>2, <3>1 DEF Follows
    <3>3. At(wire, k)' # {} /\ At(wire, k) # {} BY <2>2, <3>2 DEF Removing
    <3>4. PICK e \in Request : Last(wire, k, e)' /\ e.step # "remove"
      BY <2>2, <3>3 DEF Held
    <3>5. Last(wire, k, e) BY <3>1, <3>4 DEF Follows
    <3>6. Held(wire, room[k], k) BY <3>3, <3>4, <3>5 DEF Held
    <3> QED BY <3>2, <3>6 DEF Rows, Gone
  <2> QED BY <1>1, <2>1, <2>2 DEF Gone
<1>7. ASSUME NEW r \in Items(view) PROVE Agrees(r)'
  <2>1. Agrees(r) /\ Follows(r.key) BY <1>4 DEF Rows
  <2>2. SUFFICES ASSUME r.body \notin Images, r.key \notin resurrected, ~(rejects > 0),
                        ~(rejects' > 0)
                 PROVE  /\ At(wire, r.key)' = {} =>
                             room'[r.key] = Absent \/ room'[r.key].body = r.body
                        /\ \A e \in Request :
                             Last(wire, r.key, e)' /\ e.step # "remove" => e.body = r.body
    BY DEF Agrees
  <2>3. /\ At(wire, r.key) = {} => room[r.key] = Absent \/ room[r.key].body = r.body
        /\ \A e \in Request :
             Last(wire, r.key, e) /\ e.step # "remove" => e.body = r.body
    BY <2>1, <2>2 DEF Agrees
  <2> QED BY <2>1, <2>2, <2>3 DEF Follows
<1> QED BY <1>1, <1>2, <1>3, <1>5, <1>6, <1>7 DEF Rows

\* A screen without rows.
LEMMA RowsCleared ==
  ASSUME TypeOK, Rows, view' = <<>>, resurrected \subseteq resurrected',
         wire' = wire \/ wire' = <<>>, room' = room, posts' = posts
  PROVE  Rows'
<1>1. Items(view') = {} /\ DOMAIN view' = {}
  BY EmptyItems
<1>2. RowsDistinct' /\ Told' /\ \A r \in Items(view') : Agrees(r)'
  BY <1>1 DEF RowsDistinct, Told
<1>3. CASE wire' = wire
  <2>1. Numbered' BY <1>1, <1>3 DEF Rows, Numbered
  <2>2. Gone' BY <1>1, <1>3 DEF Rows, Gone
  <2> QED BY <1>2, <2>1, <2>2 DEF Rows
<1>4. CASE wire' = <<>>
  <2>1. \A k : At(wire', k) = {} /\ ~Removing(wire', k) BY <1>4, EmptyAt
  <2>2. Numbered' BY <1>1, <2>1 DEF Rows, Numbered
  <2>3. Gone' BY <1>1, <2>1 DEF Gone
  <2> QED BY <1>2, <2>2, <2>3 DEF Rows
<1> QED BY <1>3, <1>4

LEMMA RowsInit == Init => Rows
<1> SUFFICES ASSUME Init PROVE Rows
  OBVIOUS
<1>1. /\ Items(view) = {} /\ DOMAIN view = {}
      /\ \A k \in Key : At(wire, k) = {} /\ ~Removing(wire, k) /\ room[k] = Absent
  BY EmptyItems, EmptyAt DEF Init
<1> QED BY <1>1 DEF Rows, RowsDistinct, Numbered, Told, Gone

\* The oldest request is answered, and nothing is asked of the message.
LEMMA PopFollows ==
  ASSUME TypeOK, wire # <<>>, NEW k \in Key,
         \/ wire' = Tail(wire)
         \/ \E e \in Request : ~Writes(e, k) /\ wire' = Append(Tail(wire), e),
         ~Writes(Head(wire), k) => room'[k] = room[k],
         Writes(Head(wire), k) =>
           \/ room'[k] = Absent \/ rejects' > 0
           \/ Head(wire).step # "remove" /\ room'[k].body = Head(wire).body
  PROVE  Follows(k)
<1> DEFINE t == Tail(wire)  h == Head(wire)
<1>1. wire \in Seq(Request) /\ h \in Request /\ t \in Seq(Request)
  BY WireType DEF TypeOK
<1>2. /\ At(wire, k) = {} <=> At(t, k) = {} /\ ~Writes(h, k)
      /\ \A r \in Request :
           Last(wire, k, r) <=> \/ Last(t, k, r)
                                \/ At(t, k) = {} /\ Writes(h, k) /\ r = h
      /\ Removing(wire, k) <=> Removing(t, k) \/ (Writes(h, k) /\ h.step = "remove")
  BY <1>1, TailAt
<1> HIDE DEF t
<1>3. /\ At(wire', k) = {} <=> At(t, k) = {}
      /\ \A r \in Request : Last(wire', k, r) <=> Last(t, k, r)
      /\ Removing(wire', k) <=> Removing(t, k)
  <2>1. CASE wire' = t
    BY <2>1
  <2>2. ASSUME NEW e \in Request, ~Writes(e, k), wire' = Append(t, e) PROVE <1>3
    <3>1. /\ At(Append(t, e), k) = {} <=> At(t, k) = {} /\ ~Writes(e, k)
          /\ \A r \in Request : Last(Append(t, e), k, r) <=> Last(t, k, r)
          /\ Removing(Append(t, e), k)
             <=> Removing(t, k) \/ (Writes(e, k) /\ e.step = "remove")
      BY <1>1, <2>2, AppendAt
    <3> QED BY <2>2, <3>1
  <2> QED BY <2>1, <2>2 DEF t
<1> HIDE DEF h
<1>4. /\ ~Writes(h, k) => room'[k] = room[k]
      /\ Writes(h, k) => \/ room'[k] = Absent \/ rejects' > 0
                         \/ h.step # "remove" /\ room'[k].body = h.body
  BY DEF h
<1>5. At(wire', k) # {} \/ room'[k] # Absent => At(wire, k) # {} \/ room[k] # Absent
  BY <1>2, <1>3, <1>4
<1>6. Held(wire', room'[k], k) => Held(wire, room[k], k) \/ Removing(wire, k)
  BY <1>1, <1>2, <1>3, <1>4 DEF Held
<1>7. At(wire', k) = {} =>
        \/ room'[k] = Absent \/ rejects' > 0
        \/ At(wire, k) = {} /\ room'[k] = room[k]
        \/ \E e \in Request : /\ Last(wire, k, e) /\ e.step # "remove"
                              /\ room'[k].body = e.body
  BY <1>1, <1>2, <1>3, <1>4
<1> QED BY <1>2, <1>3, <1>5, <1>6, <1>7 DEF Follows

\* Nothing is answered, and nothing is asked of the message.
LEMMA StayFollows ==
  ASSUME TypeOK, NEW k \in Key,
         \/ wire' = wire
         \/ \E e \in Request : ~Writes(e, k) /\ wire' = Append(wire, e),
         room'[k] = room[k] \/ room'[k] = Absent
  PROVE  Follows(k)
<1>1. /\ At(wire', k) = {} <=> At(wire, k) = {}
      /\ \A r \in Request : Last(wire', k, r) <=> Last(wire, k, r)
      /\ Removing(wire', k) <=> Removing(wire, k)
  <2>1. CASE wire' = wire
    BY <2>1
  <2>2. ASSUME NEW e \in Request, ~Writes(e, k), wire' = Append(wire, e) PROVE <1>1
    <3>1. /\ At(Append(wire, e), k) = {} <=> At(wire, k) = {} /\ ~Writes(e, k)
          /\ \A r \in Request : Last(Append(wire, e), k, r) <=> Last(wire, k, r)
          /\ Removing(Append(wire, e), k)
             <=> Removing(wire, k) \/ (Writes(e, k) /\ e.step = "remove")
      BY <2>2, AppendAt DEF TypeOK
    <3> QED BY <2>2, <3>1
  <2> QED BY <2>1, <2>2
<1>2. Held(wire', room'[k], k) => Held(wire, room[k], k)
  BY <1>1 DEF Held
<1> QED BY <1>1, <1>2 DEF Follows

\* The rows stay, and every message follows.
LEMMA RowsFollowed ==
  ASSUME TypeOK, Rows, view' = view, resurrected \subseteq resurrected',
         posts' = posts, rejects > 0 => rejects' > 0,
         \A k \in Key : Follows(k),
         Listening' => Listening /\ \A k \in seen : k \in seen' \/ ~Held(wire, room[k], k)'
  PROVE  Rows'
<1>1. Len(posts') \in Nat /\ Len(posts) <= Len(posts')
  BY LenProperties DEF TypeOK
<1>2. ASSUME NEW k \in Key, ~(k <= Len(posts))
      PROVE  /\ At(wire, k)' # {} \/ room'[k] # Absent => k <= Len(posts')
             /\ ~Removing(wire, k)'
  <2>1. At(wire, k) = {} /\ room[k] = Absent BY <1>2 DEF Rows, Numbered
  <2>2. ~Removing(wire, k) BY <2>1 DEF Removing
  <2> QED BY <2>1, <2>2 DEF Follows
<1> QED BY <1>1, <1>2, RowsKept

\* A key dropped from the listener's is not held.
LEMMA SeenNext ==
  ASSUME TypeOK', NEW k \in Key, k \notin Visible'
  PROVE  ~Held(wire, room[k], k)'
<1>1. Pending(k)' = At(wire, k)' BY DEF Pending, At, Writes
<1>2. \A r \in Request : Last(wire, k, r)' =>
        \E i \in Pending(k)' : (\A j \in Pending(k)' : j <= i) /\ wire'[i] = r
  BY <1>1 DEF Last
<1> QED BY <1>1, <1>2 DEF Visible, Held

\* The user's steps that neither write a message nor reload the rows.
LEMMA RowsTyped ==
  TypeOK /\ Rows /\ ( \/ Leave \/ Cover \/ Erase \/ TapSend \/ TapPost \/ Dismiss
                      \/ (\E t \in Texts : Type(t)) \/ (\E m \in Images : Pick(m))
                      \/ (\E i \in DOMAIN view : EditBegin(i)) ) => Rows'
<1> SUFFICES ASSUME TypeOK, Rows,
                    \/ Leave \/ Cover \/ Erase \/ TapSend \/ TapPost \/ Dismiss
                    \/ (\E t \in Texts : Type(t)) \/ (\E m \in Images : Pick(m))
                    \/ (\E i \in DOMAIN view : EditBegin(i))
             PROVE  Rows'
  OBVIOUS
<1>1. /\ UNCHANGED <<view, resurrected, posts, rejects, room>>
      /\ Listening' => Listening /\ seen' = seen
  BY DEF Leave, Cover, Erase, TapSend, TapPost, Dismiss, Type, Pick, EditBegin,
         Listening, place, thread, history, Disappear
<1>2. \/ wire' = wire
      \/ \E st \in QueryStep : wire' = Append(wire, Req(st, screen, 0, NoText))
  BY DEF Leave, Cover, Erase, TapSend, TapPost, Dismiss, Type, Pick, EditBegin, QueryStep
<1>3. ASSUME NEW st \in QueryStep, NEW k \in Key
      PROVE  /\ Req(st, screen, 0, NoText) \in Request
             /\ ~Writes(Req(st, screen, 0, NoText), k)
  <2>1. screen \in Screen /\ NoText \in Body BY DEF TypeOK, Body
  <2>2. Req(st, screen, 0, NoText) \in Request BY <2>1 DEF Req, Request
  <2>3. st \notin {"message"} \cup RowStep BY DEF QueryStep, RowStep
  <2> QED BY <2>2, <2>3, ReqBody DEF Writes
<1>4. \A k \in Key : Follows(k)
  BY <1>1, <1>2, <1>3, StayFollows
<1> QED BY <1>1, <1>4, RowsFollowed

\* The steps that empty the rows.
LEMMA RowsReset ==
  TypeOK /\ Rows /\ (Open \/ Uncover \/ TapSaveTraps \/ Kill) => Rows'
BY RowsCleared DEF Open, Uncover, TapSaveTraps, Kill, ProcessLost, Appear, history

\* Storage and stuttering touch neither rows nor messages.
LEMMA RowsElsewhere == TypeOK /\ Rows /\ (Storage \/ UNCHANGED vars) => Rows'
<1> SUFFICES ASSUME TypeOK, Rows, Storage \/ UNCHANGED vars PROVE Rows'
  OBVIOUS
<1>1. UNCHANGED <<view, resurrected, posts, rejects, room, wire, seen, shown>>
  BY DEF Storage, PutAnswered, UrlAnswered, vars, place, thread, history
<1>2. \A k \in Key : Follows(k) BY <1>1, StayFollows
<1> QED BY <1>1, <1>2, RowsFollowed DEF Listening

\* The partner writes new messages, or takes messages away.
LEMMA RowsPartner == TypeOK /\ Rows /\ Partner => Rows'
<1> SUFFICES ASSUME TypeOK, Rows, Partner PROVE Rows'
  OBVIOUS
<1>1. ASSUME NEW b \in PartnerBodies, PartnerPosts(b) PROVE Rows'
  <2> DEFINE n == Len(posts) + 1  m == [me |-> FALSE, body |-> b]
  <2>1. /\ UNCHANGED <<view, resurrected, rejects, wire, seen, shown>>
        /\ posts' = Append(posts, m) /\ room' = [room EXCEPT ![n] = m]
    BY <1>1 DEF PartnerPosts, place, thread, history
  <2>2. m \in Message BY BodiesAssumption DEF Message, Body
  <2> HIDE DEF m
  <2>3. Len(posts) \in Nat /\ Len(posts') = n
    BY <2>1, <2>2, AppendFacts DEF TypeOK
  <2>4. ASSUME NEW k \in Key, k <= Len(posts) PROVE Follows(k)
    <3>1. k # n BY <2>3, <2>4
    <3>2. room'[k] = room[k] BY <2>1, <3>1 DEF TypeOK
    <3> QED BY <2>1, <3>2, StayFollows
  <2>5. ASSUME NEW k \in Key, ~(k <= Len(posts))
        PROVE  /\ At(wire, k)' # {} \/ room'[k] # Absent => k <= Len(posts')
               /\ ~Removing(wire, k)'
    <3>1. At(wire, k) = {} /\ room[k] = Absent BY <2>5 DEF Rows, Numbered
    <3>2. ~Removing(wire, k) BY <3>1 DEF Removing
    <3>3. room'[k] = room[k] \/ k = n BY <2>1 DEF TypeOK
    <3> QED BY <2>1, <2>3, <3>1, <3>2, <3>3
  <2>6. Len(posts') \in Nat /\ Len(posts) <= Len(posts') BY <2>3
  <2> QED BY <2>1, <2>4, <2>5, <2>6, RowsKept DEF Listening
<1>2. CASE (\E k \in Key : PartnerRemoves(k)) \/ PartnerDeletes
  <2>1. /\ UNCHANGED <<view, resurrected, rejects, wire, posts, shown>>
        /\ \A k \in Key : room'[k] = room[k] \/ room'[k] = Absent
    BY <1>2 DEF PartnerRemoves, PartnerDeletes, place, history, TypeOK
  <2>2. \A k \in seen : k \in seen' \/ (Pending(k) = {} /\ room'[k] = Absent)
    BY <1>2 DEF PartnerRemoves, PartnerDeletes, TypeOK
  <2>3. \A k \in Key : Pending(k) = At(wire, k) BY DEF Pending, At, Writes
  <2>4. \A k \in seen : k \in seen' \/ ~Held(wire, room[k], k)'
    BY <2>1, <2>2, <2>3 DEF Held, TypeOK
  <2>5. \A k \in Key : Follows(k) BY <2>1, StayFollows
  <2> QED BY <2>1, <2>4, <2>5, RowsFollowed DEF Listening
<1> QED BY <1>1, <1>2 DEF Partner

\* A send writes a message no row has.
LEMMA RowsSent ==
  ASSUME TypeOK, TypeOK', Rows, wire # <<>>, NEW s \in Screen, NEW b \in Body,
         Head(wire).step \in QueryStep, DoSend(s, b),
         UNCHANGED <<view, resurrected, rejects, room, seen, shown>>
  PROVE  Rows'
<1>1. wire \in Seq(Request) /\ Tail(wire) \in Seq(Request) /\ Head(wire) \in Request
  BY WireType DEF TypeOK
<1>2. \A k \in Key : ~Writes(Head(wire), k)
  BY DEF Writes, QueryStep, RowStep
<1>3. CASE Dropped \/ Latched(s)
  <2>1. wire' = Tail(wire) /\ posts' = posts BY <1>3 DEF Dropped, Latched
  <2>2. \A k \in Key : Follows(k) BY <1>2, <2>1, PopFollows
  <2> QED BY <2>1, <2>2, RowsFollowed DEF Listening
<1>4. CASE Sent(s, b)
  <2> DEFINE e == Req("message", s, NewKey, b)  m == [me |-> TRUE, body |-> b]
  <2>1. Len(posts) \in Nat /\ NewKey = Len(posts) + 1 /\ NewKey \in Key
    BY <1>4, LenProperties, BoundsAssumption DEF TypeOK, Sent, NewKey, Key
  <2>2. m \in Message /\ e \in Request
    BY <2>1 DEF Message, Req, Request, ChainStep
  <2>3. wire' = Append(Tail(wire), e) /\ posts' = Append(posts, m)
    BY <1>4 DEF Sent
  <2>4. \A k \in Key : Writes(e, k) <=> k = NewKey
    BY ReqBody DEF Writes
  <2>5. e.step # "remove" BY ReqBody
  <2> HIDE DEF e, m
  <2>6. Len(posts') = NewKey
    BY <2>1, <2>2, <2>3, AppendFacts DEF TypeOK
  <2>7. \A k \in Key : k \in Nat BY DEF Key
  <2>8. ASSUME NEW k \in Key, k <= Len(posts) PROVE Follows(k)
    <3>1. ~Writes(e, k) BY <2>1, <2>4, <2>7, <2>8
    <3> QED BY <1>2, <2>2, <2>3, <3>1, PopFollows
  <2>9. ASSUME NEW k \in Key, ~(k <= Len(posts))
        PROVE  /\ At(wire, k)' # {} \/ room'[k] # Absent => k <= Len(posts')
               /\ ~Removing(wire, k)'
    <3>1. At(wire, k) = {} /\ room[k] = Absent BY <2>9 DEF Rows, Numbered
    <3>2. ~Removing(wire, k) BY <3>1 DEF Removing
    <3>3. At(Tail(wire), k) = {} /\ ~Removing(Tail(wire), k)
      BY <1>1, <3>1, <3>2, TailAt
    <3>4. /\ At(Append(Tail(wire), e), k) = {} <=> ~Writes(e, k)
          /\ ~Removing(Append(Tail(wire), e), k)
      BY <1>1, <2>2, <2>5, <3>3, AppendAt
    <3> QED BY <2>1, <2>3, <2>4, <2>6, <2>7, <3>1, <3>4
  <2>10. Len(posts') \in Nat /\ Len(posts) <= Len(posts') BY <2>1, <2>6
  <2> QED BY <2>8, <2>9, <2>10, RowsKept DEF Listening
<1> QED BY <1>3, <1>4 DEF DoSend

\* The room takes what the wire said, or the write is refused.
LEMMA RowsAnswered == TypeOK /\ TypeOK' /\ Rows /\ (Answer \/ WriteRejected) => Rows'
<1> SUFFICES ASSUME TypeOK, TypeOK', Rows, Answer \/ WriteRejected PROVE Rows'
  OBVIOUS
<1> DEFINE h == Head(wire)
<1>1. /\ wire # <<>>
      /\ UNCHANGED <<view, resurrected, shown>>
  BY DEF Answer, Answered, TextStatusAnswered, ImageStatusAnswered, MessageAccepted,
         MyListAccepted, PartnerListAccepted, RowWriteAccepted, WriteRejected,
         place, thread, history
<1>2. /\ h \in Request /\ h.screen \in Screen /\ wire \in Seq(Request)
      /\ text \in [Screen -> Texts \cup {NoText}] /\ url \in [Screen -> Images \cup {NoImage}]
  BY <1>1, WireType DEF TypeOK, Request
<1>3. CASE TextStatusAnswered
  <2>1. text[h.screen] \in Body BY <1>2 DEF Body
  <2>2. DoSend(h.screen, text[h.screen]) /\ h.step \in QueryStep
        /\ UNCHANGED <<room, rejects, seen>>
    BY <1>3 DEF TextStatusAnswered, Answered, QueryStep, thread
  <2> QED BY <1>1, <1>2, <2>1, <2>2, RowsSent
<1>4. CASE ImageStatusAnswered
  <2>1. UNCHANGED <<room, rejects, seen>> /\ h.step \in QueryStep
    BY <1>4 DEF ImageStatusAnswered, Answered, QueryStep, thread, history
  <2>2. CASE url[h.screen] = NoImage /\ Dropped
    <3>1. \A k \in Key : ~Writes(h, k) BY <2>1 DEF Writes, QueryStep, RowStep
    <3>2. wire' = Tail(wire) /\ posts' = posts BY <2>2 DEF Dropped
    <3>3. \A k \in Key : Follows(k) BY <1>1, <2>1, <3>1, <3>2, PopFollows
    <3> QED BY <1>1, <2>1, <3>2, <3>3, RowsFollowed DEF Listening
  <2>3. CASE url[h.screen] # NoImage /\ DoSend(h.screen, url[h.screen])
    <3>1. url[h.screen] \in Body BY <1>2, <2>3 DEF Body
    <3> QED BY <1>1, <1>2, <2>1, <2>3, <3>1, RowsSent
  <2> QED BY <1>4, <2>2, <2>3 DEF ImageStatusAnswered
<1>5. ASSUME UNCHANGED <<posts, rejects, seen>>, \A k \in Key : Follows(k) PROVE Rows'
  BY <1>1, <1>5, RowsFollowed DEF Listening
<1>6. CASE MessageAccepted \/ MyListAccepted
  <2> DEFINE n == [h EXCEPT !.step = After(@)]
  <2>1. n \in Request /\ \A k \in Key : ~Writes(n, k)
    BY <1>2 DEF Request, After, ChainStep, Writes, RowStep
  <2>2. wire' = Append(Tail(wire), n) /\ UNCHANGED <<posts, rejects, seen>>
    BY <1>6 DEF MessageAccepted, MyListAccepted, Continue, thread, history
  <2> HIDE DEF n
  <2>3. \/ h.step = "mine" /\ room' = room
        \/ h.step = "message" /\ room' = [room EXCEPT ![h.key] = [me |-> TRUE, body |-> h.body]]
    BY <1>6 DEF MessageAccepted, MyListAccepted, Answered
  <2>4. ASSUME NEW k \in Key PROVE Follows(k)
    <3>1. ~Writes(h, k) => room'[k] = room[k]
      BY <2>3 DEF Writes, TypeOK
    <3>2. Writes(h, k) => h.step # "remove" /\ room'[k].body = h.body
      BY <2>3 DEF Writes, TypeOK, RowStep
    <3> QED BY <1>1, <2>1, <2>2, <3>1, <3>2, PopFollows
  <2> QED BY <1>5, <2>2, <2>4
<1>7. CASE PartnerListAccepted
  <2>1. /\ wire' = Tail(wire) /\ UNCHANGED <<posts, rejects, seen, room>>
        /\ h.step = "theirs"
    BY <1>7 DEF PartnerListAccepted, Answered, thread, history
  <2>2. \A k \in Key : ~Writes(h, k) BY <2>1 DEF Writes, RowStep
  <2>3. \A k \in Key : Follows(k) BY <1>1, <2>1, <2>2, PopFollows
  <2> QED BY <1>5, <2>1, <2>3
<1>8. CASE RowWriteAccepted
  <2>1. /\ wire' = Tail(wire) /\ UNCHANGED <<posts, rejects, seen>> /\ h.step \in RowStep
        /\ room' = [room EXCEPT ![h.key] = IF h.step = "remove" THEN Absent
                                           ELSE [me |-> TRUE, body |-> h.body]]
    BY <1>8 DEF RowWriteAccepted, thread, history
  <2>2. ASSUME NEW k \in Key PROVE Follows(k)
    <3>1. ~Writes(h, k) => room'[k] = room[k]
      BY <2>1 DEF Writes, TypeOK
    <3>2. Writes(h, k) => \/ room'[k] = Absent
                          \/ h.step # "remove" /\ room'[k].body = h.body
      BY <2>1 DEF Writes, TypeOK
    <3> QED BY <1>1, <2>1, <3>1, <3>2, PopFollows
  <2> QED BY <1>5, <2>1, <2>2
<1>9. CASE WriteRejected
  <2>1. /\ wire' = Tail(wire) /\ UNCHANGED <<posts, room>> /\ rejects' = rejects + 1
        /\ seen' = {k \in seen : k \in Visible' \/ k # h.key} /\ rejects \in Nat
    BY <1>9 DEF WriteRejected, TypeOK
  <2>2. rejects' > 0 BY <2>1
  <2>3. \A k \in Key : Follows(k) BY <1>1, <2>1, <2>2, PopFollows
  <2>4. \A k \in seen : k \in seen' \/ ~Held(wire, room[k], k)'
    BY <2>1, SeenNext DEF TypeOK
  <2> QED BY <1>1, <2>1, <2>2, <2>3, <2>4, RowsFollowed DEF Listening
<1> QED BY <1>3, <1>4, <1>6, <1>7, <1>8, <1>9 DEF Answer

\* The row saved shows what the edit writes; a message no longer held is
\* resurrected.
LEMMA RowsSaved == TypeOK /\ Rows /\ TapSave => Rows'
<1> SUFFICES ASSUME TypeOK, Rows, TapSave PROVE Rows'
  OBVIOUS
<1> DEFINE i == edtIndex  k == view[i].key  b == text[screen]
           e == Req("edit", screen, k, b)
<1>1. /\ i \in DOMAIN view /\ view \in Seq(Row) /\ wire \in Seq(Request)
      /\ view' = [view EXCEPT ![i] = RowEdited(@, b)] /\ wire' = Append(wire, e)
      /\ resurrected' = IF k \in Visible THEN resurrected ELSE resurrected \cup {k}
      /\ UNCHANGED <<room, posts, seen, shown, rejects>>
  BY DEF TapSave, TypeOK, place
<1>2. /\ view[i] \in Row /\ k \in Key /\ b \in Body /\ screen \in Screen
      /\ \A x \in Key : x \in Nat
  BY <1>1, RowType DEF TypeOK, Body, Key
<1>3. /\ e \in Request /\ e.step = "edit" /\ e.body = b
      /\ \A x \in Key : Writes(e, x) <=> x = k
  BY <1>2, ReqBody DEF Req, Request, Writes, RowStep
<1> HIDE DEF e
<1>4. ASSUME NEW x \in Key, x # k
      PROVE  /\ At(wire', x) = {} <=> At(wire, x) = {}
             /\ \A r \in Request : Last(wire', x, r) <=> Last(wire, x, r)
             /\ Removing(wire', x) <=> Removing(wire, x)
             /\ Held(wire', room'[x], x) <=> Held(wire, room[x], x)
  <2>1. ~Writes(e, x) BY <1>3, <1>4
  <2>2. /\ At(Append(wire, e), x) = {} <=> At(wire, x) = {}
        /\ \A r \in Request : Last(Append(wire, e), x, r) <=> Last(wire, x, r)
        /\ Removing(Append(wire, e), x) <=> Removing(wire, x)
    BY <1>1, <1>3, <2>1, AppendAt
  <2>3. /\ At(wire', x) = {} <=> At(wire, x) = {}
        /\ \A r \in Request : Last(wire', x, r) <=> Last(wire, x, r)
        /\ Removing(wire', x) <=> Removing(wire, x)
    BY <1>1, <2>2
  <2> QED BY <1>1, <2>3 DEF Held
<1>5. /\ At(wire', k) # {}
      /\ \A r \in Request : Last(wire', k, r) <=> r = e
      /\ Removing(wire', k) <=> Removing(wire, k)
  <2>1. Writes(e, k) /\ e.step # "remove" BY <1>2, <1>3
  <2>2. /\ At(Append(wire, e), k) # {}
        /\ \A r \in Request : Last(Append(wire, e), k, r) <=> r = e
        /\ Removing(Append(wire, e), k) <=> Removing(wire, k)
    BY <1>1, <1>3, <2>1, AppendAt
  <2> QED BY <1>1, <2>2
<1>6. /\ resurrected \subseteq resurrected'
      /\ k \notin resurrected' => Held(wire, room[k], k)
  BY <1>1, <1>2, VisibleHeld
<1>7. /\ DOMAIN view' = DOMAIN view
      /\ \A j \in DOMAIN view : /\ view'[j].key = view[j].key /\ view[j].key \in Key
                                /\ view[j] \in Items(view)
      /\ \A j \in DOMAIN view : j # i => view'[j] = view[j]
      /\ view'[i].body \in Images \/ view'[i].body = b
      /\ view[i] \in Items(view)
  <2>1. \A j \in DOMAIN view : view[j].key \in Key /\ view[j] \in Items(view)
    BY <1>1, RowType DEF Items
  <2>2. /\ RowEdited(view[i], b).key = k
        /\ RowEdited(view[i], b).body \in Images \/ RowEdited(view[i], b).body = b
    BY <1>2 DEF RowEdited, Row
  <2>3. DOMAIN view' = DOMAIN view /\ view'[i] = RowEdited(view[i], b)
        /\ \A j \in DOMAIN view : j # i => view'[j] = view[j]
    BY <1>1
  <2> QED BY <1>1, <2>1, <2>2, <2>3
<1>8. RowsDistinct'
  BY <1>6, <1>7 DEF Rows, RowsDistinct
<1>9. Numbered'
  <2>1. k <= Len(posts) BY <1>7 DEF Rows, Numbered
  <2>2. \A x \in Key : At(wire, x)' # {} \/ room'[x] # Absent => x <= Len(posts')
    BY <1>1, <1>4, <2>1 DEF Rows, Numbered
  <2>3. ASSUME NEW j \in DOMAIN view PROVE view'[j].key <= Len(posts')
    <3>1. view'[j].key = view[j].key /\ view[j] \in Items(view) BY <1>7
    <3>2. view[j].key <= Len(posts) BY <3>1 DEF Rows, Numbered
    <3> QED BY <1>1, <3>1, <3>2
  <2>4. \A r \in Items(view') : r.key <= Len(posts')
    BY <1>7, <2>3 DEF Items
  <2> QED BY <2>2, <2>4 DEF Numbered
<1>10. Told'
  <2>1. SUFFICES ASSUME Listening, NEW j \in DOMAIN view, NEW x, x = view[j].key
                 PROVE  x \in seen \/ x \in resurrected' \/ ~Held(wire, room[x], x)'
    BY <1>1, <1>7 DEF Told, Listening, Items
  <2>2. x \in seen \/ x \in resurrected \/ ~Held(wire, room[x], x)
    BY <1>7, <2>1 DEF Rows, Told
  <2> QED BY <1>4, <1>6, <1>7, <2>1, <2>2
<1>11. Gone'
  <2>1. ASSUME NEW j \in DOMAIN view, Removing(wire', view[j].key)
        PROVE  view[j].key \in resurrected'
    <3>1. Removing(wire, view[j].key) BY <1>4, <1>5, <1>7, <2>1
    <3> QED BY <1>6, <1>7, <3>1 DEF Rows, Gone
  <2>2. ASSUME NEW x \in Key, Removing(wire', x), Held(wire', room'[x], x)
        PROVE  x \in resurrected'
    <3>1. CASE x = k BY <1>1, <2>1, <2>2, <3>1
    <3>2. CASE x # k BY <1>4, <1>6, <2>2, <3>2 DEF Rows, Gone
    <3> QED BY <3>1, <3>2
  <2> QED BY <1>7, <2>1, <2>2 DEF Gone, Items
<1>12. ASSUME NEW r \in Items(view') PROVE Agrees(r)'
  <2>1. PICK j \in DOMAIN view : r = view'[j] BY <1>7 DEF Items
  <2>2. CASE r.key # k
    <3>1. j # i /\ r = view[j] /\ Agrees(r) /\ r.key \in Key
      BY <1>7, <2>1, <2>2 DEF Rows
    <3> QED BY <1>1, <1>4, <1>6, <2>2, <3>1 DEF Agrees
  <2>3. CASE r.key = k /\ j # i
    <3>1. r.key \in resurrected BY <1>1, <1>7, <2>1, <2>3 DEF Rows, RowsDistinct
    <3> QED BY <1>6, <3>1 DEF Agrees
  <2>4. CASE j = i
    BY <1>3, <1>5, <1>7, <2>1, <2>4 DEF Agrees
  <2> QED BY <2>2, <2>3, <2>4
<1> QED BY <1>8, <1>9, <1>10, <1>11, <1>12 DEF Rows

\* The row goes with its message; a second row has a resurrected message.
LEMMA RowsRemoved ==
  ASSUME TypeOK, Rows, NEW i \in DOMAIN view, Remove(i)
  PROVE  Rows'
<1> DEFINE k == view[i].key  e == Req("remove", screen, k, NoText)
<1>1. /\ view \in Seq(Row) /\ wire \in Seq(Request)
      /\ view' = Without(view, i) /\ wire' = Append(wire, e)
      /\ seen' = seen \ {k}
      /\ UNCHANGED <<resurrected, room, posts, shown, rejects>>
  BY DEF Remove, Without, TypeOK, place
<1>2. /\ k \in Key /\ screen \in Screen /\ NoText \in Body /\ \A x \in Key : x \in Nat
      /\ i \in Nat
  BY <1>1, RowType DEF TypeOK, Body, Key
<1>3. /\ e \in Request /\ e.step = "remove"
      /\ \A x \in Key : Writes(e, x) <=> x = k
  BY <1>2, ReqBody DEF Req, Request, Writes, RowStep
<1> HIDE DEF e
<1>4. ASSUME NEW x \in Key, x # k
      PROVE  /\ At(wire', x) = {} <=> At(wire, x) = {}
             /\ \A r \in Request : Last(wire', x, r) <=> Last(wire, x, r)
             /\ Removing(wire', x) <=> Removing(wire, x)
             /\ Held(wire', room'[x], x) <=> Held(wire, room[x], x)
  <2>1. ~Writes(e, x) BY <1>3, <1>4
  <2>2. /\ At(Append(wire, e), x) = {} <=> At(wire, x) = {}
        /\ \A r \in Request : Last(Append(wire, e), x, r) <=> Last(wire, x, r)
        /\ Removing(Append(wire, e), x) <=> Removing(wire, x)
    BY <1>1, <1>3, <2>1, AppendAt
  <2>3. /\ At(wire', x) = {} <=> At(wire, x) = {}
        /\ \A r \in Request : Last(wire', x, r) <=> Last(wire, x, r)
        /\ Removing(wire', x) <=> Removing(wire, x)
    BY <1>1, <2>2
  <2> QED BY <1>1, <2>3 DEF Held
<1>5. ~Held(wire', room'[k], k)
  <2>1. Writes(e, k) BY <1>2, <1>3
  <2>2. /\ At(Append(wire, e), k) # {}
        /\ \A r \in Request : Last(Append(wire, e), k, r) <=> r = e
    BY <1>1, <1>3, <2>1, AppendAt
  <2>3. At(wire', k) # {} /\ \A r \in Request : Last(wire', k, r) <=> r = e
    BY <1>1, <2>2
  <2> QED BY <1>3, <2>3 DEF Held
<1>6. \A j \in DOMAIN view' :
        /\ j \in Nat
        /\ j < i => j \in DOMAIN view /\ view'[j] = view[j]
        /\ ~(j < i) => j + 1 \in DOMAIN view /\ view'[j] = view[j + 1]
  <2>1. \A j \in DOMAIN Without(view, i) :
          /\ j \in Nat
          /\ j < i => j \in DOMAIN view /\ Without(view, i)[j] = view[j]
          /\ ~(j < i) => j + 1 \in DOMAIN view /\ Without(view, i)[j] = view[j + 1]
    BY <1>1, Removed
  <2> QED BY <1>1, <2>1
<1>7. /\ Items(view') \subseteq Items(view)
      /\ \A r \in Items(view') : r.key \in Key /\ (r.key = k => r.key \in resurrected)
  <2>1. ASSUME NEW r \in Items(view')
        PROVE  \E j \in DOMAIN view : j # i /\ view[j] = r
    <3>1. PICK j \in DOMAIN view' : r = view'[j] BY DEF Items
    <3>2. CASE j < i
      BY <1>2, <1>6, <3>1, <3>2
    <3>3. CASE ~(j < i)
      <4>1. j + 1 \in DOMAIN view /\ view[j + 1] = r /\ j \in Nat BY <1>6, <3>1, <3>3
      <4>2. j + 1 # i BY <1>2, <3>3, <4>1
      <4> QED BY <4>1, <4>2
    <3> QED BY <3>2, <3>3
  <2>2. \A j \in DOMAIN view : view[j].key \in Key
    BY <1>1, RowType
  <2>3. \A j \in DOMAIN view : j # i /\ view[j].key = k => k \in resurrected
    BY DEF Rows, RowsDistinct
  <2> QED BY <2>1, <2>2, <2>3 DEF Items
<1>8. RowsDistinct'
  <2>1. SUFFICES ASSUME NEW a \in DOMAIN view', NEW b \in DOMAIN view', a # b,
                        view'[a].key = view'[b].key
                 PROVE  view'[a].key \in resurrected
    BY <1>1 DEF RowsDistinct
  <2> DEFINE f(j) == IF j < i THEN j ELSE j + 1
  <2>2. /\ f(a) \in DOMAIN view /\ view'[a] = view[f(a)]
        /\ f(b) \in DOMAIN view /\ view'[b] = view[f(b)]
    BY <1>6
  <2>3. f(a) # f(b)
    BY <1>2, <1>6, <2>1
  <2> HIDE DEF f
  <2> QED BY <2>1, <2>2, <2>3 DEF Rows, RowsDistinct
<1>9. Numbered'
  <2>1. k <= Len(posts) BY DEF Rows, Numbered, Items
  <2>2. \A x \in Key : At(wire, x)' # {} \/ room'[x] # Absent => x <= Len(posts')
    BY <1>1, <1>4, <2>1 DEF Rows, Numbered
  <2>3. \A r \in Items(view') : r.key <= Len(posts')
    BY <1>1, <1>7 DEF Rows, Numbered
  <2> QED BY <2>2, <2>3 DEF Numbered
<1>10. Told'
  <2>1. SUFFICES ASSUME Listening, NEW r \in Items(view')
                 PROVE  \/ r.key \in seen' \/ r.key \in resurrected
                        \/ ~Held(wire, room[r.key], r.key)'
    BY <1>1 DEF Told, Listening
  <2>2. r.key \in seen \/ r.key \in resurrected \/ ~Held(wire, room[r.key], r.key)
    BY <1>7, <2>1 DEF Rows, Told
  <2> QED BY <1>1, <1>4, <1>7, <2>1, <2>2
<1>11. Gone'
  <2>1. ASSUME NEW r \in Items(view'), Removing(wire', r.key)
        PROVE  r.key \in resurrected'
    BY <1>1, <1>4, <1>7, <2>1 DEF Rows, Gone
  <2>2. ASSUME NEW x \in Key, Removing(wire', x), Held(wire', room'[x], x)
        PROVE  x \in resurrected'
    BY <1>1, <1>4, <1>5, <2>2 DEF Rows, Gone
  <2> QED BY <2>1, <2>2 DEF Gone
<1>12. ASSUME NEW r \in Items(view') PROVE Agrees(r)'
  <2>1. r \in Items(view) /\ r.key \in Key /\ Agrees(r) BY <1>7 DEF Rows
  <2>2. CASE r.key = k BY <1>1, <1>7, <2>2 DEF Agrees
  <2>3. CASE r.key # k BY <1>1, <1>4, <2>1, <2>3 DEF Agrees
  <2> QED BY <2>2, <2>3
<1> QED BY <1>8, <1>9, <1>10, <1>11, <1>12 DEF Rows

\* A second row of a message is one the listener had to be told of again.
LEMMA RowsAdded == TypeOK /\ Rows /\ ChildAdded => Rows'
<1> SUFFICES ASSUME TypeOK, Rows, ChildAdded PROVE Rows'
  OBVIOUS
<1>1. PICK k \in Visible \ seen, m \in Message :
        /\ Holds(k, m) /\ seen' = seen \cup {k}
        /\ view' = Append(view, [key |-> k, me |-> m.me, body |-> m.body])
  BY DEF ChildAdded, AddRow
<1> DEFINE row == [key |-> k, me |-> m.me, body |-> m.body]
<1>2. /\ k \in Key /\ row \in Row /\ row.key = k /\ row.body = m.body
      /\ view \in Seq(Row) /\ wire \in Seq(Request)
  BY DEF Visible, Row, Message, TypeOK
<1>3. view' = Append(view, row) BY <1>1
<1> HIDE DEF row
<1>4. Listening /\ UNCHANGED <<wire, room, posts, resurrected, rejects, shown>>
  BY DEF ChildAdded, place, history
<1>5. Items(view') = Items(view) \cup {row}
  <2>1. Items(Append(view, row)) = Items(view) \cup {row} BY <1>2, AppendItems
  <2> QED BY <1>3, <2>1
<1>6. Held(wire, room[k], k) /\ k \notin seen /\ Pending(k) = At(wire, k)
  BY <1>1, <1>2, VisibleHeld
<1>7. \A r \in Items(view) : r.key = k => k \in resurrected
  BY <1>4, <1>6 DEF Rows, Told
<1>8. RowsDistinct'
  <2>1. /\ Len(view) \in Nat /\ DOMAIN view = 1 .. Len(view)
        /\ DOMAIN view' = 1 .. Len(view) + 1
        /\ \A j \in 1 .. Len(view) : view'[j] = view[j]
        /\ view'[Len(view) + 1] = row
    BY <1>2, <1>3, AppendFacts
  <2>2. \A j \in DOMAIN view' :
          \/ j \in DOMAIN view /\ view'[j] = view[j]
          \/ j = Len(view) + 1 /\ view'[j] = row
    BY <2>1
  <2>3. \A j \in DOMAIN view : view[j] \in Items(view) BY DEF Items
  <2> QED BY <1>2, <1>4, <1>7, <2>2, <2>3 DEF Rows, RowsDistinct
<1>9. Numbered'
  <2>1. At(wire, k) # {} \/ room[k] # Absent BY <1>6 DEF Held
  <2>2. k <= Len(posts) BY <1>2, <2>1 DEF Rows, Numbered
  <2> QED BY <1>2, <1>4, <1>5, <2>2 DEF Rows, Numbered
<1>10. Told'
  BY <1>1, <1>2, <1>4, <1>5 DEF Rows, Told, Listening
<1>11. Gone'
  BY <1>2, <1>4, <1>5, <1>6 DEF Rows, Gone
<1>12. Agrees(row)
  <2>1. CASE Pending(k) = {} /\ m = room[k]
    <3>1. \A e \in Request : ~Last(wire, k, e) BY <1>6, <2>1 DEF Last
    <3> QED BY <1>2, <2>1, <3>1 DEF Agrees
  <2>2. ASSUME NEW j \in Pending(k), \A l \in Pending(k) : l <= j,
               m = [me |-> TRUE, body |-> wire[j].body]
        PROVE  Agrees(row)
    <3>1. At(wire, k) # {} /\ Last(wire, k, wire[j]) BY <1>6, <2>2 DEF Last
    <3>2. \A e \in Request : Last(wire, k, e) => e = wire[j] BY <1>2, <3>1, LastOne
    <3>3. m.body = wire[j].body BY <2>2
    <3> QED BY <1>2, <3>1, <3>2, <3>3 DEF Agrees
  <2> QED BY <1>1, <2>1, <2>2 DEF Holds
<1>13. \A r \in Items(view') : Agrees(r)'
  <2>1. ASSUME NEW r, Agrees(r) PROVE Agrees(r)'
    BY <1>4, <2>1 DEF Agrees
  <2> QED BY <1>5, <1>12, <2>1 DEF Rows
<1> QED BY <1>8, <1>9, <1>10, <1>11, <1>13 DEF Rows

\* Every step keeps the rows and the messages in agreement.
LEMMA RowsStep == TypeOK /\ TypeOK' /\ Rows /\ [Next]_vars => Rows'
BY RowsTyped, RowsReset, RowsElsewhere, RowsPartner, RowsAnswered, RowsSaved,
   RowsRemoved, RowsAdded DEF Next, User

\* A message has one row, unless an edit wrote it again after it was gone.
THEOREM OneRowEach == Spec => []RowsDistinct
<1>1. Rows => RowsDistinct
  BY DEF Rows
<1> QED BY <1>1, RowsInit, RowsStep, TypeCorrect, PTL DEF Spec

\* A text row agrees with the stored message, unless something of it is
\* outstanding, was refused, or was removed.
THEOREM RowsAgree == Spec => []RowsMatchRoom
<1>1. ASSUME TypeOK, Rows PROVE RowsMatchRoom
  <2>1. SUFFICES ASSUME NEW i \in DOMAIN view, NEW k, k = view[i].key,
                        view[i].body \notin Images, Pending(k) = {}, ~(rejects > 0),
                        k \notin resurrected, room[k] # Absent
                 PROVE  room[k].body = view[i].body
    BY DEF RowsMatchRoom
  <2>2. view[i] \in Items(view) /\ k \in Key
    BY <1>1, <2>1, RowType DEF Items, TypeOK
  <2>3. At(wire, k) = {} BY <1>1, <2>1, <2>2, VisibleHeld
  <2> QED BY <1>1, <2>1, <2>2, <2>3 DEF Rows, Agrees
<1>2. TypeOK /\ Rows => RowsMatchRoom BY <1>1
<1> QED BY <1>2, RowsInit, RowsStep, TypeCorrect, PTL DEF Spec
-----------------------------------------------------------------------------
(* What the listener was told has a row *)

RowKeys == {view[i].key : i \in DOMAIN view}
ToldShown == seen \subseteq RowKeys

LEMMA ToldAdded == TypeOK /\ ToldShown /\ ChildAdded => ToldShown'
<1> SUFFICES ASSUME TypeOK, ToldShown, ChildAdded PROVE ToldShown'
  OBVIOUS
<1>1. PICK k \in Visible \ seen, m \in Message :
        /\ view' = AddRow(view, [key |-> k, me |-> m.me, body |-> m.body])
        /\ seen' = seen \cup {k}
  BY DEF ChildAdded
<1> DEFINE row == [key |-> k, me |-> m.me, body |-> m.body]
<1>2. row \in Row /\ view \in Seq(Row) /\ row.key = k
  BY DEF Visible, Message, Row, TypeOK
<1>3. view' = Append(view, row)
  BY <1>1 DEF AddRow
<1> HIDE DEF row
<1>4. /\ Len(view) \in Nat /\ DOMAIN view = 1 .. Len(view)
      /\ DOMAIN view' = 1 .. Len(view) + 1
      /\ \A i \in 1 .. Len(view) : view'[i] = view[i]
      /\ view'[Len(view) + 1] = row
  BY <1>2, <1>3, AppendFacts
<1>5. \A i \in DOMAIN view : i \in DOMAIN view' /\ view'[i] = view[i]
  BY <1>4
<1>6. Len(view) + 1 \in DOMAIN view'
  BY <1>4
<1> QED BY <1>1, <1>2, <1>4, <1>5, <1>6 DEF ToldShown, RowKeys

LEMMA ToldRemoved ==
  ASSUME TypeOK, ToldShown, NEW i \in DOMAIN view, Remove(i)
  PROVE  ToldShown'
<1>1. view \in Seq(Row) /\ view' = Without(view, i) /\ seen' = seen \ {view[i].key}
  BY DEF Remove, Without, TypeOK
<1>2. DOMAIN view = 1 .. Len(view) /\ Len(view) \in Nat
  BY <1>1, LenProperties
<1>3. /\ DOMAIN view' = 1 .. Len(view) - 1
      /\ \A j \in DOMAIN view' :
           /\ j < i => view'[j] = view[j]
           /\ ~(j < i) => view'[j] = view[j + 1]
  BY <1>1, Removed
<1>4. ASSUME NEW k \in seen' PROVE \E j \in DOMAIN view' : view'[j].key = k
  <2>1. PICK j \in DOMAIN view : view[j].key = k /\ j # i
    BY <1>1, <1>4 DEF ToldShown, RowKeys
  <2>2. CASE j < i
    <3>1. j \in DOMAIN view'
      BY <1>2, <1>3, <2>2
    <3> QED BY <1>3, <2>1, <2>2, <3>1
  <2>3. CASE ~(j < i)
    <3>1. j - 1 \in DOMAIN view' /\ ~(j - 1 < i) /\ (j - 1) + 1 = j
      BY <1>2, <1>3, <2>1, <2>3
    <3> QED BY <1>3, <2>1, <3>1
  <2> QED BY <2>2, <2>3
<1> QED BY <1>4 DEF ToldShown, RowKeys

LEMMA ToldSaved == TypeOK /\ ToldShown /\ TapSave => ToldShown'
<1> SUFFICES ASSUME TypeOK, ToldShown, TapSave PROVE ToldShown'
  OBVIOUS
<1>1. view \in Seq(Row) /\ edtIndex \in DOMAIN view /\ seen' = seen
      /\ view' = [view EXCEPT ![edtIndex] = RowEdited(@, text[screen])]
  BY DEF TapSave, TypeOK
<1>2. \A j \in DOMAIN view : view[j] \in Row
  BY <1>1, RowType
<1>3. RowEdited(view[edtIndex], text[screen]).key = view[edtIndex].key
  BY <1>1, <1>2 DEF RowEdited, Row
<1>4. DOMAIN view' = DOMAIN view /\ \A j \in DOMAIN view : view'[j].key = view[j].key
  BY <1>1, <1>3
<1> QED BY <1>1, <1>4 DEF ToldShown, RowKeys

LEMMA ToldStep == TypeOK /\ ToldShown /\ [Next]_vars => ToldShown'
<1> SUFFICES ASSUME TypeOK, ToldShown, [Next]_vars PROVE ToldShown'
  OBVIOUS
<1>1. CASE view' = view /\ seen' \subseteq seen
  BY <1>1 DEF ToldShown, RowKeys
<1>2. CASE seen' = {}
  BY <1>2 DEF ToldShown
<1>3. CASE Open \/ Leave \/ Cover \/ Uncover \/ TapSaveTraps \/ Kill
  BY <1>2, <1>3 DEF Open, Leave, Cover, Uncover, Appear, Disappear, TapSaveTraps, Kill,
                    ProcessLost
<1>4. CASE \/ Erase \/ TapSend \/ Dismiss \/ TapPost \/ Answer \/ Storage
           \/ (\E t \in Texts : Type(t)) \/ (\E m \in Images : Pick(m))
           \/ (\E i \in DOMAIN view : EditBegin(i)) \/ UNCHANGED vars
  <2>1. UNCHANGED thread
    BY <1>4 DEF Erase, TapSend, Dismiss, TapPost, Type, Pick, EditBegin, Answer,
                TextStatusAnswered, ImageStatusAnswered, MessageAccepted, MyListAccepted,
                PartnerListAccepted, RowWriteAccepted, Storage, PutAnswered, UrlAnswered,
                vars
  <2> QED BY <1>1, <2>1 DEF thread
<1>5. CASE Partner \/ WriteRejected
  <2>1. view' = view /\ seen' \subseteq seen
    BY <1>5 DEF Partner, PartnerPosts, PartnerRemoves, PartnerDeletes, WriteRejected, thread
  <2> QED BY <1>1, <2>1
<1> QED BY <1>3, <1>4, <1>5, ToldAdded, ToldRemoved, ToldSaved DEF Next, User

\* A message the listener has been told of has a row, however rows were edited and
\* removed by position meanwhile: with no event left to raise, every message the SDK
\* holds is shown.  It is the safety half of MessageGetsRow.
THEOREM ToldHaveRows == Spec => []ToldShown
<1>1. Init => ToldShown
  BY DEF Init, ToldShown
<1> QED BY <1>1, ToldStep, TypeCorrect, PTL DEF Spec
=============================================================================
