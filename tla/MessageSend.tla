---------------------------- MODULE MessageSend ----------------------------
(***************************************************************************)
(* The chat screen of one device: MessageSendVC with the part of           *)
(* FirebaseAPI it calls.  The user is in one room with one partner.        *)
(*                                                                         *)
(* Every request the app makes of the Firebase database (the status query, *)
(* the message, the two list entries, an edit, a removal) travels on one   *)
(* connection, in order, and its callback runs on the main queue: `wire`   *)
(* is the sequence of requests whose answers are outstanding, and one      *)
(* action per callback handles the head of it.  A callback keeps its view  *)
(* controller alive, so a screen the user has left still runs its          *)
(* callbacks: screens are numbered and the state they own is indexed.      *)
(*                                                                         *)
(* The partner is the environment: it posts, removes its own messages and  *)
(* deletes the whole chat.                                                 *)
(***************************************************************************)
EXTENDS Naturals, Sequences, FiniteSets

CONSTANTS Texts,      \* non-empty texts the user may type, each typed once
          Images,     \* images the user may pick
          PartnerBodies, \* what the partner may post
          NoText,     \* the empty text
          NoImage,    \* no preview image, a nil downloadURL
          Absent,     \* no value at a database node
          MaxScreens, \* bound: screens opened in one behaviour
          MaxPosts,   \* bound: messages written, the partner's included
          MaxWire,    \* bound: outstanding requests when the user taps
          MaxRowActs, \* bound: long presses on a row (Edit or Remove)
  MaxFaults   \* bound: writes refused plus deaths with requests outstanding

ASSUME BoundsAssumption ==
  /\ MaxScreens \in Nat \ {0} /\ MaxPosts \in Nat
  /\ MaxWire \in Nat \ {0} /\ MaxRowActs \in Nat /\ MaxFaults \in Nat
ASSUME BodiesAssumption ==
  /\ NoText \notin Texts /\ NoText \notin Images
  /\ Texts \cap Images = {} /\ NoImage \notin Images
  /\ PartnerBodies \subseteq Texts \cup Images

Screen == 1 .. MaxScreens
Key == 1 .. MaxPosts
Body == Texts \cup Images \cup {NoText}
Message == [me : BOOLEAN, body : Body]
Row == [key : Key, me : BOOLEAN, body : Body]
ChainStep == {"message", "mine", "theirs"}
QueryStep == {"askText", "askImage"}
RowStep == {"edit", "remove"}
Request == [step : ChainStep \cup QueryStep \cup RowStep,
            screen : Screen, key : Key \cup {0}, body : Body]
Upload == [screen : Screen, image : Images, phase : {"put", "url"}]

VARIABLES
  \* the device
  screen,     \* number of the newest screen
  shown,      \* "none", "shown" or "covered" (by the camera)
  text,       \* edt_msgSend.text, per screen
  sending,    \* isdosending, per screen
  url,        \* downloadURL, per screen
  preview,    \* imv_Post, per screen
  uploads,    \* Storage uploads in progress
  isEdit,     \* is_edit, per screen
  edtIndex,   \* edt_index of the newest screen, counted from 1
  view,       \* msgdataSource of the newest screen
  seen,       \* keys the listener has been told of
  wire,       \* outstanding requests
  \* the database
  room,       \* message/<chatroom_id>
  posts,      \* every message ever written to the room, by key
  mine,       \* key of the message my list entry shows, 0 for none
  theirs,     \* key of the message the partner's list entry shows
  status,     \* my status node
  \* observations
  typed,      \* texts the user has typed
  spilled,    \* texts a status answer took out of a box in edit mode
  resurrected,\* keys an edit wrote after they were gone
  blurred,    \* the last pick met another upload, or an upload failed since
  cause,      \* why the latch of a screen is beyond release, or "none"
  chosen,     \* key the user chose to edit, 0 for none
  disturbed,  \* the rows changed by removal or reload since it was chosen
  wiped,      \* messages written before the partner last deleted the chat
  rowActs,    \* long presses so far
  killed,     \* the process died with requests outstanding
  rejects     \* writes refused so far

place == <<screen, shown>>
edit == <<isEdit, edtIndex, chosen, disturbed>>
thread == <<view, seen>>
image == <<url, preview, uploads, blurred>>
latch == <<sending, cause>>
lists == <<mine, theirs>>
history == <<typed, spilled, resurrected, wiped, rowActs, killed, rejects>>
vars == <<place, text, edit, thread, image, latch, wire, room, posts, lists,
          status, history>>

Causes == {"none", "empty", "rejected"}

TypeOK ==
  /\ screen \in Screen /\ shown \in {"none", "shown", "covered"}
  /\ text \in [Screen -> Texts \cup {NoText}]
  /\ sending \in [Screen -> BOOLEAN]
  /\ url \in [Screen -> Images \cup {NoImage}]
  /\ preview \in [Screen -> Images \cup {NoImage}]
  /\ uploads \subseteq Upload /\ blurred \in [Screen -> BOOLEAN]
  /\ isEdit \in [Screen -> BOOLEAN] /\ edtIndex \in Nat
  /\ view \in Seq(Row) /\ seen \subseteq Key
  /\ wire \in Seq(Request)
  /\ room \in [Key -> Message \cup {Absent}]
  /\ posts \in Seq(Message) /\ Len(posts) <= MaxPosts
  /\ mine \in Key \cup {0} /\ theirs \in Key \cup {0}
  /\ status \in {"online", "offline"}
  /\ typed \subseteq Texts /\ spilled \subseteq Texts
  /\ resurrected \subseteq Key
  /\ cause \in [Screen -> Causes]
  /\ chosen \in Key \cup {0} /\ disturbed \in BOOLEAN
  /\ wiped \in 0 .. MaxPosts /\ killed \in BOOLEAN
  /\ rowActs \in 0 .. MaxRowActs
  /\ rejects \in 0 .. MaxFaults

Init ==
  /\ screen = 1 /\ shown = "shown"
  /\ text = [s \in Screen |-> NoText]
  /\ sending = [s \in Screen |-> FALSE]
  /\ url = [s \in Screen |-> NoImage]
  /\ preview = [s \in Screen |-> NoImage]
  /\ uploads = {} /\ blurred = [s \in Screen |-> FALSE]
  /\ isEdit = [s \in Screen |-> FALSE] /\ edtIndex = 1
  /\ view = <<>> /\ seen = {} /\ wire = <<>>
  /\ room = [k \in Key |-> Absent] /\ posts = <<>>
  /\ mine = 0 /\ theirs = 0 /\ status = "online"
  /\ typed = {} /\ spilled = {} /\ resurrected = {}
  /\ cause = [s \in Screen |-> "none"]
  /\ chosen = 0 /\ disturbed = FALSE
  /\ wiped = 0 /\ rowActs = 0 /\ killed = FALSE /\ rejects = 0

-----------------------------------------------------------------------------
(* What the Firebase SDK holds for the room: the server's value under the   *)
(* device's own outstanding writes.                                         *)

Pending(k) == {i \in DOMAIN wire : /\ wire[i].key = k
                                   /\ wire[i].step \in {"message"} \cup RowStep}

Visible == {k \in Key :
              IF Pending(k) = {} THEN room[k] # Absent
              ELSE \E i \in Pending(k) : /\ wire[i].step # "remove"
                                         /\ \A j \in Pending(k) : j <= i}

\* m is the message the SDK holds for k.
Holds(k, m) ==
  \/ Pending(k) = {} /\ m = room[k]
  \/ \E i \in Pending(k) : /\ \A j \in Pending(k) : j <= i
                           /\ m = [me |-> TRUE, body |-> wire[i].body]

Listening == shown = "shown"

\* A request of the newest screen or of a callback of screen s.
Req(step, s, k, b) == [step |-> step, screen |-> s, key |-> k, body |-> b]

\* Room for one more message, counting those the status queries may bring.
Asked == {i \in DOMAIN wire : wire[i].step \in QueryStep}
MayPost == Len(posts) + Cardinality(Asked) < MaxPosts

\* Another fault may happen.
MayFail == rejects + (IF killed THEN 1 ELSE 0) < MaxFaults

\* The HUD of uploadFile2Firebase lies over the screen until putFile answers.
Touchable == /\ shown = "shown"
             /\ \A u \in uploads : u.screen = screen => u.phase # "put"

\* msgdataSource.append: the mutant inserts the newest row first.
AddRowFirst(rows, row) == <<row>> \o rows
AddRow(rows, row) == Append(rows, row)

-----------------------------------------------------------------------------
(* Coming and going. *)

\* viewWillAppear, setParams: no rows, a new listener, the status node online.
\* Mutants: the rows stay; no listener is set, so no child is ever told of.
AppearKeepingRows == view' = view /\ seen' = {} /\ status' = "online"
AppearDeaf == view' = <<>> /\ seen' = Key /\ status' = "online"
Appear == view' = <<>> /\ seen' = {} /\ status' = "online"

\* viewDidDisappear: the observer goes, the status node says offline.
Disappear == seen' = {} /\ status' = "offline"

\* A new MessageSendVC: didSelectItemAt of ChatVC, then setParams.
Open ==
  /\ shown = "none" /\ screen < MaxScreens
  /\ screen' = screen + 1 /\ shown' = "shown"
  /\ Appear /\ edtIndex' = 1 /\ chosen' = 0 /\ disturbed' = FALSE
  /\ UNCHANGED <<text, isEdit, wire, room, posts, image, latch, lists,
                 history>>

\* addTappedLeftBtn: the observer goes, the window gets a new root.
Leave ==
  /\ shown = "shown" /\ shown' = "none" /\ Disappear
  /\ UNCHANGED <<screen, text, view, wire, room, posts, edit, image, latch,
                 lists, history>>

\* The camera is presented full screen: viewDidDisappear.
Cover ==
  /\ Touchable /\ shown' = "covered" /\ Disappear
  /\ UNCHANGED <<screen, text, view, wire, room, posts, edit, image, latch,
                 lists, history>>

\* The camera is dismissed: viewWillAppear of the same screen.  setParams
\* empties the rows; is_edit and edt_index keep their values.
Uncover ==
  /\ shown = "covered" /\ shown' = "shown" /\ Appear
  /\ disturbed' = isEdit[screen]
  /\ UNCHANGED <<screen, text, isEdit, edtIndex, chosen, wire, room, posts,
                 image, latch, lists, history>>

\* What is left when the process dies: nothing of the device, and the status
\* node still says what it said.
ProcessLost ==
  /\ shown' = "none" /\ seen' = {} /\ wire' = <<>> /\ uploads' = {}
  /\ view' = <<>> /\ isEdit' = [s \in Screen |-> FALSE] /\ edtIndex' = 1
  /\ text' = [s \in Screen |-> NoText] /\ chosen' = 0 /\ disturbed' = FALSE
  /\ sending' = [s \in Screen |-> FALSE]
  /\ cause' = [s \in Screen |-> "none"]
  /\ preview' = [s \in Screen |-> NoImage]
  /\ url' = [s \in Screen |-> NoImage] /\ blurred' = [s \in Screen |-> FALSE]
  /\ killed' = TRUE
  /\ UNCHANGED <<screen, room, posts, status, typed, spilled, resurrected,
                 wiped, rowActs, rejects, lists>>

Kill == wire # <<>> /\ MayFail /\ ProcessLost

-----------------------------------------------------------------------------
(* The text box and sendAction. *)

Type(t) ==
  /\ Touchable /\ t \in Texts \ typed
  /\ text' = [text EXCEPT ![screen] = t] /\ typed' = typed \cup {t}
  /\ UNCHANGED <<wire, room, posts, status, spilled, resurrected, wiped,
                 rowActs, killed, rejects, place, edit, thread, image, latch,
                 lists>>

Erase ==
  /\ Touchable /\ text[screen] # NoText
  /\ text' = [text EXCEPT ![screen] = NoText]
  /\ UNCHANGED <<wire, room, posts, status, place, edit, thread, image, latch,
                 lists, history>>

\* sendAction outside edit mode: checkValid, then getPartnerOnlineStatus.
TapSend ==
  /\ Touchable /\ ~isEdit[screen] /\ text[screen] # NoText
  /\ Len(wire) < MaxWire /\ MayPost
  /\ wire' = Append(wire, Req("askText", screen, 0, NoText))
  /\ UNCHANGED <<text, room, posts, status, place, edit, thread, image, latch,
                 lists, history>>

\* The row sendAction leaves behind in edit mode: msgContent is replaced, the
\* image is not.  The mutant forgets the row.
RowForgotten(row, b) == row
RowEdited(row, b) == [row EXCEPT !.body = IF @ \in Images THEN @ ELSE b]

\* sendAction in edit mode, the index naming a row: no check of the text, no
\* completion, the row's text replaced but not its `me`.
TapSave ==
  /\ Touchable /\ isEdit[screen] /\ edtIndex \in DOMAIN view
  /\ Len(wire) < MaxWire
  /\ LET k == view[edtIndex].key
         b == text[screen]
     IN /\ wire' = Append(wire, Req("edit", screen, k, b))
        /\ view' = [view EXCEPT ![edtIndex] = RowEdited(@, b)]
        /\ resurrected' = IF k \in Visible THEN resurrected
                          ELSE resurrected \cup {k}
  /\ text' = [text EXCEPT ![screen] = NoText]
  /\ isEdit' = [isEdit EXCEPT ![screen] = FALSE]
  /\ edtIndex' = 1 /\ chosen' = 0 /\ disturbed' = FALSE
  /\ UNCHANGED <<seen, room, posts, status, typed, spilled, wiped, rowActs,
                 killed, rejects, place, image, latch, lists>>

\* The same when edt_index is past the end: the subscript traps.
TapSaveTraps ==
  Touchable /\ isEdit[screen] /\ edtIndex \notin DOMAIN view /\ ProcessLost

\* longpress, Edit: only on one's own text.
EditBegin(i) ==
  /\ rowActs < MaxRowActs /\ rowActs' = rowActs + 1
  /\ Touchable /\ i \in DOMAIN view /\ view[i].me /\ view[i].body \notin Images
  /\ text' = [text EXCEPT ![screen] = view[i].body]
  /\ isEdit' = [isEdit EXCEPT ![screen] = TRUE]
  /\ edtIndex' = i /\ chosen' = view[i].key /\ disturbed' = FALSE
  /\ UNCHANGED <<wire, room, posts, status, typed, spilled, resurrected,
                 wiped, killed, rejects, place, thread, image, latch, lists>>

\* longpress, Remove: edt_index is not adjusted.
Remove(i) ==
  /\ rowActs < MaxRowActs /\ rowActs' = rowActs + 1
  /\ Touchable /\ i \in DOMAIN view /\ view[i].me /\ Len(wire) < MaxWire
  /\ wire' = Append(wire, Req("remove", screen, view[i].key, NoText))
  /\ view' = SubSeq(view, 1, i - 1) \o SubSeq(view, i + 1, Len(view))
  /\ seen' = seen \ {view[i].key} /\ disturbed' = isEdit[screen]
  /\ UNCHANGED <<text, isEdit, edtIndex, chosen, room, posts, status, typed,
                 spilled, resurrected, wiped, killed, rejects, place, image,
                 latch, lists>>

-----------------------------------------------------------------------------
(* The image preview. *)

\* gotoUploadProfile: the preview shows at once, the upload starts.  From the
\* gallery (a sheet) the screen never disappears; from the camera, Uncover
\* comes first.
Pick(m) ==
  /\ Touchable
  /\ preview' = [preview EXCEPT ![screen] = m]
  /\ uploads' = uploads \cup {[screen |-> screen, image |-> m, phase |-> "put"]}
  /\ blurred' = [blurred EXCEPT ![screen] = \E u \in uploads : u.screen = screen]
  /\ UNCHANGED <<text, url, wire, room, posts, status, place, edit, thread,
                 latch, lists, history>>

\* cancelImageBtnClicked, spaceBtnClicked, handleSwipeDown: downloadURL stays.
Dismiss ==
  /\ Touchable /\ preview[screen] # NoImage
  /\ preview' = [preview EXCEPT ![screen] = NoImage]
  /\ UNCHANGED <<text, url, uploads, blurred, wire, room, posts, status, place,
                 edit, thread, latch, lists, history>>

\* putFile answers: the HUD goes; on success downloadURL is asked for.
PutAnswered(u) ==
  /\ u \in uploads /\ u.phase = "put"
  /\ \/ /\ uploads' = (uploads \ {u}) \cup {[u EXCEPT !.phase = "url"]}
        /\ UNCHANGED blurred
     \/ uploads' = uploads \ {u} /\ blurred' = [blurred EXCEPT ![u.screen] = TRUE]
  /\ UNCHANGED <<text, url, preview, wire, room, posts, status, place, edit,
                 thread, latch, lists, history>>

\* `self.downloadURL = downloadURL`.  The mutant keeps the first URL.
UrlKept(u) == IF url[u.screen] = NoImage
              THEN [url EXCEPT ![u.screen] = u.image] ELSE url
UrlTaken(u) == [url EXCEPT ![u.screen] = u.image]

\* downloadURL answers.
UrlAnswered(u) ==
  /\ u \in uploads /\ u.phase = "url" /\ uploads' = uploads \ {u}
  /\ \/ url' = UrlTaken(u) /\ UNCHANGED blurred
     \/ url' = url /\ blurred' = [blurred EXCEPT ![u.screen] = TRUE]
  /\ UNCHANGED <<text, preview, wire, room, posts, status, place, edit,
                 thread, latch, lists, history>>

\* postImageBtnclicked.
TapPost ==
  /\ Touchable /\ preview[screen] # NoImage
  /\ Len(wire) < MaxWire /\ MayPost
  /\ wire' = Append(wire, Req("askImage", screen, 0, NoText))
  /\ UNCHANGED <<text, room, posts, status, place, edit, thread, image, latch,
                 lists, history>>

-----------------------------------------------------------------------------
(* The callbacks, in the order of the requests. *)

Answered(step) == wire # <<>> /\ Head(wire).step = step

\* doSend, `if !isdosending`.  The mutant sends regardless.
LatchIgnored(s) == TRUE
LatchFree(s) == ~sending[s]

\* childByAutoId
NewKey == Len(posts) + 1

\* doSend: the latch is taken before the text is looked at, and a call that
\* finds it taken does nothing.  isBlock is "false" from birth: no code sets it.
Dropped == wire' = Tail(wire) /\ UNCHANGED <<sending, cause, posts>>

Latched(s) ==
  /\ sending' = [sending EXCEPT ![s] = TRUE]
  /\ cause' = [cause EXCEPT ![s] = "empty"]
  /\ wire' = Tail(wire) /\ UNCHANGED posts

Sent(s, body) ==
  /\ Len(posts) < MaxPosts
  /\ sending' = [sending EXCEPT ![s] = TRUE] /\ UNCHANGED cause
  /\ posts' = Append(posts, [me |-> TRUE, body |-> body])
  /\ wire' = Append(Tail(wire), Req("message", s, NewKey, body))

DoSend(s, body) ==
  \/ ~LatchFree(s) /\ Dropped
  \/ LatchFree(s) /\ body = NoText /\ Latched(s)
  \/ LatchFree(s) /\ body # NoText /\ Sent(s, body)

\* `self.edt_msgSend.text! = ""` in the callback.  The mutant keeps
\* the text.
BoxLeft(s) == text
BoxEmptied(s) == [text EXCEPT ![s] = NoText]

\* getPartnerOnlineStatus answers sendAction: the box is read and emptied now,
\* not when the button was tapped.
TextStatusAnswered ==
  /\ Answered("askText")
  /\ LET s == Head(wire).screen
     IN /\ DoSend(s, text[s])
        /\ text' = BoxEmptied(s)
        /\ spilled' = IF isEdit[s] /\ text[s] # NoText
                      THEN spilled \cup {text[s]} ELSE spilled
  /\ UNCHANGED <<room, status, typed, resurrected, wiped, rowActs, killed,
                 rejects, place, edit, thread, image, lists>>

\* getPartnerOnlineStatus answers postImageBtnclicked: nothing without a URL.
ImageStatusAnswered ==
  /\ Answered("askImage")
  /\ LET s == Head(wire).screen
     IN \/ url[s] = NoImage /\ Dropped
        \/ url[s] # NoImage /\ DoSend(s, url[s])
  /\ UNCHANGED <<text, room, status, place, edit, thread, image, lists, history>>

\* The completion of one write of a chain starts the next: the message, my list
\* entry, the partner's.  Mutants: my list is skipped; the completion holds the
\* screen weakly and does nothing once the screen is left.
SkipMine(step) == "theirs"
After(step) == IF step = "message" THEN "mine" ELSE "theirs"

ContinueWeakly(r) ==
  IF r.screen = screen /\ shown # "none"
  THEN Append(Tail(wire), [r EXCEPT !.step = After(@)]) ELSE Tail(wire)
Continue(r) == Append(Tail(wire), [r EXCEPT !.step = After(@)])

\* The end of the chain.  The mutant resets the latch in the image branch only.
ReleasedAfterImage(r) ==
  IF r.body \in Images THEN [sending EXCEPT ![r.screen] = FALSE] ELSE sending
Released(r) == [sending EXCEPT ![r.screen] = FALSE]

\* The room takes the message, its completion writes my list entry.
MessageAccepted ==
  /\ Answered("message")
  /\ LET r == Head(wire)
     IN /\ room' = [room EXCEPT ![r.key] = [me |-> TRUE, body |-> r.body]]
        /\ wire' = Continue(r)
  /\ UNCHANGED <<text, posts, status, place, edit, thread, image, latch,
                 lists, history>>

\* My list takes the entry, its completion writes the partner's list entry.
MyListAccepted ==
  /\ Answered("mine")
  /\ LET r == Head(wire)
     IN /\ mine' = r.key
        /\ wire' = Continue(r)
  /\ UNCHANGED <<text, room, posts, theirs, status, place, edit, thread,
                 image, latch, history>>

\* The partner's list takes the entry, its completion releases the latch and,
\* for an image, clears whatever preview the screen shows by now.
PartnerListAccepted ==
  /\ Answered("theirs")
  /\ LET r == Head(wire)
     IN /\ theirs' = r.key
        /\ sending' = Released(r)
        /\ preview' = [preview EXCEPT ![r.screen] =
                         IF r.body \in Images THEN NoImage ELSE @]
  /\ wire' = Tail(wire)
  /\ UNCHANGED <<text, cause, url, uploads, blurred, room, posts, mine, status,
                 place, edit, thread, history>>

\* An edit or a removal is stored; neither call has a completion.
RowWriteAccepted ==
  /\ wire # <<>> /\ Head(wire).step \in RowStep
  /\ LET r == Head(wire)
     IN room' = [room EXCEPT ![r.key] = IF r.step = "remove" THEN Absent
                                        ELSE [me |-> TRUE, body |-> r.body]]
  /\ wire' = Tail(wire)
  /\ UNCHANGED <<text, posts, status, place, edit, thread, image, latch,
                 lists, history>>

\* The database refuses a write: completion(false, ...) reaches an `if status`
\* without an else, the latch stays.  The SDK takes its local value back.
WriteRejected ==
  /\ wire # <<>> /\ Head(wire).step \in ChainStep \cup RowStep
  /\ MayFail /\ rejects' = rejects + 1 /\ wire' = Tail(wire)
  /\ cause' = IF Head(wire).step \in ChainStep
              THEN [cause EXCEPT ![Head(wire).screen] = "rejected"] ELSE cause
  /\ UNCHANGED <<text, sending, view, room, posts, status, typed, spilled,
                 resurrected, wiped, rowActs, killed, place, edit, image,
                 lists>>
  /\ seen' = {k \in seen : k \in Visible' \/ k # Head(wire).key}

\* fireBaseNewChatListner: a child the listener has not been told of, in key
\* order.  No observer exists for changed and removed children.
ChildAdded ==
  /\ Listening
  /\ \E k \in Visible \ seen, m \in Message :
       /\ \A j \in Visible \ seen : k <= j
       /\ Holds(k, m)
       /\ view' = AddRow(view, [key |-> k, me |-> m.me, body |-> m.body])
       /\ seen' = seen \cup {k}
  /\ UNCHANGED <<text, wire, room, posts, status, place, edit, image, latch,
                 lists, history>>

-----------------------------------------------------------------------------
(* The partner. *)

\* The partner's doSend, as this device's database sees it.
PartnerPosts(b) ==
  /\ MayPost
  /\ LET k == Len(posts) + 1
         m == [me |-> FALSE, body |-> b]
     IN /\ posts' = Append(posts, m)
        /\ room' = [room EXCEPT ![k] = m]
        /\ mine' = k /\ theirs' = k
  /\ UNCHANGED <<text, wire, status, place, edit, thread, image, latch,
                 history>>

PartnerRemoves(k) ==
  /\ room[k] # Absent /\ ~room[k].me
  /\ room' = [room EXCEPT ![k] = Absent]
  /\ seen' = IF Pending(k) = {} THEN seen \ {k} ELSE seen
  /\ UNCHANGED <<text, view, wire, posts, status, place, edit, image, latch,
                 lists, history>>

\* The partner's deleteBtnClicked: both list entries and the room.
PartnerDeletes ==
  /\ \E k \in Key : room[k] # Absent
  /\ room' = [k \in Key |-> Absent] /\ mine' = 0 /\ theirs' = 0
  /\ wiped' = Len(posts)
  /\ seen' = {k \in seen : Pending(k) # {}}
  /\ UNCHANGED <<text, view, wire, posts, status, typed, spilled, resurrected,
                 rowActs, killed, rejects, place, edit, image, latch>>

-----------------------------------------------------------------------------
User == \/ Open \/ Leave \/ Cover \/ Uncover \/ Erase \/ TapSend \/ TapSave
        \/ TapSaveTraps \/ Dismiss \/ TapPost
        \/ \E t \in Texts : Type(t)
        \/ \E i \in DOMAIN view : EditBegin(i) \/ Remove(i)
        \/ \E m \in Images : Pick(m)

Answer == \/ TextStatusAnswered \/ ImageStatusAnswered \/ MessageAccepted
          \/ MyListAccepted \/ PartnerListAccepted \/ RowWriteAccepted

Storage == \E u \in uploads : PutAnswered(u) \/ UrlAnswered(u)

Partner == \/ \E b \in PartnerBodies : PartnerPosts(b)
           \/ \E k \in Key : PartnerRemoves(k)
           \/ PartnerDeletes

Next == User \/ Answer \/ ChildAdded \/ Storage \/ Partner \/ Kill \/ WriteRejected

Spec == Init /\ [][Next]_vars

(* Fairness: a live connection answers its oldest request and the SDK raises   *)
(* its events.  Nobody owes the user's taps, the partner or the uploads.       *)
FairSpec == Spec /\ WF_vars(Answer) /\ WF_vars(ChildAdded)

-----------------------------------------------------------------------------
(* Safety *)

InChain(s) == {i \in DOMAIN wire : wire[i].step \in ChainStep /\ wire[i].screen = s}

\* isdosending admits one send at a time per screen: however many status
\* answers arrive, at most one chain of writes of a screen is outstanding, and
\* while one is, the latch is taken (doSend, `if !isdosending`).
OneChainPerScreen ==
  \A s \in Screen : \A i, j \in InChain(s) : i = j /\ sending[s]

\* A taken latch is either held by a chain that is still running or lost for
\* good, and it is lost only by an empty text taken after the latch or by a
\* refused write: no other path of doSend forgets `isdosending = false`.
LatchExplained ==
  \A s \in Screen : sending[s] => InChain(s) # {} \/ cause[s] # "none"

\* The same typed text becomes two messages only if a status answer took it out
\* of the box in edit mode, where longpress had put the text of a message.
TextPostedOnce ==
  \A i, j \in DOMAIN posts :
    /\ i # j /\ posts[i].me /\ posts[j].me
    /\ posts[i].body = posts[j].body /\ posts[i].body \in Texts
    => posts[i].body \in spilled

\* The partner's list never runs ahead of mine: when it shows a message of mine
\* written since the partner last deleted the chat, my own list shows that
\* message or a later one.  With two screens' chains interleaved this rests on
\* the order in which the connection answers.
PreviewsInOrder ==
  theirs > wiped /\ posts[theirs].me => theirs <= mine

\* Post sends the picture the preview shows, once nothing is uploading: a pick
\* replaces downloadURL whatever was posted or dismissed before, unless it was
\* made while another upload ran or an upload failed (then Post sends an older
\* picture than the one shown).
PreviewIsWhatPosts ==
  \A s \in Screen :
    /\ preview[s] # NoImage /\ ~blurred[s]
    /\ \A u \in uploads : u.screen # s
    => url[s] = preview[s]

\* What the user saves in edit mode goes to the message chosen in the action
\* sheet, unless rows were removed or reloaded since: rows only arrive at the
\* end, so edt_index keeps naming the chosen row.
EditHitsChosen ==
  isEdit[screen] /\ ~disturbed => /\ edtIndex \in DOMAIN view
                          /\ view[edtIndex].key = chosen /\ view[edtIndex].me

\* A message has one row, unless an edit wrote it again after it was removed.
RowsDistinct ==
  \A i, j \in DOMAIN view :
    i # j /\ view[i].key = view[j].key => view[i].key \in resurrected

\* A text row agrees with the stored message once nothing of it is outstanding,
\* unless the message was removed, written again after a removal, or a write
\* of it was refused.
RowsMatchRoom ==
  \A i \in DOMAIN view :
    LET k == view[i].key
    IN \/ view[i].body \in Images \/ Pending(k) # {} \/ rejects > 0
       \/ k \in resurrected \/ room[k] = Absent
       \/ room[k].body = view[i].body

(* Liveness *)

\* A send ends: the latch is released, or lost for one of the two causes.
SendEnds == \A s \in Screen : sending[s] ~> ~sending[s] \/ cause[s] # "none"

\* A message on its way reaches the partner's list, unless the process dies or
\* a write is refused on the way.
MessageReachesPartner ==
  \A k \in Key : (\E i \in Pending(k) : wire[i].step = "message")
                 ~> (theirs = k \/ killed \/ rejects > 0)

\* A message the SDK holds is shown while the screen listens.
MessageGetsRow ==
  \A k \in Key : k \in Visible /\ Listening
     ~> \/ ~Listening \/ k \notin Visible
        \/ \E i \in DOMAIN view : view[i].key = k
=============================================================================
