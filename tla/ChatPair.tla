------------------------------ MODULE ChatPair ------------------------------
(***************************************************************************)
(* Two users who write to each other: on each device the chat list         *)
(* (ChatVC), the chat screen and the page of a trip, from which a message  *)
(* is sent by the same three writes (MessageSendVC.doSend,                 *)
(* TripDetailVC.sendBtnClicked), and the room and the two list entries in  *)
(* the data base.                                                          *)
(*                                                                         *)
(* A device's writes are what Outbox promises: handled and answered in     *)
(* order, and handled again after a lost connection.  Messages are         *)
(* numbered as they are sent; of the room only the newest matters, of a    *)
(* list entry the message it shows.  The status query before a message,    *)
(* the rows of the chat screen and pictures are in MessageSend.            *)
(***************************************************************************)
EXTENDS Naturals, Sequences, FiniteSets, SequencesExt

CONSTANTS Users,        \* the two users
          MaxMessages,  \* bound: messages ever sent
          MaxClears,    \* bound: chats deleted or declined
          MaxFaults     \* bound: connections lost, writes refused, processes killed

ASSUME PairBounds ==
  /\ IsFiniteSet(Users) /\ Cardinality(Users) = 2
  /\ MaxMessages \in Nat /\ MaxClears \in Nat /\ MaxFaults \in Nat

VARIABLES
  \* the data base
  room,     \* the newest message of the room, 0 if it is empty
  entry,    \* the entry of each user's list
  \* the devices
  made,     \* messages sent so far
  wire,     \* each device's writes without an answer
  sent,     \* how many of them were handled on the present connection
  at,       \* the screen each user looks at
  trip,     \* the page of a trip is open in the Search tab
  held,     \* isdosending of the chat screen, or the HUD of the trip's page
  seen,     \* the entry the list's listener was told of
  rows,     \* ds_allChats
  \* observations
  crossed,  \* both users wrote at once, or a list was left half written
  altered,  \* the entry of the list shown changed, or its row was declined
  stuck,    \* a write of the screen's chain was refused
  faults, clears

pages == <<at, trip, held>>
list == <<seen, rows>>
base == <<room, entry>>
bounds == <<faults, clears>>
vars == <<base, made, wire, sent, pages, list, crossed, altered, stuck, bounds>>

Messages == 1 .. MaxMessages
None == 0                   \* no entry
Stub == MaxMessages + 1     \* an entry of nothing but isBlock
Unknown == MaxMessages + 2  \* the listener was told nothing yet
Entries == {None, Stub} \cup Messages

Steps == {"message", "mine", "theirs", "dropMine", "dropTheirs", "dropRoom", "block"}
Write == [step : Steps, msg : {None} \cup Messages, page : {"chat", "trip", "gone"}]
Other(u) == CHOOSE v \in Users : v # u

TypeOK ==
  /\ room \in {None} \cup Messages /\ entry \in [Users -> Entries]
  /\ made \in 0 .. MaxMessages
  /\ wire \in [Users -> Seq(Write)]
  /\ sent \in [Users -> Nat] /\ \A u \in Users : sent[u] <= Len(wire[u])
  /\ at \in [Users -> {"away", "list", "chat", "trip"}]
  /\ trip \in [Users -> BOOLEAN] /\ held \in [Users -> BOOLEAN]
  /\ seen \in [Users -> Entries \cup {Unknown}] /\ rows \in [Users -> Seq(Messages)]
  /\ crossed \in BOOLEAN
  /\ altered \in [Users -> BOOLEAN] /\ stuck \in [Users -> BOOLEAN]
  /\ faults \in 0 .. MaxFaults /\ clears \in 0 .. MaxClears

ToAll(x) == [u \in Users |-> x]

Init ==
  /\ room = None /\ entry = ToAll(None)
  /\ made = 0 /\ wire = ToAll(<<>>) /\ sent = ToAll(0)
  /\ at = ToAll("away") /\ trip = ToAll(FALSE) /\ held = ToAll(FALSE)
  /\ seen = ToAll(Unknown) /\ rows = ToAll(<<>>)
  /\ crossed = FALSE /\ altered = ToAll(FALSE) /\ stuck = ToAll(FALSE)
  /\ faults = 0 /\ clears = 0

-----------------------------------------------------------------------------
(* The list as a device sees it *)

\* A write of no chain: a removal, or isBlock.
Removal(step) == [step |-> step, msg |-> None, page |-> "gone"]

\* What a write makes of the writer's own entry.
Written(e, w) ==
  CASE w.step = "mine" -> w.msg
    [] w.step = "dropMine" -> None
    [] w.step = "block" /\ e = None -> Stub
    [] OTHER -> e

\* An entry e after some of its owner's writes: as the last one that sets or removes
\* it left it, then as isBlock finds it.  In this form, which ChatPairProofs shows to
\* be Written for one write after the other, it can be reasoned about.
Settings(ws) == {i \in DOMAIN ws : ws[i].step \in {"mine", "dropMine"}}
Settled(e, ws) ==
  IF Settings(ws) = {} THEN e ELSE Written(e, ws[Max(Settings(ws))])
Known(e, ws) ==
  IF \E i \in DOMAIN ws : ws[i].step = "block" /\ \A j \in Settings(ws) : j < i
  THEN Written(Settled(e, ws), Removal("block")) ELSE Settled(e, ws)

\* The entry with the writes that are not answered, which a device applies to what
\* it knows at once; isBlock alone tells nothing of an entry not known yet.
View(u) ==
  LET known == Known(seen[u], wire[u])
  IN IF at[u] # "list" \/ known = Unknown THEN None ELSE known

\* .childAdded: an entry that was not there and is a whole one gets a row.
Listed(u) ==
  rows' = [rows EXCEPT ![u] =
             IF View(u) = None /\ View(u)' \in Messages THEN Append(@, View(u)') ELSE @]
Noted(u) ==
  altered' = [altered EXCEPT ![u] = @ \/ (View(u) # None /\ View(u)' # View(u))]

Fault == faults < MaxFaults /\ faults' = faults + 1 /\ UNCHANGED clears
Clear == clears < MaxClears /\ clears' = clears + 1 /\ UNCHANGED faults

-----------------------------------------------------------------------------
(* Screens *)

\* The chains of a screen that is left go on without it.
Without(ws, pg) ==
  [i \in DOMAIN ws |-> IF ws[i].page = pg THEN [ws[i] EXCEPT !.page = "gone"] ELSE ws[i]]
Orphaned(u, pg) == wire' = [wire EXCEPT ![u] = Without(@, pg)]
Uncovered(u) ==
  /\ held' = [held EXCEPT ![u] = FALSE] /\ stuck' = [stuck EXCEPT ![u] = FALSE]

\* viewWillAppear of ChatVC: no rows, a new listener.  The mutant keeps the rows.
EmptiedNever(u) == rows[u]
Emptied(u) == <<>>
ShowList(u) ==
  /\ at[u] # "list" /\ at' = [at EXCEPT ![u] = "list"]
  /\ seen' = [seen EXCEPT ![u] = Unknown]
  /\ IF at[u] = "chat" THEN Orphaned(u, "chat") ELSE UNCHANGED wire
  /\ Uncovered(u)
  /\ rows' = [rows EXCEPT ![u] =
                IF View(u)' \in Messages THEN Append(Emptied(u), View(u)') ELSE Emptied(u)]
  /\ altered' = [altered EXCEPT ![u] = FALSE]
  /\ UNCHANGED <<base, made, sent, trip, crossed, bounds>>

\* Leaving the list, viewDidDisappear, or the trip's page for another tab.
Go(u, place) ==
  /\ at' = [at EXCEPT ![u] = place]
  /\ seen' = [seen EXCEPT ![u] = Unknown]
  /\ altered' = [altered EXCEPT ![u] = FALSE] /\ Uncovered(u)
  /\ UNCHANGED <<base, made, rows>>

OpenChat(u) ==
  /\ at[u] = "list" /\ rows[u] # <<>> /\ Go(u, "chat")
  /\ UNCHANGED <<wire, sent, trip, crossed, bounds>>

\* A trip is chosen in the Search tab, or its page is still open there.
OpenTrip(u) ==
  /\ at[u] \in {"list", "away"} /\ Go(u, "trip")
  /\ trip' = [trip EXCEPT ![u] = TRUE]
  /\ UNCHANGED <<wire, sent, crossed, bounds>>

\* Back on the trip's page.
LeaveTrip(u) ==
  /\ at[u] = "trip" /\ Go(u, "away")
  /\ trip' = [trip EXCEPT ![u] = FALSE] /\ Orphaned(u, "trip")
  /\ UNCHANGED <<sent, crossed, bounds>>

-----------------------------------------------------------------------------
(* What the users do *)

Busy(u) == \E i \in DOMAIN wire[u] : wire[u][i].step # "block"
Continues(u) == \E i \in DOMAIN wire[u] : wire[u][i].step \in {"message", "mine"}
Crossed(u) == IF Busy(u) \/ Busy(Other(u)) THEN crossed \/ Busy(Other(u)) ELSE FALSE

Issue(u, ws) == wire' = [wire EXCEPT ![u] = @ \o ws]

\* doSend and sendBtnClicked: the latch, or the HUD, and the first write.
Send(u) ==
  /\ at[u] \in {"chat", "trip"} /\ ~held[u] /\ made < MaxMessages
  /\ made' = made + 1 /\ held' = [held EXCEPT ![u] = TRUE]
  /\ Issue(u, <<[step |-> "message", msg |-> made + 1, page |-> at[u]]>>)
  /\ crossed' = Crossed(u)
  /\ UNCHANGED <<base, sent, at, trip, list, altered, stuck, bounds>>

\* deleteBtnClicked: three removals at once, the row by hand.  The mutant forgets
\* the partner's entry.
RemovalsOfMine == <<Removal("dropMine"), Removal("dropRoom")>>
Removals == <<Removal("dropMine"), Removal("dropTheirs"), Removal("dropRoom")>>
Delete(u, i) ==
  /\ at[u] = "list" /\ Clear
  /\ Issue(u, Removals) /\ rows' = [rows EXCEPT ![u] = RemoveAt(@, i)]
  /\ crossed' = (Crossed(u) \/ Continues(u))
  /\ UNCHANGED <<base, made, sent, pages, seen, altered, stuck>>

\* declineBtnClicked: isBlock in the own entry, which nothing reads.
Decline(u, i) ==
  /\ at[u] = "list" /\ Clear
  /\ Issue(u, <<Removal("block")>>) /\ rows' = [rows EXCEPT ![u] = RemoveAt(@, i)]
  /\ altered' = [altered EXCEPT ![u] = TRUE]
  /\ UNCHANGED <<base, made, sent, pages, seen, crossed, stuck>>

-----------------------------------------------------------------------------
(* The data base *)

Newer(m, n) == IF m < n THEN n ELSE m
Handled(u, w) ==
  LET v == Other(u)
  IN CASE w.step = "message" -> room' = Newer(room, w.msg) /\ UNCHANGED entry
       [] w.step = "dropRoom" -> room' = None /\ UNCHANGED entry
       [] w.step = "theirs" -> entry' = [entry EXCEPT ![v] = w.msg] /\ UNCHANGED room
       [] w.step = "dropTheirs" -> entry' = [entry EXCEPT ![v] = None] /\ UNCHANGED room
       [] OTHER -> entry' = [entry EXCEPT ![u] = Written(@, w)] /\ UNCHANGED room

Apply(u) ==
  /\ sent[u] < Len(wire[u])
  /\ sent' = [sent EXCEPT ![u] = @ + 1]
  /\ Handled(u, wire[u][sent[u] + 1])
  /\ UNCHANGED <<made, wire, pages, list, crossed, altered, stuck, bounds>>

\* The listener is told of the entry.
Tell(u) ==
  /\ at[u] = "list" /\ seen[u] # entry[u]
  /\ seen' = [seen EXCEPT ![u] = entry[u]]
  /\ UNCHANGED <<base, made, wire, sent, pages, crossed, stuck, bounds>>
  /\ Listed(u) /\ Noted(u)

\* The write that a completion makes.  The mutant ends the chain early.
NextShort(w) == CASE w.step = "message" -> <<[w EXCEPT !.step = "mine"]>>
                  [] OTHER -> <<>>
NextWrite(w) == CASE w.step = "message" -> <<[w EXCEPT !.step = "mine"]>>
                  [] w.step = "mine" -> <<[w EXCEPT !.step = "theirs"]>>
                  [] OTHER -> <<>>

\* The last completion frees the chat screen, or hides the HUD and pops the page.
Freed(u, w) ==
  CASE w.step = "theirs" /\ w.page = "chat" -> Uncovered(u) /\ UNCHANGED <<at, trip>>
    [] w.step = "theirs" /\ w.page = "trip" ->
         /\ trip' = [trip EXCEPT ![u] = FALSE]
         /\ IF at[u] = "trip" THEN at' = [at EXCEPT ![u] = "away"] /\ Uncovered(u)
            ELSE UNCHANGED <<at, held, stuck>>
    [] OTHER -> UNCHANGED <<pages, stuck>>

\* The answer to the oldest write, after what its listener has to be told.
Ack(u) ==
  /\ sent[u] > 0 /\ (at[u] = "list" => seen[u] = entry[u])
  /\ LET w == Head(wire[u])
         rest == Tail(wire[u]) \o NextWrite(w)
         popped == w.step = "theirs" /\ w.page = "trip"
     IN /\ wire' = [wire EXCEPT ![u] = IF popped THEN Without(rest, "trip") ELSE rest]
        /\ Freed(u, w)
  /\ sent' = [sent EXCEPT ![u] = @ - 1]
  /\ UNCHANGED <<base, made, seen, crossed, bounds>>
  /\ Listed(u) /\ Noted(u)

\* A rule refuses the oldest write: the chain ends, and what it holds stays held.
Refuse(u) ==
  /\ wire[u] # <<>> /\ sent[u] = 0 /\ Fault
  /\ LET w == Head(wire[u])
     IN /\ crossed' = (crossed \/ w.step # "block")
        /\ stuck' = [stuck EXCEPT ![u] = @ \/ w.page = at[u]]
  /\ wire' = [wire EXCEPT ![u] = Tail(@)]
  /\ UNCHANGED <<base, made, sent, pages, seen>>
  /\ Listed(u) /\ Noted(u)

\* The connection is lost: what was handled and not answered is handled again.
Drop(u) ==
  /\ sent[u] > 0 /\ Fault
  /\ sent' = [sent EXCEPT ![u] = 0]
  /\ UNCHANGED <<base, made, wire, pages, list, crossed, altered, stuck>>

\* The process dies, and its writes with it.
Kill(u) ==
  /\ Go(u, "away") /\ Fault
  /\ wire' = [wire EXCEPT ![u] = <<>>] /\ sent' = [sent EXCEPT ![u] = 0]
  /\ trip' = [trip EXCEPT ![u] = FALSE]
  /\ crossed' = (crossed \/ Busy(u))

Next ==
  \E u \in Users :
    \/ ShowList(u) \/ OpenChat(u) \/ OpenTrip(u) \/ LeaveTrip(u)
    \/ Send(u) \/ \E i \in DOMAIN rows[u] : Delete(u, i) \/ Decline(u, i)
    \/ Apply(u) \/ Tell(u) \/ Ack(u)
    \/ Refuse(u) \/ Drop(u) \/ Kill(u)

Spec == Init /\ [][Next]_vars

-----------------------------------------------------------------------------
(* Properties *)

\* With no write under way, both lists show the newest message of the room, and
\* nothing if it is empty, unless since the last one sent or deleted while all was
\* quiet the two users wrote at once, or a refused write or a death left one list
\* behind.
Preview(u) == IF entry[u] = Stub THEN None ELSE entry[u]
ListsFollow ==
  (\A u \in Users : wire[u] = <<>>) /\ ~crossed => \A u \in Users : Preview(u) = room

\* The list on the screen has one row for the partner, with the entry's message,
\* or none without an entry, until the entry changes or the row is declined.
RowsFresh ==
  \A u \in Users : at[u] = "list" /\ ~altered[u] =>
    rows[u] = IF View(u) \in Messages THEN <<View(u)>> ELSE <<>>

\* A screen is held only by a chain of its own that is under way, or since a write
\* of one was refused.
HeldExplained ==
  \A u \in Users : held[u] /\ ~stuck[u] =>
    \E i \in DOMAIN wire[u] : wire[u][i].page = at[u]
=============================================================================
