--------------------------- MODULE ChatPairProofs ---------------------------
(* Proofs about two users and their chat lists, for any bounds. *)
EXTENDS ChatPair, SequenceTheorems, FiniteSetTheorems, WellFoundedInduction, TLAPS

Pages == {"chat", "trip", "gone"}
Places == {"away", "list", "chat", "trip"}

-----------------------------------------------------------------------------
(* Sequences *)

LEMMA Removed ==
  ASSUME NEW S, NEW s \in Seq(S), NEW i \in DOMAIN s
  PROVE  RemoveAt(s, i) \in Seq(S)
<1>1. i \in 1 .. Len(s) BY LenProperties
<1>2. SubSeq(s, 1, i - 1) \in Seq(S) BY <1>1
<1>3. SubSeq(s, i + 1, Len(s)) \in Seq(S) BY <1>1
<1> QED BY <1>2, <1>3 DEF RemoveAt

LEMMA WithoutPage ==
  ASSUME NEW s \in Seq(Write), NEW pg \in Pages
  PROVE  /\ Without(s, pg) \in Seq(Write) /\ Len(Without(s, pg)) = Len(s)
         /\ DOMAIN Without(s, pg) = DOMAIN s
         /\ \A i \in DOMAIN s :
              Without(s, pg)[i] = IF s[i].page = pg THEN [s[i] EXCEPT !.page = "gone"] ELSE s[i]
<1> DEFINE r == Without(s, pg)
<1>1. DOMAIN s = 1 .. Len(s) /\ Len(s) \in Nat BY LenProperties
<1>2. \A i \in DOMAIN s : s[i] \in Write BY <1>1, ElementOfSeq
<1>3. r \in [1 .. Len(s) -> Write] BY <1>1, <1>2 DEF Without, Write
<1>4. r \in Seq(Write) BY <1>1, <1>3, SeqDef, Zenon
<1>5. Len(r) = Len(s) BY <1>1, <1>3, <1>4, LenProperties
<1>6. \A i \in DOMAIN s :
        r[i] = IF s[i].page = pg THEN [s[i] EXCEPT !.page = "gone"] ELSE s[i]
  BY DEF Without
<1>7. DOMAIN r = DOMAIN s BY <1>1, <1>3
<1> QED BY <1>4, <1>5, <1>6, <1>7

\* The elements of two sequences put together.
LEMMA Joined ==
  ASSUME NEW S, NEW s \in Seq(S), NEW t \in Seq(S)
  PROVE  /\ \A i \in DOMAIN s : i \in DOMAIN (s \o t) /\ (s \o t)[i] = s[i]
         /\ \A j \in DOMAIN t : \E i \in DOMAIN (s \o t) : (s \o t)[i] = t[j]
         /\ \A i \in DOMAIN (s \o t) : \/ i \in DOMAIN s /\ (s \o t)[i] = s[i]
                                     \/ \E j \in DOMAIN t : (s \o t)[i] = t[j]
<1>1. /\ DOMAIN s = 1 .. Len(s) /\ DOMAIN t = 1 .. Len(t)
      /\ Len(s) \in Nat /\ Len(t) \in Nat
  BY LenProperties
<1>2. DOMAIN (s \o t) = 1 .. Len(s) + Len(t)
  BY <1>1
<1>3. \A i \in 1 .. Len(s) + Len(t) : (s \o t)[i] = IF i <= Len(s) THEN s[i] ELSE t[i - Len(s)]
  BY <1>1
<1>4. ASSUME NEW j \in DOMAIN t PROVE \E i \in DOMAIN (s \o t) : (s \o t)[i] = t[j]
  <2>1. Len(s) + j \in 1 .. Len(s) + Len(t) /\ ~(Len(s) + j <= Len(s))
        /\ (Len(s) + j) - Len(s) = j
    BY <1>1
  <2>2. (s \o t)[Len(s) + j] = t[j] BY <1>3, <2>1
  <2> QED BY <1>2, <2>1, <2>2
<1>5. ASSUME NEW i \in DOMAIN (s \o t)
      PROVE  \/ i \in DOMAIN s /\ (s \o t)[i] = s[i]
             \/ \E j \in DOMAIN t : (s \o t)[i] = t[j]
  <2>1. CASE i <= Len(s) BY <1>1, <1>2, <1>3, <2>1
  <2>2. CASE ~(i <= Len(s))
    <3>1. i - Len(s) \in DOMAIN t BY <1>1, <1>2, <2>2
    <3>2. (s \o t)[i] = t[i - Len(s)] BY <1>2, <1>3, <2>2
    <3> QED BY <3>1, <3>2
  <2> QED BY <2>1, <2>2
<1>6. \A i \in DOMAIN s : i \in DOMAIN (s \o t) /\ (s \o t)[i] = s[i] BY <1>1, <1>2, <1>3
<1> QED BY <1>4, <1>5, <1>6

\* The elements of a sequence without its first.
LEMMA Tailed ==
  ASSUME NEW S, NEW s \in Seq(S), s # <<>>
  PROVE  /\ 1 \in DOMAIN s /\ Head(s) = s[1]
         /\ \A i \in DOMAIN Tail(s) : \E j \in DOMAIN s : Tail(s)[i] = s[j]
         /\ \A i \in DOMAIN s : s[i] = Head(s) \/ \E j \in DOMAIN Tail(s) : Tail(s)[j] = s[i]
<1>1. DOMAIN s = 1 .. Len(s) /\ Len(s) \in Nat \ {0} /\ Head(s) = s[1] OBVIOUS
<1>2. DOMAIN Tail(s) = 1 .. Len(s) - 1 /\ \A i \in 1 .. Len(s) - 1 : Tail(s)[i] = s[i + 1]
  OBVIOUS
<1>3. ASSUME NEW i \in DOMAIN Tail(s) PROVE \E j \in DOMAIN s : Tail(s)[i] = s[j]
  <2>1. i + 1 \in DOMAIN s /\ Tail(s)[i] = s[i + 1] BY <1>1, <1>2
  <2> QED BY <2>1
<1>4. ASSUME NEW i \in DOMAIN s, i # 1 PROVE \E j \in DOMAIN Tail(s) : Tail(s)[j] = s[i]
  <2>1. i - 1 \in 1 .. Len(s) - 1 /\ (i - 1) + 1 = i BY <1>1, <1>4
  <2>2. Tail(s)[i - 1] = s[i] BY <1>2, <2>1
  <2> QED BY <1>2, <2>1, <2>2
<1> QED BY <1>1, <1>3, <1>4

LEMMA NextTyped ==
  ASSUME NEW w \in Write
  PROVE  NextWrite(w) \in Seq(Write)
<1>1. [w EXCEPT !.step = "mine"] \in Write /\ [w EXCEPT !.step = "theirs"] \in Write
  BY DEF Write, Steps
<1>2. CASE w.step = "message" BY <1>1, <1>2 DEF NextWrite
<1>3. CASE w.step = "mine" BY <1>1, <1>3 DEF NextWrite
<1>4. CASE w.step \notin {"message", "mine"} BY <1>4 DEF NextWrite
<1> QED BY <1>2, <1>3, <1>4

LEMMA WrittenTyped ==
  ASSUME NEW e \in Entries, NEW w \in Write
  PROVE  Written(e, w) \in Entries
BY DEF Written, Entries, Write, None

-----------------------------------------------------------------------------
(* Types *)

RoomTyped ==
  /\ room \in {None} \cup Messages /\ entry \in [Users -> Entries]
  /\ made \in 0 .. MaxMessages
WireTyped ==
  /\ wire \in [Users -> Seq(Write)] /\ sent \in [Users -> Nat]
  /\ \A u \in Users : sent[u] <= Len(wire[u])
PagesTyped ==
  /\ at \in [Users -> Places]
  /\ trip \in [Users -> BOOLEAN] /\ held \in [Users -> BOOLEAN]
ListTyped ==
  /\ seen \in [Users -> Entries \cup {Unknown}] /\ rows \in [Users -> Seq(Messages)]
NotedTyped ==
  /\ crossed \in BOOLEAN
  /\ altered \in [Users -> BOOLEAN] /\ stuck \in [Users -> BOOLEAN]
CountTyped == faults \in 0 .. MaxFaults /\ clears \in 0 .. MaxClears

LEMMA Types ==
  TypeOK <=> RoomTyped /\ WireTyped /\ PagesTyped /\ ListTyped /\ NotedTyped /\ CountTyped
BY DEF TypeOK, RoomTyped, WireTyped, PagesTyped, ListTyped, NotedTyped, CountTyped, Places

LEMMA TypesNext ==
  (RoomTyped /\ WireTyped /\ PagesTyped /\ ListTyped /\ NotedTyped /\ CountTyped)' => TypeOK'
BY DEF TypeOK, RoomTyped, WireTyped, PagesTyped, ListTyped, NotedTyped, CountTyped, Places

LEMMA InitTyped == Init => TypeOK
<1> SUFFICES ASSUME Init PROVE TypeOK
  OBVIOUS
<1> USE PairBounds DEF Init, ToAll
<1>1. RoomTyped BY DEF RoomTyped, Entries
<1>2. WireTyped BY DEF WireTyped
<1>3. PagesTyped BY Zenon DEF PagesTyped, Places
<1>4. ListTyped BY DEF ListTyped
<1>5. NotedTyped BY Zenon DEF NotedTyped
<1>6. CountTyped BY DEF CountTyped
<1> QED BY <1>1, <1>2, <1>3, <1>4, <1>5, <1>6, Types

\* What becomes of one device's writes.
LEMMA WireChanged ==
  ASSUME WireTyped, NEW u \in Users, NEW ws \in Seq(Write), NEW k \in Nat, k <= Len(ws),
         wire' = [wire EXCEPT ![u] = ws], sent' = [sent EXCEPT ![u] = k]
  PROVE  WireTyped'
BY DEF WireTyped

LEMMA OrphansTyped ==
  ASSUME WireTyped, NEW u \in Users, NEW pg \in Pages, Orphaned(u, pg), UNCHANGED sent
  PROVE  WireTyped'
<1>1. wire[u] \in Seq(Write) /\ sent[u] \in Nat /\ sent[u] <= Len(wire[u])
  BY DEF WireTyped
<1>2. Without(wire[u], pg) \in Seq(Write) /\ Len(Without(wire[u], pg)) = Len(wire[u])
  BY <1>1, WithoutPage
<1>3. wire' = [wire EXCEPT ![u] = Without(wire[u], pg)] BY DEF Orphaned
<1>4. sent' = [sent EXCEPT ![u] = sent[u]] BY DEF WireTyped
<1> QED BY <1>1, <1>2, <1>3, <1>4, WireChanged

LEMMA IssuedTyped ==
  ASSUME WireTyped, NEW u \in Users, NEW ws \in Seq(Write), Issue(u, ws), UNCHANGED sent
  PROVE  WireTyped'
<1>1. wire[u] \in Seq(Write) /\ sent[u] \in Nat /\ sent[u] <= Len(wire[u])
  BY DEF WireTyped
<1>2. wire[u] \o ws \in Seq(Write) /\ sent[u] <= Len(wire[u] \o ws)
  BY <1>1
<1>3. wire' = [wire EXCEPT ![u] = wire[u] \o ws] BY DEF Issue
<1>4. sent' = [sent EXCEPT ![u] = sent[u]] BY DEF WireTyped
<1> QED BY <1>1, <1>2, <1>3, <1>4, WireChanged

LEMMA ListedTyped ==
  ASSUME ListTyped, NEW u \in Users, Listed(u),
         seen' \in [Users -> Entries \cup {Unknown}]
  PROVE  ListTyped'
<1>1. CASE View(u) = None /\ View(u)' \in Messages
  <2>1. PICK x \in Messages : rows' = [rows EXCEPT ![u] = Append(rows[u], x)]
    BY <1>1, Zenon DEF Listed
  <2> QED BY <2>1 DEF ListTyped
<1>2. CASE ~(View(u) = None /\ View(u)' \in Messages)
  <2>1. rows' = [rows EXCEPT ![u] = rows[u]] BY <1>2, Zenon DEF Listed
  <2> QED BY <2>1 DEF ListTyped
<1> QED BY <1>1, <1>2

LEMMA NoteTyped ==
  ASSUME NEW u \in Users, altered \in [Users -> BOOLEAN], Noted(u)
  PROVE  altered' \in [Users -> BOOLEAN]
BY Zenon DEF Noted

LEMMA Uncovering ==
  ASSUME NEW u \in Users, held \in [Users -> BOOLEAN], stuck \in [Users -> BOOLEAN],
         Uncovered(u)
  PROVE  held' \in [Users -> BOOLEAN] /\ stuck' \in [Users -> BOOLEAN]
BY Zenon DEF Uncovered

LEMMA CrossedTyped ==
  ASSUME crossed \in BOOLEAN, NEW u
  PROVE  Crossed(u) \in BOOLEAN
BY Zenon DEF Crossed, Busy

LEMMA ShowListTyped ==
  ASSUME TypeOK, NEW u \in Users, ShowList(u)
  PROVE  TypeOK'
<1> USE DEF ShowList
<1>0. RoomTyped /\ WireTyped /\ PagesTyped /\ ListTyped /\ NotedTyped /\ CountTyped
  BY Types
<1>1. RoomTyped' BY <1>0 DEF RoomTyped, base
<1>2. WireTyped'
  <2>1. CASE at[u] = "chat"
    <3>1. Orphaned(u, "chat") /\ UNCHANGED sent BY <2>1
    <3> QED BY <1>0, <3>1, OrphansTyped DEF Pages
  <2>2. CASE at[u] # "chat" BY <1>0, <2>2 DEF WireTyped
  <2> QED BY <2>1, <2>2
<1>3. PagesTyped'
  <2>1. held' \in [Users -> BOOLEAN] BY <1>0, Uncovering DEF PagesTyped, NotedTyped
  <2>2. at' \in [Users -> Places] BY <1>0 DEF PagesTyped, Places
  <2> QED BY <1>0, <2>1, <2>2 DEF PagesTyped
<1>4. ListTyped'
  <2>1. seen' \in [Users -> Entries \cup {Unknown}] BY <1>0 DEF ListTyped
  <2>2. rows' \in [Users -> Seq(Messages)]
    <3>1. Emptied(u) = <<>> BY DEF Emptied
    <3> QED BY <1>0, <3>1 DEF ListTyped
  <2> QED BY <2>1, <2>2 DEF ListTyped
<1>5. NotedTyped'
  <2>1. stuck' \in [Users -> BOOLEAN] BY <1>0, Uncovering DEF PagesTyped, NotedTyped
  <2> QED BY <1>0, <2>1, Zenon DEF NotedTyped
<1>6. CountTyped' BY <1>0 DEF CountTyped, bounds
<1> QED BY <1>1, <1>2, <1>3, <1>4, <1>5, <1>6, TypesNext

LEMMA GoTyped ==
  ASSUME TypeOK, NEW u \in Users, NEW place \in Places, Go(u, place),
         trip' \in [Users -> BOOLEAN], WireTyped', crossed' \in BOOLEAN, CountTyped'
  PROVE  TypeOK'
<1> USE DEF Go
<1>0. RoomTyped /\ PagesTyped /\ ListTyped /\ NotedTyped
  BY Types
<1>1. RoomTyped' BY <1>0 DEF RoomTyped, base
<1>2. held' \in [Users -> BOOLEAN] /\ stuck' \in [Users -> BOOLEAN]
  BY <1>0, Uncovering DEF PagesTyped, NotedTyped
<1>3. PagesTyped' BY <1>0, <1>2 DEF PagesTyped
<1>4. ListTyped' BY <1>0 DEF ListTyped
<1>5. NotedTyped' BY <1>0, <1>2, Zenon DEF NotedTyped
<1> QED BY <1>1, <1>3, <1>4, <1>5, TypesNext

LEMMA OpenChatTyped == ASSUME TypeOK, NEW u \in Users, OpenChat(u) PROVE TypeOK'
<1>0. PagesTyped /\ WireTyped /\ NotedTyped /\ CountTyped BY Types
<1>1. trip' \in [Users -> BOOLEAN] /\ crossed' \in BOOLEAN
  BY <1>0 DEF OpenChat, PagesTyped, NotedTyped
<1>2. WireTyped' /\ CountTyped' BY <1>0 DEF OpenChat, WireTyped, CountTyped, bounds
<1> QED BY <1>1, <1>2, GoTyped DEF OpenChat, Places

LEMMA OpenTripTyped == ASSUME TypeOK, NEW u \in Users, OpenTrip(u) PROVE TypeOK'
<1>0. PagesTyped /\ WireTyped /\ NotedTyped /\ CountTyped BY Types
<1>1. trip' \in [Users -> BOOLEAN] /\ crossed' \in BOOLEAN
  BY <1>0, Zenon DEF OpenTrip, PagesTyped, NotedTyped
<1>2. WireTyped' /\ CountTyped' BY <1>0 DEF OpenTrip, WireTyped, CountTyped, bounds
<1> QED BY <1>1, <1>2, GoTyped DEF OpenTrip, Places

LEMMA LeaveTripTyped == ASSUME TypeOK, NEW u \in Users, LeaveTrip(u) PROVE TypeOK'
<1>0. PagesTyped /\ WireTyped /\ NotedTyped /\ CountTyped BY Types
<1>1. trip' \in [Users -> BOOLEAN] /\ crossed' \in BOOLEAN
  BY <1>0, Zenon DEF LeaveTrip, PagesTyped, NotedTyped
<1>2. WireTyped' BY <1>0, OrphansTyped DEF LeaveTrip, Pages
<1>3. CountTyped' BY <1>0 DEF LeaveTrip, CountTyped, bounds
<1> QED BY <1>1, <1>2, <1>3, GoTyped DEF LeaveTrip, Places

LEMMA KillTyped == ASSUME TypeOK, NEW u \in Users, Kill(u) PROVE TypeOK'
<1>0. PagesTyped /\ WireTyped /\ NotedTyped /\ CountTyped BY Types
<1>1. trip' \in [Users -> BOOLEAN] BY <1>0, Zenon DEF Kill, PagesTyped
<1>2. crossed' \in BOOLEAN BY <1>0, Zenon DEF Kill, NotedTyped, Busy
<1>3. WireTyped'
  <2>1. wire' = [wire EXCEPT ![u] = <<>>] /\ sent' = [sent EXCEPT ![u] = 0] BY DEF Kill
  <2>2. <<>> \in Seq(Write) /\ 0 <= Len(<<>>) OBVIOUS
  <2> QED BY <1>0, <2>1, <2>2, WireChanged
<1>4. CountTyped' BY <1>0, PairBounds DEF Kill, Fault, CountTyped
<1> QED BY <1>1, <1>2, <1>3, <1>4, GoTyped DEF Kill, Places

LEMMA SendTyped == ASSUME TypeOK, NEW u \in Users, Send(u) PROVE TypeOK'
<1> USE DEF Send
<1>0. RoomTyped /\ WireTyped /\ PagesTyped /\ ListTyped /\ NotedTyped /\ CountTyped
  BY Types
<1>1. RoomTyped' BY <1>0, PairBounds DEF RoomTyped, base
<1>2. WireTyped'
  <2>1. made + 1 \in Messages BY <1>0, PairBounds DEF RoomTyped, Messages
  <2>2. <<[step |-> "message", msg |-> made + 1, page |-> at[u]]>> \in Seq(Write)
    BY <2>1 DEF Write, Steps
  <2> QED BY <1>0, <2>2, IssuedTyped
<1>3. PagesTyped'
  <2>1. held' \in [Users -> BOOLEAN] BY <1>0, Zenon DEF PagesTyped
  <2> QED BY <1>0, <2>1 DEF PagesTyped
<1>4. ListTyped' BY <1>0 DEF ListTyped, list
<1>5. NotedTyped'
  <2>1. crossed' \in BOOLEAN BY <1>0, CrossedTyped DEF NotedTyped
  <2> QED BY <1>0, <2>1 DEF NotedTyped
<1>6. CountTyped' BY <1>0 DEF CountTyped, bounds
<1> QED BY <1>1, <1>2, <1>3, <1>4, <1>5, <1>6, TypesNext

LEMMA RemovalTyped == ASSUME NEW st \in Steps PROVE Removal(st) \in Write
BY DEF Removal, Write

LEMMA DeleteTyped ==
  ASSUME TypeOK, NEW u \in Users, NEW i \in DOMAIN rows[u], Delete(u, i)
  PROVE  TypeOK'
<1> USE DEF Delete
<1>0. RoomTyped /\ WireTyped /\ PagesTyped /\ ListTyped /\ NotedTyped /\ CountTyped
  BY Types
<1>1. RoomTyped' BY <1>0 DEF RoomTyped, base
<1>2. WireTyped'
  <2>1. Removals \in Seq(Write) BY RemovalTyped DEF Removals, Steps
  <2> QED BY <1>0, <2>1, IssuedTyped
<1>3. PagesTyped' BY <1>0 DEF PagesTyped, pages
<1>4. ListTyped'
  <2>1. RemoveAt(rows[u], i) \in Seq(Messages) BY <1>0, Removed DEF ListTyped
  <2> QED BY <1>0, <2>1 DEF ListTyped
<1>5. NotedTyped'
  <2>1. crossed' \in BOOLEAN BY <1>0, CrossedTyped, Zenon DEF NotedTyped, Continues
  <2> QED BY <1>0, <2>1 DEF NotedTyped
<1>6. CountTyped' BY <1>0, PairBounds DEF CountTyped, Clear
<1> QED BY <1>1, <1>2, <1>3, <1>4, <1>5, <1>6, TypesNext

LEMMA DeclineTyped ==
  ASSUME TypeOK, NEW u \in Users, NEW i \in DOMAIN rows[u], Decline(u, i)
  PROVE  TypeOK'
<1> USE DEF Decline
<1>0. RoomTyped /\ WireTyped /\ PagesTyped /\ ListTyped /\ NotedTyped /\ CountTyped
  BY Types
<1>1. RoomTyped' BY <1>0 DEF RoomTyped, base
<1>2. WireTyped'
  <2>1. <<Removal("block")>> \in Seq(Write) BY RemovalTyped DEF Steps
  <2> QED BY <1>0, <2>1, IssuedTyped
<1>3. PagesTyped' BY <1>0 DEF PagesTyped, pages
<1>4. ListTyped'
  <2>1. RemoveAt(rows[u], i) \in Seq(Messages) BY <1>0, Removed DEF ListTyped
  <2> QED BY <1>0, <2>1 DEF ListTyped
<1>5. NotedTyped' BY <1>0, Zenon DEF NotedTyped
<1>6. CountTyped' BY <1>0, PairBounds DEF CountTyped, Clear
<1> QED BY <1>1, <1>2, <1>3, <1>4, <1>5, <1>6, TypesNext

LEMMA HandledTyped ==
  ASSUME RoomTyped, NEW u \in Users, NEW w \in Write, Handled(u, w), UNCHANGED made
  PROVE  RoomTyped'
<1> USE DEF RoomTyped
<1>0. w.msg \in Entries /\ w.msg \in {None} \cup Messages /\ None \in Entries
  BY DEF Write, Entries
<1>1. CASE w.step = "message" BY <1>0, <1>1 DEF Handled, Newer
<1>2. CASE w.step = "dropRoom" BY <1>2 DEF Handled
<1>3. CASE w.step = "theirs" BY <1>0, <1>3 DEF Handled
<1>4. CASE w.step = "dropTheirs" BY <1>0, <1>4 DEF Handled
<1>5. CASE w.step \notin {"message", "dropRoom", "theirs", "dropTheirs"}
  <2>1. entry' = [entry EXCEPT ![u] = Written(entry[u], w)] /\ UNCHANGED room
    BY <1>5 DEF Handled
  <2>2. Written(entry[u], w) \in Entries BY WrittenTyped
  <2> QED BY <2>1, <2>2
<1> QED BY <1>1, <1>2, <1>3, <1>4, <1>5

LEMMA ApplyTyped == ASSUME TypeOK, NEW u \in Users, Apply(u) PROVE TypeOK'
<1> USE DEF Apply
<1>0. RoomTyped /\ WireTyped /\ PagesTyped /\ ListTyped /\ NotedTyped /\ CountTyped
  BY Types
<1>1. RoomTyped'
  <2>1. wire[u] \in Seq(Write) /\ sent[u] + 1 \in 1 .. Len(wire[u])
    BY <1>0 DEF WireTyped
  <2>2. wire[u][sent[u] + 1] \in Write BY <2>1, ElementOfSeq
  <2> QED BY <1>0, <2>2, HandledTyped
<1>2. WireTyped'
  <2>1. wire[u] \in Seq(Write) /\ sent[u] + 1 \in Nat /\ sent[u] + 1 <= Len(wire[u])
    BY <1>0 DEF WireTyped
  <2>2. wire' = [wire EXCEPT ![u] = wire[u]] BY <1>0 DEF WireTyped
  <2> QED BY <1>0, <2>1, <2>2, WireChanged
<1>3. PagesTyped' BY <1>0 DEF PagesTyped, pages
<1>4. ListTyped' BY <1>0 DEF ListTyped, list
<1>5. NotedTyped' BY <1>0 DEF NotedTyped
<1>6. CountTyped' BY <1>0 DEF CountTyped, bounds
<1> QED BY <1>1, <1>2, <1>3, <1>4, <1>5, <1>6, TypesNext

LEMMA TellTyped == ASSUME TypeOK, NEW u \in Users, Tell(u) PROVE TypeOK'
<1> USE DEF Tell
<1>0. RoomTyped /\ WireTyped /\ PagesTyped /\ ListTyped /\ NotedTyped /\ CountTyped
  BY Types
<1>1. RoomTyped' BY <1>0 DEF RoomTyped, base
<1>2. WireTyped' BY <1>0 DEF WireTyped
<1>3. PagesTyped' BY <1>0 DEF PagesTyped, pages
<1>4. ListTyped'
  <2>1. seen' \in [Users -> Entries \cup {Unknown}] BY <1>0 DEF ListTyped, RoomTyped
  <2> QED BY <1>0, <2>1, ListedTyped
<1>5. NotedTyped'
  <2>1. altered' \in [Users -> BOOLEAN] BY <1>0, NoteTyped DEF NotedTyped
  <2> QED BY <1>0, <2>1 DEF NotedTyped
<1>6. CountTyped' BY <1>0 DEF CountTyped, bounds
<1> QED BY <1>1, <1>2, <1>3, <1>4, <1>5, <1>6, TypesNext

\* What is left of a device's writes after the oldest one was answered.
Popped(w) == w.step = "theirs" /\ w.page = "trip"
Rest(u) == Tail(wire[u]) \o NextWrite(Head(wire[u]))
Left(u) == IF Popped(Head(wire[u])) THEN Without(Rest(u), "trip") ELSE Rest(u)

LEMMA RestTyped ==
  ASSUME WireTyped, NEW u \in Users, wire[u] # <<>>
  PROVE  /\ Head(wire[u]) \in Write /\ Rest(u) \in Seq(Write) /\ Left(u) \in Seq(Write)
         /\ Len(Rest(u)) >= Len(wire[u]) - 1 /\ Len(Left(u)) = Len(Rest(u))
         /\ Len(Tail(wire[u])) = Len(wire[u]) - 1
<1>1. wire[u] \in Seq(Write) BY DEF WireTyped
<1>2. /\ Head(wire[u]) \in Write /\ Tail(wire[u]) \in Seq(Write)
      /\ Len(Tail(wire[u])) = Len(wire[u]) - 1
  BY <1>1, HeadTailProperties
<1>3. NextWrite(Head(wire[u])) \in Seq(Write) BY <1>2, NextTyped
<1>4. Rest(u) \in Seq(Write) /\ Len(Rest(u)) >= Len(wire[u]) - 1
  <2>1. Len(Rest(u)) = Len(Tail(wire[u])) + Len(NextWrite(Head(wire[u])))
    BY <1>2, <1>3, ConcatProperties DEF Rest
  <2>2. Rest(u) \in Seq(Write) BY <1>2, <1>3, ConcatProperties DEF Rest
  <2>3. Len(NextWrite(Head(wire[u]))) \in Nat /\ Len(Tail(wire[u])) \in Nat
    BY <1>2, <1>3, LenProperties
  <2>4. Len(wire[u]) \in Nat BY <1>1, LenProperties
  <2>5. \A r, t, n, k \in Nat : t = n - 1 /\ r = t + k => r >= n - 1 OBVIOUS
  <2>6. Len(Rest(u)) \in Nat BY <2>2, LenProperties
  <2>7. Len(Tail(wire[u])) = Len(wire[u]) - 1 BY <1>2
  <2>8. Len(Rest(u)) >= Len(wire[u]) - 1
    BY <2>1, <2>3, <2>4, <2>5, <2>6, <2>7
  <2> QED BY <2>2, <2>8
<1>5. Left(u) \in Seq(Write) /\ Len(Left(u)) = Len(Rest(u))
  BY <1>4, WithoutPage DEF Left, Pages
<1> QED BY <1>2, <1>4, <1>5

LEMMA AckWire ==
  ASSUME NEW u \in Users, Ack(u)
  PROVE  wire' = [wire EXCEPT ![u] = Left(u)] /\ Freed(u, Head(wire[u]))
BY DEF Ack, Left, Rest, Popped

LEMMA AckTyped == ASSUME TypeOK, NEW u \in Users, Ack(u) PROVE TypeOK'
<1>0. RoomTyped /\ WireTyped /\ PagesTyped /\ ListTyped /\ NotedTyped /\ CountTyped
  BY Types
<1>1. RoomTyped' BY <1>0 DEF Ack, RoomTyped, base
<1>2. WireTyped'
  <2>1. sent[u] \in Nat /\ sent[u] > 0 /\ sent[u] <= Len(wire[u]) /\ wire[u] \in Seq(Write)
    BY <1>0 DEF Ack, WireTyped
  <2>2. wire[u] # <<>> BY <2>1
  <2>3. Left(u) \in Seq(Write) /\ Len(Left(u)) >= Len(wire[u]) - 1
    BY <1>0, <2>2, RestTyped
  <2>4. sent[u] - 1 \in Nat /\ sent[u] - 1 <= Len(Left(u)) BY <2>1, <2>3, LenProperties
  <2>5. sent' = [sent EXCEPT ![u] = sent[u] - 1] BY DEF Ack
  <2> QED BY <1>0, <2>3, <2>4, <2>5, AckWire, WireChanged
<1>3. PagesTyped' /\ stuck' \in [Users -> BOOLEAN]
  <2> DEFINE w == Head(wire[u])
  <2>1. Freed(u, w) BY AckWire
  <2>2. CASE w.step = "theirs" /\ w.page = "chat"
    <3>1. Uncovered(u) /\ UNCHANGED <<at, trip>> BY <2>1, <2>2 DEF Freed
    <3>2. held' \in [Users -> BOOLEAN] /\ stuck' \in [Users -> BOOLEAN]
      BY <1>0, <3>1, Uncovering DEF PagesTyped, NotedTyped
    <3> QED BY <1>0, <3>1, <3>2 DEF PagesTyped
  <2>3. CASE w.step = "theirs" /\ w.page = "trip"
    <3>1. trip' = [trip EXCEPT ![u] = FALSE] BY <2>1, <2>3 DEF Freed
    <3>2. trip' \in [Users -> BOOLEAN] BY <1>0, <3>1, Zenon DEF PagesTyped
    <3>3. CASE at[u] = "trip"
      <4>1. at' = [at EXCEPT ![u] = "away"] /\ Uncovered(u) BY <2>1, <2>3, <3>3 DEF Freed
      <4>2. held' \in [Users -> BOOLEAN] /\ stuck' \in [Users -> BOOLEAN]
        BY <1>0, <4>1, Uncovering DEF PagesTyped, NotedTyped
      <4> QED BY <1>0, <3>2, <4>1, <4>2 DEF PagesTyped, Places
    <3>4. CASE at[u] # "trip"
      <4>1. UNCHANGED <<at, held, stuck>> BY <2>1, <2>3, <3>4 DEF Freed
      <4> QED BY <1>0, <3>2, <4>1 DEF PagesTyped, NotedTyped
    <3> QED BY <3>3, <3>4
  <2>4. CASE ~(w.step = "theirs" /\ w.page \in {"chat", "trip"})
    <3>1. UNCHANGED <<pages, stuck>> BY <2>1, <2>4 DEF Freed
    <3> QED BY <1>0, <3>1 DEF PagesTyped, NotedTyped, pages
  <2> QED BY <2>2, <2>3, <2>4
<1>4. ListTyped'
  <2>1. Listed(u) /\ UNCHANGED seen BY DEF Ack
  <2> QED BY <1>0, <2>1, ListedTyped DEF ListTyped
<1>5. NotedTyped'
  <2>1. Noted(u) /\ UNCHANGED crossed BY DEF Ack
  <2>2. altered' \in [Users -> BOOLEAN] BY <1>0, <2>1, NoteTyped DEF NotedTyped
  <2> QED BY <1>0, <1>3, <2>1, <2>2 DEF NotedTyped
<1>6. CountTyped' BY <1>0 DEF Ack, CountTyped, bounds
<1> QED BY <1>1, <1>2, <1>3, <1>4, <1>5, <1>6, TypesNext

LEMMA RefuseTyped == ASSUME TypeOK, NEW u \in Users, Refuse(u) PROVE TypeOK'
<1>0. RoomTyped /\ WireTyped /\ PagesTyped /\ ListTyped /\ NotedTyped /\ CountTyped
  BY Types
<1>1. RoomTyped' BY <1>0 DEF Refuse, RoomTyped, base
<1>2. WireTyped'
  <2>1. wire[u] \in Seq(Write) /\ wire[u] # <<>> BY <1>0 DEF Refuse, WireTyped
  <2>2. Tail(wire[u]) \in Seq(Write) BY <2>1, HeadTailProperties
  <2>3. sent' = [sent EXCEPT ![u] = 0] /\ wire' = [wire EXCEPT ![u] = Tail(wire[u])]
    BY <1>0 DEF Refuse, WireTyped
  <2>4. 0 <= Len(Tail(wire[u])) BY <2>2, LenProperties
  <2> QED BY <1>0, <2>2, <2>3, <2>4, WireChanged
<1>3. PagesTyped' BY <1>0 DEF Refuse, PagesTyped, pages
<1>4. ListTyped'
  <2>1. Listed(u) /\ UNCHANGED seen BY DEF Refuse
  <2> QED BY <1>0, <2>1, ListedTyped DEF ListTyped
<1>5. NotedTyped'
  <2>1. Noted(u) BY DEF Refuse
  <2>2. altered' \in [Users -> BOOLEAN] BY <1>0, <2>1, NoteTyped DEF NotedTyped
  <2>3. crossed' \in BOOLEAN BY <1>0, Zenon DEF Refuse, NotedTyped
  <2>4. stuck' \in [Users -> BOOLEAN] BY <1>0, Zenon DEF Refuse, NotedTyped
  <2> QED BY <2>2, <2>3, <2>4 DEF NotedTyped
<1>6. CountTyped' BY <1>0, PairBounds DEF Refuse, Fault, CountTyped
<1> QED BY <1>1, <1>2, <1>3, <1>4, <1>5, <1>6, TypesNext

LEMMA DropTyped == ASSUME TypeOK, NEW u \in Users, Drop(u) PROVE TypeOK'
<1> USE DEF Drop
<1>0. RoomTyped /\ WireTyped /\ PagesTyped /\ ListTyped /\ NotedTyped /\ CountTyped
  BY Types
<1>1. RoomTyped' BY <1>0 DEF RoomTyped, base
<1>2. WireTyped' BY <1>0, LenProperties DEF WireTyped
<1>3. PagesTyped' BY <1>0 DEF PagesTyped, pages
<1>4. ListTyped' BY <1>0 DEF ListTyped, list
<1>5. NotedTyped' BY <1>0 DEF NotedTyped
<1>6. CountTyped' BY <1>0, PairBounds DEF Fault, CountTyped
<1> QED BY <1>1, <1>2, <1>3, <1>4, <1>5, <1>6, TypesNext

LEMMA StepTyped == TypeOK /\ [Next]_vars => TypeOK'
<1> SUFFICES ASSUME TypeOK, [Next]_vars PROVE TypeOK'
  OBVIOUS
<1>1. CASE UNCHANGED vars
  BY <1>1 DEF TypeOK, vars, base, pages, list, bounds
<1>2. ASSUME NEW u \in Users, ShowList(u) PROVE TypeOK' BY <1>2, ShowListTyped
<1>3. ASSUME NEW u \in Users, OpenChat(u) PROVE TypeOK' BY <1>3, OpenChatTyped
<1>4. ASSUME NEW u \in Users, OpenTrip(u) PROVE TypeOK' BY <1>4, OpenTripTyped
<1>5. ASSUME NEW u \in Users, LeaveTrip(u) PROVE TypeOK' BY <1>5, LeaveTripTyped
<1>6. ASSUME NEW u \in Users, Send(u) PROVE TypeOK' BY <1>6, SendTyped
<1>7. ASSUME NEW u \in Users, NEW i \in DOMAIN rows[u], Delete(u, i) PROVE TypeOK'
  BY <1>7, DeleteTyped
<1>8. ASSUME NEW u \in Users, NEW i \in DOMAIN rows[u], Decline(u, i) PROVE TypeOK'
  BY <1>8, DeclineTyped
<1>9. ASSUME NEW u \in Users, Apply(u) PROVE TypeOK' BY <1>9, ApplyTyped
<1>10. ASSUME NEW u \in Users, Tell(u) PROVE TypeOK' BY <1>10, TellTyped
<1>11. ASSUME NEW u \in Users, Ack(u) PROVE TypeOK' BY <1>11, AckTyped
<1>12. ASSUME NEW u \in Users, Refuse(u) PROVE TypeOK' BY <1>12, RefuseTyped
<1>13. ASSUME NEW u \in Users, Drop(u) PROVE TypeOK' BY <1>13, DropTyped
<1>14. ASSUME NEW u \in Users, Kill(u) PROVE TypeOK' BY <1>14, KillTyped
<1> QED BY <1>1, <1>2, <1>3, <1>4, <1>5, <1>6, <1>7, <1>8, <1>9, <1>10, <1>11, <1>12,
           <1>13, <1>14 DEF Next

\* The variables of the two devices and of the data base keep their types.
THEOREM ChatPairTyped == Spec => []TypeOK
BY InitTyped, StepTyped, PTL DEF Spec

-----------------------------------------------------------------------------
(* What holds a screen *)

\* The open writes of a device belong to the screens that are there: those of the
\* chat screen while it is looked at, those of a trip's page while that is open.
Belongs(u, w) ==
  /\ w.page = "chat" => at[u] = "chat"
  /\ w.page = "trip" => trip[u]
  /\ w.page # "gone" => w.step \in {"message", "mine", "theirs"}
Explained(u) ==
  /\ \A i \in DOMAIN wire[u] : Belongs(u, wire[u][i])
  /\ at[u] = "trip" => trip[u]
  /\ held[u] /\ ~stuck[u] => \E i \in DOMAIN wire[u] : wire[u][i].page = at[u]
Held == \A u \in Users : Explained(u)

LEMMA InitHeld == Init => Held
BY DEF Init, Held, Explained, ToAll

\* The other device.
LEMMA Elsewhere ==
  ASSUME NEW v \in Users, Explained(v), wire'[v] = wire[v], at'[v] = at[v],
         trip'[v] = trip[v], held'[v] = held[v], stuck'[v] = stuck[v]
  PROVE  Explained(v)'
BY DEF Explained, Belongs

\* A screen that nothing holds any more.
LEMMA Freeing ==
  ASSUME TypeOK, NEW u \in Users, Uncovered(u)
  PROVE  /\ ~held'[u]
         /\ \A v \in Users : v # u => held'[v] = held[v] /\ stuck'[v] = stuck[v]
BY DEF Uncovered, TypeOK

\* Writes whose page is gone belong to no screen.
LEMMA Orphaning ==
  ASSUME TypeOK, NEW u \in Users, NEW pg \in Pages, Orphaned(u, pg)
  PROVE  /\ DOMAIN wire'[u] = DOMAIN wire[u]
         /\ \A i \in DOMAIN wire[u] :
              \/ wire'[u][i].page = "gone"
              \/ wire'[u][i] = wire[u][i] /\ wire[u][i].page # pg
         /\ \A v \in Users : v # u => wire'[v] = wire[v]
<1>1. wire[u] \in Seq(Write) /\ wire \in [Users -> Seq(Write)] BY DEF TypeOK
<1>2. wire'[u] = Without(wire[u], pg) /\ \A v \in Users : v # u => wire'[v] = wire[v]
  BY <1>1 DEF Orphaned
<1>3. \A i \in DOMAIN wire[u] : wire[u][i] \in Write BY <1>1, LenProperties, ElementOfSeq
<1>4. \A i \in DOMAIN wire[u] : [wire[u][i] EXCEPT !.page = "gone"].page = "gone"
  BY <1>3 DEF Write
<1>5. /\ DOMAIN Without(wire[u], pg) = DOMAIN wire[u]
      /\ \A i \in DOMAIN wire[u] : Without(wire[u], pg)[i] =
           IF wire[u][i].page = pg THEN [wire[u][i] EXCEPT !.page = "gone"] ELSE wire[u][i]
  BY <1>1, WithoutPage
<1>6. ASSUME NEW i \in DOMAIN wire[u]
      PROVE  \/ wire'[u][i].page = "gone"
             \/ wire'[u][i] = wire[u][i] /\ wire[u][i].page # pg
  <2>1. wire'[u][i] = IF wire[u][i].page = pg THEN [wire[u][i] EXCEPT !.page = "gone"]
                      ELSE wire[u][i]
    BY <1>2, <1>5
  <2>2. CASE wire[u][i].page = pg BY <1>4, <2>1, <2>2
  <2>3. CASE wire[u][i].page # pg BY <2>1, <2>3
  <2> QED BY <2>2, <2>3
<1> QED BY <1>2, <1>5, <1>6

LEMMA ShowListHeld == ASSUME TypeOK, Held, NEW u \in Users, ShowList(u) PROVE Held'
<1>0. Explained(u) /\ at \in [Users -> Places] BY DEF Held, TypeOK, Places
<1>1. /\ ~held'[u] /\ at'[u] = "list" /\ trip' = trip
      /\ \A v \in Users : v # u => held'[v] = held[v] /\ stuck'[v] = stuck[v] /\ at'[v] = at[v]
  BY <1>0, Freeing DEF ShowList
<1>2. /\ \A v \in Users : v # u => wire'[v] = wire[v]
      /\ \A i \in DOMAIN wire'[u] : Belongs(u, wire[u][i])' \/ wire'[u][i].page = "gone"
  <2>1. CASE at[u] = "chat"
    <3>1. Orphaned(u, "chat") BY <2>1 DEF ShowList
    <3>2. /\ DOMAIN wire'[u] = DOMAIN wire[u]
          /\ \A i \in DOMAIN wire[u] :
               \/ wire'[u][i].page = "gone"
               \/ wire'[u][i] = wire[u][i] /\ wire[u][i].page # "chat"
          /\ \A v \in Users : v # u => wire'[v] = wire[v]
      BY <1>0, <3>1, Orphaning DEF Explained, Pages
    <3> QED BY <1>0, <1>1, <3>2 DEF Explained, Belongs
  <2>2. CASE at[u] # "chat"
    <3>1. wire' = wire BY <2>2 DEF ShowList
    <3> QED BY <1>0, <1>1, <2>2, <3>1 DEF Explained, Belongs
  <2> QED BY <2>1, <2>2
<1>3. Explained(u)' BY <1>1, <1>2 DEF Explained, Belongs
<1>4. \A v \in Users : v # u => Explained(v)' BY <1>1, <1>2, Elsewhere DEF Held
<1> QED BY <1>3, <1>4 DEF Held

\* A screen is left with its writes as they are.
LEMMA Going ==
  ASSUME TypeOK, Held, NEW u \in Users, NEW place \in Places, Go(u, place)
  PROVE  /\ ~held'[u] /\ at'[u] = place
         /\ \A v \in Users : v # u =>
              held'[v] = held[v] /\ stuck'[v] = stuck[v] /\ at'[v] = at[v]
BY Freeing DEF Go, TypeOK

LEMMA OpenChatHeld == ASSUME TypeOK, Held, NEW u \in Users, OpenChat(u) PROVE Held'
<1>1. /\ Go(u, "chat") /\ at[u] = "list" /\ wire' = wire /\ trip' = trip
  BY DEF OpenChat
<1>2. Explained(u)' BY <1>1, Going DEF Held, Explained, Belongs, Places
<1>3. \A v \in Users : v # u => Explained(v)' BY <1>1, Going, Elsewhere DEF Held, Places
<1> QED BY <1>2, <1>3 DEF Held

LEMMA OpenTripHeld == ASSUME TypeOK, Held, NEW u \in Users, OpenTrip(u) PROVE Held'
<1>1. /\ Go(u, "trip") /\ at[u] \in {"list", "away"} /\ wire' = wire
      /\ trip'[u] = TRUE /\ \A v \in Users : v # u => trip'[v] = trip[v]
  BY DEF OpenTrip, TypeOK
<1>2. Explained(u)' BY <1>1, Going DEF Held, Explained, Belongs, Places
<1>3. \A v \in Users : v # u => Explained(v)' BY <1>1, Going, Elsewhere DEF Held, Places
<1> QED BY <1>2, <1>3 DEF Held

LEMMA LeaveTripHeld == ASSUME TypeOK, Held, NEW u \in Users, LeaveTrip(u) PROVE Held'
<1>1. /\ Go(u, "away") /\ at[u] = "trip" /\ Orphaned(u, "trip")
      /\ trip'[u] = FALSE /\ \A v \in Users : v # u => trip'[v] = trip[v]
  BY DEF LeaveTrip, TypeOK
<1>2. /\ DOMAIN wire'[u] = DOMAIN wire[u]
      /\ \A i \in DOMAIN wire[u] :
           \/ wire'[u][i].page = "gone"
           \/ wire'[u][i] = wire[u][i] /\ wire[u][i].page # "trip"
      /\ \A v \in Users : v # u => wire'[v] = wire[v]
  BY <1>1, Orphaning DEF Pages
<1>3. ~held'[u] /\ at'[u] = "away" BY <1>1, Going DEF Places
<1>4. \A i \in DOMAIN wire[u] : wire[u][i].page # "chat"
  BY <1>1 DEF Held, Explained, Belongs
<1>5. \A i \in DOMAIN wire'[u] : Belongs(u, wire[u][i])'
  BY <1>2, <1>4 DEF Held, Explained, Belongs
<1>6. Explained(u)' BY <1>3, <1>5 DEF Explained
<1>7. \A v \in Users : v # u => Explained(v)'
  BY <1>1, <1>2, Going, Elsewhere DEF Held, Places
<1> QED BY <1>6, <1>7 DEF Held

LEMMA KillHeld == ASSUME TypeOK, Held, NEW u \in Users, Kill(u) PROVE Held'
<1>1. /\ Go(u, "away") /\ wire'[u] = <<>> /\ \A v \in Users : v # u => wire'[v] = wire[v]
      /\ \A v \in Users : v # u => trip'[v] = trip[v]
  BY DEF Kill, TypeOK
<1>2. Explained(u)' BY <1>1, Going DEF Explained, Places
<1>3. \A v \in Users : v # u => Explained(v)' BY <1>1, Going, Elsewhere DEF Held, Places
<1> QED BY <1>2, <1>3 DEF Held

\* Writes put at the end of those a device has.
LEMMA IssuedBelong ==
  ASSUME TypeOK, Held, NEW u \in Users, NEW ws \in Seq(Write), Issue(u, ws),
         at' = at, trip' = trip, stuck' = stuck,
         \A v \in Users : v # u => held'[v] = held[v],
         \A i \in DOMAIN ws : Belongs(u, ws[i]),
         held'[u] => held[u] \/ \E i \in DOMAIN ws : ws[i].page = at[u]
  PROVE  Held'
<1> DEFINE r == wire[u] \o ws
<1>1. wire[u] \in Seq(Write) /\ wire'[u] = r /\ \A v \in Users : v # u => wire'[v] = wire[v]
  BY DEF TypeOK, Issue
<1>2. /\ \A i \in DOMAIN wire[u] : i \in DOMAIN r /\ r[i] = wire[u][i]
      /\ \A j \in DOMAIN ws : \E i \in DOMAIN r : r[i] = ws[j]
      /\ \A i \in DOMAIN r : \/ i \in DOMAIN wire[u] /\ r[i] = wire[u][i]
                             \/ \E j \in DOMAIN ws : r[i] = ws[j]
  <2>1. wire[u] \in Seq(Write) BY <1>1
  <2> HIDE <1>1
  <2> QED BY <2>1, Joined
<1> HIDE DEF r
<1>3. \A i \in DOMAIN r : Belongs(u, r[i])
  BY <1>2, Zenon DEF Held, Explained
<1>4. held[u] /\ ~stuck[u] => \E i \in DOMAIN r : r[i].page = at[u]
  BY <1>2 DEF Held, Explained
<1>5. (\E j \in DOMAIN ws : ws[j].page = at[u]) => \E i \in DOMAIN r : r[i].page = at[u]
  BY <1>2
<1>6. Explained(u)'
  <2>1. \A i \in DOMAIN wire'[u] : Belongs(u, wire[u][i])' BY <1>1, <1>3 DEF Belongs
  <2>2. held'[u] /\ ~stuck'[u] => \E i \in DOMAIN wire'[u] : wire'[u][i].page = at'[u]
    BY <1>1, <1>4, <1>5
  <2> QED BY <2>1, <2>2 DEF Held, Explained
<1>7. \A v \in Users : v # u => Explained(v)' BY <1>1, Elsewhere DEF Held
<1> QED BY <1>6, <1>7 DEF Held

LEMMA SendHeld == ASSUME TypeOK, Held, NEW u \in Users, Send(u) PROVE Held'
<1> DEFINE w == [step |-> "message", msg |-> made + 1, page |-> at[u]]
<1>1. made + 1 \in Messages BY PairBounds DEF Send, TypeOK, Messages
<1>2. w \in Write BY <1>1 DEF Send, Write, Steps
<1>3. <<w>> \in Seq(Write) /\ DOMAIN <<w>> = {1} /\ <<w>>[1] = w BY <1>2
<1>4. Belongs(u, w) BY DEF Send, Held, Explained, Belongs
<1>5. Issue(u, <<w>>) BY DEF Send
<1>6. at' = at /\ trip' = trip /\ stuck' = stuck BY DEF Send
<1>7. \A v \in Users : v # u => held'[v] = held[v] BY DEF Send, TypeOK
<1>8. \E i \in DOMAIN <<w>> : <<w>>[i].page = at[u] BY <1>3
<1> HIDE DEF w
<1> QED BY <1>3, <1>4, <1>5, <1>6, <1>7, <1>8, IssuedBelong

LEMMA RemovalBelongs ==
  ASSUME NEW u, NEW st \in Steps
  PROVE  Removal(st) \in Write /\ Belongs(u, Removal(st))
BY RemovalTyped DEF Removal, Belongs

LEMMA DeleteHeld ==
  ASSUME TypeOK, Held, NEW u \in Users, NEW i \in DOMAIN rows[u], Delete(u, i)
  PROVE  Held'
<1>1. Removals \in Seq(Write) BY RemovalTyped DEF Removals, Steps
<1>2. \A j \in DOMAIN Removals : Belongs(u, Removals[j])
  BY RemovalBelongs DEF Removals, Steps
<1>3. Issue(u, Removals) /\ at' = at /\ trip' = trip /\ stuck' = stuck /\ held' = held
  BY DEF Delete, pages
<1> QED BY <1>1, <1>2, <1>3, IssuedBelong

LEMMA DeclineHeld ==
  ASSUME TypeOK, Held, NEW u \in Users, NEW i \in DOMAIN rows[u], Decline(u, i)
  PROVE  Held'
<1> DEFINE ws == <<Removal("block")>>
<1>1. ws \in Seq(Write) BY RemovalTyped DEF Steps
<1>2. \A j \in DOMAIN ws : Belongs(u, ws[j])
  BY RemovalBelongs DEF Steps
<1>3. Issue(u, ws) /\ at' = at /\ trip' = trip /\ stuck' = stuck /\ held' = held
  BY DEF Decline, pages
<1> HIDE DEF ws
<1> QED BY <1>1, <1>2, <1>3, IssuedBelong

\* Nothing of the screens and the writes changes.
LEMMA StillHeld ==
  ASSUME Held, wire' = wire, at' = at, trip' = trip, held' = held, stuck' = stuck
  PROVE  Held'
BY Elsewhere DEF Held

\* The oldest write was refused: the screen it holds, if any, is stuck.
LEMMA RefuseHeld == ASSUME TypeOK, Held, NEW u \in Users, Refuse(u) PROVE Held'
<1> DEFINE s == wire[u]
<1>1. s \in Seq(Write) /\ s # <<>> /\ wire'[u] = Tail(s)
      /\ \A v \in Users : v # u => wire'[v] = wire[v]
  BY DEF Refuse, TypeOK
<1>2. /\ at' = at /\ trip' = trip /\ held' = held
      /\ stuck'[u] = (stuck[u] \/ Head(s).page = at[u])
      /\ \A v \in Users : v # u => stuck'[v] = stuck[v]
  BY DEF Refuse, pages, TypeOK
<1>3. /\ \A i \in DOMAIN Tail(s) : \E j \in DOMAIN s : Tail(s)[i] = s[j]
      /\ \A i \in DOMAIN s : s[i] = Head(s) \/ \E j \in DOMAIN Tail(s) : Tail(s)[j] = s[i]
  BY <1>1, Tailed
<1> HIDE DEF s
<1>4. Explained(u) /\ s = wire[u] BY DEF Held, s
<1>5. \A i \in DOMAIN Tail(s) : Belongs(u, Tail(s)[i]) BY <1>3, <1>4 DEF Explained
<1>6. held[u] /\ ~stuck'[u] => \E i \in DOMAIN Tail(s) : Tail(s)[i].page = at[u]
  <2>1. SUFFICES ASSUME held[u], ~stuck'[u]
                 PROVE  \E i \in DOMAIN Tail(s) : Tail(s)[i].page = at[u]
    OBVIOUS
  <2>2. ~stuck[u] /\ Head(s).page # at[u] BY <1>2, <2>1, Zenon
  <2>3. PICK i \in DOMAIN s : s[i].page = at[u] BY <1>4, <2>1, <2>2, Zenon DEF Explained
  <2> QED BY <1>3, <2>2, <2>3
<1>7. Explained(u)'
  <2>1. \A i \in DOMAIN wire'[u] : Belongs(u, wire[u][i])' BY <1>1, <1>2, <1>5 DEF Belongs
  <2>2. held'[u] /\ ~stuck'[u] => \E i \in DOMAIN wire'[u] : wire'[u][i].page = at'[u]
    BY <1>1, <1>2, <1>6
  <2>3. at'[u] = "trip" => trip'[u] BY <1>2, <1>4 DEF Explained
  <2> QED BY <2>1, <2>2, <2>3 DEF Explained
<1>8. \A v \in Users : v # u => Explained(v)' BY <1>1, <1>2, Elsewhere DEF Held
<1> QED BY <1>7, <1>8 DEF Held

\* The write that a completion makes is its screen's, as the one answered was.
LEMMA NextBelongs ==
  ASSUME NEW u, NEW w \in Write, Belongs(u, w)
  PROVE  /\ \A j \in DOMAIN NextWrite(w) :
              Belongs(u, NextWrite(w)[j]) /\ NextWrite(w)[j].page = w.page
         /\ w.step \in {"message", "mine"} => 1 \in DOMAIN NextWrite(w)
<1>1. CASE w.step = "message"
  <2>1. NextWrite(w) = <<[w EXCEPT !.step = "mine"]>> BY <1>1 DEF NextWrite
  <2> QED BY <2>1 DEF Belongs, Write
<1>2. CASE w.step = "mine"
  <2>1. NextWrite(w) = <<[w EXCEPT !.step = "theirs"]>> BY <1>2 DEF NextWrite
  <2> QED BY <2>1 DEF Belongs, Write
<1>3. CASE w.step \notin {"message", "mine"}
  <2>1. NextWrite(w) = <<>> BY <1>3 DEF NextWrite
  <2> QED BY <1>3, <2>1
<1> QED BY <1>1, <1>2, <1>3

\* What is left after an answer belongs to the screens as they were, and holds all
\* but the oldest write, which the next one of its chain replaces.
LEMMA RestBelongs ==
  ASSUME TypeOK, Held, NEW u \in Users, wire[u] # <<>>
  PROVE  /\ \A i \in DOMAIN Rest(u) : Belongs(u, Rest(u)[i])
         /\ \A i \in DOMAIN wire[u] : \/ wire[u][i] = Head(wire[u])
                                     \/ \E j \in DOMAIN Rest(u) : Rest(u)[j] = wire[u][i]
         /\ Head(wire[u]).step \in {"message", "mine"} =>
              \E j \in DOMAIN Rest(u) : Rest(u)[j].page = Head(wire[u]).page
<1> DEFINE s == wire[u]
           w == Head(s)
           n == NextWrite(w)
<1>1. s \in Seq(Write) /\ s # <<>> BY DEF TypeOK
<1>2. /\ 1 \in DOMAIN s /\ w = s[1]
      /\ \A i \in DOMAIN Tail(s) : \E j \in DOMAIN s : Tail(s)[i] = s[j]
      /\ \A i \in DOMAIN s : s[i] = w \/ \E j \in DOMAIN Tail(s) : Tail(s)[j] = s[i]
  BY <1>1, Tailed
<1>3. \A i \in DOMAIN s : Belongs(u, s[i]) BY DEF Held, Explained
<1>4. w \in Write /\ Tail(s) \in Seq(Write) BY <1>1, HeadTailProperties
<1>5. n \in Seq(Write) BY <1>4, NextTyped
<1>6. /\ \A j \in DOMAIN n : Belongs(u, n[j]) /\ n[j].page = w.page
      /\ w.step \in {"message", "mine"} => 1 \in DOMAIN n
  BY <1>2, <1>3, <1>4, NextBelongs
<1>7. Rest(u) = Tail(s) \o n BY DEF Rest
<1> HIDE DEF s, w, n
<1>8. /\ \A i \in DOMAIN Tail(s) : i \in DOMAIN Rest(u) /\ Rest(u)[i] = Tail(s)[i]
      /\ \A j \in DOMAIN n : \E i \in DOMAIN Rest(u) : Rest(u)[i] = n[j]
      /\ \A i \in DOMAIN Rest(u) : \/ i \in DOMAIN Tail(s) /\ Rest(u)[i] = Tail(s)[i]
                                   \/ \E j \in DOMAIN n : Rest(u)[i] = n[j]
  <2> DEFINE t == Tail(s)
  <2>1. t \in Seq(Write) /\ n \in Seq(Write) BY <1>4, <1>5
  <2>2. Rest(u) = t \o n BY <1>7
  <2> HIDE DEF t
  <2>3. /\ \A i \in DOMAIN t : i \in DOMAIN (t \o n) /\ (t \o n)[i] = t[i]
        /\ \A j \in DOMAIN n : \E i \in DOMAIN (t \o n) : (t \o n)[i] = n[j]
        /\ \A i \in DOMAIN (t \o n) : \/ i \in DOMAIN t /\ (t \o n)[i] = t[i]
                                     \/ \E j \in DOMAIN n : (t \o n)[i] = n[j]
    BY <2>1, Joined
  <2> QED BY <2>2, <2>3 DEF t
<1>9. \A i \in DOMAIN Rest(u) : Belongs(u, Rest(u)[i])
  BY <1>2, <1>3, <1>6, <1>8
<1>10. \A i \in DOMAIN s : s[i] = w \/ \E j \in DOMAIN Rest(u) : Rest(u)[j] = s[i]
  BY <1>2, <1>8
<1>11. w.step \in {"message", "mine"} => \E j \in DOMAIN Rest(u) : Rest(u)[j].page = w.page
  BY <1>6, <1>8
<1> QED BY <1>9, <1>10, <1>11 DEF s, w

LEMMA AckHeld == ASSUME TypeOK, Held, NEW u \in Users, Ack(u) PROVE Held'
<1> DEFINE s == wire[u]
           w == Head(s)
           r == Rest(u)
<1>1. s \in Seq(Write) /\ s # <<>>
  BY DEF Ack, TypeOK
<1>2. /\ \A i \in DOMAIN r : Belongs(u, r[i])
      /\ \A i \in DOMAIN s : s[i] = w \/ \E j \in DOMAIN r : r[j] = s[i]
      /\ w.step \in {"message", "mine"} => \E j \in DOMAIN r : r[j].page = w.page
  BY <1>1, RestBelongs
<1>3. r \in Seq(Write) /\ w \in Write
  BY <1>1, RestTyped, Types
<1>4. /\ wire'[u] = Left(u) /\ Freed(u, w) /\ \A v \in Users : v # u => wire'[v] = wire[v]
  BY AckWire DEF TypeOK
<1>5. /\ Explained(u) /\ at[u] \in Places
      /\ 1 \in DOMAIN s /\ w = s[1] /\ Belongs(u, w)
  BY <1>1, Tailed DEF Held, Explained, TypeOK, Places
<1>6. Left(u) = IF w.step = "theirs" /\ w.page = "trip" THEN Without(r, "trip") ELSE r
  BY DEF Left, Popped
<1>7. held[u] /\ ~stuck[u] /\ w.page # at[u] => \E j \in DOMAIN r : r[j].page = at[u]
  <2>1. SUFFICES ASSUME held[u], ~stuck[u], w.page # at[u]
                 PROVE  \E j \in DOMAIN r : r[j].page = at[u]
    OBVIOUS
  <2>2. PICK i \in DOMAIN s : s[i].page = at[u]
    BY <1>5, <2>1, Zenon DEF Explained
  <2> QED BY <1>2, <2>1, <2>2
<1> HIDE DEF s, w, r
\* The chain of the trip's page ended: the page goes, with what it had started.
<1>8. CASE w.step = "theirs" /\ w.page = "trip"
  <2>1. trip'[u] = FALSE /\ \A v \in Users : v # u => trip'[v] = trip[v]
    BY <1>4, <1>8 DEF Freed, TypeOK
  <2>2. /\ DOMAIN wire'[u] = DOMAIN r
        /\ \A i \in DOMAIN r : wire'[u][i] =
             IF r[i].page = "trip" THEN [r[i] EXCEPT !.page = "gone"] ELSE r[i]
    BY <1>3, <1>4, <1>6, <1>8, WithoutPage DEF Pages
  <2>3. \A i \in DOMAIN r : r[i] \in Write BY <1>3, LenProperties, ElementOfSeq
  <2>4. \A i \in DOMAIN r :
          \/ wire'[u][i].page = "gone"
          \/ wire'[u][i] = r[i] /\ r[i].page # "trip"
    <3>1. SUFFICES ASSUME NEW i \in DOMAIN r
                   PROVE  \/ wire'[u][i].page = "gone"
                          \/ wire'[u][i] = r[i] /\ r[i].page # "trip"
      OBVIOUS
    <3>2. CASE r[i].page = "trip"
      <4>1. wire'[u][i] = [r[i] EXCEPT !.page = "gone"] BY <2>2, <3>2
      <4> QED BY <2>3, <4>1 DEF Write
    <3>3. CASE r[i].page # "trip" BY <2>2, <3>3
    <3> QED BY <3>2, <3>3
  <2>5. CASE at[u] = "trip"
    <3>1. at' = [at EXCEPT ![u] = "away"] /\ Uncovered(u) BY <1>4, <1>8, <2>5 DEF Freed
    <3>2. /\ ~held'[u] /\ at'[u] = "away"
          /\ \A v \in Users : v # u =>
               held'[v] = held[v] /\ stuck'[v] = stuck[v] /\ at'[v] = at[v]
      BY <3>1, Freeing DEF TypeOK
    <3>3. \A i \in DOMAIN wire'[u] : wire'[u][i].page = "gone"
      BY <1>2, <2>2, <2>3, <2>4, <2>5 DEF Belongs, Write
    <3>4. Explained(u)' BY <3>2, <3>3 DEF Explained, Belongs
    <3>5. \A v \in Users : v # u => Explained(v)' BY <1>4, <2>1, <3>2, Elsewhere DEF Held
    <3> QED BY <3>4, <3>5 DEF Held
  <2>6. CASE at[u] # "trip"
    <3>1. UNCHANGED <<at, held, stuck>> BY <1>4, <1>8, <2>6 DEF Freed
    <3>2. \A i \in DOMAIN wire'[u] : Belongs(u, wire[u][i])'
      BY <1>2, <2>2, <2>4, <3>1 DEF Belongs
    <3>3. held[u] /\ ~stuck[u] => \E i \in DOMAIN wire'[u] : wire'[u][i].page = at[u]
      <4>1. SUFFICES ASSUME held[u], ~stuck[u]
                     PROVE  \E i \in DOMAIN wire'[u] : wire'[u][i].page = at[u]
        OBVIOUS
      <4>2. PICK j \in DOMAIN r : r[j].page = at[u] BY <1>7, <1>8, <2>6, <4>1
      <4>3. wire'[u][j] = r[j] BY <2>2, <2>6, <4>2
      <4> QED BY <2>2, <4>2, <4>3
    <3>4. Explained(u)' BY <2>6, <3>1, <3>2, <3>3 DEF Explained
    <3>5. \A v \in Users : v # u => Explained(v)' BY <1>4, <2>1, <3>1, Elsewhere DEF Held
    <3> QED BY <3>4, <3>5 DEF Held
  <2> QED BY <2>5, <2>6
\* The chain of the chat screen ended: isdosending is free.
<1>9. CASE w.step = "theirs" /\ w.page = "chat"
  <2>1. Uncovered(u) /\ at' = at /\ trip' = trip BY <1>4, <1>9 DEF Freed
  <2>2. /\ ~held'[u]
        /\ \A v \in Users : v # u => held'[v] = held[v] /\ stuck'[v] = stuck[v]
    BY <2>1, Freeing
  <2>3. wire'[u] = r BY <1>4, <1>6, <1>9
  <2>4. Explained(u)' BY <1>2, <1>5, <2>1, <2>2, <2>3 DEF Explained, Belongs
  <2>5. \A v \in Users : v # u => Explained(v)' BY <1>4, <2>1, <2>2, Elsewhere DEF Held
  <2> QED BY <2>4, <2>5 DEF Held
\* A chain goes on, or nothing waits for the answer.
<1>10. CASE ~(w.step = "theirs" /\ w.page \in {"chat", "trip"})
  <2>1. /\ at' = at /\ trip' = trip /\ held' = held /\ stuck' = stuck
    BY <1>4, <1>10 DEF Freed, pages
  <2>2. wire'[u] = r BY <1>4, <1>6, <1>10
  <2>3. w.page = at[u] => \E j \in DOMAIN r : r[j].page = at[u]
    BY <1>2, <1>3, <1>5, <1>10 DEF Belongs, Places, Write, Steps
  <2>4. held[u] /\ ~stuck[u] => \E j \in DOMAIN r : r[j].page = at[u]
    BY <1>7, <2>3
  <2>5. \A i \in DOMAIN wire'[u] : Belongs(u, wire[u][i])'
    BY <1>2, <2>1, <2>2 DEF Belongs
  <2>6. Explained(u)' BY <1>5, <2>1, <2>2, <2>4, <2>5 DEF Explained
  <2>7. \A v \in Users : v # u => Explained(v)' BY <1>4, <2>1, Elsewhere DEF Held
  <2> QED BY <2>6, <2>7 DEF Held
<1> QED BY <1>8, <1>9, <1>10

LEMMA StepHeld == TypeOK /\ Held /\ [Next]_vars => Held'
<1> SUFFICES ASSUME TypeOK, Held, [Next]_vars PROVE Held'
  OBVIOUS
<1>1. CASE UNCHANGED vars BY <1>1, StillHeld DEF vars, pages
<1>2. ASSUME NEW u \in Users, ShowList(u) PROVE Held' BY <1>2, ShowListHeld
<1>3. ASSUME NEW u \in Users, OpenChat(u) PROVE Held' BY <1>3, OpenChatHeld
<1>4. ASSUME NEW u \in Users, OpenTrip(u) PROVE Held' BY <1>4, OpenTripHeld
<1>5. ASSUME NEW u \in Users, LeaveTrip(u) PROVE Held' BY <1>5, LeaveTripHeld
<1>6. ASSUME NEW u \in Users, Send(u) PROVE Held' BY <1>6, SendHeld
<1>7. ASSUME NEW u \in Users, NEW i \in DOMAIN rows[u], Delete(u, i) PROVE Held'
  BY <1>7, DeleteHeld
<1>8. ASSUME NEW u \in Users, NEW i \in DOMAIN rows[u], Decline(u, i) PROVE Held'
  BY <1>8, DeclineHeld
<1>9. ASSUME NEW u \in Users, Apply(u) \/ Tell(u) \/ Drop(u) PROVE Held'
  BY <1>9, StillHeld DEF Apply, Tell, Drop, pages
<1>10. ASSUME NEW u \in Users, Ack(u) PROVE Held' BY <1>10, AckHeld
<1>11. ASSUME NEW u \in Users, Refuse(u) PROVE Held' BY <1>11, RefuseHeld
<1>12. ASSUME NEW u \in Users, Kill(u) PROVE Held' BY <1>12, KillHeld
<1> QED BY <1>1, <1>2, <1>3, <1>4, <1>5, <1>6, <1>7, <1>8, <1>9, <1>10, <1>11, <1>12 DEF Next

\* isdosending, or the HUD of a trip's page, is held only while a chain of the screen
\* that is looked at is under way, or since one of its writes was refused.
THEOREM HoldsExplained == Spec => []HeldExplained
<1>1. Spec => []Held
  BY InitTyped, StepTyped, InitHeld, StepHeld, PTL DEF Spec
<1>2. Held => HeldExplained BY DEF Held, Explained, HeldExplained
<1> QED BY <1>1, <1>2, PTL

-----------------------------------------------------------------------------
(* The newest of some writes *)

\* A set of naturals has a least element.
LEMMA LeastNat ==
  ASSUME NEW S \in SUBSET Nat, S # {}
  PROVE  \E n \in S : \A m \in S : n <= m
<1> DEFINE R == OpToRel(<, Nat)
<1>1. IsWellFoundedOn(R, Nat) BY NatLessThanWellFounded, Zenon
<1>2. \A m, n \in Nat : <<m, n>> \in R <=> m < n BY Zenon DEF OpToRel
<1> HIDE DEF R
<1>3. PICK n \in S : \A m \in S : ~(<<m, n>> \in R) BY <1>1, WFMin
<1>4. ASSUME NEW m \in S PROVE n <= m
  <2>1. m \in Nat /\ n \in Nat OBVIOUS
  <2>2. ~(m < n) BY <1>2, <1>3, <2>1
  <2> QED BY <2>1, <2>2
<1> QED BY <1>4

\* The greatest of some indices of a sequence.
LEMMA Greatest ==
  ASSUME NEW n \in Nat, NEW S \in SUBSET (1 .. n), S # {}
  PROVE  Max(S) \in S /\ \A j \in S : j <= Max(S)
<1> DEFINE T == {n - i : i \in S}
<1>1. \A i \in S : i \in Nat /\ i <= n /\ n - i \in Nat OBVIOUS
<1>2. PICK t \in T : \A m \in T : t <= m
  <2>1. T \in SUBSET Nat BY <1>1
  <2>2. T # {} OBVIOUS
  <2> QED BY <2>1, <2>2, LeastNat
<1>3. PICK i \in S : t = n - i BY <1>2
<1>4. \A j \in S : i >= j
  <2>1. SUFFICES ASSUME NEW j \in S PROVE i >= j OBVIOUS
  <2>2. n - i <= n - j BY <1>2, <1>3
  <2> QED BY <1>1, <2>2
<1>5. Max(S) \in S /\ \A j \in S : Max(S) >= j
  BY <1>4 DEF Max
<1>6. Max(S) \in Nat BY <1>1, <1>5
<1> QED BY <1>1, <1>5, <1>6

LEMMA SettingsFacts ==
  ASSUME NEW q \in Seq(Write)
  PROVE  /\ Len(q) \in Nat /\ DOMAIN q = 1 .. Len(q)
         /\ Settings(q) \in SUBSET (1 .. Len(q))
         /\ Settings(q) # {} =>
              /\ Max(Settings(q)) \in Settings(q)
              /\ \A j \in Settings(q) : j <= Max(Settings(q))
<1>1. Len(q) \in Nat /\ DOMAIN q = 1 .. Len(q) BY LenProperties
<1>2. Settings(q) \in SUBSET (1 .. Len(q)) BY <1>1 DEF Settings
<1> QED BY <1>1, <1>2, Greatest

\* Known is Written for one write after the other: with no write the entry itself ...
LEMMA KnownNone == ASSUME NEW e PROVE Known(e, <<>>) = e
<1>1. Settings(<<>>) = {} BY DEF Settings
<1> QED BY <1>1 DEF Known, Settled

\* ... and with one more write what that makes of it.
LEMMA KnownNext ==
  ASSUME NEW e \in Entries \cup {Unknown}, NEW q \in Seq(Write), NEW w \in Write
  PROVE  Known(e, Append(q, w)) = Written(Known(e, q), w)
<1> DEFINE n == Len(q) + 1
           r == Append(q, w)
<1>1. /\ Len(q) \in Nat /\ n = Len(q) + 1 /\ DOMAIN q = 1 .. Len(q) /\ DOMAIN r = 1 .. n
      /\ r[n] = w /\ \A i \in 1 .. Len(q) : r[i] = q[i] /\ i # n
  BY LenProperties, AppendProperties
<1>2. /\ Settings(q) \in SUBSET (1 .. Len(q))
      /\ Settings(q) # {} =>
           Max(Settings(q)) \in Settings(q) /\ \A j \in Settings(q) : j <= Max(Settings(q))
  BY SettingsFacts
<1> HIDE DEF n, r
<1>3. CASE w.step \in {"mine", "dropMine"}
  <2>1. n \in Settings(r) /\ \A j \in Settings(r) : j <= n
    BY <1>1, <1>3 DEF Settings
  <2>2. Max(Settings(r)) = n
    <3>1. r \in Seq(Write) BY DEF r
    <3>2. Max(Settings(r)) \in Settings(r) /\ n <= Max(Settings(r))
      BY <2>1, <3>1, SettingsFacts
    <3> QED BY <1>1, <2>1, <3>2 DEF Settings
  <2>3. Settled(e, r) = Written(e, w) BY <1>1, <2>1, <2>2 DEF Settled
  <2>4. ~ \E i \in DOMAIN r : r[i].step = "block" /\ \A j \in Settings(r) : j < i
    BY <1>1, <1>3, <2>1
  <2>5. Known(e, r) = Written(e, w) BY <2>3, <2>4 DEF Known
  <2>6. \A x : Written(x, w) = Written(e, w) BY <1>3 DEF Written
  <2> QED BY <2>5, <2>6 DEF r
<1>4. CASE w.step \notin {"mine", "dropMine"}
  <2>1. Settings(r) = Settings(q)
    BY <1>1, <1>4 DEF Settings
  <2>2. Settled(e, r) = Settled(e, q)
    BY <1>1, <1>2, <2>1 DEF Settled
  <2> DEFINE B(s) == \E i \in DOMAIN s : s[i].step = "block" /\ \A j \in Settings(s) : j < i
             k == Removal("block")
  <2>3. B(r) <=> B(q) \/ w.step = "block"
    <3>1. B(q) => B(r) BY <1>1, <2>1
    <3>2. w.step = "block" => B(r) BY <1>1, <1>2, <2>1
    <3>3. B(r) => B(q) \/ w.step = "block"
      <4>1. SUFFICES ASSUME NEW i \in DOMAIN r, r[i].step = "block", w.step # "block",
                            \A j \in Settings(r) : j < i
                     PROVE  B(q)
        OBVIOUS
      <4>2. i \in DOMAIN q /\ r[i] = q[i] BY <1>1, <4>1
      <4> QED BY <2>1, <4>1, <4>2
    <3> QED BY <3>1, <3>2, <3>3
  <2>4. \A x : Written(Written(x, k), k) = Written(x, k)
    BY DEF Written, Removal
  <2>5. /\ w.step = "block" => \A x : Written(x, w) = Written(x, k)
        /\ w.step # "block" => \A x : Written(x, w) = x
    BY <1>4 DEF Written, Removal
  <2>6. /\ Known(e, r) = IF B(r) THEN Written(Settled(e, q), k) ELSE Settled(e, q)
        /\ Known(e, q) = IF B(q) THEN Written(Settled(e, q), k) ELSE Settled(e, q)
    BY <2>2 DEF Known
  <2> HIDE DEF B, k
  <2> QED BY <2>3, <2>4, <2>5, <2>6 DEF r
<1> QED BY <1>3, <1>4

\* What a device knows of its entry is what it was told with its outstanding writes
\* applied one after the other, the oldest first: any f that applies them ends there.
THEOREM KnownInOrder ==
  ASSUME NEW e \in Entries \cup {Unknown}, NEW q \in Seq(Write),
         NEW f, f[0] = e, \A i \in DOMAIN q : f[i] = Written(f[i - 1], q[i])
  PROVE  f[Len(q)] = Known(e, q)
<1> DEFINE first(n) == SubSeq(q, 1, n)
           wrong == {n \in 0 .. Len(q) : f[n] # Known(e, first(n))}
<1>1. Len(q) \in Nat /\ DOMAIN q = 1 .. Len(q) /\ \A i \in DOMAIN q : q[i] \in Write
  BY LenProperties, ElementOfSeq
<1>2. first(0) = <<>> /\ first(Len(q)) = q
  BY <1>1, SubSeqEmpty, SubSeqFull
<1>3. ASSUME NEW n \in 1 .. Len(q)
      PROVE  first(n - 1) \in Seq(Write) /\ first(n) = Append(first(n - 1), q[n])
  <2>1. n \in Nat /\ n - 1 \in 0 .. Len(q) /\ n <= Len(q) BY <1>1
  <2>2. first(n - 1) \in Seq(Write) /\ Len(first(n - 1)) = n - 1
    BY <1>1, <2>1
  <2>3. first(n) = first(n - 1) \o SubSeq(q, n, n)
    BY <1>1, <2>1
  <2> QED BY <1>1, <2>1, <2>2, <2>3
<1>4. wrong = {}
  <2>1. SUFFICES ASSUME wrong # {} PROVE FALSE OBVIOUS
  <2>2. wrong \in SUBSET Nat BY <1>1
  <2>3. PICK n \in wrong : \A m \in wrong : n <= m BY <2>1, <2>2, LeastNat
  <2> HIDE DEF first
  <2>4. n # 0 BY <1>2, <2>3, KnownNone
  <2>5. n \in 1 .. Len(q) /\ n - 1 \in 0 .. Len(q) BY <1>1, <2>3, <2>4
  <2>6. f[n - 1] = Known(e, first(n - 1))
    <3>1. n - 1 \notin wrong
      <4>1. n \in Nat /\ n - 1 < n BY <1>1, <2>5
      <4> HIDE DEF wrong
      <4> QED BY <2>2, <2>3, <4>1
    <3> QED BY <2>5, <3>1
  <2>7. f[n] = Written(f[n - 1], q[n]) BY <1>1, <2>5
  <2>8. Known(e, first(n)) = Written(Known(e, first(n - 1)), q[n])
    <3>1. first(n - 1) \in Seq(Write) /\ first(n) = Append(first(n - 1), q[n])
      BY <1>3, <2>5
    <3>2. q[n] \in Write BY <1>1, <2>5
    <3> QED BY <3>1, <3>2, KnownNext, Zenon
  <2>9. f[n] # Known(e, first(n)) BY <2>3
  <2> HIDE DEF wrong
  <2> QED BY <2>6, <2>7, <2>8, <2>9, Zenon
<1> HIDE DEF first
<1>5. f[Len(q)] = Known(e, first(Len(q))) BY <1>1, <1>4
<1> QED BY <1>2, <1>5

\* With the removals of a chat the device knows of no entry.
LEMMA KnownRemoved ==
  ASSUME NEW e \in Entries \cup {Unknown}, NEW q \in Seq(Write)
  PROVE  Known(e, q \o Removals) = None
<1> DEFINE a == Removal("dropMine")
           b == Removal("dropTheirs")
           c == Removal("dropRoom")
<1>1. a \in Write /\ b \in Write /\ c \in Write BY RemovalTyped DEF Steps
<1>2. /\ Written(Known(e, q), a) = None
      /\ Written(None, b) = None /\ Written(None, c) = None
  BY DEF Written, Removal
<1>3. Removals = <<a, b, c>> BY DEF Removals
<1> HIDE DEF a, b, c
<1>4. /\ Append(q, a) \in Seq(Write) /\ Append(Append(q, a), b) \in Seq(Write)
      /\ q \o Removals = Append(Append(Append(q, a), b), c)
  BY <1>1, <1>3
<1>5. Known(e, Append(q, a)) = None BY <1>1, <1>2, KnownNext
<1>6. Known(e, Append(Append(q, a), b)) = None BY <1>1, <1>2, <1>4, <1>5, KnownNext
<1> QED BY <1>1, <1>2, <1>4, <1>6, KnownNext

-----------------------------------------------------------------------------
(* The rows *)

Fresh(u) ==
  at[u] = "list" /\ ~altered[u] =>
    rows[u] = IF View(u) \in Messages THEN <<View(u)>> ELSE <<>>

\* What one device does leaves the other's list as it was.
LEMMA FreshElsewhere ==
  ASSUME NEW v \in Users, Fresh(v), at'[v] = at[v], seen'[v] = seen[v],
         wire'[v] = wire[v], rows'[v] = rows[v], altered'[v] = altered[v]
  PROVE  Fresh(v)'
<1>1. View(v)' = View(v) BY DEF View
<1> QED BY <1>1, Zenon DEF Fresh

\* The listener keeps the rows with the entry, or notes that it changed.
LEMMA FreshListed ==
  ASSUME TypeOK, NEW u \in Users, Fresh(u), Listed(u), Noted(u),
         at'[u] = "list" => at[u] = "list"
  PROVE  Fresh(u)'
<1>1. /\ rows'[u] = IF View(u) = None /\ View(u)' \in Messages
                    THEN Append(rows[u], View(u)') ELSE rows[u]
      /\ altered'[u] = (altered[u] \/ (View(u) # None /\ View(u)' # View(u)))
  BY Zenon DEF TypeOK, Listed, Noted
<1>2. None \notin Messages BY DEF None, Messages
<1>3. SUFFICES ASSUME at'[u] = "list", ~altered'[u]
               PROVE  rows'[u] = IF View(u)' \in Messages THEN <<View(u)'>> ELSE <<>>
  BY DEF Fresh
<1>4. /\ View(u) = None \/ View(u)' = View(u)
      /\ rows[u] = IF View(u) \in Messages THEN <<View(u)>> ELSE <<>>
  BY <1>1, <1>3, Zenon DEF Fresh
<1>5. CASE View(u) = None
  <2>1. rows[u] = <<>> BY <1>2, <1>4, <1>5
  <2>2. Append(<<>>, View(u)') = <<View(u)'>> OBVIOUS
  <2> QED BY <1>1, <1>5, <2>1, <2>2, Zenon
<1>6. CASE View(u) # None BY <1>1, <1>4, <1>6
<1> QED BY <1>5, <1>6

\* A screen that is not the list shows no rows.
LEMMA FreshAway ==
  ASSUME NEW u, at'[u] # "list"
  PROVE  Fresh(u)'
BY DEF Fresh

LEMMA RowsFreshStep == TypeOK /\ RowsFresh /\ [Next]_vars => RowsFresh'
<1> SUFFICES ASSUME TypeOK, \A v \in Users : Fresh(v), [Next]_vars
             PROVE  \A v \in Users : Fresh(v)'
  BY DEF RowsFresh, Fresh
<1>1. CASE UNCHANGED vars
  BY <1>1, FreshElsewhere DEF vars, pages, list
<1>2. ASSUME NEW u \in Users, ShowList(u) PROVE \A v \in Users : Fresh(v)'
  <2>1. rows'[u] = IF View(u)' \in Messages THEN <<View(u)'>> ELSE <<>>
    <3>1. rows'[u] = IF View(u)' \in Messages THEN Append(<<>>, View(u)') ELSE <<>>
      BY <1>2, Zenon DEF ShowList, TypeOK, Emptied
    <3>2. Append(<<>>, View(u)') = <<View(u)'>> OBVIOUS
    <3> QED BY <3>1, <3>2, Zenon
  <2>2. Fresh(u)' BY <2>1, Zenon DEF Fresh
  <2>3. \A v \in Users : v # u =>
          /\ at'[v] = at[v] /\ seen'[v] = seen[v] /\ wire'[v] = wire[v]
          /\ rows'[v] = rows[v] /\ altered'[v] = altered[v]
    BY <1>2 DEF ShowList, Orphaned, TypeOK
  <2> QED BY <2>2, <2>3, FreshElsewhere
<1>3. ASSUME NEW u \in Users, NEW place \in {"away", "chat", "trip"}, Go(u, place),
             \A v \in Users : v # u => wire'[v] = wire[v]
      PROVE  \A v \in Users : Fresh(v)'
  <2>1. Fresh(u)' BY <1>3, FreshAway DEF Go, TypeOK
  <2>2. \A v \in Users : v # u =>
          /\ at'[v] = at[v] /\ seen'[v] = seen[v]
          /\ rows'[v] = rows[v] /\ altered'[v] = altered[v]
    BY <1>3 DEF Go, TypeOK
  <2> QED BY <1>3, <2>1, <2>2, FreshElsewhere
<1>4. ASSUME NEW u \in Users, OpenChat(u) \/ OpenTrip(u) \/ LeaveTrip(u) \/ Kill(u)
      PROVE  \A v \in Users : Fresh(v)'
  <2>1. \A v \in Users : v # u => wire'[v] = wire[v]
    BY <1>4 DEF OpenChat, OpenTrip, LeaveTrip, Kill, Orphaned, TypeOK
  <2> QED BY <1>3, <1>4, <2>1 DEF OpenChat, OpenTrip, LeaveTrip, Kill
<1>5. ASSUME NEW u \in Users, Send(u) PROVE \A v \in Users : Fresh(v)'
  <2>1. Fresh(u)' BY <1>5, FreshAway DEF Send
  <2>2. \A v \in Users : v # u =>
          /\ at'[v] = at[v] /\ seen'[v] = seen[v] /\ wire'[v] = wire[v]
          /\ rows'[v] = rows[v] /\ altered'[v] = altered[v]
    BY <1>5 DEF Send, Issue, list, TypeOK
  <2> QED BY <2>1, <2>2, FreshElsewhere
<1>6. ASSUME NEW u \in Users, NEW i \in DOMAIN rows[u], Delete(u, i)
      PROVE  \A v \in Users : Fresh(v)'
  <2>1. /\ wire'[u] = wire[u] \o Removals /\ rows'[u] = RemoveAt(rows[u], i)
        /\ at' = at /\ seen' = seen /\ altered' = altered
        /\ \A v \in Users : v # u => wire'[v] = wire[v] /\ rows'[v] = rows[v]
    BY <1>6 DEF Delete, Issue, pages, TypeOK
  <2>2. View(u)' = None
    <3>1. seen[u] \in Entries \cup {Unknown} /\ wire[u] \in Seq(Write) BY DEF TypeOK
    <3>2. Known(seen[u], wire[u] \o Removals) = None BY <3>1, KnownRemoved
    <3> QED BY <2>1, <3>2 DEF View
  <2>3. SUFFICES ASSUME at[u] = "list", ~altered[u] PROVE rows'[u] = <<>>
    <3>1. Fresh(u)' BY <2>1, <2>2, <2>3 DEF Fresh, None, Messages
    <3> QED BY <2>1, <3>1, FreshElsewhere
  <2>4. rows[u] = <<View(u)>>
    <3>1. rows[u] = IF View(u) \in Messages THEN <<View(u)>> ELSE <<>>
      BY <2>3 DEF Fresh
    <3>2. rows[u] # <<>> BY <1>6
    <3> QED BY <3>1, <3>2, Zenon
  <2>5. \A x : \A k \in DOMAIN <<x>> : RemoveAt(<<x>>, k) = <<>>
    BY DEF RemoveAt
  <2> QED BY <1>6, <2>1, <2>4, <2>5
<1>7. ASSUME NEW u \in Users, NEW i \in DOMAIN rows[u], Decline(u, i)
      PROVE  \A v \in Users : Fresh(v)'
  <2>1. altered'[u] BY <1>7 DEF Decline, TypeOK
  <2>2. Fresh(u)' BY <2>1, Zenon DEF Fresh
  <2>3. \A v \in Users : v # u =>
          /\ at'[v] = at[v] /\ seen'[v] = seen[v] /\ wire'[v] = wire[v]
          /\ rows'[v] = rows[v] /\ altered'[v] = altered[v]
    BY <1>7 DEF Decline, Issue, pages, TypeOK
  <2> QED BY <2>2, <2>3, FreshElsewhere
<1>8. ASSUME NEW u \in Users, Apply(u) \/ Drop(u) PROVE \A v \in Users : Fresh(v)'
  BY <1>8, FreshElsewhere DEF Apply, Drop, pages, list
<1>9. ASSUME NEW u \in Users, Tell(u) \/ Ack(u) \/ Refuse(u)
      PROVE  \A v \in Users : Fresh(v)'
  <2>1. Listed(u) /\ Noted(u) BY <1>9 DEF Tell, Ack, Refuse
  <2>2. /\ at'[u] = "list" => at[u] = "list"
        /\ \A v \in Users : v # u => at'[v] = at[v]
    <3>1. CASE Tell(u) \/ Refuse(u) BY <3>1 DEF Tell, Refuse, pages
    <3>2. CASE Ack(u)
      <4>1. at' = at \/ at' = [at EXCEPT ![u] = "away"]
        BY <3>2, AckWire DEF Freed, pages
      <4> QED BY <4>1 DEF TypeOK
    <3> QED BY <1>9, <3>1, <3>2
  <2>3. Fresh(u)' BY <2>1, <2>2, FreshListed
  <2>4. \A v \in Users : v # u => rows'[v] = rows[v] /\ altered'[v] = altered[v]
    BY <2>1, Zenon DEF Listed, Noted, TypeOK
  <2>5. \A v \in Users : v # u => seen'[v] = seen[v] /\ wire'[v] = wire[v]
    BY <1>9, AckWire DEF Tell, Ack, Refuse, TypeOK
  <2> QED BY <2>2, <2>3, <2>4, <2>5, FreshElsewhere
<1> QED BY <1>1, <1>2, <1>4, <1>5, <1>6, <1>7, <1>8, <1>9 DEF Next

\* The list on the screen has one row, with the message of the entry as the device
\* knows it, or none, until the entry changes or the row is declined.
THEOREM ListFresh == Spec => []RowsFresh
<1>1. Init => RowsFresh BY DEF Init, RowsFresh, ToAll
<1>2. Spec => [](TypeOK /\ RowsFresh)
  BY <1>1, InitTyped, StepTyped, RowsFreshStep, PTL DEF Spec
<1> QED BY <1>2, PTL

-----------------------------------------------------------------------------
(* What a device's writes will make of the room and the entries *)

Chain == {"message", "mine", "theirs"}
Drops == {"dropMine", "dropTheirs", "dropRoom"}
Stage(w) == CASE w.step = "message" -> 1 [] w.step = "mine" -> 2 [] OTHER -> 3

\* n messages were made so far.
Marked(q, n) ==
  \A i \in DOMAIN q : /\ q[i].msg <= n
                      /\ q[i].step \in Drops => q[i].msg = None
                      /\ q[i].step \in Chain => q[i].msg # None

\* No chat is deleted while a chain goes on, and no older message overtakes the newest.
Orderly(q, n) ==
  /\ \A i, j \in DOMAIN q :
       i < j /\ q[i].step \in {"message", "mine"} => q[j].step \notin Drops
  /\ \A i, j \in DOMAIN q :
       q[i].step \in Chain /\ q[i].msg = n /\ q[j].step \in Chain /\ q[j].msg # n =>
         Stage(q[i]) < Stage(q[j]) \/ (Stage(q[i]) = Stage(q[j]) /\ j < i)

\* The writes lead to t: the newest message, if the last of them is of a chain, nothing
\* if it is a removal.
Opens(q) == {i \in DOMAIN q : q[i].step # "block"}
Newest(q, n) == \E i \in DOMAIN q : q[i].step \in Chain /\ q[i].msg = n
Aim(q, n, t) ==
  \A i \in Opens(q) : (\A j \in Opens(q) : j <= i) =>
    \/ q[i].step \in Drops /\ t = None
    \/ q[i].step \in Chain /\ t = n /\ Newest(q, n)

\* x is t or will be: a write of `early` brings it later on, or no write of `steps`
\* touches it any more, or the last one that does writes t, and did so already if it
\* is among the first k.
Coming(q, t, early) == \E i \in DOMAIN q : q[i].step \in early /\ q[i].msg = t
Untouched(q, steps) == \A i \in DOMAIN q : q[i].step \notin steps
Landing(q, k, t, steps, x) ==
  \E i \in DOMAIN q : /\ q[i].step \in steps /\ q[i].msg = t /\ (i <= k => x = t)
                      /\ \A j \in DOMAIN q : q[j].step \in steps => j <= i
Comes(q, k, t, early, steps, x) ==
  \/ Coming(q, t, early)
  \/ x = t /\ Untouched(q, steps)
  \/ Landing(q, k, t, steps, x)

\* r is the newest message of the room, a and b the two lists' previews.
Follows(q, k, n, t, r, a, b) ==
  /\ Orderly(q, n) /\ Aim(q, n, t)
  /\ Comes(q, k, t, {}, {"message", "dropRoom"}, r)
  /\ Comes(q, k, t, {"message"}, {"mine", "dropMine"}, a)
  /\ Comes(q, k, t, {"message", "mine"}, {"theirs", "dropTheirs"}, b)

LEMMA Appended ==
  ASSUME NEW q \in Seq(Write), NEW w \in Write
  PROVE  /\ Append(q, w) \in Seq(Write) /\ Len(q) \in Nat /\ Len(Append(q, w)) = Len(q) + 1
         /\ DOMAIN q = 1 .. Len(q) /\ DOMAIN Append(q, w) = 1 .. Len(q) + 1
         /\ Append(q, w)[Len(q) + 1] = w
         /\ \A i \in 1 .. Len(q) : Append(q, w)[i] = q[i]
BY LenProperties, AppendProperties

LEMMA Behead ==
  ASSUME NEW q \in Seq(Write), q # <<>>
  PROVE  /\ Tail(q) \in Seq(Write) /\ Len(q) \in Nat \ {0} /\ Len(Tail(q)) = Len(q) - 1
         /\ DOMAIN q = 1 .. Len(q) /\ DOMAIN Tail(q) = 1 .. Len(q) - 1
         /\ Head(q) = q[1] /\ Head(q) \in Write
         /\ \A i \in 1 .. Len(q) - 1 : Tail(q)[i] = q[i + 1]
BY LenProperties, HeadTailProperties

LEMMA Typed == ASSUME NEW q \in Seq(Write), NEW i \in DOMAIN q
               PROVE  q[i] \in Write /\ i \in Nat /\ q[i].step \in Steps
                      /\ q[i].msg \in {None} \cup Messages
<1>1. q[i] \in Write /\ i \in Nat BY LenProperties, ElementOfSeq
<1> QED BY <1>1 DEF Write

\* One more write.
LEMMA ComesIssued ==
  ASSUME NEW q \in Seq(Write), NEW w \in Write, NEW k \in Nat, k <= Len(q),
         NEW t, NEW early, NEW steps, NEW x
  PROVE  /\ Comes(q, k, t, early, steps, x) /\ w.step \notin steps =>
              Comes(Append(q, w), k, t, early, steps, x)
         /\ w.step \in steps /\ w.msg = t => Comes(Append(q, w), k, t, early, steps, x)
         /\ w.step \in early /\ w.msg = t => Comes(Append(q, w), k, t, early, steps, x)
         /\ Coming(q, t, early) => Comes(Append(q, w), k, t, early, steps, x)
<1> DEFINE r == Append(q, w)
           n == Len(q) + 1
<1>1. /\ Len(q) \in Nat /\ n = Len(q) + 1 /\ DOMAIN q = 1 .. Len(q) /\ DOMAIN r = 1 .. n
      /\ r[n] = w /\ \A i \in 1 .. Len(q) : r[i] = q[i]
  BY Appended
<1> HIDE DEF r, n
<1>2. Coming(q, t, early) => Coming(r, t, early)
  BY <1>1 DEF Coming
<1>3. ASSUME Untouched(q, steps), w.step \notin steps PROVE Untouched(r, steps)
  BY <1>1, <1>3 DEF Untouched
<1>4. ASSUME Landing(q, k, t, steps, x), w.step \notin steps
      PROVE  Landing(r, k, t, steps, x)
  <2>1. PICK i \in DOMAIN q :
          /\ q[i].step \in steps /\ q[i].msg = t /\ (i <= k => x = t)
          /\ \A j \in DOMAIN q : q[j].step \in steps => j <= i
    BY <1>4 DEF Landing
  <2>2. i \in DOMAIN r /\ r[i] = q[i] BY <1>1
  <2>3. \A j \in DOMAIN r : r[j].step \in steps => j <= i
    BY <1>1, <1>4, <2>1
  <2> QED BY <2>1, <2>2, <2>3 DEF Landing
<1>5. ASSUME w.step \in steps, w.msg = t PROVE Landing(r, k, t, steps, x)
  <2>1. n \in DOMAIN r /\ r[n] = w /\ ~(n <= k) /\ \A j \in DOMAIN r : j <= n
    BY <1>1
  <2> QED BY <1>5, <2>1 DEF Landing
<1>6. ASSUME w.step \in early, w.msg = t PROVE Coming(r, t, early)
  BY <1>1, <1>6 DEF Coming
<1> QED BY <1>2, <1>3, <1>4, <1>5, <1>6 DEF Comes, r

\* The oldest write is gone: it was handled, or it touched nothing.
LEMMA ComesLess ==
  ASSUME NEW q \in Seq(Write), q # <<>>, NEW k \in Nat, NEW m \in Nat,
         NEW t, NEW early, NEW steps, NEW x,
         Head(q).step \in early => Head(q).msg # t,
         k = m + 1 \/ (k = 0 /\ m = 0 /\ Head(q).step \notin steps),
         Comes(q, k, t, early, steps, x)
  PROVE  Comes(Tail(q), m, t, early, steps, x)
<1> DEFINE r == Tail(q)
           n == Len(q)
<1>1. /\ n \in Nat \ {0} /\ DOMAIN q = 1 .. n /\ DOMAIN r = 1 .. n - 1
      /\ Head(q) = q[1] /\ \A i \in 1 .. n - 1 : r[i] = q[i + 1]
  BY Behead
<1> HIDE DEF r, n
<1>2. ASSUME NEW i \in DOMAIN q, i # 1
      PROVE  i - 1 \in DOMAIN r /\ r[i - 1] = q[i]
  <2>1. i - 1 \in 1 .. n - 1 /\ (i - 1) + 1 = i BY <1>1, <1>2
  <2> QED BY <1>1, <2>1
<1>3. ASSUME NEW i \in DOMAIN r
      PROVE  i + 1 \in DOMAIN q /\ r[i] = q[i + 1] /\ i \in Nat
  BY <1>1
<1>4. CASE Coming(q, t, early)
  <2>1. PICK i \in DOMAIN q : q[i].step \in early /\ q[i].msg = t
    BY <1>4 DEF Coming
  <2>2. i # 1 BY <1>1, <2>1
  <2>3. Coming(r, t, early) BY <1>2, <2>1, <2>2 DEF Coming
  <2> QED BY <2>3 DEF Comes, r
<1>5. CASE x = t /\ Untouched(q, steps)
  <2>1. Untouched(r, steps) BY <1>3, <1>5 DEF Untouched
  <2> QED BY <1>5, <2>1 DEF Comes, r
<1>6. CASE Landing(q, k, t, steps, x)
  <2>1. PICK i \in DOMAIN q :
          /\ q[i].step \in steps /\ q[i].msg = t /\ (i <= k => x = t)
          /\ \A j \in DOMAIN q : q[j].step \in steps => j <= i
    BY <1>6 DEF Landing
  <2>2. CASE i = 1
    <3>1. x = t BY <1>1, <2>1, <2>2
    <3>2. Untouched(r, steps)
      <4>1. SUFFICES ASSUME NEW j \in DOMAIN r, r[j].step \in steps PROVE FALSE
        BY DEF Untouched
      <4>2. j + 1 <= 1 BY <1>3, <2>1, <2>2, <4>1
      <4> QED BY <1>1, <4>2
    <3> QED BY <3>1, <3>2 DEF Comes, r
  <2>3. CASE i # 1
    <3>1. i - 1 \in DOMAIN r /\ r[i - 1] = q[i] /\ i \in Nat BY <1>1, <1>2, <2>3
    <3>2. i - 1 <= m => x = t
      BY <2>1, <2>3, <3>1
    <3>3. \A j \in DOMAIN r : r[j].step \in steps => j <= i - 1
      <4>1. SUFFICES ASSUME NEW j \in DOMAIN r, r[j].step \in steps PROVE j <= i - 1
        OBVIOUS
      <4>2. j + 1 <= i /\ j \in Nat BY <1>3, <2>1, <4>1
      <4> QED BY <3>1, <4>2
    <3>4. Landing(r, m, t, steps, x) BY <2>1, <3>1, <3>2, <3>3 DEF Landing
    <3> QED BY <3>4 DEF Comes, r
  <2> QED BY <2>2, <2>3
<1> QED BY <1>4, <1>5, <1>6 DEF Comes

\* One more write is handled.
LEMMA ComesHandled ==
  ASSUME NEW q \in Seq(Write), NEW k \in Nat, k + 1 \in DOMAIN q,
         NEW t, NEW early, NEW steps, NEW x, NEW y,
         q[k + 1].step \notin steps => y = x,
         q[k + 1].step \in steps /\ q[k + 1].msg = t => y = t,
         Comes(q, k, t, early, steps, x)
  PROVE  Comes(q, k + 1, t, early, steps, y)
<1>1. DOMAIN q = 1 .. Len(q) /\ Len(q) \in Nat BY LenProperties
<1>2. CASE Coming(q, t, early) BY <1>2 DEF Comes
<1>3. CASE x = t /\ Untouched(q, steps) BY <1>3 DEF Comes, Untouched
<1>4. CASE Landing(q, k, t, steps, x)
  <2>1. PICK i \in DOMAIN q :
          /\ q[i].step \in steps /\ q[i].msg = t /\ (i <= k => x = t)
          /\ \A j \in DOMAIN q : q[j].step \in steps => j <= i
    BY <1>4 DEF Landing
  <2>2. i \in Nat BY <1>1
  <2>3. i <= k + 1 => y = t
    <3>1. CASE i = k + 1 BY <2>1, <3>1
    <3>2. CASE i <= k
      <4>1. q[k + 1].step \notin steps BY <2>1, <2>2, <3>2
      <4> QED BY <2>1, <3>2, <4>1
    <3> QED BY <2>2, <3>1, <3>2
  <2>4. Landing(q, k + 1, t, steps, y) BY <2>1, <2>3 DEF Landing
  <2> QED BY <2>4 DEF Comes
<1> QED BY <1>2, <1>3, <1>4 DEF Comes

\* What was handled is handled again.
LEMMA ComesAgain ==
  ASSUME NEW q \in Seq(Write), NEW k \in Nat, NEW t, NEW early, NEW steps, NEW x,
         Comes(q, k, t, early, steps, x)
  PROVE  Comes(q, 0, t, early, steps, x)
<1>1. \A i \in DOMAIN q : i <= 0 => i <= k BY LenProperties
<1>2. Landing(q, k, t, steps, x) => Landing(q, 0, t, steps, x)
  BY <1>1 DEF Landing
<1> QED BY <1>2 DEF Comes

\* A write of a chain or a removal, or one that nothing is told by.
LEMMA StepKinds ==
  ASSUME NEW w \in Write
  PROVE  /\ w.step \in Chain \/ w.step \in Drops \/ w.step = "block"
         /\ ~(w.step \in Chain /\ w.step \in Drops)
         /\ w.step = "block" => w.step \notin Chain /\ w.step \notin Drops
         /\ Stage(w) \in {1, 2, 3}
BY DEF Write, Steps, Chain, Drops, Stage

LEMMA LastOpen ==
  ASSUME NEW q \in Seq(Write), Opens(q) # {}
  PROVE  \E i \in Opens(q) : \A j \in Opens(q) : j <= i
<1>1. Len(q) \in Nat /\ Opens(q) \in SUBSET (1 .. Len(q)) BY LenProperties DEF Opens
<1> QED BY <1>1, Greatest

\* The writes lead to the newest message or to nothing.
LEMMA AimEither ==
  ASSUME NEW q \in Seq(Write), NEW n, NEW t, Aim(q, n, t), Opens(q) # {}
  PROVE  t = n \/ t = None
BY LastOpen DEF Aim

\* While the oldest write is one of a chain that goes on they lead to the newest message.
LEMMA AimGoing ==
  ASSUME NEW q \in Seq(Write), NEW n, NEW t, Orderly(q, n), Aim(q, n, t),
         q # <<>>, Head(q).step \in {"message", "mine"}
  PROVE  t = n /\ Newest(q, n)
<1>1. 1 \in DOMAIN q /\ Head(q) = q[1] BY Behead
<1>2. 1 \in Opens(q) BY <1>1 DEF Opens
<1>3. PICK i \in Opens(q) : \A j \in Opens(q) : j <= i BY <1>2, LastOpen
<1>4. i \in DOMAIN q /\ i \in Nat BY <1>3, Typed DEF Opens
<1>5. q[i].step \notin Drops
  <2>1. CASE i = 1 BY <1>1, <2>1 DEF Drops
  <2>2. CASE i # 1
    <3>1. 1 < i BY <1>4, <2>2, LenProperties
    <3> QED BY <1>1, <1>4, <3>1 DEF Orderly
  <2> QED BY <2>1, <2>2
<1> QED BY <1>3, <1>5 DEF Aim

\* Without a write that matters everything is in place.
LEMMA Quiet ==
  ASSUME NEW q \in Seq(Write), Opens(q) = {}, NEW n
  PROVE  /\ Orderly(q, n)
         /\ \A k, t, r, a, b :
              Follows(q, k, n, t, r, a, b) <=> r = t /\ a = t /\ b = t
<1>1. \A i \in DOMAIN q : q[i].step = "block" BY DEF Opens
<1>2. Orderly(q, n) BY <1>1 DEF Orderly, Chain
<1>3. \A t : Aim(q, n, t) BY DEF Aim
<1>4. ASSUME NEW k, NEW t, NEW early, NEW steps, NEW x,
             "block" \notin early, "block" \notin steps
      PROVE  Comes(q, k, t, early, steps, x) <=> x = t
  BY <1>1, <1>4 DEF Comes, Coming, Untouched, Landing
<1>5. \A k, t, r, a, b :
        /\ Comes(q, k, t, {}, {"message", "dropRoom"}, r) <=> r = t
        /\ Comes(q, k, t, {"message"}, {"mine", "dropMine"}, a) <=> a = t
        /\ Comes(q, k, t, {"message", "mine"}, {"theirs", "dropTheirs"}, b) <=> b = t
  BY <1>4
<1> QED BY <1>2, <1>3, <1>5 DEF Follows

\* Two writes of one more than was there: the conditions on pairs.
LEMMA OrderlyIssued ==
  ASSUME NEW q \in Seq(Write), NEW w \in Write, NEW n, Orderly(q, n),
         w.step \in Drops => \A i \in DOMAIN q : q[i].step \notin {"message", "mine"},
         w.step \in Chain /\ w.msg = n =>
           \A j \in DOMAIN q : q[j].step \in Chain /\ q[j].msg # n => Stage(w) <= Stage(q[j]),
         w.step \in Chain /\ w.msg # n =>
           \A i \in DOMAIN q : q[i].step \in Chain /\ q[i].msg = n => Stage(q[i]) < Stage(w)
  PROVE  Orderly(Append(q, w), n)
<1> DEFINE r == Append(q, w)
           m == Len(q) + 1
<1>1. /\ Len(q) \in Nat /\ m = Len(q) + 1 /\ DOMAIN q = 1 .. Len(q) /\ DOMAIN r = 1 .. m
      /\ r[m] = w /\ \A i \in 1 .. Len(q) : r[i] = q[i]
  BY Appended
<1> HIDE DEF r, m
<1>2. ASSUME NEW i \in DOMAIN r, i # m PROVE i \in DOMAIN q /\ r[i] = q[i] /\ i < m
  BY <1>1, <1>2
<1>3. ASSUME NEW i \in DOMAIN r, NEW j \in DOMAIN r, i < j, r[i].step \in {"message", "mine"}
      PROVE  r[j].step \notin Drops
  <2>1. i # m BY <1>1, <1>3
  <2>2. i \in DOMAIN q /\ r[i] = q[i] BY <1>2, <2>1
  <2>3. CASE j = m BY <1>1, <1>3, <2>2, <2>3
  <2>4. CASE j # m
    <3>1. j \in DOMAIN q /\ r[j] = q[j] BY <1>2, <2>4
    <3> QED BY <1>3, <2>2, <3>1 DEF Orderly
  <2> QED BY <2>3, <2>4
<1>4. ASSUME NEW i \in DOMAIN r, NEW j \in DOMAIN r,
             r[i].step \in Chain, r[i].msg = n, r[j].step \in Chain, r[j].msg # n
      PROVE  Stage(r[i]) < Stage(r[j]) \/ (Stage(r[i]) = Stage(r[j]) /\ j < i)
  <2>1. i # j BY <1>4
  <2>2. CASE i = m
    <3>1. j \in DOMAIN q /\ r[j] = q[j] /\ j < i BY <1>2, <2>1, <2>2
    <3>2. Stage(w) <= Stage(q[j]) BY <1>1, <1>4, <2>2, <3>1
    <3>3. Stage(w) \in {1, 2, 3} /\ Stage(q[j]) \in {1, 2, 3}
      BY <3>1, Typed, StepKinds
    <3> QED BY <1>1, <2>2, <3>1, <3>2, <3>3
  <2>3. CASE j = m
    <3>1. i \in DOMAIN q /\ r[i] = q[i] BY <1>2, <2>1, <2>3
    <3> QED BY <1>1, <1>4, <2>3, <3>1
  <2>4. CASE i # m /\ j # m
    <3>1. i \in DOMAIN q /\ r[i] = q[i] /\ j \in DOMAIN q /\ r[j] = q[j] BY <1>2, <2>4
    <3> QED BY <1>4, <3>1 DEF Orderly
  <2> QED BY <2>2, <2>3, <2>4
<1>5. Orderly(r, n) BY <1>3, <1>4 DEF Orderly
<1> QED BY <1>5 DEF r

\* The oldest write gone.
LEMMA OrderlyLess ==
  ASSUME NEW q \in Seq(Write), q # <<>>, NEW n, Orderly(q, n)
  PROVE  Orderly(Tail(q), n)
<1> DEFINE r == Tail(q)
<1>1. \A i \in DOMAIN r : i \in Nat /\ i + 1 \in DOMAIN q /\ r[i] = q[i + 1]
  BY Behead
<1> HIDE DEF r
<1>2. ASSUME NEW i \in DOMAIN r, NEW j \in DOMAIN r, i < j, r[i].step \in {"message", "mine"}
      PROVE  r[j].step \notin Drops
  <2>1. i + 1 < j + 1 BY <1>1, <1>2
  <2> QED BY <1>1, <1>2, <2>1 DEF Orderly
<1>3. ASSUME NEW i \in DOMAIN r, NEW j \in DOMAIN r,
             r[i].step \in Chain, r[i].msg = n, r[j].step \in Chain, r[j].msg # n
      PROVE  Stage(r[i]) < Stage(r[j]) \/ (Stage(r[i]) = Stage(r[j]) /\ j < i)
  <2>1. Stage(r[i]) < Stage(r[j]) \/ (Stage(r[i]) = Stage(r[j]) /\ j + 1 < i + 1)
    BY <1>1, <1>3 DEF Orderly
  <2> QED BY <1>1, <2>1
<1>4. Orderly(r, n) BY <1>2, <1>3 DEF Orderly
<1> QED BY <1>4 DEF r

\* One more write that does not matter.
LEMMA AimBlocked ==
  ASSUME NEW q \in Seq(Write), NEW w \in Write, w.step = "block", NEW n, NEW t, Aim(q, n, t)
  PROVE  Aim(Append(q, w), n, t)
<1> DEFINE r == Append(q, w)
<1>1. \A i \in DOMAIN q : i \in DOMAIN r /\ r[i] = q[i]
  BY Appended
<1>2. \A i \in DOMAIN r : r[i].step # "block" => i \in DOMAIN q
  BY Appended
<1> HIDE DEF r
<1>3. Opens(r) = Opens(q) BY <1>1, <1>2 DEF Opens
<1>4. Newest(q, n) => Newest(r, n) BY <1>1 DEF Newest
<1>5. \A i \in Opens(q) : r[i] = q[i] BY <1>1 DEF Opens
<1>6. Aim(r, n, t) BY <1>3, <1>4, <1>5 DEF Aim
<1> QED BY <1>6 DEF r

\* One more write that matters is the last of them.
LEMMA AimIssued ==
  ASSUME NEW q \in Seq(Write), NEW w \in Write, w.step # "block", NEW n, NEW t,
         \/ w.step \in Drops /\ t = None
         \/ w.step \in Chain /\ t = n /\ (w.msg = n \/ Newest(q, n))
  PROVE  Aim(Append(q, w), n, t)
<1> DEFINE r == Append(q, w)
           m == Len(q) + 1
<1>1. /\ Len(q) \in Nat /\ m = Len(q) + 1 /\ DOMAIN q = 1 .. Len(q) /\ DOMAIN r = 1 .. m
      /\ r[m] = w /\ \A i \in 1 .. Len(q) : r[i] = q[i]
  BY Appended
<1> HIDE DEF r, m
<1>2. m \in Opens(r) BY <1>1 DEF Opens
<1>3. Newest(q, n) => Newest(r, n) BY <1>1 DEF Newest
<1>4. w.step \in Chain /\ w.msg = n => Newest(r, n) BY <1>1 DEF Newest
<1>5. ASSUME NEW i \in Opens(r), \A j \in Opens(r) : j <= i PROVE i = m
  BY <1>1, <1>2, <1>5 DEF Opens
<1>6. Aim(r, n, t) BY <1>1, <1>3, <1>4, <1>5 DEF Aim
<1> QED BY <1>6 DEF r

\* The oldest write gone: the end of a chain, a removal or one that does not matter.
LEMMA AimLess ==
  ASSUME NEW q \in Seq(Write), q # <<>>, NEW n, NEW t, Orderly(q, n), Aim(q, n, t),
         Head(q).step \notin {"message", "mine"}
  PROVE  Aim(Tail(q), n, t)
<1> DEFINE r == Tail(q)
           l == Len(q)
<1>1. /\ l \in Nat \ {0} /\ DOMAIN q = 1 .. l /\ DOMAIN r = 1 .. l - 1
      /\ Head(q) = q[1] /\ \A i \in 1 .. l - 1 : r[i] = q[i + 1]
  BY Behead
<1>0. /\ \A i \in DOMAIN q : q[i] \in Write
      /\ Head(q) \in Write
  BY Typed, Behead
<1> HIDE DEF r, l
<1>2. SUFFICES ASSUME NEW i \in Opens(r), \A j \in Opens(r) : j <= i
               PROVE  \/ r[i].step \in Drops /\ t = None
                      \/ r[i].step \in Chain /\ t = n /\ Newest(r, n)
  BY DEF Aim, r
<1>3. i \in Nat /\ i \in DOMAIN r /\ r[i] = q[i + 1] /\ i + 1 \in Opens(q)
  BY <1>1 DEF Opens
<1>4. \A j \in Opens(q) : j <= i + 1
  <2>1. SUFFICES ASSUME NEW j \in Opens(q), j # 1 PROVE j <= i + 1
    BY <1>3
  <2>2. j - 1 \in 1 .. l - 1 /\ (j - 1) + 1 = j /\ j \in Nat BY <1>1, <2>1 DEF Opens
  <2>3. j - 1 \in Opens(r) BY <1>1, <2>2 DEF Opens
  <2> QED BY <1>2, <1>3, <2>2, <2>3
<1>5. \/ r[i].step \in Drops /\ t = None
      \/ r[i].step \in Chain /\ t = n /\ Newest(q, n)
  BY <1>3, <1>4 DEF Aim
<1>6. ASSUME r[i].step \in Chain, Newest(q, n) PROVE Newest(r, n)
  <2>1. PICK j \in DOMAIN q : q[j].step \in Chain /\ q[j].msg = n BY <1>6 DEF Newest
  <2>2. CASE j # 1
    <3>1. j - 1 \in 1 .. l - 1 /\ (j - 1) + 1 = j BY <1>1, <2>2
    <3>2. j - 1 \in DOMAIN r /\ r[j - 1] = q[j] BY <1>1, <3>1
    <3> QED BY <2>1, <3>2 DEF Newest
  <2>3. CASE j = 1
    <3>1. q[1].step = "theirs" BY <1>1, <2>1, <2>3 DEF Chain
    <3>2. Stage(q[1]) = 3 BY <3>1 DEF Stage
    <3>3. r[i].msg = n
      <4>1. SUFFICES ASSUME r[i].msg # n PROVE FALSE OBVIOUS
      <4>2. i + 1 \in DOMAIN q /\ 1 \in DOMAIN q BY <1>3, <1>1 DEF Opens
      <4>3. Stage(q[1]) < Stage(q[i + 1]) \/ (Stage(q[1]) = Stage(q[i + 1]) /\ i + 1 < 1)
        BY <1>3, <1>6, <2>1, <2>3, <4>1, <4>2 DEF Orderly
      <4>4. Stage(q[i + 1]) \in {1, 2, 3} BY <1>0, <4>2, StepKinds
      <4> QED BY <1>3, <3>2, <4>3, <4>4
    <3> QED BY <1>3, <1>6, <3>3 DEF Newest
  <2> QED BY <2>2, <2>3
<1> QED BY <1>5, <1>6

\* The write a completion makes.
Later(w) == [w EXCEPT !.step = IF w.step = "message" THEN "mine" ELSE "theirs"]

LEMMA LaterFacts ==
  ASSUME NEW w \in Write, w.step \in {"message", "mine"}
  PROVE  /\ NextWrite(w) = <<Later(w)>> /\ Later(w) \in Write /\ Later(w).msg = w.msg
         /\ Later(w).step = IF w.step = "message" THEN "mine" ELSE "theirs"
         /\ Stage(Later(w)) = Stage(w) + 1
<1>1. CASE w.step = "message" BY <1>1 DEF NextWrite, Later, Write, Steps, Stage
<1>2. CASE w.step = "mine" BY <1>2 DEF NextWrite, Later, Write, Steps, Stage
<1> QED BY <1>1, <1>2

\* isBlock, which is no part of what is shown.
LEMMA FollowsBlocked ==
  ASSUME NEW q \in Seq(Write), NEW w \in Write, w.step = "block",
         NEW k \in Nat, k <= Len(q), NEW n, NEW t, NEW r, NEW a, NEW b,
         Follows(q, k, n, t, r, a, b)
  PROVE  Follows(Append(q, w), k, n, t, r, a, b)
<1>1. Orderly(Append(q, w), n)
  BY OrderlyIssued DEF Follows, Chain, Drops
<1>2. Aim(Append(q, w), n, t) BY AimBlocked DEF Follows
<1>3. w.step \notin {"message", "dropRoom"} /\ w.step \notin {"mine", "dropMine"}
      /\ w.step \notin {"theirs", "dropTheirs"}
  OBVIOUS
<1> QED BY <1>1, <1>2, <1>3, ComesIssued DEF Follows

\* The three removals of a chat, when no chain goes on.
LEMMA FollowsRemoved ==
  ASSUME NEW q \in Seq(Write), NEW k \in Nat, k <= Len(q), NEW n, Orderly(q, n),
         \A i \in DOMAIN q : q[i].step \notin {"message", "mine"},
         NEW r, NEW a, NEW b
  PROVE  Follows(q \o Removals, k, n, None, r, a, b)
<1> DEFINE x == Removal("dropMine")
           y == Removal("dropTheirs")
           z == Removal("dropRoom")
           q1 == Append(q, x)
           q2 == Append(q1, y)
           q3 == Append(q2, z)
<1>1. x \in Write /\ y \in Write /\ z \in Write BY RemovalTyped DEF Steps
<1>2. /\ x.step = "dropMine" /\ y.step = "dropTheirs" /\ z.step = "dropRoom"
      /\ x.msg = None /\ y.msg = None /\ z.msg = None
  BY DEF Removal
<1>3. Removals = <<x, y, z>> BY DEF Removals
<1> HIDE DEF x, y, z
<1>4. q \o Removals = q3 BY <1>1, <1>3
<1> HIDE DEF q1, q2, q3
<1>5. ASSUME NEW p \in Seq(Write), Orderly(p, n), NEW w \in Write, w.step \in Drops,
             \A i \in DOMAIN p : p[i].step \notin {"message", "mine"}
      PROVE  /\ Append(p, w) \in Seq(Write) /\ Orderly(Append(p, w), n)
             /\ \A i \in DOMAIN Append(p, w) : Append(p, w)[i].step \notin {"message", "mine"}
             /\ Len(Append(p, w)) = Len(p) + 1 /\ Len(p) \in Nat
  <2>1. w.step \notin Chain /\ w.step \notin {"message", "mine"}
    BY <1>5 DEF Drops, Chain
  <2>2. Orderly(Append(p, w), n) BY <1>5, <2>1, OrderlyIssued
  <2>3. /\ Append(p, w) \in Seq(Write) /\ Len(Append(p, w)) = Len(p) + 1 /\ Len(p) \in Nat
        /\ \A i \in DOMAIN Append(p, w) :
             Append(p, w)[i] = w \/ (i \in DOMAIN p /\ Append(p, w)[i] = p[i])
    BY Appended
  <2> QED BY <1>5, <2>1, <2>2, <2>3
<1>6. /\ q1 \in Seq(Write) /\ Orderly(q1, n) /\ k <= Len(q1)
      /\ \A i \in DOMAIN q1 : q1[i].step \notin {"message", "mine"}
  BY <1>1, <1>2, <1>5 DEF Drops, q1
<1>7. /\ q2 \in Seq(Write) /\ Orderly(q2, n) /\ k <= Len(q2)
      /\ \A i \in DOMAIN q2 : q2[i].step \notin {"message", "mine"}
  BY <1>1, <1>2, <1>5, <1>6 DEF Drops, q2
<1>8. q3 \in Seq(Write) /\ Orderly(q3, n)
  BY <1>1, <1>2, <1>5, <1>7 DEF Drops, q3
<1>9. Aim(q3, n, None)
  BY <1>1, <1>2, <1>7, AimIssued DEF Drops, q3
<1>10. Comes(q3, k, None, {}, {"message", "dropRoom"}, r)
  BY <1>1, <1>2, <1>7, ComesIssued DEF q3
<1>11. Comes(q3, k, None, {"message"}, {"mine", "dropMine"}, a)
  <2>1. Comes(q1, k, None, {"message"}, {"mine", "dropMine"}, a)
    BY <1>1, <1>2, ComesIssued DEF q1
  <2>2. Comes(q2, k, None, {"message"}, {"mine", "dropMine"}, a)
    BY <1>1, <1>2, <1>6, <2>1, ComesIssued DEF q2
  <2> QED BY <1>1, <1>2, <1>7, <2>2, ComesIssued DEF q3
<1>12. Comes(q3, k, None, {"message", "mine"}, {"theirs", "dropTheirs"}, b)
  <2>1. Comes(q2, k, None, {"message", "mine"}, {"theirs", "dropTheirs"}, b)
    BY <1>1, <1>2, <1>6, ComesIssued DEF q2
  <2> QED BY <1>1, <1>2, <1>7, <2>1, ComesIssued DEF q3
<1> QED BY <1>4, <1>8, <1>9, <1>10, <1>11, <1>12 DEF Follows

\* A new message.
LEMMA FollowsSent ==
  ASSUME NEW q \in Seq(Write), NEW w \in Write, NEW n \in Nat,
         w.step = "message", w.msg = n + 1, Orderly(q, n), Marked(q, n),
         NEW k \in Nat, k <= Len(q), NEW r, NEW a, NEW b
  PROVE  Follows(Append(q, w), k, n + 1, n + 1, r, a, b)
<1>1. \A i \in DOMAIN q : q[i].msg # n + 1
  <2>1. \A i \in DOMAIN q : q[i].msg <= n /\ q[i].msg \in Nat
    BY Typed DEF Marked, None, Messages
  <2> QED BY <2>1
<1>2. Orderly(q, n + 1)
  BY <1>1 DEF Orderly
<1>3. w.step \in Chain /\ w.step \notin Drops /\ Stage(w) = 1
  BY DEF Chain, Drops, Stage
<1>4. Orderly(Append(q, w), n + 1)
  <2>1. \A j \in DOMAIN q : Stage(w) <= Stage(q[j]) BY <1>3, Typed, StepKinds
  <2> QED BY <1>1, <1>2, <1>3, <2>1, OrderlyIssued
<1>5. Aim(Append(q, w), n + 1, n + 1)
  BY <1>3, AimIssued
<1> QED BY <1>4, <1>5, ComesIssued DEF Follows

\* The oldest write gone, the end of a chain, a removal or one that does not matter.
LEMMA FollowsLess ==
  ASSUME NEW q \in Seq(Write), q # <<>>, Head(q).step \notin {"message", "mine"},
         NEW k \in Nat, NEW m \in Nat,
         k = m + 1 \/ (k = 0 /\ m = 0 /\ Head(q).step = "block"),
         NEW n, NEW t, NEW r, NEW a, NEW b, Follows(q, k, n, t, r, a, b)
  PROVE  Follows(Tail(q), m, n, t, r, a, b)
<1>1. Orderly(Tail(q), n) BY OrderlyLess DEF Follows
<1>2. Aim(Tail(q), n, t) BY AimLess DEF Follows
<1>3. ASSUME NEW early \in SUBSET {"message", "mine"}, NEW steps, "block" \notin steps,
             NEW x, Comes(q, k, t, early, steps, x)
      PROVE  Comes(Tail(q), m, t, early, steps, x)
  <2>1. Head(q).step \notin early OBVIOUS
  <2>2. k = m + 1 \/ (k = 0 /\ m = 0 /\ Head(q).step \notin steps) BY <1>3
  <2> QED BY <1>3, <2>1, <2>2, ComesLess
<1>4. /\ Comes(Tail(q), m, t, {}, {"message", "dropRoom"}, r)
      /\ Comes(Tail(q), m, t, {"message"}, {"mine", "dropMine"}, a)
      /\ Comes(Tail(q), m, t, {"message", "mine"}, {"theirs", "dropTheirs"}, b)
  BY <1>3 DEF Follows
<1> QED BY <1>1, <1>2, <1>4 DEF Follows

\* The oldest write gone and the next one of its chain made.
LEMMA FollowsNext ==
  ASSUME NEW q \in Seq(Write), q # <<>>, Head(q).step \in {"message", "mine"},
         NEW k \in Nat, NEW m \in Nat, k = m + 1, k <= Len(q),
         NEW n, NEW t, NEW r, NEW a, NEW b, Follows(q, k, n, t, r, a, b)
  PROVE  Follows(Append(Tail(q), Later(Head(q))), m, n, t, r, a, b)
<1> DEFINE h == Head(q)
           w == Later(h)
           s == Tail(q)
           p == Append(s, w)
<1>1. /\ h \in Write /\ h = q[1] /\ 1 \in DOMAIN q
      /\ s \in Seq(Write) /\ Len(s) = Len(q) - 1 /\ Len(q) \in Nat \ {0}
      /\ \A i \in DOMAIN s : i \in Nat /\ i + 1 \in DOMAIN q /\ s[i] = q[i + 1] /\ i + 1 > 1
      /\ \A i \in DOMAIN q : i # 1 => i - 1 \in DOMAIN s /\ s[i - 1] = q[i]
  <2>1. /\ s \in Seq(Write) /\ Len(q) \in Nat \ {0} /\ Len(s) = Len(q) - 1
        /\ DOMAIN q = 1 .. Len(q) /\ DOMAIN s = 1 .. Len(q) - 1
        /\ h = q[1] /\ h \in Write
        /\ \A i \in 1 .. Len(q) - 1 : s[i] = q[i + 1]
    BY Behead
  <2> HIDE DEF h, s
  <2>2. \A i \in DOMAIN q : i # 1 => i - 1 \in 1 .. Len(q) - 1 /\ (i - 1) + 1 = i
    BY <2>1
  <2> QED BY <2>1, <2>2
<1>2. /\ w \in Write /\ w.msg = h.msg /\ Stage(w) = Stage(h) + 1
      /\ w.step = IF h.step = "message" THEN "mine" ELSE "theirs"
      /\ h.step \in {"message", "mine"}
  BY <1>1, LaterFacts
<1>3. t = n /\ Newest(q, n) BY AimGoing DEF Follows
<1>4. m <= Len(s) BY <1>1
<1>0. Orderly(q, n) /\ Orderly(s, n) BY OrderlyLess DEF Follows
<1> HIDE DEF h, w, s
<1>5. /\ w.step \in Chain /\ w.step \notin Drops /\ w.step # "block" /\ h.step \in Chain
      /\ Stage(h) \in {1, 2, 3}
  BY <1>1, <1>2, StepKinds DEF Chain, Drops
\* The newest message is no further than an older one whose write is the oldest.
<1>6. ASSUME h.msg # n
      PROVE  \E i \in DOMAIN s : /\ s[i].msg = n /\ s[i].step \in {"message", "mine"}
                                 /\ h.step = "message" => s[i].step = "message"
  <2>1. PICK i \in DOMAIN q : q[i].step \in Chain /\ q[i].msg = n BY <1>3 DEF Newest
  <2>2. i # 1 BY <1>1, <1>6, <2>1
  <2>3. i - 1 \in DOMAIN s /\ s[i - 1] = q[i] BY <1>1, <2>2
  <2>4. Stage(q[i]) <= Stage(h)
    <3>1. Stage(q[i]) < Stage(h) \/ Stage(q[i]) = Stage(h)
      BY <1>0, <1>1, <1>5, <1>6, <2>1 DEF Orderly
    <3>2. Stage(q[i]) \in {1, 2, 3} BY Typed, StepKinds
    <3> QED BY <1>5, <3>1, <3>2
  <2>5. /\ q[i].step \in {"message", "mine"}
        /\ h.step = "message" => q[i].step = "message"
    BY <1>2, <2>1, <2>4 DEF Stage, Chain
  <2> QED BY <2>1, <2>3, <2>5
<1>7. Orderly(p, n)
  <2>0. \A i, j \in DOMAIN q :
          q[i].step \in Chain /\ q[i].msg = n /\ q[j].step \in Chain /\ q[j].msg # n =>
            Stage(q[i]) < Stage(q[j]) \/ (Stage(q[i]) = Stage(q[j]) /\ j < i)
    BY <1>0 DEF Orderly
  <2>1. ASSUME w.msg = n, NEW j \in DOMAIN s, s[j].step \in Chain, s[j].msg # n
        PROVE  Stage(w) <= Stage(s[j])
    <3>0. /\ 1 \in DOMAIN q /\ q[1] = h /\ j + 1 \in DOMAIN q /\ q[j + 1] = s[j]
          /\ h.step \in Chain /\ h.msg = n
      BY <1>1, <1>2, <1>5, <2>1
    <3>1. Stage(h) < Stage(s[j]) \/ (Stage(h) = Stage(s[j]) /\ j + 1 < 1)
      BY <2>0, <2>1, <3>0
    <3>2. Stage(s[j]) \in {1, 2, 3} BY <1>1, Typed, StepKinds
    <3> QED BY <1>1, <1>2, <1>5, <3>1, <3>2
  <2>2. ASSUME w.msg # n, NEW i \in DOMAIN s, s[i].step \in Chain, s[i].msg = n
        PROVE  Stage(s[i]) < Stage(w)
    <3>0. /\ 1 \in DOMAIN q /\ q[1] = h /\ i + 1 \in DOMAIN q /\ q[i + 1] = s[i]
          /\ h.step \in Chain /\ h.msg # n
      BY <1>1, <1>2, <1>5, <2>2
    <3>1. Stage(s[i]) < Stage(h) \/ (Stage(s[i]) = Stage(h) /\ 1 < i + 1)
      BY <2>0, <2>2, <3>0
    <3>2. Stage(s[i]) \in {1, 2, 3} BY <1>1, Typed, StepKinds
    <3> QED BY <1>2, <1>5, <3>1, <3>2
  <2> QED BY <1>0, <1>1, <1>2, <1>5, <2>1, <2>2, OrderlyIssued
<1>8. Aim(p, n, t)
  <2>1. w.msg = n \/ Newest(s, n)
    BY <1>2, <1>6 DEF Newest, Chain
  <2> QED BY <1>1, <1>2, <1>3, <1>5, <2>1, AimIssued
<1>9. ASSUME NEW early, NEW steps, NEW x, Comes(q, k, t, early, steps, x),
             h.step \in early => h.msg # n, w.step \notin steps
      PROVE  Comes(p, m, t, early, steps, x)
  <2>1. Comes(s, m, t, early, steps, x)
    BY <1>3, <1>9, ComesLess DEF h, s
  <2> QED BY <1>1, <1>2, <1>4, <1>9, <2>1, ComesIssued
<1>10. Comes(p, m, t, {}, {"message", "dropRoom"}, r)
  BY <1>2, <1>9 DEF Follows
<1>11. Comes(p, m, t, {"message"}, {"mine", "dropMine"}, a)
  <2>1. CASE h.step = "mine" BY <1>2, <1>9, <2>1 DEF Follows
  <2>2. CASE h.step = "message" /\ h.msg = n
    BY <1>1, <1>2, <1>3, <1>4, <2>2, ComesIssued
  <2>3. CASE h.step = "message" /\ h.msg # n
    <3>1. Coming(s, t, {"message"}) BY <1>3, <1>6, <2>3 DEF Coming
    <3> QED BY <1>1, <1>2, <1>4, <3>1, ComesIssued
  <2> QED BY <1>2, <2>1, <2>2, <2>3
<1>12. Comes(p, m, t, {"message", "mine"}, {"theirs", "dropTheirs"}, b)
  <2>1. CASE h.msg = n
    BY <1>1, <1>2, <1>3, <1>4, <2>1, ComesIssued
  <2>2. CASE h.msg # n
    <3>1. Coming(s, t, {"message", "mine"}) BY <1>3, <1>6, <2>2 DEF Coming
    <3> QED BY <1>1, <1>2, <1>4, <3>1, ComesIssued
  <2> QED BY <2>1, <2>2
<1> QED BY <1>7, <1>8, <1>10, <1>11, <1>12 DEF Follows, h, w, s

\* The next write is handled: r, a and b become x, y and z.
LEMMA FollowsHandled ==
  ASSUME NEW q \in Seq(Write), NEW k \in Nat, k + 1 \in DOMAIN q, NEW n \in Nat,
         NEW t, NEW r \in Nat, r <= n, NEW a, NEW b, NEW x, NEW y, NEW z,
         Marked(q, n), Follows(q, k, n, t, r, a, b),
         q[k + 1].step = "message" => x = Newer(r, q[k + 1].msg),
         q[k + 1].step = "dropRoom" => x = None,
         q[k + 1].step \notin {"message", "dropRoom"} => x = r,
         q[k + 1].step \in {"mine", "dropMine"} => y = q[k + 1].msg,
         q[k + 1].step \notin {"mine", "dropMine"} => y = a,
         q[k + 1].step \in {"theirs", "dropTheirs"} => z = q[k + 1].msg,
         q[k + 1].step \notin {"theirs", "dropTheirs"} => z = b
  PROVE  Follows(q, k + 1, n, t, x, y, z)
<1> DEFINE w == q[k + 1]
<1>1. w.msg \in Nat /\ w.msg <= n BY Typed DEF Marked, None, Messages
<1>2. w.step \in {"message", "dropRoom"} /\ w.msg = t => x = t
  <2>1. SUFFICES ASSUME w.step \in {"message", "dropRoom"}, w.msg = t PROVE x = t
    OBVIOUS
  <2>2. CASE w.step = "dropRoom" BY <2>1, <2>2 DEF Marked, Drops
  <2>3. CASE w.step = "message"
    <3>1. w.msg # None BY <2>3 DEF Marked, Chain
    <3>2. Opens(q) # {} BY <2>3 DEF Opens
    <3>3. t = n BY <2>1, <3>1, <3>2, AimEither DEF Follows
    <3> QED BY <1>1, <2>1, <2>3, <3>3 DEF Newer
  <2> QED BY <2>1, <2>2, <2>3
<1>3. Comes(q, k + 1, t, {}, {"message", "dropRoom"}, x)
  <2>1. Comes(q, k, t, {}, {"message", "dropRoom"}, r) BY DEF Follows
  <2> QED BY <1>2, <2>1, ComesHandled
<1>4. Comes(q, k + 1, t, {"message"}, {"mine", "dropMine"}, y)
  <2>1. Comes(q, k, t, {"message"}, {"mine", "dropMine"}, a) BY DEF Follows
  <2> QED BY <2>1, ComesHandled
<1>5. Comes(q, k + 1, t, {"message", "mine"}, {"theirs", "dropTheirs"}, z)
  <2>1. Comes(q, k, t, {"message", "mine"}, {"theirs", "dropTheirs"}, b) BY DEF Follows
  <2> QED BY <2>1, ComesHandled
<1> QED BY <1>3, <1>4, <1>5 DEF Follows

LEMMA FollowsAgain ==
  ASSUME NEW q \in Seq(Write), NEW k \in Nat, NEW n, NEW t, NEW r, NEW a, NEW b,
         Follows(q, k, n, t, r, a, b)
  PROVE  Follows(q, 0, n, t, r, a, b)
BY ComesAgain DEF Follows

\* The pages do not matter.
SameWrites(q, p) ==
  /\ DOMAIN p = DOMAIN q
  /\ \A i \in DOMAIN q : p[i].step = q[i].step /\ p[i].msg = q[i].msg

LEMMA FollowsSame ==
  ASSUME NEW q, NEW p, SameWrites(q, p)
  PROVE  /\ Opens(p) = Opens(q)
         /\ \A n : Marked(q, n) => Marked(p, n)
         /\ \A k, n, t, r, a, b : Follows(q, k, n, t, r, a, b) => Follows(p, k, n, t, r, a, b)
<1>1. Opens(p) = Opens(q) BY DEF SameWrites, Opens
<1>2. \A n : Marked(q, n) => Marked(p, n) BY DEF SameWrites, Marked
<1>3. ASSUME NEW n, Orderly(q, n) PROVE Orderly(p, n)
  <2>1. \A i \in DOMAIN q : Stage(p[i]) = Stage(q[i]) BY DEF SameWrites, Stage
  <2> QED BY <1>3, <2>1 DEF SameWrites, Orderly
<1>4. ASSUME NEW n, NEW t, Aim(q, n, t) PROVE Aim(p, n, t)
  <2>1. Newest(q, n) => Newest(p, n) BY DEF SameWrites, Newest
  <2>2. \A i \in Opens(q) : p[i].step = q[i].step BY DEF SameWrites, Opens
  <2> QED BY <1>1, <1>4, <2>1, <2>2 DEF Aim
<1>5. ASSUME NEW k, NEW t, NEW early, NEW steps, NEW x, Comes(q, k, t, early, steps, x)
      PROVE  Comes(p, k, t, early, steps, x)
  <2>1. Coming(q, t, early) => Coming(p, t, early) BY DEF SameWrites, Coming
  <2>2. Untouched(q, steps) => Untouched(p, steps) BY DEF SameWrites, Untouched
  <2>3. Landing(q, k, t, steps, x) => Landing(p, k, t, steps, x)
    BY DEF SameWrites, Landing
  <2> QED BY <1>5, <2>1, <2>2, <2>3 DEF Comes
<1> QED BY <1>1, <1>2, <1>3, <1>4, <1>5 DEF Follows

LEMMA WithoutSame ==
  ASSUME NEW q \in Seq(Write), NEW pg \in Pages
  PROVE  SameWrites(q, Without(q, pg))
<1>1. \A i \in DOMAIN q : q[i] \in Write BY Typed
<1>2. ASSUME NEW i \in DOMAIN q
      PROVE  Without(q, pg)[i].step = q[i].step /\ Without(q, pg)[i].msg = q[i].msg
  <2>1. Without(q, pg)[i] = IF q[i].page = pg THEN [q[i] EXCEPT !.page = "gone"] ELSE q[i]
    BY WithoutPage
  <2> QED BY <1>1, <2>1 DEF Write
<1>3. DOMAIN Without(q, pg) = DOMAIN q BY WithoutPage
<1> QED BY <1>2, <1>3 DEF SameWrites

-----------------------------------------------------------------------------
(* The two users *)

LEMMA Pair ==
  ASSUME NEW u \in Users
  PROVE  /\ Other(u) \in Users /\ Other(u) # u /\ Other(Other(u)) = u
         /\ \A v \in Users : v = u \/ v = Other(u)
<1>1. IsFiniteSet(Users \ {u}) /\ Cardinality(Users \ {u}) = 1
  BY PairBounds, FS_RemoveElement
<1>2. PICK o : Users \ {u} = {o} BY <1>1, FS_Singleton
<1>3. o \in Users /\ o # u /\ \A v \in Users : v = u \/ v = o BY <1>2
<1>4. Other(u) = o BY <1>3 DEF Other
<1>5. Other(o) = u BY <1>3 DEF Other
<1> QED BY <1>3, <1>4, <1>5

\* What was written so far, and what it leads to.
Marks == room <= made /\ \A u \in Users : Marked(wire[u], made)
Lead(u) == \E t : Follows(wire[u], sent[u], made, t, room, Preview(u), Preview(Other(u)))
Following == ~crossed => \E u \in Users : Opens(wire[Other(u)]) = {} /\ Lead(u)

LEMMA OpensNone == Opens(<<>>) = {} /\ <<>> \in Seq(Write)
<1>1. DOMAIN <<>> = {} OBVIOUS
<1> QED BY <1>1, EmptySeq DEF Opens

LEMMA BusyOpen == \A u : Busy(u) <=> Opens(wire[u]) # {}
BY DEF Busy, Opens

LEMMA InitFollows == Init => Marks /\ Following
<1> SUFFICES ASSUME Init PROVE Marks /\ Following OBVIOUS
<1>1. room = 0 /\ made = 0 /\ \A u \in Users : wire[u] = <<>> /\ entry[u] = None
  BY DEF Init, ToAll, None
<1>2. Marks BY <1>1 DEF Marks, Marked
<1>3. PICK u \in Users : TRUE
  <2>1. Users # {} BY PairBounds, FS_EmptySet
  <2> QED BY <2>1
<1>4. Other(u) \in Users BY Pair
<1>5. wire[u] \in Seq(Write) /\ Opens(wire[u]) = {} /\ Opens(wire[Other(u)]) = {}
  BY <1>1, <1>4, OpensNone
<1>6. Preview(u) = None /\ Preview(Other(u)) = None
  BY <1>1, <1>4, PairBounds DEF Preview, None, Stub
<1>7. Follows(wire[u], sent[u], made, None, room, Preview(u), Preview(Other(u)))
  BY <1>1, <1>5, <1>6, Quiet DEF None
<1> QED BY <1>2, <1>5, <1>7 DEF Following, Lead

\* With nothing under way both lists show the newest message of the room.
LEMMA FollowingLists ==
  ASSUME TypeOK, Following PROVE ListsFollow
<1>1. SUFFICES ASSUME \A u \in Users : wire[u] = <<>>, ~crossed
               PROVE  \A u \in Users : Preview(u) = room
  BY DEF ListsFollow
<1>2. PICK u \in Users : Lead(u) BY <1>1 DEF Following
<1>3. PICK t : Follows(wire[u], sent[u], made, t, room, Preview(u), Preview(Other(u)))
  BY <1>2 DEF Lead
<1>4. wire[u] \in Seq(Write) /\ Opens(wire[u]) = {} BY <1>1, OpensNone
<1>5. room = t /\ Preview(u) = t /\ Preview(Other(u)) = t
  <2>1. \A k, s, r, a, b :
          Follows(wire[u], k, made, s, r, a, b) <=> r = s /\ a = s /\ b = s
    BY <1>4, Quiet, Zenon
  <2> QED BY <1>3, <2>1, Zenon
<1> QED BY <1>5, Pair

\* Nothing but pages changes.
LEMMA SameFollows ==
  ASSUME Marks, Following, UNCHANGED <<base, made, sent, crossed>>,
         \A v \in Users : SameWrites(wire[v], wire'[v])
  PROVE  Marks' /\ Following'
<1>1. Marks' BY FollowsSame DEF Marks, base
<1>2. ASSUME ~crossed PROVE \E u \in Users : Opens(wire'[Other(u)]) = {} /\ Lead(u)'
  <2>1. PICK u \in Users : Opens(wire[Other(u)]) = {} /\ Lead(u) BY <1>2 DEF Following
  <2>2. PICK t : Follows(wire[u], sent[u], made, t, room, Preview(u), Preview(Other(u)))
    BY <2>1 DEF Lead
  <2>3. Follows(wire'[u], sent[u], made, t, room, Preview(u), Preview(Other(u)))
    BY <2>2, FollowsSame
  <2>4. Preview(u)' = Preview(u) /\ Preview(Other(u))' = Preview(Other(u))
    BY DEF Preview, base
  <2>5. Lead(u)' BY <2>3, <2>4 DEF Lead, base
  <2>6. Opens(wire'[Other(u)]) = {} BY <2>1, Pair, FollowsSame
  <2> QED BY <2>5, <2>6
<1>3. Following' BY <1>2 DEF Following
<1> QED BY <1>1, <1>3

LEMMA MarkedMore ==
  ASSUME NEW q \in Seq(Write), NEW n \in Nat, NEW m \in Nat, n <= m, Marked(q, n)
  PROVE  Marked(q, m)
<1>1. \A i \in DOMAIN q : q[i].msg \in Nat BY Typed DEF None, Messages
<1> QED BY <1>1 DEF Marked

\* A removal, or isBlock, is of no message.
LEMMA RemovalMarked ==
  ASSUME NEW st \in Steps \ Chain, NEW n \in Nat
  PROVE  /\ Removal(st) \in Write /\ Removal(st).step = st /\ Removal(st).msg = None
         /\ None <= n
BY RemovalTyped DEF Removal, None

LEMMA MarkedJoined ==
  ASSUME NEW q \in Seq(Write), NEW p \in Seq(Write), NEW n, Marked(q, n), Marked(p, n)
  PROVE  Marked(q \o p, n)
<1>1. \A i \in DOMAIN (q \o p) : \/ i \in DOMAIN q /\ (q \o p)[i] = q[i]
                                 \/ \E j \in DOMAIN p : (q \o p)[i] = p[j]
  BY Joined
<1> QED BY <1>1 DEF Marked

LEMMA MarkedLess ==
  ASSUME NEW q \in Seq(Write), q # <<>>, NEW n, Marked(q, n)
  PROVE  Marked(Tail(q), n)
<1>1. \A i \in DOMAIN Tail(q) : \E j \in DOMAIN q : Tail(q)[i] = q[j] BY Tailed
<1> QED BY <1>1 DEF Marked

LEMMA MarksChanged ==
  ASSUME TypeOK, Marks, NEW u \in Users, NEW ws, wire' = [wire EXCEPT ![u] = ws],
         made' \in Nat, made <= made', room' <= made', Marked(ws, made')
  PROVE  Marks'
<1>1. made \in Nat /\ \A v \in Users : wire[v] \in Seq(Write) BY DEF TypeOK
<1>2. \A v \in Users : v # u => wire'[v] = wire[v] BY DEF TypeOK
<1>3. wire'[u] = ws BY DEF TypeOK
<1>4. \A v \in Users : Marked(wire[v], made') BY <1>1, MarkedMore DEF Marks
<1>5. \A v \in Users : Marked(wire'[v], made') BY <1>2, <1>3, <1>4
<1> QED BY <1>5 DEF Marks

\* A user who starts a chain or deletes the chat while both may still trust the lists
\* is the only one with anything under way.
LEMMA Alone ==
  ASSUME TypeOK, Following, NEW u \in Users, ~Crossed(u)
  PROVE  Opens(wire[Other(u)]) = {} /\ Orderly(wire[u], made)
<1>1. Other(u) \in Users /\ Other(Other(u)) = u BY Pair
<1>2. wire[u] \in Seq(Write) /\ wire[Other(u)] \in Seq(Write) BY <1>1 DEF TypeOK
<1>3. CASE Opens(wire[u]) = {} /\ Opens(wire[Other(u)]) = {}
  BY <1>2, <1>3, Quiet
<1>4. CASE Opens(wire[u]) # {} \/ Opens(wire[Other(u)]) # {}
  <2>1. ~crossed /\ Opens(wire[Other(u)]) = {}
    BY <1>4, BusyOpen DEF Crossed
  <2>2. PICK v \in Users : Opens(wire[Other(v)]) = {} /\ Lead(v)
    BY <2>1 DEF Following
  <2>3. v = u BY <1>1, <1>4, <2>1, <2>2, Pair
  <2> QED BY <2>1, <2>2, <2>3 DEF Lead, Follows
<1> QED BY <1>3, <1>4

LEMMA SendFollows ==
  ASSUME TypeOK, Marks, Following, NEW u \in Users, Send(u)
  PROVE  Marks' /\ Following'
<1> DEFINE w == [step |-> "message", msg |-> made + 1, page |-> at[u]]
           q == wire[u]
           r == Append(q, w)
<1>1. /\ made \in Nat /\ made' = made + 1 /\ room' = room /\ entry' = entry /\ sent' = sent
      /\ room \in Nat /\ crossed' = Crossed(u) /\ q \in Seq(Write)
      /\ sent[u] \in Nat /\ sent[u] <= Len(q) /\ wire' = [wire EXCEPT ![u] = q \o <<w>>]
      /\ made + 1 \in Messages
  BY PairBounds DEF Send, Issue, TypeOK, base, None, Messages
<1>2. w \in Write /\ w.step = "message" /\ w.msg = made + 1
  BY <1>1 DEF Send, Write, Steps
<1> HIDE DEF w
<1>3. q \o <<w>> = r BY <1>1, <1>2
<1>4. Marked(r, made + 1)
  <2>1. Marked(q, made + 1) BY <1>1, MarkedMore DEF Marks
  <2>2. made + 1 # None BY <1>1 DEF None
  <2>3. Marked(<<w>>, made + 1)
    BY <1>1, <1>2, <2>2 DEF Marked, Drops
  <2>4. <<w>> \in Seq(Write) BY <1>2
  <2> HIDE DEF q, r
  <2> QED BY <1>1, <1>3, <2>1, <2>3, <2>4, MarkedJoined
<1>5. Marks'
  <2>1. room <= made + 1 /\ made <= made + 1 /\ made + 1 \in Nat BY <1>1 DEF Marks
  <2>2. wire' = [wire EXCEPT ![u] = r] BY <1>1, <1>3
  <2> HIDE DEF r
  <2> QED BY <1>1, <1>4, <2>1, <2>2, MarksChanged
<1>6. ASSUME ~crossed' PROVE Opens(wire'[Other(u)]) = {} /\ Lead(u)'
  <2>1. Opens(wire[Other(u)]) = {} /\ Orderly(q, made) BY <1>1, <1>6, Alone
  <2>2. Follows(r, sent[u], made + 1, made + 1, room, Preview(u), Preview(Other(u)))
    BY <1>1, <1>2, <2>1, FollowsSent DEF Marks
  <2>3. Preview(u)' = Preview(u) /\ Preview(Other(u))' = Preview(Other(u))
    BY <1>1 DEF Preview
  <2>4. wire'[u] = r /\ wire'[Other(u)] = wire[Other(u)]
    BY <1>1, <1>3, Pair DEF TypeOK
  <2> HIDE DEF r
  <2>5. Lead(u)' BY <1>1, <2>2, <2>3, <2>4 DEF Lead
  <2> QED BY <2>1, <2>4, <2>5
<1> QED BY <1>5, <1>6 DEF Following

LEMMA DeleteFollows ==
  ASSUME TypeOK, Marks, Following, NEW u \in Users, NEW i \in DOMAIN rows[u], Delete(u, i)
  PROVE  Marks' /\ Following'
<1> DEFINE q == wire[u]
<1>1. /\ made \in Nat /\ made' = made /\ room' = room /\ entry' = entry /\ sent' = sent
      /\ crossed' = (Crossed(u) \/ Continues(u)) /\ q \in Seq(Write)
      /\ sent[u] \in Nat /\ sent[u] <= Len(q) /\ wire' = [wire EXCEPT ![u] = q \o Removals]
  BY DEF Delete, Issue, TypeOK, base
<1>2. Removals \in Seq(Write) /\ Marked(Removals, made)
  <2>1. Removals \in Seq(Write) BY RemovalTyped DEF Removals, Steps
  <2>2. \A j \in DOMAIN Removals :
          Removals[j] \in {Removal("dropMine"), Removal("dropTheirs"), Removal("dropRoom")}
    BY DEF Removals
  <2>3. \A j \in DOMAIN Removals :
          /\ Removals[j].msg = None /\ None <= made /\ Removals[j].step \notin Chain
    BY <1>1, <2>2 DEF Removal, Chain, None
  <2> QED BY <2>1, <2>3 DEF Marked
<1>3. Marks'
  <2>1. Marked(q \o Removals, made) BY <1>1, <1>2, MarkedJoined DEF Marks
  <2> QED BY <1>1, <2>1, MarksChanged DEF Marks
<1>4. ASSUME ~crossed' PROVE Opens(wire'[Other(u)]) = {} /\ Lead(u)'
  <2>1. Opens(wire[Other(u)]) = {} /\ Orderly(q, made) BY <1>1, <1>4, Alone
  <2>2. \A j \in DOMAIN q : q[j].step \notin {"message", "mine"}
    BY <1>1, <1>4 DEF Continues
  <2>3. Follows(q \o Removals, sent[u], made, None, room, Preview(u), Preview(Other(u)))
    BY <1>1, <2>1, <2>2, FollowsRemoved
  <2>4. Preview(u)' = Preview(u) /\ Preview(Other(u))' = Preview(Other(u))
    BY <1>1 DEF Preview
  <2>5. wire'[u] = q \o Removals /\ wire'[Other(u)] = wire[Other(u)]
    BY <1>1, Pair DEF TypeOK
  <2>6. Lead(u)' BY <1>1, <2>3, <2>4, <2>5 DEF Lead
  <2> QED BY <2>1, <2>5, <2>6
<1> QED BY <1>3, <1>4 DEF Following

\* One device's writes change, and what they lead to does not; nor do they matter more
\* than they did.
LEMMA WiresFollow ==
  ASSUME TypeOK, Marks, Following, NEW u \in Users, NEW ws, NEW k,
         wire' = [wire EXCEPT ![u] = ws], sent' = [sent EXCEPT ![u] = k],
         UNCHANGED <<made, room>>, \A v \in Users : Preview(v)' = Preview(v),
         ~crossed' => ~crossed, Marked(ws, made),
         ~crossed' =>
           /\ Opens(wire[u]) = {} => Opens(ws) = {}
           /\ \A t, a, b : Follows(wire[u], sent[u], made, t, room, a, b) =>
                             Follows(ws, k, made, t, room, a, b)
  PROVE  Marks' /\ Following'
<1>1. made \in Nat BY DEF TypeOK
<1>2. Marks' BY <1>1, MarksChanged DEF Marks
<1>3. /\ wire'[u] = ws /\ sent'[u] = k
      /\ \A v \in Users : v # u => wire'[v] = wire[v] /\ sent'[v] = sent[v]
  BY DEF TypeOK
<1>4. ASSUME ~crossed' PROVE \E v \in Users : Opens(wire'[Other(v)]) = {} /\ Lead(v)'
  <2>1. ~crossed BY <1>4
  <2>2. PICK v \in Users : Opens(wire[Other(v)]) = {} /\ Lead(v)
    BY <2>1 DEF Following
  <2>3. PICK t : Follows(wire[v], sent[v], made, t, room, Preview(v), Preview(Other(v)))
    BY <2>2 DEF Lead
  <2>4. Preview(v)' = Preview(v) /\ Preview(Other(v))' = Preview(Other(v)) BY Pair
  <2>5. CASE v = u
    <3>1. Follows(wire'[u], sent'[u], made, t, room, Preview(u), Preview(Other(u)))
      BY <1>3, <1>4, <2>3, <2>5
    <3>2. Lead(u)' BY <2>4, <2>5, <3>1 DEF Lead
    <3>3. wire'[Other(u)] = wire[Other(u)] BY <1>3, Pair
    <3> QED BY <2>2, <2>5, <3>2, <3>3
  <2>6. CASE v # u
    <3>1. u = Other(v) BY <2>6, Pair
    <3>2. Opens(wire'[Other(v)]) = {} BY <1>3, <1>4, <2>2, <3>1
    <3>3. wire'[v] = wire[v] /\ sent'[v] = sent[v] BY <1>3, <2>6
    <3>4. Lead(v)' BY <2>3, <2>4, <3>3 DEF Lead
    <3> QED BY <3>2, <3>4
  <2> QED BY <2>5, <2>6
<1> QED BY <1>2, <1>4 DEF Following

LEMMA DeclineFollows ==
  ASSUME TypeOK, Marks, Following, NEW u \in Users, NEW i \in DOMAIN rows[u], Decline(u, i)
  PROVE  Marks' /\ Following'
<1> DEFINE q == wire[u]
           w == Removal("block")
           r == Append(q, w)
<1>1. /\ made \in Nat /\ UNCHANGED <<made, room, entry, crossed, sent>> /\ q \in Seq(Write)
      /\ sent[u] \in Nat /\ sent[u] <= Len(q) /\ wire' = [wire EXCEPT ![u] = q \o <<w>>]
  BY DEF Decline, Issue, TypeOK, base
<1>2. w \in Write /\ w.step = "block" /\ w.msg = None /\ None <= made
  BY <1>1, RemovalMarked DEF Steps, Chain
<1> HIDE DEF w
<1>3. r = q \o <<w>> BY <1>1, <1>2
<1>4. Marked(r, made)
  <2>1. <<w>> \in Seq(Write) /\ Marked(<<w>>, made)
    BY <1>2 DEF Marked, Chain
  <2> HIDE DEF q, r
  <2> QED BY <1>1, <1>3, <2>1, MarkedJoined DEF Marks, q
<1>5. Opens(q) = {} => Opens(r) = {}
  <2>1. \A j \in DOMAIN r : r[j] = w \/ (j \in DOMAIN q /\ r[j] = q[j])
    BY <1>1, <1>2, Appended
  <2> HIDE DEF q, r
  <2> QED BY <1>2, <2>1 DEF Opens
<1>6. \A t, a, b : Follows(q, sent[u], made, t, room, a, b) =>
                     Follows(r, sent[u], made, t, room, a, b)
  BY <1>1, <1>2, FollowsBlocked
<1>7. wire' = [wire EXCEPT ![u] = r] /\ sent' = [sent EXCEPT ![u] = sent[u]]
  <2>1. sent = [sent EXCEPT ![u] = sent[u]] BY DEF TypeOK
  <2> QED BY <1>1, <1>3, <2>1
<1>8. \A v \in Users : Preview(v)' = Preview(v) BY <1>1 DEF Preview
<1>9. UNCHANGED <<made, room>> /\ (~crossed' => ~crossed) BY <1>1
<1> HIDE DEF r
<1> QED BY <1>4, <1>5, <1>6, <1>7, <1>8, <1>9, WiresFollow

\* Other writes lead where the first ones did, and matter no more than they.
Carried(q, k, p, m) ==
  /\ Marked(p, made) /\ (Opens(q) = {} => Opens(p) = {})
  /\ \A t, a, b : Follows(q, k, made, t, room, a, b) => Follows(p, m, made, t, room, a, b)

LEMMA TailCarried ==
  ASSUME NEW q \in Seq(Write), q # <<>>, Head(q).step \notin {"message", "mine"},
         NEW k \in Nat, NEW m \in Nat,
         k = m + 1 \/ (k = 0 /\ m = 0 /\ Head(q).step = "block"), Marked(q, made)
  PROVE  Carried(q, k, Tail(q), m)
<1>1. Marked(Tail(q), made) BY MarkedLess
<1>2. Opens(q) = {} => Opens(Tail(q)) = {}
  <2>1. \A i \in DOMAIN Tail(q) : \E j \in DOMAIN q : Tail(q)[i] = q[j] BY Tailed
  <2> QED BY <2>1 DEF Opens
<1>3. \A t, a, b : Follows(q, k, made, t, room, a, b) =>
                     Follows(Tail(q), m, made, t, room, a, b)
  BY FollowsLess
<1> QED BY <1>1, <1>2, <1>3 DEF Carried

\* What is left after an answer leads where all of it led.
LEMMA AckFollows ==
  ASSUME TypeOK, Marks, Following, NEW u \in Users, Ack(u)
  PROVE  Marks' /\ Following'
<1> DEFINE q == wire[u]
           h == Head(q)
           r == Rest(u)
           k == sent[u] - 1
<1>1. /\ UNCHANGED <<made, room, entry, crossed>> /\ q \in Seq(Write) /\ q # <<>>
      /\ k \in Nat /\ sent[u] = k + 1 /\ sent[u] \in Nat /\ sent[u] <= Len(q)
      /\ sent' = [sent EXCEPT ![u] = k] /\ made \in Nat
  <2>1. sent[u] \in Nat /\ sent[u] > 0 /\ sent[u] <= Len(q) /\ q \in Seq(Write)
    BY DEF Ack, TypeOK
  <2>2. q # <<>> BY <2>1
  <2>3. UNCHANGED <<made, room, entry, crossed>> /\ sent' = [sent EXCEPT ![u] = k]
    BY DEF Ack, base
  <2> QED BY <2>1, <2>2, <2>3 DEF TypeOK
<1>2. wire' = [wire EXCEPT ![u] = Left(u)] BY AckWire
<1>3. h \in Write /\ r \in Seq(Write) /\ Tail(q) \in Seq(Write)
  BY <1>1, RestTyped, HeadTailProperties, Types
<1>4. SameWrites(r, Left(u))
  <2>1. SameWrites(r, r) BY DEF SameWrites
  <2>2. SameWrites(r, Without(r, "trip")) BY <1>3, WithoutSame DEF Pages
  <2> QED BY <2>1, <2>2 DEF Left
<1>5. ASSUME h.step \in {"message", "mine"}
      PROVE  Carried(q, sent[u], r, k)
  <2>1. r = Append(Tail(q), Later(h)) /\ Later(h) \in Write
        /\ Later(h).msg = h.msg /\ Later(h).step \in {"mine", "theirs"}
    <3>1. NextWrite(h) = <<Later(h)>> /\ Later(h) \in Write /\ Later(h).msg = h.msg
          /\ Later(h).step \in {"mine", "theirs"}
      BY <1>3, <1>5, LaterFacts
    <3>2. r = Tail(q) \o <<Later(h)>> BY <3>1 DEF Rest
    <3> HIDE DEF h, q, r
    <3>3. Tail(q) \o <<Later(h)>> = Append(Tail(q), Later(h)) BY <1>3, <3>1
    <3> QED BY <3>1, <3>2, <3>3
  <2>2. 1 \in DOMAIN q /\ h = q[1] BY <1>1, Behead
  <2>3. Marked(r, made)
    <3>1. Marked(q, made) BY DEF Marks
    <3>2. h.msg <= made /\ h.msg # None BY <1>5, <2>2, <3>1 DEF Marked, Chain
    <3>3. Marked(Tail(q), made) BY <1>1, <3>1, MarkedLess
    <3>4. <<Later(h)>> \in Seq(Write) /\ Marked(<<Later(h)>>, made)
      BY <2>1, <3>2 DEF Marked, Drops
    <3>5. r = Tail(q) \o <<Later(h)>> BY <1>3, <2>1
    <3> HIDE DEF q, h, r
    <3> QED BY <1>3, <3>3, <3>4, <3>5, MarkedJoined
  <2>4. Opens(q) # {} BY <1>5, <2>2 DEF Opens
  <2>5. \A t, a, b : Follows(q, sent[u], made, t, room, a, b) =>
                       Follows(r, k, made, t, room, a, b)
    <3> HIDE DEF q, h, r, k
    <3> QED BY <1>1, <1>5, <2>1, FollowsNext DEF h
  <2> HIDE DEF q, r, k
  <2> QED BY <2>3, <2>4, <2>5 DEF Carried
<1>6. ASSUME h.step \notin {"message", "mine"}
      PROVE  Carried(q, sent[u], r, k)
  <2>1. r = Tail(q)
    <3>1. NextWrite(h) = <<>> BY <1>6 DEF NextWrite
    <3> QED BY <1>3, <3>1, ConcatEmptySeq DEF Rest
  <2> HIDE DEF q, r, k
  <2> QED BY <1>1, <1>6, <2>1, TailCarried DEF Marks, h, q
<1>7. Carried(q, sent[u], Left(u), k)
  <2>1. Carried(q, sent[u], r, k) BY <1>5, <1>6
  <2> HIDE DEF q, r, k
  <2> QED BY <1>4, <2>1, FollowsSame DEF Carried
<1>8. \A v \in Users : Preview(v)' = Preview(v) BY <1>1 DEF Preview
<1> HIDE DEF k
<1> QED BY <1>1, <1>2, <1>7, <1>8, WiresFollow DEF Carried

\* A write is handled: the one that is writing comes one write further, and of the other
\* no write but isBlock is handled, which nothing depends on.
LEMMA ApplyFollows ==
  ASSUME TypeOK, Marks, Following, NEW u \in Users, Apply(u)
  PROVE  Marks' /\ Following'
<1> DEFINE q == wire[u]
           k == sent[u]
           w == q[k + 1]
           o == Other(u)
<1>1. /\ UNCHANGED <<made, wire, crossed>> /\ sent' = [sent EXCEPT ![u] = k + 1]
      /\ q \in Seq(Write) /\ k \in Nat /\ k + 1 \in DOMAIN q /\ Handled(u, w)
      /\ made \in Nat /\ room \in Nat /\ room <= made /\ Marked(q, made)
      /\ o \in Users /\ o # u
  BY Pair DEF Apply, TypeOK, None, Messages, Marks
<1>2. w \in Write /\ w.msg \in Nat /\ w.msg <= made /\ w.msg # Stub /\ None # Stub
      /\ (w.step \in Drops => w.msg = None)
  <2>1. w \in Write /\ w.msg \in {None} \cup Messages BY <1>1, Typed
  <2>2. w.msg # Stub /\ None # Stub /\ w.msg \in Nat
    BY <2>1, PairBounds DEF Stub, None, Messages
  <2>3. w.msg <= made /\ (w.step \in Drops => w.msg = None) BY <1>1 DEF Marked
  <2> QED BY <2>1, <2>2, <2>3
<1> HIDE DEF w
<1>3. /\ w.step = "message" => room' = Newer(room, w.msg)
      /\ w.step = "dropRoom" => room' = None
      /\ w.step \notin {"message", "dropRoom"} => room' = room
  BY <1>1 DEF Handled
<1>4. /\ w.step \in {"mine", "dropMine"} => Preview(u)' = w.msg
      /\ w.step \notin {"mine", "dropMine"} => Preview(u)' = Preview(u)
  <2>1. CASE w.step \in {"message", "dropRoom"}
    <3>1. entry' = entry BY <1>1, <2>1 DEF Handled
    <3> QED BY <2>1, <3>1 DEF Preview
  <2>2. CASE w.step \in {"theirs", "dropTheirs"}
    <3>1. entry'[u] = entry[u] BY <1>1, <2>2 DEF Handled, TypeOK, o
    <3> QED BY <2>2, <3>1 DEF Preview
  <2>3. CASE w.step \notin {"message", "dropRoom", "theirs", "dropTheirs"}
    <3>1. entry'[u] = Written(entry[u], w)
      <4>1. entry' = [entry EXCEPT ![u] = Written(@, w)] BY <1>1, <2>3 DEF Handled
      <4> QED BY <4>1 DEF TypeOK
    <3> QED BY <1>2, <3>1 DEF Preview, Written, Drops
  <2> QED BY <2>1, <2>2, <2>3
<1>5. /\ w.step \in {"theirs", "dropTheirs"} => Preview(o)' = w.msg
      /\ w.step \notin {"theirs", "dropTheirs"} => Preview(o)' = Preview(o)
  <2>1. CASE w.step \in {"message", "dropRoom"}
    <3>1. entry' = entry BY <1>1, <2>1 DEF Handled
    <3> QED BY <2>1, <3>1 DEF Preview
  <2>2. CASE w.step \in {"theirs", "dropTheirs"}
    <3>1. entry'[o] = IF w.step = "theirs" THEN w.msg ELSE None
      BY <1>1, <2>2 DEF Handled, TypeOK, o
    <3> QED BY <1>2, <2>2, <3>1 DEF Preview, Drops
  <2>3. CASE w.step \notin {"message", "dropRoom", "theirs", "dropTheirs"}
    <3>1. entry'[o] = entry[o]
      <4>1. entry' = [entry EXCEPT ![u] = Written(@, w)] BY <1>1, <2>3 DEF Handled
      <4> QED BY <1>1, <4>1 DEF TypeOK
    <3> QED BY <2>3, <3>1 DEF Preview
  <2> QED BY <2>1, <2>2, <2>3
<1>6. room' \in Nat /\ room' <= made
  <2>1. room' \in {room, w.msg, None} BY <1>3 DEF Newer
  <2> QED BY <1>1, <1>2, <2>1 DEF None
<1>7. Marks'
  BY <1>1, <1>6 DEF Marks
<1>8. ASSUME ~crossed' PROVE Following'
  <2>1. PICK v \in Users : Opens(wire[Other(v)]) = {} /\ Lead(v)
    BY <1>1, <1>8 DEF Following
  <2>2. PICK t : Follows(wire[v], sent[v], made, t, room, Preview(v), Preview(Other(v)))
    BY <2>1 DEF Lead
  <2>3. CASE v = u
    <3>1. Follows(q, k + 1, made, t, room', Preview(u)', Preview(o)')
      <4>1. Follows(q, k, made, t, room, Preview(u), Preview(o)) BY <2>2, <2>3
      <4>2. w = q[k + 1] BY DEF w
      <4> HIDE DEF q, k, o
      <4> QED BY <1>1, <1>3, <1>4, <1>5, <4>1, <4>2, FollowsHandled
    <3>2. wire'[u] = q /\ sent'[u] = k + 1 BY <1>1 DEF TypeOK
    <3>3. Lead(u)' BY <1>1, <3>1, <3>2 DEF Lead
    <3> QED BY <1>1, <2>1, <2>3, <3>3 DEF Following
  <2>4. CASE v # u
    <3>1. Other(v) = u /\ v = o BY <2>4, Pair
    <3>2. w.step = "block" BY <1>1, <2>1, <3>1 DEF Opens, w
    <3>3. room' = room /\ Preview(u)' = Preview(u) /\ Preview(o)' = Preview(o)
      BY <1>3, <1>4, <1>5, <3>2
    <3>4. sent'[v] = sent[v] BY <1>1, <2>4 DEF TypeOK
    <3>5. Lead(v)' BY <1>1, <2>2, <3>1, <3>3, <3>4 DEF Lead
    <3> QED BY <1>1, <2>1, <3>5 DEF Following
  <2> QED BY <2>3, <2>4
<1> QED BY <1>7, <1>8 DEF Following

\* A refused write that is not isBlock takes the trust in the lists with it.
LEMMA RefuseFollows ==
  ASSUME TypeOK, Marks, Following, NEW u \in Users, Refuse(u)
  PROVE  Marks' /\ Following'
<1> DEFINE q == wire[u]
<1>1. /\ UNCHANGED <<made, room, entry, sent>> /\ q \in Seq(Write) /\ q # <<>>
      /\ sent[u] = 0 /\ crossed' = (crossed \/ Head(q).step # "block")
      /\ Marked(q, made)
  BY DEF Refuse, TypeOK, base, Marks
<1>2. wire' = [wire EXCEPT ![u] = Tail(q)] /\ sent' = [sent EXCEPT ![u] = sent[u]]
  <2>1. sent = [sent EXCEPT ![u] = sent[u]] BY DEF TypeOK
  <2>2. wire' = [wire EXCEPT ![u] = Tail(q)] BY DEF Refuse
  <2> QED BY <1>1, <2>1, <2>2
<1>3. Marked(Tail(q), made) BY <1>1, MarkedLess
<1>4. ~crossed' => Carried(q, sent[u], Tail(q), sent[u])
  <2>1. ~crossed' => Head(q).step = "block" BY <1>1
  <2> HIDE DEF q
  <2> QED BY <1>1, <2>1, TailCarried
<1>5. \A v \in Users : Preview(v)' = Preview(v) BY <1>1 DEF Preview
<1> HIDE DEF q
<1> QED BY <1>1, <1>2, <1>3, <1>4, <1>5, WiresFollow DEF Carried, q

LEMMA DropFollows ==
  ASSUME TypeOK, Marks, Following, NEW u \in Users, Drop(u)
  PROVE  Marks' /\ Following'
<1> DEFINE q == wire[u]
<1>1. /\ UNCHANGED <<made, room, entry, crossed>> /\ q \in Seq(Write) /\ sent[u] \in Nat
      /\ Marked(q, made) /\ sent' = [sent EXCEPT ![u] = 0]
  BY DEF Drop, TypeOK, base, Marks
<1>2. wire' = [wire EXCEPT ![u] = q] BY DEF Drop, TypeOK
<1>3. \A t, a, b : Follows(q, sent[u], made, t, room, a, b) =>
                     Follows(q, 0, made, t, room, a, b)
  BY <1>1, FollowsAgain
<1>4. \A v \in Users : Preview(v)' = Preview(v) BY <1>1 DEF Preview
<1> HIDE DEF q
<1> QED BY <1>1, <1>2, <1>3, <1>4, WiresFollow DEF q

\* A death takes only writes of isBlock, or the trust in the lists with it.
LEMMA KillFollows ==
  ASSUME TypeOK, Marks, Following, NEW u \in Users, Kill(u)
  PROVE  Marks' /\ Following'
<1> DEFINE q == wire[u]
<1>1. /\ UNCHANGED <<made, room, entry>> /\ q \in Seq(Write)
      /\ crossed' = (crossed \/ Busy(u))
      /\ wire' = [wire EXCEPT ![u] = <<>>] /\ sent' = [sent EXCEPT ![u] = 0]
  BY DEF Kill, Go, TypeOK, base
<1>2. Marked(<<>>, made) BY DEF Marked
<1>3. Opens(<<>>) = {} /\ <<>> \in Seq(Write) BY OpensNone
<1>4. ASSUME ~crossed' PROVE Opens(q) = {} BY <1>1, <1>4, BusyOpen
<1>5. ASSUME ~crossed', NEW t, NEW a, NEW b, Follows(q, sent[u], made, t, room, a, b)
      PROVE  Follows(<<>>, 0, made, t, room, a, b)
  <2>1. room = t /\ a = t /\ b = t
    <3>1. Opens(q) = {} BY <1>4, <1>5
    <3> HIDE DEF q
    <3>2. \A k, s, r, c, d :
            Follows(q, k, made, s, r, c, d) <=> r = s /\ c = s /\ d = s
      BY <1>1, <3>1, Quiet, Zenon
    <3> QED BY <1>5, <3>2, Zenon
  <2>2. \A k, s, r, c, d :
          Follows(<<>>, k, made, s, r, c, d) <=> r = s /\ c = s /\ d = s
    BY <1>3, Quiet, Zenon
  <2> QED BY <2>1, <2>2, Zenon
<1>6. \A v \in Users : Preview(v)' = Preview(v) BY <1>1 DEF Preview
<1> HIDE DEF q
<1> QED BY <1>1, <1>2, <1>3, <1>5, <1>6, WiresFollow DEF q

LEMMA OrphanedSame ==
  ASSUME TypeOK, NEW u \in Users, NEW pg \in Pages, Orphaned(u, pg)
  PROVE  \A v \in Users : SameWrites(wire[v], wire'[v])
<1>1. \A v \in Users : v # u => wire'[v] = wire[v] BY DEF Orphaned, TypeOK
<1>2. wire'[u] = Without(wire[u], pg) BY DEF Orphaned, TypeOK
<1>3. SameWrites(wire[u], wire'[u]) BY <1>2, WithoutSame DEF TypeOK
<1> QED BY <1>1, <1>3 DEF SameWrites

LEMMA FollowsStep ==
  TypeOK /\ Marks /\ Following /\ [Next]_vars => Marks' /\ Following'
<1> SUFFICES ASSUME TypeOK, Marks, Following, [Next]_vars PROVE Marks' /\ Following'
  OBVIOUS
<1>1. ASSUME UNCHANGED <<base, made, sent, crossed, wire>> PROVE Marks' /\ Following'
  BY <1>1, SameFollows DEF SameWrites
<1>2. CASE UNCHANGED vars BY <1>1, <1>2 DEF vars
<1>3. ASSUME NEW u \in Users, ShowList(u) PROVE Marks' /\ Following'
  <2>1. UNCHANGED <<base, made, sent, crossed>> BY <1>3 DEF ShowList
  <2>2. CASE at[u] = "chat"
    <3>1. Orphaned(u, "chat") BY <1>3, <2>2 DEF ShowList
    <3> QED BY <2>1, <3>1, OrphanedSame, SameFollows DEF Pages
  <2>3. CASE at[u] # "chat" BY <1>1, <1>3, <2>1, <2>3 DEF ShowList
  <2> QED BY <2>2, <2>3
<1>4. ASSUME NEW u \in Users, OpenChat(u) \/ OpenTrip(u) PROVE Marks' /\ Following'
  BY <1>1, <1>4 DEF OpenChat, OpenTrip, Go
<1>5. ASSUME NEW u \in Users, LeaveTrip(u) PROVE Marks' /\ Following'
  BY <1>5, OrphanedSame, SameFollows DEF LeaveTrip, Go, Pages
<1>6. ASSUME NEW u \in Users, Tell(u) PROVE Marks' /\ Following'
  BY <1>1, <1>6 DEF Tell
<1>7. ASSUME Next PROVE Marks' /\ Following'
  BY <1>3, <1>4, <1>5, <1>6, <1>7, SendFollows, DeleteFollows, DeclineFollows,
     ApplyFollows, AckFollows, RefuseFollows, DropFollows, KillFollows DEF Next
<1> QED BY <1>2, <1>7

\* With no write under way, both chat lists show the newest message of the room, and
\* nothing if it is empty, unless the two users wrote at once, or a refused write or a
\* death left one list behind, since the last time all was quiet.
THEOREM ListsAgree == Spec => []ListsFollow
<1>1. Init => TypeOK /\ Marks /\ Following BY InitTyped, InitFollows
<1>2. TypeOK /\ Marks /\ Following /\ [Next]_vars => (TypeOK /\ Marks /\ Following)'
  BY StepTyped, FollowsStep
<1>3. TypeOK /\ Marks /\ Following => ListsFollow BY FollowingLists
<1> QED BY <1>1, <1>2, <1>3, PTL DEF Spec
=============================================================================
