----------------------------- MODULE Connection -----------------------------
(***************************************************************************)
(* The connection of a device to the real-time data base                   *)
(* (FPersistentConnection, with FConnection below and FRepo above it): the *)
(* writes and listeners the app asks for, queued while there is no         *)
(* connection, sent when there is one, and restored after it was lost.     *)
(*                                                                         *)
(* Everything here runs on one serial queue.  The app links no             *)
(* authentication, so the token is nil, which is answered at once: the     *)
(* states GettingToken and Authenticating last no time.  It makes no       *)
(* transactions, gets or on-disconnect writes, and keeps nothing on disk.  *)
(* What a listener is sent is left out: only its request and its answer    *)
(* matter to the writes, whose completions wait for it.                    *)
(***************************************************************************)
EXTENDS Integers, Sequences, FiniteSets, Functions

CONSTANTS Queries,     \* what the app listens to
          MaxPuts,     \* bound: writes ever made
          MaxListens,  \* bound: listeners ever set
          MaxFaults    \* bound: connections lost, shutdowns

ASSUME ConnectionBounds ==
  /\ IsFiniteSet(Queries)
  /\ MaxPuts \in Nat /\ MaxListens \in Nat /\ MaxFaults \in Nat

Puts == 1 .. MaxPuts
Specs == 1 .. MaxListens

VARIABLES
  state,     \* connectionState
  shut,      \* interruptReasons holds server_kill
  retry,     \* a connection attempt is scheduled
  issued,    \* putCounter
  puts,      \* outstandingPuts: writes without an answer
  listens,   \* the listener of each query, 0 if there is none
  specs,     \* listeners made so far
  unacked,   \* unackedListensCount
  toAck,     \* putsToAck: answered writes whose completion waits for a listener
  done,      \* writes whose completion was called
  up, down,  \* messages on the socket, to the server and from it
  watching,  \* the listeners the server grants on this connection
  latest,    \* the write the server handled last
  \* observations
  faults,    \* connections lost
  stranded   \* the connection was lost while completions waited, and none ran since

client == <<state, shut, retry>>
writes == <<issued, puts, toAck, done>>
listeners == <<listens, specs, unacked>>
wire == <<up, down>>
server == <<watching, latest>>
watch == <<faults, stranded>>
vars == <<client, writes, listeners, wire, server, watch>>

PutMsg == [kind : {"put"}, n : Puts]
ListenMsg == [kind : {"listen", "refused"}, q : Queries, n : Specs]
UnlistenMsg == [kind : {"unlisten"}, q : Queries, n : Specs]
Msg == PutMsg \cup ListenMsg \cup UnlistenMsg

TypeOK ==
  /\ state \in {"Disconnected", "Connecting", "Connected"}
  /\ shut \in BOOLEAN /\ retry \in BOOLEAN
  /\ issued \in 0 .. MaxPuts
  /\ puts \subseteq 1 .. issued /\ done \subseteq 1 .. issued
  /\ toAck \in Seq(1 .. issued)
  /\ listens \in [Queries -> {0} \cup Specs] /\ specs \in 0 .. MaxListens
  /\ unacked \in Int
  /\ up \in Seq(Msg) /\ down \in Seq(Msg)
  /\ watching \subseteq Queries \X Specs /\ latest \in 0 .. issued
  /\ faults \in 0 .. MaxFaults /\ stranded \in BOOLEAN

\* open has been called (deferredInit), so the first attempt is scheduled.
Init ==
  /\ state = "Disconnected" /\ shut = FALSE /\ retry = TRUE
  /\ issued = 0 /\ puts = {} /\ toAck = <<>> /\ done = {}
  /\ listens = [q \in Queries |-> 0] /\ specs = 0 /\ unacked = 0
  /\ up = <<>> /\ down = <<>>
  /\ watching = {} /\ latest = 0
  /\ faults = 0 /\ stranded = FALSE

Put(n) == [kind |-> "put", n |-> n]
Listening(q, n) == [kind |-> "listen", q |-> q, n |-> n]
Refusal(q, n) == [kind |-> "refused", q |-> q, n |-> n]
Unlistening(q, n) == [kind |-> "unlisten", q |-> q, n |-> n]

Online == state = "Connected"

\* sendAction, when there is a connection.
Send(msg) == up' = IF Online THEN Append(up, msg) ELSE up

-----------------------------------------------------------------------------
(* What the app asks for *)

\* putData, putInternal, sendPut.
PutData ==
  /\ issued < MaxPuts
  /\ issued' = issued + 1 /\ puts' = puts \cup {issued + 1}
  /\ Send(Put(issued + 1))
  /\ UNCHANGED <<client, toAck, done, listeners, down, server, watch>>

\* listen, sendListen.
Listen(q) ==
  /\ listens[q] = 0 /\ specs < MaxListens
  /\ specs' = specs + 1 /\ listens' = [listens EXCEPT ![q] = specs + 1]
  /\ Send(Listening(q, specs + 1))
  /\ unacked' = IF Online THEN unacked + 1 ELSE unacked
  /\ UNCHANGED <<client, writes, down, server, watch>>

\* unlisten, sendUnlisten.
Unlisten(q) ==
  /\ listens[q] # 0 /\ listens' = [listens EXCEPT ![q] = 0]
  /\ Send(Unlistening(q, listens[q]))
  /\ UNCHANGED <<client, writes, specs, unacked, down, server, watch>>

-----------------------------------------------------------------------------
(* The connection *)

\* The retry block: the token is nil, the socket is opened.
Retry ==
  /\ retry /\ retry' = FALSE /\ state' = "Connecting"
  /\ UNCHANGED <<shut, writes, listeners, wire, server, watch>>

\* The sequences that hold each element of S once.
Lines(S) == {s \in [1 .. Cardinality(S) -> S] : Range(s) = S}
Wanted == {q \in Queries : listens[q] # 0}

\* The order in which writes are restored: by index, or, in the mutant, as the
\* dictionary enumerates them.
AnyOrder(s) == TRUE
ByIndex(s) == \A i, j \in DOMAIN s : i < j => s[i] < s[j]

\* onReady, restoreAuth, restoreState: the listeners in any order, then the writes.
Ready ==
  /\ state = "Connecting" /\ state' = "Connected"
  /\ \E qs \in Lines(Wanted), ps \in Lines(puts) :
       /\ ByIndex(ps)
       /\ up' = [i \in DOMAIN qs |-> Listening(qs[i], listens[qs[i]])]
                \o [i \in DOMAIN ps |-> Put(ps[i])]
  /\ unacked' = unacked + Cardinality(Wanted)
  /\ UNCHANGED <<shut, retry, writes, listens, specs, down, server, watch>>

\* onDisconnect: what was on the socket is gone.
Lost ==
  /\ state' = "Disconnected"
  /\ up' = <<>> /\ down' = <<>> /\ unacked' = 0 /\ watching' = {}
  /\ faults < MaxFaults /\ faults' = faults + 1
  /\ stranded' = (stranded \/ toAck # <<>>)
  /\ UNCHANGED <<writes, listens, specs, latest>>

\* The socket is lost, or fails to open, or the server resets it.
Disconnect ==
  /\ state # "Disconnected" /\ Lost
  /\ retry' = TRUE /\ UNCHANGED shut

\* onKill: the server shuts the connection down and no other is made.
Shutdown ==
  /\ Online /\ Lost
  /\ shut' = TRUE /\ UNCHANGED retry

-----------------------------------------------------------------------------
(* The server *)

\* It handles the oldest message; a listener may be refused.
Answered(msg) == down' = Append(down, msg)
Serve ==
  /\ up # <<>> /\ up' = Tail(up)
  /\ LET msg == Head(up) IN
       \/ /\ msg.kind = "put"
          /\ latest' = msg.n /\ Answered(msg) /\ UNCHANGED watching
       \/ /\ msg.kind = "listen"
          /\ watching' = watching \cup {<<msg.q, msg.n>>} /\ Answered(msg)
          /\ UNCHANGED latest
       \/ /\ msg.kind = "listen"
          /\ Answered(Refusal(msg.q, msg.n)) /\ UNCHANGED server
       \/ /\ msg.kind = "unlisten"
          /\ watching' = watching \ {<<msg.q, msg.n>>} /\ UNCHANGED <<down, latest>>
  /\ UNCHANGED <<client, writes, listeners, watch>>

-----------------------------------------------------------------------------
(* Its answers *)

\* The completion of sendPut.  The mutant does not wait for listeners.
CompletedAtOnce(n) == done' = done \cup {n} /\ UNCHANGED toAck
Completed(n) ==
  IF unacked = 0 THEN done' = done \cup {n} /\ UNCHANGED toAck
  ELSE toAck' = Append(toAck, n) /\ UNCHANGED done

PutAnswered ==
  /\ down # <<>> /\ Head(down).kind = "put" /\ down' = Tail(down)
  /\ puts' = puts \ {Head(down).n}
  /\ Completed(Head(down).n)
  /\ UNCHANGED <<client, issued, listeners, up, server, watch>>

\* ackPuts.  The mutant looks at the count before it is lowered.
AckPutsEarly ==
  IF unacked = 0
  THEN done' = done \cup Range(toAck) /\ toAck' = <<>> /\ stranded' = FALSE
  ELSE UNCHANGED <<done, toAck, stranded>>
AckPuts ==
  IF unacked' = 0
  THEN done' = done \cup Range(toAck) /\ toAck' = <<>> /\ stranded' = FALSE
  ELSE UNCHANGED <<done, toAck, stranded>>

\* removeListen on a refusal, if the listener is still the one that was refused.
\* The mutant removes whichever there is.
RemovedAny(q, n) == listens' = [listens EXCEPT ![q] = 0]
Removed(q, n) ==
  listens' = IF listens[q] = n THEN [listens EXCEPT ![q] = 0] ELSE listens

\* onResponse of sendListen.
ListenAnswered ==
  /\ down # <<>> /\ Head(down).kind \in {"listen", "refused"} /\ down' = Tail(down)
  /\ IF Head(down).kind = "refused" THEN Removed(Head(down).q, Head(down).n)
     ELSE UNCHANGED listens
  /\ unacked' = unacked - 1
  /\ AckPuts
  /\ UNCHANGED <<client, issued, puts, specs, up, server, faults>>

Next ==
  \/ PutData \/ \E q \in Queries : Listen(q) \/ Unlisten(q)
  \/ Retry \/ Ready \/ Disconnect \/ Shutdown
  \/ Serve \/ PutAnswered \/ ListenAnswered

Spec == Init /\ [][Next]_vars

\* The scheduled attempt is made, a socket opens or fails, the server answers
\* and the answers are read.
Fairness == /\ WF_vars(Retry) /\ WF_vars(Ready)
            /\ WF_vars(Serve) /\ WF_vars(PutAnswered) /\ WF_vars(ListenAnswered)
FairSpec == Spec /\ Fairness

-----------------------------------------------------------------------------
(* Properties *)

\* The writes among the messages of a sequence.
PutsIn(s) == {s[i].n : i \in {j \in DOMAIN s : s[j].kind = "put"}}

Promise == INSTANCE Outbox WITH out <- puts, applied <- PutsIn(down)

\* The connection keeps the promise of Outbox: writes are handled in order, again
\* and in order after a lost connection, and completed after they were answered.
Delivers == Promise!Spec

\* Once no write is left without an answer, the last one the app made is the last
\* one handled, however often the connection was lost and writes were restored.
LastStays == Promise!LastStays

\* Once nothing is on the socket, the server sends the app what it listens to and
\* nothing else, however listeners were set, removed, set again and refused.
ListensAgree ==
  Online /\ up = <<>> /\ down = <<>> =>
    watching = {<<q, listens[q]>> : q \in Wanted}

\* An attempt is scheduled only while there is no connection and none is being
\* made, as tryScheduleReconnect and its block assert.
OneAttempt == retry => state = "Disconnected"

\* A completion runs when no listener's answer is on the way, so that the app has
\* seen the data first, and after those of earlier writes, unless the connection
\* was lost while some waited for an answer that no longer comes.
ListensIn(s) == {i \in DOMAIN s : s[i].kind \in {"listen", "refused"}}
InTurn ==
  \A n \in done' \ done :
    /\ ListensIn(up') = {} /\ ListensIn(down') = {}
    /\ \A m \in Puts : m < n => m \in done' \/ stranded
CompletionsInTurn == [][InTurn]_vars

\* Every write completes, unless the server shut the connection down or the
\* completion was left waiting without a listener whose answer would run it.
Stuck == shut \/ (stranded /\ Online /\ unacked = 0)
PutsComplete == \A n \in Puts : n <= issued ~> (n \in done \/ Stuck)
=============================================================================
