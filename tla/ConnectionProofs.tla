-------------------------- MODULE ConnectionProofs --------------------------
(* Proofs about the connection to the real-time data base.                 *)
EXTENDS Connection, FiniteSetTheorems, SequenceTheorems, TLAPS

-----------------------------------------------------------------------------
(* The writes among the messages of a sequence *)

\* The writes come in the order they were made.
Sorted(s) ==
  \A i, j \in DOMAIN s :
    i < j /\ s[i].kind = "put" /\ s[j].kind = "put" => s[i].n < s[j].n

\* What a message adds to the writes on the way.
PutOf(msg) == IF msg.kind = "put" THEN {msg.n} ELSE {}

LEMMA MsgFacts ==
  /\ \A msg \in Msg : msg.kind = "put" => msg.n \in Nat /\ msg.n \in Puts
  /\ \A msg \in Msg : msg.kind = "put" => msg = Put(msg.n)
  /\ \A msg \in Msg : msg.kind # "put" =>
       /\ msg.kind \in {"listen", "refused", "unlisten"}
       /\ msg.q \in Queries /\ msg.n \in Specs
  /\ \A n \in Puts : Put(n) \in Msg /\ Put(n).kind = "put" /\ Put(n).n = n
  /\ \A q \in Queries, n \in Specs :
       /\ Listening(q, n) \in Msg /\ Listening(q, n).kind = "listen"
       /\ Refusal(q, n) \in Msg /\ Refusal(q, n).kind = "refused"
       /\ Unlistening(q, n) \in Msg /\ Unlistening(q, n).kind = "unlisten"
BY ConnectionBounds
   DEF Msg, PutMsg, ListenMsg, UnlistenMsg, Puts, Specs, Put, Listening, Refusal,
       Unlistening

LEMMA EmptyPuts == PutsIn(<<>>) = {} /\ Sorted(<<>>) /\ <<>> \in Seq(Msg)
BY EmptySeq DEF PutsIn, Sorted

LEMMA PutsNat ==
  ASSUME NEW s \in Seq(Msg)
  PROVE  PutsIn(s) \subseteq Puts /\ PutsIn(s) \subseteq Nat
<1> SUFFICES ASSUME NEW i \in DOMAIN s, s[i].kind = "put"
             PROVE  s[i].n \in Puts /\ s[i].n \in Nat
  BY DEF PutsIn
<1> QED BY MsgFacts, LenProperties, ElementOfSeq

LEMMA AppendPuts ==
  ASSUME NEW s \in Seq(Msg), NEW msg \in Msg
  PROVE  /\ Append(s, msg) \in Seq(Msg)
         /\ PutsIn(Append(s, msg)) = PutsIn(s) \cup PutOf(msg)
<1> DEFINE t == Append(s, msg)
<1>1. /\ t \in Seq(Msg) /\ Len(s) \in Nat
      /\ DOMAIN s = 1 .. Len(s) /\ DOMAIN t = 1 .. Len(s) + 1
      /\ \A i \in 1 .. Len(s) : t[i] = s[i]
      /\ t[Len(s) + 1] = msg
  BY AppendProperties, LenProperties
<1> HIDE DEF t
<1>2. ASSUME NEW n \in PutsIn(t) PROVE n \in PutsIn(s) \cup PutOf(msg)
  <2>1. PICK i \in DOMAIN t : t[i].kind = "put" /\ n = t[i].n
    BY <1>2 DEF PutsIn
  <2>2. CASE i \in DOMAIN s BY <1>1, <2>1, <2>2 DEF PutsIn
  <2>3. CASE i = Len(s) + 1 BY <1>1, <2>1, <2>3 DEF PutOf
  <2> QED BY <1>1, <2>1, <2>2, <2>3
<1>3. ASSUME NEW n \in PutsIn(s) PROVE n \in PutsIn(t)
  <2>1. PICK i \in DOMAIN s : s[i].kind = "put" /\ n = s[i].n
    BY <1>3 DEF PutsIn
  <2> QED BY <1>1, <2>1 DEF PutsIn
<1>4. ASSUME NEW n \in PutOf(msg) PROVE n \in PutsIn(t)
  <2>1. Len(s) + 1 \in DOMAIN t BY <1>1
  <2> QED BY <1>1, <1>4, <2>1 DEF PutsIn, PutOf
<1> QED BY <1>1, <1>2, <1>3, <1>4 DEF t

LEMMA AppendSorted ==
  ASSUME NEW s \in Seq(Msg), NEW msg \in Msg, Sorted(s),
         msg.kind = "put" => \A m \in PutsIn(s) : m < msg.n
  PROVE  Sorted(Append(s, msg))
<1> DEFINE t == Append(s, msg)
<1>1. /\ Len(s) \in Nat
      /\ DOMAIN s = 1 .. Len(s) /\ DOMAIN t = 1 .. Len(s) + 1
      /\ \A i \in 1 .. Len(s) : t[i] = s[i]
      /\ t[Len(s) + 1] = msg
  BY AppendProperties, LenProperties
<1> HIDE DEF t
<1>2. SUFFICES ASSUME NEW i \in DOMAIN t, NEW j \in DOMAIN t, i < j,
                      t[i].kind = "put", t[j].kind = "put"
               PROVE  t[i].n < t[j].n
  BY DEF Sorted, t
<1>3. i \in DOMAIN s BY <1>1, <1>2
<1>4. CASE j \in DOMAIN s BY <1>1, <1>2, <1>3, <1>4 DEF Sorted
<1>5. CASE j = Len(s) + 1
  <2>1. t[i].n \in PutsIn(s) BY <1>1, <1>2, <1>3 DEF PutsIn
  <2> QED BY <1>1, <1>2, <1>5, <2>1
<1> QED BY <1>1, <1>4, <1>5

LEMMA TailPuts ==
  ASSUME NEW s \in Seq(Msg), s # <<>>
  PROVE  /\ Tail(s) \in Seq(Msg) /\ Head(s) \in Msg
         /\ PutsIn(s) = PutsIn(Tail(s)) \cup PutOf(Head(s))
         /\ Sorted(s) => /\ Sorted(Tail(s))
                         /\ Head(s).kind = "put" =>
                              \A m \in PutsIn(Tail(s)) : Head(s).n < m
<1> DEFINE t == Tail(s)
<1>1. /\ t \in Seq(Msg) /\ Head(s) = s[1] /\ s[1] \in Msg
      /\ Len(s) \in Nat \ {0}
      /\ DOMAIN s = 1 .. Len(s) /\ DOMAIN t = 1 .. Len(s) - 1
      /\ \A i \in 1 .. Len(s) - 1 : t[i] = s[i + 1]
  <2>1. Len(s) \in Nat \ {0} /\ DOMAIN s = 1 .. Len(s) /\ Head(s) = s[1]
    BY EmptySeq, LenProperties
  <2> QED BY <2>1, HeadTailProperties, LenProperties
<1> HIDE DEF t
<1>2. ASSUME NEW n \in PutsIn(s) PROVE n \in PutsIn(t) \cup PutOf(Head(s))
  <2>1. PICK i \in DOMAIN s : s[i].kind = "put" /\ n = s[i].n
    BY <1>2 DEF PutsIn
  <2>2. CASE i = 1 BY <1>1, <2>1, <2>2 DEF PutOf
  <2>3. CASE i # 1
    <3>1. i - 1 \in DOMAIN t /\ t[i - 1] = s[i] BY <1>1, <2>3
    <3> QED BY <2>1, <3>1 DEF PutsIn
  <2> QED BY <2>2, <2>3
<1>3. ASSUME NEW n \in PutsIn(t)
      PROVE  \E i \in DOMAIN s : 1 < i /\ s[i].kind = "put" /\ n = s[i].n
  <2>1. PICK i \in DOMAIN t : t[i].kind = "put" /\ n = t[i].n
    BY <1>3 DEF PutsIn
  <2> QED BY <1>1, <2>1
<1>4. PutOf(Head(s)) \subseteq PutsIn(s)
  <2>1. 1 \in DOMAIN s BY <1>1
  <2> QED BY <1>1, <2>1 DEF PutsIn, PutOf
<1>5. PutsIn(s) = PutsIn(t) \cup PutOf(Head(s))
  BY <1>2, <1>3, <1>4 DEF PutsIn
<1>6. ASSUME Sorted(s) PROVE Sorted(t)
  <2>1. SUFFICES ASSUME NEW i \in DOMAIN t, NEW j \in DOMAIN t, i < j,
                        t[i].kind = "put", t[j].kind = "put"
                 PROVE  t[i].n < t[j].n
    BY DEF Sorted
  <2>2. i + 1 \in DOMAIN s /\ j + 1 \in DOMAIN s /\ i + 1 < j + 1
    BY <1>1, <2>1
  <2> QED BY <1>1, <1>6, <2>1, <2>2 DEF Sorted
<1>7. ASSUME Sorted(s), Head(s).kind = "put", NEW m \in PutsIn(t)
      PROVE  Head(s).n < m
  <2>1. 1 \in DOMAIN s BY <1>1
  <2> QED BY <1>1, <1>3, <1>7, <2>1 DEF Sorted
<1> QED BY <1>1, <1>5, <1>6, <1>7 DEF t

LEMMA ConcatFacts ==
  ASSUME NEW N \in Nat, NEW M \in Nat,
         NEW a \in [1 .. N -> Msg], NEW b \in [1 .. M -> Msg]
  PROVE  /\ a \o b \in Seq(Msg) /\ DOMAIN (a \o b) = 1 .. N + M
         /\ \A i \in 1 .. N : (a \o b)[i] = a[i]
         /\ \A i \in N + 1 .. N + M : (a \o b)[i] = b[i - N]
<1> DEFINE s == a \o b
<1>1. a \in Seq(Msg) /\ b \in Seq(Msg) /\ Len(a) = N /\ Len(b) = M
  <2>1. ASSUME NEW n \in Nat, NEW f \in [1 .. n -> Msg] PROVE f \in Seq(Msg)
    <3>1. Seq(Msg) = UNION {[1 .. m -> Msg] : m \in Nat} BY SeqDef, Zenon
    <3> QED BY <2>1, <3>1, Zenon
  <2>2. \A n \in Nat : \A f \in [1 .. n -> Msg] : f \in Seq(Msg) => Len(f) = n
    BY LenProperties
  <2> QED BY <2>1, <2>2
<1>2. /\ s \in Seq(Msg) /\ Len(s) = N + M
      /\ \A i \in 1 .. N + M : s[i] = IF i <= N THEN a[i] ELSE b[i - N]
  BY <1>1, ConcatProperties
<1>3. DOMAIN s = 1 .. N + M BY <1>2, LenProperties
<1> HIDE DEF s
<1>4. ASSUME NEW i \in 1 .. N PROVE s[i] = a[i]
  <2>1. i \in 1 .. N + M /\ i <= N OBVIOUS
  <2> QED BY <1>2, <2>1
<1>5. ASSUME NEW i \in N + 1 .. N + M PROVE s[i] = b[i - N]
  <2>1. i \in 1 .. N + M /\ ~(i <= N) OBVIOUS
  <2> QED BY <1>2, <2>1
<1> QED BY <1>2, <1>3, <1>4, <1>5 DEF s

-----------------------------------------------------------------------------
(* The invariant *)

\* Nothing is on the socket without a connection.
Offline == ~Online => up = <<>> /\ down = <<>>
\* With one, each write that is not answered is on it, one way or the other.
OnWire == Online => puts = PutsIn(up) \cup PutsIn(down)
\* The writes are in order there, and those handled come before the others.
InOrder ==
  /\ Sorted(up) /\ Sorted(down)
  /\ \A m \in PutsIn(down), n \in PutsIn(up) : m < n
\* A write that was completed, or waits to be, was answered.
Settled == done \cap puts = {} /\ Range(toAck) \cap puts = {}
Inv == TypeOK /\ OneAttempt /\ Offline /\ OnWire /\ InOrder /\ Settled

LEMMA InitInv == Init => Inv
<1> SUFFICES ASSUME Init PROVE Inv
  OBVIOUS
<1>1. <<>> \in Seq(Msg) /\ <<>> \in Seq(1 .. issued) /\ Range(<<>>) = {}
  BY EmptySeq DEF Range
<1>2. TypeOK
  <2>1. /\ state \in {"Disconnected", "Connecting", "Connected"}
        /\ shut \in BOOLEAN /\ retry \in BOOLEAN /\ stranded \in BOOLEAN
    BY DEF Init
  <2>2. /\ issued \in 0 .. MaxPuts /\ specs \in 0 .. MaxListens /\ unacked \in Int
        /\ latest \in 0 .. issued /\ faults \in 0 .. MaxFaults
    BY ConnectionBounds DEF Init
  <2>3. /\ listens \in [Queries -> {0} \cup Specs]
        /\ puts \subseteq 1 .. issued /\ done \subseteq 1 .. issued
        /\ watching \subseteq Queries \X Specs
        /\ up = <<>> /\ down = <<>> /\ toAck = <<>>
    BY DEF Init
  <2> QED BY <1>1, <2>1, <2>2, <2>3 DEF TypeOK
<1>3. OneAttempt /\ Offline /\ OnWire /\ InOrder /\ Settled
  BY <1>1, EmptyPuts DEF Init, OneAttempt, Offline, OnWire, InOrder, Settled, Online
<1> QED BY <1>2, <1>3 DEF Inv

LEMMA SendFacts ==
  ASSUME up \in Seq(Msg), NEW msg \in Msg, Send(msg)
  PROVE  /\ up' \in Seq(Msg)
         /\ Online => up' = Append(up, msg) /\ PutsIn(up') = PutsIn(up) \cup PutOf(msg)
         /\ ~Online => up' = up
BY AppendPuts DEF Send

LEMMA PutDataInv == Inv /\ PutData => Inv'
<1> SUFFICES ASSUME Inv, PutData PROVE Inv'
  OBVIOUS
<1> DEFINE n == issued + 1
<1>1. /\ issued \in Nat /\ n \in Puts /\ Put(n) \in Msg
      /\ Put(n).kind = "put" /\ Put(n).n = n
  BY MsgFacts, ConnectionBounds DEF Inv, TypeOK, PutData, Puts
<1>2. /\ up' \in Seq(Msg) /\ down' = down /\ Online' = Online
      /\ Online => up' = Append(up, Put(n)) /\ PutsIn(up') = PutsIn(up) \cup {n}
      /\ ~Online => up' = up
  BY <1>1, SendFacts DEF Inv, TypeOK, PutData, PutOf, Online, client
<1>3. issued' = n /\ puts' = puts \cup {n} /\ toAck' = toAck /\ done' = done
  BY DEF PutData
<1>4. TypeOK'
  <2>1. toAck' \in Seq(1 .. issued')
    <3>1. 1 .. issued \subseteq 1 .. n BY <1>1
    <3> QED BY <1>3, <3>1, SeqMonotonic DEF Inv, TypeOK
  <2>2. /\ issued' \in 0 .. MaxPuts /\ latest' \in 0 .. issued'
        /\ puts' \subseteq 1 .. issued' /\ done' \subseteq 1 .. issued'
    BY <1>1, <1>3 DEF Inv, TypeOK, PutData, server, Puts
  <2> QED
    BY <1>2, <2>1, <2>2 DEF Inv, TypeOK, PutData, client, listeners, server, watch
<1>5. Offline' BY <1>2 DEF Inv, Offline
<1>6. OnWire' BY <1>2, <1>3 DEF Inv, OnWire
<1>7. \A m \in puts : m < n
  BY <1>1 DEF Inv, TypeOK
<1>8. InOrder'
  <2>1. CASE Online
    <3>1. Sorted(up')
      BY <1>1, <1>2, <1>7, <2>1, AppendSorted DEF Inv, TypeOK, InOrder, OnWire
    <3>2. \A m \in PutsIn(down) : m < n
      BY <1>7, <2>1 DEF Inv, OnWire
    <3> QED BY <1>2, <2>1, <3>1, <3>2 DEF Inv, InOrder
  <2>2. CASE ~Online
    BY <1>2, <2>2 DEF Inv, InOrder
  <2> QED BY <2>1, <2>2
<1>9. Settled'
  <2>1. Range(toAck) \subseteq 1 .. issued
    BY LenProperties, ElementOfSeq DEF Inv, TypeOK, Range
  <2>2. n \notin 1 .. issued BY <1>1
  <2> QED BY <1>3, <2>1, <2>2 DEF Inv, TypeOK, Settled
<1>10. OneAttempt' BY DEF Inv, OneAttempt, PutData, client
<1> QED BY <1>4, <1>5, <1>6, <1>8, <1>9, <1>10 DEF Inv

\* A message that is no write changes nothing about the writes on the socket.
LEMMA SendOther ==
  ASSUME Inv, NEW msg \in Msg, msg.kind # "put", Send(msg), down' = down,
         state' = state, issued' = issued, puts' = puts, toAck' = toAck,
         done' = done
  PROVE  up' \in Seq(Msg) /\ Offline' /\ OnWire' /\ InOrder' /\ Settled'
<1>1. /\ up' \in Seq(Msg) /\ PutOf(msg) = {} /\ Online' = Online
      /\ Online => up' = Append(up, msg) /\ PutsIn(up') = PutsIn(up)
      /\ ~Online => up' = up
  BY SendFacts DEF Inv, TypeOK, PutOf, Online
<1>2. Sorted(up')
  BY <1>1, AppendSorted DEF Inv, TypeOK, InOrder
<1>3. PutsIn(up') = PutsIn(up)
  BY <1>1
<1>4. Offline' BY <1>1 DEF Inv, Offline
<1>5. OnWire' BY <1>1, <1>3 DEF Inv, OnWire
<1>6. InOrder' BY <1>2, <1>3 DEF Inv, InOrder
<1>7. Settled' BY DEF Inv, Settled
<1> QED BY <1>1, <1>4, <1>5, <1>6, <1>7

LEMMA ListenInv == ASSUME NEW q \in Queries, Inv, Listen(q) PROVE Inv'
<1>1. specs + 1 \in Specs /\ specs + 1 \in 0 .. MaxListens
  BY ConnectionBounds DEF Inv, TypeOK, Listen, Specs
<1>2. Listening(q, specs + 1) \in Msg /\ Listening(q, specs + 1).kind = "listen"
  BY <1>1, MsgFacts
<1>3. up' \in Seq(Msg) /\ Offline' /\ OnWire' /\ InOrder' /\ Settled'
  BY <1>2, SendOther DEF Listen, client, writes
<1>4. TypeOK'
  <2>1. listens' \in [Queries -> {0} \cup Specs] /\ specs' \in 0 .. MaxListens
    BY <1>1 DEF Inv, TypeOK, Listen
  <2>2. unacked' \in Int
    BY DEF Inv, TypeOK, Listen
  <2> QED
    BY <1>3, <2>1, <2>2 DEF Inv, TypeOK, Listen, client, writes, server, watch
<1>5. OneAttempt' BY DEF Inv, OneAttempt, Listen, client
<1> QED BY <1>3, <1>4, <1>5 DEF Inv

LEMMA UnlistenInv == ASSUME NEW q \in Queries, Inv, Unlisten(q) PROVE Inv'
<1>1. listens[q] \in Specs
  BY DEF Inv, TypeOK, Unlisten
<1>2. /\ Unlistening(q, listens[q]) \in Msg
      /\ Unlistening(q, listens[q]).kind = "unlisten"
  BY <1>1, MsgFacts
<1>3. up' \in Seq(Msg) /\ Offline' /\ OnWire' /\ InOrder' /\ Settled'
  BY <1>2, SendOther DEF Unlisten, client, writes
<1>4. TypeOK'
  <2>1. listens' \in [Queries -> {0} \cup Specs]
    BY DEF Inv, TypeOK, Unlisten
  <2> QED
    BY <1>3, <2>1 DEF Inv, TypeOK, Unlisten, client, writes, server, watch
<1>5. OneAttempt' BY DEF Inv, OneAttempt, Unlisten, client
<1> QED BY <1>3, <1>4, <1>5 DEF Inv

LEMMA RetryInv == Inv /\ Retry => Inv'
<1> SUFFICES ASSUME Inv, Retry PROVE Inv'
  OBVIOUS
<1> USE DEF Inv, Retry, writes, listeners, wire, server, watch
<1>1. TypeOK' BY DEF TypeOK
<1>2. Offline' BY DEF OneAttempt, Offline, Online
<1> QED BY <1>1, <1>2 DEF OneAttempt, OnWire, InOrder, Settled, Online

LEMMA RestoredFacts ==
  ASSUME Inv, NEW qs \in Lines(Wanted), NEW ps \in Lines(puts), ByIndex(ps),
         NEW u, u = [i \in DOMAIN qs |-> Listening(qs[i], listens[qs[i]])]
                    \o [i \in DOMAIN ps |-> Put(ps[i])]
  PROVE  u \in Seq(Msg) /\ Sorted(u) /\ PutsIn(u) = puts
<1> DEFINE N == Cardinality(Wanted)  M == Cardinality(puts)
           a == [i \in DOMAIN qs |-> Listening(qs[i], listens[qs[i]])]
           b == [i \in DOMAIN ps |-> Put(ps[i])]
<1>1. N \in Nat /\ M \in Nat
  <2>1. IsFiniteSet(Wanted)
    BY ConnectionBounds, FS_Subset DEF Wanted
  <2>2. IsFiniteSet(puts)
    <3>1. issued \in Int /\ 1 \in Int /\ puts \subseteq 1 .. issued
      BY ConnectionBounds DEF Inv, TypeOK
    <3>2. IsFiniteSet(1 .. issued) BY <3>1, FS_Interval
    <3> QED BY <3>1, <3>2, FS_Subset
  <2> QED BY <2>1, <2>2, FS_CardinalityType
<1>2. qs \in [1 .. N -> Wanted] /\ ps \in [1 .. M -> puts] /\ Range(ps) = puts
  BY DEF Lines
<1> HIDE DEF N, M
<1>3. puts \subseteq Puts
  BY ConnectionBounds DEF Inv, TypeOK, Puts
<1>4. ASSUME NEW i \in 1 .. N
      PROVE  a[i] \in Msg /\ a[i].kind = "listen"
  <2>1. qs[i] \in Queries /\ listens[qs[i]] \in Specs
    BY <1>2 DEF Wanted, Inv, TypeOK
  <2>2. a[i] = Listening(qs[i], listens[qs[i]]) BY <1>2
  <2> QED BY <2>1, <2>2, MsgFacts
<1>5. ASSUME NEW i \in 1 .. M
      PROVE  b[i] \in Msg /\ b[i].kind = "put" /\ b[i].n = ps[i]
  <2>1. ps[i] \in Puts BY <1>2, <1>3
  <2>2. b[i] = Put(ps[i]) BY <1>2
  <2> QED BY <2>1, <2>2, MsgFacts
<1>6. a \in [1 .. N -> Msg] /\ b \in [1 .. M -> Msg]
  BY <1>2, <1>4, <1>5
<1>7. u = a \o b
  OBVIOUS
<1> HIDE DEF a, b
<1>8. \A i, j \in 1 .. M : i < j => b[i].n < b[j].n
  BY <1>2, <1>5 DEF ByIndex
<1>9. \A i \in 1 .. N : a[i].kind # "put"
  BY <1>4
<1>10. \A i \in 1 .. M : b[i].kind = "put"
  BY <1>5
<1>11. /\ u \in Seq(Msg) /\ DOMAIN u = 1 .. N + M
       /\ \A i \in 1 .. N : u[i] = a[i]
       /\ \A i \in N + 1 .. N + M : u[i] = b[i - N]
  <2>1. /\ a \o b \in Seq(Msg) /\ DOMAIN (a \o b) = 1 .. N + M
        /\ \A i \in 1 .. N : (a \o b)[i] = a[i]
        /\ \A i \in N + 1 .. N + M : (a \o b)[i] = b[i - N]
    BY <1>1, <1>6, ConcatFacts
  <2> QED BY <1>7, <2>1
<1>13. ASSUME NEW i \in DOMAIN u, u[i].kind = "put"
       PROVE  i - N \in 1 .. M /\ u[i] = b[i - N]
  <2>1. i \notin 1 .. N BY <1>9, <1>11, <1>13
  <2>2. i \in N + 1 .. N + M BY <1>1, <1>11, <2>1
  <2>3. i - N \in 1 .. M BY <1>1, <2>2
  <2> QED BY <1>11, <2>2, <2>3
<1>14. Sorted(u)
  <2>1. SUFFICES ASSUME NEW i \in DOMAIN u, NEW j \in DOMAIN u, i < j,
                        u[i].kind = "put", u[j].kind = "put"
                 PROVE  u[i].n < u[j].n
    BY DEF Sorted
  <2>2. i \in Int /\ j \in Int /\ i - N < j - N BY <1>1, <1>11, <2>1
  <2> QED BY <1>8, <1>13, <2>1, <2>2
<1>15. PutsIn(u) = {b[i].n : i \in 1 .. M}
  <2>1. ASSUME NEW n \in PutsIn(u) PROVE n \in {b[i].n : i \in 1 .. M}
    BY <1>13, <2>1 DEF PutsIn
  <2>2. ASSUME NEW i \in 1 .. M PROVE b[i].n \in PutsIn(u)
    <3>1. i + N \in N + 1 .. N + M /\ i + N \in DOMAIN u /\ (i + N) - N = i
      BY <1>1, <1>11
    <3>2. u[i + N] = b[i] BY <1>11, <3>1
    <3> QED BY <1>10, <3>1, <3>2 DEF PutsIn
  <2> QED BY <2>1, <2>2
<1>12. {b[i].n : i \in 1 .. M} = puts
  <2>1. {b[i].n : i \in 1 .. M} = {ps[i] : i \in 1 .. M}
    BY <1>5
  <2> QED BY <1>2, <2>1 DEF Range
<1> QED BY <1>11, <1>12, <1>14, <1>15

LEMMA ReadyInv == Inv /\ Ready => Inv'
<1> SUFFICES ASSUME Inv, Ready PROVE Inv'
  OBVIOUS
<1>1. up' \in Seq(Msg) /\ Sorted(up') /\ PutsIn(up') = puts
  BY RestoredFacts DEF Ready
<1>2. down = <<>> /\ state' = "Connected" /\ down' = down
  BY DEF Inv, Offline, Online, Ready
<1>3. TypeOK'
  <2>1. IsFiniteSet(Wanted)
    BY ConnectionBounds, FS_Subset DEF Wanted
  <2>2. unacked' \in Int
    BY <2>1, FS_CardinalityType DEF Inv, TypeOK, Ready
  <2> QED BY <1>1, <2>2 DEF Inv, TypeOK, Ready, writes, server, watch
<1>4. OneAttempt' BY DEF Inv, OneAttempt, Ready
<1>5. Offline' BY <1>2 DEF Offline, Online
<1>6. OnWire'
  BY <1>1, <1>2, EmptyPuts DEF OnWire, Ready, writes
<1>7. InOrder'
  BY <1>1, <1>2, EmptyPuts DEF InOrder
<1>8. Settled' BY DEF Inv, Settled, Ready, writes
<1> QED BY <1>3, <1>4, <1>5, <1>6, <1>7, <1>8 DEF Inv

LEMMA LostInv ==
  ASSUME Inv, Lost, retry' \in BOOLEAN, shut' \in BOOLEAN PROVE Inv'
<1>1. TypeOK'
  <2>1. faults' \in 0 .. MaxFaults
    BY ConnectionBounds DEF Inv, TypeOK, Lost
  <2>2. stranded' \in BOOLEAN
    BY DEF Inv, TypeOK, Lost
  <2>3. /\ up' \in Seq(Msg) /\ down' \in Seq(Msg) /\ unacked' \in Int
        /\ watching' \subseteq Queries \X Specs
    BY EmptyPuts DEF Lost
  <2> QED BY <2>1, <2>2, <2>3 DEF Inv, TypeOK, Lost, writes
<1>2. OneAttempt' BY DEF OneAttempt, Lost
<1>3. Offline' /\ OnWire' /\ InOrder'
  BY EmptyPuts DEF Offline, OnWire, InOrder, Online, Lost
<1>4. Settled' BY DEF Inv, Settled, Lost, writes
<1> QED BY <1>1, <1>2, <1>3, <1>4 DEF Inv

\* What handling a message changes.
LEMMA ServeFacts ==
  ASSUME Inv, Serve
  PROVE  /\ Online
         /\ up' \in Seq(Msg) /\ down' \in Seq(Msg) /\ Sorted(up')
         /\ PutsIn(up) = PutsIn(up') \cup PutOf(Head(up))
         /\ PutsIn(down') = PutsIn(down) \cup PutOf(Head(up))
         /\ Head(up) \in Msg
         /\ Head(up).kind = "put" => /\ down' = Append(down, Head(up))
                                     /\ latest' = Head(up).n
                                     /\ \A m \in PutsIn(up') : Head(up).n < m
         /\ Head(up).kind # "put" => latest' = latest /\ PutsIn(up') = PutsIn(up)
         /\ Sorted(down')
         /\ watching' \subseteq Queries \X Specs
<1> DEFINE msg == Head(up)
<1>1. Online /\ up # <<>> /\ up' = Tail(up)
  BY DEF Inv, Offline, Serve
<1>2. /\ Tail(up) \in Seq(Msg) /\ msg \in Msg
      /\ PutsIn(up) = PutsIn(Tail(up)) \cup PutOf(msg)
      /\ Sorted(Tail(up))
      /\ msg.kind = "put" => \A m \in PutsIn(Tail(up)) : msg.n < m
  BY <1>1, TailPuts DEF Inv, TypeOK, InOrder
<1>3. PutOf(msg) \subseteq PutsIn(up)
  BY <1>2
<1> HIDE DEF msg
<1>4. CASE msg.kind = "put"
  <2>1. down' = Append(down, msg) /\ latest' = msg.n /\ watching' = watching
    BY <1>4 DEF Serve, msg, Answered
  <2>2. \A m \in PutsIn(down) : m < msg.n
    BY <1>3, <1>4 DEF Inv, InOrder, PutOf
  <2>3. /\ down' \in Seq(Msg) /\ Sorted(down')
        /\ PutsIn(down') = PutsIn(down) \cup PutOf(msg)
    BY <1>2, <2>1, <2>2, AppendPuts, AppendSorted DEF Inv, TypeOK, InOrder
  <2> QED BY <1>1, <1>2, <1>4, <2>1, <2>3 DEF msg, Inv, TypeOK
<1>5. CASE msg.kind # "put"
  <2>1. msg.q \in Queries /\ msg.n \in Specs /\ PutOf(msg) = {}
    BY <1>2, <1>5, MsgFacts DEF PutOf
  <2>2. latest' = latest /\ watching' \subseteq Queries \X Specs
    BY <1>5, <2>1 DEF Serve, msg, server, Inv, TypeOK
  <2>3. \/ down' = down
        \/ \E a \in Msg : a.kind # "put" /\ down' = Append(down, a)
    <3>1. \/ down' = down
          \/ down' = Append(down, msg)
          \/ down' = Append(down, Refusal(msg.q, msg.n))
      BY <1>5 DEF Serve, msg, Answered
    <3>2. Refusal(msg.q, msg.n) \in Msg /\ Refusal(msg.q, msg.n).kind # "put"
      BY <2>1, MsgFacts
    <3> QED BY <1>2, <1>5, <3>1, <3>2
  <2>4. /\ down' \in Seq(Msg) /\ Sorted(down')
        /\ PutsIn(down') = PutsIn(down)
    <3>1. CASE down' = down BY <3>1 DEF Inv, TypeOK, InOrder
    <3>2. ASSUME NEW a \in Msg, a.kind # "put", down' = Append(down, a)
          PROVE  down' \in Seq(Msg) /\ Sorted(down') /\ PutsIn(down') = PutsIn(down)
      <4>1. PutOf(a) = {} BY <3>2 DEF PutOf
      <4> QED BY <3>2, <4>1, AppendPuts, AppendSorted DEF Inv, TypeOK, InOrder
    <3> QED BY <2>3, <3>1, <3>2
  <2> QED BY <1>1, <1>2, <1>5, <2>1, <2>2, <2>4 DEF msg
<1> QED BY <1>4, <1>5

LEMMA ServeInv == Inv /\ Serve => Inv'
<1> SUFFICES ASSUME Inv, Serve PROVE Inv'
  OBVIOUS
<1>1. /\ state' = state /\ retry' = retry /\ shut' = shut /\ puts' = puts
      /\ issued' = issued /\ toAck' = toAck /\ done' = done /\ Online' = Online
  BY DEF Serve, client, writes, Online
<1>2. puts = PutsIn(up) \cup PutsIn(down)
  BY ServeFacts DEF Inv, OnWire
<1>3. TypeOK'
  <2>1. latest' \in 0 .. issued
    <3>1. CASE Head(up).kind = "put"
      <4>1. Head(up).n \in puts BY <1>2, <3>1, ServeFacts DEF PutOf
      <4>2. latest' = Head(up).n BY <3>1, ServeFacts
      <4>3. issued \in Nat /\ puts \subseteq 1 .. issued
        BY ConnectionBounds DEF Inv, TypeOK
      <4>4. Head(up).n \in 1 .. issued BY <4>1, <4>3
      <4>5. latest' \in 1 .. issued BY <4>2, <4>4, Zenon
      <4> QED BY <4>3, <4>5
    <3>2. CASE Head(up).kind # "put" BY <3>2, ServeFacts DEF Inv, TypeOK
    <3> QED BY <3>1, <3>2
  <2> QED BY <1>1, <2>1, ServeFacts DEF Inv, TypeOK, Serve, listeners, watch
<1>4. OneAttempt' BY <1>1 DEF Inv, OneAttempt
<1>5. Offline' BY <1>1, ServeFacts DEF Offline
<1>6. OnWire' BY <1>1, <1>2, ServeFacts DEF OnWire
<1>7. InOrder'
  <2>1. SUFFICES ASSUME NEW m \in PutsIn(down'), NEW n \in PutsIn(up')
                 PROVE  m < n
    BY ServeFacts DEF InOrder
  <2>2. CASE m \in PutsIn(down) BY <2>1, <2>2, ServeFacts DEF Inv, InOrder
  <2>3. CASE m \in PutOf(Head(up)) BY <2>1, <2>3, ServeFacts DEF PutOf
  <2> QED BY <2>1, <2>2, <2>3, ServeFacts
<1>8. Settled' BY <1>1 DEF Inv, Settled
<1> QED BY <1>3, <1>4, <1>5, <1>6, <1>7, <1>8 DEF Inv

\* What an answer takes from the socket.
LEMMA AnswerFacts ==
  ASSUME Inv, down # <<>>, down' = Tail(down), up' = up, state' = state
  PROVE  /\ Online /\ Online' /\ Head(down) \in Msg
         /\ down' \in Seq(Msg) /\ InOrder'
         /\ PutsIn(down) = PutsIn(down') \cup PutOf(Head(down))
         /\ Head(down).kind = "put" =>
              /\ Head(down).n \in puts /\ Head(down).n \in 1 .. issued
              /\ \A m \in puts : m = Head(down).n \/ Head(down).n < m
              /\ PutsIn(down') = PutsIn(down) \ {Head(down).n}
              /\ puts \ {Head(down).n} = PutsIn(up') \cup PutsIn(down')
         /\ Head(down).kind # "put" => PutsIn(down') = PutsIn(down)
<1> DEFINE msg == Head(down)
<1>1. Online /\ Online' /\ puts = PutsIn(up) \cup PutsIn(down)
  BY DEF Inv, Offline, OnWire, Online
<1>2. /\ down' \in Seq(Msg) /\ msg \in Msg /\ Sorted(down')
      /\ PutsIn(down) = PutsIn(down') \cup PutOf(msg)
      /\ msg.kind = "put" => \A m \in PutsIn(down') : msg.n < m
  BY TailPuts DEF Inv, TypeOK, InOrder
<1> HIDE DEF msg
<1>3. InOrder'
  BY <1>2 DEF Inv, InOrder
<1>4. ASSUME msg.kind = "put"
      PROVE  /\ msg.n \in puts /\ msg.n \in 1 .. issued
             /\ \A m \in puts : m = msg.n \/ msg.n < m
             /\ PutsIn(down') = PutsIn(down) \ {msg.n}
             /\ puts \ {msg.n} = PutsIn(up') \cup PutsIn(down')
  <2>1. msg.n \in PutsIn(down) /\ PutOf(msg) = {msg.n} /\ msg.n \in Nat
    BY <1>2, <1>4, MsgFacts DEF PutOf
  <2>2. msg.n \in puts /\ msg.n \in 1 .. issued
    BY <1>1, <2>1 DEF Inv, TypeOK
  <2>3. msg.n \notin PutsIn(down') /\ msg.n \notin PutsIn(up)
    <3>1. ~(msg.n < msg.n) BY <2>1
    <3> QED BY <1>2, <1>4, <2>1, <3>1 DEF Inv, InOrder
  <2>4. \A m \in puts : m = msg.n \/ msg.n < m
    BY <1>1, <1>2, <1>4, <2>1 DEF Inv, InOrder
  <2>5. PutsIn(down') = PutsIn(down) \ {msg.n}
    BY <1>2, <2>1, <2>3
  <2>6. puts \ {msg.n} = PutsIn(up') \cup PutsIn(down')
    BY <1>1, <2>3, <2>5
  <2> QED BY <2>2, <2>4, <2>5, <2>6
<1>5. ASSUME msg.kind # "put" PROVE PutsIn(down') = PutsIn(down)
  BY <1>2, <1>5 DEF PutOf
<1> QED BY <1>1, <1>2, <1>3, <1>4, <1>5 DEF msg

LEMMA PutAnsweredInv == Inv /\ PutAnswered => Inv'
<1> SUFFICES ASSUME Inv, PutAnswered PROVE Inv'
  OBVIOUS
<1> DEFINE n == Head(down).n
<1>1. /\ state' = state /\ retry' = retry /\ shut' = shut /\ issued' = issued
      /\ up' = up /\ down' = Tail(down) /\ puts' = puts \ {n}
      /\ down # <<>> /\ Head(down).kind = "put"
  BY DEF PutAnswered, client
<1>2. /\ Online /\ Online' /\ down' \in Seq(Msg) /\ InOrder'
      /\ n \in puts /\ n \in 1 .. issued
      /\ puts' = PutsIn(up') \cup PutsIn(down')
  BY <1>1, AnswerFacts
<1> HIDE DEF n
<1>3. \/ done' = done \cup {n} /\ toAck' = toAck
      \/ done' = done /\ toAck' = Append(toAck, n)
  BY DEF PutAnswered, Completed, n
<1>4. toAck \in Seq(1 .. issued)
  BY DEF Inv, TypeOK
<1>5. /\ Append(toAck, n) \in Seq(1 .. issued)
      /\ Range(Append(toAck, n)) = Range(toAck) \cup {n}
  <2>1. /\ Append(toAck, n) \in Seq(1 .. issued) /\ Len(toAck) \in Nat
        /\ DOMAIN toAck = 1 .. Len(toAck)
        /\ DOMAIN Append(toAck, n) = 1 .. Len(toAck) + 1
        /\ \A i \in 1 .. Len(toAck) : Append(toAck, n)[i] = toAck[i]
        /\ Append(toAck, n)[Len(toAck) + 1] = n
    BY <1>2, <1>4, AppendProperties, LenProperties
  <2>2. ASSUME NEW x \in Range(Append(toAck, n)) PROVE x \in Range(toAck) \cup {n}
    BY <2>1, <2>2 DEF Range
  <2>3. Range(toAck) \cup {n} \subseteq Range(Append(toAck, n))
    BY <2>1 DEF Range
  <2> QED BY <2>1, <2>2, <2>3
<1>6. TypeOK'
  <2>1. /\ puts' \subseteq 1 .. issued' /\ done' \subseteq 1 .. issued'
        /\ toAck' \in Seq(1 .. issued')
    BY <1>1, <1>2, <1>3, <1>4, <1>5 DEF Inv, TypeOK
  <2> QED BY <1>1, <1>2, <2>1 DEF Inv, TypeOK, PutAnswered, listeners, server, watch
<1>7. Settled'
  BY <1>1, <1>3, <1>5 DEF Inv, Settled
<1> QED BY <1>1, <1>2, <1>6, <1>7 DEF Inv, OneAttempt, Offline, OnWire

LEMMA ListenAnsweredInv == Inv /\ ListenAnswered => Inv'
<1> SUFFICES ASSUME Inv, ListenAnswered PROVE Inv'
  OBVIOUS
<1>1. /\ state' = state /\ retry' = retry /\ shut' = shut /\ issued' = issued
      /\ up' = up /\ down' = Tail(down) /\ puts' = puts
      /\ down # <<>> /\ Head(down).kind # "put"
  BY DEF ListenAnswered, client
<1>2. /\ Online /\ Online' /\ down' \in Seq(Msg) /\ InOrder'
      /\ puts' = PutsIn(up') \cup PutsIn(down')
  BY <1>1, AnswerFacts DEF Inv, OnWire
<1>3. /\ done \subseteq 1 .. issued /\ toAck \in Seq(1 .. issued)
      /\ Range(toAck) \subseteq 1 .. issued
  BY LenProperties, ElementOfSeq DEF Inv, TypeOK, Range
<1>4. /\ done' \subseteq 1 .. issued /\ toAck' \in Seq(1 .. issued)
      /\ done' \subseteq done \cup Range(toAck)
      /\ Range(toAck') \subseteq Range(toAck)
      /\ stranded' \in BOOLEAN
  <2>1. <<>> \in Seq(1 .. issued) /\ Range(<<>>) = {}
    BY EmptySeq DEF Range
  <2>2. stranded \in BOOLEAN BY DEF Inv, TypeOK
  <2> QED BY <1>3, <2>1, <2>2 DEF ListenAnswered, AckPuts
<1>5. listens' \in [Queries -> {0} \cup Specs]
  BY DEF Inv, TypeOK, ListenAnswered, Removed
<1>6. TypeOK'
  <2>1. unacked' \in Int BY DEF Inv, TypeOK, ListenAnswered
  <2> QED
    BY <1>1, <1>2, <1>4, <1>5, <2>1 DEF Inv, TypeOK, ListenAnswered, server
<1>7. Settled'
  BY <1>1, <1>4 DEF Inv, Settled
<1> QED BY <1>1, <1>2, <1>6, <1>7 DEF Inv, OneAttempt, Offline, OnWire

LEMMA StepInv == Inv /\ [Next]_vars => Inv'
<1> SUFFICES ASSUME Inv, [Next]_vars PROVE Inv'
  OBVIOUS
<1>1. CASE \E q \in Queries : Listen(q) \/ Unlisten(q)
  BY <1>1, ListenInv, UnlistenInv
<1>2. CASE Disconnect
  BY <1>2, LostInv DEF Disconnect, Inv, TypeOK
<1>3. CASE Shutdown
  BY <1>3, LostInv DEF Shutdown, Inv, TypeOK
<1>4. CASE UNCHANGED vars
  <2> USE <1>4 DEF vars, client, writes, listeners, wire, server, watch, Inv
  <2>1. TypeOK' BY DEF TypeOK
  <2>2. OneAttempt' /\ Offline' BY DEF OneAttempt, Offline, Online
  <2>3. OnWire' /\ InOrder' BY DEF OnWire, InOrder, Online
  <2>4. Settled' BY DEF Settled
  <2> QED BY <2>1, <2>2, <2>3, <2>4
<1> QED
  BY <1>1, <1>2, <1>3, <1>4, PutDataInv, RetryInv, ReadyInv, ServeInv,
     PutAnsweredInv, ListenAnsweredInv DEF Next

LEMMA InvHolds == Spec => []Inv
BY InitInv, StepInv, PTL DEF Spec

\* The types of the variables.
THEOREM ConnectionTyped == Spec => []TypeOK
<1>1. Inv => TypeOK BY DEF Inv
<1> QED BY InvHolds, <1>1, PTL

\* No connection attempt is scheduled while one is made or a connection is there.
THEOREM AttemptsOneByOne == Spec => []OneAttempt
<1>1. Inv => OneAttempt BY DEF Inv
<1> QED BY InvHolds, <1>1, PTL

-----------------------------------------------------------------------------
(* Each step of the connection is one of Outbox *)

LEMMA InitPromise == Init => Promise!Init
BY EmptyPuts DEF Init, Promise!Init

LEMMA IssuePromise == Inv /\ PutData => Promise!Issue
BY DEF PutData, Promise!Issue, server

LEMMA ServePromise ==
  Inv /\ Serve => UNCHANGED Promise!vars \/ \E n \in puts : Promise!Apply(n)
<1> SUFFICES ASSUME Inv, Serve
             PROVE  UNCHANGED Promise!vars \/ \E n \in puts : Promise!Apply(n)
  OBVIOUS
<1> DEFINE msg == Head(up)
<1>1. /\ issued' = issued /\ puts' = puts /\ done' = done
      /\ puts = PutsIn(up) \cup PutsIn(down)
  BY ServeFacts DEF Serve, writes, Inv, OnWire
<1>2. /\ PutsIn(up) = PutsIn(up') \cup PutOf(msg)
      /\ PutsIn(down') = PutsIn(down) \cup PutOf(msg)
      /\ msg \in Msg
      /\ msg.kind = "put" => latest' = msg.n /\ \A m \in PutsIn(up') : msg.n < m
      /\ msg.kind # "put" => latest' = latest
  BY ServeFacts
<1> HIDE DEF msg
<1>3. CASE msg.kind = "put"
  <2>1. PutOf(msg) = {msg.n} /\ msg.n \in PutsIn(up) /\ msg.n \in puts
    BY <1>1, <1>2, <1>3 DEF PutOf
  <2>2. msg.n \in Nat /\ PutsIn(up') \subseteq Nat
    <3>1. up' \in Seq(Msg) BY ServeFacts
    <3> QED BY <1>2, <1>3, <3>1, MsgFacts, PutsNat
  <2>3. msg.n \notin PutsIn(down)
    <3>1. ~(msg.n < msg.n) BY <2>2
    <3> QED BY <2>1, <3>1 DEF Inv, InOrder
  <2>4. ASSUME NEW m \in puts, m < msg.n PROVE m \in PutsIn(down)
    <3>1. m \notin PutOf(msg) BY <2>1, <2>2, <2>4
    <3>2. m \notin PutsIn(up')
      <4>1. ASSUME m \in PutsIn(up') PROVE FALSE
        <5>1. msg.n < m /\ m \in Nat BY <1>2, <1>3, <2>2, <4>1
        <5> QED BY <2>2, <2>4, <5>1
      <4> QED BY <4>1
    <3> QED BY <1>1, <1>2, <3>1, <3>2
  <2>5. Promise!Apply(msg.n)
    BY <1>1, <1>2, <1>3, <2>1, <2>3, <2>4 DEF Promise!Apply
  <2> QED BY <2>1, <2>5
<1>4. CASE msg.kind # "put"
  <2>1. PutsIn(down') = PutsIn(down) /\ latest' = latest
    BY <1>2, <1>4 DEF PutOf
  <2> QED BY <1>1, <2>1 DEF Promise!vars
<1> QED BY <1>3, <1>4

LEMMA AckPromise == Inv /\ PutAnswered => \E n \in puts : Promise!Ack(n)
<1> SUFFICES ASSUME Inv, PutAnswered PROVE \E n \in puts : Promise!Ack(n)
  OBVIOUS
<1> DEFINE n == Head(down).n
<1>1. /\ issued' = issued /\ latest' = latest /\ puts' = puts \ {n}
      /\ down # <<>> /\ down' = Tail(down) /\ up' = up /\ state' = state
      /\ Head(down).kind = "put" /\ done' \in {done, done \cup {n}}
  BY DEF PutAnswered, Completed, client, server
<1>2. /\ n \in puts /\ \A m \in puts : m = n \/ n < m
      /\ PutsIn(down') = PutsIn(down) \ {n} /\ n \in PutsIn(down)
  BY <1>1, AnswerFacts DEF PutOf
<1> HIDE DEF n
<1>3. \A m \in puts : n <= m
  BY <1>2 DEF Inv, TypeOK
<1>4. Promise!Ack(n)
  BY <1>1, <1>2, <1>3 DEF Promise!Ack
<1> QED BY <1>2, <1>4

LEMMA CompletePromise ==
  Inv /\ ListenAnswered => Promise!Complete
<1> SUFFICES ASSUME Inv, ListenAnswered PROVE Promise!Complete
  OBVIOUS
<1>1. /\ issued' = issued /\ puts' = puts /\ latest' = latest
      /\ done' = done \/ done' = done \cup Range(toAck)
      /\ down # <<>> /\ down' = Tail(down) /\ up' = up /\ state' = state
      /\ Head(down).kind # "put"
  BY DEF ListenAnswered, AckPuts, client, server
<1>2. PutsIn(down') = PutsIn(down)
  BY <1>1, AnswerFacts
<1>3. Range(toAck) \in SUBSET ((1 .. issued) \ puts) /\ {} \in SUBSET ((1 .. issued) \ puts)
  BY LenProperties, ElementOfSeq DEF Inv, TypeOK, Settled, Range
<1>4. done \cup {} = done
  OBVIOUS
<1>5. \E S \in SUBSET ((1 .. issued) \ puts) : done' = done \cup S
  BY <1>1, <1>3, <1>4
<1> QED BY <1>1, <1>2, <1>5 DEF Promise!Complete

LEMMA DropPromise == Lost => Promise!Drop
BY EmptyPuts DEF Lost, Promise!Drop, writes

LEMMA StepPromise == Inv /\ [Next]_vars => [Promise!Next]_(Promise!vars)
<1> SUFFICES ASSUME Inv, [Next]_vars PROVE Promise!Next \/ UNCHANGED Promise!vars
  OBVIOUS
<1>1. CASE \E q \in Queries : Listen(q) \/ Unlisten(q)
  BY <1>1 DEF Listen, Unlisten, writes, server, Promise!vars
<1>2. CASE Retry \/ Ready
  BY <1>2 DEF Retry, Ready, wire, writes, server, Promise!vars
<1>3. CASE Disconnect \/ Shutdown
  BY <1>3, DropPromise DEF Disconnect, Shutdown, Promise!Next
<1>4. CASE UNCHANGED vars
  BY <1>4 DEF vars, wire, writes, server, Promise!vars
<1>5. CASE PutData BY <1>5, IssuePromise DEF Promise!Next
<1>6. CASE Serve BY <1>6, ServePromise DEF Promise!Next
<1>7. CASE PutAnswered BY <1>7, AckPromise DEF Promise!Next
<1>8. CASE ListenAnswered BY <1>8, CompletePromise DEF Promise!Next
<1> QED
  BY <1>1, <1>2, <1>3, <1>4, <1>5, <1>6, <1>7, <1>8 DEF Next

\* The connection keeps the promise of Outbox: writes are handled in the order
\* they were made, again and in order after a lost connection, each answered
\* before it completes.
THEOREM Delivered == Spec => Delivers
BY InvHolds, InitPromise, StepPromise, PTL DEF Spec, Delivers, Promise!Spec

-----------------------------------------------------------------------------
(* What Outbox promises keeps the order of writes *)

\* The writes without an answer are the newest ones, those handled are the oldest
\* of these, and the last one handled is the newest of those, or, if none is, the
\* one whose answer came last, or one that is to be handled again.
Suffix == \A m \in puts, n \in 1 .. issued : m < n => n \in puts
Prefix == \A m \in PutsIn(down), n \in puts : n < m => n \in PutsIn(down)
LastOne == PutsIn(down) # {} =>
            latest \in PutsIn(down) /\ \A m \in PutsIn(down) : m <= latest
Word == puts = {} => latest = issued
Kept == Promise!TypeOK /\ Suffix /\ Prefix /\ LastOne /\ Word

LEMMA InitKept == Promise!Init => Kept
BY DEF Promise!Init, Kept, Promise!TypeOK, Suffix, Prefix, LastOne, Word

LEMMA IssueKept == Kept /\ Promise!Issue => Kept'
<1> SUFFICES ASSUME Kept, Promise!Issue PROVE Kept'
  OBVIOUS
<1> USE DEF Kept, Promise!Issue
<1>1. Promise!TypeOK' BY DEF Promise!TypeOK
<1>2. Suffix' BY DEF Promise!TypeOK, Suffix
<1>3. Prefix'
  <2>1. SUFFICES ASSUME NEW m \in PutsIn(down), NEW k \in puts', k < m
                 PROVE  k \in PutsIn(down)
    BY DEF Prefix
  <2>2. m \in 1 .. issued /\ issued \in Nat BY DEF Promise!TypeOK
  <2>3. k \in puts BY <2>1, <2>2
  <2> QED BY <2>1, <2>3 DEF Prefix
<1>4. LastOne' BY DEF LastOne
<1>5. Word' BY DEF Promise!TypeOK, Word
<1> QED BY <1>1, <1>2, <1>3, <1>4, <1>5

LEMMA ApplyKept == ASSUME NEW n, Kept, Promise!Apply(n) PROVE Kept'
<1> USE DEF Kept, Promise!Apply
<1>1. Promise!TypeOK' BY DEF Promise!TypeOK
<1>2. Suffix' BY DEF Promise!TypeOK, Suffix
<1>3. Prefix' BY DEF Promise!TypeOK, Prefix
<1>4. LastOne'
  <2>1. ASSUME NEW m \in PutsIn(down), n < m PROVE FALSE
    <3>1. n \in puts /\ m \in puts /\ \A k \in puts : k \in Nat
      BY DEF Promise!TypeOK
    <3>2. n \in PutsIn(down) BY <2>1, <3>1 DEF Prefix
    <3> QED BY <3>2
  <2>2. \A m \in PutsIn(down) : m <= n
    <3>1. \A k \in puts : k \in Nat BY DEF Promise!TypeOK
    <3>2. n \in puts /\ PutsIn(down) \subseteq puts BY DEF Promise!TypeOK
    <3> QED BY <2>1, <3>1, <3>2
  <2>3. n <= n BY DEF Promise!TypeOK
  <2> QED BY <2>2, <2>3 DEF LastOne
<1>5. Word' BY DEF Word
<1> QED BY <1>1, <1>2, <1>3, <1>4, <1>5

\* The write whose answer leaves none is the last one made, and the last one handled.
LEMMA AckKept == ASSUME NEW n, Kept, Promise!Ack(n) PROVE Kept'
<1> USE DEF Kept, Promise!Ack
<1>1. Promise!TypeOK' BY DEF Promise!TypeOK
<1>2. Suffix' BY DEF Promise!TypeOK, Suffix
<1>3. Prefix' BY DEF Promise!TypeOK, Prefix
<1>4. LastOne'
  <2>1. SUFFICES ASSUME NEW k \in PutsIn(down), k # n PROVE latest # n
    BY DEF LastOne
  <2>2. n \in puts /\ k \in puts /\ \A m \in puts : m \in Nat
    BY DEF Promise!TypeOK
  <2>3. n <= k BY <2>2
  <2>4. k <= latest BY DEF LastOne
  <2> QED BY <2>1, <2>2, <2>3, <2>4
<1>5. Word'
  <2>1. SUFFICES ASSUME puts' = {} PROVE latest = issued
    BY DEF Word
  <2>2. n \in 1 .. issued /\ puts = {n} /\ PutsIn(down) = {n}
    BY <2>1 DEF Promise!TypeOK
  <2>3. latest = n
    BY <2>2 DEF LastOne
  <2>4. issued = n
    <3>1. issued \in 1 .. issued /\ issued \in Nat
      BY <2>2 DEF Promise!TypeOK
    <3>2. ~(n < issued)
      BY <2>2, <3>1 DEF Suffix
    <3> QED BY <2>2, <3>1, <3>2
  <2> QED BY <2>3, <2>4
<1> QED BY <1>1, <1>2, <1>3, <1>4, <1>5

LEMMA StepKept == Kept /\ [Promise!Next]_(Promise!vars) => Kept'
<1> SUFFICES ASSUME Kept, Promise!Next \/ UNCHANGED Promise!vars PROVE Kept'
  OBVIOUS
<1>1. CASE Promise!Issue BY <1>1, IssueKept
<1>2. CASE \E n \in puts : Promise!Apply(n) BY <1>2, ApplyKept
<1>3. CASE \E n \in puts : Promise!Ack(n) BY <1>3, AckKept
<1>4. CASE Promise!Complete
  BY <1>4 DEF Promise!Complete, Kept, Promise!TypeOK, Suffix, Prefix, LastOne, Word
<1>5. CASE Promise!Drop
  BY <1>5 DEF Promise!Drop, Kept, Promise!TypeOK, Suffix, Prefix, LastOne, Word
<1>6. CASE UNCHANGED Promise!vars
  BY <1>6 DEF Promise!vars, Kept, Promise!TypeOK, Suffix, Prefix, LastOne, Word
<1> QED BY <1>1, <1>2, <1>3, <1>4, <1>5, <1>6 DEF Promise!Next

\* Of the promise alone: once every write of a device is answered, the last one it
\* made is the last one handled, however often writes were handled again.
THEOREM LastWord == Promise!Spec => []Promise!LastStays
<1>1. Kept => Promise!LastStays
  BY DEF Kept, Word, Promise!LastStays
<1> QED BY InitKept, StepKept, <1>1, PTL DEF Promise!Spec

\* Of the promise alone: no write whose completion was called is handled again.
THEOREM AnsweredFirst == Promise!Spec => []Promise!DoneAnswered
<1>1. Promise!Init => Promise!TypeOK /\ Promise!DoneAnswered
  BY DEF Promise!Init, Promise!TypeOK, Promise!DoneAnswered
<1>2. ASSUME Promise!TypeOK, Promise!DoneAnswered, [Promise!Next]_(Promise!vars)
      PROVE  Promise!DoneAnswered'
  <2> USE DEF Promise!DoneAnswered
  <2>1. CASE Promise!Issue
    BY <1>2, <2>1 DEF Promise!Issue, Promise!TypeOK
  <2>2. ASSUME NEW n \in puts, Promise!Apply(n) \/ Promise!Ack(n)
        PROVE  Promise!DoneAnswered'
    BY <1>2, <2>2 DEF Promise!Apply, Promise!Ack
  <2>3. CASE Promise!Complete \/ Promise!Drop
    BY <1>2, <2>3 DEF Promise!Complete, Promise!Drop
  <2>4. CASE UNCHANGED Promise!vars
    BY <1>2, <2>4 DEF Promise!vars
  <2> QED BY <1>2, <2>1, <2>2, <2>3, <2>4 DEF Promise!Next
<1>3. Kept => Promise!TypeOK
  BY DEF Kept
<1> QED BY InitKept, StepKept, <1>1, <1>2, <1>3, PTL DEF Promise!Spec

\* With every write answered, the last one made is the last one handled.
THEOREM LastHandled == Spec => []LastStays
BY Delivered, LastWord, PTL DEF Delivers, LastStays

-----------------------------------------------------------------------------
(* The answers to listeners that are awaited *)

Awaited(msg) == msg.kind \in {"listen", "refused"}
Count(s) == Cardinality(ListensIn(s))

LEMMA EmptyCount == Count(<<>>) = 0
<1>1. ListensIn(<<>>) = {} BY DEF ListensIn
<1> QED BY <1>1, FS_EmptySet DEF Count

LEMMA CountNat ==
  ASSUME NEW s \in Seq(Msg)
  PROVE  /\ IsFiniteSet(ListensIn(s)) /\ Count(s) \in Nat
         /\ Count(s) = 0 => ListensIn(s) = {}
<1>1. Len(s) \in Int /\ 1 \in Int /\ DOMAIN s = 1 .. Len(s)
  BY LenProperties
<1>2. IsFiniteSet(1 .. Len(s)) BY <1>1, FS_Interval
<1>3. ListensIn(s) \subseteq 1 .. Len(s) BY <1>1 DEF ListensIn
<1>4. IsFiniteSet(ListensIn(s)) BY <1>2, <1>3, FS_Subset
<1> QED BY <1>4, FS_CardinalityType, FS_EmptySet DEF Count

LEMMA AppendCount ==
  ASSUME NEW s \in Seq(Msg), NEW msg \in Msg
  PROVE  Count(Append(s, msg)) = Count(s) + (IF Awaited(msg) THEN 1 ELSE 0)
<1> DEFINE t == Append(s, msg)
<1>1. /\ Len(s) \in Nat
      /\ DOMAIN s = 1 .. Len(s) /\ DOMAIN t = 1 .. Len(s) + 1
      /\ \A i \in 1 .. Len(s) : t[i] = s[i]
      /\ t[Len(s) + 1] = msg
  BY AppendProperties, LenProperties
<1> HIDE DEF t
<1>2. IsFiniteSet(ListensIn(s)) /\ Count(s) \in Nat
  BY CountNat
<1>3. Len(s) + 1 \notin ListensIn(s)
  BY <1>1 DEF ListensIn
<1>4. CASE Awaited(msg)
  <2>1. ListensIn(t) = ListensIn(s) \cup {Len(s) + 1}
    <3>1. ASSUME NEW i \in ListensIn(t) PROVE i \in ListensIn(s) \cup {Len(s) + 1}
      BY <1>1, <3>1 DEF ListensIn
    <3>2. ASSUME NEW i \in ListensIn(s) PROVE i \in ListensIn(t)
      BY <1>1, <3>2 DEF ListensIn
    <3>3. Len(s) + 1 \in ListensIn(t)
      BY <1>1, <1>4 DEF ListensIn, Awaited
    <3> QED BY <3>1, <3>2, <3>3
  <2> QED BY <1>2, <1>3, <1>4, <2>1, FS_AddElement DEF Count, t
<1>5. CASE ~Awaited(msg)
  <2>1. ListensIn(t) = ListensIn(s)
    <3>1. ASSUME NEW i \in ListensIn(t) PROVE i \in ListensIn(s)
      <4>1. i # Len(s) + 1 BY <1>1, <1>5, <3>1 DEF ListensIn, Awaited
      <4> QED BY <1>1, <3>1, <4>1 DEF ListensIn
    <3>2. ASSUME NEW i \in ListensIn(s) PROVE i \in ListensIn(t)
      BY <1>1, <3>2 DEF ListensIn
    <3> QED BY <3>1, <3>2
  <2> QED BY <1>2, <1>5, <2>1 DEF Count, t
<1> QED BY <1>4, <1>5

LEMMA TailCount ==
  ASSUME NEW s \in Seq(Msg), s # <<>>
  PROVE  Count(s) = Count(Tail(s)) + (IF Awaited(Head(s)) THEN 1 ELSE 0)
<1> DEFINE t == Tail(s)  S == ListensIn(t)  T == ListensIn(s) \ {1}
           f == [i \in S |-> i + 1]
<1>1. /\ t \in Seq(Msg) /\ Head(s) = s[1] /\ Len(s) \in Nat \ {0}
      /\ DOMAIN s = 1 .. Len(s) /\ DOMAIN t = 1 .. Len(s) - 1
      /\ \A i \in 1 .. Len(s) - 1 : t[i] = s[i + 1]
  <2>1. Len(s) \in Nat \ {0} /\ DOMAIN s = 1 .. Len(s) /\ Head(s) = s[1]
    BY EmptySeq, LenProperties
  <2> QED BY <2>1, HeadTailProperties, LenProperties
<1>2. /\ IsFiniteSet(S) /\ Count(t) \in Nat
      /\ IsFiniteSet(ListensIn(s)) /\ Count(s) \in Nat
  BY <1>1, CountNat
<1> HIDE DEF t
<1>3. \A i \in S : i \in 1 .. Len(s) - 1 /\ i + 1 \in T
  <2>1. SUFFICES ASSUME NEW i \in S PROVE i \in 1 .. Len(s) - 1 /\ i + 1 \in T
    OBVIOUS
  <2>2. i \in 1 .. Len(s) - 1 /\ t[i].kind \in {"listen", "refused"}
    BY <1>1, <2>1 DEF ListensIn
  <2>3. i + 1 \in DOMAIN s /\ s[i + 1] = t[i] /\ i + 1 # 1
    BY <1>1, <2>2
  <2> QED BY <2>2, <2>3 DEF ListensIn
<1>4. \A j \in T : j - 1 \in S /\ j = (j - 1) + 1
  <2>1. SUFFICES ASSUME NEW j \in T PROVE j - 1 \in S /\ j = (j - 1) + 1
    OBVIOUS
  <2>2. j \in 1 .. Len(s) /\ j # 1 /\ s[j].kind \in {"listen", "refused"}
    BY <1>1, <2>1 DEF ListensIn
  <2>3. j - 1 \in DOMAIN t /\ t[j - 1] = s[j] /\ j = (j - 1) + 1
    BY <1>1, <2>2
  <2> QED BY <2>2, <2>3 DEF ListensIn
<1> HIDE DEF S, T
<1>5. f \in Bijection(S, T)
  <2>1. f \in [S -> T] BY <1>3
  <2>2. \A a, b \in S : f[a] = f[b] => a = b BY <1>3
  <2>3. \A j \in T : \E i \in S : f[i] = j BY <1>4
  <2> QED
    BY <2>1, <2>2, <2>3 DEF Bijection, Injection, Surjection, IsInjective
<1>6. Cardinality(T) = Count(t)
  <2>1. ExistsBijection(S, T) BY <1>5 DEF ExistsBijection
  <2> QED BY <1>2, <2>1, FS_Bijection DEF Count, S
<1>7. CASE Awaited(Head(s))
  <2>1. 1 \in ListensIn(s) BY <1>1, <1>7 DEF Awaited, ListensIn
  <2>2. Cardinality(T) = Count(s) - 1
    BY <1>2, <2>1, FS_RemoveElement DEF Count, T
  <2> QED BY <1>2, <1>6, <1>7, <2>2 DEF t
<1>8. CASE ~Awaited(Head(s))
  <2>1. 1 \notin ListensIn(s) BY <1>1, <1>8 DEF Awaited, ListensIn
  <2>2. T = ListensIn(s) BY <2>1 DEF T
  <2> QED BY <1>2, <1>6, <1>8, <2>2 DEF Count, t
<1> QED BY <1>7, <1>8

LEMMA RestoredCount ==
  ASSUME NEW N \in Nat, NEW M \in Nat,
         NEW a \in [1 .. N -> Msg], NEW b \in [1 .. M -> Msg],
         \A i \in 1 .. N : a[i].kind = "listen",
         \A i \in 1 .. M : b[i].kind = "put"
  PROVE  Count(a \o b) = N
<1> DEFINE s == a \o b
<1>1. /\ DOMAIN s = 1 .. N + M
      /\ \A i \in 1 .. N : s[i] = a[i]
      /\ \A i \in N + 1 .. N + M : s[i] = b[i - N]
  BY ConcatFacts
<1> HIDE DEF s
<1>2. ASSUME NEW i \in ListensIn(s) PROVE i \in 1 .. N
  <2>1. i \in 1 .. N + M /\ s[i].kind # "put" BY <1>1, <1>2 DEF ListensIn
  <2>2. CASE ~(i <= N)
    <3>1. i - N \in 1 .. M /\ s[i] = b[i - N] BY <1>1, <2>1, <2>2
    <3> QED BY <2>1, <3>1
  <2> QED BY <2>1, <2>2
<1>3. ASSUME NEW i \in 1 .. N PROVE i \in ListensIn(s)
  <2>1. i \in 1 .. N + M /\ s[i] = a[i] BY <1>1
  <2> QED BY <1>1, <2>1 DEF ListensIn
<1>4. ListensIn(s) = 1 .. N BY <1>2, <1>3
<1>5. Cardinality(1 .. N) = N BY FS_Interval
<1> QED BY <1>4, <1>5 DEF Count, s

\* unackedListensCount is exact; it has no sign, so one answer counted twice would
\* hold back completions for good.
CountExact == unacked = Count(up) + Count(down)
\* Completions that wait have an answer to wait for, or were stranded.
Waits == toAck # <<>> => unacked > 0 \/ stranded
\* Every write made is unanswered, completed or waits for a listener, and the
\* unanswered ones are the newest.
Followed == \A n \in 1 .. issued : n \in puts \/ n \in done \/ n \in Range(toAck)
Newest == \A n \in done \cup Range(toAck), m \in puts : n < m
Turns == CountExact /\ Waits /\ Followed /\ Newest

LEMMA InitTurns == Init => Turns
<1> SUFFICES ASSUME Init PROVE Turns
  OBVIOUS
<1>1. CountExact BY EmptyCount DEF Init, CountExact
<1>2. Waits /\ Followed /\ Newest BY DEF Init, Waits, Followed, Newest
<1> QED BY <1>1, <1>2 DEF Turns

LEMMA PutDataTurns == Inv /\ Turns /\ PutData => Turns'
<1> SUFFICES ASSUME Inv, Turns, PutData PROVE Turns'
  OBVIOUS
<1> USE DEF Inv, Turns
<1> DEFINE n == issued + 1
<1>1. /\ issued \in Nat /\ n \in Puts /\ Put(n) \in Msg /\ Put(n).kind = "put"
      /\ issued' = n /\ puts' = puts \cup {n} /\ toAck' = toAck /\ done' = done
      /\ unacked' = unacked /\ down' = down /\ stranded' = stranded
  BY MsgFacts, ConnectionBounds DEF TypeOK, PutData, Puts, listeners, watch
<1>2. CountExact'
  <2>1. Count(Append(up, Put(n))) = Count(up)
    <3>1. ~Awaited(Put(n)) BY <1>1 DEF Awaited
    <3>2. Count(up) \in Nat BY CountNat DEF TypeOK
    <3> QED BY <1>1, <3>1, <3>2, AppendCount DEF TypeOK
  <2>2. up' = up \/ up' = Append(up, Put(n)) BY DEF PutData, Send
  <2>3. Count(up') = Count(up) BY <2>1, <2>2
  <2>4. Count(down') = Count(down) BY <1>1
  <2> QED BY <1>1, <2>3, <2>4 DEF CountExact
<1>3. Waits' BY <1>1 DEF Waits
<1>4. Followed' BY <1>1 DEF Followed
<1>5. Newest'
  <2>1. done \cup Range(toAck) \subseteq 1 .. issued
    <3>1. done \subseteq 1 .. issued /\ toAck \in Seq(1 .. issued) BY DEF TypeOK
    <3>2. \A i \in DOMAIN toAck : toAck[i] \in 1 .. issued
      BY <3>1, LenProperties, ElementOfSeq
    <3> QED BY <3>1, <3>2 DEF Range
  <2>2. \A k \in 1 .. issued : k < n BY <1>1
  <2>3. \A k \in done \cup Range(toAck) : k < n BY <2>1, <2>2
  <2> QED BY <1>1, <2>3 DEF Newest
<1> QED BY <1>2, <1>3, <1>4, <1>5

\* Nothing about the writes changes, and the count with the socket.
LEMMA OtherTurns ==
  ASSUME Turns, CountExact', UNCHANGED <<writes, stranded>>,
         unacked' >= unacked, unacked \in Int, unacked' \in Int
  PROVE  Turns'
<1>1. Waits' BY DEF Turns, Waits, writes
<1>2. Followed' /\ Newest' BY DEF Turns, Followed, Newest, writes
<1> QED BY <1>1, <1>2 DEF Turns

LEMMA ListenTurns == ASSUME NEW q \in Queries, Inv, Turns, Listen(q) PROVE Turns'
<1> USE DEF Inv
<1> DEFINE msg == Listening(q, specs + 1)
<1>1. specs + 1 \in Specs
  BY ConnectionBounds DEF TypeOK, Listen, Specs
<1>2. msg \in Msg /\ Awaited(msg)
  BY <1>1, MsgFacts DEF Awaited
<1>3. /\ down' = down /\ unacked' = IF Online THEN unacked + 1 ELSE unacked
      /\ up' = IF Online THEN Append(up, msg) ELSE up
      /\ unacked \in Int
  BY DEF Listen, Send, TypeOK
<1> HIDE DEF msg
<1>4. /\ Count(Append(up, msg)) = Count(up) + 1
      /\ Count(up) \in Nat /\ Count(down) \in Nat
  BY <1>2, AppendCount, CountNat DEF TypeOK
<1>5. Count(up') = IF Online THEN Count(up) + 1 ELSE Count(up)
  BY <1>3, <1>4
<1>6. Count(down') = Count(down)
  BY <1>3
<1>7. CountExact'
  BY <1>3, <1>4, <1>5, <1>6 DEF Turns, CountExact
<1> QED BY <1>3, <1>7, OtherTurns DEF Listen, watch

LEMMA UnlistenTurns ==
  ASSUME NEW q \in Queries, Inv, Turns, Unlisten(q) PROVE Turns'
<1> USE DEF Inv
<1> DEFINE msg == Unlistening(q, listens[q])
<1>1. listens[q] \in Specs BY DEF TypeOK, Unlisten
<1>2. msg \in Msg /\ ~Awaited(msg)
  BY <1>1, MsgFacts DEF Awaited
<1>3. /\ down' = down /\ unacked' = unacked
      /\ up' = up \/ up' = Append(up, msg)
      /\ unacked \in Int
  BY DEF Unlisten, Send, TypeOK
<1> HIDE DEF msg
<1>4. Count(Append(up, msg)) = Count(up)
  <2>1. Count(up) \in Nat BY CountNat DEF TypeOK
  <2> QED BY <1>2, <2>1, AppendCount DEF TypeOK
<1>5. Count(up') = Count(up) /\ Count(down') = Count(down)
  BY <1>3, <1>4
<1>6. CountExact'
  BY <1>3, <1>5 DEF Turns, CountExact
<1> QED BY <1>3, <1>6, OtherTurns DEF Unlisten, watch

LEMMA ReadyTurns == Inv /\ Turns /\ Ready => Turns'
<1> SUFFICES ASSUME Inv, Turns, Ready PROVE Turns'
  OBVIOUS
<1> USE DEF Inv
<1>1. up = <<>> /\ down = <<>> /\ down' = down /\ unacked = 0
      /\ unacked' = unacked + Cardinality(Wanted)
  <2>1. up = <<>> /\ down = <<>> BY DEF Offline, Online, Ready
  <2>2. unacked = 0 BY <2>1, EmptyCount DEF Turns, CountExact
  <2> QED BY <2>1, <2>2 DEF Ready
<1>2. Cardinality(Wanted) \in Nat
  <2>1. IsFiniteSet(Wanted)
    BY ConnectionBounds, FS_Subset DEF Wanted
  <2> QED BY <2>1, FS_CardinalityType
<1>3. Count(up') = Cardinality(Wanted)
  <2>1. PICK qs \in Lines(Wanted), ps \in Lines(puts) :
          up' = [i \in DOMAIN qs |-> Listening(qs[i], listens[qs[i]])]
                \o [i \in DOMAIN ps |-> Put(ps[i])]
    BY DEF Ready
  <2> DEFINE N == Cardinality(Wanted)  M == Cardinality(puts)
             a == [i \in DOMAIN qs |-> Listening(qs[i], listens[qs[i]])]
             b == [i \in DOMAIN ps |-> Put(ps[i])]
  <2>2. M \in Nat
    <3>1. issued \in Int /\ 1 \in Int /\ puts \subseteq 1 .. issued
      BY ConnectionBounds DEF TypeOK
    <3>2. IsFiniteSet(1 .. issued) BY <3>1, FS_Interval
    <3> QED BY <3>1, <3>2, FS_Subset, FS_CardinalityType
  <2>3. qs \in [1 .. N -> Wanted] /\ ps \in [1 .. M -> puts]
    BY DEF Lines
  <2>4. puts \subseteq Puts
    BY ConnectionBounds DEF TypeOK, Puts
  <2> HIDE DEF N, M
  <2>5. ASSUME NEW i \in 1 .. N PROVE a[i] \in Msg /\ a[i].kind = "listen"
    <3>1. qs[i] \in Queries /\ listens[qs[i]] \in Specs
      BY <2>3 DEF Wanted, TypeOK
    <3>2. a[i] = Listening(qs[i], listens[qs[i]]) BY <2>3
    <3> QED BY <3>1, <3>2, MsgFacts
  <2>6. ASSUME NEW i \in 1 .. M PROVE b[i] \in Msg /\ b[i].kind = "put"
    <3>1. ps[i] \in Puts BY <2>3, <2>4
    <3>2. b[i] = Put(ps[i]) BY <2>3
    <3> QED BY <3>1, <3>2, MsgFacts
  <2>7. a \in [1 .. N -> Msg] /\ b \in [1 .. M -> Msg]
    BY <2>3, <2>5, <2>6
  <2>8. up' = a \o b BY <2>1
  <2> HIDE DEF a, b
  <2>9. N \in Nat BY <1>2 DEF N
  <2>10. Count(a \o b) = N
    BY <2>2, <2>5, <2>6, <2>7, <2>9, RestoredCount
  <2> QED BY <2>8, <2>10 DEF N
<1>4. CountExact'
  <2>1. Count(down') = 0 BY <1>1, EmptyCount
  <2> QED BY <1>1, <1>2, <1>3, <2>1 DEF CountExact
<1> QED BY <1>1, <1>2, <1>4, OtherTurns DEF Ready, watch

LEMMA LostTurns == Turns /\ Lost => Turns'
<1> SUFFICES ASSUME Turns, Lost PROVE Turns'
  OBVIOUS
<1>1. CountExact' BY EmptyCount DEF Lost, CountExact
<1>2. Waits' BY DEF Lost, Waits, writes
<1>3. Followed' /\ Newest' BY DEF Turns, Lost, Followed, Newest, writes
<1> QED BY <1>1, <1>2, <1>3 DEF Turns

LEMMA ServeTurns == Inv /\ Turns /\ Serve => Turns'
<1> SUFFICES ASSUME Inv, Turns, Serve PROVE Turns'
  OBVIOUS
<1> DEFINE msg == Head(up)
<1>1. up # <<>> /\ up' = Tail(up) /\ unacked' = unacked /\ unacked \in Int
  BY DEF Serve, listeners, Inv, TypeOK
<1>2. /\ msg \in Msg /\ Count(up) = Count(up') + (IF Awaited(msg) THEN 1 ELSE 0)
      /\ Count(up) \in Nat /\ Count(up') \in Nat /\ Count(down) \in Nat
  <2>1. up' \in Seq(Msg) /\ msg \in Msg BY ServeFacts
  <2> QED BY <1>1, <2>1, TailCount, CountNat DEF Inv, TypeOK
<1> HIDE DEF msg
<1>3. Count(down') = Count(down) + (IF Awaited(msg) THEN 1 ELSE 0)
  <2>1. \/ Awaited(msg) /\ \E a \in Msg : Awaited(a) /\ down' = Append(down, a)
        \/ ~Awaited(msg) /\ \E a \in Msg : ~Awaited(a) /\ down' = Append(down, a)
        \/ ~Awaited(msg) /\ down' = down
    <3>1. \/ msg.kind \in {"put", "listen"} /\ down' = Append(down, msg)
          \/ msg.kind = "listen" /\ down' = Append(down, Refusal(msg.q, msg.n))
          \/ msg.kind = "unlisten" /\ down' = down
      BY DEF Serve, Answered, msg
    <3>2. CASE msg.kind \in {"put", "listen"} /\ down' = Append(down, msg)
      BY <1>2, <3>2 DEF Awaited
    <3>3. CASE msg.kind = "listen" /\ down' = Append(down, Refusal(msg.q, msg.n))
      <4>1. msg.q \in Queries /\ msg.n \in Specs BY <1>2, <3>3, MsgFacts
      <4>2. Refusal(msg.q, msg.n) \in Msg /\ Awaited(Refusal(msg.q, msg.n))
        BY <4>1, MsgFacts DEF Awaited
      <4> QED BY <3>3, <4>2 DEF Awaited
    <3>4. CASE msg.kind = "unlisten" /\ down' = down
      BY <3>4 DEF Awaited
    <3> QED BY <3>1, <3>2, <3>3, <3>4
  <2>2. CASE down' = down /\ ~Awaited(msg)
    BY <1>2, <2>2
  <2>3. ASSUME NEW a \in Msg, Awaited(a) <=> Awaited(msg), down' = Append(down, a)
        PROVE  Count(down') = Count(down) + (IF Awaited(msg) THEN 1 ELSE 0)
    <3>1. Count(Append(down, a)) = Count(down) + (IF Awaited(a) THEN 1 ELSE 0)
      BY AppendCount DEF Inv, TypeOK
    <3> QED BY <2>3, <3>1
  <2> QED BY <2>1, <2>2, <2>3
<1>4. CountExact'
  BY <1>1, <1>2, <1>3 DEF Turns, CountExact
<1> QED BY <1>1, <1>4, OtherTurns DEF Serve, watch

LEMMA PutAnsweredTurns == Inv /\ Turns /\ PutAnswered => Turns'
<1> SUFFICES ASSUME Inv, Turns, PutAnswered PROVE Turns'
  OBVIOUS
<1> DEFINE n == Head(down).n
<1>1. /\ up' = up /\ down' = Tail(down) /\ puts' = puts \ {n}
      /\ down # <<>> /\ Head(down).kind = "put" /\ state' = state
      /\ issued' = issued /\ unacked' = unacked /\ stranded' = stranded
  BY DEF PutAnswered, client, listeners, watch
<1>2. /\ n \in puts /\ n \in 1 .. issued /\ Head(down) \in Msg
      /\ \A m \in puts : m = n \/ n < m
  BY <1>1, AnswerFacts
<1>3. CountExact'
  <2>1. ~Awaited(Head(down)) BY <1>1 DEF Awaited
  <2>2. Tail(down) \in Seq(Msg) BY <1>1, TailPuts DEF Inv, TypeOK
  <2>3. Count(Tail(down)) \in Nat /\ Count(down) = Count(Tail(down)) + 0
    BY <1>1, <2>1, <2>2, TailCount, CountNat DEF Inv, TypeOK
  <2>4. Count(down') = Count(down) BY <1>1, <2>3
  <2> QED BY <1>1, <2>4 DEF Turns, CountExact
<1> HIDE DEF n
<1>4. \/ unacked = 0 /\ done' = done \cup {n} /\ toAck' = toAck
      \/ unacked # 0 /\ done' = done /\ toAck' = Append(toAck, n)
  BY DEF PutAnswered, Completed, n
<1>5. Range(Append(toAck, n)) = Range(toAck) \cup {n}
  <2>1. /\ Len(toAck) \in Nat /\ DOMAIN toAck = 1 .. Len(toAck)
        /\ DOMAIN Append(toAck, n) = 1 .. Len(toAck) + 1
        /\ \A i \in 1 .. Len(toAck) : Append(toAck, n)[i] = toAck[i]
        /\ Append(toAck, n)[Len(toAck) + 1] = n
    BY <1>2, AppendProperties, LenProperties DEF Inv, TypeOK
  <2>2. ASSUME NEW x \in Range(Append(toAck, n)) PROVE x \in Range(toAck) \cup {n}
    BY <2>1, <2>2 DEF Range
  <2>3. Range(toAck) \cup {n} \subseteq Range(Append(toAck, n))
    BY <2>1 DEF Range
  <2> QED BY <2>2, <2>3
<1>6. Waits'
  <2>1. unacked \in Nat
    <3>1. Count(up) \in Nat /\ Count(down) \in Nat
      BY CountNat DEF Inv, TypeOK
    <3> QED BY <3>1 DEF Turns, CountExact
  <2> QED BY <1>1, <1>4, <2>1 DEF Turns, Waits
<1>7. done' \cup Range(toAck') = done \cup Range(toAck) \cup {n}
  BY <1>4, <1>5
<1>8. Followed'
  BY <1>1, <1>7 DEF Turns, Followed
<1>9. Newest'
  <2>1. SUFFICES ASSUME NEW k \in done \cup Range(toAck) \cup {n},
                        NEW m \in puts, m # n
                 PROVE  k < m
    BY <1>1, <1>7 DEF Newest
  <2> QED BY <1>2, <2>1 DEF Turns, Newest
<1> QED BY <1>3, <1>6, <1>8, <1>9 DEF Turns

LEMMA ListenAnsweredTurns == Inv /\ Turns /\ ListenAnswered => Turns'
<1> SUFFICES ASSUME Inv, Turns, ListenAnswered PROVE Turns'
  OBVIOUS
<1>1. /\ up' = up /\ down' = Tail(down) /\ puts' = puts
      /\ down # <<>> /\ Awaited(Head(down))
      /\ issued' = issued /\ unacked' = unacked - 1
  BY DEF ListenAnswered, Awaited
<1>2. CountExact' /\ unacked' \in Nat
  <2>1. Tail(down) \in Seq(Msg) BY <1>1, TailPuts DEF Inv, TypeOK
  <2>2. Count(Tail(down)) \in Nat /\ Count(down) = Count(Tail(down)) + 1
    BY <1>1, <2>1, TailCount, CountNat DEF Inv, TypeOK
  <2>3. Count(up) \in Nat BY CountNat DEF Inv, TypeOK
  <2>4. Count(down') = Count(Tail(down)) /\ Count(up') = Count(up) BY <1>1
  <2> QED BY <1>1, <2>2, <2>3, <2>4 DEF Turns, CountExact
<1>3. \/ done' = done \cup Range(toAck) /\ toAck' = <<>>
      \/ unacked' # 0 /\ done' = done /\ toAck' = toAck /\ stranded' = stranded
  BY DEF ListenAnswered, AckPuts
<1>4. Waits' BY <1>2, <1>3 DEF Waits
<1>5. done' \cup Range(toAck') = done \cup Range(toAck)
  <2>1. Range(<<>>) = {} BY DEF Range
  <2> QED BY <1>3, <2>1
<1>6. Followed' /\ Newest'
  BY <1>1, <1>5 DEF Turns, Followed, Newest
<1> QED BY <1>2, <1>4, <1>6 DEF Turns

LEMMA StepTurns == Inv /\ Turns /\ [Next]_vars => Turns'
<1> SUFFICES ASSUME Inv, Turns, [Next]_vars PROVE Turns'
  OBVIOUS
<1>1. CASE \E q \in Queries : Listen(q) \/ Unlisten(q)
  BY <1>1, ListenTurns, UnlistenTurns
<1>2. CASE Retry \/ UNCHANGED vars
  <2> USE <1>2 DEF vars, Retry, wire, listeners
  <2>1. up' = up /\ down' = down /\ unacked' = unacked OBVIOUS
  <2>2. CountExact' BY <2>1 DEF Turns, CountExact
  <2>3. UNCHANGED <<writes, stranded>> BY DEF watch
  <2> QED BY <2>1, <2>2, <2>3, OtherTurns DEF Inv, TypeOK
<1>3. CASE Disconnect \/ Shutdown
  BY <1>3, LostTurns DEF Disconnect, Shutdown
<1> QED
  BY <1>1, <1>2, <1>3, PutDataTurns, ReadyTurns, ServeTurns, PutAnsweredTurns,
     ListenAnsweredTurns DEF Next

LEMMA TurnsHold == Spec => []Turns
BY InvHolds, InitTurns, StepTurns, PTL DEF Spec

\* A completion runs when no listener's answer is on the way, and after those of
\* earlier writes, unless the connection was lost while some waited.
THEOREM InTheirTurn == Spec => CompletionsInTurn
<1>1. Inv /\ Turns /\ Inv' /\ Turns' /\ [Next]_vars => [InTurn]_vars
  <2> SUFFICES ASSUME Inv, Turns, Inv', Turns', [Next]_vars, ~UNCHANGED vars
               PROVE  InTurn
    OBVIOUS
  <2>1. SUFFICES ASSUME NEW n \in done' \ done
                 PROVE  /\ ListensIn(up') = {} /\ ListensIn(down') = {}
                        /\ \A m \in Puts : m < n => m \in done' \/ stranded
    BY DEF InTurn
  <2>2. PutAnswered \/ ListenAnswered
    BY <2>1 DEF Next, PutData, Listen, Unlisten, Retry, Ready, Disconnect,
                Shutdown, Lost, Serve, writes
  <2>3. unacked' = 0
    BY <2>1, <2>2 DEF PutAnswered, Completed, ListenAnswered, AckPuts, listeners
  <2>4. ListensIn(up') = {} /\ ListensIn(down') = {}
    <3>1. unacked' = 0 => Count(up)' = 0 /\ Count(down)' = 0
      <4>1. Count(up') \in Nat /\ Count(down') \in Nat
        BY CountNat DEF Inv, TypeOK
      <4> QED BY <4>1 DEF Turns, CountExact
    <3> QED BY <2>3, <3>1, CountNat DEF Inv, TypeOK
  <2>5. ASSUME NEW m \in Puts, m < n, ~stranded PROVE m \in done'
    <3>1. issued' = issued /\ n \in 1 .. issued /\ m \in 1 .. issued
      BY <2>1, <2>2, <2>5 DEF PutAnswered, ListenAnswered, Inv, TypeOK, Puts
    <3>2. m \in puts' \/ m \in done' \/ m \in Range(toAck')
      BY <3>1 DEF Turns, Followed
    <3>3. m \notin puts'
      <4>1. m \in puts' => n < m BY <2>1 DEF Turns, Newest
      <4> QED BY <2>5, <3>1, <4>1
    <3>4. toAck' = <<>>
      <4>1. CASE PutAnswered
        <5>1. unacked = 0 /\ toAck' = toAck
          BY <2>1, <4>1 DEF PutAnswered, Completed
        <5> QED BY <2>5, <5>1 DEF Turns, Waits
      <4>2. CASE ListenAnswered
        BY <2>1, <2>3, <4>2 DEF ListenAnswered, AckPuts
      <4> QED BY <2>2, <4>1, <4>2
    <3>5. Range(toAck') = {} BY <3>4 DEF Range
    <3> QED BY <3>2, <3>3, <3>5
  <2> QED BY <2>4, <2>5
<1> QED BY InvHolds, TurnsHold, <1>1, PTL DEF Spec, CompletionsInTurn

-----------------------------------------------------------------------------
(* At rest *)

\* Without a connection another attempt is scheduled, unless the server shut it down.
Scheduled == state = "Disconnected" => retry \/ shut

LEMMA ScheduledHolds == Spec => []Scheduled
<1>1. Init => Scheduled
  BY DEF Init, Scheduled
<1>2. Scheduled /\ [Next]_vars => Scheduled'
  BY DEF Scheduled, Next, PutData, Listen, Unlisten, Retry, Ready, Disconnect,
         Shutdown, Serve, PutAnswered, ListenAnswered, client, vars
<1> QED BY <1>1, <1>2, PTL DEF Spec

\* Nothing is left to do: no attempt to make, no message on the socket.
Resting == ~retry /\ state # "Connecting" /\ up = <<>> /\ down = <<>>
AllComplete == Resting => \A n \in 1 .. issued : n \in done \/ Stuck

\* When the connection has nothing left to do, each write the app made is complete,
\* unless the server shut it down or a completion was stranded: no order of losses,
\* restored writes and late answers leaves a write behind in putsToAck or
\* outstandingPuts.  It is the safety half of PutsComplete.
THEOREM RestsComplete == Spec => []AllComplete
<1>1. Inv /\ Turns /\ Scheduled => AllComplete
  <2> SUFFICES ASSUME Inv, Turns, Scheduled, Resting, NEW n \in 1 .. issued,
                      n \notin done, ~Stuck
               PROVE  FALSE
    BY DEF AllComplete
  <2>1. Online
    BY DEF Resting, Scheduled, Stuck, Online, Inv, TypeOK
  <2>2. puts = {}
    BY <2>1, EmptyPuts DEF Resting, Inv, OnWire
  <2>3. toAck # <<>>
    <3>1. n \in Range(toAck) BY <2>2 DEF Turns, Followed
    <3>2. Range(<<>>) = {} BY DEF Range
    <3> QED BY <3>1, <3>2
  <2>4. unacked = 0
    BY EmptyCount DEF Resting, Turns, CountExact
  <2> QED BY <2>1, <2>3, <2>4 DEF Turns, Waits, Stuck
<1> QED BY <1>1, InvHolds, TurnsHold, ScheduledHolds, PTL

-----------------------------------------------------------------------------
(* What is listened to *)

\* A message of a kind about a listener of a query, and whether one is in a sequence.
Is(msg, kind, q, n) == msg.kind = kind /\ msg.q = q /\ msg.n = n
Has(s, kind, q, n) == \E i \in DOMAIN s : Is(s[i], kind, q, n)
\* A listener is asked for once, or its end comes after it.
Once(s, q, n) ==
  \A i, j \in DOMAIN s : Is(s[i], "listen", q, n) /\ Is(s[j], "listen", q, n) => i = j
Ended(s, q, n) ==
  \A i \in DOMAIN s : Is(s[i], "listen", q, n) =>
    \E j \in DOMAIN s : i < j /\ Is(s[j], "unlisten", q, n)
About == {"listen", "refused", "unlisten"}

LEMMA EmptyHas ==
  \A q, n : /\ \A kind : ~Has(<<>>, kind, q, n)
            /\ Once(<<>>, q, n) /\ Ended(<<>>, q, n)
BY EmptySeq DEF Has, Once, Ended

LEMMA AppendHas ==
  ASSUME NEW s \in Seq(Msg), NEW msg \in Msg, NEW q, NEW n
  PROVE  /\ \A kind : Has(Append(s, msg), kind, q, n)
                      <=> Has(s, kind, q, n) \/ Is(msg, kind, q, n)
         /\ Once(s, q, n) /\ (Is(msg, "listen", q, n) => ~Has(s, "listen", q, n))
              => Once(Append(s, msg), q, n)
         /\ Ended(s, q, n) /\ ~Is(msg, "listen", q, n) => Ended(Append(s, msg), q, n)
         /\ Is(msg, "unlisten", q, n) => Ended(Append(s, msg), q, n)
<1> DEFINE t == Append(s, msg)
<1>1. /\ Len(s) \in Nat
      /\ DOMAIN s = 1 .. Len(s) /\ DOMAIN t = 1 .. Len(s) + 1
      /\ \A i \in 1 .. Len(s) : t[i] = s[i]
      /\ t[Len(s) + 1] = msg
  BY AppendProperties, LenProperties
<1> HIDE DEF t
<1> DEFINE l == Len(s) + 1
<1>2. /\ \A i \in DOMAIN t : (i \in DOMAIN s /\ t[i] = s[i]) \/ (i = l /\ t[i] = msg)
      /\ \A i \in DOMAIN s : i \in DOMAIN t /\ t[i] = s[i] /\ i < l
      /\ l \in DOMAIN t /\ t[l] = msg
  BY <1>1
<1> HIDE DEF l
<1>3. ASSUME NEW kind
      PROVE  Has(t, kind, q, n) <=> Has(s, kind, q, n) \/ Is(msg, kind, q, n)
  BY <1>2, Zenon DEF Has
<1>4. ASSUME Once(s, q, n), Is(msg, "listen", q, n) => ~Has(s, "listen", q, n)
      PROVE  Once(t, q, n)
  BY <1>2, <1>4 DEF Once, Has
<1>5. ASSUME Ended(s, q, n), ~Is(msg, "listen", q, n) PROVE Ended(t, q, n)
  <2>1. SUFFICES ASSUME NEW i \in DOMAIN t, Is(t[i], "listen", q, n)
                 PROVE  \E j \in DOMAIN t : i < j /\ Is(t[j], "unlisten", q, n)
    BY DEF Ended
  <2>2. i \in DOMAIN s /\ Is(s[i], "listen", q, n) BY <1>2, <1>5, <2>1
  <2>3. PICK j \in DOMAIN s : i < j /\ Is(s[j], "unlisten", q, n)
    BY <1>5, <2>2 DEF Ended
  <2> QED BY <1>2, <2>3
<1>6. ASSUME Is(msg, "unlisten", q, n) PROVE Ended(t, q, n)
  <2>1. SUFFICES ASSUME NEW i \in DOMAIN t, Is(t[i], "listen", q, n)
                 PROVE  \E j \in DOMAIN t : i < j /\ Is(t[j], "unlisten", q, n)
    BY DEF Ended
  <2>2. i \in DOMAIN s BY <1>2, <1>6, <2>1 DEF Is
  <2> QED BY <1>2, <1>6, <2>2
<1> QED BY <1>3, <1>4, <1>5, <1>6 DEF t

LEMMA TailHas ==
  ASSUME NEW s \in Seq(Msg), s # <<>>, NEW q, NEW n
  PROVE  /\ \A kind : Has(s, kind, q, n)
                      <=> Has(Tail(s), kind, q, n) \/ Is(Head(s), kind, q, n)
         /\ Once(s, q, n) => /\ Once(Tail(s), q, n)
                             /\ Is(Head(s), "listen", q, n) => ~Has(Tail(s), "listen", q, n)
         /\ Ended(s, q, n) => /\ Ended(Tail(s), q, n)
                              /\ Is(Head(s), "listen", q, n) => Has(Tail(s), "unlisten", q, n)
<1> DEFINE t == Tail(s)
<1>1. /\ Head(s) = s[1] /\ Len(s) \in Nat \ {0}
      /\ DOMAIN s = 1 .. Len(s) /\ DOMAIN t = 1 .. Len(s) - 1
      /\ \A i \in 1 .. Len(s) - 1 : t[i] = s[i + 1]
  <2>1. Len(s) \in Nat \ {0} /\ DOMAIN s = 1 .. Len(s) /\ Head(s) = s[1]
    BY EmptySeq, LenProperties
  <2> QED BY <2>1, HeadTailProperties, LenProperties
<1> HIDE DEF t
<1>2. /\ \A i \in DOMAIN t : i \in Int /\ i + 1 \in DOMAIN s /\ t[i] = s[i + 1] /\ i + 1 # 1
      /\ \A i \in DOMAIN s : i \in Int /\ (i = 1 \/ (1 < i /\ i - 1 \in DOMAIN t /\ t[i - 1] = s[i]))
      /\ 1 \in DOMAIN s /\ s[1] = Head(s)
  BY <1>1
<1>3. ASSUME NEW kind
      PROVE  Has(s, kind, q, n) <=> Has(t, kind, q, n) \/ Is(Head(s), kind, q, n)
  <2>1. ASSUME NEW i \in DOMAIN s, Is(s[i], kind, q, n)
        PROVE  Has(t, kind, q, n) \/ Is(Head(s), kind, q, n)
    <3>1. CASE i = 1 BY <1>2, <2>1, <3>1
    <3>2. CASE i # 1
      <4>1. i - 1 \in DOMAIN t /\ Is(t[i - 1], kind, q, n) BY <1>2, <2>1, <3>2
      <4> QED BY <4>1 DEF Has
    <3> QED BY <3>1, <3>2
  <2>2. ASSUME NEW i \in DOMAIN t, Is(t[i], kind, q, n) PROVE Has(s, kind, q, n)
    <3>1. i + 1 \in DOMAIN s /\ Is(s[i + 1], kind, q, n) BY <1>2, <2>2
    <3> QED BY <3>1 DEF Has
  <2>3. Is(Head(s), kind, q, n) => Has(s, kind, q, n) BY <1>2 DEF Has
  <2> QED BY <2>1, <2>2, <2>3 DEF Has
<1>4. ASSUME Once(s, q, n)
      PROVE  /\ Once(t, q, n)
             /\ Is(Head(s), "listen", q, n) => ~Has(t, "listen", q, n)
  <2>1. ASSUME NEW i \in DOMAIN t, NEW j \in DOMAIN t,
               Is(t[i], "listen", q, n), Is(t[j], "listen", q, n)
        PROVE  i = j
    <3>1. i + 1 \in DOMAIN s /\ j + 1 \in DOMAIN s
          /\ Is(s[i + 1], "listen", q, n) /\ Is(s[j + 1], "listen", q, n)
      BY <1>2, <2>1
    <3>2. i + 1 = j + 1 BY <1>4, <3>1 DEF Once
    <3> QED BY <1>2, <3>2
  <2>2. ASSUME Is(Head(s), "listen", q, n), NEW i \in DOMAIN t, Is(t[i], "listen", q, n)
        PROVE  FALSE
    <3>1. i + 1 \in DOMAIN s /\ i + 1 # 1 /\ Is(s[i + 1], "listen", q, n)
      BY <1>2, <2>2
    <3> QED BY <1>2, <1>4, <2>2, <3>1 DEF Once
  <2> QED BY <2>1, <2>2 DEF Once, Has
<1>5. ASSUME Ended(s, q, n)
      PROVE  /\ Ended(t, q, n)
             /\ Is(Head(s), "listen", q, n) => Has(t, "unlisten", q, n)
  <2>1. ASSUME NEW i \in DOMAIN t, Is(t[i], "listen", q, n)
        PROVE  \E j \in DOMAIN t : i < j /\ Is(t[j], "unlisten", q, n)
    <3>1. i + 1 \in DOMAIN s /\ Is(s[i + 1], "listen", q, n) /\ i \in 1 .. Len(s) - 1
      BY <1>1, <1>2, <2>1
    <3>2. PICK j \in DOMAIN s : i + 1 < j /\ Is(s[j], "unlisten", q, n)
      BY <1>5, <3>1 DEF Ended
    <3>3. j - 1 \in DOMAIN t /\ i < j - 1 /\ t[j - 1] = s[j]
      BY <1>1, <1>2, <3>1, <3>2
    <3> QED BY <3>2, <3>3
  <2>2. ASSUME Is(Head(s), "listen", q, n) PROVE Has(t, "unlisten", q, n)
    <3>1. PICK j \in DOMAIN s : 1 < j /\ Is(s[j], "unlisten", q, n)
      BY <1>2, <1>5, <2>2 DEF Ended
    <3>2. j - 1 \in DOMAIN t /\ Is(t[j - 1], "unlisten", q, n)
      BY <1>1, <1>2, <3>1
    <3> QED BY <3>2 DEF Has
  <2> QED BY <2>1, <2>2 DEF Ended
<1> QED BY <1>3, <1>4, <1>5 DEF t

\* A listener of a query that was made, known by its number: what is on the way about
\* it, what the server grants, and what the app holds.
Made(q, n) ==
  Has(up, "listen", q, n) \/ Has(up, "unlisten", q, n) \/ Has(down, "refused", q, n)
    \/ <<q, n>> \in watching \/ listens[q] = n
  => n <= specs
\* It is asked for, granted or refused.
Apart(q, n) ==
  /\ Once(up, q, n)
  /\ Has(up, "listen", q, n) => <<q, n>> \notin watching /\ ~Has(down, "refused", q, n)
  /\ Has(down, "refused", q, n) => <<q, n>> \notin watching
\* The one the app holds is not ended, and is asked for, granted or refused.
Current(q, n) ==
  listens[q] = n =>
    /\ ~Has(up, "unlisten", q, n)
    /\ Online => \/ Has(up, "listen", q, n) \/ <<q, n>> \in watching
                 \/ Has(down, "refused", q, n)
\* One it does not hold is ended on the server as well.
Past(q, n) ==
  listens[q] # n => /\ Ended(up, q, n)
                    /\ <<q, n>> \in watching => Has(up, "unlisten", q, n)
Tracked(q, n) == Made(q, n) /\ Apart(q, n) /\ Current(q, n) /\ Past(q, n)
Agreed == /\ ~Online => watching = {}
          /\ \A q \in Queries, n \in Specs : Tracked(q, n)

LEMMA InitAgreed == Init => Agreed
<1> SUFFICES ASSUME Init PROVE Agreed
  OBVIOUS
<1>1. up = <<>> /\ down = <<>> /\ watching = {} /\ ~Online
      /\ \A q \in Queries, n \in Specs : listens[q] # n
  BY ConnectionBounds DEF Init, Online, Specs
<1> QED
  BY <1>1, EmptyHas DEF Agreed, Tracked, Made, Apart, Current, Past

\* A step that sends a message about no listener, or none.
LEMMA SendAgreed ==
  ASSUME Inv, Agreed, NEW msg \in Msg, msg.kind \notin About, Send(msg),
         UNCHANGED <<state, listens, specs, down, watching>>
  PROVE  Agreed'
<1>1. up \in Seq(Msg) /\ (Online' <=> Online) BY DEF Inv, TypeOK, Online
<1>2. SUFFICES ASSUME NEW q \in Queries, NEW n \in Specs PROVE Tracked(q, n)'
  BY <1>1 DEF Agreed
<1>3. /\ \A kind \in About : Has(up', kind, q, n) <=> Has(up, kind, q, n)
      /\ Once(up, q, n) => Once(up', q, n)
      /\ Ended(up, q, n) => Ended(up', q, n)
  <2>1. \A kind \in About : ~Is(msg, kind, q, n) BY DEF Is, About
  <2> QED BY <1>1, <2>1, AppendHas DEF Send, About
<1>4. Tracked(q, n) BY DEF Agreed
<1> QED
  BY <1>1, <1>3, <1>4 DEF About, Tracked, Made, Apart, Current, Past

\* A new listener has a number that nothing knows yet.
LEMMA ListenAgreed == ASSUME NEW p \in Queries, Inv, Agreed, Listen(p) PROVE Agreed'
<1> DEFINE m == specs + 1  msg == Listening(p, m)
<1>1. /\ m \in Specs /\ msg \in Msg /\ msg.kind = "listen" /\ msg.q = p /\ msg.n = m
      /\ up \in Seq(Msg) /\ (Online' <=> Online) /\ Send(msg) /\ specs \in Nat
      /\ listens[p] = 0 /\ listens' = [listens EXCEPT ![p] = m] /\ specs' = m
      /\ down' = down /\ watching' = watching
      /\ listens \in [Queries -> {0} \cup Specs]
  BY ConnectionBounds, MsgFacts
     DEF Listen, Inv, TypeOK, Online, Specs, client, server, Listening
<1> HIDE DEF msg
<1>2. SUFFICES ASSUME NEW q \in Queries, NEW n \in Specs PROVE Tracked(q, n)'
  BY <1>1 DEF Agreed
<1>3. n \in Nat /\ n # 0 BY ConnectionBounds DEF Specs
<1>4. Tracked(q, n) BY DEF Agreed
<1>5. CASE q = p /\ n = m
  <2>1. ~(n <= specs) BY <1>1, <1>5
  <2>2. /\ ~Has(up, "listen", q, n) /\ ~Has(up, "unlisten", q, n)
        /\ ~Has(down, "refused", q, n) /\ <<q, n>> \notin watching
    BY <1>4, <2>1 DEF Tracked, Made
  <2>3. Is(msg, "listen", q, n) /\ ~Is(msg, "unlisten", q, n) BY <1>1, <1>5 DEF Is
  <2>4. /\ ~Has(up', "unlisten", q, n) /\ Once(up', q, n)
        /\ Online => Has(up', "listen", q, n)
    <3>1. CASE Online
      <4>1. up' = Append(up, msg) BY <1>1, <3>1 DEF Send
      <4>2. Once(up, q, n) BY <1>4 DEF Tracked, Apart
      <4> QED BY <1>1, <2>2, <2>3, <4>1, <4>2, AppendHas
    <3>2. CASE ~Online
      <4>1. up' = up BY <1>1, <3>2 DEF Send
      <4> QED BY <1>4, <2>2, <3>2, <4>1 DEF Tracked, Apart
    <3> QED BY <3>1, <3>2
  <2>5. listens'[q] = n /\ n <= specs' BY <1>1, <1>3, <1>5
  <2> QED BY <1>1, <2>2, <2>4, <2>5 DEF Tracked, Made, Apart, Current, Past
<1>6. CASE ~(q = p /\ n = m)
  <2>1. \A kind : ~Is(msg, kind, q, n) BY <1>1, <1>6 DEF Is
  <2>2. /\ \A kind : Has(up', kind, q, n) <=> Has(up, kind, q, n)
        /\ Once(up, q, n) => Once(up', q, n)
        /\ Ended(up, q, n) => Ended(up', q, n)
    BY <1>1, <2>1, AppendHas DEF Send
  <2>3. listens'[q] = n <=> listens[q] = n
    BY <1>1, <1>3, <1>6
  <2>4. n <= specs => n <= specs' BY <1>1, <1>3
  <2> QED BY <1>1, <1>4, <2>2, <2>3, <2>4 DEF Tracked, Made, Apart, Current, Past
<1> QED BY <1>5, <1>6

LEMMA UnlistenAgreed == ASSUME NEW p \in Queries, Inv, Agreed, Unlisten(p) PROVE Agreed'
<1> DEFINE m == listens[p]  msg == Unlistening(p, m)
<1>1. /\ m \in Specs /\ msg \in Msg /\ msg.kind = "unlisten" /\ msg.q = p /\ msg.n = m
      /\ up \in Seq(Msg) /\ (Online' <=> Online) /\ Send(msg)
      /\ listens' = [listens EXCEPT ![p] = 0] /\ specs' = specs
      /\ down' = down /\ watching' = watching
      /\ listens \in [Queries -> {0} \cup Specs]
  <2>1. m \in Specs BY DEF Unlisten, Inv, TypeOK
  <2> QED
    BY <2>1, MsgFacts DEF Unlisten, Inv, TypeOK, Online, client, server, Unlistening
<1>2. SUFFICES ASSUME NEW q \in Queries, NEW n \in Specs PROVE Tracked(q, n)'
  BY <1>1 DEF Agreed
<1>3. n \in Nat /\ n # 0 BY ConnectionBounds DEF Specs
<1>4. Tracked(q, n) /\ (~Online => watching = {}) BY DEF Agreed
<1>5. CASE q = p /\ n = m
  <2> HIDE DEF msg, m
  <2>1. Is(msg, "unlisten", q, n) /\ ~Is(msg, "listen", q, n) BY <1>1, <1>5 DEF Is
  <2>2. listens'[q] # n /\ listens[q] = n BY <1>1, <1>3, <1>5 DEF m
  <2>3. CASE Online
    <3>1. up' = Append(up, msg) BY <1>1, <2>3 DEF Send
    <3>2. /\ Has(up', "listen", q, n) <=> Has(up, "listen", q, n)
          /\ Has(up', "unlisten", q, n) /\ Ended(up', q, n)
          /\ Once(up, q, n) => Once(up', q, n)
      BY <1>1, <2>1, <3>1, AppendHas
    <3> QED BY <1>1, <1>4, <2>2, <3>2 DEF Tracked, Made, Apart, Current, Past
  <2>4. CASE ~Online
    <3>1. up' = up /\ up = <<>> BY <1>1, <2>4 DEF Send, Inv, Offline
    <3> QED
      BY <1>1, <1>4, <2>2, <2>4, <3>1, EmptyHas DEF Tracked, Made, Apart, Current, Past
  <2> QED BY <2>3, <2>4
<1>6. CASE ~(q = p /\ n = m)
  <2>1. listens'[q] = n <=> listens[q] = n
    BY <1>1, <1>3, <1>6
  <2> HIDE DEF msg, m
  <2>2. \A kind : ~Is(msg, kind, q, n) BY <1>1, <1>6 DEF Is
  <2>3. /\ \A kind : Has(up', kind, q, n) <=> Has(up, kind, q, n)
        /\ Once(up, q, n) => Once(up', q, n)
        /\ Ended(up, q, n) => Ended(up', q, n)
    BY <1>1, <2>2, AppendHas DEF Send
  <2> QED BY <1>1, <1>4, <2>1, <2>3 DEF Tracked, Made, Apart, Current, Past
<1> QED BY <1>5, <1>6

\* What Ready puts on the socket asks for each listener held, once.
LEMMA RestoredHas ==
  ASSUME Inv, NEW qs \in Lines(Wanted), NEW ps \in Lines(puts),
         NEW u, u = [i \in DOMAIN qs |-> Listening(qs[i], listens[qs[i]])]
                    \o [i \in DOMAIN ps |-> Put(ps[i])],
         NEW q \in Queries, NEW n \in Specs
  PROVE  /\ Has(u, "listen", q, n) <=> listens[q] = n
         /\ ~Has(u, "unlisten", q, n) /\ Once(u, q, n)
<1> DEFINE N == Cardinality(Wanted)  M == Cardinality(puts)
           a == [i \in DOMAIN qs |-> Listening(qs[i], listens[qs[i]])]
           b == [i \in DOMAIN ps |-> Put(ps[i])]
<1>1. IsFiniteSet(Wanted) /\ N \in Nat /\ M \in Nat
  <2>1. IsFiniteSet(Wanted)
    BY ConnectionBounds, FS_Subset DEF Wanted
  <2>2. IsFiniteSet(puts)
    <3>1. issued \in Int /\ 1 \in Int /\ puts \subseteq 1 .. issued
      BY ConnectionBounds DEF Inv, TypeOK
    <3>2. IsFiniteSet(1 .. issued) BY <3>1, FS_Interval
    <3> QED BY <3>1, <3>2, FS_Subset
  <2> QED BY <2>1, <2>2, FS_CardinalityType
<1>2. /\ qs \in [1 .. N -> Wanted] /\ ps \in [1 .. M -> puts]
      /\ \A w \in Wanted : \E i \in 1 .. N : qs[i] = w
  BY DEF Lines, Range
<1>3. \A i, j \in 1 .. N : qs[i] = qs[j] => i = j
  <2>1. /\ 1 \in Int /\ N \in Int /\ IsFiniteSet(1 .. N)
        /\ Cardinality(1 .. N) = Cardinality(Wanted)
    BY <1>1, FS_Interval
  <2>2. qs \in Surjection(1 .. N, Wanted) BY <1>2 DEF Surjection
  <2>3. qs \in Injection(1 .. N, Wanted)
    BY <2>1, <2>2, FS_SurjSameCardinalityImpliesInj
  <2> QED BY <2>3 DEF Injection, IsInjective
<1> HIDE DEF N, M
<1>4. ASSUME NEW i \in 1 .. N
      PROVE  /\ a[i] \in Msg /\ a[i].kind = "listen"
             /\ a[i].q = qs[i] /\ a[i].n = listens[qs[i]]
  <2>1. qs[i] \in Queries /\ listens[qs[i]] \in Specs
    BY <1>2 DEF Wanted, Inv, TypeOK
  <2>2. a[i] = Listening(qs[i], listens[qs[i]]) BY <1>2
  <2> QED BY <2>1, <2>2, MsgFacts DEF Listening
<1>5. ASSUME NEW i \in 1 .. M PROVE b[i] \in Msg /\ b[i].kind = "put"
  <2>1. ps[i] \in Puts
    <3>1. puts \subseteq Puts BY ConnectionBounds DEF Inv, TypeOK, Puts
    <3> QED BY <1>2, <3>1
  <2>2. b[i] = Put(ps[i]) BY <1>2
  <2> QED BY <2>1, <2>2, MsgFacts
<1>6. a \in [1 .. N -> Msg] /\ b \in [1 .. M -> Msg] /\ u = a \o b
  BY <1>2, <1>4, <1>5
<1> HIDE DEF a, b
<1>7. /\ DOMAIN u = 1 .. N + M
      /\ \A i \in 1 .. N : u[i] = a[i]
      /\ \A i \in N + 1 .. N + M : u[i] = b[i - N]
  <2>1. /\ DOMAIN (a \o b) = 1 .. N + M
        /\ \A i \in 1 .. N : (a \o b)[i] = a[i]
        /\ \A i \in N + 1 .. N + M : (a \o b)[i] = b[i - N]
    BY <1>1, <1>6, ConcatFacts
  <2> QED BY <1>6, <2>1
<1>8. ASSUME NEW i \in DOMAIN u, u[i].kind # "put"
      PROVE  /\ i \in 1 .. N /\ u[i].kind = "listen"
             /\ u[i].q = qs[i] /\ u[i].n = listens[qs[i]]
  <2>1. i \in 1 .. N
    <3>1. i \notin N + 1 .. N + M
      <4>1. SUFFICES ASSUME i \in N + 1 .. N + M PROVE FALSE
        OBVIOUS
      <4>2. i - N \in 1 .. M BY <1>1, <4>1
      <4> QED BY <1>5, <1>7, <1>8, <4>1, <4>2
    <3> QED BY <1>1, <1>7, <3>1
  <2> QED BY <1>4, <1>7, <2>1
<1>9. Has(u, "listen", q, n) => listens[q] = n
  BY <1>8 DEF Has, Is
<1>10. ASSUME listens[q] = n PROVE Has(u, "listen", q, n)
  <2>1. n # 0 BY ConnectionBounds DEF Specs
  <2>2. q \in Wanted BY <1>10, <2>1 DEF Wanted
  <2>3. PICK i \in 1 .. N : qs[i] = q BY <1>2, <2>2
  <2>4. i \in DOMAIN u BY <1>1, <1>7
  <2> QED BY <1>4, <1>7, <1>10, <2>3, <2>4 DEF Has, Is
<1>11. ~Has(u, "unlisten", q, n) BY <1>8 DEF Has, Is
<1>12. Once(u, q, n)
  <2>1. SUFFICES ASSUME NEW i \in DOMAIN u, NEW j \in DOMAIN u,
                        Is(u[i], "listen", q, n), Is(u[j], "listen", q, n)
                 PROVE  i = j
    BY DEF Once
  <2>2. i \in 1 .. N /\ j \in 1 .. N /\ qs[i] = q /\ qs[j] = q
    BY <1>8, <2>1 DEF Is
  <2> QED BY <1>3, <2>2
<1> QED BY <1>9, <1>10, <1>11, <1>12

LEMMA ReadyAgreed == Inv /\ Agreed /\ Ready => Agreed'
<1> SUFFICES ASSUME Inv, Agreed, Ready PROVE Agreed'
  OBVIOUS
<1>1. /\ ~Online /\ Online' /\ down = <<>> /\ down' = <<>> /\ watching = {}
      /\ watching' = {} /\ UNCHANGED <<listens, specs>>
  BY DEF Ready, Online, Inv, Offline, Agreed, server
<1>2. SUFFICES ASSUME NEW q \in Queries, NEW n \in Specs PROVE Tracked(q, n)'
  BY <1>1 DEF Agreed
<1>3. /\ Has(up', "listen", q, n) <=> listens[q] = n
      /\ ~Has(up', "unlisten", q, n) /\ Once(up', q, n)
  BY RestoredHas DEF Ready
<1>4. Tracked(q, n) BY DEF Agreed
<1>5. Made(q, n)' BY <1>1, <1>3, <1>4, EmptyHas DEF Tracked, Made
<1>6. Apart(q, n)' BY <1>1, <1>3, EmptyHas DEF Apart
<1>7. Current(q, n)' BY <1>1, <1>3 DEF Current
<1>8. Past(q, n)' BY <1>1, <1>3 DEF Past, Ended, Has
<1> QED BY <1>5, <1>6, <1>7, <1>8 DEF Tracked

LEMMA LostAgreed == Agreed /\ Lost => Agreed'
<1> SUFFICES ASSUME Agreed, Lost PROVE Agreed'
  OBVIOUS
<1>1. /\ ~Online' /\ up' = <<>> /\ down' = <<>> /\ watching' = {}
      /\ UNCHANGED <<listens, specs>>
  BY DEF Lost, Online
<1> QED
  BY <1>1, EmptyHas DEF Agreed, Tracked, Made, Apart, Current, Past

\* The server takes a message: what was on its way is granted, refused or ended.
LEMMA ServeAgreed == Inv /\ Agreed /\ Serve => Agreed'
<1> SUFFICES ASSUME Inv, Agreed, Serve PROVE Agreed'
  OBVIOUS
<1> DEFINE h == Head(up)
<1>1. /\ Online /\ Online' /\ h \in Msg /\ up # <<>> /\ up' = Tail(up)
      /\ up \in Seq(Msg) /\ down \in Seq(Msg) /\ UNCHANGED <<listens, specs>>
  BY ServeFacts DEF Serve, Inv, TypeOK, Online, client, listeners
<1>2. \/ /\ h.kind = "put" /\ down' = Append(down, h) /\ watching' = watching
      \/ /\ h.kind = "listen" /\ down' = Append(down, h)
         /\ watching' = watching \cup {<<h.q, h.n>>}
      \/ /\ h.kind = "listen" /\ down' = Append(down, Refusal(h.q, h.n))
         /\ watching' = watching
      \/ /\ h.kind = "unlisten" /\ down' = down
         /\ watching' = watching \ {<<h.q, h.n>>}
  BY DEF Serve, Answered, server
<1>3. SUFFICES ASSUME NEW q \in Queries, NEW n \in Specs PROVE Tracked(q, n)'
  BY <1>1 DEF Agreed
<1>4. Tracked(q, n) BY DEF Agreed
<1>5. /\ \A kind : Has(up, kind, q, n) <=> Has(up', kind, q, n) \/ Is(h, kind, q, n)
      /\ Once(up, q, n) => /\ Once(up', q, n)
                           /\ Is(h, "listen", q, n) => ~Has(up', "listen", q, n)
      /\ Ended(up, q, n) => /\ Ended(up', q, n)
                            /\ Is(h, "listen", q, n) => Has(up', "unlisten", q, n)
  BY <1>1, TailHas
<1> HIDE DEF h
<1>6. ASSUME NEW msg \in Msg, down' = Append(down, msg)
      PROVE  Has(down', "refused", q, n)
             <=> Has(down, "refused", q, n) \/ Is(msg, "refused", q, n)
  BY <1>1, <1>6, AppendHas
<1>7. CASE ~(h.kind \in {"listen", "unlisten"} /\ h.q = q /\ h.n = n)
  <2>1. ~Is(h, "listen", q, n) /\ ~Is(h, "unlisten", q, n)
    BY <1>7 DEF Is
  <2>2. Has(down', "refused", q, n) <=> Has(down, "refused", q, n)
    <3>1. CASE h.kind \in {"put", "listen"} /\ down' = Append(down, h)
      <4>1. ~Is(h, "refused", q, n) BY <3>1 DEF Is
      <4> QED BY <1>1, <1>6, <3>1, <4>1
    <3>2. CASE h.kind = "listen" /\ down' = Append(down, Refusal(h.q, h.n))
      <4>1. Refusal(h.q, h.n) \in Msg BY <1>1, <3>2, MsgFacts
      <4>2. ~Is(Refusal(h.q, h.n), "refused", q, n)
        BY <1>7, <3>2 DEF Is, Refusal
      <4> QED BY <1>6, <3>2, <4>1, <4>2
    <3>3. CASE down' = down BY <3>3
    <3> QED BY <1>2, <3>1, <3>2, <3>3
  <2>3. <<q, n>> \in watching' <=> <<q, n>> \in watching
    BY <1>2, <1>7
  <2> QED
    BY <1>1, <1>4, <1>5, <2>1, <2>2, <2>3
       DEF Tracked, Made, Apart, Current, Past
<1>8. CASE h.kind = "listen" /\ h.q = q /\ h.n = n
  <2>1. Is(h, "listen", q, n) /\ ~Is(h, "refused", q, n) /\ ~Is(h, "unlisten", q, n)
    BY <1>8 DEF Is
  <2>2. /\ n <= specs /\ ~Has(up', "listen", q, n) /\ Once(up', q, n)
        /\ <<q, n>> \notin watching /\ ~Has(down, "refused", q, n)
    BY <1>4, <1>5, <2>1 DEF Tracked, Made, Apart
  <2>3. /\ listens[q] = n => ~Has(up', "unlisten", q, n)
        /\ listens[q] # n => Ended(up', q, n) /\ Has(up', "unlisten", q, n)
    BY <1>4, <1>5, <2>1 DEF Tracked, Current, Past
  <2>4. \/ ~Has(down', "refused", q, n) /\ <<q, n>> \in watching'
        \/ Has(down', "refused", q, n) /\ <<q, n>> \notin watching'
    <3>1. CASE down' = Append(down, h) /\ watching' = watching \cup {<<h.q, h.n>>}
      BY <1>1, <1>6, <1>8, <2>1, <2>2, <3>1
    <3>2. CASE down' = Append(down, Refusal(h.q, h.n)) /\ watching' = watching
      <4>1. Refusal(h.q, h.n) \in Msg BY <1>1, <1>8, MsgFacts
      <4>2. Is(Refusal(h.q, h.n), "refused", q, n) BY <1>8 DEF Is, Refusal
      <4> QED BY <1>6, <2>2, <3>2, <4>1, <4>2
    <3> QED BY <1>2, <1>8, <3>1, <3>2
  <2> QED
    BY <1>1, <2>2, <2>3, <2>4 DEF Tracked, Made, Apart, Current, Past
<1>9. CASE h.kind = "unlisten" /\ h.q = q /\ h.n = n
  <2>1. Is(h, "unlisten", q, n) /\ ~Is(h, "listen", q, n) BY <1>9 DEF Is
  <2>2. down' = down /\ <<q, n>> \notin watching' BY <1>2, <1>9
  <2>3. listens[q] # n /\ n <= specs
    BY <1>4, <1>5, <2>1 DEF Tracked, Made, Current
  <2> QED
    BY <1>1, <1>4, <1>5, <2>1, <2>2, <2>3 DEF Tracked, Made, Apart, Current, Past
<1> QED BY <1>7, <1>8, <1>9

\* An answer is read.  A refused listener is no longer held, or was replaced.
LEMMA AnswerAgreed == Inv /\ Agreed /\ (PutAnswered \/ ListenAnswered) => Agreed'
<1> SUFFICES ASSUME Inv, Agreed, PutAnswered \/ ListenAnswered PROVE Agreed'
  OBVIOUS
<1> DEFINE h == Head(down)
<1>1. /\ (Online' <=> Online) /\ h \in Msg /\ down # <<>> /\ down' = Tail(down)
      /\ down \in Seq(Msg) /\ up' = up /\ specs' = specs /\ watching' = watching
  <2>1. down # <<>> /\ down' = Tail(down) /\ UNCHANGED <<up, state, specs, watching>>
    BY DEF PutAnswered, ListenAnswered, client, listeners, server
  <2> QED BY <2>1, AnswerFacts DEF Inv, TypeOK, Online
<1>2. \/ h.kind # "refused" /\ listens' = listens
      \/ h.kind = "refused" /\ Removed(h.q, h.n)
  BY DEF PutAnswered, ListenAnswered, listeners
<1>3. SUFFICES ASSUME NEW q \in Queries, NEW n \in Specs PROVE Tracked(q, n)'
  BY <1>1 DEF Agreed
<1>4. Tracked(q, n) BY DEF Agreed
<1>5. Has(down, "refused", q, n)
      <=> Has(down', "refused", q, n) \/ Is(h, "refused", q, n)
  BY <1>1, TailHas
<1> HIDE DEF h
<1>6. listens \in [Queries -> {0} \cup Specs] /\ n # 0
  BY ConnectionBounds DEF Inv, TypeOK, Specs
<1>7. CASE Is(h, "refused", q, n)
  <2>1. listens'[q] # n BY <1>2, <1>6, <1>7 DEF Is, Removed
  <2>2. /\ n <= specs /\ <<q, n>> \notin watching /\ ~Has(up, "listen", q, n)
        /\ Once(up, q, n)
    BY <1>4, <1>5, <1>7 DEF Tracked, Made, Apart
  <2>3. Ended(up, q, n) BY <2>2 DEF Ended, Has
  <2> QED BY <1>1, <2>1, <2>2, <2>3 DEF Tracked, Made, Apart, Current, Past
<1>8. CASE ~Is(h, "refused", q, n)
  <2>1. listens'[q] = n <=> listens[q] = n
    BY <1>2, <1>6, <1>8 DEF Is, Removed
  <2> QED BY <1>1, <1>4, <1>5, <1>8, <2>1 DEF Tracked, Made, Apart, Current, Past
<1> QED BY <1>7, <1>8

LEMMA StepAgreed == Inv /\ Agreed /\ [Next]_vars => Agreed'
<1> SUFFICES ASSUME Inv, Agreed, [Next]_vars PROVE Agreed'
  OBVIOUS
<1>1. CASE PutData
  <2>1. Put(issued + 1) \in Msg /\ Put(issued + 1).kind = "put"
    <3>1. issued + 1 \in Puts
      BY <1>1, ConnectionBounds DEF Inv, TypeOK, PutData, Puts
    <3> QED BY <3>1, MsgFacts
  <2>2. Send(Put(issued + 1)) /\ UNCHANGED <<state, listens, specs, down, watching>>
    BY <1>1 DEF PutData, client, listeners, server
  <2> QED BY <2>1, <2>2, SendAgreed DEF About
<1>2. CASE \E q \in Queries : Listen(q) \/ Unlisten(q)
  BY <1>2, ListenAgreed, UnlistenAgreed
<1>3. CASE Retry \/ UNCHANGED vars
  <2>1. (Online' <=> Online) /\ UNCHANGED <<listens, specs, up, down, watching>>
    BY <1>3 DEF Retry, Inv, OneAttempt, Online, vars, client, listeners, wire, server
  <2> QED BY <2>1 DEF Agreed, Tracked, Made, Apart, Current, Past
<1>4. CASE Disconnect \/ Shutdown
  BY <1>4, LostAgreed DEF Disconnect, Shutdown
<1> QED
  BY <1>1, <1>2, <1>3, <1>4, ReadyAgreed, ServeAgreed, AnswerAgreed DEF Next

\* With nothing on the socket, the server sends the app what it listens to and
\* nothing else.
THEOREM ListenedTo == Spec => []ListensAgree
<1>1. Inv /\ Agreed => ListensAgree
  <2> SUFFICES ASSUME Inv, Agreed, Online, up = <<>>, down = <<>>
               PROVE  watching = {<<q, listens[q]>> : q \in Wanted}
    BY DEF ListensAgree
  <2>1. ASSUME NEW q \in Queries, NEW n \in Specs
        PROVE  <<q, n>> \in watching <=> listens[q] = n
    BY EmptyHas DEF Agreed, Tracked, Current, Past
  <2>2. /\ watching \subseteq Queries \X Specs
        /\ \A q \in Wanted : q \in Queries /\ listens[q] \in Specs
        /\ \A n \in Specs : n # 0
    BY ConnectionBounds DEF Inv, TypeOK, Wanted, Specs
  <2>3. ASSUME NEW w \in watching PROVE \E q \in Wanted : w = <<q, listens[q]>>
    <3>1. PICK q \in Queries, n \in Specs : w = <<q, n>> BY <2>2
    <3> QED BY <2>1, <2>2, <3>1 DEF Wanted
  <2>4. ASSUME NEW q \in Wanted PROVE <<q, listens[q]>> \in watching
    BY <2>1, <2>2
  <2> QED BY <2>3, <2>4
<1>2. Spec => []Agreed
  BY InvHolds, InitAgreed, StepAgreed, PTL DEF Spec
<1> QED BY InvHolds, <1>1, <1>2, PTL
=============================================================================
