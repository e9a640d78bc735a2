--------------------------- MODULE SessionProofs ---------------------------
(***************************************************************************)
(* Proofs about Session, for any accounts and any bounds.                  *)
(***************************************************************************)
EXTENDS Session, TLAPS

\* A HUD the screen remembers is up.
HeldUp == hud.held => hud.up > 0

\* What a request says of the accounts, by its kind and by how far it came.
Sound(r) ==
  /\ r.kind = "social" => r.user \in Socials
  /\ r.kind \in {"signup", "change", "reset"} =>
       r.user \in Emails /\ r.password.of = r.user
  /\ r.kind = "signin" /\ r.phase = "ok" =>
       r.user \in Emails /\ r.password.of = r.user
  /\ r.kind = "update" /\ r.phase = "ok" => r.user \in Accounts

Asks == \A i \in Slot : flight[i] # Idle => Sound(flight[i])

\* Nothing is outstanding when the app does not run.
OffIdle == screen = "off" => \A i \in Slot : flight[i] = Idle

Typed == TypeOK /\ HeldUp /\ Asks /\ OffIdle

\* The same by groups of variables: most actions leave most groups alone.
Flights == flight \in [Slot -> Request \cup {Idle}] /\ Asks
Huds == hud \in [up : Nat, held : BOOLEAN, keys : BOOLEAN, fault : Faults] /\ HeldUp
Clients == /\ mem \in [user : User, password : Password]
           /\ disk \in [user : User, password : Password, logout : BOOLEAN]
Servers == /\ pw \in [Emails -> 0 .. MaxVersion]
           /\ issued \in [Emails -> 0 .. MaxVersion]
           /\ loose \subseteq Password \ {Blank}
Ghosts == out \in BOOLEAN /\ strayed \in BOOLEAN /\ excused \in BOOLEAN
Groups == /\ Flights /\ Huds /\ Clients /\ Servers /\ Ghosts
          /\ screen \in Screens /\ OffIdle

USE SessionBounds, SessionUsers, SessionIdle

LEMMA GroupsTyped == Groups <=> Typed
  BY DEF Groups, Typed, TypeOK, Flights, Huds, Clients, Servers, Ghosts

LEMMA Unchanged ==
  /\ Flights /\ UNCHANGED flight => Flights'
  /\ Huds /\ UNCHANGED hud => Huds'
  /\ Clients /\ UNCHANGED client => Clients'
  /\ Servers /\ UNCHANGED server => Servers'
  /\ Ghosts /\ UNCHANGED ghosts => Ghosts'
  /\ OffIdle /\ UNCHANGED <<screen, flight>> => OffIdle'
  BY DEF Flights, Asks, Huds, HeldUp, Clients, Servers, Ghosts, OffIdle,
         client, server, ghosts

LEMMA InitTyped == Init => Typed
<1> SUFFICES ASSUME Init PROVE Typed
  OBVIOUS
<1>1. Guest \in User /\ Fresh \in User /\ Blank \in Password
  BY DEF User, Password
<1>2. pw \in [Emails -> 0 .. MaxVersion] /\ issued \in [Emails -> 0 .. MaxVersion]
  BY DEF Init
<1>3. hud \in [up : Nat, held : BOOLEAN, keys : BOOLEAN, fault : Faults]
  BY DEF Init, NoHud, Faults
<1>4. /\ mem \in [user : User, password : Password]
      /\ disk \in [user : User, password : Password, logout : BOOLEAN]
  BY <1>1 DEF Init
<1>5. flight \in [Slot -> Request \cup {Idle}] /\ screen \in Screens
  BY DEF Init, Screens
<1>6. /\ loose \subseteq Password \ {Blank} /\ out \in BOOLEAN
      /\ strayed \in BOOLEAN /\ excused \in BOOLEAN
  BY DEF Init
<1>7. HeldUp /\ Asks /\ OffIdle
  BY DEF Init, HeldUp, Asks, OffIdle, NoHud
<1> QED
  BY <1>2, <1>3, <1>4, <1>5, <1>6, <1>7 DEF Typed, TypeOK

-----------------------------------------------------------------------------
(* Requests *)

\* Putting a screen aside keeps the requests as they are but for `here`.
LEMMA AsideFacts ==
  ASSUME NEW f \in [Slot -> Request \cup {Idle}],
         \A i \in Slot : f[i] # Idle => Sound(f[i])
  PROVE  /\ Aside(f) \in [Slot -> Request \cup {Idle}]
         /\ \A i \in Slot : Aside(f)[i] # Idle => Sound(Aside(f)[i])
         /\ \A i \in Slot : f[i] = Idle => Aside(f)[i] = Idle
<1>1. ASSUME NEW r \in Request
      PROVE  /\ [r EXCEPT !.here = FALSE] \in Request
             /\ Sound(r) => Sound([r EXCEPT !.here = FALSE])
  <2>1. [r EXCEPT !.here = FALSE] \in Request
    BY DEF Request
  <2>2. /\ [r EXCEPT !.here = FALSE].kind = r.kind
        /\ [r EXCEPT !.here = FALSE].user = r.user
        /\ [r EXCEPT !.here = FALSE].password = r.password
        /\ [r EXCEPT !.here = FALSE].phase = r.phase
    BY DEF Request
  <2> QED
    BY <2>1, <2>2 DEF Sound
<1>2. ASSUME NEW i \in Slot
      PROVE  Aside(f)[i] = IF f[i] = Idle THEN Idle ELSE [f[i] EXCEPT !.here = FALSE]
  BY DEF Aside
<1>3. \A i \in Slot : Aside(f)[i] \in Request \cup {Idle}
  BY <1>1, <1>2
<1>4. Aside(f) \in [Slot -> Request \cup {Idle}]
  BY <1>2, <1>3 DEF Aside
<1> QED
  BY <1>1, <1>2, <1>4

\* A slot filled, or advanced, with a sound request.
LEMMA PutFacts ==
  ASSUME NEW f \in [Slot -> Request \cup {Idle}],
         \A i \in Slot : f[i] # Idle => Sound(f[i]),
         NEW i \in Slot, NEW r \in Request \cup {Idle}, r # Idle => Sound(r)
  PROVE  /\ [f EXCEPT ![i] = r] \in [Slot -> Request \cup {Idle}]
         /\ \A j \in Slot : [f EXCEPT ![i] = r][j] # Idle
                            => Sound([f EXCEPT ![i] = r][j])
  OBVIOUS

LEMMA IssueFacts ==
  ASSUME TypeOK, Asks, NEW r \in Request, Sound(r), Issue(r, flight)
  PROVE  flight' \in [Slot -> Request \cup {Idle}] /\ Asks'
  BY PutFacts DEF TypeOK, Asks, Issue

LEMMA DoneFacts ==
  ASSUME TypeOK, Asks, NEW i \in Slot
  PROVE  /\ Done(i) \in [Slot -> Request \cup {Idle}]
         /\ \A j \in Slot : Done(i)[j] # Idle => Sound(Done(i)[j])
  BY DEF TypeOK, Asks, Done

\* Going to a screen, once the requests are f.
LEMMA WentFacts ==
  ASSUME NEW f \in [Slot -> Request \cup {Idle}],
         \A i \in Slot : f[i] # Idle => Sound(f[i]),
         NEW scr \in Screens \ {"off"}, Went(scr, f)
  PROVE  /\ flight' \in [Slot -> Request \cup {Idle}] /\ Asks' /\ OffIdle'
         /\ hud' \in [up : Nat, held : BOOLEAN, keys : BOOLEAN, fault : Faults]
         /\ HeldUp' /\ screen' \in Screens
  BY AsideFacts DEF Went, Asks, OffIdle, HeldUp, NoHud, Faults, Screens

LEMMA HudFacts ==
  ASSUME TypeOK, HeldUp
  PROVE  /\ Show \in [up : Nat, held : BOOLEAN, keys : BOOLEAN, fault : Faults]
         /\ Show.held => Show.up > 0
         /\ Hide \in [up : Nat, held : BOOLEAN, keys : BOOLEAN, fault : Faults]
         /\ Hide.held => Hide.up > 0
<1>1. /\ hud.up \in Nat /\ hud.keys \in BOOLEAN /\ hud.held \in BOOLEAN
      /\ hud.fault \in Faults
      /\ hud = [up |-> hud.up, held |-> hud.held, keys |-> hud.keys,
                fault |-> hud.fault]
  BY DEF TypeOK
<1>2. CASE hud.held
  <2>1. hud.up > 0
    BY <1>2 DEF HeldUp
  <2>2. Show = [up |-> hud.up + 1, held |-> hud.held, keys |-> hud.keys,
                fault |-> "doubled"]
    BY <1>1, <1>2 DEF Show
  <2>3. Hide = [up |-> hud.up - 1, held |-> FALSE, keys |-> hud.keys,
                fault |-> hud.fault]
    BY <1>1, <1>2 DEF Hide
  <2> QED
    BY <2>1, <2>2, <2>3, <1>1 DEF Faults
<1>3. CASE ~hud.held
  <2>1. Show = [up |-> hud.up + 1, held |-> TRUE, keys |-> hud.keys,
                fault |-> hud.fault]
    BY <1>1, <1>3 DEF Show
  <2>2. Hide = hud
    BY <1>3 DEF Hide
  <2> QED
    BY <2>1, <2>2, <1>1, <1>3 DEF TypeOK
<1> QED
  BY <1>2, <1>3, <1>1

-----------------------------------------------------------------------------
(* One lemma per group of actions *)

\* A request of a screen that is on.
LEMMA AskKeeps ==
  ASSUME Groups, screen # "off", UNCHANGED screen,
         NEW r \in Request, Sound(r), Issue(r, flight)
  PROVE  Flights' /\ OffIdle' /\ screen' \in Screens
  BY IssueFacts, GroupsTyped DEF Groups, Typed, Flights, OffIdle

LEMMA AskingRequest ==
  ASSUME NEW kind \in Kind, NEW u \in User, NEW p \in Password,
         NEW phase \in Phase
  PROVE  Asking(kind, u, p, phase) \in Request
  BY DEF Asking, Request

LEMMA PasswordMade ==
  ASSUME NEW a \in Emails, NEW n \in 1 .. MaxVersion
  PROVE  [of |-> a, n |-> n] \in Password /\ a \in User
         /\ [of |-> a, n |-> n] # Blank
  BY DEF Password, User, Accounts, Blank

LEMMA ShowKeeps == Groups /\ hud' = Show => Huds'
  BY HudFacts, GroupsTyped DEF Groups, Typed, Huds, HeldUp

LEMMA NavigateTyped ==
  ASSUME Groups, NEW from, NEW to \in Screens \ {"off"}, Navigate(from, to)
  PROVE  Groups'
  BY Unchanged, WentFacts DEF Groups, Navigate, Flights, Huds, Asks

LEMMA MoveTyped == Groups /\ Move => Groups'
  BY NavigateTyped DEF Move, Screens

LEMMA AskTyped == Groups /\ Ask => Groups'
<1> SUFFICES ASSUME Groups, Ask PROVE Groups'
  OBVIOUS
<1>1. /\ Guest \in User /\ Blank \in Password
      /\ \A x \in Accounts : x \in User
      /\ mem.user \in User /\ disk.logout \in BOOLEAN
  BY DEF Groups, Clients, User, Password
<1>2. ASSUME NEW a \in Emails, NEW n \in 1 .. MaxVersion, Signin(a, n)
      PROVE  Groups'
  <2>1. PICK keys \in BOOLEAN : hud' = [Show EXCEPT !.keys = keys]
    BY <1>2 DEF Signin
  <2>2. Huds'
    BY <2>1, HudFacts, GroupsTyped DEF Groups, Typed, Huds, HeldUp
  <2>3. Asking("signin", a, [of |-> a, n |-> n], "sent") \in Request
    BY PasswordMade, AskingRequest DEF Kind, Phase
  <2>4. Sound(Asking("signin", a, [of |-> a, n |-> n], "sent"))
    BY DEF Sound, Asking
  <2> QED
    BY <1>2, <2>2, <2>3, <2>4, AskKeeps, Unchanged DEF Signin, Groups
<1>3. ASSUME NEW a \in Emails, issued[a] < MaxVersion,
             issued' = [issued EXCEPT ![a] = @ + 1], UNCHANGED <<pw, loose>>
      PROVE  Servers' /\ issued[a] + 1 \in 1 .. MaxVersion
  BY <1>3 DEF Groups, Servers
<1>4. ASSUME NEW a \in Emails, NEW kind \in {"signup", "reset", "change"},
             issued[a] + 1 \in 1 .. MaxVersion
      PROVE  LET r == Asking(kind, a, [of |-> a, n |-> issued[a] + 1], "sent")
             IN r \in Request /\ Sound(r)
  BY <1>4, PasswordMade, AskingRequest DEF Kind, Phase, Sound, Asking
<1>5. ASSUME NEW a \in Emails, Signup(a) PROVE Groups'
  <2>1. /\ hud.up \in Nat /\ hud.keys \in BOOLEAN
        /\ hud' = [up |-> hud.up + 2, held |-> TRUE, keys |-> hud.keys,
                   fault |-> "doubled"]
    BY <1>5 DEF Signup, Groups, Huds
  <2>2. Huds'
    BY <2>1 DEF Huds, HeldUp, Faults
  <2> QED
    BY <1>5, <1>3, <1>4, <2>2, AskKeeps, Unchanged DEF Signup, Groups, ghosts
<1>6. ASSUME NEW a \in Emails, Reset(a) PROVE Groups'
  BY <1>6, <1>3, <1>4, ShowKeeps, AskKeeps, Unchanged DEF Reset, Groups
<1>7. ASSUME NEW a \in Emails, ChangePassword(a) PROVE Groups'
  BY <1>7, <1>3, <1>4, AskKeeps, Unchanged DEF ChangePassword, Groups
<1>8. ASSUME NEW c \in Socials, Social(c) PROVE Groups'
  <2>1. LET r == Asking("social", c, Blank, "asking")
        IN r \in Request /\ Sound(r)
    BY <1>1, AskingRequest DEF Kind, Phase, Sound, Asking, Accounts
  <2> QED
    BY <1>8, <2>1, AskKeeps, Unchanged DEF Social, Groups
<1>9. CASE ContinueAsGuest
  <2>1. LET r == Asking("guest", Guest, Blank, "ok")
        IN r \in Request /\ Sound(r)
    BY <1>1, AskingRequest DEF Kind, Phase, Sound, Asking
  <2>2. Clients'
    BY <1>1, <1>9 DEF ContinueAsGuest, Cleared, Clients
  <2> QED
    BY <1>9, <2>1, <2>2, ShowKeeps, AskKeeps, Unchanged
    DEF ContinueAsGuest, Groups
<1>10. CASE Update
  <2>1. LET r == Asking("update", Guest, Blank, "asking")
        IN r \in Request /\ Sound(r)
    BY <1>1, AskingRequest DEF Kind, Phase, Sound, Asking
  <2> QED
    BY <1>10, <2>1, AskKeeps, Unchanged DEF Update, Groups
<1>11. CASE Review
  <2>1. LET r == Asking("review", mem.user, Blank, "sent")
        IN r \in Request /\ Sound(r)
    BY <1>1, AskingRequest DEF Kind, Phase, Sound, Asking
  <2> QED
    BY <1>11, <2>1, AskKeeps, Unchanged DEF Review, Groups
<1>12. CASE Logout
  <2> DEFINE f == [i \in Slot |-> IF flight[i] = Idle THEN Idle
                                  ELSE [flight[i] EXCEPT !.late = TRUE]]
  <2>1. /\ f \in [Slot -> Request \cup {Idle}]
        /\ \A i \in Slot : f[i] # Idle => Sound(f[i])
    <3>1. ASSUME NEW r \in Request
          PROVE  /\ [r EXCEPT !.late = TRUE] \in Request
                 /\ Sound(r) => Sound([r EXCEPT !.late = TRUE])
      <4>1. [r EXCEPT !.late = TRUE] \in Request
        BY DEF Request
      <4>2. /\ [r EXCEPT !.late = TRUE].kind = r.kind
            /\ [r EXCEPT !.late = TRUE].user = r.user
            /\ [r EXCEPT !.late = TRUE].password = r.password
            /\ [r EXCEPT !.late = TRUE].phase = r.phase
        BY DEF Request
      <4> QED
        BY <4>1, <4>2 DEF Sound
    <3>2. /\ flight \in [Slot -> Request \cup {Idle}]
          /\ \A i \in Slot : flight[i] # Idle => Sound(flight[i])
      BY DEF Groups, Flights, Asks
    <3>3. \A i \in Slot : f[i] \in Request \cup {Idle}
      BY <3>1, <3>2
    <3> QED
      BY <3>1, <3>2, <3>3
  <2>2. Went("login", f) /\ Clients' /\ Ghosts' /\ Servers'
    BY <1>1, <1>12, Unchanged
    DEF Logout, LogoutMarked, Cleared, Clients, Ghosts, Groups, server
  <2> QED
    BY <2>1, <2>2, WentFacts DEF Groups, Flights, Huds, Screens
<1> QED
  BY <1>2, <1>5, <1>6, <1>7, <1>8, <1>9, <1>10, <1>11, <1>12 DEF Ask

LEMMA DiedTyped ==
  ASSUME Groups, Died, UNCHANGED <<pw, issued>>
  PROVE  /\ Flights' /\ Huds' /\ Servers' /\ screen' = "off" /\ OffIdle'
         /\ mem' \in [user : User, password : Password]
<1>1. Flights' /\ OffIdle' /\ screen' = "off"
  BY DEF Died, Flights, Asks, OffIdle
<1>2. Huds'
  BY DEF Died, Huds, HeldUp, NoHud, Faults
<1>3. ASSUME NEW i \in Slot PROVE Left(flight[i]) \subseteq Password \ {Blank}
  BY DEF Left, Groups, Flights, Asks, Sound, Request, Blank, Accounts
<1>4. Servers'
  BY <1>3 DEF Died, Groups, Servers
<1> QED
  BY <1>1, <1>2, <1>4 DEF Died, User, Password

LEMMA LaunchTyped == Groups /\ Launch => Groups'
<1> SUFFICES ASSUME Groups, Launch PROVE Groups'
  OBVIOUS
<1>1. Clients' /\ Servers' /\ Ghosts'
  BY Unchanged DEF Launch, Loaded, Groups, Clients
<1>2. CASE disk.user # Guest /\ ~disk.logout
  <2> DEFINE r == Asking(IF disk.user \in Socials THEN "social" ELSE "signin",
                         disk.user, disk.password, "sent")
  <2>1. /\ disk.user \in User /\ disk.password \in Password
        /\ r \in Request /\ Sound(r)
    BY AskingRequest DEF Groups, Clients, Kind, Phase, Sound, Asking
  <2>2. /\ Issue(r, flight) /\ screen' = "splash"
        /\ hud' = [NoHud EXCEPT !.up = 1, !.held = TRUE]
    BY <1>2 DEF Launch
  <2>3. Huds'
    <3>1. hud' = [up |-> 1, held |-> TRUE, keys |-> FALSE, fault |-> "none"]
      BY <2>2 DEF NoHud
    <3> QED
      BY <3>1 DEF Huds, HeldUp, Faults
  <2>4. Flights'
    BY <2>1, <2>2, IssueFacts, GroupsTyped DEF Groups, Typed, Flights
  <2> QED
    BY <1>1, <2>2, <2>3, <2>4 DEF Groups, OffIdle, Screens
<1>3. CASE ~(disk.user # Guest /\ ~disk.logout)
  <2>1. Went("login", flight)
    BY <1>3 DEF Launch
  <2> QED
    BY <1>1, <2>1, WentFacts DEF Groups, Flights, Asks, Huds, Screens
<1> QED
  BY <1>2, <1>3

LEMMA KillTyped == Groups /\ Kill => Groups'
  BY DiedTyped, Unchanged
  DEF Kill, Died, Groups, Clients, Ghosts, Screens

\* A request that advances, or ends, on a screen that stays.
LEMMA PutKeeps ==
  ASSUME Groups, NEW i \in Slot, flight[i] # Idle, UNCHANGED screen,
         NEW r \in Request \cup {Idle}, r # Idle => Sound(r),
         flight' = [flight EXCEPT ![i] = r]
  PROVE  Flights' /\ OffIdle' /\ screen' \in Screens
  BY PutFacts DEF Groups, Flights, Asks, OffIdle

LEMMA HandlingTyped ==
  ASSUME Groups, NEW i \in Slot,
         ProfileGot(i) \/ Encoded(i) \/ Serve(i) \/ Fail(i)
  PROVE  Groups'
<1>1. flight[i] \in Request /\ Sound(flight[i]) /\ mem.user \in User
  BY DEF Groups, Flights, Asks, Clients, ProfileGot, Encoded, Serve, Fail
<1>2. CASE ProfileGot(i)
  <2>1. [flight[i] EXCEPT !.phase = "sent"] \in Request
        /\ Sound([flight[i] EXCEPT !.phase = "sent"])
    BY <1>1, <1>2 DEF ProfileGot, Request, Sound, Phase
  <2>2. Flights' /\ OffIdle' /\ screen' \in Screens
    BY <1>2, <2>1, PutKeeps DEF ProfileGot
  <2> QED
    BY <1>2, <2>2, ShowKeeps, Unchanged DEF ProfileGot, Groups
<1>3. CASE Encoded(i)
  <2>1. [flight[i] EXCEPT !.phase = "sent", !.user = mem.user] \in Request
        /\ Sound([flight[i] EXCEPT !.phase = "sent", !.user = mem.user])
    BY <1>1, <1>3 DEF Encoded, Request, Sound, Phase
  <2>2. Flights' /\ OffIdle' /\ screen' \in Screens
    BY <1>3, <2>1, PutKeeps DEF Encoded
  <2> QED
    BY <1>3, <2>2, Unchanged DEF Encoded, Groups
<1>4. CASE Serve(i)
  <2> DEFINE r == flight[i]
             sent(phase) == [r EXCEPT !.phase = phase]
  <2>1. \A phase \in Phase : sent(phase) \in Request
    BY <1>1 DEF Request
  <2>2. \A phase \in Phase \ {"ok"} : Sound(sent(phase))
    BY <1>1 DEF Sound, Request
  <2>3. ASSUME flight' = [flight EXCEPT ![i] = sent("ok")],
               \/ r.kind = "signin" /\ r.user \in Emails
                  /\ r.password = Current(r.user)
               \/ r.kind = "signup"
               \/ r.kind \in {"social", "change", "reset", "review"}
               \/ r.kind = "update" /\ r.user \in Accounts
        PROVE  Sound(sent("ok"))
    BY <1>1, <2>3 DEF Sound, Request, Current
  <2>4. \E phase \in Phase : flight' = [flight EXCEPT ![i] = sent(phase)]
                             /\ Sound(sent(phase))
    BY <1>4, <2>2, <2>3 DEF Serve, Replied, Phase
  <2>5. Flights' /\ OffIdle' /\ screen' \in Screens
    BY <1>4, <2>1, <2>4, PutKeeps DEF Serve
  <2>6. Servers'
    <3>1. r.kind \in {"signup", "change", "reset"} =>
            r.user \in Emails /\ r.password.n \in 1 .. MaxVersion
      BY <1>1 DEF Sound, Request, Password, Blank, Accounts
    <3>2. pw' = pw \/ /\ r.kind \in {"signup", "change", "reset"}
                      /\ pw' = [pw EXCEPT ![r.user] = r.password.n]
      BY <1>4 DEF Serve
    <3> QED
      BY <1>4, <3>1, <3>2 DEF Serve, Groups, Servers
  <2> QED
    BY <1>4, <2>5, <2>6, Unchanged DEF Serve, Groups
<1>5. CASE Fail(i)
  <2>1. [flight[i] EXCEPT !.phase = "refused"] \in Request
        /\ Sound([flight[i] EXCEPT !.phase = "refused"])
    BY <1>1 DEF Request, Sound, Phase
  <2>2. Flights' /\ OffIdle' /\ screen' \in Screens
    BY <1>5, <2>1, PutKeeps DEF Fail, Replied
  <2>3. Left(flight[i]) \subseteq Password \ {Blank}
    BY <1>1 DEF Left, Sound, Request, Blank, Accounts
  <2>4. Servers' /\ Ghosts'
    BY <1>5, <2>3 DEF Fail, Groups, Servers, Ghosts
  <2> QED
    BY <1>5, <2>2, <2>4, Unchanged DEF Fail, Groups
<1> QED
  BY <1>2, <1>3, <1>4, <1>5

-----------------------------------------------------------------------------
(* The completions *)

LEMMA DoneKeeps ==
  ASSUME Groups, NEW i \in Slot
  PROVE  /\ UNCHANGED screen /\ flight' = Done(i) =>
              Flights' /\ OffIdle' /\ screen' \in Screens
         /\ Unblocked(i) => Flights' /\ Huds' /\ OffIdle' /\ screen' \in Screens
         /\ TabsOpened(i) => Flights' /\ Huds' /\ OffIdle' /\ screen' \in Screens
         /\ Went("login", Done(i)) =>
              Flights' /\ Huds' /\ OffIdle' /\ screen' \in Screens
<1>1. /\ Done(i) \in [Slot -> Request \cup {Idle}]
      /\ \A j \in Slot : Done(i)[j] # Idle => Sound(Done(i)[j])
  BY DoneFacts, GroupsTyped DEF Typed, Groups
<1>2. ASSUME UNCHANGED screen, flight' = Done(i)
      PROVE  Flights' /\ OffIdle' /\ screen' \in Screens
  BY <1>1, <1>2 DEF Flights, Asks, OffIdle, Groups, Done
<1>3. UNCHANGED hud => Huds'
  BY Unchanged DEF Groups
<1>4. hud' = Hide => Huds'
  BY HudFacts, GroupsTyped DEF Groups, Typed, Huds, HeldUp
<1>5. \A scr \in {"login", "tabs"} : Went(scr, Done(i)) =>
        Flights' /\ Huds' /\ OffIdle' /\ screen' \in Screens
  BY <1>1, WentFacts DEF Flights, Huds, Screens
<1> QED
  BY <1>2, <1>3, <1>4, <1>5 DEF Unblocked, TabsOpened

LEMMA OpenedTyped ==
  ASSUME NEW u \in User, NEW p \in Password
  PROVE  Opened(u, p) => Clients'
  BY DEF Opened, Clients

LEMMA CompleteTyped ==
  ASSUME Groups, NEW i \in Slot, Complete(i)
  PROVE  Groups'
<1>1. flight[i] \in Request /\ Sound(flight[i])
  BY DEF Groups, Flights, Asks, Complete, SigninAnswered, SocialAnswered,
         UpdateAnswered, PasswordAnswered, ReviewAnswered, GuestEnters, Refused,
         Silent, SocialEmpty, FirstTraps, Answered
<1>2. /\ flight[i].user \in User /\ flight[i].password \in Password
      /\ flight[i].late \in BOOLEAN /\ flight[i].here \in BOOLEAN
      /\ disk.user \in User /\ disk.password \in Password
      /\ disk.logout \in BOOLEAN
      /\ disk = [user |-> disk.user, password |-> disk.password,
                 logout |-> disk.logout]
      /\ Guest \in User /\ Blank \in Password
  BY <1>1 DEF Groups, Clients, Request, User, Password
<1>3. CASE SigninAnswered(i)
  BY <1>2, <1>3, OpenedTyped, DoneKeeps, Unchanged
  DEF SigninAnswered, SignedIn, Groups, Ghosts
<1>4. CASE SocialAnswered(i)
  BY <1>2, <1>4, OpenedTyped, DoneKeeps, Unchanged
  DEF SocialAnswered, SignedIn, Groups, Ghosts
<1>5. CASE UpdateAnswered(i)
  BY <1>2, <1>5, OpenedTyped, DoneKeeps, Unchanged
  DEF UpdateAnswered, Groups, Ghosts
<1>6. CASE PasswordAnswered(i)
  <2>1. Clients'
    BY <1>2, <1>6 DEF PasswordAnswered, Stored, Clients
  <2>2. Ghosts'
    BY <1>6 DEF PasswordAnswered, Groups, Ghosts
  <2> QED
    BY <1>6, <2>1, <2>2, DoneKeeps, Unchanged DEF PasswordAnswered, Groups
<1>7. CASE ReviewAnswered(i)
  BY <1>2, <1>7, DoneKeeps, Unchanged
  DEF ReviewAnswered, Loaded, Groups, Clients
<1>8. CASE GuestEnters(i)
  BY <1>8, DoneKeeps, Unchanged DEF GuestEnters, Groups
<1>9. CASE Refused(i)
  BY <1>9, DoneKeeps, Unchanged DEF Refused, RefusedHere, Groups
<1>10. CASE Silent(i)
  <2>1. /\ hud = [up |-> hud.up, held |-> hud.held, keys |-> hud.keys,
                  fault |-> hud.fault]
        /\ hud.up \in Nat /\ hud.held \in BOOLEAN /\ hud.keys \in BOOLEAN
        /\ hud.held => hud.up > 0
    BY DEF Groups, Huds, HeldUp
  <2>2. \/ UNCHANGED hud
        \/ hud' = [up |-> hud.up, held |-> hud.held, keys |-> hud.keys,
                   fault |-> "silent"]
    BY <1>10, <2>1 DEF Silent
  <2>3. Huds'
    BY <2>1, <2>2, Unchanged DEF Groups, Huds, HeldUp, Faults
  <2> QED
    BY <1>10, <2>3, DoneKeeps, Unchanged DEF Silent, Done, Groups
<1>11. CASE SocialEmpty(i)
  <2>1. Clients'
    BY <1>2, <1>11 DEF SocialEmpty, Clients
  <2> QED
    BY <1>2, <1>11, <2>1, DoneKeeps, Unchanged
    DEF SocialEmpty, SignedIn, Groups, Ghosts
<1>12. CASE FirstTraps(i)
  <2>1. Clients'
    BY <1>2, <1>12, DiedTyped DEF FirstTraps, Clients
  <2>2. Ghosts'
    BY <1>12 DEF FirstTraps, Died, Groups, Ghosts
  <2> QED
    BY <1>12, <2>1, <2>2, DiedTyped DEF FirstTraps, Groups, Screens
<1> QED
  BY <1>3, <1>4, <1>5, <1>6, <1>7, <1>8, <1>9, <1>10, <1>11, <1>12 DEF Complete

LEMMA ServeLateTyped ==
  ASSUME Groups, NEW p \in loose, ServeLate(p)
  PROVE  Groups'
<1>1. p.of \in Emails /\ p.n \in 1 .. MaxVersion
  BY DEF Groups, Servers, Password
<1>2. Servers' /\ Ghosts'
  BY <1>1 DEF ServeLate, Groups, Servers, Ghosts
<1> QED
  BY <1>2, Unchanged DEF ServeLate, Groups

LEMMA StepTyped == Typed /\ [Next]_vars => Typed'
<1> SUFFICES ASSUME Groups, [Next]_vars PROVE Groups'
  BY GroupsTyped DEF Groups, Typed, TypeOK, Flights, Huds, Clients, Servers, Ghosts
<1>1. CASE UNCHANGED vars
  BY <1>1, Unchanged DEF vars, Groups
<1>2. CASE Next
  BY <1>2, LaunchTyped, KillTyped, MoveTyped, AskTyped, HandlingTyped,
     CompleteTyped, ServeLateTyped DEF Next, Handle
<1> QED
  BY <1>1, <1>2

\* Every variable of Session keeps its type: thisuser and the saved keys hold
\* users and passwords there are, no HUD is taken down that is not up.
THEOREM SessionTyped == Spec => []TypeOK
<1>1. Typed => TypeOK
  BY DEF Typed
<1> QED
  BY InitTyped, StepTyped, <1>1, PTL DEF Spec

-----------------------------------------------------------------------------
(* What is shown is what is saved *)

\* A running app: every action that changes the users changes both, or reads
\* the one from the other.
Shown == Typed /\ SavedIsShown

LEMMA ShownStep == Shown /\ [Next]_vars => Shown'
<1> SUFFICES ASSUME Groups, SavedIsShown, [Next]_vars PROVE SavedIsShown'
  BY StepTyped, GroupsTyped DEF Shown
<1>1. CASE UNCHANGED vars
  BY <1>1 DEF vars, client, SavedIsShown
<1>2. ASSUME screen # "off", UNCHANGED client PROVE SavedIsShown'
  BY <1>2 DEF client, SavedIsShown
<1>3. ASSUME NEW u, NEW p, Opened(u, p) PROVE SavedIsShown'
  BY <1>3 DEF Opened, SavedIsShown
<1>4. ASSUME NEW l, Cleared(l) PROVE SavedIsShown'
  BY <1>4 DEF Cleared, SavedIsShown
<1>5. CASE Launch
  BY <1>5 DEF Launch, Loaded, SavedIsShown
<1>6. CASE Kill
  BY <1>6 DEF Kill, Died, SavedIsShown
<1>7. CASE Move
  BY <1>2, <1>7 DEF Move, Navigate
<1>8. CASE Ask
  BY <1>2, <1>4, <1>8
  DEF Ask, Signin, Signup, Reset, ChangePassword, Social, ContinueAsGuest,
      Update, Review, Logout, LogoutMarked
<1>9. ASSUME NEW i \in Slot, Handle(i) PROVE SavedIsShown'
  <2>1. screen # "off"
    BY <1>9 DEF Groups, OffIdle, Handle, ProfileGot, Encoded, Serve, Fail,
                Complete, SigninAnswered, SocialAnswered, UpdateAnswered,
                PasswordAnswered, ReviewAnswered, GuestEnters, Refused, Silent,
                SocialEmpty, FirstTraps, Answered
  <2>2. CASE ProfileGot(i) \/ Encoded(i) \/ Serve(i) \/ Fail(i) \/ GuestEnters(i)
             \/ Refused(i) \/ Silent(i)
    BY <1>2, <2>1, <2>2
    DEF ProfileGot, Encoded, Serve, Fail, GuestEnters, Refused, Silent
  <2>3. CASE SigninAnswered(i) \/ SocialAnswered(i) \/ UpdateAnswered(i)
    BY <1>3, <2>3 DEF SigninAnswered, SocialAnswered, UpdateAnswered
  <2>4. CASE PasswordAnswered(i)
    BY <2>4 DEF PasswordAnswered, Stored, SavedIsShown, Groups, Clients
  <2>5. CASE ReviewAnswered(i)
    BY <2>5 DEF ReviewAnswered, Loaded, SavedIsShown
  <2>6. CASE SocialEmpty(i)
    BY <2>6 DEF SocialEmpty, SavedIsShown, Groups, Clients, Accounts
  <2>7. CASE FirstTraps(i)
    BY <2>7 DEF FirstTraps, Died, SavedIsShown
  <2> QED
    BY <1>9, <2>2, <2>3, <2>4, <2>5, <2>6, <2>7 DEF Handle, Complete
<1>10. ASSUME NEW p \in loose, ServeLate(p) PROVE SavedIsShown'
  BY <1>10 DEF ServeLate, client, SavedIsShown
<1> QED
  BY <1>1, <1>5, <1>6, <1>7, <1>8, <1>9, <1>10 DEF Next

\* While the app runs, a restart would find the session it shows.
THEOREM SavedShown == Spec => []SavedIsShown
<1>1. Init => Shown
  BY InitTyped DEF Shown, Init, SavedIsShown
<1>2. Shown => SavedIsShown
  BY DEF Shown
<1> QED
  BY <1>1, <1>2, ShownStep, PTL DEF Spec

-----------------------------------------------------------------------------
(* Logging out lasts *)

LEMMA LogoutStep == Shown /\ LogoutStays /\ [Next]_vars => LogoutStays'
<1> SUFFICES ASSUME Groups, SavedIsShown, LogoutStays, [Next]_vars
             PROVE  LogoutStays'
  BY GroupsTyped DEF Shown
<1>1. CASE UNCHANGED vars
  BY <1>1 DEF vars, client, ghosts, LogoutStays
<1>2. ASSUME UNCHANGED <<disk, out, strayed>> PROVE LogoutStays'
  BY <1>2 DEF LogoutStays
<1>3. ASSUME NEW i \in Slot, SignedIn(i) PROVE LogoutStays'
  BY <1>3 DEF SignedIn, LogoutStays
<1>4. CASE Launch \/ Kill \/ Move
  BY <1>2, <1>4 DEF Launch, Kill, Move, Navigate, client, ghosts
<1>5. CASE Ask
  <2>1. CASE ContinueAsGuest
    BY <2>1 DEF ContinueAsGuest, Cleared, LogoutStays, ghosts
  <2>2. CASE Logout
    BY <2>2 DEF Logout, LogoutMarked, Cleared, LogoutStays
  <2> QED
    BY <1>2, <1>5, <2>1, <2>2
    DEF Ask, Signin, Signup, Reset, ChangePassword, Social, Update, Review,
        client, ghosts
<1>6. ASSUME NEW i \in Slot, Handle(i) PROVE LogoutStays'
  <2>1. CASE ProfileGot(i) \/ Encoded(i) \/ Serve(i) \/ Fail(i) \/ GuestEnters(i)
             \/ Refused(i) \/ Silent(i) \/ ReviewAnswered(i)
    BY <1>2, <2>1 DEF ProfileGot, Encoded, Serve, Fail, GuestEnters, Refused,
                      Silent, ReviewAnswered, client, ghosts
  <2>2. CASE SigninAnswered(i) \/ SocialAnswered(i) \/ SocialEmpty(i)
    BY <1>3, <2>2 DEF SigninAnswered, SocialAnswered, SocialEmpty
  <2>3. CASE UpdateAnswered(i)
    <3>1. flight[i].user \in Accounts /\ flight[i].user # Guest /\ screen # "off"
      BY <2>3 DEF UpdateAnswered, Answered, Groups, Flights, Asks, Sound,
                  OffIdle, Accounts
    <3>2. SUFFICES ASSUME out, ~strayed, flight[i].user = mem.user PROVE FALSE
      BY <2>3 DEF UpdateAnswered, LogoutStays
    <3> QED
      BY <3>1, <3>2 DEF LogoutStays, SavedIsShown
  <2>4. CASE PasswordAnswered(i)
    BY <2>4 DEF PasswordAnswered, Stored, LogoutStays, Groups, Clients
  <2>5. CASE FirstTraps(i)
    BY <2>5 DEF FirstTraps, LogoutStays
  <2> QED
    BY <1>6, <2>1, <2>2, <2>3, <2>4, <2>5 DEF Handle, Complete
<1>7. ASSUME NEW p \in loose, ServeLate(p) PROVE LogoutStays'
  BY <1>2, <1>7 DEF ServeLate, client
<1> QED
  BY <1>1, <1>4, <1>5, <1>6, <1>7 DEF Next

\* After Logout no restart signs in by itself, unless an answer of the session
\* logged out came after.
THEOREM LogoutLasts == Spec => []LogoutStays
<1>1. Init => Shown /\ LogoutStays
  BY InitTyped DEF Shown, Init, SavedIsShown, LogoutStays
<1> QED
  BY <1>1, ShownStep, LogoutStep, PTL DEF Spec

-----------------------------------------------------------------------------
(* Whose password is stored, and which *)

\* An answered sign-in or password change names the account its password is of.
LEMMA AnswerOwned ==
  ASSUME Groups, NEW i \in Slot,
         SigninAnswered(i) \/ PasswordAnswered(i)
  PROVE  flight[i].user \in Emails /\ flight[i].password.of = flight[i].user
  BY DEF SigninAnswered, PasswordAnswered, Answered, Groups, Flights, Asks, Sound

\* An answered social sign-in names no email account, nor does a guest.
LEMMA AnswerSocial ==
  ASSUME Groups, NEW i \in Slot, SocialAnswered(i)
  PROVE  flight[i].user \notin Emails
  BY DEF SocialAnswered, Answered, Groups, Flights, Asks, Sound

LEMMA OwnedStep == Shown /\ PasswordOwned /\ [Next]_vars => PasswordOwned'
<1> SUFFICES ASSUME Groups, SavedIsShown, PasswordOwned, [Next]_vars
             PROVE  PasswordOwned'
  BY GroupsTyped DEF Shown
<1>1. CASE UNCHANGED vars
  BY <1>1 DEF vars, client, ghosts, PasswordOwned
<1>2. ASSUME UNCHANGED <<disk, strayed>> PROVE PasswordOwned'
  BY <1>2 DEF PasswordOwned
<1>3. ASSUME disk'.user = Guest PROVE PasswordOwned'
  BY <1>3 DEF PasswordOwned
<1>4. CASE Launch \/ Kill \/ Move
  BY <1>2, <1>4 DEF Launch, Kill, Move, Navigate, client, ghosts
<1>5. CASE Ask
  <2>1. CASE ContinueAsGuest \/ Logout
    BY <1>3, <2>1 DEF ContinueAsGuest, Logout, LogoutMarked, Cleared
  <2> QED
    BY <1>2, <1>5, <2>1
    DEF Ask, Signin, Signup, Reset, ChangePassword, Social, Update, Review,
        client, ghosts
<1>6. ASSUME NEW i \in Slot, Handle(i) PROVE PasswordOwned'
  <2>1. CASE ProfileGot(i) \/ Encoded(i) \/ Serve(i) \/ Fail(i) \/ GuestEnters(i)
             \/ Refused(i) \/ Silent(i) \/ ReviewAnswered(i)
    BY <1>2, <2>1 DEF ProfileGot, Encoded, Serve, Fail, GuestEnters, Refused,
                      Silent, ReviewAnswered, client, ghosts
  <2>2. CASE SigninAnswered(i)
    BY <2>2, AnswerOwned DEF SigninAnswered, Opened, PasswordOwned
  <2>3. CASE SocialAnswered(i)
    BY <2>3, AnswerSocial DEF SocialAnswered, Opened, PasswordOwned
  <2>4. CASE UpdateAnswered(i)
    <3>1. screen # "off"
      BY <2>4 DEF UpdateAnswered, Answered, Groups, OffIdle
    <3> QED
      BY <2>4, <3>1 DEF UpdateAnswered, Opened, PasswordOwned, SavedIsShown
  <2>5. CASE PasswordAnswered(i)
    <3>1. screen # "off"
      BY <2>5 DEF PasswordAnswered, Answered, Groups, OffIdle
    <3> QED
      BY <2>5, <3>1, AnswerOwned
      DEF PasswordAnswered, Stored, PasswordOwned, SavedIsShown, Groups, Clients
  <2>6. CASE SocialEmpty(i)
    BY <1>3, <2>6 DEF SocialEmpty, Groups, Clients
  <2>7. CASE FirstTraps(i)
    BY <1>3, <2>7 DEF FirstTraps
  <2> QED
    BY <1>6, <2>1, <2>2, <2>3, <2>4, <2>5, <2>6, <2>7 DEF Handle, Complete
<1>7. ASSUME NEW p \in loose, ServeLate(p) PROVE PasswordOwned'
  BY <1>2, <1>7 DEF ServeLate, client
<1> QED
  BY <1>1, <1>4, <1>5, <1>6, <1>7 DEF Next

\* However the answers interleave, an email account is never stored beside the
\* password of another, unless one was an answer to another session.
THEOREM PasswordsOwned == Spec => []PasswordOwned
<1>1. Init => Shown /\ PasswordOwned
  BY InitTyped DEF Shown, Init, SavedIsShown, PasswordOwned
<1> QED
  BY <1>1, ShownStep, OwnedStep, PTL DEF Spec

\* The answers that will bring a stored password up to date stay outstanding.
Kept == \A i \in Slot : Unheard(flight[i]) =>
          /\ flight'[i] # Idle /\ flight'[i].kind = flight[i].kind
          /\ flight'[i].user = flight[i].user
          /\ flight'[i].password = flight[i].password
          /\ flight'[i].phase = flight[i].phase

LEMMA KeptWhenPut ==
  ASSUME Groups, NEW i \in Slot, NEW r, flight' = [flight EXCEPT ![i] = r],
         ~Unheard(flight[i])
  PROVE  Kept
  BY DEF Kept, Groups, Flights, Unheard

LEMMA KeptAside ==
  ASSUME Groups, NEW f \in [Slot -> Request \cup {Idle}],
         \A i \in Slot : Unheard(flight[i]) =>
           /\ f[i] # Idle /\ f[i].kind = flight[i].kind
           /\ f[i].user = flight[i].user /\ f[i].password = flight[i].password
           /\ f[i].phase = flight[i].phase,
         flight' = Aside(f)
  PROVE  Kept
<1> SUFFICES ASSUME NEW i \in Slot, Unheard(flight[i])
             PROVE  /\ flight'[i] # Idle /\ flight'[i].kind = flight[i].kind
                    /\ flight'[i].user = flight[i].user
                    /\ flight'[i].password = flight[i].password
                    /\ flight'[i].phase = flight[i].phase
  BY DEF Kept
<1>1. f[i] \in Request /\ flight'[i] = [f[i] EXCEPT !.here = FALSE]
  BY DEF Aside
<1>2. flight'[i] \in Request
  BY <1>1 DEF Request
<1> QED
  BY <1>1, <1>2 DEF Request

LEMMA KeptIssued ==
  ASSUME Groups, NEW r, Issue(r, flight)
  PROVE  Kept
  BY KeptWhenPut DEF Issue, Unheard

LEMMA KeptDone ==
  ASSUME Groups, NEW i \in Slot, ~Unheard(flight[i])
  PROVE  /\ flight' = Done(i) => Kept
         /\ \A scr : Went(scr, Done(i)) => Kept
<1>1. flight' = Done(i) => Kept
  BY KeptWhenPut DEF Done
<1>2. Done(i) \in [Slot -> Request \cup {Idle}]
  BY DEF Groups, Flights, Done
<1>3. \A j \in Slot : Unheard(flight[j]) => Done(i)[j] = flight[j] /\ flight[j] # Idle
  BY DEF Groups, Flights, Done, Unheard
<1> QED
  BY <1>1, <1>2, <1>3, KeptAside DEF Went

LEMMA CurrentKept ==
  PasswordCurrent /\ Kept /\ UNCHANGED <<disk, strayed, excused, pw>>
    => PasswordCurrent'
<1> SUFFICES ASSUME PasswordCurrent, Kept, UNCHANGED <<disk, strayed, excused, pw>>,
                    disk.user \in Emails, ~strayed, ~excused
             PROVE  \/ disk.password = Current(disk.user)'
                    \/ \E i \in Slot : Unheard(flight[i])' /\ flight'[i].user = disk.user
  BY DEF PasswordCurrent
<1>1. Current(disk.user)' = Current(disk.user)
  BY DEF Current
<1>2. ASSUME NEW i \in Slot, Unheard(flight[i])
      PROVE  Unheard(flight[i])' /\ flight'[i].user = flight[i].user
  BY <1>2 DEF Kept, Unheard, Current
<1> QED
  BY <1>1, <1>2 DEF PasswordCurrent

LEMMA CurrentServed ==
  ASSUME Groups, PasswordOwned, PasswordCurrent, NEW i \in Slot, Serve(i)
  PROVE  PasswordCurrent'
<1> DEFINE r == flight[i]
<1>1. r \in Request /\ Sound(r) /\ r # Idle /\ r.phase = "sent"
  BY DEF Groups, Flights, Asks, Serve
<1>2. Kept /\ UNCHANGED <<disk, strayed, excused>>
  BY <1>1, KeptWhenPut DEF Serve, Replied, Unheard, client, ghosts
<1>3. CASE UNCHANGED pw
  BY <1>2, <1>3, CurrentKept
<1>4. CASE /\ r.kind \in {"signup", "change", "reset"}
           /\ pw' = [pw EXCEPT ![r.user] = r.password.n]
           /\ r.kind = "signup" => pw[r.user] = 0
           /\ r.kind # "signup" => flight' = [flight EXCEPT ![i] = [@ EXCEPT !.phase = "ok"]]
  <2>1. r.user \in Emails /\ r.password = [of |-> r.user, n |-> r.password.n]
    BY <1>1, <1>4 DEF Sound, Request, Password, Blank
  <2>2. SUFFICES ASSUME disk.user \in Emails, ~strayed, ~excused
                 PROVE  \/ disk.password = Current(disk.user)'
                        \/ \E j \in Slot : /\ Unheard(flight[j])'
                                         /\ flight'[j].user = disk.user
    BY <1>2 DEF PasswordCurrent
  <2>3. CASE disk.user # r.user
    <3>1. Current(disk.user)' = Current(disk.user)
      BY <1>2, <1>4, <2>2, <2>3 DEF Current, Groups, Servers
    <3>2. \A j \in Slot : Unheard(flight[j]) /\ flight[j].user = disk.user
                         => Unheard(flight[j])' /\ flight'[j].user = disk.user
      BY <1>2, <3>1 DEF Kept, Unheard
    <3> QED
      BY <2>2, <3>1, <3>2 DEF PasswordCurrent
  <2>4. CASE disk.user = r.user /\ r.kind = "signup"
    <3>1. pw[disk.user] = 0 /\ Current(disk.user) \notin Password
      BY <1>4, <2>2, <2>4 DEF Current, Password, Blank, Accounts
    <3>2. disk.password \in Password
          /\ \A j \in Slot : flight[j] # Idle => flight[j].password \in Password
      BY DEF Groups, Clients, Flights, Request
    <3> QED
      BY <2>2, <3>1, <3>2 DEF PasswordCurrent, Unheard
  <2>5. CASE disk.user = r.user /\ r.kind # "signup"
    <3>1. flight'[i] = [r EXCEPT !.phase = "ok"] /\ flight'[i] \in Request
      BY <1>1, <1>4, <2>5 DEF Groups, Flights, Request, Phase
    <3>2. /\ flight'[i].kind = r.kind /\ flight'[i].phase = "ok"
          /\ flight'[i].user = r.user /\ flight'[i].password = r.password
          /\ flight'[i] # Idle
      BY <1>1, <3>1 DEF Request
    <3>3. Current(r.user)' = r.password
      BY <1>4, <2>1, <3>2 DEF Current, Groups, Servers
    <3>4. Unheard(flight[i])'
      BY <1>4, <2>5, <3>2, <3>3 DEF Unheard
    <3> QED
      BY <2>5, <3>2, <3>4
  <2> QED
    BY <2>3, <2>4, <2>5
<1> QED
  BY <1>3, <1>4 DEF Serve, Replied

LEMMA CurrentStep ==
  Shown /\ PasswordOwned /\ PasswordCurrent /\ [Next]_vars => PasswordCurrent'
<1> SUFFICES ASSUME Groups, SavedIsShown, PasswordOwned, PasswordCurrent,
                    [Next]_vars
             PROVE  PasswordCurrent'
  BY GroupsTyped DEF Shown
<1>1. ASSUME disk'.user \notin Emails \/ strayed' \/ excused'
      PROVE  PasswordCurrent'
  BY <1>1 DEF PasswordCurrent
<1>2. Guest \notin Emails
  BY DEF Accounts
<1>3. CASE UNCHANGED vars
  BY <1>3, CurrentKept DEF vars, client, ghosts, server, Kept, Unheard
<1>4. CASE Launch
  <2>1. flight \in [Slot -> Request \cup {Idle}]
        /\ (flight' = Aside(flight) \/ \E r : Issue(r, flight))
    BY <1>4 DEF Launch, Went, Groups, Flights
  <2>2. Kept
    BY <2>1, KeptIssued, KeptAside DEF Unheard
  <2> QED
    BY <1>4, <2>2, CurrentKept DEF Launch, server, ghosts
<1>5. CASE Kill
  <2>1. SUFFICES ASSUME ~excused' PROVE PasswordCurrent'
    BY <1>1
  <2>2. ~excused /\ \A i \in Slot : ~Unheard(flight[i])
    BY <1>5, <2>1 DEF Kill, Died
  <2> QED
    BY <1>5, <2>2 DEF Kill, PasswordCurrent, Current
<1>6. CASE Move
  <2>1. flight \in [Slot -> Request \cup {Idle}] /\ flight' = Aside(flight)
    BY <1>6 DEF Move, Navigate, Went, Groups, Flights
  <2>2. Kept
    BY <2>1, KeptAside DEF Unheard
  <2> QED
    BY <1>6, <2>2, CurrentKept DEF Move, Navigate, client, server, ghosts
<1>7. CASE Ask
  <2>1. CASE ContinueAsGuest \/ Logout
    BY <1>1, <1>2, <2>1 DEF ContinueAsGuest, Logout, LogoutMarked, Cleared
  <2>2. CASE ~(ContinueAsGuest \/ Logout)
    <3>1. \E r : Issue(r, flight)
      BY <1>7, <2>2 DEF Ask, Signin, Signup, Reset, ChangePassword, Social,
                        Update, Review
    <3>2. Kept
      BY <3>1, KeptIssued
    <3> QED
      BY <1>7, <2>2, <3>2, CurrentKept
      DEF Ask, Signin, Signup, Reset, ChangePassword, Social, Update, Review,
          client, server, ghosts
  <2> QED
    BY <2>1, <2>2
<1>8. ASSUME NEW i \in Slot, Handle(i) PROVE PasswordCurrent'
  <2>1. CASE Serve(i)
    BY <2>1, CurrentServed
  <2>2. CASE ProfileGot(i) \/ Encoded(i)
    <3>1. Kept
      BY <2>2, KeptWhenPut DEF ProfileGot, Encoded, Unheard
    <3> QED
      BY <2>2, <3>1, CurrentKept
      DEF ProfileGot, Encoded, client, server, ghosts
  <2>3. CASE Fail(i)
    <3>1. CASE Unheard(flight[i])
      BY <1>1, <2>3, <3>1 DEF Fail
    <3>2. CASE ~Unheard(flight[i])
      <4>1. Kept
        BY <2>3, <3>2, KeptWhenPut DEF Fail, Replied
      <4>2. CASE excused'
        BY <1>1, <4>2
      <4>3. CASE ~excused' /\ ~excused
        BY <2>3, <4>1, <4>3 DEF Fail, client, Kept, PasswordCurrent, Unheard, Current
      <4> QED
        BY <2>3, <4>2, <4>3 DEF Fail
    <3> QED
      BY <3>1, <3>2
  <2>4. CASE SigninAnswered(i)
    BY <2>4 DEF SigninAnswered, Opened, PasswordCurrent, Current, server
  <2>5. CASE SocialAnswered(i)
    BY <1>1, <2>5, AnswerSocial DEF SocialAnswered, Opened
  <2>6. CASE UpdateAnswered(i)
    <3>1. screen # "off" /\ Kept
      BY <2>6, KeptDone
      DEF UpdateAnswered, Answered, Unblocked, Groups, OffIdle, Unheard
    <3>2. CASE flight[i].user # mem.user
      BY <1>1, <2>6, <3>2 DEF UpdateAnswered
    <3>3. CASE flight[i].user = mem.user
      <4>1. /\ disk'.user = flight[i].user /\ disk'.password = disk.password
            /\ strayed' = strayed /\ excused' = excused /\ pw' = pw
        BY <2>6, <3>3 DEF UpdateAnswered, Opened, server, Groups, Ghosts
      <4>2. disk.user = disk'.user
        BY <3>1, <3>3, <4>1 DEF SavedIsShown
      <4>3. \A j \in Slot : Unheard(flight[j]) =>
              Unheard(flight'[j]) /\ flight'[j].user = flight[j].user
        BY <3>1 DEF Kept, Unheard
      <4>4. CASE strayed \/ excused \/ disk.user \notin Emails
        BY <1>1, <4>1, <4>2, <4>4
      <4>5. CASE disk.password = Current(disk.user)
        <5>1. (disk.password = Current(disk.user))'
          BY <4>1, <4>2, <4>5 DEF Current
        <5> QED
          BY <5>1 DEF PasswordCurrent
      <4>6. CASE \E j \in Slot : Unheard(flight[j]) /\ flight[j].user = disk.user
        BY <4>1, <4>2, <4>3, <4>6 DEF PasswordCurrent, Unheard, Current
      <4> QED
        BY <4>4, <4>5, <4>6 DEF PasswordCurrent
    <3> QED
      BY <3>2, <3>3
  <2>7. CASE PasswordAnswered(i)
    <3>1. screen # "off"
      BY <2>7 DEF PasswordAnswered, Answered, Groups, OffIdle
    <3>2. CASE flight[i].user # mem.user
      BY <1>1, <2>7, <3>2 DEF PasswordAnswered
    <3>3. CASE flight[i].user = mem.user
      BY <2>7, <3>1, <3>3
      DEF PasswordAnswered, Stored, SavedIsShown, PasswordCurrent, Current,
          server, Groups, Clients
    <3> QED
      BY <3>2, <3>3
  <2>8. CASE ReviewAnswered(i) \/ GuestEnters(i) \/ Refused(i) \/ Silent(i)
    <3>1. ~Unheard(flight[i])
      BY <2>8 DEF ReviewAnswered, GuestEnters, Refused, Silent, Answered, Unheard
    <3>2. flight' = Done(i) \/ \E scr : Went(scr, Done(i))
      BY <2>8 DEF ReviewAnswered, GuestEnters, Refused, RefusedHere, Silent,
                  Unblocked, TabsOpened
    <3>3. Kept
      BY <3>1, <3>2, KeptDone
    <3> QED
      BY <2>8, <3>3, CurrentKept
      DEF ReviewAnswered, GuestEnters, Refused, Silent, client, server, ghosts
  <2>9. CASE SocialEmpty(i)
    BY <1>1, <1>2, <2>9 DEF SocialEmpty, Groups, Clients
  <2>10. CASE FirstTraps(i)
    BY <1>1, <1>2, <2>10 DEF FirstTraps
  <2> QED
    BY <1>8, <2>1, <2>2, <2>3, <2>4, <2>5, <2>6, <2>7, <2>8, <2>9, <2>10
    DEF Handle, Complete
<1>9. ASSUME NEW p \in loose, ServeLate(p) PROVE PasswordCurrent'
  BY <1>1, <1>9 DEF ServeLate
<1> QED
  BY <1>3, <1>4, <1>5, <1>6, <1>7, <1>8, <1>9 DEF Next

\* The stored password of an email account is the one the server knows, but
\* for an answer outstanding, lost or overtaken.
THEOREM PasswordsCurrent == Spec => []PasswordCurrent
<1>1. Init => Shown /\ PasswordOwned /\ PasswordCurrent
  BY InitTyped DEF Shown, Init, SavedIsShown, PasswordOwned, PasswordCurrent
<1> QED
  BY <1>1, ShownStep, OwnedStep, CurrentStep, PTL DEF Spec

-----------------------------------------------------------------------------
(* The HUD *)

\* While nothing went wrong, the HUD up is the one the screen remembers, and a
\* request of the screen that is past asking will take it down.
Asker(i) == flight[i] # Idle /\ flight[i].here /\ flight[i].phase # "asking"
HudCounted == hud.fault = "none" => hud.up = IF hud.held THEN 1 ELSE 0
HudAsked == hud.fault = "none" /\ hud.up > 0 => \E i \in Slot : Asker(i)
Hudded == HudCounted /\ HudAsked

LEMMA NoHudFacts == hud' = NoHud => Hudded'
  BY DEF NoHud, Hudded, HudCounted, HudAsked

\* showLoadingView for a request that is out.
LEMMA ShowFacts ==
  ASSUME Groups, HudCounted, hud' = Show, NEW i \in Slot, Asker(i)'
  PROVE  Hudded'
<1>1. hud.up \in Nat
  BY DEF Groups, Huds
<1>2. CASE hud.held
  <2>1. hud'.fault = "doubled"
    BY <1>2 DEF Show, Groups, Huds
  <2> QED
    BY <2>1 DEF Hudded, HudCounted, HudAsked
<1>3. CASE ~hud.held
  <2>1. hud'.fault = hud.fault /\ hud'.held = TRUE /\ hud'.up = hud.up + 1
    BY <1>3 DEF Show, Groups, Huds
  <2> QED
    BY <1>1, <1>3, <2>1 DEF Hudded, HudCounted, HudAsked
<1> QED
  BY <1>2, <1>3

LEMMA HideFacts ==
  ASSUME Groups, HudCounted, hud' = Hide
  PROVE  Hudded'
<1>1. hud.up \in Nat
  BY DEF Groups, Huds
<1>2. CASE hud.held
  <2>1. hud'.fault = hud.fault /\ hud'.held = FALSE /\ hud'.up = hud.up - 1
    BY <1>2 DEF Hide, Groups, Huds
  <2> QED
    BY <1>1, <1>2, <2>1 DEF Hudded, HudCounted, HudAsked
<1>3. CASE ~hud.held
  BY <1>1, <1>3 DEF Hide, Hudded, HudCounted, HudAsked
<1> QED
  BY <1>2, <1>3

\* The request that took the HUD up is still out.
LEMMA HudStays ==
  ASSUME Hudded, UNCHANGED hud, \A i \in Slot : Asker(i) => Asker(i)'
  PROVE  Hudded'
  BY DEF Hudded, HudCounted, HudAsked

LEMMA IssuedAsks ==
  ASSUME Groups, NEW kind, NEW u, NEW p, NEW phase \in Phase \ {"asking"},
         Asking(kind, u, p, phase) \in Request,
         Issue(Asking(kind, u, p, phase), flight)
  PROVE  \E i \in Slot : Asker(i)'
<1>1. PICK i \in Slot : flight' = [flight EXCEPT ![i] = Asking(kind, u, p, phase)]
  BY DEF Issue
<1>2. flight'[i] = Asking(kind, u, p, phase)
  BY <1>1 DEF Groups, Flights
<1> QED
  BY <1>2 DEF Asker, Asking

LEMMA IssuedKeeps ==
  ASSUME Groups, NEW r, Issue(r, flight)
  PROVE  \A i \in Slot : Asker(i) => Asker(i)'
  BY DEF Groups, Flights, Issue, Asker

LEMMA PutAskers ==
  ASSUME Groups, NEW i \in Slot, NEW r, flight' = [flight EXCEPT ![i] = r],
         Asker(i) => r # Idle /\ r.here /\ r.phase # "asking"
  PROVE  \A j \in Slot : Asker(j) => Asker(j)'
  BY DEF Groups, Flights, Asker

LEMMA HudAsk == Groups /\ Hudded /\ Ask => Hudded'
<1> SUFFICES ASSUME Groups, Hudded, Ask PROVE Hudded'
  OBVIOUS
<1>2. Guest \in User /\ Blank \in Password
  BY DEF User, Password
<1>3. ASSUME NEW a \in Emails, NEW n \in 1 .. MaxVersion, Signin(a, n)
      PROVE  Hudded'
  <2>1. PICK keys \in BOOLEAN : hud' = [Show EXCEPT !.keys = keys]
    BY <1>3 DEF Signin
  <2>2. Asking("signin", a, [of |-> a, n |-> n], "sent") \in Request
    BY PasswordMade, AskingRequest DEF Kind, Phase
  <2>3. PICK i \in Slot : Asker(i)'
    BY <1>3, <2>2, IssuedAsks DEF Signin, Phase
  <2>4. hud'.up = Show.up /\ hud'.held = Show.held /\ hud'.fault = Show.fault
    BY <2>1, HudFacts, GroupsTyped DEF Groups, Typed
  <2>5. CASE hud.held
    <3>1. hud'.fault = "doubled"
      BY <2>4, <2>5 DEF Show, Groups, Huds
    <3> QED
      BY <3>1 DEF Hudded, HudCounted, HudAsked
  <2>6. CASE ~hud.held
    <3>1. hud'.fault = hud.fault /\ hud'.held = TRUE /\ hud'.up = hud.up + 1
      BY <2>4, <2>6 DEF Show, Groups, Huds
    <3> QED
      BY <2>3, <2>6, <3>1 DEF Hudded, HudCounted, HudAsked
  <2> QED
    BY <2>5, <2>6
<1>4. ASSUME NEW a \in Emails, Signup(a) PROVE Hudded'
  <2>1. hud'.fault = "doubled"
    BY <1>4 DEF Signup, Groups, Huds
  <2> QED
    BY <2>1 DEF Hudded, HudCounted, HudAsked
<1>5. ASSUME NEW a \in Emails, Reset(a) PROVE Hudded'
  <2>1. issued[a] + 1 \in 1 .. MaxVersion
    BY <1>5 DEF Reset, Groups, Servers
  <2>2. Asking("reset", a, [of |-> a, n |-> issued[a] + 1], "sent") \in Request
    BY <2>1, PasswordMade, AskingRequest DEF Kind, Phase
  <2>3. \E i \in Slot : Asker(i)'
    BY <1>5, <2>2, IssuedAsks DEF Reset, Phase
  <2> QED
    BY <1>5, <2>3, ShowFacts DEF Reset, Hudded
<1>6. CASE ContinueAsGuest
  <2>1. Asking("guest", Guest, Blank, "ok") \in Request
    BY <1>2, AskingRequest DEF Kind, Phase
  <2>2. \E i \in Slot : Asker(i)'
    BY <1>6, <2>1, IssuedAsks DEF ContinueAsGuest, Phase
  <2> QED
    BY <1>6, <2>2, ShowFacts DEF ContinueAsGuest, Hudded
<1>7. CASE Logout
  BY <1>7, NoHudFacts DEF Logout, Went
<1>8. ASSUME NEW a \in Emails, ChangePassword(a) PROVE Hudded'
  BY <1>8, IssuedKeeps, HudStays DEF ChangePassword
<1>9. ASSUME NEW c \in Socials, Social(c) PROVE Hudded'
  BY <1>9, IssuedKeeps, HudStays DEF Social
<1>10. CASE Update \/ Review
  BY <1>10, IssuedKeeps, HudStays DEF Update, Review
<1> QED
  BY <1>3, <1>4, <1>5, <1>6, <1>7, <1>8, <1>9, <1>10 DEF Ask

LEMMA HudHandle ==
  ASSUME Groups, Hudded, NEW i \in Slot, Handle(i)
  PROVE  Hudded'
<1>1. /\ Unblocked(i) => Hudded'
      /\ TabsOpened(i) => Hudded'
      /\ \A scr : Went(scr, Done(i)) => Hudded'
      /\ flight' = Done(i) /\ UNCHANGED hud /\ ~flight[i].here => Hudded'
  <2>1. ASSUME flight' = Done(i), UNCHANGED hud, ~flight[i].here PROVE Hudded'
    BY <2>1, PutAskers, HudStays DEF Done, Asker
  <2>2. \A scr : Went(scr, Done(i)) => Hudded'
    BY NoHudFacts DEF Went
  <2> QED
    BY <2>1, <2>2, HideFacts DEF Unblocked, TabsOpened, Hudded
<1>2. CASE ProfileGot(i)
  <2>1. ~Asker(i) /\ flight[i] \in Request
    BY <1>2 DEF ProfileGot, Asker, Groups, Flights
  <2>2. \A j \in Slot : Asker(j) => Asker(j)'
    BY <1>2, <2>1, PutAskers DEF ProfileGot
  <2>3. CASE hud' = hud
    BY <2>2, <2>3, HudStays
  <2>4. CASE flight[i].here /\ flight' = [flight EXCEPT ![i] = [@ EXCEPT !.phase = "sent"]]
             /\ hud' = Show
    <3>1. flight'[i] = [flight[i] EXCEPT !.phase = "sent"]
      BY <2>4 DEF Groups, Flights
    <3>2. flight'[i] \in Request /\ flight'[i].here /\ flight'[i].phase = "sent"
      BY <2>1, <2>4, <3>1 DEF Request, Phase
    <3>3. Asker(i)'
      BY <3>2 DEF Asker
    <3> QED
      BY <2>4, <3>3, ShowFacts DEF Hudded
  <2> QED
    BY <1>2, <2>3, <2>4 DEF ProfileGot
<1>3. CASE Encoded(i)
  <2>1. ~Asker(i)
    BY <1>3 DEF Encoded, Asker
  <2> QED
    BY <1>3, <2>1, PutAskers, HudStays DEF Encoded
<1>4. CASE Serve(i) \/ Fail(i)
  <2>1. PICK phase \in Phase \ {"asking"} :
          flight' = [flight EXCEPT ![i] = [@ EXCEPT !.phase = phase]]
    BY <1>4 DEF Serve, Fail, Replied, Phase
  <2>2. flight[i] \in Request
    BY <1>4 DEF Serve, Fail, Groups, Flights
  <2>3. LET r == [flight[i] EXCEPT !.phase = phase]
        IN r \in Request /\ r.here = flight[i].here /\ r.phase = phase
    BY <2>2 DEF Request
  <2>4. \A j \in Slot : Asker(j) => Asker(j)'
    BY <2>1, <2>3, PutAskers DEF Asker
  <2> QED
    BY <1>4, <2>4, HudStays DEF Serve, Fail
<1>5. CASE SigninAnswered(i) \/ SocialAnswered(i) \/ SocialEmpty(i)
  BY <1>1, <1>5 DEF SigninAnswered, SocialAnswered, SocialEmpty, SignedIn
<1>6. CASE \/ UpdateAnswered(i) \/ PasswordAnswered(i) \/ ReviewAnswered(i)
           \/ GuestEnters(i) \/ Refused(i)
  BY <1>1, <1>6
  DEF UpdateAnswered, PasswordAnswered, ReviewAnswered, GuestEnters, Refused,
      RefusedHere
<1>7. CASE Silent(i)
  <2>1. CASE flight[i].here
    <3>1. hud'.fault = "silent"
      BY <1>7, <2>1 DEF Silent, Groups, Huds
    <3> QED
      BY <3>1 DEF Hudded, HudCounted, HudAsked
  <2> QED
    BY <1>1, <1>7, <2>1 DEF Silent
<1>8. CASE FirstTraps(i)
  BY <1>8, NoHudFacts DEF FirstTraps, Died
<1> QED
  BY <1>2, <1>3, <1>4, <1>5, <1>6, <1>7, <1>8 DEF Handle, Complete

LEMMA HudStep == Typed /\ Hudded /\ [Next]_vars => Hudded'
<1> SUFFICES ASSUME Groups, Hudded, [Next]_vars PROVE Hudded'
  BY GroupsTyped
<1>1. CASE UNCHANGED vars
  BY <1>1, HudStays DEF vars, Asker
<1>2. CASE Launch
  <2>1. CASE Went("login", flight)
    BY <2>1, NoHudFacts DEF Went
  <2>2. CASE ~Went("login", flight)
    <3> DEFINE r == Asking(IF disk.user \in Socials THEN "social" ELSE "signin",
                           disk.user, disk.password, "sent")
    <3>1. r \in Request
      BY AskingRequest DEF Groups, Clients, Kind, Phase
    <3>2. hud' = [NoHud EXCEPT !.up = 1, !.held = TRUE] /\ Issue(r, flight)
      BY <1>2, <2>2 DEF Launch
    <3>3. \E i \in Slot : Asker(i)'
      BY <3>1, <3>2, IssuedAsks DEF Phase
    <3>4. hud' = [up |-> 1, held |-> TRUE, keys |-> FALSE, fault |-> "none"]
      BY <3>2 DEF NoHud
    <3> QED
      BY <3>3, <3>4 DEF Hudded, HudCounted, HudAsked
  <2> QED
    BY <2>1, <2>2
<1>3. CASE Kill \/ Move
  BY <1>3, NoHudFacts DEF Kill, Died, Move, Navigate, Went
<1>4. ASSUME NEW p \in loose, ServeLate(p) PROVE Hudded'
  BY <1>4, HudStays DEF ServeLate, Asker
<1> QED
  BY <1>1, <1>2, <1>3, <1>4, HudAsk, HudHandle DEF Next

\* A HUD without a request of its screen has one of the two explanations.
THEOREM HudsExplained == Spec => []HudExplained
<1>1. Init => Typed /\ Hudded
  BY InitTyped DEF Init, Hudded, HudCounted, HudAsked, NoHud
<1>2. Hudded => HudExplained
  BY DEF Hudded, HudAsked, HudExplained, Asker
<1> QED
  BY <1>1, <1>2, StepTyped, HudStep, PTL DEF Spec
-----------------------------------------------------------------------------
(* The launch *)

\* A sign-in that was sent from the visible screen.
Launching(i) == Asker(i) /\ flight[i].kind \in {"signin", "social"}

\* SplashVC waits for its own sign-in and for nothing else, unless that came back
\* without user_info and the completion was never called.
LaunchWaits ==
  screen = "splash" =>
    /\ \A i \in Slot : flight[i] # Idle => Launching(i)
    /\ (\E i \in Slot : Launching(i)) \/ hud.fault = "silent"

LEMMA LaunchAsk == LaunchWaits /\ (Ask \/ Move \/ Kill) => LaunchWaits'
<1>1. screen # "splash" /\ Ask => screen' # "splash"
  BY DEF Ask, Signin, Signup, Reset, ChangePassword, Social, ContinueAsGuest, Update,
         Review, Logout, Went
<1>2. screen = "splash" => ~Ask
  BY DEF Ask, Signin, Signup, Reset, ChangePassword, Social, ContinueAsGuest, Update,
         Review, Logout
<1>3. Move \/ Kill => screen' # "splash"
  BY DEF Move, Navigate, Went, Kill, Died
<1> QED
  BY <1>1, <1>2, <1>3 DEF LaunchWaits

\* Only one slot changes while the server and the network are at work.
LEMMA LaunchReplied ==
  ASSUME Groups, LaunchWaits, NEW i \in Slot, flight[i] # Idle,
         NEW phase \in Phase \ {"asking"}, Replied(i, phase), UNCHANGED <<screen, hud>>
  PROVE  LaunchWaits'
<1>1. SUFFICES ASSUME screen = "splash"
               PROVE  (\A j \in Slot : flight[j] # Idle => Launching(j))'
                      /\ (\E j \in Slot : Launching(j))'
  BY DEF LaunchWaits
<1>2. Launching(i) /\ \A j \in Slot : flight[j] # Idle => Launching(j)
  BY <1>1 DEF LaunchWaits
<1>3. flight'[i] = [flight[i] EXCEPT !.phase = phase] /\ flight[i] \in Request
  BY DEF Replied, Groups, Flights
<1>4. Launching(i)'
  BY <1>2, <1>3, SessionIdle DEF Launching, Asker, Request
<1>5. ASSUME NEW j \in Slot, j # i PROVE flight'[j] = flight[j]
  BY <1>5 DEF Replied, Groups, Flights
<1>6. ASSUME NEW j \in Slot, flight'[j] # Idle PROVE Launching(j)'
  BY <1>2, <1>4, <1>5, <1>6 DEF Launching, Asker
<1> QED
  BY <1>4, <1>6

LEMMA LaunchHandle ==
  ASSUME Groups, LaunchWaits, NEW i \in Slot, Handle(i)
  PROVE  LaunchWaits'
<1>1. CASE screen # "splash"
  <2>1. screen' # "splash"
    BY <1>1 DEF Handle, ProfileGot, Encoded, Serve, Fail, Complete, SigninAnswered,
                SocialAnswered, UpdateAnswered, PasswordAnswered, ReviewAnswered,
                GuestEnters, Refused, RefusedHere, Silent, SocialEmpty, FirstTraps,
                SignedIn, TabsOpened, Unblocked, Went, Died
  <2> QED
    BY <2>1 DEF LaunchWaits
<1>2. CASE screen = "splash"
  <2>1. flight[i] # Idle
    BY DEF Handle, ProfileGot, Encoded, Serve, Fail, Complete, SigninAnswered,
           SocialAnswered, UpdateAnswered, PasswordAnswered, ReviewAnswered,
           GuestEnters, Refused, Silent, SocialEmpty, FirstTraps, Answered
  <2>2. Launching(i) /\ \A j \in Slot : flight[j] # Idle => Launching(j)
    BY <1>2, <2>1 DEF LaunchWaits
  <2>3. flight[i].here /\ flight[i].phase # "asking"
        /\ flight[i].kind \in {"signin", "social"}
    BY <2>2 DEF Launching, Asker
  <2>4. CASE Serve(i)
    <3>1. PICK phase \in Phase \ {"asking"} : Replied(i, phase)
      BY <2>4 DEF Serve, Phase
    <3> QED
      BY <2>1, <2>4, <3>1, LaunchReplied DEF Serve
  <2>5. CASE Fail(i)
    BY <2>1, <2>5, LaunchReplied DEF Fail, Phase
  <2>6. CASE Silent(i)
    <3>1. hud'.fault = "silent" /\ screen' = screen
      BY <2>3, <2>6 DEF Silent, Groups, Huds
    <3>2. ASSUME NEW j \in Slot, flight'[j] # Idle PROVE Launching(j)'
      <4>1. flight'[j] = flight[j]
        BY <2>6, <3>2 DEF Silent, Done, Groups, Flights
      <4> QED
        BY <2>2, <3>2, <4>1 DEF Launching, Asker
    <3> QED
      BY <3>1, <3>2 DEF LaunchWaits
  <2>7. ~ProfileGot(i) /\ ~Encoded(i) /\ ~UpdateAnswered(i) /\ ~PasswordAnswered(i)
        /\ ~ReviewAnswered(i) /\ ~GuestEnters(i)
    BY <2>3 DEF ProfileGot, Encoded, UpdateAnswered, PasswordAnswered,
                ReviewAnswered, GuestEnters, Answered
  <2>8. CASE SigninAnswered(i) \/ SocialAnswered(i) \/ SocialEmpty(i)
             \/ Refused(i) \/ FirstTraps(i)
    <3>1. screen' # "splash"
      BY <1>2, <2>3, <2>8
         DEF SigninAnswered, SocialAnswered, SocialEmpty, SignedIn, TabsOpened,
             Refused, FirstTraps, Died, Went
    <3> QED
      BY <3>1 DEF LaunchWaits
  <2> QED
    BY <2>4, <2>5, <2>6, <2>7, <2>8 DEF Handle, Complete
<1> QED
  BY <1>1, <1>2

LEMMA LaunchStep == Typed /\ LaunchWaits /\ [Next]_vars => LaunchWaits'
<1> SUFFICES ASSUME Groups, OffIdle, LaunchWaits, [Next]_vars PROVE LaunchWaits'
  BY GroupsTyped DEF Typed
<1>1. CASE Launch
  <2>1. CASE screen' = "splash"
    <3> DEFINE r == Asking(IF disk.user \in Socials THEN "social" ELSE "signin",
                           disk.user, disk.password, "sent")
    <3>1. r \in Request
      BY AskingRequest DEF Groups, Clients, Kind, Phase
    <3>2. r.here /\ r.phase = "sent" /\ r.kind \in {"signin", "social"}
      BY DEF Asking
    <3>3. Issue(r, flight)
      BY <1>1, <2>1 DEF Launch, Went
    <3> HIDE DEF r
    <3>4. PICK i \in Slot : flight' = [flight EXCEPT ![i] = r]
      BY <3>3 DEF Issue
    <3>5. \A j \in Slot : flight[j] = Idle
      BY <1>1 DEF Launch, OffIdle
    <3>6. flight'[i] = r /\ \A j \in Slot : j # i => flight'[j] = Idle
      BY <3>4, <3>5 DEF Groups, Flights
    <3>7. Launching(i)'
      BY <3>1, <3>2, <3>6, SessionIdle DEF Launching, Asker
    <3> QED
      BY <3>6, <3>7 DEF LaunchWaits
  <2> QED
    BY <2>1 DEF LaunchWaits
<1>2. CASE UNCHANGED <<screen, hud, flight>>
  BY <1>2 DEF LaunchWaits, Launching, Asker
<1>3. CASE UNCHANGED vars \/ \E p \in loose : ServeLate(p)
  BY <1>2, <1>3 DEF vars, ServeLate
<1> QED
  BY <1>1, <1>3, LaunchAsk, LaunchHandle DEF Next

\* A launch never waits for nothing, nor for what would not end it: while SplashVC is
\* on the screen, the requests out are its own sign-in, whose completion takes the
\* screen away.  It is the safety half of LaunchEnds.
THEOREM LaunchAwaited == Spec => []LaunchWaits
<1>1. Init => Typed /\ LaunchWaits
  BY InitTyped DEF Init, LaunchWaits
<1> QED
  BY <1>1, StepTyped, LaunchStep, PTL DEF Spec
=============================================================================
