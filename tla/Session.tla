------------------------------ MODULE Session ------------------------------
(***************************************************************************)
(* Who is signed in on one device: UserModel (the global `thisuser` and    *)
(* its copy in UserDefaults), the ApiManager calls that replace it and the *)
(* screens that make them (SplashVC, LoginVC, EmailLoginVC, SignUpVC,      *)
(* ForgotVC, ProfileVC, RatingVC).                                         *)
(*                                                                         *)
(* A request is handled by the server, then answered, and answers of       *)
(* different requests come in any order: Alamofire runs each on a task of  *)
(* its own.  A completion keeps its view controller alive, so it runs      *)
(* whatever the user did meanwhile, log out and sign in again included.    *)
(*                                                                         *)
(* The fields of UserModel other than the password are those of the        *)
(* account user_id names (name, email, login_type, ...): one value, `user`.*)
(***************************************************************************)
EXTENDS Naturals

CONSTANTS Emails,     \* accounts with an email and a password
          Registered, \* those of them that exist at the start
          Socials,    \* accounts of a social network
          Guest,      \* user_id -1
          Fresh,      \* user_id 0, what loadUserInfo makes of a new install
          Idle,       \* no request
          MaxVersion, \* bound: passwords an account ever has
          MaxFlight   \* bound: requests outstanding at a time

ASSUME SessionBounds == MaxVersion \in Nat \ {0} /\ MaxFlight \in Nat \ {0}
ASSUME SessionUsers ==
  /\ Registered \subseteq Emails /\ Emails \cap Socials = {}
  /\ Guest # Fresh /\ {Guest, Fresh} \cap (Emails \cup Socials) = {}

Accounts == Emails \cup Socials
User == Accounts \cup {Guest, Fresh}
Slot == 1 .. MaxFlight
Blank == [of |-> Guest, n |-> 0]     \* no password, nil or ""
Password == [of : Emails, n : 1 .. MaxVersion] \cup {Blank}

Kind == {"signin", "social", "signup", "update", "change", "reset", "review",
         "guest"}
\* Before it is sent, a social sign-in asks the network for the profile and an
\* update encodes its form.  "noinfo" and "empty" are successes without
\* user_info and with an empty one.
Phase == {"asking", "sent", "ok", "refused", "noinfo", "empty"}
Request == [kind : Kind, user : User, password : Password, phase : Phase,
            here : BOOLEAN,  \* its screen is still the visible one
            late : BOOLEAN]  \* the user logged out since
ASSUME SessionIdle == Idle \notin Request

Screens == {"off", "splash", "login", "email", "signup", "forgot", "tabs"}
Faults == {"none", "doubled", "silent"}

VARIABLES
  mem,      \* thisuser: user and password
  disk,     \* UserDefaults: user, password, logout
  screen,   \* the visible screen
  hud,      \* HUDs over it: number up, whether `hud` is one of them, whether
            \* the keyboard lies above, what went wrong
  flight,   \* outstanding requests
  pw,       \* server: version of the password of each account, 0 for no account
  loose,    \* passwords the app gave up sending, which the server may yet get
  issued,   \* versions users have invented
  out,      \* the last thing the user did about the session was to log out
  strayed,  \* an answer changed a session other than the one that asked
  excused   \* the password stored was overtaken, or its change went unheard of

client == <<mem, disk>>
server == <<pw, loose, issued>>
ghosts == <<out, strayed, excused>>
vars == <<client, screen, hud, flight, server, ghosts>>

NoHud == [up |-> 0, held |-> FALSE, keys |-> FALSE, fault |-> "none"]

TypeOK ==
  /\ mem \in [user : User, password : Password]
  /\ disk \in [user : User, password : Password, logout : BOOLEAN]
  /\ screen \in Screens
  /\ hud \in [up : Nat, held : BOOLEAN, keys : BOOLEAN, fault : Faults]
  /\ flight \in [Slot -> Request \cup {Idle}]
  /\ pw \in [Emails -> 0 .. MaxVersion] /\ issued \in [Emails -> 0 .. MaxVersion]
  /\ loose \subseteq Password \ {Blank}
  /\ out \in BOOLEAN /\ strayed \in BOOLEAN /\ excused \in BOOLEAN

Init ==
  /\ mem = [user |-> Guest, password |-> Blank]
  /\ disk = [user |-> Fresh, password |-> Blank, logout |-> FALSE]
  /\ screen = "off" /\ hud = NoHud
  /\ flight = [i \in Slot |-> Idle]
  /\ pw = [a \in Emails |-> IF a \in Registered THEN 1 ELSE 0]
  /\ issued = pw /\ loose = {}
  /\ out = FALSE /\ strayed = FALSE /\ excused = FALSE

-----------------------------------------------------------------------------
(* UserModel *)

IsValid == mem.user # Guest

\* loadUserInfo
Loaded(d) == [user |-> d.user, password |-> d.password]

\* The password of a, as the server knows it.
Current(a) == [of |-> a, n |-> pw[a]]

\* clearUserInfo, the new model, saveUserInfo, loadUserInfo.  UserModel(JSON)
\* takes the password from UserDefaults.  Mutants: the password of the sign-in
\* is not stored; the new model is not saved.
OpenedForgetting(u, p) ==
  /\ disk' = [user |-> u, password |-> disk.password, logout |-> FALSE]
  /\ mem' = [user |-> u, password |-> disk.password]
OpenedUnsaved(u, p) ==
  /\ disk' = [user |-> Guest, password |-> p, logout |-> FALSE]
  /\ mem' = [user |-> u, password |-> p]
Opened(u, p) ==
  /\ disk' = [user |-> u, password |-> p, logout |-> FALSE]
  /\ mem' = [user |-> u, password |-> p]

\* clearUserInfo and saveUserInfo of a nil password.
Cleared(logout) ==
  /\ mem' = [user |-> Guest, password |-> Blank]
  /\ disk' = [user |-> Guest, password |-> Blank, logout |-> logout]

\* UserDefaults gets the new password, loadUserInfo, saveUserInfo.  The mutant
\* saves without loading, which puts the old password back.
StoredUnread(p) ==
  disk' = [disk EXCEPT !.password = mem.password] /\ UNCHANGED mem
Stored(p) ==
  /\ disk' = [disk EXCEPT !.password = p]
  /\ mem' = [user |-> disk.user, password |-> p]

-----------------------------------------------------------------------------
(* BaseVC: the HUD and the screens *)

\* showLoadingView: `hud` forgets the one it held.
Show == IF hud.held THEN [hud EXCEPT !.up = @ + 1, !.fault = "doubled"]
        ELSE [hud EXCEPT !.up = @ + 1, !.held = TRUE]

\* hideLoadingView.
Hide == IF hud.held THEN [hud EXCEPT !.up = @ - 1, !.held = FALSE] ELSE hud

Tappable == hud.up = 0

\* A new view controller covers the one that made the requests.
Aside(f) == [i \in Slot |-> IF f[i] = Idle THEN Idle
                            ELSE [f[i] EXCEPT !.here = FALSE]]
Went(scr, f) == screen' = scr /\ hud' = NoHud /\ flight' = Aside(f)

Asking(kind, u, p, phase) ==
  [kind |-> kind, user |-> u, password |-> p, phase |-> phase,
   here |-> TRUE, late |-> FALSE]

\* The first free slot takes r.
Issue(r, f) ==
  \E i \in Slot : /\ f[i] = Idle /\ \A j \in Slot : f[j] = Idle => i <= j
                  /\ flight' = [f EXCEPT ![i] = r]

Navigate(from, to) ==
  /\ screen = from /\ Went(to, flight)
  /\ UNCHANGED <<client, server, ghosts>>

\* loginWithEmail, forgotBtnClicked, backBtnClicked, signUp, gotoLogin need a
\* free screen; the bar button of ForgotVC does not; in the tabs, showLoginAlert
\* sends who is not signed in to the login screen.
Move ==
  \/ Tappable /\ \/ Navigate("login", "email") \/ Navigate("email", "login")
                 \/ Navigate("email", "forgot") \/ Navigate("login", "signup")
                 \/ Navigate("signup", "login")
  \/ Navigate("forgot", "email")
  \/ ~IsValid /\ Navigate("tabs", "login")

-----------------------------------------------------------------------------
(* Launch *)

\* AppDelegate and SceneDelegate load and save, SplashVC.checkBackgrouond asks
\* or goes to the login screen.  A social account sends its password as its
\* social_id.
Launch ==
  /\ screen = "off" /\ mem' = Loaded(disk)
  /\ IF disk.user # Guest /\ ~disk.logout
     THEN /\ screen' = "splash"
          /\ hud' = [NoHud EXCEPT !.up = 1, !.held = TRUE]
          /\ Issue(Asking(IF disk.user \in Socials THEN "social" ELSE "signin",
                          disk.user, disk.password, "sent"), flight)
     ELSE Went("login", flight)
  /\ UNCHANGED <<disk, server, ghosts>>

\* The password in r, that the server has by now, was never heard of here.
Unheard(r) == /\ r # Idle /\ r.kind \in {"change", "reset"} /\ r.phase = "ok"
              /\ r.password = Current(r.user)

\* A password the app stops waiting for on its way to the server.
Left(r) == IF r # Idle /\ r.kind \in {"change", "reset"} /\ r.phase = "sent"
           THEN {r.password} ELSE {}

\* The process ends; no completion runs.
Died ==
  /\ screen' = "off" /\ hud' = NoHud
  /\ mem' = [user |-> Guest, password |-> Blank]
  /\ flight' = [i \in Slot |-> Idle]
  /\ loose' = loose \cup UNION {Left(flight[i]) : i \in Slot}
  /\ excused' = (excused \/ \E i \in Slot : Unheard(flight[i]))

Kill == screen # "off" /\ Died /\ UNCHANGED <<disk, pw, issued, out, strayed>>

-----------------------------------------------------------------------------
(* The user asks *)

\* loginBtnClicked, or textFieldShouldReturn of the keyboard, which lies above
\* the HUD and goes after one Return.  The password is one that a has or had.
Signin(a, n) ==
  /\ screen = "email" /\ (Tappable \/ hud.keys) /\ n \in 1 .. issued[a]
  /\ \E keys \in BOOLEAN : /\ keys => Tappable
                           /\ hud' = [Show EXCEPT !.keys = keys]
  /\ Issue(Asking("signin", a, [of |-> a, n |-> n], "sent"), flight)
  /\ UNCHANGED <<client, screen, server, ghosts>>

\* loginWithFacebook, loginWithGoogle, appleSigninBtnClicked: the network is
\* asked first, with no HUD.
Social(c) ==
  /\ screen = "login" /\ Tappable
  /\ Issue(Asking("social", c, Blank, "asking"), flight)
  /\ UNCHANGED <<client, screen, hud, server, ghosts>>

\* Its answer: ApiManager.socialLogin, or nothing when the user cancels.
ProfileGot(i) ==
  /\ flight[i] # Idle
  /\ flight[i].kind = "social" /\ flight[i].phase = "asking"
  /\ \/ /\ flight' = [flight EXCEPT ![i] = [@ EXCEPT !.phase = "sent"]]
        /\ hud' = IF flight[i].here THEN Show ELSE hud
     \/ flight' = [flight EXCEPT ![i] = Idle] /\ UNCHANGED hud
  /\ UNCHANGED <<client, screen, server, ghosts>>

\* SignUpVC: showLoadingView is called twice.
Signup(a) ==
  /\ screen = "signup" /\ Tappable /\ issued[a] < MaxVersion
  /\ issued' = [issued EXCEPT ![a] = @ + 1]
  /\ hud' = [hud EXCEPT !.up = @ + 2, !.held = TRUE, !.fault = "doubled"]
  /\ Issue(Asking("signup", a, [of |-> a, n |-> issued[a] + 1], "sent"), flight)
  /\ UNCHANGED <<client, screen, pw, loose, ghosts>>

\* loginWithGuest, with the second setLogin waits before the tabs open.
ContinueAsGuest ==
  /\ screen = "login" /\ Tappable /\ hud' = Show /\ Cleared(disk.logout)
  /\ Issue(Asking("guest", Guest, Blank, "ok"), flight)
  /\ UNCHANGED <<screen, server, ghosts>>

\* sendNewPwd, for the account whose PIN was confirmed.
Reset(a) ==
  /\ screen = "forgot" /\ Tappable /\ pw[a] > 0 /\ issued[a] < MaxVersion
  /\ issued' = [issued EXCEPT ![a] = @ + 1] /\ hud' = Show
  /\ Issue(Asking("reset", a, [of |-> a, n |-> issued[a] + 1], "sent"), flight)
  /\ UNCHANGED <<client, screen, pw, loose, ghosts>>

\* updateBtnClicked.  A HUD of the tabs is not modelled: changing tabs hides it
\* (viewDidDisappear), so every button can be reached while a request is out.
Update ==
  /\ screen = "tabs" /\ IsValid
  /\ Issue(Asking("update", Guest, Blank, "asking"), flight)
  /\ UNCHANGED <<client, screen, hud, server, ghosts>>

\* The form is encoded on a background queue: only there is thisuser.user_id
\* read.
Encoded(i) ==
  /\ flight[i] # Idle
  /\ flight[i].kind = "update" /\ flight[i].phase = "asking"
  /\ flight' = [flight EXCEPT ![i] = [@ EXCEPT !.phase = "sent",
                                               !.user = mem.user]]
  /\ UNCHANGED <<client, screen, hud, server, ghosts>>

\* changeBtnClicked: the current password typed is that of thisuser.
ChangePassword(a) ==
  /\ screen = "tabs" /\ mem.user = a /\ issued[a] < MaxVersion
  /\ issued' = [issued EXCEPT ![a] = @ + 1]
  /\ Issue(Asking("change", a, [of |-> a, n |-> issued[a] + 1], "sent"), flight)
  /\ UNCHANGED <<client, screen, hud, pw, loose, ghosts>>

\* RatingVC.setDataSource
Review ==
  /\ screen = "tabs" /\ IsValid
  /\ Issue(Asking("review", mem.user, Blank, "sent"), flight)
  /\ UNCHANGED <<client, screen, hud, server, ghosts>>

\* logoutBtnClicked.  The mutant forgets the LOGOUT key.
LogoutUnmarked == Cleared(disk.logout)
LogoutMarked == Cleared(TRUE)
Logout ==
  /\ screen = "tabs" /\ LogoutMarked
  /\ Went("login", [i \in Slot |-> IF flight[i] = Idle THEN Idle
                                   ELSE [flight[i] EXCEPT !.late = TRUE]])
  /\ out' = TRUE /\ strayed' = FALSE
  /\ UNCHANGED <<server, excused>>

-----------------------------------------------------------------------------
(* The server *)

Replied(i, phase) == flight' = [flight EXCEPT ![i] = [@ EXCEPT !.phase = phase]]

\* What the server makes of a request: the password it checks or stores, and
\* the answer.  A success may come without user_info or with an empty one.
Serve(i) ==
  /\ flight[i] # Idle /\ flight[i].phase = "sent"
  /\ LET r == flight[i]
         a == r.user
         granted == \/ r.kind = "signin" /\ a \in Emails /\ r.password = Current(a)
                    \/ r.kind = "signup" /\ pw[a] = 0
                    \/ r.kind \in {"social", "change", "reset", "review"}
                    \/ r.kind = "update" /\ a \in Accounts
     IN \/ /\ granted
           /\ \/ Replied(i, "ok")
              \/ /\ r.kind \in {"signin", "social", "signup", "update"}
                 /\ Replied(i, "noinfo") \/ Replied(i, "empty")
           /\ pw' = IF r.kind \in {"signup", "change", "reset"}
                    THEN [pw EXCEPT ![a] = r.password.n] ELSE pw
        \/ ~granted /\ Replied(i, "refused") /\ UNCHANGED pw
  /\ UNCHANGED <<client, screen, hud, loose, issued, ghosts>>

\* A password arrives after the app gave up waiting.
ServeLate(p) ==
  /\ p \in loose /\ loose' = loose \ {p}
  /\ pw' = [pw EXCEPT ![p.of] = p.n] /\ excused' = TRUE
  /\ UNCHANGED <<client, screen, hud, flight, issued, out, strayed>>

\* No answer comes through, before or after the server acted: .failure.
Fail(i) ==
  /\ flight[i] # Idle /\ flight[i].kind # "guest"
  /\ flight[i].phase \in {"sent", "ok", "noinfo", "empty"}
  /\ Replied(i, "refused")
  /\ loose' = loose \cup Left(flight[i])
  /\ excused' = (excused \/ Unheard(flight[i]))
  /\ UNCHANGED <<client, screen, hud, pw, issued, out, strayed>>

-----------------------------------------------------------------------------
(* The completions *)

Done(i) == [flight EXCEPT ![i] = Idle]

Answered(i, kinds, phase) ==
  flight[i] # Idle /\ flight[i].kind \in kinds /\ flight[i].phase = phase

\* What success does to the screen: hideLoadingView, and the tabs for a sign-in.
\* A screen that was left presents nothing.
Unblocked(i) ==
  /\ hud' = IF flight[i].here THEN Hide ELSE hud
  /\ flight' = Done(i) /\ UNCHANGED screen
TabsOpened(i) ==
  IF flight[i].here THEN Went("tabs", Done(i))
  ELSE flight' = Done(i) /\ UNCHANGED <<screen, hud>>

\* The answer of a sign-in belongs to a session that was logged out.
SignedIn(i) ==
  /\ out' = (out /\ flight[i].late) /\ strayed' = flight[i].late
  /\ TabsOpened(i)

\* signin and signup
SigninAnswered(i) ==
  /\ Answered(i, {"signin", "signup"}, "ok")
  /\ Opened(flight[i].user, flight[i].password)
  /\ SignedIn(i)
  /\ excused' = (flight[i].password # Current(flight[i].user))
  /\ UNCHANGED server

\* socialLogin: the password stays what UserDefaults holds.
SocialAnswered(i) ==
  /\ Answered(i, {"social"}, "ok")
  /\ Opened(flight[i].user, disk.password)
  /\ SignedIn(i)
  /\ UNCHANGED <<server, excused>>

\* updateProfile
UpdateAnswered(i) ==
  /\ Answered(i, {"update"}, "ok")
  /\ Opened(flight[i].user, disk.password)
  /\ strayed' = (strayed \/ flight[i].user # mem.user)
  /\ Unblocked(i)
  /\ UNCHANGED <<server, out, excused>>

\* changeBtnClicked and sendNewPwd, success
PasswordAnswered(i) ==
  /\ Answered(i, {"change", "reset"}, "ok")
  /\ Stored(flight[i].password)
  /\ strayed' = (strayed \/ flight[i].user # mem.user)
  /\ excused' = IF flight[i].user = mem.user
                THEN flight[i].password # Current(flight[i].user) ELSE excused
  /\ Unblocked(i)
  /\ UNCHANGED <<server, out>>

\* RatingVC: loadUserInfo, saveUserInfo.
ReviewAnswered(i) ==
  /\ Answered(i, {"review"}, "ok") /\ mem' = Loaded(disk) /\ Unblocked(i)
  /\ UNCHANGED <<disk, server, ghosts>>

\* setLogin, a second later
GuestEnters(i) ==
  /\ Answered(i, {"guest"}, "ok") /\ TabsOpened(i)
  /\ UNCHANGED <<client, server, ghosts>>

\* completion(false, ...): SplashVC goes to the login screen, the others hide
\* their HUD.  Mutants: the HUD stays; SplashVC stays.
RefusedQuietly(i) == flight' = Done(i) /\ UNCHANGED <<screen, hud>>
RefusedHere(i) == Unblocked(i)
RefusedStaying(i) ==
  /\ flight[i] # Idle /\ flight[i].phase = "refused" /\ RefusedHere(i)
  /\ UNCHANGED <<client, server, ghosts>>
Refused(i) ==
  /\ flight[i] # Idle /\ flight[i].phase = "refused"
  /\ IF flight[i].here /\ screen = "splash" THEN Went("login", Done(i))
     ELSE RefusedHere(i)
  /\ UNCHANGED <<client, server, ghosts>>

\* Success without user_info: completion is never called.
Silent(i) ==
  /\ flight[i] # Idle /\ flight[i].phase = "noinfo" /\ flight' = Done(i)
  /\ hud' = IF flight[i].here THEN [hud EXCEPT !.fault = "silent"] ELSE hud
  /\ UNCHANGED <<client, screen, server, ghosts>>

\* Success with an empty user_info.  socialLogin skips the new model and opens
\* the tabs; the others trap on `first!`, clearUserInfo done.
SocialEmpty(i) ==
  /\ Answered(i, {"social"}, "empty")
  /\ mem' = [user |-> Guest, password |-> Blank]
  /\ disk' = [disk EXCEPT !.user = Guest, !.logout = FALSE]
  /\ SignedIn(i) /\ UNCHANGED <<server, excused>>

FirstTraps(i) ==
  /\ Answered(i, {"signin", "signup", "update"}, "empty")
  /\ disk' = [user |-> Guest, logout |-> FALSE,
              password |-> IF flight[i].kind = "update" THEN disk.password
                           ELSE flight[i].password]
  /\ Died /\ out' = FALSE
  /\ UNCHANGED <<pw, issued, strayed>>

-----------------------------------------------------------------------------
Ask == \/ \E a \in Emails : \/ \E n \in 1 .. MaxVersion : Signin(a, n)
                            \/ Signup(a) \/ Reset(a) \/ ChangePassword(a)
       \/ \E c \in Socials : Social(c)
       \/ ContinueAsGuest \/ Update \/ Review \/ Logout

Complete(i) ==
  \/ SigninAnswered(i) \/ SocialAnswered(i) \/ UpdateAnswered(i)
  \/ PasswordAnswered(i) \/ ReviewAnswered(i) \/ GuestEnters(i)
  \/ Refused(i) \/ Silent(i) \/ SocialEmpty(i) \/ FirstTraps(i)

Handle(i) == ProfileGot(i) \/ Encoded(i) \/ Serve(i) \/ Fail(i) \/ Complete(i)

Next == \/ Launch \/ Kill \/ Move \/ Ask
        \/ \E i \in Slot : Handle(i)
        \/ \E p \in loose : ServeLate(p)

Spec == Init /\ [][Next]_vars

(* Fairness: every request is answered or times out, and its completion runs. *)
FairSpec == Spec /\ \A i \in Slot : WF_vars(Handle(i))

-----------------------------------------------------------------------------
(* Safety *)

\* While the app runs, a restart would find the session it shows: every handler
\* that replaces thisuser or a key of UserDefaults brings the other along.
SavedIsShown ==
  screen # "off" =>
    /\ disk.user = mem.user
    /\ mem.user \in Accounts => disk.password = mem.password

\* After Logout, whatever the user does short of signing in and however often
\* the app restarts, SplashVC finds both of its reasons not to sign in by
\* itself, unless an answer of the session logged out came after.
LogoutStays == out /\ ~strayed => disk.logout /\ disk.user = Guest

\* The password stored beside an email account is one of that account: the
\* answers of several requests, in whatever order, never pair an account with
\* the password of another, unless one was an answer to another session.
PasswordOwned ==
  disk.user \in Emails /\ ~strayed => disk.password.of = disk.user

\* The next launch of an email account sends the password the server knows: it
\* is stale only while the answer to a change is outstanding, or when such an
\* answer was lost or came after that of a later change.
PasswordCurrent ==
  disk.user \in Emails /\ ~strayed /\ ~excused =>
    \/ disk.password = Current(disk.user)
    \/ \E i \in Slot : Unheard(flight[i]) /\ flight[i].user = disk.user

\* A HUD covers a login screen only while a request of that screen is out, or
\* when a second HUD made the app forget the first, or when the completion was
\* never called.
HudExplained ==
  hud.up > 0 => \/ \E i \in Slot : flight[i] # Idle /\ flight[i].here
                \/ hud.fault # "none"

\* ProfileVC.swift:266: "Social login doesn't need password."
SocialNeedsNoPassword ==
  \A i \in Slot : flight[i] # Idle /\ flight[i].kind = "social"
                  => flight[i].password = Blank

(* Liveness *)

\* A launch ends: at the tabs or at the login screen, unless the completion was
\* never called.
LaunchEnds == screen = "splash" ~> screen # "splash" \/ hud.fault = "silent"
=============================================================================
