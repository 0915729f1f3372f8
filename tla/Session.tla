------------------------------- MODULE Session -------------------------------
(***************************************************************************)
(* Accounts and sessions: LoginVC, SignUpVC and ProfileVC over Firebase    *)
(* Auth and the write side of Firestore.  A tap on Login or Create sends a *)
(* request; nothing disables the button or cancels the request when the    *)
(* screen is left.  Auth's work queue takes the answer, changes its        *)
(* current user and hands two blocks to the main queue: the notification   *)
(* that tells Firestore, and the completion of the request, which writes   *)
(* the profile of a new account and puts up Home if its own screen is      *)
(* still the one in the window.  The user may do anything between blocks,  *)
(* Auth may drop the user for an invalid token, and the process may be     *)
(* killed at any time.                                                     *)
(*                                                                         *)
(* A Home is named by the request that put it up, and so are the documents *)
(* written from it and for it: the profile of the account a request made,  *)
(* and the one category document its CategoryVC has.                       *)
(***************************************************************************)
EXTENDS Naturals, Sequences

CONSTANTS Requests,  \* taps on Login or Create
          NoRequest, \* no request
          Names,     \* names of categories
          Users, NoUser, Absent,
          MaxWrites  \* bound: no category is written after this many writes

VARIABLES
  server, mutations, answers, fsUser, \* see FirestoreWrites
  wrote, last, refused,               \* see FirestoreClient
  writes,      \* how many documents were written, for the bound
  accounts,    \* the accounts that exist at the backend of Auth
  currentUser, \* Auth.auth().currentUser, kept in the keychain
  mainQueue,   \* the blocks Auth has handed to the main queue
  stage,       \* for each request how far it is
  kind,        \* for each request "login" or "signup"
  email,       \* for each request the account it names
  screen,      \* what is in the window: "auth", "login", "signup" or "home"
  live,        \* the requests of the LoginVC or SignUpVC in the window
  home,        \* the request whose completion put up this Home
  profile,     \* the account ProfileVC listens for, NoUser: not loaded yet
  trapped,     \* ProfileVC has unwrapped a nil user: the process is dead
  \* history variables: no action reads them
  signedInBy,  \* the request that made currentUser the current user
  abandoned,   \* the requests whose screen was left before their completion
  forced,      \* Auth has dropped the user since the last sign-in
  makers,      \* the sign-ups that made an account
  cut          \* the sign-ups whose chain broke after the account was made:
               \* an error, a kill, or a refused profile

firestoreVars == <<server, mutations, answers, fsUser, wrote, last, refused, writes>>
requestVars   == <<stage, kind, email>>
screenVars    == <<screen, live, home, profile, trapped>>
historyVars   == <<signedInBy, abandoned, forced, makers, cut>>
vars == <<firestoreVars, accounts, currentUser, mainQueue, requestVars,
          screenVars, historyVars>>

-----------------------------------------------------------------------------

Profile(r)  == <<"profile", r>>
Category(r) == <<"category", r>>

\* Of a profile only the uid field matters.
Firestore == INSTANCE FirestoreClient WITH
               Ids <- {"profile", "category"} \X Requests,
               Contents <- Users \cup Names

ASSUME SessionAssumption ==
  /\ NoRequest \notin Requests
  /\ NoUser \notin Users
  /\ Absent \notin Users \cup Names \cup {NoUser}

Accounts == Users \cup {NoUser}

Waiting == {"sent", "made"}
Stages  == {"idle", "answered", "done", "lost"} \cup Waiting

Block == [kind : {"changed"}, user : Accounts] \cup
         [kind : {"done"}, request : Requests, user : Accounts]

Changed(u)       == [kind |-> "changed", user |-> u]
Completion(r, u) == [kind |-> "done", request |-> r, user |-> u]

TypeOK ==
  /\ Firestore!WritesTypeOK
  /\ accounts \subseteq Users
  /\ currentUser \in Accounts
  /\ mainQueue \in Seq(Block)
  /\ stage \in [Requests -> Stages]
  /\ kind \in [Requests -> {"login", "signup"}]
  /\ email \in [Requests -> Accounts]
  /\ screen \in {"auth", "login", "signup", "home"}
  /\ live \subseteq Requests
  /\ home \in Requests \cup {NoRequest}
  /\ profile \in Accounts
  /\ trapped \in BOOLEAN
  /\ signedInBy \in Requests \cup {NoRequest}
  /\ abandoned \subseteq Requests
  /\ forced \in BOOLEAN
  /\ makers \subseteq Requests /\ cut \subseteq Requests

\* At launch Firestore asks Auth for the user while Auth's work queue reads it
\* from the keychain: Firestore gets the user or none, and the notification of
\* the user follows on the main queue.
Launch(u) ==
  IF u = NoUser THEN <<>> ELSE <<Changed(u)>>

Init ==
  /\ accounts \in SUBSET Users
  /\ currentUser \in accounts \cup {NoUser}
  /\ \E u \in {NoUser, currentUser} : Firestore!ClientInit(u)
  /\ writes = 0
  /\ mainQueue = Launch(currentUser)
  /\ stage = [r \in Requests |-> "idle"]
  /\ kind = [r \in Requests |-> "login"]
  /\ email = [r \in Requests |-> NoUser]
  /\ screen = "auth" /\ live = {} /\ home = NoRequest
  /\ profile = NoUser /\ trapped = FALSE
  /\ signedInBy = NoRequest /\ abandoned = {} /\ forced = FALSE
  /\ makers = {} /\ cut = {}

-----------------------------------------------------------------------------
(* The user.                                                                *)

\* A segue from AuthorizationVC: a new LoginVC or SignUpVC.
Open(s) ==
  /\ screen = "auth"
  /\ screen' = s
  /\ UNCHANGED <<firestoreVars, accounts, currentUser, mainQueue, requestVars,
                 live, home, profile, trapped, historyVars>>

Unanswered(R) == {r \in R : stage[r] \in Waiting \cup {"answered"}}

\* Back to AuthorizationVC: the screen is gone, its requests are not.
Back ==
  /\ screen \in {"login", "signup"}
  /\ screen' = "auth"
  /\ live' = {}
  /\ abandoned' = abandoned \cup Unanswered(live)
  /\ UNCHANGED <<firestoreVars, accounts, currentUser, mainQueue, requestVars,
                 home, profile, trapped, signedInBy, forced, makers, cut>>

\* loginTapped, and createAccountTapped with fields that pass validateFields.
Tap(r, u) ==
  /\ screen \in {"login", "signup"}
  /\ stage[r] = "idle"
  /\ stage' = [stage EXCEPT ![r] = "sent"]
  /\ kind' = [kind EXCEPT ![r] = screen]
  /\ email' = [email EXCEPT ![r] = u]
  /\ live' = live \cup {r}
  /\ UNCHANGED <<firestoreVars, accounts, currentUser, mainQueue, screen, home,
                 profile, trapped, historyVars>>

\* CategoryVC: Add and swipe write the one document of this Home.
WriteCategory(value) ==
  /\ screen = "home"
  /\ writes < MaxWrites
  /\ Firestore!Write(Category(home), value)
  /\ writes' = writes + 1
  /\ UNCHANGED <<accounts, currentUser, mainQueue, requestVars, screenVars, historyVars>>

\* ProfileVC.viewDidLoad unwraps the current user.
OpenProfile ==
  /\ screen = "home" /\ profile = NoUser
  /\ IF currentUser = NoUser THEN trapped' = TRUE /\ UNCHANGED profile
                             ELSE profile' = currentUser /\ UNCHANGED trapped
  /\ UNCHANGED <<firestoreVars, accounts, currentUser, mainQueue, requestVars,
                 screen, live, home, historyVars>>

\* Mutant of SignOut: no notification is posted.
SignOutSilently ==
  /\ currentUser' = NoUser
  /\ UNCHANGED mainQueue

\* Auth has nobody signed in, and says so if it had.
SignOut ==
  /\ currentUser' = NoUser
  /\ mainQueue' = IF currentUser = NoUser THEN mainQueue
                                          ELSE Append(mainQueue, Changed(NoUser))

\* Mutant of Logout: only the screen changes.
LogoutScreenOnly ==
  /\ screen = "home" /\ profile # NoUser
  /\ screen' = "auth" /\ home' = NoRequest /\ profile' = NoUser
  /\ UNCHANGED <<firestoreVars, accounts, currentUser, mainQueue, requestVars,
                 live, trapped, historyVars>>

\* logoutButtonPressed, on the Profile tab.
Logout ==
  /\ screen = "home" /\ profile # NoUser
  /\ SignOut
  /\ screen' = "auth" /\ home' = NoRequest /\ profile' = NoUser
  /\ UNCHANGED <<firestoreVars, accounts, requestVars, live, trapped, historyVars>>

-----------------------------------------------------------------------------
(* Auth's work queue.                                                       *)

\* The backend of Auth makes the account a sign-up names, once.
AccountMade(r) ==
  /\ stage[r] = "sent" /\ kind[r] = "signup"
  /\ email[r] \notin accounts
  /\ accounts' = accounts \cup {email[r]}
  /\ stage' = [stage EXCEPT ![r] = "made"]
  /\ makers' = makers \cup {r}
  /\ UNCHANGED <<firestoreVars, currentUser, mainQueue, kind, email, screenVars,
                 signedInBy, abandoned, forced, cut>>

Granted(r) == stage[r] = "made" \/ (stage[r] = "sent" /\ kind[r] = "login"
                                                  /\ email[r] \in accounts)

\* Mutant of SignInDone: Firestore is told after the completion has run.
SignInDoneFirst(r) ==
  /\ Granted(r)
  /\ currentUser' = email[r]
  /\ mainQueue' = mainQueue \o <<Completion(r, email[r]), Changed(email[r])>>
  /\ stage' = [stage EXCEPT ![r] = "answered"]
  /\ signedInBy' = r /\ forced' = FALSE
  /\ UNCHANGED <<firestoreVars, accounts, kind, email, screenVars, abandoned, makers, cut>>

\* Mutant of SignInDone: the completion goes with the screen that gave it.
SignInDoneUnheard(r) ==
  /\ Granted(r)
  /\ currentUser' = email[r]
  /\ mainQueue' = IF r \in live THEN mainQueue \o <<Changed(email[r]), Completion(r, email[r])>>
                                ELSE Append(mainQueue, Changed(email[r]))
  /\ stage' = [stage EXCEPT ![r] = "answered"]
  /\ signedInBy' = r /\ forced' = FALSE
  /\ UNCHANGED <<firestoreVars, accounts, kind, email, screenVars, abandoned, makers, cut>>

\* The user of an answer becomes the current user.
SignInDone(r) ==
  /\ Granted(r)
  /\ currentUser' = email[r]
  /\ mainQueue' = mainQueue \o <<Changed(email[r]), Completion(r, email[r])>>
  /\ stage' = [stage EXCEPT ![r] = "answered"]
  /\ signedInBy' = r /\ forced' = FALSE
  /\ UNCHANGED <<firestoreVars, accounts, kind, email, screenVars, abandoned, makers, cut>>

\* A wrong password, an email in use or unknown, no network, a full keychain:
\* an error, also when the account has been made.
RequestFails(r) ==
  /\ stage[r] \in Waiting
  /\ mainQueue' = Append(mainQueue, Completion(r, NoUser))
  /\ stage' = [stage EXCEPT ![r] = "answered"]
  /\ cut' = IF stage[r] = "made" THEN cut \cup {r} ELSE cut
  /\ UNCHANGED <<firestoreVars, accounts, currentUser, kind, email, screenVars,
                 signedInBy, abandoned, forced, makers>>

\* The token of the current user turns out to be invalid.
SignOutByForce ==
  /\ currentUser # NoUser
  /\ SignOut
  /\ forced' = TRUE
  /\ UNCHANGED <<firestoreVars, accounts, requestVars, screenVars, signedInBy,
                 abandoned, makers, cut>>

-----------------------------------------------------------------------------
(* The main queue.                                                          *)

\* AuthStateDidChange: Firestore changes its queue and restarts its stream.
AuthStateDidChange ==
  /\ mainQueue # <<>> /\ Head(mainQueue).kind = "changed"
  /\ Firestore!CredentialSet(Head(mainQueue).user)
  /\ mainQueue' = Tail(mainQueue)
  /\ UNCHANGED <<accounts, currentUser, requestVars, screenVars, historyVars, writes>>

\* The completion of request r with user u, or NoUser: an error.
RunCompletion(r, u) ==
  /\ mainQueue # <<>> /\ Head(mainQueue) = Completion(r, u)
  /\ mainQueue' = Tail(mainQueue)
  /\ stage' = [stage EXCEPT ![r] = "done"]
  /\ UNCHANGED <<accounts, currentUser, kind, email, trapped, signedInBy, forced, makers, cut>>

\* addDocument for a new account; nothing for a login.
StoreProfile(r) ==
  IF kind[r] = "signup" THEN Firestore!Write(Profile(r), email[r]) /\ writes' = writes + 1
                        ELSE UNCHANGED firestoreVars

\* A new Home takes the window from the screen request r was made on.
TransitionToHome(r) ==
  /\ screen' = "home" /\ home' = r /\ profile' = NoUser
  /\ live' = {}
  /\ abandoned' = abandoned \cup (Unanswered(live) \ {r})

\* Mutant of ShowError: Home comes up all the same.
ShowErrorAndHome(r) ==
  /\ RunCompletion(r, NoUser)
  /\ TransitionToHome(r)
  /\ UNCHANGED firestoreVars

ShowError(r) ==
  /\ RunCompletion(r, NoUser)
  /\ UNCHANGED <<firestoreVars, screen, home, profile, live, abandoned>>

\* The screen of the request has a window.
ShowHome(r) ==
  /\ RunCompletion(r, email[r]) /\ email[r] # NoUser
  /\ StoreProfile(r)
  /\ r \in live
  /\ TransitionToHome(r)

\* Mutant of ShowNothing: a screen that was left writes no profile.
ShowNothingAtAll(r) ==
  /\ RunCompletion(r, email[r]) /\ email[r] # NoUser
  /\ r \notin live
  /\ UNCHANGED <<firestoreVars, screen, home, profile, live, abandoned>>

\* The screen of the request was left: it has no window to put Home in.
ShowNothing(r) ==
  /\ RunCompletion(r, email[r]) /\ email[r] # NoUser
  /\ StoreProfile(r)
  /\ r \notin live
  /\ UNCHANGED <<screen, home, profile, live, abandoned>>

-----------------------------------------------------------------------------
(* Firestore, its backend, and the operating system.                        *)

sessionVars == <<accounts, currentUser, mainQueue, requestVars, screenVars, writes>>

FirestoreAnswers    == Firestore!Answer /\ UNCHANGED <<sessionVars, historyVars>>
FirestoreDisconnect == Firestore!Disconnect /\ UNCHANGED <<sessionVars, historyVars>>
WriteAcknowledged   == Firestore!Acknowledged /\ UNCHANGED <<sessionVars, historyVars>>

WriteRejected ==
  /\ Firestore!Rejected
  /\ cut' = cut \cup {r \in Requests : Profile(r) = Head(mutations[fsUser]).id}
  /\ UNCHANGED <<sessionVars, signedInBy, abandoned, forced, makers>>

\* A sign-up that was under way with its account made, its profile not written.
HalfMade(r) == kind[r] = "signup" /\
  (stage[r] = "made" \/ \E i \in DOMAIN mainQueue : mainQueue[i] = Completion(r, email[r]))

\* The process ends, by a kill or by the trap, and is started again.
Relaunch ==
  /\ \E u \in {NoUser, currentUser} : Firestore!Restart(u)
  /\ mainQueue' = Launch(currentUser)
  /\ stage' = [r \in Requests |-> IF r \in Unanswered(Requests) THEN "lost" ELSE stage[r]]
  /\ screen' = "auth" /\ live' = {} /\ home' = NoRequest /\ profile' = NoUser
  /\ trapped' = FALSE
  /\ signedInBy' = NoRequest /\ forced' = FALSE
  /\ cut' = cut \cup {r \in Requests : HalfMade(r)}
  /\ UNCHANGED <<accounts, currentUser, kind, email, abandoned, makers, writes>>

Next ==
  \/ Relaunch
  \/ /\ ~trapped
     /\ \/ \E s \in {"login", "signup"} : Open(s)
        \/ Back \/ OpenProfile \/ Logout
        \/ \E r \in Requests, u \in Users : Tap(r, u)
        \/ \E value \in Names \cup {Absent} : WriteCategory(value)
        \/ \E r \in Requests :
             \/ AccountMade(r) \/ SignInDone(r) \/ RequestFails(r)
             \/ ShowError(r) \/ ShowHome(r) \/ ShowNothing(r)
        \/ SignOutByForce \/ AuthStateDidChange
        \/ FirestoreAnswers \/ FirestoreDisconnect
        \/ WriteAcknowledged \/ WriteRejected

Spec == Init /\ [][Next]_vars

\* GCD runs what is queued; the backends answer when the network is up, and it
\* is up again and again.  No fairness for the user or the operating system.
Fairness ==
  /\ \A r \in Requests :
       WF_vars(~trapped /\ (AccountMade(r) \/ SignInDone(r) \/ RequestFails(r)))
  /\ WF_vars(~trapped /\ (AuthStateDidChange \/
       \E r \in Requests : ShowError(r) \/ ShowHome(r) \/ ShowNothing(r)))
  /\ WF_vars(~trapped /\ FirestoreAnswers)
  /\ SF_vars(~trapped /\ (WriteAcknowledged \/ WriteRejected))

FairSpec == Spec /\ Fairness

-----------------------------------------------------------------------------
(* Properties.                                                              *)

Queued(a) == {mutations[a][i] : i \in DOMAIN mutations[a]}

\* A profile waits in the queue of the account it describes and is sent with
\* that account's token, whichever other answers, sign-outs and launches come
\* in between: the notification of a sign-in reaches Firestore ahead of the
\* completion that writes, and no other account's gets between them.
ProfileInOwnQueue ==
  \A a \in Accounts : \A m \in Queued(a) : m.id[1] = "profile" => m.value = a

\* Firestore works for Auth's current user, or the notification that will make
\* it do so is the last one on the main queue: no change of the session gets
\* lost or overtaken, not at launch either.
FollowsAuth ==
  LET news == {i \in DOMAIN mainQueue : mainQueue[i].kind = "changed"} IN
  \/ news = {} /\ currentUser = fsUser
  \/ \E i \in news : mainQueue[i].user = currentUser /\ \A j \in news : j =< i

\* What is in the window fits the session.  While no Home is up, somebody is
\* signed in only if the user is one of an earlier run, or was signed in by a
\* request whose completion is still queued or whose screen had been left.  A
\* Home has a user, unless Auth has dropped the user, and shows that user's
\* profile, unless a request whose screen had been left has signed in another
\* (the window test of the completions, and a logout that changes both).
WindowFitsSession ==
  /\ (screen # "home" /\ currentUser # NoUser) =>
       \/ signedInBy \in {NoRequest} \cup abandoned
       \/ \E i \in DOMAIN mainQueue : mainQueue[i] = Completion(signedInBy, currentUser)
  /\ screen = "home" =>
       \/ forced
       \/ currentUser # NoUser
            /\ (profile \in {NoUser, currentUser} \/ signedInBy \in abandoned)

\* ProfileVC unwraps a nil user only when Auth has dropped the user while Home
\* was up: no order of taps, answers and logouts gets there.
TrapsOnlyIfForced == trapped => forced

\* The account a sign-up made has its profile at the backend or on the way
\* there, unless the chain broke: leaving the screen, a logout, another answer,
\* a kill after the write or a broken stream does not lose it.
AccountHasProfile ==
  \A r \in makers \ cut :
    \/ stage[r] = "made"
    \/ \E i \in DOMAIN mainQueue : mainQueue[i] = Completion(r, email[r])
    \/ server[Profile(r)] = email[r]
    \/ \E m \in Queued(email[r]) : m.id = Profile(r)

\* A request that was answered has its completion on the main queue, once, and
\* the completion is one the app can run; a request that was not, or whose
\* completion has run, has none: no sign-out, other answer, screen that is left
\* or trap drops, repeats or changes it, and none outlives its process.
AnsweredOnce ==
  \A r \in Requests :
    LET blocks == {i \in DOMAIN mainQueue :
                     mainQueue[i].kind = "done" /\ mainQueue[i].request = r}
    IN IF stage[r] = "answered"
       THEN \E i \in DOMAIN mainQueue :
              /\ blocks = {i}
              /\ mainQueue[i] \in {Completion(r, email[r]), Completion(r, NoUser)}
       ELSE blocks = {}

\* See FirestoreClient: with the accounts changing as they do here, the two Adds
\* a CategoryVC may make are one document that ends up with the last of them.
LastWriteWins == Firestore!LastWriteWins

\* A tap is answered, and an account it made gets its profile to the backend:
\* the completion runs and the write goes out, unless the process ends, the chain
\* breaks or the account is signed out with the profile still queued.
TapSettles ==
  \A r \in Requests : stage[r] = "sent" ~>
    \/ stage[r] = "lost" \/ trapped \/ r \in cut
    \/ /\ stage[r] = "done"
       /\ r \in makers => server[Profile(r)] = email[r] \/ fsUser # email[r]

=============================================================================
