---------------------------- MODULE SessionProofs ----------------------------
(***************************************************************************)
(* The safety properties of Session for every number of requests, accounts *)
(* and categories, and that the application uses Firestore's write queues  *)
(* as FirestoreClient says a client does.                                  *)
(***************************************************************************)
EXTENDS Session, TLAPS

\* What is proved of the write queues on their own.
Queues == INSTANCE FirestoreClientProofs WITH
            Ids <- {"profile", "category"} \X Requests,
            Contents <- Users \cup Names

-----------------------------------------------------------------------------
(* The main queue, place by place.                                          *)

\* A block goes to the end of the main queue.
LEMMA QueueAppend ==
  ASSUME NEW S, NEW s \in Seq(S), NEW x \in S
  PROVE  /\ Append(s, x) \in Seq(S)
         /\ DOMAIN s = 1..Len(s) /\ Len(s) \in Nat
         /\ DOMAIN Append(s, x) = DOMAIN s \cup {Len(s) + 1}
         /\ \A i \in DOMAIN s : Append(s, x)[i] = s[i]
         /\ Append(s, x)[Len(s) + 1] = x
  OBVIOUS

\* The two blocks of a sign-in go to the end, one behind the other.
LEMMA QueueTwo ==
  ASSUME NEW S, NEW s \in Seq(S), NEW x \in S, NEW y \in S
  PROVE  /\ s \o <<x, y>> \in Seq(S)
         /\ DOMAIN s = 1..Len(s) /\ Len(s) \in Nat
         /\ DOMAIN (s \o <<x, y>>) = DOMAIN s \cup {Len(s) + 1, Len(s) + 2}
         /\ \A i \in DOMAIN s : (s \o <<x, y>>)[i] = s[i]
         /\ (s \o <<x, y>>)[Len(s) + 1] = x /\ (s \o <<x, y>>)[Len(s) + 2] = y
  OBVIOUS

\* The oldest block leaves the main queue.
LEMMA QueueTail ==
  ASSUME NEW S, NEW s \in Seq(S), s # <<>>
  PROVE  /\ Tail(s) \in Seq(S) /\ Head(s) \in S /\ Head(s) = s[1] /\ 1 \in DOMAIN s
         /\ DOMAIN s = 1..Len(s) /\ Len(s) \in Nat \ {0}
         /\ DOMAIN Tail(s) = 1..(Len(s) - 1)
         /\ \A i \in DOMAIN Tail(s) : i + 1 \in DOMAIN s /\ Tail(s)[i] = s[i + 1]
         /\ \A j \in DOMAIN s : j > 1 => (j - 1 \in DOMAIN Tail(s) /\ Tail(s)[j - 1] = s[j])
  OBVIOUS

\* Blocks on the main queue are well formed.
LEMMA BlockFacts ==
  /\ \A u \in Accounts : Changed(u) \in Block /\ Changed(u).kind = "changed" /\ Changed(u).user = u
  /\ \A r \in Requests, u \in Accounts :
       /\ Completion(r, u) \in Block
       /\ Completion(r, u).kind = "done"
       /\ Completion(r, u).request = r /\ Completion(r, u).user = u
  /\ \A r \in Requests : \A u : Completion(r, u) \in Block => u \in Accounts
  /\ \A b \in Block : /\ b.kind = "changed" => b.user \in Accounts /\ b = Changed(b.user)
                      /\ b.kind # "changed" => /\ b.kind = "done"
                                               /\ b.request \in Requests /\ b.user \in Accounts
                                               /\ b = Completion(b.request, b.user)
  BY DEF Changed, Completion, Block

\* What a launch puts on the main queue.
LEMMA LaunchQueue ==
  ASSUME NEW u \in Accounts
  PROVE  /\ Launch(u) \in Seq(Block)
         /\ u = NoUser => Launch(u) = <<>>
         /\ u # NoUser => /\ DOMAIN Launch(u) = {1}
                          /\ Launch(u)[1] = Changed(u)
<1>1. Changed(u) \in Block
  BY DEF Changed, Block
<1> QED
  BY <1>1 DEF Launch

-----------------------------------------------------------------------------
(* Types, Firestore's apart.                                                *)

\* A request that was made names an account.
RequestsNameUsers == \A r \in Requests : stage[r] # "idle" => email[r] \in Users

\* A Home is the Home of a request.
HomeHasRequest == screen = "home" => home \in Requests

\* A completion waits only for a request that has been answered.
CompletionsAnswered ==
  \A i \in DOMAIN mainQueue :
    mainQueue[i].kind = "done" => stage[mainQueue[i].request] \in {"answered", "done"}

SessionTypes ==
  /\ accounts \subseteq Users
  /\ currentUser \in Accounts
  /\ mainQueue \in Seq(Block)
  /\ stage \in [Requests -> Stages]
  /\ kind \in [Requests -> {"login", "signup"}]
  /\ email \in [Requests -> Accounts]
  /\ screen \in {"auth", "login", "signup", "home"}
  /\ live \subseteq Requests
  /\ home \in Requests \cup {NoRequest}
  /\ profile \in Accounts
  /\ trapped \in BOOLEAN
  /\ signedInBy \in Requests \cup {NoRequest}
  /\ abandoned \subseteq Requests
  /\ forced \in BOOLEAN
  /\ makers \subseteq Requests /\ cut \subseteq Requests
  /\ RequestsNameUsers
  /\ HomeHasRequest
  /\ CompletionsAnswered

\* The types hold at the first launch.
LEMMA SessionTypesInit == Init => SessionTypes
<1> SUFFICES ASSUME Init PROVE SessionTypes
  OBVIOUS
<1>1. currentUser \in Accounts
  BY DEF Init, Accounts
<1>2. mainQueue \in Seq(Block)
  BY <1>1, LaunchQueue DEF Init
<1>3. \A i \in DOMAIN mainQueue : mainQueue[i].kind = "changed"
  BY <1>1, LaunchQueue, BlockFacts DEF Init
<1>4. CompletionsAnswered
  BY <1>3 DEF CompletionsAnswered
<1> QED
  BY <1>1, <1>2, <1>4 DEF Init, SessionTypes, Accounts, Stages, RequestsNameUsers, HomeHasRequest

\* A completion takes its block off the queue and closes its request, which
\* had been answered.
LEMMA CompletionTypes ==
  ASSUME SessionTypes, NEW r \in Requests, NEW u, RunCompletion(r, u)
  PROVE  /\ mainQueue' \in Seq(Block)
         /\ stage' \in [Requests -> Stages]
         /\ u \in Accounts /\ email[r] \in Users
         /\ stage[r] \in {"answered", "done"}
         /\ RequestsNameUsers' /\ CompletionsAnswered'
         /\ UNCHANGED <<accounts, currentUser, kind, email, trapped, signedInBy, forced, makers, cut>>
<1>1. mainQueue \in Seq(Block) /\ mainQueue # <<>> /\ stage \in [Requests -> Stages]
  BY DEF SessionTypes, RunCompletion
<1>2. /\ Tail(mainQueue) \in Seq(Block)
      /\ Head(mainQueue) \in Block /\ Head(mainQueue) = mainQueue[1] /\ 1 \in DOMAIN mainQueue
      /\ \A i \in DOMAIN Tail(mainQueue) :
           i + 1 \in DOMAIN mainQueue /\ Tail(mainQueue)[i] = mainQueue[i + 1]
  BY <1>1, QueueTail
<1>3. /\ mainQueue[1] = Completion(r, u)
      /\ mainQueue' = Tail(mainQueue)
      /\ stage' = [stage EXCEPT ![r] = "done"]
      /\ UNCHANGED <<accounts, currentUser, kind, email, trapped, signedInBy, forced, makers, cut>>
  BY <1>2 DEF RunCompletion
<1>4. u \in Accounts /\ mainQueue[1].kind = "done" /\ mainQueue[1].request = r
  BY <1>2, <1>3, BlockFacts
<1>5. stage[r] \in {"answered", "done"}
  BY <1>2, <1>4 DEF SessionTypes, CompletionsAnswered
<1>6. stage' \in [Requests -> Stages]
  BY <1>1, <1>3 DEF Stages
<1>7. email[r] \in Users /\ RequestsNameUsers'
  BY <1>1, <1>3, <1>5 DEF SessionTypes, RequestsNameUsers
<1>8. CompletionsAnswered'
  <2> SUFFICES ASSUME NEW i \in DOMAIN Tail(mainQueue), Tail(mainQueue)[i].kind = "done"
               PROVE  stage'[Tail(mainQueue)[i].request] \in {"answered", "done"}
    BY <1>3 DEF CompletionsAnswered
  <2>1. Tail(mainQueue)[i] \in Block
    BY <1>2
  <2>2. Tail(mainQueue)[i].request \in Requests
    BY <2>1, BlockFacts
  <2>3. stage[Tail(mainQueue)[i].request] \in {"answered", "done"}
    BY <1>2 DEF SessionTypes, CompletionsAnswered
  <2> QED
    BY <1>1, <1>3, <2>2, <2>3
<1> QED
  BY <1>2, <1>3, <1>4, <1>5, <1>6, <1>7, <1>8

\* Every step keeps the types.
LEMMA SessionTypesStep == SessionTypes /\ [Next]_vars => SessionTypes'
<1> SUFFICES ASSUME SessionTypes, [Next]_vars PROVE SessionTypes'
  OBVIOUS
<1> USE DEF SessionTypes, RequestsNameUsers, HomeHasRequest
<1>1. CASE UNCHANGED vars
  BY <1>1 DEF vars, requestVars, screenVars, historyVars, CompletionsAnswered
<1>2. CASE Relaunch
  <2>1. mainQueue' = Launch(currentUser) /\ currentUser' = currentUser
    BY <1>2 DEF Relaunch
  <2>2. mainQueue' \in Seq(Block)
    BY <2>1, LaunchQueue
  <2>3. CompletionsAnswered'
    <3>1. \A i \in DOMAIN mainQueue' : mainQueue'[i].kind = "changed"
      BY <2>1, LaunchQueue, BlockFacts
    <3> QED
      BY <3>1 DEF CompletionsAnswered
  <2>4. \A r \in Requests : stage'[r] \in {"lost", stage[r]} /\ (stage[r] = "idle" => stage'[r] = "idle")
    BY <1>2 DEF Relaunch, Unanswered, Waiting
  <2>5. stage' \in [Requests -> Stages]
    BY <1>2, <2>4 DEF Relaunch, Stages
  <2>6. RequestsNameUsers'
    BY <1>2, <2>4 DEF Relaunch
  <2> QED
    BY <1>2, <2>2, <2>3, <2>5, <2>6 DEF Relaunch, Accounts
<1>3. ASSUME NEW s \in {"login", "signup"}, Open(s) PROVE SessionTypes'
  BY <1>3 DEF Open, requestVars, historyVars, CompletionsAnswered
<1>4. CASE Back
  BY <1>4 DEF Back, requestVars, historyVars, Unanswered, CompletionsAnswered
<1>5. CASE OpenProfile
  BY <1>5 DEF OpenProfile, requestVars, historyVars, CompletionsAnswered
<1>6. ASSUME SignOut, UNCHANGED stage
      PROVE  mainQueue' \in Seq(Block) /\ CompletionsAnswered' /\ currentUser' \in Accounts
  <2>1. Changed(NoUser) \in Block /\ Changed(NoUser).kind = "changed"
    BY BlockFacts DEF Accounts
  <2>2. CASE mainQueue' = mainQueue
    BY <1>6, <2>2 DEF SignOut, Accounts, CompletionsAnswered
  <2>3. CASE mainQueue' = Append(mainQueue, Changed(NoUser))
    <3>1. /\ mainQueue' \in Seq(Block)
          /\ \A i \in DOMAIN mainQueue' : \/ mainQueue'[i].kind = "changed"
                                          \/ i \in DOMAIN mainQueue /\ mainQueue'[i] = mainQueue[i]
      BY <2>1, <2>3, QueueAppend
    <3> QED
      BY <1>6, <3>1 DEF SignOut, Accounts, CompletionsAnswered
  <2> QED
    BY <1>6, <2>2, <2>3 DEF SignOut
<1>7. CASE Logout
  BY <1>6, <1>7 DEF Logout, requestVars, historyVars, Accounts
<1>8. CASE SignOutByForce
  BY <1>6, <1>8 DEF SignOutByForce, requestVars, screenVars
<1>9. ASSUME NEW r \in Requests, NEW u \in Users, Tap(r, u) PROVE SessionTypes'
  <2>1. CompletionsAnswered'
    BY <1>9, BlockFacts DEF Tap, CompletionsAnswered
  <2> QED
    BY <1>9, <2>1 DEF Tap, historyVars, Stages, Waiting, Accounts
<1>10. ASSUME NEW value, WriteCategory(value) PROVE SessionTypes'
  BY <1>10 DEF WriteCategory, requestVars, screenVars, historyVars, CompletionsAnswered
<1>11. ASSUME NEW r \in Requests, AccountMade(r) PROVE SessionTypes'
  <2>1. CompletionsAnswered'
    BY <1>11, BlockFacts DEF AccountMade, CompletionsAnswered
  <2> QED
    BY <1>11, <2>1 DEF AccountMade, screenVars, Stages, Waiting
<1>12. ASSUME NEW r \in Requests,
              stage' = [stage EXCEPT ![r] = "answered"],
              \A i \in DOMAIN mainQueue' : \/ mainQueue'[i].kind = "changed"
                                           \/ mainQueue'[i].request = r
                                           \/ i \in DOMAIN mainQueue /\ mainQueue'[i] = mainQueue[i]
       PROVE  CompletionsAnswered'
  <2> SUFFICES ASSUME NEW i \in DOMAIN mainQueue', mainQueue'[i].kind = "done"
               PROVE  stage'[mainQueue'[i].request] \in {"answered", "done"}
    BY DEF CompletionsAnswered
  <2>1. CASE mainQueue'[i].request = r
    BY <1>12, <2>1
  <2>2. CASE i \in DOMAIN mainQueue /\ mainQueue'[i] = mainQueue[i]
    <3>1. mainQueue[i].request \in Requests
      BY <2>2, BlockFacts
    <3> QED
      BY <1>12, <2>2, <3>1 DEF CompletionsAnswered
  <2> QED
    BY <1>12, <2>1, <2>2
<1>13. ASSUME NEW r \in Requests, SignInDone(r) PROVE SessionTypes'
  <2>1. email[r] \in Users /\ email[r] \in Accounts
    BY <1>13 DEF SignInDone, Granted, Accounts
  <2>2. /\ Changed(email[r]) \in Block /\ Changed(email[r]).kind = "changed"
        /\ Completion(r, email[r]) \in Block /\ Completion(r, email[r]).kind = "done"
        /\ Completion(r, email[r]).request = r
    BY <2>1, BlockFacts
  <2>3. mainQueue' = mainQueue \o <<Changed(email[r]), Completion(r, email[r])>>
    BY <1>13 DEF SignInDone
  <2>4. /\ mainQueue' \in Seq(Block)
        /\ \A i \in DOMAIN mainQueue' : \/ mainQueue'[i] = Changed(email[r])
                                        \/ mainQueue'[i] = Completion(r, email[r])
                                        \/ i \in DOMAIN mainQueue /\ mainQueue'[i] = mainQueue[i]
    <3>1. mainQueue \in Seq(Block)
      OBVIOUS
    <3> HIDE DEF SessionTypes
    <3> QED
      BY <2>2, <2>3, <3>1, QueueTwo
  <2>5. CompletionsAnswered'
    <3>1. stage' = [stage EXCEPT ![r] = "answered"]
      BY <1>13 DEF SignInDone
    <3>2. \A i \in DOMAIN mainQueue' : \/ mainQueue'[i].kind = "changed"
                                       \/ mainQueue'[i].request = r
                                       \/ i \in DOMAIN mainQueue /\ mainQueue'[i] = mainQueue[i]
      BY <2>2, <2>4
    <3> QED
      BY <1>12, <3>1, <3>2
  <2> QED
    BY <1>13, <2>1, <2>4, <2>5 DEF SignInDone, Granted, screenVars, Stages
<1>14. ASSUME NEW r \in Requests, RequestFails(r) PROVE SessionTypes'
  <2>1. /\ Completion(r, NoUser) \in Block /\ Completion(r, NoUser).kind = "done"
        /\ Completion(r, NoUser).request = r
    BY BlockFacts DEF Accounts
  <2>2. mainQueue' = Append(mainQueue, Completion(r, NoUser))
    BY <1>14 DEF RequestFails
  <2>3. /\ mainQueue' \in Seq(Block)
        /\ \A i \in DOMAIN mainQueue' : \/ mainQueue'[i] = Completion(r, NoUser)
                                        \/ i \in DOMAIN mainQueue /\ mainQueue'[i] = mainQueue[i]
    <3>1. mainQueue \in Seq(Block)
      OBVIOUS
    <3> HIDE DEF SessionTypes
    <3> QED
      BY <2>1, <2>2, <3>1, QueueAppend
  <2>4. CompletionsAnswered'
    <3>1. stage' = [stage EXCEPT ![r] = "answered"]
      BY <1>14 DEF RequestFails
    <3>2. \A i \in DOMAIN mainQueue' : \/ mainQueue'[i].kind = "changed"
                                       \/ mainQueue'[i].request = r
                                       \/ i \in DOMAIN mainQueue /\ mainQueue'[i] = mainQueue[i]
      BY <2>1, <2>3
    <3> QED
      BY <1>12, <3>1, <3>2
  <2> QED
    BY <1>14, <2>3, <2>4 DEF RequestFails, screenVars, Stages, Waiting
<1>15. ASSUME NEW r \in Requests, ShowError(r) PROVE SessionTypes'
  BY <1>15, CompletionTypes DEF ShowError
<1>16. ASSUME NEW r \in Requests, ShowHome(r) PROVE SessionTypes'
  BY <1>16, CompletionTypes DEF ShowHome, TransitionToHome, Unanswered, Accounts
<1>17. ASSUME NEW r \in Requests, ShowNothing(r) PROVE SessionTypes'
  BY <1>17, CompletionTypes DEF ShowNothing
<1>18. CASE AuthStateDidChange
  <2>1. mainQueue # <<>> /\ mainQueue' = Tail(mainQueue) /\ UNCHANGED stage
    BY <1>18 DEF AuthStateDidChange, requestVars
  <2>2. /\ mainQueue' \in Seq(Block)
        /\ \A i \in DOMAIN mainQueue' : i + 1 \in DOMAIN mainQueue /\ mainQueue'[i] = mainQueue[i + 1]
    BY <2>1, QueueTail
  <2>3. CompletionsAnswered'
    BY <2>1, <2>2 DEF CompletionsAnswered
  <2> QED
    BY <1>18, <2>2, <2>3 DEF AuthStateDidChange, requestVars, screenVars, historyVars
<1>19. CASE FirestoreAnswers \/ FirestoreDisconnect \/ WriteAcknowledged
  BY <1>19 DEF FirestoreAnswers, FirestoreDisconnect, WriteAcknowledged, sessionVars, requestVars,
               screenVars, historyVars, CompletionsAnswered
<1>20. CASE WriteRejected
  BY <1>20 DEF WriteRejected, sessionVars, requestVars, screenVars, CompletionsAnswered
<1> QED
  BY <1>1, <1>2, <1>3, <1>4, <1>5, <1>7, <1>8, <1>9, <1>10, <1>11, <1>13, <1>14, <1>15, <1>16,
     <1>17, <1>18, <1>19, <1>20 DEF Next

-----------------------------------------------------------------------------
(* The application is a client of the queues.                               *)

\* The application writes to Firestore, tells it of accounts and restarts it
\* only as FirestoreClient allows: whatever is proved of the queues there holds
\* here.
LEMMA QueuesStep == SessionTypes /\ [Next]_vars => [Queues!Next]_(Queues!vars)
<1> SUFFICES ASSUME SessionTypes, [Next]_vars PROVE [Queues!Next]_(Queues!vars)
  OBVIOUS
<1>1. ASSUME UNCHANGED firestoreVars PROVE UNCHANGED Queues!vars
  BY <1>1 DEF firestoreVars, Queues!vars, Queues!writeVars
<1>2. ASSUME NEW d \in {"profile", "category"} \X Requests, NEW value \in (Users \cup Names) \cup {Absent},
             Firestore!Write(d, value)
      PROVE  Queues!Next
  <2>1. Queues!Write(d, value)
    BY <1>2 DEF Firestore!Write, Queues!Write, Firestore!Enqueue, Queues!Enqueue
  <2> QED
    BY <2>1 DEF Queues!Next
<1>3. CASE Relaunch
  <2>1. PICK u \in {NoUser, currentUser} : Firestore!Restart(u)
    BY <1>3 DEF Relaunch
  <2>2. u \in Queues!Accounts
    BY DEF SessionTypes, Queues!Accounts, Accounts
  <2>3. Queues!Restart(u)
    BY <2>1 DEF Firestore!Restart, Queues!Restart, Firestore!RestartClient, Queues!RestartClient,
                Firestore!historyVars, Queues!historyVars
  <2> QED
    BY <2>2, <2>3 DEF Queues!Next
<1>4. ASSUME NEW value \in Names \cup {Absent}, WriteCategory(value) PROVE Queues!Next
  <2>1. Category(home) \in {"profile", "category"} \X Requests
    BY <1>4 DEF WriteCategory, SessionTypes, HomeHasRequest, Category
  <2> QED
    BY <1>2, <1>4, <2>1 DEF WriteCategory
<1>5. ASSUME NEW r \in Requests, RunCompletion(r, email[r]), StoreProfile(r)
      PROVE  [Queues!Next]_(Queues!vars)
  <2>1. email[r] \in Users
    BY <1>5, CompletionTypes
  <2>2. Profile(r) \in {"profile", "category"} \X Requests
    BY DEF Profile
  <2>3. CASE kind[r] = "signup"
    BY <1>2, <1>5, <2>1, <2>2, <2>3 DEF StoreProfile
  <2>4. CASE kind[r] # "signup"
    BY <1>1, <1>5, <2>4 DEF StoreProfile
  <2> QED
    BY <2>3, <2>4
<1>6. ASSUME NEW r \in Requests, ShowHome(r) PROVE [Queues!Next]_(Queues!vars)
  BY <1>5, <1>6 DEF ShowHome
<1>7. ASSUME NEW r \in Requests, ShowNothing(r) PROVE [Queues!Next]_(Queues!vars)
  BY <1>5, <1>7 DEF ShowNothing
<1>8. CASE AuthStateDidChange
  <2> DEFINE u == Head(mainQueue).user
  <2>1. Firestore!CredentialSet(u)
    BY <1>8 DEF AuthStateDidChange
  <2>2. u \in Queues!Accounts
    <3>1. Head(mainQueue) \in Block
      BY <1>8, QueueTail DEF SessionTypes, AuthStateDidChange
    <3> QED
      BY <1>8, <3>1, BlockFacts DEF AuthStateDidChange, Accounts, Queues!Accounts
  <2> HIDE DEF u
  <2>3. Queues!CredentialSet(u)
    BY <2>1 DEF Firestore!CredentialSet, Queues!CredentialSet, Firestore!CredentialChange,
                Queues!CredentialChange, Firestore!historyVars, Queues!historyVars
  <2> QED
    BY <2>2, <2>3 DEF Queues!Next
<1>9. CASE FirestoreAnswers \/ FirestoreDisconnect \/ WriteAcknowledged \/ WriteRejected
  <2>1. Queues!Answer \/ Queues!Disconnect \/ Queues!Acknowledged \/ Queues!Rejected
    BY <1>9 DEF FirestoreAnswers, FirestoreDisconnect, WriteAcknowledged, WriteRejected,
                Firestore!Answer, Queues!Answer, Firestore!ServerCommit, Queues!ServerCommit,
                Firestore!ServerRefuse, Queues!ServerRefuse, Firestore!ServerAnswers, Queues!ServerAnswers,
                Firestore!Disconnect, Queues!Disconnect, Firestore!StreamBreak, Queues!StreamBreak,
                Firestore!Acknowledged, Queues!Acknowledged, Firestore!Rejected, Queues!Rejected,
                Firestore!Dequeue, Queues!Dequeue, Firestore!historyVars, Queues!historyVars
  <2> QED
    BY <2>1 DEF Queues!Next
<1>10. ASSUME \/ UNCHANGED vars \/ \E s \in {"login", "signup"} : Open(s)
              \/ Back \/ OpenProfile \/ Logout \/ SignOutByForce
              \/ \E r \in Requests, u \in Users : Tap(r, u)
              \/ \E r \in Requests : AccountMade(r) \/ SignInDone(r) \/ RequestFails(r) \/ ShowError(r)
       PROVE  UNCHANGED Queues!vars
  BY <1>1, <1>10 DEF vars, Open, Back, OpenProfile, Logout, SignOutByForce, Tap, AccountMade,
                     SignInDone, RequestFails, ShowError
<1> QED
  BY <1>3, <1>4, <1>6, <1>7, <1>8, <1>9, <1>10 DEF Next

\* The application starts the queues empty, for an account.
LEMMA QueuesInit == Init => Queues!Init
<1> SUFFICES ASSUME Init PROVE Queues!Init
  OBVIOUS
<1>1. PICK u \in {NoUser, currentUser} : Firestore!ClientInit(u)
  BY DEF Init
<1>2. u \in Queues!Accounts
  BY DEF Init, Queues!Accounts
<1> QED
  BY <1>1, <1>2 DEF Queues!Init, Firestore!ClientInit, Queues!ClientInit, Firestore!WritesInit,
                    Queues!WritesInit, Firestore!Accounts, Queues!Accounts

\* Session implements FirestoreClient.
THEOREM SessionIsAClient == Spec => Queues!Spec
<1>1. Spec => []SessionTypes
  BY SessionTypesInit, SessionTypesStep, PTL DEF Spec
<1> QED
  BY <1>1, QueuesInit, QueuesStep, PTL DEF Spec, Queues!Spec

\* The type invariant: what the session keeps is well formed, and so are the
\* queues it writes to.
THEOREM SessionTypeCorrect == Spec => []TypeOK
<1>1. Spec => []SessionTypes
  BY SessionTypesInit, SessionTypesStep, PTL DEF Spec
<1>2. Spec => []Queues!WritesTypeOK
  BY SessionIsAClient, Queues!WritesTypeCorrect, PTL
<1>3. SessionTypes /\ Queues!WritesTypeOK => TypeOK
  BY DEF SessionTypes, TypeOK, Firestore!WritesTypeOK, Queues!WritesTypeOK, Firestore!Accounts,
         Queues!Accounts, Firestore!Mutation, Queues!Mutation
<1> QED
  BY <1>1, <1>2, <1>3, PTL

\* A document the session wrote under one account has the value written last
\* once nothing waits for it and nothing was refused: the profile of a new
\* account, and the document all Adds of one CategoryVC go to.
THEOREM SessionLastWriteWins == Spec => []LastWriteWins
<1>1. Spec => []Queues!LastWriteWins
  BY SessionIsAClient, Queues!LastWriteWinsAlways, PTL
<1>2. Queues!LastWriteWins => LastWriteWins
  BY DEF LastWriteWins, Firestore!LastWriteWins, Queues!LastWriteWins, Firestore!Accounts,
         Queues!Accounts, Firestore!Unacknowledged, Queues!Unacknowledged, Firestore!OneAccount,
         Queues!OneAccount
<1> QED
  BY <1>1, <1>2, PTL

-----------------------------------------------------------------------------
(* Auth and Firestore.                                                      *)

Unmoved == UNCHANGED <<mainQueue, currentUser, fsUser>>

Launched ==
  /\ mainQueue' = Launch(currentUser) /\ currentUser' = currentUser
  /\ fsUser' \in {NoUser, currentUser}

SignedOut == SignOut /\ fsUser' = fsUser

SignedIn(r, u) ==
  /\ mainQueue' = mainQueue \o <<Changed(u), Completion(r, u)>>
  /\ currentUser' = u /\ fsUser' = fsUser

Failed(r) ==
  /\ mainQueue' = Append(mainQueue, Completion(r, NoUser))
  /\ UNCHANGED <<currentUser, fsUser>>

Told ==
  /\ mainQueue # <<>> /\ Head(mainQueue).kind = "changed"
  /\ mainQueue' = Tail(mainQueue)
  /\ fsUser' = Head(mainQueue).user /\ currentUser' = currentUser

Completed ==
  /\ mainQueue # <<>> /\ Head(mainQueue).kind = "done"
  /\ mainQueue' = Tail(mainQueue)
  /\ UNCHANGED <<currentUser, fsUser>>

\* What a step does to the main queue, to Auth's user and to Firestore's.
LEMMA QueueCases ==
  ASSUME SessionTypes, [Next]_vars
  PROVE  \/ Unmoved \/ Launched \/ SignedOut \/ Told \/ Completed
         \/ \E r \in Requests : Failed(r) \/ \E u \in Users : SignedIn(r, u)
<1>1. CASE Relaunch
  BY <1>1 DEF Relaunch, Launched, Firestore!Restart, Firestore!RestartClient
<1>2. CASE Logout \/ SignOutByForce
  BY <1>2 DEF Logout, SignOutByForce, SignedOut, firestoreVars
<1>3. ASSUME NEW r \in Requests, SignInDone(r) PROVE \E u \in Users : SignedIn(r, u)
  BY <1>3 DEF SignInDone, Granted, SignedIn, firestoreVars, SessionTypes, RequestsNameUsers
<1>4. ASSUME NEW r \in Requests, RequestFails(r) PROVE Failed(r)
  BY <1>4 DEF RequestFails, Failed, firestoreVars
<1>5. CASE AuthStateDidChange
  BY <1>5 DEF AuthStateDidChange, Told, Firestore!CredentialSet, Firestore!CredentialChange
<1>6. ASSUME NEW r \in Requests, NEW u, RunCompletion(r, u), fsUser' = fsUser PROVE Completed
  BY <1>6 DEF RunCompletion, Completion, Completed
<1>7. ASSUME NEW r \in Requests, ShowError(r) PROVE Completed
  BY <1>6, <1>7 DEF ShowError, firestoreVars
<1>8. ASSUME NEW r \in Requests, StoreProfile(r) PROVE fsUser' = fsUser
  BY <1>8 DEF StoreProfile, Firestore!Write, firestoreVars
<1>9. ASSUME NEW r \in Requests, ShowHome(r) \/ ShowNothing(r) PROVE Completed
  BY <1>6, <1>8, <1>9 DEF ShowHome, ShowNothing
<1>10. CASE \E value \in Names \cup {Absent} : WriteCategory(value)
  BY <1>10 DEF WriteCategory, Unmoved, Firestore!Write
<1>11. CASE FirestoreAnswers \/ FirestoreDisconnect \/ WriteAcknowledged \/ WriteRejected
  BY <1>11 DEF FirestoreAnswers, FirestoreDisconnect, WriteAcknowledged, WriteRejected, Unmoved,
               sessionVars, Firestore!Answer, Firestore!ServerCommit, Firestore!ServerRefuse,
               Firestore!ServerAnswers, Firestore!Disconnect, Firestore!StreamBreak,
               Firestore!Acknowledged, Firestore!Rejected, Firestore!Dequeue
<1>12. CASE \/ UNCHANGED vars \/ \E s \in {"login", "signup"} : Open(s)
            \/ Back \/ OpenProfile
            \/ \E r \in Requests, u \in Users : Tap(r, u)
            \/ \E r \in Requests : AccountMade(r)
  BY <1>12 DEF vars, Open, Back, OpenProfile, Tap, AccountMade, Unmoved, firestoreVars
<1> QED
  BY <1>1, <1>2, <1>3, <1>4, <1>5, <1>7, <1>9, <1>10, <1>11, <1>12 DEF Next

\* The completion of a sign-in has the notification of its user right before
\* it, and once that has run Firestore works for that user.
CompletionFollowsNotification ==
  \A i \in DOMAIN mainQueue :
    (mainQueue[i].kind = "done" /\ mainQueue[i].user # NoUser) =>
      IF i = 1 THEN fsUser = mainQueue[i].user
               ELSE mainQueue[i - 1] = Changed(mainQueue[i].user)

QueueInv == FollowsAuth /\ CompletionFollowsNotification

\* The two hold at a launch, whichever of Firestore and the keychain came first.
LEMMA QueueInvLaunch ==
  ASSUME NEW u \in Accounts, mainQueue = Launch(u), currentUser = u, fsUser \in {NoUser, u}
  PROVE  QueueInv
<1>1. CASE u = NoUser
  BY <1>1, LaunchQueue DEF QueueInv, FollowsAuth, CompletionFollowsNotification
<1>2. CASE u # NoUser
  <2>1. /\ DOMAIN mainQueue = {1}
        /\ mainQueue[1].kind = "changed" /\ mainQueue[1].user = currentUser
    BY <1>2, LaunchQueue, BlockFacts
  <2> QED
    BY <2>1 DEF QueueInv, FollowsAuth, CompletionFollowsNotification
<1> QED
  BY <1>1, <1>2

\* Every step keeps them.
LEMMA QueueInvStep ==
  ASSUME SessionTypes, QueueInv, [Next]_vars
  PROVE  QueueInv'
<1> DEFINE q == mainQueue
<1>1. q \in Seq(Block) /\ currentUser \in Accounts /\ NoUser \in Accounts
  BY DEF SessionTypes, Accounts
<1>2. CASE Unmoved
  BY <1>2 DEF Unmoved, QueueInv, FollowsAuth, CompletionFollowsNotification
<1>3. CASE Launched
  <2>1. CASE currentUser = NoUser
    <3>1. mainQueue' = <<>> /\ currentUser' = fsUser'
      BY <1>3, <2>1 DEF Launched, Launch
    <3> QED
      BY <3>1 DEF QueueInv, FollowsAuth, CompletionFollowsNotification
  <2>2. CASE currentUser # NoUser
    <3>1. /\ DOMAIN mainQueue' = {1}
          /\ mainQueue'[1].kind = "changed" /\ mainQueue'[1].user = currentUser'
      BY <1>1, <1>3, <2>2, LaunchQueue, BlockFacts DEF Launched
    <3> QED
      BY <3>1 DEF QueueInv, FollowsAuth, CompletionFollowsNotification
  <2> QED
    BY <2>1, <2>2
<1>4. ASSUME NEW b \in Block, mainQueue' = Append(q, b), fsUser' = fsUser,
             b.kind = "done" => b.user = NoUser
      PROVE  CompletionFollowsNotification'
  <2>1. /\ DOMAIN mainQueue' = DOMAIN q \cup {Len(q) + 1}
        /\ DOMAIN q = 1..Len(q) /\ Len(q) \in Nat
        /\ \A i \in DOMAIN q : mainQueue'[i] = q[i]
        /\ mainQueue'[Len(q) + 1] = b
    BY <1>1, <1>4, QueueAppend
  <2>2. \A i \in DOMAIN q : i # 1 => i - 1 \in DOMAIN q
    BY <2>1
  <2> QED
    BY <1>4, <2>1, <2>2 DEF QueueInv, CompletionFollowsNotification
<1>5. CASE SignedOut
  <2>1. CASE currentUser = NoUser
    BY <1>5, <2>1 DEF SignedOut, SignOut, QueueInv, FollowsAuth, CompletionFollowsNotification
  <2>2. CASE currentUser # NoUser
    <3>1. mainQueue' = Append(q, Changed(NoUser)) /\ currentUser' = NoUser /\ fsUser' = fsUser
      BY <1>5, <2>2 DEF SignedOut, SignOut
    <3>2. /\ Changed(NoUser) \in Block /\ Changed(NoUser).kind = "changed"
          /\ Changed(NoUser).user = NoUser
      BY <1>1, BlockFacts
    <3>3. CompletionFollowsNotification'
      BY <1>4, <3>1, <3>2
    <3>4. /\ DOMAIN mainQueue' = DOMAIN q \cup {Len(q) + 1}
          /\ DOMAIN q = 1..Len(q) /\ Len(q) \in Nat
          /\ mainQueue'[Len(q) + 1] = Changed(NoUser)
      BY <1>1, <3>1, <3>2, QueueAppend
    <3>5. FollowsAuth'
      BY <3>1, <3>2, <3>4 DEF FollowsAuth
    <3> QED
      BY <3>3, <3>5 DEF QueueInv
  <2> QED
    BY <2>1, <2>2
<1>6. ASSUME NEW r \in Requests, Failed(r) PROVE QueueInv'
  <2>1. /\ mainQueue' = Append(q, Completion(r, NoUser)) /\ currentUser' = currentUser
        /\ fsUser' = fsUser
    BY <1>6 DEF Failed
  <2>2. /\ Completion(r, NoUser) \in Block /\ Completion(r, NoUser).kind = "done"
        /\ Completion(r, NoUser).user = NoUser
    BY <1>1, BlockFacts
  <2>3. CompletionFollowsNotification'
    BY <1>4, <2>1, <2>2
  <2>4. /\ DOMAIN mainQueue' = DOMAIN q \cup {Len(q) + 1}
        /\ \A i \in DOMAIN q : mainQueue'[i] = q[i]
        /\ mainQueue'[Len(q) + 1].kind = "done"
    BY <1>1, <2>1, <2>2, QueueAppend
  <2>5. {i \in DOMAIN mainQueue' : mainQueue'[i].kind = "changed"}
          = {i \in DOMAIN q : q[i].kind = "changed"}
    BY <2>4
  <2>6. FollowsAuth'
    BY <2>1, <2>4, <2>5 DEF QueueInv, FollowsAuth
  <2> QED
    BY <2>3, <2>6 DEF QueueInv
<1>7. ASSUME NEW r \in Requests, NEW u \in Users, SignedIn(r, u) PROVE QueueInv'
  <2>1. /\ mainQueue' = q \o <<Changed(u), Completion(r, u)>>
        /\ currentUser' = u /\ fsUser' = fsUser
    BY <1>7 DEF SignedIn
  <2>2. /\ Changed(u) \in Block /\ Changed(u).kind = "changed" /\ Changed(u).user = u
        /\ Completion(r, u) \in Block /\ Completion(r, u).kind = "done"
        /\ Completion(r, u).user = u
    BY BlockFacts DEF Accounts
  <2>3. /\ DOMAIN mainQueue' = DOMAIN q \cup {Len(q) + 1, Len(q) + 2}
        /\ DOMAIN q = 1..Len(q) /\ Len(q) \in Nat
        /\ \A i \in DOMAIN q : mainQueue'[i] = q[i]
        /\ mainQueue'[Len(q) + 1] = Changed(u) /\ mainQueue'[Len(q) + 2] = Completion(r, u)
    BY <1>1, <2>1, <2>2, QueueTwo
  <2>4. FollowsAuth'
    BY <2>1, <2>2, <2>3 DEF FollowsAuth
  <2>5. CompletionFollowsNotification'
    <3>1. \A i \in DOMAIN q : i # 1 => i - 1 \in DOMAIN q
      BY <2>3
    <3>2. Len(q) + 2 # 1 /\ (Len(q) + 2) - 1 = Len(q) + 1
      BY <2>3
    <3> QED
      BY <2>1, <2>2, <2>3, <3>1, <3>2 DEF QueueInv, CompletionFollowsNotification
  <2> QED
    BY <2>4, <2>5 DEF QueueInv
<1>8. ASSUME q # <<>>, mainQueue' = Tail(q),
             \/ q[1].kind = "changed" /\ fsUser' = q[1].user
             \/ q[1].kind = "done" /\ fsUser' = fsUser
      PROVE  CompletionFollowsNotification'
  <2>1. /\ DOMAIN q = 1..Len(q) /\ DOMAIN mainQueue' = 1..(Len(q) - 1) /\ Len(q) \in Nat \ {0}
        /\ \A i \in DOMAIN mainQueue' : i + 1 \in DOMAIN q /\ mainQueue'[i] = q[i + 1]
    BY <1>1, <1>8, QueueTail
  <2> SUFFICES ASSUME NEW i \in DOMAIN mainQueue', mainQueue'[i].kind = "done",
                      mainQueue'[i].user # NoUser
               PROVE  IF i = 1 THEN fsUser' = mainQueue'[i].user
                               ELSE mainQueue'[i - 1] = Changed(mainQueue'[i].user)
    BY DEF CompletionFollowsNotification
  <2>2. /\ i + 1 \in DOMAIN q /\ mainQueue'[i] = q[i + 1] /\ i + 1 # 1 /\ (i + 1) - 1 = i
        /\ q[i] = Changed(q[i + 1].user)
    BY <2>1 DEF QueueInv, CompletionFollowsNotification
  <2>3. CASE i = 1
    <3>1. q[2].user \in Accounts
      BY <1>1, <2>1, <2>2, <2>3, BlockFacts
    <3>2. q[1].kind = "changed" /\ q[1].user = q[2].user
      BY <2>2, <2>3, <3>1, BlockFacts
    <3> QED
      BY <1>8, <2>2, <2>3, <3>2
  <2>4. CASE i # 1
    <3>1. i - 1 \in DOMAIN mainQueue' /\ (i - 1) + 1 = i
      BY <2>1, <2>4
    <3>2. mainQueue'[i - 1] = q[i]
      BY <2>1, <3>1
    <3> QED
      BY <2>2, <2>4, <3>2
  <2> QED
    BY <2>3, <2>4
<1>9. CASE Told \/ Completed
  <2>1. /\ q # <<>> /\ mainQueue' = Tail(q) /\ currentUser' = currentUser
        /\ Head(q) = q[1] /\ 1 \in DOMAIN q /\ DOMAIN q = 1..Len(q) /\ Len(q) \in Nat \ {0}
        /\ DOMAIN Tail(q) = 1..(Len(q) - 1)
        /\ \A i \in DOMAIN Tail(q) : i + 1 \in DOMAIN q /\ Tail(q)[i] = q[i + 1]
        /\ \A j \in DOMAIN q : j > 1 => (j - 1 \in DOMAIN Tail(q) /\ Tail(q)[j - 1] = q[j])
    BY <1>1, <1>9, QueueTail DEF Told, Completed
  <2>2. \/ q[1].kind = "changed" /\ fsUser' = q[1].user
        \/ q[1].kind = "done" /\ fsUser' = fsUser
    BY <1>9, <2>1 DEF Told, Completed
  <2>3. CompletionFollowsNotification'
    BY <1>8, <2>1, <2>2
  <2>4. CASE \E i \in DOMAIN q : /\ i > 1 /\ q[i].kind = "changed" /\ q[i].user = currentUser
                                /\ \A j \in DOMAIN q : q[j].kind = "changed" => j =< i
    <3>1. PICK i \in DOMAIN q : /\ i > 1 /\ q[i].kind = "changed" /\ q[i].user = currentUser
                               /\ \A j \in DOMAIN q : q[j].kind = "changed" => j =< i
      BY <2>4
    <3>2. /\ i - 1 \in DOMAIN Tail(q) /\ Tail(q)[i - 1] = q[i]
      BY <2>1, <3>1
    <3>3. \A j \in DOMAIN Tail(q) : Tail(q)[j].kind = "changed" => j =< i - 1
      BY <2>1, <3>1
    <3>4. FollowsAuth'
      BY <2>1, <3>1, <3>2, <3>3 DEF FollowsAuth
    <3> QED
      BY <2>3, <3>4 DEF QueueInv
  <2>5. CASE ~ \E i \in DOMAIN q : /\ i > 1 /\ q[i].kind = "changed" /\ q[i].user = currentUser
                                  /\ \A j \in DOMAIN q : q[j].kind = "changed" => j =< i
    <3>1. \/ currentUser = fsUser /\ \A i \in DOMAIN q : q[i].kind # "changed"
          \/ q[1].kind = "changed" /\ q[1].user = currentUser
             /\ \A j \in DOMAIN q : q[j].kind = "changed" => j =< 1
      BY <2>1, <2>5 DEF QueueInv, FollowsAuth
    <3>2. \A j \in DOMAIN Tail(q) : Tail(q)[j].kind # "changed"
      BY <2>1, <3>1
    <3>3. currentUser = fsUser'
      BY <2>1, <2>2, <3>1
    <3>4. FollowsAuth'
      BY <2>1, <3>2, <3>3 DEF FollowsAuth
    <3> QED
      BY <2>3, <3>4 DEF QueueInv
  <2> QED
    BY <2>4, <2>5
<1> QED
  BY <1>2, <1>3, <1>5, <1>6, <1>7, <1>9, QueueCases

\* Types and queue together, from the first launch on.
LEMMA QueueInvAlways == Spec => [](SessionTypes /\ QueueInv)
<1>1. Init => SessionTypes /\ QueueInv
  <2> SUFFICES ASSUME Init PROVE SessionTypes /\ QueueInv
    OBVIOUS
  <2>1. SessionTypes
    BY SessionTypesInit
  <2>2. currentUser \in Accounts /\ fsUser \in {NoUser, currentUser} /\ mainQueue = Launch(currentUser)
    BY <2>1 DEF Init, SessionTypes, Firestore!ClientInit, Firestore!WritesInit
  <2> QED
    BY <2>1, <2>2, QueueInvLaunch
<1>2. SessionTypes /\ QueueInv /\ [Next]_vars => (SessionTypes /\ QueueInv)'
  BY SessionTypesStep, QueueInvStep
<1> QED
  BY <1>1, <1>2, PTL DEF Spec

\* Firestore works for Auth's user, or the last notification that waits will
\* make it do so.
THEOREM FollowsAuthAlways == Spec => []FollowsAuth
<1>1. SessionTypes /\ QueueInv => FollowsAuth
  BY DEF QueueInv
<1> QED
  BY <1>1, QueueInvAlways, PTL

-----------------------------------------------------------------------------
(* Profiles.                                                                *)

\* A profile that waits is the one of its request's account, in that account's
\* queue.
PendingProfiles ==
  \A a \in Accounts : \A i \in DOMAIN mutations[a] : \A r \in Requests :
    mutations[a][i].id = Profile(r) =>
      stage[r] # "idle" /\ mutations[a][i].value = email[r] /\ email[r] = a

\* A profile that is committed on the open stream is at the backend.
CommittedProfiles ==
  \A i \in DOMAIN answers : \A r \in Requests :
    (answers[i] = "ok" /\ mutations[fsUser][i].id = Profile(r)) => server[Profile(r)] = email[r]

StoreInv == PendingProfiles /\ CommittedProfiles

ProfileWaits(r) ==
  \E i \in DOMAIN mutations[email[r]] : mutations[email[r]][i].id = Profile(r)

CompletionWaits(r) == \E i \in DOMAIN mainQueue : mainQueue[i] = Completion(r, email[r])

Kept ==
  /\ UNCHANGED <<server, mutations>>
  /\ (answers' = answers /\ fsUser' = fsUser) \/ answers' = <<>>

Written(d, value) ==
  /\ mutations' = [mutations EXCEPT ![fsUser] = Append(@, [id |-> d, value |-> value])]
  /\ UNCHANGED <<server, answers, fsUser>>

Answered == (Firestore!ServerCommit \/ Firestore!ServerRefuse)

Dequeued ==
  \/ Firestore!Dequeue("ok")
  \/ Firestore!Dequeue("refused") /\
       cut' = cut \cup {r \in Requests : Profile(r) = Head(mutations[fsUser]).id}

\* The completion of a sign-up writes the profile, to the queue of its account.
LEMMA StoreProfileWrites ==
  ASSUME SessionTypes, QueueInv, NEW r \in Requests, RunCompletion(r, email[r]), email[r] # NoUser,
         StoreProfile(r), kind[r] = "signup"
  PROVE  Written(Profile(r), email[r]) /\ fsUser = email[r] /\ stage[r] # "idle"
<1>1. Written(Profile(r), email[r])
  BY DEF StoreProfile, Firestore!Write, Firestore!Enqueue, Written
<1>2. stage[r] # "idle" /\ email[r] \in Accounts
  BY CompletionTypes
<1>3. 1 \in DOMAIN mainQueue /\ mainQueue[1] = Completion(r, email[r])
  BY QueueTail DEF SessionTypes, RunCompletion
<1>4. fsUser = email[r]
  BY <1>2, <1>3, BlockFacts DEF QueueInv, CompletionFollowsNotification
<1> QED
  BY <1>1, <1>2, <1>4

\* What a step does to the queues of Firestore.
LEMMA StoreCases ==
  ASSUME SessionTypes, QueueInv, [Next]_vars
  PROVE  \/ Kept \/ Answered \/ Dequeued
         \/ screen = "home" /\ \E value \in Names \cup {Absent} : Written(Category(home), value)
         \/ \E r \in Requests : /\ Written(Profile(r), email[r])
                                /\ fsUser = email[r] /\ stage[r] # "idle"
<1>1. ASSUME UNCHANGED firestoreVars PROVE Kept
  BY <1>1 DEF firestoreVars, Kept
<1>2. CASE Relaunch
  BY <1>2 DEF Relaunch, Firestore!Restart, Firestore!RestartClient, Kept
<1>3. CASE AuthStateDidChange
  BY <1>3 DEF AuthStateDidChange, Firestore!CredentialSet, Firestore!CredentialChange, Kept
<1>4. ASSUME NEW value \in Names \cup {Absent}, WriteCategory(value)
      PROVE  screen = "home" /\ Written(Category(home), value)
  BY <1>4 DEF WriteCategory, Firestore!Write, Firestore!Enqueue, Written
<1>5. ASSUME NEW r \in Requests, RunCompletion(r, email[r]), email[r] # NoUser, StoreProfile(r)
      PROVE  \/ Kept
             \/ Written(Profile(r), email[r]) /\ fsUser = email[r] /\ stage[r] # "idle"
  BY <1>1, <1>5, StoreProfileWrites DEF StoreProfile
<1>6. ASSUME NEW r \in Requests, ShowHome(r) \/ ShowNothing(r)
      PROVE  \/ Kept
             \/ Written(Profile(r), email[r]) /\ fsUser = email[r] /\ stage[r] # "idle"
  BY <1>5, <1>6 DEF ShowHome, ShowNothing
<1>7. CASE FirestoreDisconnect
  BY <1>7 DEF FirestoreDisconnect, Firestore!Disconnect, Firestore!StreamBreak, Kept
<1>8. CASE FirestoreAnswers
  BY <1>8 DEF FirestoreAnswers, Firestore!Answer, Answered
<1>9. CASE WriteAcknowledged \/ WriteRejected
  BY <1>9 DEF WriteAcknowledged, WriteRejected, Firestore!Acknowledged, Firestore!Rejected, Dequeued
<1>10. CASE \/ UNCHANGED vars \/ \E s \in {"login", "signup"} : Open(s)
            \/ Back \/ OpenProfile \/ Logout \/ SignOutByForce
            \/ \E r \in Requests, u \in Users : Tap(r, u)
            \/ \E r \in Requests : AccountMade(r) \/ SignInDone(r) \/ RequestFails(r) \/ ShowError(r)
  BY <1>1, <1>10 DEF vars, Open, Back, OpenProfile, Logout, SignOutByForce, Tap, AccountMade,
                     SignInDone, RequestFails, ShowError
<1> QED
  BY <1>2, <1>3, <1>4, <1>6, <1>7, <1>8, <1>9, <1>10 DEF Next

\* What was asked in a request does not change once it was made.
LEMMA RequestsStable ==
  ASSUME SessionTypes, [Next]_vars, NEW r \in Requests, stage[r] # "idle"
  PROVE  stage'[r] # "idle" /\ email'[r] = email[r] /\ kind'[r] = kind[r]
<1> USE DEF SessionTypes
<1>1. CASE Relaunch
  BY <1>1 DEF Relaunch
<1>2. ASSUME NEW p \in Requests, NEW u, RunCompletion(p, u)
      PROVE  stage'[r] # "idle" /\ email'[r] = email[r] /\ kind'[r] = kind[r]
  BY <1>2 DEF RunCompletion
<1>3. CASE \E p \in Requests : ShowError(p) \/ ShowHome(p) \/ ShowNothing(p)
  BY <1>2, <1>3 DEF ShowError, ShowHome, ShowNothing
<1>4. ASSUME NEW p \in Requests, AccountMade(p) \/ SignInDone(p) \/ RequestFails(p)
      PROVE  stage'[r] # "idle" /\ email'[r] = email[r] /\ kind'[r] = kind[r]
  BY <1>4 DEF AccountMade, SignInDone, RequestFails
<1>5. ASSUME NEW p \in Requests, NEW u \in Users, Tap(p, u)
      PROVE  stage'[r] # "idle" /\ email'[r] = email[r] /\ kind'[r] = kind[r]
  BY <1>5 DEF Tap
<1>6. ASSUME UNCHANGED requestVars
      PROVE  stage'[r] # "idle" /\ email'[r] = email[r] /\ kind'[r] = kind[r]
  BY <1>6 DEF requestVars
<1>7. CASE \/ UNCHANGED vars \/ \E s \in {"login", "signup"} : Open(s)
           \/ Back \/ OpenProfile \/ Logout \/ SignOutByForce \/ AuthStateDidChange
           \/ \E value \in Names \cup {Absent} : WriteCategory(value)
           \/ FirestoreAnswers \/ FirestoreDisconnect \/ WriteAcknowledged \/ WriteRejected
  BY <1>6, <1>7 DEF vars, Open, Back, OpenProfile, Logout, SignOutByForce, AuthStateDidChange,
                    WriteCategory, FirestoreAnswers, FirestoreDisconnect, WriteAcknowledged,
                    WriteRejected, sessionVars
<1> QED
  BY <1>1, <1>3, <1>4, <1>5, <1>7 DEF Next

\* A request that was made keeps the profile it has at the backend, and one that
\* waits goes on waiting, arrives, or is refused.
ProfileMoves ==
  \A r \in Requests : stage[r] # "idle" =>
    /\ server[Profile(r)] = email[r] => server'[Profile(r)] = email[r]
    /\ ProfileWaits(r) => ProfileWaits(r)' \/ server'[Profile(r)] = email[r] \/ r \in cut'

\* Every step keeps what is said of profiles in the queues and on the stream.
LEMMA StoreStep ==
  ASSUME SessionTypes, Queues!WritesTypeOK, QueueInv, StoreInv, [Next]_vars
  PROVE  StoreInv' /\ ProfileMoves
<1> DEFINE q == mutations[fsUser]
           M == Queues!Mutation
<1>1. /\ mutations \in [Accounts -> Seq(M)] /\ fsUser \in Accounts /\ q \in Seq(M)
      /\ server \in [{"profile", "category"} \X Requests -> (Users \cup Names) \cup {Absent}]
      /\ answers \in Seq({"ok", "refused"}) /\ Len(answers) =< Len(q)
      /\ email \in [Requests -> Accounts]
  BY DEF Queues!WritesTypeOK, Queues!Accounts, Accounts, SessionTypes
<1>2. \A m \in M : m.id \in {"profile", "category"} \X Requests
  BY DEF Queues!Mutation
<1>3. \A r, p \in Requests : /\ Profile(r) \in {"profile", "category"} \X Requests
                             /\ Profile(r) # Category(p)
                             /\ Profile(r) = Profile(p) => r = p
  BY DEF Profile, Category
<1>4. \A r \in Requests : stage[r] # "idle" =>
        stage'[r] # "idle" /\ email'[r] = email[r] /\ email[r] \in Accounts
  BY <1>1, RequestsStable
<1>5. /\ DOMAIN q = 1..Len(q) /\ Len(q) \in Nat
      /\ DOMAIN answers = 1..Len(answers) /\ Len(answers) \in Nat
      /\ DOMAIN answers \subseteq DOMAIN q
      /\ \A i \in DOMAIN q : q[i] \in M
  BY <1>1
<1> HIDE DEF M, q
<1>6. PendingProfiles /\ CommittedProfiles
  BY DEF StoreInv
<1>7. CASE Kept
  <2>1. PendingProfiles'
    BY <1>4, <1>6, <1>7 DEF Kept, PendingProfiles
  <2>2. CommittedProfiles'
    <3>1. CASE answers' = <<>>
      BY <3>1 DEF CommittedProfiles
    <3>2. CASE answers' = answers /\ fsUser' = fsUser
      <4> SUFFICES ASSUME NEW i \in DOMAIN answers, NEW r \in Requests, answers[i] = "ok",
                          mutations[fsUser][i].id = Profile(r)
                   PROVE  server[Profile(r)] = email'[r]
        BY <1>7, <3>2 DEF Kept, CommittedProfiles
      <4>1. stage[r] # "idle"
        BY <1>1, <1>5, <1>6 DEF PendingProfiles, q
      <4> QED
        BY <1>4, <1>6, <4>1 DEF CommittedProfiles
    <3> QED
      BY <1>7, <3>1, <3>2 DEF Kept
  <2>3. ProfileMoves
    BY <1>4, <1>7 DEF Kept, ProfileMoves, ProfileWaits
  <2> QED
    BY <2>1, <2>2, <2>3 DEF StoreInv
<1>8. ASSUME NEW d, NEW value, Written(d, value), [id |-> d, value |-> value] \in M,
             \A r \in Requests : d = Profile(r) =>
               stage[r] # "idle" /\ value = email[r] /\ fsUser = email[r]
      PROVE  StoreInv' /\ ProfileMoves
  <2> DEFINE new == [id |-> d, value |-> value]
  <2>1. /\ mutations'[fsUser] = Append(q, new)
        /\ \A a \in Accounts \ {fsUser} : mutations'[a] = mutations[a]
        /\ UNCHANGED <<server, answers, fsUser>>
    BY <1>1, <1>8 DEF Written, q
  <2>2. new.id = d /\ new.value = value
    OBVIOUS
  <2> HIDE DEF new
  <2>3. /\ DOMAIN Append(q, new) = DOMAIN q \cup {Len(q) + 1}
        /\ \A i \in DOMAIN q : Append(q, new)[i] = q[i]
        /\ Append(q, new)[Len(q) + 1] = new
    BY <1>1, <1>8, QueueAppend DEF new, q
  <2>4. \A r \in Requests : d = Profile(r) =>
          stage'[r] # "idle" /\ value = email'[r] /\ fsUser = email'[r]
    BY <1>4, <1>8
  <2>5. PendingProfiles'
    <3> SUFFICES ASSUME NEW a \in Accounts, NEW i \in DOMAIN mutations'[a], NEW r \in Requests,
                        mutations'[a][i].id = Profile(r)
                 PROVE  stage'[r] # "idle" /\ mutations'[a][i].value = email'[r] /\ email'[r] = a
      BY DEF PendingProfiles
    <3>1. CASE a = fsUser /\ i = Len(q) + 1
      BY <2>1, <2>2, <2>3, <2>4, <3>1
    <3>2. CASE a # fsUser \/ i # Len(q) + 1
      <4>1. i \in DOMAIN mutations[a] /\ mutations'[a][i] = mutations[a][i]
        BY <2>1, <2>3, <3>2 DEF q
      <4>2. stage[r] # "idle" /\ mutations[a][i].value = email[r] /\ email[r] = a
        BY <1>6, <4>1 DEF PendingProfiles
      <4> QED
        BY <1>4, <4>1, <4>2
    <3> QED
      BY <3>1, <3>2
  <2>6. CommittedProfiles'
    <3> SUFFICES ASSUME NEW i \in DOMAIN answers, NEW r \in Requests, answers[i] = "ok",
                        Append(q, new)[i].id = Profile(r)
                 PROVE  server[Profile(r)] = email'[r]
      BY <2>1 DEF CommittedProfiles
    <3>1. q[i].id = Profile(r) /\ i \in DOMAIN q
      BY <1>5, <2>3
    <3>2. stage[r] # "idle" /\ server[Profile(r)] = email[r]
      BY <1>1, <1>6, <3>1 DEF PendingProfiles, CommittedProfiles, q
    <3> QED
      BY <1>4, <3>2
  <2>7. ProfileMoves
    <3> SUFFICES ASSUME NEW r \in Requests, stage[r] # "idle", ProfileWaits(r)
                 PROVE  ProfileWaits(r)'
      BY <2>1 DEF ProfileMoves
    <3>1. email'[r] = email[r] /\ email[r] \in Accounts
      BY <1>4
    <3>2. PICK i \in DOMAIN mutations[email[r]] : mutations[email[r]][i].id = Profile(r)
      BY DEF ProfileWaits
    <3>3. i \in DOMAIN mutations'[email[r]] /\ mutations'[email[r]][i] = mutations[email[r]][i]
      BY <2>1, <2>3, <3>1 DEF q
    <3> QED
      BY <3>1, <3>2, <3>3 DEF ProfileWaits
  <2> QED
    BY <2>5, <2>6, <2>7 DEF StoreInv
<1>9. ASSUME screen = "home", NEW value \in Names \cup {Absent}, Written(Category(home), value)
      PROVE  StoreInv' /\ ProfileMoves
  <2>1. home \in Requests
    BY <1>9 DEF SessionTypes, HomeHasRequest
  <2>2. [id |-> Category(home), value |-> value] \in M
    BY <2>1 DEF M, Queues!Mutation, Category
  <2>3. \A r \in Requests : Category(home) # Profile(r)
    BY <1>3, <2>1
  <2> QED
    BY <1>8, <1>9, <2>2, <2>3
<1>10. ASSUME NEW r \in Requests, Written(Profile(r), email[r]), fsUser = email[r], stage[r] # "idle"
       PROVE  StoreInv' /\ ProfileMoves
  <2>1. email[r] \in Users
    BY <1>10 DEF SessionTypes, RequestsNameUsers
  <2>2. [id |-> Profile(r), value |-> email[r]] \in M
    BY <2>1 DEF M, Queues!Mutation, Profile
  <2>3. \A p \in Requests : Profile(r) = Profile(p) => p = r
    BY <1>3
  <2>4. \A p \in Requests : Profile(r) = Profile(p) =>
          stage[p] # "idle" /\ email[r] = email[p] /\ fsUser = email[p]
    BY <1>10, <2>3
  <2> QED
    BY <1>8, <1>10, <2>2, <2>4
<1>11. CASE Dequeued
  <2>1. PICK answer \in {"ok", "refused"} :
          /\ answers # <<>> /\ Head(answers) = answer /\ answers' = Tail(answers)
          /\ mutations' = [mutations EXCEPT ![fsUser] = Tail(@)]
          /\ UNCHANGED <<server, fsUser>>
          /\ answer = "refused" => cut' = cut \cup {r \in Requests : Profile(r) = Head(q).id}
    BY <1>11 DEF Dequeued, Firestore!Dequeue, q
  <2>2. q # <<>>
    BY <1>1, <1>5, <2>1
  <2>3. /\ Head(q) = q[1] /\ 1 \in DOMAIN q
        /\ DOMAIN q = 1..Len(q) /\ DOMAIN Tail(q) = 1..(Len(q) - 1)
        /\ \A i \in DOMAIN Tail(q) : i + 1 \in DOMAIN q /\ Tail(q)[i] = q[i + 1]
        /\ \A j \in DOMAIN q : j > 1 => (j - 1 \in DOMAIN Tail(q) /\ Tail(q)[j - 1] = q[j])
    BY <1>1, <2>2, QueueTail
  <2>4. /\ Head(answers) = answers[1] /\ 1 \in DOMAIN answers
        /\ DOMAIN Tail(answers) = 1..(Len(answers) - 1)
        /\ \A i \in DOMAIN Tail(answers) : i + 1 \in DOMAIN answers /\ Tail(answers)[i] = answers[i + 1]
    BY <1>1, <2>1, QueueTail
  <2>5. /\ mutations'[fsUser] = Tail(q)
        /\ \A a \in Accounts \ {fsUser} : mutations'[a] = mutations[a]
    BY <1>1, <2>1 DEF q
  <2>6. PendingProfiles'
    <3> SUFFICES ASSUME NEW a \in Accounts, NEW i \in DOMAIN mutations'[a], NEW r \in Requests,
                        mutations'[a][i].id = Profile(r)
                 PROVE  stage'[r] # "idle" /\ mutations'[a][i].value = email'[r] /\ email'[r] = a
      BY DEF PendingProfiles
    <3>1. PICK k \in DOMAIN mutations[a] : mutations'[a][i] = mutations[a][k]
      <4>1. CASE a = fsUser
        <5>1. i \in DOMAIN Tail(q) /\ mutations'[a][i] = Tail(q)[i] /\ mutations[a] = q
          BY <2>5, <4>1 DEF q
        <5>2. i + 1 \in DOMAIN q /\ Tail(q)[i] = q[i + 1]
          BY <2>3, <5>1
        <5> QED
          BY <5>1, <5>2
      <4>2. CASE a # fsUser
        BY <2>5, <4>2
      <4> QED
        BY <4>1, <4>2
    <3>2. stage[r] # "idle" /\ mutations[a][k].value = email[r] /\ email[r] = a
      BY <1>6, <3>1 DEF PendingProfiles
    <3> QED
      BY <1>4, <3>1, <3>2
  <2>7. CommittedProfiles'
    <3> SUFFICES ASSUME NEW i \in DOMAIN Tail(answers), NEW r \in Requests, Tail(answers)[i] = "ok",
                        Tail(q)[i].id = Profile(r)
                 PROVE  server[Profile(r)] = email'[r]
      <4>1. mutations'[fsUser'] = Tail(q) /\ answers' = Tail(answers) /\ server' = server
        BY <2>1, <2>5
      <4> QED
        BY <4>1, Zenon DEF CommittedProfiles
    <3>1. /\ i + 1 \in DOMAIN answers /\ answers[i + 1] = "ok" /\ i + 1 \in DOMAIN q
      BY <1>5, <2>4
    <3>2. i \in DOMAIN Tail(q)
      BY <1>1, <1>5, <2>3, <2>4
    <3>3. q[i + 1].id = Profile(r)
      BY <2>3, <3>2
    <3>4. stage[r] # "idle" /\ server[Profile(r)] = email[r]
      BY <1>1, <1>6, <3>1, <3>3 DEF PendingProfiles, CommittedProfiles, q
    <3> QED
      BY <1>4, <3>4
  <2>8. ProfileMoves
    <3> SUFFICES ASSUME NEW r \in Requests, stage[r] # "idle", ProfileWaits(r)
                 PROVE  ProfileWaits(r)' \/ server[Profile(r)] = email[r] \/ r \in cut'
      BY <2>1 DEF ProfileMoves
    <3>1. email'[r] = email[r] /\ email[r] \in Accounts
      BY <1>4
    <3>2. PICK i \in DOMAIN mutations[email[r]] : mutations[email[r]][i].id = Profile(r)
      BY DEF ProfileWaits
    <3>3. CASE email[r] # fsUser
      BY <2>5, <3>1, <3>2, <3>3 DEF ProfileWaits
    <3>4. CASE email[r] = fsUser /\ i > 1
      <4>1. i - 1 \in DOMAIN Tail(q) /\ Tail(q)[i - 1] = q[i]
        BY <2>3, <3>2, <3>4 DEF q
      <4>2. mutations'[email'[r]] = Tail(q) /\ q[i].id = Profile(r)
        BY <2>5, <3>1, <3>2, <3>4 DEF q
      <4> QED
        BY <4>1, <4>2 DEF ProfileWaits
    <3>5. CASE email[r] = fsUser /\ i = 1
      <4>1. q[1].id = Profile(r)
        BY <3>2, <3>5 DEF q
      <4>2. CASE answers[1] = "ok"
        BY <1>6, <2>4, <4>1, <4>2 DEF CommittedProfiles, q
      <4>3. CASE answers[1] # "ok"
        BY <2>1, <2>3, <2>4, <4>1, <4>3
      <4> QED
        BY <4>2, <4>3
    <3>6. i = 1 \/ i > 1 \/ email[r] # fsUser
      BY <1>5, <3>2 DEF q
    <3> QED
      BY <3>3, <3>4, <3>5, <3>6
  <2> QED
    BY <2>6, <2>7, <2>8 DEF StoreInv
<1>12. CASE Answered
  <2> DEFINE n == Len(answers) + 1
  <2>1. /\ n \in DOMAIN q /\ UNCHANGED <<mutations, fsUser>>
        /\ \/ answers' = Append(answers, "ok") /\ server' = [server EXCEPT ![q[n].id] = q[n].value]
           \/ answers' = Append(answers, "refused") /\ server' = server
    BY <1>1, <1>5, <1>12 DEF Answered, Firestore!ServerCommit, Firestore!ServerRefuse,
                      Firestore!ServerAnswers, q
  <2>2. /\ DOMAIN answers' = DOMAIN answers \cup {n}
        /\ \A i \in DOMAIN answers : answers'[i] = answers[i]
        /\ answers'[n] = "ok" => server' = [server EXCEPT ![q[n].id] = q[n].value]
    <3>1. \A x \in {"ok", "refused"} :
            /\ DOMAIN Append(answers, x) = DOMAIN answers \cup {n}
            /\ \A i \in DOMAIN answers : Append(answers, x)[i] = answers[i]
            /\ Append(answers, x)[n] = x
      BY <1>1, QueueAppend
    <3> QED
      BY <2>1, <3>1
  <2> HIDE DEF n
  <2>3. PendingProfiles'
    BY <1>4, <1>6, <2>1 DEF PendingProfiles
  <2>4. \A r \in Requests : q[n].id = Profile(r) =>
          stage[r] # "idle" /\ q[n].value = email[r] /\ email'[r] = email[r]
    BY <1>1, <1>4, <1>6, <2>1 DEF PendingProfiles, q
  <2>5. \A r \in Requests : (stage[r] # "idle" /\ server[Profile(r)] = email[r]) =>
          server'[Profile(r)] = email[r]
    BY <1>1, <1>3, <2>1, <2>4
  <2>6. CommittedProfiles'
    <3> SUFFICES ASSUME NEW i \in DOMAIN answers', NEW r \in Requests, answers'[i] = "ok",
                        q[i].id = Profile(r)
                 PROVE  server'[Profile(r)] = email'[r]
      BY <2>1 DEF CommittedProfiles, q
    <3>1. CASE i = n
      BY <1>1, <1>3, <2>2, <2>4, <3>1
    <3>2. CASE i \in DOMAIN answers
      <4>1. /\ i \in DOMAIN mutations[fsUser] /\ mutations[fsUser][i].id = Profile(r)
            /\ answers[i] = "ok"
        BY <1>5, <2>2, <3>2 DEF q
      <4>2. stage[r] # "idle"
        BY <1>1, <1>6, <4>1 DEF PendingProfiles
      <4>3. server[Profile(r)] = email[r]
        BY <1>6, <3>2, <4>1 DEF CommittedProfiles
      <4> QED
        BY <1>4, <2>5, <4>2, <4>3
    <3> QED
      BY <2>2, <3>1, <3>2
  <2>7. ProfileMoves
    BY <1>4, <2>1, <2>5 DEF ProfileMoves, ProfileWaits
  <2> QED
    BY <2>3, <2>6, <2>7 DEF StoreInv
<1> QED
  BY <1>7, <1>9, <1>10, <1>11, <1>12, StoreCases

\* A sign-up whose account is made goes on to its completion, and its completion
\* to its profile, unless the chain breaks.
LEMMA CompletionStep ==
  ASSUME SessionTypes, Queues!WritesTypeOK, QueueInv, [Next]_vars,
         NEW r \in Requests, stage[r] # "idle", kind[r] = "signup",
         stage[r] = "made" \/ CompletionWaits(r)
  PROVE  stage'[r] = "made" \/ CompletionWaits(r)' \/ ProfileWaits(r)' \/ r \in cut'
<1> DEFINE q == mainQueue
<1>1. /\ q \in Seq(Block) /\ stage \in [Requests -> Stages] /\ email[r] \in Users
      /\ email'[r] = email[r] /\ email[r] # NoUser /\ email[r] \in Accounts
  BY RequestsStable, SessionAssumption DEF SessionTypes, RequestsNameUsers, Accounts
<1>2. ASSUME CompletionWaits(r), NEW b \in Block, q' = Append(q, b) PROVE CompletionWaits(r)'
  <2>1. PICK i \in DOMAIN q : q[i] = Completion(r, email[r])
    BY <1>2 DEF CompletionWaits
  <2>2. i \in DOMAIN q' /\ q'[i] = q[i]
    BY <1>1, <1>2, QueueAppend
  <2> QED
    BY <1>1, <2>1, <2>2 DEF CompletionWaits
<1>3. ASSUME CompletionWaits(r), q # <<>>, q' = Tail(q), q[1] # Completion(r, email[r])
      PROVE  CompletionWaits(r)'
  <2>1. PICK i \in DOMAIN q : q[i] = Completion(r, email[r])
    BY <1>3 DEF CompletionWaits
  <2>2. i > 1
    BY <1>1, <1>3, <2>1, QueueTail
  <2>3. i - 1 \in DOMAIN q' /\ q'[i - 1] = q[i]
    BY <1>1, <1>3, <2>2, QueueTail
  <2> QED
    BY <1>1, <2>1, <2>3 DEF CompletionWaits
<1>4. ASSUME UNCHANGED <<mainQueue, stage>>
      PROVE  stage'[r] = "made" \/ CompletionWaits(r)'
  BY <1>1, <1>4 DEF CompletionWaits
<1>5. CASE Relaunch
  <2>1. cut' = cut \cup {p \in Requests : HalfMade(p)}
    BY <1>5 DEF Relaunch
  <2>2. HalfMade(r)
    BY DEF HalfMade, CompletionWaits
  <2> QED
    BY <2>1, <2>2
<1>6. ASSUME SignOut, UNCHANGED stage PROVE stage'[r] = "made" \/ CompletionWaits(r)'
  <2>1. CASE q' = q
    BY <1>4, <1>6, <2>1
  <2>2. CASE q' = Append(q, Changed(NoUser))
    BY <1>2, <1>6, <2>2, BlockFacts DEF Accounts
  <2> QED
    BY <1>6, <2>1, <2>2 DEF SignOut
<1>7. CASE Logout \/ SignOutByForce
  BY <1>6, <1>7 DEF Logout, SignOutByForce, requestVars
<1>8. ASSUME NEW p \in Requests, NEW u \in Users, Tap(p, u) PROVE stage'[r] = "made" \/ CompletionWaits(r)'
  <2>1. q' = q /\ stage'[r] = stage[r]
    BY <1>1, <1>8 DEF Tap
  <2> QED
    BY <1>1, <2>1 DEF CompletionWaits
<1>9. ASSUME NEW p \in Requests, AccountMade(p) PROVE stage'[r] = "made" \/ CompletionWaits(r)'
  <2>1. q' = q /\ (stage'[r] = stage[r] \/ stage'[r] = "made")
    BY <1>1, <1>9 DEF AccountMade
  <2> QED
    BY <1>1, <2>1 DEF CompletionWaits
<1>10. ASSUME NEW p \in Requests, SignInDone(p) PROVE stage'[r] = "made" \/ CompletionWaits(r)'
  <2>1. email[p] \in Accounts /\ q' = q \o <<Changed(email[p]), Completion(p, email[p])>>
    BY <1>10 DEF SignInDone, SessionTypes
  <2>2. Changed(email[p]) \in Block /\ Completion(p, email[p]) \in Block
    BY <2>1, BlockFacts
  <2>3. /\ DOMAIN q' = DOMAIN q \cup {Len(q) + 1, Len(q) + 2}
        /\ \A i \in DOMAIN q : q'[i] = q[i]
        /\ q'[Len(q) + 2] = Completion(p, email[p])
    BY <1>1, <2>1, <2>2, QueueTwo
  <2>4. CASE p = r
    BY <1>1, <2>3, <2>4 DEF CompletionWaits
  <2>5. CASE p # r
    <3>1. stage'[r] = stage[r]
      BY <1>1, <1>10, <2>5 DEF SignInDone
    <3> QED
      BY <1>1, <2>3, <3>1 DEF CompletionWaits
  <2> QED
    BY <2>4, <2>5
<1>11. ASSUME NEW p \in Requests, RequestFails(p)
       PROVE  stage'[r] = "made" \/ CompletionWaits(r)' \/ r \in cut'
  <2>1. /\ q' = Append(q, Completion(p, NoUser)) /\ stage' = [stage EXCEPT ![p] = "answered"]
        /\ cut' = IF stage[p] = "made" THEN cut \cup {p} ELSE cut
    BY <1>11 DEF RequestFails
  <2>2. Completion(p, NoUser) \in Block
    BY BlockFacts DEF Accounts
  <2>3. CASE CompletionWaits(r)
    BY <1>2, <2>1, <2>2, <2>3
  <2>4. CASE stage[r] = "made"
    BY <1>1, <2>1, <2>4
  <2> QED
    BY <2>3, <2>4
<1>12. ASSUME NEW p \in Requests, NEW u, RunCompletion(p, u)
       PROVE  /\ q # <<>> /\ q' = Tail(q) /\ q[1] = Completion(p, u) /\ q[1] \in Block
              /\ u \in Accounts
              /\ stage[r] = "made" => stage'[r] = "made"
  <2>1. q # <<>> /\ q' = Tail(q) /\ Head(q) = Completion(p, u) /\ stage' = [stage EXCEPT ![p] = "done"]
    BY <1>12 DEF RunCompletion
  <2>2. u \in Accounts /\ stage[p] # "made"
    BY <1>12, CompletionTypes
  <2>3. Head(q) = q[1] /\ q[1] \in Block
    BY <1>1, <2>1, QueueTail
  <2> QED
    BY <1>1, <2>1, <2>2, <2>3
<1>13. ASSUME NEW p \in Requests, ShowError(p) PROVE stage'[r] = "made" \/ CompletionWaits(r)'
  <2>1. q # <<>> /\ q' = Tail(q) /\ q[1] = Completion(p, NoUser) /\ (stage[r] = "made" => stage'[r] = "made")
    BY <1>12, <1>13 DEF ShowError
  <2>2. Completion(p, NoUser).user = NoUser /\ Completion(r, email[r]).user = email[r]
    BY <1>1, BlockFacts DEF Accounts
  <2>3. q[1] # Completion(r, email[r])
    BY <1>1, <2>1, <2>2
  <2> QED
    BY <1>3, <2>1, <2>3
<1>14. ASSUME NEW p \in Requests, RunCompletion(p, email[p]), email[p] # NoUser, StoreProfile(p)
       PROVE  stage'[r] = "made" \/ CompletionWaits(r)' \/ ProfileWaits(r)'
  <2>1. /\ q # <<>> /\ q' = Tail(q) /\ q[1] = Completion(p, email[p]) /\ email[p] \in Accounts
        /\ stage[r] = "made" => stage'[r] = "made"
    BY <1>12, <1>14
  <2>2. CASE p # r
    <3>1. Completion(p, email[p]).request = p /\ Completion(r, email[r]).request = r
      BY <1>1, <2>1, BlockFacts
    <3>2. q[1] # Completion(r, email[r])
      BY <2>1, <2>2, <3>1
    <3> QED
      BY <1>3, <2>1, <3>2
  <2>3. CASE p = r
    <3>1. Written(Profile(r), email[r]) /\ fsUser = email[r]
      BY <1>14, <2>3, StoreProfileWrites
    <3>2. /\ mutations \in [Accounts -> Seq(Queues!Mutation)]
          /\ [id |-> Profile(r), value |-> email[r]] \in Queues!Mutation
      BY <1>1 DEF Queues!WritesTypeOK, Queues!Accounts, Accounts, Queues!Mutation, Profile
    <3> DEFINE new == [id |-> Profile(r), value |-> email[r]]
               w == mutations[email[r]]
    <3>3. mutations'[email[r]] = Append(w, new) /\ w \in Seq(Queues!Mutation)
      BY <1>1, <3>1, <3>2 DEF Written
    <3>4. new.id = Profile(r) /\ new \in Queues!Mutation
      BY <3>2
    <3> HIDE DEF new, w
    <3>5. Len(w) + 1 \in DOMAIN Append(w, new) /\ Append(w, new)[Len(w) + 1] = new
      BY <3>3, <3>4, QueueAppend
    <3> QED
      BY <1>1, <3>3, <3>4, <3>5 DEF ProfileWaits
  <2> QED
    BY <2>2, <2>3
<1>15. ASSUME NEW p \in Requests, ShowHome(p) \/ ShowNothing(p)
       PROVE  stage'[r] = "made" \/ CompletionWaits(r)' \/ ProfileWaits(r)'
  BY <1>14, <1>15 DEF ShowHome, ShowNothing
<1>16. CASE AuthStateDidChange
  <2>1. q # <<>> /\ q' = Tail(q) /\ Head(q).kind = "changed" /\ stage' = stage
    BY <1>16 DEF AuthStateDidChange, requestVars
  <2>2. Completion(r, email[r]).kind = "done"
    BY <1>1, BlockFacts
  <2>3. q[1] # Completion(r, email[r])
    BY <1>1, <2>1, <2>2, QueueTail
  <2> QED
    BY <1>3, <2>1, <2>3
<1>17. CASE \/ UNCHANGED vars \/ \E s \in {"login", "signup"} : Open(s)
            \/ Back \/ OpenProfile
            \/ \E value \in Names \cup {Absent} : WriteCategory(value)
            \/ FirestoreAnswers \/ FirestoreDisconnect \/ WriteAcknowledged \/ WriteRejected
  BY <1>4, <1>17 DEF vars, Open, Back, OpenProfile, WriteCategory, FirestoreAnswers,
                     FirestoreDisconnect, WriteAcknowledged, WriteRejected, sessionVars, requestVars
<1> QED
  BY <1>5, <1>7, <1>8, <1>9, <1>10, <1>11, <1>13, <1>15, <1>16, <1>17 DEF Next

\* An account a sign-up made is one of a sign-up that was sent and granted.
MakersSignedUp == \A r \in makers : kind[r] = "signup" /\ stage[r] \notin {"idle", "sent"}

ProfileInv == StoreInv /\ MakersSignedUp /\ AccountHasProfile

\* Profiles at the first launch: there are none.
LEMMA ProfileInit == Init => ProfileInv
  BY DEF Init, Firestore!ClientInit, Firestore!WritesInit, Firestore!Accounts, Accounts, ProfileInv,
         StoreInv, PendingProfiles, CommittedProfiles, MakersSignedUp, AccountHasProfile

\* A maker stays one, and a new one is a sign-up whose account was just made.
LEMMA MakersStep ==
  ASSUME SessionTypes, MakersSignedUp, [Next]_vars
  PROVE  /\ MakersSignedUp' /\ cut \subseteq cut'
         /\ \A r \in makers' : r \in makers \/ stage'[r] = "made"
<1> USE DEF SessionTypes, MakersSignedUp
<1>1. ASSUME UNCHANGED <<makers, kind>>, cut \subseteq cut',
             \A r \in makers : stage'[r] = stage[r] \/ stage'[r] \notin {"idle", "sent"}
      PROVE  /\ MakersSignedUp' /\ cut \subseteq cut'
             /\ \A r \in makers' : r \in makers \/ stage'[r] = "made"
  BY <1>1
<1>2. CASE Relaunch
  BY <1>1, <1>2 DEF Relaunch
<1>3. ASSUME NEW p \in Requests, NEW u \in Users, Tap(p, u)
      PROVE  /\ MakersSignedUp' /\ cut \subseteq cut'
             /\ \A r \in makers' : r \in makers \/ stage'[r] = "made"
  BY <1>3 DEF Tap, historyVars
<1>4. ASSUME NEW p \in Requests, AccountMade(p)
      PROVE  /\ MakersSignedUp' /\ cut \subseteq cut'
             /\ \A r \in makers' : r \in makers \/ stage'[r] = "made"
  BY <1>4 DEF AccountMade
<1>5. ASSUME NEW p \in Requests, SignInDone(p) \/ RequestFails(p)
      PROVE  /\ MakersSignedUp' /\ cut \subseteq cut'
             /\ \A r \in makers' : r \in makers \/ stage'[r] = "made"
  BY <1>1, <1>5 DEF SignInDone, RequestFails
<1>6. ASSUME NEW p \in Requests, NEW u, RunCompletion(p, u)
      PROVE  /\ MakersSignedUp' /\ cut \subseteq cut'
             /\ \A r \in makers' : r \in makers \/ stage'[r] = "made"
  BY <1>1, <1>6 DEF RunCompletion
<1>7. CASE \E p \in Requests : ShowError(p) \/ ShowHome(p) \/ ShowNothing(p)
  BY <1>6, <1>7 DEF ShowError, ShowHome, ShowNothing
<1>8. CASE \/ UNCHANGED vars \/ \E s \in {"login", "signup"} : Open(s)
           \/ Back \/ OpenProfile \/ Logout \/ SignOutByForce \/ AuthStateDidChange
           \/ \E value \in Names \cup {Absent} : WriteCategory(value)
           \/ FirestoreAnswers \/ FirestoreDisconnect \/ WriteAcknowledged \/ WriteRejected
  BY <1>1, <1>8 DEF vars, Open, Back, OpenProfile, Logout, SignOutByForce, AuthStateDidChange,
                    WriteCategory, FirestoreAnswers, FirestoreDisconnect, WriteAcknowledged,
                    WriteRejected, sessionVars, requestVars, historyVars
<1> QED
  BY <1>2, <1>3, <1>4, <1>5, <1>7, <1>8 DEF Next

\* Every step keeps the profiles.
LEMMA ProfileStep ==
  ASSUME SessionTypes, Queues!WritesTypeOK, QueueInv, ProfileInv, [Next]_vars
  PROVE  ProfileInv'
<1>1. StoreInv' /\ ProfileMoves
  BY StoreStep DEF ProfileInv
<1>2. /\ MakersSignedUp' /\ cut \subseteq cut'
      /\ \A r \in makers' : r \in makers \/ stage'[r] = "made"
  BY MakersStep DEF ProfileInv
<1>3. AccountHasProfile'
  <2> SUFFICES ASSUME NEW r \in makers' \ cut', stage'[r] # "made"
               PROVE  \/ \E i \in DOMAIN mainQueue' : mainQueue'[i] = Completion(r, email'[r])
                      \/ server'[Profile(r)] = email'[r]
                      \/ \E m \in Queued(email[r])' : m.id = Profile(r)
    <3>1. \A r \in makers' \ cut' : stage'[r] # "made" => stage[r] # "idle"
      BY <1>2 DEF ProfileInv, MakersSignedUp
    <3>2. \A r \in makers' \ cut' : r \in Requests
      BY SessionTypesStep DEF SessionTypes
    <3>3. \A r \in makers' \ cut' : stage'[r] # "made" => email'[r] = email[r]
      BY <3>1, <3>2, RequestsStable
    <3> QED
      BY <3>3 DEF AccountHasProfile, Queued
  <2>1. /\ r \in Requests /\ r \in makers /\ r \notin cut'
        /\ stage[r] # "idle" /\ kind[r] = "signup"
    BY <1>2 DEF SessionTypes, ProfileInv, MakersSignedUp
  <2>2. email'[r] = email[r]
    BY <2>1, RequestsStable
  <2>3. \/ stage[r] = "made" \/ CompletionWaits(r)
        \/ server[Profile(r)] = email[r] \/ ProfileWaits(r)
    BY <1>2, <2>1 DEF ProfileInv, AccountHasProfile, CompletionWaits, ProfileWaits, Queued
  <2>4. CompletionWaits(r)' \/ server'[Profile(r)] = email[r] \/ ProfileWaits(r)'
    <3>1. CASE stage[r] = "made" \/ CompletionWaits(r)
      BY <2>1, <3>1, CompletionStep
    <3>2. CASE server[Profile(r)] = email[r] \/ ProfileWaits(r)
      BY <1>1, <2>1, <3>2 DEF ProfileMoves
    <3> QED
      BY <2>3, <3>1, <3>2
  <2> QED
    BY <2>2, <2>4 DEF CompletionWaits, ProfileWaits, Queued
<1> QED
  BY <1>1, <1>2, <1>3 DEF ProfileInv

\* All of it together, from the first launch on.
LEMMA ProfileInvAlways == Spec => [](SessionTypes /\ Queues!WritesTypeOK /\ QueueInv /\ ProfileInv)
<1> DEFINE Before == SessionTypes /\ Queues!WritesTypeOK /\ QueueInv
<1>1. Spec => []Before
  BY QueueInvAlways, SessionIsAClient, Queues!WritesTypeCorrect, PTL
<1>2. Before /\ ProfileInv /\ [Next]_vars => ProfileInv'
  BY ProfileStep
<1> QED
  BY <1>1, <1>2, ProfileInit, PTL DEF Spec

\* A profile waits only in the queue of the account it describes.
THEOREM ProfileInOwnQueueAlways == Spec => []ProfileInOwnQueue
<1>1. SessionTypes /\ Queues!WritesTypeOK /\ ProfileInv => ProfileInOwnQueue
  <2> SUFFICES ASSUME SessionTypes, Queues!WritesTypeOK, ProfileInv,
                      NEW a \in Accounts, NEW i \in DOMAIN mutations[a], mutations[a][i].id[1] = "profile"
               PROVE  mutations[a][i].value = a
    BY DEF ProfileInOwnQueue, Queued
  <2>1. mutations[a][i] \in Queues!Mutation
    BY DEF Queues!WritesTypeOK, Queues!Accounts, Accounts
  <2>2. PICK r \in Requests : mutations[a][i].id = Profile(r)
    BY <2>1 DEF Queues!Mutation, Profile
  <2> QED
    BY <2>2 DEF ProfileInv, StoreInv, PendingProfiles
<1> QED
  BY <1>1, ProfileInvAlways, PTL

\* The account of a sign-up has its profile, or it is on the way, unless the
\* chain broke.
THEOREM AccountHasProfileAlways == Spec => []AccountHasProfile
<1>1. ProfileInv => AccountHasProfile
  BY DEF ProfileInv
<1> QED
  BY <1>1, ProfileInvAlways, PTL

-----------------------------------------------------------------------------
(* The window.                                                              *)

\* A LoginVC or SignUpVC with requests is in the window.
LiveInWindow == live # {} => screen \in {"login", "signup"}

\* A request that is under way is one of the screen in the window, or of one
\* that was left.
RequestsHaveScreens == \A r \in Requests : stage[r] \in Waiting \cup {"answered"} => r \in live \cup abandoned

\* When a completion is going to put up Home, somebody is signed in, or Auth has
\* dropped the user: nobody can log out before.
NextHomeHasUser ==
  \A i \in DOMAIN mainQueue :
    (mainQueue[i].kind = "done" /\ mainQueue[i].user # NoUser /\ mainQueue[i].request \in live)
    => forced \/ currentUser # NoUser

WindowInv ==
  /\ LiveInWindow
  /\ RequestsHaveScreens
  /\ NextHomeHasUser
  /\ TrapsOnlyIfForced
  /\ WindowFitsSession

\* The invariant of the window holds at the first launch.
LEMMA WindowInit == Init => WindowInv
<1> SUFFICES ASSUME Init PROVE WindowInv
  OBVIOUS
<1>1. NextHomeHasUser
  BY DEF Init, NextHomeHasUser
<1> QED
  BY <1>1 DEF Init, WindowInv, LiveInWindow, RequestsHaveScreens, TrapsOnlyIfForced,
              WindowFitsSession, Waiting

\* A request that has a completion on the main queue has only that one, and has
\* not been closed.
CompletionsOnce ==
  \A i \in DOMAIN mainQueue : mainQueue[i].kind = "done" =>
    /\ stage[mainQueue[i].request] = "answered"
    /\ \A j \in DOMAIN mainQueue :
         (mainQueue[j].kind = "done" /\ mainQueue[j].request = mainQueue[i].request) => j = i

\* Every step keeps it: only an open request is answered, and it is answered once.
LEMMA CompletionsOnceStep == ASSUME SessionTypes, CompletionsOnce, [Next]_vars PROVE CompletionsOnce'
<1> DEFINE q == mainQueue
<1>1. q \in Seq(Block) /\ stage \in [Requests -> Stages] /\ currentUser \in Accounts
  BY DEF SessionTypes
<1>2. \A i \in DOMAIN q : q[i].kind = "done" => q[i].request \in Requests
  BY <1>1, BlockFacts
<1>3. ASSUME UNCHANGED mainQueue,
             \A r \in Requests : stage[r] = "answered" => stage'[r] = "answered"
      PROVE  CompletionsOnce'
  BY <1>2, <1>3 DEF CompletionsOnce
<1>4. CASE Relaunch
  <2>1. \A i \in DOMAIN mainQueue' : mainQueue'[i].kind = "changed"
    BY <1>1, <1>4, LaunchQueue, BlockFacts DEF Relaunch
  <2> QED
    BY <2>1 DEF CompletionsOnce
<1>5. ASSUME SignOut, UNCHANGED stage PROVE CompletionsOnce'
  <2>1. Changed(NoUser) \in Block /\ Changed(NoUser).kind = "changed"
    BY BlockFacts DEF Accounts
  <2>2. CASE q' = q
    BY <1>3, <1>5, <2>2
  <2>3. CASE q' = Append(q, Changed(NoUser))
    <3>1. \A i \in DOMAIN q' : \/ q'[i].kind = "changed"
                               \/ i \in DOMAIN q /\ q'[i] = q[i]
      BY <1>1, <2>1, <2>3, QueueAppend
    <3> QED
      BY <1>5, <3>1 DEF CompletionsOnce
  <2> QED
    BY <1>5, <2>2, <2>3 DEF SignOut
<1> DEFINE OneMore(r, n) ==
             \A i \in DOMAIN q' : \/ q'[i].kind = "changed"
                                  \/ i = n /\ q'[i].request = r
                                  \/ i \in DOMAIN q /\ q'[i] = q[i]
<1>6. ASSUME NEW r \in Requests, NEW n \in Nat, OneMore(r, n),
             stage[r] # "answered", stage' = [stage EXCEPT ![r] = "answered"]
      PROVE  CompletionsOnce'
  <2>1. \A i \in DOMAIN q : q[i].kind = "done" =>
          q[i].request # r /\ q[i].request \in Requests /\ stage[q[i].request] = "answered"
    BY <1>2, <1>6 DEF CompletionsOnce
  <2>2. \A i \in DOMAIN q' : q'[i].kind = "done" =>
          \/ i = n /\ q'[i].request = r
          \/ i \in DOMAIN q /\ q'[i] = q[i] /\ q[i].request # r
    BY <1>6, <2>1
  <2>3. \A i \in DOMAIN q' : q'[i].kind = "done" => stage'[q'[i].request] = "answered"
    <3>1. stage'[r] = "answered" /\ \A p \in Requests : stage[p] = "answered" => stage'[p] = "answered"
      BY <1>1, <1>6
    <3> QED
      BY <2>1, <2>2, <3>1
  <2>4. ASSUME NEW i \in DOMAIN q', NEW j \in DOMAIN q', q'[i].kind = "done", q'[j].kind = "done",
               q'[j].request = q'[i].request
        PROVE  j = i
    <3>1. CASE q'[i].request = r
      <4>1. i = n /\ j = n
        BY <2>1, <2>2, <2>4, <3>1
      <4> QED
        BY <4>1
    <3>2. CASE q'[i].request # r
      <4>1. /\ i \in DOMAIN q /\ q'[i] = q[i]
            /\ j \in DOMAIN q /\ q'[j] = q[j]
        BY <2>2, <2>4, <3>2
      <4> QED
        BY <2>4, <4>1 DEF CompletionsOnce
    <3> QED
      BY <3>1, <3>2
  <2> QED
    BY <2>3, <2>4 DEF CompletionsOnce
<1>7. ASSUME NEW r \in Requests, SignInDone(r) PROVE CompletionsOnce'
  <2>1. /\ email[r] \in Accounts /\ stage[r] # "answered"
        /\ stage' = [stage EXCEPT ![r] = "answered"]
        /\ q' = q \o <<Changed(email[r]), Completion(r, email[r])>>
    BY <1>7 DEF SignInDone, Granted, SessionTypes
  <2>2. /\ Changed(email[r]) \in Block /\ Changed(email[r]).kind = "changed"
        /\ Completion(r, email[r]) \in Block /\ Completion(r, email[r]).request = r
    BY <2>1, BlockFacts
  <2>3. OneMore(r, Len(q) + 2) /\ Len(q) + 2 \in Nat
    BY <1>1, <2>1, <2>2, QueueTwo
  <2> HIDE DEF OneMore
  <2> QED
    BY <1>6, <2>1, <2>3
<1>8. ASSUME NEW r \in Requests, RequestFails(r) PROVE CompletionsOnce'
  <2>1. /\ stage[r] # "answered" /\ stage' = [stage EXCEPT ![r] = "answered"]
        /\ q' = Append(q, Completion(r, NoUser))
    BY <1>8 DEF RequestFails, Waiting
  <2>2. Completion(r, NoUser) \in Block /\ Completion(r, NoUser).request = r
    BY BlockFacts DEF Accounts
  <2>3. OneMore(r, Len(q) + 1) /\ Len(q) + 1 \in Nat
    BY <1>1, <2>1, <2>2, QueueAppend
  <2> HIDE DEF OneMore
  <2> QED
    BY <1>6, <2>1, <2>3
<1>9. ASSUME q # <<>>, q' = Tail(q)
      PROVE  /\ \A i \in DOMAIN q' : i + 1 \in DOMAIN q /\ q'[i] = q[i + 1]
             /\ 1 \in DOMAIN q /\ Head(q) = q[1]
             /\ \A i \in DOMAIN q' : i \in Nat \ {0}
  BY <1>1, <1>9, QueueTail
<1>10. CASE AuthStateDidChange
  <2>1. q # <<>> /\ q' = Tail(q) /\ UNCHANGED stage
    BY <1>10 DEF AuthStateDidChange, requestVars
  <2>2. \A i \in DOMAIN q' : i + 1 \in DOMAIN q /\ q'[i] = q[i + 1] /\ i \in Nat
    BY <1>9, <2>1
  <2> QED
    BY <2>1, <2>2 DEF CompletionsOnce
<1>11. ASSUME NEW r \in Requests, NEW u, RunCompletion(r, u) PROVE CompletionsOnce'
  <2>1. /\ q # <<>> /\ q' = Tail(q) /\ Head(q) = Completion(r, u)
        /\ stage' = [stage EXCEPT ![r] = "done"]
    BY <1>11 DEF RunCompletion
  <2>2. /\ \A i \in DOMAIN q' : i + 1 \in DOMAIN q /\ q'[i] = q[i + 1] /\ i \in Nat \ {0}
        /\ 1 \in DOMAIN q /\ q[1].kind = "done" /\ q[1].request = r
    BY <1>9, <2>1 DEF Completion
  <2>3. \A i \in DOMAIN q' : q'[i].kind = "done" => q'[i].request # r
    <3> SUFFICES ASSUME NEW i \in DOMAIN q', q'[i].kind = "done", q'[i].request = r
                 PROVE  FALSE
      OBVIOUS
    <3>1. i + 1 = 1
      BY <2>2 DEF CompletionsOnce
    <3> QED
      BY <2>2, <3>1
  <2>4. \A i \in DOMAIN q' : q'[i].kind = "done" => stage'[q'[i].request] = "answered"
    BY <1>1, <1>2, <2>1, <2>2, <2>3 DEF CompletionsOnce
  <2>5. \A i, j \in DOMAIN q' :
          (q'[i].kind = "done" /\ q'[j].kind = "done" /\ q'[j].request = q'[i].request) => j = i
    BY <2>2 DEF CompletionsOnce
  <2> QED
    BY <2>4, <2>5 DEF CompletionsOnce
<1>12. CASE \E r \in Requests : ShowError(r) \/ ShowHome(r) \/ ShowNothing(r)
  BY <1>11, <1>12 DEF ShowError, ShowHome, ShowNothing
<1>13. CASE Logout \/ SignOutByForce
  BY <1>5, <1>13 DEF Logout, SignOutByForce, requestVars
<1>14. CASE \E r \in Requests : AccountMade(r) \/ \E u \in Users : Tap(r, u)
  BY <1>1, <1>3, <1>14 DEF AccountMade, Tap
<1>15. CASE \/ UNCHANGED vars \/ \E s \in {"login", "signup"} : Open(s)
            \/ Back \/ OpenProfile
            \/ \E value \in Names \cup {Absent} : WriteCategory(value)
            \/ FirestoreAnswers \/ FirestoreDisconnect \/ WriteAcknowledged \/ WriteRejected
  BY <1>3, <1>15 DEF vars, Open, Back, OpenProfile, WriteCategory, FirestoreAnswers,
                     FirestoreDisconnect, WriteAcknowledged, WriteRejected, sessionVars, requestVars
<1> QED
  BY <1>4, <1>7, <1>8, <1>10, <1>12, <1>13, <1>14, <1>15 DEF Next

\* It holds from the first launch on.
LEMMA CompletionsOnceAlways == Spec => [](SessionTypes /\ CompletionsOnce)
<1>1. Init => CompletionsOnce
  BY SessionTypesInit, LaunchQueue, BlockFacts DEF Init, SessionTypes, CompletionsOnce
<1>2. SessionTypes /\ CompletionsOnce /\ [Next]_vars => CompletionsOnce'
  BY CompletionsOnceStep
<1> QED
  BY <1>1, <1>2, SessionTypesInit, SessionTypesStep, PTL DEF Spec

\* The completion of an answered request waits on the main queue, with the user
\* it was answered with or with an error.
AnsweredWaits ==
  \A r \in Requests : stage[r] = "answered" =>
    \E i \in DOMAIN mainQueue :
      mainQueue[i] \in {Completion(r, email[r]), Completion(r, NoUser)}

\* Every step keeps it: blocks leave the main queue at its head only, and each
\* of them takes its own request out of those that wait.
LEMMA AnsweredWaitsStep ==
  ASSUME SessionTypes, AnsweredWaits, [Next]_vars PROVE AnsweredWaits'
<1> DEFINE q == mainQueue
<1>1. /\ q \in Seq(Block) /\ stage \in [Requests -> Stages]
      /\ email \in [Requests -> Accounts] /\ currentUser \in Accounts
  BY DEF SessionTypes
<1>2. ASSUME \A i \in DOMAIN q : i \in DOMAIN q' /\ q'[i] = q[i],
             \A r \in Requests : stage'[r] = "answered" =>
               \/ stage[r] = "answered" /\ email'[r] = email[r]
               \/ \E i \in DOMAIN q' : q'[i] \in {Completion(r, email'[r]), Completion(r, NoUser)}
      PROVE  AnsweredWaits'
  BY <1>2 DEF AnsweredWaits, Completion
<1>3. CASE Relaunch
  BY <1>1, <1>3 DEF Relaunch, Unanswered, AnsweredWaits
<1>4. ASSUME SignOut, UNCHANGED <<stage, email>> PROVE AnsweredWaits'
  <2>1. Changed(NoUser) \in Block
    BY BlockFacts DEF Accounts
  <2>2. CASE q' = q
    BY <1>2, <1>4, <2>2
  <2>3. CASE q' = Append(q, Changed(NoUser))
    <3>1. \A i \in DOMAIN q : i \in DOMAIN q' /\ q'[i] = q[i]
      BY <1>1, <2>1, <2>3, QueueAppend
    <3> QED
      BY <1>2, <1>4, <3>1
  <2> QED
    BY <1>4, <2>2, <2>3 DEF SignOut
<1>5. ASSUME NEW r \in Requests, SignInDone(r) PROVE AnsweredWaits'
  <2>1. /\ email[r] \in Accounts /\ email' = email
        /\ stage' = [stage EXCEPT ![r] = "answered"]
        /\ q' = q \o <<Changed(email[r]), Completion(r, email[r])>>
    BY <1>1, <1>5 DEF SignInDone
  <2>2. Changed(email[r]) \in Block /\ Completion(r, email[r]) \in Block
    BY <2>1, BlockFacts
  <2>3. /\ \A i \in DOMAIN q : i \in DOMAIN q' /\ q'[i] = q[i]
        /\ Len(q) + 2 \in DOMAIN q' /\ q'[Len(q) + 2] = Completion(r, email[r])
    BY <1>1, <2>1, <2>2, QueueTwo
  <2>4. \A p \in Requests \ {r} : stage'[p] = stage[p]
    BY <1>1, <2>1
  <2> QED
    BY <1>2, <2>1, <2>3, <2>4
<1>6. ASSUME NEW r \in Requests, RequestFails(r) PROVE AnsweredWaits'
  <2>1. /\ email' = email /\ stage' = [stage EXCEPT ![r] = "answered"]
        /\ q' = Append(q, Completion(r, NoUser))
    BY <1>6 DEF RequestFails
  <2>2. Completion(r, NoUser) \in Block
    BY BlockFacts DEF Accounts
  <2>3. /\ \A i \in DOMAIN q : i \in DOMAIN q' /\ q'[i] = q[i]
        /\ Len(q) + 1 \in DOMAIN q' /\ q'[Len(q) + 1] = Completion(r, NoUser)
    BY <1>1, <2>1, <2>2, QueueAppend
  <2>4. \A p \in Requests \ {r} : stage'[p] = stage[p]
    BY <1>1, <2>1
  <2> QED
    BY <1>2, <2>1, <2>3, <2>4
<1>7. ASSUME q # <<>>, q' = Tail(q)
      PROVE  \A i \in DOMAIN q : q[i] = Head(q) \/ \E j \in DOMAIN q' : q'[j] = q[i]
  <2>1. /\ DOMAIN q = 1..Len(q) /\ Head(q) = q[1]
        /\ \A i \in DOMAIN q : i > 1 => (i - 1 \in DOMAIN q' /\ q'[i - 1] = q[i])
    BY <1>1, <1>7, QueueTail
  <2>2. \A i \in DOMAIN q : i = 1 \/ i > 1
    BY <1>1, <2>1
  <2> QED
    BY <2>1, <2>2
<1>8. CASE AuthStateDidChange
  <2>1. q # <<>> /\ q' = Tail(q) /\ Head(q).kind = "changed" /\ UNCHANGED <<stage, email>>
    BY <1>8 DEF AuthStateDidChange, requestVars
  <2>2. \A r, u : Head(q) # Completion(r, u)
    BY <2>1 DEF Completion
  <2> QED
    BY <1>7, <2>1, <2>2 DEF AnsweredWaits
<1>9. ASSUME NEW r \in Requests, NEW u, RunCompletion(r, u) PROVE AnsweredWaits'
  <2>1. /\ q # <<>> /\ q' = Tail(q) /\ Head(q) = Completion(r, u)
        /\ stage' = [stage EXCEPT ![r] = "done"] /\ email' = email
    BY <1>9 DEF RunCompletion
  <2>2. \A p, v : p # r => Head(q) # Completion(p, v)
    BY <2>1 DEF Completion
  <2>3. \A p \in Requests : stage'[p] = "answered" => p # r /\ stage[p] = "answered"
    BY <1>1, <2>1
  <2> QED
    BY <1>7, <2>1, <2>2, <2>3 DEF AnsweredWaits
<1>10. CASE \E r \in Requests : ShowError(r) \/ ShowHome(r) \/ ShowNothing(r)
  BY <1>9, <1>10 DEF ShowError, ShowHome, ShowNothing
<1>11. CASE Logout \/ SignOutByForce
  BY <1>4, <1>11 DEF Logout, SignOutByForce, requestVars
<1>12. CASE \E r \in Requests : AccountMade(r) \/ \E u \in Users : Tap(r, u)
  BY <1>1, <1>2, <1>12 DEF AccountMade, Tap
<1>13. CASE \/ UNCHANGED vars \/ \E s \in {"login", "signup"} : Open(s)
            \/ Back \/ OpenProfile
            \/ \E value \in Names \cup {Absent} : WriteCategory(value)
            \/ FirestoreAnswers \/ FirestoreDisconnect \/ WriteAcknowledged \/ WriteRejected
  BY <1>2, <1>13 DEF vars, Open, Back, OpenProfile, WriteCategory, FirestoreAnswers,
                     FirestoreDisconnect, WriteAcknowledged, WriteRejected, sessionVars, requestVars
<1> QED
  BY <1>3, <1>5, <1>6, <1>8, <1>10, <1>11, <1>12, <1>13 DEF Next

\* A request that was answered runs its completion once, and the completion is
\* there to run (the callbacks of createUser and signIn in SignUpVC and LoginVC).
THEOREM AnsweredOnceAlways == Spec => []AnsweredOnce
<1>1. Init => AnsweredWaits
  BY DEF Init, AnsweredWaits
<1>2. SessionTypes /\ AnsweredWaits /\ [Next]_vars => AnsweredWaits'
  BY AnsweredWaitsStep
<1>3. SessionTypes /\ CompletionsOnce /\ AnsweredWaits => AnsweredOnce
  <2> SUFFICES ASSUME SessionTypes, CompletionsOnce, AnsweredWaits, NEW r \in Requests
               PROVE  LET blocks == {i \in DOMAIN mainQueue :
                                       mainQueue[i].kind = "done" /\ mainQueue[i].request = r}
                      IN IF stage[r] = "answered"
                         THEN \E i \in DOMAIN mainQueue :
                                /\ blocks = {i}
                                /\ mainQueue[i] \in {Completion(r, email[r]), Completion(r, NoUser)}
                         ELSE blocks = {}
    BY DEF AnsweredOnce
  <2>1. CASE stage[r] = "answered"
    <3>1. PICK i \in DOMAIN mainQueue :
            mainQueue[i] \in {Completion(r, email[r]), Completion(r, NoUser)}
      BY <2>1 DEF AnsweredWaits
    <3>2. mainQueue[i].kind = "done" /\ mainQueue[i].request = r
      BY <3>1 DEF Completion
    <3>3. \A j \in DOMAIN mainQueue :
            (mainQueue[j].kind = "done" /\ mainQueue[j].request = r) => j = i
      BY <3>2 DEF CompletionsOnce
    <3> QED
      BY <2>1, <3>1, <3>2, <3>3
  <2>2. CASE stage[r] # "answered"
    BY <2>2 DEF CompletionsOnce
  <2> QED
    BY <2>1, <2>2
<1> QED
  BY <1>1, <1>2, <1>3, CompletionsOnceAlways, PTL DEF Spec

\* What a completion that leaves the queue means for those that stay.
LEMMA CompletionWindow ==
  ASSUME SessionTypes, WindowInv, NEW r \in Requests, NEW u, RunCompletion(r, u)
  PROVE  /\ \A i \in DOMAIN mainQueue' : \E j \in DOMAIN mainQueue : mainQueue'[i] = mainQueue[j]
         /\ \A p \in Requests : \A v :
              (\E j \in DOMAIN mainQueue : mainQueue[j] = Completion(p, v)) =>
                \/ p = r /\ v = u
                \/ \E i \in DOMAIN mainQueue' : mainQueue'[i] = Completion(p, v)
         /\ mainQueue[1] = Completion(r, u) /\ 1 \in DOMAIN mainQueue
<1> DEFINE q == mainQueue
<1>1. q \in Seq(Block) /\ q # <<>> /\ q' = Tail(q) /\ Head(q) = Completion(r, u)
  BY DEF SessionTypes, RunCompletion
<1>2. /\ q[1] = Completion(r, u) /\ 1 \in DOMAIN q /\ DOMAIN q = 1..Len(q)
      /\ \A i \in DOMAIN q' : i + 1 \in DOMAIN q /\ q'[i] = q[i + 1]
      /\ \A j \in DOMAIN q : j > 1 => (j - 1 \in DOMAIN q' /\ q'[j - 1] = q[j])
  BY <1>1, QueueTail
<1>3. \A p, v : Completion(p, v) = Completion(r, u) => p = r /\ v = u
  BY DEF Completion
<1>4. ASSUME NEW p \in Requests, NEW v, NEW j \in DOMAIN q, q[j] = Completion(p, v)
      PROVE  \/ p = r /\ v = u
             \/ \E i \in DOMAIN q' : q'[i] = Completion(p, v)
  <2>1. CASE j = 1
    BY <1>2, <1>3, <1>4, <2>1
  <2>2. CASE j > 1
    BY <1>2, <1>4, <2>2
  <2> QED
    BY <1>2, <2>1, <2>2
<1> QED
  BY <1>2, <1>4

\* Every step keeps the invariant of the window.
LEMMA WindowStep ==
  ASSUME SessionTypes, CompletionsOnce, WindowInv, [Next]_vars
  PROVE  WindowInv'
<1> DEFINE q == mainQueue
<1>1. /\ q \in Seq(Block) /\ currentUser \in Accounts /\ screen \in {"auth", "login", "signup", "home"}
      /\ stage \in [Requests -> Stages] /\ live \subseteq Requests /\ abandoned \subseteq Requests
      /\ signedInBy \in Requests \cup {NoRequest} /\ forced \in BOOLEAN /\ trapped \in BOOLEAN
      /\ CompletionsAnswered
      /\ \A r \in Requests : stage[r] # "idle" => email[r] \in Users
  BY DEF SessionTypes, RequestsNameUsers
<1>2. /\ LiveInWindow /\ RequestsHaveScreens /\ NextHomeHasUser
      /\ TrapsOnlyIfForced /\ WindowFitsSession
  BY DEF WindowInv
<1>3. CASE UNCHANGED vars
  BY <1>2, <1>3 DEF vars, requestVars, screenVars, historyVars, WindowInv, LiveInWindow,
                    RequestsHaveScreens, NextHomeHasUser, TrapsOnlyIfForced, WindowFitsSession
<1>4. CASE Relaunch
  <2>1. NextHomeHasUser'
    <3>1. \A i \in DOMAIN mainQueue' : mainQueue'[i].kind = "changed"
      BY <1>1, <1>4, LaunchQueue, BlockFacts DEF Relaunch
    <3> QED
      BY <3>1 DEF NextHomeHasUser
  <2>2. RequestsHaveScreens'
    BY <1>4 DEF Relaunch, RequestsHaveScreens, Unanswered, Waiting
  <2> QED
    BY <1>4, <2>1, <2>2 DEF Relaunch, WindowInv, LiveInWindow, TrapsOnlyIfForced, WindowFitsSession
<1>5. ASSUME NEW s \in {"login", "signup"}, ~trapped, Open(s) PROVE WindowInv'
  BY <1>2, <1>5 DEF Open, requestVars, historyVars, WindowInv, LiveInWindow, RequestsHaveScreens,
                    NextHomeHasUser, TrapsOnlyIfForced, WindowFitsSession
<1>6. ASSUME ~trapped, Back PROVE WindowInv'
  <2>1. RequestsHaveScreens'
    BY <1>2, <1>6 DEF Back, requestVars, RequestsHaveScreens, Unanswered
  <2>2. WindowFitsSession'
    BY <1>2, <1>6 DEF Back, requestVars, WindowFitsSession
  <2> QED
    BY <1>6, <2>1, <2>2 DEF Back, WindowInv, LiveInWindow, NextHomeHasUser, TrapsOnlyIfForced
<1>7. ASSUME ~trapped, OpenProfile PROVE WindowInv'
  <2>1. currentUser = NoUser => forced
    BY <1>2, <1>7 DEF OpenProfile, WindowFitsSession
  <2>2. TrapsOnlyIfForced' /\ WindowFitsSession'
    BY <1>1, <1>2, <1>7, <2>1 DEF OpenProfile, historyVars, TrapsOnlyIfForced, WindowFitsSession
  <2> QED
    BY <1>2, <1>7, <2>2 DEF OpenProfile, requestVars, historyVars, WindowInv, LiveInWindow,
                            RequestsHaveScreens, NextHomeHasUser
<1>8. ASSUME ~trapped, Logout PROVE WindowInv'
  <2>1. live = {}
    BY <1>2, <1>8 DEF Logout, LiveInWindow
  <2> QED
    BY <1>2, <1>8, <2>1 DEF Logout, SignOut, requestVars, historyVars, WindowInv, LiveInWindow,
                            RequestsHaveScreens, NextHomeHasUser, TrapsOnlyIfForced, WindowFitsSession
<1>9. ASSUME NEW r \in Requests, NEW u \in Users, ~trapped, Tap(r, u) PROVE WindowInv'
  <2>1. NextHomeHasUser'
    <3> SUFFICES ASSUME NEW i \in DOMAIN q, q[i].kind = "done", q[i].user # NoUser,
                        q[i].request \in live'
                 PROVE  forced \/ currentUser # NoUser
      BY <1>9 DEF Tap, historyVars, NextHomeHasUser
    <3>1. q[i].request # r
      BY <1>1, <1>9 DEF Tap, CompletionsAnswered
    <3> QED
      BY <1>2, <1>9, <3>1 DEF Tap, NextHomeHasUser
  <2>2. RequestsHaveScreens'
    BY <1>1, <1>2, <1>9 DEF Tap, historyVars, RequestsHaveScreens
  <2> QED
    BY <1>2, <1>9, <2>1, <2>2 DEF Tap, historyVars, WindowInv, LiveInWindow, TrapsOnlyIfForced,
                                  WindowFitsSession
<1>10. ASSUME UNCHANGED <<currentUser, mainQueue, requestVars, screenVars>>,
              UNCHANGED <<signedInBy, abandoned, forced>>
       PROVE  WindowInv'
  BY <1>2, <1>10 DEF requestVars, screenVars, WindowInv, LiveInWindow, RequestsHaveScreens,
                     NextHomeHasUser, TrapsOnlyIfForced, WindowFitsSession
<1>11. CASE \/ \E value \in Names \cup {Absent} : WriteCategory(value)
            \/ FirestoreAnswers \/ FirestoreDisconnect \/ WriteAcknowledged \/ WriteRejected
  BY <1>10, <1>11 DEF WriteCategory, FirestoreAnswers, FirestoreDisconnect, WriteAcknowledged,
                      WriteRejected, sessionVars, historyVars
<1>12. ASSUME NEW r \in Requests, ~trapped, AccountMade(r) PROVE WindowInv'
  <2>1. RequestsHaveScreens'
    BY <1>1, <1>2, <1>12 DEF AccountMade, screenVars, RequestsHaveScreens, Waiting
  <2> QED
    BY <1>2, <1>12, <2>1 DEF AccountMade, screenVars, WindowInv, LiveInWindow, NextHomeHasUser,
                             TrapsOnlyIfForced, WindowFitsSession
<1>13. ASSUME NEW r \in Requests, ~trapped, SignInDone(r) PROVE WindowInv'
  <2>1. /\ email[r] \in Users /\ email[r] # NoUser /\ stage[r] \in Waiting
        /\ r \in live \cup abandoned
    BY <1>1, <1>2, <1>13, SessionAssumption DEF SignInDone, Granted, RequestsHaveScreens, Waiting
  <2>2. Changed(email[r]) \in Block /\ Completion(r, email[r]) \in Block
    BY <2>1, BlockFacts DEF Accounts
  <2>3. /\ currentUser' = email[r] /\ signedInBy' = r /\ forced' = FALSE
        /\ q' = q \o <<Changed(email[r]), Completion(r, email[r])>>
        /\ stage' = [stage EXCEPT ![r] = "answered"]
        /\ UNCHANGED <<screen, live, home, profile, trapped, abandoned>>
    BY <1>13 DEF SignInDone, screenVars
  <2>4. \E i \in DOMAIN q' : q'[i] = Completion(r, email[r])
    BY <1>1, <2>2, <2>3, QueueTwo
  <2>5. screen = "home" => live = {}
    BY <1>2 DEF LiveInWindow
  <2>6. WindowFitsSession'
    BY <2>1, <2>3, <2>4, <2>5 DEF WindowFitsSession
  <2>7. RequestsHaveScreens'
    BY <1>1, <1>2, <2>1, <2>3 DEF RequestsHaveScreens
  <2> QED
    BY <1>2, <1>13, <2>1, <2>3, <2>6, <2>7 DEF WindowInv, LiveInWindow, NextHomeHasUser,
                                               TrapsOnlyIfForced
<1>14. ASSUME NEW r \in Requests, ~trapped, RequestFails(r) PROVE WindowInv'
  <2>1. Completion(r, NoUser) \in Block /\ Completion(r, NoUser).user = NoUser
    BY BlockFacts DEF Accounts
  <2>2. /\ q' = Append(q, Completion(r, NoUser)) /\ stage' = [stage EXCEPT ![r] = "answered"]
        /\ stage[r] \in Waiting
        /\ UNCHANGED <<currentUser, screen, live, home, profile, trapped, signedInBy, abandoned, forced>>
    BY <1>14 DEF RequestFails, screenVars
  <2>3. /\ DOMAIN q' = DOMAIN q \cup {Len(q) + 1} /\ \A i \in DOMAIN q : q'[i] = q[i]
        /\ q'[Len(q) + 1] = Completion(r, NoUser)
    BY <1>1, <2>1, <2>2, QueueAppend
  <2>4. NextHomeHasUser'
    BY <1>2, <2>1, <2>2, <2>3 DEF NextHomeHasUser
  <2>5. WindowFitsSession'
    BY <1>2, <2>2, <2>3 DEF WindowFitsSession
  <2>6. RequestsHaveScreens'
    BY <1>1, <1>2, <2>2 DEF RequestsHaveScreens
  <2> QED
    BY <1>2, <2>2, <2>4, <2>5, <2>6 DEF WindowInv, LiveInWindow, TrapsOnlyIfForced
<1>15. ASSUME ~trapped, SignOutByForce PROVE WindowInv'
  BY <1>2, <1>15 DEF SignOutByForce, SignOut, requestVars, screenVars, WindowInv, LiveInWindow,
                     RequestsHaveScreens, NextHomeHasUser, TrapsOnlyIfForced, WindowFitsSession
<1>16. ASSUME ~trapped, AuthStateDidChange PROVE WindowInv'
  <2>1. q # <<>> /\ q' = Tail(q) /\ Head(q).kind = "changed"
    BY <1>16 DEF AuthStateDidChange
  <2>2. /\ Head(q) = q[1]
        /\ \A i \in DOMAIN q' : i + 1 \in DOMAIN q /\ q'[i] = q[i + 1]
        /\ \A j \in DOMAIN q : j > 1 => (j - 1 \in DOMAIN q' /\ q'[j - 1] = q[j])
        /\ \A j \in DOMAIN q : j = 1 \/ j > 1
    BY <1>1, <2>1, QueueTail
  <2>3. NextHomeHasUser'
    BY <1>2, <1>16, <2>2 DEF AuthStateDidChange, screenVars, historyVars, NextHomeHasUser
  <2>4. \A r, v : (\E j \in DOMAIN q : q[j] = Completion(r, v)) =>
                    \E i \in DOMAIN q' : q'[i] = Completion(r, v)
    <3>1. \A r, v : Completion(r, v).kind = "done"
      BY DEF Completion
    <3> QED
      BY <2>1, <2>2, <3>1
  <2>5. WindowFitsSession'
    BY <1>2, <1>16, <2>4 DEF AuthStateDidChange, screenVars, historyVars, WindowFitsSession
  <2> QED
    BY <1>2, <1>16, <2>3, <2>5 DEF AuthStateDidChange, requestVars, screenVars, historyVars, WindowInv,
                                   LiveInWindow, RequestsHaveScreens, TrapsOnlyIfForced
<1>17. ASSUME NEW r \in Requests, NEW u, RunCompletion(r, u)
       PROVE  /\ UNCHANGED <<currentUser, trapped, signedInBy, forced>>
              /\ stage' = [stage EXCEPT ![r] = "done"]
              /\ email[r] # NoUser
              /\ \A i \in DOMAIN q' : \E j \in DOMAIN q : q'[i] = q[j]
              /\ (\E j \in DOMAIN q : q[j] = Completion(signedInBy, currentUser)) =>
                   \/ signedInBy \notin Requests
                   \/ signedInBy = r /\ currentUser = u
                   \/ \E i \in DOMAIN q' : q'[i] = Completion(signedInBy, currentUser)
              /\ q[1] = Completion(r, u) /\ 1 \in DOMAIN q
  <2>1. /\ UNCHANGED <<currentUser, trapped, signedInBy, forced>>
        /\ stage' = [stage EXCEPT ![r] = "done"]
    BY <1>17 DEF RunCompletion
  <2>2. email[r] # NoUser
    BY <1>1, <1>17, CompletionTypes, SessionAssumption
  <2>3. /\ \A i \in DOMAIN q' : \E j \in DOMAIN q : q'[i] = q[j]
        /\ \A p \in Requests : \A v :
             (\E j \in DOMAIN q : q[j] = Completion(p, v)) =>
               \/ p = r /\ v = u
               \/ \E i \in DOMAIN q' : q'[i] = Completion(p, v)
        /\ q[1] = Completion(r, u) /\ 1 \in DOMAIN q
    BY <1>17, CompletionWindow
  <2> QED
    BY <2>1, <2>2, <2>3
<1>18. ASSUME NEW r \in Requests, ~trapped, ShowError(r) PROVE WindowInv'
  <2>1. UNCHANGED <<screen, home, profile, live, abandoned>> /\ RunCompletion(r, NoUser)
    BY <1>18 DEF ShowError
  <2>2. NextHomeHasUser'
    BY <1>2, <1>17, <2>1 DEF NextHomeHasUser
  <2>3. WindowFitsSession'
    BY <1>1, <1>2, <1>17, <2>1 DEF WindowFitsSession
  <2>4. RequestsHaveScreens' /\ LiveInWindow' /\ TrapsOnlyIfForced'
    BY <1>1, <1>2, <1>17, <2>1 DEF RequestsHaveScreens, Waiting, LiveInWindow, TrapsOnlyIfForced
  <2> QED
    BY <2>2, <2>3, <2>4 DEF WindowInv
<1>19. ASSUME NEW r \in Requests, ~trapped, ShowHome(r) PROVE WindowInv'
  <2>1. /\ RunCompletion(r, email[r]) /\ r \in live
        /\ screen' = "home" /\ profile' = NoUser /\ live' = {}
        /\ abandoned' = abandoned \cup (Unanswered(live) \ {r})
    BY <1>19 DEF ShowHome, TransitionToHome
  <2>2. /\ UNCHANGED <<currentUser, trapped, signedInBy, forced>>
        /\ stage' = [stage EXCEPT ![r] = "done"]
        /\ email[r] # NoUser
        /\ q[1] = Completion(r, email[r]) /\ 1 \in DOMAIN q
    BY <1>17, <2>1
  <2>3. forced \/ currentUser # NoUser
    <3>1. /\ q[1].kind = "done" /\ q[1].user = email[r] /\ q[1].request = r
      BY <2>2 DEF Completion
    <3> QED
      BY <1>2, <2>1, <2>2, <3>1 DEF NextHomeHasUser
  <2>4. WindowFitsSession'
    BY <2>1, <2>2, <2>3 DEF WindowFitsSession
  <2>5. RequestsHaveScreens'
    BY <1>1, <1>2, <2>1, <2>2 DEF RequestsHaveScreens, Unanswered, Waiting
  <2> QED
    BY <1>2, <2>1, <2>2, <2>4, <2>5 DEF WindowInv, LiveInWindow, NextHomeHasUser, TrapsOnlyIfForced
<1>20. ASSUME NEW r \in Requests, ~trapped, ShowNothing(r) PROVE WindowInv'
  <2>1. /\ UNCHANGED <<screen, home, profile, live, abandoned>> /\ RunCompletion(r, email[r])
        /\ r \notin live
    BY <1>20 DEF ShowNothing
  <2>2. NextHomeHasUser'
    BY <1>2, <1>17, <2>1 DEF NextHomeHasUser
  <2>3. stage[r] = "answered"
    <3>1. q[1] = Completion(r, email[r]) /\ 1 \in DOMAIN q
      BY <1>17, <2>1
    <3>2. q[1].kind = "done" /\ q[1].request = r
      BY <3>1 DEF Completion
    <3> QED
      BY <3>1, <3>2 DEF CompletionsOnce
  <2>4. r \in abandoned
    BY <1>2, <2>1, <2>3 DEF RequestsHaveScreens
  <2>5. /\ UNCHANGED <<currentUser, signedInBy, forced>>
        /\ (\E j \in DOMAIN q : q[j] = Completion(signedInBy, currentUser)) =>
             \/ signedInBy \notin Requests
             \/ signedInBy = r
             \/ \E i \in DOMAIN q' : q'[i] = Completion(signedInBy, currentUser)
    BY <1>17, <2>1
  <2>6. WindowFitsSession'
    BY <1>1, <1>2, <2>1, <2>4, <2>5 DEF WindowFitsSession
  <2>7. RequestsHaveScreens' /\ LiveInWindow' /\ TrapsOnlyIfForced'
    BY <1>1, <1>2, <1>17, <2>1 DEF RequestsHaveScreens, Waiting, LiveInWindow, TrapsOnlyIfForced
  <2> QED
    BY <2>2, <2>6, <2>7 DEF WindowInv
<1> QED
  BY <1>3, <1>4, <1>5, <1>6, <1>7, <1>8, <1>9, <1>11, <1>12, <1>13, <1>14, <1>15, <1>16, <1>18,
     <1>19, <1>20 DEF Next

\* The window from the first launch on.
LEMMA WindowInvAlways == Spec => []WindowInv
<1> DEFINE Before == SessionTypes /\ CompletionsOnce
<1>1. Spec => []Before
  BY CompletionsOnceAlways
<1>2. Before /\ WindowInv /\ [Next]_vars => WindowInv'
  BY WindowStep
<1> HIDE DEF Before
<1> QED
  BY <1>1, <1>2, WindowInit, PTL DEF Spec

\* What is in the window fits the session.
THEOREM WindowFitsSessionAlways == Spec => []WindowFitsSession
<1>1. WindowInv => WindowFitsSession
  BY DEF WindowInv
<1> QED
  BY <1>1, WindowInvAlways, PTL

\* ProfileVC finds no user only when Auth has dropped the user.
THEOREM TrapsOnlyIfForcedAlways == Spec => []TrapsOnlyIfForced
<1>1. WindowInv => TrapsOnlyIfForced
  BY DEF WindowInv
<1> QED
  BY <1>1, WindowInvAlways, PTL

=============================================================================
