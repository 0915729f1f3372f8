--------------------------- MODULE FirestoreWrites ---------------------------
(***************************************************************************)
(* The write side of the Firestore client the app is linked with, as far   *)
(* as the app can tell: setData and delete put a mutation at the tail of   *)
(* the queue of Firestore's current user, the queue survives the process,  *)
(* the backend answers the mutations of that queue in order, and a         *)
(* mutation leaves the queue when its answer is delivered.  Every account  *)
(* has a queue of its own, and the queue is swapped when the account       *)
(* changes; the account is Firestore's, which learns of a sign-in or a     *)
(* sign-out only when Auth's notification runs.                            *)
(***************************************************************************)
EXTENDS Naturals, Sequences

CONSTANTS Ids,      \* document identifiers
          Contents, \* what a document can hold
          Users,    \* accounts
          NoUser,   \* nobody is signed in: an account to Firestore
          Absent    \* no document; as the value of a mutation, a delete

VARIABLES server,    \* the documents of the backend
          mutations, \* for each account its queue of unacknowledged mutations
          answers,   \* the backend's answers on the open write stream that
                     \* the client has not seen, oldest first
          fsUser     \* the account Firestore works for

writeVars == <<server, mutations, answers, fsUser>>

Accounts == Users \cup {NoUser}
Mutation == [id : Ids, value : Contents \cup {Absent}]

WritesTypeOK ==
  /\ server \in [Ids -> Contents \cup {Absent}]
  /\ mutations \in [Accounts -> Seq(Mutation)]
  /\ answers \in Seq({"ok", "refused"})
  /\ Len(answers) =< Len(mutations[fsUser])
  /\ fsUser \in Accounts

WritesInit(u) ==
  /\ server = [d \in Ids |-> Absent]
  /\ mutations = [a \in Accounts |-> <<>>]
  /\ answers = <<>>
  /\ fsUser = u

-----------------------------------------------------------------------------
(* What the client does.                                                    *)

\* Mutant of Enqueue: the newest write overtakes those that wait.
EnqueueInFront(d, value) ==
  mutations' = [mutations EXCEPT ![fsUser] = <<[id |-> d, value |-> value]>> \o @]

\* setData(value) or, with Absent, delete() on document d.  (Not an action:
\* it is what a handler of the app does to the queues.)
Enqueue(d, value) ==
  mutations' = [mutations EXCEPT ![fsUser] = Append(@, [id |-> d, value |-> value])]

\* Mutant of Dequeue: an answered mutation stays in the queue.
DequeueKeepsMutation(answer) ==
  /\ answers # <<>>
  /\ Head(answers) = answer
  /\ answers' = Tail(answers)
  /\ UNCHANGED <<server, mutations, fsUser>>

\* The oldest mutation of the open queue has its answer: it leaves the queue.
Dequeue(answer) ==
  /\ answers # <<>>
  /\ Head(answers) = answer
  /\ answers' = Tail(answers)
  /\ mutations' = [mutations EXCEPT ![fsUser] = Tail(@)]
  /\ UNCHANGED <<server, fsUser>>

\* Mutant of CredentialChange: the stream of the last account stays open.
CredentialChangeKeepsStream(u) ==
  /\ fsUser # u
  /\ fsUser' = u
  /\ UNCHANGED <<server, mutations, answers>>

\* Firestore learns that u is signed in: the queue of u is opened on a new
\* stream, the answers under way on the old stream are lost.
CredentialChange(u) ==
  /\ fsUser # u
  /\ fsUser' = u
  /\ answers' = <<>>
  /\ UNCHANGED <<server, mutations>>

\* Mutant of RestartClient: the queues are in memory only.
RestartClientInMemory(u) ==
  /\ fsUser' = u
  /\ answers' = <<>>
  /\ mutations' = [a \in Accounts |-> <<>>]
  /\ UNCHANGED server

\* The process ends and starts again with u signed in.  The queues are on disk.
RestartClient(u) ==
  /\ fsUser' = u
  /\ answers' = <<>>
  /\ UNCHANGED <<server, mutations>>

\* The stream breaks and is opened again: what the backend has answered and
\* the client has not seen is sent again.
StreamBreak ==
  /\ answers # <<>>
  /\ answers' = <<>>
  /\ UNCHANGED <<server, mutations, fsUser>>

-----------------------------------------------------------------------------
(* What the backend does with the next mutation of the stream.  A refusal   *)
(* closes the stream, so nothing is answered behind one.                    *)

ServerAnswers(answer) ==
  /\ Len(answers) < Len(mutations[fsUser])
  /\ \A i \in 1..Len(answers) : answers[i] # "refused"
  /\ answers' = Append(answers, answer)
  /\ UNCHANGED <<mutations, fsUser>>

ServerCommit ==
  /\ ServerAnswers("ok")
  /\ LET m == mutations[fsUser][Len(answers) + 1]
     IN  server' = [server EXCEPT ![m.id] = m.value]

ServerRefuse ==
  /\ ServerAnswers("refused")
  /\ UNCHANGED server

=============================================================================
