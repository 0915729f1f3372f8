--------------------------- MODULE FirestoreClient ---------------------------
(***************************************************************************)
(* The write side of Firestore as a client of it sees it: documents are    *)
(* set and deleted while accounts come and go, the stream breaks and the   *)
(* process is restarted.  Session and ProductUpload are clients.           *)
(***************************************************************************)
EXTENDS FirestoreWrites

VARIABLES
  wrote,   \* history: for each document the accounts it was written under
  last,    \* history: for each document the value written last
  refused  \* history: the documents that had a write refused

vars == <<writeVars, wrote, last, refused>>
historyVars == <<wrote, last, refused>>

ClientInit(u) ==
  /\ WritesInit(u)
  /\ wrote = [d \in Ids |-> {}]
  /\ last = [d \in Ids |-> Absent]
  /\ refused = {}

Init == \E u \in Accounts : ClientInit(u)

Write(d, value) ==
  /\ Enqueue(d, value)
  /\ wrote' = [wrote EXCEPT ![d] = @ \cup {fsUser}]
  /\ last' = [last EXCEPT ![d] = value]
  /\ UNCHANGED <<server, answers, fsUser, refused>>

Acknowledged == Dequeue("ok") /\ UNCHANGED historyVars

Rejected ==
  /\ Dequeue("refused")
  /\ refused' = refused \cup {Head(mutations[fsUser]).id}
  /\ UNCHANGED <<wrote, last>>

Answer == (ServerCommit \/ ServerRefuse) /\ UNCHANGED historyVars

Disconnect == StreamBreak /\ UNCHANGED historyVars

\* A notification of Auth: the queue is changed if the account is another one,
\* the stream is restarted in any case.
CredentialSet(u) ==
  /\ IF u = fsUser THEN answers' = <<>> /\ UNCHANGED <<server, mutations, fsUser>>
                   ELSE CredentialChange(u)
  /\ UNCHANGED historyVars

Restart(u) == RestartClient(u) /\ UNCHANGED historyVars

Next ==
  \/ \E d \in Ids, value \in Contents \cup {Absent} : Write(d, value)
  \/ Acknowledged \/ Rejected \/ Answer
  \/ Disconnect
  \/ \E u \in Accounts : CredentialSet(u) \/ Restart(u)

Spec == Init /\ [][Next]_vars

-----------------------------------------------------------------------------

\* The documents with a mutation that is not acknowledged.
Unacknowledged(a) == {mutations[a][i].id : i \in DOMAIN mutations[a]}

\* The document was written under one account at most.
OneAccount(d) == \A a, b \in wrote[d] : a = b

\* When no account has anything pending for a document that was only ever
\* written under one account, and no write of it was refused, the backend has
\* the value written last: breaks, resent writes, account changes and restarts
\* neither lose a write nor leave an older one on top (the order of the write
\* pipeline and of the persisted queue).
LastWriteWins ==
  \A d \in Ids :
    (OneAccount(d) /\ d \notin refused
       /\ \A a \in Accounts : d \notin Unacknowledged(a))
    => server[d] = last[d]

=============================================================================
