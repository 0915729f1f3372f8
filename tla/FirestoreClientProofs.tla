------------------------ MODULE FirestoreClientProofs ------------------------
(***************************************************************************)
(* The write queues of Firestore for every set of documents, contents and  *)
(* accounts and any number of writes: they stay well formed, and the last  *)
(* write wins.  SessionProofs and ProductUploadProofs apply these results. *)
(***************************************************************************)
EXTENDS FirestoreClient, TLAPS

-----------------------------------------------------------------------------
(* Queues.                                                                  *)

\* What Append does to a sequence, place by place.
LEMMA AppendPlaces ==
  ASSUME NEW S, NEW s \in Seq(S), NEW x \in S
  PROVE  /\ Append(s, x) \in Seq(S)
         /\ Len(Append(s, x)) = Len(s) + 1 /\ Len(s) \in Nat
         /\ DOMAIN s = 1..Len(s)
         /\ DOMAIN Append(s, x) = DOMAIN s \cup {Len(s) + 1}
         /\ \A i \in DOMAIN s : Append(s, x)[i] = s[i]
         /\ Append(s, x)[Len(s) + 1] = x
  OBVIOUS

\* What Tail does to a sequence, place by place.
LEMMA TailPlaces ==
  ASSUME NEW S, NEW s \in Seq(S), s # <<>>
  PROVE  /\ Tail(s) \in Seq(S) /\ Head(s) \in S /\ Head(s) = s[1]
         /\ Len(Tail(s)) = Len(s) - 1 /\ Len(s) \in Nat \ {0}
         /\ DOMAIN s = 1..Len(s) /\ DOMAIN Tail(s) = 1..(Len(s) - 1)
         /\ \A i \in DOMAIN Tail(s) : i + 1 \in DOMAIN s /\ Tail(s)[i] = s[i + 1]
         /\ \A j \in DOMAIN s : j > 1 => (j - 1 \in DOMAIN Tail(s) /\ Tail(s)[j - 1] = s[j])
  OBVIOUS

-----------------------------------------------------------------------------
(* Types.                                                                   *)

ClientTypeOK ==
  /\ WritesTypeOK
  /\ wrote \in [Ids -> SUBSET Accounts]
  /\ last \in [Ids -> Contents \cup {Absent}]
  /\ refused \subseteq Ids

\* Clients start with empty queues.
LEMMA ClientStarts == ASSUME NEW u \in Accounts, ClientInit(u) PROVE ClientTypeOK
  BY DEF ClientInit, WritesInit, ClientTypeOK, WritesTypeOK

\* A write goes to the end of the open queue and is noted in the history.
LEMMA WriteType ==
  ASSUME ClientTypeOK, NEW d \in Ids, NEW value \in Contents \cup {Absent}, Write(d, value)
  PROVE  /\ ClientTypeOK'
         /\ mutations'[fsUser] = Append(mutations[fsUser], [id |-> d, value |-> value])
         /\ \A a \in Accounts \ {fsUser} : mutations'[a] = mutations[a]
<1> USE DEF ClientTypeOK, WritesTypeOK
<1>1. [id |-> d, value |-> value] \in Mutation
  BY DEF Mutation
<1>2. /\ mutations' \in [Accounts -> Seq(Mutation)]
      /\ mutations'[fsUser] = Append(mutations[fsUser], [id |-> d, value |-> value])
      /\ \A a \in Accounts \ {fsUser} : mutations'[a] = mutations[a]
  BY <1>1 DEF Write, Enqueue
<1>3. Len(answers) =< Len(mutations'[fsUser])
  BY <1>1, <1>2
<1>4. wrote' \in [Ids -> SUBSET Accounts]
  BY DEF Write
<1>5. WritesTypeOK'
  BY <1>2, <1>3 DEF Write
<1>6. last' \in [Ids -> Contents \cup {Absent}] /\ refused' \subseteq Ids
  BY DEF Write
<1> HIDE DEF ClientTypeOK, WritesTypeOK
<1> QED
  BY <1>2, <1>4, <1>5, <1>6 DEF ClientTypeOK

\* The delivery of an answer takes the head off the open queue and off the
\* stream, and leaves no more answers than mutations.
LEMMA DequeueType ==
  ASSUME WritesTypeOK, NEW answer, Dequeue(answer)
  PROVE  /\ WritesTypeOK'
         /\ mutations[fsUser] \in Seq(Mutation) /\ mutations[fsUser] # <<>>
         /\ mutations'[fsUser] = Tail(mutations[fsUser])
         /\ \A a \in Accounts \ {fsUser} : mutations'[a] = mutations[a]
         /\ Head(mutations[fsUser]) \in Mutation
<1> USE DEF WritesTypeOK
<1>1. mutations[fsUser] \in Seq(Mutation) /\ mutations[fsUser] # <<>>
  BY DEF Dequeue
<1>2. /\ Tail(mutations[fsUser]) \in Seq(Mutation)
      /\ Len(Tail(mutations[fsUser])) = Len(mutations[fsUser]) - 1
      /\ Head(mutations[fsUser]) \in Mutation
  BY <1>1
<1>3. /\ mutations' \in [Accounts -> Seq(Mutation)]
      /\ mutations'[fsUser] = Tail(mutations[fsUser])
      /\ \A a \in Accounts \ {fsUser} : mutations'[a] = mutations[a]
  BY <1>2 DEF Dequeue
<1>4. Tail(answers) \in Seq({"ok", "refused"}) /\ Len(Tail(answers)) = Len(answers) - 1
  BY DEF Dequeue
<1> QED
  BY <1>1, <1>2, <1>3, <1>4 DEF Dequeue

\* An answer of the backend is to a mutation of the open queue.
LEMMA AnswerType ==
  ASSUME WritesTypeOK, ServerCommit \/ ServerRefuse
  PROVE  /\ WritesTypeOK'
         /\ mutations[fsUser] \in Seq(Mutation)
         /\ Len(answers) + 1 \in 1..Len(mutations[fsUser])
         /\ mutations[fsUser][Len(answers) + 1] \in Mutation
<1> USE DEF WritesTypeOK
<1>1. /\ mutations[fsUser] \in Seq(Mutation)
      /\ Len(answers) + 1 \in 1..Len(mutations[fsUser])
  BY DEF ServerCommit, ServerRefuse, ServerAnswers
<1>2. mutations[fsUser][Len(answers) + 1] \in Mutation
  BY <1>1
<1>3. /\ answers' \in Seq({"ok", "refused"})
      /\ Len(answers') =< Len(mutations[fsUser])
  <2>1. \/ answers' = Append(answers, "ok")
        \/ answers' = Append(answers, "refused")
    BY DEF ServerCommit, ServerRefuse, ServerAnswers
  <2>2. answers' \in Seq({"ok", "refused"}) /\ Len(answers') = Len(answers) + 1
    <3>1. answers \in Seq({"ok", "refused"})
      OBVIOUS
    <3> HIDE DEF WritesTypeOK
    <3> QED
      BY <2>1, <3>1, AppendPlaces
  <2> QED
    BY <1>1, <2>2
<1>4. CASE ServerCommit
  <2> DEFINE m == mutations[fsUser][Len(answers) + 1]
  <2>1. server' = [server EXCEPT ![m.id] = m.value]
    BY <1>4 DEF ServerCommit
  <2>2. server' \in [Ids -> Contents \cup {Absent}]
    <3> HIDE DEF m
    <3> QED
      BY <1>2, <2>1 DEF Mutation, m
  <2> QED
    BY <1>1, <1>2, <1>3, <1>4, <2>2 DEF ServerCommit, ServerAnswers
<1>5. CASE ServerRefuse
  BY <1>1, <1>2, <1>3, <1>5 DEF ServerRefuse, ServerAnswers
<1> QED
  BY <1>4, <1>5

\* Every step keeps the types.
LEMMA ClientTypeStep == ClientTypeOK /\ [Next]_vars => ClientTypeOK'
<1> SUFFICES ASSUME ClientTypeOK, [Next]_vars PROVE ClientTypeOK'
  OBVIOUS
<1> USE DEF ClientTypeOK
<1>1. ASSUME NEW d \in Ids, NEW value \in Contents \cup {Absent}, Write(d, value)
      PROVE  ClientTypeOK'
  BY <1>1, WriteType
<1>2. CASE Acknowledged
  BY <1>2, DequeueType DEF Acknowledged, historyVars
<1>3. CASE Rejected
  BY <1>3, DequeueType DEF Rejected, Mutation
<1>4. CASE Answer
  BY <1>4, AnswerType DEF Answer, historyVars
<1>5. CASE Disconnect
  BY <1>5 DEF Disconnect, StreamBreak, WritesTypeOK, historyVars
<1>6. ASSUME NEW u \in Accounts, CredentialSet(u) PROVE ClientTypeOK'
  <2>1. /\ answers' = <<>> /\ fsUser' \in Accounts
        /\ UNCHANGED <<server, mutations, wrote, last, refused>>
    BY <1>6 DEF CredentialSet, CredentialChange, WritesTypeOK, historyVars
  <2> QED
    BY <2>1 DEF WritesTypeOK
<1>7. ASSUME NEW u \in Accounts, Restart(u) PROVE ClientTypeOK'
  BY <1>7 DEF Restart, RestartClient, WritesTypeOK, historyVars
<1>8. CASE UNCHANGED vars
  BY <1>8 DEF vars, writeVars, WritesTypeOK
<1> QED
  BY <1>1, <1>2, <1>3, <1>4, <1>5, <1>6, <1>7, <1>8 DEF Next

\* The queues, the stream and the backend's documents are well formed, whatever
\* the app writes and whenever accounts change.
THEOREM WritesTypeCorrect == Spec => []WritesTypeOK
<1>1. Init => ClientTypeOK
  BY ClientStarts DEF Init
<1>2. ClientTypeOK => WritesTypeOK
  BY DEF ClientTypeOK
<1> QED
  BY <1>1, <1>2, ClientTypeStep, PTL DEF Spec

-----------------------------------------------------------------------------
(* The last write wins.                                                     *)

\* A mutation waits in the queue of an account its document was written under.
PendingWasWritten ==
  \A a \in Accounts : \A i \in DOMAIN mutations[a] : a \in wrote[mutations[a][i].id]

\* What the backend has committed on the open stream it has, unless a later
\* commit on the stream is to the same document.
CommittedIsThere ==
  \A i \in DOMAIN answers :
    \/ answers[i] = "refused"
    \/ \E j \in DOMAIN answers :
         j > i /\ answers[j] = "ok" /\ mutations[fsUser][j].id = mutations[fsUser][i].id
    \/ server[mutations[fsUser][i].id] = mutations[fsUser][i].value

\* The newest mutation that waits for a document of one account, none of whose
\* writes was refused, is the last write.
NewestIsLast ==
  \A a \in Accounts : \A i \in DOMAIN mutations[a] :
    LET d == mutations[a][i].id IN
    (OneAccount(d) /\ d \notin refused
       /\ \A j \in DOMAIN mutations[a] : j > i => mutations[a][j].id # d)
    => mutations[a][i].value = last[d]

ClientInv ==
  /\ ClientTypeOK
  /\ PendingWasWritten
  /\ CommittedIsThere
  /\ NewestIsLast
  /\ LastWriteWins

\* The invariant holds before the first write.
LEMMA ClientInvStarts == ASSUME NEW u \in Accounts, ClientInit(u) PROVE ClientInv
<1>1. ClientTypeOK
  BY ClientStarts
<1>2. /\ \A a \in Accounts : mutations[a] = <<>>
      /\ answers = <<>>
      /\ \A d \in Ids : server[d] = last[d]
  BY DEF ClientInit, WritesInit
<1> QED
  BY <1>1, <1>2 DEF ClientInv, PendingWasWritten, CommittedIsThere, NewestIsLast, LastWriteWins

\* A write keeps the invariant: it is the newest of its document.
LEMMA WriteStep ==
  ASSUME ClientInv, NEW d \in Ids, NEW value \in Contents \cup {Absent}, Write(d, value)
  PROVE  ClientInv'
<1> DEFINE new == [id |-> d, value |-> value]
           q   == mutations[fsUser]
<1>0. /\ ClientTypeOK
      /\ fsUser \in Accounts
      /\ mutations \in [Accounts -> Seq(Mutation)]
      /\ wrote \in [Ids -> SUBSET Accounts]
      /\ last \in [Ids -> Contents \cup {Absent}]
      /\ answers \in Seq({"ok", "refused"}) /\ Len(answers) =< Len(q)
  BY DEF ClientInv, ClientTypeOK, WritesTypeOK
<1>1. /\ ClientTypeOK'
      /\ mutations'[fsUser] = Append(q, new)
      /\ \A a \in Accounts \ {fsUser} : mutations'[a] = mutations[a]
  BY <1>0, WriteType
<1>2. /\ UNCHANGED <<server, answers, fsUser, refused>>
      /\ fsUser \in Accounts /\ fsUser \in wrote'[d]
      /\ \A e \in Ids : wrote[e] \subseteq wrote'[e]
      /\ \A e \in Ids \ {d} : wrote'[e] = wrote[e] /\ last'[e] = last[e]
      /\ last'[d] = value
  BY <1>0 DEF Write
<1>3. /\ new \in Mutation /\ new.id = d /\ new.value = value
      /\ q \in Seq(Mutation) /\ Append(q, new) \in Seq(Mutation)
      /\ DOMAIN Append(q, new) = DOMAIN q \cup {Len(q) + 1}
      /\ DOMAIN q = 1..Len(q) /\ Len(q) \in Nat
      /\ \A i \in DOMAIN q : Append(q, new)[i] = q[i]
      /\ Append(q, new)[Len(q) + 1] = new
  <2>1. new \in Mutation /\ new.id = d /\ new.value = value
    BY DEF Mutation
  <2>2. q \in Seq(Mutation)
    BY <1>0
  <2> HIDE DEF q, new
  <2> QED
    BY <2>1, <2>2, AppendPlaces
<1>4. \A a \in Accounts : \A i \in DOMAIN mutations[a] : mutations[a][i] \in Mutation
  BY <1>0
<1> HIDE DEF new, q
<1>5. PendingWasWritten'
  <2> SUFFICES ASSUME NEW a \in Accounts, NEW i \in DOMAIN mutations'[a]
               PROVE  a \in wrote'[mutations'[a][i].id]
    BY DEF PendingWasWritten
  <2>1. CASE a = fsUser /\ i = Len(q) + 1
    BY <1>1, <1>2, <1>3, <2>1
  <2>2. CASE a # fsUser \/ i # Len(q) + 1
    <3>1. i \in DOMAIN mutations[a] /\ mutations'[a][i] = mutations[a][i]
      BY <1>1, <1>3, <2>2 DEF q
    <3>2. a \in wrote[mutations[a][i].id] /\ mutations[a][i].id \in Ids
      BY <1>4, <3>1 DEF ClientInv, PendingWasWritten, Mutation
    <3> QED
      BY <1>2, <3>1, <3>2
  <2> QED
    BY <2>1, <2>2
<1>6. CommittedIsThere'
  <2>1. DOMAIN answers \subseteq DOMAIN q
    BY <1>0, <1>3
  <2>2. \A i \in DOMAIN answers : mutations'[fsUser][i] = mutations[fsUser][i]
    BY <1>1, <1>3, <2>1 DEF q
  <2>3. CommittedIsThere
    BY DEF ClientInv
  <2> QED
    BY <1>2, <2>2, <2>3 DEF CommittedIsThere
<1>7. \A e \in Ids : OneAccount(e)' => OneAccount(e)
  BY <1>2 DEF OneAccount
<1>8. NewestIsLast'
  <2> SUFFICES ASSUME NEW a \in Accounts, NEW i \in DOMAIN mutations'[a],
                      \A b, c \in wrote'[mutations'[a][i].id] : b = c,
                      mutations'[a][i].id \notin refused,
                      \A j \in DOMAIN mutations'[a] : j > i => mutations'[a][j].id # mutations'[a][i].id
               PROVE  mutations'[a][i].value = last'[mutations'[a][i].id]
    <3>1. refused' = refused
      BY <1>2
    <3> QED
      BY <3>1, Zenon DEF NewestIsLast, OneAccount
  <2>1. CASE a = fsUser /\ i = Len(q) + 1
    BY <1>1, <1>2, <1>3, <2>1
  <2>2. CASE a # fsUser \/ i # Len(q) + 1
    <3>1. i \in DOMAIN mutations[a] /\ mutations'[a][i] = mutations[a][i]
      BY <1>1, <1>3, <2>2 DEF q
    <3>2. mutations[a][i].id \in Ids
      BY <1>4, <3>1 DEF Mutation
    <3>3. mutations[a][i].id # d
      <4>1. CASE a = fsUser
        <5>1. Len(q) + 1 \in DOMAIN mutations'[a] /\ Len(q) + 1 > i
          BY <1>1, <1>3, <2>2, <4>1
        <5> QED
          BY <1>1, <1>3, <3>1, <4>1, <5>1
      <4>2. CASE a # fsUser
        <5>1. a \in wrote'[mutations[a][i].id]
          BY <1>5, <3>1 DEF PendingWasWritten
        <5>2. \A b \in wrote'[mutations[a][i].id] : b = a
          BY <3>1, <5>1
        <5> QED
          BY <1>2, <4>2, <5>2
      <4> QED
        BY <4>1, <4>2
    <3>4. \A j \in DOMAIN mutations[a] : j > i => mutations[a][j].id # mutations[a][i].id
      <4>1. \A j \in DOMAIN mutations[a] : /\ j \in DOMAIN mutations'[a]
                                           /\ mutations'[a][j] = mutations[a][j]
        <5>1. CASE a = fsUser
          BY <1>1, <1>3, <5>1 DEF q
        <5>2. CASE a # fsUser
          BY <1>1, <5>2 DEF q
        <5> QED
          BY <5>1, <5>2
      <4> QED
        BY <3>1, <4>1
    <3>5. OneAccount(mutations[a][i].id) /\ mutations[a][i].id \notin refused
      BY <1>7, <3>1, <3>2 DEF OneAccount
    <3>6. mutations[a][i].value = last[mutations[a][i].id]
      BY <3>1, <3>4, <3>5 DEF ClientInv, NewestIsLast
    <3> QED
      BY <1>2, <3>1, <3>2, <3>3, <3>6
  <2> QED
    BY <2>1, <2>2
<1>9. LastWriteWins'
  <2> SUFFICES ASSUME NEW e \in Ids, OneAccount(e)', e \notin refused,
                      \A a \in Accounts : e \notin Unacknowledged(a)'
               PROVE  server[e] = last'[e]
    BY <1>2 DEF LastWriteWins
  <2>1. e # d
    BY <1>1, <1>2, <1>3 DEF Unacknowledged
  <2>2. ASSUME NEW a \in Accounts PROVE e \notin Unacknowledged(a)
    <3>1. \A i \in DOMAIN mutations'[a] : mutations'[a][i].id # e
      BY DEF Unacknowledged
    <3>2. \A i \in DOMAIN mutations[a] : mutations'[a][i] = mutations[a][i] /\ i \in DOMAIN mutations'[a]
      BY <1>1, <1>3 DEF q
    <3> QED
      BY <3>1, <3>2 DEF Unacknowledged
  <2>3. server[e] = last[e]
    BY <1>7, <2>2 DEF ClientInv, LastWriteWins
  <2> QED
    BY <1>2, <2>1, <2>3
<1> QED
  BY <1>1, <1>5, <1>6, <1>8, <1>9 DEF ClientInv

\* The delivery of an answer keeps the invariant: the mutation that leaves is
\* on the backend, or its document is one with a refusal.
LEMMA DequeueStep ==
  ASSUME ClientInv, Acknowledged \/ Rejected
  PROVE  ClientInv'
<1> USE DEF ClientInv, ClientTypeOK, WritesTypeOK
<1> DEFINE q == mutations[fsUser]
<1>1. PICK answer \in {"ok", "refused"} : Dequeue(answer)
  BY DEF Acknowledged, Rejected
<1>2. /\ WritesTypeOK' /\ q \in Seq(Mutation) /\ q # <<>>
      /\ mutations'[fsUser] = Tail(q)
      /\ \A a \in Accounts \ {fsUser} : mutations'[a] = mutations[a]
      /\ Head(q) \in Mutation
  BY <1>1, DequeueType
<1>3. /\ UNCHANGED <<server, fsUser, wrote, last>>
      /\ refused \subseteq refused' /\ refused' \subseteq Ids
      /\ answers' = Tail(answers) /\ answers # <<>>
      /\ Head(answers) = "ok" \/ Head(q).id \in refused'
  BY <1>1, <1>2 DEF Acknowledged, Rejected, Dequeue, historyVars, Mutation
<1>4. /\ DOMAIN q = 1..Len(q) /\ Len(q) \in Nat \ {0}
      /\ DOMAIN Tail(q) = 1..(Len(q) - 1)
      /\ \A i \in DOMAIN Tail(q) : i + 1 \in DOMAIN q /\ Tail(q)[i] = q[i + 1]
      /\ Head(q) = q[1]
      /\ \A i \in DOMAIN q : q[i] \in Mutation
      /\ \A j \in DOMAIN q : j > 1 => (j - 1 \in DOMAIN Tail(q) /\ Tail(q)[j - 1] = q[j])
  <2> HIDE DEF q, ClientInv, ClientTypeOK, WritesTypeOK
  <2> QED
    BY <1>2, TailPlaces
<1>5. /\ DOMAIN answers = 1..Len(answers) /\ Len(answers) \in Nat \ {0}
      /\ DOMAIN answers' = 1..(Len(answers) - 1)
      /\ \A i \in DOMAIN answers' : i + 1 \in DOMAIN answers /\ answers'[i] = answers[i + 1]
      /\ Len(answers) =< Len(q)
      /\ Head(answers) = answers[1]
      /\ \A j \in DOMAIN answers : j > 1 => (j - 1 \in DOMAIN answers' /\ answers'[j - 1] = answers[j])
  <2>1. answers \in Seq({"ok", "refused"}) /\ Len(answers) =< Len(q)
    OBVIOUS
  <2> HIDE DEF q, ClientInv, ClientTypeOK, WritesTypeOK
  <2> QED
    BY <1>3, <2>1, TailPlaces
<1>6. ClientTypeOK'
  BY <1>2, <1>3
<1> HIDE DEF q, ClientInv, ClientTypeOK, WritesTypeOK
<1>0. PendingWasWritten /\ CommittedIsThere /\ NewestIsLast /\ LastWriteWins
  BY DEF ClientInv
<1>7. ASSUME NEW a \in Accounts, NEW i \in DOMAIN mutations'[a]
      PROVE  LET k == IF a = fsUser THEN i + 1 ELSE i
             IN  k \in DOMAIN mutations[a] /\ mutations'[a][i] = mutations[a][k]
  BY <1>2, <1>4 DEF q
<1>12. fsUser \in Accounts
  BY DEF ClientInv, ClientTypeOK, WritesTypeOK
<1>8. PendingWasWritten'
  BY <1>0, <1>3, <1>7 DEF PendingWasWritten
<1>9. CommittedIsThere'
  <2> SUFFICES ASSUME NEW i \in DOMAIN answers', answers'[i] # "refused",
                      \A j \in DOMAIN answers' :
                        (j > i /\ answers'[j] = "ok") => Tail(q)[j].id # Tail(q)[i].id
               PROVE  server[Tail(q)[i].id] = Tail(q)[i].value
    <3>1. mutations'[fsUser'] = Tail(q) /\ server' = server
      BY <1>2, <1>3
    <3> QED
      BY <3>1, Zenon DEF CommittedIsThere
  <2>1. /\ i + 1 \in DOMAIN answers /\ answers[i + 1] # "refused"
        /\ i \in DOMAIN Tail(q) /\ Tail(q)[i] = q[i + 1]
    BY <1>4, <1>5
  <2>2. \A j \in DOMAIN answers : (j > i + 1 /\ answers[j] = "ok") => q[j].id # q[i + 1].id
    <3> SUFFICES ASSUME NEW j \in DOMAIN answers, j > i + 1, answers[j] = "ok"
                 PROVE  q[j].id # q[i + 1].id
      OBVIOUS
    <3>1. /\ j - 1 \in DOMAIN answers' /\ j - 1 > i /\ j - 1 \in DOMAIN Tail(q)
          /\ (j - 1) + 1 = j
      BY <1>4, <1>5
    <3>2. answers'[j - 1] = "ok" /\ Tail(q)[j - 1] = q[j]
      BY <1>4, <1>5, <3>1
    <3> QED
      BY <2>1, <3>1, <3>2
  <2> QED
    BY <1>0, <2>1, <2>2 DEF CommittedIsThere, q
<1>10. NewestIsLast'
  <2> SUFFICES ASSUME NEW a \in Accounts, NEW i \in DOMAIN mutations'[a],
                      \A b, c \in wrote[mutations'[a][i].id] : b = c,
                      mutations'[a][i].id \notin refused',
                      \A j \in DOMAIN mutations'[a] : j > i => mutations'[a][j].id # mutations'[a][i].id
               PROVE  mutations'[a][i].value = last[mutations'[a][i].id]
    <3>1. last' = last /\ wrote' = wrote
      BY <1>3
    <3> QED
      BY <3>1, Zenon DEF NewestIsLast, OneAccount
  <2>1. CASE a = fsUser
    <3>1. /\ i + 1 \in DOMAIN mutations[a] /\ mutations'[a][i] = mutations[a][i + 1]
          /\ i \in DOMAIN Tail(q)
      BY <1>2, <1>7, <2>1
    <3>2. \A j \in DOMAIN mutations[a] : j > i + 1 => mutations[a][j].id # mutations[a][i + 1].id
      <4> SUFFICES ASSUME NEW j \in DOMAIN mutations[a], j > i + 1
                   PROVE  mutations[a][j].id # mutations[a][i + 1].id
        OBVIOUS
      <4>1. j \in 1..Len(q) /\ i \in 1..(Len(q) - 1)
        BY <1>4, <2>1, <3>1 DEF q
      <4>2. j - 1 \in DOMAIN Tail(q) /\ j - 1 > i /\ Tail(q)[j - 1] = q[j]
        BY <1>4, <4>1
      <4>3. mutations'[a] = Tail(q) /\ mutations[a] = q
        BY <1>2, <2>1 DEF q
      <4>4. Tail(q)[j - 1].id # Tail(q)[i].id
        BY <4>2, <4>3
      <4> QED
        BY <3>1, <4>2, <4>3, <4>4
    <3> QED
      BY <1>0, <1>3, <1>12, <3>1, <3>2 DEF NewestIsLast, OneAccount
  <2>2. CASE a # fsUser
    <3>1. mutations'[a] = mutations[a]
      BY <1>2, <2>2
    <3> QED
      BY <1>0, <1>3, <3>1 DEF NewestIsLast, OneAccount
  <2> QED
    BY <2>1, <2>2
<1>11. LastWriteWins'
  <2> SUFFICES ASSUME NEW e \in Ids, OneAccount(e), e \notin refused',
                      \A a \in Accounts : e \notin Unacknowledged(a)'
               PROVE  server[e] = last[e]
    BY <1>3 DEF LastWriteWins, OneAccount
  <2>1. \A a \in Accounts : \A i \in DOMAIN mutations'[a] : mutations'[a][i].id # e
    BY DEF Unacknowledged
  <2>2. \A a \in Accounts \ {fsUser} : e \notin Unacknowledged(a)
    BY <1>2, <2>1 DEF Unacknowledged
  <2>3. \A j \in DOMAIN q : j > 1 => q[j].id # e
    <3> SUFFICES ASSUME NEW j \in DOMAIN q, j > 1 PROVE q[j].id # e
      OBVIOUS
    <3>1. j - 1 \in DOMAIN Tail(q) /\ Tail(q)[j - 1] = q[j]
      BY <1>4
    <3>2. Tail(q)[j - 1].id # e
      BY <1>2, <1>12, <2>1, <3>1
    <3> QED
      BY <3>1, <3>2
  <2>4. CASE q[1].id # e
    <3>1. \A j \in DOMAIN q : q[j].id # e
      BY <1>4, <2>3, <2>4
    <3>2. e \notin Unacknowledged(fsUser)
      BY <3>1 DEF Unacknowledged, q
    <3> QED
      BY <1>0, <1>3, <2>2, <3>2 DEF LastWriteWins
  <2>5. CASE q[1].id = e
    <3>1. 1 \in DOMAIN q /\ 1 \in DOMAIN answers /\ answers[1] = "ok"
      BY <1>3, <1>4, <1>5, <2>5
    <3>2. q[1].value = last[e]
      BY <1>0, <1>3, <1>12, <2>3, <2>5, <3>1 DEF NewestIsLast, q
    <3>3. \A j \in DOMAIN answers : j > 1 => q[j].id # e
      BY <1>4, <1>5, <2>3
    <3>4. server[e] = q[1].value
      BY <1>0, <2>5, <3>1, <3>3 DEF CommittedIsThere, q
    <3> QED
      BY <3>2, <3>4
  <2> QED
    BY <2>4, <2>5
<1> QED
  BY <1>6, <1>8, <1>9, <1>10, <1>11 DEF ClientInv

\* An answer of the backend keeps the invariant: it is to a mutation that waits.
LEMMA AnswerStep == ASSUME ClientInv, Answer PROVE ClientInv'
<1> USE DEF ClientInv, ClientTypeOK, WritesTypeOK
<1> DEFINE q == mutations[fsUser]
           n == Len(answers) + 1
<1>1. /\ WritesTypeOK' /\ q \in Seq(Mutation) /\ n \in 1..Len(q) /\ q[n] \in Mutation
  BY AnswerType DEF Answer
<1>2. UNCHANGED <<mutations, fsUser, wrote, last, refused>>
  BY DEF Answer, ServerCommit, ServerRefuse, ServerAnswers, historyVars
<1>3. /\ DOMAIN answers = 1..Len(answers) /\ Len(answers) \in Nat
      /\ DOMAIN answers' = DOMAIN answers \cup {n}
      /\ \A i \in DOMAIN answers : answers'[i] = answers[i]
      /\ \/ answers'[n] = "ok" /\ server' = [server EXCEPT ![q[n].id] = q[n].value]
         \/ answers'[n] = "refused" /\ server' = server
  <2>1. \/ answers' = Append(answers, "ok") /\ server' = [server EXCEPT ![q[n].id] = q[n].value]
        \/ answers' = Append(answers, "refused") /\ server' = server
    BY DEF Answer, ServerCommit, ServerRefuse, ServerAnswers
  <2>2. answers \in Seq({"ok", "refused"})
    OBVIOUS
  <2>3. PICK x \in {"ok", "refused"} : answers' = Append(answers, x)
    BY <2>1
  <2> HIDE DEF q, ClientInv, ClientTypeOK, WritesTypeOK
  <2>4. /\ DOMAIN answers = 1..Len(answers) /\ Len(answers) \in Nat
        /\ DOMAIN answers' = DOMAIN answers \cup {n}
        /\ \A i \in DOMAIN answers : answers'[i] = answers[i]
        /\ answers'[n] = x
    BY <2>2, <2>3, AppendPlaces
  <2>5. \A y \in {"ok", "refused"} : answers' = Append(answers, y) => answers'[n] = y
    BY <2>2, AppendPlaces
  <2> QED
    BY <2>1, <2>4, <2>5
<1>4. ClientTypeOK'
  BY <1>1, <1>2
<1> HIDE DEF q, n
<1>5. PendingWasWritten' /\ NewestIsLast'
  BY <1>2 DEF PendingWasWritten, NewestIsLast, OneAccount
<1>6. /\ n \in Nat /\ n \notin DOMAIN answers
      /\ \A i \in DOMAIN answers : n > i /\ i \in 1..Len(q) /\ q[i] \in Mutation
      /\ n \in 1..Len(q) /\ q[n] \in Mutation /\ n \in DOMAIN answers'
  BY <1>1, <1>3 DEF n
<1>7. CommittedIsThere'
  <2> SUFFICES ASSUME NEW i \in DOMAIN answers', answers'[i] # "refused",
                      \A j \in DOMAIN answers' :
                        (j > i /\ answers'[j] = "ok") => q[j].id # q[i].id
               PROVE  server'[q[i].id] = q[i].value
    BY <1>2 DEF CommittedIsThere, q
  <2>1. CASE i = n
    BY <1>3, <1>6, <2>1 DEF Mutation
  <2>2. CASE i # n
    <3>1. i \in DOMAIN answers /\ answers[i] # "refused" /\ n > i
      BY <1>3, <1>6, <2>2
    <3>2. \A j \in DOMAIN answers : (j > i /\ answers[j] = "ok") => q[j].id # q[i].id
      BY <1>3
    <3>3. server[q[i].id] = q[i].value
      BY <3>1, <3>2 DEF CommittedIsThere, q
    <3>4. CASE server' = server
      BY <3>3, <3>4
    <3>5. CASE answers'[n] = "ok" /\ server' = [server EXCEPT ![q[n].id] = q[n].value]
      BY <1>6, <3>1, <3>3, <3>5 DEF Mutation
    <3> QED
      BY <1>3, <3>4, <3>5
  <2> QED
    BY <2>1, <2>2
<1>8. LastWriteWins'
  <2> SUFFICES ASSUME NEW e \in Ids, OneAccount(e), e \notin refused,
                      \A a \in Accounts : e \notin Unacknowledged(a)
               PROVE  server'[e] = last[e]
    BY <1>2 DEF LastWriteWins, OneAccount, Unacknowledged
  <2>1. q[n].id # e
    BY <1>1, <1>6 DEF Unacknowledged, q
  <2>2. server'[e] = server[e]
    BY <1>3, <2>1
  <2> QED
    BY <2>2 DEF LastWriteWins
<1> QED
  BY <1>4, <1>5, <1>7, <1>8

\* A step that empties the stream keeps the invariant: the queues are as before.
LEMMA StreamLostStep ==
  ASSUME ClientInv, ClientTypeOK', answers' = <<>>,
         UNCHANGED <<server, mutations, wrote, last, refused>>
  PROVE  ClientInv'
<1> USE DEF ClientInv
<1>1. CommittedIsThere'
  BY DEF CommittedIsThere
<1>2. PendingWasWritten' /\ NewestIsLast' /\ LastWriteWins'
  BY DEF PendingWasWritten, NewestIsLast, LastWriteWins, OneAccount, Unacknowledged
<1> QED
  BY <1>1, <1>2

\* Every step keeps the invariant.
LEMMA ClientInvStep == ClientInv /\ [Next]_vars => ClientInv'
<1> SUFFICES ASSUME ClientInv, [Next]_vars PROVE ClientInv'
  OBVIOUS
<1>1. ClientTypeOK'
  BY ClientTypeStep DEF ClientInv
<1>2. ASSUME NEW d \in Ids, NEW value \in Contents \cup {Absent}, Write(d, value)
      PROVE  ClientInv'
  BY <1>2, WriteStep
<1>3. CASE Acknowledged \/ Rejected
  BY <1>3, DequeueStep
<1>4. CASE Answer
  BY <1>4, AnswerStep
<1>5. CASE Disconnect
  BY <1>1, <1>5, StreamLostStep DEF Disconnect, StreamBreak, historyVars
<1>6. ASSUME NEW u \in Accounts, CredentialSet(u) PROVE ClientInv'
  BY <1>1, <1>6, StreamLostStep DEF CredentialSet, CredentialChange, historyVars
<1>7. ASSUME NEW u \in Accounts, Restart(u) PROVE ClientInv'
  BY <1>1, <1>7, StreamLostStep DEF Restart, RestartClient, historyVars
<1>8. CASE UNCHANGED vars
  BY <1>1, <1>8 DEF vars, writeVars, ClientInv, PendingWasWritten, CommittedIsThere, NewestIsLast,
                    LastWriteWins, OneAccount, Unacknowledged
<1> QED
  BY <1>2, <1>3, <1>4, <1>5, <1>6, <1>7, <1>8 DEF Next

\* A document that was written under one account at most and had nothing
\* refused ends up with the value written last, once nothing waits for it:
\* whatever was resent, and whichever accounts came and went.
THEOREM LastWriteWinsAlways == Spec => []LastWriteWins
<1>1. Init => ClientInv
  BY ClientInvStarts DEF Init
<1>2. ClientInv => LastWriteWins
  BY DEF ClientInv
<1> QED
  BY <1>1, <1>2, ClientInvStep, PTL DEF Spec

=============================================================================
