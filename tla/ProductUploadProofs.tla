------------------------- MODULE ProductUploadProofs -------------------------
(***************************************************************************)
(* The safety properties of ProductUpload, and that it implements          *)
(* WarrantySaving and uses the write queues as FirestoreClient says, for    *)
(* every number of users, forms, pictures and presses.                     *)
(***************************************************************************)
EXTENDS ProductUpload, TLAPS

\* What is proved of the write queues on their own.
Queues == INSTANCE FirestoreClientProofs WITH Ids <- Presses, Contents <- Documents

-----------------------------------------------------------------------------
(* What the operations on the queues preserve.                              *)

\* A setData keeps the queues well formed.
LEMMA EnqueueType ==
  ASSUME WritesTypeOK, NEW d \in Presses, NEW v \in Documents \cup {Absent},
         Enqueue(d, v), UNCHANGED <<server, answers, fsUser>>
  PROVE  WritesTypeOK'
<1> USE DEF WritesTypeOK
<1>1. [id |-> d, value |-> v] \in Mutation
  BY DEF Mutation
<1>2. mutations' \in [Accounts -> Seq(Mutation)]
  BY <1>1 DEF Enqueue
<1>3. Len(answers) =< Len(mutations'[fsUser])
  BY <1>1, <1>2 DEF Enqueue
<1> QED
  BY <1>2, <1>3

\* The delivery of an answer keeps the queues well formed: no more answers
\* than mutations are left.
LEMMA DequeueType ==
  ASSUME WritesTypeOK, NEW answer, Dequeue(answer)
  PROVE  WritesTypeOK'
<1> USE DEF WritesTypeOK
<1>1. mutations[fsUser] \in Seq(Mutation) /\ mutations[fsUser] # <<>>
  BY DEF Dequeue
<1>2. /\ Tail(mutations[fsUser]) \in Seq(Mutation)
      /\ Len(Tail(mutations[fsUser])) = Len(mutations[fsUser]) - 1
  BY <1>1
<1>3. mutations' \in [Accounts -> Seq(Mutation)]
  BY <1>2 DEF Dequeue
<1>4. Tail(answers) \in Seq({"ok", "refused"}) /\ Len(Tail(answers)) = Len(answers) - 1
  BY DEF Dequeue
<1> QED
  BY <1>2, <1>3, <1>4 DEF Dequeue

\* An answer of the backend is to a mutation of the queue that is open.
LEMMA AnswersType ==
  ASSUME WritesTypeOK, ServerCommit \/ ServerRefuse
  PROVE  WritesTypeOK'
<1> USE DEF WritesTypeOK
<1>1. CASE ServerCommit
  <2> DEFINE m == mutations[fsUser][Len(answers) + 1]
  <2>1. /\ mutations[fsUser] \in Seq(Mutation)
        /\ Len(answers) + 1 \in 1..Len(mutations[fsUser])
    BY <1>1 DEF ServerCommit, ServerAnswers
  <2>2. m \in Mutation
    BY <2>1
  <2>3. server' = [server EXCEPT ![m.id] = m.value]
    BY <1>1 DEF ServerCommit
  <2>4. server' \in [Presses -> Documents \cup {Absent}]
    <3> HIDE DEF m
    <3> QED
      BY <2>2, <2>3 DEF Mutation
  <2>5. /\ answers' \in Seq({"ok", "refused"})
        /\ Len(answers') =< Len(mutations[fsUser])
    BY <1>1 DEF ServerCommit, ServerAnswers
  <2> QED
    BY <1>1, <2>4, <2>5 DEF ServerCommit, ServerAnswers
<1>2. CASE ServerRefuse
  BY <1>2 DEF ServerRefuse, ServerAnswers
<1> QED
  BY <1>1, <1>2

-----------------------------------------------------------------------------
(* Types.  A document names a form, so the type invariant needs that a      *)
(* press that was made has one.                                             *)

PressesHaveForms == \A p \in Presses : stage[p] # "idle" => pressForm[p] \in Forms

Types == TypeOK /\ PressesHaveForms

\* The types hold when the app starts.
LEMMA TypesInit == Init => Types
  BY UploadAssumption DEF Init, Types, TypeOK, PressesHaveForms, Client!ClientInit,
                          Client!WritesInit, WritesTypeOK, Accounts, Client!Accounts, Stages, Mutation

\* Every step keeps the types, one case for each action.
LEMMA TypesStep == Types /\ [Next]_vars => Types'
<1> SUFFICES ASSUME Types, [Next]_vars PROVE Types'
  OBVIOUS
<1> USE UploadAssumption DEF Types, TypeOK, PressesHaveForms, clientVars
<1>1. CASE UNCHANGED vars
  BY <1>1 DEF vars, documentVars, screenVars, formVars, chainVars, storageVars,
              historyVars, WritesTypeOK
<1>2. ASSUME NEW image \in Images, PickWarranty(image) PROVE Types'
  BY <1>2 DEF PickWarranty, documentVars, formVars, chainVars, storageVars,
              historyVars, WritesTypeOK
<1>3. ASSUME NEW image \in Images, PickProduct(image) PROVE Types'
  BY <1>3 DEF PickProduct, documentVars, chainVars, storageVars, WritesTypeOK
<1>4. ASSUME NEW f \in Forms, CameraNext(f) PROVE Types'
  BY <1>4 DEF CameraNext, documentVars, chainVars, storageVars, historyVars, WritesTypeOK
<1>5. CASE Back
  BY <1>5 DEF Back, documentVars, formVars, chainVars, storageVars, historyVars, WritesTypeOK
<1>6. CASE SwitchTab
  BY <1>6 DEF SwitchTab, documentVars, formVars, chainVars, storageVars, historyVars, WritesTypeOK
<1>7. CASE OpenPicker
  BY <1>7 DEF OpenPicker, documentVars, formVars, chainVars, storageVars, historyVars, WritesTypeOK
<1>8. CASE ClosePicker
  BY <1>8 DEF ClosePicker, documentVars, formVars, chainVars, storageVars, historyVars, WritesTypeOK
<1>9. ASSUME NEW p \in Presses, PressNext(p) PROVE Types'
  BY <1>9 DEF PressNext, documentVars, screenVars, formVars, storageVars, Stages, Accounts,
              WritesTypeOK
<1>10. ASSUME NEW p \in Presses, StorageKeeps(p) PROVE Types'
  BY <1>10 DEF StorageKeeps, documentVars, screenVars, formVars, chainVars, historyVars,
               WritesTypeOK
<1>11. ASSUME NEW p \in Presses, WarrantyPut(p) PROVE Types'
  BY <1>11 DEF WarrantyPut, documentVars, screenVars, formVars, storageVars, historyVars,
               Stages, WritesTypeOK
<1>12. ASSUME NEW p \in Presses, NEW images \in SUBSET Kinds, stage[p] \in Uploading,
              UploadProduct(p, images)
       PROVE  /\ WritesTypeOK' /\ stage' \in [Presses -> Stages]
              /\ wrote' \in [Presses -> SUBSET Accounts] /\ refused' \subseteq Presses
              /\ last' \in [Presses -> Documents \cup {Absent}]
  <2>1. [form |-> pressForm[p], owner |-> currentUser, images |-> images] \in Documents
    BY <1>12 DEF Documents, Uploading, Accounts
  <2>2. WritesTypeOK'
    BY <1>12, <2>1, EnqueueType DEF UploadProduct, DocumentId
  <2>3. wrote' \in [Presses -> SUBSET Accounts]
    BY <1>12 DEF UploadProduct, DocumentId, WritesTypeOK
  <2>4. last' \in [Presses -> Documents \cup {Absent}]
    BY <1>12, <2>1 DEF UploadProduct, DocumentId
  <2> QED
    BY <1>12, <2>2, <2>3, <2>4 DEF UploadProduct, Stages
<1>13. ASSUME NEW p \in Presses, WarrantyUrlNoProduct(p) PROVE Types'
  <2>1. /\ WritesTypeOK' /\ stage' \in [Presses -> Stages]
        /\ wrote' \in [Presses -> SUBSET Accounts] /\ refused' \subseteq Presses
        /\ last' \in [Presses -> Documents \cup {Absent}]
    BY <1>12, <1>13 DEF WarrantyUrlNoProduct, Uploading, Kinds
  <2> QED
    BY <1>13, <2>1 DEF WarrantyUrlNoProduct, UploadProduct, screenVars, formVars,
                       storageVars, historyVars
<1>14. ASSUME NEW p \in Presses, WarrantyUrlProduct(p) PROVE Types'
  BY <1>14 DEF WarrantyUrlProduct, documentVars, screenVars, formVars, storageVars,
               historyVars, Stages, WritesTypeOK
<1>15. ASSUME NEW p \in Presses, ProductPut(p) PROVE Types'
  BY <1>15 DEF ProductPut, documentVars, screenVars, formVars, storageVars, historyVars,
               Stages, WritesTypeOK
<1>16. ASSUME NEW p \in Presses, ProductUrl(p) PROVE Types'
  <2>1. /\ WritesTypeOK' /\ stage' \in [Presses -> Stages]
        /\ wrote' \in [Presses -> SUBSET Accounts] /\ refused' \subseteq Presses
        /\ last' \in [Presses -> Documents \cup {Absent}]
    BY <1>12, <1>16 DEF ProductUrl, Uploading, Kinds
  <2> QED
    BY <1>16, <2>1 DEF ProductUrl, UploadProduct, screenVars, formVars, storageVars, historyVars
<1>17. ASSUME NEW p \in Presses, UploadFails(p) PROVE Types'
  BY <1>17 DEF UploadFails, documentVars, screenVars, formVars, storageVars, historyVars,
               Stages, Uploading, WritesTypeOK
<1>18. ASSUME NEW p \in Presses, PerformSegue(p) PROVE Types'
  BY <1>18 DEF PerformSegue, documentVars, formVars, storageVars, historyVars, Stages,
               WritesTypeOK
<1>19. ASSUME NEW answer, NEW outcome \in Stages \ {"idle"}, WriteDone(answer, outcome)
       PROVE  Types'
  <2>1. WritesTypeOK'
    BY <1>19, DequeueType DEF WriteDone
  <2>2. \A q \in Presses : stage'[q] = stage[q] \/ (stage[q] = "written" /\ stage'[q] = outcome)
    BY <1>19 DEF WriteDone
  <2>3. stage' \in [Presses -> Stages]
    BY <1>19 DEF WriteDone
  <2>4. refused' \subseteq Presses
    <3>1. mutations[fsUser] \in Seq(Mutation) /\ mutations[fsUser] # <<>>
      BY <1>19 DEF WriteDone, Dequeue, WritesTypeOK
    <3>2. Head(mutations[fsUser]) \in Mutation
      BY <3>1
    <3> QED
      BY <1>19, <3>2 DEF WriteDone, Mutation
  <2> QED
    BY <1>19, <2>1, <2>2, <2>3, <2>4 DEF WriteDone, screenVars, formVars, storageVars, historyVars
<1>20. CASE WriteAcknowledged
  BY <1>19, <1>20 DEF WriteAcknowledged, Stages
<1>21. CASE WriteRejected
  BY <1>19, <1>21 DEF WriteRejected, Stages
<1>22. CASE HomeAgain
  BY <1>22 DEF HomeAgain, documentVars, formVars, chainVars, storageVars, historyVars, WritesTypeOK
<1>23. ASSUME NEW u \in Users, SignIn(u) PROVE Types'
  BY <1>23 DEF SignIn, SetCurrentUser, documentVars, formVars, chainVars, storageVars,
               Accounts, WritesTypeOK
<1>24. CASE AuthStateDidChange
  BY <1>24 DEF AuthStateDidChange, CredentialChange, screenVars, formVars, chainVars,
               storageVars, historyVars, WritesTypeOK
<1>25. CASE EnterHome
  BY <1>25 DEF EnterHome, documentVars, formVars, chainVars, storageVars, historyVars, WritesTypeOK
<1>26. CASE Logout
  BY <1>26 DEF Logout, SetCurrentUser, documentVars, formVars, chainVars, storageVars,
               Accounts, WritesTypeOK
<1>27. CASE Kill
  BY <1>27 DEF Kill, RestartClient, formVars, storageVars, historyVars, Stages, Running,
               Uploading, WritesTypeOK
<1>28. CASE BackendAnswers
  BY <1>28, AnswersType DEF BackendAnswers, screenVars, formVars, chainVars, storageVars,
                            historyVars
<1>29. CASE Disconnect
  BY <1>29 DEF Disconnect, StreamBreak, screenVars, formVars, chainVars, storageVars,
               historyVars, WritesTypeOK
<1> QED
  BY <1>1, <1>2, <1>3, <1>4, <1>5, <1>6, <1>7, <1>8, <1>9, <1>10, <1>11, <1>13, <1>14,
     <1>15, <1>16, <1>17, <1>18, <1>20, <1>21, <1>22, <1>23, <1>24, <1>25, <1>26, <1>27,
     <1>28, <1>29 DEF Next

\* Every state of the app is of its type: in particular a document always has
\* a form, whatever killed or restarted chain wrote it.
THEOREM TypeCorrect == Spec => []TypeOK
<1>1. Spec => []Types
  BY TypesInit, TypesStep, PTL DEF Spec
<1> QED
  BY <1>1, PTL DEF Types

-----------------------------------------------------------------------------
(* What the steps do to the set of documents: only the write of a press     *)
(* adds one.                                                                *)

\* A step that leaves the queues and the backend alone leaves the documents
\* alone.
LEMMA WrittenKept ==
  ASSUME UNCHANGED <<server, mutations>>
  PROVE  Written' = Written /\ \A a \in Accounts : Queued(a)' = Queued(a)
BY DEF Written, Saved, Queued, Accounts

\* A setData adds its document to the queue of Firestore's account, and to no
\* other place.
LEMMA WrittenEnqueued ==
  ASSUME WritesTypeOK, NEW d \in Presses, NEW v \in Documents,
         Enqueue(d, v), UNCHANGED <<server, answers, fsUser>>
  PROVE  /\ \A a \in Accounts : \A m \in Queued(a)' :
              m \in Queued(a) \/ (a = fsUser /\ m = [id |-> d, value |-> v])
         /\ Written' \subseteq Written \cup {[id |-> d, value |-> v]}
<1> DEFINE new == [id |-> d, value |-> v]
<1>1. ASSUME NEW a \in Accounts, NEW m \in Queued(a)'
      PROVE  m \in Queued(a) \/ (a = fsUser /\ m = new)
  <2>1. PICK i \in DOMAIN mutations'[a] : m = mutations'[a][i]
    BY <1>1 DEF Queued
  <2>2. CASE a = fsUser
    <3>1. mutations[a] \in Seq(Mutation) /\ new \in Mutation
      BY DEF WritesTypeOK, Mutation
    <3>2. mutations'[a] = Append(mutations[a], new)
      BY <2>2 DEF Enqueue, WritesTypeOK
    <3> HIDE DEF new
    <3>3. i \in DOMAIN mutations[a] \/ i = Len(mutations[a]) + 1
      BY <3>1, <3>2
    <3> QED
      BY <2>1, <2>2, <3>1, <3>2, <3>3 DEF Queued
  <2>3. CASE a # fsUser
    BY <2>1, <2>3 DEF Enqueue, WritesTypeOK, Queued
  <2> QED
    BY <2>2, <2>3
<1> QED
  BY <1>1 DEF Written, Saved

\* The delivery of an answer adds no document.
LEMMA WrittenDequeued ==
  ASSUME WritesTypeOK, NEW answer, Dequeue(answer)
  PROVE  /\ \A a \in Accounts : Queued(a)' \subseteq Queued(a)
         /\ Written' \subseteq Written
<1>1. ASSUME NEW a \in Accounts, NEW m \in Queued(a)' PROVE m \in Queued(a)
  <2>1. PICK i \in DOMAIN mutations'[a] : m = mutations'[a][i]
    BY <1>1 DEF Queued
  <2>2. CASE a = fsUser
    <3>1. mutations[a] \in Seq(Mutation) /\ mutations[a] # <<>>
      BY <2>2 DEF WritesTypeOK, Dequeue
    <3>2. mutations'[a] = Tail(mutations[a])
      BY <2>2 DEF Dequeue, WritesTypeOK
    <3>3. i + 1 \in DOMAIN mutations[a] /\ m = mutations[a][i + 1]
      BY <2>1, <3>1, <3>2
    <3> QED
      BY <3>3 DEF Queued
  <2>3. CASE a # fsUser
    BY <2>1, <2>3 DEF Dequeue, WritesTypeOK, Queued
  <2> QED
    BY <2>2, <2>3
<1> QED
  BY <1>1 DEF Written, Saved, Dequeue

\* The delivery of an answer takes only the document it is for.
LEMMA OthersStayQueued ==
  ASSUME WritesTypeOK, NEW answer, Dequeue(answer),
         NEW a \in Accounts, NEW m \in Queued(a), m.id # Head(mutations[fsUser]).id
  PROVE  m \in Queued(a)'
<1>1. PICK i \in DOMAIN mutations[a] : m = mutations[a][i]
  BY DEF Queued
<1>2. CASE a = fsUser
  <2>1. /\ mutations[a] \in Seq(Mutation) /\ mutations[a] # <<>>
        /\ mutations'[a] = Tail(mutations[a])
    BY <1>2 DEF Dequeue, WritesTypeOK
  <2>2. i # 1
    BY <1>1, <1>2, <2>1
  <2>3. i - 1 \in DOMAIN mutations'[a] /\ mutations'[a][i - 1] = m
    BY <1>1, <2>1, <2>2
  <2> QED
    BY <2>3 DEF Queued
<1>3. CASE a # fsUser
  BY <1>1, <1>3 DEF Dequeue, WritesTypeOK, Queued
<1> QED
  BY <1>2, <1>3

\* What the backend answers next is a mutation of the open queue.
LEMMA NextAnsweredIsQueued ==
  ASSUME WritesTypeOK, Len(answers) < Len(mutations[fsUser])
  PROVE  /\ mutations[fsUser][Len(answers) + 1] \in Queued(fsUser)
         /\ mutations[fsUser][Len(answers) + 1] \in Written
         /\ mutations[fsUser][Len(answers) + 1] \in Mutation
<1>1. Len(answers) + 1 \in DOMAIN mutations[fsUser] /\ mutations[fsUser] \in Seq(Mutation)
  BY DEF WritesTypeOK
<1>2. mutations[fsUser][Len(answers) + 1] \in Mutation
  BY <1>1
<1>3. mutations[fsUser][Len(answers) + 1] \in Queued(fsUser)
  BY <1>1 DEF Queued
<1>4. Queued(fsUser) \subseteq Written
  BY DEF WritesTypeOK, Written, Saved
<1> QED
  BY <1>2, <1>3, <1>4

\* A commit adds no document: the one it saves was in the queue.
LEMMA WrittenCommitted ==
  ASSUME WritesTypeOK, ServerCommit
  PROVE  /\ \A a \in Accounts : Queued(a)' = Queued(a)
         /\ Written' \subseteq Written
<1> DEFINE m == mutations[fsUser][Len(answers) + 1]
<1>1. m \in Written /\ m \in Mutation
  BY NextAnsweredIsQueued DEF ServerCommit, ServerAnswers
<1>2. server' = [server EXCEPT ![m.id] = m.value] /\ mutations' = mutations
  BY DEF ServerCommit, ServerAnswers
<1> HIDE DEF m
<1>3. \A a \in Accounts : Queued(a)' = Queued(a)
  BY <1>2 DEF Queued
<1>4. ASSUME NEW p \in Presses, server'[p] # Absent
      PROVE  [id |-> p, value |-> server'[p]] \in Written
  <2>1. CASE p = m.id
    <3>1. server'[p] = m.value
      BY <2>1, <1>2 DEF WritesTypeOK
    <3>2. m = [id |-> m.id, value |-> m.value]
      BY <1>1 DEF Mutation
    <3> QED
      BY <3>1, <3>2, <2>1, <1>1
  <2>2. CASE p # m.id
    BY <2>2, <1>2, <1>4 DEF WritesTypeOK, Written, Saved
  <2> QED
    BY <2>1, <2>2
<1>5. ASSUME NEW a \in Accounts PROVE Queued(a)' \subseteq Written
  BY <1>3 DEF Written, Saved
<1> QED
  BY <1>3, <1>4, <1>5 DEF Written, Saved

-----------------------------------------------------------------------------
(* The inductive invariant.                                                 *)

\* What is known of a press before its document exists.  Storage holds the
\* pictures the chain has got past, and no others.
ChainInv ==
  \A p \in Presses :
    /\ stage[p] \in {"idle", "putWarranty", "urlWarranty"} => productObject[p] = NoImage
    /\ stage[p] \in Uploading \ {"putWarranty"} => warrantyObject[p] # NoImage
    /\ stage[p] = "urlProduct" => productObject[p] # NoImage
    /\ warrantyObject[p] # NoImage => /\ stage[p] # "idle"
                                      /\ warrantyObject[p] = warrantyImage[pressForm[p]]

\* The picture the user saw is the one under way, unless another was picked.
ShownInv ==
  \A p \in Presses \ repicked :
    /\ stage[p] \in Unread => productImage[pressForm[p]] = shownImage[p]
    /\ stage[p] \in {"putProduct", "urlProduct"} => payload[p] = shownImage[p]
    /\ productObject[p] # NoImage => productObject[p] = payload[p]

\* Auth and Firestore agree on the session while it lasts.
SessionInv ==
  /\ screen = "home" => fsUser = currentUser
  /\ \A p \in Presses \ switched :
       stage[p] \in Uploading => fsUser = presser[p] /\ currentUser = presser[p]

\* A document belongs to a press that is past its uploads and names what
\* Storage holds.
DocumentInv(m) ==
  /\ m.id \in Presses /\ m.value \in Documents
  /\ stage[m.id] \notin Uploading \cup {"idle"}
  /\ m.value.form = pressForm[m.id]
  /\ warrantyObject[m.id] # NoImage
  /\ m.value.images = {"Warranty"} \cup
       (IF productObject[m.id] = NoImage THEN {} ELSE {"Product"})
  /\ m.id \notin switched => m.value.owner = presser[m.id]
  /\ m.id \notin repicked => productObject[m.id] = shownImage[m.id]

DocumentsInv ==
  /\ \A m \in Written : DocumentInv(m)
  /\ \A a \in Accounts : \A m \in Queued(a) : m.id \notin switched => a = presser[m.id]

UploadInv == Types /\ ChainInv /\ ShownInv /\ SessionInv /\ DocumentsInv

\* The invariant of uploading holds when the app starts.
LEMMA UploadInit == Init => UploadInv
<1> SUFFICES ASSUME Init PROVE UploadInv
  OBVIOUS
<1>1. Types
  BY TypesInit
<1>2. Written = {} /\ \A a \in Accounts : Queued(a) = {}
  <2>1. \A a \in Accounts : mutations[a] = <<>>
    BY DEF Init, Client!ClientInit, Client!WritesInit, Accounts, Client!Accounts
  <2>2. \A a \in Accounts : Queued(a) = {}
    BY <2>1 DEF Queued
  <2> QED
    BY <2>2 DEF Written, Saved, Init, Client!ClientInit, Client!WritesInit
<1>3. ChainInv /\ ShownInv /\ SessionInv
  BY DEF Init, Client!ClientInit, Client!WritesInit, ChainInv, ShownInv, SessionInv, Uploading, Unread
<1> QED
  BY <1>1, <1>2, <1>3 DEF UploadInv, DocumentsInv

\* Documents are left alone by a step that adds none, takes no press back to
\* its uploads and changes Storage only for presses without a document.
LEMMA DocumentsKept ==
  ASSUME DocumentsInv,
         Written' \subseteq Written,
         \A a \in Accounts : Queued(a)' \subseteq Queued(a),
         \A p \in Presses : stage[p] \notin Uploading \cup {"idle"} =>
           /\ stage'[p] \notin Uploading \cup {"idle"}
           /\ UNCHANGED <<pressForm[p], warrantyObject[p], productObject[p],
                          presser[p], shownImage[p]>>,
         switched \subseteq switched', repicked \subseteq repicked'
  PROVE  DocumentsInv'
<1>1. ASSUME NEW m \in Written' PROVE DocumentInv(m)'
  BY <1>1 DEF DocumentsInv, DocumentInv
<1>2. ASSUME NEW a \in Accounts, NEW m \in Queued(a)', m.id \notin switched'
      PROVE  a = presser'[m.id]
  <2>1. m \in Queued(a) /\ m \in Written
    BY <1>2 DEF Written
  <2> QED
    BY <1>2, <2>1 DEF DocumentsInv, DocumentInv
<1> QED
  BY <1>1, <1>2 DEF DocumentsInv, Accounts


\* A step of the user or of the machinery around the chains: no document, no
\* press and nothing in Storage changes.
LEMMA ElsewhereStep ==
  ASSUME UploadInv,
         UNCHANGED <<server, mutations, chainVars, storageVars, historyVars>>
  PROVE  DocumentsInv'
BY WrittenKept, DocumentsKept DEF UploadInv, chainVars, storageVars, historyVars

\* Every step keeps the invariant of uploading, one case for each action.
LEMMA UploadStep == UploadInv /\ [Next]_vars => UploadInv'
<1> SUFFICES ASSUME UploadInv, [Next]_vars
             PROVE  ChainInv' /\ ShownInv' /\ SessionInv' /\ DocumentsInv'
  BY TypesStep DEF UploadInv
<1> DEFINE Goal == ChainInv' /\ ShownInv' /\ SessionInv' /\ DocumentsInv'
<1> USE UploadAssumption DEF clientVars
<1>1. CASE UNCHANGED vars
  <2>1. DocumentsInv'
    BY <1>1, ElsewhereStep DEF vars, documentVars
  <2> QED
    BY <1>1, <2>1 DEF vars, UploadInv, ChainInv, ShownInv, SessionInv,
                   documentVars, screenVars, formVars, chainVars, storageVars, historyVars
<1>2. ASSUME NEW image \in Images, PickWarranty(image) PROVE Goal
  <2>1. DocumentsInv'
    BY <1>2, ElsewhereStep DEF PickWarranty, documentVars, chainVars, storageVars, historyVars
  <2> QED
    BY <1>2, <2>1 DEF PickWarranty, UploadInv, Types, TypeOK, ChainInv, ShownInv, SessionInv, Uploading, Unread,
                   documentVars, screenVars, formVars, chainVars, storageVars, historyVars
<1>3. ASSUME NEW f \in Forms, CameraNext(f) PROVE Goal
  <2>1. DocumentsInv'
    BY <1>3, ElsewhereStep DEF CameraNext, documentVars, chainVars, storageVars, historyVars
  <2> QED
    BY <1>3, <2>1 DEF CameraNext, UploadInv, Types, TypeOK, ChainInv, ShownInv, SessionInv, Uploading, Unread,
                   documentVars, screenVars, formVars, chainVars, storageVars, historyVars
<1>4. CASE Back
  <2>1. DocumentsInv'
    BY <1>4, ElsewhereStep DEF Back, documentVars, chainVars, storageVars, historyVars
  <2> QED
    BY <1>4, <2>1 DEF Back, UploadInv, Types, TypeOK, ChainInv, ShownInv, SessionInv, Uploading, Unread,
                   documentVars, screenVars, formVars, chainVars, storageVars, historyVars
<1>5. CASE SwitchTab
  <2>1. DocumentsInv'
    BY <1>5, ElsewhereStep DEF SwitchTab, documentVars, chainVars, storageVars, historyVars
  <2> QED
    BY <1>5, <2>1 DEF SwitchTab, UploadInv, Types, TypeOK, ChainInv, ShownInv, SessionInv, Uploading, Unread,
                   documentVars, screenVars, formVars, chainVars, storageVars, historyVars
<1>6. CASE OpenPicker
  <2>1. DocumentsInv'
    BY <1>6, ElsewhereStep DEF OpenPicker, documentVars, chainVars, storageVars, historyVars
  <2> QED
    BY <1>6, <2>1 DEF OpenPicker, UploadInv, Types, TypeOK, ChainInv, ShownInv, SessionInv, Uploading, Unread,
                   documentVars, screenVars, formVars, chainVars, storageVars, historyVars
<1>7. CASE ClosePicker
  <2>1. DocumentsInv'
    BY <1>7, ElsewhereStep DEF ClosePicker, documentVars, chainVars, storageVars, historyVars
  <2> QED
    BY <1>7, <2>1 DEF ClosePicker, UploadInv, Types, TypeOK, ChainInv, ShownInv, SessionInv, Uploading, Unread,
                   documentVars, screenVars, formVars, chainVars, storageVars, historyVars
<1>8. CASE HomeAgain
  <2>1. DocumentsInv'
    BY <1>8, ElsewhereStep DEF HomeAgain, documentVars, chainVars, storageVars, historyVars
  <2> QED
    BY <1>8, <2>1 DEF HomeAgain, UploadInv, Types, TypeOK, ChainInv, ShownInv, SessionInv, Uploading, Unread,
                   documentVars, screenVars, formVars, chainVars, storageVars, historyVars
<1>9. CASE EnterHome
  <2>1. DocumentsInv'
    BY <1>9, ElsewhereStep DEF EnterHome, documentVars, chainVars, storageVars, historyVars
  <2> QED
    BY <1>9, <2>1 DEF EnterHome, UploadInv, Types, TypeOK, ChainInv, ShownInv, SessionInv, Uploading, Unread,
                   documentVars, screenVars, formVars, chainVars, storageVars, historyVars
<1>10. CASE AuthStateDidChange
  <2>1. DocumentsInv'
    BY <1>10, ElsewhereStep DEF AuthStateDidChange, CredentialChange, documentVars, chainVars, storageVars, historyVars
  <2> QED
    BY <1>10, <2>1 DEF AuthStateDidChange, CredentialChange, UploadInv, Types, TypeOK, ChainInv, ShownInv, SessionInv, Uploading, Unread,
                   documentVars, screenVars, formVars, chainVars, storageVars, historyVars
<1>11. ASSUME NEW image \in Images, PickProduct(image) PROVE Goal
  <2>1. DocumentsInv'
    BY <1>11, WrittenKept, DocumentsKept
    DEF PickProduct, UploadInv, Types, TypeOK, Stages, Uploading, Unread, documentVars, screenVars, formVars, chainVars, storageVars, historyVars
  <2> QED
    BY <1>11, <2>1 DEF PickProduct, UploadInv, Types, TypeOK, PressesHaveForms, ChainInv, ShownInv, SessionInv,
                   Stages, Uploading, Unread, documentVars, screenVars, formVars, chainVars, storageVars, historyVars
<1>12. ASSUME NEW p \in Presses, PressNext(p) PROVE Goal
  <2>1. DocumentsInv'
    BY <1>12, WrittenKept, DocumentsKept
    DEF PressNext, UploadInv, Types, TypeOK, Stages, Uploading, Unread, OnScreen, documentVars, screenVars, formVars, chainVars, storageVars, historyVars
  <2> QED
    BY <1>12, <2>1 DEF PressNext, UploadInv, Types, TypeOK, PressesHaveForms, ChainInv, ShownInv, SessionInv,
                   Stages, Uploading, Unread, OnScreen, documentVars, screenVars, formVars, chainVars, storageVars, historyVars
<1>13. ASSUME NEW p \in Presses, StorageKeeps(p) PROVE Goal
  <2>1. DocumentsInv'
    BY <1>13, WrittenKept, DocumentsKept
    DEF StorageKeeps, UploadInv, Types, TypeOK, Stages, Uploading, Unread, documentVars, screenVars, formVars, chainVars, storageVars, historyVars
  <2> QED
    BY <1>13, <2>1 DEF StorageKeeps, UploadInv, Types, TypeOK, PressesHaveForms, ChainInv, ShownInv, SessionInv,
                   Stages, Uploading, Unread, documentVars, screenVars, formVars, chainVars, storageVars, historyVars
<1>14. ASSUME NEW p \in Presses, WarrantyPut(p) PROVE Goal
  <2>1. DocumentsInv'
    BY <1>14, WrittenKept, DocumentsKept
    DEF WarrantyPut, UploadInv, Types, TypeOK, Stages, Uploading, Unread, documentVars, screenVars, formVars, chainVars, storageVars, historyVars
  <2> QED
    BY <1>14, <2>1 DEF WarrantyPut, UploadInv, Types, TypeOK, PressesHaveForms, ChainInv, ShownInv, SessionInv,
                   Stages, Uploading, Unread, documentVars, screenVars, formVars, chainVars, storageVars, historyVars
<1>15. ASSUME NEW p \in Presses, WarrantyUrlProduct(p) PROVE Goal
  <2>1. DocumentsInv'
    BY <1>15, WrittenKept, DocumentsKept
    DEF WarrantyUrlProduct, UploadInv, Types, TypeOK, Stages, Uploading, Unread, documentVars, screenVars, formVars, chainVars, storageVars, historyVars
  <2> QED
    BY <1>15, <2>1 DEF WarrantyUrlProduct, UploadInv, Types, TypeOK, PressesHaveForms, ChainInv, ShownInv, SessionInv,
                   Stages, Uploading, Unread, documentVars, screenVars, formVars, chainVars, storageVars, historyVars
<1>16. ASSUME NEW p \in Presses, ProductPut(p) PROVE Goal
  <2>1. DocumentsInv'
    BY <1>16, WrittenKept, DocumentsKept
    DEF ProductPut, UploadInv, Types, TypeOK, Stages, Uploading, Unread, documentVars, screenVars, formVars, chainVars, storageVars, historyVars
  <2> QED
    BY <1>16, <2>1 DEF ProductPut, UploadInv, Types, TypeOK, PressesHaveForms, ChainInv, ShownInv, SessionInv,
                   Stages, Uploading, Unread, documentVars, screenVars, formVars, chainVars, storageVars, historyVars
<1>17. ASSUME NEW p \in Presses, UploadFails(p) PROVE Goal
  <2>1. DocumentsInv'
    BY <1>17, WrittenKept, DocumentsKept
    DEF UploadFails, UploadInv, Types, TypeOK, Stages, Uploading, Unread, documentVars, screenVars, formVars, chainVars, storageVars, historyVars
  <2> QED
    BY <1>17, <2>1 DEF UploadFails, UploadInv, Types, TypeOK, PressesHaveForms, ChainInv, ShownInv, SessionInv,
                   Stages, Uploading, Unread, documentVars, screenVars, formVars, chainVars, storageVars, historyVars
<1>18. ASSUME NEW p \in Presses, PerformSegue(p) PROVE Goal
  <2>1. DocumentsInv'
    BY <1>18, WrittenKept, DocumentsKept
    DEF PerformSegue, UploadInv, Types, TypeOK, Stages, Uploading, Unread, OnScreen, documentVars, screenVars, formVars, chainVars, storageVars, historyVars
  <2> QED
    BY <1>18, <2>1 DEF PerformSegue, UploadInv, Types, TypeOK, PressesHaveForms, ChainInv, ShownInv, SessionInv,
                   Stages, Uploading, Unread, OnScreen, documentVars, screenVars, formVars, chainVars, storageVars, historyVars
<1>19. ASSUME NEW u \in Users, SignIn(u) PROVE Goal
  <2>1. DocumentsInv'
    BY <1>19, WrittenKept, DocumentsKept
    DEF SignIn, UploadInv, Types, TypeOK, Stages, Uploading, Unread, SetCurrentUser, documentVars, screenVars, formVars, chainVars, storageVars, historyVars
  <2> QED
    BY <1>19, <2>1 DEF SignIn, UploadInv, Types, TypeOK, PressesHaveForms, ChainInv, ShownInv, SessionInv,
                   Stages, Uploading, Unread, SetCurrentUser, documentVars, screenVars, formVars, chainVars, storageVars, historyVars
<1>20. CASE Logout
  <2>1. DocumentsInv'
    BY <1>20, WrittenKept, DocumentsKept
    DEF Logout, UploadInv, Types, TypeOK, Stages, Uploading, Unread, SetCurrentUser, documentVars, screenVars, formVars, chainVars, storageVars, historyVars
  <2> QED
    BY <1>20, <2>1 DEF Logout, UploadInv, Types, TypeOK, PressesHaveForms, ChainInv, ShownInv, SessionInv,
                   Stages, Uploading, Unread, SetCurrentUser, documentVars, screenVars, formVars, chainVars, storageVars, historyVars
<1>21. CASE Kill
  <2>1. DocumentsInv'
    BY <1>21, WrittenKept, DocumentsKept
    DEF Kill, UploadInv, Types, TypeOK, Stages, Uploading, Unread, RestartClient, Running, documentVars, screenVars, formVars, chainVars, storageVars, historyVars
  <2> QED
    BY <1>21, <2>1 DEF Kill, UploadInv, Types, TypeOK, PressesHaveForms, ChainInv, ShownInv, SessionInv,
                   Stages, Uploading, Unread, RestartClient, Running, documentVars, screenVars, formVars, chainVars, storageVars, historyVars
<1>22. CASE Disconnect
  <2>1. DocumentsInv'
    BY <1>22, WrittenKept, DocumentsKept
    DEF Disconnect, UploadInv, Types, TypeOK, Stages, Uploading, Unread, StreamBreak, documentVars, screenVars, formVars, chainVars, storageVars, historyVars
  <2> QED
    BY <1>22, <2>1 DEF Disconnect, UploadInv, Types, TypeOK, PressesHaveForms, ChainInv, ShownInv, SessionInv,
                   Stages, Uploading, Unread, StreamBreak, documentVars, screenVars, formVars, chainVars, storageVars, historyVars
<1>23. ASSUME NEW p \in Presses, NEW images \in SUBSET Kinds,
              stage[p] \in {"urlWarranty", "urlProduct"}, UploadProduct(p, images),
              UNCHANGED <<pressForm, storageVars>>,
              images = {"Warranty"} \cup
                         (IF productObject[p] = NoImage THEN {} ELSE {"Product"}),
              p \notin repicked => productObject[p] = shownImage[p]
       PROVE  DocumentsInv'
  <2> DEFINE document == [form |-> pressForm[p], owner |-> currentUser, images |-> images]
             new == [id |-> p, value |-> document]
  <2>1. document \in Documents /\ stage[p] \in Uploading /\ stage[p] # "idle"
    BY <1>23 DEF Documents, Uploading, UploadInv, Types, TypeOK, PressesHaveForms, Accounts
  <2>2. /\ \A a \in Accounts : \A m \in Queued(a)' : m \in Queued(a) \/ (a = fsUser /\ m = new)
        /\ Written' \subseteq Written \cup {new}
    BY <1>23, <2>1, WrittenEnqueued DEF UploadProduct, DocumentId, UploadInv, Types, TypeOK
  <2>3. p \notin switched => fsUser = presser[p] /\ currentUser = presser[p]
    BY <2>1 DEF UploadInv, SessionInv
  <2>4. warrantyObject[p] # NoImage
    BY <1>23, <2>1 DEF UploadInv, ChainInv, Uploading
  <2>5. ASSUME NEW m, m = new PROVE DocumentInv(m)'
    BY <2>5, <1>23, <2>1, <2>3, <2>4
    DEF DocumentInv, UploadProduct, UploadInv, Types, TypeOK, Uploading, storageVars, historyVars
  <2>6. ASSUME NEW m \in Written PROVE DocumentInv(m)' /\ m.id # p
    BY <1>23, <2>1, <2>6
    DEF DocumentInv, DocumentsInv, UploadProduct, UploadInv, Types, TypeOK, Uploading,
        storageVars, historyVars
  <2>7. \A m \in Written' : DocumentInv(m)'
    BY <2>2, <2>5, <2>6
  <2>8. ASSUME NEW a \in Accounts, NEW m \in Queued(a)', m.id \notin switched'
        PROVE  a = presser'[m.id]
    <3>1. CASE m \in Queued(a)
      BY <1>23, <2>8, <3>1 DEF UploadProduct, UploadInv, DocumentsInv
    <3>2. CASE a = fsUser /\ m = new
      BY <1>23, <2>3, <2>8, <3>2 DEF UploadProduct
    <3> QED
      BY <2>2, <3>1, <3>2
  <2> QED
    BY <2>7, <2>8 DEF DocumentsInv, Accounts
<1>24. ASSUME NEW p \in Presses, WarrantyUrlNoProduct(p) PROVE Goal
  <2>1. productObject[p] = NoImage /\ (p \notin repicked => productObject[p] = shownImage[p])
    BY <1>24 DEF WarrantyUrlNoProduct, UploadInv, ChainInv, ShownInv, Unread
  <2>2. DocumentsInv'
    BY <1>23, <1>24, <2>1 DEF WarrantyUrlNoProduct, Kinds
  <2> QED
    BY <1>24, <2>2 DEF WarrantyUrlNoProduct, UploadProduct, UploadInv, Types, TypeOK, ChainInv,
                       ShownInv, SessionInv, Uploading, Unread, screenVars, formVars,
                       storageVars, historyVars
<1>25. ASSUME NEW p \in Presses, ProductUrl(p) PROVE Goal
  <2>1. productObject[p] # NoImage /\ (p \notin repicked => productObject[p] = shownImage[p])
    BY <1>25 DEF ProductUrl, UploadInv, ChainInv, ShownInv, Unread
  <2>2. DocumentsInv'
    BY <1>23, <1>25, <2>1 DEF ProductUrl, Kinds
  <2> QED
    BY <1>25, <2>2 DEF ProductUrl, UploadProduct, UploadInv, Types, TypeOK, ChainInv,
                       ShownInv, SessionInv, Uploading, Unread, screenVars, formVars,
                       storageVars, historyVars
<1>26. ASSUME NEW answer, NEW outcome \in {"acked", "failed"}, WriteDone(answer, outcome)
       PROVE  Goal
  <2>1. \A q \in Presses : stage'[q] = stage[q] \/ (stage[q] = "written" /\ stage'[q] = outcome)
    BY <1>26 DEF WriteDone, UploadInv, Types, TypeOK
  <2>2. DocumentsInv'
    BY <1>26, <2>1, WrittenDequeued, DocumentsKept
    DEF WriteDone, UploadInv, Types, TypeOK, Uploading, storageVars, historyVars
  <2> QED
    BY <1>26, <2>1, <2>2
    DEF WriteDone, Dequeue, UploadInv, ChainInv, ShownInv, SessionInv, Uploading, Unread,
        screenVars, formVars, storageVars, historyVars
<1>27. CASE WriteAcknowledged
  BY <1>26, <1>27 DEF WriteAcknowledged
<1>28. CASE WriteRejected
  BY <1>26, <1>28 DEF WriteRejected
<1>29. CASE BackendAnswers
  <2>1. UNCHANGED <<mutations, fsUser>>
    BY <1>29 DEF BackendAnswers, ServerCommit, ServerRefuse, ServerAnswers
  <2>2. Written' \subseteq Written /\ \A a \in Accounts : Queued(a)' \subseteq Queued(a)
    BY <1>29, WrittenCommitted, WrittenKept
    DEF BackendAnswers, ServerRefuse, ServerAnswers, UploadInv, Types, TypeOK
  <2>3. DocumentsInv'
    BY <1>29, <2>2, DocumentsKept DEF BackendAnswers, UploadInv, chainVars, storageVars, historyVars
  <2> QED
    BY <1>29, <2>1, <2>3
    DEF BackendAnswers, UploadInv, ChainInv, ShownInv, SessionInv, screenVars, formVars, chainVars,
        storageVars, historyVars
<1> QED
  BY <1>1, <1>2, <1>3, <1>4, <1>5, <1>6, <1>7, <1>8, <1>9, <1>10, <1>11, <1>12, <1>13, <1>14, <1>15, <1>16, <1>17, <1>18, <1>19, <1>20, <1>21, <1>22, <1>24, <1>25, <1>27, <1>28, <1>29 DEF Next

\* The invariant of uploading holds in every state: chains, screens, sessions
\* and documents fit together at every point of every interleaving.
THEOREM UploadInvariant == Spec => []UploadInv
  BY UploadInit, UploadStep, PTL DEF Spec

\* For every number of presses, forms and pictures: no document has a dangling
\* URL, leaves a picture behind or mixes two presses.
THEOREM ImagesMatchDocumentAlways == Spec => []ImagesMatchDocument
<1>1. UploadInv => ImagesMatchDocument
  BY DEF UploadInv, ChainInv, DocumentsInv, DocumentInv, ImagesMatchDocument
<1> QED
  BY <1>1, UploadInvariant, PTL

\* For every number of users: a session that lasts through the upload gives the
\* document the owner and the queue of the user who pressed.
THEOREM OwnerIsPresserAlways == Spec => []OwnerIsPresser
<1>1. UploadInv => OwnerIsPresser
  BY DEF UploadInv, DocumentsInv, DocumentInv, OwnerIsPresser
<1> QED
  BY <1>1, UploadInvariant, PTL

\* The picture saved is the one on screen at the press unless another was picked.
THEOREM PictureIsTheOneShownAlways == Spec => []PictureIsTheOneShown
<1>1. UploadInv => PictureIsTheOneShown
  BY DEF UploadInv, DocumentsInv, DocumentInv, PictureIsTheOneShown
<1> QED
  BY <1>1, UploadInvariant, PTL

-----------------------------------------------------------------------------
(* Saved for good, told only when saved.  Every step is of one of four      *)
(* kinds, as far as the queues and the backend go.                          *)

Past == {"acked", "told", "unseen"}

\* Queues and backend keep what they have; answers may be lost with the stream.
\* No press gets past its write, comes to wait for it or goes back before it.
QuietStep ==
  /\ UNCHANGED <<server, mutations, clientVars>>
  /\ (UNCHANGED <<answers, fsUser>> \/ answers' = <<>>)
  /\ fsUser' \in Accounts
  /\ \A p \in Presses :
       /\ stage'[p] \in Past => stage[p] \in Past
       /\ stage'[p] = "written" => stage[p] = "written"
       /\ stage'[p] \in Uploading \cup {"idle"} => stage[p] \in Uploading \cup {"idle"}

WriteStep ==
  \E p \in Presses, images \in SUBSET Kinds :
    stage[p] \in Uploading /\ UploadProduct(p, images) /\ UNCHANGED pressForm

AnswerStep == (ServerCommit \/ ServerRefuse) /\ UNCHANGED <<stage, clientVars>>

\* What a step may do to the documents: nothing, add the one of an unwritten
\* press, deliver an answer, or have the backend answer.
LEMMA StepKinds ==
  ASSUME UploadInv, [Next]_vars
  PROVE  QuietStep \/ WriteStep \/ AnswerStep \/ WriteAcknowledged \/ WriteRejected
<1> USE DEF historyVars, UploadInv, Types, TypeOK, WritesTypeOK, Stages, QuietStep, Past, Uploading
<1>1. CASE UNCHANGED vars
  BY <1>1 DEF vars, documentVars, chainVars
<1>2. ASSUME NEW image \in Images, PickWarranty(image) \/ PickProduct(image) PROVE QuietStep
  BY <1>2 DEF PickWarranty, PickProduct, documentVars, chainVars
<1>3. ASSUME NEW f \in Forms, CameraNext(f) PROVE QuietStep
  BY <1>3 DEF CameraNext, documentVars, chainVars
<1>4. CASE Back \/ SwitchTab \/ OpenPicker \/ ClosePicker \/ HomeAgain \/ EnterHome \/ Logout
  BY <1>4 DEF Back, SwitchTab, OpenPicker, ClosePicker, HomeAgain, EnterHome, Logout,
              documentVars, chainVars
<1>5. ASSUME NEW p \in Presses, PressNext(p) \/ StorageKeeps(p) \/ WarrantyPut(p)
      PROVE  QuietStep
  BY <1>5 DEF PressNext, StorageKeeps, WarrantyPut, documentVars, chainVars
<1>6. ASSUME NEW p \in Presses,
             WarrantyUrlProduct(p) \/ ProductPut(p) \/ UploadFails(p) \/ PerformSegue(p)
      PROVE  QuietStep
  BY <1>6 DEF WarrantyUrlProduct, ProductPut, UploadFails, PerformSegue, documentVars
<1>7. ASSUME NEW p \in Presses, WarrantyUrlNoProduct(p) \/ ProductUrl(p) PROVE WriteStep
  BY <1>7 DEF WarrantyUrlNoProduct, ProductUrl, WriteStep, Kinds
<1>8. ASSUME NEW u \in Users, SignIn(u) PROVE QuietStep
  BY <1>8 DEF SignIn, documentVars, chainVars
<1>9. CASE AuthStateDidChange \/ Kill \/ Disconnect
  BY <1>9 DEF AuthStateDidChange, CredentialChange, Kill, RestartClient, Running, Disconnect,
              StreamBreak, chainVars
<1>10. CASE BackendAnswers
  BY <1>10 DEF BackendAnswers, AnswerStep, chainVars
<1> QED
  BY <1>1, <1>2, <1>3, <1>4, <1>5, <1>6, <1>7, <1>8, <1>9, <1>10 DEF Next

\* An answer "ok" on the stream means that the backend has the document.
AnswersInv ==
  \A i \in 1..Len(answers) : answers[i] = "ok" => server[mutations[fsUser][i].id] # Absent

\* A press has one document.
OneDocument == \A m, n \in Written : m.id = n.id => m.value = n.value

SavedInv == UploadInv /\ AnswersInv /\ OneDocument /\ ToldOnlyIfSaved

\* The invariant of saving holds when the app starts.
LEMMA SavedInit == Init => SavedInv
<1> SUFFICES ASSUME Init PROVE SavedInv
  OBVIOUS
<1>1. UploadInv
  BY UploadInit
<1>2. Written = {}
  <2>1. \A a \in Accounts : Queued(a) = {}
    BY DEF Queued, Init, Client!ClientInit, Client!WritesInit, Accounts, Client!Accounts
  <2> QED
    BY <2>1 DEF Written, Saved, Init, Client!ClientInit, Client!WritesInit
<1> QED
  BY <1>1, <1>2 DEF SavedInv, AnswersInv, OneDocument, ToldOnlyIfSaved, Init, Client!ClientInit, Client!WritesInit

\* Every step keeps the invariant of saving.
LEMMA SavedStep == SavedInv /\ [Next]_vars => SavedInv'
<1> SUFFICES ASSUME SavedInv, [Next]_vars
             PROVE  AnswersInv' /\ OneDocument' /\ ToldOnlyIfSaved'
  BY UploadStep DEF SavedInv
<1>1. WritesTypeOK /\ stage \in [Presses -> Stages]
  BY DEF SavedInv, UploadInv, Types, TypeOK
<1>2. mutations[fsUser] \in Seq(Mutation) /\ answers \in Seq({"ok", "refused"})
      /\ Len(answers) =< Len(mutations[fsUser])
  BY <1>1 DEF WritesTypeOK
<1>3. CASE QuietStep
  BY <1>3, WrittenKept
  DEF QuietStep, SavedInv, AnswersInv, OneDocument, ToldOnlyIfSaved, Past
<1>4. CASE WriteStep
  <2>1. PICK p \in Presses, images \in SUBSET Kinds :
          stage[p] \in Uploading /\ UploadProduct(p, images) /\ UNCHANGED pressForm
    BY <1>4 DEF WriteStep
  <2> DEFINE document == [form |-> pressForm[p], owner |-> currentUser, images |-> images]
             new == [id |-> p, value |-> document]
  <2>2. document \in Documents
    BY <2>1 DEF Documents, Uploading, SavedInv, UploadInv, Types, TypeOK, PressesHaveForms, Accounts
  <2>3. Enqueue(p, document) /\ UNCHANGED <<server, answers, fsUser>>
    BY <2>1 DEF UploadProduct, DocumentId
  <2> HIDE DEF document
  <2>4. Written' \subseteq Written \cup {new}
    BY <1>1, <2>2, <2>3, WrittenEnqueued
  <2>5. \A m \in Written : m.id # p
    BY <2>1 DEF SavedInv, UploadInv, DocumentsInv, DocumentInv
  <2>6. OneDocument'
    BY <2>4, <2>5 DEF SavedInv, OneDocument
  <2>7. new \in Mutation
    BY <2>2 DEF Mutation
  <2>8. mutations'[fsUser] = Append(mutations[fsUser], new)
    BY <1>1, <2>3 DEF Enqueue, WritesTypeOK
  <2>9. \A i \in 1..Len(answers) : mutations'[fsUser][i] = mutations[fsUser][i]
    <3> HIDE DEF new
    <3> QED
      BY <1>2, <2>7, <2>8
  <2>10. AnswersInv'
    BY <2>3, <2>9 DEF SavedInv, AnswersInv
  <2>11. ToldOnlyIfSaved'
    BY <1>1, <2>1 DEF UploadProduct, SavedInv, ToldOnlyIfSaved
  <2> QED
    BY <2>6, <2>10, <2>11
<1>5. CASE ServerCommit /\ UNCHANGED stage
  <2> DEFINE m == mutations[fsUser][Len(answers) + 1]
  <2>1. m \in Written /\ m \in Mutation
    BY <1>1, <1>5, NextAnsweredIsQueued DEF ServerCommit, ServerAnswers
  <2>2. /\ server' = [server EXCEPT ![m.id] = m.value] /\ UNCHANGED <<mutations, fsUser>>
        /\ answers' = Append(answers, "ok")
    BY <1>5 DEF ServerCommit, ServerAnswers
  <2>3. m.value # Absent
    BY <2>1, UploadAssumption DEF SavedInv, UploadInv, DocumentsInv, DocumentInv
  <2>4. server'[m.id] # Absent /\ \A p \in Presses : server[p] # Absent => server'[p] # Absent
    <3> HIDE DEF m
    <3> QED
      BY <1>1, <2>1, <2>2, <2>3 DEF WritesTypeOK, Mutation
  <2>5. ASSUME NEW i \in 1..Len(answers'), answers'[i] = "ok"
        PROVE  server'[mutations'[fsUser'][i].id] # Absent
    <3>1. CASE i = Len(answers) + 1
      BY <2>2, <2>4, <3>1
    <3>2. CASE i # Len(answers) + 1
      <4>1. i \in 1..Len(answers) /\ answers'[i] = answers[i]
        BY <1>2, <2>2, <2>5, <3>2
      <4>2. mutations[fsUser][i] \in Mutation
        BY <1>2, <4>1
      <4>3. mutations[fsUser][i].id \in Presses
        BY <4>2 DEF Mutation
      <4> QED
        BY <2>2, <2>4, <2>5, <4>1, <4>3 DEF SavedInv, AnswersInv
    <3> QED
      BY <3>1, <3>2
  <2>6. Written' \subseteq Written
    BY <1>1, <1>5, WrittenCommitted
  <2> QED
    BY <1>5, <2>4, <2>5, <2>6 DEF SavedInv, AnswersInv, OneDocument, ToldOnlyIfSaved
<1>6. CASE ServerRefuse /\ UNCHANGED stage
  <2>1. UNCHANGED <<server, mutations, fsUser>> /\ answers' = Append(answers, "refused")
    BY <1>6 DEF ServerRefuse, ServerAnswers
  <2>2. \A i \in 1..Len(answers') : answers'[i] = "ok" => i \in 1..Len(answers) /\ answers[i] = "ok"
    BY <1>2, <2>1
  <2> QED
    BY <1>6, <2>1, <2>2, WrittenKept DEF SavedInv, AnswersInv, OneDocument, ToldOnlyIfSaved
<1>7. ASSUME NEW answer, NEW outcome, WriteDone(answer, outcome),
             outcome \in Past => answer = "ok"
      PROVE  AnswersInv' /\ OneDocument' /\ ToldOnlyIfSaved'
  <2>1. /\ answers # <<>> /\ answers[1] = answer
        /\ answers' = Tail(answers) /\ UNCHANGED <<server, fsUser>>
    BY <1>2, <1>7 DEF WriteDone, Dequeue
  <2>2. mutations'[fsUser] = Tail(mutations[fsUser]) /\ Dequeue(answer)
    BY <1>1, <1>7 DEF WriteDone, Dequeue, WritesTypeOK
  <2>3. Written' \subseteq Written
    BY <1>1, <2>2, WrittenDequeued
  <2>4. ASSUME NEW i \in 1..Len(answers'), answers'[i] = "ok"
        PROVE  server'[mutations'[fsUser'][i].id] # Absent
    <3>1. /\ i + 1 \in 1..Len(answers) /\ answers[i + 1] = "ok"
          /\ mutations'[fsUser'][i] = mutations[fsUser][i + 1]
      BY <1>2, <2>1, <2>2, <2>4
    <3> QED
      BY <2>1, <3>1 DEF SavedInv, AnswersInv
  <2>5. ASSUME NEW p \in Presses, stage'[p] \in Past PROVE server'[p] # Absent
    <3>1. CASE stage'[p] = stage[p]
      BY <2>1, <2>5, <3>1 DEF SavedInv, ToldOnlyIfSaved, Past
    <3>2. CASE stage'[p] # stage[p]
      <4>1. p = mutations[fsUser][1].id /\ stage'[p] = outcome
        BY <1>1, <1>2, <1>7, <3>2 DEF WriteDone
      <4>2. 1 \in 1..Len(answers) /\ answers[1] = "ok"
        BY <1>2, <1>7, <2>1, <2>5, <4>1
      <4> QED
        BY <2>1, <4>1, <4>2 DEF SavedInv, AnswersInv
    <3> QED
      BY <3>1, <3>2
  <2> QED
    BY <2>3, <2>4, <2>5 DEF SavedInv, AnswersInv, OneDocument, ToldOnlyIfSaved, Past
<1> QED
  BY <1>3, <1>4, <1>5, <1>6, <1>7, StepKinds
  DEF SavedInv, AnswerStep, WriteAcknowledged, WriteRejected, Past

\* The invariant of saving holds in every state: a press has one document at
\* most, and every answer on the stream is the fate of the mutation it answers.
THEOREM SavedInvariant == Spec => []SavedInv
  BY SavedInit, SavedStep, PTL DEF Spec

\* For every number of presses and users, with breaks and restarts anywhere: the
\* user is told of a saved warranty only.
THEOREM ToldOnlyIfSavedAlways == Spec => []ToldOnlyIfSaved
  BY SavedInvariant, PTL DEF SavedInv

\* A step never changes a document the backend has.
LEMMA SavedForeverStep ==
  ASSUME SavedInv, [Next]_vars, NEW p \in Presses, server[p] # Absent
  PROVE  server'[p] = server[p]
<1>1. WritesTypeOK
  BY DEF SavedInv, UploadInv, Types, TypeOK
<1>2. CASE ServerCommit
  <2> DEFINE m == mutations[fsUser][Len(answers) + 1]
  <2>1. m \in Written /\ m \in Mutation
    BY <1>1, <1>2, NextAnsweredIsQueued DEF ServerCommit, ServerAnswers
  <2>2. server' = [server EXCEPT ![m.id] = m.value]
    BY <1>2 DEF ServerCommit
  <2> HIDE DEF m
  <2>3. CASE p = m.id
    <3>1. [id |-> p, value |-> server[p]] \in Written
      BY DEF Written, Saved
    <3>2. m.value = server[p]
      BY <2>1, <2>3, <3>1 DEF SavedInv, OneDocument
    <3> QED
      BY <1>1, <2>2, <2>3, <3>2 DEF WritesTypeOK
  <2>4. CASE p # m.id
    BY <1>1, <2>2, <2>4 DEF WritesTypeOK
  <2> QED
    BY <2>3, <2>4
<1>3. CASE ~ServerCommit
  BY <1>3, StepKinds
  DEF SavedInv, QuietStep, WriteStep, UploadProduct, AnswerStep, ServerRefuse, WriteAcknowledged,
      WriteRejected, WriteDone, Dequeue
<1> QED
  BY <1>2, <1>3

\* A step takes a document out of a queue only with its own answer.
LEMMA PendingStep ==
  ASSUME SavedInv, [Next]_vars, NEW a \in Accounts, NEW m \in Queued(a)
  PROVE  \/ m \in Queued(a)' \/ server[m.id] # Absent
         \/ /\ a = fsUser /\ m = Head(mutations[a])
            /\ answers # <<>> /\ Head(answers) = "refused"
<1>1. WritesTypeOK
  BY DEF SavedInv, UploadInv, Types, TypeOK
<1>2. CASE UNCHANGED mutations
  BY <1>2 DEF Queued
<1>3. CASE WriteStep
  <2>1. PICK p \in Presses, images \in SUBSET Kinds :
          stage[p] \in Uploading /\ UploadProduct(p, images) /\ UNCHANGED pressForm
    BY <1>3 DEF WriteStep
  <2> DEFINE document == [form |-> pressForm[p], owner |-> currentUser, images |-> images]
             new == [id |-> p, value |-> document]
  <2>2. document \in Documents
    BY <2>1 DEF Documents, Uploading, SavedInv, UploadInv, Types, TypeOK, PressesHaveForms, Accounts
  <2>3. mutations' = [mutations EXCEPT ![fsUser] = Append(mutations[fsUser], new)]
    BY <2>1 DEF UploadProduct, DocumentId, Enqueue
  <2>4. new \in Mutation
    BY <2>2 DEF Mutation
  <2> HIDE DEF new
  <2>5. PICK i \in DOMAIN mutations[a] : m = mutations[a][i]
    BY DEF Queued
  <2>6. mutations[a] \in Seq(Mutation) /\ mutations[fsUser] \in Seq(Mutation)
    BY <1>1 DEF WritesTypeOK
  <2>7. i \in DOMAIN mutations'[a] /\ mutations'[a][i] = m
    <3>1. CASE a = fsUser
      <4>1. mutations'[a] = Append(mutations[a], new)
        BY <1>1, <2>3, <3>1 DEF WritesTypeOK
      <4> QED
        BY <2>4, <2>5, <2>6, <4>1
    <3>2. CASE a # fsUser
      BY <1>1, <2>3, <2>5, <3>2 DEF WritesTypeOK
    <3> QED
      BY <3>1, <3>2
  <2> QED
    BY <2>7 DEF Queued
<1>4. ASSUME NEW answer \in {"ok", "refused"}, Dequeue(answer), m \notin Queued(a)'
      PROVE  /\ a = fsUser /\ m = Head(mutations[a]) /\ answers # <<>>
             /\ Head(answers) = "ok" => server[m.id] # Absent
  <2>1. PICK i \in DOMAIN mutations[a] : m = mutations[a][i]
    BY DEF Queued
  <2>2. answers \in Seq({"ok", "refused"}) /\ answers # <<>> /\ Head(answers) = answers[1]
    BY <1>1, <1>4 DEF WritesTypeOK, Dequeue
  <2>3. a = fsUser
    BY <1>1, <1>4, <2>1 DEF Dequeue, WritesTypeOK, Queued
  <2>4. mutations[a] \in Seq(Mutation) /\ mutations'[a] = Tail(mutations[a])
    BY <1>1, <1>4, <2>3 DEF Dequeue, WritesTypeOK
  <2>5. i = 1
    <3> SUFFICES ASSUME i # 1 PROVE FALSE
      OBVIOUS
    <3>1. i - 1 \in DOMAIN mutations'[a] /\ mutations'[a][i - 1] = m
      BY <2>1, <2>4
    <3> QED
      BY <1>4, <3>1 DEF Queued
  <2>6. m = Head(mutations[a])
    BY <2>1, <2>4, <2>5
  <2>7. 1 \in 1..Len(answers)
    BY <2>2
  <2>8. answers[1] = "ok" => server[m.id] # Absent
    BY <2>1, <2>3, <2>5, <2>7 DEF SavedInv, AnswersInv
  <2> QED
    BY <2>2, <2>3, <2>6, <2>8
<1>5. CASE WriteAcknowledged \/ WriteRejected
  <2>1. PICK answer \in {"ok", "refused"} : Dequeue(answer)
    BY <1>5 DEF WriteAcknowledged, WriteRejected, WriteDone
  <2>2. answers # <<>> => Head(answers) \in {"ok", "refused"}
    BY <1>1 DEF WritesTypeOK
  <2> QED
    BY <1>4, <2>1, <2>2
<1> QED
  BY <1>2, <1>3, <1>5, StepKinds
  DEF SavedInv, QuietStep, AnswerStep, ServerCommit, ServerRefuse, ServerAnswers

\* For every number of presses, users and pictures: no kill, logout or login of
\* somebody else takes a document out of a queue, and no press, retry of the stream
\* or restart changes a document the backend has.
THEOREM DocumentsStayAlways == Spec => DocumentsStay
<1>1. SavedInv /\ [Next]_vars => [PendingStays /\ SavedStays]_vars
  BY PendingStep, SavedForeverStep DEF PendingStays, SavedStays
<1> QED
  BY <1>1, SavedInvariant, PTL DEF Spec, DocumentsStay

-----------------------------------------------------------------------------
(* ProductUpload implements WarrantySaving.                                 *)

\* A document of the press waits in some account's queue.
InQueue(p) == \E a \in Accounts : \E m \in Queued(a) : m.id = p

Status == [p \in Presses |-> StatusOf(p)]
Told   == {p \in Presses : stage[p] = "told"}

\* The status of a press, case by case.
StatusTable ==
  \A p \in Presses :
    /\ stage[p] = "idle" => StatusOf(p) = "unasked"
    /\ stage[p] \in Uploading => StatusOf(p) = "asked"
    /\ server[p] # Absent => StatusOf(p) = "saved"
    /\ stage[p] \notin Uploading \cup {"idle"} /\ server[p] = Absent =>
         StatusOf(p) = IF InQueue(p) THEN "kept" ELSE "gone"
    /\ stage[p] \in Uploading \cup {"idle"} => server[p] = Absent /\ ~InQueue(p)

\* The status of a press, case by case, in the states the app reaches.
LEMMA StatusCases == SavedInv => StatusTable
<1> SUFFICES ASSUME SavedInv, NEW p \in Presses
             PROVE  /\ stage[p] = "idle" => StatusOf(p) = "unasked"
                    /\ stage[p] \in Uploading => StatusOf(p) = "asked"
                    /\ server[p] # Absent => StatusOf(p) = "saved"
                    /\ stage[p] \notin Uploading \cup {"idle"} /\ server[p] = Absent =>
                         StatusOf(p) = IF InQueue(p) THEN "kept" ELSE "gone"
                    /\ stage[p] \in Uploading \cup {"idle"} => server[p] = Absent /\ ~InQueue(p)
  BY DEF StatusTable
<1>1. InQueue(p) \/ server[p] # Absent => stage[p] \notin Uploading \cup {"idle"}
  <2>1. ASSUME InQueue(p) PROVE stage[p] \notin Uploading \cup {"idle"}
    <3>1. PICK m \in Written : m.id = p
      BY <2>1 DEF InQueue, Written
    <3> QED
      BY <3>1 DEF SavedInv, UploadInv, DocumentsInv, DocumentInv
  <2>2. ASSUME server[p] # Absent PROVE stage[p] \notin Uploading \cup {"idle"}
    <3>1. [id |-> p, value |-> server[p]] \in Written
      BY <2>2 DEF Written, Saved
    <3>2. PICK m \in Written : m.id = p
      BY <3>1
    <3> QED
      BY <3>2 DEF SavedInv, UploadInv, DocumentsInv, DocumentInv
  <2> QED
    BY <2>1, <2>2
<1>2. InQueue(p) <=> \E a \in Accounts : \E m \in Queued(a) : m.id = p
  BY DEF InQueue
<1>3. StatusOf(p) = IF stage[p] = "idle" THEN "unasked"
                    ELSE IF server[p] # Absent THEN "saved"
                    ELSE IF InQueue(p) THEN "kept"
                    ELSE IF stage[p] \in Uploading THEN "asked" ELSE "gone"
  BY <1>2 DEF StatusOf
<1>4. "idle" \notin Uploading
  BY DEF Uploading
<1> QED
  BY <1>1, <1>3, <1>4

\* The initial states are initial states of the abstract specification.
LEMMA SavingStarts == Init => Saving!SavingInit
<1> SUFFICES ASSUME Init PROVE Saving!SavingInit
  OBVIOUS
<1>1. SavedInv
  BY SavedInit
<1>2. \A p \in Presses : StatusOf(p) = "unasked"
  BY <1>1, StatusCases DEF StatusTable, Init
<1>3. {p \in Presses : stage[p] = "told"} = {}
  BY DEF Init
<1> QED
  BY <1>2, <1>3 DEF Saving!SavingInit

\* A change of status as a function.
LEMMA OneMoves ==
  ASSUME NEW p \in Presses, NEW to,
         StatusOf(p)' = to,
         \A q \in Presses \ {p} : StatusOf(q)' = StatusOf(q)
  PROVE  Status' = [Status EXCEPT ![p] = to]
BY DEF Status

\* A change of the status of one press that the abstract specification allows
\* is a step of it.
LEMMA MoveIsAStep ==
  ASSUME NEW p \in Presses, NEW from, NEW to, StatusOf(p) \in from,
         Status' = [Status EXCEPT ![p] = to], Told' = Told
  PROVE  Saving!Move(p, from, to)
BY DEF Saving!Move, Status, Told

\* Presses whose stage, document and place in a queue do not change keep
\* their status.
LEMMA OthersStay ==
  ASSUME NEW q \in Presses, stage'[q] = stage[q], server'[q] = server[q],
         InQueue(q)' <=> InQueue(q)
  PROVE  StatusOf(q)' = StatusOf(q)
<1>1. /\ InQueue(q) <=> \E a \in Accounts : \E m \in Queued(a) : m.id = q
      /\ InQueue(q)' <=> \E a \in Accounts : \E m \in Queued(a)' : m.id = q
  BY DEF InQueue, Accounts
<1>2. /\ StatusOf(q) = IF stage[q] = "idle" THEN "unasked"
                    ELSE IF server[q] # Absent THEN "saved"
                    ELSE IF InQueue(q) THEN "kept"
                    ELSE IF stage[q] \in Uploading THEN "asked" ELSE "gone"
      /\ StatusOf(q)' = IF stage'[q] = "idle" THEN "unasked"
                    ELSE IF server'[q] # Absent THEN "saved"
                    ELSE IF InQueue(q)' THEN "kept"
                    ELSE IF stage'[q] \in Uploading THEN "asked" ELSE "gone"
  BY <1>1 DEF StatusOf, Uploading, Accounts
<1> QED
  BY <1>2

\* Every step is a step of the abstract specification or leaves its variables
\* alone, one case for each kind of step.
LEMMA SavingStep ==
  SavedInv /\ [Next]_vars => [Saving!SavingNext]_(Saving!savingVars)
<1> SUFFICES ASSUME SavedInv, [Next]_vars
             PROVE  Saving!SavingNext \/ (Status' = Status /\ Told' = Told)
  BY DEF Saving!savingVars, Status, Told
<1>1. StatusTable /\ StatusTable'
  <2>1. SavedInv'
    BY SavedStep
  <2>2. (SavedInv => StatusTable)'
    BY StatusCases, PTL
  <2> QED
    BY <2>1, <2>2, StatusCases
<1>2. stage \in [Presses -> Stages] /\ WritesTypeOK
  BY DEF SavedInv, UploadInv, Types, TypeOK
<1>3. CASE UNCHANGED <<server, mutations, stage>>
  <2>1. \A p \in Presses : StatusOf(p)' = StatusOf(p)
    BY <1>3, WrittenKept DEF StatusOf
  <2> QED
    BY <1>3, <2>1 DEF Status, Told
<1>4. ASSUME UNCHANGED mutations PROVE \A q : InQueue(q)' <=> InQueue(q)
  BY <1>4 DEF InQueue, Queued, Accounts
<1>5. ASSUME NEW p \in Presses, WarrantyPut(p) \/ WarrantyUrlProduct(p) \/ ProductPut(p)
      PROVE  Status' = Status /\ Told' = Told
  <2>1. /\ UNCHANGED <<server, mutations>> /\ stage[p] \in Uploading /\ stage'[p] \in Uploading
        /\ \A q \in Presses \ {p} : stage'[q] = stage[q]
    BY <1>2, <1>5 DEF WarrantyPut, WarrantyUrlProduct, ProductPut, documentVars, Uploading
  <2>2. StatusOf(p)' = StatusOf(p)
    BY <1>1, <2>1 DEF StatusTable
  <2>3. \A q \in Presses \ {p} : StatusOf(q)' = StatusOf(q)
    BY <1>4, <2>1, OthersStay
  <2> QED
    BY <2>1, <2>2, <2>3 DEF Status, Told, Uploading
<1>6. ASSUME NEW p \in Presses, PressNext(p) PROVE Saving!Ask(p)
  <2>1. /\ UNCHANGED <<server, mutations>> /\ stage[p] = "idle" /\ stage'[p] = "putWarranty"
        /\ \A q \in Presses \ {p} : stage'[q] = stage[q]
    BY <1>2, <1>6 DEF PressNext, documentVars
  <2>2. StatusOf(p) = "unasked" /\ StatusOf(p)' = "asked"
    BY <1>1, <2>1 DEF StatusTable, Uploading
  <2>3. \A q \in Presses \ {p} : StatusOf(q)' = StatusOf(q)
    BY <1>4, <2>1, OthersStay
  <2>4. Told' = Told
    BY <2>1 DEF Told
  <2> QED
    BY <2>2, <2>3, <2>4, OneMoves, MoveIsAStep DEF Saving!Ask
<1>7. ASSUME NEW p \in Presses, UploadFails(p) PROVE Saving!Drop(p)
  <2>1. /\ UNCHANGED <<server, mutations>> /\ stage[p] \in Uploading /\ stage'[p] = "failed"
        /\ \A q \in Presses \ {p} : stage'[q] = stage[q]
    BY <1>2, <1>7 DEF UploadFails, documentVars
  <2>2. server'[p] = Absent /\ ~InQueue(p)' /\ stage'[p] \notin Uploading \cup {"idle"}
    BY <1>1, <1>4, <2>1 DEF StatusTable, Uploading
  <2>3. StatusOf(p) = "asked" /\ StatusOf(p)' = "gone"
    BY <1>1, <2>1, <2>2 DEF StatusTable
  <2>4. \A q \in Presses \ {p} : StatusOf(q)' = StatusOf(q)
    BY <1>4, <2>1, OthersStay
  <2>5. Told' = Told
    BY <2>1 DEF Told, Uploading
  <2> QED
    BY <2>3, <2>4, <2>5, OneMoves, MoveIsAStep DEF Saving!Drop
<1>8. CASE WriteStep
  <2>1. PICK p \in Presses, images \in SUBSET Kinds :
          stage[p] \in Uploading /\ UploadProduct(p, images) /\ UNCHANGED pressForm
    BY <1>8 DEF WriteStep
  <2> DEFINE document == [form |-> pressForm[p], owner |-> currentUser, images |-> images]
             new == [id |-> p, value |-> document]
  <2>2. document \in Documents
    BY <2>1 DEF Documents, Uploading, SavedInv, UploadInv, Types, TypeOK, PressesHaveForms, Accounts
  <2>3. Enqueue(p, document) /\ UNCHANGED <<server, answers, fsUser>>
    BY <2>1 DEF UploadProduct, DocumentId
  <2>4. /\ stage'[p] = "written" /\ \A q \in Presses \ {p} : stage'[q] = stage[q]
    BY <1>2, <2>1 DEF UploadProduct
  <2> HIDE DEF document
  <2>5. \A a \in Accounts : \A m \in Queued(a)' : m \in Queued(a) \/ (a = fsUser /\ m = new)
    BY <1>2, <2>2, <2>3, WrittenEnqueued
  <2>6. /\ new \in Queued(fsUser)'
        /\ \A a \in Accounts : \A m \in Queued(a) : m \in Queued(a)'
    <3>1. new \in Mutation /\ mutations \in [Accounts -> Seq(Mutation)] /\ fsUser \in Accounts
      BY <1>2, <2>2 DEF Mutation, WritesTypeOK
    <3>2. mutations' = [mutations EXCEPT ![fsUser] = Append(mutations[fsUser], new)]
      BY <2>3 DEF Enqueue
    <3> HIDE DEF new
    <3>3. /\ Len(mutations[fsUser]) + 1 \in DOMAIN mutations'[fsUser]
          /\ mutations'[fsUser][Len(mutations[fsUser]) + 1] = new
      BY <3>1, <3>2
    <3>4. new \in Queued(fsUser)'
      BY <2>3, <3>3 DEF Queued
    <3>5. ASSUME NEW a \in Accounts, NEW m \in Queued(a) PROVE m \in Queued(a)'
      <4>1. PICK i \in DOMAIN mutations[a] : m = mutations[a][i]
        BY <3>5 DEF Queued
      <4>2. i \in DOMAIN mutations'[a] /\ mutations'[a][i] = m
        <5>1. CASE a = fsUser
          <6>1. mutations[a] \in Seq(Mutation) /\ mutations'[a] = Append(mutations[a], new)
            BY <3>1, <3>2, <5>1
          <6> QED
            BY <3>1, <4>1, <6>1
        <5>2. CASE a # fsUser
          BY <3>1, <3>2, <4>1, <5>2
        <5> QED
          BY <5>1, <5>2
      <4> QED
        BY <4>2 DEF Queued
    <3> QED
      BY <3>4, <3>5
  <2>7. InQueue(p)'
    BY <1>2, <2>3, <2>6 DEF InQueue, Accounts, WritesTypeOK
  <2>8. \A q \in Presses \ {p} : InQueue(q)' <=> InQueue(q)
    BY <2>5, <2>6 DEF InQueue, Accounts
  <2>9. StatusOf(p) = "asked" /\ StatusOf(p)' = "kept"
    BY <1>1, <2>1, <2>3, <2>4, <2>7 DEF StatusTable, Uploading
  <2>10. \A q \in Presses \ {p} : StatusOf(q)' = StatusOf(q)
    BY <2>3, <2>4, <2>8, OthersStay
  <2>11. Told' = Told
    BY <2>1, <2>4 DEF Told, Uploading
  <2>12. Saving!Keep(p)
    BY <2>9, <2>10, <2>11, OneMoves, MoveIsAStep DEF Saving!Keep
  <2> QED
    BY <2>12 DEF Saving!SavingNext
<1>9. ASSUME NEW p \in Presses, PerformSegue(p)
      PROVE  Saving!Tell(p) \/ (Status' = Status /\ Told' = Told)
  <2>1. /\ UNCHANGED <<server, mutations>> /\ stage[p] = "acked" /\ stage'[p] \in {"told", "unseen"}
        /\ \A q \in Presses \ {p} : stage'[q] = stage[q]
    BY <1>2, <1>9 DEF PerformSegue, documentVars
  <2>2. server[p] # Absent
    BY <2>1 DEF SavedInv, ToldOnlyIfSaved
  <2>3. StatusOf(p) = "saved" /\ StatusOf(p)' = "saved"
    BY <1>1, <2>1, <2>2 DEF StatusTable
  <2>4. \A q \in Presses \ {p} : StatusOf(q)' = StatusOf(q)
    BY <1>4, <2>1, OthersStay
  <2>5. Status' = Status
    BY <2>3, <2>4 DEF Status
  <2>6. Told' = IF stage'[p] = "told" THEN Told \cup {p} ELSE Told
    BY <2>1 DEF Told
  <2> QED
    BY <2>3, <2>5, <2>6 DEF Saving!Tell, Status, Told
<1>10. CASE Kill
  <2>1. UNCHANGED <<server, mutations>>
    BY <1>10 DEF Kill, RestartClient
  <2>2. \A q \in Presses : stage'[q] = IF stage[q] \in Running THEN "lost" ELSE stage[q]
    BY <1>10 DEF Kill
  <2>3. ASSUME NEW q \in Presses
        PROVE  StatusOf(q)' = IF StatusOf(q) = "asked" THEN "gone" ELSE StatusOf(q)
    <3>1. CASE stage[q] \in Uploading
      <4>1. stage'[q] = "lost" /\ server'[q] = Absent /\ ~InQueue(q)'
        BY <1>1, <1>4, <2>1, <2>2, <3>1 DEF StatusTable, Running
      <4> QED
        BY <1>1, <3>1, <4>1 DEF StatusTable, Uploading
    <3>2. CASE stage[q] = "idle"
      BY <1>1, <2>1, <2>2, <3>2 DEF StatusTable, Running, Uploading
    <3>3. CASE stage[q] \notin Uploading \cup {"idle"}
      <4>1. stage'[q] \notin Uploading \cup {"idle"}
        BY <2>2, <3>3 DEF Uploading
      <4> QED
        BY <1>1, <1>4, <2>1, <3>3, <4>1 DEF StatusTable
    <3> QED
      BY <3>1, <3>2, <3>3
  <2>4. Told' = Told
    BY <2>2 DEF Told, Running, Uploading
  <2>5. Saving!Crash
    BY <2>3, <2>4 DEF Saving!Crash, Status, Told
  <2> QED
    BY <2>5 DEF Saving!SavingNext
<1>11. ASSUME NEW answer \in {"ok", "refused"}, NEW outcome \in {"acked", "failed"},
              WriteDone(answer, outcome)
       PROVE  (\E p \in Presses : Saving!Drop(p)) \/ (Status' = Status /\ Told' = Told)
  <2>1. /\ mutations[fsUser] \in Seq(Mutation) /\ mutations[fsUser] # <<>>
        /\ Dequeue(answer) /\ UNCHANGED server /\ fsUser \in Accounts
    BY <1>2, <1>11 DEF WriteDone, Dequeue, WritesTypeOK
  <2>2. PICK p \in Presses : p = mutations[fsUser][1].id
    <3>1. mutations[fsUser][1] \in Mutation
      BY <2>1
    <3> QED
      BY <3>1 DEF Mutation
  <2>3. \A q \in Presses : stage'[q] = stage[q] \/ (q = p /\ stage[q] = "written" /\ stage'[q] = outcome)
    BY <1>2, <1>11, <2>1, <2>2 DEF WriteDone
  <2>4. ASSUME NEW a \in Accounts, NEW m \in Queued(a), m.id # p PROVE m \in Queued(a)'
    BY <1>2, <2>1, <2>2, <2>4, OthersStayQueued
  <2>5. \A a \in Accounts : Queued(a)' \subseteq Queued(a)
    BY <1>2, <2>1, WrittenDequeued
  <2>6. \A q \in Presses \ {p} : StatusOf(q)' = StatusOf(q)
    <3>1. \A q \in Presses \ {p} : InQueue(q)' <=> InQueue(q)
      BY <2>4, <2>5 DEF InQueue, Accounts
    <3> QED
      BY <2>1, <2>3, <3>1, OthersStay
  <2>7. Told' = Told
    BY <2>3 DEF Told
  <2>8. InQueue(p)
    <3>1. mutations[fsUser][1] \in Queued(fsUser)
      BY <2>1 DEF Queued
    <3> QED
      BY <2>1, <2>2, <3>1 DEF InQueue
  <2>9. stage[p] \notin Uploading \cup {"idle"} /\ stage'[p] \notin Uploading \cup {"idle"}
    BY <1>1, <2>2, <2>3, <2>8 DEF StatusTable, Uploading
  <2>10. StatusOf(p)' = StatusOf(p) \/ (StatusOf(p) = "kept" /\ StatusOf(p)' = "gone")
    BY <1>1, <2>1, <2>2, <2>8, <2>9 DEF StatusTable
  <2>11. CASE StatusOf(p)' = StatusOf(p)
    BY <2>6, <2>7, <2>11 DEF Status
  <2>12. CASE StatusOf(p) = "kept" /\ StatusOf(p)' = "gone"
    <3>1. Status' = [Status EXCEPT ![p] = "gone"]
      BY <2>2, <2>6, <2>12, OneMoves
    <3>2. Saving!Move(p, {"asked", "kept"}, "gone")
      BY <2>2, <2>7, <2>12, <3>1 DEF Saving!Move, Status, Told
    <3>3. Saving!Drop(p)
      BY <3>2 DEF Saving!Drop
    <3> QED
      BY <3>3
  <2> QED
    BY <2>10, <2>11, <2>12
<1>12. ASSUME ServerCommit, UNCHANGED stage
       PROVE  (\E p \in Presses : Saving!Save(p)) \/ (Status' = Status /\ Told' = Told)
  <2> DEFINE next == mutations[fsUser][Len(answers) + 1]
  <2>0. PICK m : m = next
    OBVIOUS
  <2>1. m \in Mutation /\ m \in Queued(fsUser) /\ m \in Written /\ fsUser \in Accounts
    BY <1>2, <1>12, <2>0, NextAnsweredIsQueued DEF ServerCommit, ServerAnswers, WritesTypeOK
  <2>2. server' = [server EXCEPT ![m.id] = m.value] /\ UNCHANGED mutations
    BY <1>12, <2>0 DEF ServerCommit, ServerAnswers
  <2>3. m.id \in Presses /\ m.value # Absent /\ stage[m.id] \notin Uploading \cup {"idle"}
    BY <2>1, UploadAssumption DEF SavedInv, UploadInv, DocumentsInv, DocumentInv
  <2>4. server'[m.id] # Absent /\ \A q \in Presses \ {m.id} : server'[q] = server[q]
    BY <1>2, <2>2, <2>3 DEF WritesTypeOK
  <2>5. InQueue(m.id)
    BY <2>1 DEF InQueue
  <2>6. StatusOf(m.id)' = "saved" /\ StatusOf(m.id) \in {"kept", "saved"}
    BY <1>1, <2>3, <2>4, <2>5 DEF StatusTable
  <2>7. \A q \in Presses \ {m.id} : StatusOf(q)' = StatusOf(q)
    BY <1>4, <1>12, <2>2, <2>4, OthersStay
  <2>8. Told' = Told
    BY <1>12 DEF Told
  <2>9. CASE StatusOf(m.id) = "kept"
    <3>1. Status' = [Status EXCEPT ![m.id] = "saved"]
      BY <2>3, <2>6, <2>7, OneMoves
    <3>2. Saving!Move(m.id, {"kept"}, "saved")
      BY <2>3, <2>8, <2>9, <3>1 DEF Saving!Move, Status, Told
    <3>3. Saving!Save(m.id)
      BY <3>2 DEF Saving!Save
    <3> QED
      BY <2>3, <3>3
  <2>10. CASE StatusOf(m.id) = "saved"
    BY <2>6, <2>7, <2>8, <2>10 DEF Status
  <2> QED
    BY <2>6, <2>9, <2>10
<1>13. CASE UNCHANGED vars
  BY <1>3, <1>13 DEF vars, documentVars, chainVars
<1>14. ASSUME NEW image \in Images, PickWarranty(image) \/ PickProduct(image)
       PROVE  UNCHANGED <<server, mutations, stage>>
  BY <1>14 DEF PickWarranty, PickProduct, documentVars, chainVars
<1>15. ASSUME NEW f \in Forms, CameraNext(f) PROVE UNCHANGED <<server, mutations, stage>>
  BY <1>15 DEF CameraNext, documentVars, chainVars
<1>16. CASE Back \/ SwitchTab \/ OpenPicker \/ ClosePicker \/ HomeAgain \/ EnterHome \/ Logout
  BY <1>3, <1>16 DEF Back, SwitchTab, OpenPicker, ClosePicker, HomeAgain, EnterHome, Logout,
                     documentVars, chainVars
<1>17. ASSUME NEW p \in Presses, StorageKeeps(p) PROVE UNCHANGED <<server, mutations, stage>>
  BY <1>17 DEF StorageKeeps, documentVars, chainVars
<1>18. ASSUME NEW p \in Presses, WarrantyUrlNoProduct(p) \/ ProductUrl(p) PROVE WriteStep
  BY <1>18 DEF WarrantyUrlNoProduct, ProductUrl, WriteStep, Kinds, Uploading
<1>19. ASSUME NEW u \in Users, SignIn(u) PROVE UNCHANGED <<server, mutations, stage>>
  BY <1>19 DEF SignIn, documentVars, chainVars
<1>20. CASE AuthStateDidChange \/ Disconnect
  BY <1>3, <1>20 DEF AuthStateDidChange, CredentialChange, Disconnect, StreamBreak, chainVars
<1>21. CASE WriteAcknowledged \/ WriteRejected
  BY <1>11, <1>21 DEF WriteAcknowledged, WriteRejected, Saving!SavingNext
<1>22. CASE BackendAnswers
  BY <1>3, <1>12, <1>22 DEF BackendAnswers, ServerRefuse, ServerAnswers, chainVars, Saving!SavingNext
<1>23. ASSUME NEW p \in Presses,
              \/ PressNext(p) \/ StorageKeeps(p) \/ WarrantyPut(p) \/ WarrantyUrlNoProduct(p)
              \/ WarrantyUrlProduct(p) \/ ProductPut(p) \/ ProductUrl(p) \/ UploadFails(p)
              \/ PerformSegue(p)
       PROVE  Saving!SavingNext \/ (Status' = Status /\ Told' = Told)
  BY <1>3, <1>5, <1>6, <1>7, <1>8, <1>9, <1>17, <1>18, <1>23 DEF Saving!SavingNext
<1> QED
  BY <1>3, <1>10, <1>13, <1>14, <1>15, <1>16, <1>19, <1>20, <1>21, <1>22, <1>23 DEF Next

\* Saving a warranty keeps the promises of the abstract specification, whatever
\* the number of presses, users, forms and pictures.
THEOREM SavingIsImplemented == Spec => ImplementsSaving
<1>1. SavedInv /\ [Next]_vars => [Saving!SavingNext]_(Saving!savingVars)
  BY SavingStep
<1> QED
  BY <1>1, SavingStarts, SavedInvariant, PTL DEF Spec, ImplementsSaving, Saving!SavingSpec

-----------------------------------------------------------------------------
(* ProductUpload implements FirestoreClient.                                *)

\* Every step writes a document, delivers an answer, has the backend answer,
\* gives the stream up for an account, or leaves the queues alone.
LEMMA ClientStep == ASSUME SavedInv, [Next]_vars PROVE [Client!Next]_(Client!vars)
<1>1. WritesTypeOK /\ UploadInv
  BY DEF SavedInv, UploadInv, Types, TypeOK
<1>2. CASE QuietStep
  <2>1. CASE UNCHANGED <<answers, fsUser>>
    BY <1>2, <2>1 DEF QuietStep, clientVars, Client!vars, Client!writeVars
  <2>2. CASE answers' = <<>>
    <3>1. Client!Restart(fsUser')
      BY <1>2, <2>2 DEF QuietStep, clientVars, Client!Restart, Client!RestartClient,
                        Client!historyVars
    <3> QED
      BY <1>2, <3>1 DEF QuietStep, Client!Next, Client!Accounts, Accounts
  <2> QED
    BY <1>2, <2>1, <2>2 DEF QuietStep
<1>3. CASE WriteStep
  <2>1. PICK p \in Presses, images \in SUBSET Kinds :
          stage[p] \in Uploading /\ UploadProduct(p, images)
    BY <1>3 DEF WriteStep
  <2> DEFINE document == [form |-> pressForm[p], owner |-> currentUser, images |-> images]
  <2>2. document \in Documents
    BY <1>1, <2>1 DEF Documents, Uploading, UploadInv, Types, TypeOK, PressesHaveForms, Accounts
  <2>3. Client!Write(p, document)
    BY <2>1 DEF UploadProduct, DocumentId, Enqueue, Client!Write, Client!Enqueue
  <2> HIDE DEF document
  <2> QED
    BY <2>2, <2>3 DEF Client!Next
<1>4. CASE AnswerStep
  <2>1. Client!Answer
    BY <1>4 DEF AnswerStep, clientVars, ServerCommit, ServerRefuse, ServerAnswers, Client!Answer,
                Client!ServerCommit, Client!ServerRefuse, Client!ServerAnswers, Client!historyVars
  <2> QED
    BY <2>1 DEF Client!Next
<1>5. CASE WriteAcknowledged
  <2>1. Client!Acknowledged
    BY <1>5 DEF WriteAcknowledged, WriteDone, Dequeue, Client!Acknowledged, Client!Dequeue,
                Client!historyVars
  <2> QED
    BY <2>1 DEF Client!Next
<1>6. CASE WriteRejected
  <2>1. Client!Rejected
    BY <1>6 DEF WriteRejected, WriteDone, Dequeue, Client!Rejected, Client!Dequeue
  <2> QED
    BY <2>1 DEF Client!Next
<1> QED
  BY <1>1, <1>2, <1>3, <1>4, <1>5, <1>6, StepKinds

\* The app starts the queues empty, for the user of an earlier run or nobody.
LEMMA ClientStarts == Init => Client!Init
  BY DEF Init, Client!Init, Accounts, Client!Accounts

\* Saving uses Firestore's write queues as FirestoreClient says a client does,
\* whatever the number of presses and users: the second application that the
\* results on the queues are about.
THEOREM UploadIsAClient == Spec => ImplementsClient
<1>1. SavedInv /\ [Next]_vars => [Client!Next]_(Client!vars)
  BY ClientStep
<1> QED
  BY <1>1, ClientStarts, SavedInvariant, PTL DEF Spec, ImplementsClient, Client!Spec

\* The module of the results on the queues and the one they are about say the
\* same.
LEMMA ClientIsQueues == Client!Spec => Queues!Spec
<1>1. Client!Init => Queues!Init
  BY DEF Client!Init, Queues!Init, Client!ClientInit, Queues!ClientInit, Client!WritesInit,
         Queues!WritesInit, Client!Accounts, Queues!Accounts
<1>2. [Client!Next]_(Client!vars) => [Queues!Next]_(Queues!vars)
  BY DEF Client!Next, Queues!Next, Client!vars, Queues!vars, Client!writeVars, Queues!writeVars,
         Client!historyVars, Queues!historyVars, Client!Accounts, Queues!Accounts,
         Client!Write, Queues!Write, Client!Enqueue, Queues!Enqueue,
         Client!Acknowledged, Queues!Acknowledged, Client!Rejected, Queues!Rejected,
         Client!Dequeue, Queues!Dequeue, Client!Answer, Queues!Answer,
         Client!ServerCommit, Queues!ServerCommit, Client!ServerRefuse, Queues!ServerRefuse,
         Client!ServerAnswers, Queues!ServerAnswers, Client!Disconnect, Queues!Disconnect,
         Client!StreamBreak, Queues!StreamBreak, Client!CredentialSet, Queues!CredentialSet,
         Client!CredentialChange, Queues!CredentialChange, Client!Restart, Queues!Restart,
         Client!RestartClient, Queues!RestartClient
<1> QED
  BY <1>1, <1>2, PTL DEF Client!Spec, Queues!Spec

-----------------------------------------------------------------------------
(* What was sent is saved.                                                  *)

\* A press writes once, under one account, and its document is the one written
\* wherever it is.
SentInv ==
  /\ \A p \in Presses : stage[p] \in Uploading \cup {"idle"} => last[p] = Absent /\ wrote[p] = {}
  /\ \A p \in Presses : \A a, b \in wrote[p] : a = b
  /\ \A m \in Written : m.value = last[m.id]

\* Every step keeps it.
LEMMA SentStep == ASSUME SavedInv, SentInv, [Next]_vars PROVE SentInv'
<1>1. WritesTypeOK /\ UploadInv /\ stage \in [Presses -> Stages]
      /\ wrote \in [Presses -> SUBSET Accounts] /\ last \in [Presses -> Documents \cup {Absent}]
  BY DEF SavedInv, UploadInv, Types, TypeOK
<1>2. ASSUME UNCHANGED <<wrote, last>>, Written' \subseteq Written,
             \A p \in Presses :
               stage'[p] \in Uploading \cup {"idle"} => stage[p] \in Uploading \cup {"idle"}
      PROVE  SentInv'
  BY <1>2 DEF SentInv, Uploading
<1>3. CASE QuietStep
  BY <1>2, <1>3, WrittenKept DEF QuietStep, clientVars
<1>4. CASE WriteStep
  <2>1. PICK p \in Presses, images \in SUBSET Kinds :
          stage[p] \in Uploading /\ UploadProduct(p, images)
    BY <1>4 DEF WriteStep
  <2> DEFINE document == [form |-> pressForm[p], owner |-> currentUser, images |-> images]
             new == [id |-> p, value |-> document]
  <2>2. document \in Documents
    BY <1>1, <2>1 DEF Documents, Uploading, UploadInv, Types, TypeOK, PressesHaveForms, Accounts
  <2>3. /\ Enqueue(p, document) /\ UNCHANGED <<server, answers, fsUser>>
        /\ last' = [last EXCEPT ![p] = document]
        /\ wrote' = [wrote EXCEPT ![p] = @ \cup {fsUser}]
        /\ stage' = [stage EXCEPT ![p] = "written"]
    BY <2>1 DEF UploadProduct, DocumentId
  <2>4. new.id = p /\ new.value = document
    OBVIOUS
  <2> HIDE DEF document
  <2>5. Written' \subseteq Written \cup {new}
    BY <1>1, <2>2, <2>3, WrittenEnqueued
  <2>6. \A m \in Written : m.id \in Presses \ {p}
    BY <1>1, <2>1 DEF UploadInv, DocumentsInv, DocumentInv
  <2> HIDE DEF new
  <2>7. \A m \in Written' : m.value = last'[m.id]
    BY <1>1, <2>3, <2>4, <2>5, <2>6 DEF SentInv
  <2>8. \A q \in Presses : \A a, b \in wrote'[q] : a = b
    BY <1>1, <2>1, <2>3 DEF SentInv
  <2>9. \A q \in Presses : stage'[q] \in Uploading \cup {"idle"} => last'[q] = Absent /\ wrote'[q] = {}
    BY <1>1, <2>3 DEF SentInv, Uploading
  <2> QED
    BY <2>7, <2>8, <2>9 DEF SentInv, Uploading
<1>5. CASE AnswerStep
  <2>1. Written' \subseteq Written
    BY <1>1, <1>5, WrittenCommitted, WrittenKept DEF AnswerStep, ServerRefuse, ServerAnswers
  <2> QED
    BY <1>2, <1>5, <2>1 DEF AnswerStep, clientVars
<1>6. CASE WriteAcknowledged \/ WriteRejected
  <2>1. PICK answer \in {"ok", "refused"}, outcome \in {"acked", "failed"} :
          WriteDone(answer, outcome)
    BY <1>6 DEF WriteAcknowledged, WriteRejected
  <2>2. Written' \subseteq Written
    BY <1>1, <2>1, WrittenDequeued DEF WriteDone
  <2>3. \A p \in Presses : stage'[p] = stage[p] \/ stage'[p] = outcome
    BY <1>1, <2>1 DEF WriteDone
  <2> QED
    BY <1>2, <2>1, <2>2, <2>3 DEF WriteDone, Uploading
<1> QED
  BY <1>1, <1>3, <1>4, <1>5, <1>6, StepKinds

\* For every number of presses and users, with breaks, kills and changes of the
\* session anywhere: what was sent and not refused is on the backend, as it was
\* sent, once no queue has it.
THEOREM SentIsSavedAlways == Spec => []SentIsSaved
<1>1. Init => SentInv
  <2> SUFFICES ASSUME Init PROVE SentInv
    OBVIOUS
  <2>1. \A a \in Accounts : Queued(a) = {}
    BY DEF Queued, Init, Client!ClientInit, Client!WritesInit, Accounts, Client!Accounts
  <2>2. Written = {}
    BY <2>1 DEF Written, Saved, Init, Client!ClientInit, Client!WritesInit
  <2> QED
    BY <2>2 DEF SentInv, Init, Client!ClientInit
<1>2. SavedInv /\ SentInv /\ [Next]_vars => SentInv'
  BY SentStep
<1>3. Spec => []Queues!LastWriteWins
  BY UploadIsAClient, ClientIsQueues, Queues!LastWriteWinsAlways, PTL DEF ImplementsClient
<1>4. SavedInv /\ SentInv /\ Queues!LastWriteWins => SentIsSaved
  <2> SUFFICES ASSUME SavedInv, SentInv, Queues!LastWriteWins, NEW p \in Presses
               PROVE  /\ server[p] \in {Absent, last[p]}
                      /\ (p \notin refused /\ \A a \in Accounts : \A m \in Queued(a) : m.id # p)
                           => server[p] = last[p]
    BY DEF SentIsSaved
  <2>1. ASSUME server[p] # Absent PROVE server[p] = last[p]
    <3>1. [id |-> p, value |-> server[p]] \in Written
      BY <2>1 DEF Written, Saved
    <3> QED
      BY <3>1 DEF SentInv
  <2>2. ASSUME p \notin refused, \A a \in Accounts : \A m \in Queued(a) : m.id # p
        PROVE  server[p] = last[p]
    <3>1. Queues!OneAccount(p)
      BY DEF SentInv, Queues!OneAccount
    <3>2. \A a \in Queues!Accounts : p \notin Queues!Unacknowledged(a)
      BY <2>2 DEF Queues!Accounts, Accounts, Queues!Unacknowledged, Queued
    <3> QED
      BY <2>2, <3>1, <3>2 DEF Queues!LastWriteWins
  <2> QED
    BY <2>1, <2>2
<1> QED
  BY <1>1, <1>2, <1>3, <1>4, SavedInvariant, PTL DEF Spec

-----------------------------------------------------------------------------
(* The write a chain waits for.                                             *)

\* A document has one place in the queues.
OnePlace ==
  \A a, b \in Accounts : \A i \in DOMAIN mutations[a], j \in DOMAIN mutations[b] :
    mutations[a][i].id = mutations[b][j].id => b = a /\ j = i

\* A chain that has written and has no answer has its document in a queue.
WrittenIsQueued == \A p \in Presses : stage[p] = "written" => InQueue(p)

PlacesInv == OnePlace /\ WrittenIsQueued

\* A press that has not written has no place: the one it gets is the only one.
LEMMA PlacesWrite == ASSUME SavedInv, PlacesInv, WriteStep PROVE PlacesInv'
<1>1. WritesTypeOK /\ UploadInv /\ stage \in [Presses -> Stages]
  BY DEF SavedInv, UploadInv, Types, TypeOK
<1>2. PICK p \in Presses, images \in SUBSET Kinds :
        stage[p] \in Uploading /\ UploadProduct(p, images)
  BY DEF WriteStep
<1> DEFINE document == [form |-> pressForm[p], owner |-> currentUser, images |-> images]
           new == [id |-> p, value |-> document]
           q   == mutations[fsUser]
<1>3. document \in Documents
  BY <1>1, <1>2 DEF Documents, Uploading, UploadInv, Types, TypeOK, PressesHaveForms, Accounts
<1>4. /\ Enqueue(p, document) /\ stage' = [stage EXCEPT ![p] = "written"]
      /\ fsUser' = fsUser /\ fsUser \in Accounts /\ q \in Seq(Mutation)
  BY <1>1, <1>2 DEF UploadProduct, DocumentId, WritesTypeOK
<1>5. new \in Mutation /\ new.id = p
  BY <1>3 DEF Mutation
<1>6. /\ mutations'[fsUser] = Append(q, new)
      /\ \A a \in Accounts \ {fsUser} : mutations'[a] = mutations[a]
  BY <1>1, <1>4 DEF Enqueue, WritesTypeOK
<1> HIDE DEF document, new, q
<1>7. /\ DOMAIN Append(q, new) = DOMAIN q \cup {Len(q) + 1}
      /\ \A i \in DOMAIN q : Append(q, new)[i] = q[i]
      /\ Append(q, new)[Len(q) + 1] = new
  BY <1>4, <1>5, Queues!AppendPlaces
<1>8. ASSUME NEW a \in Accounts, NEW i \in DOMAIN mutations'[a]
      PROVE  \/ a = fsUser /\ i = Len(q) + 1 /\ mutations'[a][i].id = p
             \/ i \in DOMAIN mutations[a] /\ mutations'[a][i] = mutations[a][i]
  BY <1>5, <1>6, <1>7 DEF q
<1>9. ASSUME NEW a \in Accounts, NEW i \in DOMAIN mutations[a]
      PROVE  /\ mutations[a][i].id # p
             /\ i \in DOMAIN mutations'[a] /\ mutations'[a][i] = mutations[a][i]
  <2>1. mutations[a][i] \in Written
    BY DEF Written, Queued
  <2>2. mutations[a][i].id # p
    BY <1>1, <1>2, <2>1 DEF UploadInv, DocumentsInv, DocumentInv
  <2> QED
    BY <1>6, <1>7, <2>2 DEF q
<1>10. OnePlace'
  <2> SUFFICES ASSUME NEW a \in Accounts, NEW b \in Accounts,
                      NEW i \in DOMAIN mutations'[a], NEW j \in DOMAIN mutations'[b],
                      mutations'[a][i].id = mutations'[b][j].id
               PROVE  b = a /\ j = i
    BY DEF OnePlace, Accounts
  <2>1. CASE mutations'[a][i].id = p
    <3>1. a = fsUser /\ i = Len(q) + 1
      <4>1. CASE i \in DOMAIN mutations[a] /\ mutations'[a][i] = mutations[a][i]
        BY <1>9, <2>1, <4>1
      <4> QED
        BY <1>8, <4>1
    <3>2. b = fsUser /\ j = Len(q) + 1
      <4>1. mutations'[b][j].id = p
        BY <2>1
      <4>2. CASE j \in DOMAIN mutations[b] /\ mutations'[b][j] = mutations[b][j]
        BY <1>9, <4>1, <4>2
      <4> QED
        BY <1>8, <4>2
    <3> QED
      BY <3>1, <3>2
  <2>2. CASE mutations'[a][i].id # p
    <3>1. /\ i \in DOMAIN mutations[a] /\ mutations'[a][i] = mutations[a][i]
          /\ j \in DOMAIN mutations[b] /\ mutations'[b][j] = mutations[b][j]
      BY <1>8, <2>2
    <3> QED
      BY <3>1 DEF PlacesInv, OnePlace
  <2> QED
    BY <2>1, <2>2
<1>11. ASSUME NEW r \in Presses, stage'[r] = "written" PROVE InQueue(r)'
  <2>1. CASE r = p
    <3>1. Len(q) + 1 \in DOMAIN mutations'[fsUser] /\ mutations'[fsUser][Len(q) + 1].id = p
      BY <1>5, <1>6, <1>7
    <3> QED
      BY <1>4, <2>1, <3>1 DEF InQueue, Queued, Accounts
  <2>2. CASE r # p
    <3>1. InQueue(r)
      BY <1>1, <1>4, <1>11, <2>2 DEF PlacesInv, WrittenIsQueued
    <3>2. PICK a \in Accounts : \E i \in DOMAIN mutations[a] : mutations[a][i].id = r
      BY <3>1 DEF InQueue, Queued
    <3>3. \E i \in DOMAIN mutations'[a] : mutations'[a][i].id = r
      BY <1>9, <3>2
    <3> QED
      BY <3>3 DEF InQueue, Queued, Accounts
  <2> QED
    BY <2>1, <2>2
<1> QED
  BY <1>10, <1>11 DEF PlacesInv, WrittenIsQueued

\* The delivery of an answer closes the chain whose document leaves, and moves
\* the others up.
LEMMA PlacesDone ==
  ASSUME SavedInv, PlacesInv, NEW answer, NEW outcome, outcome # "written",
         WriteDone(answer, outcome)
  PROVE  PlacesInv'
<1> DEFINE q == mutations[fsUser]
<1>1. WritesTypeOK /\ stage \in [Presses -> Stages]
  BY DEF SavedInv, UploadInv, Types, TypeOK
<1>2. /\ Dequeue(answer) /\ q \in Seq(Mutation) /\ q # <<>> /\ fsUser \in Accounts
      /\ mutations'[fsUser] = Tail(q)
      /\ \A a \in Accounts \ {fsUser} : mutations'[a] = mutations[a]
  BY <1>1 DEF WriteDone, Dequeue, WritesTypeOK
<1>3. /\ Head(q) = q[1] /\ Head(q) \in Mutation
      /\ \A i \in DOMAIN Tail(q) : i \in Nat /\ i + 1 \in DOMAIN q /\ Tail(q)[i] = q[i + 1]
  BY <1>2, Queues!TailPlaces
<1>4. OnePlace'
  <2> SUFFICES ASSUME NEW a \in Accounts, NEW b \in Accounts,
                      NEW i \in DOMAIN mutations'[a], NEW j \in DOMAIN mutations'[b],
                      mutations'[a][i].id = mutations'[b][j].id
               PROVE  b = a /\ j = i
    BY DEF OnePlace, Accounts
  <2> DEFINE k == IF a = fsUser THEN i + 1 ELSE i
             l == IF b = fsUser THEN j + 1 ELSE j
  <2>1. /\ k \in DOMAIN mutations[a] /\ mutations'[a][i] = mutations[a][k]
        /\ l \in DOMAIN mutations[b] /\ mutations'[b][j] = mutations[b][l]
    BY <1>2, <1>3
  <2>2. b = a /\ l = k
    BY <2>1 DEF PlacesInv, OnePlace
  <2>3. CASE a = fsUser
    <3>1. i \in Nat /\ j \in Nat
      BY <1>2, <1>3, <2>2, <2>3
    <3> QED
      BY <2>2, <2>3, <3>1
  <2>4. CASE a # fsUser
    BY <2>2, <2>4
  <2> QED
    BY <2>2, <2>3, <2>4
<1>5. ASSUME NEW r \in Presses, stage'[r] = "written" PROVE InQueue(r)'
  <2>1. stage[r] = "written" /\ r # Head(q).id
    BY <1>1, <1>3, <1>5 DEF WriteDone, Mutation
  <2>2. PICK a \in Accounts : \E m \in Queued(a) : m.id = r
    BY <2>1 DEF PlacesInv, WrittenIsQueued, InQueue
  <2>3. \E m \in Queued(a)' : m.id = r
    BY <1>1, <1>2, <2>1, <2>2, OthersStayQueued
  <2> QED
    BY <2>3 DEF InQueue, Accounts
<1> QED
  BY <1>4, <1>5 DEF PlacesInv, WrittenIsQueued

\* Every step keeps the places.
LEMMA PlacesStep == ASSUME SavedInv, PlacesInv, [Next]_vars PROVE PlacesInv'
<1>1. UploadInv
  BY DEF SavedInv
<1>2. CASE QuietStep
  BY <1>2 DEF QuietStep, PlacesInv, OnePlace, WrittenIsQueued, InQueue, Queued, Accounts
<1>3. CASE AnswerStep
  BY <1>3 DEF AnswerStep, ServerCommit, ServerRefuse, ServerAnswers, PlacesInv, OnePlace,
              WrittenIsQueued, InQueue, Queued, Accounts
<1>4. CASE WriteAcknowledged \/ WriteRejected
  BY <1>4, PlacesDone DEF WriteAcknowledged, WriteRejected
<1> QED
  BY <1>1, <1>2, <1>3, <1>4, PlacesWrite, StepKinds

\* Whatever is killed, broken or switched, a chain that waits for its write waits
\* for the one mutation that has its document.
THEOREM WaitsInOnePlaceAlways == Spec => []WaitsInOnePlace
<1>1. Init => PlacesInv
  <2> SUFFICES ASSUME Init PROVE PlacesInv
    OBVIOUS
  <2>1. \A a \in Accounts : mutations[a] = <<>>
    BY DEF Init, Client!ClientInit, Client!WritesInit, Accounts, Client!Accounts
  <2> QED
    BY <2>1 DEF Init, PlacesInv, OnePlace, WrittenIsQueued
<1>2. SavedInv /\ PlacesInv /\ [Next]_vars => PlacesInv'
  BY PlacesStep
<1>3. PlacesInv => WaitsInOnePlace
  BY DEF PlacesInv, OnePlace, WrittenIsQueued, InQueue, Queued, WaitsInOnePlace
<1> QED
  BY <1>1, <1>2, <1>3, SavedInvariant, PTL DEF Spec

=============================================================================
