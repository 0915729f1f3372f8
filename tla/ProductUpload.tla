---------------------------- MODULE ProductUpload ----------------------------
(***************************************************************************)
(* Saving a warranty.  The user takes the picture of the warranty          *)
(* (CameraVC), optionally picks a picture of the product and presses Next  *)
(* (OptionalDataVC).  A press is a chain of callbacks: put the warranty    *)
(* picture in Storage, ask its URL, put the product picture if there is    *)
(* one, ask its URL, write the document with the URLs and the owner, and   *)
(* show "product added" when the backend has acknowledged it.              *)
(*                                                                         *)
(* While a chain runs the user goes on: other presses, another picture,    *)
(* Back, another tab, logout and login as somebody else; the process may   *)
(* be killed at any time.                                                  *)
(***************************************************************************)
EXTENDS Naturals, Sequences

CONSTANTS Presses,  \* presses of Next; a press gets fresh UUIDs, so it also
                    \* names the document and the two objects it creates
          Forms,    \* instances of OptionalDataVC
          Images,   \* pictures
          NoImage,  \* no picture
          NoForm,   \* no instance of OptionalDataVC
          Users, NoUser, Absent

VARIABLES
  server, mutations, answers, fsUser, \* see FirestoreWrites
  currentUser,   \* Auth.auth().currentUser
  screen,        \* "auth", "entering" (signed in, Home not up yet) or "home"
  tab,           \* "add" or "other": the tab of Home in front
  stack,         \* the OptionalDataVC on top of the Add tab, NoForm: CameraVC
  modal,         \* what is presented over the Add tab: "none", "picker", "added"
  cameraImage,   \* CameraVC's warrantyImageView.image
  warrantyImage, \* for each form, product.warrantyImage
  productImage,  \* for each form, productImageView.image
  stage,         \* for each press, how far its chain of callbacks is
  pressForm,     \* for each press, the form it was made on
  payload,       \* for each press, the product picture handed to putData
  warrantyObject,\* for each press, what Storage holds under Warranty/<UUID>
  productObject, \* for each press, what Storage holds under Product/<UUID>
  \* history variables: no action reads them
  presser,       \* for each press, the user who pressed
  shownImage,    \* for each press, the product picture on screen at the press
  switched,      \* the presses whose user changed before the document was written
  repicked,      \* the presses whose form got a new product picture before the
                 \* chain had read it
  wrote, last, refused \* see FirestoreClient

documentVars == <<server, mutations, answers, fsUser>>
screenVars   == <<screen, tab, stack, modal, cameraImage>>
formVars     == <<warrantyImage, productImage>>
chainVars    == <<stage, pressForm, payload>>
storageVars  == <<warrantyObject, productObject>>
clientVars   == <<wrote, last, refused>>
historyVars  == <<presser, shownImage, switched, repicked, clientVars>>
vars == <<documentVars, currentUser, screenVars, formVars, chainVars,
          storageVars, historyVars>>

-----------------------------------------------------------------------------
(* The document a press writes.  It names its objects by their kind: the    *)
(* URLs of a press are those of its own two references.  Name, dates and    *)
(* category come with the form; the notes are left out.                     *)

Kinds == {"Warranty", "Product"}

Documents == [form : Forms, owner : Users \cup {NoUser}, images : SUBSET Kinds]

INSTANCE FirestoreWrites WITH Ids <- Presses, Contents <- Documents
Client == INSTANCE FirestoreClient WITH Ids <- Presses, Contents <- Documents

\* The values that stand for nothing are not among the things they stand in for.
ASSUME UploadAssumption ==
  /\ NoImage \notin Images
  /\ NoForm \notin Forms
  /\ NoUser \notin Users
  /\ Absent \notin Documents

\* Mutant of DocumentId: one identifier per form, as CategoryVC has one per
\* controller.
DocumentIdOfForm(p) == CHOOSE q \in Presses : pressForm[q] = pressForm[p]

\* The identifier uploadProduct gives the document: a fresh UUID.
DocumentId(p) == p

Stages == {"idle", "putWarranty", "urlWarranty", "putProduct", "urlProduct",
           "written", "acked", "told", "unseen", "failed", "lost"}

Uploading == {"putWarranty", "urlWarranty", "putProduct", "urlProduct"}
Running   == Uploading \cup {"written", "acked"}
Settled   == {"told", "unseen", "failed", "lost"}

\* The product picture of a chain has not been read yet.
Unread == {"putWarranty", "urlWarranty"}

TypeOK ==
  /\ WritesTypeOK
  /\ currentUser \in Accounts
  /\ screen \in {"auth", "entering", "home"}
  /\ tab \in {"add", "other"}
  /\ stack \in Forms \cup {NoForm}
  /\ modal \in {"none", "picker", "added"}
  /\ cameraImage \in Images \cup {NoImage}
  /\ warrantyImage \in [Forms -> Images \cup {NoImage}]
  /\ productImage \in [Forms -> Images \cup {NoImage}]
  /\ stage \in [Presses -> Stages]
  /\ pressForm \in [Presses -> Forms \cup {NoForm}]
  /\ payload \in [Presses -> Images \cup {NoImage}]
  /\ warrantyObject \in [Presses -> Images \cup {NoImage}]
  /\ productObject \in [Presses -> Images \cup {NoImage}]
  /\ presser \in [Presses -> Accounts]
  /\ shownImage \in [Presses -> Images \cup {NoImage}]
  /\ switched \subseteq Presses
  /\ repicked \subseteq Presses
  /\ wrote \in [Presses -> SUBSET Accounts]
  /\ last \in [Presses -> Documents \cup {Absent}]
  /\ refused \subseteq Presses

\* The app starts on the authorization screen; a user may still be signed in
\* from an earlier run.
Init ==
  /\ currentUser \in Accounts
  /\ Client!ClientInit(currentUser)
  /\ screen = "auth" /\ tab = "other" /\ stack = NoForm /\ modal = "none"
  /\ cameraImage = NoImage
  /\ warrantyImage = [f \in Forms |-> NoImage]
  /\ productImage = [f \in Forms |-> NoImage]
  /\ stage = [p \in Presses |-> "idle"]
  /\ pressForm = [p \in Presses |-> NoForm]
  /\ payload = [p \in Presses |-> NoImage]
  /\ warrantyObject = [p \in Presses |-> NoImage]
  /\ productObject = [p \in Presses |-> NoImage]
  /\ presser = [p \in Presses |-> NoUser]
  /\ shownImage = [p \in Presses |-> NoImage]
  /\ switched = {} /\ repicked = {}

-----------------------------------------------------------------------------
(* The user on the screens of the Add tab.                                  *)

OnScreen(f) == screen = "home" /\ tab = "add" /\ stack = f

\* CameraVC: take or import the picture of the warranty.
PickWarranty(image) ==
  /\ OnScreen(NoForm)
  /\ cameraImage' = image
  /\ UNCHANGED <<documentVars, currentUser, screen, tab, stack, modal, formVars,
                 chainVars, storageVars, historyVars>>

\* CameraVC, Next: a new OptionalDataVC with the picture in its product.
CameraNext(f) ==
  /\ OnScreen(NoForm)
  /\ cameraImage # NoImage
  /\ warrantyImage[f] = NoImage
  /\ warrantyImage' = [warrantyImage EXCEPT ![f] = cameraImage]
  /\ stack' = f
  /\ UNCHANGED <<documentVars, currentUser, screen, tab, modal, cameraImage,
                 productImage, chainVars, storageVars, historyVars>>

\* Back from OptionalDataVC to CameraVC, or from CameraVC to AddProductVC.
Back ==
  /\ screen = "home" /\ tab = "add" /\ modal = "none"
  /\ \/ stack # NoForm /\ stack' = NoForm /\ UNCHANGED cameraImage
     \/ stack = NoForm /\ cameraImage' = NoImage /\ UNCHANGED stack
  /\ UNCHANGED <<documentVars, currentUser, screen, tab, modal, formVars,
                 chainVars, storageVars, historyVars>>

SwitchTab ==
  /\ screen = "home" /\ modal = "none"
  /\ tab' = IF tab = "add" THEN "other" ELSE "add"
  /\ UNCHANGED <<documentVars, currentUser, screen, stack, modal, cameraImage,
                 formVars, chainVars, storageVars, historyVars>>

\* OptionalDataVC: the photo and camera buttons.
OpenPicker ==
  /\ stack # NoForm /\ OnScreen(stack) /\ modal = "none"
  /\ modal' = "picker"
  /\ UNCHANGED <<documentVars, currentUser, screen, tab, stack, cameraImage,
                 formVars, chainVars, storageVars, historyVars>>

ClosePicker ==
  /\ modal = "picker"
  /\ modal' = "none"
  /\ UNCHANGED <<documentVars, currentUser, screen, tab, stack, cameraImage,
                 formVars, chainVars, storageVars, historyVars>>

PickProduct(image) ==
  /\ modal = "picker"
  /\ modal' = "none"
  /\ productImage' = [productImage EXCEPT ![stack] = image]
  /\ repicked' = repicked \cup
                   {p \in Presses : stage[p] \in Unread /\ pressForm[p] = stack}
  /\ UNCHANGED <<documentVars, currentUser, screen, tab, stack, cameraImage,
                 warrantyImage, chainVars, storageVars, presser, shownImage, switched,
                 clientVars>>

\* OptionalDataVC, Next.  Nothing keeps the user from pressing it again.
PressNext(p) ==
  /\ stage[p] = "idle"
  /\ stack # NoForm /\ OnScreen(stack) /\ modal = "none"
  /\ stage' = [stage EXCEPT ![p] = "putWarranty"]
  /\ pressForm' = [pressForm EXCEPT ![p] = stack]
  /\ presser' = [presser EXCEPT ![p] = currentUser]
  /\ shownImage' = [shownImage EXCEPT ![p] = productImage[stack]]
  /\ UNCHANGED <<documentVars, currentUser, screenVars, formVars, payload,
                 storageVars, switched, repicked, clientVars>>

-----------------------------------------------------------------------------
(* The chain of callbacks of a press.                                       *)

\* Storage keeps the bytes of the put under way; the callback is another step.
StorageKeeps(p) ==
  /\ \/ /\ stage[p] = "putWarranty"
        /\ warrantyObject' = [warrantyObject EXCEPT ![p] = warrantyImage[pressForm[p]]]
        /\ UNCHANGED productObject
     \/ /\ stage[p] = "putProduct"
        /\ productObject' = [productObject EXCEPT ![p] = payload[p]]
        /\ UNCHANGED warrantyObject
  /\ UNCHANGED <<documentVars, currentUser, screenVars, formVars, chainVars, historyVars>>

\* Mutant of WarrantyPut: the URL is not asked for in the completion of putData.
WarrantyPutUnawaited(p) ==
  /\ stage[p] = "putWarranty"
  /\ stage' = [stage EXCEPT ![p] = "urlWarranty"]
  /\ UNCHANGED <<documentVars, currentUser, screenVars, formVars, pressForm,
                 payload, storageVars, historyVars>>

\* putData of the warranty picture calls back without an error.
WarrantyPut(p) ==
  /\ stage[p] = "putWarranty"
  /\ warrantyObject[p] # NoImage
  /\ stage' = [stage EXCEPT ![p] = "urlWarranty"]
  /\ UNCHANGED <<documentVars, currentUser, screenVars, formVars, pressForm,
                 payload, storageVars, historyVars>>

\* uploadProduct: the owner is whoever is signed in now.
UploadProduct(p, images) ==
  /\ LET document == [form |-> pressForm[p], owner |-> currentUser, images |-> images]
     IN  Enqueue(DocumentId(p), document)
         /\ last' = [last EXCEPT ![DocumentId(p)] = document]
  /\ wrote' = [wrote EXCEPT ![DocumentId(p)] = @ \cup {fsUser}]
  /\ stage' = [stage EXCEPT ![p] = "written"]
  /\ UNCHANGED <<server, answers, fsUser, refused, presser, shownImage, switched, repicked>>

\* Mutant of WarrantyUrlNoProduct: the product picture is forgotten.
WarrantyUrlSkipsProduct(p) ==
  /\ stage[p] = "urlWarranty"
  /\ UploadProduct(p, {"Warranty"})
  /\ UNCHANGED <<currentUser, screenVars, formVars, pressForm, payload,
                 storageVars>>

\* downloadURL of the warranty picture calls back without an error, and the
\* form has no product picture now.
WarrantyUrlNoProduct(p) ==
  /\ stage[p] = "urlWarranty"
  /\ productImage[pressForm[p]] = NoImage
  /\ UploadProduct(p, {"Warranty"})
  /\ UNCHANGED <<currentUser, screenVars, formVars, pressForm, payload,
                 storageVars>>

\* The same, and the form has a product picture now.
WarrantyUrlProduct(p) ==
  /\ stage[p] = "urlWarranty"
  /\ productImage[pressForm[p]] # NoImage
  /\ payload' = [payload EXCEPT ![p] = productImage[pressForm[p]]]
  /\ stage' = [stage EXCEPT ![p] = "putProduct"]
  /\ UNCHANGED <<documentVars, currentUser, screenVars, formVars, pressForm,
                 storageVars, historyVars>>

ProductPut(p) ==
  /\ stage[p] = "putProduct"
  /\ productObject[p] # NoImage
  /\ stage' = [stage EXCEPT ![p] = "urlProduct"]
  /\ UNCHANGED <<documentVars, currentUser, screenVars, formVars, pressForm,
                 payload, storageVars, historyVars>>

ProductUrl(p) ==
  /\ stage[p] = "urlProduct"
  /\ UploadProduct(p, Kinds)
  /\ UNCHANGED <<currentUser, screenVars, formVars, pressForm, payload,
                 storageVars>>

\* An upload or a URL request calls back with an error (the bytes may have
\* been kept all the same), or the product picture has no JPEG form: the
\* chain ends and the screen does not change.
UploadFails(p) ==
  /\ stage[p] \in Uploading
  /\ stage' = [stage EXCEPT ![p] = "failed"]
  /\ UNCHANGED <<documentVars, currentUser, screenVars, formVars, pressForm,
                 payload, storageVars, historyVars>>

\* Mutant of WriteDone: setData is given no completion.
WriteDoneUnheard(answer, outcome) ==
  /\ Dequeue(answer)
  /\ refused' = refused \cup {p \in Presses : answer = "refused" /\ p = Head(mutations[fsUser]).id}
  /\ UNCHANGED <<currentUser, screenVars, formVars, chainVars, storageVars,
                 presser, shownImage, switched, repicked, wrote, last>>

\* An answer to the oldest mutation arrives.  Its callback is known to this
\* process only if the press was made in it.
WriteDone(answer, outcome) ==
  /\ Dequeue(answer)
  /\ LET p == Head(mutations[fsUser]).id
     IN  /\ stage' = IF stage[p] = "written" THEN [stage EXCEPT ![p] = outcome]
                                             ELSE stage
         /\ refused' = IF answer = "refused" THEN refused \cup {p} ELSE refused
  /\ UNCHANGED <<currentUser, screenVars, formVars, pressForm, payload, storageVars,
                 presser, shownImage, switched, repicked, wrote, last>>

\* Mutant of WriteRejected: the error is not looked at.
WriteRejectedIgnored == WriteDone("refused", "acked")

WriteAcknowledged == WriteDone("ok", "acked")
WriteRejected     == WriteDone("refused", "failed")

\* Mutant of PerformSegue: shown when the write is queued.
PerformSegueAtOnce(p) ==
  /\ stage[p] \in {"written", "acked"}
  /\ IF OnScreen(pressForm[p]) /\ modal = "none"
     THEN modal' = "added" /\ stage' = [stage EXCEPT ![p] = "told"]
     ELSE stage' = [stage EXCEPT ![p] = "unseen"] /\ UNCHANGED modal
  /\ UNCHANGED <<documentVars, currentUser, screen, tab, stack, cameraImage,
                 formVars, pressForm, payload, storageVars, historyVars>>

\* The segue to the "product added" screen, on the main queue: UIKit presents
\* nothing over a view that is not on screen or already presents something.
PerformSegue(p) ==
  /\ stage[p] = "acked"
  /\ IF OnScreen(pressForm[p]) /\ modal = "none"
     THEN modal' = "added" /\ stage' = [stage EXCEPT ![p] = "told"]
     ELSE stage' = [stage EXCEPT ![p] = "unseen"] /\ UNCHANGED modal
  /\ UNCHANGED <<documentVars, currentUser, screen, tab, stack, cameraImage,
                 formVars, pressForm, payload, storageVars, historyVars>>

\* Three seconds later a new Home, with new controllers, covers everything.
HomeAgain ==
  /\ modal = "added"
  /\ tab' = "other" /\ stack' = NoForm /\ modal' = "none" /\ cameraImage' = NoImage
  /\ UNCHANGED <<documentVars, currentUser, screen, formVars, chainVars,
                 storageVars, historyVars>>

-----------------------------------------------------------------------------
(* Sessions.                                                                *)

\* Auth's current user becomes u (NoUser: a sign-out).
SetCurrentUser(u) ==
  /\ currentUser' = u
  /\ switched' = IF u = currentUser THEN switched
                 ELSE switched \cup {p \in Presses : stage[p] \in Uploading}

\* LoginVC.  The answer takes a round trip, so the notification of an earlier
\* sign-out has run.
SignIn(u) ==
  /\ screen = "auth"
  /\ fsUser = currentUser
  /\ SetCurrentUser(u)
  /\ screen' = "entering"
  /\ UNCHANGED <<documentVars, tab, stack, modal, cameraImage, formVars,
                 chainVars, storageVars, presser, shownImage, repicked, clientVars>>

\* Auth's notification, on the main queue, ahead of signIn's completion.
AuthStateDidChange ==
  /\ CredentialChange(currentUser)
  /\ UNCHANGED <<currentUser, screenVars, formVars, chainVars, storageVars, historyVars>>

\* Mutant of EnterHome: Home does not wait for the notification.
EnterHomeEarly ==
  /\ screen = "entering"
  /\ screen' = "home" /\ tab' = "other" /\ stack' = NoForm
  /\ modal' = "none" /\ cameraImage' = NoImage
  /\ UNCHANGED <<documentVars, currentUser, formVars, chainVars, storageVars, historyVars>>

\* The completion of signIn puts up Home.
EnterHome ==
  /\ screen = "entering"
  /\ fsUser = currentUser
  /\ screen' = "home" /\ tab' = "other" /\ stack' = NoForm
  /\ modal' = "none" /\ cameraImage' = NoImage
  /\ UNCHANGED <<documentVars, currentUser, formVars, chainVars, storageVars, historyVars>>

\* Mutant of Logout: what the user has not sent is thrown away.
LogoutForgets ==
  /\ screen = "home" /\ tab = "other" /\ modal = "none"
  /\ SetCurrentUser(NoUser)
  /\ screen' = "auth" /\ stack' = NoForm /\ cameraImage' = NoImage
  /\ mutations' = [mutations EXCEPT ![fsUser] = <<>>] /\ answers' = <<>>
  /\ UNCHANGED <<server, fsUser, tab, modal, formVars, chainVars, storageVars,
                 presser, shownImage, repicked, clientVars>>

\* ProfileVC: sign out, and the authorization screen replaces Home.  Uploads
\* under way go on: their closures keep the OptionalDataVC alive.
Logout ==
  /\ screen = "home" /\ tab = "other" /\ modal = "none"
  /\ SetCurrentUser(NoUser)
  /\ screen' = "auth" /\ stack' = NoForm /\ cameraImage' = NoImage
  /\ UNCHANGED <<documentVars, tab, modal, formVars, chainVars, storageVars,
                 presser, shownImage, repicked, clientVars>>

\* The process is killed and started again.  Auth's user is in the keychain,
\* Firestore's queues are on disk; chains, callbacks and screens are gone.
Kill ==
  /\ RestartClient(currentUser)
  /\ stage' = [p \in Presses |-> IF stage[p] \in Running THEN "lost" ELSE stage[p]]
  /\ screen' = "auth" /\ tab' = "other" /\ stack' = NoForm
  /\ modal' = "none" /\ cameraImage' = NoImage
  /\ UNCHANGED <<currentUser, formVars, pressForm, payload, storageVars, historyVars>>

\* The backend of Firestore, and the connection to it.
BackendAnswers ==
  /\ ServerCommit \/ ServerRefuse
  /\ UNCHANGED <<currentUser, screenVars, formVars, chainVars, storageVars, historyVars>>

Disconnect ==
  /\ StreamBreak
  /\ UNCHANGED <<currentUser, screenVars, formVars, chainVars, storageVars, historyVars>>

Next ==
  \/ \E image \in Images : PickWarranty(image) \/ PickProduct(image)
  \/ \E f \in Forms : CameraNext(f)
  \/ Back \/ SwitchTab \/ OpenPicker \/ ClosePicker
  \/ \E p \in Presses :
       \/ PressNext(p) \/ StorageKeeps(p) \/ WarrantyPut(p)
       \/ WarrantyUrlNoProduct(p) \/ WarrantyUrlProduct(p)
       \/ ProductPut(p) \/ ProductUrl(p) \/ UploadFails(p) \/ PerformSegue(p)
  \/ WriteAcknowledged \/ WriteRejected \/ HomeAgain
  \/ \E u \in Users : SignIn(u)
  \/ AuthStateDidChange \/ EnterHome \/ Logout \/ Kill
  \/ BackendAnswers \/ Disconnect

Spec == Init /\ [][Next]_vars

-----------------------------------------------------------------------------
(* Fairness.  GCD runs what is queued, Storage and the backend answer when  *)
(* the network is up, and the network is up again and again.  No fairness   *)
(* for the user or for the operating system's kills.                        *)

Fairness ==
  /\ \A p \in Presses :
       /\ WF_vars(StorageKeeps(p))
       /\ WF_vars(WarrantyPut(p))
       /\ WF_vars(WarrantyUrlNoProduct(p) \/ WarrantyUrlProduct(p))
       /\ WF_vars(ProductPut(p))
       /\ WF_vars(ProductUrl(p))
       /\ WF_vars(PerformSegue(p))
  /\ WF_vars(BackendAnswers)
  /\ SF_vars(WriteAcknowledged \/ WriteRejected)
  /\ WF_vars(AuthStateDidChange)
  /\ WF_vars(EnterHome)
  /\ WF_vars(HomeAgain)

FairSpec == Spec /\ Fairness

-----------------------------------------------------------------------------
(* Properties.                                                              *)

Queued(a) == {mutations[a][i] : i \in DOMAIN mutations[a]}

\* The documents that exist, on the device or on the backend, as mutations.
Saved == {[id |-> p, value |-> server[p]] : p \in {q \in Presses : server[q] # Absent}}
Written == (UNION {Queued(a) : a \in Accounts}) \cup Saved

\* A document, wherever it is, has a URL for exactly the pictures that Storage
\* holds for its press, and the warranty picture is the one its form carried:
\* no URL dangles, no picture of a saved warranty is an orphan, and two presses
\* do not mix their pictures (the order of OptionalDataVC's nested callbacks).
ImagesMatchDocument ==
  \A m \in Written :
    /\ m.value.images = {"Warranty"} \cup
         (IF productObject[m.id] = NoImage THEN {} ELSE {"Product"})
    /\ warrantyObject[m.id] = warrantyImage[m.value.form]
    /\ m.value.form = pressForm[m.id]

\* If the session did not change while the pictures were uploaded, the document
\* belongs to the user who pressed Next and waits in that user's queue, although
\* the owner is read late and Firestore learns of the session later than Auth
\* (uploadProduct, and the queue Firestore picks).
OwnerIsPresser ==
  /\ \A m \in Written : m.id \notin switched => m.value.owner = presser[m.id]
  /\ \A a \in Accounts : \A m \in Queued(a) : m.id \notin switched => a = presser[m.id]

\* If the user did not pick another product picture before the chain read it,
\* the picture that goes to Storage is the one on screen when Next was pressed
\* (the image view is read in the URL callback, not at the press).
PictureIsTheOneShown ==
  \A m \in Written : m.id \notin repicked => productObject[m.id] = shownImage[m.id]

\* The chain gets past the write, and the user sees "product added", only when
\* the backend has the document (uploadProduct's completion).
ToldOnlyIfSaved ==
  \A p \in Presses : stage[p] \in {"acked", "told", "unseen"} => server[p] # Absent

PendingStays ==
  \A a \in Accounts : \A m \in Queued(a) :
    \/ m \in Queued(a)' \/ server[m.id] # Absent
    \/ /\ a = fsUser /\ m = Head(mutations[a])
       /\ answers # <<>> /\ Head(answers) = "refused"

SavedStays == \A p \in Presses : server[p] # Absent => server'[p] = server[p]

\* A document in a queue leaves it only when the backend has it or has refused
\* that very write: not in a kill, not in a logout, not when another user signs in.  A saved
\* one is never changed or removed by later presses, retries of the stream or
\* restarts: every press writes a document of its own.
DocumentsStay == [][PendingStays /\ SavedStays]_vars

\* Saving implements the abstract specification.
StatusOf(p) ==
  CASE stage[p] = "idle" -> "unasked"
    [] stage[p] # "idle" /\ server[p] # Absent -> "saved"
    [] stage[p] # "idle" /\ server[p] = Absent
         /\ \E a \in Accounts : \E m \in Queued(a) : m.id = p -> "kept"
    [] OTHER -> IF stage[p] \in Uploading THEN "asked" ELSE "gone"

Saving == INSTANCE WarrantySaving WITH
            Requests <- Presses,
            status <- [p \in Presses |-> StatusOf(p)],
            told <- {p \in Presses : stage[p] = "told"}

\* The steps of the chain, the queues, kills and sessions are steps of the
\* abstract specification: told only when saved, kept through a kill, saved for
\* good.
ImplementsSaving == Saving!SavingSpec

\* Saving uses Firestore as FirestoreClient says a client does: documents are
\* only set, and neither a press, a screen, a session nor a kill takes a
\* mutation out of a queue or moves it to another.
ImplementsClient == Client!Spec

\* A press has one document at most, and the backend has that or none.  Once no
\* queue has it and no write of it was refused, the backend has it: uploads of
\* several users, resent writes, kills and parked queues lose none of it.
SentIsSaved ==
  \A p \in Presses :
    /\ server[p] \in {Absent, last[p]}
    /\ (p \notin refused /\ \A a \in Accounts : \A m \in Queued(a) : m.id # p)
         => server[p] = last[p]

\* The chain that waits for its write has one mutation in one queue, the only
\* one with its document: uploadProduct's completion will be called, and not for
\* a second write.
WaitsInOnePlace ==
  \A p \in Presses : stage[p] = "written" =>
    \E a \in Accounts : \E i \in DOMAIN mutations[a] :
      /\ mutations[a][i].id = p
      /\ \A b \in Accounts : \A j \in DOMAIN mutations[b] :
           mutations[b][j].id = p => b = a /\ j = i

\* Every press settles, or its document waits in the queue of a user who is
\* not signed in (the chain never stops half-way in silence unless an upload
\* fails, and no callback of it can be forgotten).
EveryPressSettles ==
  \A p \in Presses :
    stage[p] = "putWarranty" ~>
      \/ stage[p] \in Settled
      \/ \E a \in Accounts \ {fsUser} : \E m \in Queued(a) : m.id = p

\* A document that waits in the queue of the user who is signed in reaches the
\* backend or is refused, unless the user leaves: also when it was written
\* before a kill, or parked by a logout.
PendingGoesOut ==
  \A p \in Presses, a \in Accounts :
    (fsUser = a /\ \E m \in Queued(a) : m.id = p) ~>
      (fsUser # a \/ \A m \in Queued(a) : m.id # p)

\* The document of a press belongs to the user who pressed, whatever happens
\* during the upload (README.md:2: the app "helps users store their warranties").
SavedUnderPresser ==
  \A p \in Presses : server[p] # Absent => server[p].owner = presser[p]

=============================================================================
