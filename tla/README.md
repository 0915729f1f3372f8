# eWarranty (WarrantyGuard): specifications, model checks and proofs

WarrantyGuard is an iOS application (UIKit, storyboard, Firebase) in which a
user signs in, keeps a list of categories, photographs a warranty, optionally
adds a photograph of the product and notes, and saves the warranty to Firebase;
later the user finds it by category or by search. The application's own code is
about 1500 lines of Swift under `src/eWarranty/WarrantyGuard`; everything under
`src/eWarranty/Pods` is vendored. Paths below are relative to
`src/eWarranty/WarrantyGuard` unless they start with `Pods`.

The Swift code has no threads and no locks of its own. It is hard for another
reason: nearly every handler starts something that finishes later (a Storage
upload, a URL request, a Firestore write, a Firestore listener, a delayed
screen change), the closures read `self` and `Auth.auth().currentUser` when they
run, and between the two the user presses other buttons, leaves the screen,
logs out, or the process is killed. Firestore under it keeps queues on disk, one
for each account, and resends them over streams that break.

## 1. Inventory

| Component | State | Operations | What makes it correct |
|---|---|---|---|
| Saving a warranty: `CameraVC`, `OptionalDataVC`, `ProductUploadedViewController` | the pictures on the two screens, `product`, one chain of callbacks for each press of Next, the objects in Storage | pick picture, Next, Back, `putData` and `downloadURL` completions, `uploadProduct`, its completion, the segue, Home after 3 s | a document has exactly the pictures it should; its owner is the presser; the user is told only of what is saved; nothing saved is changed |
| Firestore's write side (`sync_engine.cc`, `local_store.cc`, `remote_store.cc`) | a queue of mutations for each account, on disk; the write pipeline; the callbacks in memory | write, acknowledge, refuse, stream breaks, credential change, restart | order is kept, nothing is lost or overtaken, queues do not mix accounts, pending writes go out |
| Session: `LoginVC`, `ProfileVC`, `SignUpVC`, Firebase Auth | `currentUser` (keychain), what Firestore knows of it, the requests under way, the blocks Auth has handed to the main queue, the window's root screen | sign in, sign up, sign out, forced sign-out, notification, completion, Home, launch | Firestore follows Auth; the window fits the session; every account that was made gets its profile, from its own queue |
| Categories: `AppDelegate.categories`, `getCategories`, `CategoryVC` | one static array, the listeners, the table of each controller, `categoryID` of each controller | listener callback, add, swipe to delete, tap, new Home | no duplicates; array, tables and collection agree when quiet; an index taken from a table is valid; add adds, remove removes |
| Product form: `AddProductVC` | four fields, two date pickers, `currentIndex`, the pending notifications | date Done, category Done, picker callbacks, switch, Continue | the category written is the one chosen; the reminder is a week before the expiry saved |
| Product list: `DetailVC`, `DisplayVC` | `products`, the table, whether it is hidden | snapshot, error, tap | each product once; the list is shown when there is something to show |
| Search: `SearchVC` | the text, `products`, the table, the requests under way | keystroke, answer, tap | what is shown answers the present text; a tap has a valid index |
| Dates: `calculateDurationDate`, the progress bar | none | parse, subtract, divide | progress within 0..1, no trap on the dates the form can produce |
| Onboarding, cells, colours, scene delegate | none that matters | | layout only |
| Vendored pods | | | only the parts of Auth, Firestore and Storage the app's behaviour depends on are modelled |

How they interact. `LoginVC` puts up Home; Home creates `CategoryVC`, the Add
navigation stack, `SearchVC` and `ProfileVC`. `AddProductVC` passes a
`ProductComponents` value to `CameraVC` and that to `OptionalDataVC`.
`OptionalDataVC` writes through Storage and Firestore. `CategoryVC` and
`AddProductVC` share the static array `AppDelegate.categories`. After a saved
warranty a *second* Home is presented over the first, whose controllers and
listeners live on.

What is hard (PROJECT.json lists every hazard at its line): state read late in a
closure (the owner, the product picture); two chains over one form; partial
failure; a kill between the local write and its answer; the window in which
Auth and Firestore disagree on the user; documents parked under an absent
account; resent writes; sign-in requests that outlive their screen and answer in
any order; an account that exists before its profile; many listeners over one
static array; row numbers of a stale table used as indices.

## 2. Modules

| Module | What it models |
|---|---|
| `FirestoreWrites` | the write side of the Firestore client as operators over `server`, `mutations`, `answers`, `fsUser`; instantiated by the modules that write |
| `FirestoreClient` | those operators as a client with a history: what was written last, under which accounts, what was refused; `Session` and `ProductUpload` both implement it |
| `Session` | sign-up, login, logout, Auth's two queues, the profile, the profile screen, composed with `FirestoreClient` |
| `ProductUpload` | saving a warranty, composed with `FirestoreWrites` and the session |
| `WarrantySaving` | the abstract specification of saving: asked, kept, saved, told |
| `Categories` | the shared array of categories |
| `ProductSearch` | the search tab: text, requests, answers, list and table |
| `ProductList` | a category's list under its Firestore listener |
| `WarrantyDates` | the two dates from the form to the row, and the progress bar |
| `ProductForm` | the form: date wheels, category picker, reminder switch, Continue |
| `MCSession`, `MCProductUpload`, `MCCategories`, `MCProductSearch`, `MCProductList`, `MCWarrantyDates`, `MCProductForm` | values for the constants, symmetry sets and orders, and views for TLC |
| `FirestoreClientProofs`, `SessionProofs` | the theorems of the client, the refinement that carries them over to `Session`, and the theorems of `Session` |
| `CategoriesProofs`, `ProductFormProofs`, `ProductSearchProofs`, `ProductListProofs`, `WarrantyDatesProofs` | the theorems of those modules |
| `ProductUploadProofs` | the inductive invariants and the safety theorems of `ProductUpload`, and the proofs that it implements `WarrantySaving` and `FirestoreClient` |

### FirestoreWrites and FirestoreClient

`mutations[a]` is account a's queue in LevelDB (`LevelDbMutationQueue`, keyed by
user); `Enqueue` is `SyncEngine::WriteMutations`, which writes locally and fills
the pipeline; `answers` are the backend's answers on the open write stream the
client has not handled; `Dequeue` is `OnWriteStreamMutationResult` /
`HandleWriteError` with the queue entry removed and the callback called
(`HandleSuccessfulWrite`, `HandleRejectedWrite`, `NotifyUser`).
`CredentialChange` is `SyncEngine::HandleCredentialChange`: the queue is
swapped if the user is another one, and the streams are restarted in any case
(`RemoteStore::HandleCredentialChange`). `StreamBreak` forgets the answers under
way, so that the backend commits the same mutations again. A refusal closes the
stream, so the backend answers nothing behind one.

Abstractions. The hop from `setData` on the main thread to Firestore's worker
queue is one step: the worker queue is FIFO and credential changes go through
it too, and a kill in between is the same as a kill before. A mutation is a
document identifier and the value it sets (Absent: a delete). The pipeline's
limit of ten writes is not reached.

`FirestoreClient` has one action for each operator and three histories. It starts
(`ClientInit`) and restarts (`Restart`) with the user it is told, because at
launch Firestore asks Auth for the user while Auth may not have read it yet. It
has no bounds and no run of its own. Two modules instantiate it and implement it:
`Session`, where documents are written over and over (its `LastWriteWins` is
checked there, under the account changes the app makes), and `ProductUpload`,
where a document is written once (`ImplementsClient`, `SentIsSaved`). What is
proved of the client holds of both.

### Session

A tap on Login or Create is a *request*, and `stage` is how far it is: sent, made
(a sign-up whose account exists at the backend while its user is not signed in
yet), answered (its completion is on the main queue), done, or lost with the
process. Nothing disables the buttons or cancels a request
(`LoginVC` 32-56, `SignUpVC` 35-80), so any number may be under way, also of
screens that were left. `Open` and `Back` are the navigation of
`AuthorizationVC`, `live` the requests of the screen in the window.

Auth works on two queues. On its own work queue, `AccountMade`, `SignInDone`,
`RequestFails`, `SignOut` and `SignOutByForce` change `currentUser` and append to
`mainQueue`: the notification (`Changed`) first, the completion (`Completion`)
behind it, as `possiblyPostAuthStateChangeNotification` and
`signInFlowAuthDataResultCallbackByDecoratingCallback:` do. On the main queue
`AuthStateDidChange` tells Firestore, and `ShowHome`, `ShowNothing` and
`ShowError` are what a completion does: the profile is written for a sign-up
(`StoreProfile`), and Home takes the window if the request's screen still has
one (`transitionToHome`, the optional chaining through `view.window`). A Home is
named by the request that put it up; so are its one category document
(`WriteCategory`, which also makes what two Adds do to it a matter of
`LastWriteWins`) and the profile.

`OpenProfile` is `ProfileVC.viewDidLoad`, which unwraps the current user and
traps without one. `Relaunch` is a kill, or the start after the trap: the
requests and blocks are lost, Auth reads its user from the keychain, Firestore
may start with that user or with none, and the notification is queued (`Launch`).

Abstractions. Passwords, names and the wording of errors; of a profile only its
`uid`. Fields that fail `validateFields` send nothing. A `signOut` that fails on
the keychain leaves everything as it was, a stutter. What is presented over a
root that is replaced goes with it. The histories (`signedInBy`, `abandoned`,
`forced`, `makers`, `cut`) are read by no action. `writes` counts what was written;
only the guard that bounds `WriteCategory` reads it.

### ProductUpload

`stage[p]` is how far the chain of press p is; every completion handler in
`OptionalDataVC.nextButtonPressed` (lines 42-81) is one action, with the local
computation that follows it up to the next asynchronous call:
`PressNext` (42-48), `WarrantyPut` (48-50), `WarrantyUrlNoProduct` (50-56,
84-94), `WarrantyUrlProduct` (50-62), `ProductPut` (62-64), `ProductUrl` (64-67,
84-94), `UploadFails` (every error branch, and the `guard` at 60),
`WriteAcknowledged`/`WriteRejected` (the completion of `setData`) and
`PerformSegue` (97-98). `StorageKeeps` is the moment Storage has the bytes; it
is separate from the completion, so an upload can fail after the bytes were
kept. A press names the document and the two objects it creates, since each gets
a fresh UUID (47, 61, 94).

The screens are kept as far as they decide what may happen: which root is in the
window (`screen`), which tab is in front (`tab`), the controller on top of the
Add stack (`stack`) and what is presented over it (`modal`). UIKit presents
nothing from a controller whose view is not in the window or which already
presents something, so `PerformSegue` then has no effect ("unseen").

The session: `currentUser` is Auth's and changes on Auth's queue; `fsUser` is
Firestore's and follows when the notification runs on the main queue
(`AuthStateDidChange`). `signIn`'s completion is queued behind that
notification, so `EnterHome` waits for it. `Logout` changes `currentUser` at
once and Firestore learns later. A sign-in takes a network round trip, so the
notification of an earlier sign-out has run by then.

Abstractions. Pictures and users are model values; name, dates, category
and notes are part of the form; a document's URLs are named by their kind,
because a chain can only ask its own two references for a URL. A warranty
picture always has a JPEG form when it was picked (the guard at 46 would make
the press do nothing). Documents of other devices have other UUIDs and are left
out. The history variables (`presser`, `shownImage`, `switched`, `repicked`, and
those of `FirestoreClient`: `wrote`, `last`, `refused`) are read by no guard.

### WarrantySaving

A request is unasked, asked, kept (in a queue on disk), saved (the backend has
it) or gone; `told` are those the user saw "product added" for. `ProductUpload`
implements it under the mapping `StatusOf` and `told <- {stage = "told"}`.

### Categories

One `getCategories` listener from `didFinishLaunching` and one from each
`CategoryVC`; `events` are the callbacks waiting on the main queue, each with its
own copy of the rows; `ListenerCallback` is lines 32-41 of AppDelegate with the
`reloadData` of the controller that listens. `tables[v]` is the table of
controller v, also of one that a newer Home covers. `SwipeDelete` takes
the entry at the row out of the array, the row out of the table and deletes the
document `categoryID` *of the controller*; an index past the end, or a table that
does not have as many rows as the array after `deleteRows`, traps (`crashed`).

Abstractions. Firestore's view of the collection is taken as given: writes of
this device change it at once (latency compensation), writes of others at any
time. A collection refused by the backend ends all listeners (`ListenFails`).
Documents of earlier runs are in `Others`. Time stamps are the order of the rows.

### ProductSearch

`requests` are the `getDocuments` calls Firestore has not answered, `callbacks`
the answers waiting on the main queue, each with the text and the user its
closure captured. `TextDidChange` is lines 92-98 with the guards of
`getProducts`; `GetProducts` is the completion (38-62). All requests are the same
query, and `EventManager` calls the listeners of a query in the order they were
added, under the same condition; therefore answers come in order. `table` is
what `reloadData` last drew, `products` what rows index; `TouchRow` traps when
they disagree. A forced sign-out (`signOutByForceWithUserID:`) can happen while
the tab is up, so the guard at 36 is reachable. A sign-in whose screen was left
(`Session`'s `ShowNothing`) can also be answered then: `SignedInBehind` gives Auth
another user and leaves the tab as it is, so the next text asks for that user
while older answers still carry the user of line 36. `asker`, the user the last
change of the text asked for, is a history. What is found is a list in some
order (`SetToSeq`; Firestore's order is that of the identifiers): no property
depends on which, and there is no recursion in the way of a proof. The same holds
of `ProductList`.

### ProductList

`view` is Firestore's view of the category; it changes with every write this
device makes, every write of others, and every refusal that takes a write back.
A listener is first called when the view has documents, is in step with the
backend, or Firestore is offline (`ShouldRaiseInitialEvent`); afterwards with
every change. `GetProductForCategory` is the whole callback: append, redraw,
`hideTableView`. Metadata-only changes reach no listener of this app.

### WarrantyDates

`DonePressed` of the form writes a date in the medium style of the locale;
`DrawCell` reads it with the fixed pattern. Which styles the pattern reads is the
relation `Reads` (Foundation's, external). The bar is a number of parts out of
`Parts(d)`; `Progress` is the quotient of lines 134-137 with the pinning that
`UIProgressView.progress` does, for a total that is positive, zero (minus
infinity: empty) or negative (above one: full). The clock only goes forward.
`ChangeLocale` leaves the row that was drawn; the next `DrawCell` reads the
document in the new locale and may trap. After a trap or a kill, `Relaunch` starts
without a row.

### ProductForm

One action for each handler of `AddProductVC`. The picker: UIKit counts the rows
when it comes up, the first time at least, and asks for titles in an order of
its own; both are left open (`EditCategory`, `TitleForRow`). The array changes
behind it by `Refill`, with the arrays `Categories` produces: empty after an
error, shorter or longer after a snapshot. `SettingsKnown` is the block on the
main queue; its reminder is made from the wheel at that time, its alert is
dropped when another alert is up or the camera screen is in front. The history
`turned` says whether the expiry wheel was turned after the last Done and after
the last reminder. The name and
the texts of the fields are abstracted to filled or not, or to their day.

## 3. Runs

| Run | Question | Bounds |
|---|---|---|
| `session` | accounts, sessions, profiles, Firestore's queues, in any order; does a tap settle? | 2 requests (two sign-ups, a sign-up and a login, two logins), 2 users and nobody, 1 name, a category write before the profiles, or two of one category (Add and Add, Add and swipe) by a user who logs in once or twice (`SecondByOneUser`): a resent and a parked write, one that overwrites a queued one, an answer to a left screen and a forced sign-out all occur; with fairness, and an order on requests and users in place of a symmetry |
| `upload_pictures` | do documents, Storage and the screen agree? is the picture the one shown? | 2 presses on 2 forms, 1 picture or none, 1 user: two chains interleave, on the same form and on different ones |
| `upload_sessions` | owners, queues, parked and saved documents; does a chain wait in one place, is what was sent saved? are the two abstract specifications implemented? | 2 presses on one form, 1 picture, 2 users |
| `upload_settles` | does every press come to an end? | 1 press, 2 users, with fairness |
| `upload_switched` | finding: the owner after a logout | 1 press, 2 users |
| `categories` | the shared array | 2 controllers, 1 other device's document, 1 name, 6 waiting callbacks |
| `category_removed` | finding: the wrong document is deleted | 1 controller, 1 other device's document, 2 names, 6 waiting callbacks: an Add, then a swipe on the other row |
| `product_search` | order, rows, traps; answers come | 3 products of 2 users, either of whom is signed in or nobody, 2 texts, 3 requests and answers under way: an answer waits behind an answer behind a request; with fairness |
| `product_list` | is anything missing or foreign, and does the list come? | 3 documents of 2 users, 3 calls of the listener: cache, backend, and one change after; with fairness |
| `warranty_dates` | the bar over the days | 6 days on the wheels, 6 of the clock, 3 locales: total and rest take every sign; a date written in the first is read in two of them and not in the third, so a row may be redrawn in another locale, or trap |
| `product_form` | traps and dates of the form, and the category Done writes | arrays of 0 to 2 categories, 2 days (one with its reminder in the past, one in the future), 1 settings request |
| `form_reminded` | finding: the reminder that was announced | the same |

Deadlock checking is off where the system may rightly stop (`product_list`,
`product_form`, `form_reminded`): the listener has got its bounded number of
calls, or the process has trapped.

Every property has a mutant, a change of a definition that a plausible bug would
make: a definition before the original whose comment begins with "Mutant of",
used by no specification. PROJECT.json
lists them; under each, its property fails.

### Why the bounds are enough

No handler looks at more than one press, one row or one callback at a time, and
two presses interact only through the form (its pictures), the queue of the
account and the screens. Two presses over one form and over two therefore show
every pair of interleaved chains. Two users show every switch: away, to somebody
else, and back. Of two requests one can overtake the other, be left behind by
its screen, or be of the same account. The chain itself, the queues, the sessions
and the refinements are proved for all sizes (section 5). A third controller over the shared array adds no
interaction two do not have, because every listener empties and refills
all of it.

### Fairness

Actions of the machinery are weakly fair, actions of people and failures are
not. Storage and URL requests end (GTMSessionFetcher gives up after its retry
time), so each step of the chain is fair as *completion or failure*; GCD runs
what is on the main queue (`AuthStateDidChange`, `EnterHome`, `HomeAgain`,
`PerformSegue`, the callbacks of listeners). The backend answers what it
is sent (`BackendAnswers`). `WriteAcknowledged` or `WriteRejected` is strongly
fair: a stream may break before an answer is handled, any number of times, but
not each time, which is what the backoff of `RemoteStore` is for. Nothing is
assumed of presses, logins, logouts, kills or of the network failing or not.
In `session`, each request is answered by Auth as *account, sign-in or error*
(its requests have a timeout), the main queue runs, and Firestore's backend and
the acknowledgements are as above; nothing is assumed once the process has
trapped.
In `product_list`, `Settles` is fair: `OnlineStateTracker` declares Firestore
offline ten seconds after it got no answer.

## 4. What the runs show beyond the properties that hold

Three runs end in a counterexample, each against a line of the repository: an
owner that is lost or wrong after a logout during the upload
(`upload_switched`), a swipe that deletes another document than the row's
(`category_removed`), a reminder that is in the past or for a date that was
changed afterwards (`form_reminded`).

Other properties hold only under the condition they name, and the condition is
where the code is weak:

- `WindowFitsSession` (session): unless a request whose screen had been left signed
  somebody in, in which case the user is signed in behind the first screen, or
  another user behind the Home that is up, which then shows the profile of the
  user before.
- `TrapsOnlyIfForced` (session): `ProfileVC` traps when Auth has dropped the user
  for an invalid token; no order of taps and answers gets there otherwise.
- `AccountHasProfile` (session): unless the chain broke (`cut`): an error or a kill
  after the account was made, or a refused write. Nothing writes the profile later.

- `TrapsOnlyUnanswered` (search): `textDidChange` empties the list and leaves the
  table, so while an answer is under way, after an error, and without a user a
  row indexes past the end.
- `QuietShowsText` (search): of the user who asked, who need not be the one signed in
  by then. When an abandoned sign-in is answered behind the tab, the table keeps
  the products of the user before until the text changes.
- `ShowsMine` (list), its part `NothingMissing`: unless an earlier callback found nothing;
  `hideTableView` is never undone.
- `snapshots` of the list: every snapshot appends all products again, so a
  product has as many rows as snapshots came with it.
- `TrapsOnlyIfShrunk` (form): Done indexes the shared array with the row the
  picker asked about last, which may be gone.
- `DoneKeepsSelection` (form): Done writes the row whose title was asked for last;
  it is the selected one only if the picker has asked for none since.
- `ReminderFits` (form): unless the expiry wheel was turned after the last Done or the
  last reminder. `form_reminded` is violated there, and by an expiry less than a
  week away, whose reminder is in the past.
- `DonePressed` (form) writes both dates, also the one that nobody chose, and
  `validateFields` then finds it filled in. No property claims otherwise.
- `DrawCell` (dates) traps on a date in a style the fixed pattern cannot read, also in
  a row that is shown, after a change of region. No property claims otherwise.
- `AddCategory` writes `categoryID` of the controller, so a second Add on one
  screen replaces the first.

What holds deserves as much attention: for all of it, the chain never leaves a
dangling URL, a document parked by a logout or a kill is saved when its account
comes back, nobody is told of a warranty the backend does not have, a chain that
waits for its write waits for one mutation in one queue, a sign-in that was
answered is answered once, answers to an earlier text never win over later ones, and a profile is never queued for,
or signed by, another account, because Auth queues the notification ahead of the
completion that writes.

## 5. Proofs

For every set of presses, forms, pictures and users (`UploadAssumption`: the
three "no" values are distinct from the members of their sets, and an absent
document from those there are), TLAPS proves of `ProductUpload`'s `Spec`:

| Theorem | Argument |
|---|---|
| `TypeCorrect` | `TypeOK` needs that a press under way has a form (`PressesHaveForms`), because a document names one |
| `ImagesMatchDocumentAlways`, `OwnerIsPresserAlways`, `PictureIsTheOneShownAlways` | from `UploadInv` |
| `ToldOnlyIfSavedAlways`, `DocumentsStayAlways` | from `SavedInv` (`SavedForeverStep`, `PendingStep`) |
| `SavingIsImplemented` | refinement of `WarrantySaving`, under `SavedInv` |
| `UploadIsAClient` | refinement of `FirestoreClient`: each step is one of the client's or leaves its state alone (`ClientStep`), under the types |
| `SentIsSavedAlways` | `SentInv`, with the client's `LastWriteWins` |
| `WaitsInOnePlaceAlways` | `PlacesInv`, under `SavedInv` |

None of the properties is inductive. `UploadInv` adds what is true of a press
*before* its document exists: `ChainInv` ties the stage of the chain to what
Storage holds for it, `ShownInv` follows the product picture from the screen into the
payload and into Storage, `SessionInv` says that the session of a press that has
not been switched is the same for Auth and for Firestore, and that Home is
up only when they agree. `DocumentsInv` is what a document inherits when
`uploadProduct` writes it; it speaks of documents wherever they are, in a queue
or on the backend (`Written`), so that a commit or a restart has nothing to do.
`SavedInv` adds `AnswersInv` (an "ok" on the stream is about the mutation at
the same place of the open queue, and the backend has it) and
`OneDocument` (a press has one document, however many times it is resent), which
`DocumentsStay` and `ToldOnlyIfSaved` need. The refinement proof first
tabulates the mapped status by cases (`StatusCases`), then shows that each action
moves at most one request one step (`OneMoves`, `OthersStay`, `SavingStep`).

The last three rows are about the chain and the queues together. Because saving
is a client of Firestore (`UploadIsAClient`), the client's theorems hold of it without
a second proof; `SentInv` adds what only saving knows, that a press writes once and
under one account, so that the condition of `LastWriteWins` on accounts falls away and
the backend has a press's document or none. `WaitsInOnePlace` is what the liveness
property `EveryPressSettles` stands on: a chain in stage "written" is called back
only by the mutation it waits for. `PlacesInv` says it of all mutations: no two
places, of one queue or of two, hold a document of the same press (`OnePlace`), and
the document of a waiting chain has one (`WrittenIsQueued`). A write adds a
place for a press that had none, because `SavedInv` lets only a press that has
written be in a queue (`PlacesWrite`); an answer takes one away and closes the chain
that waited for it (`PlacesDone`); the rest move no document.

Of `WarrantyDates`, for all integers as dates, all days, and every set of locales
and relation of styles: `DatesTypeCorrect`, `FullIsExpiredAlways` and
`BarGrowsAlways`. `CellInv` says that a row is that of its document on a day that
has come; `LaterIsLonger` then compares two rows of one document, across the day
on which the quotient is replaced by 1.

Of `FirestoreClient`, for all documents, contents and accounts and any number of
writes: `WritesTypeCorrect` and `LastWriteWinsAlways`. `ClientInv` says
more than the property: the newest mutation that waits for a document is the last
write (`NewestIsLast`); it waits in the queue of an account that wrote it; and
what the backend has committed on the open stream it has, unless a later commit
on the stream overwrote it (`CommittedIsThere`), so that a stream that breaks
and sends everything again ends with the same value.

Of `Session`, for any number of requests, users and writes:

| Theorem | Argument |
|---|---|
| `SessionIsAClient` | refinement of `FirestoreClient`: every step of the sessions is a step of the client or leaves its state alone |
| `SessionTypeCorrect`, `SessionLastWriteWins` | the first needs the client's invariant, the second is the client's theorem carried over |
| `FollowsAuthAlways` | `QueueInv`: besides the property, the block right before the completion of a sign-in is the notification of its user (`CompletionFollowsNotification`) |
| `ProfileInOwnQueueAlways` | `StoreInv`: a profile that waits is its request's own, in the queue of that account; one committed on the open stream is at the backend |
| `AccountHasProfileAlways` | `ProfileInv`: `StoreInv`, and makers are sign-ups that were sent and granted |
| `AnsweredOnceAlways` | `AnsweredWaits` (who was answered has a completion on the queue) with `CompletionsOnce`: `TapSettles` rests on it, as each such completion is run by the main queue |
| `WindowFitsSessionAlways`, `TrapsOnlyIfForcedAlways` | `CompletionsOnce` (a request has at most one completion on the queue, and only while it is answered) and `WindowInv` (who is signed in while no Home is up, and whom a Home belongs to) |

Of `Categories`, for any number of controllers, foreign documents, names and
waiting callbacks: `CategoriesTypeCorrect`, `NoDuplicatesAlways`,
`QuietMeansInStepAlways`, `TrapsOnlyWhenStaleAlways`. What is quiet has to be
said of what is not: `InStep` says that, unless a swipe or an error changed the
array since the last snapshot, the *last* waiting callback carries the present
view (`ArrayInStep`), and that for each listening controller the same holds of
the callbacks that wait for it, or its table has the view already
(`TableInStep`). A callback that runs consumes one and leaves the other.
`DistinctInv` extends "no document twice" to the rows on the way, and
`FrontInv` says that the controller on screen listens unless the query was
rejected, which is what makes its row numbers valid.

Of `ProductForm`, for every set of arrays a listener may leave, all days and any
number of settings requests: `FormTypeCorrect`, `TrapsOnlyIfShrunkAlways`,
`ReminderFitsAlways`, `DoneKeepsSelectionAlways`. `PickerInv` keeps
`currentIndex` below the most rows the picker ever counted, `SelectionInv` ties
an undisturbed selection to the row whose title was asked for last and to the array,
`ReminderInv` the text of the expiry, and the last reminder, to the wheel for as
long as it is not turned, and what is handed over to the texts.

Of `ProductSearch`, for every finite set of products, any texts, users and number
of requests: `SearchTypeCorrect`, `QuietShowsTextAlways`, `RowsOfTheListAlways`,
`TrapsOnlyUnansweredAlways`. `AskerInv` follows the request of the present text
wherever it is: the last Firestore has, or else the last answer on the main
queue, or else what is shown; its user is the one who asked, whatever becomes of the session.
Older answers may run before it, but each empties the list first.

Of `ProductList`, for every finite set of documents and any number of calls of the
listener: `ListTypeCorrect`, `ShowsMineAlways`.
`ViewInv` says that a listener that was raised and not dropped was last called
with the present view, and that once that call is handled the list has the
user's part of it; `CallsInv` counts handled and waiting calls against those made.

The last two rest on the library's facts about finite sets: an injection from
`1..Cardinality(S)` to `S` reaches all of `S`, so `SetToSeq` lists every member.

Only model-checked: the liveness properties (`TapSettles`, `EveryPressSettles`,
`PendingGoesOut`, `AnswersArrive`, `ListComes`), because fairness and ENABLED are
out of the prover's reach. `AnsweredOnce` and `WaitsInOnePlace` are the safety half of
the first two. Every other property of a passing run is a theorem.

## 6. What is not modelled

- `ProductUpload` has a session of its own, as far as saving needs one: `SignIn` and
  `Logout`, one request at a time, and no sign-out that Auth forces (a revoked
  token) while Home is up; both are in `Session`, and the forced sign-out and the user signed
  in behind Home also in `ProductSearch`. It starts with Auth and Firestore agreeing on the user.
- Auth's other providers, its token refresh, and the links the app does not use.
  The profile listener of `ProfileVC` fills three labels; only whom it listens for is
  modelled.
- Firestore's views, targets, watch stream, garbage collection and
  transactions; its limit of ten writes in the pipeline. Storage's chunks and
  retries.
- Security rules of the backend: a write may be refused at any time, for any
  reason.
- Layout, cells, onboarding and the scene delegate, which hold no state; the
  other vendored pods, which are transport and caches.

## 7. Plan

Next, in this order:

1. `ProductUpload` on the session of `Session` instead of its own: overlapping
   requests and forced sign-outs during an upload. `OwnerIsPresser` keeps its
   condition; `SessionInv` of its proofs becomes `QueueInv` of `SessionProofs`.
2. `ProductForm` composed with `Categories`: the arrays `Refill` may leave become the
   reachable ones.
3. The conditions of section 4 as runs of their own, each against the line that
   promises otherwise.
4. The pipeline's limit of ten writes in `FirestoreWrites`.
