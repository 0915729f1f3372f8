----------------------------- MODULE Categories -----------------------------
(***************************************************************************)
(* The list of categories.  AppDelegate.categories is one static array; a  *)
(* listener started at launch and one per CategoryVC refill it, each with  *)
(* its own copy of every snapshot, and each CategoryVC draws its table     *)
(* from it.  Listeners are never removed, and a new Home (a login, a saved *)
(* warranty) brings a new CategoryVC while the old one lives on.           *)
(*                                                                         *)
(* Firestore's view of the collection is taken as given: it changes with   *)
(* the writes of this device at once and with those of others.             *)
(***************************************************************************)
EXTENDS Naturals, Sequences, FiniteSets

CONSTANTS Controllers, \* instances of CategoryVC
          Others,      \* documents of other devices or of earlier runs
          Names,       \* names of categories
          AppLaunch,   \* the listener of didFinishLaunching
          NoController,
          MaxEvents    \* bound: callbacks waiting on the main queue

ASSUME CategoriesAssumption ==
  /\ Controllers \cap Others = {}
  /\ AppLaunch \notin Controllers /\ NoController \notin Controllers
  /\ MaxEvents \in Nat

VARIABLES
  collection, \* Firestore's view: the documents, newest first
  listeners,  \* the listeners, in the order they were added
  events,     \* the callbacks waiting on the main queue, oldest first
  categories, \* AppDelegate.categories
  tables,     \* for each CategoryVC, the rows its table has
  front,      \* the CategoryVC on screen
  crashed,    \* the process trapped
  \* history variables
  opened,     \* the CategoryVCs created
  aside,      \* since the last snapshot the array was changed by a swipe or an error
  removed     \* the documents whose rows the user removed

vars == <<collection, listeners, events, categories, tables, front, crashed,
          opened, aside, removed>>

Ids == Controllers \cup Others
Row == [id : Ids, name : Names]
Listener == Controllers \cup {AppLaunch}

Elements(s) == {s[i] : i \in DOMAIN s}
Without(s, i) == SubSeq(s, 1, i - 1) \o SubSeq(s, i + 1, Len(s))

Snapshot(l, rows) == [to |-> l, error |-> FALSE, rows |-> rows]
Failure(l)        == [to |-> l, error |-> TRUE, rows |-> <<>>]

\* The table of a controller that has not been created has no rows.
TypeOK ==
  /\ collection \in Seq(Row)
  /\ listeners \in Seq(Listener)
  /\ events \in Seq([to : Listener, error : BOOLEAN, rows : Seq(Row)])
  /\ categories \in Seq(Row)
  /\ tables \in [Controllers -> Seq(Row)]
  /\ front \in Controllers \cup {NoController}
  /\ crashed \in BOOLEAN
  /\ opened \subseteq Controllers
  /\ aside \in BOOLEAN
  /\ removed \subseteq Ids

Init ==
  /\ collection \in {<<>>} \cup {<<[id |-> o, name |-> n]>> : o \in Others, n \in Names}
  /\ listeners = <<AppLaunch>>
  /\ events = <<Snapshot(AppLaunch, collection)>>
  /\ categories = <<>>
  /\ tables = [v \in Controllers |-> <<>>]
  /\ front = NoController
  /\ crashed = FALSE
  /\ opened = {} /\ aside = FALSE /\ removed = {}

-----------------------------------------------------------------------------
(* Firestore.                                                               *)

\* The view becomes rows: every listener is called with it, in the order the
\* listeners were added.
Emit(rows) ==
  /\ Len(events) + Len(listeners) =< MaxEvents
  /\ collection' = rows
  /\ events' = events \o [i \in DOMAIN listeners |-> Snapshot(listeners[i], rows)]
  /\ aside' = (listeners = <<>>)

\* delete(): the view changes only if the document was there.
Deleted(d) ==
  IF d \in {r.id : r \in Elements(collection)}
  THEN Without(collection, CHOOSE i \in DOMAIN collection : collection[i].id = d)
  ELSE collection

\* Mutant of Put: the two fields are swapped.
PutSwapped(d, name) == <<[id |-> name, name |-> d]>> \o Deleted(d)

\* setData: the document gets a new time stamp, so it comes first.
Put(d, name) == <<[id |-> d, name |-> name]>> \o Deleted(d)

\* Another device adds or removes a category.
OtherDevice ==
  /\ ~crashed
  /\ \E d \in Others : \/ \E name \in Names : Emit(Put(d, name))
                       \/ Deleted(d) # collection /\ Emit(Deleted(d))
  /\ UNCHANGED <<listeners, categories, tables, front, crashed, opened, removed>>

\* The backend rejects the query: every listener is called with the error and
\* is forgotten.
ListenFails ==
  /\ ~crashed
  /\ listeners # <<>>
  /\ Len(events) + Len(listeners) =< MaxEvents
  /\ events' = events \o [i \in DOMAIN listeners |-> Failure(listeners[i])]
  /\ listeners' = <<>>
  /\ aside' = TRUE
  /\ UNCHANGED <<collection, categories, tables, front, crashed, opened, removed>>

-----------------------------------------------------------------------------
(* The app.                                                                 *)

\* Mutant of Refilled: the array is not emptied first.
RefilledOnTop(event) == IF event.error THEN categories ELSE categories \o event.rows

\* Mutant of Reloaded: the completion handler is not called.
ReloadedNever(event) == tables

\* The listener's callback: the shared array is emptied, refilled if there is
\* no error, and the controller that listens reloads its table.
Refilled(event) == IF event.error THEN <<>> ELSE event.rows

Reloaded(event) ==
  IF event.error \/ event.to = AppLaunch
  THEN tables
  ELSE [tables EXCEPT ![event.to] = Refilled(event)]

ListenerCallback ==
  /\ ~crashed
  /\ events # <<>>
  /\ categories' = Refilled(Head(events))
  /\ tables' = Reloaded(Head(events))
  /\ events' = Tail(events)
  /\ UNCHANGED <<collection, listeners, front, crashed, opened, aside, removed>>

\* A new Home: CategoryVC.viewDidLoad adds a listener, which is called with the
\* present view; the table is drawn from the array as it is.
OpenHome(v) ==
  /\ ~crashed
  /\ v \notin opened
  /\ Len(events) < MaxEvents
  /\ opened' = opened \cup {v}
  /\ front' = v
  /\ listeners' = Append(listeners, v)
  /\ events' = Append(events, Snapshot(v, collection))
  /\ tables' = [tables EXCEPT ![v] = categories]
  /\ UNCHANGED <<collection, categories, crashed, aside, removed>>

\* The document the buttons of a CategoryVC write and delete: one identifier
\* per controller.
CategoryID(v) == v

\* addButtonTapped, and Add in the alert.
AddCategory(name) ==
  /\ ~crashed /\ front # NoController
  /\ Emit(Put(CategoryID(front), name))
  /\ UNCHANGED <<listeners, categories, tables, front, crashed, opened, removed>>

\* A row is swiped away: the array loses the entry at its place, the table its
\* row, and the collection the document of the controller.  An index past the
\* end traps; so does a table whose count does not fit after deleteRows.
SwipeDelete(row) ==
  /\ ~crashed /\ front # NoController
  /\ row \in DOMAIN tables[front]
  /\ IF row > Len(categories) \/ Len(categories) # Len(tables[front])
     THEN /\ crashed' = TRUE
          /\ UNCHANGED <<collection, events, categories, tables, aside, removed>>
     ELSE /\ categories' = Without(categories, row)
          /\ tables' = [tables EXCEPT ![front] = Without(@, row)]
          /\ removed' = removed \cup {tables[front][row].id}
          /\ \/ /\ Deleted(CategoryID(front)) # collection
                /\ Emit(Deleted(CategoryID(front)))
             \/ /\ Deleted(CategoryID(front)) = collection
                /\ aside' = TRUE
                /\ UNCHANGED <<collection, events>>
          /\ UNCHANGED crashed
  /\ UNCHANGED <<listeners, front, opened>>

\* A row is tapped: the entry at its place is opened.  (DetailVC is not part of
\* this module.)
SelectRow(row) ==
  /\ ~crashed /\ front # NoController
  /\ row \in DOMAIN tables[front]
  /\ crashed' = (row > Len(categories))
  /\ UNCHANGED <<collection, listeners, events, categories, tables, front, opened,
                 aside, removed>>

\* The process is started again after a trap.
Relaunch ==
  /\ crashed
  /\ crashed' = FALSE
  /\ categories' = <<>>
  /\ tables' = [v \in Controllers |-> <<>>]
  /\ front' = NoController
  /\ listeners' = <<AppLaunch>>
  /\ events' = <<Snapshot(AppLaunch, collection)>>
  /\ aside' = FALSE
  /\ UNCHANGED <<collection, opened, removed>>

Rows == 1..(Cardinality(Controllers) + Cardinality(Others))

Next ==
  \/ OtherDevice \/ ListenFails \/ ListenerCallback \/ Relaunch
  \/ \E v \in Controllers : OpenHome(v)
  \/ \E name \in Names : AddCategory(name)
  \/ \E row \in Rows : SwipeDelete(row) \/ SelectRow(row)

Spec == Init /\ [][Next]_vars

-----------------------------------------------------------------------------
(* Properties.                                                              *)

\* The array never holds a category twice, however many listeners refill it
\* (removeAll and the appends of getCategories).
NoDuplicates ==
  \A i, j \in DOMAIN categories : categories[i].id = categories[j].id => i = j

\* When no callback waits and nothing but snapshots has changed the array since
\* the last one, the array is the collection and so is the table of every
\* CategoryVC that listens, the hidden ones included.
QuietMeansInStep ==
  (events = <<>> /\ ~aside /\ ~crashed) =>
    /\ categories = collection
    /\ \A v \in Elements(listeners) \ {AppLaunch} : tables[v] = collection

\* A tap or a swipe traps only while a callback waits or after a swipe or an
\* error: never when the list has come to rest.
TrapsOnlyWhenStale ==
  [][crashed' /\ ~crashed => events # <<>> \/ aside]_vars

\* A category whose row was removed has no document
\* (CategoryVC.swift:72, "Remove Category").
RemovedIsGone ==
  \A r \in Elements(collection) : r.id \notin removed

=============================================================================
