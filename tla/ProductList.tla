----------------------------- MODULE ProductList -----------------------------
(***************************************************************************)
(* The products of a category.  DetailVC listens to the documents of the   *)
(* category and, with each snapshot, appends those of the user who opened  *)
(* it to a list that is never emptied; when a callback finds the list      *)
(* empty it hides the table for good.                                      *)
(*                                                                         *)
(* The view Firestore has of the category changes with writes of this      *)
(* device (at once), writes of others, and refusals that take a write of   *)
(* this device back.  The first snapshot may come from the cache.          *)
(***************************************************************************)
EXTENDS SequencesExt

CONSTANTS Documents, \* the documents of the category
          Users,
          Owner,     \* for each document, its user
          MaxCalls   \* bound: snapshots and errors the listener gets

VARIABLES
  view,      \* the documents of the category, as Firestore has them
  settled,   \* the view is in step with the backend, or Firestore is offline
  listener,  \* "none", "new" (called with nothing yet), "raised" or "failed"
  user,      \* the user the callback compares with
  callbacks, \* snapshots and errors waiting on the main queue, oldest first
  products,  \* DetailVC.products
  rows,      \* the rows the table was drawn with
  hidden,    \* tableView.isHidden
  \* history variables
  calls,     \* how many snapshots and errors the listener got
  snapshots, \* how many of them brought documents and were handled
  emptied    \* a handled callback found nothing for the user

vars == <<view, settled, listener, user, callbacks, products, rows, hidden, calls,
          snapshots, emptied>>

ASSUME ListAssumption ==
  /\ IsFiniteSet(Documents)
  /\ Owner \in [Documents -> Users]
  /\ MaxCalls \in Nat

Callback == [error : BOOLEAN, documents : SUBSET Documents]

TypeOK ==
  /\ view \subseteq Documents
  /\ settled \in BOOLEAN
  /\ listener \in {"none", "new", "raised", "failed"}
  /\ user \in Users
  /\ callbacks \in Seq(Callback)
  /\ products \in Seq(Documents)
  /\ rows \in Seq(Documents)
  /\ hidden \in BOOLEAN /\ emptied \in BOOLEAN
  /\ calls \in 0..MaxCalls /\ snapshots \in 0..calls

Init ==
  /\ view \in SUBSET Documents
  /\ settled \in BOOLEAN
  /\ listener = "none"
  /\ user \in Users
  /\ callbacks = <<>> /\ products = <<>> /\ rows = <<>>
  /\ hidden = FALSE
  /\ calls = 0 /\ snapshots = 0 /\ emptied = FALSE

-----------------------------------------------------------------------------
(* Firestore.                                                               *)

\* The listener is called with the documents.
Raise(documents) ==
  /\ calls < MaxCalls
  /\ calls' = calls + 1
  /\ callbacks' = Append(callbacks, [error |-> FALSE, documents |-> documents])

\* The first call waits for documents, for the backend, or for being offline.
ShouldRaiseInitialEvent(documents, inStep) == inStep \/ documents # {}

\* The view changes.
ViewChanges(documents) ==
  /\ documents # view
  /\ view' = documents
  /\ IF listener = "raised" \/ (listener = "new" /\ ShouldRaiseInitialEvent(documents, settled))
     THEN Raise(documents) /\ listener' = "raised"
     ELSE UNCHANGED <<listener, callbacks, calls>>
  /\ UNCHANGED <<settled, user, products, rows, hidden, snapshots, emptied>>

\* The backend says that the view is in step, or Firestore finds itself offline.
\* That changes no document, so only a listener not yet called is called.
Settles ==
  /\ ~settled
  /\ settled' = TRUE
  /\ IF listener = "new"
     THEN Raise(view) /\ listener' = "raised"
     ELSE UNCHANGED <<listener, callbacks, calls>>
  /\ UNCHANGED <<view, user, products, rows, hidden, snapshots, emptied>>

\* The backend rejects the query; the listener is called with the error and is
\* forgotten.
ListenFails ==
  /\ listener \in {"new", "raised"}
  /\ calls < MaxCalls
  /\ calls' = calls + 1
  /\ callbacks' = Append(callbacks, [error |-> TRUE, documents |-> {}])
  /\ listener' = "failed"
  /\ UNCHANGED <<view, settled, user, products, rows, hidden, snapshots, emptied>>

-----------------------------------------------------------------------------
(* DetailVC.                                                                *)

\* viewDidLoad with somebody signed in: the listener is added.
Open ==
  /\ listener = "none"
  /\ IF ShouldRaiseInitialEvent(view, settled)
     THEN Raise(view) /\ listener' = "raised"
     ELSE listener' = "new" /\ UNCHANGED <<callbacks, calls>>
  /\ UNCHANGED <<view, settled, user, products, rows, hidden, snapshots, emptied>>

\* Mutant of OwnProducts: everybody's.
OwnProductsOfAll(documents) == SetToSeq(documents)

\* The documents of a snapshot that belong to the user, in some order
\* (Firestore's is that of the identifiers).
OwnProducts(documents) == SetToSeq({d \in documents : Owner[d] = user})

\* Mutant of GetProductForCategory: the snapshot is handled and handled again.
GetProductForCategoryAgain ==
  /\ callbacks # <<>>
  /\ LET c == Head(callbacks)
     IN  IF c.error
         THEN UNCHANGED <<products, rows, snapshots>>
         ELSE /\ products' = OwnProducts(c.documents)
              /\ rows' = products'
              /\ snapshots' = snapshots + 1
  /\ hidden' = (hidden \/ products' = <<>>)
  /\ emptied' = (emptied \/ products' = <<>>)
  /\ UNCHANGED <<view, settled, listener, user, callbacks, calls>>

\* Mutant of GetProductForCategory: an error does not hide the table.
GetProductForCategoryIgnoresErrors ==
  /\ callbacks # <<>>
  /\ LET c == Head(callbacks)
     IN  IF c.error
         THEN UNCHANGED <<products, rows, snapshots, hidden, emptied>>
         ELSE /\ products' = products \o OwnProducts(c.documents)
              /\ rows' = products'
              /\ snapshots' = snapshots + 1
              /\ hidden' = (hidden \/ products' = <<>>)
              /\ emptied' = (emptied \/ products' = <<>>)
  /\ callbacks' = Tail(callbacks)
  /\ UNCHANGED <<view, settled, listener, user, calls>>

\* Mutant of GetProductForCategory: the empty view is put up before the
\* products are appended.
GetProductForCategoryHidesFirst ==
  /\ callbacks # <<>>
  /\ LET c == Head(callbacks)
     IN  IF c.error
         THEN UNCHANGED <<products, rows, snapshots>>
         ELSE /\ products' = products \o OwnProducts(c.documents)
              /\ rows' = products'
              /\ snapshots' = snapshots + 1
  /\ hidden' = (hidden \/ products = <<>>)
  /\ emptied' = (emptied \/ products' = <<>>)
  /\ callbacks' = Tail(callbacks)
  /\ UNCHANGED <<view, settled, listener, user, calls>>

\* The listener's callback: append, redraw, and hide the table if the list is
\* empty.
GetProductForCategory ==
  /\ callbacks # <<>>
  /\ LET c == Head(callbacks)
     IN  IF c.error
         THEN UNCHANGED <<products, rows, snapshots>>
         ELSE /\ products' = products \o OwnProducts(c.documents)
              /\ rows' = products'
              /\ snapshots' = snapshots + 1
  /\ hidden' = (hidden \/ products' = <<>>)
  /\ emptied' = (emptied \/ products' = <<>>)
  /\ callbacks' = Tail(callbacks)
  /\ UNCHANGED <<view, settled, listener, user, calls>>

Next ==
  \/ \E documents \in SUBSET Documents : ViewChanges(documents)
  \/ Settles \/ ListenFails \/ Open \/ GetProductForCategory

Spec == Init /\ [][Next]_vars

\* The main queue runs; the network is up again or known to be down.
Fairness == WF_vars(GetProductForCategory) /\ WF_vars(Settles)

FairSpec == Spec /\ Fairness

-----------------------------------------------------------------------------
(* Properties.                                                              *)

Shown == IF hidden THEN {} ELSE Range(rows)
Mine(documents) == {d \in documents : Owner[d] = user}
Quiet == callbacks = <<>> /\ listener = "raised"

NothingMissing == Quiet /\ ~emptied => Mine(view) \subseteq Shown
NothingForeign == \A d \in Shown : Owner[d] = user

\* When no callback waits, every document of the user in the category is a row
\* that can be seen, unless an earlier callback had found nothing (hideTableView
\* runs after every callback, and the initial snapshot may come from the cache);
\* and nothing is shown that is not of the user the list was opened for, whoever
\* is signed in later (line 89 captures the user; a product may have several rows).
ShowsMine == NothingMissing /\ NothingForeign

\* A category that was opened gets its rows, or hides its table, at last.
ListComes == (listener # "none") ~> (rows # <<>> \/ hidden)

=============================================================================
