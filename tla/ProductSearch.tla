---------------------------- MODULE ProductSearch ----------------------------
(***************************************************************************)
(* The search tab.  Every change of the text empties the list of products  *)
(* and asks Firestore for the whole collection; each answer, on the main   *)
(* queue, refills the list with the user's products that match the text    *)
(* of the request and redraws the table.  In between, and after an error,  *)
(* the table has the rows of the list it was drawn from.  The user of a    *)
(* request is the one who was signed in when it was made; by its answer    *)
(* Auth may have dropped that user, or have signed another one in.         *)
(*                                                                         *)
(* All requests are the same query, so Firestore raises them in the order  *)
(* they were made: when the first can be answered so can the next.         *)
(***************************************************************************)
EXTENDS SequencesExt

CONSTANTS Products, \* the documents of the collection
          Texts,    \* what the user can type
          Matches,  \* for each text, the products whose name contains it
          Users, NoUser,
          Owner,    \* for each product, its user
          MaxAsked  \* bound: requests and callbacks under way

VARIABLES
  collection,  \* the products the backend has
  currentUser, \* Auth.auth().currentUser
  text,        \* searchBar.text
  requests,    \* requests Firestore has not answered, oldest first
  callbacks,   \* answers waiting on the main queue, oldest first
  products,    \* SearchVC.products
  table,       \* the rows the table was drawn with
  crashed,     \* the process trapped
  \* history variables
  asker,       \* the user the last change of the text asked for; NoUser if it asked
               \* nothing, or an error was answered since
  answered     \* the collection of the last answer that was handled

vars == <<collection, currentUser, text, requests, callbacks, products, table,
          crashed, asker, answered>>

ASSUME SearchAssumption ==
  /\ IsFiniteSet(Products)
  /\ Matches \in [Texts -> SUBSET Products]
  /\ Owner \in [Products -> Users]
  /\ NoUser \notin Users
  /\ MaxAsked \in Nat

Request  == [text : Texts, user : Users]
Callback == [text : Texts, user : Users, error : BOOLEAN, found : SUBSET Products]

TypeOK ==
  /\ collection \subseteq Products
  /\ currentUser \in Users \cup {NoUser}
  /\ text \in Texts
  /\ requests \in Seq(Request)
  /\ callbacks \in Seq(Callback)
  /\ products \in Seq(Products)
  /\ table \in Seq(Products)
  /\ crashed \in BOOLEAN
  /\ asker \in Users \cup {NoUser}
  /\ answered \subseteq Products

Init ==
  /\ collection \in SUBSET Products
  /\ currentUser \in Users
  /\ text \in Texts
  /\ requests = <<>> /\ callbacks = <<>>
  /\ products = <<>> /\ table = <<>>
  /\ crashed = FALSE /\ asker = NoUser /\ answered = {}

-----------------------------------------------------------------------------

\* The products an answer to a request of the user for the text brings, in
\* some order (Firestore's is that of the identifiers).
Found(t, user, documents) ==
  SetToSeq({d \in documents \cap Matches[t] : Owner[d] = user})

\* Mutant of TextDidChange: asked whether or not somebody is signed in.
TextDidChangeUnguarded(t) ==
  /\ ~crashed
  /\ t # text
  /\ Len(requests) + Len(callbacks) < MaxAsked
  /\ text' = t
  /\ products' = <<>>
  /\ requests' = Append(requests, [text |-> t, user |-> currentUser])
  /\ asker' = currentUser
  /\ UNCHANGED <<collection, currentUser, callbacks, table, crashed, answered>>

\* textDidChange: the list is emptied, the table is not redrawn.  Without a
\* user nothing is asked.
TextDidChange(t) ==
  /\ ~crashed
  /\ t # text
  /\ Len(requests) + Len(callbacks) < MaxAsked
  /\ text' = t
  /\ products' = <<>>
  /\ IF currentUser = NoUser
     THEN UNCHANGED requests
     ELSE requests' = Append(requests, [text |-> t, user |-> currentUser])
  /\ asker' = currentUser
  /\ UNCHANGED <<collection, currentUser, callbacks, table, crashed, answered>>

\* Mutant of Answer: the newest request is answered first.
AnswerNewest(error) ==
  /\ ~crashed
  /\ requests # <<>>
  /\ LET r == requests[Len(requests)]
     IN  callbacks' = Append(callbacks, [text |-> r.text, user |-> r.user, error |-> error,
                                         found |-> IF error THEN {} ELSE collection])
  /\ requests' = SubSeq(requests, 1, Len(requests) - 1)
  /\ UNCHANGED <<collection, currentUser, text, products, table, crashed, asker, answered>>

\* Firestore answers the oldest request with the collection or an error.
Answer(error) ==
  /\ ~crashed
  /\ requests # <<>>
  /\ LET r == Head(requests)
     IN  callbacks' = Append(callbacks, [text |-> r.text, user |-> r.user, error |-> error,
                                         found |-> IF error THEN {} ELSE collection])
  /\ requests' = Tail(requests)
  /\ UNCHANGED <<collection, currentUser, text, products, table, crashed, asker, answered>>

\* Mutant of GetProducts: an error is not taken off the queue.
GetProductsKeepsErrors ==
  /\ ~crashed
  /\ callbacks # <<>>
  /\ LET c == Head(callbacks)
     IN  /\ products' = IF c.error THEN <<>> ELSE Found(c.text, c.user, c.found)
         /\ table' = IF c.error THEN table ELSE products'
         /\ asker' = IF c.error THEN NoUser ELSE asker
         /\ answered' = c.found
         /\ callbacks' = IF c.error THEN callbacks ELSE Tail(callbacks)
  /\ UNCHANGED <<collection, currentUser, text, requests, crashed>>

\* Mutant of GetProducts: redrawn before the list is refilled.
GetProductsRedrawnFirst ==
  /\ ~crashed
  /\ callbacks # <<>>
  /\ LET c == Head(callbacks)
     IN  /\ products' = IF c.error THEN <<>> ELSE Found(c.text, c.user, c.found)
         /\ table' = IF c.error THEN table ELSE products
         /\ asker' = IF c.error THEN NoUser ELSE asker
         /\ answered' = c.found
  /\ callbacks' = Tail(callbacks)
  /\ UNCHANGED <<collection, currentUser, text, requests, crashed>>

\* Mutant of GetProducts: redrawn only when something was found.
GetProductsRedrawnIfFound ==
  /\ ~crashed
  /\ callbacks # <<>>
  /\ LET c == Head(callbacks)
     IN  /\ products' = IF c.error THEN <<>> ELSE Found(c.text, c.user, c.found)
         /\ table' = IF products' = <<>> THEN table ELSE products'
         /\ asker' = IF c.error THEN NoUser ELSE asker
         /\ answered' = c.found
  /\ callbacks' = Tail(callbacks)
  /\ UNCHANGED <<collection, currentUser, text, requests, crashed>>

\* Mutant of GetProducts: the products are those of the user signed in now.
GetProductsOfCurrent ==
  /\ ~crashed
  /\ callbacks # <<>>
  /\ LET c == Head(callbacks)
     IN  /\ products' = IF c.error THEN <<>> ELSE Found(c.text, currentUser, c.found)
         /\ table' = IF c.error THEN table ELSE products'
         /\ asker' = IF c.error THEN NoUser ELSE asker
         /\ answered' = c.found
  /\ callbacks' = Tail(callbacks)
  /\ UNCHANGED <<collection, currentUser, text, requests, crashed>>

\* The completion of getDocuments: the list is emptied again; unless there is
\* an error it is refilled and the table redrawn.
GetProducts ==
  /\ ~crashed
  /\ callbacks # <<>>
  /\ LET c == Head(callbacks)
     IN  /\ products' = IF c.error THEN <<>> ELSE Found(c.text, c.user, c.found)
         /\ table' = IF c.error THEN table ELSE products'
         /\ asker' = IF c.error THEN NoUser ELSE asker
         /\ answered' = c.found
  /\ callbacks' = Tail(callbacks)
  /\ UNCHANGED <<collection, currentUser, text, requests, crashed>>

\* A row is tapped, or scrolled into view: its place is an index into the list.
\* (The product it opens goes to DisplayVC, which changes nothing here.)
TouchRow(row) ==
  /\ ~crashed
  /\ row \in DOMAIN table
  /\ crashed' = (row > Len(products))
  /\ UNCHANGED <<collection, currentUser, text, requests, callbacks, products, table,
                 asker, answered>>

\* A warranty is saved, on this device or another one.
Save(d) ==
  /\ d \notin collection
  /\ collection' = collection \cup {d}
  /\ UNCHANGED <<currentUser, text, requests, callbacks, products, table, crashed,
                 asker, answered>>

\* A sign-in that outlived its screen is answered: Auth has another current
\* user, and its completion, without a window, changes nothing on this one.
SignedInBehind(u) ==
  /\ ~crashed
  /\ u # currentUser
  /\ currentUser' = u
  /\ UNCHANGED <<collection, text, requests, callbacks, products, table, crashed,
                 asker, answered>>

\* Auth drops the user when its token is refused for good.
SignedOutByForce ==
  /\ ~crashed
  /\ currentUser # NoUser
  /\ currentUser' = NoUser
  /\ UNCHANGED <<collection, text, requests, callbacks, products, table, crashed,
                 asker, answered>>

\* The process is started again after a trap, and the user logs in.
Relaunch ==
  /\ crashed
  /\ crashed' = FALSE
  /\ currentUser' \in Users
  /\ requests' = <<>> /\ callbacks' = <<>>
  /\ products' = <<>> /\ table' = <<>>
  /\ asker' = NoUser
  /\ answered' = {}
  /\ UNCHANGED <<collection, text>>

Next ==
  \/ \E t \in Texts : TextDidChange(t)
  \/ \E error \in BOOLEAN : Answer(error)
  \/ GetProducts
  \/ \E row \in 1..Cardinality(Products) : TouchRow(row)
  \/ \E d \in Products : Save(d)
  \/ \E u \in Users : SignedInBehind(u)
  \/ SignedOutByForce
  \/ Relaunch

Spec == Init /\ [][Next]_vars

\* Firestore answers every request (from the cache when it is offline), and the
\* main queue runs.
Fairness == WF_vars(\E error \in BOOLEAN : Answer(error)) /\ WF_vars(GetProducts)

FairSpec == Spec /\ Fairness

-----------------------------------------------------------------------------
(* Properties.                                                              *)

Quiet == requests = <<>> /\ callbacks = <<>>

\* The answers come in order: when none is under way, the table shows the
\* products, of the user who asked last, that match the text in the search bar
\* now, each once, as the last answer had them, however fast the text was typed
\* and whoever has been signed in or out since (the user and the text are taken
\* at the request; the list is emptied at the text and again at the answer).
QuietShowsText ==
  Quiet /\ asker # NoUser /\ ~crashed =>
    /\ table = products
    /\ IsInjective(table)
    /\ Range(table) = {d \in answered \cap Matches[text] : Owner[d] = asker}

\* A row never opens the product of another row: the list is the one the table
\* was drawn from, or it is empty (didSelectRowAt indexes the list).
RowsOfTheList == ~crashed => products \in {table, <<>>}

\* The index of a row is past the end of the list only while an answer is under
\* way, after an error, or without a user (the table is redrawn by answers only).
TrapsOnlyUnanswered == [][crashed' /\ ~crashed => ~Quiet \/ asker = NoUser]_vars

\* The user who stops typing gets an answer (every request is a listener that
\* Firestore raises once).
AnswersArrive ==
  \A t \in Texts : (text = t /\ ~Quiet) ~> (text # t \/ Quiet \/ crashed)

=============================================================================
