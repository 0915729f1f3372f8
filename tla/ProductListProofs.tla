-------------------------- MODULE ProductListProofs --------------------------
(***************************************************************************)
(* The products of a category, for any documents, users and number of      *)
(* calls of the listener.  The list only grows, so what has to be shown is *)
(* that what the listener was last called with is what Firestore has.      *)
(***************************************************************************)
EXTENDS ProductList, FiniteSetTheorems, TLAPS

\* The products the list has.
Held == Range(products)

\* A listener that was called and not dropped was last called with the view;
\* when that call was handled the list has the user's part of it.
ViewInv ==
  listener = "raised" =>
    /\ callbacks # <<>> => /\ ~callbacks[Len(callbacks)].error
                           /\ callbacks[Len(callbacks)].documents = view
    /\ callbacks = <<>> => Mine(view) \subseteq Held

\* The table has the list's rows, which are the user's, and was hidden by a
\* callback that found none.
TableInv ==
  /\ rows = products
  /\ \A d \in Held : Owner[d] = user
  /\ hidden = emptied

\* A snapshot is handled once.
CallsInv == snapshots + Len(callbacks) =< calls

ListInv == TypeOK /\ ViewInv /\ TableInv /\ CallsInv

\* The empty list, and lists of some elements of a set.
LEMMA EmptyList == \A S : <<>> \in Seq(S)
OBVIOUS

LEMMA ListOfSome ==
  ASSUME NEW T, NEW S \in SUBSET T, NEW n \in Nat, NEW f \in [1..n -> S]
  PROVE  f \in Seq(T)
OBVIOUS

\* A queue with a callback more, and with one less.
LEMMA Appended ==
  ASSUME NEW S, NEW q \in Seq(S), NEW e \in S
  PROVE  /\ Append(q, e) \in Seq(S) /\ Append(q, e) # <<>>
         /\ Len(q) \in Nat /\ Len(Append(q, e)) = Len(q) + 1
         /\ Append(q, e)[Len(Append(q, e))] = e
OBVIOUS

LEMMA Taken ==
  ASSUME NEW S, NEW q \in Seq(S), q # <<>>
  PROVE  /\ Head(q) \in S /\ Tail(q) \in Seq(S)
         /\ Len(q) \in Nat \ {0} /\ Len(Tail(q)) = Len(q) - 1
         /\ Tail(q) # <<>> => Tail(q)[Len(Tail(q))] = q[Len(q)]
         /\ Tail(q) = <<>> => Head(q) = q[Len(q)]
<1>1. Len(q) \in Nat \ {0} /\ Head(q) = q[1] /\ Head(q) \in S
  OBVIOUS
<1>2. Tail(q) \in Seq(S) /\ Len(Tail(q)) = Len(q) - 1
  OBVIOUS
<1>3. \A i \in 1..Len(Tail(q)) : Tail(q)[i] = q[i + 1]
  OBVIOUS
<1>4. Tail(q) # <<>> => Len(Tail(q)) \in 1..Len(Tail(q))
  BY <1>2
<1>5. Tail(q) = <<>> => Len(q) = 1
  BY <1>1, <1>2
<1> QED
  BY <1>1, <1>2, <1>3, <1>4, <1>5

\* What two lists have together.
LEMMA Joined ==
  ASSUME NEW S, NEW p \in Seq(S), NEW q \in Seq(S)
  PROVE  /\ p \o q \in Seq(S)
         /\ Range(p \o q) = Range(p) \cup Range(q)
<1> DEFINE r == p \o q
<1>1. /\ r \in Seq(S) /\ Len(p) \in Nat /\ Len(q) \in Nat /\ Len(r) = Len(p) + Len(q)
      /\ DOMAIN p = 1..Len(p) /\ DOMAIN q = 1..Len(q) /\ DOMAIN r = 1..Len(r)
  OBVIOUS
<1>2. /\ \A i \in 1..Len(p) : r[i] = p[i]
      /\ \A i \in 1..Len(q) : r[i + Len(p)] = q[i]
      /\ \A i \in 1..Len(r) : i > Len(p) => r[i] = q[i - Len(p)]
  OBVIOUS
<1> HIDE DEF r
<1>3. ASSUME NEW i \in DOMAIN r
      PROVE  r[i] \in {p[j] : j \in DOMAIN p} \cup {q[j] : j \in DOMAIN q}
  <2>1. CASE i \in 1..Len(p)
    BY <1>1, <1>2, <2>1
  <2>2. CASE i > Len(p)
    <3>1. i - Len(p) \in DOMAIN q
      BY <1>1, <2>2
    <3> QED
      BY <1>1, <1>2, <2>2, <3>1
  <2> QED
    BY <1>1, <2>1, <2>2
<1>4. ASSUME NEW i \in DOMAIN p PROVE p[i] \in {r[j] : j \in DOMAIN r}
  <2>1. i \in DOMAIN r
    BY <1>1
  <2> QED
    BY <1>1, <1>2, <2>1
<1>5. ASSUME NEW i \in DOMAIN q PROVE q[i] \in {r[j] : j \in DOMAIN r}
  <2>1. i + Len(p) \in DOMAIN r
    BY <1>1
  <2> QED
    BY <1>1, <1>2, <2>1
<1>6. {r[i] : i \in DOMAIN r} = {p[i] : i \in DOMAIN p} \cup {q[i] : i \in DOMAIN q}
  BY <1>3, <1>4, <1>5
<1> QED
  BY <1>1, <1>6 DEF r, Range

\* What is taken from a snapshot is a list of the user's documents in it.
LEMMA OwnFacts ==
  ASSUME NEW documents \in SUBSET Documents
  PROVE  /\ OwnProducts(documents) \in Seq(Documents)
         /\ Range(OwnProducts(documents)) = Mine(documents)
<1> DEFINE S == {d \in documents : Owner[d] = user}
           n == Cardinality(S)
<1>1. S \in SUBSET Documents
  OBVIOUS
<1>2. IsFiniteSet(S) /\ n \in Nat
  BY <1>1, FS_Subset, FS_CardinalityType, ListAssumption
<1>3. \E f \in [1..n -> S] : IsInjective(f)
  BY <1>2, FS_CardinalityType DEF ExistsBijection, Bijection, Injection
<1>4. OwnProducts(documents) \in [1..n -> S] /\ IsInjective(OwnProducts(documents))
  BY <1>3 DEF OwnProducts, SetToSeq
<1> DEFINE f == OwnProducts(documents)
<1>5. f \in Injection(1..n, S)
  BY <1>4 DEF Injection
<1>6. Cardinality(1..n) = n
  BY <1>2, FS_Interval
<1>7. f \in Surjection(1..n, S)
  BY <1>2, <1>5, <1>6, FS_Injection
<1> HIDE DEF f
<1>8. f \in Seq(Documents)
  BY <1>1, <1>2, <1>4, ListOfSome DEF f
<1>9. {f[i] : i \in DOMAIN f} = S
  <2>1. DOMAIN f = 1..n /\ \A i \in 1..n : f[i] \in S
    BY <1>4 DEF f
  <2>2. \A d \in S : \E i \in 1..n : f[i] = d
    BY <1>7 DEF Surjection
  <2> HIDE DEF S, n
  <2> QED
    BY <2>1, <2>2
<1> QED
  BY <1>8, <1>9 DEF f, Mine, Range

\* The invariant holds before the category is opened.
LEMMA ListInit == Init => ListInv
<1> SUFFICES ASSUME Init PROVE ListInv
  OBVIOUS
<1>1. /\ callbacks \in Seq(Callback) /\ products \in Seq(Documents)
      /\ rows \in Seq(Documents) /\ Len(callbacks) = 0 /\ DOMAIN products = {}
  BY EmptyList DEF Init
<1>2. calls \in 0..MaxCalls /\ snapshots \in 0..calls
  BY ListAssumption DEF Init
<1>3. TypeOK
  BY <1>1, <1>2 DEF Init, TypeOK
<1>4. TableInv
  BY <1>1 DEF Init, TableInv, Held, Range
<1>5. ViewInv /\ CallsInv
  BY <1>1 DEF Init, ViewInv, CallsInv
<1> QED
  BY <1>3, <1>4, <1>5 DEF ListInv

\* A step of Firestore calls the listener at most once more, and leaves a
\* listener that was called with the view it was called with.
LEMMA FirestoreStep ==
  ASSUME ListInv,
         view' \in SUBSET Documents, settled' \in BOOLEAN,
         listener' \in {"none", "new", "raised", "failed"},
         UNCHANGED <<user, products, rows, hidden, snapshots, emptied>>,
         \/ /\ UNCHANGED <<callbacks, calls>>
            /\ listener' = "raised" => listener = "raised" /\ view' = view
         \/ /\ listener' = "raised" /\ Raise(view')
         \/ /\ listener' = "failed" /\ calls < MaxCalls /\ calls' = calls + 1
            /\ callbacks' = Append(callbacks, [error |-> TRUE, documents |-> {}])
  PROVE  ListInv'
<1> USE DEF ListInv
<1>1. TableInv'
  BY DEF TableInv, Held
<1>2. calls \in Nat /\ snapshots \in Nat /\ callbacks \in Seq(Callback) /\ MaxCalls \in Nat
  BY ListAssumption DEF TypeOK
<1>3. CASE UNCHANGED <<callbacks, calls>> /\ (listener' = "raised" => listener = "raised" /\ view' = view)
  <2>1. TypeOK'
    BY <1>3 DEF TypeOK
  <2>2. ViewInv' /\ CallsInv'
    BY <1>3 DEF ViewInv, CallsInv, Held, Mine
  <2> QED
    BY <1>1, <2>1, <2>2
<1>4. ASSUME NEW c \in Callback, calls < MaxCalls, calls' = calls + 1,
             callbacks' = Append(callbacks, c),
             listener' = "raised" => ~c.error /\ c.documents = view'
      PROVE  ListInv'
  <2>1. /\ callbacks' \in Seq(Callback) /\ callbacks' # <<>>
        /\ Len(callbacks) \in Nat /\ Len(callbacks') = Len(callbacks) + 1
        /\ callbacks'[Len(callbacks')] = c
    BY <1>2, <1>4, Appended
  <2>2. calls' \in 0..MaxCalls /\ snapshots' \in 0..calls'
    BY <1>2, <1>4 DEF TypeOK
  <2>3. TypeOK'
    BY <2>1, <2>2 DEF TypeOK
  <2>4. ViewInv'
    BY <1>4, <2>1 DEF ViewInv
  <2>5. CallsInv'
    BY <1>2, <1>4, <2>1 DEF CallsInv
  <2> QED
    BY <1>1, <2>3, <2>4, <2>5
<1>5. CASE listener' = "raised" /\ Raise(view')
  <2>1. [error |-> FALSE, documents |-> view'] \in Callback
    BY DEF Callback
  <2> QED
    BY <1>4, <1>5, <2>1 DEF Raise
<1>6. CASE /\ listener' = "failed" /\ calls < MaxCalls /\ calls' = calls + 1
           /\ callbacks' = Append(callbacks, [error |-> TRUE, documents |-> {}])
  <2>1. [error |-> TRUE, documents |-> {}] \in Callback
    BY DEF Callback
  <2> QED
    BY <1>4, <1>6, <2>1
<1> QED
  BY <1>3, <1>5, <1>6

\* The callback adds the user's part of the snapshot to the list.
LEMMA CallbackStep ==
  ASSUME ListInv, GetProductForCategory
  PROVE  ListInv'
<1> USE DEF ListInv
<1> DEFINE c == Head(callbacks)
           own == OwnProducts(c.documents)
<1>1. /\ calls \in Nat /\ snapshots \in Nat /\ callbacks \in Seq(Callback) /\ callbacks # <<>>
      /\ products \in Seq(Documents) /\ rows = products
  BY DEF TypeOK, TableInv, GetProductForCategory
<1>2. c \in Callback /\ c.documents \in SUBSET Documents /\ c.error \in BOOLEAN
  <2>1. c \in Callback
    BY <1>1, Taken
  <2> QED
    BY <2>1 DEF Callback
<1>3. /\ callbacks' = Tail(callbacks) /\ callbacks' \in Seq(Callback)
      /\ Len(callbacks) \in Nat \ {0} /\ Len(callbacks') = Len(callbacks) - 1
      /\ callbacks' # <<>> => callbacks'[Len(callbacks')] = callbacks[Len(callbacks)]
      /\ callbacks' = <<>> => c = callbacks[Len(callbacks)]
  BY <1>1, Taken DEF GetProductForCategory
<1>4. /\ UNCHANGED <<view, settled, listener, user, calls>>
      /\ IF c.error
         THEN UNCHANGED <<products, rows, snapshots>>
         ELSE products' = products \o own /\ rows' = products' /\ snapshots' = snapshots + 1
      /\ hidden' = (hidden \/ products' = <<>>)
      /\ emptied' = (emptied \/ products' = <<>>)
  BY DEF GetProductForCategory
<1>5. /\ products' \in Seq(Documents) /\ rows' = products'
      /\ Held' = IF c.error THEN Held ELSE Held \cup Mine(c.documents)
  <2>1. CASE c.error
    BY <1>1, <1>4, <2>1 DEF Held
  <2>2. CASE ~c.error
    <3>1. own \in Seq(Documents) /\ Range(own) = Mine(c.documents)
      BY <1>2, OwnFacts
    <3> HIDE DEF own
    <3>2. products \o own \in Seq(Documents) /\ Range(products \o own) = Held \cup Range(own)
      BY <1>1, <3>1, Joined DEF Held
    <3>3. products' = products \o own /\ rows' = products'
      BY <1>4, <2>2
    <3> QED
      BY <2>2, <3>1, <3>2, <3>3 DEF Held
  <2> QED
    BY <2>1, <2>2
<1> HIDE DEF c, own
<1>6. /\ hidden' = (hidden \/ products' = <<>>) /\ emptied' = (emptied \/ products' = <<>>)
      /\ hidden' \in BOOLEAN /\ emptied' \in BOOLEAN
  BY <1>4
<1>7. snapshots' \in Nat /\ snapshots' + Len(callbacks') =< calls'
  BY <1>1, <1>3, <1>4 DEF CallsInv
<1>8. TypeOK'
  <2>1. snapshots' \in 0..calls'
    BY <1>1, <1>3, <1>4, <1>7
  <2> QED
    BY <1>3, <1>4, <1>5, <1>6, <2>1 DEF TypeOK
<1>9. TableInv'
  <2>1. hidden' = emptied'
    BY <1>6 DEF TableInv
  <2> QED
    BY <1>4, <1>5, <2>1 DEF TableInv, Mine
<1>10. ViewInv'
  <2> SUFFICES ASSUME listener = "raised"
               PROVE  /\ callbacks' # <<>> => /\ ~callbacks'[Len(callbacks')].error
                                              /\ callbacks'[Len(callbacks')].documents = view
                      /\ callbacks' = <<>> => Mine(view) \subseteq Held'
    BY <1>4 DEF ViewInv, Mine
  <2>1. /\ ~callbacks[Len(callbacks)].error
        /\ callbacks[Len(callbacks)].documents = view
    BY <1>1 DEF ViewInv
  <2> QED
    BY <1>3, <1>5, <2>1
<1> QED
  BY <1>7, <1>8, <1>9, <1>10 DEF CallsInv

\* Every step keeps the invariant.
LEMMA ListStep == ListInv /\ [Next]_vars => ListInv'
<1> SUFFICES ASSUME ListInv, [Next]_vars PROVE ListInv'
  OBVIOUS
<1>1. /\ view \in SUBSET Documents /\ settled \in BOOLEAN
      /\ listener \in {"none", "new", "raised", "failed"}
  BY DEF ListInv, TypeOK
<1>2. CASE UNCHANGED vars
  BY <1>1, <1>2, FirestoreStep DEF vars
<1>3. ASSUME NEW documents \in SUBSET Documents, ViewChanges(documents) PROVE ListInv'
  BY <1>1, <1>3, FirestoreStep DEF ViewChanges
<1>4. CASE Settles
  BY <1>1, <1>4, FirestoreStep DEF Settles
<1>5. CASE ListenFails
  BY <1>1, <1>5, FirestoreStep DEF ListenFails
<1>6. CASE Open
  BY <1>1, <1>6, FirestoreStep DEF Open
<1>7. CASE GetProductForCategory
  BY <1>7, CallbackStep
<1> QED
  BY <1>2, <1>3, <1>4, <1>5, <1>6, <1>7 DEF Next

\* The variables stay in their sets, and no more snapshots are handled than were
\* raised (TypeOK).
THEOREM ListTypeCorrect == Spec => []TypeOK
<1>1. ListInv => TypeOK
  BY DEF ListInv
<1> QED
  BY <1>1, ListInit, ListStep, PTL DEF Spec

\* When the listener is called for, what Firestore has of the user in the
\* category can be seen, unless the table was hidden (NothingMissing), and
\* always only the user's products are (NothingForeign).
THEOREM ShowsMineAlways == Spec => []ShowsMine
<1>1. ListInv => NothingMissing
  BY DEF ListInv, ViewInv, TableInv, NothingMissing, Quiet, Shown, Held
<1>2. ListInv => NothingForeign
  BY DEF ListInv, TableInv, NothingForeign, Shown, Held
<1> QED
  BY <1>1, <1>2, ListInit, ListStep, PTL DEF Spec, ShowsMine

=============================================================================
