------------------------- MODULE ProductSearchProofs -------------------------
(***************************************************************************)
(* The search tab, for any products, texts, users and number of requests   *)
(* under way.  What is shown when nothing is under way is what the last    *)
(* request will bring: the invariant follows that request from the text,   *)
(* through Firestore and the main queue, to the table.                     *)
(***************************************************************************)
EXTENDS ProductSearch, FiniteSetTheorems, TLAPS

\* The request of the present text, wherever it is: the last Firestore has, or
\* if it has none the last answer, or if there is none what is shown.
LastIsFor(u) ==
  /\ requests # <<>> =>
       requests[Len(requests)].text = text /\ requests[Len(requests)].user = u
  /\ requests = <<>> /\ callbacks # <<>> =>
       callbacks[Len(callbacks)].text = text /\ callbacks[Len(callbacks)].user = u
  /\ Quiet => products = Found(text, u, answered) /\ table = products

AskerInv == asker # NoUser /\ ~crashed => LastIsFor(asker)

SearchInv == TypeOK /\ RowsOfTheList /\ AskerInv

\* The empty list, lists of some elements of a set, and both ends of a queue.
LEMMA EmptyList == \A S : <<>> \in Seq(S)
OBVIOUS

LEMMA ListOfSome ==
  ASSUME NEW T, NEW S \in SUBSET T, NEW n \in Nat, NEW f \in [1..n -> S]
  PROVE  f \in Seq(T)
OBVIOUS

LEMMA Appended ==
  ASSUME NEW S, NEW q \in Seq(S), NEW e \in S
  PROVE  /\ Append(q, e) \in Seq(S) /\ Append(q, e) # <<>>
         /\ Append(q, e)[Len(Append(q, e))] = e
OBVIOUS

LEMMA Taken ==
  ASSUME NEW S, NEW q \in Seq(S), q # <<>>
  PROVE  /\ Head(q) \in S /\ Tail(q) \in Seq(S)
         /\ Tail(q) # <<>> => Tail(q)[Len(Tail(q))] = q[Len(q)]
         /\ Tail(q) = <<>> => Head(q) = q[Len(q)]
<1>1. Len(q) \in Nat \ {0} /\ Head(q) = q[1] /\ Head(q) \in S
  OBVIOUS
<1>2. Tail(q) \in Seq(S) /\ Len(Tail(q)) = Len(q) - 1
  OBVIOUS
<1>3. \A i \in 1..Len(Tail(q)) : Tail(q)[i] = q[i + 1]
  OBVIOUS
<1>4. Tail(q) # <<>> => Len(Tail(q)) \in 1..Len(Tail(q))
  BY <1>2
<1>5. Tail(q) = <<>> => Len(q) = 1
  BY <1>1, <1>2
<1> QED
  BY <1>1, <1>2, <1>3, <1>4, <1>5

\* What is found is a list of the user's products that match, each once.
LEMMA FoundFacts ==
  ASSUME NEW t \in Texts, NEW u \in Users, NEW documents \in SUBSET Products
  PROVE  /\ Found(t, u, documents) \in Seq(Products)
         /\ IsInjective(Found(t, u, documents))
         /\ Range(Found(t, u, documents)) = {d \in documents \cap Matches[t] : Owner[d] = u}
<1> DEFINE S == {d \in documents \cap Matches[t] : Owner[d] = u}
           n == Cardinality(S)
<1>1. S \in SUBSET Products
  OBVIOUS
<1>2. IsFiniteSet(S) /\ n \in Nat
  BY <1>1, FS_Subset, FS_CardinalityType, SearchAssumption
<1>3. \E f \in [1..n -> S] : IsInjective(f)
  BY <1>2, FS_CardinalityType DEF ExistsBijection, Bijection, Injection
<1>4. Found(t, u, documents) \in [1..n -> S] /\ IsInjective(Found(t, u, documents))
  BY <1>3 DEF Found, SetToSeq
<1> DEFINE f == Found(t, u, documents)
<1>5. f \in Injection(1..n, S)
  BY <1>4 DEF Injection
<1>6. Cardinality(1..n) = n
  BY <1>2, FS_Interval
<1>7. f \in Surjection(1..n, S)
  BY <1>2, <1>5, <1>6, FS_Injection
<1> HIDE DEF f
<1>8. f \in Seq(Products)
  BY <1>1, <1>2, <1>4, ListOfSome DEF f
<1>9. {f[i] : i \in DOMAIN f} = S
  <2>1. DOMAIN f = 1..n /\ \A i \in 1..n : f[i] \in S
    BY <1>4 DEF f
  <2>2. \A d \in S : \E i \in 1..n : f[i] = d
    BY <1>7 DEF Surjection
  <2> HIDE DEF S, n
  <2> QED
    BY <2>1, <2>2
<1> QED
  BY <1>4, <1>8, <1>9 DEF f, Range

\* The invariant holds when the tab comes up.
LEMMA SearchInit == Init => SearchInv
<1> SUFFICES ASSUME Init PROVE SearchInv
  OBVIOUS
<1>1. /\ requests \in Seq(Request) /\ callbacks \in Seq(Callback)
      /\ products \in Seq(Products) /\ table \in Seq(Products)
  BY EmptyList DEF Init
<1>2. TypeOK
  BY <1>1 DEF Init, TypeOK
<1> QED
  BY <1>2 DEF Init, SearchInv, RowsOfTheList, AskerInv

\* A change of the text makes a request of it, or none and says so.
LEMMA TextStep ==
  ASSUME SearchInv, NEW t \in Texts, TextDidChange(t)
  PROVE  SearchInv'
<1> USE DEF SearchInv, TypeOK, TextDidChange
<1> DEFINE r == [text |-> t, user |-> currentUser]
<1>1. currentUser # NoUser => r \in Request
  BY DEF Request
<1>2. TypeOK' /\ RowsOfTheList'
  <2>1. products' \in Seq(Products)
    BY EmptyList
  <2>2. ASSUME currentUser # NoUser PROVE requests' \in Seq(Request)
    <3>1. requests' = Append(requests, r) /\ requests \in Seq(Request)
      BY <2>2
    <3>2. r \in Request
      BY <1>1, <2>2
    <3> HIDE DEF r
    <3> QED
      BY <3>1, <3>2, Appended
  <2> QED
    BY <2>1, <2>2 DEF RowsOfTheList
<1>3. ASSUME asker' # NoUser PROVE AskerInv'
  <2>1. currentUser \in Users /\ currentUser # NoUser /\ requests' = Append(requests, r)
    BY <1>3
  <2>2. requests' # <<>> /\ requests'[Len(requests')] = r
    <3>1. requests \in Seq(Request)
      OBVIOUS
    <3>2. r \in Request
      BY <1>1, <2>1
    <3> HIDE DEF r
    <3> QED
      BY <2>1, <3>1, <3>2, Appended
  <2> QED
    BY <2>1, <2>2 DEF AskerInv, LastIsFor, Quiet
<1> QED
  BY <1>2, <1>3 DEF AskerInv

\* An answer takes the oldest request to the end of the main queue.
LEMMA AnswerStep ==
  ASSUME SearchInv, NEW error \in BOOLEAN, Answer(error)
  PROVE  SearchInv'
<1> USE DEF SearchInv, TypeOK, Answer
<1> DEFINE r == Head(requests)
           c == [text |-> r.text, user |-> r.user, error |-> error,
                 found |-> IF error THEN {} ELSE collection]
<1>1. r \in Request /\ c \in Callback
  <2>1. r \in Request
    BY Taken
  <2> QED
    BY <2>1 DEF Request, Callback
<1>2. callbacks' = Append(callbacks, c) /\ requests' = Tail(requests)
  OBVIOUS
<1>3. /\ callbacks' \in Seq(Callback) /\ callbacks' # <<>>
      /\ callbacks'[Len(callbacks')] = c
  BY <1>1, <1>2, Appended
<1>4. /\ requests' \in Seq(Request)
      /\ requests' # <<>> => requests'[Len(requests')] = requests[Len(requests)]
      /\ requests' = <<>> => r = requests[Len(requests)]
  BY <1>2, Taken
<1>5. TypeOK' /\ RowsOfTheList'
  BY <1>3, <1>4 DEF RowsOfTheList
<1>6. ASSUME NEW u \in Users, LastIsFor(u) PROVE LastIsFor(u)'
  <2>1. (r.text = text /\ r.user = u) \/ requests' # <<>>
    BY <1>4, <1>6 DEF LastIsFor
  <2> QED
    BY <1>3, <1>4, <1>6, <2>1 DEF LastIsFor, Quiet
<1> QED
  BY <1>5, <1>6 DEF AskerInv

\* A completion shows what the oldest answer brought; the last of them is the
\* answer to the present text.
LEMMA GetProductsStep ==
  ASSUME SearchInv, GetProducts
  PROVE  SearchInv'
<1> USE DEF SearchInv, TypeOK, GetProducts
<1> DEFINE c == Head(callbacks)
<1>1. c \in Callback
  BY Taken
<1>2. /\ c.text \in Texts /\ c.user \in Users /\ c.error \in BOOLEAN
      /\ c.found \in SUBSET Products
  BY <1>1 DEF Callback
<1>3. Found(c.text, c.user, c.found) \in Seq(Products)
  BY <1>2, FoundFacts
<1>4. /\ products' = IF c.error THEN <<>> ELSE Found(c.text, c.user, c.found)
      /\ table' = IF c.error THEN table ELSE products'
      /\ asker' = IF c.error THEN NoUser ELSE asker
      /\ answered' = c.found
      /\ callbacks' = Tail(callbacks)
  OBVIOUS
<1>5. /\ callbacks' \in Seq(Callback)
      /\ callbacks' # <<>> => callbacks'[Len(callbacks')] = callbacks[Len(callbacks)]
      /\ callbacks' = <<>> => c = callbacks[Len(callbacks)]
  BY <1>4, Taken
<1>6. TypeOK' /\ RowsOfTheList'
  <2>1. products' \in Seq(Products) /\ table' \in Seq(Products)
    BY <1>3, <1>4, EmptyList
  <2> QED
    BY <1>2, <1>4, <1>5, <2>1 DEF RowsOfTheList
<1>7. ASSUME ~c.error, NEW u \in Users, LastIsFor(u) PROVE LastIsFor(u)'
  <2>1. CASE requests # <<>>
    BY <1>7, <2>1 DEF LastIsFor, Quiet
  <2>2. CASE requests = <<>> /\ callbacks' # <<>>
    BY <1>5, <1>7, <2>2 DEF LastIsFor, Quiet
  <2>3. CASE requests = <<>> /\ callbacks' = <<>>
    <3>1. c.text = text /\ c.user = u
      BY <1>5, <1>7, <2>3 DEF LastIsFor
    <3>2. products' = Found(text, u, answered') /\ table' = products'
      BY <1>4, <1>7, <3>1
    <3> QED
      BY <2>3, <3>2 DEF LastIsFor, Quiet
  <2> QED
    BY <2>1, <2>2, <2>3
<1> QED
  BY <1>4, <1>6, <1>7 DEF AskerInv

\* Every step keeps the invariant.
LEMMA SearchStep == SearchInv /\ [Next]_vars => SearchInv'
<1> SUFFICES ASSUME SearchInv, [Next]_vars PROVE SearchInv'
  OBVIOUS
<1>1. ASSUME UNCHANGED <<text, requests, callbacks, products, table, asker, answered>>,
             currentUser' \in Users \cup {NoUser}, collection' \subseteq Products,
             crashed' \in BOOLEAN, crashed => crashed'
      PROVE  SearchInv'
  <2>1. ASSUME LastIsFor(asker) PROVE LastIsFor(asker)'
    BY <1>1, <2>1 DEF LastIsFor, Quiet
  <2>2. AskerInv'
    BY <1>1, <2>1 DEF SearchInv, AskerInv
  <2> QED
    BY <1>1, <2>2 DEF SearchInv, TypeOK, RowsOfTheList
<1>2. CASE UNCHANGED vars
  BY <1>1, <1>2 DEF vars, SearchInv, TypeOK
<1>3. ASSUME NEW t \in Texts, TextDidChange(t) PROVE SearchInv'
  BY <1>3, TextStep
<1>4. ASSUME NEW error \in BOOLEAN, Answer(error) PROVE SearchInv'
  BY <1>4, AnswerStep
<1>5. CASE GetProducts
  BY <1>5, GetProductsStep
<1>6. ASSUME NEW row \in 1..Cardinality(Products), TouchRow(row) PROVE SearchInv'
  BY <1>1, <1>6 DEF TouchRow, SearchInv, TypeOK
<1>7. ASSUME NEW d \in Products, Save(d) PROVE SearchInv'
  BY <1>1, <1>7 DEF Save, SearchInv, TypeOK
<1>8. CASE SignedOutByForce
  BY <1>1, <1>8 DEF SignedOutByForce, SearchInv, TypeOK
<1>9. ASSUME NEW u \in Users, SignedInBehind(u) PROVE SearchInv'
  BY <1>1, <1>9 DEF SignedInBehind, SearchInv, TypeOK
<1>10. CASE Relaunch
  BY <1>10, EmptyList DEF Relaunch, SearchInv, TypeOK, RowsOfTheList, AskerInv
<1> QED
  BY <1>2, <1>3, <1>4, <1>5, <1>6, <1>7, <1>8, <1>9, <1>10 DEF Next

\* The variables stay in their sets; a text is a text the user typed for a user
\* who was signed in (TypeOK).
THEOREM SearchTypeCorrect == Spec => []TypeOK
<1>1. SearchInv => TypeOK
  BY DEF SearchInv
<1> QED
  BY <1>1, SearchInit, SearchStep, PTL DEF Spec

\* However fast the text is typed and whoever is signed in meanwhile, what is
\* shown when the answers have come is what the user of the last request has
\* that matches the text in the search bar (QuietShowsText).
THEOREM QuietShowsTextAlways == Spec => []QuietShowsText
<1>1. SearchInv => QuietShowsText
  <2> SUFFICES ASSUME SearchInv, Quiet, asker # NoUser, ~crashed
               PROVE  /\ table = products
                      /\ IsInjective(table)
                      /\ Range(table) = {d \in answered \cap Matches[text] : Owner[d] = asker}
    BY DEF QuietShowsText
  <2>1. table = products /\ table = Found(text, asker, answered)
    BY DEF SearchInv, AskerInv, LastIsFor
  <2>2. text \in Texts /\ answered \in SUBSET Products /\ asker \in Users
    BY DEF SearchInv, TypeOK
  <2> QED
    BY <2>1, <2>2, FoundFacts
<1> QED
  BY <1>1, SearchInit, SearchStep, PTL DEF Spec

\* A row opens the product it shows, or nothing (RowsOfTheList).
THEOREM RowsOfTheListAlways == Spec => []RowsOfTheList
<1>1. SearchInv => RowsOfTheList
  BY DEF SearchInv
<1> QED
  BY <1>1, SearchInit, SearchStep, PTL DEF Spec

\* A tap on a row traps only while an answer is under way, after an error or
\* without a user (TrapsOnlyUnanswered).
THEOREM TrapsOnlyUnansweredAlways == Spec => TrapsOnlyUnanswered
<1>1. SearchInv /\ [Next]_vars => [crashed' /\ ~crashed => ~Quiet \/ asker = NoUser]_vars
  <2> SUFFICES ASSUME SearchInv, Next, crashed', ~crashed, Quiet, asker # NoUser PROVE FALSE
    BY DEF vars
  <2>1. table = products
    BY DEF SearchInv, AskerInv, LastIsFor
  <2>2. PICK row \in 1..Cardinality(Products) : TouchRow(row)
    BY DEF Next, TextDidChange, Answer, GetProducts, Save, SignedInBehind, SignedOutByForce, Relaunch
  <2>3. row \in DOMAIN products /\ row > Len(products)
    BY <2>1, <2>2 DEF TouchRow
  <2>4. products \in Seq(Products)
    BY DEF SearchInv, TypeOK
  <2> QED
    BY <2>3, <2>4
<1> QED
  BY <1>1, SearchInit, SearchStep, PTL DEF Spec, TrapsOnlyUnanswered

=============================================================================
