-------------------------- MODULE CategoriesProofs --------------------------
(***************************************************************************)
(* What holds of the list of categories for any number of CategoryVCs, of  *)
(* documents of other devices and of waiting callbacks.                    *)
(*                                                                         *)
(* The argument: as long as the array was changed by snapshots alone, the  *)
(* last waiting callback carries the present view, and so does the last    *)
(* one that waits for each CategoryVC; a callback that runs leaves what it *)
(* carries behind.                                                         *)
(***************************************************************************)
EXTENDS Categories, SequenceTheorems, TLAPS

Event == [to : Listener, error : BOOLEAN, rows : Seq(Row)]

\* No document has two rows.
Distinct(rows) == \A i, j \in DOMAIN rows : rows[i].id = rows[j].id => i = j

DistinctInv ==
  /\ Distinct(collection)
  /\ Distinct(categories)
  /\ \A k \in DOMAIN events : Distinct(events[k].rows)

\* The CategoryVC on screen listens, unless the query was rejected.
FrontInv ==
  /\ listeners = <<>> => aside
  /\ listeners # <<>> => front \in Elements(listeners) \cup {NoController}

\* The last callback leaves the array at the present view.
ArrayInStep ==
  IF events = <<>>
  THEN categories = collection
  ELSE /\ ~events[Len(events)].error
       /\ events[Len(events)].rows = collection

\* Some callback that waits for the controller carries the present view, and so
\* do those for it that follow; or its table has it and none waits.
TableInStep(v) ==
  \/ \E k \in DOMAIN events :
       /\ events[k].to = v
       /\ \A j \in DOMAIN events :
            j >= k /\ events[j].to = v => ~events[j].error /\ events[j].rows = collection
  \/ /\ \A k \in DOMAIN events : events[k].to # v
     /\ tables[v] = collection

InStep ==
  ~aside => /\ ArrayInStep
            /\ \A v \in Elements(listeners) \ {AppLaunch} : TableInStep(v)

CategoriesInv == TypeOK /\ DistinctInv /\ FrontInv /\ InStep

-----------------------------------------------------------------------------
(* Sequences.                                                               *)

\* A sequence without one of its entries (categories.remove(at:)).
LEMMA WithoutEntries ==
  ASSUME NEW S, NEW s \in Seq(S), NEW i \in DOMAIN s
  PROVE  /\ Without(s, i) \in Seq(S)
         /\ Len(Without(s, i)) = Len(s) - 1
         /\ \A j \in DOMAIN Without(s, i) :
              Without(s, i)[j] = IF j < i THEN s[j] ELSE s[j + 1]
  <1> DEFINE before == SubSeq(s, 1, i - 1)
             after  == SubSeq(s, i + 1, Len(s))
  <1>1. i \in 1..Len(s) /\ Len(s) \in Nat
    OBVIOUS
  <1>2. /\ before \in Seq(S) /\ Len(before) = i - 1
        /\ \A j \in 1..(i - 1) : before[j] = s[j]
    BY <1>1
  <1>3. /\ after \in Seq(S) /\ Len(after) = Len(s) - i
        /\ \A j \in 1..(Len(s) - i) : after[j] = s[i + j]
    BY <1>1
  <1>4. Without(s, i) = before \o after
    BY DEF Without
  <1> HIDE DEF before, after
  <1>5. Without(s, i) \in Seq(S) /\ Len(Without(s, i)) = Len(s) - 1
    BY <1>1, <1>2, <1>3, <1>4
  <1>6. ASSUME NEW j \in DOMAIN Without(s, i)
        PROVE  Without(s, i)[j] = IF j < i THEN s[j] ELSE s[j + 1]
    <2>1. j \in 1..(Len(s) - 1)
      BY <1>5
    <2>2. CASE j < i
      BY <2>1, <2>2, <1>1, <1>2, <1>3, <1>4
    <2>3. CASE j >= i
      <3>1. Without(s, i)[j] = after[j - (i - 1)]
        BY <2>1, <2>3, <1>1, <1>2, <1>3, <1>4
      <3>2. j - (i - 1) \in 1..(Len(s) - i) /\ i + (j - (i - 1)) = j + 1
        BY <2>1, <2>3, <1>1
      <3>3. after[j - (i - 1)] = s[i + (j - (i - 1))]
        BY <3>2, <1>3
      <3>4. ~(j < i)
        BY <2>1, <2>3, <1>1
      <3>5. QED
        BY <3>1, <3>2, <3>3, <3>4
    <2>4. QED
      BY <2>1, <2>2, <2>3, <1>1
  <1>7. QED
    BY <1>5, <1>6

\* No row is doubled by removing one.
LEMMA WithoutDistinct ==
  ASSUME NEW s \in Seq(Row), NEW i \in DOMAIN s, Distinct(s)
  PROVE  /\ Without(s, i) \in Seq(Row)
         /\ Distinct(Without(s, i))
         /\ \A j \in DOMAIN Without(s, i) : Without(s, i)[j].id # s[i].id
  <1> DEFINE w == Without(s, i)
             Old(j) == IF j < i THEN j ELSE j + 1
  <1>1. w \in Seq(Row) /\ Len(w) = Len(s) - 1
    BY WithoutEntries
  <1>2. DOMAIN w = 1..(Len(s) - 1) /\ DOMAIN s = 1..Len(s) /\ Len(s) \in Nat
    BY <1>1
  <1>3. \A j \in DOMAIN w : /\ Old(j) \in DOMAIN s
                            /\ w[j] = s[Old(j)]
                            /\ Old(j) # i
    <2> TAKE j \in DOMAIN w
    <2>1. w[j] = IF j < i THEN s[j] ELSE s[j + 1]
      BY WithoutEntries
    <2>2. QED
      BY <1>2, <2>1
  <1>4. \A j, k \in DOMAIN w : Old(j) = Old(k) => j = k
    BY <1>2
  <1>5. Distinct(w)
    <2> SUFFICES ASSUME NEW j \in DOMAIN w, NEW k \in DOMAIN w, w[j].id = w[k].id
                 PROVE  j = k
      BY DEF Distinct
    <2> HIDE DEF w, Old
    <2>1. Old(j) = Old(k)
      BY <1>3 DEF Distinct
    <2>2. QED
      BY <2>1, <1>4
  <1>6. \A j \in DOMAIN w : w[j].id # s[i].id
    <2> HIDE DEF w, Old
    <2>1. QED
      BY <1>3 DEF Distinct
  <1>7. QED
    BY <1>1, <1>5, <1>6

\* delete(): a view of distinct documents, without the one deleted.
LEMMA DeletedView ==
  ASSUME NEW d, collection \in Seq(Row), Distinct(collection)
  PROVE  /\ Deleted(d) \in Seq(Row)
         /\ Distinct(Deleted(d))
         /\ \A j \in DOMAIN Deleted(d) : Deleted(d)[j].id # d
  <1>1. CASE d \in {r.id : r \in Elements(collection)}
    <2> DEFINE i == CHOOSE i \in DOMAIN collection : collection[i].id = d
    <2>1. i \in DOMAIN collection /\ collection[i].id = d
      BY <1>1 DEF Elements
    <2>2. Deleted(d) = Without(collection, i)
      BY <1>1 DEF Deleted
    <2> HIDE DEF i
    <2>3. QED
      BY <2>1, <2>2, WithoutDistinct
  <1>2. CASE d \notin {r.id : r \in Elements(collection)}
    BY <1>2 DEF Deleted, Elements
  <1>3. QED
    BY <1>1, <1>2

\* setData: a view of distinct documents.
LEMMA PutView ==
  ASSUME NEW d \in Ids, NEW name \in Names, collection \in Seq(Row), Distinct(collection)
  PROVE  Put(d, name) \in Seq(Row) /\ Distinct(Put(d, name))
  <1> DEFINE rest == Deleted(d)
             row  == [id |-> d, name |-> name]
             p    == <<row>> \o rest
  <1>1. rest \in Seq(Row) /\ Distinct(rest) /\ \A j \in DOMAIN rest : rest[j].id # d
    BY DeletedView
  <1>2. row \in Row /\ row.id = d
    BY DEF Row
  <1> HIDE DEF rest, row
  <1>3. /\ p \in Seq(Row)
        /\ DOMAIN p = 1..(Len(rest) + 1)
        /\ DOMAIN rest = 1..Len(rest) /\ Len(rest) \in Nat
        /\ \A j \in DOMAIN p : p[j] = IF j = 1 THEN row ELSE rest[j - 1]
    BY <1>1, <1>2
  <1>4. Distinct(p)
    <2> SUFFICES ASSUME NEW j \in DOMAIN p, NEW k \in DOMAIN p, p[j].id = p[k].id
                 PROVE  j = k
      BY DEF Distinct
    <2>1. p[j] = (IF j = 1 THEN row ELSE rest[j - 1]) /\ p[k] = (IF k = 1 THEN row ELSE rest[k - 1])
      BY <1>3
    <2>2. \A n \in 2..(Len(rest) + 1) : n - 1 \in DOMAIN rest
      BY <1>3
    <2> HIDE DEF p
    <2>3. CASE j = 1 /\ k = 1
      BY <2>3
    <2>4. CASE j = 1 /\ k # 1
      BY <2>4, <2>1, <2>2, <1>1, <1>2, <1>3
    <2>5. CASE j # 1 /\ k = 1
      BY <2>5, <2>1, <2>2, <1>1, <1>2, <1>3
    <2>6. CASE j # 1 /\ k # 1
      <3>1. j - 1 \in DOMAIN rest /\ k - 1 \in DOMAIN rest
        BY <2>6, <2>2, <1>3
      <3>2. rest[j - 1].id = rest[k - 1].id
        BY <2>6, <2>1
      <3>3. j - 1 = k - 1
        BY <3>1, <3>2, <1>1 DEF Distinct
      <3>4. QED
        BY <3>3, <1>3
    <2>7. QED
      BY <2>3, <2>4, <2>5, <2>6
  <1>5. Put(d, name) = p
    BY DEF Put, rest, row, p
  <1>6. QED
    BY <1>3, <1>4, <1>5

-----------------------------------------------------------------------------
(* A change of the view reaches every listener, whatever the array held.    *)

\* The callbacks Firestore queues for its listeners.
LEMMA EmitEvents ==
  ASSUME TypeOK, NEW rows \in Seq(Row), Emit(rows)
  PROVE  /\ events' \in Seq(Event)
         /\ Len(events') = Len(events) + Len(listeners)
         /\ \A k \in DOMAIN events' :
              events'[k] = IF k =< Len(events) THEN events[k]
                           ELSE Snapshot(listeners[k - Len(events)], rows)
  <1> DEFINE new == [i \in DOMAIN listeners |-> Snapshot(listeners[i], rows)]
  <1>1. events \in Seq(Event) /\ listeners \in Seq(Listener)
    BY DEF TypeOK, Event
  <1>2. \A i \in DOMAIN listeners : Snapshot(listeners[i], rows) \in Event
    BY <1>1 DEF Snapshot, Event
  <1>3. new \in Seq(Event) /\ Len(new) = Len(listeners)
    BY <1>1, <1>2
  <1>4. \A i \in 1..Len(listeners) : new[i] = Snapshot(listeners[i], rows)
    BY <1>1
  <1>5. events' = events \o new
    BY DEF Emit
  <1> HIDE DEF new
  <1>6. /\ events' \in Seq(Event)
        /\ Len(events') = Len(events) + Len(listeners)
        /\ \A k \in 1..(Len(events) + Len(listeners)) :
             events'[k] = IF k =< Len(events) THEN events[k] ELSE new[k - Len(events)]
    <2>1. /\ events \o new \in Seq(Event)
          /\ Len(events \o new) = Len(events) + Len(new)
          /\ \A k \in 1..(Len(events) + Len(new)) :
               (events \o new)[k] = IF k =< Len(events) THEN events[k] ELSE new[k - Len(events)]
      BY <1>1, <1>3, ConcatProperties
    <2>2. QED
      BY <2>1, <1>3, <1>5, Zenon
  <1>7. ASSUME NEW k \in DOMAIN events'
        PROVE  events'[k] = IF k =< Len(events) THEN events[k]
                            ELSE Snapshot(listeners[k - Len(events)], rows)
    <2>1. k \in 1..(Len(events) + Len(listeners)) /\ Len(events) \in Nat /\ Len(listeners) \in Nat
      BY <1>1, <1>6
    <2>2. k > Len(events) => k - Len(events) \in 1..Len(listeners)
      BY <2>1
    <2>3. QED
      BY <2>1, <2>2, <1>4, <1>6
  <1>8. QED
    BY <1>6, <1>7

\* They bring the array and every table in step.
LEMMA EmitInStep ==
  ASSUME TypeOK, NEW rows \in Seq(Row), Emit(rows), UNCHANGED listeners
  PROVE  InStep'
  <1> SUFFICES ASSUME ~aside'
               PROVE  /\ ArrayInStep'
                      /\ \A v \in Elements(listeners) \ {AppLaunch} : TableInStep(v)'
    BY DEF InStep
  <1>1. collection' = rows /\ listeners # <<>>
    BY DEF Emit
  <1>2. /\ listeners \in Seq(Listener) /\ Len(listeners) \in Nat /\ Len(events) \in Nat
        /\ DOMAIN listeners = 1..Len(listeners) /\ Len(listeners) > 0
    <2>1. listeners \in Seq(Listener) /\ events \in Seq(Event)
      BY DEF TypeOK, Event
    <2>2. QED
      BY <1>1, <2>1, EmptySeq
  <1>3. /\ events' \in Seq(Event)
        /\ Len(events') = Len(events) + Len(listeners)
        /\ DOMAIN events' = 1..(Len(events) + Len(listeners))
        /\ \A k \in DOMAIN events' :
             events'[k] = IF k =< Len(events) THEN events[k]
                          ELSE Snapshot(listeners[k - Len(events)], rows)
    BY EmitEvents, <1>2
  <1>4. ASSUME NEW i \in DOMAIN listeners
        PROVE  /\ Len(events) + i \in DOMAIN events'
               /\ events'[Len(events) + i] = Snapshot(listeners[i], rows)
    <2> DEFINE k == Len(events) + i
    <2>1. k \in 1..(Len(events) + Len(listeners)) /\ ~(k =< Len(events)) /\ k - Len(events) = i
      BY <1>2
    <2> HIDE DEF k
    <2>2. k \in DOMAIN events' /\ events'[k] = Snapshot(listeners[i], rows)
      BY <2>1, <1>3
    <2>3. QED
      BY <2>2 DEF k
  <1>5. \A k \in DOMAIN events' : k > Len(events) => ~events'[k].error /\ events'[k].rows = rows
    BY <1>3 DEF Snapshot
  <1>6. ArrayInStep'
    <2>1. Len(events') \in DOMAIN events' /\ Len(events') > Len(events) /\ events' # <<>>
      BY <1>2, <1>3
    <2>2. QED
      BY <2>1, <1>1, <1>5 DEF ArrayInStep
  <1>7. ASSUME NEW v \in Elements(listeners) \ {AppLaunch}
        PROVE  TableInStep(v)'
    <2>1. PICK i \in DOMAIN listeners : listeners[i] = v
      BY DEF Elements
    <2>2. Len(events) + i \in DOMAIN events' /\ events'[Len(events) + i] = Snapshot(v, rows)
      BY <1>4, <2>1
    <2> Snapshot(v, rows).to = v
      BY DEF Snapshot
    <2>3. \A j \in DOMAIN events' : j >= Len(events) + i => ~events'[j].error /\ events'[j].rows = collection'
      BY <1>1, <1>2, <1>3, <1>5
    <2>4. QED
      BY <2>2, <2>3 DEF TableInStep
  <1>8. QED
    BY <1>6, <1>7

\* They carry no document twice.
LEMMA EmitDistinct ==
  ASSUME TypeOK, NEW rows \in Seq(Row), Distinct(rows), Emit(rows),
         \A k \in DOMAIN events : Distinct(events[k].rows)
  PROVE  Distinct(collection)' /\ \A k \in DOMAIN events' : Distinct(events'[k].rows)
  <1>1. collection' = rows
    BY DEF Emit
  <1>2. \A k \in DOMAIN events' :
         events'[k].rows = rows \/ (k \in DOMAIN events /\ events'[k] = events[k])
    <2> TAKE k \in DOMAIN events'
    <2>1. events'[k] = IF k =< Len(events) THEN events[k]
                       ELSE Snapshot(listeners[k - Len(events)], rows)
      BY EmitEvents
    <2>2. k =< Len(events) => k \in DOMAIN events
      BY EmitEvents DEF TypeOK
    <2>3. QED
      BY <2>1, <2>2 DEF Snapshot
  <1>3. QED
    BY <1>1, <1>2 DEF Distinct

-----------------------------------------------------------------------------
(* The steps.                                                               *)

\* The controllers among the listeners.
LEMMA ListensIsController ==
  ASSUME TypeOK, NEW v \in Elements(listeners) \ {AppLaunch}
  PROVE  v \in Controllers
  BY DEF TypeOK, Elements, Listener

\* A change of the view that leaves the app alone keeps the invariant.
LEMMA EmitInv ==
  ASSUME CategoriesInv, NEW rows \in Seq(Row), Distinct(rows), Emit(rows),
         UNCHANGED <<listeners, categories, tables, front, crashed, opened, removed>>
  PROVE  CategoriesInv'
  <1> USE DEF CategoriesInv
  <1>1. TypeOK'
    <2>1. events' \in Seq(Event)
      BY EmitEvents
    <2>2. QED
      BY <2>1 DEF TypeOK, Event, Emit
  <1>2. DistinctInv'
    BY EmitDistinct DEF DistinctInv, Distinct
  <1>3. FrontInv'
    BY DEF FrontInv, Emit, Elements
  <1>4. InStep'
    BY EmitInStep
  <1>5. QED
    BY <1>1, <1>2, <1>3, <1>4

LEMMA OtherDeviceInv ==
  ASSUME CategoriesInv, OtherDevice
  PROVE  CategoriesInv'
  <1> USE DEF CategoriesInv
  <1>1. collection \in Seq(Row) /\ Distinct(collection)
    BY DEF TypeOK, DistinctInv
  <1>2. PICK d \in Others : \/ \E name \in Names : Emit(Put(d, name))
                            \/ Deleted(d) # collection /\ Emit(Deleted(d))
    BY DEF OtherDevice
  <1>3. UNCHANGED <<listeners, categories, tables, front, crashed, opened, removed>>
    BY DEF OtherDevice
  <1>4. ASSUME NEW name \in Names, Emit(Put(d, name))
        PROVE  CategoriesInv'
    BY <1>1, <1>3, <1>4, PutView, EmitInv DEF Ids
  <1>5. ASSUME Emit(Deleted(d))
        PROVE  CategoriesInv'
    BY <1>1, <1>3, <1>5, DeletedView, EmitInv
  <1>6. QED
    BY <1>2, <1>4, <1>5

LEMMA AddCategoryInv ==
  ASSUME CategoriesInv, NEW name \in Names, AddCategory(name)
  PROVE  CategoriesInv'
  <1> USE DEF CategoriesInv
  <1>1. collection \in Seq(Row) /\ Distinct(collection)
    BY DEF TypeOK, DistinctInv
  <1>2. CategoryID(front) \in Ids
    BY DEF AddCategory, CategoryID, Ids, TypeOK
  <1>3. /\ Emit(Put(CategoryID(front), name))
        /\ UNCHANGED <<listeners, categories, tables, front, crashed, opened, removed>>
    BY DEF AddCategory
  <1>4. QED
    BY <1>1, <1>2, <1>3, PutView, EmitInv

LEMMA ListenFailsInv ==
  ASSUME CategoriesInv, ListenFails
  PROVE  CategoriesInv'
  <1> USE DEF CategoriesInv
  <1> DEFINE new == [i \in DOMAIN listeners |-> Failure(listeners[i])]
  <1>1. events \in Seq(Event) /\ listeners \in Seq(Listener)
    BY DEF TypeOK, Event
  <1>2. \A l \in Listener : Failure(l) \in Event /\ Failure(l).rows = <<>>
    BY DEF Failure, Event
  <1>3. /\ new \in Seq(Event) /\ Len(new) \in Nat
        /\ \A i \in 1..Len(new) : new[i].rows = <<>>
    BY <1>1, <1>2
  <1>4. events' = events \o new
    BY DEF ListenFails
  <1> HIDE DEF new
  <1>5. /\ events' \in Seq(Event)
        /\ DOMAIN events' = 1..(Len(events) + Len(new))
        /\ \A k \in 1..(Len(events) + Len(new)) :
             events'[k] = IF k =< Len(events) THEN events[k] ELSE new[k - Len(events)]
    <2>1. /\ events \o new \in Seq(Event)
          /\ Len(events \o new) = Len(events) + Len(new)
          /\ \A k \in 1..(Len(events) + Len(new)) :
               (events \o new)[k] = IF k =< Len(events) THEN events[k] ELSE new[k - Len(events)]
      BY <1>1, <1>3, ConcatProperties
    <2>2. DOMAIN (events \o new) = 1..(Len(events) + Len(new))
      BY <2>1
    <2>3. QED
      BY <2>1, <2>2, <1>4, Zenon
  <1>6. TypeOK'
    BY <1>5 DEF TypeOK, Event, ListenFails
  <1>7. DistinctInv'
    <2>1. \A k \in DOMAIN events' : Distinct(events'[k].rows)
      <3> TAKE k \in DOMAIN events'
      <3>1. CASE k =< Len(events)
        BY <3>1, <1>1, <1>5 DEF DistinctInv
      <3>2. CASE k > Len(events)
        <4>1. k - Len(events) \in 1..Len(new) /\ ~(k =< Len(events))
          BY <3>2, <1>1, <1>3, <1>5
        <4>2. events'[k].rows = <<>>
          BY <4>1, <1>3, <1>5
        <4>3. QED
          BY <4>2 DEF Distinct
      <3>3. QED
        BY <3>1, <3>2, <1>1, <1>5
    <2>2. QED
      BY <2>1 DEF DistinctInv, Distinct, ListenFails
  <1>8. FrontInv' /\ InStep'
    BY DEF FrontInv, InStep, ListenFails
  <1>9. QED
    BY <1>6, <1>7, <1>8

LEMMA ListenerCallbackInv ==
  ASSUME CategoriesInv, ListenerCallback
  PROVE  CategoriesInv'
  <1> USE DEF CategoriesInv
  <1> DEFINE event == events[1]
  <1>1. /\ events \in Seq(Event) /\ events # <<>> /\ tables \in [Controllers -> Seq(Row)]
        /\ events' = Tail(events) /\ Head(events) = event
    BY DEF TypeOK, Event, ListenerCallback
  <1>2. /\ Len(events) \in Nat /\ Len(events) >= 1 /\ DOMAIN events = 1..Len(events)
        /\ events' \in Seq(Event)
        /\ DOMAIN events' = 1..(Len(events) - 1) /\ Len(events') = Len(events) - 1
        /\ \A k \in 1..(Len(events) - 1) : events'[k] = events[k + 1]
    BY <1>1, EmptySeq, HeadTailProperties
  <1>3. event \in Event
    BY <1>1, <1>2, ElementOfSeq
  <1>4. categories' = Refilled(event) /\ tables' = Reloaded(event)
    BY <1>1 DEF ListenerCallback
  <1>5. UNCHANGED <<collection, listeners, front, crashed, opened, aside, removed>>
    BY DEF ListenerCallback
  <1>6. Refilled(event) \in Seq(Row) /\ Reloaded(event) \in [Controllers -> Seq(Row)]
    BY <1>1, <1>3 DEF Refilled, Reloaded, Event, Listener
  <1> HIDE DEF event
  <1>7. TypeOK'
    BY <1>2, <1>4, <1>5, <1>6 DEF TypeOK, Event
  <1>8. DistinctInv'
    <2>1. Distinct(events[1].rows) /\ Distinct(<<>>)
      BY <1>2 DEF DistinctInv, Distinct
    <2>2. Distinct(categories')
      <3>1. categories' = <<>> \/ categories' = events[1].rows
        BY <1>4 DEF Refilled, event
      <3>2. QED
        BY <2>1, <3>1
    <2>3. \A k \in DOMAIN events' : Distinct(events'[k].rows)
      <3> TAKE k \in DOMAIN events'
      <3>1. k + 1 \in DOMAIN events /\ events'[k] = events[k + 1]
        BY <1>2
      <3>2. QED
        BY <3>1 DEF DistinctInv
    <2>4. QED
      BY <2>2, <2>3, <1>5 DEF DistinctInv, Distinct
  <1>9. FrontInv'
    BY <1>5 DEF FrontInv, Elements
  <1>10. InStep'
    <2> SUFFICES ASSUME ~aside
                 PROVE  /\ ArrayInStep'
                        /\ \A v \in Elements(listeners) \ {AppLaunch} : TableInStep(v)'
      BY <1>5 DEF InStep, Elements
    <2>1. ArrayInStep /\ \A v \in Elements(listeners) \ {AppLaunch} : TableInStep(v)
      BY DEF InStep
    <2>2. ~events[Len(events)].error /\ events[Len(events)].rows = collection
      BY <2>1, <1>1 DEF ArrayInStep
    <2>3. CASE Len(events) = 1
      <3>1. events' = <<>>
        BY <2>3, <1>2
      <3>2. categories' = collection
        BY <2>2, <2>3, <1>4 DEF Refilled, event
      <3>3. QED
        <4>1. ArrayInStep'
          BY <3>1, <3>2, <1>5 DEF ArrayInStep
        <4>2. ASSUME NEW v \in Elements(listeners) \ {AppLaunch}
              PROVE  TableInStep(v)'
          <5>1. v \in Controllers /\ TableInStep(v)
            BY <2>1, ListensIsController
          <5>2. CASE event.to = v
            <6>1. tables'[v] = collection
              BY <5>1, <5>2, <2>2, <2>3, <1>1, <1>4 DEF Reloaded, Refilled, event
            <6>2. QED
              BY <6>1, <3>1, <1>5 DEF TableInStep
          <5>3. CASE event.to # v
            <6>1. tables[v] = collection
              BY <5>1, <5>3, <2>3, <1>2 DEF TableInStep, event
            <6>2. tables'[v] = tables[v]
              BY <5>1, <5>3, <1>1, <1>4 DEF Reloaded
            <6>3. QED
              BY <6>1, <6>2, <3>1, <1>5 DEF TableInStep
          <5>4. QED
            BY <5>2, <5>3
        <4>3. QED
          BY <4>1, <4>2
    <2>4. CASE Len(events) > 1
      <3>1. ArrayInStep'
        <4>1. /\ Len(events) - 1 \in 1..(Len(events) - 1)
              /\ (Len(events) - 1) + 1 = Len(events)
          BY <2>4, <1>2
        <4>2. events'[Len(events')] = events[Len(events)]
          BY <4>1, <1>2
        <4>3. QED
          BY <4>2, <2>2, <2>4, <1>2, <1>5 DEF ArrayInStep
      <3>2. ASSUME NEW v \in Elements(listeners) \ {AppLaunch}
            PROVE  TableInStep(v)'
        <4>1. v \in Controllers /\ TableInStep(v)
          BY <2>1, ListensIsController
        <4>2. \A j \in DOMAIN events' : j + 1 \in DOMAIN events /\ events'[j] = events[j + 1]
          BY <1>2
        <4>3. \A k \in DOMAIN events : k = 1 \/ (k - 1 \in DOMAIN events' /\ events'[k - 1] = events[k])
          BY <1>2
        <4>4. CASE \E k \in DOMAIN events : k # 1 /\ events[k].to = v /\
                     \A j \in DOMAIN events :
                       j >= k /\ events[j].to = v => ~events[j].error /\ events[j].rows = collection
          <5>1. PICK k \in DOMAIN events : k # 1 /\ events[k].to = v /\
                     \A j \in DOMAIN events :
                       j >= k /\ events[j].to = v => ~events[j].error /\ events[j].rows = collection
            BY <4>4
          <5>2. k - 1 \in DOMAIN events' /\ events'[k - 1].to = v
            BY <5>1, <4>3
          <5>3. \A j \in DOMAIN events' :
                  j >= k - 1 /\ events'[j].to = v => ~events'[j].error /\ events'[j].rows = collection'
            <6> TAKE j \in DOMAIN events'
            <6>1. j >= k - 1 => j + 1 >= k
              BY <1>2
            <6>2. QED
              BY <6>1, <5>1, <4>2, <1>5
          <5>4. QED
            BY <5>2, <5>3 DEF TableInStep
        <4>5. CASE /\ events[1].to = v
                   /\ \A j \in DOMAIN events :
                        j >= 1 /\ events[j].to = v => ~events[j].error /\ events[j].rows = collection
          <5>1. tables'[v] = collection
            BY <4>1, <4>5, <1>1, <1>2, <1>4 DEF Reloaded, Refilled, event
          <5>2. CASE \A k \in DOMAIN events' : events'[k].to # v
            BY <5>1, <5>2, <1>5 DEF TableInStep
          <5>3. CASE \E k \in DOMAIN events' : events'[k].to = v
            <6>1. PICK k \in DOMAIN events' : events'[k].to = v
              BY <5>3
            <6>2. \A j \in DOMAIN events' :
                    events'[j].to = v => ~events'[j].error /\ events'[j].rows = collection'
              BY <4>2, <4>5, <1>2, <1>5
            <6>3. QED
              BY <6>1, <6>2 DEF TableInStep
          <5>4. QED
            BY <5>2, <5>3
        <4>6. CASE (\A k \in DOMAIN events : events[k].to # v) /\ tables[v] = collection
          <5>1. event.to # v
            BY <4>6, <1>2 DEF event
          <5>2. tables'[v] = tables[v]
            BY <4>1, <5>1, <1>1, <1>4 DEF Reloaded
          <5>3. \A k \in DOMAIN events' : events'[k].to # v
            BY <4>2, <4>6
          <5>4. QED
            BY <5>2, <5>3, <4>6, <1>5 DEF TableInStep
        <4>7. QED
          BY <4>1, <4>4, <4>5, <4>6 DEF TableInStep
      <3>3. QED
        BY <3>1, <3>2
    <2>5. QED
      BY <2>3, <2>4, <1>2
  <1>11. QED
    BY <1>7, <1>8, <1>9, <1>10

LEMMA OpenHomeInv ==
  ASSUME CategoriesInv, NEW v \in Controllers, OpenHome(v)
  PROVE  CategoriesInv'
  <1> USE DEF CategoriesInv
  <1> DEFINE last == Snapshot(v, collection)
  <1>1. /\ events \in Seq(Event) /\ listeners \in Seq(Listener)
        /\ tables \in [Controllers -> Seq(Row)]
        /\ collection \in Seq(Row) /\ categories \in Seq(Row)
        /\ front \in Controllers \cup {NoController}
    BY DEF TypeOK, Event
  <1>2. last \in Event /\ v \in Listener
    BY <1>1 DEF Snapshot, Event, Listener
  <1>3. last.to = v /\ ~last.error /\ last.rows = collection
    BY DEF Snapshot
  <1>4. /\ events' = Append(events, last)
        /\ listeners' = Append(listeners, v)
        /\ tables' = [tables EXCEPT ![v] = categories]
        /\ front' = v
        /\ UNCHANGED <<collection, categories, crashed, aside, removed>>
    BY DEF OpenHome
  <1> HIDE DEF last
  <1>5. /\ events' \in Seq(Event) /\ events' # <<>>
        /\ Len(events') = Len(events) + 1
        /\ DOMAIN events' = 1..(Len(events) + 1)
        /\ \A k \in 1..Len(events) : events'[k] = events[k]
        /\ events'[Len(events) + 1] = last
        /\ DOMAIN events = 1..Len(events) /\ Len(events) \in Nat
    BY <1>1, <1>2, <1>4, AppendProperties
  <1>6. /\ listeners' \in Seq(Listener) /\ listeners' # <<>>
        /\ Elements(listeners)' = Elements(listeners) \cup {v}
    <2>1. /\ listeners' \in Seq(Listener) /\ listeners' # <<>>
          /\ DOMAIN listeners' = 1..(Len(listeners) + 1)
          /\ \A k \in 1..Len(listeners) : listeners'[k] = listeners[k]
          /\ listeners'[Len(listeners) + 1] = v
          /\ DOMAIN listeners = 1..Len(listeners) /\ Len(listeners) \in Nat
      <3> DEFINE longer == Append(listeners, v)
      <3>1. /\ longer \in Seq(Listener) /\ longer # <<>>
            /\ Len(longer) = Len(listeners) + 1
            /\ \A k \in 1..Len(listeners) : longer[k] = listeners[k]
            /\ longer[Len(listeners) + 1] = v
        <4>1. listeners \in Seq(Listener) /\ v \in Listener
          BY <1>1, <1>2
        <4>2. longer \in Seq(Listener) /\ longer # <<>> /\ Len(longer) = Len(listeners) + 1
          BY <4>1, AppendProperties
        <4>3. /\ \A k \in 1..Len(listeners) : longer[k] = listeners[k]
              /\ longer[Len(listeners) + 1] = v
          BY <4>1, AppendProperties
        <4>4. QED
          BY <4>2, <4>3
      <3>2. DOMAIN longer = 1..(Len(listeners) + 1) /\ DOMAIN listeners = 1..Len(listeners)
            /\ Len(listeners) \in Nat
        BY <1>1, <3>1
      <3> HIDE DEF longer
      <3>3. listeners' = longer
        BY <1>4 DEF longer
      <3>4. QED
        BY <3>1, <3>2, <3>3
    <2>2. \A k \in DOMAIN listeners' : k \in DOMAIN listeners \/ k = Len(listeners) + 1
      BY <2>1
    <2>3. DOMAIN listeners \subseteq DOMAIN listeners' /\ Len(listeners) + 1 \in DOMAIN listeners'
      BY <2>1
    <2>4. QED
      BY <2>1, <2>2, <2>3 DEF Elements
  <1>7. TypeOK'
    BY <1>1, <1>4, <1>5, <1>6 DEF TypeOK, Event, OpenHome
  <1>8. DistinctInv'
    <2>1. \A k \in DOMAIN events' : Distinct(events'[k].rows)
      <3> TAKE k \in DOMAIN events'
      <3>1. k \in 1..Len(events) \/ k = Len(events) + 1
        BY <1>5
      <3>2. QED
        BY <3>1, <1>3, <1>5 DEF DistinctInv
    <2>2. QED
      BY <2>1, <1>4 DEF DistinctInv, Distinct
  <1>9. FrontInv'
    BY <1>4, <1>6 DEF FrontInv
  <1>10. InStep'
    <2> SUFFICES ASSUME ~aside
                 PROVE  /\ ArrayInStep'
                        /\ \A w \in Elements(listeners)' \ {AppLaunch} : TableInStep(w)'
      BY <1>4 DEF InStep
    <2>1. ArrayInStep'
      BY <1>3, <1>4, <1>5 DEF ArrayInStep
    <2>2. TableInStep(v)'
      <3>1. Len(events) + 1 \in DOMAIN events' /\ \A j \in DOMAIN events' : j >= Len(events) + 1 => j = Len(events) + 1
        BY <1>5
      <3>2. QED
        BY <3>1, <1>3, <1>4, <1>5 DEF TableInStep
    <2>3. ASSUME NEW w \in Elements(listeners) \ {AppLaunch}, w # v
          PROVE  TableInStep(w)'
      <3>1. w \in Controllers /\ TableInStep(w)
        BY <2>3, ListensIsController DEF InStep
      <3>2. \A j \in DOMAIN events' : \/ j \in DOMAIN events /\ events'[j] = events[j]
                                      \/ events'[j].to # w
        <4> TAKE j \in DOMAIN events'
        <4>1. j \in 1..Len(events) \/ j = Len(events) + 1
          BY <1>5
        <4>2. QED
          BY <4>1, <2>3, <1>3, <1>5
      <3>3. DOMAIN events \subseteq DOMAIN events' /\ \A j \in DOMAIN events : events'[j] = events[j]
        BY <1>5
      <3>4. tables'[w] = tables[w]
        BY <3>1, <2>3, <1>1, <1>4
      <3>5. QED
        <4>1. CASE (\A k \in DOMAIN events : events[k].to # w) /\ tables[w] = collection
          <5>1. \A k \in DOMAIN events' : events'[k].to # w
            BY <4>1, <3>2
          <5>2. QED
            BY <5>1, <4>1, <3>4, <1>4 DEF TableInStep
        <4>2. CASE \E k \in DOMAIN events :
                     /\ events[k].to = w
                     /\ \A j \in DOMAIN events :
                          j >= k /\ events[j].to = w => ~events[j].error /\ events[j].rows = collection
          <5>1. PICK k \in DOMAIN events :
                     /\ events[k].to = w
                     /\ \A j \in DOMAIN events :
                          j >= k /\ events[j].to = w => ~events[j].error /\ events[j].rows = collection
            BY <4>2
          <5>2. k \in DOMAIN events' /\ events'[k].to = w
            BY <5>1, <3>3
          <5>3. \A j \in DOMAIN events' :
                  j >= k /\ events'[j].to = w => ~events'[j].error /\ events'[j].rows = collection'
            BY <5>1, <3>2, <1>4
          <5>4. QED
            BY <5>2, <5>3 DEF TableInStep
        <4>3. QED
          BY <4>1, <4>2, <3>1 DEF TableInStep
    <2>4. QED
      BY <2>1, <2>2, <2>3, <1>6
  <1>11. QED
    BY <1>7, <1>8, <1>9, <1>10

LEMMA SwipeDeleteInv ==
  ASSUME CategoriesInv, NEW row, SwipeDelete(row)
  PROVE  CategoriesInv'
  <1> USE DEF CategoriesInv
  <1>1. CASE row > Len(categories) \/ Len(categories) # Len(tables[front])
    <2>1. /\ crashed' = TRUE
          /\ UNCHANGED <<collection, events, categories, tables, aside, removed, listeners,
                         front, opened>>
      BY <1>1, Zenon DEF SwipeDelete
    <2>2. TypeOK'
      BY <2>1 DEF TypeOK
    <2>3. QED
      BY <2>1, <2>2 DEF DistinctInv, Distinct, FrontInv, Elements, InStep, ArrayInStep,
                        TableInStep
  <1>2. CASE ~(row > Len(categories) \/ Len(categories) # Len(tables[front]))
    <2>1. /\ front \in Controllers /\ row \in DOMAIN tables[front]
          /\ categories' = Without(categories, row)
          /\ tables' = [tables EXCEPT ![front] = Without(@, row)]
          /\ removed' = removed \cup {tables[front][row].id}
          /\ UNCHANGED <<crashed, listeners, front, opened>>
      BY <1>2 DEF SwipeDelete, TypeOK
    <2>2. categories \in Seq(Row) /\ tables[front] \in Seq(Row) /\ collection \in Seq(Row)
      BY <2>1 DEF TypeOK
    <2>3. row \in DOMAIN categories
      BY <1>2, <2>1, <2>2
    <2>4. categories' \in Seq(Row) /\ Distinct(categories')
      BY <2>1, <2>2, <2>3, WithoutDistinct DEF DistinctInv
    <2>5. tables' \in [Controllers -> Seq(Row)]
      <3>1. Without(tables[front], row) \in Seq(Row)
        BY <2>1, <2>2, WithoutEntries
      <3>2. QED
        BY <3>1, <2>1 DEF TypeOK
    <2>6. removed' \subseteq Ids
      <3>1. tables[front][row] \in Row
        BY <2>1, <2>2
      <3>2. QED
        BY <3>1, <2>1 DEF TypeOK, Row
    <2>7. FrontInv'
      <3>1. listeners = <<>> => aside'
        BY <1>2 DEF SwipeDelete, Emit
      <3>2. QED
        BY <3>1, <2>1 DEF FrontInv, Elements
    <2>8. CASE Emit(Deleted(CategoryID(front)))
      <3> DEFINE rows == Deleted(CategoryID(front))
      <3>1. rows \in Seq(Row) /\ Distinct(rows)
        BY <2>2, DeletedView DEF DistinctInv
      <3> HIDE DEF rows
      <3>2. Emit(rows)
        BY <2>8 DEF rows
      <3>3. InStep'
        BY <3>1, <3>2, <2>1, EmitInStep
      <3>4. DistinctInv'
        BY <3>1, <3>2, <2>4, EmitDistinct DEF DistinctInv, Distinct
      <3>5. events' \in Seq(Event) /\ collection' \in Seq(Row) /\ aside' \in BOOLEAN
        BY <3>1, <3>2, EmitEvents DEF Emit
      <3>6. TypeOK'
        BY <3>5, <2>1, <2>4, <2>5, <2>6 DEF TypeOK, Event
      <3>7. QED
        BY <3>3, <3>4, <3>6, <2>7
    <2>9. CASE aside' = TRUE /\ UNCHANGED <<collection, events>>
      <3>1. TypeOK'
        BY <2>9, <2>1, <2>4, <2>5, <2>6 DEF TypeOK
      <3>2. DistinctInv'
        BY <2>9, <2>4 DEF DistinctInv, Distinct
      <3>3. InStep'
        BY <2>9 DEF InStep
      <3>4. QED
        BY <3>1, <3>2, <3>3, <2>7
    <2>10. QED
      BY <1>2, <2>8, <2>9 DEF SwipeDelete
  <1>3. QED
    BY <1>1, <1>2

LEMMA SelectRowInv ==
  ASSUME CategoriesInv, NEW row, SelectRow(row)
  PROVE  CategoriesInv'
  BY DEF CategoriesInv, SelectRow, TypeOK, DistinctInv, Distinct, FrontInv, Elements, InStep,
         ArrayInStep, TableInStep

\* At launch one callback waits, with the present view.
LEMMA FreshInv ==
  ASSUME collection \in Seq(Row), Distinct(collection), categories = <<>>,
         events = <<Snapshot(AppLaunch, collection)>>, listeners = <<AppLaunch>>,
         tables = [v \in Controllers |-> <<>>], front = NoController, crashed = FALSE,
         opened \subseteq Controllers, aside = FALSE, removed \subseteq Ids
  PROVE  CategoriesInv
  <1>1. Snapshot(AppLaunch, collection) \in Event
    BY DEF Snapshot, Event, Listener
  <1>2. /\ events \in Seq(Event) /\ events # <<>> /\ Len(events) = 1
        /\ DOMAIN events = {1} /\ events[1] = Snapshot(AppLaunch, collection)
    BY <1>1
  <1>3. Elements(listeners) = {AppLaunch} /\ listeners \in Seq(Listener) /\ listeners # <<>>
    BY DEF Elements, Listener
  <1>4. TypeOK
    <2>1. categories \in Seq(Row) /\ tables \in [Controllers -> Seq(Row)]
      BY EmptySeq
    <2>2. QED
      BY <1>2, <1>3, <2>1 DEF TypeOK, Event
  <1>5. DistinctInv
    BY <1>2 DEF DistinctInv, Distinct, Snapshot
  <1>6. FrontInv
    BY <1>3 DEF FrontInv
  <1>7. InStep
    BY <1>2, <1>3 DEF InStep, ArrayInStep, Snapshot
  <1>8. QED
    BY <1>4, <1>5, <1>6, <1>7 DEF CategoriesInv

LEMMA RelaunchInv ==
  ASSUME CategoriesInv, Relaunch
  PROVE  CategoriesInv'
  <1>1. /\ collection' \in Seq(Row) /\ Distinct(collection)' /\ categories' = <<>>
        /\ events' = <<Snapshot(AppLaunch, collection)'>> /\ listeners' = <<AppLaunch>>
        /\ tables' = [v \in Controllers |-> <<>>] /\ front' = NoController
        /\ crashed' = FALSE /\ opened' \subseteq Controllers /\ aside' = FALSE
        /\ removed' \subseteq Ids
    BY DEF CategoriesInv, Relaunch, TypeOK, DistinctInv, Distinct, Snapshot
  <1>2. Snapshot(AppLaunch, collection)' \in Event'
    BY <1>1 DEF Snapshot, Event, Listener
  <1>3. QED
    <2>1. /\ events' \in Seq(Event)' /\ events' # <<>> /\ Len(events') = 1
          /\ DOMAIN events' = {1} /\ events'[1] = Snapshot(AppLaunch, collection)'
      BY <1>1, <1>2
    <2>2. Elements(listeners)' = {AppLaunch} /\ listeners' \in Seq(Listener) /\ listeners' # <<>>
      BY <1>1 DEF Elements, Listener
    <2>3. TypeOK'
      <3>1. categories' \in Seq(Row) /\ tables' \in [Controllers -> Seq(Row)]
        BY <1>1, EmptySeq
      <3>2. QED
        BY <1>1, <2>1, <2>2, <3>1 DEF TypeOK, Event
    <2>4. DistinctInv'
      BY <1>1, <2>1 DEF DistinctInv, Distinct, Snapshot
    <2>5. FrontInv'
      BY <1>1, <2>2 DEF FrontInv
    <2>6. InStep'
      BY <1>1, <2>1, <2>2 DEF InStep, ArrayInStep, Snapshot
    <2>7. QED
      BY <2>3, <2>4, <2>5, <2>6 DEF CategoriesInv

-----------------------------------------------------------------------------
(* The theorems.                                                            *)

\* The array, the waiting callbacks and the tables stay in step.
THEOREM CategoriesInvariant == Spec => []CategoriesInv
  <1>1. Init => CategoriesInv
    <2> SUFFICES ASSUME Init
                 PROVE  CategoriesInv
      OBVIOUS
    <2>1. collection \in Seq(Row) /\ Distinct(collection)
      <3>1. CASE collection = <<>>
        BY <3>1 DEF Distinct
      <3>2. CASE collection \in {<<[id |-> o, name |-> n]>> : o \in Others, n \in Names}
        <4>1. PICK o \in Others, n \in Names : collection = <<[id |-> o, name |-> n]>>
          BY <3>2
        <4>2. [id |-> o, name |-> n] \in Row
          BY DEF Row, Ids
        <4>3. QED
          BY <4>1, <4>2 DEF Distinct
      <3>3. QED
        BY <3>1, <3>2 DEF Init
    <2>2. QED
      BY <2>1, FreshInv DEF Init
  <1>2. CategoriesInv /\ [Next]_vars => CategoriesInv'
    <2> SUFFICES ASSUME CategoriesInv, [Next]_vars
                 PROVE  CategoriesInv'
      OBVIOUS
    <2>1. CASE OtherDevice
      BY <2>1, OtherDeviceInv
    <2>2. CASE ListenFails
      BY <2>2, ListenFailsInv
    <2>3. CASE ListenerCallback
      BY <2>3, ListenerCallbackInv
    <2>4. CASE Relaunch
      BY <2>4, RelaunchInv
    <2>5. ASSUME NEW v \in Controllers, OpenHome(v)
          PROVE  CategoriesInv'
      BY <2>5, OpenHomeInv
    <2>6. ASSUME NEW name \in Names, AddCategory(name)
          PROVE  CategoriesInv'
      BY <2>6, AddCategoryInv
    <2>7. ASSUME NEW row \in Rows, SwipeDelete(row)
          PROVE  CategoriesInv'
      BY <2>7, SwipeDeleteInv
    <2>8. ASSUME NEW row \in Rows, SelectRow(row)
          PROVE  CategoriesInv'
      BY <2>8, SelectRowInv
    <2>9. CASE UNCHANGED vars
      BY <2>9 DEF vars, CategoriesInv, TypeOK, DistinctInv, Distinct, FrontInv, Elements,
                  InStep, ArrayInStep, TableInStep
    <2>10. QED
      BY <2>1, <2>2, <2>3, <2>4, <2>5, <2>6, <2>7, <2>8, <2>9 DEF Next
  <1>3. QED
    BY <1>1, <1>2, PTL DEF Spec

\* Every state of the list of categories is of its type.
THEOREM CategoriesTypeCorrect == Spec => []TypeOK
  <1>1. CategoriesInv => TypeOK
    BY DEF CategoriesInv
  <1>2. QED
    BY <1>1, CategoriesInvariant, PTL

\* The array never holds a category twice (removeAll before the appends).
THEOREM NoDuplicatesAlways == Spec => []NoDuplicates
  <1>1. CategoriesInv => NoDuplicates
    BY DEF CategoriesInv, DistinctInv, Distinct, NoDuplicates
  <1>2. QED
    BY <1>1, CategoriesInvariant, PTL

\* At rest the array and every listening table show the collection.
LEMMA RestIsInStep ==
  ASSUME CategoriesInv
  PROVE  QuietMeansInStep
  <1> SUFFICES ASSUME events = <<>>, ~aside
               PROVE  /\ categories = collection
                      /\ \A v \in Elements(listeners) \ {AppLaunch} : tables[v] = collection
    BY DEF QuietMeansInStep
  <1>1. categories = collection
    BY DEF CategoriesInv, InStep, ArrayInStep
  <1>2. DOMAIN events = {}
    OBVIOUS
  <1>3. QED
    BY <1>1, <1>2 DEF CategoriesInv, InStep, TableInStep

THEOREM QuietMeansInStepAlways == Spec => []QuietMeansInStep
  BY RestIsInStep, CategoriesInvariant, PTL

\* A tap or a swipe on a list that has come to rest does not trap.
THEOREM TrapsOnlyWhenStaleAlways == Spec => TrapsOnlyWhenStale
  <1>1. ASSUME CategoriesInv, [Next]_vars
        PROVE  [crashed' /\ ~crashed => events # <<>> \/ aside]_vars
    <2> SUFFICES ASSUME Next, crashed', ~crashed, events = <<>>, ~aside
                 PROVE  FALSE
      BY <1>1 DEF vars
    <2>1. /\ categories = collection
          /\ \A v \in Elements(listeners) \ {AppLaunch} : tables[v] = collection
      BY <1>1, RestIsInStep DEF QuietMeansInStep
    <2>2. ASSUME front # NoController
          PROVE  tables[front] = categories
      <3>1. front \in Elements(listeners) /\ front # AppLaunch
        BY <1>1, <2>2, CategoriesAssumption DEF CategoriesInv, TypeOK, FrontInv
      <3>2. QED
        BY <2>1, <3>1
    <2>3. categories \in Seq(Row)
      BY <1>1 DEF CategoriesInv, TypeOK
    <2>4. ASSUME NEW row \in Rows, SwipeDelete(row)
          PROVE  FALSE
      <3>1. front # NoController /\ row \in DOMAIN tables[front]
        BY <2>4 DEF SwipeDelete
      <3>2. ~(row > Len(categories) \/ Len(categories) # Len(tables[front]))
        BY <2>2, <2>3, <3>1
      <3>3. UNCHANGED crashed
        BY <2>4, <3>2, Zenon DEF SwipeDelete
      <3>4. QED
        BY <3>3
    <2>5. ASSUME NEW row \in Rows, SelectRow(row)
          PROVE  FALSE
      <3>1. /\ front # NoController /\ row \in DOMAIN tables[front]
            /\ crashed' = (row > Len(categories))
        BY <2>5, Zenon DEF SelectRow
      <3>2. ~(row > Len(categories))
        BY <2>2, <2>3, <3>1
      <3>3. QED
        BY <3>1, <3>2, Zenon
    <2>6. QED
      BY <2>4, <2>5 DEF Next, OtherDevice, ListenFails, ListenerCallback, Relaunch, OpenHome,
                        AddCategory
  <1>2. QED
    BY <1>1, CategoriesInvariant, PTL DEF Spec, TrapsOnlyWhenStale
=============================================================================
