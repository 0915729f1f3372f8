------------------------- MODULE WarrantyDatesProofs -------------------------
(***************************************************************************)
(* The bar of a row, for all dates and any clock that does not run         *)
(* backwards.  The invariant says where a cell comes from: it is the row   *)
(* of its document on some day that has come.                              *)
(***************************************************************************)
EXTENDS WarrantyDates, TLAPS

\* A cell that is drawn was computed on a day up to today.
CellInv ==
  cell # Blank => /\ document # Unsaved
                  /\ \E day \in Int : day =< today /\ cell = Row(document, day)

\* The inductive invariant.
DatesInv == TypeOK /\ CellInv

\* The row of a document is a cell, on any day.
LEMMA RowIsCell ==
  ASSUME NEW d \in Document, NEW day \in Int
  PROVE  Row(d, day) \in Cell
<1>1. d.purchase \in Int /\ d.expiry \in Int
  BY DatesAssumption DEF Document
<1>2. Parts(d) \in Nat
  BY <1>1 DEF Parts, TotalDays
<1>3. Progress(d, day) \in Nat
  BY <1>1, <1>2 DEF Progress, TotalDays
<1>4. CASE DaysLeft(d, day) > 0
  <2>1. DaysLeft(d, day) \in Nat
    BY <1>1, <1>4 DEF DaysLeft
  <2> QED
    BY <2>1, <1>3, <1>4 DEF Row, Cell
<1>5. CASE ~(DaysLeft(d, day) > 0)
  BY <1>5, <1>2 DEF Row, Cell
<1> QED
  BY <1>4, <1>5

\* A later row of the same document has no shorter bar (DetailVC, lines 131-145).
LEMMA LaterIsLonger ==
  ASSUME NEW d \in Document, NEW early \in Int, NEW late \in Int, early =< late
  PROVE  Row(d, early).bar =< Row(d, late).bar
<1>1. d.purchase \in Int /\ d.expiry \in Int
  BY DatesAssumption DEF Document
<1>2. \A day \in Int : Row(d, day).bar = IF d.expiry - day > 0 THEN Progress(d, day) ELSE Parts(d)
  BY DEF Row, DaysLeft
<1>3. \A day \in Int : d.expiry - day > 0 => Progress(d, day) =< Parts(d)
  BY <1>1 DEF Progress, Parts, TotalDays
<1>4. Progress(d, early) =< Progress(d, late)
  BY <1>1 DEF Progress, Parts, TotalDays
<1>5. Progress(d, early) \in Nat /\ Progress(d, late) \in Nat /\ Parts(d) \in Nat
  BY <1>1 DEF Progress, Parts, TotalDays
<1>6. CASE d.expiry - late > 0
  <2>1. d.expiry - early > 0
    BY <1>1, <1>6
  <2> QED
    BY <2>1, <1>6, <1>2, <1>4
<1>7. CASE ~(d.expiry - late > 0) /\ d.expiry - early > 0
  BY <1>7, <1>2, <1>3
<1>8. CASE ~(d.expiry - early > 0)
  <2>1. ~(d.expiry - late > 0)
    BY <1>1, <1>8
  <2> QED
    BY <2>1, <1>8, <1>2, <1>5
<1> QED
  BY <1>6, <1>7, <1>8

\* The invariant holds at first.
LEMMA DatesInit == Init => DatesInv
<1> SUFFICES ASSUME Init PROVE DatesInv
  OBVIOUS
<1>1. TypeOK
  BY DatesAssumption DEF Init, TypeOK
<1>2. CellInv
  BY DEF Init, CellInv
<1> QED
  BY <1>1, <1>2 DEF DatesInv

\* Every action keeps the invariant.
LEMMA DatesStep == DatesInv /\ [Next]_vars => DatesInv'
<1> SUFFICES ASSUME DatesInv, [Next]_vars PROVE DatesInv'
  OBVIOUS
<1> USE DEF DatesInv
<1>1. ASSUME NEW purchase \in Days, NEW expiry \in Days, Save(purchase, expiry)
      PROVE  DatesInv'
  <2>1. document' \in Document
    BY <1>1 DEF Save, Document, TypeOK
  <2>2. TypeOK'
    BY <1>1, <2>1 DEF Save, TypeOK
  <2>3. CellInv'
    BY <1>1 DEF Save, CellInv
  <2> QED
    BY <2>2, <2>3
<1>2. CASE NewDay
  <2>1. TypeOK'
    BY <1>2 DEF NewDay, TypeOK
  <2>2. \A day \in Int : day =< today => day =< today'
    BY <1>2 DEF NewDay, TypeOK
  <2>3. CellInv'
    BY <1>2, <2>2 DEF NewDay, CellInv
  <2> QED
    BY <2>1, <2>3
<1>3. ASSUME NEW l \in Locales, ChangeLocale(l)
      PROVE  DatesInv'
  BY <1>3 DEF ChangeLocale, TypeOK, CellInv
<1>4. CASE DrawCell
  <2>1. CASE <<document.locale, locale>> \in Reads
    <3>1. document \in Document
      BY <1>4 DEF DrawCell, TypeOK
    <3>2. cell' = Row(document, today)
      BY <1>4, <2>1 DEF DrawCell
    <3>3. cell' \in Cell
      BY <3>1, <3>2, RowIsCell DEF TypeOK
    <3>4. TypeOK'
      BY <1>4, <2>1, <3>3 DEF DrawCell, TypeOK
    <3>5. CellInv'
      BY <1>4, <3>2 DEF DrawCell, CellInv, TypeOK
    <3> QED
      BY <3>4, <3>5
  <2>2. CASE <<document.locale, locale>> \notin Reads
    BY <1>4, <2>2 DEF DrawCell, TypeOK, CellInv
  <2> QED
    BY <2>1, <2>2
<1>5. CASE Relaunch
  BY <1>5 DEF Relaunch, TypeOK, CellInv
<1>6. CASE UNCHANGED vars
  BY <1>6 DEF vars, TypeOK, CellInv
<1> QED
  BY <1>1, <1>2, <1>3, <1>4, <1>5, <1>6 DEF Next

\* The invariant holds always.
LEMMA DatesAlways == Spec => []DatesInv
<1> QED
  BY DatesInit, DatesStep, PTL DEF Spec

\* Whatever integers the dates are, the row drawn is a label and a bar of natural
\* numbers (DetailVC, lines 118-155).
THEOREM DatesTypeCorrect == Spec => []TypeOK
<1>1. DatesInv => TypeOK
  BY DEF DatesInv
<1> QED
  BY <1>1, DatesAlways, PTL

\* Whatever the two dates are, a bar that is redrawn never gets shorter.
THEOREM BarGrowsAlways == Spec => BarGrows
<1>1. DatesInv /\ [Next]_vars => [cell # Blank /\ cell' # Blank => cell.bar =< cell'.bar]_vars
  <2> SUFFICES ASSUME DatesInv, Next, cell # Blank, cell' # Blank
               PROVE  cell.bar =< cell'.bar
    OBVIOUS
  <2>1. document \in Document
    BY DEF DatesInv, TypeOK, CellInv
  <2>2. PICK day \in Int : day =< today /\ cell = Row(document, day)
    BY DEF DatesInv, CellInv
  <2>3. CASE DrawCell /\ <<document.locale, locale>> \in Reads
    <3>1. cell' = Row(document, today)
      BY <2>3 DEF DrawCell
    <3> QED
      BY <3>1, <2>1, <2>2, LaterIsLonger DEF DatesInv, TypeOK
  <2>4. CASE cell' = cell
    <3>1. cell.bar \in Nat
      BY DEF DatesInv, TypeOK, Cell
    <3> QED
      BY <2>4, <3>1
  <2> QED
    BY <2>3, <2>4 DEF Next, Save, NewDay, ChangeLocale, DrawCell, Relaunch
<1> QED
  BY <1>1, DatesAlways, PTL DEF Spec, BarGrows

\* The bar of a row is full if and only if its label says that the warranty has
\* expired, unless the dates are swapped.
THEOREM FullIsExpiredAlways == Spec => []FullIsExpired
<1>1. DatesInv => FullIsExpired
  <2> SUFFICES ASSUME DatesInv, cell # Blank, document.purchase =< document.expiry
               PROVE  cell.bar = Parts(document) <=> cell.label = Expired
    BY DEF FullIsExpired
  <2>1. document.purchase \in Int /\ document.expiry \in Int
    BY DatesAssumption DEF DatesInv, TypeOK, CellInv, Document
  <2>2. PICK day \in Int : cell = Row(document, day)
    BY DEF DatesInv, CellInv
  <2>3. CASE DaysLeft(document, day) > 0
    <3>1. cell.label # Expired /\ cell.bar = Progress(document, day)
      BY <2>1, <2>2, <2>3 DEF Row, Expired, DaysLeft
    <3>2. Progress(document, day) # Parts(document)
      BY <2>1, <2>3 DEF Progress, Parts, TotalDays, DaysLeft
    <3> QED
      BY <3>1, <3>2
  <2>4. CASE ~(DaysLeft(document, day) > 0)
    BY <2>2, <2>4 DEF Row
  <2> QED
    BY <2>3, <2>4
<1> QED
  BY <1>1, DatesAlways, PTL

=============================================================================
