-------------------------- MODULE ProductFormProofs --------------------------
(***************************************************************************)
(* The form, for any arrays the listeners may leave, any days and any      *)
(* number of settings requests.  The picker and the array are two actors:  *)
(* the invariant says what the index the code keeps is worth when the      *)
(* array may have been refilled behind the picker's back.                  *)
(***************************************************************************)
EXTENDS ProductForm, TLAPS

\* Every index the picker may give was once below the length of the array; the
\* index the code keeps is zero until a title was asked for.
PickerInv ==
  /\ pickerRows =< mostRows
  /\ currentIndex < mostRows \/ currentIndex = 0
  /\ currentIndex = asked

\* A selection that was kept is the entry the index names.
SelectionInv ==
  kept => ~crashed /\ InArray(asked) /\ category = categories[asked + 1]

\* Until the expiry wheel is turned the field shows its day, if it shows any, and
\* the last reminder is for it; what is handed over stays in the fields.
ReminderInv ==
  /\ "done" \notin turned => dates["expiry"] \in {wheel["expiry"], Empty}
  /\ told /\ "reminder" \notin turned => wheel["expiry"] - Week \in reminders
  /\ passed # Nothing => passed.dates = dates

FormInv == TypeOK /\ PickerInv /\ SelectionInv /\ ReminderInv /\ TrapsOnlyIfShrunk

\* An array has a length, and its entries are names.
LEMMA ListFacts ==
  ASSUME NEW list \in Lists
  PROVE  /\ Len(list) \in Nat
         /\ list = <<>> <=> Len(list) = 0
         /\ \A i \in Nat : i < Len(list) => list[i + 1] \in Names
<1>1. list \in Seq(Names)
  BY FormAssumption
<1> QED
  BY <1>1

\* The invariant holds when the form comes up.
LEMMA FormInit == Init => FormInv
<1> SUFFICES ASSUME Init PROVE FormInv
  OBVIOUS
<1>1. AtToday \in [Fields -> Days]
  BY FormAssumption DEF AtToday
<1>2. 0 \in 0..MaxRequests
  BY FormAssumption
<1>3. TypeOK
  BY <1>1, <1>2 DEF Init, TypeOK
<1>4. dates["expiry"] = Empty /\ passed = Nothing /\ told = FALSE
  BY DEF Init, Fields
<1>5. ReminderInv
  BY <1>4 DEF ReminderInv
<1>6. PickerInv /\ SelectionInv /\ TrapsOnlyIfShrunk
  BY DEF Init, PickerInv, SelectionInv, TrapsOnlyIfShrunk
<1> QED
  BY <1>3, <1>5, <1>6 DEF FormInv

\* What the picker asks about and where it stops is below the rows it counted.
LEMMA PickerStep ==
  ASSUME FormInv,
         \/ EditCategory \/ ClosePickerView
         \/ \E row \in 0..(pickerRows - 1) : TitleForRow(row) \/ SelectRow(row)
  PROVE  FormInv'
<1> USE DEF FormInv, TypeOK, PickerInv, InArray, calendar, reminding, planning
<1>1. /\ Len(categories) \in Nat /\ (categories = <<>> <=> Len(categories) = 0)
      /\ \A i \in Nat : i < Len(categories) => categories[i + 1] \in Names
  BY ListFacts
<1>2. ASSUME UNCHANGED <<wheel, dates, turned, passed, isOn, requests, reminders, alert, told,
                         authorized, named, categories>>,
             editing' \in Fields \cup {"none", "category"}, category' \in Names \cup {Empty},
             crashed' \in BOOLEAN, kept' \in BOOLEAN, asked' \in Nat, currentIndex' = asked',
             mostRows' \in Nat, pickerRows' \in Nat
      PROVE  TypeOK' /\ ReminderInv'
  BY <1>2 DEF ReminderInv
<1>3. CASE EditCategory
  <2>1. CASE UNCHANGED <<pickerRows, currentIndex, mostRows, asked, kept>>
    <3>1. SelectionInv' /\ PickerInv' /\ TrapsOnlyIfShrunk'
      BY <1>3, <2>1 DEF EditCategory, array, SelectionInv, TrapsOnlyIfShrunk
    <3> QED
      BY <1>2, <1>3, <2>1, <3>1 DEF EditCategory, array
  <2>2. CASE /\ pickerRows' = Len(categories) /\ kept' = FALSE
             /\ mostRows' = IF Len(categories) > mostRows THEN Len(categories) ELSE mostRows
             /\ IF categories = <<>>
                THEN UNCHANGED <<currentIndex, asked>>
                ELSE \E row \in 0..(Len(categories) - 1) :
                       currentIndex' = CurrentIndex(row) /\ asked' = row
    <3>1. /\ asked' \in Nat /\ currentIndex' = asked'
          /\ asked' = asked \/ asked' < Len(categories)
          /\ mostRows' \in Nat /\ mostRows' >= mostRows /\ mostRows' >= Len(categories)
      BY <1>1, <2>2 DEF CurrentIndex
    <3>2. PickerInv'
      BY <1>1, <2>2, <3>1
    <3>3. SelectionInv' /\ TrapsOnlyIfShrunk'
      BY <1>1, <1>3, <2>2 DEF EditCategory, array, Touchable, SelectionInv, TrapsOnlyIfShrunk
    <3> QED
      BY <1>1, <1>2, <1>3, <2>2, <3>1, <3>2, <3>3 DEF EditCategory, array
  <2> QED
    BY <1>3, <2>1, <2>2 DEF EditCategory
<1>4. ASSUME NEW row \in 0..(pickerRows - 1), TitleForRow(row) PROVE FormInv'
  <2>1. row \in Nat /\ row < mostRows /\ currentIndex' = row /\ asked' = row
    BY <1>4 DEF TitleForRow, CurrentIndex
  <2>2. PickerInv' /\ SelectionInv' /\ TrapsOnlyIfShrunk'
    BY <1>1, <1>4, <2>1 DEF TitleForRow, SelectionInv, TrapsOnlyIfShrunk
  <2> QED
    BY <1>2, <1>4, <2>1, <2>2 DEF TitleForRow
<1>5. ASSUME NEW row \in 0..(pickerRows - 1), SelectRow(row) PROVE FormInv'
  <2>1. row \in Nat /\ row < mostRows
    BY <1>5
  <2>2. category' \in Names \cup {Empty}
    BY <1>1, <1>5, <2>1 DEF SelectRow
  <2>3. PickerInv'
    BY <1>5 DEF SelectRow
  <2>4. SelectionInv'
    BY <1>1, <1>5, <2>1 DEF SelectRow, SelectionInv
  <2>5. TrapsOnlyIfShrunk'
    <3>1. /\ crashed' = ~(row < Len(categories)) /\ categories' = categories
          /\ mostRows' = mostRows /\ mostRows \in Nat
      BY <1>5 DEF SelectRow
    <3> QED
      BY <1>1, <2>1, <3>1 DEF TrapsOnlyIfShrunk
  <2> QED
    BY <1>2, <1>5, <2>1, <2>2, <2>3, <2>4, <2>5 DEF SelectRow
<1>6. CASE ClosePickerView
  <2>1. category' \in Names \cup {Empty}
    BY <1>1, <1>6 DEF ClosePickerView
  <2>2. PickerInv' /\ SelectionInv' /\ TrapsOnlyIfShrunk'
    BY <1>1, <1>6 DEF ClosePickerView, SelectionInv, TrapsOnlyIfShrunk
  <2> QED
    BY <1>2, <1>6, <2>1, <2>2 DEF ClosePickerView
<1> QED
  BY <1>3, <1>4, <1>5, <1>6

\* Every step keeps the invariant.
LEMMA FormStep == FormInv /\ [Next]_vars => FormInv'
<1> SUFFICES ASSUME FormInv, [Next]_vars PROVE FormInv'
  OBVIOUS
<1> USE DEF FormInv, TypeOK, array, picker, calendar, reminding, planning
<1>1. CASE UNCHANGED vars
  BY <1>1 DEF vars, PickerInv, SelectionInv, ReminderInv, TrapsOnlyIfShrunk, InArray
<1>2. CASE \/ EditCategory \/ ClosePickerView
           \/ \E row \in 0..(pickerRows - 1) : TitleForRow(row) \/ SelectRow(row)
  BY <1>2, PickerStep
<1>3. ASSUME UNCHANGED <<array, picker>>,
             editing' \in Fields \cup {"none"} \/ editing' = editing
      PROVE  PickerInv' /\ SelectionInv' /\ TrapsOnlyIfShrunk'
  <2>1. PickerInv'
    BY <1>3 DEF PickerInv
  <2>2. SelectionInv' /\ TrapsOnlyIfShrunk'
    BY <1>3 DEF SelectionInv, TrapsOnlyIfShrunk, InArray
  <2> QED
    BY <2>1, <2>2
<1>4. ASSUME UNCHANGED <<wheel, dates, turned, told, reminders, passed>> PROVE ReminderInv'
  BY <1>4 DEF ReminderInv
<1>5. ASSUME UNCHANGED <<array, picker, calendar, reminding, authorized, passed>>,
             named' \in BOOLEAN, editing' \in Fields \cup {"none"}
      PROVE  FormInv'
  <2>1. TypeOK'
    BY <1>5
  <2> QED
    BY <1>3, <1>4, <1>5, <2>1
<1>14. CASE TypeName \/ DismissKeyboard \/ \E f \in Fields : EditDate(f)
  <2>1. CASE TypeName
    BY <1>5, <2>1 DEF TypeName
  <2>2. CASE DismissKeyboard
    BY <1>5, <2>2 DEF DismissKeyboard
  <2>3. CASE \E f \in Fields : EditDate(f)
    BY <1>5, <2>3 DEF EditDate
  <2> QED
    BY <1>14, <2>1, <2>2, <2>3
<1>6. ASSUME NEW day \in Days, TurnWheel(day) PROVE FormInv'
  <2>1. passed = Nothing /\ editing \in Fields /\ wheel' = [wheel EXCEPT ![editing] = day]
    BY <1>6 DEF TurnWheel, Touchable
  <2>2. editing = "expiry" \/ (turned' = turned /\ wheel'["expiry"] = wheel["expiry"])
    BY <1>6, <2>1 DEF TurnWheel, Fields
  <2>3. ReminderInv'
    BY <1>6, <2>1, <2>2 DEF TurnWheel, planning, ReminderInv
  <2>4. turned' \subseteq {"done", "reminder"}
    BY <1>6 DEF TurnWheel
  <2> QED
    BY <1>3, <1>6, <2>1, <2>3, <2>4 DEF TurnWheel
<1>7. CASE DonePressed
  <2>1. passed' = Nothing
    BY <1>7 DEF DonePressed, Touchable
  <2>2. ReminderInv'
    BY <1>7, <2>1 DEF DonePressed, planning, ReminderInv
  <2> QED
    BY <1>3, <1>7, <2>2 DEF DonePressed
<1>8. ASSUME NEW list \in Lists, Refill(list) PROVE FormInv'
  <2>1. TypeOK'
    BY <1>8 DEF Refill
  <2>2. ReminderInv' /\ PickerInv'
    BY <1>8 DEF Refill, ReminderInv, PickerInv
  <2>3. SelectionInv' /\ TrapsOnlyIfShrunk'
    BY <1>8 DEF Refill, SelectionInv, TrapsOnlyIfShrunk
  <2> QED
    BY <2>1, <2>2, <2>3
<1>9. CASE Authorize \/ CloseAlert
  <2>1. CASE Authorize
    BY <1>3, <1>4, <2>1 DEF Authorize
  <2>2. CASE CloseAlert
    BY <1>3, <1>4, <2>2 DEF CloseAlert
  <2> QED
    BY <1>9, <2>1, <2>2
<1>10. CASE SwitchDidChanged
  <2>1. requests' \in 0..MaxRequests /\ isOn' \in BOOLEAN
    BY <1>10, FormAssumption DEF SwitchDidChanged
  <2> QED
    BY <1>3, <1>4, <1>10, <2>1 DEF SwitchDidChanged
<1>11. CASE SettingsKnown
  <2>1. requests' \in 0..MaxRequests
    BY <1>11, FormAssumption DEF SettingsKnown
  <2>2. reminders' \subseteq {d - Week : d \in Days}
    <3>1. wheel["expiry"] \in Days
      BY DEF Fields
    <3>2. reminders' \subseteq reminders \cup {wheel["expiry"] - Week}
      BY <1>11 DEF SettingsKnown
    <3> QED
      BY <3>1, <3>2
  <2>3. alert' \in {"none", "scheduled", "settings"} /\ told' \in BOOLEAN
    BY <1>11 DEF SettingsKnown
  <2>4. ReminderInv'
    <3>1. CASE authorized
      BY <1>11, <3>1 DEF SettingsKnown, ReminderInv
    <3>2. CASE ~authorized
      BY <1>11, <3>2 DEF SettingsKnown, ReminderInv
    <3> QED
      BY <3>1, <3>2
  <2> QED
    BY <1>3, <1>11, <2>1, <2>2, <2>3, <2>4 DEF SettingsKnown
<1>12. CASE ContinueButtonPressed
  <2>1. /\ passed' = [kind |-> "product", dates |-> dates, category |-> category]
        /\ \A f \in Fields : dates[f] # Empty /\ dates[f] \in Days
        /\ category \in Names
    BY <1>12 DEF ContinueButtonPressed, ValidateFields, Texts
  <2>2. dates \in [Fields -> Days]
    BY <2>1
  <2>3. ReminderInv'
    BY <1>12, <2>1, <2>2 DEF ContinueButtonPressed, ReminderInv
  <2> QED
    BY <1>3, <1>12, <2>1, <2>2, <2>3 DEF ContinueButtonPressed
<1>13. CASE Back
  <2>1. ReminderInv'
    BY <1>13 DEF Back, ReminderInv
  <2> QED
    BY <1>3, <1>13, <2>1 DEF Back
<1> QED
  BY <1>1, <1>2, <1>6, <1>7, <1>8, <1>9, <1>10, <1>11, <1>12, <1>13, <1>14 DEF Next

\* The invariant of the form, while it is open.
LEMMA FormInvAlways == Spec => []FormInv
  BY FormInit, FormStep, PTL DEF Spec

\* The fields, the wheels and what is handed over keep their types.
THEOREM FormTypeCorrect == Spec => []TypeOK
<1>1. FormInv => TypeOK
  BY DEF FormInv
<1> QED
  BY <1>1, FormInvAlways, PTL

\* The form traps only when the array is empty or shorter than it once was.
THEOREM TrapsOnlyIfShrunkAlways == Spec => []TrapsOnlyIfShrunk
<1>1. FormInv => TrapsOnlyIfShrunk
  BY DEF FormInv
<1> QED
  BY <1>1, FormInvAlways, PTL

\* Unless the expiry wheel was turned since, the reminder that was announced is
\* for the expiry handed over, for any days and any number of requests.
THEOREM ReminderFitsAlways == Spec => []ReminderFits
<1>1. FormInv => ReminderFits
  <2> SUFFICES ASSUME FormInv, passed # Nothing, told, turned = {}
               PROVE  passed.dates["expiry"] - Week \in reminders
    BY DEF ReminderFits
  <2>1. passed.dates["expiry"] \in Days
    BY DEF FormInv, TypeOK, Fields
  <2>2. passed.dates["expiry"] = wheel["expiry"]
    BY <2>1, FormAssumption DEF FormInv, ReminderInv
  <2> QED
    BY <2>2 DEF FormInv, ReminderInv
<1> QED
  BY <1>1, FormInvAlways, PTL

\* A selection nothing has disturbed is what Done writes.
THEOREM DoneKeepsSelectionAlways == Spec => DoneKeepsSelection
<1>1. ASSUME FormInv, FormInv', [Next]_vars, kept, kept'
      PROVE  category' = category /\ ~crashed'
  <2> USE DEF FormInv, array, picker, calendar, reminding, planning
  <2>1. category = categories[asked + 1]
    BY <1>1 DEF SelectionInv
  <2>2. ~crashed' /\ category' = categories'[asked' + 1]
    BY <1>1 DEF SelectionInv
  <2>3. asked' = asked /\ categories' = categories
    <3>1. ASSUME NEW row \in 0..(pickerRows - 1), TitleForRow(row)
          PROVE  asked' = asked /\ UNCHANGED categories
      BY <1>1, <3>1 DEF TitleForRow, TypeOK
    <3>2. ASSUME NEW row \in 0..(pickerRows - 1), SelectRow(row)
          PROVE  asked' = asked /\ UNCHANGED categories
      BY <1>1, <3>2 DEF SelectRow, TypeOK
    <3>3. CASE EditCategory
      BY <1>1, <3>3 DEF EditCategory
    <3>4. CASE ClosePickerView
      BY <1>1, <3>4 DEF ClosePickerView
    <3>5. ASSUME NEW list \in Lists, Refill(list) PROVE FALSE
      BY <1>1, <3>5 DEF Refill
    <3>6. CASE \/ UNCHANGED vars \/ TypeName \/ DonePressed \/ DismissKeyboard
               \/ \E f \in Fields : EditDate(f)
               \/ \E day \in Days : TurnWheel(day)
               \/ Authorize \/ SwitchDidChanged \/ SettingsKnown \/ CloseAlert
               \/ ContinueButtonPressed \/ Back
      BY <3>6 DEF vars, TypeName, DonePressed, DismissKeyboard, EditDate, TurnWheel, Authorize,
                  SwitchDidChanged, SettingsKnown, CloseAlert, ContinueButtonPressed, Back
    <3> QED
      BY <1>1, <3>1, <3>2, <3>3, <3>4, <3>5, <3>6 DEF Next
  <2> QED
    BY <2>1, <2>2, <2>3
<1> QED
  BY <1>1, FormInvAlways, PTL DEF Spec, DoneKeepsSelection

=============================================================================
