---------------------------- MODULE ProductForm -----------------------------
(***************************************************************************)
(* The form of a product.  AddProductVC has two date fields with a wheel   *)
(* each and one Done for both, a category field with a picker over the     *)
(* array AppDelegate.categories, a switch that plans a reminder, and       *)
(* Continue, which hands the texts of the fields to the camera screen.     *)
(*                                                                         *)
(* The array is refilled by Firestore's listeners behind the picker's      *)
(* back; the picker asks for the titles of rows as it needs them, and the  *)
(* code takes the row it asked for last for the one that is selected.      *)
(***************************************************************************)
EXTENDS Integers, Sequences

CONSTANTS Lists,    \* the arrays of category names the listeners may leave
          Names,    \* the category names in them
          Days,     \* the days the wheels offer
          Today,    \* where both wheels stand at first
          MaxRequests, \* bound: settings requests under way
          Empty     \* the text of a field nobody filled in

ASSUME FormAssumption ==
  /\ Lists \subseteq Seq(Names)
  /\ Today \in Days /\ Days \subseteq Int
  /\ MaxRequests \in Nat
  /\ Empty \notin Names /\ Empty \notin Days

VARIABLES
  categories,   \* AppDelegate.categories
  named,        \* the name field is filled in
  editing,      \* the field whose wheel or picker is up, or "none"
  wheel,        \* the day each date wheel stands at
  dates,        \* the text of each date field
  category,     \* the text of the category field
  pickerRows,   \* the rows the picker believes there are
  currentIndex, \* AddProductVC.currentIndex
  isOn,         \* the switch
  authorized,   \* the user allows notifications
  requests,     \* getNotificationSettings calls not yet answered on the main queue
  reminders,    \* the days with a pending notification
  alert,        \* "none", "scheduled" or "settings"
  passed,       \* what Continue handed to the camera screen, or Nothing
  crashed,      \* an index was past the end
  \* history variables
  mostRows,     \* the most rows the picker ever counted
  turned,       \* what the expiry wheel was turned after: the last "done" of the
                \* dates, the last "reminder"
  told,         \* "Notification Scheduled" was shown
  asked,        \* the row whose title was asked for last
  kept          \* since the wheel was stopped at that row, the picker has asked
                \* for no other title and the array has not been refilled

vars == <<categories, named, editing, wheel, dates, category, pickerRows, currentIndex,
          isOn, authorized, requests, reminders, alert, passed, crashed, mostRows,
          turned, told, asked, kept>>

array == <<categories, crashed>>
picker == <<category, pickerRows, currentIndex, mostRows, asked, kept>>
calendar == <<wheel, dates>>
planning == <<isOn, requests, reminders, alert, told>>
reminding == <<planning, turned>>

Fields == {"purchase", "expiry"}
Week == 7
Nothing == [kind |-> "nothing"]
AtToday == [f \in Fields |-> Today]

TypeOK ==
  /\ categories \in Lists
  /\ named \in BOOLEAN
  /\ editing \in Fields \cup {"none", "category"}
  /\ wheel \in [Fields -> Days]
  /\ dates \in [Fields -> Days \cup {Empty}]
  /\ category \in Names \cup {Empty}
  /\ pickerRows \in Nat /\ currentIndex \in Nat /\ mostRows \in Nat
  /\ isOn \in BOOLEAN /\ authorized \in BOOLEAN
  /\ requests \in 0..MaxRequests
  /\ reminders \subseteq {d - Week : d \in Days}
  /\ alert \in {"none", "scheduled", "settings"}
  /\ passed = Nothing \/ passed \in [kind : {"product"}, dates : [Fields -> Days], category : Names]
  /\ crashed \in BOOLEAN /\ told \in BOOLEAN
  /\ turned \subseteq {"done", "reminder"}
  /\ asked \in Nat /\ kept \in BOOLEAN

Init ==
  /\ categories \in Lists
  /\ named = FALSE /\ editing = "none"
  /\ wheel = AtToday
  /\ dates = [f \in Fields |-> Empty]
  /\ category = Empty
  /\ pickerRows = 0 /\ currentIndex = 0 /\ mostRows = 0
  /\ isOn = FALSE /\ authorized \in BOOLEAN
  /\ requests = 0 /\ reminders = {} /\ alert = "none"
  /\ passed = Nothing /\ crashed = FALSE
  /\ turned = {} /\ told = FALSE
  /\ asked = 0 /\ kept = FALSE

\* The form can be touched: it is the screen in front and no alert covers it.
Touchable == ~crashed /\ passed = Nothing /\ alert = "none"

-----------------------------------------------------------------------------
(* The fields.                                                              *)

\* The name is typed or rubbed out.
TypeName ==
  /\ Touchable
  /\ named' = ~named
  /\ editing' = "none"
  /\ UNCHANGED <<array, calendar, picker, reminding, authorized, passed>>

EditDate(f) ==
  /\ Touchable
  /\ editing' = f
  /\ UNCHANGED <<array, named, calendar, picker, reminding, authorized, passed>>

\* The wheel under the field being edited stops at a day.
TurnWheel(day) ==
  /\ Touchable
  /\ editing \in Fields
  /\ wheel' = [wheel EXCEPT ![editing] = day]
  /\ turned' = IF editing = "expiry" THEN {"done", "reminder"} ELSE turned
  /\ UNCHANGED <<array, named, editing, dates, picker, planning, authorized, passed>>

\* Mutant of DonePressed: only the field being edited is written.
DonePressedOne ==
  /\ Touchable
  /\ editing \in Fields
  /\ dates' = [dates EXCEPT ![editing] = wheel[editing]]
  /\ turned' = turned \ {"done"}
  /\ editing' = "none"
  /\ UNCHANGED <<array, named, wheel, picker, planning, authorized, passed>>

\* Done of either date field writes both.
DonePressed ==
  /\ Touchable
  /\ editing \in Fields
  /\ dates' = wheel
  /\ turned' = turned \ {"done"}
  /\ editing' = "none"
  /\ UNCHANGED <<array, named, wheel, picker, planning, authorized, passed>>

\* A tap beside the fields ends the editing.
DismissKeyboard ==
  /\ Touchable
  /\ editing # "none"
  /\ editing' = "none"
  /\ UNCHANGED <<array, named, calendar, picker, reminding, authorized, passed>>

-----------------------------------------------------------------------------
(* The category picker.  A row is counted from zero, as in the code.        *)

InArray(row) == row < Len(categories)

\* Mutant of CurrentIndex: the next row.
CurrentIndexNext(row) == row + 1

\* What titleForRow leaves in currentIndex.
CurrentIndex(row) == row

\* The picker comes up.  UIKit counts the rows, the first time at least, and then
\* asks for the titles of those in sight, in an order of its own.
EditCategory ==
  /\ Touchable
  /\ editing # "category"
  /\ editing' = "category"
  /\ \/ /\ pickerRows' = Len(categories)
        /\ mostRows' = IF Len(categories) > mostRows THEN Len(categories) ELSE mostRows
        /\ IF categories = <<>>
           THEN UNCHANGED <<currentIndex, asked>>
           ELSE \E row \in 0..(Len(categories) - 1) :
                  currentIndex' = CurrentIndex(row) /\ asked' = row
        /\ kept' = FALSE
     \/ pickerRows > 0 /\ UNCHANGED <<pickerRows, currentIndex, mostRows, asked, kept>>
  /\ UNCHANGED <<array, named, calendar, category, reminding, authorized, passed>>

\* The picker asks for the title of a row that comes into sight.
TitleForRow(row) ==
  /\ ~crashed
  /\ editing = "category"
  /\ row < pickerRows
  /\ currentIndex' = CurrentIndex(row)
  /\ asked' = row /\ kept' = (kept /\ row = asked)
  /\ crashed' = ~InArray(row)
  /\ UNCHANGED <<categories, named, editing, calendar, category, pickerRows, mostRows,
                 reminding, authorized, passed>>

\* The picker stops at a row.
SelectRow(row) ==
  /\ Touchable
  /\ editing = "category"
  /\ row < pickerRows
  /\ crashed' = ~InArray(row)
  /\ category' = IF InArray(row) THEN categories[row + 1] ELSE category
  /\ kept' = (InArray(row) /\ row = asked)
  /\ UNCHANGED <<categories, named, editing, calendar, pickerRows, currentIndex, mostRows,
                 asked, reminding, authorized, passed>>

\* Done of the category field: the row whose title was asked for last.
ClosePickerView ==
  /\ Touchable
  /\ editing = "category"
  /\ IF InArray(currentIndex)
     THEN /\ category' = categories[currentIndex + 1]
          /\ editing' = "none"
          /\ UNCHANGED crashed
     ELSE crashed' = TRUE /\ UNCHANGED <<category, editing>>
  /\ UNCHANGED <<categories, named, calendar, pickerRows, currentIndex, mostRows,
                 asked, kept, reminding, authorized, passed>>

\* A listener refills the array (see Categories).
Refill(list) ==
  /\ ~crashed
  /\ list # categories
  /\ categories' = list
  /\ kept' = FALSE
  /\ UNCHANGED <<named, editing, calendar, category, pickerRows, currentIndex, mostRows,
                 asked, reminding, authorized, passed, crashed>>

-----------------------------------------------------------------------------
(* The reminder.                                                            *)

\* The user answers the permission prompt, or goes to the settings.
Authorize ==
  /\ ~crashed
  /\ authorized' = ~authorized
  /\ UNCHANGED <<array, named, editing, calendar, picker, reminding, passed>>

\* The switch; only turning it on does anything.
SwitchDidChanged ==
  /\ Touchable
  /\ isOn' = ~isOn
  /\ IF isOn' THEN requests < MaxRequests /\ requests' = requests + 1
              ELSE UNCHANGED requests
  /\ UNCHANGED <<array, named, editing, calendar, picker, reminders, alert, told, turned,
                 authorized, passed>>

\* Mutant of SettingsKnown: the reminder is for a week before the other date.
SettingsKnownOfPurchase ==
  /\ ~crashed
  /\ requests > 0
  /\ requests' = requests - 1
  /\ reminders' = IF authorized THEN reminders \cup {wheel["purchase"] - Week} ELSE reminders
  /\ turned' = IF authorized THEN turned \ {"reminder"} ELSE turned
  /\ IF Touchable
     THEN /\ alert' = IF authorized THEN "scheduled" ELSE "settings"
          /\ told' = (told \/ authorized)
     ELSE UNCHANGED <<alert, told>>
  /\ UNCHANGED <<array, named, editing, calendar, picker, isOn, authorized, passed>>

\* The settings are known, on the main queue: a reminder for a week before what the
\* expiry wheel shows now, and an alert, which UIKit drops when another is up or
\* the form is not in front.
SettingsKnown ==
  /\ ~crashed
  /\ requests > 0
  /\ requests' = requests - 1
  /\ reminders' = IF authorized THEN reminders \cup {wheel["expiry"] - Week} ELSE reminders
  /\ turned' = IF authorized THEN turned \ {"reminder"} ELSE turned
  /\ IF Touchable
     THEN /\ alert' = IF authorized THEN "scheduled" ELSE "settings"
          /\ told' = (told \/ authorized)
     ELSE UNCHANGED <<alert, told>>
  /\ UNCHANGED <<array, named, editing, calendar, picker, isOn, authorized, passed>>

CloseAlert ==
  /\ ~crashed
  /\ alert # "none"
  /\ alert' = "none"
  /\ UNCHANGED <<array, named, editing, calendar, picker, isOn, requests, reminders, told, turned,
                 authorized, passed>>

-----------------------------------------------------------------------------

\* Mutant of ValidateFields: the category is not looked at.
ValidateFieldsNoCategory == named /\ (\A f \in Fields : dates[f] # Empty)

ValidateFields ==
  named /\ (\A f \in Fields : dates[f] # Empty) /\ category # Empty

\* What Continue hands over.
Texts == [kind |-> "product", dates |-> dates, category |-> category]

\* Continue; with a field left empty it shows a message and stays.
ContinueButtonPressed ==
  /\ Touchable
  /\ ValidateFields
  /\ passed' = Texts
  /\ editing' = "none"
  /\ UNCHANGED <<array, named, calendar, picker, reminding, authorized>>

\* Back from the camera screen.
Back ==
  /\ ~crashed
  /\ passed # Nothing
  /\ passed' = Nothing
  /\ UNCHANGED <<array, named, editing, calendar, picker, reminding, authorized>>

Next ==
  \/ TypeName \/ DonePressed \/ DismissKeyboard
  \/ \E f \in Fields : EditDate(f)
  \/ \E day \in Days : TurnWheel(day)
  \/ EditCategory \/ ClosePickerView
  \/ \E row \in 0..(pickerRows - 1) : TitleForRow(row)
  \/ \E row \in 0..(pickerRows - 1) : SelectRow(row)
  \/ \E list \in Lists : Refill(list)
  \/ Authorize \/ SwitchDidChanged \/ SettingsKnown \/ CloseAlert
  \/ ContinueButtonPressed \/ Back

Spec == Init /\ [][Next]_vars

-----------------------------------------------------------------------------
(* Properties.                                                              *)

\* The form traps only when the array is empty or has become shorter than the
\* picker once counted it (AddProductVC, lines 181, 248 and 252, index the shared
\* array, the first of them with an index that may be older than the picker's rows).
TrapsOnlyIfShrunk == crashed => Len(categories) < mostRows \/ categories = <<>>

\* A user who was told of a reminder, and has not turned the expiry wheel after
\* the last Done or the last reminder, has a reminder a week before the expiry handed
\* over, in whatever order the switch, the answer of the settings, either Done, Continue
\* and Back came (line 68 reads the wheel, lines 153-156 write the field from it).
ReminderFits ==
  passed # Nothing /\ told /\ turned = {} => passed.dates["expiry"] - Week \in reminders

\* While the wheel stands where it was stopped, the picker has asked for no other
\* title and the array has not been refilled, the category stays what was selected
\* and nothing traps: Done then writes the category the user chose (lines 181, 247
\* and 252: Done takes the row asked for last, not the one selected).
DoneKeepsSelection == [][kept /\ kept' => category' = category /\ ~crashed']_vars

\* A user who was told so gets the reminder of the warranty handed over, a week
\* before its expiry and in the future (AddProductVC.swift:85, "You will receive a
\* notification one week before the warranty expiry date").
RemindedInTime ==
  passed # Nothing /\ told =>
    \E day \in reminders : day = passed.dates["expiry"] - Week /\ day > Today

=============================================================================
