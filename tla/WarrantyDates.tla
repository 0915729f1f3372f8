--------------------------- MODULE WarrantyDates ----------------------------
(***************************************************************************)
(* The dates of a warranty, from the form to the row of the list.          *)
(* AddProductVC writes both dates in the medium style of the locale;       *)
(* DetailVC reads them back with the pattern "MMM d, yyyy", counts the     *)
(* days left and the days in all, and fills the progress bar of the row.   *)
(* A date that the pattern cannot read is unwrapped all the same.          *)
(***************************************************************************)
EXTENDS Integers

CONSTANTS Days,    \* the days the date wheels offer, as integers
          LastDay, \* bound: the last day the clock reaches
          Locales,
          Reads    \* <<written, reading>>: the pattern, in the locale of the
                   \* reader, reads a date of medium style of the writer's

ASSUME DatesAssumption ==
  /\ Days \subseteq Int
  /\ LastDay \in Int
  /\ Reads \subseteq Locales \X Locales

VARIABLES
  today,     \* the day the clock shows
  locale,    \* the locale of the device
  document,  \* the saved warranty, or Unsaved
  cell,      \* the row as it was last drawn, or Blank
  crashed    \* a nil was unwrapped

vars == <<today, locale, document, cell, crashed>>

Unsaved == [kind |-> "unsaved"]
Blank == [kind |-> "blank"]
Expired == -1 \* the label "Expired"; the days left of another label are positive

Document == [kind : {"saved"}, purchase : Days, expiry : Days, locale : Locales]
Cell == [kind : {"drawn"}, label : Nat \cup {Expired}, bar : Nat]

TypeOK ==
  /\ today \in Int
  /\ locale \in Locales
  /\ document \in Document \cup {Unsaved}
  /\ cell \in Cell \cup {Blank}
  /\ crashed \in BOOLEAN

Init ==
  /\ today \in {d \in Days : d =< LastDay}
  /\ locale \in Locales
  /\ document = Unsaved
  /\ cell = Blank
  /\ crashed = FALSE

-----------------------------------------------------------------------------
(* DetailVC's arithmetic.  A bar is the number of its parts that are filled.*)

TotalDays(d) == d.expiry - d.purchase
DaysLeft(d, now) == d.expiry - now

\* A bar has a part for each day of the warranty, and at least one.
Parts(d) == IF TotalDays(d) > 0 THEN TotalDays(d) ELSE 1

\* Mutant of Progress: nothing is pinned.
ProgressUnpinned(d, now) == IF TotalDays(d) = 0 THEN 0 ELSE now - d.purchase

\* Mutant of Progress: what is left is drawn, not what has passed.
ProgressOfRest(d, now) ==
  IF TotalDays(d) > 0 /\ now > d.purchase THEN DaysLeft(d, now) ELSE 0

\* The quotient (total - left) / total, pinned to 0..1 by UIProgressView: with no
\* days in all it is minus infinity, with dates swapped it is above 1.
Progress(d, now) ==
  IF TotalDays(d) < 0 THEN Parts(d)
  ELSE IF TotalDays(d) > 0 /\ now > d.purchase THEN now - d.purchase
  ELSE 0

\* Mutant of Row: the last day still counts, and its bar is computed.
RowLastDay(d, now) ==
  IF DaysLeft(d, now) >= 0
  THEN [kind |-> "drawn", label |-> DaysLeft(d, now), bar |-> Progress(d, now)]
  ELSE [kind |-> "drawn", label |-> Expired, bar |-> Parts(d)]

\* The label and the bar of a row.
Row(d, now) ==
  IF DaysLeft(d, now) > 0
  THEN [kind |-> "drawn", label |-> DaysLeft(d, now), bar |-> Progress(d, now)]
  ELSE [kind |-> "drawn", label |-> Expired, bar |-> Parts(d)]

-----------------------------------------------------------------------------

\* The form is filled in and the warranty saved, with any two dates.
Save(purchase, expiry) ==
  /\ ~crashed
  /\ document = Unsaved
  /\ document' = [kind |-> "saved", purchase |-> purchase, expiry |-> expiry, locale |-> locale]
  /\ UNCHANGED <<today, locale, cell, crashed>>

NewDay ==
  /\ today < LastDay
  /\ today' = today + 1
  /\ UNCHANGED <<locale, document, cell, crashed>>

\* Another region in the settings.  Rows that were drawn stay as they are; the next
\* is read in the new locale.
ChangeLocale(l) ==
  /\ l # locale
  /\ locale' = l
  /\ UNCHANGED <<today, document, cell, crashed>>

\* The table asks for the row.
DrawCell ==
  /\ ~crashed
  /\ document # Unsaved
  /\ IF <<document.locale, locale>> \in Reads
     THEN cell' = Row(document, today) /\ UNCHANGED crashed
     ELSE crashed' = TRUE /\ UNCHANGED cell
  /\ UNCHANGED <<today, locale, document>>

\* The process is started again, after a trap or a kill: no row is drawn yet.
Relaunch ==
  /\ crashed \/ cell # Blank
  /\ crashed' = FALSE
  /\ cell' = Blank
  /\ UNCHANGED <<today, locale, document>>

Next ==
  \/ \E purchase, expiry \in Days : Save(purchase, expiry)
  \/ NewDay
  \/ \E l \in Locales : ChangeLocale(l)
  \/ DrawCell \/ Relaunch

Spec == Init /\ [][Next]_vars

-----------------------------------------------------------------------------
(* Properties.                                                              *)

\* A bar that is redrawn never gets shorter, also over the day the warranty
\* ends, on which the quotient gives way to a constant, over changes of the
\* locale, and for dates that are equal or swapped, where the quotient divides by
\* zero or by less (DetailVC, lines 131-145).
BarGrows == [][cell # Blank /\ cell' # Blank => cell.bar =< cell'.bar]_vars

\* Unless the dates are swapped, the bar is full if and only if the row says that
\* the warranty has expired.
FullIsExpired ==
  cell # Blank /\ document.purchase =< document.expiry =>
    (cell.bar = Parts(document) <=> cell.label = Expired)

=============================================================================
