-------------------------- MODULE MCWarrantyDates ---------------------------
EXTENDS WarrantyDates

CONSTANTS us, gb, de

DaysOffered == -1..4

\* "Jan 5, 2022" is read where the month is called Jan; "5 Jan 2022" and
\* "05.01.2022" are read nowhere.
ReadsPattern == {<<us, us>>, <<us, gb>>}

=============================================================================
