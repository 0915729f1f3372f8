--------------------------- MODULE MCProductUpload ---------------------------
EXTENDS ProductUpload, TLC

\* Which user, form, picture or press is which does not matter to safety.
Symmetry == Permutations(Users) \cup Permutations(Forms) \cup Permutations(Presses)
=============================================================================
