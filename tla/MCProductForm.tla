--------------------------- MODULE MCProductForm ----------------------------
EXTENDS ProductForm

CONSTANTS phones, laptops

\* Empty after an error, refilled after a snapshot, longer after an addition.
ListsOfCategories == {<<>>, <<phones>>, <<phones, laptops>>}

=============================================================================
