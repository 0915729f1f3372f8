---------------------------- MODULE MCCategories ----------------------------
EXTENDS Categories

\* The runs about the shared array tell states apart without the rows
\* the user removed, which no guard and none of their properties reads.
WithoutHistory == <<collection, listeners, events, categories, tables, front,
                    crashed, opened, aside>>
=============================================================================
