--------------------------- MODULE MCProductSearch ---------------------------
EXTENDS ProductSearch

CONSTANTS phone, laptop, phono, short, long, ana, bo

\* "p" matches every product, "pho" all but the laptop; the laptop is bo's.
MatchesOf ==
  [t \in {short, long} |-> IF t = short THEN {phone, laptop, phono} ELSE {phone, phono}]
OwnerOf == [d \in {phone, laptop, phono} |-> IF d = laptop THEN bo ELSE ana]

=============================================================================
