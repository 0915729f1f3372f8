---------------------------- MODULE MCProductList ----------------------------
EXTENDS ProductList

CONSTANTS phone, laptop, desk, ana, bo

OwnerOf == [d \in {phone, laptop, desk} |-> IF d = desk THEN bo ELSE ana]

=============================================================================
