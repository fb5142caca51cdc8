------------------------------ MODULE MCReadDown ------------------------------
(* Small instances of ReadDown for TLC.                                       *)
EXTENDS ReadDown

Product(price, active, retired) == [price |-> price, active |-> active, retired |-> retired]
Override(price, active) == [price |-> price, active |-> active]

Rows == {Product(1, TRUE, FALSE), Product(2, TRUE, FALSE), Product(Null, TRUE, FALSE),
         Product(1, TRUE, TRUE)}
Overrides == {Override(3, Null), Override(Null, FALSE)}

\* For the run that exhausts the states: two prices, one of them an override's,
\* and three ways not to be sold.
FewRows == {Product(1, TRUE, FALSE), Product(Null, TRUE, FALSE), Product(1, TRUE, TRUE)}
FewOverrides == {Override(2, Null), Override(Null, FALSE)}
=============================================================================
