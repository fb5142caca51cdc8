---------------------------- MODULE MCUnknownItems ----------------------------
(* A small instance of UnknownItems for TLC: a till, a store's manager and an *)
(* owner, and a barcode.                                                      *)
EXTENDS UnknownItems

CONSTANTS cashier, manager, owner, s1

Barcode == [type |-> "barcode", value |-> 1, source |-> None]

OneBarcode == {Barcode}

Roles == [c \in Clients |-> IF c = manager THEN "store_manager"
                            ELSE IF c = owner THEN "owner" ELSE "pos"]
Scopes == [c \in Clients |-> IF c = owner THEN None ELSE s1]
=============================================================================
