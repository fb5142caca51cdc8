------------------------------ MODULE MCLedger -------------------------------
(* The two ledgers, for TLC: money owed by payers (Settlement) or stock       *)
(* movements (Inventory).  They share no state, so a behaviour of the run     *)
(* moves one of them and leaves the other where it starts.                    *)
EXTENDS MCSettlement, MCInventory

VARIABLE part       \* the ledger that moves: "money" or "stock"

ledgerVars == <<vars, inventoryVars, part>>

LedgerInit == Init /\ InventoryInit /\ part \in {"money", "stock"}

MoneyMoves == part = "money" /\ Next /\ UNCHANGED <<inventoryVars, part>>
StockMoves == part = "stock" /\ InventoryNext /\ UNCHANGED <<vars, part>>

LedgerSpec == LedgerInit /\ [][MoneyMoves \/ StockMoves]_ledgerVars
=============================================================================
