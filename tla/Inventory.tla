----------------------------- MODULE Inventory -----------------------------
(***************************************************************************)
(* What checkout promises about stock, with the locking left out: an order *)
(* is sold in one indivisible step, only when every one of its lines is in *)
(* stock, and nothing but a sale or an administrator changes a quantity.   *)
(***************************************************************************)
EXTENDS Naturals

CONSTANTS Variant,      \* product variants (one stock_quantity each)
          Request,      \* checkout requests; each makes at most one order
          MaxQty,       \* bound: the largest quantity of an order line
          StockLevel    \* the quantities an administrator may set

VARIABLES stock,        \* Variant -> stock_quantity
          bought        \* Request -> quantity of each variant in its order

vars == <<stock, bought>>

Lines == [Variant -> 0 .. MaxQty]      \* 0: no line for this variant
NoLines == [v \in Variant |-> 0]

Init ==
  /\ stock \in [Variant -> StockLevel]
  /\ bought = [r \in Request |-> NoLines]

\* orders.py, checkout(): the whole order or nothing.
Sell(r) ==
  /\ bought[r] = NoLines
  /\ \E lines \in Lines \ {NoLines} :
       /\ \A v \in Variant : lines[v] <= stock[v]
       /\ stock' = [v \in Variant |-> stock[v] - lines[v]]
       /\ bought' = [bought EXCEPT ![r] = lines]

\* admin_catalog.py, update_variant(): an absolute quantity.
SetStock(v) ==
  /\ \E q \in StockLevel : stock' = [stock EXCEPT ![v] = q]
  /\ UNCHANGED bought

Next ==
  \/ \E r \in Request : Sell(r)
  \/ \E v \in Variant : SetStock(v)

Spec == Init /\ [][Next]_vars
=============================================================================
