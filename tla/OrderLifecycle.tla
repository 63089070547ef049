--------------------------- MODULE OrderLifecycle ---------------------------
(***************************************************************************)
(* The life of an order as _FORWARD_TRANSITIONS of admin_orders.py states  *)
(* it: one indivisible step per status change, cancellation only before    *)
(* shipping, returns and refunds only after delivery.                      *)
(***************************************************************************)
CONSTANT Order
VARIABLE status        \* Order -> orders.status

Status == {"pending", "packed", "shipped", "out_for_delivery", "delivered",
           "cancelled", "returned", "refunded"}

Forward == [s \in Status |->
  CASE s = "pending"          -> {"packed", "cancelled"}
    [] s = "packed"           -> {"shipped", "cancelled"}
    [] s = "shipped"          -> {"out_for_delivery"}
    [] s = "out_for_delivery" -> {"delivered"}
    [] s = "delivered"        -> {"returned"}
    [] s = "returned"         -> {"refunded"}
    [] OTHER                  -> {}]

Init == status = [o \in Order |-> "pending"]

Advance(o) == \E s \in Forward[status[o]] : status' = [status EXCEPT ![o] = s]

Next == \E o \in Order : Advance(o)

Spec == Init /\ [][Next]_status
=============================================================================
