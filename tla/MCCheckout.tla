----------------------------- MODULE MCCheckout -----------------------------
(* Small instances of Checkout for TLC. *)
EXTENDS Checkout, TLC

\* Every coupon may be used once, so that a second use is one too many.
LimitOne == [c \in Coupon |-> 1]
NoLimit == [c \in Coupon |-> None]

Interchangeable ==
  {f @@ g @@ h : f \in Permutations(Request), g \in Permutations(Variant), h \in Permutations(User)}
=============================================================================
