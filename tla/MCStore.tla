------------------------------- MODULE MCStore -------------------------------
(* A small instance of Store for TLC. *)
EXTENDS Store

\* "Jeans 2" has the slug that the suffix of a second "Jeans" leads to.
MCName == {"Jeans", "Jeans 2", "Belt"}
MCSlugify == [n \in MCName |->
  CASE n = "Jeans" -> <<"jeans">> [] n = "Jeans 2" -> <<"jeans", "2">> [] n = "Belt" -> <<"belt">>]
MCStaff == [boss |-> "super_admin", chief |-> "super_admin", clerk |-> "admin"]
MCLower == [e \in {"New", "new"} |-> "new"] @@ [e \in DOMAIN MCStaff |-> e]
MCMinOrder == [c1 |-> 4, c2 |-> 2]
\* At half price two units are worth what one was; c2 is then withdrawn.
MCTerms == {[price |-> [v \in VariantId |-> 2], usable |-> {"c1", "c2"}],
            [price |-> [v \in VariantId |-> 1], usable |-> {"c1"}]}

Area(r) ==
  CASE req[r].op.do \in {"create", "update"} -> req[r].op.table
    [] req[r].op.do \in {"product", "variant"} -> "variants"
    [] req[r].op.do \in {"upload", "set primary", "delete"} -> "images"
    [] req[r].op.do \in CartKinds -> "cart"
    [] req[r].op.do \in {"review", "helpful", "report"} -> "reviews"
    [] req[r].op.do = "search" -> "searches"
    [] req[r].op.do \in {"signup", "user"} -> "users"
    [] OTHER -> "addresses"

\* Areas that share no row cannot tell each other's interleavings apart, so a
\* behaviour has two requests for one area or for two that share rows; it has
\* three in the areas where that many fit.  Prices move, and carts are checked
\* out, around two requests of the cart that live.  Buying concerns the reviews
\* alone, a cart those who use it, and a request that is refused by its first
\* reads changes nothing that another could see.
Pairs == {{"products", "variants"}, {"cart", "variants"}, {"users", "addresses"}, {"categories"}}
Alone == {"brands", "products", "images", "cart", "reviews", "searches", "addresses"}
Made == {r \in Request : ~ At(r, "new")}
Together ==
  LET areas == {Area(r) : r \in Made} IN
    /\ \/ areas \in {{}} \cup {{a} : a \in Alone}
       \/ Cardinality(Made) <= 2 /\ \E p \in Pairs : areas \subseteq p
    /\ areas = {} \/ "cart" \in areas \/ cart = NoCart
    /\ moved \/ "c2" \notin terms.usable =>
         areas = {"cart"} /\ Cardinality(Made) <= 2 /\ deaths = 0
    /\ bought => areas \subseteq {"reviews"}
MCInit ==
  /\ Init
  /\ <<cart.coupon, lines>> \in {<<"none", <<>>>>,
                                 <<"c1", FirstVariant :> [id |-> "l0", quantity |-> 2]>>}
  /\ "c2" \in terms.usable
MCSpec == MCInit /\ [][Next /\ Together']_vars

NoneRefused == \A r \in Request : req[r].answer = "refused" => Area(r) \in {"cart", "images"}
Symmetry == Permutations(Request)
=============================================================================
