--------------------------- MODULE CheckoutProofs ---------------------------
(***************************************************************************)
(* Checkout for any number of customers, variants, coupons and concurrent  *)
(* requests: types, the lock invariant, conservation of stock, and that    *)
(* every behaviour is one of the atomic Inventory.                         *)
(*                                                                         *)
(* The induction needs the lock invariant and conservation together with   *)
(* the types: a commit keeps stock_quantity a natural number only because  *)
(* the row it computes from is locked and covers the line, and an edit by  *)
(* an administrator keeps `supplied' one because stock never exceeds it.   *)
(***************************************************************************)
EXTENDS Checkout, FiniteSetTheorems, TLAPS

IInv == TypeOK /\ LockedRowsCurrent /\ StockConserved /\ AllOrNothing

LEMMA NoLinesType == NoLines \in Lines /\ NoLines \in [Variant -> Nat]
  BY BoundAssumption DEF NoLines, Lines

LEMMA LinesAreNat == ASSUME NEW lines \in Lines, NEW v \in Variant PROVE lines[v] \in Nat
  BY BoundAssumption DEF Lines

\* A new or answered request holds nothing.
LEMMA AnsweredType ==
  ASSUME NEW pc \in {"new"} \cup Active \cup Ended
  PROVE  [NewRequest EXCEPT !.pc = pc] \in Session
  BY NoLinesType DEF NewRequest, Session

\* Forgetting deleted cart rows changes nothing but `live'.
LEMMA ForgetKeeps ==
  ASSUME NEW rq \in [Request -> Session], NEW u, NEW gone
  PROVE  /\ Forget(rq, u, gone) \in [Request -> Session]
         /\ \A r \in Request :
              LET after == Forget(rq, u, gone)[r]
              IN  /\ after.pc = rq[r].pc /\ after.user = rq[r].user
                  /\ after.code = rq[r].code /\ after.lines = rq[r].lines
                  /\ after.want = rq[r].want /\ after.seen = rq[r].seen
                  /\ after.uses = rq[r].uses
  BY DEF Forget, Session

LEMMA InitIInv == Init => IInv
  <1> SUFFICES ASSUME Init PROVE IInv
    OBVIOUS
  <1> USE DEF Init
  <1>a. NewRequest \in Session /\ NoEdit("new") \in Edit /\ NoOrder \in OrderRow
    BY NoLinesType DEF NewRequest, Session, NoEdit, Edit, NoOrder, OrderRow
  <1>b. stock \in [Variant -> Nat]
    BY BoundAssumption
  <1>c. NewRequest.pc = "new" /\ NoOrder.lines = NoLines /\ NoEdit("new").pc = "new"
    BY DEF NewRequest, NoOrder, NoEdit
  <1>1. TypeOK
    BY <1>a, <1>b, <1>c, NoLinesType DEF TypeOK, Active
  <1>2. LockedRowsCurrent
    BY <1>c DEF LockedRowsCurrent, HolderIsCurrent, LinesGetLocked
  <1>3. StockConserved
    BY <1>b DEF StockConserved, NoLines
  <1>4. AllOrNothing
    BY <1>c DEF AllOrNothing
  <1> QED
    BY <1>1, <1>2, <1>3, <1>4 DEF IInv

LEMMA ReleasedType ==
  ASSUME TypeOK, NEW r \in Request
  PROVE  LocksReleased(r) \in [Variant -> Request \cup {None}]
  BY DEF TypeOK, LocksReleased

LEMMA RollbackKeeps ==
  ASSUME IInv, NEW r \in Request, req[r].pc \in Active, Rollback(r)
  PROVE  IInv'
  <1> USE DEF Rollback, history
  <1>a. Answered("failed") \in Session /\ Answered("failed").pc = "failed"
    BY AnsweredType DEF Answered, NewRequest, Ended
  <1>b. req' \in [Request -> Session] /\ req'[r].pc = "failed"
    BY <1>a DEF IInv, TypeOK
  <1>c. \A s \in Request : s # r => req'[s] = req[s]
    BY DEF IInv, TypeOK
  <1>1. TypeOK'
    BY <1>b, <1>c, ReleasedType DEF IInv, TypeOK, Active
  <1>2. LockedRowsCurrent'
    <2>1. \A v \in Variant : lockedBy'[v] # None =>
             lockedBy'[v] = lockedBy[v] /\ lockedBy[v] # r /\ lockedBy[v] \in Request
      BY NoneAssumption DEF IInv, TypeOK, LocksReleased
    <2>2. \A s \in Request : s # r => Held(s)' = Held(s)
      BY NoneAssumption DEF LocksReleased, Held
    <2> QED
      BY <1>b, <1>c, <2>1, <2>2 DEF IInv, LockedRowsCurrent, HolderIsCurrent, LinesGetLocked
  <1>3. StockConserved'
    BY DEF IInv, StockConserved
  <1>4. AllOrNothing'
    BY <1>b, <1>c DEF IInv, AllOrNothing, Active
  <1> QED
    BY <1>1, <1>2, <1>3, <1>4 DEF IInv

\* A step of a request that holds no lock and leaves rows alone.
LEMMA UnlockedStep ==
  ASSUME IInv, NEW r \in Request, UNCHANGED <<stock, lockedBy>>,
         \A v \in Variant : lockedBy[v] # r,
         \A s \in Request : s # r => req'[s] = req[s],
         req'[r].pc \notin {"coupon", "commit"},
         req'[r].pc = "lock" => req'[r].want \in LinesOf(req'[r].lines)
  PROVE  LockedRowsCurrent'
  <1>1. ASSUME NEW v \in Variant PROVE HolderIsCurrent(v)'
    BY DEF IInv, TypeOK, LockedRowsCurrent, HolderIsCurrent
  <1>2. ASSUME NEW s \in Request PROVE LinesGetLocked(s)'
    <2>1. Held(s)' = Held(s) /\ Held(r) = {}
      BY DEF Held
    <2>2. LinesGetLocked(s)
      BY DEF IInv, LockedRowsCurrent
    <2>3. CASE s = r
      BY <2>1, <2>3 DEF LinesGetLocked
    <2>4. CASE s # r
      BY <2>1, <2>2, <2>4 DEF LinesGetLocked
    <2> QED
      BY <2>3, <2>4
  <1> QED
    BY <1>1, <1>2 DEF LockedRowsCurrent

LEMMA LoadCartKeeps ==
  ASSUME IInv, NEW r \in Request, NEW u \in User, LoadCart(r, u)
  PROVE  IInv'
  <1> USE DEF LoadCart, rows, history
  <1> DEFINE now == [req[r] EXCEPT !.pc = "items", !.user = u, !.code = cartCoupon[u]]
  <1>t. now \in Session /\ now.pc = "items" /\ now.user = u
    BY DEF IInv, TypeOK, Session, Active
  <1>s. req'[r] = now /\ \A s \in Request : s # r => req'[s] = req[s]
    BY DEF IInv, TypeOK
  <1>a. /\ req' \in [Request -> Session] /\ req'[r].pc = "items" /\ req'[r].user = u
        /\ \A s \in Request : s # r => req'[s] = req[s]
    BY <1>t, <1>s DEF IInv, TypeOK
  <1>b. req[r].pc = "new" /\ \A v \in Variant : lockedBy[v] # r
    BY NoneAssumption DEF IInv, LockedRowsCurrent, HolderIsCurrent, TypeOK
  <1>1. TypeOK'
    BY <1>a DEF IInv, TypeOK
  <1>2. LockedRowsCurrent'
    BY <1>a, <1>b, UnlockedStep
  <1>3. StockConserved'
    BY DEF IInv, StockConserved
  <1>4. AllOrNothing'
    BY <1>a, <1>b DEF IInv, AllOrNothing
  <1> QED
    BY <1>1, <1>2, <1>3, <1>4 DEF IInv

LEMMA LoadItemsKeeps ==
  ASSUME IInv, NEW r \in Request, LoadItems(r)
  PROVE  IInv'
  <1> USE DEF rows, history
  <1>a. /\ req[r].pc = "items" /\ req[r].user \in User /\ cart[req[r].user] \in Lines
        /\ \A v \in Variant : lockedBy[v] # r
    BY NoneAssumption DEF IInv, TypeOK, LockedRowsCurrent, HolderIsCurrent, LoadItems, Active
  <1>. PICK first \in LinesOf(cart[req[r].user]) :
         req' = [req EXCEPT ![r].pc = "lock", ![r].lines = cart[req[r].user],
                            ![r].live = LinesOf(cart[req[r].user]), ![r].want = first]
    BY DEF LoadItems
  <1>. UNCHANGED <<rows, adm, history>>
    BY DEF LoadItems
  <1> DEFINE now == [req[r] EXCEPT !.pc = "lock", !.lines = cart[req[r].user],
                                   !.live = LinesOf(cart[req[r].user]), !.want = first]
  <1>t. /\ now \in Session /\ now.pc = "lock" /\ now.want = first /\ first \in Variant
        /\ now.user = req[r].user /\ now.lines = cart[req[r].user]
    BY <1>a DEF IInv, TypeOK, Session, Active, LinesOf
  <1>s. req'[r] = now /\ \A s \in Request : s # r => req'[s] = req[s]
    BY DEF IInv, TypeOK
  <1>b. /\ req' \in [Request -> Session] /\ req'[r].pc = "lock"
        /\ req'[r].user = req[r].user /\ req'[r].lines = cart[req[r].user]
        /\ req'[r].want = first /\ first \in Variant
        /\ \A s \in Request : s # r => req'[s] = req[s]
    BY <1>t, <1>s DEF IInv, TypeOK
  <1>1. TypeOK'
    BY <1>a, <1>b DEF IInv, TypeOK
  <1>2. LockedRowsCurrent'
    BY <1>a, <1>b, UnlockedStep
  <1>3. StockConserved'
    BY DEF IInv, StockConserved
  <1>4. AllOrNothing'
    BY <1>a, <1>b DEF IInv, AllOrNothing
  <1> QED
    BY <1>1, <1>2, <1>3, <1>4 DEF IInv

LEMMA LockVariantKeeps ==
  ASSUME IInv, NEW r \in Request, LockVariant(r)
  PROVE  IInv'
  <1> DEFINE v == req[r].want
             rest == LinesOf(req[r].lines) \ (Held(r) \cup {v})
  <1> USE DEF history
  <1>a. /\ req[r].pc = "lock" /\ v \in LinesOf(req[r].lines) /\ v \notin Held(r)
        /\ v \in Variant /\ lockedBy[v] = None
        /\ lockedBy' = [lockedBy EXCEPT ![v] = r]
        /\ req[r].lines[v] <= stock[v]
    BY DEF IInv, LockedRowsCurrent, LinesGetLocked, LockVariant, RowFree, Enough, LinesOf
  <1>b. UNCHANGED <<stock, cart, cartCoupon, timesUsed, order, adm, history>>
    BY DEF LockVariant
  <1> DEFINE locked == [req[r] EXCEPT !.seen[v] = stock[v]]
             next(w) == [locked EXCEPT !.want = w]
             last == [locked EXCEPT !.want = None, !.pc = "coupon"]
  <1>l. /\ locked \in Session /\ locked.seen = [req[r].seen EXCEPT ![v] = stock[v]]
        /\ locked.pc = "lock" /\ locked.user = req[r].user /\ locked.lines = req[r].lines
    <2>1. [req[r].seen EXCEPT ![v] = stock[v]] \in [Variant -> Nat]
      BY <1>a DEF IInv, TypeOK, Session
    <2>2. req[r] \in Session
      BY DEF IInv, TypeOK
    <2>3. locked = [req[r] EXCEPT !.seen = [req[r].seen EXCEPT ![v] = stock[v]]]
      BY <2>2 DEF Session
    <2> QED
      BY <1>a, <2>1, <2>2, <2>3 DEF Session
  <1>n. ASSUME NEW w \in Variant
        PROVE  /\ next(w) \in Session /\ next(w).seen = locked.seen
               /\ next(w).pc = "lock" /\ next(w).want = w
               /\ next(w).user = locked.user /\ next(w).lines = locked.lines
    BY <1>l DEF Session
  <1>m. /\ last \in Session /\ last.seen = locked.seen /\ last.pc = "coupon"
        /\ last.user = locked.user /\ last.lines = locked.lines
    BY <1>l DEF Session, Active
  <1>s. \/ \E w \in rest : req' = [req EXCEPT ![r] = next(w)]
        \/ rest = {} /\ req' = [req EXCEPT ![r] = last]
    BY DEF LockVariant
  <1>c. /\ req' \in [Request -> Session]
        /\ \A s \in Request : s # r => req'[s] = req[s]
        /\ req'[r].user = req[r].user /\ req'[r].lines = req[r].lines
        /\ req'[r].seen = [req[r].seen EXCEPT ![v] = stock[v]]
        /\ \/ req'[r].pc = "lock" /\ req'[r].want \in rest
           \/ req'[r].pc = "coupon" /\ rest = {}
    <2> HIDE DEF locked, next, last
    <2>1. CASE \E w \in rest : req' = [req EXCEPT ![r] = next(w)]
      BY <2>1, <1>l, <1>n DEF IInv, TypeOK, LinesOf
    <2>2. CASE rest = {} /\ req' = [req EXCEPT ![r] = last]
      BY <2>2, <1>l, <1>m DEF IInv, TypeOK
    <2> QED
      BY <1>s, <2>1, <2>2
  <1>d. /\ Held(r)' = Held(r) \cup {v}
        /\ \A s \in Request : s # r => Held(s)' = Held(s)
    BY <1>a, NoneAssumption DEF IInv, TypeOK, Held
  <1>1. TypeOK'
    BY <1>a, <1>b, <1>c DEF IInv, TypeOK, Active
  <1>2. LockedRowsCurrent'
    <2>1. ASSUME NEW w \in Variant PROVE HolderIsCurrent(w)'
      <3>0. HolderIsCurrent(w)
        BY DEF IInv, LockedRowsCurrent
      <3>1. CASE w = v
        BY <1>a, <1>b, <1>c, <3>1 DEF IInv, TypeOK, Session, HolderIsCurrent
      <3>2. CASE w # v /\ lockedBy[w] = r
        BY <1>a, <1>b, <1>c, <3>0, <3>2 DEF IInv, TypeOK, HolderIsCurrent, Session
      <3>3. CASE w # v /\ lockedBy[w] # r
        BY <1>a, <1>b, <1>c, <3>0, <3>3 DEF IInv, TypeOK, HolderIsCurrent
      <3> QED
        BY <3>1, <3>2, <3>3
    <2>2. ASSUME NEW s \in Request PROVE LinesGetLocked(s)'
      <3>0. LinesGetLocked(s)
        BY DEF IInv, LockedRowsCurrent
      <3>1. CASE s = r
        BY <1>a, <1>c, <1>d, <3>0, <3>1 DEF LinesGetLocked
      <3>2. CASE s # r
        BY <1>a, <1>c, <1>d, <3>0, <3>2 DEF LinesGetLocked
      <3> QED
        BY <3>1, <3>2
    <2> QED
      BY <2>1, <2>2 DEF LockedRowsCurrent
  <1>3. StockConserved'
    BY <1>b DEF IInv, StockConserved
  <1>4. AllOrNothing'
    BY <1>a, <1>b, <1>c DEF IInv, AllOrNothing
  <1> QED
    BY <1>1, <1>2, <1>3, <1>4 DEF IInv

\* The two ways to leave the coupon step touch nothing but the session.
LEMMA CouponKeeps ==
  ASSUME IInv, NEW r \in Request, NoCouponApplied(r) \/ ReadCoupon(r)
  PROVE  IInv'
  <1> USE DEF rows, history
  <1>a. /\ req[r].pc = "coupon" /\ req'[r].pc = "commit" /\ req' \in [Request -> Session]
        /\ \A s \in Request : s # r => req'[s] = req[s]
        /\ req'[r].user = req[r].user /\ req'[r].lines = req[r].lines
        /\ req'[r].seen = req[r].seen
        /\ UNCHANGED <<rows, adm, history>>
    <2> DEFINE plain == [req[r] EXCEPT !.pc = "commit"]
               coupon == [req[r] EXCEPT !.pc = "commit", !.uses = timesUsed[req[r].code]]
    <2>1. CASE NoCouponApplied(r)
      <3>1. /\ plain \in Session /\ plain.pc = "commit" /\ plain.user = req[r].user
            /\ plain.lines = req[r].lines /\ plain.seen = req[r].seen
        BY DEF IInv, TypeOK, Session, Active
      <3>2. req'[r] = plain /\ \A s \in Request : s # r => req'[s] = req[s]
        BY <2>1 DEF NoCouponApplied, IInv, TypeOK
      <3> QED
        BY <2>1, <3>1, <3>2 DEF NoCouponApplied, IInv, TypeOK
    <2>2. CASE ReadCoupon(r)
      <3>0. req[r].code \in Coupon /\ timesUsed[req[r].code] \in Nat
        BY <2>2 DEF ReadCoupon, IInv, TypeOK, Session
      <3>1. /\ coupon \in Session /\ coupon.pc = "commit" /\ coupon.user = req[r].user
            /\ coupon.lines = req[r].lines /\ coupon.seen = req[r].seen
        BY <3>0 DEF IInv, TypeOK, Session, Active
      <3>2. req'[r] = coupon /\ \A s \in Request : s # r => req'[s] = req[s]
        BY <2>2 DEF ReadCoupon, IInv, TypeOK
      <3> QED
        BY <2>2, <3>1, <3>2 DEF ReadCoupon, IInv, TypeOK
    <2> QED
      BY <2>1, <2>2
  <1>1. TypeOK'
    BY <1>a DEF IInv, TypeOK, Active
  <1>2. LockedRowsCurrent'
    <2>1. ASSUME NEW v \in Variant PROVE HolderIsCurrent(v)'
      BY <1>a DEF IInv, TypeOK, LockedRowsCurrent, HolderIsCurrent
    <2>2. ASSUME NEW s \in Request PROVE LinesGetLocked(s)'
      <3>1. Held(s)' = Held(s)
        BY <1>a DEF Held
      <3>2. LinesGetLocked(s)
        BY DEF IInv, LockedRowsCurrent
      <3> QED
        BY <1>a, <3>1, <3>2 DEF LinesGetLocked
    <2> QED
      BY <2>1, <2>2 DEF LockedRowsCurrent
  <1>3. StockConserved'
    BY <1>a DEF IInv, StockConserved
  <1>4. AllOrNothing'
    BY <1>a DEF IInv, AllOrNothing
  <1> QED
    BY <1>1, <1>2, <1>3, <1>4 DEF IInv

\* What a commit writes, given that its rows are still the ones it read.
LEMMA CommitWrites ==
  ASSUME IInv, NEW r \in Request, Commit(r)
  PROVE  /\ req[r].lines \in Lines /\ req[r].lines # NoLines /\ req[r].user \in User
         /\ \A v \in Variant : req[r].lines[v] <= stock[v]
         /\ stock' = [v \in Variant |-> stock[v] - req[r].lines[v]]
         /\ \A v \in Variant : req[r].lines[v] > 0 => lockedBy[v] = r
         /\ order' = [order EXCEPT ![r] = [user |-> req[r].user, code |-> req[r].code,
                                           lines |-> req[r].lines]]
  <1> DEFINE lines == req[r].lines
  <1>1. /\ lines \in Lines /\ req[r].user \in User /\ req[r].pc = "commit"
        /\ stock \in [Variant -> Nat]
    BY DEF Commit, IInv, TypeOK, Session, Active
  <1>2. LinesOf(lines) # {} /\ LinesOf(lines) \subseteq Held(r)
    BY <1>1 DEF IInv, LockedRowsCurrent, LinesGetLocked
  <1>3. lines # NoLines
    BY <1>2 DEF LinesOf, NoLines
  <1>4. ASSUME NEW v \in Variant, lines[v] > 0
        PROVE  lockedBy[v] = r /\ req[r].seen[v] = stock[v] /\ lines[v] <= stock[v]
    <2>1. lockedBy[v] = r
      BY <1>2, <1>4 DEF LinesOf, Held
    <2>2. HolderIsCurrent(v)
      BY DEF IInv, LockedRowsCurrent
    <2> QED
      BY <2>1, <2>2, NoneAssumption DEF HolderIsCurrent
  <1>5. ASSUME NEW v \in Variant
        PROVE  lines[v] <= stock[v]
    BY <1>1, <1>4, LinesAreNat
  <1>6. stock' = [v \in Variant |-> stock[v] - lines[v]]
    <2>1. stock' = [v \in Variant |-> IF lines[v] > 0 THEN req[r].seen[v] - lines[v] ELSE stock[v]]
      BY DEF Commit
    <2>2. ASSUME NEW v \in Variant
          PROVE  (IF lines[v] > 0 THEN req[r].seen[v] - lines[v] ELSE stock[v])
                   = stock[v] - lines[v]
      BY <1>1, <1>4, LinesAreNat
    <2> QED
      BY <2>1, <2>2
  <1>7. order' = [order EXCEPT ![r] = [user |-> req[r].user, code |-> req[r].code,
                                       lines |-> lines]]
    BY DEF Commit
  <1> QED
    BY <1>1, <1>3, <1>4, <1>5, <1>6, <1>7

LEMMA CommitKeeps ==
  ASSUME IInv, NEW r \in Request, Commit(r)
  PROVE  IInv'
  <1> DEFINE lines == req[r].lines
             u == req[r].user
             done == [req EXCEPT ![r] = Answered("done")]
  <1>a. /\ lines \in Lines /\ lines # NoLines /\ u \in User
        /\ \A v \in Variant : lines[v] <= stock[v]
        /\ stock' = [v \in Variant |-> stock[v] - lines[v]]
        /\ \A v \in Variant : lines[v] > 0 => lockedBy[v] = r
    BY CommitWrites
  <1>b. done \in [Request -> Session] /\ done[r].pc = "done"
    <2>1. Answered("done") \in Session /\ Answered("done").pc = "done"
      BY AnsweredType DEF Answered, NewRequest, Ended
    <2> QED
      BY <2>1 DEF IInv, TypeOK
  <1>c. /\ req' \in [Request -> Session] /\ req'[r].pc = "done"
        /\ \A s \in Request : s # r =>
             /\ req'[s].pc = req[s].pc /\ req'[s].user = req[s].user
             /\ req'[s].lines = req[s].lines /\ req'[s].want = req[s].want
             /\ req'[s].seen = req[s].seen
    <2>1. req' = Forget(done, u, DeletedLines(r))
      BY DEF Commit
    <2>2. \A s \in Request : s # r => done[s] = req[s]
      BY DEF IInv, TypeOK
    <2> HIDE DEF done
    <2> QED
      BY <1>b, <2>1, <2>2, ForgetKeeps
  <1>d. req[r].pc = "commit" /\ req[r].code \in Coupon \cup {None} /\ req[r].uses \in Nat
    BY DEF Commit, IInv, TypeOK, Session
  <1>1. TypeOK'
    <2>1. stock' \in [Variant -> Nat] /\ sold' \in [Variant -> Nat]
      <3>1. \A v \in Variant : stock[v] - lines[v] \in Nat /\ sold[v] + lines[v] \in Nat
        BY <1>a, LinesAreNat DEF IInv, TypeOK
      <3>2. sold' = [v \in Variant |-> sold[v] + lines[v]]
        BY DEF Commit
      <3> QED
        BY <1>a, <3>1, <3>2
    <2>2. lockedBy' \in [Variant -> Request \cup {None}]
      BY ReleasedType DEF Commit, IInv
    <2>3. cart' \in [User -> Lines]
      <3>1. [v \in Variant |-> IF v \in DeletedLines(r) THEN 0 ELSE cart[u][v]] \in Lines
        BY <1>a, BoundAssumption DEF IInv, TypeOK, Lines
      <3> QED
        BY <1>a, <3>1 DEF Commit, IInv, TypeOK
    <2>4. cartCoupon' \in [User -> Coupon \cup {None}]
      BY <1>a DEF Commit, IInv, TypeOK
    <2>5. timesUsed' \in [Coupon -> Nat]
      BY <1>d DEF Commit, IInv, TypeOK
    <2>6. order' \in [Request -> OrderRow]
      BY <1>a, <1>d DEF Commit, IInv, TypeOK, OrderRow
    <2>7. UNCHANGED <<adm, supplied>>
      BY DEF Commit
    <2>8. \A s \in Request : req'[s].pc \in Active => req'[s].user \in User
      BY <1>c DEF IInv, TypeOK, Active
    <2> QED
      BY <1>c, <2>1, <2>2, <2>3, <2>4, <2>5, <2>6, <2>7, <2>8 DEF IInv, TypeOK
  <1>l. lockedBy' = LocksReleased(r)
    BY DEF Commit
  <1>2. LockedRowsCurrent'
    <2>1. ASSUME NEW v \in Variant PROVE HolderIsCurrent(v)'
      <3>1. SUFFICES ASSUME lockedBy'[v] # None PROVE HolderIsCurrent(v)'
        BY DEF HolderIsCurrent
      <3>2. lockedBy'[v] = lockedBy[v] /\ lockedBy[v] # r /\ lockedBy[v] \in Request
        BY <1>l, <3>1, NoneAssumption DEF IInv, TypeOK, LocksReleased
      <3>3. stock'[v] = stock[v]
        BY <1>a, <3>2, LinesAreNat DEF IInv, TypeOK
      <3>4. HolderIsCurrent(v)
        BY DEF IInv, LockedRowsCurrent
      <3> QED
        BY <1>c, <3>1, <3>2, <3>3, <3>4 DEF HolderIsCurrent
    <2>2. ASSUME NEW s \in Request PROVE LinesGetLocked(s)'
      <3>1. s # r => Held(s)' = Held(s)
        BY <1>l, NoneAssumption DEF Held, LocksReleased
      <3>2. LinesGetLocked(s)
        BY DEF IInv, LockedRowsCurrent
      <3> QED
        BY <1>c, <3>1, <3>2 DEF LinesGetLocked
    <2> QED
      BY <2>1, <2>2 DEF LockedRowsCurrent
  <1>3. StockConserved'
    <2>1. \A v \in Variant : /\ stock'[v] = stock[v] - lines[v]
                             /\ sold'[v] = sold[v] + lines[v] /\ supplied'[v] = supplied[v]
      BY <1>a DEF Commit
    <2>2. \A v \in Variant : lines[v] \in Nat /\ stock[v] \in Nat /\ sold[v] \in Nat
      BY <1>a, LinesAreNat DEF IInv, TypeOK
    <2> QED
      BY <2>1, <2>2 DEF IInv, StockConserved
  <1>4. AllOrNothing'
    <2>1. /\ order'[r].lines = lines
          /\ \A s \in Request : s # r => order'[s] = order[s]
      BY CommitWrites DEF IInv, TypeOK
    <2> QED
      BY <1>a, <1>c, <2>1 DEF IInv, AllOrNothing
  <1> QED
    BY <1>1, <1>2, <1>3, <1>4 DEF IInv

\* Steps outside checkout that leave stock and orders alone, and of the
\* sessions change at most which loaded cart rows still exist.
LEMMA BystanderStep ==
  ASSUME IInv, UNCHANGED <<stock, lockedBy, order, supplied, sold>>,
         req' \in [Request -> Session],
         \A s \in Request :
           /\ req'[s].pc = req[s].pc /\ req'[s].lines = req[s].lines
           /\ req'[s].want = req[s].want /\ req'[s].seen = req[s].seen
  PROVE  LockedRowsCurrent' /\ StockConserved' /\ AllOrNothing'
  <1>1. ASSUME NEW v \in Variant PROVE HolderIsCurrent(v)'
    BY DEF IInv, TypeOK, LockedRowsCurrent, HolderIsCurrent
  <1>2. ASSUME NEW s \in Request PROVE LinesGetLocked(s)'
    <2>1. Held(s)' = Held(s)
      BY DEF Held
    <2>2. LinesGetLocked(s)
      BY DEF IInv, LockedRowsCurrent
    <2> QED
      BY <2>1, <2>2 DEF LinesGetLocked
  <1>3. StockConserved'
    BY DEF IInv, StockConserved
  <1>4. AllOrNothing'
    BY DEF IInv, AllOrNothing
  <1> QED
    BY <1>1, <1>2, <1>3, <1>4 DEF LockedRowsCurrent

LEMMA CartKeeps ==
  ASSUME IInv, CartStep
  PROVE  IInv'
  <1> USE DEF history
  <1>1. ASSUME NEW u \in User, NEW v \in Variant, NEW q \in 1 .. MaxQty,
               AddItem(u, v, q) \/ UpdateItem(u, v, q)
        PROVE  IInv'
    <2>1. UNCHANGED <<stock, lockedBy, cartCoupon, timesUsed, order, req, adm, supplied, sold>>
      BY <1>1 DEF AddItem, UpdateItem, SetLine
    <2>2. cart' \in [User -> Lines]
      <3>1. ASSUME NEW n \in 0 .. MaxQty, cart' = [cart EXCEPT ![u][v] = n]
            PROVE  cart' \in [User -> Lines]
        BY <3>1 DEF IInv, TypeOK, Lines
      <3>2. CASE AddItem(u, v, q)
        <4>1. cart[u][v] \in Nat
          BY LinesAreNat DEF IInv, TypeOK
        <4>2. cart[u][v] + q \in 0 .. MaxQty
          BY <3>2, <4>1, BoundAssumption DEF AddItem
        <4> QED
          BY <3>1, <3>2, <4>2 DEF AddItem, SetLine
      <3>3. CASE UpdateItem(u, v, q)
        <4>1. q \in 0 .. MaxQty
          BY BoundAssumption
        <4> QED
          BY <3>1, <3>3, <4>1 DEF UpdateItem, SetLine
      <3> QED
        BY <1>1, <3>2, <3>3
    <2>3. TypeOK'
      BY <2>1, <2>2 DEF IInv, TypeOK
    <2> QED
      BY <2>1, <2>3, BystanderStep DEF IInv, TypeOK
  <1>2. ASSUME NEW u \in User, NEW v \in Variant, RemoveItem(u, v)
        PROVE  IInv'
    <2>1. /\ UNCHANGED <<stock, lockedBy, cartCoupon, timesUsed, order, adm, supplied, sold>>
          /\ cart' = [cart EXCEPT ![u][v] = 0] /\ req' = Forget(req, u, {v})
      BY <1>2 DEF RemoveItem, SetLine
    <2>2. req' \in [Request -> Session] /\ \A s \in Request :
            /\ req'[s].pc = req[s].pc /\ req'[s].user = req[s].user
            /\ req'[s].lines = req[s].lines /\ req'[s].want = req[s].want
            /\ req'[s].seen = req[s].seen
      BY <2>1, ForgetKeeps DEF IInv, TypeOK
    <2>3. cart' \in [User -> Lines]
      BY <2>1, BoundAssumption DEF IInv, TypeOK, Lines
    <2>4. TypeOK'
      BY <2>1, <2>2, <2>3 DEF IInv, TypeOK
    <2> QED
      BY <2>1, <2>2, <2>4, BystanderStep DEF IInv
  <1>3. ASSUME NEW u \in User, NEW c \in Coupon, ApplyCoupon(u, c)
        PROVE  IInv'
    <2>1. TypeOK'
      BY <1>3 DEF ApplyCoupon, IInv, TypeOK
    <2> QED
      BY <1>3, <2>1, BystanderStep DEF ApplyCoupon, IInv, TypeOK
  <1>4. ASSUME NEW u \in User, ClearCoupon(u)
        PROVE  IInv'
    <2>1. TypeOK'
      BY <1>4 DEF ClearCoupon, IInv, TypeOK
    <2> QED
      BY <1>4, <2>1, BystanderStep DEF ClearCoupon, IInv, TypeOK
  <1> QED
    BY <1>1, <1>2, <1>3, <1>4 DEF CartStep

LEMMA AdminKeeps ==
  ASSUME IInv, NEW a \in AdminRequest,
         AdminStep(a) \/ \E v \in Variant : LoadVariant(a, v)
  PROVE  IInv'
  <1> USE DEF rows, history
  <1>a. NoEdit("done") \in Edit /\ NoEdit("done").pc = "done"
    BY DEF NoEdit, Edit
  <1>1. ASSUME NEW v \in Variant, LoadVariant(a, v)
        PROVE  IInv'
    <2> DEFINE loaded == [pc |-> "loaded", variant |-> v, seen |-> stock[v]]
    <2>1. loaded \in Edit /\ loaded.variant = v
      BY DEF Edit, IInv, TypeOK
    <2>2. adm' = [adm EXCEPT ![a] = loaded] /\ UNCHANGED <<rows, req, history>>
      BY <1>1 DEF LoadVariant
    <2>3. TypeOK'
      BY <2>1, <2>2 DEF IInv, TypeOK
    <2> QED
      BY <2>2, <2>3, BystanderStep DEF IInv, TypeOK
  <1>2. ASSUME KeepStock(a) PROVE IInv'
    <2>1. TypeOK'
      BY <1>2, <1>a DEF KeepStock, IInv, TypeOK
    <2> QED
      BY <1>2, <2>1, BystanderStep DEF KeepStock, IInv, TypeOK
  <1>3. ASSUME NEW q \in StockLevel, SetStock(a, q) PROVE IInv'
    <2> DEFINE v == adm[a].variant
    <2>1. v \in Variant /\ q \in Nat /\ lockedBy[v] = None
      BY <1>3, BoundAssumption DEF SetStock, RowFree, IInv, TypeOK
    <2>2. /\ stock' = [stock EXCEPT ![v] = q]
          /\ supplied' = [supplied EXCEPT ![v] = (supplied[v] + q) - stock[v]]
          /\ adm' = [adm EXCEPT ![a] = NoEdit("done")]
          /\ UNCHANGED <<lockedBy, cart, cartCoupon, timesUsed, order, req, sold>>
      BY <1>3 DEF SetStock
    <2>3. (supplied[v] + q) - stock[v] = q + sold[v] /\ sold[v] \in Nat
      BY <2>1 DEF IInv, TypeOK, StockConserved
    <2>4. TypeOK'
      BY <1>a, <2>1, <2>2, <2>3 DEF IInv, TypeOK
    <2>5. LockedRowsCurrent'
      <3>1. ASSUME NEW w \in Variant PROVE HolderIsCurrent(w)'
        BY <2>1, <2>2 DEF IInv, TypeOK, LockedRowsCurrent, HolderIsCurrent
      <3>2. ASSUME NEW s \in Request PROVE LinesGetLocked(s)'
        BY <2>2 DEF IInv, LockedRowsCurrent, LinesGetLocked, Held
      <3> QED
        BY <3>1, <3>2 DEF LockedRowsCurrent
    <2>6. StockConserved'
      BY <2>1, <2>2, <2>3 DEF IInv, TypeOK, StockConserved
    <2>7. AllOrNothing'
      BY <2>2 DEF IInv, AllOrNothing
    <2> QED
      BY <2>4, <2>5, <2>6, <2>7 DEF IInv
  <1> QED
    BY <1>1, <1>2, <1>3 DEF AdminStep

LEMMA NextIInv == IInv /\ [Next]_vars => IInv'
  <1> SUFFICES ASSUME IInv, [Next]_vars PROVE IInv'
    OBVIOUS
  <1>1. ASSUME NEW r \in Request, CheckoutStep(r) PROVE IInv'
    <2>1. CASE RefuseEmptyCart(r)
      BY <2>1, RollbackKeeps DEF RefuseEmptyCart, Active
    <2>2. CASE LoadItems(r)
      BY <2>2, LoadItemsKeeps
    <2>3. CASE LockVariant(r)
      BY <2>3, LockVariantKeeps
    <2>4. CASE RefuseStock(r)
      BY <2>4, RollbackKeeps DEF RefuseStock, Active
    <2>5. CASE DeadlockVictim(r)
      BY <2>5, RollbackKeeps DEF DeadlockVictim, Active
    <2>6. CASE NoCouponApplied(r) \/ ReadCoupon(r)
      BY <2>6, CouponKeeps
    <2>7. CASE RefuseCoupon(r)
      BY <2>7, RollbackKeeps DEF RefuseCoupon, Active
    <2>8. CASE Commit(r)
      BY <2>8, CommitKeeps
    <2> QED
      BY <1>1, <2>1, <2>2, <2>3, <2>4, <2>5, <2>6, <2>7, <2>8 DEF CheckoutStep
  <1>2. ASSUME NEW r \in Request, Crash(r) PROVE IInv'
    BY <1>2, RollbackKeeps DEF Crash
  <1>3. ASSUME NEW r \in Request, NEW u \in User, LoadCart(r, u) PROVE IInv'
    BY <1>3, LoadCartKeeps
  <1>4. ASSUME NEW a \in AdminRequest, AdminStep(a) \/ \E v \in Variant : LoadVariant(a, v)
        PROVE  IInv'
    BY <1>4, AdminKeeps
  <1>5. CASE CartStep
    BY <1>5, CartKeeps
  <1>6. CASE UNCHANGED vars
    <2>1. UNCHANGED <<stock, lockedBy, cart, cartCoupon, timesUsed, order, req, adm, supplied, sold>>
      BY <1>6 DEF vars, rows, history
    <2>2. TypeOK'
      BY <2>1 DEF IInv, TypeOK
    <2> QED
      BY <2>1, <2>2, BystanderStep DEF IInv, TypeOK
  <1> QED
    BY <1>1, <1>2, <1>3, <1>4, <1>5, <1>6 DEF Next

\* The inductive invariant holds in every reachable state.
THEOREM Invariance == Spec => []IInv
  BY InitIInv, NextIInv, PTL DEF Spec

\* Every row keeps a legal value whatever the interleaving; in particular no
\* stock_quantity becomes negative (orders.py 97-122).
THEOREM TypeCorrect == Spec => []TypeOK
  <1>1. IInv => TypeOK
    BY DEF IInv
  <1> QED
    BY <1>1, Invariance, PTL

\* The row lock makes every checkout compute from current stock.
THEOREM LocksProtectStock == Spec => []LockedRowsCurrent
  <1>1. IInv => LockedRowsCurrent
    BY DEF IInv
  <1> QED
    BY <1>1, Invariance, PTL

\* What is left and what was sold add up to what was supplied: checkout
\* neither oversells nor loses stock.
THEOREM NeverOversells == Spec => []StockConserved
  <1>1. IInv => StockConserved
    BY DEF IInv
  <1> QED
    BY <1>1, Invariance, PTL

\* An order exists, whole, exactly for the requests answered with one.
THEOREM OrdersAreWhole == Spec => []AllOrNothing
  <1>1. IInv => AllOrNothing
    BY DEF IInv
  <1> QED
    BY <1>1, Invariance, PTL

(***************************************************************************)
(* Checkout implements Inventory: the commit of a request maps to Sell, an *)
(* administrator's write to SetStock, and every other step to a stutter.   *)
(***************************************************************************)
Bought == [r \in Request |-> order[r].lines]

LEMMA InitMaps == Init => Abstract!Init
  BY DEF Init, Abstract!Init, Abstract!NoLines, NoOrder, NoLines

\* No step but a commit or an administrator's write touches stock or orders.
LEMMA OthersStutter ==
  ASSUME Next, \A r \in Request : ~Commit(r),
         \A a \in AdminRequest, q \in StockLevel : ~SetStock(a, q)
  PROVE  UNCHANGED <<stock, order>>
  <1> USE DEF rows, history
  <1>1. ASSUME NEW r \in Request, CheckoutStep(r) \/ Crash(r) PROVE UNCHANGED <<stock, order>>
    BY <1>1 DEF CheckoutStep, Crash, RefuseEmptyCart, LoadItems, LockVariant, RefuseStock,
                DeadlockVictim, NoCouponApplied, ReadCoupon, RefuseCoupon, Rollback
  <1>2. ASSUME NEW r \in Request, NEW u \in User, LoadCart(r, u) PROVE UNCHANGED <<stock, order>>
    BY <1>2 DEF LoadCart
  <1>3. ASSUME NEW a \in AdminRequest, AdminStep(a) \/ \E v \in Variant : LoadVariant(a, v)
        PROVE  UNCHANGED <<stock, order>>
    BY <1>3 DEF AdminStep, KeepStock, LoadVariant
  <1>4. CASE CartStep
    BY <1>4 DEF CartStep, AddItem, UpdateItem, RemoveItem, ApplyCoupon, ClearCoupon, SetLine
  <1> QED
    BY <1>1, <1>2, <1>3, <1>4 DEF Next

LEMMA StepMaps == IInv /\ [Next]_vars => [Abstract!Next]_(Abstract!vars)
  <1> SUFFICES ASSUME IInv, [Next]_vars PROVE [Abstract!Next]_(Abstract!vars)
    OBVIOUS
  <1>1. ASSUME NEW r \in Request, Commit(r) PROVE Abstract!Sell(r)
    <2> DEFINE lines == req[r].lines
    <2>1. /\ lines \in Lines /\ lines # NoLines
          /\ \A v \in Variant : lines[v] <= stock[v]
          /\ stock' = [v \in Variant |-> stock[v] - lines[v]]
          /\ order' = [order EXCEPT ![r] = [user |-> req[r].user, code |-> req[r].code,
                                            lines |-> lines]]
      BY <1>1, CommitWrites
    <2>2. order[r].lines = NoLines
      BY <1>1 DEF Commit, IInv, AllOrNothing
    <2>3. Bought' = [Bought EXCEPT ![r] = lines]
      BY <2>1 DEF Bought, IInv, TypeOK
    <2> QED
      BY <2>1, <2>2, <2>3 DEF Abstract!Sell, Abstract!Lines, Abstract!NoLines, Lines, NoLines, Bought
  <1>2. ASSUME NEW a \in AdminRequest, NEW q \in StockLevel, SetStock(a, q)
        PROVE  Abstract!SetStock(adm[a].variant) /\ adm[a].variant \in Variant
    BY <1>2 DEF SetStock, Abstract!SetStock, IInv, TypeOK
  <1>3. CASE UNCHANGED <<stock, order>>
    BY <1>3 DEF Abstract!vars
  <1>4. CASE UNCHANGED vars
    BY <1>4 DEF Abstract!vars, vars, rows
  <1> QED
    BY <1>1, <1>2, <1>3, <1>4, OthersStutter DEF Abstract!Next

\* For any number of concurrent requests the stock and the orders behave as
\* if every order had been sold in one step from current stock.
THEOREM Refinement == Spec => SellsAtomically
  BY InitMaps, Invariance, StepMaps, PTL DEF Spec, SellsAtomically, Abstract!Spec

(***************************************************************************)
(* The coupon's counter and the deleted cart rows.  Both properties are    *)
(* about what a session read earlier and uses at its commit, so both need  *)
(* an invariant over the sessions in memory: the count read is covered by  *)
(* orders and below the limit, and the rows to delete are rows of the      *)
(* order.  The counter is not locked, and is not exact; what keeps it      *)
(* within the limit is that every commit writes a value one above one that *)
(* was below it.                                                           *)
(***************************************************************************)
CountReadHolds(r) ==
  LET c == req[r].code
  IN  req[r].pc = "commit" /\ c # None =>
        /\ req[r].uses <= Cardinality(OrdersWith(c))
        /\ UsageLimit[c] # None => req[r].uses < UsageLimit[c]

CountsInv == UsesHaveOrders /\ CounterWithinLimit /\ \A r \in Request : CountReadHolds(r)

LoadedRowsAreLines == \A r \in Request : req[r].live \subseteq LinesOf(req[r].lines)

\* What a step that is not its own leaves of a session.
SessionKept(s) ==
  /\ req'[s].pc = req[s].pc /\ req'[s].user = req[s].user
  /\ req'[s].code = req[s].code /\ req'[s].lines = req[s].lines
  /\ req'[s].uses = req[s].uses /\ req'[s].live \subseteq req[s].live

LEMMA ForgetShrinks ==
  ASSUME NEW rq \in [Request -> Session], NEW u, NEW gone, NEW r \in Request
  PROVE  Forget(rq, u, gone)[r].live \subseteq rq[r].live
  BY DEF Forget, Session

\* A step touches at most the session it belongs to, and forgets rows in
\* those of one customer.
LEMMA OneSessionMoves ==
  ASSUME IInv, Next
  PROVE  \/ \A s \in Request : SessionKept(s)
         \/ \E r \in Request :
              /\ \/ \E u \in User : LoadCart(r, u)
                 \/ LoadItems(r) \/ LockVariant(r)
                 \/ NoCouponApplied(r) \/ ReadCoupon(r)
                 \/ Commit(r) \/ Rollback(r)
              /\ \A s \in Request : s # r => SessionKept(s)
  <1> USE DEF history
  <1>0. req \in [Request -> Session]
    BY DEF IInv, TypeOK
  <1>1. ASSUME NEW r \in Request, NEW now, req' = [req EXCEPT ![r] = now]
        PROVE  \A s \in Request : s # r => SessionKept(s)
    BY <1>0, <1>1 DEF SessionKept
  <1>2. ASSUME NEW r \in Request, CheckoutStep(r) \/ Crash(r) \/ \E u \in User : LoadCart(r, u)
        PROVE  /\ \/ \E u \in User : LoadCart(r, u)
                  \/ LoadItems(r) \/ LockVariant(r)
                  \/ NoCouponApplied(r) \/ ReadCoupon(r)
                  \/ Commit(r) \/ Rollback(r)
               /\ \A s \in Request : s # r => SessionKept(s)
    <2>1. CASE RefuseEmptyCart(r) \/ RefuseStock(r) \/ DeadlockVictim(r) \/ RefuseCoupon(r) \/ Crash(r)
      <3>1. Rollback(r)
        BY <2>1 DEF RefuseEmptyCart, RefuseStock, DeadlockVictim, RefuseCoupon, Crash
      <3> QED
        BY <3>1, <1>1 DEF Rollback
    <2>2. CASE LoadItems(r)
      BY <2>2, <1>1, <1>0 DEF LoadItems, SessionKept
    <2>3. CASE LockVariant(r)
      BY <2>3, <1>1, <1>0 DEF LockVariant, SessionKept
    <2>4. CASE NoCouponApplied(r)
      BY <2>4, <1>1, <1>0 DEF NoCouponApplied, SessionKept
    <2>5. CASE ReadCoupon(r)
      BY <2>5, <1>1, <1>0 DEF ReadCoupon, SessionKept
    <2>6. CASE Commit(r)
      <3> DEFINE done == [req EXCEPT ![r] = Answered("done")]
      <3>1. req' = Forget(done, req[r].user, DeletedLines(r))
        BY <2>6 DEF Commit
      <3>2. done \in [Request -> Session] /\ \A s \in Request : s # r => done[s] = req[s]
        BY <1>0, AnsweredType DEF Answered, Ended
      <3> HIDE DEF done
      <3>3. \A s \in Request : s # r => SessionKept(s)
        BY <3>1, <3>2, ForgetKeeps, ForgetShrinks DEF SessionKept
      <3> QED
        BY <2>6, <3>3
    <2>7. CASE \E u \in User : LoadCart(r, u)
      <3>. PICK u \in User : LoadCart(r, u)
        BY <2>7
      <3>1. \A s \in Request : s # r => SessionKept(s)
        BY <1>0 DEF LoadCart, SessionKept
      <3> QED
        BY <3>1
    <2> QED
      BY <1>2, <2>1, <2>2, <2>3, <2>4, <2>5, <2>6, <2>7 DEF CheckoutStep
  <1>3. ASSUME UNCHANGED req PROVE \A s \in Request : SessionKept(s)
    BY <1>3 DEF SessionKept
  <1>4. ASSUME NEW a \in AdminRequest, AdminStep(a) \/ \E v \in Variant : LoadVariant(a, v)
        PROVE  UNCHANGED req
    BY <1>4 DEF AdminStep, KeepStock, SetStock, LoadVariant
  <1>5. ASSUME CartStep PROVE \A s \in Request : SessionKept(s)
    <2>1. ASSUME NEW u \in User, NEW v \in Variant, RemoveItem(u, v)
          PROVE  \A s \in Request : SessionKept(s)
      BY <1>0, <2>1, ForgetKeeps, ForgetShrinks DEF RemoveItem, SessionKept
    <2>2. CASE UNCHANGED req
      BY <1>3, <2>2
    <2> QED
      BY <1>5, <2>1, <2>2 DEF CartStep, AddItem, UpdateItem, ApplyCoupon, ClearCoupon
  <1> QED
    BY <1>2, <1>3, <1>4, <1>5 DEF Next

\* The counters and orders change only in a commit.
LEMMA OnlyCommitCounts ==
  ASSUME Next, \A r \in Request : ~Commit(r)
  PROVE  UNCHANGED <<timesUsed, order>>
  <1> USE DEF rows, history
  <1>1. ASSUME NEW r \in Request, CheckoutStep(r) \/ Crash(r) PROVE UNCHANGED <<timesUsed, order>>
    BY <1>1 DEF CheckoutStep, Crash, RefuseEmptyCart, LoadItems, LockVariant, RefuseStock,
                DeadlockVictim, NoCouponApplied, ReadCoupon, RefuseCoupon, Rollback
  <1>2. ASSUME NEW r \in Request, NEW u \in User, LoadCart(r, u)
        PROVE  UNCHANGED <<timesUsed, order>>
    BY <1>2 DEF LoadCart
  <1>3. ASSUME NEW a \in AdminRequest, AdminStep(a) \/ \E v \in Variant : LoadVariant(a, v)
        PROVE  UNCHANGED <<timesUsed, order>>
    BY <1>3 DEF AdminStep, KeepStock, SetStock, LoadVariant
  <1>4. CASE CartStep
    BY <1>4 DEF CartStep, AddItem, UpdateItem, RemoveItem, ApplyCoupon, ClearCoupon, SetLine
  <1> QED
    BY <1>1, <1>2, <1>3, <1>4 DEF Next

\* A session that stands before its commit after a step with a coupon stood
\* there before it, or has just read the counter.
LEMMA AtCommitBy ==
  ASSUME IInv, Next, NEW s \in Request, req'[s].pc = "commit", req'[s].code # None
  PROVE  SessionKept(s) \/ ReadCoupon(s)
  <1>0. req \in [Request -> Session]
    BY DEF IInv, TypeOK
  <1>1. SUFFICES ASSUME \/ \E u \in User : LoadCart(s, u)
                        \/ LoadItems(s) \/ LockVariant(s)
                        \/ NoCouponApplied(s) \/ Commit(s) \/ Rollback(s)
                 PROVE  FALSE
    BY OneSessionMoves
  <1>2. CASE \E u \in User : LoadCart(s, u)
    BY <1>0, <1>2 DEF LoadCart, Session
  <1>3. CASE LoadItems(s)
    BY <1>0, <1>3 DEF LoadItems, Session
  <1>4. CASE LockVariant(s)
    <2>1. \E now : req' = [req EXCEPT ![s] = now] /\ now.pc # "commit"
      BY <1>0, <1>4 DEF LockVariant, Session
    <2> QED
      BY <1>0, <2>1
  <1>5. CASE NoCouponApplied(s)
    BY <1>0, <1>5 DEF NoCouponApplied, Session
  <1>6. CASE Commit(s)
    <2>1. Answered("done") \in Session /\ Answered("done").pc = "done"
      BY AnsweredType DEF Answered, NewRequest, Ended
    <2> DEFINE done == [req EXCEPT ![s] = Answered("done")]
    <2>2. done \in [Request -> Session] /\ done[s].pc = "done"
      BY <1>0, <2>1
    <2>3. req' = Forget(done, req[s].user, DeletedLines(s))
      BY <1>6 DEF Commit
    <2> HIDE DEF done
    <2> QED
      BY <1>1, <2>2, <2>3, ForgetKeeps
  <1>7. CASE Rollback(s)
    BY <1>0, <1>7 DEF Rollback, Answered, NewRequest
  <1> QED
    BY <1>1, <1>2, <1>3, <1>4, <1>5, <1>6, <1>7

\* An order once placed keeps its coupon, so the orders of a coupon only
\* become more; the commit of r adds r to those of its code.
LEMMA OrdersWithGrow ==
  ASSUME IInv, NEW r \in Request, Commit(r), NEW c \in Coupon
  PROVE  /\ Cardinality(OrdersWith(c)) \in Nat /\ Cardinality(OrdersWith(c)') \in Nat
         /\ Cardinality(OrdersWith(c)') >= Cardinality(OrdersWith(c))
         /\ req[r].code = c => Cardinality(OrdersWith(c)') = Cardinality(OrdersWith(c)) + 1
  <1>1. order[r].code = None /\ order \in [Request -> OrderRow]
    BY DEF Commit, IInv, TypeOK, AllOrNothing, NoOrder
  <1>2. order' = [order EXCEPT ![r] = [user |-> req[r].user, code |-> req[r].code,
                                       lines |-> req[r].lines]]
    BY CommitWrites
  <1>3. r \notin OrdersWith(c)
    BY <1>1, NoneAssumption DEF OrdersWith
  <1>4. OrdersWith(c)' = IF req[r].code = c THEN OrdersWith(c) \cup {r} ELSE OrdersWith(c)
    BY <1>1, <1>2, <1>3 DEF OrdersWith
  <1>5. IsFiniteSet(OrdersWith(c))
    BY FiniteAssumption, FS_Subset DEF OrdersWith
  <1>6. Cardinality(OrdersWith(c)) \in Nat
    BY <1>5, FS_CardinalityType
  <1>7. Cardinality(OrdersWith(c) \cup {r}) = Cardinality(OrdersWith(c)) + 1
    BY <1>3, <1>5, FS_AddElement
  <1> QED
    BY <1>4, <1>6, <1>7

LEMMA InitCounts == Init => CountsInv
  <1> SUFFICES ASSUME Init PROVE CountsInv
    OBVIOUS
  <1>1. ASSUME NEW c \in Coupon
        PROVE  timesUsed[c] = 0 /\ Cardinality(OrdersWith(c)) \in Nat
    <2>1. IsFiniteSet(OrdersWith(c))
      BY FiniteAssumption, FS_Subset DEF OrdersWith
    <2> QED
      BY <2>1, FS_CardinalityType DEF Init
  <1>2. \A c \in Coupon : UsageLimit[c] # None => UsageLimit[c] \in Nat
    BY LimitAssumption
  <1>3. \A r \in Request : req[r].pc = "new"
    BY DEF Init, NewRequest
  <1> QED
    BY <1>1, <1>2, <1>3 DEF CountsInv, UsesHaveOrders, CounterWithinLimit, CountReadHolds

LEMMA NextCounts == IInv /\ CountsInv /\ [Next]_vars => CountsInv'
  <1> SUFFICES ASSUME IInv, CountsInv, [Next]_vars PROVE CountsInv'
    OBVIOUS
  <1>t. /\ timesUsed \in [Coupon -> Nat]
        /\ \A s \in Request : req[s].uses \in Nat /\ req[s].code \in Coupon \cup {None}
        /\ \A c \in Coupon : UsageLimit[c] # None => UsageLimit[c] \in Nat
    BY LimitAssumption DEF IInv, TypeOK, Session
  <1>r. ASSUME NEW s \in Request, ReadCoupon(s)
        PROVE  /\ req'[s].code = req[s].code /\ req[s].code \in Coupon
               /\ req'[s].uses = timesUsed[req[s].code] /\ ~Exhausted(req[s].code)
    BY <1>r, <1>t DEF ReadCoupon, IInv, TypeOK, Session
  <1>1. CASE UNCHANGED vars
    BY <1>1 DEF vars, rows, CountsInv, UsesHaveOrders, CounterWithinLimit, CountReadHolds, OrdersWith
  <1>2. CASE Next /\ \A r \in Request : ~Commit(r)
    <2>1. UNCHANGED <<timesUsed, order>> /\ \A c : UNCHANGED OrdersWith(c)
      BY <1>2, OnlyCommitCounts DEF OrdersWith
    <2>2. UsesHaveOrders' /\ CounterWithinLimit'
      BY <2>1 DEF CountsInv, UsesHaveOrders, CounterWithinLimit
    <2>3. ASSUME NEW s \in Request PROVE CountReadHolds(s)'
      <3>1. SUFFICES ASSUME req'[s].pc = "commit", req'[s].code # None
                     PROVE  CountReadHolds(s)'
        BY DEF CountReadHolds
      <3>2. CASE SessionKept(s)
        BY <3>1, <3>2, <2>1 DEF CountsInv, CountReadHolds, SessionKept
      <3>3. CASE ReadCoupon(s)
        BY <3>3, <1>r, <1>t, <2>1 DEF CountsInv, UsesHaveOrders, CountReadHolds, Exhausted
      <3> QED
        BY <1>2, <3>1, <3>2, <3>3, AtCommitBy
    <2> QED
      BY <2>2, <2>3 DEF CountsInv
  <1>3. ASSUME Next, NEW r \in Request, Commit(r) PROVE CountsInv'
    <2> DEFINE k == req[r].code
    <2>1. req[r].pc = "commit" /\ k \in Coupon \cup {None}
      BY <1>3, <1>t DEF Commit
    <2>2. timesUsed' = IF k = None THEN timesUsed ELSE [timesUsed EXCEPT ![k] = req[r].uses + 1]
      BY <1>3 DEF Commit
    <2>3. k # None => /\ k \in Coupon /\ req[r].uses <= Cardinality(OrdersWith(k))
                      /\ UsageLimit[k] # None => req[r].uses < UsageLimit[k]
      BY <2>1 DEF CountsInv, CountReadHolds
    <2>4. ASSUME NEW c \in Coupon
          PROVE  /\ timesUsed'[c] <= Cardinality(OrdersWith(c)')
                 /\ UsageLimit[c] # None => timesUsed'[c] <= UsageLimit[c]
      <3>1. timesUsed[c] <= Cardinality(OrdersWith(c)) /\ timesUsed[c] \in Nat
        BY <1>t DEF CountsInv, UsesHaveOrders
      <3>2. UsageLimit[c] # None => timesUsed[c] <= UsageLimit[c] /\ UsageLimit[c] \in Nat
        BY <1>t DEF CountsInv, CounterWithinLimit
      <3>3. /\ Cardinality(OrdersWith(c)) \in Nat /\ Cardinality(OrdersWith(c)') \in Nat
            /\ Cardinality(OrdersWith(c)') >= Cardinality(OrdersWith(c))
            /\ k = c => Cardinality(OrdersWith(c)') = Cardinality(OrdersWith(c)) + 1
        BY <1>3, OrdersWithGrow
      <3>4. CASE k = c
        <4>1. timesUsed'[c] = req[r].uses + 1
          BY <1>t, <2>2, <3>4, NoneAssumption
        <4> QED
          BY <1>t, <2>3, <3>2, <3>3, <3>4, <4>1, NoneAssumption
      <3>5. CASE k # c
        <4>1. timesUsed'[c] = timesUsed[c]
          BY <1>t, <2>2, <3>5
        <4> QED
          BY <3>1, <3>2, <3>3, <4>1
      <3> QED
        BY <3>4, <3>5
    <2>5. ASSUME NEW s \in Request PROVE CountReadHolds(s)'
      <3>1. SUFFICES ASSUME req'[s].pc = "commit", req'[s].code # None
                     PROVE  CountReadHolds(s)'
        BY DEF CountReadHolds
      <3>2. ~ReadCoupon(s)
        <4>1. CASE s = r
          BY <2>1, <4>1 DEF ReadCoupon
        <4>2. ASSUME s # r, ReadCoupon(s) PROVE FALSE
          <5>1. timesUsed' = timesUsed /\ order' = order
            BY <4>2 DEF ReadCoupon, rows
          <5>2. order[r].lines = NoLines /\ order \in [Request -> OrderRow]
            BY <2>1 DEF IInv, TypeOK, AllOrNothing
          <5>3. order'[r].lines = req[r].lines /\ req[r].lines # NoLines
            BY <1>3, <5>2, CommitWrites
          <5> QED
            BY <5>1, <5>2, <5>3
        <4> QED
          BY <4>1, <4>2
      <3>3. SessionKept(s)
        BY <1>3, <3>1, <3>2, AtCommitBy
      <3>. PICK c \in Coupon : c = req[s].code
        BY <1>t, <3>1, <3>3 DEF SessionKept
      <3>4. /\ req[s].pc = "commit" /\ req'[s].code = c /\ req[s].uses = req'[s].uses
            /\ req[s].uses \in Nat /\ c # None
        BY <1>t, <3>1, <3>3 DEF SessionKept
      <3>5. /\ req[s].uses <= Cardinality(OrdersWith(c))
            /\ UsageLimit[c] # None => req[s].uses < UsageLimit[c]
        BY <3>4 DEF CountsInv, CountReadHolds
      <3>6. /\ Cardinality(OrdersWith(c)) \in Nat /\ Cardinality(OrdersWith(c)') \in Nat
            /\ Cardinality(OrdersWith(c)') >= Cardinality(OrdersWith(c))
        BY <1>3, OrdersWithGrow
      <3>7. req[s].uses <= Cardinality(OrdersWith(c)')
        BY <3>4, <3>5, <3>6
      <3> QED
        BY <3>4, <3>5, <3>7 DEF CountReadHolds
    <2> QED
      BY <2>4, <2>5 DEF CountsInv, UsesHaveOrders, CounterWithinLimit
  <1> QED
    BY <1>1, <1>2, <1>3

THEOREM CountsHold == Spec => []CountsInv
  BY InitCounts, NextCounts, Invariance, PTL DEF Spec

\* No coupon use is counted without an order to match it (orders.py 167-175),
\* for any number of checkouts that crash, are refused or race.
THEOREM UsesAreOrdered == Spec => []UsesHaveOrders
  <1>1. CountsInv => UsesHaveOrders
    BY DEF CountsInv
  <1> QED
    BY <1>1, CountsHold, PTL

\* times_used never passes usage_limit (coupons.py 35-36), although the
\* check and the write are a transaction apart and nothing is locked.
THEOREM CounterStaysBelowLimit == Spec => []CounterWithinLimit
  <1>1. CountsInv => CounterWithinLimit
    BY DEF CountsInv
  <1> QED
    BY <1>1, CountsHold, PTL

\* The rows a session would delete are rows of the lines it ordered: it
\* loads both at once, and afterwards rows are only forgotten.
LEMMA InitLoadedRows == Init => LoadedRowsAreLines
  BY DEF Init, LoadedRowsAreLines, NewRequest

LEMMA NextLoadedRows == IInv /\ LoadedRowsAreLines /\ [Next]_vars => LoadedRowsAreLines'
  <1> SUFFICES ASSUME IInv, LoadedRowsAreLines, [Next]_vars, NEW s \in Request
               PROVE  req'[s].live \subseteq LinesOf(req'[s].lines)
    BY DEF LoadedRowsAreLines
  <1>0. req \in [Request -> Session] /\ req[s].live \subseteq LinesOf(req[s].lines)
    BY DEF IInv, TypeOK, LoadedRowsAreLines
  <1>1. CASE UNCHANGED vars
    BY <1>0, <1>1 DEF vars
  <1>2. CASE SessionKept(s)
    BY <1>0, <1>2 DEF SessionKept
  <1>a. Answered("done").live = {} /\ Answered("failed").live = {}
    BY DEF Answered, NewRequest
  <1>3. CASE Next /\ ~SessionKept(s)
    <2>1. \/ \E u \in User : LoadCart(s, u)
          \/ LoadItems(s) \/ LockVariant(s)
          \/ NoCouponApplied(s) \/ ReadCoupon(s)
          \/ Commit(s) \/ Rollback(s)
      BY <1>3, OneSessionMoves
    <2>2. CASE \E u \in User : LoadCart(s, u)
      BY <1>0, <2>2 DEF LoadCart, Session
    <2>3. CASE LoadItems(s)
      BY <1>0, <2>3 DEF LoadItems, Session
    <2>4. CASE LockVariant(s)
      <3> DEFINE v == req[s].want
                 locked == [req[s] EXCEPT !.seen[v] = stock[v]]
                 next(w) == [locked EXCEPT !.want = w]
                 last == [locked EXCEPT !.want = None, !.pc = "coupon"]
      <3>1. /\ \A w : next(w).live = req[s].live /\ next(w).lines = req[s].lines
            /\ last.live = req[s].live /\ last.lines = req[s].lines
        BY <1>0 DEF Session
      <3>2. \/ \E w : req' = [req EXCEPT ![s] = next(w)]
            \/ req' = [req EXCEPT ![s] = last]
        BY <2>4 DEF LockVariant
      <3> HIDE DEF next, last
      <3> QED
        BY <1>0, <3>1, <3>2
    <2>5. CASE NoCouponApplied(s) \/ ReadCoupon(s)
      BY <1>0, <2>5 DEF NoCouponApplied, ReadCoupon, Session
    <2>6. CASE Commit(s)
      <3> DEFINE done == [req EXCEPT ![s] = Answered("done")]
      <3>1. done \in [Request -> Session] /\ done[s].live = {}
        BY <1>0, <1>a, AnsweredType DEF Answered, Ended
      <3>2. req' = Forget(done, req[s].user, DeletedLines(s))
        BY <2>6 DEF Commit
      <3> HIDE DEF done
      <3> QED
        BY <3>1, <3>2, ForgetShrinks
    <2>7. CASE Rollback(s)
      BY <1>0, <1>a, <2>7 DEF Rollback
    <2> QED
      BY <2>1, <2>2, <2>3, <2>4, <2>5, <2>6, <2>7
  <1> QED
    BY <1>1, <1>2, <1>3

THEOREM LoadedRowsHold == Spec => []LoadedRowsAreLines
  BY InitLoadedRows, NextLoadedRows, Invariance, PTL DEF Spec

\* Only its own commit answers a request that stands before it.
LEMMA AnsweredByCommit ==
  ASSUME IInv, Next, NEW s \in Request, req[s].pc = "commit", req'[s].pc = "done"
  PROVE  Commit(s)
  <1>0. req \in [Request -> Session]
    BY DEF IInv, TypeOK
  <1>1. ~SessionKept(s)
    BY DEF SessionKept
  <1>2. \/ \E u \in User : LoadCart(s, u)
        \/ LoadItems(s) \/ LockVariant(s)
        \/ NoCouponApplied(s) \/ ReadCoupon(s)
        \/ Commit(s) \/ Rollback(s)
    BY <1>1, OneSessionMoves
  <1>3. ~Rollback(s)
    BY <1>0 DEF Rollback, Answered, NewRequest
  <1> QED
    BY <1>2, <1>3 DEF LoadCart, LoadItems, LockVariant, NoCouponApplied, ReadCoupon

\* A checkout's commit takes from the cart only lines its order holds: a
\* line added, or removed and added again, while it ran stays
\* (orders.py 171-172 deletes the rows it loaded).
THEOREM CommitLeavesOtherLines == Spec => UnorderedLinesStay
  <1> DEFINE Step == \A r \in Request : req[r].pc = "commit" /\ req'[r].pc = "done" =>
                       \A u \in User, v \in Variant :
                         cart[u][v] > 0 /\ cart'[u][v] = 0 =>
                           u = order'[r].user /\ order'[r].lines[v] > 0
  <1>1. IInv /\ LoadedRowsAreLines /\ [Next]_vars => [Step]_vars
    <2> SUFFICES ASSUME IInv, LoadedRowsAreLines, Next,
                        NEW r \in Request, req[r].pc = "commit", req'[r].pc = "done",
                        NEW u \in User, NEW v \in Variant, cart[u][v] > 0, cart'[u][v] = 0
                 PROVE  u = order'[r].user /\ order'[r].lines[v] > 0
      OBVIOUS
    <2>1. Commit(r)
      BY AnsweredByCommit
    <2>2. /\ cart \in [User -> Lines] /\ order \in [Request -> OrderRow]
          /\ req[r].live \subseteq LinesOf(req[r].lines)
      BY DEF IInv, TypeOK, LoadedRowsAreLines
    <2>3. order'[r].user = req[r].user /\ order'[r].lines = req[r].lines
      BY <2>1, <2>2 DEF Commit
    <2>4. cart' = [cart EXCEPT ![req[r].user] =
                     [w \in Variant |-> IF w \in req[r].live THEN 0 ELSE cart[req[r].user][w]]]
      BY <2>1 DEF Commit, DeletedLines
    <2>5. u = req[r].user /\ v \in req[r].live
      BY <2>2, <2>4, LinesAreNat
    <2> QED
      BY <2>2, <2>3, <2>5 DEF LinesOf
  <1>2. Spec => [][Step]_vars
    BY <1>1, Invariance, LoadedRowsHold, PTL DEF Spec
  <1> QED
    BY <1>2 DEF UnorderedLinesStay
=============================================================================
