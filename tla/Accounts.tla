------------------------------ MODULE Accounts ------------------------------
(***************************************************************************)
(* Accounts (api/v1/auth.py, deps.py, admin_users.py) and the address book *)
(* (addresses.py).  Tokens are signed and not stored: logging in, out and  *)
(* refreshing change nothing here, and a request is made in the name of    *)
(* any user, who is loaded again and must be active.                       *)
(***************************************************************************)
EXTENDS Sessions

CONSTANTS
  Staff,      \* the first accounts, by email, with their roles
  NewEmail,   \* emails as they are typed at signup
  Lower       \* each email in lower case

\* An email in lower case stays as it is, and the accounts of seed.py are
\* stored in lower case.
ASSUME AccountsAssumption ==
  /\ DOMAIN Lower = NewEmail \cup DOMAIN Staff \cup {Lower[e] : e \in NewEmail}
  /\ \A e \in DOMAIN Lower : Lower[Lower[e]] = Lower[e]
  /\ \A e \in DOMAIN Staff : Lower[e] = e

VARIABLES
  users,     \* accounts by id
  addresses  \* addresses by id

accountVars == <<users, addresses>>

Role == {"customer", "admin", "super_admin"}

\* seed_admin makes a super admin, and the rows of the seed are not those that
\* a request inserts, which are named by it.
ASSUME StaffAssumption ==
  /\ Staff \in [DOMAIN Staff -> Role]
  /\ \E u \in DOMAIN Staff : Staff[u] = "super_admin"
  /\ DOMAIN Staff \cap Request = {}

\* One of the accounts has an address, which is its default.
Owner == CHOOSE u \in DOMAIN Staff : TRUE

AccountsInit ==
  /\ users = [u \in DOMAIN Staff |-> [email |-> u, role |-> Staff[u], active |-> TRUE]]
  /\ addresses = [a \in {"home"} |-> [user |-> Owner, default |-> TRUE]]

-----------------------------------------------------------------------------
(* Signing up.                                                             *)

\* The email as it was typed.
BugNotLowered(email) == email

Normalized(email) == Lower[email]

EmailTaken(email) == \E u \in DOMAIN users : users[u].email = email

Signup(r) ==
  \E typed \in NewEmail :
    LET op == [do |-> "signup", email |-> Normalized(typed)] IN
      IF EmailTaken(op.email) THEN RefuseAtOnce(r, op) ELSE Begin(r, op, "signup", <<>>)

InsertUser(r) ==
  /\ At(r, "signup")
  /\ LET email == req[r].op.email IN
       /\ Answer(r, CommitAnswer(TRUE, ~ EmailTaken(email)))
       /\ users' = IF EmailTaken(email) THEN users
                   ELSE With(users, r, [email |-> email, role |-> "customer", active |-> TRUE])
  /\ UNCHANGED addresses

-----------------------------------------------------------------------------
(* Users and those who administer them.                                    *)

\* get_current_user and require_role, in the name of actor.
Authorized(actor, roles) == users[actor].active /\ users[actor].role \in roles

\* The roles a change of this kind requires.
Required(change) ==
  IF "role" \in DOMAIN change THEN {"super_admin"} ELSE {"admin", "super_admin"}

\* No one is refused.
BugSelfToo(actor, target) == FALSE

\* "You cannot ...": not yourself.
Forbidden(actor, target) == actor = target

ChangeUser(r) ==
  \E actor, target \in DOMAIN users, change \in [active : BOOLEAN] \cup [role : Role] :
    LET op == [do |-> "user", actor |-> actor, target |-> target, row |-> change] IN
      IF ~ Authorized(actor, Required(change)) \/ Forbidden(actor, target)
        THEN RefuseAtOnce(r, op)
        ELSE Begin(r, op, "load user", <<>>)

LoadUser(r) ==
  /\ At(r, "load user")
  /\ Proceed(r, "write user", users[req[r].op.target])
  /\ UNCHANGED accountVars

WriteUser(r) ==
  /\ At(r, "write user")
  /\ users' = [users EXCEPT ![req[r].op.target] = Flush(@, req[r].read, req[r].op.row)]
  /\ Answer(r, "ok")
  /\ UNCHANGED addresses

-----------------------------------------------------------------------------
(* Addresses.                                                              *)

\* The defaults that a running request has unset and not yet committed are
\* locked by its UPDATE.
Unsetting(r) == IF At(r, "insert address") THEN req[r].read ELSE {}
LockedFor(r, ids) == \E q \in Request \ {r} : Unsetting(q) \cap ids # {}

\* Nothing unset.
BugNoUnset(user) == {}

\* What the UPDATE finds to unset.
Defaults(user) == {a \in DOMAIN addresses : addresses[a].user = user /\ addresses[a].default}

CreateAddress(r) ==
  \E user \in DOMAIN users, default \in BOOLEAN :
    LET op == [do |-> "address", user |-> user, default |-> default] IN
      IF ~ users[user].active THEN RefuseAtOnce(r, op)
      ELSE Begin(r, op, IF default THEN "unset" ELSE "insert address", {})

\* The UPDATE looks for defaults among what is committed when it starts...
UnsetDefaults(r) ==
  /\ At(r, "unset")
  /\ Proceed(r, "lock", Defaults(req[r].op.user))
  /\ UNCHANGED accountVars

\* ... waits for those that are locked, and takes them if they still are.
LockDefaults(r) ==
  /\ At(r, "lock")
  /\ ~ LockedFor(r, req[r].read)
  /\ Proceed(r, "insert address", req[r].read \cap Defaults(req[r].op.user))
  /\ UNCHANGED accountVars

InsertAddress(r) ==
  /\ At(r, "insert address")
  /\ LET unset == [a \in DOMAIN addresses |->
                    IF a \in req[r].read THEN [addresses[a] EXCEPT !.default = FALSE]
                    ELSE addresses[a]] IN
       addresses' = With(unset, r, [user |-> req[r].op.user, default |-> req[r].op.default])
  /\ Answer(r, "ok")
  /\ UNCHANGED users

DeleteAddress(r) ==
  \E user \in DOMAIN users, a \in DOMAIN addresses :
    LET op == [do |-> "delete address", user |-> user, id |-> a] IN
      IF ~ users[user].active \/ addresses[a].user # user THEN RefuseAtOnce(r, op)
      ELSE Begin(r, op, "delete address", <<>>)

\* The DELETE waits for an UPDATE of the row.
RemoveAddress(r) ==
  /\ At(r, "delete address")
  /\ ~ LockedFor(r, {req[r].op.id})
  /\ addresses' = Without(addresses, req[r].op.id)
  /\ Answer(r, "ok")
  /\ UNCHANGED users

-----------------------------------------------------------------------------
AccountStep(r) ==
  \/ (Signup(r) \/ ChangeUser(r) \/ CreateAddress(r) \/ DeleteAddress(r)) /\ UNCHANGED accountVars
  \/ InsertUser(r) \/ LoadUser(r) \/ WriteUser(r)
  \/ UnsetDefaults(r) \/ LockDefaults(r) \/ InsertAddress(r) \/ RemoveAddress(r)
=============================================================================
