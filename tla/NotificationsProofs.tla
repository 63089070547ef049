------------------------- MODULE NotificationsProofs -------------------------
(***************************************************************************)
(* Notifications for any number of users, workers, sockets and events: a   *)
(* push is never ahead of its row, it reaches every client it was started  *)
(* for, and the registry holds the connections that listen, each once, and *)
(* beside them only those whose endpoint ended past its except.            *)
(*                                                                         *)
(* The invariant that carries the induction says where each coroutine can  *)
(* be found: an endpoint that runs has a worker, a client that is there    *)
(* has a running endpoint, and a push that has sent to i sockets has       *)
(* reached each of them that is still there.  That a client never comes    *)
(* back on the same socket is what makes the last part stable.             *)
(***************************************************************************)
EXTENDS Notifications, SequenceTheorems, TLAPS

Running == {"accepting", "listening"}

\* Endpoints that are, or ended uncleaned, on a worker.
Entered == {"listening", "raised"}
Placed == Running \cup Entered

Distinct(s) == \A i, j \in 1 .. Len(s) : s[i] = s[j] => i = j

\* OnlineAreRegistered said with sets: what one user's list on one worker is.
ListIsOf(w, u) ==
  /\ Distinct(registry[w][u])
  /\ \A s \in Range(registry[w][u]) :
       endpoint[s].pc \in Entered /\ endpoint[s].worker = w /\ u = SocketUser[s]

ListenersRegistered ==
  \A s \in online : endpoint[s].pc = "listening" => Registered(endpoint[s].worker, s)

\* Where the sockets are: an endpoint runs or has raised on a worker, and
\* only a running one has a client; the registry has those that listen.
SocketsOK ==
  /\ endpoint \in [Socket -> Endpoint]
  /\ online \subseteq Socket
  /\ registry \in [Worker -> [User -> Seq(Socket)]]
  /\ \A s \in Socket : /\ endpoint[s].worker \in Worker <=> endpoint[s].pc \in Placed
                       /\ s \in online => endpoint[s].pc \in Running
  /\ ListenersRegistered
  /\ \A w \in Worker, u \in User : ListIsOf(w, u)

\* A handler that began has a worker and a user, and stores before it pushes.
HandlerRuns(a) ==
  LET n == announcement[a]
  IN  /\ n.pc = "new" <=> a \notin happened
      /\ n.pc # "new" => n.worker \in Worker /\ n.user \in User
      /\ n.pc \in {"new", "happened"} => n.sent = 0
      /\ n.pc \in {"pushing", "done"} => a \in stored

\* The sockets of a push have been registered for its user, and those it has
\* passed and that are still there have the payload.
PushProgresses(a) ==
  LET n == announcement[a]
  IN  /\ n.pc \in {"pushing", "done"} =>
            \A i \in 1 .. Len(n.targets) :
              /\ SocketUser[n.targets[i]] = n.user
              /\ endpoint[n.targets[i]].pc \in Entered \cup {"ended"}
              /\ i <= n.sent /\ n.targets[i] \in online => <<n.targets[i], a>> \in received
      /\ n.pc = "pushing" => n.sent <= Len(n.targets)
      /\ n.pc = "done" => n.sent >= Len(n.targets)

OneBetweenCommits ==
  \A a, b \in Announcement :
    announcement[a].pc = "happened" /\ announcement[b].pc = "happened"
    /\ announcement[a].worker = announcement[b].worker => a = b

HandlersOK ==
  /\ announcement \in [Announcement -> Handler]
  /\ stored \subseteq happened /\ happened \subseteq Announcement
  /\ received \subseteq Socket \X Announcement
  /\ OneBetweenCommits
  /\ \A a \in Announcement : HandlerRuns(a) /\ PushProgresses(a)
  /\ PushIsStored

NInv == SocketsOK /\ HandlersOK

-----------------------------------------------------------------------------
(* Lists without duplicates.                                               *)

\* RemoveFirst of SequencesExt takes out one place and shifts the rest.
LEMMA RemoveFirstIs ==
  ASSUME NEW S, NEW s \in Seq(S), NEW e, NEW k \in 1 .. Len(s), s[k] = e, Distinct(s)
  PROVE  /\ RemoveFirst(s, e) \in Seq(S)
         /\ Len(RemoveFirst(s, e)) = Len(s) - 1
         /\ \A i \in 1 .. Len(s) - 1 : RemoveFirst(s, e)[i] = IF i < k THEN s[i] ELSE s[i + 1]
  <1> DEFINE before == SubSeq(s, 1, k - 1)
             after == SubSeq(s, k + 1, Len(s))
  <1>0. Len(s) \in Nat /\ k \in Nat /\ \A i \in 1 .. Len(s) : s[i] \in S
    BY LenProperties, ElementOfSeq
  <1>1. SelectInSeq(s, LAMBDA v : v = e) = k
    <2>1. {i \in 1 .. Len(s) : s[i] = e} = {k}
      BY DEF Distinct
    <2>2. \A x : Min({x}) \in {x} <=> Min({x}) = x
      OBVIOUS
    <2>3. Min({k}) = k
      BY <1>0 DEF Min
    <2> QED
      BY <2>1, <2>3 DEF SelectInSeq
  <1>2. RemoveFirst(s, e) = before \o after
    BY <1>1 DEF RemoveFirst, RemoveAt
  <1>3. /\ before \in Seq(S) /\ Len(before) = k - 1
        /\ \A i \in 1 .. k - 1 : before[i] = s[i]
    <2>1. /\ before \in Seq(S) /\ Len(before) = IF 1 <= k-1 THEN (k-1)-1+1 ELSE 0
          /\ \A i \in 1 .. (k-1)-1+1 : before[i] = s[1+i-1]
      BY <1>0, SubSeqProperties
    <2> QED
      BY <1>0, <2>1
  <1>4. /\ after \in Seq(S) /\ Len(after) = Len(s) - k
        /\ \A i \in 1 .. Len(s) - k : after[i] = s[k + i]
    <2>1. /\ after \in Seq(S) /\ Len(after) = IF k+1 <= Len(s) THEN Len(s)-(k+1)+1 ELSE 0
          /\ \A i \in 1 .. Len(s)-(k+1)+1 : after[i] = s[(k+1)+i-1]
      BY <1>0, SubSeqProperties
    <2> QED
      BY <1>0, <2>1
  <1> HIDE DEF before, after
  <1>5. /\ before \o after \in Seq(S)
        /\ Len(before \o after) = Len(before) + Len(after)
        /\ \A i \in 1 .. Len(before) + Len(after) :
             (before \o after)[i] = IF i <= Len(before) THEN before[i] ELSE after[i - Len(before)]
    BY <1>3, <1>4, ConcatProperties
  <1>6. ASSUME NEW i \in 1 .. Len(s) - 1
        PROVE  RemoveFirst(s, e)[i] = IF i < k THEN s[i] ELSE s[i + 1]
    <2>1. CASE i < k
      BY <1>0, <1>2, <1>3, <1>4, <1>5, <2>1
    <2>2. CASE i >= k
      <3>1. RemoveFirst(s, e)[i] = after[i - (k - 1)]
        BY <1>0, <1>2, <1>3, <1>4, <1>5, <2>2
      <3>2. i - (k - 1) \in 1 .. Len(s) - k /\ k + (i - (k - 1)) = i + 1
        BY <1>0, <2>2
      <3>3. after[i - (k - 1)] = s[k + (i - (k - 1))]
        BY <1>4, <3>2
      <3> QED
        BY <1>0, <2>2, <3>1, <3>2, <3>3
    <2> QED
      BY <1>0, <2>1, <2>2
  <1>7. Len(RemoveFirst(s, e)) = Len(s) - 1
    BY <1>0, <1>2, <1>3, <1>4, <1>5
  <1> QED
    BY <1>2, <1>5, <1>6, <1>7

LEMMA RangeIs ==
  ASSUME NEW S, NEW s \in Seq(S)
  PROVE  Range(s) = {s[i] : i \in 1 .. Len(s)} /\ Range(s) \subseteq S
  <1>1. Range(s) = {s[i] : i \in DOMAIN s}
    BY DEF Range
  <1>2. Range(s) = {s[i] : i \in 1 .. Len(s)}
    BY <1>1, LenProperties
  <1>3. ASSUME NEW x \in Range(s) PROVE x \in S
    BY <1>2, ElementOfSeq
  <1> QED
    BY <1>2, <1>3

LEMMA RemoveFirstKeeps ==
  ASSUME NEW S, NEW s \in Seq(S), NEW e, Distinct(s)
  PROVE  /\ RemoveFirst(s, e) \in Seq(S) /\ Distinct(RemoveFirst(s, e))
         /\ Range(RemoveFirst(s, e)) = Range(s) \ {e}
  <1> DEFINE t == RemoveFirst(s, e)
  <1>0. Len(s) \in Nat /\ Range(s) = {s[i] : i \in 1 .. Len(s)}
    BY LenProperties, RangeIs
  <1>1. CASE \E k \in 1 .. Len(s) : s[k] = e
    <2>1. PICK k \in 1 .. Len(s) : s[k] = e
      BY <1>1
    <2>2. /\ t \in Seq(S) /\ Len(t) = Len(s) - 1
          /\ \A i \in 1 .. Len(s) - 1 : t[i] = IF i < k THEN s[i] ELSE s[i + 1]
      BY <2>1, RemoveFirstIs
    <2>r. Range(t) = {t[i] : i \in 1 .. Len(t)}
      BY <2>2, RangeIs
    <2> HIDE DEF t
    <2>3. Distinct(t)
      BY <1>0, <2>2 DEF Distinct
    <2>4. ASSUME NEW i \in 1 .. Len(t) PROVE t[i] \in Range(s) \ {e}
      <3>1. CASE i < k
        BY <1>0, <2>1, <2>2, <3>1 DEF Distinct
      <3>2. CASE i >= k
        BY <1>0, <2>1, <2>2, <3>2 DEF Distinct
      <3> QED
        BY <1>0, <2>2, <3>1, <3>2
    <2>5. ASSUME NEW j \in 1 .. Len(s), s[j] # e PROVE s[j] \in Range(t)
      <3>1. CASE j < k
        <4>1. j \in 1 .. Len(t) /\ t[j] = s[j]
          BY <1>0, <2>2, <3>1
        <4> QED
          BY <2>r, <4>1
      <3>2. CASE j > k
        <4>1. j - 1 \in 1 .. Len(t) /\ t[j - 1] = s[j]
          BY <1>0, <2>2, <3>2
        <4> QED
          BY <2>r, <4>1
      <3> QED
        BY <1>0, <2>1, <2>5, <3>1, <3>2
    <2>6. Range(t) = Range(s) \ {e}
      BY <1>0, <2>r, <2>4, <2>5
    <2> QED
      BY <2>2, <2>3, <2>6 DEF t
  <1>2. CASE ~ \E k \in 1 .. Len(s) : s[k] = e
    BY <1>0, <1>2 DEF RemoveFirst
  <1> QED
    BY <1>1, <1>2

LEMMA AppendKeeps ==
  ASSUME NEW S, NEW s \in Seq(S), NEW e \in S, Distinct(s), e \notin Range(s)
  PROVE  /\ Append(s, e) \in Seq(S) /\ Distinct(Append(s, e))
         /\ Range(Append(s, e)) = Range(s) \cup {e}
  <1> DEFINE t == Append(s, e)
  <1>1. /\ t \in Seq(S) /\ Len(t) = Len(s) + 1 /\ Len(s) \in Nat
        /\ \A i \in 1 .. Len(s) : t[i] = s[i]
        /\ t[Len(s) + 1] = e
        /\ Range(t) = {t[i] : i \in 1 .. Len(t)}
        /\ Range(s) = {s[i] : i \in 1 .. Len(s)}
    <2>1. /\ t \in Seq(S) /\ Len(t) = Len(s) + 1
          /\ \A i \in 1 .. Len(s) : t[i] = s[i]
          /\ t[Len(s) + 1] = e
      BY AppendProperties
    <2> HIDE DEF t
    <2> QED
      BY <2>1, LenProperties, RangeIs
  <1> HIDE DEF t
  <1>2. \A i \in 1 .. Len(s) : t[i] # e
    BY <1>1
  <1>3. Distinct(t)
    BY <1>1, <1>2 DEF Distinct
  <1>4. \A i \in 1 .. Len(t) : i \in 1 .. Len(s) \/ i = Len(s) + 1
    BY <1>1
  <1>5. \A i \in 1 .. Len(s) : i \in 1 .. Len(t)
    BY <1>1
  <1>6. Len(s) + 1 \in 1 .. Len(t)
    BY <1>1
  <1>7. Range(t) = Range(s) \cup {e}
    BY <1>1, <1>4, <1>5, <1>6
  <1> QED
    BY <1>1, <1>3, <1>7 DEF t

-----------------------------------------------------------------------------
(* The registry.                                                           *)

LEMMA RegistryIs ==
  ASSUME registry \in [Worker -> [User -> Seq(Socket)]]
  PROVE  OnlineAreRegistered <=> /\ ListenersRegistered
                                 /\ \A w \in Worker, u \in User : ListIsOf(w, u)
  <1> DEFINE Sound(w, u) ==
               \A i, j \in DOMAIN registry[w][u] :
                 LET s == registry[w][u][i]
                 IN  /\ endpoint[s].pc \in {"listening", "raised"} /\ endpoint[s].worker = w
                     /\ u = SocketUser[s]
                     /\ registry[w][u][j] = s => i = j
  <1>1. ASSUME NEW w \in Worker, NEW u \in User PROVE ListIsOf(w, u) <=> Sound(w, u)
    <2>1. registry[w][u] \in Seq(Socket)
      OBVIOUS
    <2>2. /\ DOMAIN registry[w][u] = 1 .. Len(registry[w][u])
          /\ Range(registry[w][u]) = {registry[w][u][i] : i \in 1 .. Len(registry[w][u])}
      BY <2>1, LenProperties, RangeIs
    <2>3. ASSUME ListIsOf(w, u), NEW i \in DOMAIN registry[w][u], NEW j \in DOMAIN registry[w][u]
          PROVE  LET s == registry[w][u][i]
                 IN  /\ endpoint[s].pc \in {"listening", "raised"} /\ endpoint[s].worker = w
                     /\ u = SocketUser[s]
                     /\ registry[w][u][j] = s => i = j
      <3>1. registry[w][u][i] \in Range(registry[w][u])
        BY <2>2
      <3> QED
        BY <2>2, <2>3, <3>1 DEF ListIsOf, Distinct, Entered
    <2>4. ASSUME Sound(w, u) PROVE ListIsOf(w, u)
      <3>1. Distinct(registry[w][u])
        BY <2>2, <2>4 DEF Distinct
      <3>2. ASSUME NEW i \in DOMAIN registry[w][u]
            PROVE  /\ endpoint[registry[w][u][i]].pc \in Entered
                   /\ endpoint[registry[w][u][i]].worker = w
                   /\ u = SocketUser[registry[w][u][i]]
        BY <2>4 DEF Entered
      <3>3. ASSUME NEW s \in Range(registry[w][u])
            PROVE  endpoint[s].pc \in Entered /\ endpoint[s].worker = w /\ u = SocketUser[s]
        <4>1. PICK i \in DOMAIN registry[w][u] : s = registry[w][u][i]
          BY <2>2
        <4> QED
          BY <3>2, <4>1
      <3> QED
        BY <3>1, <3>3 DEF ListIsOf
    <2> QED
      BY <2>3, <2>4
  <1>2. OnlineAreRegistered <=> ListenersRegistered /\ \A w \in Worker, u \in User : Sound(w, u)
    BY DEF OnlineAreRegistered, ListenersRegistered
  <1> HIDE DEF Sound
  <1> QED
    BY <1>1, <1>2

LEMMA InvImplies ==
  ASSUME NInv
  PROVE  NotificationsTypeOK /\ PushIsStored /\ PushReachesAll /\ OnlineAreRegistered
  <1>1. NotificationsTypeOK
    BY DEF NInv, SocketsOK, HandlersOK, NotificationsTypeOK, OneBetweenCommits, PushProgresses
  <1>2. OnlineAreRegistered
    BY RegistryIs DEF NInv, SocketsOK
  <1>3. ASSUME NEW a \in Announcement, announcement[a].pc = "done",
               NEW i \in DOMAIN announcement[a].targets, announcement[a].targets[i] \in online
        PROVE  <<announcement[a].targets[i], a>> \in received
    <2>1. announcement[a].targets \in Seq(Socket) /\ announcement[a].sent \in Nat
      BY DEF NInv, HandlersOK, Handler
    <2>2. i \in 1 .. Len(announcement[a].targets) /\ Len(announcement[a].targets) \in Nat
      BY <2>1, LenProperties
    <2>3. PushProgresses(a)
      BY DEF NInv, HandlersOK
    <2> QED
      BY <1>3, <2>1, <2>2, <2>3 DEF PushProgresses
  <1> QED
    BY <1>1, <1>2, <1>3 DEF NInv, HandlersOK, PushReachesAll

LEMMA InitNInv == Init => NInv
  <1> SUFFICES ASSUME Init PROVE NInv
    OBVIOUS
  <1> USE DEF Init
  <1>1. SocketsOK
    <2>1. <<>> \in Seq(Socket) /\ Len(<<>>) = 0 /\ Distinct(<<>>) /\ Range(<<>>) = {}
      <3>1. <<>> \in Seq(Socket) /\ Len(<<>>) = 0
        OBVIOUS
      <3>2. \A i : i \notin 1 .. Len(<<>>)
        BY <3>1
      <3>3. Range(<<>>) = {<<>>[i] : i \in 1 .. Len(<<>>)}
        BY <3>1, RangeIs
      <3>4. Range(<<>>) = {}
        BY <3>2, <3>3
      <3> QED
        BY <3>1, <3>2, <3>4 DEF Distinct
    <2>2. Unconnected("new") \in Endpoint /\ Unconnected("new").pc = "new"
          /\ Unconnected("new").worker = None /\ None \notin Worker
      BY NoneAssumption DEF Unconnected, Endpoint
    <2>3. registry \in [Worker -> [User -> Seq(Socket)]]
          /\ \A w \in Worker, u \in User : registry[w][u] = <<>>
      BY <2>1
    <2>4. \A w \in Worker, u \in User : ListIsOf(w, u)
      BY <2>1, <2>3 DEF ListIsOf, Entered
    <2>5. ListenersRegistered
      BY DEF ListenersRegistered
    <2> QED
      BY <2>2, <2>3, <2>4, <2>5 DEF SocketsOK, Running, Placed, Entered
  <1>2. HandlersOK
    <2>1. NotHandled \in Handler /\ NotHandled.pc = "new" /\ NotHandled.sent = 0
      BY DEF NotHandled, Handler
    <2>2. \A a \in Announcement : HandlerRuns(a) /\ PushProgresses(a)
      BY <2>1 DEF HandlerRuns, PushProgresses
    <2> QED
      BY <2>1, <2>2 DEF HandlersOK, OneBetweenCommits, PushIsStored
  <1> QED
    BY <1>1, <1>2 DEF NInv

-----------------------------------------------------------------------------
(* Steps of the sockets.                                                   *)

\* A client that has been registered may leave, and never comes back.
ClientsOnlyLeave ==
  \A s \in Socket : endpoint[s].pc \in Entered \cup {"ended"} =>
    /\ endpoint'[s].pc \in Entered \cup {"ended"}
    /\ s \in online' => s \in online

\* A handler that does not move keeps what it has whatever the sockets and
\* the other handlers do.
LEMMA HandlerStays ==
  ASSUME NInv, ClientsOnlyLeave, NEW a \in Announcement,
         announcement'[a] = announcement[a], a \in happened' <=> a \in happened,
         stored \subseteq stored', received \subseteq received'
  PROVE  HandlerRuns(a)' /\ PushProgresses(a)'
  <1>1. HandlerRuns(a) /\ PushProgresses(a) /\ announcement[a].targets \in Seq(Socket)
    BY DEF NInv, HandlersOK, Handler
  <1>2. HandlerRuns(a)'
    BY <1>1 DEF HandlerRuns
  <1>3. \A i \in 1 .. Len(announcement[a].targets) : announcement[a].targets[i] \in Socket
    BY <1>1, ElementOfSeq
  <1>4. PushProgresses(a)'
    BY <1>1, <1>3 DEF PushProgresses, ClientsOnlyLeave, Entered
  <1> QED
    BY <1>2, <1>4

LEMMA SocketStepKeepsHandlers ==
  ASSUME NInv, ClientsOnlyLeave, UNCHANGED <<announcement, happened, stored, received>>
  PROVE  HandlersOK'
  <1>1. \A a \in Announcement : HandlerRuns(a)' /\ PushProgresses(a)'
    BY HandlerStays
  <1> QED
    BY <1>1 DEF NInv, HandlersOK, OneBetweenCommits, PushIsStored

\* A step of one endpoint that leaves the registry alone, when its socket is
\* not registered before, nor a client that listens after.
LEMMA EndpointStepKeeps ==
  ASSUME SocketsOK, NEW s \in Socket, NEW e \in Endpoint,
         endpoint' = [endpoint EXCEPT ![s] = e],
         e.worker \in Worker <=> e.pc \in Placed,
         online' \in SUBSET (online \cup {s}), s \in online' => e.pc = "accepting",
         endpoint[s].pc \notin Entered, e.pc # "listening", UNCHANGED registry
  PROVE  SocketsOK'
  <1>1. /\ endpoint' \in [Socket -> Endpoint] /\ endpoint'[s] = e
        /\ \A t \in Socket : t # s => endpoint'[t] = endpoint[t]
    BY DEF SocketsOK
  <1>2. ASSUME NEW w \in Worker, NEW u \in User PROVE ListIsOf(w, u)'
    <2>1. ListIsOf(w, u) /\ registry[w][u] \in Seq(Socket)
      BY DEF SocketsOK
    <2>2. \A t \in Range(registry[w][u]) : t \in Socket /\ t # s
      BY <2>1, RangeIs DEF ListIsOf, Entered
    <2> QED
      BY <1>1, <2>1, <2>2 DEF ListIsOf, Entered
  <1>3. ListenersRegistered'
    BY <1>1 DEF SocketsOK, ListenersRegistered, Registered
  <1>4. \A t \in Socket : /\ endpoint'[t].worker \in Worker <=> endpoint'[t].pc \in Placed
                          /\ t \in online' => endpoint'[t].pc \in Running
    BY <1>1 DEF SocketsOK, Running, Placed, Entered
  <1> QED
    BY <1>1, <1>2, <1>3, <1>4 DEF SocketsOK

\* Changing one user's list on one worker changes no other list.
LEMMA OneList ==
  ASSUME registry \in [Worker -> [User -> Seq(Socket)]],
         NEW w \in Worker, NEW u \in User, NEW list \in Seq(Socket),
         registry' = [registry EXCEPT ![w][u] = list]
  PROVE  /\ registry' \in [Worker -> [User -> Seq(Socket)]]
         /\ registry'[w][u] = list
         /\ \A x \in Worker, y \in User : x # w \/ y # u => registry'[x][y] = registry[x][y]
  OBVIOUS

LEMMA RegisterKeeps ==
  ASSUME NInv, NEW s \in Socket, Register(s)
  PROVE  SocketsOK' /\ ClientsOnlyLeave
  <1> DEFINE w == endpoint[s].worker
             u == SocketUser[s]
             list == Append(registry[w][u], s)
  <1>1. /\ endpoint[s].pc = "accepting" /\ w \in Worker /\ u \in User
        /\ registry \in [Worker -> [User -> Seq(Socket)]]
    BY SocketUserAssumption DEF Register, NInv, SocketsOK, Running, Placed, Entered
  <1>2. /\ endpoint' \in [Socket -> Endpoint]
        /\ endpoint'[s].pc = "listening" /\ endpoint'[s].worker = w
        /\ endpoint'[s] = [pc |-> "listening", worker |-> w]
        /\ \A t \in Socket : t # s => endpoint'[t] = endpoint[t]
    BY DEF Register, NInv, SocketsOK, Endpoint
  <1>3. ListIsOf(w, u) /\ registry[w][u] \in Seq(Socket) /\ s \notin Range(registry[w][u])
    <2>1. ListIsOf(w, u) /\ registry[w][u] \in Seq(Socket)
      BY <1>1 DEF NInv, SocketsOK
    <2>2. \A t \in Range(registry[w][u]) : endpoint[t].pc \in {"listening", "raised"}
      BY <2>1 DEF ListIsOf, Entered
    <2> QED
      BY <1>1, <2>1, <2>2
  <1>4. list \in Seq(Socket) /\ Distinct(list) /\ Range(list) = Range(registry[w][u]) \cup {s}
    BY <1>3, AppendKeeps DEF ListIsOf, Entered
  <1>5. registry' = [registry EXCEPT ![w][u] = list] /\ online' = online
    BY DEF Register, Registering
  <1>h. w = endpoint[s].worker /\ u = SocketUser[s]
    OBVIOUS
  <1> HIDE DEF w, u, list
  <1>6. /\ registry' \in [Worker -> [User -> Seq(Socket)]]
        /\ registry'[w][u] = list
        /\ \A x \in Worker, y \in User : x # w \/ y # u => registry'[x][y] = registry[x][y]
    BY <1>1, <1>4, <1>5, OneList
  <1>7. ASSUME NEW x \in Worker, NEW y \in User PROVE ListIsOf(x, y)'
    <2>1. ListIsOf(x, y) /\ registry[x][y] \in Seq(Socket)
      BY DEF NInv, SocketsOK
    <2>2. \A t \in Range(registry[x][y]) : t \in Socket /\ t # s
      BY <1>1, <2>1, RangeIs DEF ListIsOf, Entered
    <2>3. CASE x = w /\ y = u
      <3>1. \A t \in Range(registry[w][u]) : endpoint'[t] = endpoint[t]
        BY <1>2, <2>2, <2>3
      <3>2. \A t \in Range(list) :
              endpoint'[t].pc \in Entered /\ endpoint'[t].worker = w /\ u = SocketUser[t]
        BY <1>h, <1>2, <1>3, <1>4, <3>1 DEF ListIsOf, Entered
      <3> QED
        BY <1>4, <1>6, <2>3, <3>2 DEF ListIsOf
    <2>4. CASE x # w \/ y # u
      BY <1>2, <1>6, <2>1, <2>2, <2>4 DEF ListIsOf, Entered
    <2> QED
      BY <2>3, <2>4
  <1>8. ASSUME NEW t \in online, endpoint'[t].pc = "listening"
        PROVE  Registered(endpoint[t].worker, t)'
    <2>0. t \in Socket
      BY DEF NInv, SocketsOK
    <2>1. CASE t = s
      BY <1>h, <1>2, <1>4, <1>6, <2>1 DEF Registered
    <2>2. CASE t # s
      <3>1. /\ Registered(endpoint[t].worker, t) /\ endpoint'[t] = endpoint[t]
            /\ endpoint[t].worker \in Worker /\ SocketUser[t] \in User
        BY <1>2, <1>8, <2>0, <2>2, SocketUserAssumption
           DEF NInv, SocketsOK, ListenersRegistered, Running, Placed, Entered
      <3>2. CASE endpoint[t].worker = w /\ SocketUser[t] = u
        BY <1>4, <1>6, <3>1, <3>2 DEF Registered
      <3>3. CASE endpoint[t].worker # w \/ SocketUser[t] # u
        BY <1>6, <3>1, <3>3 DEF Registered
      <3> QED
        BY <3>2, <3>3
    <2> QED
      BY <2>1, <2>2
  <1>9. \A t \in Socket : /\ endpoint'[t].worker \in Worker <=> endpoint'[t].pc \in Placed
                          /\ t \in online => endpoint'[t].pc \in Running
    BY <1>1, <1>2 DEF NInv, SocketsOK, Running, Placed, Entered
  <1>10. ClientsOnlyLeave
    BY <1>1, <1>2, <1>5 DEF ClientsOnlyLeave, Entered
  <1> QED
    BY <1>2, <1>5, <1>6, <1>7, <1>8, <1>9, <1>10 DEF NInv, SocketsOK, ListenersRegistered

\* Taking a socket out of the registry does no harm to a client that is
\* there, if it is not that socket's.
LEMMA ForgettingKeeps ==
  ASSUME SocketsOK, NEW w \in Worker, NEW s \in Socket, s \notin online,
         registry' = Forgetting(w, s), UNCHANGED online
  PROVE  /\ registry' \in [Worker -> [User -> Seq(Socket)]]
         /\ \A x \in Worker, y \in User :
              /\ Distinct(registry'[x][y])
              /\ Range(registry'[x][y]) \subseteq Range(registry[x][y])
         /\ s \notin Range(registry'[w][SocketUser[s]])
         /\ \A x \in Worker, t \in online : Registered(x, t) => Registered(x, t)'
  <1> DEFINE u == SocketUser[s]
             list == RemoveFirst(registry[w][u], s)
  <1>0. u \in User
    BY SocketUserAssumption
  <1>1. u \in User /\ registry[w][u] \in Seq(Socket) /\ Distinct(registry[w][u])
    <2>1. ListIsOf(w, u) /\ registry[w][u] \in Seq(Socket)
      BY <1>0 DEF SocketsOK
    <2> QED
      BY <1>0, <2>1 DEF ListIsOf, Entered
  <1>2. list \in Seq(Socket) /\ Distinct(list) /\ Range(list) = Range(registry[w][u]) \ {s}
    BY <1>1, RemoveFirstKeeps
  <1>3. registry' = [registry EXCEPT ![w][u] = list]
    BY DEF Forgetting
  <1> HIDE DEF list
  <1>4. /\ registry' \in [Worker -> [User -> Seq(Socket)]]
        /\ registry'[w][u] = list
        /\ \A x \in Worker, y \in User : x # w \/ y # u => registry'[x][y] = registry[x][y]
    BY <1>1, <1>2, <1>3, OneList DEF SocketsOK
  <1>5. \A x \in Worker, y \in User : Distinct(registry[x][y])
    BY DEF SocketsOK, ListIsOf, Entered
  <1>6. \A x \in Worker, y \in User :
          /\ Distinct(registry'[x][y])
          /\ Range(registry'[x][y]) \subseteq Range(registry[x][y])
    BY <1>2, <1>4, <1>5
  <1>7. ASSUME NEW x \in Worker, NEW t \in online, Registered(x, t) PROVE Registered(x, t)'
    <2>1. SocketUser[t] \in User /\ t # s
      BY SocketUserAssumption DEF SocketsOK
    <2> QED
      BY <1>2, <1>4, <1>7, <2>1 DEF Registered
  <1> QED
    BY <1>2, <1>4, <1>6, <1>7

LEMMA DisconnectedKeeps ==
  ASSUME NInv, NEW s \in Socket, Disconnected(s)
  PROVE  SocketsOK' /\ ClientsOnlyLeave
  <1> DEFINE w == endpoint[s].worker
  <1>1. /\ endpoint[s].pc = "listening" /\ w \in Worker /\ s \notin online /\ online' = online
        /\ registry' = Forgetting(w, s)
    BY DEF Disconnected, NInv, SocketsOK, Running, Placed, Entered
  <1>2. /\ endpoint' \in [Socket -> Endpoint]
        /\ endpoint'[s].pc = "ended" /\ endpoint'[s].worker = None /\ None \notin Worker
        /\ \A t \in Socket : t # s => endpoint'[t] = endpoint[t]
    BY NoneAssumption DEF Disconnected, NInv, SocketsOK, Endpoint, Unconnected
  <1>3. /\ registry' \in [Worker -> [User -> Seq(Socket)]]
        /\ \A x \in Worker, y \in User :
             /\ Distinct(registry'[x][y])
             /\ Range(registry'[x][y]) \subseteq Range(registry[x][y])
        /\ s \notin Range(registry'[w][SocketUser[s]])
        /\ \A x \in Worker, t \in online : Registered(x, t) => Registered(x, t)'
    BY <1>1, ForgettingKeeps DEF NInv
  <1>4. ASSUME NEW x \in Worker, NEW y \in User PROVE ListIsOf(x, y)'
    <2>1. ListIsOf(x, y) /\ registry[x][y] \in Seq(Socket)
      BY DEF NInv, SocketsOK
    <2>2. ASSUME NEW t \in Range(registry'[x][y])
          PROVE  /\ t \in Socket /\ endpoint'[t].pc \in Entered /\ endpoint'[t].worker = x
                 /\ y = SocketUser[t]
      <3>1. /\ t \in Socket /\ endpoint[t].pc \in Entered /\ endpoint[t].worker = x
            /\ y = SocketUser[t]
        BY <1>3, <2>1, <2>2, RangeIs DEF ListIsOf, Entered
      <3>2. t # s
        BY <1>3, <2>2, <3>1
      <3> QED
        BY <1>2, <3>1, <3>2
    <2> QED
      BY <1>3, <2>2 DEF ListIsOf, Entered
  <1>5. \A t \in Socket : /\ endpoint'[t].worker \in Worker <=> endpoint'[t].pc \in Placed
                          /\ t \in online => endpoint'[t].pc \in Running
    BY <1>1, <1>2 DEF NInv, SocketsOK, Running, Placed, Entered
  <1>6. ListenersRegistered'
    <2>1. ASSUME NEW t \in online, endpoint'[t].pc = "listening"
          PROVE  Registered(endpoint[t].worker, t)'
      <3>1. t \in Socket /\ t # s /\ endpoint'[t] = endpoint[t]
        BY <1>1, <1>2 DEF NInv, SocketsOK
      <3>2. Registered(endpoint[t].worker, t) /\ endpoint[t].worker \in Worker
        BY <2>1, <3>1 DEF NInv, SocketsOK, ListenersRegistered, Running, Placed, Entered
      <3>3. PICK x \in Worker : x = endpoint[t].worker
        BY <3>2
      <3>4. Registered(x, t)'
        BY <1>3, <3>2, <3>3
      <3> QED
        BY <3>1, <3>3, <3>4 DEF Registered
    <2> QED
      BY <1>1, <2>1 DEF ListenersRegistered
  <1>7. ClientsOnlyLeave
    BY <1>1, <1>2 DEF ClientsOnlyLeave, Entered
  <1> QED
    BY <1>1, <1>2, <1>3, <1>4, <1>5, <1>6, <1>7 DEF NInv, SocketsOK

LEMMA HangUpKeeps ==
  ASSUME NInv, NEW s \in Socket, HangUp(s)
  PROVE  SocketsOK' /\ ClientsOnlyLeave
  <1>1. online' = online \ {s} /\ UNCHANGED <<endpoint, registry>>
    BY DEF HangUp
  <1>2. \A w \in Worker, u \in User : ListIsOf(w, u)'
    BY <1>1 DEF NInv, SocketsOK, ListIsOf, Entered
  <1>3. ListenersRegistered'
    BY <1>1 DEF NInv, SocketsOK, ListenersRegistered, Registered
  <1> QED
    BY <1>1, <1>2, <1>3 DEF NInv, SocketsOK, ClientsOnlyLeave, Entered

\* An endpoint that ends uncleaned leaves the lists as they are.
LEMMA ReceiveRaisesKeeps ==
  ASSUME NInv, NEW s \in Socket, ReceiveRaises(s)
  PROVE  SocketsOK' /\ ClientsOnlyLeave
  <1>1. /\ endpoint[s].pc = "listening"
        /\ online' = online \ {s} /\ registry' = registry
    BY DEF ReceiveRaises
  <1>2. /\ endpoint' \in [Socket -> Endpoint]
        /\ endpoint'[s].pc = "raised" /\ endpoint'[s].worker = endpoint[s].worker
        /\ \A t \in Socket : t # s => endpoint'[t] = endpoint[t]
    BY DEF ReceiveRaises, NInv, SocketsOK, Endpoint
  <1>3. ASSUME NEW x \in Worker, NEW y \in User PROVE ListIsOf(x, y)'
    <2>1. ListIsOf(x, y) /\ registry[x][y] \in Seq(Socket)
      BY DEF NInv, SocketsOK
    <2>2. \A t \in Range(registry[x][y]) : t \in Socket
      BY <2>1, RangeIs
    <2> QED
      BY <1>1, <1>2, <2>1, <2>2 DEF ListIsOf, Entered
  <1>4. ListenersRegistered'
    BY <1>1, <1>2 DEF NInv, SocketsOK, ListenersRegistered, Registered
  <1>5. \A t \in Socket : /\ endpoint'[t].worker \in Worker <=> endpoint'[t].pc \in Placed
                          /\ t \in online' => endpoint'[t].pc \in Running
    BY <1>1, <1>2 DEF NInv, SocketsOK, Running, Placed, Entered
  <1>6. ClientsOnlyLeave
    BY <1>1, <1>2 DEF ClientsOnlyLeave, Entered
  <1> QED
    BY <1>1, <1>2, <1>3, <1>4, <1>5, <1>6 DEF NInv, SocketsOK

\* The three endpoint steps before a socket is registered.
LEMMA HandshakeKeeps ==
  ASSUME NInv, NEW s \in Socket,
         Reject(s) \/ AcceptFails(s) \/ \E w \in Worker : Connect(s, w)
  PROVE  SocketsOK' /\ ClientsOnlyLeave
  <1>t. endpoint \in [Socket -> Endpoint]
    BY DEF NInv, SocketsOK
  <1>e. /\ Unconnected("ended") \in Endpoint /\ Unconnected("ended").pc = "ended"
        /\ Unconnected("ended").worker \notin Worker
    BY NoneAssumption DEF Unconnected, Endpoint
  <1>1. CASE Reject(s) \/ AcceptFails(s)
    <2>1. /\ endpoint' = [endpoint EXCEPT ![s] = Unconnected("ended")]
          /\ UNCHANGED <<online, registry>> /\ s \notin online
          /\ endpoint[s].pc \in {"new", "accepting"}
      BY <1>1 DEF Reject, AcceptFails, NInv, SocketsOK, Running, Placed, Entered
    <2>2. SocketsOK'
      BY <1>e, <2>1, EndpointStepKeeps DEF NInv, Running, Placed, Entered
    <2>3. ClientsOnlyLeave
      BY <1>t, <2>1 DEF ClientsOnlyLeave, Entered
    <2> QED
      BY <2>2, <2>3
  <1>2. ASSUME NEW w \in Worker, Connect(s, w) PROVE SocketsOK' /\ ClientsOnlyLeave
    <2> DEFINE e == [pc |-> "accepting", worker |-> w]
    <2>1. e \in Endpoint /\ e.pc = "accepting" /\ e.worker = w
      BY DEF Endpoint
    <2>2. /\ endpoint' = [endpoint EXCEPT ![s] = e] /\ online' = online \cup {s}
          /\ UNCHANGED registry /\ endpoint[s].pc = "new"
      BY <1>2 DEF Connect
    <2> HIDE DEF e
    <2>3. SocketsOK'
      BY <2>1, <2>2, EndpointStepKeeps DEF NInv, Running, Placed, Entered
    <2>4. ClientsOnlyLeave
      BY <1>t, <2>1, <2>2 DEF ClientsOnlyLeave, Entered
    <2> QED
      BY <2>3, <2>4
  <1> QED
    BY <1>1, <1>2

-----------------------------------------------------------------------------
(* Steps of the handlers.                                                  *)

\* A handler that moves must show what its own step establishes; the rest of
\* HandlersOK follows.
LEMMA HandlerStepKeeps ==
  ASSUME NInv, UNCHANGED <<endpoint, online>>, NEW a \in Announcement, NEW n \in Handler,
         announcement' = [announcement EXCEPT ![a] = n], n.pc # "happened",
         UNCHANGED happened, a \in happened,
         stored \subseteq stored', stored' \subseteq stored \cup {a},
         n.user = announcement[a].user,
         received \subseteq received', received' \subseteq Socket \X Announcement,
         \A s \in Socket, b \in Announcement :
           <<s, b>> \in received' \ received => b \in stored' /\ announcement[b].user = SocketUser[s],
         HandlerRuns(a)', PushProgresses(a)'
  PROVE  HandlersOK'
  <1>1. /\ announcement' \in [Announcement -> Handler] /\ announcement'[a] = n
        /\ \A b \in Announcement : b # a => announcement'[b] = announcement[b]
    BY DEF NInv, HandlersOK
  <1>2. ClientsOnlyLeave
    BY DEF ClientsOnlyLeave, Entered
  <1>3. ASSUME NEW b \in Announcement PROVE HandlerRuns(b)' /\ PushProgresses(b)'
    BY <1>1, <1>2, HandlerStays
  <1>4. OneBetweenCommits'
    BY <1>1 DEF NInv, HandlersOK, OneBetweenCommits
  <1>5. PushIsStored'
    BY <1>1 DEF NInv, HandlersOK, PushIsStored
  <1> QED
    BY <1>1, <1>3, <1>4, <1>5 DEF NInv, HandlersOK

LEMMA CommitEventKeeps ==
  ASSUME NInv, NEW a \in Announcement, NEW w \in Worker, NEW u \in User, CommitEvent(a, w, u)
  PROVE  HandlersOK'
  <1>0. /\ announcement \in [Announcement -> Handler] /\ announcement[a].pc = "new"
        /\ HandlerRuns(a)
        /\ UNCHANGED <<endpoint, online, stored, received>> /\ happened' = happened \cup {a}
    BY DEF CommitEvent, NInv, HandlersOK, sockets
  <1>1. /\ announcement' \in [Announcement -> Handler]
        /\ announcement'[a].pc = "happened" /\ announcement'[a].worker = w
        /\ announcement'[a].user = u /\ announcement'[a].sent = announcement[a].sent
        /\ \A b \in Announcement : b # a => announcement'[b] = announcement[b]
    <2> DEFINE n == [announcement[a] EXCEPT !.pc = "happened", !.worker = w, !.user = u]
    <2>1. /\ n \in Handler /\ n.pc = "happened" /\ n.worker = w /\ n.user = u
          /\ n.sent = announcement[a].sent
      BY <1>0 DEF Handler
    <2>2. announcement'[a] = n /\ \A b \in Announcement : b # a => announcement'[b] = announcement[b]
      BY <1>0 DEF CommitEvent
    <2> QED
      BY <1>0, <2>1, <2>2 DEF CommitEvent
  <1>2. ClientsOnlyLeave
    BY <1>0 DEF ClientsOnlyLeave, Entered
  <1>3. a \notin happened /\ a \notin stored
    BY <1>0 DEF HandlerRuns, NInv, HandlersOK
  <1>4. ASSUME NEW b \in Announcement PROVE HandlerRuns(b)' /\ PushProgresses(b)'
    <2>1. CASE b = a
      BY <1>0, <1>1, <2>1 DEF HandlerRuns, PushProgresses
    <2>2. CASE b # a
      BY <1>0, <1>1, <1>2, <2>2, HandlerStays
    <2> QED
      BY <2>1, <2>2
  <1>5. OneBetweenCommits'
    BY <1>1 DEF CommitEvent, LoopFree, NInv, HandlersOK, OneBetweenCommits
  <1>6. PushIsStored'
    BY <1>0, <1>1, <1>3 DEF NInv, HandlersOK, PushIsStored
  <1> QED
    BY <1>0, <1>1, <1>4, <1>5, <1>6 DEF NInv, HandlersOK

LEMMA StoreNotificationKeeps ==
  ASSUME NInv, NEW a \in Announcement, StoreNotification(a)
  PROVE  HandlersOK'
  <1> DEFINE targets == registry[announcement[a].worker][announcement[a].user]
             n == [announcement[a] EXCEPT !.pc = "pushing", !.targets = targets]
  <1>0. /\ announcement \in [Announcement -> Handler] /\ announcement[a] \in Handler
        /\ announcement[a].pc = "happened" /\ HandlerRuns(a)
        /\ stored' = stored \cup {a}
        /\ UNCHANGED <<endpoint, online, happened, received>>
        /\ announcement' = [announcement EXCEPT ![a] = n]
    BY DEF StoreNotification, NInv, HandlersOK, sockets
  <1>1. announcement[a].worker \in Worker /\ announcement[a].user \in User /\ a \in happened
    BY <1>0 DEF HandlerRuns
  <1>2. targets \in Seq(Socket) /\ ListIsOf(announcement[a].worker, announcement[a].user)
    BY <1>1 DEF NInv, SocketsOK
  <1>3. /\ n \in Handler /\ n.pc = "pushing" /\ n.targets = targets
        /\ n.user = announcement[a].user /\ n.worker = announcement[a].worker
        /\ n.sent = announcement[a].sent
    BY <1>0, <1>2 DEF Handler
  <1> HIDE DEF n
  <1>4. announcement'[a] = n /\ n.sent = 0
    BY <1>0, <1>3 DEF HandlerRuns
  <1>5. HandlerRuns(a)'
    BY <1>0, <1>1, <1>3, <1>4 DEF HandlerRuns
  <1>6. ASSUME NEW i \in 1 .. Len(n.targets)
        PROVE  /\ SocketUser[n.targets[i]] = n.user
               /\ endpoint[n.targets[i]].pc \in Entered
    <2>1. n.targets[i] \in Range(targets)
      BY <1>2, <1>3, RangeIs
    <2> QED
      BY <1>2, <1>3, <2>1 DEF ListIsOf, Entered
  <1>7. PushProgresses(a)'
    <2>1. Len(n.targets) \in Nat
      BY <1>2, <1>3, LenProperties
    <2> QED
      BY <1>0, <1>3, <1>4, <1>6, <2>1 DEF PushProgresses
  <1>8. stored \subseteq stored' /\ received' \subseteq Socket \X Announcement
    BY <1>0 DEF NInv, HandlersOK
  <1> QED
    BY <1>0, <1>1, <1>3, <1>5, <1>7, <1>8, HandlerStepKeeps

LEMMA LoseNotificationKeeps ==
  ASSUME NInv, NEW a \in Announcement, LoseNotification(a)
  PROVE  HandlersOK'
  <1> DEFINE n == [announcement[a] EXCEPT !.pc = "failed"]
  <1>0. /\ announcement \in [Announcement -> Handler] /\ announcement[a] \in Handler
        /\ announcement[a].pc = "happened" /\ HandlerRuns(a)
        /\ stored' \in {stored, stored \cup {a}}
        /\ UNCHANGED <<endpoint, online, happened, received>>
        /\ announcement' = [announcement EXCEPT ![a] = n]
    BY DEF LoseNotification, NInv, HandlersOK, sockets
  <1>1. /\ n \in Handler /\ n.pc = "failed"
        /\ n.user = announcement[a].user /\ n.worker = announcement[a].worker
    BY <1>0 DEF Handler
  <1> HIDE DEF n
  <1>2. announcement'[a] = n
    BY <1>0
  <1>3. a \in happened /\ HandlerRuns(a)' /\ PushProgresses(a)'
    BY <1>0, <1>1, <1>2 DEF HandlerRuns, PushProgresses
  <1>4. /\ stored \subseteq stored' /\ stored' \subseteq stored \cup {a}
        /\ received' \subseteq Socket \X Announcement
    BY <1>0 DEF NInv, HandlersOK
  <1> QED
    BY <1>0, <1>1, <1>3, <1>4, HandlerStepKeeps

\* The loop moves to its next socket: it has reached one more, if the
\* current one is still there.
LEMMA AdvanceKeeps ==
  ASSUME NInv, NEW a \in Announcement, Pushing(a), announcement' = Advanced(a),
         UNCHANGED <<endpoint, online, happened, stored>>,
         received \subseteq received', received' \subseteq received \cup {<<Current(a), a>>},
         Current(a) \in online => <<Current(a), a>> \in received'
  PROVE  HandlersOK' /\ Current(a) \in Socket /\ announcement[a].worker \in Worker
  <1> DEFINE m == announcement[a]
             n == [m EXCEPT !.sent = m.sent + 1]
  <1>0. /\ announcement \in [Announcement -> Handler] /\ m \in Handler
        /\ m.pc = "pushing" /\ HandlerRuns(a) /\ PushProgresses(a)
        /\ m.sent < Len(m.targets)
        /\ announcement' = [announcement EXCEPT ![a] = n]
    BY DEF Pushing, Advanced, Targets, NInv, HandlersOK
  <1>1. /\ n \in Handler /\ n.pc = "pushing" /\ n.targets = m.targets
        /\ n.user = m.user /\ n.worker = m.worker /\ n.sent = m.sent + 1
        /\ m.sent \in Nat /\ m.targets \in Seq(Socket) /\ Len(m.targets) \in Nat
    <2>1. m.targets \in Seq(Socket)
      BY <1>0 DEF Handler
    <2>2. Len(m.targets) \in Nat
      BY <2>1, LenProperties
    <2>3. m.sent \in Nat
      BY <1>0 DEF Handler
    <2>4. /\ n \in Handler /\ n.pc = "pushing" /\ n.targets = m.targets
          /\ n.user = m.user /\ n.worker = m.worker /\ n.sent = m.sent + 1
      <3>1. m \in Handler /\ m.pc = "pushing" /\ m.sent + 1 \in Nat
        BY <1>0, <2>3
      <3> QED
        BY <3>1 DEF Handler
    <2> QED
      BY <2>1, <2>2, <2>3, <2>4
  <1> HIDE DEF n
  <1>2. announcement'[a] = n
    BY <1>0
  <1>3. /\ m.sent + 1 \in 1 .. Len(m.targets) /\ Current(a) = m.targets[m.sent + 1]
        /\ Current(a) \in Socket
    BY <1>0, <1>1, ElementOfSeq DEF Current, Targets
  <1>4. HandlerRuns(a)' /\ a \in happened /\ a \in stored /\ m.worker \in Worker
    BY <1>0, <1>1, <1>2 DEF HandlerRuns, NInv, HandlersOK
  <1>5. ASSUME NEW i \in 1 .. Len(m.targets), i <= m.sent + 1, m.targets[i] \in online
        PROVE  <<m.targets[i], a>> \in received'
    <2>1. CASE i = m.sent + 1
      BY <1>3, <1>5, <2>1
    <2>2. CASE i # m.sent + 1
      <3>1. i <= m.sent
        BY <1>1, <1>5, <2>2
      <3>2. <<m.targets[i], a>> \in received
        BY <1>0, <1>5, <3>1 DEF PushProgresses
      <3> QED
        BY <3>2
    <2> QED
      BY <2>1, <2>2
  <1>6. PushProgresses(a)'
    BY <1>0, <1>1, <1>2, <1>3, <1>5 DEF PushProgresses
  <1>7. SocketUser[Current(a)] = m.user
    BY <1>0, <1>3 DEF PushProgresses
  <1>8. received' \subseteq Socket \X Announcement
    BY <1>3 DEF NInv, HandlersOK
  <1>9. HandlersOK'
    <2>1. ASSUME NEW s \in Socket, NEW b \in Announcement, <<s, b>> \in received' \ received
          PROVE  b \in stored' /\ announcement[b].user = SocketUser[s]
      BY <1>4, <1>7, <2>1
    <2> QED
      BY <1>0, <1>1, <1>4, <1>6, <1>8, <2>1, HandlerStepKeeps
  <1> QED
    BY <1>3, <1>4, <1>9

LEMMA PushOverKeeps ==
  ASSUME NInv, NEW a \in Announcement, PushOver(a)
  PROVE  HandlersOK'
  <1> DEFINE m == announcement[a]
             n == [m EXCEPT !.pc = "done"]
  <1>0. /\ announcement \in [Announcement -> Handler] /\ m \in Handler
        /\ m.pc = "pushing" /\ HandlerRuns(a) /\ PushProgresses(a)
        /\ m.sent >= Len(m.targets)
        /\ UNCHANGED <<endpoint, online, happened, stored, received>>
        /\ announcement' = [announcement EXCEPT ![a] = n]
    BY DEF PushOver, Targets, NInv, HandlersOK, sockets
  <1>1. /\ n \in Handler /\ n.pc = "done" /\ n.targets = m.targets
        /\ n.user = m.user /\ n.worker = m.worker /\ n.sent = m.sent
    BY <1>0 DEF Handler
  <1> HIDE DEF n
  <1>2. announcement'[a] = n
    BY <1>0
  <1>3. a \in happened /\ HandlerRuns(a)' /\ PushProgresses(a)'
    BY <1>0, <1>1, <1>2 DEF HandlerRuns, PushProgresses
  <1>4. received' \subseteq Socket \X Announcement
    BY <1>0 DEF NInv, HandlersOK
  <1> QED
    BY <1>0, <1>1, <1>3, <1>4, HandlerStepKeeps

LEMMA SendFailsKeeps ==
  ASSUME NInv, NEW a \in Announcement, SendFails(a)
  PROVE  NInv'
  <1> DEFINE s == Current(a)
             w == announcement[a].worker
  <1>1. /\ Pushing(a) /\ announcement' = Advanced(a) /\ s \notin online
        /\ UNCHANGED <<endpoint, online, happened, stored, received>>
        /\ registry' = Forgetting(w, s)
    BY DEF SendFails
  <1>2. HandlersOK' /\ s \in Socket /\ w \in Worker
    BY <1>1, AdvanceKeeps DEF NInv, HandlersOK
  <1> HIDE DEF s, w
  <1>3. /\ registry' \in [Worker -> [User -> Seq(Socket)]]
        /\ \A x \in Worker, y \in User :
             /\ Distinct(registry'[x][y])
             /\ Range(registry'[x][y]) \subseteq Range(registry[x][y])
        /\ \A x \in Worker, t \in online : Registered(x, t) => Registered(x, t)'
    BY <1>1, <1>2, ForgettingKeeps DEF NInv
  <1>4. ASSUME NEW x \in Worker, NEW y \in User PROVE ListIsOf(x, y)'
    <2>1. ListIsOf(x, y)
      BY DEF NInv, SocketsOK
    <2> QED
      BY <1>1, <1>3, <2>1 DEF ListIsOf, Entered
  <1>5. ASSUME NEW t \in online, endpoint[t].pc = "listening"
        PROVE  Registered(endpoint[t].worker, t)'
    <2>1. Registered(endpoint[t].worker, t) /\ endpoint[t].worker \in Worker
      BY <1>5 DEF NInv, SocketsOK, ListenersRegistered, Running, Placed, Entered
    <2>2. PICK x \in Worker : x = endpoint[t].worker
      BY <2>1
    <2>3. Registered(x, t)'
      BY <1>3, <2>1, <2>2
    <2> QED
      BY <1>1, <2>2, <2>3 DEF Registered
  <1>6. SocketsOK'
    BY <1>1, <1>3, <1>4, <1>5 DEF NInv, SocketsOK, ListenersRegistered
  <1> QED
    BY <1>2, <1>6 DEF NInv

\* A worker's death ends its endpoints and fails its handlers.
LEMMA CrashDoes ==
  ASSUME NInv, NEW w \in Worker, Crash(w)
  PROVE  /\ endpoint' \in [Socket -> Endpoint]
         /\ \A s \in Socket :
              \/ /\ endpoint[s].worker = w /\ endpoint'[s].pc = "ended"
                 /\ endpoint'[s].worker \notin Worker /\ s \notin online'
              \/ endpoint[s].worker # w /\ endpoint'[s] = endpoint[s]
         /\ announcement' \in [Announcement -> Handler]
         /\ \A a \in Announcement :
              \/ announcement'[a] = announcement[a]
              \/ /\ announcement[a].worker = w /\ announcement[a].pc \in {"happened", "pushing"}
                 /\ announcement'[a].pc = "failed" /\ announcement'[a].worker = w
                 /\ announcement'[a].user = announcement[a].user
  <1>1. /\ Unconnected("ended") \in Endpoint /\ Unconnected("ended").pc = "ended"
        /\ Unconnected("ended").worker \notin Worker
    BY NoneAssumption DEF Unconnected, Endpoint
  <1>2. /\ endpoint \in [Socket -> Endpoint] /\ announcement \in [Announcement -> Handler]
    BY DEF NInv, SocketsOK, HandlersOK
  <1>3. ASSUME NEW a \in Announcement
        PROVE  LET n == [announcement[a] EXCEPT !.pc = "failed"]
               IN  /\ n \in Handler /\ n.pc = "failed" /\ n.worker = announcement[a].worker
                   /\ n.user = announcement[a].user
    BY <1>2 DEF Handler
  <1>4. /\ endpoint' = [s \in Socket |-> IF endpoint[s].worker = w THEN Unconnected("ended")
                                                                   ELSE endpoint[s]]
        /\ online' = online \ {s \in Socket : endpoint[s].worker = w}
    BY DEF Crash
  <1>5. /\ endpoint' \in [Socket -> Endpoint]
        /\ \A s \in Socket :
             \/ /\ endpoint[s].worker = w /\ endpoint'[s].pc = "ended"
                /\ endpoint'[s].worker \notin Worker /\ s \notin online'
             \/ endpoint[s].worker # w /\ endpoint'[s] = endpoint[s]
    BY <1>1, <1>2, <1>4
  <1>6. announcement' =
          [a \in Announcement |->
             IF announcement[a].worker = w /\ announcement[a].pc \in {"happened", "pushing"}
             THEN [announcement[a] EXCEPT !.pc = "failed"] ELSE announcement[a]]
    BY DEF Crash
  <1>7. /\ announcement' \in [Announcement -> Handler]
        /\ \A a \in Announcement :
             \/ announcement'[a] = announcement[a]
             \/ /\ announcement[a].worker = w /\ announcement[a].pc \in {"happened", "pushing"}
                /\ announcement'[a].pc = "failed" /\ announcement'[a].worker = w
                /\ announcement'[a].user = announcement[a].user
    BY <1>2, <1>3, <1>6
  <1> QED
    BY <1>5, <1>7

LEMMA CrashKeeps ==
  ASSUME NInv, NEW w \in Worker, Crash(w)
  PROVE  NInv'
  <1>1. /\ endpoint' \in [Socket -> Endpoint]
        /\ \A s \in Socket :
             \/ /\ endpoint[s].worker = w /\ endpoint'[s].pc = "ended"
                /\ endpoint'[s].worker \notin Worker /\ s \notin online'
             \/ endpoint[s].worker # w /\ endpoint'[s] = endpoint[s]
    BY CrashDoes
  <1>2. /\ announcement' \in [Announcement -> Handler]
        /\ \A a \in Announcement :
             \/ announcement'[a] = announcement[a]
             \/ /\ announcement[a].worker = w /\ announcement[a].pc \in {"happened", "pushing"}
                /\ announcement'[a].pc = "failed" /\ announcement'[a].worker = w
                /\ announcement'[a].user = announcement[a].user
    BY CrashDoes
  <1>3. /\ registry' = [registry EXCEPT ![w] = [u \in User |-> <<>>]]
        /\ online' \subseteq online
        /\ UNCHANGED <<happened, stored, received>>
    BY DEF Crash
  <1>4. /\ <<>> \in Seq(Socket) /\ Range(<<>>) = {} /\ Distinct(<<>>)
    <2>1. <<>> \in Seq(Socket) /\ \A i : i \notin 1 .. Len(<<>>)
      OBVIOUS
    <2>2. Range(<<>>) = {<<>>[i] : i \in 1 .. Len(<<>>)}
      BY <2>1, RangeIs
    <2> QED
      BY <2>1, <2>2 DEF Distinct
  <1>5. /\ registry' \in [Worker -> [User -> Seq(Socket)]]
        /\ \A u \in User : registry'[w][u] = <<>>
        /\ \A x \in Worker : x # w => registry'[x] = registry[x]
    BY <1>3, <1>4 DEF NInv, SocketsOK
  <1>6. ASSUME NEW x \in Worker, NEW y \in User PROVE ListIsOf(x, y)'
    <2>1. CASE x = w
      BY <1>4, <1>5, <2>1 DEF ListIsOf, Entered
    <2>2. CASE x # w
      <3>1. ListIsOf(x, y) /\ registry[x][y] \in Seq(Socket)
        BY DEF NInv, SocketsOK
      <3>2. \A t \in Range(registry[x][y]) : endpoint'[t] = endpoint[t]
        BY <1>1, <2>2, <3>1, RangeIs DEF ListIsOf, Entered
      <3> QED
        BY <1>5, <2>2, <3>1, <3>2 DEF ListIsOf, Entered
    <2> QED
      BY <2>1, <2>2
  <1>7. ASSUME NEW t \in online', endpoint'[t].pc = "listening"
        PROVE  Registered(endpoint[t].worker, t)' /\ endpoint'[t] = endpoint[t]
    <2>1. t \in Socket /\ t \in online
      BY <1>3 DEF NInv, SocketsOK
    <2>2. endpoint[t].worker # w /\ endpoint'[t] = endpoint[t]
      BY <1>1, <1>7, <2>1
    <2>3. endpoint[t].worker \in Worker /\ Registered(endpoint[t].worker, t)
      BY <1>7, <2>1, <2>2 DEF NInv, SocketsOK, ListenersRegistered, Running, Placed, Entered
    <2> QED
      BY <1>5, <2>2, <2>3 DEF Registered
  <1>8. SocketsOK'
    <2>1. ListenersRegistered'
      BY <1>7 DEF ListenersRegistered, Registered
    <2>2. \A s \in Socket : /\ endpoint'[s].worker \in Worker <=> endpoint'[s].pc \in Placed
                            /\ s \in online' => endpoint'[s].pc \in Running
      BY <1>1, <1>3 DEF NInv, SocketsOK, Running, Placed, Entered
    <2> QED
      BY <1>1, <1>3, <1>5, <1>6, <2>1, <2>2 DEF NInv, SocketsOK
  <1>9. ClientsOnlyLeave
    BY <1>1, <1>3 DEF ClientsOnlyLeave, Entered
  <1>10. ASSUME NEW a \in Announcement PROVE HandlerRuns(a)' /\ PushProgresses(a)'
    <2>1. CASE announcement'[a] = announcement[a]
      BY <1>3, <1>9, <2>1, HandlerStays
    <2>2. CASE /\ announcement[a].worker = w /\ announcement[a].pc \in {"happened", "pushing"}
               /\ announcement'[a].pc = "failed" /\ announcement'[a].worker = w
               /\ announcement'[a].user = announcement[a].user
      <3>1. HandlerRuns(a)
        BY DEF NInv, HandlersOK
      <3> QED
        BY <1>3, <2>2, <3>1 DEF HandlerRuns, PushProgresses
    <2> QED
      BY <1>2, <2>1, <2>2
  <1>11. OneBetweenCommits'
    <2>1. ASSUME NEW a \in Announcement, announcement'[a].pc = "happened"
          PROVE  announcement'[a] = announcement[a]
      BY <1>2, <2>1
    <2> QED
      BY <2>1 DEF NInv, HandlersOK, OneBetweenCommits
  <1>12. PushIsStored'
    BY <1>2, <1>3 DEF NInv, HandlersOK, PushIsStored
  <1> QED
    BY <1>2, <1>3, <1>8, <1>10, <1>11, <1>12 DEF NInv, HandlersOK

LEMMA NextNInv == NInv /\ [Next]_vars => NInv'
  <1> SUFFICES ASSUME NInv, [Next]_vars PROVE NInv'
    OBVIOUS
  <1>1. ASSUME NEW s \in Socket,
               \/ Reject(s) \/ HangUp(s) \/ ReceiveRaises(s) \/ EndpointStep(s)
               \/ \E w \in Worker : Connect(s, w)
        PROVE  NInv'
    <2>1. SocketsOK' /\ ClientsOnlyLeave
      BY <1>1, HandshakeKeeps, HangUpKeeps, ReceiveRaisesKeeps, RegisterKeeps, DisconnectedKeeps
         DEF EndpointStep
    <2>2. UNCHANGED <<announcement, happened, stored, received>>
      BY <1>1 DEF Reject, HangUp, ReceiveRaises, EndpointStep, Register, AcceptFails, Disconnected, Connect
    <2> QED
      BY <2>1, <2>2, SocketStepKeepsHandlers DEF NInv
  <1>2. ASSUME UNCHANGED sockets PROVE SocketsOK'
    <2>1. \A w \in Worker, u \in User : ListIsOf(w, u)'
      BY <1>2 DEF NInv, SocketsOK, ListIsOf, sockets
    <2> QED
      BY <1>2, <2>1 DEF NInv, SocketsOK, ListenersRegistered, Registered, sockets
  <1>3. ASSUME NEW a \in Announcement, HandlerStep(a) PROVE NInv'
    <2>1. CASE StoreNotification(a)
      BY <1>2, <2>1, StoreNotificationKeeps DEF NInv, StoreNotification
    <2>2. CASE LoseNotification(a)
      BY <1>2, <2>2, LoseNotificationKeeps DEF NInv, LoseNotification
    <2>3. CASE Send(a)
      <3>1. HandlersOK'
        <4>1. /\ Pushing(a) /\ announcement' = Advanced(a)
              /\ UNCHANGED <<endpoint, online, happened, stored>>
          BY <2>3 DEF Send, sockets
        <4>2. /\ received \subseteq received'
              /\ received' \subseteq received \cup {<<Current(a), a>>}
              /\ Current(a) \in online => <<Current(a), a>> \in received'
          BY <2>3 DEF Send
        <4> QED
          BY <4>1, <4>2, AdvanceKeeps
      <3> QED
        BY <1>2, <2>3, <3>1 DEF NInv, Send
    <2>4. CASE SendFails(a)
      BY <2>4, SendFailsKeeps
    <2>5. CASE PushOver(a)
      BY <1>2, <2>5, PushOverKeeps DEF NInv, PushOver
    <2> QED
      BY <1>3, <2>1, <2>2, <2>3, <2>4, <2>5 DEF HandlerStep
  <1>4. ASSUME NEW a \in Announcement, NEW w \in Worker, NEW u \in User, CommitEvent(a, w, u)
        PROVE  NInv'
    BY <1>2, <1>4, CommitEventKeeps DEF NInv, CommitEvent
  <1>5. ASSUME NEW w \in Worker, Crash(w) PROVE NInv'
    BY <1>5, CrashKeeps
  <1>6. CASE UNCHANGED vars
    <2>1. UNCHANGED sockets /\ UNCHANGED <<announcement, happened, stored, received>>
      BY <1>6 DEF vars
    <2>2. ClientsOnlyLeave
      BY <2>1 DEF ClientsOnlyLeave, sockets
    <2> QED
      BY <1>2, <2>1, <2>2, SocketStepKeepsHandlers DEF NInv
  <1> QED
    BY <1>1, <1>3, <1>4, <1>5, <1>6 DEF Next

\* The inductive invariant holds in every reachable state.
THEOREM Invariance == Spec => []NInv
  BY InitNInv, NextNInv, PTL DEF Spec

\* Coroutines and registries keep their shapes, and an event loop never has
\* two handlers between their commits (core/notifications.py, api/v1/ws.py).
THEOREM ShapesHold == Spec => []NotificationsTypeOK
  <1>1. NInv => NotificationsTypeOK
    BY InvImplies
  <1> QED
    BY <1>1, Invariance, PTL

\* Whatever a client was pushed is a row of its user that is stored already
\* (models/notification.py 4-13), also when workers die in between.
THEOREM PushesAreStored == Spec => []PushIsStored
  <1>1. NInv => PushIsStored
    BY InvImplies
  <1> QED
    BY <1>1, Invariance, PTL

\* A push that is over has reached every registered client that is still
\* there, whatever failed, left or joined meanwhile (ws_manager.py 41-54).
THEOREM PushesReachAll == Spec => []PushReachesAll
  <1>1. NInv => PushReachesAll
    BY InvImplies
  <1> QED
    BY <1>1, Invariance, PTL

\* The registry holds each connection that listens, once, under its user and
\* on its worker, and beside these only connections whose endpoint ended on
\* that worker by an exception it does not catch (ws_manager.py 27-39,
\* ws.py 57).
THEOREM RegistryIsExact == Spec => []OnlineAreRegistered
  <1>1. NInv => OnlineAreRegistered
    BY InvImplies
  <1> QED
    BY <1>1, Invariance, PTL

\* Once its row is stored a handler fails only with its worker, with which
\* all connections of that worker go: a dead socket does not take it down
\* (ws_manager.py 46).
THEOREM DeadSocketsHarmless == Spec => DeadSocketsAreSurvived
  <1> DEFINE Step == \A a \in Announcement :
                       announcement[a].pc = "pushing" /\ announcement'[a].pc = "failed" =>
                         \A s \in Socket : endpoint'[s].worker # announcement[a].worker
  <1>1. NInv /\ [Next]_vars => [Step]_vars
    <2> SUFFICES ASSUME NInv, Next, NEW a \in Announcement,
                        announcement[a].pc = "pushing", announcement'[a].pc = "failed",
                        NEW s \in Socket
                 PROVE  endpoint'[s].worker # announcement[a].worker
      OBVIOUS
    <2>0. announcement \in [Announcement -> Handler] /\ announcement[a].worker \in Worker
      BY DEF NInv, HandlersOK, HandlerRuns
    <2>1. ASSUME NEW w \in Worker, Crash(w) PROVE endpoint'[s].worker # announcement[a].worker
      BY <2>0, <2>1, CrashDoes
    <2>2. ASSUME NEW b \in Announcement,
                 HandlerStep(b) \/ \E w \in Worker, u \in User : CommitEvent(b, w, u)
          PROVE  FALSE
      <3>1. b # a => announcement'[a] = announcement[a]
        BY <2>0, <2>2 DEF HandlerStep, StoreNotification, LoseNotification, Send, SendFails,
                          PushOver, CommitEvent, Advanced
      <3>2. b = a => announcement'[a].pc # "failed"
        BY <2>0, <2>2 DEF HandlerStep, StoreNotification, LoseNotification, Send, SendFails,
                          PushOver, CommitEvent, Advanced, Handler
      <3> QED
        BY <3>1, <3>2
    <2>3. ASSUME NEW t \in Socket,
                 \/ Reject(t) \/ HangUp(t) \/ ReceiveRaises(t) \/ EndpointStep(t)
                 \/ \E w \in Worker : Connect(t, w)
          PROVE  FALSE
      BY <2>3 DEF Reject, HangUp, ReceiveRaises, EndpointStep, Register, AcceptFails, Disconnected, Connect
    <2> QED
      BY <2>1, <2>2, <2>3 DEF Next
  <1>2. Spec => [][Step]_vars
    BY <1>1, Invariance, PTL DEF Spec
  <1> QED
    BY <1>2 DEF DeadSocketsAreSurvived
=============================================================================
