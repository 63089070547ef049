---------------------------- MODULE Notifications ----------------------------
(***************************************************************************)
(* Telling a user that something happened: notify_user, the WebSocket      *)
(* registry and its endpoint.  The status change, tracking event or        *)
(* payment that is announced has a commit of its own before; the           *)
(* notification's row is a second transaction and the push comes last.     *)
(*                                                                         *)
(* All of these are coroutines.  A worker's event loop runs one of them    *)
(* until it awaits something that is not ready: from the event's commit to *)
(* the first send nothing else runs on that worker, while each send, and   *)
(* each accept or receive of a socket's endpoint, lets the others run.     *)
(* The registry is memory of one worker and is gone when the worker dies.  *)
(*                                                                         *)
(* Marking notifications as read and listing them are left out.            *)
(***************************************************************************)
EXTENDS Naturals, SequencesExt

CONSTANTS User, Worker,
          Socket,        \* WebSocket connections; each is made once
          SocketUser,    \* Socket -> the user whose token it carries
          Announcement,  \* handled events that end in notify_user
          None

ASSUME SocketUserAssumption == SocketUser \in [Socket -> User]
ASSUME NoneAssumption == None \notin User \cup Worker

VARIABLES
  endpoint,    \* Socket -> its coroutine, and the worker it runs on
  online,      \* sockets whose client is still there
  registry,    \* Worker -> User -> ConnectionManager._connections
  announcement,\* Announcement -> what its handler holds
  happened,    \* announcements whose event is committed
  stored,      \* announcements whose notifications row is committed
  received     \* <<socket, announcement>>: payloads that reached a client

sockets == <<endpoint, online, registry>>
vars == <<sockets, announcement, happened, stored, received>>

Unconnected(pc) == [pc |-> pc, worker |-> None]
NotHandled ==
  [pc |-> "new", worker |-> None, user |-> None, targets |-> <<>>, sent |-> 0]

Init ==
  /\ endpoint = [s \in Socket |-> Unconnected("new")]
  /\ online = {}
  /\ registry = [w \in Worker |-> [u \in User |-> <<>>]]
  /\ announcement = [a \in Announcement |-> NotHandled]
  /\ happened = {} /\ stored = {} /\ received = {}

\* No handler on w is between its event's commit and its first await.
BugTwoOnALoop(w) == TRUE
LoopFree(w) == \A a \in Announcement : announcement[a].pc = "happened" => announcement[a].worker # w

-----------------------------------------------------------------------------
(* ConnectionManager.                                                      *)

Registered(w, s) == s \in Range(registry[w][SocketUser[s]])

Registering(w, s) == [registry EXCEPT ![w][SocketUser[s]] = Append(@, s)]

\* disconnect(): the socket leaves its user's list, if it is still there.
BugForgetsUser(w, s) == [registry EXCEPT ![w][SocketUser[s]] = <<>>]
Forgetting(w, s) == [registry EXCEPT ![w][SocketUser[s]] = RemoveFirst(@, s)]

-----------------------------------------------------------------------------
(* notifications_websocket: authenticate, accept, register, then receive   *)
(* until the connection is gone.                                           *)

Connect(s, w) ==
  /\ endpoint[s].pc = "new"
  /\ LoopFree(w)
  /\ endpoint' = [endpoint EXCEPT ![s] = [pc |-> "accepting", worker |-> w]]
  /\ online' = online \cup {s}
  /\ UNCHANGED <<registry, announcement, happened, stored, received>>

\* close(4401): no valid access token, or no active user.
Reject(s) ==
  /\ endpoint[s].pc = "new"
  /\ endpoint' = [endpoint EXCEPT ![s] = Unconnected("ended")]
  /\ UNCHANGED <<online, registry, announcement, happened, stored, received>>

\* accept() returns, although the client may have left meanwhile.
Register(s) ==
  LET w == endpoint[s].worker
  IN  /\ endpoint[s].pc = "accepting"
      /\ LoopFree(w)
      /\ endpoint' = [endpoint EXCEPT ![s].pc = "listening"]
      /\ registry' = Registering(w, s)
      /\ UNCHANGED <<online, announcement, happened, stored, received>>

\* accept() raises: the client has left.
AcceptFails(s) ==
  /\ endpoint[s].pc = "accepting"
  /\ LoopFree(endpoint[s].worker)
  /\ s \notin online
  /\ endpoint' = [endpoint EXCEPT ![s] = Unconnected("ended")]
  /\ UNCHANGED <<online, registry, announcement, happened, stored, received>>

\* The client closes its tab or loses its network.
HangUp(s) ==
  /\ s \in online
  /\ online' = online \ {s}
  /\ UNCHANGED <<endpoint, registry, announcement, happened, stored, received>>

\* receive_text() raises WebSocketDisconnect.
BugNoCleanup(s) ==
  /\ endpoint[s].pc = "listening"
  /\ LoopFree(endpoint[s].worker)
  /\ s \notin online
  /\ endpoint' = [endpoint EXCEPT ![s] = Unconnected("ended")]
  /\ UNCHANGED <<online, registry, announcement, happened, stored, received>>
Disconnected(s) ==
  /\ endpoint[s].pc = "listening"
  /\ LoopFree(endpoint[s].worker)
  /\ s \notin online
  /\ endpoint' = [endpoint EXCEPT ![s] = Unconnected("ended")]
  /\ registry' = Forgetting(endpoint[s].worker, s)
  /\ UNCHANGED <<online, announcement, happened, stored, received>>

\* receive_text() raises what the endpoint does not catch: a frame that is
\* not text is a KeyError.  The coroutine ends without disconnect() and the
\* server closes the connection; the worker keeps the entry.
ReceiveRaises(s) ==
  /\ endpoint[s].pc = "listening"
  /\ LoopFree(endpoint[s].worker)
  /\ endpoint' = [endpoint EXCEPT ![s].pc = "raised"]
  /\ online' = online \ {s}
  /\ UNCHANGED <<registry, announcement, happened, stored, received>>

EndpointStep(s) == Register(s) \/ AcceptFails(s) \/ Disconnected(s)

-----------------------------------------------------------------------------
(* A handler that ends in notify_user.                                     *)

\* The status change, tracking event or payment commits.
CommitEvent(a, w, u) ==
  /\ announcement[a].pc = "new"
  /\ LoopFree(w)
  /\ announcement' = [announcement EXCEPT ![a].pc = "happened", ![a].worker = w, ![a].user = u]
  /\ happened' = happened \cup {a}
  /\ UNCHANGED <<sockets, stored, received>>

\* db.commit() of the notification; then list(self._connections.get(...)),
\* a copy of the list, is what the push goes through.
BugNotCommitted(a) ==
  LET n == announcement[a]
  IN  /\ n.pc = "happened"
      /\ announcement' = [announcement EXCEPT ![a].pc = "pushing",
                                              ![a].targets = registry[n.worker][n.user]]
      /\ UNCHANGED <<sockets, happened, stored, received>>
StoreNotification(a) ==
  LET n == announcement[a]
  IN  /\ n.pc = "happened"
      /\ stored' = stored \cup {a}
      /\ announcement' = [announcement EXCEPT ![a].pc = "pushing",
                                              ![a].targets = registry[n.worker][n.user]]
      /\ UNCHANGED <<sockets, happened, received>>

\* The second commit fails, or the refresh after it: the event stays, its
\* row may be there or not, and nothing is pushed.
LoseNotification(a) ==
  /\ announcement[a].pc = "happened"
  /\ stored' \in {stored, stored \cup {a}}
  /\ announcement' = [announcement EXCEPT ![a].pc = "failed"]
  /\ UNCHANGED <<sockets, happened, received>>

\* What the for loop of send_to_user goes through.
BugLiveList(a) == registry[announcement[a].worker][announcement[a].user]
Targets(a) == announcement[a].targets

\* The loop's next socket: its send_json returns or raises.
Pushing(a) ==
  /\ announcement[a].pc = "pushing"
  /\ LoopFree(announcement[a].worker)
  /\ announcement[a].sent < Len(Targets(a))
Current(a) == Targets(a)[announcement[a].sent + 1]
Advanced(a) == [announcement EXCEPT ![a].sent = @ + 1]

\* A client that is there gets the payload; one that has left without the
\* connection noticing does not, and nobody is told.  On a connection whose
\* endpoint is over a send cannot return.
Send(a) ==
  /\ Pushing(a)
  /\ endpoint[Current(a)].pc = "listening"
  /\ received' = IF Current(a) \in online THEN received \cup {<<Current(a), a>>} ELSE received
  /\ announcement' = Advanced(a)
  /\ UNCHANGED <<sockets, happened, stored>>

\* send_json raises: "drop it and move on".
BugNotCaught(a) ==
  /\ Pushing(a)
  /\ Current(a) \notin online
  /\ announcement' = [announcement EXCEPT ![a].pc = "failed"]
  /\ UNCHANGED <<sockets, happened, stored, received>>
SendFails(a) ==
  /\ Pushing(a)
  /\ Current(a) \notin online
  /\ registry' = Forgetting(announcement[a].worker, Current(a))
  /\ announcement' = Advanced(a)
  /\ UNCHANGED <<endpoint, online, happened, stored, received>>

\* send_to_user returns; what is left of the handler reads its answer.
PushOver(a) ==
  /\ announcement[a].pc = "pushing"
  /\ LoopFree(announcement[a].worker)
  /\ announcement[a].sent >= Len(Targets(a))
  /\ announcement' = [announcement EXCEPT ![a].pc = "done"]
  /\ UNCHANGED <<sockets, happened, stored, received>>

HandlerStep(a) ==
  StoreNotification(a) \/ LoseNotification(a) \/ Send(a) \/ SendFails(a) \/ PushOver(a)

-----------------------------------------------------------------------------
\* The worker dies: its registry, its connections and its handlers go, and
\* a new process takes its place.
Crash(w) ==
  LET lost == {s \in Socket : endpoint[s].worker = w}
      cut == {a \in Announcement : announcement[a].worker = w
                                   /\ announcement[a].pc \in {"happened", "pushing"}}
  IN  /\ registry' = [registry EXCEPT ![w] = [u \in User |-> <<>>]]
      /\ online' = online \ lost
      /\ endpoint' = [s \in Socket |-> IF s \in lost THEN Unconnected("ended") ELSE endpoint[s]]
      /\ announcement' = [a \in Announcement |->
                            IF a \in cut THEN [announcement[a] EXCEPT !.pc = "failed"] ELSE announcement[a]]
      /\ UNCHANGED <<happened, stored, received>>

Next ==
  \/ \E s \in Socket : Reject(s) \/ HangUp(s) \/ ReceiveRaises(s) \/ EndpointStep(s) \/ \E w \in Worker : Connect(s, w)
  \/ \E a \in Announcement :
       HandlerStep(a) \/ \E w \in Worker, u \in User : CommitEvent(a, w, u)
  \/ \E w \in Worker : Crash(w)

Spec == Init /\ [][Next]_vars

\* A coroutine goes on once its loop is free: a send or a receive on a dead
\* connection ends at the latest with the ping timeout of the server.
Fairness ==
  /\ \A s \in Socket : WF_vars(EndpointStep(s))
  /\ \A a \in Announcement : WF_vars(HandlerStep(a))

FairSpec == Spec /\ Fairness

-----------------------------------------------------------------------------
(* Properties.                                                             *)

Endpoint == [pc : {"new", "accepting", "listening", "raised", "ended"}, worker : Worker \cup {None}]
Handler == [pc : {"new", "happened", "pushing", "done", "failed"}, worker : Worker \cup {None},
            user : User \cup {None}, targets : Seq(Socket), sent : Nat]

\* Coroutines and registries have their shapes, one handler at most is
\* between its commits on each loop, and no push runs past its list.
NotificationsTypeOK ==
  /\ endpoint \in [Socket -> Endpoint]
  /\ online \subseteq Socket
  /\ registry \in [Worker -> [User -> Seq(Socket)]]
  /\ announcement \in [Announcement -> Handler]
  /\ stored \subseteq happened /\ happened \subseteq Announcement
  /\ received \subseteq Socket \X Announcement
  /\ \A a, b \in Announcement :
       announcement[a].pc = "happened" /\ announcement[b].pc = "happened"
       /\ announcement[a].worker = announcement[b].worker => a = b
  /\ \A a \in Announcement :
       announcement[a].pc = "pushing" => announcement[a].sent <= Len(announcement[a].targets)

\* A push repeats a row the user can still read when the socket is gone
\* (models/notification.py 4-13): whatever a client received is stored, for
\* that client's user, although the sender may have crashed since.
PushIsStored ==
  \A s \in Socket, a \in Announcement : <<s, a>> \in received =>
    a \in stored /\ announcement[a].user = SocketUser[s]

\* "drop it and move on" (ws_manager.py 46): when a push is over, every
\* client that was registered at its start and is still there has got it,
\* whichever sockets failed, left or joined while the loop was waiting.
PushReachesAll ==
  \A a \in Announcement : announcement[a].pc = "done" =>
    \A i \in DOMAIN announcement[a].targets :
      announcement[a].targets[i] \in online => <<announcement[a].targets[i], a>> \in received

\* A client that is there is registered where its endpoint listens, once,
\* and under its own user: closing one tab does not silence another
\* (ws_manager.py 32-39).  The only other entries are of endpoints that ended
\* past the except of ws.py 57, on the worker where they did.
OnlineAreRegistered ==
  /\ \A s \in online : endpoint[s].pc = "listening" => Registered(endpoint[s].worker, s)
  /\ \A w \in Worker, u \in User : \A i, j \in DOMAIN registry[w][u] :
       LET s == registry[w][u][i]
       IN  /\ endpoint[s].pc \in {"listening", "raised"} /\ endpoint[s].worker = w
           /\ u = SocketUser[s]
           /\ registry[w][u][j] = s => i = j

\* A push on w still has s ahead of it.
Awaited(w, s) ==
  \E a \in Announcement :
    /\ announcement[a].pc = "pushing" /\ announcement[a].worker = w
    /\ \E i \in DOMAIN Targets(a) : i > announcement[a].sent /\ Targets(a)[i] = s

\* A registry does not fill with sockets of clients that have left
\* (ws.py 50-58), unless the endpoint ended on what it could not read; such an
\* entry goes with the first push that comes to it (ws_manager.py 45-50), and
\* stays where no push does.
LeaversAreForgotten ==
  \A s \in Socket, w \in Worker :
    /\ Registered(w, s) /\ s \notin online ~> ~Registered(w, s) \/ endpoint[s].pc = "raised"
    /\ Registered(w, s) /\ endpoint[s].pc = "raised" /\ Awaited(w, s) ~> ~Registered(w, s)

\* "A dead/closed socket shouldn't take down the request that triggered the
\* notification" (ws_manager.py 46): once the row is stored, a handler fails
\* only with its worker, on which then no connection is left either.
DeadSocketsAreSurvived ==
  [][\A a \in Announcement :
       announcement[a].pc = "pushing" /\ announcement'[a].pc = "failed" =>
         \A s \in Socket : endpoint'[s].worker # announcement[a].worker]_vars
=============================================================================
