------------------------------ MODULE Sessions ------------------------------
(***************************************************************************)
(* Requests to the API and their database sessions.  A request is handled  *)
(* by one of the threads of one of the worker processes, so the steps of   *)
(* several requests interleave; a step here is what a handler does between *)
(* two of its round trips to the database.  Every query sees what is       *)
(* committed (READ COMMITTED), the objects of a session stay as they were  *)
(* loaded, and a commit writes the columns that were assigned a value      *)
(* other than the loaded one.  On its way out an answer passes the layers  *)
(* of middleware that main.py puts around the router.                      *)
(***************************************************************************)
EXTENDS Integers, Sequences, FiniteSets, TLC

CONSTANTS
  Request,   \* requests, each made once
  MaxDeaths  \* bound: requests whose worker dies

ASSUME DeathsAssumption == MaxDeaths \in Nat

VARIABLES
  req,      \* where each request is, what it asks, what it has read, its answer
  context,  \* the request id that code running for a request finds in request_id_ctx
  met,      \* the requests that ran at some time while it ran (a history)
  deaths

sessionVars == <<req, context, met, deaths>>

-----------------------------------------------------------------------------
(* The middleware stack.                                                   *)

\* The catch-all added last, and so outside all the others.
BugCatchAllOutside ==
  <<"CORS", "SlowAPI", "SecurityHeaders", "RequestContext", "UnhandledException">>

\* In the order of app.add_middleware: the last one is the outermost.
Layers == <<"UnhandledException", "CORS", "SlowAPI", "SecurityHeaders", "RequestContext">>

\* Answers: "ok"; "refused", an HTTPException of the handler itself;
\* "conflict", the 409 that an IntegrityError becomes; "error", the 500 that
\* any other SQLAlchemyError becomes; "unhandled", the 500 of any other
\* exception; "lost", no answer, when the worker died.  All but the last two
\* come from the router, inside every layer.
Outside(answer) ==
  IF answer = "unhandled"
  THEN {l \in DOMAIN Layers : \E c \in 1 .. l - 1 : Layers[c] = "UnhandledException"}
  ELSE DOMAIN Layers

\* What an answer carries: the header of each layer it passes on its way out
\* and, if it is an error the handlers of this API format, the id in its body.
Response(r, answer) ==
  [layers |-> {Layers[l] : l \in Outside(answer)},
   id |-> IF answer \in {"conflict", "error", "unhandled"} THEN context[r] ELSE r]

NoResponse == [layers |-> {}, id |-> "-"]

\* A ContextVar: the id is set for the code that runs for this request.
Entered(r) == [context EXCEPT ![r] = r]

-----------------------------------------------------------------------------
NotMade == [at |-> "new", op |-> [do |-> "none"], read |-> <<>>, answer |-> "none",
            response |-> NoResponse]

SessionsInit ==
  /\ req = [r \in Request |-> NotMade]
  /\ context = [r \in Request |-> "-"]
  /\ met = [r \in Request |-> {}]
  /\ deaths = 0

Runs(r) == req[r].at \notin {"new", "done"}
At(r, step) == req[r].at = step
Done(r, do) == req[r].answer = "ok" /\ req[r].op.do = do
Met(r, q) == q \in met[r]

\* A request arrives and has done its first reads.
Begin(r, op, step, read) ==
  /\ At(r, "new")
  /\ req' = [req EXCEPT ![r] = [NotMade EXCEPT !.at = step, !.op = op, !.read = read]]
  /\ context' = Entered(r)
  /\ met' = [q \in Request |-> IF q = r THEN {p \in Request : Runs(p)}
                               ELSE IF Runs(q) THEN met[q] \cup {r} ELSE met[q]]
  /\ UNCHANGED deaths

Proceed(r, step, read) ==
  /\ req' = [req EXCEPT ![r].at = step, ![r].read = read]
  /\ UNCHANGED <<context, met, deaths>>

Ended(r, answer, response) ==
  [req EXCEPT ![r].at = "done", ![r].read = <<>>, ![r].answer = answer, ![r].response = response]

Answer(r, answer) ==
  /\ req' = Ended(r, answer, Response(r, answer))
  /\ context' = [context EXCEPT ![r] = "-"]
  /\ UNCHANGED <<met, deaths>>

Refuse(r) == Answer(r, "refused")

\* A request that is refused by its first reads.
RefuseAtOnce(r, op) ==
  /\ At(r, "new")
  /\ req' = [req EXCEPT ![r] = [NotMade EXCEPT !.at = "done", !.op = op, !.answer = "refused",
                                             !.response = Response(r, "refused")]]
  /\ UNCHANGED <<context, met, deaths>>

\* Whatever the session has not committed is rolled back.
Die(r) ==
  /\ Runs(r)
  /\ deaths < MaxDeaths
  /\ req' = Ended(r, "lost", NoResponse)
  /\ context' = [context EXCEPT ![r] = "-"]
  /\ deaths' = deaths + 1
  /\ UNCHANGED met

-----------------------------------------------------------------------------
(* Commits.                                                                *)

\* The unit of work: the row as it is, with the columns that the session
\* assigned a value other than the one it had loaded.
Flush(row, loaded, assigned) ==
  [c \in DOMAIN row |-> IF c \in DOMAIN assigned /\ assigned[c] # loaded[c]
                        THEN assigned[c] ELSE row[c]]

Without(f, x) == [y \in DOMAIN f \ {x} |-> f[y]]
With(f, x, y) == [z \in DOMAIN f \cup {x} |-> IF z = x THEN y ELSE f[z]]

\* The commit of an UPDATE or INSERT, and the answer that follows it:
\* StaleDataError if the row is gone, IntegrityError if a constraint fails.
CommitAnswer(present, legal) ==
  IF ~ present THEN "error" ELSE IF ~ legal THEN "conflict" ELSE "ok"

=============================================================================
