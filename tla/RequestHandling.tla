--------------------------- MODULE RequestHandling ---------------------------
(***************************************************************************)
(* A server process: the event loop, the threads that run synchronous      *)
(* endpoints, the connection pool, and the row lock of the order that all  *)
(* calls are about. The webhook endpoint is asynchronous and talks to the  *)
(* database on the event loop itself.                                      *)
(***************************************************************************)
EXTENDS Naturals, FiniteSets

CONSTANTS
    Calls,     \* requests being served
    PoolSize,  \* connections that the engine's pool may open
    NoCall

ASSUME Pool == PoolSize \in Nat \ {0} /\ NoCall \notin Calls /\ IsFiniteSet(Calls)

VARIABLES
    call,  \* each request: its kind and where it is
    loop,  \* the call whose code occupies the event loop
    row    \* the call whose transaction holds the order's row

handlingVars == <<call, loop, row>>

-----------------------------------------------------------------------------
\* "change": an endpoint whose transaction locks the order, "read": one that only reads,
\* "webhook": a verified event that names the order, "stray": one that names none.
Kinds == {"change", "read", "webhook", "stray"}
OnLoop == {"webhook", "stray"}

\* "waiting" for a connection, "connected" in a transaction, which has "locked" the row; the
\* handler has "returned", or "failed" without a connection; the response is sent, the
\* session closed.
Places == {"arrived", "waiting", "connected", "locked", "returned", "failed", "responded", "closed"}

At(k, place) == [kind |-> k, at |-> place]
Move(c, place) == call' = [call EXCEPT ![c].at = place]

\* session.begin() gives the connection back with the commit; a session that only read keeps
\* it until the dependency closes it, after the response.
Connected ==
    {c \in Calls : \/ call[c].at \in {"connected", "locked"}
                   \/ call[c].kind = "read" /\ call[c].at \in {"returned", "responded"}}
AlwaysRoomFor(c) == TRUE   \* mutant: a pool without a limit

HasRoomFor(c) == Cardinality(Connected \ {c}) < PoolSize

HandlingInit ==
    /\ call = [c \in Calls |-> At("read", "closed")]
    /\ loop = NoCall /\ row = NoCall

Arrive(c) ==
    /\ call[c].at = "closed"
    /\ \E k \in Kinds : call' = [call EXCEPT ![c] = At(k, "arrived")]
    /\ UNCHANGED <<loop, row>>

\* The loop hands a synchronous endpoint to a thread, and runs an asynchronous one itself.
Dispatch(c) ==
    /\ call[c].at = "arrived" /\ loop = NoCall
    /\ Move(c, "waiting")
    /\ loop' = IF call[c].kind \in OnLoop THEN c ELSE NoCall
    /\ UNCHANGED row

Connect(c) ==
    /\ call[c].at = "waiting" /\ HasRoomFor(c)
    /\ Move(c, "connected")
    /\ UNCHANGED <<loop, row>>

\* The handler returns, or raises what becomes its response.
Return(c, how) ==
    /\ Move(c, how)
    /\ loop' = IF loop = c THEN NoCall ELSE loop
    /\ row' = IF row = c THEN NoCall ELSE row

NeverTimesOut(c) == FALSE   \* mutant: a pool that waits for ever

\* After pool_timeout seconds; the webhook answers 500, as for any SQLAlchemyError.
PoolTimeout(c) == call[c].at = "waiting" /\ ~HasRoomFor(c) /\ Return(c, "failed")

\* SELECT ... FOR UPDATE waits for as long as another transaction holds the row.
LockRow(c) ==
    /\ call[c].at = "connected" /\ call[c].kind \in {"change", "webhook"}
    /\ row = NoCall /\ row' = c
    /\ Move(c, "locked")
    /\ UNCHANGED loop

\* The transaction ends, with a commit or a rollback, where the handler runs.
Finish(c) ==
    /\ \/ call[c].at = "locked"
       \/ call[c].at = "connected" /\ call[c].kind \in {"read", "stray"}
    /\ Return(c, "returned")

Respond(c) ==
    /\ call[c].at \in {"returned", "failed"} /\ loop = NoCall
    /\ Move(c, IF call[c].at = "returned" THEN "responded" ELSE "closed")
    /\ UNCHANGED <<loop, row>>

\* The dependency's exit, in a thread.
CloseSession(c) ==
    /\ call[c].at = "responded"
    /\ Move(c, "closed")
    /\ UNCHANGED <<loop, row>>

Serve(c) ==
    \/ Dispatch(c) \/ Connect(c) \/ PoolTimeout(c) \/ LockRow(c)
    \/ Finish(c) \/ Respond(c) \/ CloseSession(c)

HandlingNext == \E c \in Calls : Arrive(c) \/ Serve(c)

\* The loop runs its callbacks in order, PostgreSQL queues those that wait for a row, threads
\* run, and a wait for a connection ends with one or with the timeout: a call goes on if it
\* can do so again and again.
HandlingFairness == \A c \in Calls : SF_handlingVars(Serve(c))

HandlingSpec == HandlingInit /\ [][HandlingNext]_handlingVars /\ HandlingFairness

-----------------------------------------------------------------------------
HandlingTypeOK ==
    /\ call \in [Calls -> [kind : Kinds, at : Places]]
    /\ loop \in Calls \cup {NoCall} /\ row \in Calls \cup {NoCall}
    /\ loop # NoCall => call[loop].kind \in OnLoop /\ call[loop].at \in {"waiting", "connected", "locked"}
    /\ \A c \in Calls : row = c <=> call[c].at = "locked"
    /\ Cardinality(Connected) <= PoolSize

\* Every call is answered and gives its connection back, although a webhook stops the event
\* loop while it waits for a connection or for the order, and those that hold them may need
\* the loop: a thread commits without it, and a wait for a connection ends by itself.
EveryCallEnds == \A c \in Calls : call[c].at = "arrived" ~> call[c].at = "closed"
=============================================================================
