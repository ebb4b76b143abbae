--------------------------- MODULE ActiveRideCache ---------------------------
(***************************************************************************)
(* backend/sockets/handlers.py: location pings and the Redis key           *)
(* driver:active_ride:<id> of one driver, which tells a ping the driver's  *)
(* ride without asking Postgres.  The key is filled by pings that miss it  *)
(* and by an accept, and cleared after a completion and a payment, each in *)
(* a greenlet that has yielded since it read or committed.                 *)
(***************************************************************************)
EXTENDS Naturals

CONSTANTS Request, Ping,
          None,      \* the cached "": the driver has no active ride
          Absent     \* no such key

ASSUME NamesAssumption == None \notin Request /\ Absent \notin Request \cup {None}

VARIABLES status,  \* of each rides row of the driver
          cache,   \* the key's value
          todo,    \* handlers that have committed, and not yet written the key
          ping,    \* update_location handlers under way
          moved,   \* the ride whose room was last told a position
          stale    \* history: a ping, or a failed write, has left the key wrong

vars == <<status, cache, todo, ping, moved, stale>>

Idle == [at |-> "idle", ride |-> None]

TypeOK ==
  /\ status \in [Request -> {"none", "active", "completed", "paid"}]
  /\ cache \in Request \cup {None, Absent}
  /\ todo \subseteq {"accepted", "completed", "paid"} \X Request
  /\ ping \in [Ping -> [at : {"idle", "query", "store", "tell"},
                        ride : Request \cup {None}]]
  /\ moved \in Request \cup {None}
  /\ stale \in BOOLEAN

Init ==
  /\ status = [r \in Request |-> "none"]
  /\ cache = Absent
  /\ todo = {}
  /\ ping = [p \in Ping |-> Idle]
  /\ moved = None
  /\ stale = FALSE

\* accepted or in_progress; what get_active_request_id_for_driver may answer.
Active(r) == status[r] = "active"
Answers(v) == IF v = None THEN \A r \in Request : ~Active(r)
              ELSE v \in Request /\ Active(v)

Wrong(v) == v # Absent /\ ~Answers(v)

Write(v) == cache' = v /\ stale' = Wrong(v)

-----------------------------------------------------------------------------
(* Transitions of a ride, and what their handlers do after the commit.     *)

Accept(r) ==
  /\ status[r] = "none" /\ Answers(None)
  /\ status' = [status EXCEPT ![r] = "active"]
  /\ todo' = todo \cup {<<"accepted", r>>}
  /\ UNCHANGED <<cache, ping, moved, stale>>

\* Mutant: the key is left to its expiry.
CompleteOnly(r) ==
  /\ Active(r) /\ <<"accepted", r>> \notin todo
  /\ status' = [status EXCEPT ![r] = "completed"]
  /\ UNCHANGED <<cache, todo, ping, moved, stale>>

\* The simulator whose report this is was started after the key was written.
Complete(r) ==
  /\ Active(r) /\ <<"accepted", r>> \notin todo
  /\ status' = [status EXCEPT ![r] = "completed"]
  /\ todo' = todo \cup {<<"completed", r>>}
  /\ UNCHANGED <<cache, ping, moved, stale>>

Pay(r) ==
  /\ status[r] = "completed"
  /\ status' = [status EXCEPT ![r] = "paid"]
  /\ todo' = todo \cup {<<"paid", r>>}
  /\ UNCHANGED <<cache, ping, moved, stale>>

\* _cache_active_ride after an accept, _clear_active_ride after the others.
WriteKey(x) ==
  /\ x \in todo
  /\ todo' = todo \ {x}
  /\ cache' = IF x[1] = "accepted" THEN x[2] ELSE Absent
  /\ stale' = FALSE
  /\ UNCHANGED <<status, ping, moved>>

\* The Redis call raises; the handler logs it and goes on.
WriteFails(x) ==
  /\ x \in todo
  /\ todo' = todo \ {x}
  /\ Write(cache)
  /\ UNCHANGED <<status, ping, moved>>

-----------------------------------------------------------------------------
(* update_location                                                         *)

Goes(p, at, r) == ping' = [ping EXCEPT ![p] = [at |-> at, ride |-> r]]

Get(p) ==
  /\ ping[p].at = "idle"
  /\ IF cache = Absent THEN Goes(p, "query", None) ELSE Goes(p, "tell", cache)
  /\ UNCHANGED <<status, cache, todo, moved, stale>>

Query(p) ==
  /\ ping[p].at = "query"
  /\ \E v \in Request \cup {None} : Answers(v) /\ Goes(p, "store", v)
  /\ UNCHANGED <<status, cache, todo, moved, stale>>

Store(p) ==
  /\ ping[p].at = "store"
  /\ Write(ping[p].ride)
  /\ Goes(p, "tell", ping[p].ride)
  /\ UNCHANGED <<status, todo, moved>>

\* On a trip the ride's room is told; otherwise the heartbeat is refreshed.
Tell(p) ==
  /\ ping[p].at = "tell"
  /\ ping' = [ping EXCEPT ![p] = Idle]
  /\ moved' = IF ping[p].ride = None THEN moved ELSE ping[p].ride
  /\ UNCHANGED <<status, cache, todo, stale>>

Handle(p) == Get(p) \/ Query(p) \/ Store(p) \/ Tell(p)

\* Mutant: a cached "no ride" has no time to live.
ExpireRide ==
  /\ cache \in Request
  /\ cache' = Absent /\ stale' = FALSE
  /\ UNCHANGED <<status, todo, ping, moved>>

\* SETEX: 10 seconds for "no ride", six hours for a ride.
Expire ==
  /\ cache # Absent
  /\ cache' = Absent /\ stale' = FALSE
  /\ UNCHANGED <<status, todo, ping, moved>>

-----------------------------------------------------------------------------
Next ==
  \/ \E r \in Request : Accept(r) \/ Complete(r) \/ Pay(r)
  \/ \E x \in todo : WriteKey(x) \/ WriteFails(x)
  \/ \E p \in Ping : Handle(p)
  \/ Expire

\* Pings keep coming while the car moves, and calls return.  Ten seconds pass;
\* six hours are longer than a trip, so a cached ride need not expire.
Fairness ==
  /\ \A p \in Ping : WF_vars(Handle(p))
  /\ WF_vars(cache = None /\ Expire)

Spec == Init /\ [][Next]_vars /\ Fairness

-----------------------------------------------------------------------------
\* handlers.py:184: the key is derived from Postgres.  With no handler still
\* to write it, it is wrong only because a ping stored an answer that a commit
\* had overtaken, or because a Redis call failed.
CacheAgrees == todo = {} /\ ~stale => ~Wrong(cache)

\* handlers.py:473: the room of the ride the driver is on sees the car move,
\* whatever answer pings had cached before, unless the key names another ride
\* for the rest of the trip.
TripsBecomeVisible ==
  \A r \in Request :
    Active(r) ~> moved = r \/ ~Active(r) \/ [](cache \in Request \ {r})
=============================================================================
