------------------------------- MODULE DbPool -------------------------------
(***************************************************************************)
(* backend/db.py: get_db_conn lends the connections of psycopg2's          *)
(* ThreadedConnectionPool, whose getconn raises when all of them are lent, *)
(* to callers that have a slot of a semaphore, on which they wait instead. *)
(* Every step below may yield to another greenlet: the semaphore waits,    *)
(* and getconn, putconn, rollback and statements talk to the server.       *)
(***************************************************************************)
EXTENDS Integers, FiniteSets

CONSTANTS Caller, Conn,
          DB_POOL_MAX_CONN,
          MaxBreaks,          \* bound on connections the server drops
          Null

ASSUME PoolAssumption ==
  /\ IsFiniteSet(Caller) /\ IsFiniteSet(Conn)
  /\ DB_POOL_MAX_CONN \in 1 .. Cardinality(Conn) /\ MaxBreaks \in Nat
  /\ Null \notin Conn

VARIABLES pc,      \* how far each caller is in get_db_conn
          conn,    \* the connection it has borrowed
          slots,   \* the semaphore's count
          idle,    \* connections in the pool
          lost,    \* lent connections whose putconn raised
          link,    \* none: not open; down: dropped, and nobody noticed yet
          open,    \* connections inside a transaction
          breaks   \* connections dropped so far

vars == <<pc, conn, slots, idle, lost, link, open, breaks>>

Inside == {"entered", "using", "failed", "returning", "releasing"}
Borrowing == {"using", "failed", "returning"}

TypeOK ==
  /\ pc \in [Caller -> Inside \cup {"outside", "waiting"}]
  /\ conn \in [Caller -> Conn \cup {Null}]
  /\ slots \in 0 .. DB_POOL_MAX_CONN
  /\ idle \subseteq Conn /\ lost \subseteq Conn /\ open \subseteq Conn
  /\ link \in [Conn -> {"none", "up", "down", "closed"}]
  /\ breaks \in 0 .. MaxBreaks

Init ==
  /\ pc = [c \in Caller |-> "outside"]
  /\ conn = [c \in Caller |-> Null]
  /\ slots = DB_POOL_MAX_CONN
  /\ idle = {} /\ lost = {} /\ open = {}
  /\ link = [k \in Conn |-> "none"]
  /\ breaks = 0

At(c, from, to) == pc[c] = from /\ pc' = [pc EXCEPT ![c] = to]

\* What psycopg2's pool counts as used.
Lent == Cardinality({c \in Caller : pc[c] \in Borrowing}) + Cardinality(lost)

-----------------------------------------------------------------------------
Ask(c) ==
  /\ At(c, "outside", "waiting")
  /\ UNCHANGED <<conn, slots, idle, lost, link, open, breaks>>

Acquire(c) ==
  /\ At(c, "waiting", "entered")
  /\ slots > 0
  /\ slots' = slots - 1
  /\ UNCHANGED <<conn, idle, lost, link, open, breaks>>

\* getconn: an idle connection, or a new one while fewer than the maximum are lent.
Borrow(c) ==
  /\ At(c, "entered", "using")
  /\ \E k \in Conn :
       /\ conn' = [conn EXCEPT ![c] = k]
       /\ \/ /\ k \in idle
             /\ idle' = idle \ {k}
             /\ UNCHANGED link
          \/ /\ idle = {} /\ Lent < DB_POOL_MAX_CONN
             /\ link[k] = "none"
             /\ link' = [link EXCEPT ![k] = "up"]
             /\ UNCHANGED idle
  /\ UNCHANGED <<slots, lost, open, breaks>>

\* Mutant: the slot is kept when no connection could be opened.
BorrowFailsKeepingSlot(c) ==
  /\ At(c, "entered", "outside")
  /\ idle = {}
  /\ UNCHANGED <<conn, slots, idle, lost, link, open, breaks>>

\* The server refuses a new connection (or the pool had none to lend).
BorrowFails(c) ==
  /\ At(c, "entered", "outside")
  /\ idle = {}
  /\ slots' = slots + 1
  /\ UNCHANGED <<conn, idle, lost, link, open, breaks>>

\* A statement opens a transaction, commit closes it; on a dropped connection
\* either raises, and psycopg2 marks the connection closed.
Execute(c) ==
  /\ pc[c] = "using"
  /\ IF link[conn[c]] = "up"
     THEN /\ open' \in {open \cup {conn[c]}, open \ {conn[c]}}
          /\ UNCHANGED <<pc, link>>
     ELSE /\ At(c, "using", "failed")
          /\ link' = [link EXCEPT ![conn[c]] = "closed"]
          /\ open' = open \ {conn[c]}
  /\ UNCHANGED <<conn, slots, idle, lost, breaks>>

BodyRaises(c) ==
  /\ At(c, "using", "failed")
  /\ UNCHANGED <<conn, slots, idle, lost, link, open, breaks>>

\* Reads return without a commit, so the transaction may still be open.
BodyReturns(c) ==
  /\ At(c, "using", "returning")
  /\ UNCHANGED <<conn, slots, idle, lost, link, open, breaks>>

\* A rollback would have to talk to a server that is gone.
Unusable(k) == link[k] = "down" /\ k \in open

\* The except branch; a rollback that raises reaches the finally all the same.
Rollback(c) ==
  /\ At(c, "failed", "returning")
  /\ link' = [link EXCEPT ![conn[c]] = IF Unusable(conn[c]) THEN "closed" ELSE @]
  /\ open' = open \ {conn[c]}
  /\ UNCHANGED <<conn, slots, idle, lost, breaks>>

\* putconn forgets a closed connection, closes one beyond the minimum, and
\* keeps the others after rolling an open transaction back.
PutConn(c) ==
  /\ At(c, "returning", "releasing")
  /\ conn' = [conn EXCEPT ![c] = Null]
  /\ open' = open \ {conn[c]}
  /\ \/ /\ link[conn[c]] # "closed" /\ ~Unusable(conn[c])
        /\ idle' = idle \cup {conn[c]}
        /\ UNCHANGED link
     \/ /\ link' = [link EXCEPT ![conn[c]] = "none"]
        /\ UNCHANGED idle
  /\ UNCHANGED <<slots, lost, breaks>>

\* Mutant: slots.release() runs although the pool still counts the connection.
PutConnRaisesReleasing(c) ==
  /\ At(c, "returning", "releasing")
  /\ Unusable(conn[c])
  /\ conn' = [conn EXCEPT ![c] = Null]
  /\ lost' = lost \cup {conn[c]}
  /\ UNCHANGED <<slots, idle, link, open, breaks>>

\* The pool's own rollback raises: the connection stays lent and the line
\* after putconn, slots.release(), is skipped.
PutConnRaises(c) ==
  /\ At(c, "returning", "outside")
  /\ Unusable(conn[c])
  /\ conn' = [conn EXCEPT ![c] = Null]
  /\ lost' = lost \cup {conn[c]}
  /\ UNCHANGED <<slots, idle, link, open, breaks>>

Release(c) ==
  /\ At(c, "releasing", "outside")
  /\ slots' = slots + 1
  /\ UNCHANGED <<conn, idle, lost, link, open, breaks>>

\* The server restarts, or the network drops a connection.
Break(k) ==
  /\ link[k] = "up"
  /\ breaks < MaxBreaks
  /\ link' = [link EXCEPT ![k] = "down"]
  /\ breaks' = breaks + 1
  /\ UNCHANGED <<pc, conn, slots, idle, lost, open>>

-----------------------------------------------------------------------------
Step(c) ==
  \/ Acquire(c) \/ Borrow(c) \/ BorrowFails(c)
  \/ BodyRaises(c) \/ BodyReturns(c) \/ Rollback(c)
  \/ PutConn(c) \/ PutConnRaises(c) \/ Release(c)

Next ==
  \/ \E c \in Caller : Ask(c) \/ Execute(c) \/ Step(c)
  \/ \E k \in Conn : Break(k)

\* A woken greenlet runs on, calls return or raise, and bodies end; but a
\* newcomer may take a slot before the waiter it was freed for.
Fairness == \A c \in Caller : WF_vars(Step(c))

Spec == Init /\ [][Next]_vars /\ Fairness

-----------------------------------------------------------------------------
\* db.py:66: whoever got a slot finds a connection to lend: getconn never
\* raises because every connection is borrowed, even after connections were lost.
NoPoolError == \A c \in Caller : pc[c] = "entered" => Lent < DB_POOL_MAX_CONN

\* db.py:119: a broken connection costs one slot at most, and nothing else
\* costs any: every other slot is free or with a caller inside get_db_conn,
\* however its body ends and wherever it raises, and none is released twice.
\* This is what holds of the promise that ConnectionsAreReturned states.
BreaksCostSlots ==
  slots + Cardinality({c \in Caller : pc[c] \in Inside})
    \in (DB_POOL_MAX_CONN - breaks) .. DB_POOL_MAX_CONN

\* db.py:110: while fewer connections broke than there are slots, callers
\* who wait do not all wait for ever, however calls end or fail.
KeepsServing ==
  (\E c \in Caller : pc[c] = "waiting") ~> (\E c \in Caller : pc[c] = "entered")

\* db.py:98: a borrowed connection is always returned, even on error: when
\* nobody is inside get_db_conn, none is lent and every slot is free.
ConnectionsAreReturned ==
  (\A c \in Caller : pc[c] \notin Inside) => Lent = 0 /\ slots = DB_POOL_MAX_CONN
=============================================================================
