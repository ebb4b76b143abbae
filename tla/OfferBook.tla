----------------------------- MODULE OfferBook -----------------------------
(***************************************************************************)
(* What the ride service promises to the dispatcher, and the dispatcher to *)
(* the drivers: whom a ride may be offered to while others are still being *)
(* asked, who may win it, and how an offer may end.  It knows no ids,      *)
(* locks, transactions, searches or timers.  RideService and Dispatch both *)
(* implement it, which is what allows Dispatch to take each call of the    *)
(* service for one step.                                                   *)
(***************************************************************************)
CONSTANTS Driver, Request, Null

VARIABLES phase,   \* how far each ride is
          winner,  \* the driver it was assigned to
          asked,   \* the <<ride, driver>> pairs that are asked and unanswered
          late     \* those whose time to answer is over

bookVars == <<phase, winner, asked, late>>

AskedFor(r) == {x \in asked : x[1] = r}

\* What must be withdrawn before x may be asked: a ride asks one driver at a
\* time, and a driver is asked for one ride at a time.
InTheWayOf(x) == {y \in asked : y[1] = x[1] \/ y[2] = x[2]}

Driving(d) == \E r \in Request : winner[r] = d /\ phase[r] = "driving"

BookInit ==
  /\ phase = [r \in Request |-> "none"]
  /\ winner = [r \in Request |-> Null]
  /\ asked = {}
  /\ late = {}

Drop(set) == asked' = asked \ set /\ late' = late \ set

Moves(r, from, to) ==
  /\ phase[r] = from
  /\ phase' = [phase EXCEPT ![r] = to]

Open(r) == Moves(r, "none", "waiting") /\ UNCHANGED <<winner, asked, late>>

Ask(x) ==
  /\ phase[x[1]] = "waiting"
  /\ InTheWayOf(x) \subseteq late
  /\ asked' = (asked \ InTheWayOf(x)) \cup {x}
  /\ late' = late \ InTheWayOf(x)
  /\ UNCHANGED <<phase, winner>>

Lapse(x) ==
  /\ x \in asked \ late
  /\ late' = late \cup {x}
  /\ UNCHANGED <<phase, winner, asked>>

Withdraw(set) == set \subseteq late /\ Drop(set) /\ UNCHANGED <<phase, winner>>

Decline(x) == x \in asked /\ Drop({x}) /\ UNCHANGED <<phase, winner>>

Win(x) ==
  /\ x \in asked
  /\ ~Driving(x[2])
  /\ Moves(x[1], "waiting", "driving")
  /\ winner' = [winner EXCEPT ![x[1]] = x[2]]
  /\ Drop({x})

\* Nobody is looking at a live offer for a ride that is cancelled.
Cancel(r) ==
  /\ AskedFor(r) \subseteq late
  /\ Moves(r, "waiting", "cancelled")
  /\ Drop(AskedFor(r))
  /\ UNCHANGED winner

Finish(r) == Moves(r, "driving", "over") /\ UNCHANGED <<winner, asked, late>>

BookNext ==
  \/ \E r \in Request : Open(r) \/ Cancel(r) \/ Finish(r)
  \/ \E x \in Request \X Driver : Ask(x) \/ Lapse(x) \/ Decline(x) \/ Win(x)
  \/ \E set \in SUBSET late : Withdraw(set)

BookSpec == BookInit /\ [][BookNext]_bookVars

============================================================================
