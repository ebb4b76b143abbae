--------------------------- MODULE RideLifecycle ---------------------------
(***************************************************************************)
(* What the ride service promises, without offers, locks, transactions or  *)
(* trip steps: a ride waits for a driver, at most one driver ever wins it, *)
(* a driver drives one ride at a time, a rider waits for or sits in one    *)
(* ride at a time, and a finished ride is settled once, which credits its  *)
(* driver, and nobody else, with its fare.                                 *)
(***************************************************************************)
EXTENDS Integers

CONSTANTS Rider, Driver, Request, Null

VARIABLES phase,   \* how far each ride is
          rider,   \* who asked for it
          winner,  \* the driver it was assigned to
          credit   \* how often each driver was credited for each ride

lifeVars == <<phase, rider, winner, credit>>

Current == {"waiting", "driving"}

LifeInit ==
  /\ phase = [r \in Request |-> "none"]
  /\ rider = [r \in Request |-> Null]
  /\ winner = [r \in Request |-> Null]
  /\ credit = [d \in Driver |-> [r \in Request |-> 0]]

Ask(r, u) ==
  /\ phase[r] = "none"
  /\ \A q \in Request : rider[q] = u => phase[q] \notin Current
  /\ phase' = [phase EXCEPT ![r] = "waiting"]
  /\ rider' = [rider EXCEPT ![r] = u]
  /\ UNCHANGED <<winner, credit>>

Assign(r, d) ==
  /\ phase[r] = "waiting"
  /\ \A q \in Request : winner[q] = d => phase[q] # "driving"
  /\ phase' = [phase EXCEPT ![r] = "driving"]
  /\ winner' = [winner EXCEPT ![r] = d]
  /\ UNCHANGED <<rider, credit>>

Cancel(r) ==
  /\ phase[r] = "waiting"
  /\ phase' = [phase EXCEPT ![r] = "cancelled"]
  /\ UNCHANGED <<rider, winner, credit>>

Arrive(r) ==
  /\ phase[r] = "driving"
  /\ phase' = [phase EXCEPT ![r] = "arrived"]
  /\ UNCHANGED <<rider, winner, credit>>

Settle(r, d) ==
  /\ phase[r] = "arrived"
  /\ winner[r] = d
  /\ phase' = [phase EXCEPT ![r] = "settled"]
  /\ credit' = [credit EXCEPT ![d][r] = @ + 1]
  /\ UNCHANGED <<rider, winner>>

LifeNext ==
  \E r \in Request :
    \/ \E u \in Rider : Ask(r, u)
    \/ \E d \in Driver : Assign(r, d) \/ Settle(r, d)
    \/ Cancel(r)
    \/ Arrive(r)

LifeSpec == LifeInit /\ [][LifeNext]_lifeVars

=============================================================================
