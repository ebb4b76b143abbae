# Verification of the ride-hailing backend

TLA+ models of the backend in `src/backend`, TLC runs that check them on small
instances, and TLAPS proofs of the properties that matter most for every
instance. Modules, actions and variables keep the names of the code where
TLA+ allows it; `map` in `PROJECT.json` names the lines behind every definition.

## The system

| Part | Code | State | Operations | What makes it correct |
|---|---|---|---|---|
| Ride service | `services/ride_service.py`, `schema.sql`, `migrations/001_ride_lifecycle.sql` | tables `rides`, `ride_offers`, columns of `drivers`, row locks | request, offer, accept, reject, expire, cancel, trip step, payment | one winner per ride, one trip per driver, one open request per rider, the two tables agree, a fare credited once, everything forward only |
| Dispatch | `sockets/handlers.py:394-659, 722-810` | greenlets, offer timers, the maintenance pass | search for a driver, socket events, timer, maintenance | every request is accepted or cancelled, every offer is answered, every search ends, after crashes too |
| Matching pool | `services/matching_service.py` | Redis GEO set, heartbeat keys | join, refresh, leave, search, sweep | a search misses nobody it should see, silent drivers leave, a heartbeat is never lost to the sweep |
| Trip simulators | `sockets/handlers.py:669-719, 813-908`, `ride_simulation_engine.js` | a greenlet per ride, or one record per driver in the Node engine | start, drive, report, arrive | a ride reports what its car did, and ends |
| Driver sessions and page | `sockets/handlers.py:328-459, 543-658`, `frontend/driver.html` | socket identities, rooms; the page's switch, heartbeat, ride and buttons | connect, restore, disconnect, online, offline, heartbeat, answers, payment | the page never claims a trip it does not have, a reconnect shows the trip, an online page is in the pool, a closed one is not |
| Active-ride cache | `sockets/handlers.py:184-205, 461-482` | the key `driver:active_ride:<id>` | location pings, writes after accept, completion and payment | it is derived from Postgres; the ride's room sees the car |
| Connection pool | `db.py` | pool and semaphore | borrow, return | never more than the maximum, a waiting caller gets one |
| Pricing | `services/pricing_service.py`, fare boxes of `new_map.html` and `driver.html` | the stored fare; what the pages show | estimate, booking, offer, payment | the rows add up to what is charged, the amount sent is accepted |
| The rest | `routing_service.py`, `auth_*`, `menu_routes.py`, `admin_routes.py`, `health_routes.py`, `ops_stats.py`, `app.py`, `config.py`, scripts, `frontend/` | none shared with rides | reads, logins, pages, counters | outside the models |

How they interact. A Socket.IO event runs in a greenlet, which calls the ride
service (PostgreSQL transactions), the pool (Redis) and emits to rooms. Every
database or Redis call yields, so any other greenlet may run in between. A
committed accept starts a simulator, which reports trip steps back through the
ride service. A payment puts the driver back into the pool. A maintenance loop
expires overdue offers, cancels old requests, searches again for rides without
an offer, and sweeps the pool. Several backend processes may share one database
and one Redis.

What is hard in it:

- transactions that decide by `NOW()`, the time they *started*, and act after
  waiting for a lock; statements on rows of other rides that take no ride lock;
- greenlets that use, after a yield, what they read before it: exclusions, the
  chosen driver, "is on a trip", "has no offer";
- several searches for one ride at once, and searches for different rides that
  expire each other's offers;
- a process that dies, or a call that raises, between a commit and what should
  follow it; timers that live only in the process;
- Redis members that outlive their heartbeat, seen by searches and sweeps that
  take many calls;
- reports of trip steps that overtake each other, and a record per driver that
  outlives the ride it was filled for;
- a page whose socket changes while calls of the old one are still under way,
  and that learns of its own actions from messages that may be late or lost;
- a cache filled by readers and cleared by writers, neither of which waits for
  the other;
- a semaphore and a pool that must count the same connections, also when the
  server drops some;
- one amount rounded in three programs by two rules.

`PROJECT.json` lists each of these hazards at its line, with the properties
that would catch it.

## Modules

### RideService, RideLifecycle and OfferBook

`RideService` is the tables and the transactions. A call whose outcome depends
on when it started has a `Begin` step, which notes the pending offers overdue
at that time (`txn[s].overdue`), and later steps that act. `create_offer` has
one step more (`OfferChecked`, then `OfferMade` or `OfferCollides`): between
them it holds the ride's row lock and the rows of the offers it has marked
expired, and everybody else's statements wait (`RideLocked`, `OfferLocked`).
Its on-trip check is protected by neither lock. Calls without such a window are
one step. `Abort` rolls a transaction back at any time, for a deadlock, a lost
connection or a crash. Columns nothing depends on (coordinates, texts,
timestamps, and `is_available`, which only the matcher's SQL fallback and a
count on the admin page read) are left out; the fare is left out because the only amount ever
credited is the ride's own, so `earnings` counts *how often* each driver was
credited for each ride. What an offer's `due` flag says is `expires_at <= now`.

`RideLifecycle` is what the service promises without tables, offers, locks or
steps: a ride waits, is won by one driver who drives nothing else, arrives, and
is settled once. `ImplementsLifecycle` is the refinement, with the phase
computed from status and payment (`PhaseOf`). `RideServiceMC` adds the symmetry
sets.

`OfferBook` is what the service promises about offers, over all rides at once:
a driver is asked for a ride when nobody else is being asked in time for it and
the driver for no other; what is in the way and overdue is withdrawn in that
same step; a live offer ends by its driver's answer alone; whoever wins drives
nothing else, and no ride is cancelled while a live offer for it is open. It knows the pairs that are
asked and which of them are late, and no ids, locks, transactions or searches.
`RideService` implements it statement by statement, and `Dispatch`, whose steps
are whole calls, implements the same book: the two models agree on what a call
of the service does to the offers.

### Dispatch

`Dispatch` is the code above the ride service: each worker is a greenlet, makes
one call per step and keeps in its task what it has read (`exclude`, the chosen
driver, `tries`). Here a call of the ride service is atomic; what happens
inside one is `RideService`'s subject. Offers are kept as the newest offer of a
driver for a ride, with `due` as a state of its own. Each query is a read of its
own: `CheckRide` and `CheckOffers`, `ExcludeTurnedDown` and `ExcludeReserved`,
and `ReadPending` before the rejections of a `driver_offline`, whose answer to the page
is `DriverSession`'s, like everything that is sent. `pass` is the maintenance
pass with the list it read and has not worked off. `Crash` forgets tasks,
timers and the pass; `Fail` ends one worker. `find_best_driver` may return
any candidate, since distances and ratings decide, and may find nobody at any
time, since a member may be outside the radius; `Vanish` takes a driver out of the pool at
any time, for a closed socket or an expired heartbeat. `accepted` stands for
accepted and in progress: what happens during the trip is `TripSimulation`'s.

### DriverPool

`DriverPool` has the GEO set, the heartbeat keys and two multi-call readers.
A driver's own calls are single steps because the code makes them one MULTI or
one script. A search reads the nearest `limit` members, then their heartbeats one by
one, then removes the stale ones, and doubles the limit until it has enough or
has seen everybody in reach; the sweep works the same way on all members. The
history variable `steady` holds the drivers who were fresh and did not move
since the search began: the ones it has no excuse to miss. Distances are small
integers; ties fall either way. The SQL fallback is left out.

### TripSimulation

`TripSimulation` has both simulators under the setting `mode`. The Node engine's
record keeps the request, the food flag, the queue of legs, the state and the
path; routing calls (`fetching`), timers and reports are separate and finish in
any order, since the backend handles each report in its own greenlet. `StartFails`
is an accept whose handler raises between the commit and the start, as
`join_room` does for a socket that has closed. `visited`
is a history variable: the places a ride's car has reached. A restart loses
greenlets, records and any of the messages under way. The time a drive takes is
left out: the car may arrive as soon as it has a path.

### DriverSession

`DriverSession` is one driver's page and the handlers that serve it. A socket is
a number; `sid` is the one the page has now. Each event is a greenlet (`jobs`)
named by its event, its socket and its next step `at`, with what it is going to
send in `out`; `down` is what has been sent to the page's socket and not been
heard, in order. `Drop` is a lost network, a closed or a reloaded tab: what is
in `down` is lost, greenlets of the old socket run on, and its disconnect comes
when it comes. `Restart` forgets sockets and greenlets and keeps Postgres
(`ride`) and Redis (`pool`). `page` has a field for each piece of the page's
state that decides what it does (`rideConfirmed`, `currentRide`, the switch, the
heartbeat timer, the visible buttons), and each socket handler and button of
the page is an action. `MakeOffer`, `ExpireOffer` and `CompleteRide` stand for
the rest of the backend, which is `Dispatch`'s and `TripSimulation`'s; they emit
from greenlets of their own, so what they announce may be overtaken. Two equal
greenlets count as one: they would do the same thing at the same time.

A call that raises is a fault like a restart, and has the effect the handler
gives it:

- `RestoreFails`: `handle_connect` logs what `_restore_ride_state` raises and the
  socket is connected all the same (`handlers.py:371-374`). A page that kept its
  trip goes on showing it, outside its room; a fresh page shows nothing; nothing
  tries again before the next connect;
- `AssignFails` and `ReenterFails`: after the commit of an accept or a payment the
  failure of Redis is logged (`handlers.py:576`, `:647`), the page is told of the
  commit, and the driver stays in the pool, or out of it;
- `Dies`: elsewhere nobody catches it and the greenlet ends, which for
  `driver_online` may be after the driver entered the pool.

A commit happens or its call raises, not both. `failed` keeps which events of the page's
present socket were given up and are tried again by nobody: its restore and its
request to go online. Three properties excuse exactly these: a socket whose
restore raised may be left outside its room and without its trip (`NotRestored`), and a page whose
request to go online died waits for its driver. An offer is made to the driver
once per ride, since whoever was offered a ride is left out of the next search
for it; `Dispatch` has the overlapping searches in which that fails.

### ActiveRideCache

`ActiveRideCache` is the key that tells a location ping the driver's ride.
A ping reads the key, asks Postgres on a miss, stores the answer and tells the
room in four calls; a handler that committed a transition is in `todo` until it
has written the key, and its write may fail. `None` is the cached empty string
and `Absent` a missing key, which the code keeps apart. `stale` is a history
variable: the key's last writer was a ping with an overtaken answer, or a
write that should have corrected it failed.

### DbPool

`DbPool` is `get_db_conn`: a semaphore in front of psycopg2's pool. A caller's
steps follow the generator through its `except` and `finally`; the pool's
`getconn` and `putconn` are external and modelled by what they do: `getconn`
raises when the maximum is lent, `putconn` closes a connection beyond the minimum
and rolls back the others, which raises if the connection is gone; the pool then
counts it as lent for ever (`lost`), and `slots.release()` on the next line of the
`finally` is skipped. The docstring promises that a connection is always returned,
even on error: `ConnectionsAreReturned` states that, and a claim run refutes it;
`BreaksCostSlots` and `KeepsServing` are what holds instead. `Break` drops
any connection at any time; nobody notices before the next statement.

### Fares

`Fares` is the pricing service and the path of one amount: estimate, booking,
offer, payment. Money is in thousandths of a rupee and distance in metres, so
that a rate times a distance is an integer; `Round` is Python's rounding
(halves to even), `MathRound` JavaScript's (halves up). Every call of the
routing service may answer another distance, as OSRM and its fallback do.
`EstimateRows` and `CardRows` add up what each page lists. The distance of 5
metres below which the driver's page hides the delivery row is the page's
rounding to hundredths of a kilometre.

## Runs

| Run | Shows |
|---|---|
| `ride_service_races` | with two transactions open at once: reservations and trips exclusive, tables agree, live offers kept, an insert collides for the driver's sake only, only the driver's own pending offer assigns, steps, answers and payments never go back, earnings exact, no row the admin page would call inconsistent, the lifecycle and the offer book are implemented |
| `dispatch_failures` | one crash or failed call anywhere: every request and offer is answered; every search gets shorter with each call, and ends |
| `dispatch_contention` | two rides, one driver, no failure: every request is answered, a ride and a driver have one unanswered offer, and the offer book is implemented |
| `driver_pool` | searches and the sweep against drivers who come, move, fall silent and go: nobody is missed or hidden, a search widens no further than there are drivers, and returns |
| `trip_simulation` | both simulators, overtaking reports, failing routes, one restart or lost start: a ride says what its car has driven, is carried on as long as it is under way, and ends |
| `db_pool` | callers, failing connections and lost slots: no caller with a slot is refused, a slot is lost only to a break, and somebody waiting is served while not every slot is lost |
| `active_ride_cache` | two pings against two rides' transitions: when the key can be wrong, and that the trip's room sees the car |
| `fares` | distances and prices around each rounding boundary: receipts add up to the rupee, no payment is refused |
| `driver_session` | one page over two sockets, a restart or a call that raises, a click on the switch and one ride: no trip claimed that is not real or not heard of, trips shown after a reconnect, page and pool agree in the end |
| `claim_*` | one statement of the code's comments, docs or tests each, and a behaviour that breaks it |

Bounds, and why they are enough for the question asked:

- *races*: a race in this code is between two transactions about one ride, one
  driver or one offer. Two sessions, two rides, two drivers, two riders and two
  offers contain each: both offers for one ride, both for one driver, one each.
  Both rides order food, so that every trip step occurs; a ride without food has
  fewer behaviours, and that it never gets a food step is `ReportsFitRides`. A
  third offer matters only for re-offering after an answer (two offers contain it
  for one ride). The theorems below drop the bounds.
- *failures*: two drivers make a search go on to the next one and run out;
  one job worker beside maintenance gives every overlap of two searches; a
  second fault adds nothing that a fault at a later time does not.
  *contention*: two rides are what it takes for one to expire the other's offer.
- *driver pool*: `Count = 1` and two drivers are the smallest instance in which
  a stale or excluded driver hides another and the search must widen; distance
  `Far = 2 > Radius = 1` puts drivers out of reach.
- *trip simulation*: a driver's record is independent of other drivers' records,
  so one driver suffices; what one ride leaves in it shows in the second.
- *driver session*: two sockets are what a late disconnect or a late greenlet of
  the old one needs, one fault is a restart, which loses every socket and greenlet
  at once, or one call that raises, a click turns the switch off, and a message
  already under way turns it on again, one ride can be offered, accepted,
  driven and paid. The theorems hold for any number of each. `MaxInFlight = 2`: the page and the backend start nothing new
  while two greenlets and messages are under way. Connects and disconnects are
  outside this bound, and what a greenlet sends may exceed it.
- *active-ride cache*: with two pings one can store what the other's answer, or a
  commit, has overtaken; a second ride is what a wrong key would name.
- *db pool*: three callers for two connections make one wait; one break is the
  most `KeepsServing` allows with two slots, since each break loses at most one.
- *fares*: 0 and 4 metres are an order from next door, without and with a charge
  for its delivery; 125 and 375 metres put a fare on half a rupee above an odd
  and an even number, which Python rounds apart; prices have paise below the half
  and on it. The theorems cover every distance and price.

Symmetry is used in the ride service runs only, whose properties are
invariants, step properties and a safety refinement; ids are never compared
except offers, which are numbers and not permuted. The runs with liveness use
none. Deadlock checking is off where the bounded sets of rides and offers run out
(ride service, dispatch, trip simulation), where a booking is paid (fares) and
where a page may stay closed with no socket left to open (driver session), and
on for both pools and the cache, which never stop.

## Fairness

- Dispatch: weak fairness of each worker's next step (a greenlet whose call
  returned is scheduled by the hub), of the maintenance loop (`while True` with a
  handler around each pass), and of time (deadlines pass, requests age). None
  for drivers, riders, timers or faults: an offer may never be answered and a
  timer may never fire. The pass then is what `EveryRequestAnswered` rests on,
  also without a failure: a search for another ride may expire an overdue
  offer, and the offer's own timer, which would have searched on, then
  finds nothing to do.
- DriverPool: weak fairness of a running search and of the sweep. `Enough` and
  the doubling limit bound the rounds; drivers may disturb it for ever.
- TripSimulation: weak fairness of greenlets, message delivery, routing calls
  (which return either way), timers and the movement clock; none for accepting.
- DbPool: weak fairness of each caller's step once it has asked. `Acquire` is weak
  too, so a newcomer may take every freed slot: only that *somebody* is served
  is claimed.
- ActiveRideCache: pings go on, and the ten-second value expires. The six-hour
  one need not, which is why `TripsBecomeVisible` excepts a key that names another
  ride for the whole rest of the trip. Nothing makes a write succeed or a trip go on.
- DriverSession: greenlets run, the page hears, the heartbeat timer fires, and a
  heartbeat nobody refreshes expires. Heartbeats and requests to go online,
  which a page repeats for ever, have a fairness condition of their own, so that
  they neither starve the other greenlets nor excuse them. None for the driver, the network,
  new sockets, offers, progress or faults: a call that can be made is made, and
  raises only as often as `MaxFaults` allows.
- The ride service and fares runs check safety only.

## What the claims found

| Claim | The code |
|---|---|
| `TripDriversHoldNoOffer` | an accept of another ride commits between `create_offer`'s on-trip check and its insert |
| `ReconnectsLoseNoTrip` | an accept sent over the old socket commits between the new one's two reads: the first is too early to find the ride, the second too late to find the offer, and the announcement goes to a room the new socket is not in |
| `ConnectionsAreReturned` | a read returns with its transaction open, the server drops the connection, and the rollback inside `putconn` raises: connection and slot are gone for good |

The run of `ReconnectsLoseNoTrip` has no faults and no clicks on the switch, and the
property is about a trip that is open while `connect` of the page's present
socket looks for an offer: the accept can then only have been sent over the
socket before.

`ReconnectShowsTheTrip` is what does hold of a reconnect: a ride that is open
when `connect` reads is shown, if that read does not raise.

Two more sentences of the repository have counterexamples in the models, without
a run of their own:

- `handlers.py:425-427` and `tests/test_socket_flows.py:93` say that a driver on a
  trip must not re-enter the matching pool. `Dispatch` has two behaviours in
  which one does: `CollectPayment` of an earlier ride, and an accept between
  `GoOnline`'s check and `EnterPool`. Searches then choose the driver, are refused and
  pass on (`EverySearchEnds`, `EveryRequestAnswered`).
- `handlers.py:445-446` says that a late heartbeat can't undo going offline. The
  heartbeat itself cannot (`Heartbeat` adds nobody to the pool), but an answer to
  an earlier one that arrives after the click turns the switch on again
  (`driver.html:200-205`, `OnDriverStatus`), and the page then asks to go online.

Further behaviours the models have, about which the repository promises nothing
definite: a search may offer to a driver who went offline
after being chosen, and the offer runs out; a completed, unpaid ride is open for
the restore query and not for the unique index; a failed route of the Node
engine strands its ride, and so does an accept whose handler fails before the start (the
exceptions in `TripsEnd`). `PROJECT.json` lists them
as hazards with what bounds their harm.

## Proofs

`RideService_proofs` proves every invariant and step property of the ride
service run, and the refinements, for all numbers of riders, drivers, rides,
offers and sessions. Assumptions: `Null` is no id (`NullAssumption`,
`NullStepAssumption`), `MaxOffers` is a natural number, and food choices are Booleans.

The checked invariants are not inductive by themselves; `IInv` is their
conjunction with types and

- `RowsOK`: an inserted offer names a ride and a driver, so that the
  conclusions about `offers[o].ride` mean something;
- `TxnsOK`: what a transaction noted as overdue is due and inserted, and stays
  so; without it `OfferMade` and `CancelUnfulfilled` could resolve a live offer;
- `OneHolder` and `CollisionIsTheDrivers`: a ride row has one holder, under
  whose lock the ride stays requested and gets no other offer. They are what
  turns two checks made earlier into facts at the insert;
- `UnassignedHaveNoStep`: progress is empty before a driver is assigned, without
  which status and progress could disagree after an accept.

One lemma per writing action shows that it preserves the tables
(`OfferMadePreserves`, `AcceptWinsPreserves`, `CancelPreserves`, ...) and one
that every step leaves the locks of the others right (`LocksSurvive`). Step
properties follow from `IInv` and lemmas that say which actions write
(`RideWriters`, `OfferWriters`). The refinement maps each writing action to
the lifecycle step of its ride and everything else to a stutter.

The refinement of `OfferBook` (`OfferBookKept`) needs one fact more:
`OverdueIsTheirs`, that what a `create_offer` noted as overdue when it started
belongs to its ride or its driver. With it `OfferMade` withdraws, late, all that is
in the way of the pair it asks and nothing else; the rest is that two pending
rows are two pairs, that a row keeps its pair, and that `due` marks the late ones.

`Dispatch_proofs` proves its types and `OneUnansweredOffer` for any number of
drivers, rides, greenlets, attempts and faults. `IInv` adds what a worker's next
write depends on: the task names a ride and a driver where the step uses them
(`WorkersOK`), an assigned ride has a driver (`RidesOK`), and the due list holds
offers (`PassOK`).

It also proves that `Dispatch` implements `OfferBook`: `OneUnansweredOffer` is
what makes an unanswered offer the only one in its own way, and each answer,
expiry, search step and maintenance step is one step of the book or none. And
it proves the safety half of `EverySearchEnds`: `StepsLeft` bounds the calls a
worker has left, starts at no more than `2 * MAX_OFFER_ATTEMPTS + 8`, and falls
with each call the worker makes, whatever happened in between
(`SearchesGetShorter`). That `tries` stays below the maximum when an offer is
about to be made (`WorkersOK`) is what an attempt's two steps rest on.

`DriverPool_proofs` proves its safety for any finite set of drivers
(`DriverAssumption`, without which a search has no number of candidates), any
searches, distances and `Count`. The invariant follows a search:
`Accounted(s, d)` says of a driver who has been there all along that they were
found, are still to be probed or are in the result, or that they are outside
the radius or were left out of a full GEOSEARCH for nearer ones. `Spares` is
what every step of a driver and every removal satisfies: whoever stays steady
was left alone. `NearestLeavesFarther` is the lemma about nearest subsets that both
the GEOSEARCH and the final cut rest on. `SearchesBounded` is the safety half of
`EverySearchReturns`: a search asks again only after it got as many drivers as it
asked for, of which there are finitely many, so the limit it doubles is at most
their number.

`TripSimulation_proofs` proves its safety for any drivers, rides and faults,
under `SimulatorsAssumption` and `NullAssumption` (`Null` is no ride and no
step). The invariant says where each actor has got to:

- `GreenletOK`: a greenlet's ride has been accepted, and each step left in its
  script has its legs behind it or driven by an earlier step of the script;
- `RecordOK` and `StageOK`: an engine record serves a started ride of its
  driver, its queue is the rest of that ride's itinerary, and a record at work
  serves a ride that is neither completed nor about to be;
- `FetchOK`: a routing call under way belongs to the current leg of a record
  without a path, so that an answer never arrives at a later leg;
- `OneTripEach` and `StartOK`: a driver has one ride under way, and a start that
  is under way is for a ride not yet completed. They are why a start never
  finds a record at work.

`NextLegKeeps` treats `startNextLeg` once, for the three handlers that call it.

`NoTripDropped` is the safety half of `TripsEnd`: a ride under way always has
something that will carry it on, unless it is stranded or a fault took it.
The invariant alone does not show it. `CInv` adds that the report that completes
a ride is still to come as long as the ride is not completed (`Carried`), that
what is left of a greenlet's script is in the order of the steps, ahead of the
ride and ends with `completed`, so that none of it is refused (`ScriptLeft`), and
that a record waiting at a stop has its timer (`WaitsForTimer`).

`DbPool_proofs` proves its safety for any finite set of callers, any maximum and any
number of breaks, under `PoolAssumption`. `EverySlotAccounted` is the sum that makes it true: free
slots, callers inside and lost connections are together `DB_POOL_MAX_CONN`.
`NoPoolError` follows, since whoever holds a slot and no connection is not among
the borrowers. `OneHolderEach` (no connection is lent twice, or lent and idle)
is what lets `PutConnRaises` add one to the lost. `OneSlotPerBreak` follows from
the sum and `LostWereBroken`: lost connections are down, stay down, since nobody
holds them to open them again, and each break downs one.

`ActiveRideCache_proofs` proves `CacheAgrees` for any rides and pings.
`WrongIsAccountedFor` says a wrong key is stale or about to be written;
`AcceptsAreActive` is why an accept's late write is right.

`Fares_proofs` proves both properties for every set of distances and prices
(naturals, prices positive). The arithmetic is in the lemmas about the two
roundings: each is within half a rupee of its argument, and the identity on whole
rupees. The invariant says that whatever is shown or stored is the breakdown of
some distances and the order's price; that the fare is whole rupees is why the
page's rounding of it, and so the payment, is exact.

`DriverSession_proofs` proves `TypeOK`, `ConfirmedTripsAreReal` and
`ConfirmedTripsAreHeard` for any rides, sockets, clicks and faults. `EverythingToldIsTrue` follows the two
messages that make a page say a trip is its driver's: a greenlet that will send
one, and one under way, name a ride that Postgres has given to the driver, and
no later transition takes it away. A greenlet without a socket is a
room's emitter, so that nothing is answered to a page that is closed. For
`ConfirmedTripsAreHeard`, `HInv` adds that a message that tells of a trip was sent
after its socket joined the trip's room or after the trip was paid, and that a
page is not told it is connected (which is when it counts as up) before it knows
a trip it hears of, or has been sent one (`Announced`, `Informed`), unless the
restore of its socket raised. `FailsKeep` and `FailsHear` treat the calls that
raise; that `failed` only grows while a socket lives (`MoreFailed`) is why the
excuse of a message sent earlier still holds when it is heard.

Types are proved rather than run: `TypeCorrect` in each module states `TypeOK` for
every instance, and the runs check what TLC can refute more easily.

Only model-checked: liveness (all `~>` properties), which the prover does not
reach, since it needs ENABLED and induction over a measure. For three of them the
measure or the next step is proved (`SearchesAreBounded`, `SearchesBounded`,
`NoTripDropped`), so that what is left to TLC is that an enabled step is taken
and ends the wait. Each inductive invariant was checked by TLC as an invariant of
its run's instance first. The three claims the code breaks are, of course, not theorems.

## Not modelled

Payload validation, texts and drawing: nothing above decides by them. The SQL
fallback of the matcher is used while Redis is down and is a single query;
`is_available`, which only it and an admin count read, is left out with it, as is the score by
which the matcher chooses among the candidates it found. The copy of a driver's
position in Postgres is left out: only a simulation's start point comes from it.
The rider's page appears through the events it sends (`Dispatch`) and its fare
box (`Fares`); it reconnects like the driver's, with one query instead of two.
Authentication, menus, admin pages, statistics, configuration and scripts hold
no state that rides depend on. Routing appears as a call that answers some
distance, or fails. Start-up and shutdown of the connection pool happen when
nothing else runs.

In `DriverSession` the driver clicks only while connected: socket.io would buffer
other clicks and send them before or after the connect. Rides go from accepted
to completed in one step, as the steps between change nothing the page decides by.
The updates of the drivers row, whose failure some of these handlers log, and the
operational counters, which never raise, are left out.

The accept that waits for a lock and commits after its offer's deadline is a
behaviour of the model, as is asking a driver again for a ride rejected
meanwhile, an answer of `driver_offline` that overtakes the next click, and a page
that ignores offers after losing an `earnings_update`; they are listed as
hazards without a property, each with the reason.

## Plan

Done, in this order: `RideLifecycle`, `RideService`, `OfferBook`, `Dispatch`, `DriverPool`,
`TripSimulation`, `DbPool`, `ActiveRideCache`, `Fares`, `DriverSession`, and
proofs about each but the lifecycle, which `RideService_proofs` shows implemented,
and the offer book, which `RideService_proofs` and `Dispatch_proofs` do. Worth doing next:

1. a composition of `Dispatch` with `DriverSession`, in which two pages compete
   for one ride and reconnect;
2. the rider's page: its restore, its cancel messages and its fare box over two
   sockets;
3. clicks buffered by socket.io while disconnected, and the toggle race as a
   property once the code says what it should be.
