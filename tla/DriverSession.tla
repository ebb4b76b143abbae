----------------------------- MODULE DriverSession -----------------------------
(***************************************************************************)
(* One driver's page (frontend/driver.html) and the handlers that serve it *)
(* (backend/sockets/handlers.py), over the sockets the page opens one      *)
(* after the other.  Every event is a greenlet of its own that yields at   *)
(* each call to Postgres or Redis; what it sends reaches the page in the   *)
(* order sent, or not at all once the socket is closed.  Postgres and      *)
(* Redis outlive a restart of the backend; sockets and greenlets do not.   *)
(* A call to them may raise: some handlers log it and go on, the others    *)
(* end there.                                                              *)
(***************************************************************************)
EXTENDS Naturals, Sequences, FiniteSets

CONSTANTS MaxRides, MaxSockets,
          MaxToggles,   \* clicks on the page's online switch
          MaxFaults,    \* restarts of the backend, and calls that raise
          MaxInFlight   \* greenlets and messages when something new happens

ASSUME BoundsAssumption ==
  /\ {MaxRides, MaxToggles, MaxFaults, MaxInFlight} \subseteq Nat
  /\ MaxSockets \in Nat \ {0}

Ride == 1..MaxRides
NoRide == 0
Closed == 0   \* the page has no socket; no socket has this number

VARIABLES
  ride,      \* of each ride offered to the driver: what Postgres says
  pool,      \* the driver is in the matching pool, with a heartbeat
  identity,  \* sockets in _socket_identity; each is in the driver's room
  rooms,     \* rides whose room the page's socket is in
  jobs,      \* greenlets under way; two alike count as one
  sid,       \* the page's socket
  opened,    \* sockets opened so far
  down,      \* sent to the page's socket and not yet heard
  page,      \* what the page keeps
  failed,    \* events of the page's socket given up for a call that raised
  clicks, faults     \* bounded counters

server == <<identity, rooms, jobs>>
store == <<ride, pool>>
link == <<sid, opened>>
trouble == <<failed, faults>>
vars == <<store, server, link, down, page, trouble, clicks>>

Msg(ev, r, say) == [ev |-> ev, ride |-> r, say |-> say]
Status(say) == Msg("driver_status", NoRide, say)

Says == {"", "online", "offline", "active_ride", "not_in_pool", "accepted",
         "completed", "paid"}
Message == [ev : {"connect", "driver_status", "driver_request", "offer_expired",
                  "ride_assigned", "ride_accept_failed", "ride_state",
                  "ride_progress", "earnings_update", "payment_failed"},
            ride : Ride \cup {NoRide}, say : Says]

Connected == Msg("connect", NoRide, "")

Event == {"connect", "disconnect", "driver_online", "driver_offline",
          "driver_heartbeat", "accept", "reject", "payment_collected",
          "driver_room", "ride_room"}

Greenlet ==
  [ev : Event,
   sid : 0..MaxSockets, ride : Ride \cup {NoRide},
   at : {"start", "ride", "offers", "restore", "remove", "enter", "tell",
         "decline", "assign"},
   out : Message]   \* what it is going to send

\* What nobody tries again on the same socket.
NotRetried == {"connect", "driver_online"}

Job(ev, s, at, r) == [ev |-> ev, sid |-> s, at |-> at, ride |-> r, out |-> Connected]

Page == [on : BOOLEAN, up : BOOLEAN, beating : BOOLEAN, confirmed : BOOLEAN,
         buttons : SUBSET {"offer", "pay"}, current : Ride \cup {NoRide}]

FreshPage == [on |-> FALSE, up |-> FALSE, beating |-> FALSE, current |-> NoRide,
              confirmed |-> FALSE, buttons |-> {}]

Calm == Cardinality(jobs) + Len(down) < MaxInFlight

TypeOK ==
  /\ ride \in [Ride -> {"none", "offered", "accepted", "completed", "paid", "gone"}]
  /\ pool \in BOOLEAN
  /\ identity \subseteq 1..MaxSockets
  /\ rooms \subseteq Ride
  /\ jobs \subseteq Greenlet
  /\ opened \in 0..MaxSockets /\ sid \in {Closed, opened}
  /\ sid = Closed => rooms = {} /\ down = <<>> /\ failed = {}
  /\ down \in Seq(Message)
  /\ page \in Page
  /\ failed \subseteq NotRetried
  /\ clicks \in 0..MaxToggles /\ faults \in 0..MaxFaults

\* The driver's first socket has connected, and the page has gone online.
Init ==
  /\ ride = [r \in Ride |-> "none"] /\ pool = TRUE
  /\ identity = {1} /\ rooms = {} /\ jobs = {}
  /\ sid = 1 /\ opened = 1 /\ down = <<>>
  /\ page = [FreshPage EXCEPT !.on = TRUE, !.up = TRUE, !.beating = TRUE]
  /\ failed = {} /\ clicks = 0 /\ faults = 0

Open(r) == ride[r] \in {"accepted", "completed"}   \* get_open_ride_for_driver
OnTrip == \E r \in Ride : ride[r] = "accepted"      \* driver_has_active_ride

-----------------------------------------------------------------------------
(* Steps of a greenlet: a call that others can see the effect of, and what *)
(* the handler sends before its next one.                                  *)

Ends(j) == jobs' = jobs \ {j}
Goes(j, at) == jobs' = (jobs \ {j}) \cup {[j EXCEPT !.at = at]}
Holds(j, at, m) == jobs' = (jobs \ {j}) \cup {[j EXCEPT !.at = at, !.out = m]}
Mine(j) == j.sid = sid

Sends(reaches, ms) == down' = IF reaches THEN down \o ms ELSE down
Replies(j, m) == Ends(j) /\ Sends(Mine(j), <<m>>)
ToDriverRoom(ms) == Sends(sid \in identity, ms)
Silent == down' = down

At(j, ev, at) == j.ev = ev /\ j.at = at

-----------------------------------------------------------------------------
(* connect and disconnect                                                  *)

\* handle_connect registers the socket, then reads the driver's latest open
\* ride and, if there is none, the pending offer.
Register(j) ==
  /\ At(j, "connect", "start")
  /\ identity' = identity \cup {j.sid}
  /\ Goes(j, "ride")
  /\ Silent /\ UNCHANGED <<store, rooms>>

Latest(r) == Open(r) /\ \A q \in Ride : Open(q) => q <= r

ReadRide(j) ==
  /\ At(j, "connect", "ride")
  /\ \/ (\A r \in Ride : ~Open(r)) /\ Goes(j, "offers")
     \/ \E r \in Ride : Latest(r) /\ Holds(j, "restore", Msg("ride_state", r, ride[r]))
  /\ Silent /\ UNCHANGED <<store, identity, rooms>>

Offered == {r \in Ride : ride[r] = "offered"}

ReadOffer(j) ==
  /\ At(j, "connect", "offers")
  /\ \/ Offered = {} /\ Replies(j, Connected)
     \/ \E r \in Offered : Holds(j, "restore", Msg("driver_request", r, "")) /\ Silent
  /\ UNCHANGED <<store, identity, rooms>>

\* Mutant: the snapshot is sent without joining the ride's room.
RestoreOnly(j) ==
  /\ At(j, "connect", "restore")
  /\ Sends(Mine(j), <<j.out, Connected>>)
  /\ Ends(j)
  /\ UNCHANGED <<store, identity, rooms>>

\* The page hears what connect sent before it hears that it is connected.
Restore(j) ==
  /\ At(j, "connect", "restore")
  /\ rooms' = IF Mine(j) /\ j.out.ev = "ride_state" THEN rooms \cup {j.out.ride} ELSE rooms
  /\ Sends(Mine(j), <<j.out, Connected>>)
  /\ Ends(j)
  /\ UNCHANGED <<store, identity>>

\* What a handler is about to do for the socket; those that have not looked
\* their socket up yet will not find it.
AboutTo(s) == {j \in jobs : j.sid = s /\ j.at = "start"}

Disconnect(j) ==
  /\ At(j, "disconnect", "start")
  /\ identity' = identity \ {j.sid}
  /\ \E lost \in SUBSET (AboutTo(j.sid) \ {j}) :
       jobs' = (jobs \ (lost \cup {j})) \cup
               IF j.sid \in identity THEN {[j EXCEPT !.at = "remove"]} ELSE {}
  /\ Silent /\ UNCHANGED <<store, rooms>>

\* The pool has no sockets: it is the driver who is removed.
RemoveDriver(j) ==
  /\ At(j, "disconnect", "remove")
  /\ pool' = FALSE
  /\ Ends(j)
  /\ Silent /\ UNCHANGED <<ride, identity, rooms>>

-----------------------------------------------------------------------------
(* driver_online, driver_offline, driver_heartbeat                         *)

GoOnline(j) ==
  /\ At(j, "driver_online", "start")
  /\ IF OnTrip THEN Replies(j, Status("active_ride")) ELSE Goes(j, "enter") /\ Silent
  /\ UNCHANGED <<store, identity, rooms>>

\* The drivers row is updated before the page is told.
EnterPool(j) ==
  /\ At(j, "driver_online", "enter")
  /\ pool' = TRUE
  /\ Goes(j, "tell")
  /\ Silent /\ UNCHANGED <<ride, identity, rooms>>

TellOnline(j) ==
  /\ At(j, "driver_online", "tell")
  /\ Replies(j, Status("online"))
  /\ UNCHANGED <<store, identity, rooms>>

GoOffline(j) ==
  /\ At(j, "driver_offline", "start")
  /\ pool' = FALSE
  /\ Goes(j, "decline")
  /\ Silent /\ UNCHANGED <<ride, identity, rooms>>

Declined(r) == IF ride[r] = "offered" THEN "gone" ELSE ride[r]

\* The declined ride is searched for before the page is told.
DeclinePending(j) ==
  /\ At(j, "driver_offline", "decline")
  /\ ride' = [r \in Ride |-> Declined(r)]
  /\ IF Offered = {} THEN Replies(j, Status("offline")) ELSE Goes(j, "tell") /\ Silent
  /\ UNCHANGED <<pool, identity, rooms>>

TellOffline(j) ==
  /\ At(j, "driver_offline", "tell")
  /\ Replies(j, Status("offline"))
  /\ UNCHANGED <<store, identity, rooms>>

\* Refreshes a member, and adds nobody.
Heartbeat(j) ==
  /\ At(j, "driver_heartbeat", "start")
  /\ Replies(j, Status(IF pool THEN "online" ELSE "not_in_pool"))
  /\ UNCHANGED <<store, identity, rooms>>

-----------------------------------------------------------------------------
(* driver_response and payment_collected                                   *)

Reject(j) ==
  /\ At(j, "reject", "start")
  /\ ride' = [ride EXCEPT ![j.ride] = Declined(j.ride)]
  /\ Ends(j)
  /\ Silent /\ UNCHANGED <<pool, identity, rooms>>

\* The commit, and the ride's room; join_room of a socket that is closed joins
\* nothing, or raises and ends the handler.
AcceptOffer(j) ==
  /\ At(j, "accept", "start")
  /\ ride[j.ride] = "offered" /\ ~OnTrip
  /\ ride' = [ride EXCEPT ![j.ride] = "accepted"]
  /\ rooms' = IF Mine(j) THEN rooms \cup {j.ride} ELSE rooms
  /\ Goes(j, "assign") \/ (~Mine(j) /\ Ends(j))
  /\ Silent /\ UNCHANGED <<pool, identity>>

AcceptFails(j) ==
  /\ At(j, "accept", "start")
  /\ ride[j.ride] # "offered" \/ OnTrip
  /\ Replies(j, Msg("ride_accept_failed", j.ride, ""))
  /\ UNCHANGED <<store, identity, rooms>>

Announces(j) ==
  /\ At(j, "accept", "assign")
  /\ Sends(j.ride \in rooms, <<Msg("ride_assigned", j.ride, "")>>)
  /\ Ends(j)
  /\ UNCHANGED <<ride, identity, rooms>>

Assign(j) == Announces(j) /\ pool' = FALSE

Pay(j) ==
  /\ At(j, "payment_collected", "start")
  /\ ride[j.ride] = "completed"
  /\ ride' = [ride EXCEPT ![j.ride] = "paid"]
  /\ Goes(j, "enter")
  /\ Silent /\ UNCHANGED <<pool, identity, rooms>>

PaymentFails(j) ==
  /\ At(j, "payment_collected", "start")
  /\ ride[j.ride] # "completed"
  /\ Replies(j, Msg("payment_failed", j.ride, IF ride[j.ride] = "paid" THEN "paid" ELSE ""))
  /\ UNCHANGED <<store, identity, rooms>>

Thanks(j) ==
  /\ At(j, "payment_collected", "enter")
  /\ ToDriverRoom(<<Msg("earnings_update", j.ride, ""), Status("online")>>)
  /\ rooms' = IF Mine(j) THEN rooms \ {j.ride} ELSE rooms
  /\ Ends(j)
  /\ UNCHANGED <<ride, identity>>

\* Back into the pool, whatever has become of the page.
Reenter(j) == Thanks(j) /\ pool' = TRUE

\* emit to a room from a background greenlet, after its commit.
TellRoom(j) ==
  /\ j.ev \in {"driver_room", "ride_room"}
  /\ IF j.ev = "driver_room" THEN ToDriverRoom(<<j.out>>)
     ELSE Sends(j.out.ride \in rooms, <<j.out>>)
  /\ Ends(j)
  /\ UNCHANGED <<store, identity, rooms>>

Serve(j) ==
  \/ Register(j) \/ ReadRide(j) \/ ReadOffer(j) \/ Restore(j)
  \/ Disconnect(j) \/ RemoveDriver(j)
  \/ GoOnline(j) \/ EnterPool(j) \/ TellOnline(j)
  \/ GoOffline(j) \/ DeclinePending(j) \/ TellOffline(j) \/ Heartbeat(j)
  \/ Reject(j) \/ AcceptOffer(j) \/ AcceptFails(j) \/ Assign(j)
  \/ Pay(j) \/ PaymentFails(j) \/ Reenter(j) \/ TellRoom(j)

-----------------------------------------------------------------------------
(* A call to Postgres or Redis raises, and changes nothing                 *)

Fault == faults < MaxFaults /\ faults' = faults + 1

\* handle_connect logs it: the socket is connected, with nothing restored.
RestoreFails(j) ==
  /\ j.ev = "connect" /\ j.at \in {"ride", "offers"}
  /\ Replies(j, Connected)
  /\ UNCHANGED <<store, identity, rooms>>

\* Redis, after the commit: logged, and the page is told all the same.
AssignFails(j) == Announces(j) /\ pool' = pool
ReenterFails(j) == Thanks(j) /\ pool' = pool

\* Elsewhere nothing catches it, and the greenlet ends.
Dies(j) ==
  /\ \/ j.ev \in {"driver_online", "driver_offline", "driver_heartbeat"}
     \/ j.ev \in {"accept", "reject", "payment_collected"} /\ j.at = "start"
     \/ At(j, "disconnect", "remove")
  /\ Ends(j)
  /\ Silent /\ UNCHANGED <<store, identity, rooms>>

Fails(j) ==
  /\ Fault
  /\ failed' = failed \cup IF Mine(j) THEN {j.ev} \cap NotRetried ELSE {}
  /\ RestoreFails(j) \/ AssignFails(j) \/ ReenterFails(j) \/ Dies(j)

-----------------------------------------------------------------------------
(* The rest of the backend                                                 *)

Emit(room, m) == jobs' = jobs \cup {[Job(room, Closed, "tell", NoRide) EXCEPT !.out = m]}

Becomes(r, from, to) == Calm /\ ride[r] = from /\ ride' = [ride EXCEPT ![r] = to]

\* Whoever has been offered a ride is left out of the next search for it.
MakeOffer(r) ==
  /\ pool /\ ~OnTrip /\ \A q \in Ride : ride[q] # "offered"
  /\ Becomes(r, "none", "offered")
  /\ Emit("driver_room", Msg("driver_request", r, ""))
  /\ UNCHANGED <<pool, identity, rooms>>

ExpireOffer(r) ==
  /\ Becomes(r, "offered", "gone")
  /\ Emit("driver_room", Msg("offer_expired", r, ""))
  /\ UNCHANGED <<pool, identity, rooms>>

CompleteRide(r) ==
  /\ Becomes(r, "accepted", "completed")
  /\ Emit("ride_room", Msg("ride_progress", r, "completed"))
  /\ UNCHANGED <<pool, identity, rooms>>

\* Mutant: the heartbeat key has no time to live.
HeartbeatStays ==
  /\ pool /\ Calm /\ pool' = TRUE
  /\ UNCHANGED <<ride, server>>

\* No heartbeat for DRIVER_LOCATION_TTL_SECONDS.
HeartbeatExpires ==
  /\ pool /\ Calm /\ pool' = FALSE
  /\ UNCHANGED <<ride, server>>

-----------------------------------------------------------------------------
(* The page's socket                                                       *)

Close == sid' = Closed /\ rooms' = {} /\ down' = <<>> /\ failed' = {}
Asleep(p) == [p EXCEPT !.up = FALSE, !.beating = FALSE]

Connect ==
  /\ sid = Closed /\ opened < MaxSockets
  /\ opened' = opened + 1 /\ sid' = opened + 1
  /\ jobs' = jobs \cup {Job("connect", opened + 1, "start", NoRide)}
  /\ UNCHANGED <<store, identity, rooms, down, page, clicks>>

\* The network drops, or the tab is reloaded or closed; the server notices at
\* some later time.  A heartbeat on its way changes nothing any more.
Drop ==
  /\ sid # Closed
  /\ Close
  /\ jobs' = {j \in jobs : j.ev # "driver_heartbeat"}
               \cup {Job("disconnect", sid, "start", NoRide)}
  /\ page' \in {Asleep(page), FreshPage}
  /\ UNCHANGED <<store, identity, opened, faults, clicks>>

Restart ==
  /\ Fault
  /\ Close
  /\ identity' = {} /\ jobs' = {}
  /\ page' = Asleep(page)
  /\ UNCHANGED <<store, opened, clicks>>

-----------------------------------------------------------------------------
(* What the page hears                                                     *)

Hears(ev) == down # <<>> /\ Head(down).ev = ev /\ down' = Tail(down)
Heard == Head(down)

Emits(ev, r) == jobs' = jobs \cup {Job(ev, sid, "start", r)}
Quiet == jobs' = jobs

\* goOnline of a page whose switch is on and that shows no ride.
GoesOnlineIf(b) ==
  IF b /\ page.on /\ page.current = NoRide THEN Emits("driver_online", NoRide) ELSE Quiet

\* resetTripUI, with the buttons hidden.
Reset(p, hidden) ==
  [p EXCEPT !.current = NoRide, !.confirmed = FALSE, !.buttons = @ \ hidden]

OnConnect ==
  /\ Hears("connect")
  /\ page' = [page EXCEPT !.up = TRUE]
  /\ GoesOnlineIf(TRUE)

\* Mutant: a page that is not in the pool only stops its heartbeat.
OnDriverStatusStop ==
  /\ Hears("driver_status")
  /\ page' = IF Heard.say = "online" THEN [page EXCEPT !.on = TRUE, !.beating = TRUE]
             ELSE [page EXCEPT !.beating = FALSE]
  /\ Quiet

OnDriverStatus ==
  /\ Hears("driver_status")
  /\ page' = IF Heard.say = "online" THEN [page EXCEPT !.on = TRUE, !.beating = TRUE]
             ELSE [page EXCEPT !.beating = FALSE]
  /\ GoesOnlineIf(Heard.say = "not_in_pool")

OnDriverRequest ==
  /\ Hears("driver_request")
  /\ page' = IF page.confirmed THEN page
             ELSE [page EXCEPT !.current = Heard.ride, !.buttons = @ \cup {"offer"}]
  /\ Quiet

OnRideAssigned ==
  /\ Hears("ride_assigned")
  /\ page' = [page EXCEPT !.confirmed = @ \/ page.current = Heard.ride]
  /\ Quiet

\* offer_expired and ride_accept_failed.
OnOfferGone ==
  /\ Hears("offer_expired") \/ Hears("ride_accept_failed")
  /\ page' = IF page.confirmed \/ page.current # Heard.ride THEN page
             ELSE Reset(page, {"offer"})
  /\ Quiet

OnRideProgress ==
  /\ Hears("ride_progress")
  /\ page' = [page EXCEPT !.buttons = @ \cup {"pay"}]
  /\ Quiet

OnRideState ==
  /\ Hears("ride_state")
  /\ page' = [page EXCEPT !.current = Heard.ride, !.confirmed = TRUE,
                !.buttons = (@ \ {"offer"}) \cup
                            IF Heard.say = "completed" THEN {"pay"} ELSE {}]
  /\ Quiet

OnPaymentFailed ==
  /\ Hears("payment_failed")
  /\ page' = IF Heard.say = "paid" THEN Reset(page, {"pay"})
             ELSE [page EXCEPT !.buttons = @ \cup {"pay"}]
  /\ Quiet

OnEarningsUpdate ==
  /\ Hears("earnings_update")
  /\ page' = IF page.current = Heard.ride THEN Reset(page, {"pay"}) ELSE page
  /\ Quiet

Hear ==
  /\ \/ OnConnect \/ OnDriverStatus \/ OnDriverRequest \/ OnRideAssigned
     \/ OnOfferGone \/ OnRideProgress \/ OnRideState \/ OnPaymentFailed
     \/ OnEarningsUpdate
  /\ UNCHANGED <<store, identity, rooms, link, clicks>>

-----------------------------------------------------------------------------
(* What the page and its driver do, while connected                        *)

SwitchOn ==
  /\ ~page.on
  /\ page' = [page EXCEPT !.on = TRUE]
  /\ Emits("driver_online", NoRide)

SwitchOff ==
  /\ page.on
  /\ page' = LET p == [page EXCEPT !.on = FALSE, !.beating = FALSE]
             IN IF page.confirmed THEN p ELSE Reset(p, {"offer", "pay"})
  /\ Emits("driver_offline", NoRide)

Switch ==
  /\ clicks < MaxToggles /\ clicks' = clicks + 1
  /\ SwitchOn \/ SwitchOff

\* Mutant: the page takes the click for the answer.
AcceptRideAtOnce ==
  /\ "offer" \in page.buttons /\ page.current # NoRide
  /\ page' = [page EXCEPT !.buttons = @ \ {"offer"}, !.confirmed = TRUE]
  /\ Emits("accept", page.current)

AcceptRide ==
  /\ "offer" \in page.buttons /\ page.current # NoRide
  /\ page' = [page EXCEPT !.buttons = @ \ {"offer"}]
  /\ Emits("accept", page.current)

RejectRide ==
  /\ "offer" \in page.buttons /\ page.current # NoRide
  /\ page' = Reset(page, {"offer"})
  /\ Emits("reject", page.current)

ConfirmPayment ==
  /\ "pay" \in page.buttons /\ page.current # NoRide
  /\ page' = [page EXCEPT !.buttons = @ \ {"pay"}]
  /\ Emits("payment_collected", page.current)

\* The timer fires every DRIVER_HEARTBEAT_INTERVAL_SECONDS, long after the last
\* heartbeat was answered.
Beat ==
  /\ page.beating /\ page.on
  /\ \A j \in jobs : j.ev # "driver_heartbeat"
  /\ \A i \in DOMAIN down : down[i].ev # "driver_status"
  /\ Emits("driver_heartbeat", NoRide)
  /\ UNCHANGED page

Act ==
  /\ page.up /\ Calm
  /\ Switch \/ ((AcceptRide \/ RejectRide \/ ConfirmPayment \/ Beat) /\ UNCHANGED clicks)
  /\ UNCHANGED <<store, identity, rooms, link, down>>

-----------------------------------------------------------------------------
Works ==
  \/ \E j \in jobs : Serve(j) /\ UNCHANGED <<link, page, clicks>>
  \/ \E r \in Ride :
       (MakeOffer(r) \/ ExpireOffer(r) \/ CompleteRide(r)) /\ UNCHANGED <<link, down, page, clicks>>
  \/ HeartbeatExpires /\ UNCHANGED <<link, down, page, clicks>>
  \/ Connect
  \/ Hear
  \/ Act

Next ==
  \/ Works /\ UNCHANGED trouble
  \/ Drop \/ Restart
  \/ \E j \in jobs : Fails(j) /\ UNCHANGED <<link, page, clicks>>

\* Greenlets go on, the page hears what it is sent, its timer fires, and a
\* heartbeat that nothing refreshes expires.  Heartbeats and requests to go
\* online come again and again, and may not keep the others waiting.
Again == {"driver_heartbeat", "driver_online"}
Runs(j) == Serve(j) /\ UNCHANGED <<link, page, trouble, clicks>>

Fairness ==
  /\ \A ev \in Again : WF_vars(\E j \in jobs : j.ev = ev /\ Runs(j))
  /\ WF_vars(\E j \in jobs : j.ev \notin Again /\ Runs(j))
  /\ WF_vars(Hear /\ UNCHANGED trouble)
  /\ WF_vars(Beat /\ page.up /\ Calm /\ UNCHANGED <<store, identity, rooms, link, down, trouble, clicks>>)
  /\ WF_vars(~page.beating /\ HeartbeatExpires /\ UNCHANGED <<link, down, page, trouble, clicks>>)

Spec == Init /\ [][Next]_vars /\ Fairness

-----------------------------------------------------------------------------
\* driver.html:147 and :367: the page says a trip is the driver's only when
\* Postgres does.
ConfirmedTripsAreReal == page.confirmed => ride[page.current] \in {"accepted", "completed", "paid"}

\* The restore of this socket was given up: its page may show a trip it was
\* told of before, hears nothing of it, and nothing tries again.
NotRestored == "connect" \in failed

\* handlers.py:341 and :371: a connected page that shows a trip as the driver's
\* is in the room of its ride, until it is paid: what the backend announces of
\* the ride reaches it, whatever socket the page got the trip through, and
\* whatever was accepted or paid by a handler of an earlier one.  Only the
\* socket whose restore raised may be left outside.
ConfirmedTripsAreHeard ==
  page.up /\ page.confirmed =>
    page.current \in rooms \/ ride[page.current] = "paid" \/ NotRestored

Shows(r) == page.current = r /\ page.confirmed /\ r \in rooms

\* handlers.py:336: a socket whose connect finds a trip under way, or unpaid,
\* shows it and is in its room, unless a query of the restore raised.
ReconnectShowsTheTrip ==
  \A r \in Ride, s \in 2..MaxSockets :
    (Open(r) /\ \E j \in jobs : At(j, "connect", "ride") /\ j.sid = s)
      ~> (sid # s \/ ~Open(r) \/ NotRestored \/ \E q \in Ride : Shows(q))

\* Nothing that would tell the page to be offline is under way.
Settled ==
  /\ \A j \in jobs : j.ev \notin {"driver_online", "driver_offline"}
  /\ \A i \in DOMAIN down : down[i].ev = "driver_status" => down[i].say = "online"

\* handlers.py:385, driver.html:207: a free driver whose page is online comes
\* back into the pool, whoever took the driver out: the late disconnect of an
\* earlier socket, the heartbeat's expiry, or a payment that Redis did not
\* hear of.  A page whose request to go online died is not beating, and waits.
HeartbeatHeals ==
  \A s \in 1..MaxSockets :
    (sid = s /\ page.up /\ page.on /\ page.beating /\ page.current = NoRide /\ Settled)
      ~> (pool \/ sid # s \/ ~page.on \/ page.current # NoRide \/ OnTrip
            \/ "driver_online" \in failed)

\* matching_service.py:68: whoever has gone leaves the pool, also when a
\* driver_online or a payment put the driver there after disconnect.
GhostsLeave == sid = Closed ~> (~pool \/ sid # Closed)

\* handlers.py:336: a reload or a network drop does not lose the trip, also
\* when the accept of an earlier socket commits after connect has looked for it.
ReconnectsLoseNoTrip ==
  \A r \in Ride, s \in 2..MaxSockets :
    (/\ Open(r) /\ sid = s
     /\ \E j \in jobs : At(j, "connect", "offers") /\ j.sid = s)
      ~> (sid # s \/ ~Open(r) \/ \E q \in Ride : Shows(q))
=============================================================================
