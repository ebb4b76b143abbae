------------------------- MODULE DriverSession_proofs -------------------------
(***************************************************************************)
(* Proofs about DriverSession, for any number of rides, sockets, clicks    *)
(* and faults: types, and that the page says a trip is the driver's only   *)
(* when Postgres does.  A page that says so was told so, so the invariant  *)
(* follows the two messages that tell it from the commit to the page.      *)
(***************************************************************************)
EXTENDS DriverSession, TLAPS

Telling == {"ride_assigned", "ride_state"}

Real(r) == r \in Ride /\ ride[r] \in {"accepted", "completed", "paid"}

\* What a message tells the page is so.
True(m) == m.ev \in Telling => Real(m.ride)

Contents(s) == {s[i] : i \in DOMAIN s}

\* What a greenlet knows of the ride and the socket it was started for.
Sound(j) ==
  /\ True(j.out)
  /\ j.ev \in {"accept", "reject", "payment_collected"} => j.ride \in Ride
  /\ At(j, "accept", "assign") => Real(j.ride)
  /\ j.sid = Closed => j.ev \in {"driver_room", "ride_room"}

EverythingToldIsTrue ==
  /\ \A j \in jobs : Sound(j)
  /\ \A m \in Contents(down) : True(m)
  /\ page.confirmed => Real(page.current)
  /\ sid = Closed => ~page.up

IInv == TypeOK /\ EverythingToldIsTrue

\* What a call that raises, or a restart, is remembered by.
TroubleOK ==
  /\ failed \subseteq NotRetried /\ faults \in 0..MaxFaults
  /\ sid = Closed => failed = {}

-----------------------------------------------------------------------------
(* Sequences of messages.                                                  *)

LEMMA ContentsOfAppended ==
  ASSUME NEW s \in Seq(Message), NEW t \in Seq(Message)
  PROVE  /\ s \o t \in Seq(Message)
         /\ \A m \in Contents(s \o t) : m \in Contents(s) \/ m \in Contents(t)
BY DEF Contents

LEMMA ContentsOfTail ==
  ASSUME NEW s \in Seq(Message), s # <<>>
  PROVE  /\ Head(s) \in Message /\ Head(s) \in Contents(s)
         /\ Tail(s) \in Seq(Message)
         /\ \A m \in Contents(Tail(s)) : m \in Contents(s)
BY DEF Contents

LEMMA ContentsOfOne ==
  ASSUME NEW m \in Message
  PROVE  <<m>> \in Seq(Message) /\ Contents(<<m>>) = {m}
BY DEF Contents

LEMMA ContentsOfTwo ==
  ASSUME NEW m \in Message, NEW n \in Message
  PROVE  <<m, n>> \in Seq(Message) /\ Contents(<<m, n>>) = {m, n}
BY DEF Contents

-----------------------------------------------------------------------------
(* Greenlets are records.                                                  *)

Places == {"start", "ride", "offers", "restore", "remove", "enter", "tell",
           "decline", "assign"}

-----------------------------------------------------------------------------
(* A ride that is the driver's stays so.                                   *)

Keeps == \A r \in Ride : Real(r) => Real(r)'

LEMMA TruthLasts ==
  ASSUME Keeps
  PROVE  /\ \A m : True(m) => True(m)'
         /\ \A j : Sound(j) => Sound(j)'
<1>1. ASSUME NEW m, True(m) PROVE True(m)'
  BY <1>1 DEF True, Keeps, Real
<1>2. ASSUME NEW j, Sound(j) PROVE Sound(j)'
  BY <1>1, <1>2 DEF Sound, Keeps, Real, At
<1> QED BY <1>1, <1>2

\* What has been sent, if anything, is so.
Spoken ==
  \/ down' = down
  \/ \E ms \in Seq(Message) : down' = down \o ms /\ \A m \in Contents(ms) : True(m)'

\* What every step of a greenlet, and of the rest of the backend, amounts to:
\* at most one new greenlet, and some messages to the page.
LEMMA BackendStep ==
  ASSUME IInv, Keeps,
         ride' \in [Ride -> {"none", "offered", "accepted", "completed", "paid", "gone"}],
         pool' \in BOOLEAN, identity' \subseteq 1..MaxSockets, rooms' \subseteq Ride,
         sid = Closed => rooms' = {} /\ down' = <<>>,
         \A k \in jobs' : k \in jobs \/ (k \in Greenlet /\ Sound(k)'),
         Spoken,
         UNCHANGED <<link, page, clicks>>, TroubleOK'
  PROVE  IInv'
<1> USE DEF IInv
<1>1. down' \in Seq(Message) /\ \A m \in Contents(down') : True(m)'
  <2>1. CASE down' = down
    BY <2>1, TruthLasts DEF TypeOK, EverythingToldIsTrue
  <2>2. ASSUME NEW ms \in Seq(Message), down' = down \o ms,
               \A m \in Contents(ms) : True(m)'
        PROVE  down' \in Seq(Message) /\ \A m \in Contents(down') : True(m)'
    BY <2>2, ContentsOfAppended, TruthLasts DEF TypeOK, EverythingToldIsTrue
  <2> QED BY <2>1, <2>2 DEF Spoken
<1>2. jobs' \subseteq Greenlet /\ \A j \in jobs' : Sound(j)'
  BY TruthLasts DEF TypeOK, EverythingToldIsTrue
<1>3. page'.confirmed => Real(page.current)'
  BY DEF EverythingToldIsTrue, Keeps, Real
<1>4. TypeOK'
  BY <1>1, <1>2 DEF TypeOK, TroubleOK, link
<1>5. EverythingToldIsTrue'
  BY <1>1, <1>2, <1>3 DEF EverythingToldIsTrue, Contents, link
<1> QED BY <1>4, <1>5

-----------------------------------------------------------------------------
(* What the steps of a greenlet are made of.                               *)

LEMMA Untouched ==
  ASSUME ride' = ride
  PROVE  Keeps
BY DEF Keeps, Real

LEMMA Ending ==
  ASSUME NEW j, Ends(j)
  PROVE  \A k \in jobs' : k \in jobs \/ (k \in Greenlet /\ Sound(k)')
BY DEF Ends

LEMMA Going ==
  ASSUME IInv, Keeps, NEW j \in jobs, NEW at \in Places, Goes(j, at),
         at = "assign" => Real(j.ride)'
  PROVE  \A k \in jobs' : k \in jobs \/ (k \in Greenlet /\ Sound(k)')
<1> DEFINE k == [j EXCEPT !.at = at]
<1>1. j \in Greenlet /\ Sound(j)'
  BY TruthLasts DEF IInv, TypeOK, EverythingToldIsTrue
<1>2. /\ k \in Greenlet /\ k.ev = j.ev /\ k.sid = j.sid /\ k.ride = j.ride
      /\ k.out = j.out /\ k.at = at
  BY <1>1 DEF Greenlet, Places
<1>3. jobs' = (jobs \ {j}) \cup {k}
  BY DEF Goes
<1> HIDE DEF k
<1>4. Sound(k)'
  BY <1>1, <1>2 DEF Sound, At, True
<1> QED BY <1>2, <1>3, <1>4

LEMMA Holding ==
  ASSUME IInv, Keeps, NEW j \in jobs, NEW at \in Places, NEW m \in Message,
         Holds(j, at, m), True(m)', at # "assign"
  PROVE  \A k \in jobs' : k \in jobs \/ (k \in Greenlet /\ Sound(k)')
<1> DEFINE k == [j EXCEPT !.at = at, !.out = m]
<1>1. j \in Greenlet /\ Sound(j)'
  BY TruthLasts DEF IInv, TypeOK, EverythingToldIsTrue
<1>2. /\ k \in Greenlet /\ k.ev = j.ev /\ k.sid = j.sid /\ k.ride = j.ride
      /\ k.out = m /\ k.at = at
  BY <1>1 DEF Greenlet, Places
<1>3. jobs' = (jobs \ {j}) \cup {k}
  BY DEF Holds
<1> HIDE DEF k
<1>4. Sound(k)'
  BY <1>1, <1>2 DEF Sound, At, True
<1> QED BY <1>2, <1>3, <1>4

LEMMA Sending ==
  ASSUME IInv, NEW reaches, reaches => sid # Closed,
         NEW ms \in Seq(Message), \A m \in Contents(ms) : True(m)',
         Sends(reaches, ms)
  PROVE  Spoken /\ (sid = Closed => down' = <<>>)
<1>1. CASE reaches
  BY <1>1 DEF Sends, Spoken
<1>2. CASE ~reaches
  BY <1>2 DEF Sends, Spoken, IInv, TypeOK
<1> QED BY <1>1, <1>2

LEMMA Saying ==
  ASSUME NEW m \in Message, m.ev \notin Telling
  PROVE  <<m>> \in Seq(Message) /\ \A n \in Contents(<<m>>) : True(n)'
BY ContentsOfOne DEF True

LEMMA Messages ==
  ASSUME NEW r \in Ride \cup {NoRide}, NEW say \in Says,
         NEW ev \in {"connect", "driver_status", "driver_request", "offer_expired",
                     "ride_assigned", "ride_accept_failed", "ride_state",
                     "ride_progress", "earnings_update", "payment_failed"}
  PROVE  /\ Msg(ev, r, say) \in Message
         /\ Msg(ev, r, say).ev = ev /\ Msg(ev, r, say).ride = r
BY DEF Msg, Message

LEMMA Answering ==
  ASSUME IInv, NEW j \in jobs, j.ev \notin {"driver_room", "ride_room"},
         NEW m \in Message, m.ev \notin Telling, Replies(j, m)
  PROVE  /\ Spoken /\ (sid = Closed => down' = <<>>)
         /\ \A k \in jobs' : k \in jobs \/ (k \in Greenlet /\ Sound(k)')
<1>1. Mine(j) => sid # Closed
  BY DEF Mine, IInv, EverythingToldIsTrue, Sound
<1>2. Ends(j) /\ Sends(Mine(j), <<m>>)
  BY DEF Replies
<1>3. Spoken /\ (sid = Closed => down' = <<>>)
  BY <1>1, <1>2, Saying, Sending
<1> QED BY <1>2, <1>3, Ending

-----------------------------------------------------------------------------
(* The steps of a greenlet, one by one.                                    *)

LEMMA StandingStill ==
  ASSUME IInv, UNCHANGED <<ride, identity, rooms, link, page, clicks>>, TroubleOK',
         pool' \in BOOLEAN, Spoken, sid = Closed => down' = <<>>,
         \A k \in jobs' : k \in jobs \/ (k \in Greenlet /\ Sound(k)')
  PROVE  IInv'
<1>1. Keeps
  BY Untouched
<1>2. /\ ride' \in [Ride -> {"none", "offered", "accepted", "completed", "paid", "gone"}]
      /\ identity' \subseteq 1..MaxSockets /\ rooms' \subseteq Ride
      /\ sid = Closed => rooms' = {}
  BY DEF IInv, TypeOK
<1> QED BY <1>1, <1>2, BackendStep

LEMMA SayingNothing ==
  ASSUME IInv, Silent
  PROVE  Spoken /\ (sid = Closed => down' = <<>>)
BY DEF Silent, Spoken, IInv, TypeOK

LEMMA JobsKnown ==
  ASSUME IInv, NEW j \in jobs
  PROVE  /\ j \in Greenlet /\ Sound(j)
         /\ j.ev \notin {"driver_room", "ride_room"} => j.sid \in 1..MaxSockets
         /\ j.ev \notin {"driver_room", "ride_room"} => (Mine(j) => sid # Closed)
         /\ j.out \in Message
<1>1. j \in Greenlet /\ Sound(j)
  BY DEF IInv, TypeOK, EverythingToldIsTrue
<1>2. j.sid \in 0..MaxSockets /\ j.out \in Message
  BY <1>1 DEF Greenlet
<1>3. MaxSockets \in Nat
  BY BoundsAssumption
<1> QED BY <1>1, <1>2, <1>3 DEF Sound, Mine, Closed

LEMMA RegisterKeeps ==
  ASSUME IInv, NEW j \in jobs, Register(j), UNCHANGED <<link, page, clicks>>, TroubleOK'
  PROVE  IInv'
<1>1. Keeps
  BY Untouched DEF Register, store
<1>2. Spoken /\ (sid = Closed => down' = <<>>)
  BY SayingNothing DEF Register
<1>3. \A k \in jobs' : k \in jobs \/ (k \in Greenlet /\ Sound(k)')
  BY <1>1, Going DEF Register, Places
<1>4. identity' \subseteq 1..MaxSockets
  BY JobsKnown DEF Register, At, IInv, TypeOK
<1>5. /\ ride' \in [Ride -> {"none", "offered", "accepted", "completed", "paid", "gone"}]
      /\ pool' \in BOOLEAN /\ rooms' \subseteq Ride
      /\ sid = Closed => rooms' = {}
  BY DEF Register, store, IInv, TypeOK
<1> QED BY <1>1, <1>2, <1>3, <1>4, <1>5, BackendStep

LEMMA ReadRideKeeps ==
  ASSUME IInv, NEW j \in jobs, ReadRide(j), UNCHANGED <<link, page, clicks>>, TroubleOK'
  PROVE  IInv'
<1>1. UNCHANGED <<ride, pool, identity, rooms>> /\ Silent
  BY DEF ReadRide, store
<1>2. Keeps /\ pool' \in BOOLEAN
  BY <1>1, Untouched DEF IInv, TypeOK
<1>3. CASE Goes(j, "offers")
  <2>1. \A k \in jobs' : k \in jobs \/ (k \in Greenlet /\ Sound(k)')
    BY <1>2, <1>3, Going DEF Places
  <2> QED BY <1>1, <1>2, <2>1, SayingNothing, StandingStill
<1>4. ASSUME NEW r \in Ride, Latest(r),
             Holds(j, "restore", Msg("ride_state", r, ride[r]))
      PROVE  IInv'
  <2>1. ride[r] \in {"accepted", "completed"}
    BY <1>4 DEF Latest, Open
  <2>2. /\ Msg("ride_state", r, ride[r]) \in Message
        /\ Msg("ride_state", r, ride[r]).ride = r
    BY <2>1 DEF Msg, Message, Says
  <2>3. True(Msg("ride_state", r, ride[r]))'
    BY <1>1, <2>1 DEF True, Real, Msg
  <2>4. \A k \in jobs' : k \in jobs \/ (k \in Greenlet /\ Sound(k)')
    BY <1>1, <1>2, <1>4, <2>2, <2>3, Holding DEF Places
  <2> QED BY <1>1, <1>2, <2>4, SayingNothing, StandingStill
<1> QED BY <1>3, <1>4 DEF ReadRide

LEMMA ReadOfferKeeps ==
  ASSUME IInv, NEW j \in jobs, ReadOffer(j), UNCHANGED <<link, page, clicks>>, TroubleOK'
  PROVE  IInv'
<1>1. UNCHANGED <<ride, pool, identity, rooms>> /\ j.ev = "connect"
  BY DEF ReadOffer, store, At
<1>2. Keeps /\ pool' \in BOOLEAN
  BY <1>1, Untouched DEF IInv, TypeOK
<1>3. CASE Replies(j, Connected)
  <2>1. Connected \in Message /\ Connected.ev \notin Telling
    BY DEF Connected, Msg, Message, Says, Telling
  <2>2. /\ Spoken /\ (sid = Closed => down' = <<>>)
        /\ \A k \in jobs' : k \in jobs \/ (k \in Greenlet /\ Sound(k)')
    BY <1>1, <1>3, <2>1, Answering
  <2> QED BY <1>1, <1>2, <2>2, StandingStill
<1>4. ASSUME NEW r \in Offered, Holds(j, "restore", Msg("driver_request", r, "")), Silent
      PROVE  IInv'
  <2>1. /\ Msg("driver_request", r, "") \in Message
        /\ True(Msg("driver_request", r, ""))'
    <3>1. r \in Ride /\ "" \in Says
      BY DEF Offered, Says
    <3> QED BY <3>1, Messages DEF True, Telling, Msg
  <2>2. \A k \in jobs' : k \in jobs \/ (k \in Greenlet /\ Sound(k)')
    BY <1>2, <1>4, <2>1, Holding DEF Places
  <2> QED BY <1>1, <1>2, <1>4, <2>2, SayingNothing, StandingStill
<1> QED BY <1>3, <1>4 DEF ReadOffer

LEMMA RestoreKeeps ==
  ASSUME IInv, NEW j \in jobs, Restore(j), UNCHANGED <<link, page, clicks>>, TroubleOK'
  PROVE  IInv'
<1>1. UNCHANGED <<ride, pool, identity>> /\ j.ev = "connect"
  BY DEF Restore, store, At
<1>2. Keeps /\ pool' \in BOOLEAN
  BY <1>1, Untouched DEF IInv, TypeOK
<1>3. /\ Connected \in Message /\ True(Connected)'
  BY DEF Connected, Msg, Message, Says, Telling, True
<1>4. j.out \in Message /\ True(j.out)' /\ (Mine(j) => sid # Closed)
  BY <1>1, <1>2, JobsKnown, TruthLasts DEF Sound
<1>5. Spoken /\ (sid = Closed => down' = <<>>)
  <2>1. /\ <<j.out, Connected>> \in Seq(Message)
        /\ \A m \in Contents(<<j.out, Connected>>) : True(m)'
    BY <1>3, <1>4, ContentsOfTwo
  <2>2. Sends(Mine(j), <<j.out, Connected>>)
    BY DEF Restore
  <2> QED BY <1>4, <2>1, <2>2, Sending
<1>6. \A k \in jobs' : k \in jobs \/ (k \in Greenlet /\ Sound(k)')
  BY Ending DEF Restore
<1>7. rooms' \subseteq Ride /\ (sid = Closed => rooms' = {})
  <2>1. j.out.ev = "ride_state" => j.out.ride \in Ride
    BY JobsKnown DEF Sound, True, Telling, Real
  <2>2. rooms \subseteq Ride /\ (sid = Closed => rooms = {})
    BY DEF IInv, TypeOK
  <2> QED BY <1>4, <2>1, <2>2 DEF Restore
<1>8. /\ ride' \in [Ride -> {"none", "offered", "accepted", "completed", "paid", "gone"}]
      /\ identity' \subseteq 1..MaxSockets
  BY <1>1 DEF IInv, TypeOK
<1> QED BY <1>2, <1>5, <1>6, <1>7, <1>8, BackendStep

LEMMA DisconnectKeeps ==
  ASSUME IInv, NEW j \in jobs, Disconnect(j), UNCHANGED <<link, page, clicks>>, TroubleOK'
  PROVE  IInv'
<1>1. UNCHANGED <<ride, pool, rooms>> /\ Silent /\ j.ev = "disconnect"
  BY DEF Disconnect, store, At
<1>2. Keeps /\ Spoken /\ (sid = Closed => down' = <<>>)
  BY <1>1, Untouched, SayingNothing
<1>3. \A k \in jobs' : k \in jobs \/ (k \in Greenlet /\ Sound(k)')
  <2> DEFINE k == [j EXCEPT !.at = "remove"]
  <2>1. j \in Greenlet /\ Sound(j)'
    BY <1>2, JobsKnown, TruthLasts
  <2>2. /\ k \in Greenlet /\ k.ev = j.ev /\ k.sid = j.sid /\ k.out = j.out
    BY <2>1 DEF Greenlet
  <2>3. jobs' \subseteq jobs \cup {k}
    BY DEF Disconnect
  <2> HIDE DEF k
  <2>4. Sound(k)'
    BY <1>1, <2>1, <2>2 DEF Sound, At, True
  <2> QED BY <2>2, <2>3, <2>4
<1>4. /\ ride' \in [Ride -> {"none", "offered", "accepted", "completed", "paid", "gone"}]
      /\ pool' \in BOOLEAN /\ rooms' \subseteq Ride /\ identity' \subseteq 1..MaxSockets
      /\ sid = Closed => rooms' = {}
  BY <1>1 DEF Disconnect, IInv, TypeOK
<1> QED BY <1>2, <1>3, <1>4, BackendStep

LEMMA RemoveDriverKeeps ==
  ASSUME IInv, NEW j \in jobs, RemoveDriver(j), UNCHANGED <<link, page, clicks>>, TroubleOK'
  PROVE  IInv'
<1>1. UNCHANGED <<ride, identity, rooms>> /\ Silent /\ pool' \in BOOLEAN
  BY DEF RemoveDriver
<1>2. \A k \in jobs' : k \in jobs \/ (k \in Greenlet /\ Sound(k)')
  BY Ending DEF RemoveDriver
<1> QED BY <1>1, <1>2, SayingNothing, StandingStill

LEMMA GoOnlineKeeps ==
  ASSUME IInv, NEW j \in jobs, GoOnline(j), UNCHANGED <<link, page, clicks>>, TroubleOK'
  PROVE  IInv'
<1>1. /\ UNCHANGED <<ride, identity, rooms>> /\ j.ev = "driver_online"
      /\ pool' \in BOOLEAN
  BY DEF GoOnline, store, At, IInv, TypeOK
<1>2. CASE Replies(j, Status("active_ride"))
  <2>1. Status("active_ride") \in Message /\ Status("active_ride").ev \notin Telling
    BY DEF Status, Msg, Message, Says, Telling
  <2> QED BY <1>1, <1>2, <2>1, Answering, StandingStill
<1>3. CASE Goes(j, "enter") /\ Silent
  <2>1. \A k \in jobs' : k \in jobs \/ (k \in Greenlet /\ Sound(k)')
    BY <1>1, <1>3, Untouched, Going DEF Places
  <2> QED BY <1>1, <1>3, <2>1, SayingNothing, StandingStill
<1> QED BY <1>2, <1>3 DEF GoOnline

LEMMA EnterPoolKeeps ==
  ASSUME IInv, NEW j \in jobs, EnterPool(j), UNCHANGED <<link, page, clicks>>, TroubleOK'
  PROVE  IInv'
<1>1. UNCHANGED <<ride, identity, rooms>> /\ Silent /\ pool' \in BOOLEAN
  BY DEF EnterPool
<1>2. \A k \in jobs' : k \in jobs \/ (k \in Greenlet /\ Sound(k)')
  BY <1>1, Untouched, Going DEF EnterPool, Places
<1> QED BY <1>1, <1>2, SayingNothing, StandingStill

LEMMA TellOnlineKeeps ==
  ASSUME IInv, NEW j \in jobs, TellOnline(j), UNCHANGED <<link, page, clicks>>, TroubleOK'
  PROVE  IInv'
<1>1. /\ UNCHANGED <<ride, identity, rooms>> /\ j.ev = "driver_online"
      /\ pool' \in BOOLEAN /\ Replies(j, Status("online"))
  BY DEF TellOnline, store, At, IInv, TypeOK
<1>2. Status("online") \in Message /\ Status("online").ev \notin Telling
  BY DEF Status, Msg, Message, Says, Telling
<1> QED BY <1>1, <1>2, Answering, StandingStill

LEMMA GoOfflineKeeps ==
  ASSUME IInv, NEW j \in jobs, GoOffline(j), UNCHANGED <<link, page, clicks>>, TroubleOK'
  PROVE  IInv'
<1>1. UNCHANGED <<ride, identity, rooms>> /\ Silent /\ pool' \in BOOLEAN
  BY DEF GoOffline
<1>2. \A k \in jobs' : k \in jobs \/ (k \in Greenlet /\ Sound(k)')
  BY <1>1, Untouched, Going DEF GoOffline, Places
<1> QED BY <1>1, <1>2, SayingNothing, StandingStill

LEMMA DeclinePendingKeeps ==
  ASSUME IInv, NEW j \in jobs, DeclinePending(j), UNCHANGED <<link, page, clicks>>, TroubleOK'
  PROVE  IInv'
<1>1. /\ UNCHANGED <<pool, identity, rooms>> /\ j.ev = "driver_offline"
      /\ ride' = [r \in Ride |-> Declined(r)]
  BY DEF DeclinePending, At
<1>2. Keeps
  BY <1>1 DEF Keeps, Real, Declined
<1>3. Status("offline") \in Message /\ Status("offline").ev \notin Telling
  BY DEF Status, Msg, Message, Says, Telling
<1>4. /\ ride' \in [Ride -> {"none", "offered", "accepted", "completed", "paid", "gone"}]
      /\ pool' \in BOOLEAN /\ identity' \subseteq 1..MaxSockets /\ rooms' \subseteq Ride
      /\ sid = Closed => rooms' = {}
  BY <1>1 DEF Declined, IInv, TypeOK
<1>5. CASE Replies(j, Status("offline"))
  BY <1>1, <1>2, <1>3, <1>4, <1>5, Answering, BackendStep
<1>6. CASE Goes(j, "tell") /\ Silent
  <2>1. \A k \in jobs' : k \in jobs \/ (k \in Greenlet /\ Sound(k)')
    BY <1>2, <1>6, Going DEF Places
  <2> QED BY <1>2, <1>4, <1>6, <2>1, SayingNothing, BackendStep
<1> QED BY <1>5, <1>6 DEF DeclinePending

LEMMA TellOfflineKeeps ==
  ASSUME IInv, NEW j \in jobs, TellOffline(j), UNCHANGED <<link, page, clicks>>, TroubleOK'
  PROVE  IInv'
<1>1. /\ UNCHANGED <<ride, identity, rooms>> /\ j.ev = "driver_offline"
      /\ pool' \in BOOLEAN /\ Replies(j, Status("offline"))
  BY DEF TellOffline, store, At, IInv, TypeOK
<1>2. Status("offline") \in Message /\ Status("offline").ev \notin Telling
  BY DEF Status, Msg, Message, Says, Telling
<1> QED BY <1>1, <1>2, Answering, StandingStill

LEMMA HeartbeatKeeps ==
  ASSUME IInv, NEW j \in jobs, Heartbeat(j), UNCHANGED <<link, page, clicks>>, TroubleOK'
  PROVE  IInv'
<1>1. PICK say \in {"online", "not_in_pool"} : Replies(j, Status(say))
  BY DEF Heartbeat
<1>2. /\ UNCHANGED <<ride, identity, rooms>> /\ j.ev = "driver_heartbeat"
      /\ pool' \in BOOLEAN
  BY DEF Heartbeat, store, At, IInv, TypeOK
<1>3. Status(say) \in Message /\ Status(say).ev \notin Telling
  BY DEF Status, Msg, Message, Says, Telling
<1> QED BY <1>1, <1>2, <1>3, Answering, StandingStill

\* One ride changes, and none that is the driver's stops being so.
LEMMA OneRide ==
  ASSUME IInv, NEW r \in Ride, NEW to \in {"offered", "accepted", "completed", "paid", "gone"},
         ride' = [ride EXCEPT ![r] = to],
         Real(r) => to \in {"accepted", "completed", "paid"}
  PROVE  /\ Keeps
         /\ ride' \in [Ride -> {"none", "offered", "accepted", "completed", "paid", "gone"}]
         /\ ride'[r] = to
BY DEF IInv, TypeOK, Keeps, Real

LEMMA RejectKeeps ==
  ASSUME IInv, NEW j \in jobs, Reject(j), UNCHANGED <<link, page, clicks>>, TroubleOK'
  PROVE  IInv'
<1>1. /\ UNCHANGED <<pool, identity, rooms>> /\ Silent /\ Ends(j) /\ j.ride \in Ride
      /\ ride' = [ride EXCEPT ![j.ride] = Declined(j.ride)]
  BY JobsKnown DEF Reject, At, Sound
<1>2. /\ Keeps
      /\ ride' \in [Ride -> {"none", "offered", "accepted", "completed", "paid", "gone"}]
  BY <1>1 DEF Keeps, Real, Declined, IInv, TypeOK
<1>3. \A k \in jobs' : k \in jobs \/ (k \in Greenlet /\ Sound(k)')
  BY <1>1, Ending
<1>4. /\ pool' \in BOOLEAN /\ identity' \subseteq 1..MaxSockets /\ rooms' \subseteq Ride
      /\ sid = Closed => rooms' = {}
  BY <1>1 DEF IInv, TypeOK
<1> QED BY <1>1, <1>2, <1>3, <1>4, SayingNothing, BackendStep

LEMMA AcceptOfferKeeps ==
  ASSUME IInv, NEW j \in jobs, AcceptOffer(j), UNCHANGED <<link, page, clicks>>, TroubleOK'
  PROVE  IInv'
<1>1. /\ UNCHANGED <<pool, identity>> /\ Silent
      /\ Goes(j, "assign") \/ Ends(j)
      /\ j.ev = "accept" /\ j.ride \in Ride
      /\ ride[j.ride] = "offered" /\ ride' = [ride EXCEPT ![j.ride] = "accepted"]
  BY JobsKnown DEF AcceptOffer, At, Sound
<1>2. /\ Keeps /\ Real(j.ride)'
      /\ ride' \in [Ride -> {"none", "offered", "accepted", "completed", "paid", "gone"}]
  BY <1>1, OneRide DEF Real
<1>3. \A k \in jobs' : k \in jobs \/ (k \in Greenlet /\ Sound(k)')
  BY <1>1, <1>2, Going, Ending DEF Places
<1>4. /\ pool' \in BOOLEAN /\ identity' \subseteq 1..MaxSockets
      /\ rooms' \subseteq Ride /\ (sid = Closed => rooms' = {})
  BY <1>1, JobsKnown DEF AcceptOffer, IInv, TypeOK
<1> QED BY <1>1, <1>2, <1>3, <1>4, SayingNothing, BackendStep

LEMMA AcceptFailsKeeps ==
  ASSUME IInv, NEW j \in jobs, AcceptFails(j), UNCHANGED <<link, page, clicks>>, TroubleOK'
  PROVE  IInv'
<1> DEFINE m == Msg("ride_accept_failed", j.ride, "")
<1>1. /\ UNCHANGED <<ride, identity, rooms>> /\ j.ev = "accept" /\ j.ride \in Ride
      /\ pool' \in BOOLEAN /\ Replies(j, m)
  BY JobsKnown DEF AcceptFails, store, At, Sound, IInv, TypeOK
<1>2. m \in Message /\ m.ev \notin Telling
  BY <1>1 DEF Msg, Message, Says, Telling
<1> HIDE DEF m
<1> QED BY <1>1, <1>2, Answering, StandingStill

LEMMA AnnouncesKeeps ==
  ASSUME IInv, NEW j \in jobs, Announces(j), pool' \in BOOLEAN,
         UNCHANGED <<link, page, clicks>>, TroubleOK'
  PROVE  IInv'
<1> DEFINE m == Msg("ride_assigned", j.ride, "")
<1>1. /\ UNCHANGED <<ride, identity, rooms>> /\ pool' \in BOOLEAN /\ Real(j.ride)
      /\ Ends(j) /\ Sends(j.ride \in rooms, <<m>>)
  BY JobsKnown DEF Announces, At, Sound
<1>2. m \in Message /\ True(m)'
  BY <1>1 DEF Msg, Message, Says, True, Real
<1>3. j.ride \in rooms => sid # Closed
  BY DEF IInv, TypeOK
<1> HIDE DEF m
<1>4. Spoken /\ (sid = Closed => down' = <<>>)
  <2>1. <<m>> \in Seq(Message) /\ \A n \in Contents(<<m>>) : True(n)'
    BY <1>2, ContentsOfOne
  <2> QED BY <1>1, <1>3, <2>1, Sending
<1>5. \A k \in jobs' : k \in jobs \/ (k \in Greenlet /\ Sound(k)')
  BY <1>1, Ending
<1> QED BY <1>1, <1>4, <1>5, StandingStill

LEMMA PayKeeps ==
  ASSUME IInv, NEW j \in jobs, Pay(j), UNCHANGED <<link, page, clicks>>, TroubleOK'
  PROVE  IInv'
<1>1. /\ UNCHANGED <<pool, identity, rooms>> /\ Silent /\ Goes(j, "enter")
      /\ j.ev = "payment_collected" /\ j.ride \in Ride
      /\ ride' = [ride EXCEPT ![j.ride] = "paid"]
  BY JobsKnown DEF Pay, At, Sound
<1>2. /\ Keeps
      /\ ride' \in [Ride -> {"none", "offered", "accepted", "completed", "paid", "gone"}]
  BY <1>1, OneRide
<1>3. \A k \in jobs' : k \in jobs \/ (k \in Greenlet /\ Sound(k)')
  BY <1>1, <1>2, Going DEF Places
<1>4. /\ pool' \in BOOLEAN /\ identity' \subseteq 1..MaxSockets
      /\ rooms' \subseteq Ride /\ (sid = Closed => rooms' = {})
  BY <1>1 DEF IInv, TypeOK
<1> QED BY <1>1, <1>2, <1>3, <1>4, SayingNothing, BackendStep

LEMMA PaymentFailsKeeps ==
  ASSUME IInv, NEW j \in jobs, PaymentFails(j), UNCHANGED <<link, page, clicks>>, TroubleOK'
  PROVE  IInv'
<1>1. PICK say \in {"paid", ""} : Replies(j, Msg("payment_failed", j.ride, say))
  BY DEF PaymentFails
<1> DEFINE m == Msg("payment_failed", j.ride, say)
<1>2. /\ UNCHANGED <<ride, identity, rooms>> /\ j.ev = "payment_collected"
      /\ j.ride \in Ride /\ pool' \in BOOLEAN
  BY JobsKnown DEF PaymentFails, store, At, Sound, IInv, TypeOK
<1>3. m \in Message /\ m.ev \notin Telling
  BY <1>2 DEF Msg, Message, Says, Telling
<1> HIDE DEF m
<1>4. Replies(j, m)
  BY <1>1 DEF m
<1> QED BY <1>2, <1>3, <1>4, Answering, StandingStill

LEMMA ThanksKeeps ==
  ASSUME IInv, NEW j \in jobs, Thanks(j), pool' \in BOOLEAN,
         UNCHANGED <<link, page, clicks>>, TroubleOK'
  PROVE  IInv'
<1> DEFINE m == Msg("earnings_update", j.ride, "")
           n == Status("online")
<1>1. /\ UNCHANGED <<ride, identity>> /\ j.ev = "payment_collected" /\ j.ride \in Ride
      /\ pool' \in BOOLEAN /\ Ends(j) /\ ToDriverRoom(<<m, n>>)
  BY JobsKnown DEF Thanks, At, Sound
<1>2. m \in Message /\ n \in Message /\ True(m)' /\ True(n)'
  BY <1>1 DEF Status, Msg, Message, Says, Telling, True
<1>3. sid \in identity => sid # Closed
  BY BoundsAssumption DEF IInv, TypeOK, Closed
<1> HIDE DEF m, n
<1>4. Spoken /\ (sid = Closed => down' = <<>>)
  <2>1. <<m, n>> \in Seq(Message) /\ \A k \in Contents(<<m, n>>) : True(k)'
    BY <1>2, ContentsOfTwo
  <2>2. Sends(sid \in identity, <<m, n>>)
    BY <1>1 DEF ToDriverRoom
  <2> QED BY <1>3, <2>1, <2>2, Sending
<1>5. \A k \in jobs' : k \in jobs \/ (k \in Greenlet /\ Sound(k)')
  BY <1>1, Ending
<1>6. /\ Keeps /\ rooms' \subseteq Ride /\ (sid = Closed => rooms' = {})
      /\ identity' \subseteq 1..MaxSockets
      /\ ride' \in [Ride -> {"none", "offered", "accepted", "completed", "paid", "gone"}]
  BY <1>1, Untouched DEF Thanks, IInv, TypeOK
<1> QED BY <1>1, <1>4, <1>5, <1>6, BackendStep

LEMMA TellRoomKeeps ==
  ASSUME IInv, NEW j \in jobs, TellRoom(j), UNCHANGED <<link, page, clicks>>, TroubleOK'
  PROVE  IInv'
<1>1. /\ UNCHANGED <<ride, identity, rooms>> /\ pool' \in BOOLEAN /\ Ends(j)
  BY DEF TellRoom, store, IInv, TypeOK
<1>2. j.out \in Message /\ True(j.out)'
  BY <1>1, JobsKnown, Untouched, TruthLasts DEF Sound
<1>3. <<j.out>> \in Seq(Message) /\ \A n \in Contents(<<j.out>>) : True(n)'
  BY <1>2, ContentsOfOne
<1>4. Spoken /\ (sid = Closed => down' = <<>>)
  <2>1. CASE j.ev = "driver_room"
    <3>1. sid \in identity => sid # Closed
      BY BoundsAssumption DEF IInv, TypeOK, Closed
    <3>2. Sends(sid \in identity, <<j.out>>)
      BY <2>1 DEF TellRoom, ToDriverRoom
    <3> QED BY <1>3, <3>1, <3>2, Sending
  <2>2. CASE j.ev # "driver_room"
    <3>1. j.out.ride \in rooms => sid # Closed
      BY DEF IInv, TypeOK
    <3>2. Sends(j.out.ride \in rooms, <<j.out>>)
      BY <2>2 DEF TellRoom
    <3> QED BY <1>3, <3>1, <3>2, Sending
  <2> QED BY <2>1, <2>2
<1>5. \A k \in jobs' : k \in jobs \/ (k \in Greenlet /\ Sound(k)')
  BY <1>1, Ending
<1> QED BY <1>1, <1>4, <1>5, StandingStill

LEMMA ServeKeeps ==
  ASSUME IInv, NEW j \in jobs, Serve(j), UNCHANGED <<link, page, clicks>>, TroubleOK'
  PROVE  IInv'
<1>1. CASE Register(j) \/ ReadRide(j) \/ ReadOffer(j) \/ Restore(j)
  BY <1>1, RegisterKeeps, ReadRideKeeps, ReadOfferKeeps, RestoreKeeps
<1>2. CASE Disconnect(j) \/ RemoveDriver(j) \/ GoOnline(j) \/ EnterPool(j) \/ TellOnline(j)
  BY <1>2, DisconnectKeeps, RemoveDriverKeeps, GoOnlineKeeps, EnterPoolKeeps, TellOnlineKeeps
<1>3. CASE GoOffline(j) \/ DeclinePending(j) \/ TellOffline(j) \/ Heartbeat(j)
  BY <1>3, GoOfflineKeeps, DeclinePendingKeeps, TellOfflineKeeps, HeartbeatKeeps
<1>4. CASE Reject(j) \/ AcceptOffer(j) \/ AcceptFails(j) \/ Assign(j)
  BY <1>4, RejectKeeps, AcceptOfferKeeps, AcceptFailsKeeps, AnnouncesKeeps DEF Assign
<1>5. CASE Pay(j) \/ PaymentFails(j) \/ Reenter(j) \/ TellRoom(j)
  BY <1>5, PayKeeps, PaymentFailsKeeps, ThanksKeeps, TellRoomKeeps DEF Reenter
<1> QED BY <1>1, <1>2, <1>3, <1>4, <1>5 DEF Serve

-----------------------------------------------------------------------------
(* A call that raises.                                                     *)

LEMMA FailsKeep ==
  ASSUME IInv, NEW j \in jobs, Fails(j), UNCHANGED <<link, page, clicks>>
  PROVE  IInv'
<1>1. TroubleOK'
  <2>1. faults' \in 0..MaxFaults
    BY BoundsAssumption DEF Fails, Fault, IInv, TypeOK
  <2>2. failed' \subseteq NotRetried
    BY DEF Fails, IInv, TypeOK
  <2>3. sid = Closed => failed' = {}
    <3>1. CASE Mine(j) /\ j.ev \in NotRetried
      BY <3>1, JobsKnown DEF NotRetried
    <3>2. CASE ~(Mine(j) /\ j.ev \in NotRetried)
      BY <3>2 DEF Fails, IInv, TypeOK
    <3> QED BY <3>1, <3>2
  <2> QED BY <2>1, <2>2, <2>3 DEF TroubleOK, link
<1>2. CASE RestoreFails(j)
  <2>1. UNCHANGED <<ride, pool, identity, rooms>> /\ j.ev = "connect" /\ Replies(j, Connected)
    BY <1>2 DEF RestoreFails, store
  <2>2. pool' \in BOOLEAN /\ Connected \in Message /\ Connected.ev \notin Telling
    BY <2>1 DEF Connected, Msg, Message, Says, Telling, IInv, TypeOK
  <2>3. /\ Spoken /\ (sid = Closed => down' = <<>>)
        /\ \A k \in jobs' : k \in jobs \/ (k \in Greenlet /\ Sound(k)')
    BY <2>1, <2>2, Answering
  <2> QED BY <1>1, <2>1, <2>2, <2>3, StandingStill
<1>3. CASE AssignFails(j) \/ ReenterFails(j)
  <2>1. pool' \in BOOLEAN
    BY <1>3 DEF AssignFails, ReenterFails, IInv, TypeOK
  <2> QED BY <1>1, <1>3, <2>1, AnnouncesKeeps, ThanksKeeps DEF AssignFails, ReenterFails
<1>4. CASE Dies(j)
  <2>1. /\ UNCHANGED <<ride, identity, rooms>> /\ Silent /\ pool' \in BOOLEAN
        /\ Ends(j)
    BY <1>4 DEF Dies, store, IInv, TypeOK
  <2>2. \A k \in jobs' : k \in jobs \/ (k \in Greenlet /\ Sound(k)')
    BY <2>1, Ending
  <2> QED BY <1>1, <2>1, <2>2, SayingNothing, StandingStill
<1> QED BY <1>2, <1>3, <1>4 DEF Fails

-----------------------------------------------------------------------------
(* The rest of the backend.                                                *)

LEMMA Emitting ==
  ASSUME NEW room \in {"driver_room", "ride_room"}, NEW m \in Message, True(m)',
         Emit(room, m)
  PROVE  \A k \in jobs' : k \in jobs \/ (k \in Greenlet /\ Sound(k)')
<1> DEFINE k == [Job(room, Closed, "tell", NoRide) EXCEPT !.out = m]
<1>1. k \in Greenlet /\ k.ev = room /\ k.at = "tell" /\ k.out = m
  <2>1. Closed \in 0..MaxSockets
    BY BoundsAssumption DEF Closed
  <2> QED BY <2>1 DEF Job, Greenlet, Event
<1>2. jobs' = jobs \cup {k}
  BY DEF Emit
<1> HIDE DEF k
<1>3. Sound(k)'
  BY <1>1 DEF Sound, At, True
<1> QED BY <1>1, <1>2, <1>3

LEMMA Becoming ==
  ASSUME IInv, NEW r \in Ride, NEW from \in {"none", "offered", "accepted"},
         NEW to \in {"offered", "gone", "completed"},
         Becomes(r, from, to), from = "accepted" => to = "completed",
         NEW room \in {"driver_room", "ride_room"}, NEW m \in Message,
         m.ev \notin Telling, Emit(room, m),
         UNCHANGED <<pool, identity, rooms, link, down, page, clicks>>, TroubleOK'
  PROVE  IInv'
<1>1. /\ Keeps
      /\ ride' \in [Ride -> {"none", "offered", "accepted", "completed", "paid", "gone"}]
  BY OneRide DEF Becomes, Real
<1>2. \A k \in jobs' : k \in jobs \/ (k \in Greenlet /\ Sound(k)')
  BY Emitting DEF True
<1>3. /\ pool' \in BOOLEAN /\ identity' \subseteq 1..MaxSockets
      /\ rooms' \subseteq Ride /\ (sid = Closed => rooms' = {} /\ down' = <<>>)
  BY DEF IInv, TypeOK
<1>4. Spoken
  BY DEF Spoken
<1> QED BY <1>1, <1>2, <1>3, <1>4, BackendStep

LEMMA OffersAndTripsKeep ==
  ASSUME IInv, NEW r \in Ride, MakeOffer(r) \/ ExpireOffer(r) \/ CompleteRide(r),
         UNCHANGED <<link, down, page, clicks>>, TroubleOK'
  PROVE  IInv'
<1>1. CASE MakeOffer(r)
  <2> DEFINE m == Msg("driver_request", r, "")
  <2>1. m \in Message /\ m.ev \notin Telling
    BY DEF Msg, Message, Says, Telling
  <2>2. /\ Becomes(r, "none", "offered") /\ Emit("driver_room", m)
        /\ UNCHANGED <<pool, identity, rooms>>
    BY <1>1 DEF MakeOffer
  <2> HIDE DEF m
  <2> QED BY <2>1, <2>2, Becoming
<1>2. CASE ExpireOffer(r)
  <2> DEFINE m == Msg("offer_expired", r, "")
  <2>1. m \in Message /\ m.ev \notin Telling
    BY DEF Msg, Message, Says, Telling
  <2>2. /\ Becomes(r, "offered", "gone") /\ Emit("driver_room", m)
        /\ UNCHANGED <<pool, identity, rooms>>
    BY <1>2 DEF ExpireOffer
  <2> HIDE DEF m
  <2> QED BY <2>1, <2>2, Becoming
<1>3. CASE CompleteRide(r)
  <2> DEFINE m == Msg("ride_progress", r, "completed")
  <2>1. m \in Message /\ m.ev \notin Telling
    BY DEF Msg, Message, Says, Telling
  <2>2. /\ Becomes(r, "accepted", "completed") /\ Emit("ride_room", m)
        /\ UNCHANGED <<pool, identity, rooms>>
    BY <1>3 DEF CompleteRide
  <2> HIDE DEF m
  <2> QED BY <2>1, <2>2, Becoming
<1> QED BY <1>1, <1>2, <1>3

LEMMA HeartbeatExpiresKeeps ==
  ASSUME IInv, HeartbeatExpires, UNCHANGED <<link, down, page, clicks>>, TroubleOK'
  PROVE  IInv'
<1>1. /\ UNCHANGED <<ride, identity, rooms, jobs>> /\ pool' \in BOOLEAN
      /\ Spoken /\ (sid = Closed => down' = <<>>)
  BY DEF HeartbeatExpires, server, Spoken, IInv, TypeOK
<1> QED BY <1>1, StandingStill

-----------------------------------------------------------------------------
(* The page's socket.                                                      *)

\* What is left alone, by a step of the socket or of the page.
LEMMA PageStep ==
  ASSUME IInv, UNCHANGED store,
         identity' \subseteq 1..MaxSockets, rooms' \subseteq Ride,
         opened' \in 0..MaxSockets, sid' \in {Closed, opened'},
         sid' = Closed => rooms' = {} /\ down' = <<>> /\ ~page'.up,
         down' \in Seq(Message), \A m \in Contents(down') : m \in Contents(down),
         \A k \in jobs' : k \in jobs \/ (k \in Greenlet /\ Sound(k)),
         page' \in Page, page'.confirmed => Real(page'.current),
         clicks' \in 0..MaxToggles, TroubleOK'
  PROVE  IInv'
<1>1. ride' = ride /\ pool' = pool
  BY DEF store
<1>2. \A r : Real(r)' <=> Real(r)
  BY <1>1 DEF Real
<1>3. \A m : True(m)' <=> True(m)
  BY <1>2 DEF True
<1>4. \A k : Sound(k)' <=> Sound(k)
  BY <1>2, <1>3 DEF Sound, At
<1>5. TypeOK'
  BY <1>1 DEF IInv, TypeOK, TroubleOK
<1>6. /\ \A k \in jobs' : Sound(k)'
      /\ \A m \in Contents(down') : True(m)'
  BY <1>3, <1>4 DEF IInv, EverythingToldIsTrue
<1>7. page'.confirmed => Real(page.current)'
  BY <1>1 DEF Real
<1>8. EverythingToldIsTrue'
  BY <1>6, <1>7 DEF EverythingToldIsTrue, Contents
<1> QED BY <1>5, <1>8 DEF IInv

LEMMA NewJobs ==
  ASSUME NEW s \in 1..MaxSockets, NEW r \in Ride \cup {NoRide},
         NEW ev \in {"connect", "disconnect", "driver_online", "driver_offline",
                     "driver_heartbeat", "accept", "reject", "payment_collected"},
         ev \in {"accept", "reject", "payment_collected"} => r \in Ride
  PROVE  Job(ev, s, "start", r) \in Greenlet /\ Sound(Job(ev, s, "start", r))
<1> DEFINE k == Job(ev, s, "start", r)
<1>1. /\ k \in Greenlet /\ k.ev = ev /\ k.sid = s /\ k.at = "start" /\ k.ride = r
      /\ k.out.ev = "connect"
  <2>1. Connected \in Message /\ Connected.ev = "connect"
    BY DEF Connected, Msg, Message, Says
  <2>2. s \in 0..MaxSockets
    BY BoundsAssumption
  <2> QED BY <2>1, <2>2 DEF Job, Greenlet, Event
<1>2. s # Closed
  BY BoundsAssumption DEF Closed
<1> HIDE DEF k
<1>3. Sound(k)
  BY <1>1, <1>2 DEF Sound, True, Telling, At
<1> QED BY <1>1, <1>3 DEF k

LEMMA ConnectKeeps ==
  ASSUME IInv, Connect, UNCHANGED trouble
  PROVE  IInv'
<1>1. opened' \in 1..MaxSockets /\ sid' = opened' /\ sid' # Closed
  BY BoundsAssumption DEF Connect, IInv, TypeOK, Closed
<1>2. \A k \in jobs' : k \in jobs \/ (k \in Greenlet /\ Sound(k))
  BY <1>1, NewJobs DEF Connect
<1>3. /\ UNCHANGED store /\ identity' \subseteq 1..MaxSockets /\ rooms' \subseteq Ride
      /\ down' \in Seq(Message) /\ down' = down /\ page' \in Page
      /\ page'.confirmed => Real(page'.current)
      /\ clicks' \in 0..MaxToggles /\ TroubleOK'
  BY <1>1 DEF Connect, trouble, TroubleOK, IInv, TypeOK, EverythingToldIsTrue
<1> QED BY <1>1, <1>2, <1>3, BoundsAssumption, PageStep

LEMMA AsleepOrFresh ==
  ASSUME IInv, NEW p \in {Asleep(page), FreshPage}
  PROVE  p \in Page /\ ~p.up /\ (p.confirmed => Real(p.current))
<1>1. page \in Page /\ (page.confirmed => Real(page.current))
  BY DEF IInv, TypeOK, EverythingToldIsTrue
<1>2. /\ Asleep(page) \in Page /\ ~Asleep(page).up
      /\ Asleep(page).confirmed = page.confirmed /\ Asleep(page).current = page.current
  BY <1>1 DEF Asleep, Page
<1>3. FreshPage \in Page /\ ~FreshPage.up /\ ~FreshPage.confirmed
  BY DEF FreshPage, Page
<1> HIDE DEF IInv
<1> QED BY <1>1, <1>2, <1>3

LEMMA DropKeeps ==
  ASSUME IInv, Drop
  PROVE  IInv'
<1>1. sid \in 1..MaxSockets
  BY BoundsAssumption DEF Drop, IInv, TypeOK, Closed
<1>2. \A k \in jobs' : k \in jobs \/ (k \in Greenlet /\ Sound(k))
  BY <1>1, NewJobs DEF Drop
<1>3. page' \in Page /\ ~page'.up /\ (page'.confirmed => Real(page'.current))
  BY AsleepOrFresh DEF Drop
<1>4. sid' = Closed /\ rooms' = {} /\ down' = <<>> /\ Contents(down') = {}
  BY DEF Drop, Close, Contents
<1>5. /\ UNCHANGED store /\ identity' \subseteq 1..MaxSockets /\ opened' \in 0..MaxSockets
      /\ clicks' \in 0..MaxToggles /\ TroubleOK'
  BY <1>4 DEF Drop, Close, TroubleOK, IInv, TypeOK
<1> QED BY <1>2, <1>3, <1>4, <1>5, PageStep

LEMMA RestartKeeps ==
  ASSUME IInv, Restart
  PROVE  IInv'
<1>1. page' \in Page /\ ~page'.up /\ (page'.confirmed => Real(page'.current))
  BY AsleepOrFresh DEF Restart
<1>2. sid' = Closed /\ rooms' = {} /\ down' = <<>> /\ Contents(down') = {} /\ jobs' = {}
  BY DEF Restart, Close, Contents
<1>3. /\ UNCHANGED store /\ identity' = {} /\ opened' \in 0..MaxSockets
      /\ clicks' \in 0..MaxToggles /\ TroubleOK'
  BY BoundsAssumption DEF Restart, Close, Fault, TroubleOK, IInv, TypeOK
<1> QED BY <1>1, <1>2, <1>3, PageStep

-----------------------------------------------------------------------------
(* What the page hears, and what it does.                                  *)

LEMMA EmittingKeeps ==
  ASSUME IInv, sid # Closed, NEW r \in Ride \cup {NoRide},
         NEW ev \in {"driver_online", "driver_offline", "driver_heartbeat",
                     "accept", "reject", "payment_collected"},
         ev \in {"accept", "reject", "payment_collected"} => r \in Ride,
         Emits(ev, r)
  PROVE  \A k \in jobs' : k \in jobs \/ (k \in Greenlet /\ Sound(k))
<1>1. sid \in 1..MaxSockets
  BY BoundsAssumption DEF IInv, TypeOK, Closed
<1>2. Job(ev, sid, "start", r) \in Greenlet /\ Sound(Job(ev, sid, "start", r))
  BY <1>1, NewJobs
<1> QED BY <1>2 DEF Emits

LEMMA AskingKeeps ==
  ASSUME IInv, sid # Closed, NEW b, GoesOnlineIf(b)
  PROVE  \A k \in jobs' : k \in jobs \/ (k \in Greenlet /\ Sound(k))
<1>1. CASE Emits("driver_online", NoRide)
  BY <1>1, EmittingKeeps
<1>2. CASE Quiet
  BY <1>2 DEF Quiet
<1> QED BY <1>1, <1>2 DEF GoesOnlineIf

LEMMA Resetting ==
  ASSUME NEW p \in Page, NEW hidden
  PROVE  Reset(p, hidden) \in Page /\ ~Reset(p, hidden).confirmed
BY DEF Reset, Page, NoRide

\* Hearing a message: only two of them tell the page of a trip, and they are so.
LEMMA HearKeeps ==
  ASSUME IInv, Hear, UNCHANGED trouble
  PROVE  IInv'
<1> DEFINE P == page' \in Page /\ (page'.confirmed => Real(page'.current))
           J == \A k \in jobs' : k \in jobs \/ (k \in Greenlet /\ Sound(k))
<1>1. down # <<>> /\ down' = Tail(down)
  BY DEF Hear, Hears, OnConnect, OnDriverStatus, OnDriverRequest, OnRideAssigned,
         OnOfferGone, OnRideProgress, OnRideState, OnPaymentFailed, OnEarningsUpdate
<1>2. /\ Heard \in Message /\ True(Heard)
      /\ down' \in Seq(Message) /\ \A m \in Contents(down') : m \in Contents(down)
  BY <1>1, ContentsOfTail DEF Heard, IInv, TypeOK, EverythingToldIsTrue
<1>3. sid # Closed
  BY <1>1 DEF IInv, TypeOK
<1>4. page \in Page /\ (page.confirmed => Real(page.current))
  BY DEF IInv, TypeOK, EverythingToldIsTrue
<1>5. Quiet => J
  BY DEF Quiet
<1>6. P /\ J
  <2>1. CASE OnConnect
    <3>1. page' = [page EXCEPT !.up = TRUE] /\ GoesOnlineIf(TRUE)
      BY <2>1 DEF OnConnect
    <3>2. /\ page' \in Page /\ page'.confirmed = page.confirmed
          /\ page'.current = page.current
      BY <1>4, <3>1 DEF Page
    <3>3. P
      BY <1>4, <3>2
    <3> QED BY <1>3, <3>1, <3>3, AskingKeeps
  <2>2. CASE OnDriverStatus
    <3>1. PICK on \in BOOLEAN, beating \in BOOLEAN :
            page' = [page EXCEPT !.on = on, !.beating = beating]
      BY <1>4, <2>2 DEF OnDriverStatus, Page
    <3>2. /\ page' \in Page /\ page'.confirmed = page.confirmed
          /\ page'.current = page.current
      BY <1>4, <3>1 DEF Page
    <3>3. P
      BY <1>4, <3>2
    <3> QED BY <1>3, <2>2, <3>3, AskingKeeps DEF OnDriverStatus
  <2>3. CASE OnDriverRequest
    <3>1. CASE page.confirmed
      BY <1>4, <1>5, <2>3, <3>1 DEF OnDriverRequest
    <3>2. CASE ~page.confirmed
      <4>1. page' = [page EXCEPT !.current = Heard.ride, !.buttons = @ \cup {"offer"}]
        BY <2>3, <3>2 DEF OnDriverRequest
      <4>2. page' \in Page /\ page'.confirmed = page.confirmed
        BY <1>2, <1>4, <4>1 DEF Page, Message
      <4> QED BY <1>5, <2>3, <3>2, <4>2 DEF OnDriverRequest
    <3> QED BY <3>1, <3>2
  <2>4. CASE OnRideAssigned
    <3>1. /\ page' = [page EXCEPT !.confirmed = @ \/ page.current = Heard.ride]
          /\ Heard.ev = "ride_assigned" /\ Quiet
      BY <2>4 DEF OnRideAssigned, Hears, Heard
    <3>2. Real(Heard.ride)
      BY <1>2, <3>1 DEF True, Telling
    <3>3. /\ page' \in Page /\ page'.current = page.current
          /\ page'.confirmed => page.confirmed \/ page.current = Heard.ride
      BY <1>4, <3>1 DEF Page
    <3> QED BY <1>4, <1>5, <3>1, <3>2, <3>3
  <2>5. CASE OnOfferGone
    <3>1. page' = page \/ page' = Reset(page, {"offer"})
      BY <2>5 DEF OnOfferGone
    <3> QED BY <1>4, <1>5, <2>5, <3>1, Resetting DEF OnOfferGone
  <2>6. CASE OnRideProgress
    <3>1. page' = [page EXCEPT !.buttons = @ \cup {"pay"}]
      BY <2>6 DEF OnRideProgress
    <3>2. /\ page' \in Page /\ page'.confirmed = page.confirmed
          /\ page'.current = page.current
      BY <1>4, <3>1 DEF Page
    <3> QED BY <1>4, <1>5, <2>6, <3>2 DEF OnRideProgress
  <2>7. CASE OnRideState
    <3>1. PICK more \in SUBSET {"pay"} :
            page' = [page EXCEPT !.current = Heard.ride, !.confirmed = TRUE,
                                 !.buttons = (page.buttons \ {"offer"}) \cup more]
      BY <1>4, <2>7 DEF OnRideState, Page
    <3>2. Real(Heard.ride)
      BY <1>2, <2>7 DEF OnRideState, Hears, Heard, True, Telling
    <3>3. page' \in Page /\ page'.current = Heard.ride
      BY <1>4, <3>1, <3>2 DEF Page, Real
    <3> QED BY <1>5, <2>7, <3>2, <3>3 DEF OnRideState
  <2>8. CASE OnPaymentFailed
    <3>1. page' = [page EXCEPT !.buttons = @ \cup {"pay"}] \/ page' = Reset(page, {"pay"})
      BY <2>8 DEF OnPaymentFailed
    <3>2. CASE page' = [page EXCEPT !.buttons = @ \cup {"pay"}]
      <4>1. /\ page' \in Page /\ page'.confirmed = page.confirmed
            /\ page'.current = page.current
        BY <1>4, <3>2 DEF Page
      <4> QED BY <1>4, <1>5, <2>8, <4>1 DEF OnPaymentFailed
    <3>3. CASE page' = Reset(page, {"pay"})
      BY <1>4, <1>5, <2>8, <3>3, Resetting DEF OnPaymentFailed
    <3> QED BY <3>1, <3>2, <3>3
  <2>9. CASE OnEarningsUpdate
    <3>1. page' = page \/ page' = Reset(page, {"pay"})
      BY <2>9 DEF OnEarningsUpdate
    <3> QED BY <1>4, <1>5, <2>9, <3>1, Resetting DEF OnEarningsUpdate
  <2> QED BY <2>1, <2>2, <2>3, <2>4, <2>5, <2>6, <2>7, <2>8, <2>9 DEF Hear
<1>7. /\ UNCHANGED store /\ identity' \subseteq 1..MaxSockets /\ rooms' \subseteq Ride
      /\ opened' \in 0..MaxSockets /\ sid' \in {Closed, opened'} /\ sid' # Closed
      /\ clicks' \in 0..MaxToggles /\ TroubleOK'
  BY <1>3 DEF Hear, link, trouble, TroubleOK, IInv, TypeOK
<1> QED BY <1>2, <1>6, <1>7, PageStep

LEMMA ActKeeps ==
  ASSUME IInv, Act, UNCHANGED trouble
  PROVE  IInv'
<1> DEFINE P == page' \in Page /\ (page'.confirmed => Real(page'.current))
           J == \A k \in jobs' : k \in jobs \/ (k \in Greenlet /\ Sound(k))
<1>1. sid # Closed
  BY DEF Act, IInv, EverythingToldIsTrue
<1>2. page \in Page /\ (page.confirmed => Real(page.current))
  BY DEF IInv, TypeOK, EverythingToldIsTrue
<1>3. P /\ J
  <2>1. CASE SwitchOn
    <3>1. page' = [page EXCEPT !.on = TRUE] /\ Emits("driver_online", NoRide)
      BY <2>1 DEF SwitchOn
    <3>2. /\ page' \in Page /\ page'.confirmed = page.confirmed
          /\ page'.current = page.current
      BY <1>2, <3>1 DEF Page
    <3> QED BY <1>1, <1>2, <3>1, <3>2, EmittingKeeps
  <2>2. CASE SwitchOff
    <3> DEFINE p == [page EXCEPT !.on = FALSE, !.beating = FALSE]
    <3>1. /\ page' = p \/ page' = Reset(p, {"offer", "pay"})
          /\ Emits("driver_offline", NoRide)
      BY <2>2 DEF SwitchOff
    <3>2. p \in Page /\ p.confirmed = page.confirmed /\ p.current = page.current
      BY <1>2 DEF Page
    <3> HIDE DEF p
    <3>3. P
      BY <1>2, <3>1, <3>2, Resetting
    <3> QED BY <1>1, <3>1, <3>3, EmittingKeeps
  <2>3. CASE AcceptRide
    <3>1. /\ page' = [page EXCEPT !.buttons = @ \ {"offer"}]
          /\ Emits("accept", page.current) /\ page.current # NoRide
      BY <2>3 DEF AcceptRide
    <3>2. /\ page' \in Page /\ page'.confirmed = page.confirmed
          /\ page'.current = page.current /\ page.current \in Ride
      BY <1>2, <3>1 DEF Page
    <3> QED BY <1>1, <1>2, <3>1, <3>2, EmittingKeeps
  <2>4. CASE RejectRide
    <3>1. /\ page' = Reset(page, {"offer"})
          /\ Emits("reject", page.current) /\ page.current # NoRide
      BY <2>4 DEF RejectRide
    <3>2. page.current \in Ride
      BY <1>2, <3>1 DEF Page
    <3>3. P
      BY <1>2, <3>1, Resetting
    <3> QED BY <1>1, <3>1, <3>2, <3>3, EmittingKeeps
  <2>5. CASE ConfirmPayment
    <3>1. /\ page' = [page EXCEPT !.buttons = @ \ {"pay"}]
          /\ Emits("payment_collected", page.current) /\ page.current # NoRide
      BY <2>5 DEF ConfirmPayment
    <3>2. /\ page' \in Page /\ page'.confirmed = page.confirmed
          /\ page'.current = page.current /\ page.current \in Ride
      BY <1>2, <3>1 DEF Page
    <3> QED BY <1>1, <1>2, <3>1, <3>2, EmittingKeeps
  <2>6. CASE Beat
    <3>1. page' = page /\ Emits("driver_heartbeat", NoRide)
      BY <2>6 DEF Beat
    <3> QED BY <1>1, <1>2, <3>1, EmittingKeeps
  <2> QED BY <2>1, <2>2, <2>3, <2>4, <2>5, <2>6 DEF Act, Switch
<1>4. clicks' \in 0..MaxToggles
  BY BoundsAssumption DEF Act, Switch, IInv, TypeOK
<1>5. /\ UNCHANGED store /\ identity' \subseteq 1..MaxSockets /\ rooms' \subseteq Ride
      /\ opened' \in 0..MaxSockets /\ sid' \in {Closed, opened'} /\ sid' # Closed
      /\ down' = down /\ down' \in Seq(Message) /\ TroubleOK'
  BY <1>1 DEF Act, link, trouble, TroubleOK, IInv, TypeOK
<1> QED BY <1>3, <1>4, <1>5, PageStep

-----------------------------------------------------------------------------
(* The invariant.                                                          *)

LEMMA InitHolds == Init => IInv
<1> SUFFICES ASSUME Init PROVE IInv
  OBVIOUS
<1>1. down \in Seq(Message)
  BY DEF Init
<1>2. page \in Page /\ ~page.confirmed
  BY DEF Init, FreshPage, Page
<1>3. TypeOK
  BY <1>1, <1>2, BoundsAssumption DEF Init, TypeOK, Closed
<1>4. EverythingToldIsTrue
  BY <1>2 DEF Init, EverythingToldIsTrue, Contents, Closed
<1> QED BY <1>3, <1>4 DEF IInv

LEMMA StutterHolds ==
  ASSUME IInv, UNCHANGED vars
  PROVE  IInv'
<1>1. /\ UNCHANGED <<ride, pool, identity, rooms, jobs, down>>
      /\ UNCHANGED <<link, page, clicks>> /\ TroubleOK'
  BY DEF vars, store, server, link, trouble, TroubleOK, IInv, TypeOK
<1>2. pool' \in BOOLEAN /\ Spoken /\ (sid = Closed => down' = <<>>)
  BY <1>1 DEF Spoken, IInv, TypeOK
<1> QED BY <1>1, <1>2, StandingStill

LEMMA StepHolds == IInv /\ [Next]_vars => IInv'
<1> SUFFICES ASSUME IInv, [Next]_vars PROVE IInv'
  OBVIOUS
<1>1. CASE Works /\ UNCHANGED trouble
  <2>0. UNCHANGED link => TroubleOK'
    BY <1>1 DEF trouble, link, TroubleOK, IInv, TypeOK
  <2>1. ASSUME NEW j \in jobs, Serve(j), UNCHANGED <<link, page, clicks>> PROVE IInv'
    BY <2>0, <2>1, ServeKeeps
  <2>2. ASSUME NEW r \in Ride, MakeOffer(r) \/ ExpireOffer(r) \/ CompleteRide(r),
               UNCHANGED <<link, down, page, clicks>>
        PROVE  IInv'
    BY <2>0, <2>2, OffersAndTripsKeep
  <2>3. CASE HeartbeatExpires /\ UNCHANGED <<link, down, page, clicks>>
    BY <2>0, <2>3, HeartbeatExpiresKeeps
  <2>4. CASE Connect
    BY <1>1, <2>4, ConnectKeeps
  <2>5. CASE Hear \/ Act
    BY <1>1, <2>5, HearKeeps, ActKeeps
  <2> QED BY <1>1, <2>1, <2>2, <2>3, <2>4, <2>5 DEF Works
<1>2. CASE Drop \/ Restart
  BY <1>2, DropKeeps, RestartKeeps
<1>3. ASSUME NEW j \in jobs, Fails(j), UNCHANGED <<link, page, clicks>> PROVE IInv'
  BY <1>3, FailsKeep
<1>4. CASE UNCHANGED vars
  BY <1>4, StutterHolds
<1> QED BY <1>1, <1>2, <1>3, <1>4 DEF Next

\* handlers.py:327-459, driver.html:183-213: whatever the page and the handlers
\* do, in whatever order, the state keeps its types and what is told is so.
THEOREM Invariance == Spec => []IInv
BY InitHolds, StepHolds, PTL DEF Spec

\* The state keeps its types.
THEOREM TypeCorrect == Spec => []TypeOK
<1>1. IInv => TypeOK
  BY DEF IInv
<1> QED BY <1>1, Invariance, PTL

\* driver.html:360-377: the page says that a trip is the driver's only when
\* Postgres does: never on the strength of the click, of an offer that has run
\* out, or of what an earlier socket was told.
THEOREM ConfirmedAreReal == Spec => []ConfirmedTripsAreReal
<1>1. IInv => ConfirmedTripsAreReal
  BY DEF IInv, EverythingToldIsTrue, ConfirmedTripsAreReal, Real
<1> QED BY <1>1, Invariance, PTL

-----------------------------------------------------------------------------
(* A connected page is in the room of the trip it shows.  What the socket  *)
(* joins is never left but by its payment; what remains is the way a trip  *)
(* takes to the page: the two messages that tell of it, and the connect    *)
(* that finds the page already knowing it.                                 *)

HeardRides == {r \in Ride : r \in rooms \/ ride[r] = "paid"}

PageHears == page.confirmed => page.current \in HeardRides \/ NotRestored

MoreFailed == failed \subseteq failed'

\* Messages that tell of a trip tell of one the page hears of, and the page is
\* not told that it is connected before it knows a trip it hears of, or none.
Announced(s, heard, ok) ==
  \A i \in DOMAIN s :
    /\ s[i].ev \in Telling => s[i].ride \in heard
    /\ s[i].ev = "connect" => ok \/ \E k \in 1 .. i - 1 : s[k].ev = "ride_state"

\* A connect that has found no open ride leaves a page that shows a paid one.
Informed(j) ==
  /\ j.sid <= opened
  /\ At(j, "payment_collected", "enter") => ride[j.ride] = "paid"
  /\ j.ev \in {"driver_room", "ride_room"} => j.out.ev \notin Telling \cup {"connect"}
  /\ j.ev = "connect" => j.out.ev # "ride_assigned"
  /\ j.ev = "connect" /\ Mine(j) =>
       /\ j.at = "offers" => PageHears
       /\ j.at = "restore" /\ j.out.ev # "ride_state" => PageHears

HInv ==
  /\ \A j \in jobs : Informed(j)
  /\ Announced(down, HeardRides, PageHears)
  /\ page.up => PageHears

LEMMA AppendAnnounced ==
  ASSUME NEW s \in Seq(Message), NEW t \in Seq(Message), NEW heard, NEW ok \in BOOLEAN,
         Announced(s, heard, ok), Announced(t, heard, ok)
  PROVE  Announced(s \o t, heard, ok)
<1> SUFFICES ASSUME NEW i \in DOMAIN (s \o t)
             PROVE  /\ (s \o t)[i].ev \in Telling => (s \o t)[i].ride \in heard
                    /\ (s \o t)[i].ev = "connect" =>
                         ok \/ \E k \in 1 .. i - 1 : (s \o t)[k].ev = "ride_state"
  BY DEF Announced
<1>1. /\ s \o t \in Seq(Message) /\ Len(s) \in Nat /\ Len(t) \in Nat
      /\ i \in 1 .. Len(s) + Len(t)
      /\ \A k \in 1 .. Len(s) + Len(t) :
           (s \o t)[k] = IF k <= Len(s) THEN s[k] ELSE t[k - Len(s)]
  OBVIOUS
<1>2. CASE i <= Len(s)
  <2>1. i \in DOMAIN s /\ (s \o t)[i] = s[i]
    BY <1>1, <1>2
  <2>2. \A k \in 1 .. i - 1 : (s \o t)[k] = s[k]
    BY <1>1, <1>2
  <2> QED BY <2>1, <2>2 DEF Announced
<1>3. CASE i > Len(s)
  <2> DEFINE l == i - Len(s)
  <2>1. l \in DOMAIN t /\ (s \o t)[i] = t[l]
    BY <1>1, <1>3
  <2>2. \A k \in 1 .. l - 1 : k + Len(s) \in 1 .. i - 1 /\ (s \o t)[k + Len(s)] = t[k]
    BY <1>1, <1>3
  <2> HIDE DEF l
  <2> QED BY <2>1, <2>2 DEF Announced
<1> QED BY <1>1, <1>2, <1>3

LEMMA MoreAnnounced ==
  ASSUME NEW s, NEW heard, NEW more, NEW ok \in BOOLEAN, NEW so \in BOOLEAN,
         Announced(s, heard, ok), heard \subseteq more, ok => so
  PROVE  Announced(s, more, so)
BY DEF Announced

LEMMA TailAnnounced ==
  ASSUME NEW s \in Seq(Message), s # <<>>, NEW heard, NEW ok \in BOOLEAN, NEW so \in BOOLEAN,
         Announced(s, heard, ok), ok => so, Head(s).ev = "ride_state" => so
  PROVE  Announced(Tail(s), heard, so)
<1> SUFFICES ASSUME NEW i \in DOMAIN Tail(s)
             PROVE  /\ Tail(s)[i].ev \in Telling => Tail(s)[i].ride \in heard
                    /\ Tail(s)[i].ev = "connect" =>
                         so \/ \E k \in 1 .. i - 1 : Tail(s)[k].ev = "ride_state"
  BY DEF Announced
<1>1. /\ i \in 1 .. Len(s) - 1 /\ i + 1 \in DOMAIN s /\ Head(s) = s[1]
      /\ \A k \in 1 .. i : Tail(s)[k] = s[k + 1]
  OBVIOUS
<1>2. /\ s[i + 1].ev \in Telling => s[i + 1].ride \in heard
      /\ s[i + 1].ev = "connect" => ok \/ \E k \in 1 .. i : s[k].ev = "ride_state"
  BY <1>1 DEF Announced
<1>3. ASSUME NEW k \in 1 .. i, s[k].ev = "ride_state"
      PROVE  so \/ \E l \in 1 .. i - 1 : Tail(s)[l].ev = "ride_state"
  <2>1. CASE k = 1
    BY <1>1, <1>3, <2>1
  <2>2. CASE k # 1
    <3>1. k - 1 \in 1 .. i - 1 /\ Tail(s)[k - 1] = s[k]
      BY <1>1, <2>2
    <3> QED BY <1>3, <3>1
  <2> QED BY <2>1, <2>2
<1> QED BY <1>1, <1>2, <1>3

Plain(m) == m \in Message /\ m.ev \notin Telling \cup {"connect"}

LEMMA PlainAnnounced ==
  ASSUME NEW m, Plain(m), NEW heard, NEW ok
  PROVE  <<m>> \in Seq(Message) /\ Announced(<<m>>, heard, ok)
BY DEF Plain, Announced

\* What every step on one and the same socket has to show.
LEMMA SocketStep ==
  ASSUME IInv, HInv, MoreFailed, UNCHANGED <<sid, opened>>, HeardRides \subseteq HeardRides',
         \A r \in Ride : ride[r] = "paid" => ride'[r] = "paid",
         PageHears => PageHears', page'.up => PageHears',
         Announced(down', HeardRides', PageHears'),
         \A k \in jobs' : k \in jobs \/ Informed(k)'
  PROVE  HInv'
<1>1. ASSUME NEW k \in jobs PROVE Informed(k)'
  <2>1. Informed(k) /\ Sound(k)
    BY JobsKnown DEF HInv
  <2> QED BY <2>1 DEF Informed, Sound, At, Mine
<1> QED BY <1>1 DEF HInv

LEMMA BackendHears ==
  ASSUME IInv, HInv, MoreFailed, UNCHANGED <<link, page>>, HeardRides \subseteq HeardRides',
         \A r \in Ride : ride[r] = "paid" => ride'[r] = "paid",
         \/ down' = down
         \/ \E ms \in Seq(Message) :
              down' = down \o ms /\ Announced(ms, HeardRides', PageHears'),
         \A k \in jobs' : k \in jobs \/ Informed(k)'
  PROVE  HInv'
<1>1. PageHears => PageHears'
  BY DEF PageHears, NotRestored, MoreFailed
<1>2. PageHears \in BOOLEAN /\ PageHears' \in BOOLEAN
  BY DEF PageHears
<1>3. Announced(down, HeardRides', PageHears')
  BY <1>1, <1>2, MoreAnnounced DEF HInv
<1>4. Announced(down', HeardRides', PageHears')
  <2>1. ASSUME NEW ms \in Seq(Message), down' = down \o ms,
               Announced(ms, HeardRides', PageHears')
        PROVE  Announced(down', HeardRides', PageHears')
    <3>1. down \in Seq(Message)
      BY DEF IInv, TypeOK
    <3>2. Announced(down \o ms, HeardRides', PageHears')
      BY <1>2, <1>3, <2>1, <3>1, AppendAnnounced
    <3> QED BY <2>1, <3>2
  <2> QED BY <1>3, <2>1
<1>5. page'.up => PageHears'
  BY <1>1 DEF HInv
<1> QED BY <1>1, <1>4, <1>5, SocketStep DEF link

LEMMA GoingInformed ==
  ASSUME IInv, HInv, NEW j \in jobs, NEW at \in Places, Goes(j, at), UNCHANGED <<sid, opened>>,
         j.ev = "connect" => at = "ride" \/ PageHears',
         j.ev = "payment_collected" => ride'[j.ride] = "paid"
  PROVE  \A k \in jobs' : k \in jobs \/ Informed(k)'
<1> DEFINE k == [j EXCEPT !.at = at]
<1>1. j \in Greenlet /\ Informed(j)
  BY JobsKnown DEF HInv
<1>2. /\ k.ev = j.ev /\ k.sid = j.sid /\ k.ride = j.ride /\ k.out = j.out /\ k.at = at
  BY <1>1 DEF Greenlet, Places
<1>3. jobs' = (jobs \ {j}) \cup {k}
  BY DEF Goes
<1> HIDE DEF k
<1>4. Informed(k)'
  BY <1>1, <1>2 DEF Informed, At
<1> QED BY <1>3, <1>4

LEMMA HoldingInformed ==
  ASSUME IInv, HInv, NEW j \in jobs, NEW m, Holds(j, "restore", m), j.ev = "connect",
         UNCHANGED <<sid, opened>>,
         m.ev # "ride_assigned", m.ev = "ride_state" \/ PageHears'
  PROVE  \A k \in jobs' : k \in jobs \/ Informed(k)'
<1> DEFINE k == [j EXCEPT !.at = "restore", !.out = m]
<1>1. j \in Greenlet /\ Informed(j)
  BY JobsKnown DEF HInv
<1>2. k.ev = j.ev /\ k.sid = j.sid /\ k.out = m /\ k.at = "restore"
  BY <1>1 DEF Greenlet
<1>3. jobs' = (jobs \ {j}) \cup {k}
  BY DEF Holds
<1> HIDE DEF k
<1>4. Informed(k)'
  BY <1>1, <1>2 DEF Informed, At
<1> QED BY <1>3, <1>4

\* What is said tells of no trip but those the page hears of.
Tells ==
  \/ down' = down
  \/ \E ms \in Seq(Message) :
       down' = down \o ms /\ Announced(ms, HeardRides', PageHears')

LEMMA PlainTells ==
  ASSUME NEW reaches, NEW m, Plain(m), Sends(reaches, <<m>>)
  PROVE  Tells
BY PlainAnnounced DEF Sends, Tells

\* A step that changes neither a ride nor a room.
LEMMA StillHears ==
  ASSUME IInv, HInv, MoreFailed, UNCHANGED <<ride, rooms, link, page>>, Tells,
         \A k \in jobs' : k \in jobs \/ Informed(k)'
  PROVE  HInv'
BY BackendHears DEF HeardRides, Tells

LEMMA ReplyHears ==
  ASSUME IInv, HInv, NEW j \in jobs, MoreFailed, UNCHANGED <<ride, rooms, link, page>>,
         NEW m, Plain(m), Replies(j, m)
  PROVE  HInv'
<1>1. Tells
  BY PlainTells DEF Replies
<1> QED BY <1>1, StillHears DEF Replies, Ends

LEMMA ConnectingHears ==
  ASSUME IInv, HInv, NEW j \in jobs, UNCHANGED <<link, page, clicks>>, MoreFailed,
         Register(j) \/ ReadRide(j) \/ ReadOffer(j)
  PROVE  HInv'
<1>0. UNCHANGED <<ride, rooms, sid, opened>> /\ j.ev = "connect" /\ HeardRides' = HeardRides
  BY DEF Register, ReadRide, ReadOffer, store, link, At, HeardRides
<1>1. Silent => Tells
  BY DEF Silent, Tells
<1>2. CASE Register(j)
  <2>1. \A k \in jobs' : k \in jobs \/ Informed(k)'
    BY <1>0, <1>2, GoingInformed DEF Register, Places
  <2> QED BY <1>0, <1>1, <1>2, <2>1, StillHears DEF Register
<1>3. ASSUME NEW r \in Ride, Holds(j, "restore", Msg("ride_state", r, ride[r])), Silent
      PROVE  HInv'
  <2>1. \A k \in jobs' : k \in jobs \/ Informed(k)'
    BY <1>0, <1>3, HoldingInformed DEF Msg
  <2> QED BY <1>0, <1>1, <1>3, <2>1, StillHears
<1>4. CASE (\A r \in Ride : ~Open(r)) /\ Goes(j, "offers") /\ Silent
  <2>1. PageHears'
    <3>1. page.confirmed => Real(page.current)
      BY DEF IInv, EverythingToldIsTrue
    <3> QED BY <1>0, <1>4, <3>1 DEF PageHears, HeardRides, Real, Open
  <2>2. \A k \in jobs' : k \in jobs \/ Informed(k)'
    BY <1>0, <1>4, <2>1, GoingInformed DEF Places
  <2> QED BY <1>0, <1>1, <1>4, <2>2, StillHears
<1>5. CASE ReadOffer(j)
  <2>1. Mine(j) => PageHears'
    BY <1>0, <1>5 DEF ReadOffer, At, HInv, Informed, PageHears, NotRestored, MoreFailed
  <2>2. CASE Replies(j, Connected)
    <3>1. /\ <<Connected>> \in Seq(Message)
          /\ Mine(j) => Announced(<<Connected>>, HeardRides', PageHears')
      <4>1. Connected \in Message /\ Connected.ev = "connect"
        BY DEF Connected, Msg, Message, Says
      <4> QED BY <2>1, <4>1 DEF Announced, Telling
    <3>2. Tells
      BY <2>2, <3>1 DEF Replies, Sends, Tells
    <3> QED BY <1>0, <2>2, <3>2, StillHears DEF Replies, Ends
  <2>3. ASSUME NEW r \in Offered, Holds(j, "restore", Msg("driver_request", r, "")), Silent
        PROVE  HInv'
    <3> DEFINE k == [j EXCEPT !.at = "restore", !.out = Msg("driver_request", r, "")]
    <3>1. j \in Greenlet /\ Informed(j)
      BY JobsKnown DEF HInv
    <3>2. /\ k.ev = j.ev /\ k.sid = j.sid /\ k.at = "restore"
          /\ k.out.ev = "driver_request"
      BY <3>1 DEF Greenlet, Msg
    <3>3. jobs' = (jobs \ {j}) \cup {k}
      BY <2>3 DEF Holds
    <3> HIDE DEF k
    <3>4. Informed(k)'
      BY <1>0, <2>1, <3>1, <3>2 DEF Informed, At, Mine
    <3> QED BY <1>0, <1>1, <2>3, <3>3, <3>4, StillHears
  <2> QED BY <1>5, <2>2, <2>3 DEF ReadOffer
<1> QED BY <1>2, <1>3, <1>4, <1>5 DEF ReadRide

LEMMA RestoreHears ==
  ASSUME IInv, HInv, NEW j \in jobs, Restore(j), UNCHANGED <<link, page, clicks>>, MoreFailed
  PROVE  HInv'
<1>1. /\ UNCHANGED <<ride, sid, opened>> /\ j.ev = "connect" /\ j.at = "restore"
      /\ jobs' = jobs \ {j}
  BY DEF Restore, store, link, At, Ends
<1>2. rooms \subseteq rooms' /\ HeardRides \subseteq HeardRides'
  BY <1>1 DEF Restore, HeardRides
<1>3. j.out \in Message /\ Connected \in Message /\ Connected.ev = "connect" /\ True(j.out)
  BY JobsKnown DEF Sound, Connected, Msg, Message, Says
<1>4. ASSUME Mine(j) PROVE Announced(<<j.out, Connected>>, HeardRides', PageHears')
  <2>1. CASE j.out.ev = "ride_state"
    <3>1. j.out.ride \in HeardRides'
      BY <1>3, <1>4, <2>1 DEF Restore, HeardRides, True, Telling, Real
    <3> QED BY <1>3, <2>1, <3>1 DEF Announced, Telling
  <2>2. CASE j.out.ev # "ride_state"
    <3>1. PageHears'
      BY <1>1, <1>2, <1>4, <2>2 DEF HInv, Informed, PageHears, NotRestored, MoreFailed
    <3>2. j.out.ev # "ride_assigned"
      BY <1>1 DEF HInv, Informed
    <3> QED BY <1>3, <2>2, <3>1, <3>2 DEF Announced, Telling
  <2> QED BY <2>1, <2>2
<1>5. Tells
  <2>1. <<j.out, Connected>> \in Seq(Message)
    BY <1>3
  <2>2. Sends(Mine(j), <<j.out, Connected>>)
    BY DEF Restore
  <2> QED BY <1>4, <2>1, <2>2 DEF Sends, Tells
<1> QED BY <1>1, <1>2, <1>5, BackendHears DEF Tells

LEMMA DisconnectHears ==
  ASSUME IInv, HInv, NEW j \in jobs, Disconnect(j), UNCHANGED <<link, page, clicks>>, MoreFailed
  PROVE  HInv'
<1> DEFINE k == [j EXCEPT !.at = "remove"]
<1>1. /\ UNCHANGED <<ride, rooms, sid, opened>> /\ j.ev = "disconnect" /\ Tells
      /\ jobs' \subseteq jobs \cup {k}
  BY DEF Disconnect, store, link, At, Silent, Tells
<1>2. j \in Greenlet /\ Informed(j)
  BY JobsKnown DEF HInv
<1>3. k.ev = j.ev /\ k.sid = j.sid /\ k.at = "remove"
  BY <1>2 DEF Greenlet
<1> HIDE DEF k
<1>4. Informed(k)'
  BY <1>1, <1>2, <1>3 DEF Informed, At
<1> QED BY <1>1, <1>4, StillHears

\* driver_online, driver_offline as far as the pool, driver_heartbeat.
LEMMA SwitchingHears ==
  ASSUME IInv, HInv, NEW j \in jobs, UNCHANGED <<link, page, clicks>>, MoreFailed,
         \/ RemoveDriver(j) \/ GoOnline(j) \/ EnterPool(j) \/ TellOnline(j)
         \/ GoOffline(j) \/ TellOffline(j) \/ Heartbeat(j)
  PROVE  HInv'
<1>1. /\ UNCHANGED <<ride, rooms, sid, opened>>
      /\ j.ev \in {"disconnect", "driver_online", "driver_offline", "driver_heartbeat"}
  BY DEF RemoveDriver, GoOnline, EnterPool, TellOnline, GoOffline, TellOffline, Heartbeat,
         store, link, At
<1>2. CASE Ends(j) /\ Silent
  BY <1>1, <1>2, StillHears DEF Ends, Silent, Tells
<1>3. ASSUME NEW at \in Places, Goes(j, at), Silent PROVE HInv'
  BY <1>1, <1>3, GoingInformed, StillHears DEF Silent, Tells
<1>4. ASSUME NEW say \in Says, Replies(j, Status(say)) PROVE HInv'
  <2>1. Plain(Status(say))
    BY DEF Plain, Status, Msg, Message, Telling
  <2> QED BY <1>1, <1>4, <2>1, ReplyHears
<1>5. RemoveDriver(j) => Ends(j) /\ Silent
  BY DEF RemoveDriver
<1>6. EnterPool(j) \/ GoOffline(j) =>
        (Goes(j, "tell") \/ Goes(j, "decline")) /\ Silent
  BY DEF EnterPool, GoOffline
<1>7. GoOnline(j) => Replies(j, Status("active_ride")) \/ (Goes(j, "enter") /\ Silent)
  BY DEF GoOnline
<1>8. TellOnline(j) \/ TellOffline(j) \/ Heartbeat(j) =>
        \/ Replies(j, Status("online")) \/ Replies(j, Status("not_in_pool"))
        \/ Replies(j, Status("offline"))
  BY DEF TellOnline, TellOffline, Heartbeat
<1>9. /\ {"tell", "decline", "enter"} \subseteq Places
      /\ {"active_ride", "online", "offline", "not_in_pool"} \subseteq Says
  BY DEF Places, Says
<1> QED BY <1>2, <1>3, <1>4, <1>5, <1>6, <1>7, <1>8, <1>9

\* A ride changes that is not paid; the rooms stay, or grow.
LEMMA RideStepHears ==
  ASSUME IInv, HInv, MoreFailed, UNCHANGED <<link, page>>, rooms \subseteq rooms', Tells,
         \A r \in Ride : ride[r] = "paid" => ride'[r] = "paid",
         \A k \in jobs' : k \in jobs \/ Informed(k)'
  PROVE  HInv'
<1>1. HeardRides \subseteq HeardRides'
  BY DEF HeardRides
<1> QED BY <1>1, BackendHears DEF Tells

LEMMA DecliningHears ==
  ASSUME IInv, HInv, NEW j \in jobs, DeclinePending(j) \/ Reject(j),
         UNCHANGED <<link, page, clicks>>, MoreFailed
  PROVE  HInv'
<1>1. \A r \in Ride : ride[r] = "paid" => ride'[r] = "paid"
  BY JobsKnown DEF DeclinePending, Reject, Declined, At, Sound, IInv, TypeOK
<1>2. Tells /\ rooms' = rooms
  <2>1. Plain(Status("offline"))
    BY DEF Plain, Status, Msg, Message, Says, Telling
  <2>2. CASE DeclinePending(j)
    BY <2>1, <2>2, PlainTells DEF DeclinePending, Replies, Silent, Tells
  <2>3. CASE Reject(j)
    BY <2>3 DEF Reject, Silent, Tells
  <2> QED BY <2>2, <2>3 DEF DeclinePending, Reject
<1>3. \A k \in jobs' : k \in jobs \/ Informed(k)'
  <2>1. CASE Ends(j)
    BY <2>1 DEF Ends
  <2>2. CASE DeclinePending(j) /\ Goes(j, "tell")
    BY <2>2, GoingInformed DEF DeclinePending, At, Places, link
  <2> QED BY <2>1, <2>2 DEF DeclinePending, Reject, Replies
<1> QED BY <1>1, <1>2, <1>3, RideStepHears

LEMMA AcceptingHears ==
  ASSUME IInv, HInv, NEW j \in jobs, AcceptOffer(j) \/ AcceptFails(j) \/ Announces(j),
         UNCHANGED <<link, page, clicks>>, MoreFailed
  PROVE  HInv'
<1>0. j.ev = "accept" /\ j.ride \in Ride /\ UNCHANGED <<sid, opened>>
  BY JobsKnown DEF AcceptOffer, AcceptFails, Announces, At, Sound, link
<1>1. CASE AcceptOffer(j)
  <2>1. \A r \in Ride : ride[r] = "paid" => ride'[r] = "paid"
    BY <1>0, <1>1 DEF AcceptOffer, IInv, TypeOK
  <2>2. Tells /\ rooms \subseteq rooms' /\ (Goes(j, "assign") \/ Ends(j))
    BY <1>1 DEF AcceptOffer, Silent, Tells
  <2>3. \A k \in jobs' : k \in jobs \/ Informed(k)'
    BY <1>0, <2>2, GoingInformed DEF Places, Ends
  <2> QED BY <2>1, <2>2, <2>3, RideStepHears
<1>2. CASE AcceptFails(j)
  <2> DEFINE m == Msg("ride_accept_failed", j.ride, "")
  <2>1. Plain(m)
    BY <1>0 DEF Plain, Msg, Message, Says, Telling
  <2>2. Replies(j, m) /\ UNCHANGED <<ride, rooms>>
    BY <1>2 DEF AcceptFails, store
  <2> HIDE DEF m
  <2> QED BY <2>1, <2>2, ReplyHears
<1>3. CASE Announces(j)
  <2> DEFINE m == Msg("ride_assigned", j.ride, "")
  <2>1. m \in Message /\ m.ride = j.ride /\ m.ev = "ride_assigned"
    BY <1>0 DEF Msg, Message, Says
  <2>2. UNCHANGED <<ride, rooms>> /\ Ends(j) /\ Sends(j.ride \in rooms, <<m>>)
    BY <1>3 DEF Announces
  <2> HIDE DEF m
  <2>3. /\ <<m>> \in Seq(Message)
        /\ j.ride \in rooms => Announced(<<m>>, HeardRides', PageHears')
    BY <1>0, <2>1, <2>2 DEF Announced, HeardRides
  <2>4. Tells
    BY <2>2, <2>3 DEF Sends, Tells
  <2> QED BY <2>2, <2>4, StillHears DEF Ends
<1> QED BY <1>1, <1>2, <1>3

LEMMA PayingHears ==
  ASSUME IInv, HInv, NEW j \in jobs, Pay(j) \/ PaymentFails(j) \/ Thanks(j),
         UNCHANGED <<link, page, clicks>>, MoreFailed
  PROVE  HInv'
<1>0. j.ev = "payment_collected" /\ j.ride \in Ride /\ UNCHANGED <<sid, opened>>
  BY JobsKnown DEF Pay, PaymentFails, Thanks, At, Sound, link
<1>1. CASE Pay(j)
  <2>1. /\ \A r \in Ride : ride[r] = "paid" => ride'[r] = "paid"
        /\ ride'[j.ride] = "paid"
    BY <1>0, <1>1 DEF Pay, IInv, TypeOK
  <2>2. Tells /\ rooms' = rooms /\ Goes(j, "enter")
    BY <1>1 DEF Pay, Silent, Tells
  <2>3. \A k \in jobs' : k \in jobs \/ Informed(k)'
    BY <1>0, <2>1, <2>2, GoingInformed DEF Places
  <2> QED BY <2>1, <2>2, <2>3, RideStepHears
<1>2. ASSUME NEW say \in {"paid", ""}, Replies(j, Msg("payment_failed", j.ride, say)),
             UNCHANGED <<ride, rooms>>
      PROVE  HInv'
  <2> DEFINE m == Msg("payment_failed", j.ride, say)
  <2>1. Plain(m)
    BY <1>0 DEF Plain, Msg, Message, Says, Telling
  <2> HIDE DEF m
  <2>2. Replies(j, m)
    BY <1>2 DEF m
  <2> QED BY <1>2, <2>1, <2>2, ReplyHears
<1>3. CASE Thanks(j)
  <2> DEFINE m == Msg("earnings_update", j.ride, "")
             n == Status("online")
  <2>1. /\ m \in Message /\ n \in Message
        /\ m.ev \notin Telling \cup {"connect"} /\ n.ev \notin Telling \cup {"connect"}
    BY <1>0 DEF Status, Msg, Message, Says, Telling
  <2>2. UNCHANGED ride /\ Ends(j) /\ Sends(sid \in identity, <<m, n>>)
    BY <1>3 DEF Thanks, ToDriverRoom
  <2> HIDE DEF m, n
  <2>3. <<m, n>> \in Seq(Message) /\ Announced(<<m, n>>, HeardRides', PageHears')
    BY <2>1 DEF Announced
  <2>4. Tells
    BY <2>2, <2>3 DEF Sends, Tells
  <2>5. ride[j.ride] = "paid"
    BY <1>3 DEF Thanks, HInv, Informed
  <2>6. HeardRides \subseteq HeardRides'
    BY <1>0, <1>3, <2>2, <2>5 DEF Thanks, HeardRides
  <2> QED BY <2>2, <2>4, <2>6, BackendHears DEF Ends, Tells
<1>4. PaymentFails(j) =>
        /\ UNCHANGED <<ride, rooms>>
        /\ \E say \in {"paid", ""} : Replies(j, Msg("payment_failed", j.ride, say))
  BY DEF PaymentFails, store
<1> QED BY <1>1, <1>2, <1>3, <1>4

LEMMA TellingHears ==
  ASSUME IInv, HInv, NEW j \in jobs, TellRoom(j), UNCHANGED <<link, page, clicks>>, MoreFailed
  PROVE  HInv'
<1>1. Plain(j.out)
  BY JobsKnown DEF TellRoom, HInv, Informed, Plain
<1>2. Tells
  BY <1>1, PlainTells DEF TellRoom, ToDriverRoom
<1> QED BY <1>2, StillHears DEF TellRoom, store, Ends

LEMMA ServeHears ==
  ASSUME IInv, HInv, NEW j \in jobs, Serve(j), UNCHANGED <<link, page, clicks>>, MoreFailed
  PROVE  HInv'
<1>1. CASE Register(j) \/ ReadRide(j) \/ ReadOffer(j) \/ Restore(j) \/ Disconnect(j)
  BY <1>1, ConnectingHears, RestoreHears, DisconnectHears
<1>2. CASE \/ RemoveDriver(j) \/ GoOnline(j) \/ EnterPool(j) \/ TellOnline(j)
           \/ GoOffline(j) \/ TellOffline(j) \/ Heartbeat(j)
  BY <1>2, SwitchingHears
<1>3. CASE \/ DeclinePending(j) \/ Reject(j) \/ AcceptOffer(j) \/ AcceptFails(j) \/ Assign(j)
           \/ Pay(j) \/ PaymentFails(j) \/ Reenter(j) \/ TellRoom(j)
  BY <1>3, DecliningHears, AcceptingHears, PayingHears, TellingHears DEF Assign, Reenter
<1> QED BY <1>1, <1>2, <1>3 DEF Serve

\* A connect whose restore raises excuses its page; the others that raise say
\* what they would have said, or nothing.
LEMMA FailsHear ==
  ASSUME IInv, HInv, NEW j \in jobs, Fails(j), UNCHANGED <<link, page, clicks>>
  PROVE  HInv'
<1>1. MoreFailed
  BY DEF Fails, MoreFailed
<1>2. CASE RestoreFails(j)
  <2>1. /\ UNCHANGED <<ride, rooms>> /\ j.ev = "connect" /\ Ends(j)
        /\ Sends(Mine(j), <<Connected>>)
    BY <1>2 DEF RestoreFails, store, Replies
  <2>2. Mine(j) => PageHears'
    BY <2>1 DEF Fails, NotRetried, PageHears, NotRestored
  <2>3. Connected \in Message /\ Connected.ev = "connect"
    BY DEF Connected, Msg, Message, Says
  <2>4. /\ <<Connected>> \in Seq(Message)
        /\ Mine(j) => Announced(<<Connected>>, HeardRides', PageHears')
    BY <2>2, <2>3 DEF Announced, Telling
  <2>5. Tells
    BY <2>1, <2>4 DEF Sends, Tells
  <2> QED BY <1>1, <2>1, <2>5, StillHears DEF Ends
<1>3. CASE AssignFails(j) \/ ReenterFails(j)
  BY <1>1, <1>3, AcceptingHears, PayingHears DEF AssignFails, ReenterFails
<1>4. CASE Dies(j)
  BY <1>1, <1>4, StillHears DEF Dies, Ends, Silent, Tells, store
<1> QED BY <1>2, <1>3, <1>4 DEF Fails

LEMMA OffersHear ==
  ASSUME IInv, HInv, NEW r \in Ride, MakeOffer(r) \/ ExpireOffer(r) \/ CompleteRide(r),
         UNCHANGED <<link, down, page, clicks>>, MoreFailed
  PROVE  HInv'
<1>1. ASSUME NEW room \in {"driver_room", "ride_room"}, NEW m, m.ev \notin Telling \cup {"connect"},
             Emit(room, m)
      PROVE  \A k \in jobs' : k \in jobs \/ Informed(k)'
  <2> DEFINE k == [Job(room, Closed, "tell", NoRide) EXCEPT !.out = m]
  <2>1. k.ev = room /\ k.at = "tell" /\ k.out = m /\ k.sid = 0
    BY DEF Job, Closed
  <2>2. jobs' = jobs \cup {k} /\ opened \in Nat /\ opened' = opened
    BY <1>1, BoundsAssumption DEF Emit, link, IInv, TypeOK
  <2> HIDE DEF k
  <2>3. Informed(k)'
    BY <1>1, <2>1, <2>2 DEF Informed, At
  <2> QED BY <2>2, <2>3
<1>2. \A k \in jobs' : k \in jobs \/ Informed(k)'
  BY <1>1 DEF MakeOffer, ExpireOffer, CompleteRide, Msg, Telling
<1>3. rooms' = rooms /\ Tells /\ \A q \in Ride : ride[q] = "paid" => ride'[q] = "paid"
  BY DEF MakeOffer, ExpireOffer, CompleteRide, Becomes, Tells, IInv, TypeOK
<1> QED BY <1>2, <1>3, RideStepHears

LEMMA SocketsHear ==
  ASSUME IInv, HInv, Connect \/ Drop \/ Restart
  PROVE  HInv'
<1>0. \A j \in jobs : j \in Greenlet /\ Sound(j) /\ Informed(j)
  BY JobsKnown DEF HInv
<1>1. CASE Connect
  <2> PICK n : n = Job("connect", opened + 1, "start", NoRide)
    OBVIOUS
  <2>1. /\ sid = Closed /\ ~page.up /\ down = <<>> /\ opened \in Nat
        /\ opened' = opened + 1 /\ sid' = opened + 1
        /\ UNCHANGED <<ride, rooms, down, page>>
        /\ jobs' = jobs \cup {n}
    BY <1>1, BoundsAssumption DEF Connect, store, IInv, TypeOK, EverythingToldIsTrue
  <2>2. ASSUME NEW j \in jobs PROVE Informed(j)'
    <3>1. j.sid \in Nat /\ j.sid <= opened
      BY <1>0, BoundsAssumption DEF Greenlet, Informed
    <3>2. ~Mine(j)' /\ j.sid <= opened'
      BY <2>1, <3>1 DEF Mine
    <3> QED BY <1>0, <2>1, <3>2 DEF Informed, At
  <2>3. Informed(n)'
    <3>1. /\ n.ev = "connect" /\ n.at = "start" /\ n.sid = opened'
          /\ n.out.ev = "connect"
      BY <2>1 DEF Job, Connected, Msg
    <3>2. n.sid <= opened'
      BY <2>1, <3>1
    <3> QED BY <3>1, <3>2 DEF Informed, At
  <2> QED BY <2>1, <2>2, <2>3 DEF HInv, Announced
<1>2. CASE Drop
  <2> PICK n : n = Job("disconnect", sid, "start", NoRide)
    OBVIOUS
  <2>1. /\ ~page'.up /\ sid' = Closed /\ down' = <<>> /\ UNCHANGED <<ride, opened>>
        /\ \A k \in jobs' : k \in jobs \/ k = n
    BY <1>2, AsleepOrFresh DEF Drop, Close, store
  <2>2. ASSUME NEW j \in jobs PROVE Informed(j)'
    BY <1>0, <2>1 DEF Informed, Sound, Mine, At
  <2>3. sid <= opened
    BY BoundsAssumption DEF IInv, TypeOK, Closed
  <2>4. Informed(n)'
    BY <2>1, <2>3 DEF Job, Informed, At
  <2> QED BY <2>1, <2>2, <2>4 DEF HInv, Announced
<1>3. CASE Restart
  <2>1. ~page'.up /\ jobs' = {} /\ down' = <<>>
    BY <1>3, AsleepOrFresh DEF Restart, Close
  <2> QED BY <2>1 DEF HInv, Announced
<1> QED BY <1>1, <1>2, <1>3

\* A new greenlet of the page's own socket is only at its start.
LEMMA EmittingInformed ==
  ASSUME IInv, UNCHANGED <<sid, opened>>, NEW r,
         NEW ev \in {"driver_online", "driver_offline", "driver_heartbeat",
                     "accept", "reject", "payment_collected"},
         Emits(ev, r)
  PROVE  \A k \in jobs' : k \in jobs \/ Informed(k)'
<1> PICK k : k = Job(ev, sid, "start", r)
  OBVIOUS
<1>1. k.ev = ev /\ k.sid = sid /\ k.at = "start"
  BY DEF Job
<1>2. sid <= opened /\ jobs' = jobs \cup {k}
  BY BoundsAssumption DEF Emits, IInv, TypeOK, Closed
<1>3. Informed(k)'
  BY <1>1, <1>2 DEF Informed, At
<1> QED BY <1>2, <1>3

LEMMA AskingInformed ==
  ASSUME IInv, UNCHANGED <<sid, opened>>, NEW b, GoesOnlineIf(b)
  PROVE  \A k \in jobs' : k \in jobs \/ Informed(k)'
BY EmittingInformed DEF GoesOnlineIf, Quiet

LEMMA HearHears ==
  ASSUME IInv, HInv, Hear, MoreFailed
  PROVE  HInv'
<1>1. /\ down # <<>> /\ down' = Tail(down) /\ down \in Seq(Message) /\ Heard = down[1]
      /\ UNCHANGED <<ride, rooms, sid, opened>> /\ HeardRides' = HeardRides
      /\ page \in Page /\ (NotRestored => NotRestored')
  <2>1. down # <<>> /\ down' = Tail(down)
    BY DEF Hear, Hears, OnConnect, OnDriverStatus, OnDriverRequest, OnRideAssigned,
           OnOfferGone, OnRideProgress, OnRideState, OnPaymentFailed, OnEarningsUpdate
  <2>2. down \in Seq(Message) /\ page \in Page
    BY DEF IInv, TypeOK
  <2>3. UNCHANGED <<ride, rooms, sid, opened>> /\ HeardRides' = HeardRides
    BY DEF Hear, store, link, HeardRides
  <2>4. NotRestored => NotRestored'
    BY DEF NotRestored, MoreFailed
  <2> QED BY <2>1, <2>2, <2>3, <2>4 DEF Heard
<1>2. /\ Heard.ev \in Telling => Heard.ride \in HeardRides
      /\ Heard.ev = "connect" => PageHears
  BY <1>1 DEF HInv, Announced
<1>3. /\ PageHears => PageHears'
      /\ Heard.ev = "ride_state" => PageHears'
      /\ page'.up => PageHears'
      /\ \A k \in jobs' : k \in jobs \/ Informed(k)'
  <2>1. CASE OnConnect
    <3>1. /\ Heard.ev = "connect" /\ page' = [page EXCEPT !.up = TRUE] /\ GoesOnlineIf(TRUE)
      BY <2>1 DEF OnConnect, Hears, Heard
    <3>2. page'.confirmed = page.confirmed /\ page'.current = page.current
      BY <1>1, <3>1 DEF Page
    <3>3. \A k \in jobs' : k \in jobs \/ Informed(k)'
      BY <1>1, <3>1, AskingInformed
    <3>4. PageHears /\ PageHears'
      BY <1>1, <1>2, <3>1, <3>2 DEF PageHears
    <3> QED BY <3>1, <3>3, <3>4
  <2>2. CASE OnDriverStatus
    <3>1. /\ Heard.ev = "driver_status"
          /\ GoesOnlineIf(Heard.say = "not_in_pool")
          /\ page'.confirmed = page.confirmed /\ page'.current = page.current
          /\ page'.up = page.up
      BY <1>1, <2>2 DEF OnDriverStatus, Hears, Heard, Page
    <3> QED BY <1>1, <3>1, AskingInformed DEF PageHears, HInv
  <2>3. CASE OnRideAssigned
    <3>1. /\ Heard.ev = "ride_assigned" /\ Quiet
          /\ page' = [page EXCEPT !.confirmed = @ \/ page.current = Heard.ride]
      BY <2>3 DEF OnRideAssigned, Hears, Heard
    <3>2. /\ page'.current = page.current /\ page'.up = page.up
          /\ page'.confirmed => page.confirmed \/ page.current = Heard.ride
      BY <1>1, <3>1 DEF Page
    <3>3. Heard.ride \in HeardRides
      BY <1>2, <3>1 DEF Telling
    <3> QED BY <1>1, <3>1, <3>2, <3>3 DEF PageHears, HInv, Quiet
  <2>4. CASE OnRideState
    <3>1. Heard.ev = "ride_state" /\ Quiet /\ page'.current = Heard.ride
      BY <1>1, <2>4 DEF OnRideState, Hears, Heard, Page
    <3>2. Heard.ride \in HeardRides
      BY <1>2, <3>1 DEF Telling
    <3> QED BY <1>1, <3>1, <3>2 DEF PageHears, Quiet
  <2>5. CASE \/ OnDriverRequest \/ OnOfferGone \/ OnRideProgress \/ OnPaymentFailed
             \/ OnEarningsUpdate
    <3>1. Heard.ev # "ride_state" /\ Quiet
      BY <2>5 DEF OnDriverRequest, OnOfferGone, OnRideProgress, OnPaymentFailed,
                  OnEarningsUpdate, Hears, Heard
    <3>2. /\ page'.up = page.up
          /\ page'.confirmed => page.confirmed /\ page'.current = page.current
      BY <1>1, <2>5 DEF OnDriverRequest, OnOfferGone, OnRideProgress, OnPaymentFailed,
                        OnEarningsUpdate, Reset, Page
    <3> QED BY <1>1, <3>1, <3>2 DEF PageHears, HInv, Quiet
  <2> QED BY <2>1, <2>2, <2>3, <2>4, <2>5 DEF Hear
<1>4. Announced(down', HeardRides', PageHears')
  <2>1. Announced(down, HeardRides, PageHears) /\ Heard = Head(down)
    BY DEF HInv, Heard
  <2>2. PageHears \in BOOLEAN /\ PageHears' \in BOOLEAN
    BY DEF PageHears
  <2>3. Announced(Tail(down), HeardRides, PageHears')
    BY <1>1, <1>3, <2>1, <2>2, TailAnnounced
  <2> QED BY <1>1, <2>3
<1> QED BY <1>1, <1>3, <1>4, SocketStep

LEMMA ActHears ==
  ASSUME IInv, HInv, Act, MoreFailed
  PROVE  HInv'
<1>1. /\ UNCHANGED <<ride, rooms, sid, opened, down>> /\ HeardRides' = HeardRides
      /\ page \in Page /\ (NotRestored => NotRestored')
  BY DEF Act, store, link, HeardRides, NotRestored, MoreFailed, IInv, TypeOK
<1>2. /\ page'.up = page.up
      /\ page'.confirmed => page.confirmed /\ page'.current = page.current
  BY <1>1 DEF Act, Switch, SwitchOn, SwitchOff, AcceptRide, RejectRide, ConfirmPayment,
              Beat, Reset, Page
<1>3. \E ev \in {"driver_online", "driver_offline", "driver_heartbeat",
                 "accept", "reject", "payment_collected"} :
        \E r : Emits(ev, r)
  BY DEF Act, Switch, SwitchOn, SwitchOff, AcceptRide, RejectRide, ConfirmPayment, Beat
<1>4. \A k \in jobs' : k \in jobs \/ Informed(k)'
  BY <1>1, <1>3, EmittingInformed
<1>5. PageHears => PageHears'
  BY <1>1, <1>2 DEF PageHears
<1>6. Announced(down', HeardRides', PageHears')
  <2>1. PageHears \in BOOLEAN /\ PageHears' \in BOOLEAN
    BY DEF PageHears
  <2> QED BY <1>1, <1>5, <2>1, MoreAnnounced DEF HInv
<1> QED BY <1>1, <1>2, <1>4, <1>5, <1>6, SocketStep DEF HInv

\* handlers.py:336-346, :371-374, :496, driver.html:341-377: a connected page
\* that shows a trip as the driver's is in the room of its ride, until the ride
\* is paid: after any drop, reload or restart, whichever handlers of earlier
\* sockets are still under way.  Any calls may raise; only a page whose own
\* connect could not be restored may be left outside the room.
THEOREM ConfirmedAreHeard == Spec => []ConfirmedTripsAreHeard
<1>1. Init => HInv
  BY DEF Init, HInv, Announced, FreshPage, PageHears
<1>2. ASSUME IInv, HInv, [Next]_vars PROVE HInv'
  <2>1. CASE Works /\ UNCHANGED trouble
    <3>0. MoreFailed
      BY <2>1 DEF trouble, MoreFailed
    <3>1. ASSUME NEW j \in jobs, Serve(j), UNCHANGED <<link, page, clicks>> PROVE HInv'
      BY <1>2, <3>0, <3>1, ServeHears
    <3>2. ASSUME NEW r \in Ride, MakeOffer(r) \/ ExpireOffer(r) \/ CompleteRide(r),
                 UNCHANGED <<link, down, page, clicks>>
          PROVE  HInv'
      BY <1>2, <3>0, <3>2, OffersHear
    <3>3. CASE HeartbeatExpires /\ UNCHANGED <<link, down, page, clicks>>
      BY <1>2, <3>0, <3>3, StillHears DEF HeartbeatExpires, server, Tells
    <3>4. CASE Connect
      BY <1>2, <3>4, SocketsHear
    <3>5. CASE Hear \/ Act
      BY <1>2, <3>0, <3>5, HearHears, ActHears
    <3> QED BY <2>1, <3>1, <3>2, <3>3, <3>4, <3>5 DEF Works
  <2>2. CASE Drop \/ Restart
    BY <1>2, <2>2, SocketsHear
  <2>3. ASSUME NEW j \in jobs, Fails(j), UNCHANGED <<link, page, clicks>> PROVE HInv'
    BY <1>2, <2>3, FailsHear
  <2>4. CASE UNCHANGED vars
    BY <1>2, <2>4, StillHears DEF vars, store, server, trouble, MoreFailed, Tells
  <2> QED BY <1>2, <2>1, <2>2, <2>3, <2>4 DEF Next
<1>3. IInv /\ HInv => ConfirmedTripsAreHeard
  BY DEF HInv, PageHears, HeardRides, ConfirmedTripsAreHeard
<1> QED BY <1>1, <1>2, <1>3, Invariance, PTL DEF Spec
=============================================================================
