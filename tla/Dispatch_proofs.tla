-------------------------- MODULE Dispatch_proofs --------------------------
(***************************************************************************)
(* Proofs about Dispatch, for any number of drivers, rides and greenlets.  *)
(***************************************************************************)
EXTENDS Dispatch, TLAPS

-----------------------------------------------------------------------------
(* The inductive invariant.  Types alone are not inductive: what a worker  *)
(* will write depends on what its step has already read.                   *)

RidesOK ==
  \A r \in Request :
    ride[r].status \in {"accepted", "completed", "paid"} => ride[r].driver \in Driver

\* The phases of _offer_to_next_driver.
Searches == {"check", "offers", "exclude", "reserved", "search", "offer", "cancel"}

WorkersOK ==
  \A w \in Worker :
    /\ job[w].pc \in Searches \cup {"declining"} => job[w].ride \in Request
    /\ job[w].pc \in {"offer", "accepted", "entering", "leaving", "declining"}
       => job[w].driver \in Driver
    /\ job[w].pc = "offer" => job[w].tries < MAX_OFFER_ATTEMPTS

PassOK == pass.phase = "due" => pass.todo \subseteq Request \X Driver

IInv == TypeOK /\ RidesOK /\ WorkersOK /\ PassOK /\ OneUnansweredOffer

-----------------------------------------------------------------------------
(* What the parts of a step preserve.                                      *)

JobsOK == job \in [Worker -> Task] /\ WorkersOK
TablesOK ==
  /\ ride \in [Request -> Ride] /\ offer \in [Request \X Driver -> OfferStatus]
  /\ turnedDown \in [Request -> SUBSET Driver]
  /\ timers \subseteq Request \X Driver
  /\ RidesOK /\ OneUnansweredOffer
PassTypeOK ==
  /\ pass \in [phase : {"asleep", "due", "stale", "unoffered"},
               todo : SUBSET (Request \X (Driver \cup {Null}))]
  /\ PassOK

LEMMA Parts ==
  IInv <=> /\ JobsOK /\ TablesOK /\ PassTypeOK
           /\ pool \subseteq Driver /\ faults \in 0 .. MaxFaults
  BY DEF IInv, TypeOK, JobsOK, TablesOK, PassTypeOK

LEMMA PartsPrimed ==
  ASSUME JobsOK', TablesOK', PassTypeOK', pool' \subseteq Driver, faults' \in 0 .. MaxFaults
  PROVE  IInv'
  BY DEF IInv, TypeOK, JobsOK, TablesOK, PassTypeOK

\* A task that a worker may be given.
GoodTask(t) ==
  /\ t \in Task
  /\ t.pc \in Searches \cup {"declining"} => t.ride \in Request
  /\ t.pc \in {"offer", "accepted", "entering", "leaving", "declining"} => t.driver \in Driver
  /\ t.pc = "offer" => t.tries < MAX_OFFER_ATTEMPTS

LEMMA GoodTasks == JobsOK <=> job \in [Worker -> Task] /\ \A w \in Worker : GoodTask(job[w])
  BY DEF JobsOK, WorkersOK, GoodTask

LEMMA GiveTask ==
  ASSUME JobsOK, NEW w \in Worker, NEW t, GoodTask(t), job' = [job EXCEPT ![w] = t]
  PROVE  JobsOK'
  BY DEF JobsOK, WorkersOK, GoodTask

LEMMA IdleIsGood == GoodTask(Idle)
  BY AttemptsAssumption DEF GoodTask, Searches, Idle, Task

LEMMA SearchingIsGood ==
  ASSUME NEW r \in Request PROVE GoodTask(Searching(r))
  BY IdleIsGood DEF GoodTask, Searches, Searching, Task

LEMMA TryNextIsGood ==
  ASSUME JobsOK, NEW w \in Worker, job[w].pc = "offer" PROVE GoodTask(TryNext(w))
  <1>1. /\ job[w] \in Task /\ job[w].driver \in Driver /\ job[w].ride \in Request
        /\ job[w].tries + 1 \in 0 .. MAX_OFFER_ATTEMPTS
    BY AttemptsAssumption DEF JobsOK, WorkersOK, Task, Searches
  <1> DEFINE t1 == [job[w] EXCEPT !.pc = "search"]
             t2 == [t1 EXCEPT !.driver = Null]
             t3 == [t2 EXCEPT !.exclude = job[w].exclude \cup {job[w].driver}]
             t4 == [t3 EXCEPT !.tries = job[w].tries + 1]
  <1>2. t1 \in Task /\ t1.pc = "search" /\ t1.ride = job[w].ride
    BY <1>1 DEF Task
  <1>3. t2 \in Task /\ t2.pc = "search" /\ t2.ride = job[w].ride
    <2> HIDE DEF t1
    <2> QED
      BY <1>2 DEF Task
  <1>4. t3 \in Task /\ t3.pc = "search" /\ t3.ride = job[w].ride
    <2>1. job[w].exclude \cup {job[w].driver} \in SUBSET Driver
      BY <1>1 DEF Task
    <2> HIDE DEF t2
    <2> QED
      BY <1>3, <2>1 DEF Task
  <1>5. t4 \in Task /\ t4.pc = "search" /\ t4.ride = job[w].ride
    <2> HIDE DEF t3
    <2> QED
      BY <1>1, <1>4 DEF Task
  <1>6. TryNext(w) = t4
    BY <1>1 DEF TryNext, Task
  <1> HIDE DEF t4
  <1> QED
    BY <1>1, <1>5, <1>6 DEF GoodTask

\* Offers are only ever answered: none of the facts about them is lost.
LEMMA AnswerKeeps ==
  ASSUME TablesOK, NEW set, NEW answer \in {"expired", "rejected"}, Answer(set, answer),
         UNCHANGED ride
  PROVE  TablesOK'
  <1>1. offer' \in [Request \X Driver -> OfferStatus]
    BY DEF TablesOK, Answer, OfferStatus
  <1>2. turnedDown' \in [Request -> SUBSET Driver] /\ timers' \subseteq Request \X Driver
    BY DEF TablesOK, Answer
  <1>3. \A x \in Request \X Driver : Unanswered(x)' => Unanswered(x)
    BY DEF TablesOK, Answer, Unanswered
  <1>4. OneUnansweredOffer'
    BY <1>3 DEF TablesOK, OneUnansweredOffer, Requested
  <1> QED
    BY <1>1, <1>2, <1>4 DEF TablesOK, RidesOK

LEMMA SetStatusKeeps ==
  ASSUME ride \in [Request -> Ride], NEW r \in Request,
         NEW s \in {"none", "requested", "accepted", "completed", "paid", "cancelled"},
         SetStatus(r, s)
  PROVE  /\ ride' \in [Request -> Ride]
         /\ \A q \in Request : /\ ride'[q].driver = ride[q].driver
                               /\ q # r => ride'[q] = ride[q]
         /\ ride'[r].status = s
  <1> DEFINE row == [status |-> s, driver |-> ride[r].driver, age |-> 0]
  <1>1. ride' = [ride EXCEPT ![r] = row]
    BY DEF SetStatus
  <1>2. row \in Ride
    BY DEF Ride
  <1>3. row.driver = ride[r].driver /\ row.status = s
    OBVIOUS
  <1> HIDE DEF row
  <1> QED
    BY <1>1, <1>2, <1>3

LEMMA CancelKeeps ==
  ASSUME TablesOK, NEW r \in Request, CancelUnfulfilled(r)
  PROVE  TablesOK'
  <1>1. CASE Unfulfilled(r)
    <2>1. /\ SetStatus(r, "cancelled")
          /\ Answer({x \in DueOffers : x[1] = r}, "expired")
      BY <1>1 DEF CancelUnfulfilled
    <2>2. offer' \in [Request \X Driver -> OfferStatus]
      BY <2>1 DEF TablesOK, Answer, OfferStatus
    <2>3. turnedDown' \in [Request -> SUBSET Driver] /\ timers' \subseteq Request \X Driver
      BY <2>1 DEF TablesOK, Answer
    <2>4. ride' \in [Request -> Ride] /\ RidesOK'
      BY <2>1, SetStatusKeeps DEF TablesOK, RidesOK, Ride
    <2>5. ASSUME NEW x \in Request \X Driver, Unanswered(x)'
          PROVE  Unanswered(x) /\ x[1] # r
      BY <1>1, <2>1, <2>5 DEF TablesOK, Answer, Unanswered, Unfulfilled, HasPendingOffer, DueOffers
    <2>6. OneUnansweredOffer'
      BY <2>1, <2>5, SetStatusKeeps DEF TablesOK, OneUnansweredOffer, Requested
    <2> QED
      BY <2>2, <2>3, <2>4, <2>6 DEF TablesOK
  <1>2. CASE ~Unfulfilled(r)
    BY <1>2 DEF CancelUnfulfilled, TablesOK, RidesOK, OneUnansweredOffer, Unanswered, Requested, db
  <1> QED
    BY <1>1, <1>2

LEMMA TablesUnchanged ==
  ASSUME TablesOK, UNCHANGED <<ride, offer, turnedDown, timers>>
  PROVE  TablesOK'
  BY DEF TablesOK, RidesOK, OneUnansweredOffer, Unanswered, Requested

LEMMA PassUnchanged == ASSUME PassTypeOK, UNCHANGED pass PROVE PassTypeOK'
  BY DEF PassTypeOK, PassOK

LEMMA JobsUnchanged == ASSUME JobsOK, UNCHANGED job PROVE JobsOK'
  BY DEF JobsOK, WorkersOK

-----------------------------------------------------------------------------
(* The steps.                                                              *)

LEMMA InitIInv == Init => IInv
  <1> SUFFICES ASSUME Init PROVE IInv
    OBVIOUS
  <1>1. ride \in [Request -> Ride] /\ RidesOK
    BY DEF Init, Ride, RidesOK
  <1>2. offer \in [Request \X Driver -> OfferStatus] /\ OneUnansweredOffer
    BY DEF Init, OfferStatus, OneUnansweredOffer, Unanswered
  <1>3. job \in [Worker -> Task] /\ \A w \in Worker : GoodTask(job[w])
    BY IdleIsGood DEF Init, GoodTask, Searches
  <1>4. PassTypeOK /\ pool \subseteq Driver /\ timers \subseteq Request \X Driver
    BY DEF Init, PassTypeOK, PassOK, Asleep
  <1>5. turnedDown \in [Request -> SUBSET Driver] /\ faults \in 0 .. MaxFaults
    BY AttemptsAssumption DEF Init
  <1> QED
    BY <1>1, <1>2, <1>3, <1>4, <1>5, GoodTasks, Parts DEF TablesOK

\* A worker's step inside _offer_to_next_driver.
LEMMA SearchKeeps ==
  ASSUME IInv, NEW w \in Worker, SearchStep(w)
  PROVE  IInv'
  <1>0. JobsOK /\ TablesOK /\ PassTypeOK /\ pool \subseteq Driver /\ faults \in 0 .. MaxFaults
    BY Parts
  <1> USE <1>0
  <1> GoodTask(job[w]) /\ job[w] \in Task
    BY GoodTasks
  <1>1. CASE CheckRide(w) \/ CheckOffers(w)
    <2>1. \A to \in {"offers", "exclude"} :
            job[w].pc \in {"check", "offers"} => GoodTask([job[w] EXCEPT !.pc = to])
      BY DEF GoodTask, Searches, Task
    <2>2. JobsOK'
      BY <1>1, <2>1, IdleIsGood, GiveTask DEF CheckRide, CheckOffers, ReadOn
    <2> QED
      BY <1>1, <2>2, TablesUnchanged, PassUnchanged, PartsPrimed
      DEF CheckRide, CheckOffers, ReadOn, db
  <1>2. CASE ExcludeTurnedDown(w) \/ ExcludeReserved(w)
    <2>1. ASSUME NEW from \in {"exclude", "reserved"}, NEW to \in {"reserved", "search"},
                 NEW drivers \in SUBSET Driver, Exclude(w, from, drivers, to)
          PROVE  IInv'
      <3> DEFINE seen == job[w].exclude \cup drivers
                 t1 == [job[w] EXCEPT !.pc = to]
                 t2 == [t1 EXCEPT !.exclude = seen]
      <3>1. job[w].ride \in Request
        BY <2>1 DEF Exclude, GoodTask, Searches
      <3>2. seen \subseteq Driver
        BY DEF Task
      <3>3. t1 \in Task /\ t1.pc = to /\ t1.ride = job[w].ride
        BY DEF Task
      <3>4. t2 \in Task /\ t2.pc = to /\ t2.ride = job[w].ride
        <4> HIDE DEF t1, seen
        <4> QED
          BY <3>2, <3>3 DEF Task
      <3>5. GoodTask(t2)
        BY <3>1, <3>4 DEF GoodTask
      <3>6. job' = [job EXCEPT ![w] = t2]
        BY <2>1 DEF Exclude
      <3> HIDE DEF t2
      <3> QED
        BY <2>1, <3>5, <3>6, GiveTask, TablesUnchanged, PassUnchanged, PartsPrimed DEF Exclude, db
    <2>2. CASE ExcludeTurnedDown(w)
      <3>1. job[w].ride \in Request
        BY <2>2 DEF ExcludeTurnedDown, Exclude, GoodTask, Searches
      <3>2. turnedDown[job[w].ride] \in SUBSET Driver
        BY <3>1 DEF TablesOK
      <3> QED
        BY <2>1, <2>2, <3>2 DEF ExcludeTurnedDown
    <2>3. CASE ExcludeReserved(w)
      <3>1. PendingOfferDrivers \in SUBSET Driver
        BY DEF PendingOfferDrivers
      <3> QED
        BY <2>1, <2>3, <3>1 DEF ExcludeReserved
    <2> QED
      BY <1>2, <2>2, <2>3
  <1>3. CASE FindDriver(w)
    <2>1. PICK d \in pool \ job[w].exclude :
                 job' = [job EXCEPT ![w].pc = "offer", ![w].driver = d]
      BY <1>3 DEF FindDriver
    <2> DEFINE t1 == [job[w] EXCEPT !.pc = "offer"]
               t2 == [t1 EXCEPT !.driver = d]
    <2>2. t1 \in Task /\ t1.pc = "offer" /\ t1.ride = job[w].ride /\ t1.tries = job[w].tries
      BY DEF Task
    <2>3. /\ t2 \in Task /\ t2.pc = "offer" /\ t2.ride = job[w].ride
          /\ t2.tries = job[w].tries /\ t2.driver = d
      <3> HIDE DEF t1
      <3> QED
        BY <2>2 DEF Task
    <2>4. GoodTask(t2)
      BY <1>3, <2>3 DEF GoodTask, Searches, FindDriver
    <2>5. job' = [job EXCEPT ![w] = t2]
      BY <2>1
    <2> HIDE DEF t2
    <2> QED
      BY <1>3, <2>4, <2>5, GiveTask, TablesUnchanged, PassUnchanged, PartsPrimed DEF FindDriver, db
  <1>4. CASE FindNobody(w)
    <2> DEFINE t1 == [job[w] EXCEPT !.pc = "cancel"]
               t2 == [t1 EXCEPT !.exclude = {}]
               t3 == [t2 EXCEPT !.tries = 0]
    <2>1. t1 \in Task /\ t1.pc = "cancel" /\ t1.ride = job[w].ride
      BY DEF Task
    <2>2. t2 \in Task /\ t2.pc = "cancel" /\ t2.ride = job[w].ride
      <3> HIDE DEF t1
      <3> QED
        BY <2>1 DEF Task
    <2>3. t3 \in Task /\ t3.pc = "cancel" /\ t3.ride = job[w].ride
      <3> HIDE DEF t2
      <3> QED
        BY <2>2, AttemptsAssumption DEF Task
    <2>4. GoodTask(t3)
      BY <1>4, <2>3 DEF GoodTask, Searches, FindNobody
    <2>5. job' = [job EXCEPT ![w] = t3]
      BY <1>4 DEF FindNobody
    <2> HIDE DEF t3
    <2> QED
      BY <1>4, <2>4, <2>5, GiveTask, TablesUnchanged, PassUnchanged, PartsPrimed DEF FindNobody, db
  <1>5. CASE OfferEnds(w)
    <2>1. TablesOK'
      BY <1>5, AnswerKeeps, TablesUnchanged DEF OfferEnds
    <2> QED
      BY <1>5, <2>1, IdleIsGood, GiveTask, PassUnchanged, PartsPrimed DEF OfferEnds
  <1>6. CASE DriverRefused(w)
    <2>1. TablesOK'
      BY <1>6, AnswerKeeps DEF DriverRefused
    <2> QED
      BY <1>6, <2>1, TryNextIsGood, GiveTask, PassUnchanged, PartsPrimed DEF DriverRefused
  <1>7. CASE DriverReserved(w)
    BY <1>7, TryNextIsGood, GiveTask, TablesUnchanged, PassUnchanged, PartsPrimed DEF DriverReserved, db
  <1>8. CASE MakeOffer(w)
    <2> DEFINE x == <<job[w].ride, job[w].driver>>
    <2>1. x \in Request \X Driver
      BY <1>8 DEF MakeOffer, GoodTask, Searches
    <2>2. offer' \in [Request \X Driver -> OfferStatus]
      BY <1>8 DEF MakeOffer, TablesOK, OfferStatus
    <2>3. turnedDown' \in [Request -> SUBSET Driver] /\ timers' \subseteq Request \X Driver
      BY <1>8, <2>1 DEF MakeOffer, TablesOK
    <2>4. ASSUME NEW y \in Request \X Driver, y # x, Unanswered(y)'
          PROVE  Unanswered(y) /\ y[1] # x[1] /\ y[2] # x[2]
      <3>1. offer'[y] = IF y \in Overdue(w) THEN "expired" ELSE offer[y]
        BY <1>8, <2>4 DEF MakeOffer, TablesOK
      <3>2. y \notin Overdue(w) /\ Unanswered(y)
        BY <2>4, <3>1 DEF Unanswered
      <3>3. CASE offer[y] = "due"
        BY <3>2, <3>3 DEF Overdue, DueOffers
      <3>4. CASE offer[y] = "pending"
        <4>1. y = <<y[1], y[2]>> /\ y[1] \in Request /\ y[2] \in Driver
          BY <2>4
        <4> QED
          BY <1>8, <3>2, <3>4, <4>1 DEF MakeOffer, Unfulfilled, HasPendingOffer, PendingOfferDrivers
      <3> QED
        BY <3>2, <3>3, <3>4 DEF Unanswered
    <2>5. ride' = ride /\ Requested(x[1])
      BY <1>8 DEF MakeOffer, Unfulfilled
    <2>6. OneUnansweredOffer'
      <3>1. ASSUME NEW y \in Request \X Driver, Unanswered(y)' PROVE Requested(y[1])
        <4>1. CASE y = x
          BY <2>5, <4>1
        <4>2. CASE y # x
          BY <2>4, <3>1, <4>2 DEF TablesOK, OneUnansweredOffer
        <4> QED
          BY <4>1, <4>2
      <3>2. ASSUME NEW y \in Request \X Driver, NEW z \in Request \X Driver,
                   y # z, Unanswered(y)', Unanswered(z)'
            PROVE  y[1] # z[1] /\ y[2] # z[2]
        <4> HIDE DEF x
        <4>1. CASE y = x
          BY <2>4, <3>2, <4>1
        <4>2. CASE z = x
          BY <2>4, <3>2, <4>2
        <4>3. CASE y # x /\ z # x
          <5>1. Unanswered(y) /\ Unanswered(z)
            BY <2>4, <3>2, <4>3
          <5> QED
            BY <3>2, <5>1 DEF TablesOK, OneUnansweredOffer
        <4> QED
          BY <4>1, <4>2, <4>3
      <3> HIDE DEF x
      <3> QED
        BY <2>5, <3>1, <3>2 DEF OneUnansweredOffer, Requested
    <2>7. TablesOK'
      BY <2>2, <2>3, <2>5, <2>6 DEF TablesOK, RidesOK
    <2> QED
      BY <1>8, <2>7, IdleIsGood, GiveTask, PassUnchanged, PartsPrimed DEF MakeOffer
  <1>9. CASE GiveUp(w)
    <2>1. job[w].ride \in Request
      BY <1>9 DEF GiveUp, GoodTask, Searches
    <2> QED
      BY <1>9, <2>1, CancelKeeps, IdleIsGood, GiveTask, PassUnchanged, PartsPrimed DEF GiveUp
  <1> QED
    BY <1>1, <1>2, <1>3, <1>4, <1>5, <1>6, <1>7, <1>8, <1>9 DEF SearchStep

LEMMA TaskFor ==
  ASSUME NEW d \in Driver, NEW pc \in {"accepted", "entering", "leaving"}
  PROVE  GoodTask([Idle EXCEPT !.pc = pc, !.driver = d])
  <1> DEFINE t1 == [Idle EXCEPT !.pc = pc]
             t2 == [t1 EXCEPT !.driver = d]
  <1>1. t1 \in Task /\ t1.pc = pc
    BY IdleIsGood DEF GoodTask, Searches, Task
  <1>2. t2 \in Task /\ t2.pc = pc /\ t2.driver = d
    <2> HIDE DEF t1
    <2> QED
      BY <1>1 DEF Task
  <1>3. GoodTask(t2)
    <2> HIDE DEF t2
    <2> QED
      BY <1>2 DEF GoodTask, Searches
  <1> QED
    BY <1>3

LEMMA StartsGood ==
  ASSUME JobsOK, NEW j \in Worker, NEW t, GoodTask(t), Starts(j, t)
  PROVE  JobsOK'
  BY GiveTask DEF Starts

\* The other steps of a worker.
LEMMA WorkerKeeps ==
  ASSUME IInv, NEW w \in Worker, WorkerStep(w)
  PROVE  IInv'
  <1>0. JobsOK /\ TablesOK /\ PassTypeOK /\ pool \subseteq Driver /\ faults \in 0 .. MaxFaults
    BY Parts
  <1> USE <1>0
  <1> GoodTask(job[w]) /\ job[w] \in Task
    BY GoodTasks
  <1>1. CASE SearchStep(w)
    BY <1>1, SearchKeeps
  <1>2. CASE LeavePool(w)
    BY <1>2, IdleIsGood, GiveTask, TablesUnchanged, PassUnchanged, PartsPrimed DEF LeavePool, db
  <1>3. CASE ReadPending(w)
    <2>1. CASE job' = [job EXCEPT ![w] = Idle]
      BY <1>3, <2>1, IdleIsGood, GiveTask, TablesUnchanged, PassUnchanged, PartsPrimed
      DEF ReadPending, db
    <2>2. ASSUME NEW r \in Request,
                 job' = [job EXCEPT ![w].pc = "declining", ![w].ride = r]
          PROVE  IInv'
      <3> DEFINE t1 == [job[w] EXCEPT !.pc = "declining"]
                 t2 == [t1 EXCEPT !.ride = r]
      <3>1. job[w].driver \in Driver
        BY <1>3 DEF ReadPending, GoodTask, Searches
      <3>2. t1 \in Task /\ t1.pc = "declining" /\ t1.driver = job[w].driver
        BY DEF Task
      <3>3. /\ t2 \in Task /\ t2.pc = "declining" /\ t2.ride = r
            /\ t2.driver = job[w].driver
        <4> HIDE DEF t1
        <4> QED
          BY <3>2 DEF Task
      <3>4. GoodTask(t2)
        <4> HIDE DEF t2
        <4> QED
          BY <3>1, <3>3 DEF GoodTask, Searches
      <3>5. job' = [job EXCEPT ![w] = t2]
        BY <2>2
      <3> HIDE DEF t2
      <3> QED
        BY <1>3, <3>4, <3>5, GiveTask, TablesUnchanged, PassUnchanged, PartsPrimed
        DEF ReadPending, db
    <2> QED
      BY <1>3, <2>1, <2>2 DEF ReadPending
  <1>4. CASE DeclinePending(w)
    <2>1. job[w].driver \in Driver /\ job[w].ride \in Request
      BY <1>4 DEF DeclinePending, GoodTask, Searches
    <2>2. JobsOK'
      BY <1>4, <2>1, IdleIsGood, SearchingIsGood, GiveTask DEF DeclinePending
    <2>3. TablesOK'
      BY <1>4, AnswerKeeps, TablesUnchanged DEF DeclinePending
    <2> QED
      BY <1>4, <2>2, <2>3, PassUnchanged, PartsPrimed DEF DeclinePending
  <1>5. CASE EnterPool(w)
    <2>1. job[w].driver \in Driver
      BY <1>5 DEF EnterPool, GoodTask, Searches
    <2> QED
      BY <1>5, <2>1, IdleIsGood, GiveTask, TablesUnchanged, PassUnchanged, PartsPrimed
      DEF EnterPool, db
  <1> QED
    BY <1>1, <1>2, <1>3, <1>4, <1>5 DEF WorkerStep

LEMMA EventKeeps ==
  ASSUME IInv, NEW j \in Job, Event(j)
  PROVE  IInv'
  <1>0. JobsOK /\ TablesOK /\ PassTypeOK /\ pool \subseteq Driver /\ faults \in 0 .. MaxFaults
    BY Parts
  <1> USE <1>0
  <1> j \in Worker
    BY DEF Worker
  <1>1. ASSUME NEW r \in Request, RequestRide(j, r) PROVE IInv'
    <2>1. JobsOK'
      BY <1>1, SearchingIsGood, StartsGood DEF RequestRide
    <2>2. ride' \in [Request -> Ride] /\ RidesOK'
      BY <1>1, SetStatusKeeps DEF RequestRide, TablesOK, RidesOK
    <2>3. OneUnansweredOffer'
      BY <1>1, SetStatusKeeps DEF RequestRide, TablesOK, OneUnansweredOffer, Unanswered, Requested
    <2> QED
      BY <1>1, <2>1, <2>2, <2>3, PassUnchanged, PartsPrimed DEF RequestRide, TablesOK
  <1>2. ASSUME NEW r \in Request, CollectPayment(j, r) PROVE IInv'
    <2>1. ride[r].driver \in Driver
      BY <1>2 DEF CollectPayment, TablesOK, RidesOK
    <2>2. JobsOK'
      BY <1>2, <2>1, TaskFor, StartsGood DEF CollectPayment
    <2>3. ride' \in [Request -> Ride] /\ RidesOK'
      BY <1>2, <2>1, SetStatusKeeps DEF CollectPayment, TablesOK, RidesOK
    <2>4. OneUnansweredOffer'
      BY <1>2, SetStatusKeeps DEF CollectPayment, TablesOK, OneUnansweredOffer, Unanswered, Requested
    <2> QED
      BY <1>2, <2>2, <2>3, <2>4, PassUnchanged, PartsPrimed DEF CollectPayment, TablesOK
  <1>3. ASSUME NEW d \in Driver, GoOffline(j, d) PROVE IInv'
    BY <1>3, TaskFor, StartsGood, TablesUnchanged, PassUnchanged, PartsPrimed DEF GoOffline, db
  <1>4. ASSUME NEW d \in Driver, GoOnline(j, d) PROVE IInv'
    BY <1>4, TaskFor, StartsGood, TablesUnchanged, PassUnchanged, PartsPrimed DEF GoOnline, db
  <1>5. ASSUME NEW r \in Request, NEW d \in Driver, AcceptOffer(j, r, d) PROVE IInv'
    <2> DEFINE x == <<r, d>>
               row == [status |-> "accepted", driver |-> d, age |-> 0]
    <2>1. JobsOK'
      BY <1>5, TaskFor, StartsGood DEF AcceptOffer
    <2>2. row \in Ride /\ row.driver = d
      BY DEF Ride
    <2>3. ride' = [ride EXCEPT ![r] = row]
      BY <1>5 DEF AcceptOffer
    <2>4. ride' \in [Request -> Ride] /\ RidesOK'
      <3> HIDE DEF row
      <3> QED
        BY <2>2, <2>3 DEF TablesOK, RidesOK
    <2>5. /\ offer' \in [Request \X Driver -> OfferStatus]
          /\ timers' \subseteq Request \X Driver /\ turnedDown' \in [Request -> SUBSET Driver]
      BY <1>5 DEF AcceptOffer, TablesOK, OfferStatus
    <2>6. ASSUME NEW y \in Request \X Driver, Unanswered(y)'
          PROVE  Unanswered(y) /\ y # x /\ y[1] # r
      <3>1. y # x /\ Unanswered(y)
        BY <1>5, <2>6 DEF AcceptOffer, TablesOK, Unanswered
      <3>2. x \in Request \X Driver /\ Unanswered(x) /\ x[1] = r
        BY <1>5 DEF AcceptOffer, Unanswered
      <3> HIDE DEF x
      <3> QED
        BY <3>1, <3>2 DEF TablesOK, OneUnansweredOffer
    <2>7. OneUnansweredOffer'
      <3> HIDE DEF row, x
      <3> QED
        BY <2>3, <2>6 DEF TablesOK, OneUnansweredOffer, Requested
    <2> QED
      BY <1>5, <2>1, <2>4, <2>5, <2>7, PassUnchanged, PartsPrimed DEF AcceptOffer, TablesOK
  <1>6. ASSUME NEW r \in Request, NEW d \in Driver,
               AcceptTooLate(j, r, d) \/ RejectOffer(j, r, d) \/ TimerFires(j, r, d)
        PROVE  IInv'
    <2>1. JobsOK'
      BY <1>6, SearchingIsGood, StartsGood DEF AcceptTooLate, RejectOffer, TimerFires
    <2>2. TablesOK'
      BY <1>6, AnswerKeeps DEF AcceptTooLate, RejectOffer, TimerFires
    <2> QED
      BY <1>6, <2>1, <2>2, PassUnchanged, PartsPrimed DEF AcceptTooLate, RejectOffer, TimerFires
  <1> QED
    BY <1>1, <1>2, <1>3, <1>4, <1>5, <1>6 DEF Event

LEMMA MaintenanceKeeps ==
  ASSUME IInv, MaintenanceStep
  PROVE  IInv'
  <1>0. JobsOK /\ TablesOK /\ PassTypeOK /\ pool \subseteq Driver /\ faults \in 0 .. MaxFaults
    BY Parts
  <1> USE <1>0
  <1> Maintenance \in Worker
    BY DEF Worker
  <1>1. CASE NextPhase
    <2>1. PassTypeOK'
      BY <1>1 DEF NextPhase, PassTypeOK, PassOK, DueOffers, StaleRides, UnofferedRides, Asleep
    <2> QED
      BY <1>1, <2>1, JobsUnchanged, TablesUnchanged, PartsPrimed DEF NextPhase, db
  <1>2. ASSUME NEW x, NEW phase, Handle(x, phase)
        PROVE  PassTypeOK' /\ x[1] \in Request
    <2>1. pass.todo \in SUBSET (Request \X (Driver \cup {Null}))
      BY DEF PassTypeOK
    <2> DEFINE p == [pass EXCEPT !.todo = pass.todo \ {x}]
    <2>2. pass' = p
      BY <1>2 DEF Handle, PassTypeOK
    <2>3. p.phase = pass.phase /\ p.todo \subseteq pass.todo
          /\ p \in [phase : {"asleep", "due", "stale", "unoffered"},
                    todo : SUBSET (Request \X (Driver \cup {Null}))]
      BY <2>1 DEF PassTypeOK
    <2>4. x[1] \in Request
      BY <1>2, <2>1 DEF Handle
    <2> HIDE DEF p
    <2> QED
      BY <2>2, <2>3, <2>4 DEF PassTypeOK, PassOK
  <1>3. ASSUME NEW x, ExpireDue(x) PROVE IInv'
    <2>1. PassTypeOK' /\ x[1] \in Request
      BY <1>2, <1>3 DEF ExpireDue
    <2>2. JobsOK'
      BY <1>3, <2>1, SearchingIsGood, StartsGood, JobsUnchanged DEF ExpireDue
    <2>3. TablesOK'
      BY <1>3, AnswerKeeps, TablesUnchanged DEF ExpireDue
    <2> QED
      BY <1>3, <2>1, <2>2, <2>3, PartsPrimed DEF ExpireDue
  <1>4. ASSUME NEW x, CancelStale(x) PROVE IInv'
    <2>1. PassTypeOK' /\ x[1] \in Request
      BY <1>2, <1>4 DEF CancelStale
    <2> QED
      BY <1>4, <2>1, CancelKeeps, JobsUnchanged, PartsPrimed DEF CancelStale
  <1>5. ASSUME NEW x, OfferAgain(x) PROVE IInv'
    <2>1. PassTypeOK' /\ x[1] \in Request
      BY <1>2, <1>5 DEF OfferAgain
    <2> QED
      BY <1>5, <2>1, SearchingIsGood, StartsGood, TablesUnchanged, PartsPrimed DEF OfferAgain, db
  <1> QED
    BY <1>1, <1>3, <1>4, <1>5 DEF MaintenanceStep

\* Time, drivers and faults.
LEMMA EnvironmentKeeps ==
  ASSUME IInv,
         \/ \E r \in Request : CompleteRide(r) \/ RideAges(r)
         \/ \E d \in Driver : Vanish(d)
         \/ \E x \in Request \X Driver : DeadlinePasses(x)
         \/ Crash
         \/ \E w \in Worker : Fail(w)
         \/ UNCHANGED vars
  PROVE  IInv'
  <1>0. JobsOK /\ TablesOK /\ PassTypeOK /\ pool \subseteq Driver /\ faults \in 0 .. MaxFaults
    BY Parts
  <1> USE <1>0
  <1>1. ASSUME NEW r \in Request, CompleteRide(r) PROVE IInv'
    <2>1. ride' \in [Request -> Ride] /\ RidesOK'
      BY <1>1, SetStatusKeeps DEF CompleteRide, TablesOK, RidesOK
    <2>2. OneUnansweredOffer'
      BY <1>1, SetStatusKeeps DEF CompleteRide, TablesOK, OneUnansweredOffer, Unanswered, Requested
    <2> QED
      BY <1>1, <2>1, <2>2, JobsUnchanged, PassUnchanged, PartsPrimed DEF CompleteRide, TablesOK
  <1>2. ASSUME NEW r \in Request, RideAges(r) PROVE IInv'
    <2> DEFINE row == [ride[r] EXCEPT !.age = ride[r].age + 1]
    <2>1. row \in Ride /\ row.status = ride[r].status /\ row.driver = ride[r].driver
      <3>1. ride[r] \in Ride /\ ride[r].age + 1 \in 0 .. 2
        BY <1>2 DEF TablesOK, Ride, RideAges
      <3> QED
        BY <3>1 DEF Ride
    <2>2. ride' = [ride EXCEPT ![r] = row]
      BY <1>2 DEF RideAges
    <2> HIDE DEF row
    <2>3. ride' \in [Request -> Ride] /\ RidesOK'
      BY <2>1, <2>2 DEF TablesOK, RidesOK
    <2>4. OneUnansweredOffer'
      BY <1>2, <2>1, <2>2 DEF RideAges, TablesOK, OneUnansweredOffer, Unanswered, Requested
    <2> QED
      BY <1>2, <2>3, <2>4, JobsUnchanged, PassUnchanged, PartsPrimed DEF RideAges, TablesOK
  <1>3. ASSUME NEW d \in Driver, Vanish(d) PROVE IInv'
    BY <1>3, JobsUnchanged, TablesUnchanged, PassUnchanged, PartsPrimed DEF Vanish, db
  <1>4. ASSUME NEW x \in Request \X Driver, DeadlinePasses(x) PROVE IInv'
    <2>1. offer' \in [Request \X Driver -> OfferStatus]
      BY <1>4 DEF DeadlinePasses, TablesOK, OfferStatus
    <2>2. \A y \in Request \X Driver : Unanswered(y)' => Unanswered(y)
      BY <1>4 DEF DeadlinePasses, TablesOK, Unanswered
    <2>3. OneUnansweredOffer'
      BY <1>4, <2>2 DEF DeadlinePasses, TablesOK, OneUnansweredOffer, Requested
    <2> QED
      BY <1>4, <2>1, <2>3, JobsUnchanged, PassUnchanged, PartsPrimed
      DEF DeadlinePasses, TablesOK, RidesOK
  <1>5. CASE Crash
    <2>1. job' \in [Worker -> Task] /\ JobsOK'
      BY <1>5, IdleIsGood DEF Crash, JobsOK, WorkersOK, GoodTask, Searches
    <2>2. TablesOK'
      BY <1>5 DEF Crash, db, TablesOK, RidesOK, OneUnansweredOffer, Unanswered, Requested
    <2>3. PassTypeOK'
      BY <1>5 DEF Crash, Asleep, PassTypeOK, PassOK
    <2> QED
      BY <1>5, <2>1, <2>2, <2>3, AttemptsAssumption, PartsPrimed DEF Crash
  <1>6. ASSUME NEW w \in Worker, Fail(w) PROVE IInv'
    <2>1. JobsOK'
      BY <1>6, IdleIsGood, GiveTask DEF Fail
    <2>2. PassTypeOK'
      BY <1>6 DEF Fail, Asleep, PassTypeOK, PassOK
    <2> QED
      BY <1>6, <2>1, <2>2, TablesUnchanged, AttemptsAssumption, PartsPrimed DEF Fail, db
  <1>7. CASE UNCHANGED vars
    BY <1>7, JobsUnchanged, TablesUnchanged, PassUnchanged, PartsPrimed DEF vars
  <1> QED
    BY <1>1, <1>2, <1>3, <1>4, <1>5, <1>6, <1>7

-----------------------------------------------------------------------------
(* Dispatch keeps its invariant with any number of drivers, rides and      *)
(* greenlets, however many of them die.                                    *)
THEOREM Invariance == Spec => []IInv
  <1>1. ASSUME IInv, [Next]_vars PROVE IInv'
    BY <1>1, WorkerKeeps, EventKeeps, MaintenanceKeeps, EnvironmentKeeps DEF Next
  <1> QED
    BY <1>1, InitIInv, PTL DEF Spec

\* Every variable keeps its type: no search outruns MAX_OFFER_ATTEMPTS, no
\* driver enters the pool that is not one (handlers.py:723).
THEOREM TypeCorrect == Spec => []TypeOK
  <1>1. IInv => TypeOK
    BY DEF IInv
  <1> QED
    BY <1>1, Invariance, PTL

\* However searches, answers, timers and maintenance overlap, a ride and a
\* driver have one unanswered offer at most, and only requested rides have
\* one (ride_service.py:253).
THEOREM OffersAreExclusive == Spec => []OneUnansweredOffer
  <1>1. IInv => OneUnansweredOffer
    BY DEF IInv
  <1> QED
    BY <1>1, Invariance, PTL

-----------------------------------------------------------------------------
(* How long a search can be.  StepsLeft is a bound on the calls a worker   *)
(* has left, and only the worker's own steps, which lower it, move it.     *)

LEMMA StepsByPhase ==
  ASSUME NEW t, GoodTask(t)
  PROVE  LET M == MAX_OFFER_ATTEMPTS
         IN /\ t.pc = "idle" => StepsLeft(t) = 0
            /\ t.pc \in {"accepted", "entering", "cancel"} => StepsLeft(t) = 1
            /\ t.pc = "offer" => StepsLeft(t) = 2 * (M - t.tries) + 1
            /\ t.pc = "search" => StepsLeft(t) = 2 * (M - t.tries) + 2
            /\ t.pc = "reserved" => StepsLeft(t) = 2 * M + 3
            /\ t.pc = "exclude" => StepsLeft(t) = 2 * M + 4
            /\ t.pc = "offers" => StepsLeft(t) = 2 * M + 5
            /\ t.pc = "check" => StepsLeft(t) = 2 * M + 6
            /\ t.pc = "declining" => StepsLeft(t) = 2 * M + 7
            /\ t.pc = "leaving" => StepsLeft(t) = 2 * M + 8
  BY DEF StepsLeft

LEMMA StepsAreBounded ==
  ASSUME NEW t, GoodTask(t)
  PROVE  /\ StepsLeft(t) \in 0 .. 2 * MAX_OFFER_ATTEMPTS + 8
         /\ t.pc # "idle" => StepsLeft(t) > 0
  <1>1. t.tries \in 0 .. MAX_OFFER_ATTEMPTS /\ MAX_OFFER_ATTEMPTS \in Nat
    BY AttemptsAssumption DEF GoodTask, Task
  <1>2. t.pc \in {"idle", "check", "offers", "exclude", "reserved", "search", "offer",
                  "cancel", "accepted", "entering", "leaving", "declining"}
    BY DEF GoodTask, Task
  <1> QED
    BY <1>1, <1>2, StepsByPhase

Shortens ==
  \A v \in Worker :
    job[v].pc # "idle" /\ job'[v] # job[v] => StepsLeft(job'[v]) < StepsLeft(job[v])

LEMMA OneShortens ==
  ASSUME JobsOK, NEW w \in Worker, NEW t, job' = [job EXCEPT ![w] = t],
         job[w].pc # "idle" => StepsLeft(t) < StepsLeft(job[w])
  PROVE  Shortens
  <1> SUFFICES ASSUME NEW v \in Worker, job[v].pc # "idle", job'[v] # job[v]
               PROVE  StepsLeft(job'[v]) < StepsLeft(job[v])
    BY DEF Shortens
  <1>1. v = w /\ job'[v] = t
    BY DEF JobsOK
  <1> QED
    BY <1>1

LEMMA IdleShortens ==
  ASSUME JobsOK, NEW w \in Worker, job' = [job EXCEPT ![w] = Idle]
  PROVE  Shortens
  <1>1. StepsLeft(Idle) = 0
    BY IdleIsGood, StepsByPhase DEF Idle
  <1>2. StepsLeft(job[w]) \in Nat /\ (job[w].pc # "idle" => StepsLeft(job[w]) > 0)
    BY GoodTasks, StepsAreBounded, AttemptsAssumption
  <1> QED
    BY <1>1, <1>2, OneShortens

\* An attempt costs two steps, whatever came of it.
LEMMA TryNextShortens ==
  ASSUME JobsOK, NEW w \in Worker, job' = [job EXCEPT ![w] = TryNext(w)],
         job[w].pc = "offer"
  PROVE  Shortens
  <1>1. GoodTask(job[w]) /\ GoodTask(TryNext(w))
    BY GoodTasks, TryNextIsGood
  <1>2. job[w].tries \in 0 .. MAX_OFFER_ATTEMPTS /\ MAX_OFFER_ATTEMPTS \in Nat
    BY <1>1, AttemptsAssumption DEF GoodTask, Task
  <1>3. TryNext(w).pc = "search" /\ TryNext(w).tries = job[w].tries + 1
    BY <1>1 DEF TryNext, GoodTask, Task
  <1>4. StepsLeft(job[w]) = 2 * (MAX_OFFER_ATTEMPTS - job[w].tries) + 1
    BY <1>1, StepsByPhase
  <1>5. StepsLeft(TryNext(w)) = 2 * (MAX_OFFER_ATTEMPTS - (job[w].tries + 1)) + 2
    BY <1>1, <1>3, StepsByPhase
  <1>6. StepsLeft(TryNext(w)) < StepsLeft(job[w])
    BY <1>2, <1>4, <1>5
  <1> QED
    BY <1>6, OneShortens

\* Only an idle worker takes up an event.
LEMMA StartsShortens ==
  ASSUME JobsOK, NEW j \in Worker, NEW t, Starts(j, t)
  PROVE  Shortens
  BY OneShortens DEF Starts

LEMMA JobsKeptShortens == ASSUME UNCHANGED job PROVE Shortens
  BY DEF Shortens

LEMMA WorkerShortens ==
  ASSUME JobsOK, NEW w \in Worker, WorkerStep(w)
  PROVE  Shortens
  <1>1. GoodTask(job[w]) /\ job[w] \in Task
    BY GoodTasks
  <1>2. job[w].tries \in 0 .. MAX_OFFER_ATTEMPTS /\ MAX_OFFER_ATTEMPTS \in Nat
    BY <1>1, AttemptsAssumption DEF Task
  <1>3. CASE CheckRide(w) \/ CheckOffers(w)
    <2>1. CASE job' = [job EXCEPT ![w] = Idle]
      BY <2>1, IdleShortens
    <2>2. ASSUME NEW to \in {"offers", "exclude"},
                 job' = [job EXCEPT ![w] = [job[w] EXCEPT !.pc = to]],
                 \/ job[w].pc = "check" /\ to = "offers"
                 \/ job[w].pc = "offers" /\ to = "exclude"
          PROVE  Shortens
      <3> DEFINE t == [job[w] EXCEPT !.pc = to]
      <3>1. GoodTask(t) /\ t.pc = to
        BY <1>1, <2>2 DEF GoodTask, Task, Searches
      <3> HIDE DEF t
      <3>2. StepsLeft(t) < StepsLeft(job[w])
        BY <1>1, <1>2, <2>2, <3>1, StepsByPhase
      <3> QED
        BY <2>2, <3>2, OneShortens DEF t
    <2> QED
      BY <1>3, <2>1, <2>2 DEF CheckRide, CheckOffers, ReadOn
  <1>4. CASE ExcludeTurnedDown(w) \/ ExcludeReserved(w)
    <2>1. ASSUME NEW drivers, NEW to \in {"reserved", "search"},
                 job' = [job EXCEPT ![w].pc = to, ![w].exclude = @ \cup drivers],
                 \/ job[w].pc = "exclude" /\ to = "reserved"
                 \/ job[w].pc = "reserved" /\ to = "search"
          PROVE  Shortens
      <3> DEFINE seen == job[w].exclude \cup drivers
                 t == [[job[w] EXCEPT !.pc = to] EXCEPT !.exclude = seen]
      <3>1. job' = [job EXCEPT ![w] = t]
        BY <2>1
      <3>2. t.pc = to /\ t.tries = job[w].tries
        BY <1>1 DEF Task
      <3> HIDE DEF t
      <3>3. StepsLeft(t) = IF to = "reserved" THEN 2 * MAX_OFFER_ATTEMPTS + 3
                           ELSE 2 * (MAX_OFFER_ATTEMPTS - t.tries) + 2
        BY <2>1, <3>2 DEF StepsLeft
      <3>4. StepsLeft(job[w]) = 2 * MAX_OFFER_ATTEMPTS + IF to = "reserved" THEN 4 ELSE 3
        BY <1>1, <2>1, StepsByPhase
      <3>5. StepsLeft(t) < StepsLeft(job[w])
        BY <1>2, <3>2, <3>3, <3>4
      <3> QED
        BY <3>1, <3>5, OneShortens
    <2> QED
      BY <1>4, <2>1 DEF ExcludeTurnedDown, ExcludeReserved, Exclude
  <1>5. CASE FindDriver(w)
    <2>1. PICK d \in pool \ job[w].exclude :
                 job' = [job EXCEPT ![w].pc = "offer", ![w].driver = d]
      BY <1>5 DEF FindDriver
    <2> DEFINE t == [[job[w] EXCEPT !.pc = "offer"] EXCEPT !.driver = d]
    <2>2. job' = [job EXCEPT ![w] = t]
      BY <2>1
    <2>3. t.pc = "offer" /\ t.tries = job[w].tries
      BY <1>1 DEF Task
    <2> HIDE DEF t
    <2>4. StepsLeft(t) = 2 * (MAX_OFFER_ATTEMPTS - t.tries) + 1
      BY <2>3 DEF StepsLeft
    <2>5. StepsLeft(job[w]) = 2 * (MAX_OFFER_ATTEMPTS - job[w].tries) + 2
      BY <1>1, <1>5, StepsByPhase DEF FindDriver
    <2>6. StepsLeft(t) < StepsLeft(job[w])
      BY <1>2, <2>3, <2>4, <2>5
    <2> QED
      BY <2>2, <2>6, OneShortens
  <1>6. CASE FindNobody(w)
    <2> DEFINE t == [[[job[w] EXCEPT !.pc = "cancel"] EXCEPT !.exclude = {}]
                       EXCEPT !.tries = 0]
    <2>1. job' = [job EXCEPT ![w] = t]
      BY <1>6 DEF FindNobody
    <2>2. t.pc = "cancel"
      BY <1>1 DEF Task
    <2> HIDE DEF t
    <2>3. StepsLeft(t) = 1
      BY <2>2 DEF StepsLeft
    <2>4. StepsLeft(job[w]) = 2 * (MAX_OFFER_ATTEMPTS - job[w].tries) + 2
      BY <1>1, <1>6, StepsByPhase DEF FindNobody
    <2>5. StepsLeft(t) < StepsLeft(job[w])
      BY <1>2, <2>3, <2>4
    <2> QED
      BY <2>1, <2>5, OneShortens
  <1>7. CASE \/ OfferEnds(w) \/ MakeOffer(w) \/ GiveUp(w)
             \/ LeavePool(w) \/ EnterPool(w)
    BY <1>7, IdleShortens DEF OfferEnds, MakeOffer, GiveUp, LeavePool, EnterPool
  <1>8. CASE DriverRefused(w) \/ DriverReserved(w)
    BY <1>8, TryNextShortens DEF DriverRefused, DriverReserved
  <1>9. CASE ReadPending(w)
    <2>1. CASE job' = [job EXCEPT ![w] = Idle]
      BY <2>1, IdleShortens
    <2>2. ASSUME NEW r \in Request,
                 job' = [job EXCEPT ![w].pc = "declining", ![w].ride = r]
          PROVE  Shortens
      <3> DEFINE t == [[job[w] EXCEPT !.pc = "declining"] EXCEPT !.ride = r]
      <3>1. job' = [job EXCEPT ![w] = t]
        BY <2>2
      <3>2. t.pc = "declining"
        BY <1>1 DEF Task
      <3> HIDE DEF t
      <3>3. StepsLeft(t) = 2 * MAX_OFFER_ATTEMPTS + 7
        BY <3>2 DEF StepsLeft
      <3>4. StepsLeft(job[w]) = 2 * MAX_OFFER_ATTEMPTS + 8
        BY <1>1, <1>9, StepsByPhase DEF ReadPending
      <3>5. StepsLeft(t) < StepsLeft(job[w])
        BY <1>2, <3>3, <3>4
      <3> QED
        BY <3>1, <3>5, OneShortens
    <2> QED
      BY <1>9, <2>1, <2>2 DEF ReadPending
  <1>10. CASE DeclinePending(w)
    <2>1. CASE job' = [job EXCEPT ![w] = Idle]
      BY <2>1, IdleShortens
    <2>2. ASSUME job' = [job EXCEPT ![w] = Searching(job[w].ride)]
          PROVE  Shortens
      <3>1. Searching(job[w].ride).pc = "check"
        BY DEF Searching, Idle
      <3>2. StepsLeft(Searching(job[w].ride)) = 2 * MAX_OFFER_ATTEMPTS + 6
        BY <3>1 DEF StepsLeft
      <3>3. StepsLeft(job[w]) = 2 * MAX_OFFER_ATTEMPTS + 7
        BY <1>1, <1>10, StepsByPhase DEF DeclinePending
      <3>4. StepsLeft(Searching(job[w].ride)) < StepsLeft(job[w])
        BY <1>2, <3>2, <3>3
      <3> QED
        BY <2>2, <3>4, OneShortens
    <2> QED
      BY <1>10, <2>1, <2>2 DEF DeclinePending
  <1> QED
    BY <1>3, <1>4, <1>5, <1>6, <1>7, <1>8, <1>9, <1>10 DEF WorkerStep, SearchStep

LEMMA StepShortens ==
  ASSUME JobsOK, Next
  PROVE  Shortens
  <1>1. ASSUME NEW j \in Job, Event(j) PROVE Shortens
    <2>1. j \in Worker
      BY DEF Worker
    <2> QED
      BY <1>1, <2>1, StartsShortens
      DEF Event, RequestRide, CollectPayment, GoOffline, GoOnline, AcceptOffer,
          AcceptTooLate, RejectOffer, TimerFires
  <1>2. CASE MaintenanceStep
    <2>1. Maintenance \in Worker
      BY DEF Worker
    <2> QED
      BY <1>2, <2>1, StartsShortens, JobsKeptShortens
      DEF MaintenanceStep, NextPhase, ExpireDue, CancelStale, OfferAgain
  <1>3. CASE Crash
    <2>1. StepsLeft(Idle) = 0
      BY IdleIsGood, StepsByPhase DEF Idle
    <2>2. \A v \in Worker : StepsLeft(job[v]) \in Nat /\ (job[v].pc # "idle" => StepsLeft(job[v]) > 0)
      BY GoodTasks, StepsAreBounded, AttemptsAssumption
    <2> QED
      BY <1>3, <2>1, <2>2 DEF Crash, Shortens
  <1>4. ASSUME NEW w \in Worker, Fail(w) PROVE Shortens
    BY <1>4, IdleShortens DEF Fail
  <1>5. ASSUME NEW r \in Request, CompleteRide(r) \/ RideAges(r) PROVE Shortens
    BY <1>5, JobsKeptShortens DEF CompleteRide, RideAges
  <1>6. ASSUME NEW d \in Driver, Vanish(d) PROVE Shortens
    BY <1>6, JobsKeptShortens DEF Vanish
  <1>7. ASSUME NEW x \in Request \X Driver, DeadlinePasses(x) PROVE Shortens
    BY <1>7, JobsKeptShortens DEF DeadlinePasses
  <1> QED
    BY <1>1, <1>2, <1>3, <1>4, <1>5, <1>6, <1>7, WorkerShortens DEF Next

\* A worker has at most 2 * MAX_OFFER_ATTEMPTS + 8 calls before it, and each
\* one it makes leaves it fewer, whatever the others do between its calls:
\* no number of drivers that refuse, are reserved or vanish keeps it
\* searching (handlers.py:737).  That it makes them is left to fairness.
THEOREM SearchesAreBounded ==
  Spec => /\ [](\A w \in Worker : StepsLeft(job[w]) \in 0 .. 2 * MAX_OFFER_ATTEMPTS + 8)
          /\ SearchesGetShorter
  <1>1. IInv => \A w \in Worker : StepsLeft(job[w]) \in 0 .. 2 * MAX_OFFER_ATTEMPTS + 8
    BY Parts, GoodTasks, StepsAreBounded
  <1>2. ASSUME IInv, [Next]_vars
        PROVE  [\A w \in Worker : job[w].pc # "idle" /\ job'[w] # job[w]
                                    => StepsLeft(job'[w]) < StepsLeft(job[w])]_vars
    BY <1>2, Parts, StepShortens DEF Shortens
  <1> QED
    BY <1>1, <1>2, Invariance, PTL DEF Spec, SearchesGetShorter

-----------------------------------------------------------------------------
(* The offer book.  Dispatch steps more finely than the book: most of its  *)
(* steps only move a worker, and each of the others is one step of the     *)
(* book, although it was decided on what the worker read before.           *)

Phases == [r \in Request |-> BookPhase(r)]
Winners == [r \in Request |-> ride[r].driver]
Asked == {x \in Request \X Driver : Unanswered(x)}

LEMMA BookUnchanged ==
  ASSUME UNCHANGED <<ride, offer>> PROVE UNCHANGED Book!bookVars
  BY DEF Book!bookVars, BookPhase, Unanswered, DueOffers

\* Answering offers takes them off the book.
LEMMA AnswerDrops ==
  ASSUME TablesOK, NEW set, NEW answer \in {"expired", "rejected"}, Answer(set, answer)
  PROVE  Asked' = Asked \ set /\ DueOffers' = DueOffers \ set
  BY DEF TablesOK, Answer, Asked, Unanswered, DueOffers

\* A change of one row changes one phase and one winner.
LEMMA RowMoves ==
  ASSUME ride \in [Request -> Ride], NEW r \in Request,
         \A q \in Request : q # r => ride'[q] = ride[q]
  PROVE  /\ Phases' = [Phases EXCEPT ![r] = BookPhase(r)']
         /\ Winners' = [Winners EXCEPT ![r] = ride'[r].driver]
         /\ ride'[r].driver = ride[r].driver => Winners' = Winners
<1>1. \A q \in Request : q # r => BookPhase(q)' = BookPhase(q)
  BY DEF BookPhase
<1>2. Phases' = [Phases EXCEPT ![r] = BookPhase(r)']
  BY <1>1 DEF Phases
<1>3. Winners' = [Winners EXCEPT ![r] = ride'[r].driver]
  BY DEF Winners
<1>4. ride'[r].driver = ride[r].driver => Winners' = Winners
  BY DEF Winners
<1> QED
  BY <1>2, <1>3, <1>4

LEMMA SetStatusMoves ==
  ASSUME ride \in [Request -> Ride], NEW r \in Request,
         NEW s \in {"none", "requested", "accepted", "completed", "paid", "cancelled"},
         SetStatus(r, s)
  PROVE  /\ Phases' = [Phases EXCEPT ![r] = BookPhase(r)']
         /\ Winners' = Winners
         /\ ride'[r].status = s
  BY SetStatusKeeps, RowMoves

LEMMA DueAreAsked == DueOffers \subseteq Asked
  BY DEF DueOffers, Asked, Unanswered

\* Overdue offers may be taken back at any time.
LEMMA Withdraws ==
  ASSUME TablesOK, NEW set, Answer(set, "expired"), set \cap Asked \subseteq DueOffers,
         UNCHANGED ride
  PROVE  [Book!BookNext]_Book!bookVars
<1> DEFINE late == set \cap DueOffers
<1>1. Asked' = Asked \ late /\ DueOffers' = DueOffers \ late
  BY AnswerDrops
<1>2. Book!Withdraw(late)
  BY <1>1 DEF Book!Withdraw, Book!Drop, Asked, BookPhase
<1> QED
  BY <1>2 DEF Book!BookNext

LEMMA OverdueMayGo ==
  ASSUME TablesOK, NEW w \in Worker, Answer(Overdue(w), "expired"), UNCHANGED ride
  PROVE  [Book!BookNext]_Book!bookVars
  BY Withdraws DEF Overdue

LEMMA Declines ==
  ASSUME TablesOK, NEW x \in Request \X Driver, Unanswered(x), Answer({x}, "rejected"),
         UNCHANGED ride
  PROVE  [Book!BookNext]_Book!bookVars
<1>1. Asked' = Asked \ {x} /\ DueOffers' = DueOffers \ {x}
  BY AnswerDrops
<1>2. Book!Decline(x)
  BY <1>1 DEF Book!Decline, Book!Drop, Asked, BookPhase
<1> QED
  BY <1>2 DEF Book!BookNext

\* A ride is cancelled under overdue offers only.
LEMMA CancelsInBook ==
  ASSUME TablesOK, NEW r \in Request, CancelUnfulfilled(r)
  PROVE  [Book!BookNext]_Book!bookVars
<1>1. CASE Unfulfilled(r)
  <2> DEFINE mine == {x \in DueOffers : x[1] = r}
  <2>1. SetStatus(r, "cancelled") /\ Answer(mine, "expired")
    BY <1>1 DEF CancelUnfulfilled
  <2>2. Asked' = Asked \ mine /\ DueOffers' = DueOffers \ mine
    BY <2>1, AnswerDrops
  <2>3. {x \in Asked : x[1] = r} = mine
    <3>1. ASSUME NEW x \in Asked, x[1] = r PROVE x \in DueOffers
      <4>1. x = <<r, x[2]>> /\ x[2] \in Driver
        BY <3>1 DEF Asked
      <4>2. offer[x] # "pending"
        BY <1>1, <4>1 DEF Unfulfilled, HasPendingOffer
      <4> QED
        BY <4>2 DEF Asked, Unanswered, DueOffers
    <3> QED
      BY <3>1, DueAreAsked
  <2>4. /\ Phases' = [Phases EXCEPT ![r] = "cancelled"] /\ Winners' = Winners
        /\ Phases[r] = "waiting"
    BY <1>1, <2>1, SetStatusMoves DEF TablesOK, BookPhase, Unfulfilled, Requested, Phases
  <2>5. Book!Cancel(r)
    BY <2>2, <2>3, <2>4
    DEF Book!Cancel, Book!Moves, Book!AskedFor, Book!Drop, Asked, Phases, Winners
  <2> QED
    BY <2>5 DEF Book!BookNext
<1>2. CASE ~Unfulfilled(r)
  BY <1>2, BookUnchanged DEF CancelUnfulfilled, db
<1> QED
  BY <1>1, <1>2

\* create_offer asks a driver, and for a ride, that nobody is asked in time.
LEMMA MakeOfferAsks ==
  ASSUME IInv, NEW w \in Worker, MakeOffer(w)
  PROVE  [Book!BookNext]_Book!bookVars
<1>0. TablesOK /\ JobsOK
  BY Parts
<1> DEFINE x == <<job[w].ride, job[w].driver>>
           inTheWay == {y \in Asked : y[1] = x[1] \/ y[2] = x[2]}
<1>1. job[w].ride \in Request /\ job[w].driver \in Driver
  BY <1>0, GoodTasks DEF MakeOffer, GoodTask, Searches
<1>2. inTheWay = Overdue(w)
  <2>1. ASSUME NEW y \in inTheWay PROVE y \in DueOffers
    <3>1. y = <<y[1], y[2]>> /\ y[1] \in Request /\ y[2] \in Driver /\ Unanswered(y)
      BY DEF Asked
    <3>2. offer[y] # "pending"
      BY <3>1 DEF MakeOffer, Unfulfilled, HasPendingOffer, PendingOfferDrivers
    <3> QED
      BY <3>1, <3>2 DEF Unanswered, DueOffers
  <2> QED
    BY <2>1, DueAreAsked DEF Overdue
<1>3. \A y \in Request \X Driver :
        offer'[y] = IF y = x THEN "pending"
                    ELSE IF y \in Overdue(w) THEN "expired" ELSE offer[y]
  BY <1>0 DEF MakeOffer, TablesOK
<1>4. Asked' = (Asked \ Overdue(w)) \cup {x} /\ DueOffers' = DueOffers \ Overdue(w)
  <2>1. x \in Request \X Driver /\ x \notin DueOffers \ Overdue(w)
    BY <1>1 DEF Overdue
  <2> HIDE DEF x
  <2> QED
    BY <1>3, <2>1 DEF Asked, Unanswered, DueOffers
<1>5. Phases[x[1]] = "waiting" /\ Phases' = Phases /\ Winners' = Winners
  BY <1>1 DEF MakeOffer, Unfulfilled, Requested, Phases, BookPhase, Winners
<1>6. inTheWay \subseteq DueOffers
  BY <1>2 DEF Overdue
<1> HIDE DEF x
<1>7. Book!Ask(x)
  BY <1>2, <1>4, <1>5, <1>6 DEF Book!Ask, Book!InTheWayOf, Asked, Phases, Winners
<1> QED
  BY <1>1, <1>7 DEF Book!BookNext, x

\* An accept wins a ride for the driver who was asked.
LEMMA AcceptWinsInBook ==
  ASSUME IInv, NEW j \in Job, NEW r \in Request, NEW d \in Driver, AcceptOffer(j, r, d)
  PROVE  [Book!BookNext]_Book!bookVars
<1>0. TablesOK
  BY Parts
<1> DEFINE x == <<r, d>>
           row == [status |-> "accepted", driver |-> d, age |-> 0]
<1>1. x \in Request \X Driver /\ x[1] = r /\ x[2] = d /\ offer[x] = "pending"
  BY DEF AcceptOffer
<1>2. Asked' = Asked \ {x} /\ DueOffers' = DueOffers \ {x} /\ x \in Asked
  <2>1. offer' = [offer EXCEPT ![x] = "accepted"]
    BY DEF AcceptOffer
  <2> HIDE DEF x
  <2> QED
    BY <1>0, <1>1, <2>1 DEF TablesOK, Asked, Unanswered, DueOffers
<1>3. /\ Phases' = [Phases EXCEPT ![r] = "driving"]
      /\ Winners' = [Winners EXCEPT ![r] = d]
      /\ Phases[r] = "waiting"
  <2>1. ride' = [ride EXCEPT ![r] = row]
    BY DEF AcceptOffer
  <2>2. row.status = "accepted" /\ row.driver = d
    OBVIOUS
  <2> HIDE DEF row
  <2>3. /\ ride'[r].status = "accepted" /\ ride'[r].driver = d
        /\ \A q \in Request : q # r => ride'[q] = ride[q]
    BY <1>0, <2>1, <2>2 DEF TablesOK
  <2> QED
    BY <1>0, <2>3, RowMoves DEF TablesOK, BookPhase, Phases, AcceptOffer, Requested
<1>4. \A q \in Request : ~(Winners[q] = d /\ Phases[q] = "driving")
  BY <1>0 DEF AcceptOffer, OnTrip, Winners, Phases, BookPhase, TablesOK, Ride
<1> HIDE DEF x
<1>5. Book!Win(x)
  BY <1>1, <1>2, <1>3, <1>4 DEF Book!Win, Book!Moves, Book!Driving, Book!Drop, Asked, Phases, Winners
<1> QED
  BY <1>1, <1>5 DEF Book!BookNext

LEMMA WorkerInBook ==
  ASSUME IInv, NEW w \in Worker, WorkerStep(w)
  PROVE  [Book!BookNext]_Book!bookVars
<1>0. TablesOK /\ JobsOK
  BY Parts
<1>1. CASE \/ CheckRide(w) \/ CheckOffers(w) \/ ExcludeTurnedDown(w) \/ ExcludeReserved(w)
           \/ FindDriver(w) \/ FindNobody(w) \/ DriverReserved(w)
           \/ LeavePool(w) \/ ReadPending(w) \/ EnterPool(w)
  BY <1>1, BookUnchanged
  DEF CheckRide, CheckOffers, ReadOn, ExcludeTurnedDown, ExcludeReserved, Exclude, FindDriver,
      FindNobody, DriverReserved, LeavePool, ReadPending, EnterPool, db
<1>2. CASE OfferEnds(w) \/ DriverRefused(w)
  BY <1>0, <1>2, OverdueMayGo, BookUnchanged DEF OfferEnds, DriverRefused
<1>3. CASE MakeOffer(w)
  BY <1>3, MakeOfferAsks
<1>4. CASE GiveUp(w)
  <2>1. job[w].ride \in Request
    BY <1>0, <1>4, GoodTasks DEF GiveUp, GoodTask, Searches
  <2> QED
    BY <1>0, <1>4, <2>1, CancelsInBook DEF GiveUp
<1>5. CASE DeclinePending(w)
  <2>1. job[w].driver \in Driver /\ job[w].ride \in Request
    BY <1>0, <1>5, GoodTasks DEF DeclinePending, GoodTask, Searches
  <2> QED
    BY <1>0, <1>5, <2>1, Declines, BookUnchanged DEF DeclinePending
<1> QED
  BY <1>1, <1>2, <1>3, <1>4, <1>5 DEF WorkerStep, SearchStep

LEMMA EventInBook ==
  ASSUME IInv, NEW j \in Job, Event(j)
  PROVE  [Book!BookNext]_Book!bookVars
<1>0. TablesOK
  BY Parts
<1>1. ASSUME NEW r \in Request, RequestRide(j, r) PROVE [Book!BookNext]_Book!bookVars
  <2>1. /\ Phases' = [Phases EXCEPT ![r] = "waiting"] /\ Winners' = Winners
        /\ Phases[r] = "none"
    BY <1>0, <1>1, SetStatusMoves DEF RequestRide, TablesOK, BookPhase, Phases
  <2>2. Book!Open(r)
    BY <1>1, <2>1
    DEF Book!Open, Book!Moves, RequestRide, Phases, Winners, DueOffers, Unanswered
  <2> QED
    BY <2>2 DEF Book!BookNext
<1>2. ASSUME NEW r \in Request, CollectPayment(j, r) PROVE UNCHANGED Book!bookVars
  <2> DEFINE after == BookPhase(r)'
  <2>1. Phases' = [Phases EXCEPT ![r] = after] /\ Winners' = Winners /\ ride'[r].status = "paid"
    BY <1>0, <1>2, SetStatusMoves DEF CollectPayment, TablesOK
  <2>2. after = "over" /\ Phases[r] = "over"
    BY <1>2, <2>1 DEF CollectPayment, BookPhase, Phases
  <2> HIDE DEF after
  <2>3. Phases' = Phases
    BY <2>1, <2>2 DEF Phases
  <2> QED
    BY <1>2, <2>1, <2>3
    DEF Book!bookVars, CollectPayment, Phases, Winners, DueOffers, Unanswered
<1>3. ASSUME NEW d \in Driver, GoOffline(j, d) \/ GoOnline(j, d)
      PROVE  UNCHANGED Book!bookVars
  BY <1>3, BookUnchanged DEF GoOffline, GoOnline, db
<1>4. ASSUME NEW r \in Request, NEW d \in Driver, AcceptTooLate(j, r, d) \/ TimerFires(j, r, d)
      PROVE  [Book!BookNext]_Book!bookVars
  BY <1>0, <1>4, Withdraws DEF AcceptTooLate, TimerFires, Asked, Unanswered, DueOffers
<1>5. ASSUME NEW r \in Request, NEW d \in Driver, RejectOffer(j, r, d)
      PROVE  [Book!BookNext]_Book!bookVars
  BY <1>0, <1>5, Declines DEF RejectOffer
<1> QED
  BY <1>1, <1>2, <1>3, <1>4, <1>5, AcceptWinsInBook DEF Event

LEMMA MaintenanceInBook ==
  ASSUME IInv, MaintenanceStep
  PROVE  [Book!BookNext]_Book!bookVars
<1>0. TablesOK /\ PassTypeOK
  BY Parts
<1>1. CASE NextPhase
  BY <1>1, BookUnchanged DEF NextPhase, db
<1>2. ASSUME NEW x, ExpireDue(x) PROVE [Book!BookNext]_Book!bookVars
  <2>1. CASE offer[x] = "due"
    BY <1>0, <1>2, <2>1, Withdraws DEF ExpireDue, DueOffers, Asked
  <2>2. CASE offer[x] # "due"
    BY <1>2, <2>2, BookUnchanged DEF ExpireDue
  <2> QED
    BY <2>1, <2>2
<1>3. ASSUME NEW x, CancelStale(x) PROVE [Book!BookNext]_Book!bookVars
  <2>1. x[1] \in Request
    BY <1>0, <1>3 DEF CancelStale, Handle, PassTypeOK
  <2> QED
    BY <1>0, <1>3, <2>1, CancelsInBook DEF CancelStale
<1>4. ASSUME NEW x, OfferAgain(x) PROVE UNCHANGED Book!bookVars
  BY <1>4, BookUnchanged DEF OfferAgain, db
<1> QED
  BY <1>1, <1>2, <1>3, <1>4 DEF MaintenanceStep

LEMMA EnvironmentInBook ==
  ASSUME IInv,
         \/ \E r \in Request : CompleteRide(r) \/ RideAges(r)
         \/ \E d \in Driver : Vanish(d)
         \/ \E x \in Request \X Driver : DeadlinePasses(x)
         \/ Crash
         \/ \E w \in Worker : Fail(w)
         \/ UNCHANGED vars
  PROVE  [Book!BookNext]_Book!bookVars
<1>0. TablesOK
  BY Parts
<1>1. ASSUME NEW r \in Request, CompleteRide(r) PROVE [Book!BookNext]_Book!bookVars
  <2>1. /\ Phases' = [Phases EXCEPT ![r] = "over"] /\ Winners' = Winners
        /\ Phases[r] = "driving"
    BY <1>0, <1>1, SetStatusMoves DEF CompleteRide, TablesOK, BookPhase, Phases
  <2>2. Book!Finish(r)
    BY <1>1, <2>1
    DEF Book!Finish, Book!Moves, CompleteRide, Phases, Winners, DueOffers, Unanswered
  <2> QED
    BY <2>2 DEF Book!BookNext
<1>2. ASSUME NEW r \in Request, RideAges(r) PROVE UNCHANGED Book!bookVars
  <2> DEFINE row == [ride[r] EXCEPT !.age = ride[r].age + 1]
  <2>1. row.status = ride[r].status /\ row.driver = ride[r].driver
    BY <1>0 DEF TablesOK, Ride
  <2>2. ride' = [ride EXCEPT ![r] = row]
    BY <1>2 DEF RideAges
  <2> HIDE DEF row
  <2>3. \A q \in Request :
          ride'[q].status = ride[q].status /\ ride'[q].driver = ride[q].driver
    BY <1>0, <2>1, <2>2 DEF TablesOK
  <2>4. \A q \in Request : BookPhase(q)' = BookPhase(q)
    BY <2>3 DEF BookPhase
  <2>5. Phases' = Phases /\ Winners' = Winners
    BY <2>3, <2>4 DEF Phases, Winners
  <2> QED
    BY <1>2, <2>5 DEF Book!bookVars, RideAges, Phases, Winners, DueOffers, Unanswered
<1>3. ASSUME NEW x \in Request \X Driver, DeadlinePasses(x)
      PROVE  [Book!BookNext]_Book!bookVars
  <2>1. /\ Asked' = Asked /\ x \in Asked
        /\ DueOffers' = DueOffers \cup {x} /\ x \notin DueOffers
    BY <1>0, <1>3 DEF DeadlinePasses, TablesOK, Asked, Unanswered, DueOffers
  <2>2. Book!Lapse(x)
    BY <1>3, <2>1 DEF Book!Lapse, DeadlinePasses, Asked, BookPhase
  <2> QED
    BY <2>2 DEF Book!BookNext
<1>4. ASSUME \/ \E d \in Driver : Vanish(d)
             \/ Crash
             \/ \E w \in Worker : Fail(w)
             \/ UNCHANGED vars
      PROVE  UNCHANGED Book!bookVars
  BY <1>4, BookUnchanged DEF Vanish, Crash, Fail, vars, db
<1>5. CASE \E r \in Request : CompleteRide(r) \/ RideAges(r)
  BY <1>1, <1>2, <1>5
<1>6. CASE \E x \in Request \X Driver : DeadlinePasses(x)
  BY <1>3, <1>6
<1> QED
  BY <1>4, <1>5, <1>6

LEMMA BookStart == Init => Book!BookInit
<1> SUFFICES ASSUME Init PROVE Book!BookInit
  OBVIOUS
<1>1. Phases = [r \in Request |-> "none"] /\ Winners = [r \in Request |-> Null]
  BY DEF Init, Phases, Winners, BookPhase
<1>2. Asked = {} /\ DueOffers = {}
  BY DEF Init, Asked, DueOffers, Unanswered
<1> QED
  BY <1>1, <1>2 DEF Book!BookInit, Phases, Winners, Asked

\* Dispatch keeps the offer book the ride service keeps (handlers.py:723),
\* with any number of greenlets searching, answering and dying.
THEOREM OfferBookKept == Spec => ImplementsOfferBook
<1>1. ASSUME IInv, [Next]_vars PROVE [Book!BookNext]_Book!bookVars
  BY <1>1, WorkerInBook, EventInBook, MaintenanceInBook, EnvironmentInBook DEF Next
<1> QED
  BY <1>1, BookStart, Invariance, PTL DEF Spec, ImplementsOfferBook, Book!BookSpec

=============================================================================
