------------------------ MODULE ActiveRideCache_proofs ------------------------
(***************************************************************************)
(* Proofs about ActiveRideCache, for any rides of the driver and any pings.*)
(***************************************************************************)
EXTENDS ActiveRideCache, TLAPS

\* A ride whose accept has not written the key yet is under way: nothing
\* reports progress of it before its simulator is started.
AcceptsAreActive == \A r \in Request : <<"accepted", r>> \in todo => Active(r)

\* Whoever has made the key wrong is still to write it, or has been overtaken.
WrongIsAccountedFor == Wrong(cache) => stale \/ todo # {}

IInv == TypeOK /\ AcceptsAreActive /\ WrongIsAccountedFor

-----------------------------------------------------------------------------
LEMMA InitHolds == Init => IInv
<1> SUFFICES ASSUME Init PROVE IInv
  OBVIOUS
<1>1. status \in [Request -> {"none", "active", "completed", "paid"}]
  BY DEF Init
<1>2. ping \in [Ping -> [at : {"idle", "query", "store", "tell"}, ride : Request \cup {None}]]
  BY DEF Init, Idle
<1>3. TypeOK
  BY <1>1, <1>2 DEF Init, TypeOK
<1> QED BY <1>3 DEF Init, IInv, AcceptsAreActive, WrongIsAccountedFor, Wrong

LEMMA PingTypes ==
  ASSUME TypeOK, NEW p \in Ping, NEW at \in {"idle", "query", "store", "tell"},
         NEW r \in Request \cup {None}, Goes(p, at, r)
  PROVE  ping' \in [Ping -> [at : {"idle", "query", "store", "tell"},
                             ride : Request \cup {None}]]
BY DEF TypeOK, Goes

-----------------------------------------------------------------------------
(* A ride moves on: its handler is among those still to write the key.     *)

LEMMA StatusTypes ==
  ASSUME TypeOK, NEW r \in Request, NEW s \in {"active", "completed", "paid"},
         NEW k \in {"accepted", "completed", "paid"},
         status' = [status EXCEPT ![r] = s], todo' = todo \cup {<<k, r>>},
         UNCHANGED <<cache, ping, moved, stale>>
  PROVE  TypeOK' /\ todo' # {}
<1>1. status' \in [Request -> {"none", "active", "completed", "paid"}]
  BY DEF TypeOK
<1>2. /\ todo' \subseteq {"accepted", "completed", "paid"} \X Request
      /\ todo' # {}
  <2>1. <<k, r>> \in {"accepted", "completed", "paid"} \X Request
    OBVIOUS
  <2>2. todo \subseteq {"accepted", "completed", "paid"} \X Request
    BY DEF TypeOK
  <2> QED BY <2>1, <2>2
<1>3. /\ cache' \in Request \cup {None, Absent} /\ moved' \in Request \cup {None}
      /\ ping' \in [Ping -> [at : {"idle", "query", "store", "tell"},
                             ride : Request \cup {None}]]
  BY DEF TypeOK
<1>4. stale' \in BOOLEAN
  BY Zenon DEF TypeOK
<1> QED BY <1>1, <1>2, <1>3, <1>4, Zenon DEF TypeOK

LEMMA AcceptStep ==
  ASSUME IInv, NEW r \in Request, Accept(r)
  PROVE  IInv'
<1>1. TypeOK' /\ todo' # {}
  BY StatusTypes DEF Accept, IInv
<1>2. AcceptsAreActive'
  BY DEF Accept, IInv, TypeOK, AcceptsAreActive, Active
<1> QED BY <1>1, <1>2 DEF IInv, WrongIsAccountedFor

LEMMA CompleteStep ==
  ASSUME IInv, NEW r \in Request, Complete(r)
  PROVE  IInv'
<1>1. TypeOK' /\ todo' # {}
  BY StatusTypes DEF Complete, IInv
<1>2. AcceptsAreActive'
  BY DEF Complete, IInv, TypeOK, AcceptsAreActive, Active
<1> QED BY <1>1, <1>2 DEF IInv, WrongIsAccountedFor

LEMMA PayStep ==
  ASSUME IInv, NEW r \in Request, Pay(r)
  PROVE  IInv'
<1>1. TypeOK' /\ todo' # {}
  BY StatusTypes DEF Pay, IInv
<1>2. AcceptsAreActive'
  BY DEF Pay, IInv, TypeOK, AcceptsAreActive, Active
<1> QED BY <1>1, <1>2 DEF IInv, WrongIsAccountedFor

\* An accept writes a ride that is under way; the others delete the key.
LEMMA WriteKeyStep ==
  ASSUME IInv, NEW x \in todo, WriteKey(x)
  PROVE  IInv'
<1>1. PICK k \in {"accepted", "completed", "paid"}, r \in Request : x = <<k, r>>
  BY DEF IInv, TypeOK
<1>2. cache' = (IF k = "accepted" THEN r ELSE Absent) /\ stale' = FALSE
  BY <1>1 DEF WriteKey
<1>3. TypeOK'
  BY <1>2 DEF WriteKey, IInv, TypeOK
<1>4. AcceptsAreActive'
  BY DEF WriteKey, IInv, AcceptsAreActive, Active
<1>5. CASE k = "accepted"
  <2>1. Active(r) /\ cache' = r
    BY <1>1, <1>2, <1>5 DEF IInv, AcceptsAreActive
  <2>2. r # None
    BY NamesAssumption
  <2>3. ~Wrong(cache)'
    BY <2>1, <2>2 DEF WriteKey, Wrong, Answers, Active
  <2> QED BY <1>3, <1>4, <2>3 DEF IInv, WrongIsAccountedFor
<1>6. CASE k # "accepted"
  BY <1>2, <1>3, <1>4, <1>6 DEF IInv, WrongIsAccountedFor, Wrong
<1> QED BY <1>5, <1>6

\* Whatever is written by Write, stale says whether it is wrong.
LEMMA WriteIsJudged ==
  ASSUME NEW v, Write(v), UNCHANGED status
  PROVE  Wrong(cache)' => stale'
BY DEF Write, Wrong, Answers, Active

LEMMA WriteFailsStep ==
  ASSUME IInv, NEW x \in todo, WriteFails(x)
  PROVE  IInv'
<1>1. Wrong(cache)' => stale'
  BY WriteIsJudged DEF WriteFails
<1>2. TypeOK'
  BY DEF WriteFails, Write, Wrong, IInv, TypeOK
<1>3. AcceptsAreActive'
  BY DEF WriteFails, IInv, AcceptsAreActive, Active
<1> QED BY <1>1, <1>2, <1>3 DEF IInv, WrongIsAccountedFor

-----------------------------------------------------------------------------
(* A ping writes the key in one of its steps only.                         *)

LEMMA SameKey ==
  ASSUME IInv, UNCHANGED <<status, cache, todo, stale>>
  PROVE  AcceptsAreActive' /\ WrongIsAccountedFor'
BY DEF IInv, AcceptsAreActive, WrongIsAccountedFor, Wrong, Answers, Active

LEMMA HandleStep ==
  ASSUME IInv, NEW p \in Ping, Handle(p)
  PROVE  IInv'
<1> USE DEF IInv
<1>1. CASE Get(p)
  <2>1. ping' \in [Ping -> [at : {"idle", "query", "store", "tell"},
                            ride : Request \cup {None}]]
    <3>1. CASE cache = Absent
      BY <1>1, <3>1, PingTypes DEF Get
    <3>2. CASE cache # Absent
      <4>1. cache \in Request \cup {None}
        BY <3>2 DEF TypeOK
      <4> QED BY <1>1, <3>2, <4>1, PingTypes DEF Get
    <3> QED BY <3>1, <3>2
  <2>2. TypeOK'
    BY <1>1, <2>1 DEF Get, TypeOK
  <2> QED BY <1>1, <2>2, SameKey DEF Get
<1>2. CASE Query(p)
  <2>1. ping' \in [Ping -> [at : {"idle", "query", "store", "tell"},
                            ride : Request \cup {None}]]
    BY <1>2, PingTypes DEF Query
  <2>2. TypeOK'
    BY <1>2, <2>1 DEF Query, TypeOK
  <2> QED BY <1>2, <2>2, SameKey DEF Query
<1>3. CASE Store(p)
  <2>1. ping[p].ride \in Request \cup {None}
    BY DEF TypeOK
  <2>2. ping' \in [Ping -> [at : {"idle", "query", "store", "tell"},
                            ride : Request \cup {None}]]
    BY <1>3, <2>1, PingTypes DEF Store
  <2>3. TypeOK'
    BY <1>3, <2>1, <2>2 DEF Store, Write, Wrong, TypeOK
  <2>4. AcceptsAreActive'
    BY <1>3 DEF Store, AcceptsAreActive, Active
  <2>5. Wrong(cache)' => stale'
    BY <1>3, WriteIsJudged DEF Store
  <2> QED BY <2>3, <2>4, <2>5 DEF WrongIsAccountedFor
<1>4. CASE Tell(p)
  <2>1. ping[p].ride \in Request \cup {None}
    BY DEF TypeOK
  <2>2. TypeOK'
    BY <1>4, <2>1 DEF Tell, TypeOK, Idle
  <2> QED BY <1>4, <2>2, SameKey DEF Tell
<1> QED BY <1>1, <1>2, <1>3, <1>4 DEF Handle

LEMMA ExpireStep ==
  ASSUME IInv, Expire
  PROVE  IInv'
BY DEF Expire, IInv, TypeOK, AcceptsAreActive, WrongIsAccountedFor, Wrong, Active

LEMMA StepHolds == IInv /\ [Next]_vars => IInv'
<1> SUFFICES ASSUME IInv, [Next]_vars PROVE IInv'
  OBVIOUS
<1>1. ASSUME NEW r \in Request, Accept(r) \/ Complete(r) \/ Pay(r) PROVE IInv'
  BY <1>1, AcceptStep, CompleteStep, PayStep
<1>2. ASSUME NEW x \in todo, WriteKey(x) \/ WriteFails(x) PROVE IInv'
  BY <1>2, WriteKeyStep, WriteFailsStep
<1>3. ASSUME NEW p \in Ping, Handle(p) PROVE IInv'
  BY <1>3, HandleStep
<1>4. CASE Expire
  BY <1>4, ExpireStep
<1>5. CASE UNCHANGED vars
  BY <1>5, SameKey DEF vars, IInv, TypeOK
<1> QED BY <1>1, <1>2, <1>3, <1>4, <1>5 DEF Next

-----------------------------------------------------------------------------
\* The inductive invariant.
THEOREM Invariance == Spec => []IInv
BY InitHolds, StepHolds, PTL DEF Spec

\* Every variable of ActiveRideCache keeps its type.
THEOREM TypeCorrect == Spec => []TypeOK
<1>1. IInv => TypeOK BY DEF IInv
<1> QED BY <1>1, Invariance, PTL

\* handlers.py:184: the key agrees with Postgres once every handler has written
\* it, unless a ping stored an overtaken answer or a Redis call failed.
THEOREM CacheAlwaysAgrees == Spec => []CacheAgrees
<1>1. IInv => CacheAgrees BY DEF IInv, WrongIsAccountedFor, CacheAgrees
<1> QED BY <1>1, Invariance, PTL
=============================================================================
