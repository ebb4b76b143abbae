---------------------------- MODULE DbPool_proofs ----------------------------
(***************************************************************************)
(* Proofs about DbPool, for any callers, connections and limits.           *)
(***************************************************************************)
EXTENDS DbPool, FiniteSetTheorems, TLAPS

Holders == {c \in Caller : pc[c] \in Inside}

Borrowers == {c \in Caller : pc[c] \in Borrowing}

\* Every slot is free, with a caller inside get_db_conn, or lost with a connection.
EverySlotAccounted ==
  slots + Cardinality(Holders) + Cardinality(lost) = DB_POOL_MAX_CONN

\* A connection is somewhere once: idle, lost, or with one caller.
OneHolderEach ==
  /\ \A c \in Caller : pc[c] \in Borrowing <=> conn[c] \in Conn
  /\ \A c \in Caller : conn[c] \in Conn => conn[c] \notin idle \cup lost
  /\ \A c, d \in Caller : conn[c] \in Conn /\ conn[c] = conn[d] => c = d
  /\ idle \cap lost = {}
  /\ \A k \in Conn : link[k] = "none" =>
       k \notin idle \cup lost /\ \A c \in Caller : conn[c] # k

IInv == TypeOK /\ EverySlotAccounted /\ OneHolderEach

Down == {k \in Conn : link[k] = "down"}

\* Each break downs one connection, and only those are ever lost: a lost
\* connection stays down, since nobody holds it to open it again.
LostWereBroken ==
  lost \subseteq Down /\ Cardinality(Down) <= breaks

-----------------------------------------------------------------------------
(* Counting who is inside.                                                 *)

LEMMA FiniteCounts ==
  TypeOK => /\ IsFiniteSet(Holders) /\ Cardinality(Holders) \in Nat
            /\ IsFiniteSet(lost) /\ Cardinality(lost) \in Nat
<1> SUFFICES ASSUME TypeOK PROVE IsFiniteSet(Holders) /\ IsFiniteSet(lost)
  BY FS_CardinalityType
<1> QED BY PoolAssumption, FS_Subset DEF TypeOK, Holders

\* A caller who changes pc without crossing get_db_conn's borders.
LEMMA StayCounts ==
  ASSUME TypeOK, NEW c \in Caller, NEW from, NEW to, At(c, from, to),
         from \in Inside <=> to \in Inside
  PROVE  Holders' = Holders
BY DEF TypeOK, Holders, At

LEMMA EnterCounts ==
  ASSUME TypeOK, NEW c \in Caller, NEW from, NEW to, At(c, from, to),
         from \notin Inside, to \in Inside
  PROVE  Cardinality(Holders)' = Cardinality(Holders) + 1
<1>1. Holders' = Holders \cup {c} /\ c \notin Holders
  BY DEF TypeOK, Holders, At
<1> QED BY <1>1, FiniteCounts, FS_AddElement

LEMMA LeaveCounts ==
  ASSUME TypeOK, NEW c \in Caller, NEW from, NEW to, At(c, from, to),
         from \in Inside, to \notin Inside
  PROVE  /\ Cardinality(Holders)' = Cardinality(Holders) - 1
         /\ Cardinality(Holders) >= 1
<1>1. Holders' = Holders \ {c} /\ c \in Holders
  BY DEF TypeOK, Holders, At
<1>2. Cardinality(Holders)' = Cardinality(Holders) - 1
  BY <1>1, FiniteCounts, FS_RemoveElement
<1>3. Cardinality(Holders) # 0
  BY <1>1, FiniteCounts, FS_EmptySet
<1> QED BY <1>2, <1>3, FiniteCounts

-----------------------------------------------------------------------------
LEMMA SlotsStayAccounted ==
  IInv /\ [Next]_vars => EverySlotAccounted' /\ slots' \in 0 .. DB_POOL_MAX_CONN
<1> SUFFICES ASSUME IInv, [Next]_vars
             PROVE  EverySlotAccounted' /\ slots' \in 0 .. DB_POOL_MAX_CONN
  OBVIOUS
<1> USE DEF IInv
<1>0. /\ slots \in Nat /\ DB_POOL_MAX_CONN \in Nat
      /\ Cardinality(Holders) \in Nat /\ Cardinality(lost) \in Nat
  BY FiniteCounts, PoolAssumption, FS_CardinalityType DEF TypeOK
<1>1. CASE Holders' = Holders /\ UNCHANGED <<slots, lost>>
  BY <1>0, <1>1 DEF EverySlotAccounted, TypeOK
<1>2. ASSUME NEW c \in Caller, Acquire(c)
      PROVE  EverySlotAccounted' /\ slots' \in 0 .. DB_POOL_MAX_CONN
  <2>1. Cardinality(Holders)' = Cardinality(Holders) + 1
    BY <1>2, EnterCounts DEF Acquire, Inside
  <2> QED BY <1>0, <1>2, <2>1 DEF Acquire, EverySlotAccounted
<1>3. ASSUME NEW c \in Caller, BorrowFails(c) \/ Release(c)
      PROVE  EverySlotAccounted' /\ slots' \in 0 .. DB_POOL_MAX_CONN
  <2>1. /\ Cardinality(Holders)' = Cardinality(Holders) - 1
        /\ Cardinality(Holders) >= 1
    BY <1>3, LeaveCounts DEF BorrowFails, Release, Inside
  <2> QED BY <1>0, <1>3, <2>1 DEF BorrowFails, Release, EverySlotAccounted
<1>4. ASSUME NEW c \in Caller, PutConnRaises(c)
      PROVE  EverySlotAccounted' /\ slots' \in 0 .. DB_POOL_MAX_CONN
  <2>1. /\ Cardinality(Holders)' = Cardinality(Holders) - 1
        /\ Cardinality(Holders) >= 1
    BY <1>4, LeaveCounts DEF PutConnRaises, Inside
  <2>2. conn[c] \in Conn /\ conn[c] \notin lost
    BY <1>4 DEF PutConnRaises, At, OneHolderEach, Borrowing
  <2>3. Cardinality(lost)' = Cardinality(lost) + 1
    BY <1>4, <2>2, FiniteCounts, FS_AddElement DEF PutConnRaises
  <2> QED BY <1>0, <1>4, <2>1, <2>3 DEF PutConnRaises, EverySlotAccounted
<1>5. ASSUME NEW c \in Caller,
             Ask(c) \/ Borrow(c) \/ BodyRaises(c) \/ BodyReturns(c)
             \/ Rollback(c) \/ PutConn(c)
      PROVE  Holders' = Holders /\ UNCHANGED <<slots, lost>>
  BY <1>5, StayCounts
     DEF Ask, Borrow, BodyRaises, BodyReturns, Rollback, PutConn, Inside
<1>6. ASSUME NEW c \in Caller, Execute(c)
      PROVE  Holders' = Holders /\ UNCHANGED <<slots, lost>>
  <2>1. CASE UNCHANGED pc
    BY <1>6, <2>1 DEF Execute, Holders
  <2>2. CASE At(c, "using", "failed")
    BY <1>6, <2>2, StayCounts DEF Execute, Inside
  <2> QED BY <1>6, <2>1, <2>2 DEF Execute
<1>7. ASSUME NEW k \in Conn, Break(k)
      PROVE  Holders' = Holders /\ UNCHANGED <<slots, lost>>
  BY <1>7 DEF Break, Holders
<1>8. CASE UNCHANGED vars
  BY <1>1, <1>8 DEF vars, Holders
<1> QED BY <1>1, <1>2, <1>3, <1>4, <1>5, <1>6, <1>7, <1>8 DEF Next, Step

LEMMA HoldersStayApart ==
  IInv /\ [Next]_vars => OneHolderEach'
<1> SUFFICES ASSUME IInv, [Next]_vars PROVE OneHolderEach'
  OBVIOUS
<1> USE PoolAssumption DEF IInv, TypeOK, OneHolderEach, Inside, Borrowing, At
<1>1. ASSUME NEW c \in Caller, Ask(c) \/ Acquire(c) \/ BorrowFails(c) \/ Release(c)
      PROVE  OneHolderEach'
  BY <1>1 DEF Ask, Acquire, BorrowFails, Release
<1>2. ASSUME NEW c \in Caller, Borrow(c) PROVE OneHolderEach'
  BY <1>2 DEF Borrow
<1>3. ASSUME NEW c \in Caller, Execute(c) PROVE OneHolderEach'
  BY <1>3 DEF Execute
<1>4. ASSUME NEW c \in Caller, BodyRaises(c) \/ BodyReturns(c) PROVE OneHolderEach'
  BY <1>4 DEF BodyRaises, BodyReturns
<1>5. ASSUME NEW c \in Caller, Rollback(c) PROVE OneHolderEach'
  BY <1>5 DEF Rollback
<1>6. ASSUME NEW c \in Caller, PutConn(c) PROVE OneHolderEach'
  BY <1>6 DEF PutConn
<1>7. ASSUME NEW c \in Caller, PutConnRaises(c) PROVE OneHolderEach'
  BY <1>7 DEF PutConnRaises, Unusable
<1>8. ASSUME NEW k \in Conn, Break(k) PROVE OneHolderEach'
  BY <1>8 DEF Break
<1>9. CASE UNCHANGED vars
  BY <1>9 DEF vars
<1> QED BY <1>1, <1>2, <1>3, <1>4, <1>5, <1>6, <1>7, <1>8, <1>9 DEF Next, Step

LEMMA TypesStay ==
  IInv /\ [Next]_vars => TypeOK'
<1> SUFFICES ASSUME IInv, [Next]_vars, slots' \in 0 .. DB_POOL_MAX_CONN PROVE TypeOK'
  BY SlotsStayAccounted
<1> USE PoolAssumption DEF IInv, TypeOK, Inside, At
<1>1. ASSUME NEW c \in Caller, Ask(c) \/ Acquire(c) \/ BorrowFails(c) \/ Release(c)
      PROVE  TypeOK'
  BY <1>1 DEF Ask, Acquire, BorrowFails, Release
<1>2. ASSUME NEW c \in Caller, Borrow(c) PROVE TypeOK'
  BY <1>2 DEF Borrow
<1>3. ASSUME NEW c \in Caller, Execute(c) PROVE TypeOK'
  <2>0. conn[c] \in Conn
    BY <1>3 DEF Execute, OneHolderEach, Borrowing
  <2>1. CASE link[conn[c]] = "up"
    <3>1. open' \subseteq Conn
      BY <1>3, <2>0, <2>1 DEF Execute
    <3> QED BY <1>3, <2>1, <3>1 DEF Execute
  <2>2. CASE link[conn[c]] # "up"
    <3>1. pc' \in [Caller -> Inside \cup {"outside", "waiting"}]
      BY <1>3, <2>2 DEF Execute
    <3>2. link' \in [Conn -> {"none", "up", "down", "closed"}] /\ open' \subseteq Conn
      BY <1>3, <2>2 DEF Execute
    <3> QED BY <1>3, <2>2, <3>1, <3>2 DEF Execute
  <2> QED BY <2>1, <2>2
<1>4. ASSUME NEW c \in Caller, BodyRaises(c) \/ BodyReturns(c) \/ Rollback(c)
      PROVE  TypeOK'
  BY <1>4 DEF BodyRaises, BodyReturns, Rollback
<1>5. ASSUME NEW c \in Caller, PutConn(c) \/ PutConnRaises(c) PROVE TypeOK'
  <2>1. conn[c] \in Conn
    BY <1>5 DEF PutConn, PutConnRaises, OneHolderEach, Borrowing
  <2> QED BY <1>5, <2>1 DEF PutConn, PutConnRaises
<1>6. ASSUME NEW k \in Conn, Break(k) PROVE TypeOK'
  BY <1>6 DEF Break
<1>7. CASE UNCHANGED vars
  BY <1>7 DEF vars
<1> QED BY <1>1, <1>2, <1>3, <1>4, <1>5, <1>6, <1>7 DEF Next, Step

-----------------------------------------------------------------------------
\* The inductive invariant of get_db_conn: types, every slot accounted for,
\* and no connection in two hands.
THEOREM Invariance == Spec => []IInv
<1>1. Init => IInv
  <2> SUFFICES ASSUME Init PROVE IInv
    OBVIOUS
  <2>1. TypeOK
    BY PoolAssumption, FS_CardinalityType DEF Init, TypeOK, Inside
  <2>2. Holders = {} /\ lost = {}
    BY DEF Init, Holders, Inside
  <2>3. EverySlotAccounted
    BY <2>2, FS_EmptySet, PoolAssumption, FS_CardinalityType DEF Init, EverySlotAccounted
  <2>4. OneHolderEach
    BY PoolAssumption DEF Init, OneHolderEach, Borrowing
  <2> QED BY <2>1, <2>3, <2>4 DEF IInv
<1>2. IInv /\ [Next]_vars => IInv'
  BY SlotsStayAccounted, HoldersStayApart, TypesStay DEF IInv
<1> QED BY <1>1, <1>2, PTL DEF Spec

\* Every variable of DbPool keeps its type; the semaphore is never released
\* above its initial count, which would raise in release().
THEOREM TypeCorrect == Spec => []TypeOK
BY Invariance, PTL DEF IInv

\* A slot is missing only with a connection whose putconn raised, and two
\* greenlets never use one connection.
THEOREM SlotsAndHolders == Spec => [](EverySlotAccounted /\ OneHolderEach)
BY Invariance, PTL DEF IInv

\* db.py:66: whoever has a slot and no connection yet finds one to borrow.
THEOREM SlotsGuardThePool == Spec => []NoPoolError
<1>1. IInv => NoPoolError
  <2> SUFFICES ASSUME IInv, NEW c \in Caller, pc[c] = "entered"
               PROVE  Lent < DB_POOL_MAX_CONN
    BY DEF NoPoolError
  <2> USE DEF IInv
  <2>1. /\ slots \in Nat /\ DB_POOL_MAX_CONN \in Nat
        /\ IsFiniteSet(Holders) /\ Cardinality(Holders) \in Nat
        /\ Cardinality(lost) \in Nat
    BY FiniteCounts, PoolAssumption, FS_CardinalityType DEF TypeOK
  <2>2. c \in Holders /\ Borrowers \subseteq Holders \ {c}
    BY DEF Holders, Borrowers, Inside, Borrowing
  <2>3. /\ IsFiniteSet(Holders \ {c})
        /\ Cardinality(Holders \ {c}) = Cardinality(Holders) - 1
    BY <2>1, <2>2, FS_RemoveElement
  <2>4. Cardinality(Borrowers) <= Cardinality(Holders) - 1 /\ Cardinality(Borrowers) \in Nat
    BY <2>2, <2>3, FS_Subset, FS_CardinalityType
  <2> QED BY <2>1, <2>4 DEF EverySlotAccounted, Lent, Borrowers
<1> QED BY <1>1, Invariance, PTL

-----------------------------------------------------------------------------
(* What a break costs.                                                     *)

LEMMA DownIsFinite ==
  /\ IsFiniteSet(Down) /\ Cardinality(Down) \in Nat
  /\ \A S \in SUBSET Down : IsFiniteSet(S) /\ Cardinality(S) <= Cardinality(Down)
<1>1. IsFiniteSet(Down)
  BY PoolAssumption, FS_Subset DEF Down
<1> QED BY <1>1, FS_Subset, FS_CardinalityType

\* A step that downs no connection, and lifts up none that is lost.
LEMMA FewerDown ==
  ASSUME IInv, LostWereBroken, IInv', Down' \subseteq Down, lost' \subseteq Down',
         breaks' = breaks
  PROVE  LostWereBroken'
<1>1. Cardinality(Down') <= Cardinality(Down) /\ Cardinality(Down') \in Nat
  BY DownIsFinite, FS_CardinalityType
<1> QED BY <1>1, DownIsFinite DEF LostWereBroken, IInv, TypeOK

LEMMA BreaksStayCounted ==
  ASSUME IInv, LostWereBroken, IInv', [Next]_vars
  PROVE  LostWereBroken'
<1> USE DEF At
<1>1. CASE UNCHANGED <<link, lost, breaks>>
  BY <1>1 DEF LostWereBroken, Down
<1>2. ASSUME NEW c \in Caller, Borrow(c) PROVE LostWereBroken'
  <2>1. Down' = Down /\ UNCHANGED <<lost, breaks>>
    BY <1>2 DEF Borrow, Down, IInv, TypeOK
  <2> QED BY <2>1, FewerDown DEF LostWereBroken
<1>3. ASSUME NEW c \in Caller, Execute(c) \/ Rollback(c) \/ PutConn(c)
      PROVE  LostWereBroken'
  <2>1. conn[c] \in Conn /\ conn[c] \notin lost
    BY <1>3 DEF Execute, Rollback, PutConn, IInv, OneHolderEach, Borrowing
  <2>2. UNCHANGED <<lost, breaks>> /\ Down \ {conn[c]} \subseteq Down' /\ Down' \subseteq Down
    BY <1>3, <2>1 DEF Execute, Rollback, PutConn, Down, IInv, TypeOK
  <2> QED BY <2>1, <2>2, FewerDown DEF LostWereBroken
<1>4. ASSUME NEW c \in Caller, PutConnRaises(c) PROVE LostWereBroken'
  <2>1. conn[c] \in Down /\ lost' = lost \cup {conn[c]} /\ UNCHANGED <<link, breaks>>
    BY <1>4 DEF PutConnRaises, Unusable, Down, IInv, OneHolderEach, Borrowing
  <2> QED BY <2>1 DEF LostWereBroken, Down
<1>5. ASSUME NEW k \in Conn, Break(k) PROVE LostWereBroken'
  <2>1. Down' = Down \cup {k} /\ k \notin Down /\ lost' = lost /\ breaks' = breaks + 1
    BY <1>5 DEF Break, Down, IInv, TypeOK
  <2>2. Cardinality(Down') = Cardinality(Down) + 1
    BY <2>1, DownIsFinite, FS_AddElement
  <2> QED BY <2>1, <2>2, DownIsFinite DEF LostWereBroken, IInv, TypeOK
<1>6. ASSUME NEW c \in Caller,
             Ask(c) \/ Acquire(c) \/ BorrowFails(c) \/ BodyRaises(c) \/ BodyReturns(c)
             \/ Release(c)
      PROVE  LostWereBroken'
  BY <1>1, <1>6 DEF Ask, Acquire, BorrowFails, BodyRaises, BodyReturns, Release
<1>7. CASE UNCHANGED vars
  BY <1>1, <1>7 DEF vars
<1> QED BY <1>2, <1>3, <1>4, <1>5, <1>6, <1>7 DEF Next, Step

\* However calls end or fail, a break costs one slot at most and nothing
\* else costs any.  While fewer connections broke than there are slots, a slot
\* is free or a caller is inside: what a waiting caller waits for exists.
THEOREM OneSlotPerBreak ==
  Spec => [](/\ BreaksCostSlots
             /\ breaks < DB_POOL_MAX_CONN => slots > 0 \/ \E c \in Caller : pc[c] \in Inside)
<1>1. Init => LostWereBroken
  <2> SUFFICES ASSUME Init PROVE LostWereBroken
    OBVIOUS
  <2>1. Down = {} /\ lost = {} /\ breaks = 0
    BY DEF Init, Down
  <2> QED BY <2>1, FS_EmptySet DEF LostWereBroken
<1>2. IInv /\ LostWereBroken /\ IInv' /\ [Next]_vars => LostWereBroken'
  BY BreaksStayCounted
<1>3. ASSUME IInv, LostWereBroken
      PROVE  /\ BreaksCostSlots
             /\ breaks < DB_POOL_MAX_CONN => slots > 0 \/ \E c \in Caller : pc[c] \in Inside
  <2>1. Cardinality(lost) <= breaks /\ Cardinality(lost) \in Nat /\ breaks \in Nat
    <3>1. /\ breaks \in Nat /\ lost \subseteq Down /\ Cardinality(Down) <= breaks
          /\ Cardinality(lost) \in Nat
      BY <1>3, FiniteCounts DEF LostWereBroken, IInv, TypeOK
    <3> QED BY <3>1, DownIsFinite
  <2>2. /\ slots + Cardinality(Holders) + Cardinality(lost) = DB_POOL_MAX_CONN
        /\ slots \in Nat /\ DB_POOL_MAX_CONN \in Nat /\ Cardinality(Holders) \in Nat
    BY <1>3, FiniteCounts, PoolAssumption, FS_CardinalityType
       DEF IInv, EverySlotAccounted, TypeOK
  <2>3. BreaksCostSlots
    BY <2>1, <2>2 DEF BreaksCostSlots, Holders
  <2>4. ASSUME breaks < DB_POOL_MAX_CONN, slots = 0 PROVE \E c \in Caller : pc[c] \in Inside
    <3>1. Cardinality(Holders) # 0
      BY <2>1, <2>2, <2>4
    <3>2. Holders # {}
      BY <3>1, FS_EmptySet
    <3> QED BY <3>2 DEF Holders
  <2> QED BY <2>2, <2>3, <2>4
<1> QED BY <1>1, <1>2, <1>3, Invariance, PTL DEF Spec
=============================================================================
