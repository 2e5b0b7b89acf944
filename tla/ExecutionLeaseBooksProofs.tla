---------------------- MODULE ExecutionLeaseBooksProofs ----------------------
(***************************************************************************)
(* What a conversation counts as reserved is what its users have: the      *)
(* proof of ReservationsBalance, on top of the invariant of the lease.     *)
(***************************************************************************)
EXTENDS ExecutionLeaseProofs

-----------------------------------------------------------------------------
(***************************************************************************)
(* Units: those of each user in U are the elements of F[u].                *)
(***************************************************************************)
Units(F, U) == UNION {{u} \X F[u] : u \in U}

\* The units of two users are never the same.
LEMMA UnitsSplit ==
    ASSUME NEW F, NEW U, NEW u, u \notin U
    PROVE  /\ Units(F, U \cup {u}) = Units(F, U) \cup ({u} \X F[u])
           /\ Units(F, U) \cap ({u} \X F[u]) = {}
  BY DEF Units

\* A user more has as many units more as were counted for it.
LEMMA UnitsCounted ==
    ASSUME NEW F, NEW U, NEW u, u \notin U, IsFiniteSet(F[u]),
           IsFiniteSet(Units(F, U)) \/ IsFiniteSet(Units(F, U \cup {u}))
    PROVE  /\ IsFiniteSet(Units(F, U)) /\ IsFiniteSet(Units(F, U \cup {u}))
           /\ Cardinality(Units(F, U)) \in Nat /\ Cardinality(F[u]) \in Nat
           /\ Cardinality(Units(F, U \cup {u})) = Cardinality(Units(F, U)) + Cardinality(F[u])
<1> DEFINE own == {u} \X F[u]
<1>1. IsFiniteSet({u}) /\ Cardinality({u}) = 1
  BY FS_Singleton
<1>2. Cardinality(F[u]) \in Nat
  BY FS_CardinalityType
<1>3. IsFiniteSet(own) /\ Cardinality(own) = Cardinality(F[u])
  <2>1. IsFiniteSet(own) /\ Cardinality(own) = Cardinality({u}) * Cardinality(F[u])
    BY <1>1, FS_Product
  <2> HIDE DEF own
  <2> QED
    BY <1>1, <1>2, <2>1
<1>4. Units(F, U \cup {u}) = Units(F, U) \cup own /\ Units(F, U) \cap own = {}
  BY UnitsSplit
<1> HIDE DEF own
<1>5. IsFiniteSet(Units(F, U))
  <2>1. Units(F, U) \in SUBSET Units(F, U \cup {u})
    BY <1>4
  <2> QED
    BY <2>1, FS_Subset
<1>6. Cardinality(Units(F, U)) \in Nat
  BY <1>5, FS_CardinalityType
<1>7. /\ IsFiniteSet(Units(F, U \cup {u}))
      /\ Cardinality(Units(F, U \cup {u}))
           = Cardinality(Units(F, U)) + Cardinality(own) - Cardinality(Units(F, U) \cap own)
  BY <1>3, <1>4, <1>5, FS_Union
<1>8. Cardinality(Units(F, U) \cap own) = 0
  BY <1>4, FS_EmptySet
<1> QED
  BY <1>2, <1>3, <1>5, <1>6, <1>7, <1>8

\* (the same, with the number that was counted)
LEMMA CountedAs ==
    ASSUME NEW F, NEW U, NEW u, u \notin U, NEW n, IsFiniteSet(F[u]), Cardinality(F[u]) = n,
           IsFiniteSet(Units(F, U)) \/ IsFiniteSet(Units(F, U \cup {u}))
    PROVE  /\ IsFiniteSet(Units(F, U)) /\ IsFiniteSet(Units(F, U \cup {u}))
           /\ Cardinality(Units(F, U)) \in Nat /\ n \in Nat
           /\ Cardinality(Units(F, U \cup {u})) = Cardinality(Units(F, U)) + n
  BY UnitsCounted

\* A user without units does not count.
LEMMA UnitsOfNone ==
    ASSUME NEW F, NEW U, NEW u, F[u] = {}
    PROVE  Units(F, U \cup {u}) = Units(F, U)
  BY DEF Units

\* The units of the users in U depend on theirs alone.
LEMMA UnitsSame ==
    ASSUME NEW F, NEW G, NEW U, \A u \in U : F[u] = G[u]
    PROVE  Units(F, U) = Units(G, U)
  BY DEF Units

-----------------------------------------------------------------------------
(***************************************************************************)
(* The books of a lease that is neither closed nor being closed.           *)
(***************************************************************************)
Open == current /\ exec.closing = {}

Reserving == {"persistent", "transient", "committing"}

Slots == [u \in Op |-> 1 .. SlotsOf[u]]

WithAgents == exec.pending \cup exec.persistent

WithSlots == exec.pending \cup (exec.users \ {exec.main}) \cup ReleasingTransient

\* The state has the pending users of the top-ups that were reserved on it.
PendingOK ==
    /\ exec.pending = {as[o] : o \in attached}
    /\ \A o \in attached : pc[o] \in Reserving

\* A user has one share: it is pending, or a user, or gives up its slots.
SharesOK ==
    /\ \A u \in exec.persistent : pc[u] # "new"
    /\ \A u \in exec.users : u \notin ReleasingTransient
    /\ exec.main \notin ReleasingTransient
    /\ \A o \in Op : pc[o] \in Retaining =>
         as[o] \notin exec.users \cup exec.persistent \cup ReleasingTransient

BalanceOK ==
    /\ IsFiniteSet(Units(topUp, WithAgents)) /\ IsFiniteSet(Units(Slots, WithSlots))
    /\ exec.reserved = UnitsOf[exec.main] + Cardinality(Units(topUp, WithAgents))
                                          + Cardinality(Units(Slots, WithSlots))

BooksOK == Open => PendingOK /\ SharesOK /\ BalanceOK

\* The units are those that ReservationsBalance counts.
LEMMA BooksBalance == ASSUME IInv, BooksOK PROVE ReservationsBalance
<1>1. exec.pending \subseteq Op /\ exec.users \subseteq Op
  BY DEF IInv, LeaseOK, ShapeOK, ExecType
<1>2. ReservedAgents = Units(topUp, WithAgents)
  BY DEF ReservedAgents, Units, WithAgents
<1>3. ReservedSlots = Units(Slots, WithSlots)
  <2>1. WithSlots \subseteq Op
    BY <1>1 DEF WithSlots, ReleasingTransient
  <2>2. \A u \in WithSlots : Slots[u] = 1 .. SlotsOf[u]
    BY <2>1 DEF Slots
  <2>3. ReservedSlots = UNION {{u} \X (1 .. SlotsOf[u]) : u \in WithSlots}
    BY DEF ReservedSlots, WithSlots
  <2> QED
    BY <2>2, <2>3 DEF Units
<1> QED
  BY <1>2, <1>3 DEF BooksOK, Open, BalanceOK, ReservationsBalance

\* The slots of a user are as many as it names.
LEMMA SlotsCounted ==
    ASSUME NEW u \in Op
    PROVE  IsFiniteSet(Slots[u]) /\ Cardinality(Slots[u]) = SlotsOf[u] /\ SlotsOf[u] \in Nat
<1>1. SlotsOf[u] \in Nat
  BY Constants
<1>2. /\ IsFiniteSet(1 .. SlotsOf[u])
      /\ Cardinality(1 .. SlotsOf[u]) = IF 1 > SlotsOf[u] THEN 0 ELSE SlotsOf[u] - 1 + 1
  BY <1>1, FS_Interval
<1> QED
  BY <1>1, <1>2 DEF Slots

\* The agents of a top-up are finitely many.
LEMMA AgentsCounted ==
    ASSUME TypeOK, NEW u \in Op
    PROVE  IsFiniteSet(topUp[u]) /\ Cardinality(topUp[u]) \in Nat
<1>1. topUp[u] \in SUBSET AgentsOf[u] /\ IsFiniteSet(AgentsOf[u])
  BY Constants DEF TypeOK
<1> QED
  BY <1>1, FS_Subset, FS_CardinalityType

\* A top-up that is reserved is nobody else's.
LEMMA PendingIs ==
    ASSUME IInv, Open, PendingOK, SharesOK, NEW o \in Op, pc[o] \in Retaining
    PROVE  /\ as[o] \in Op /\ as[o] # exec.main
           /\ as[o] \notin exec.users \cup exec.persistent \cup ReleasingTransient
           /\ as[o] \in exec.pending <=> o \in attached
           /\ exec.pending \ {as[o]} = {as[p] : p \in attached \ {o}}
<1>1. attached \subseteq Op /\ as[o] \in Op
  BY DEF IInv, TypeOK
<1>2. \A p \in attached \ {o} : as[p] # as[o]
  <2>1. \A p \in attached : pc[p] \in Retaining
    BY DEF PendingOK, Reserving, Retaining
  <2> QED
    BY <1>1, <2>1, UsersDiffer DEF IInv, LeaseOK
<1>3. as[o] # exec.main
  BY DEF IInv, LeaseOK, StageOK, Open
<1>4. exec.pending = {as[p] : p \in attached}
  BY DEF PendingOK
<1> QED
  BY <1>1, <1>2, <1>3, <1>4 DEF SharesOK

-----------------------------------------------------------------------------
(***************************************************************************)
(* Steps that leave the books alone.                                       *)
(***************************************************************************)

\* What neither touches the state nor its operations changes nothing.
LEMMA BooksStay ==
    ASSUME BooksOK, UNCHANGED <<pc, as, topUp, exec, attached>>, current' => current
    PROVE  BooksOK'
  BY DEF BooksOK, Open, PendingOK, SharesOK, BalanceOK, WithAgents, WithSlots, ReleasingTransient,
         Slots

\* Nor does an operation that moves on outside of the books.
LEMMA BooksMove ==
    ASSUME IInv, BooksOK, NEW o \in Op, \A p \in Op \ {o} : pc'[p] = pc[p],
           UNCHANGED <<as, topUp, exec, current, attached>>,
           {pc[o], pc'[o]} \cap {"oneTransient", "lastTransient"} = {},
           pc[o] \in Reserving => pc'[o] \in Reserving,
           pc'[o] \in Retaining => pc[o] \in Retaining \/ pc[o] = "new",
           pc'[o] # "new"
    PROVE  BooksOK'
<1> SUFFICES ASSUME Open PROVE PendingOK' /\ SharesOK' /\ BalanceOK'
  BY DEF BooksOK, Open
<1>1. PendingOK /\ SharesOK /\ BalanceOK
  BY DEF BooksOK
<1>2. attached \subseteq Op /\ exec.persistent \subseteq Op /\ exec.users \subseteq Op
  BY DEF IInv, TypeOK, LeaseOK, ShapeOK, ExecType
<1>3. ReleasingTransient' = ReleasingTransient
  BY DEF ReleasingTransient
<1>4. PendingOK'
  BY <1>1, <1>2 DEF PendingOK
<1>5. SharesOK'
  <2>1. \A u \in exec.persistent : pc'[u] # "new"
    BY <1>1, <1>2 DEF SharesOK
  <2>2. ASSUME NEW p \in Op, pc'[p] \in Retaining
        PROVE  as[p] \notin exec.users \cup exec.persistent \cup ReleasingTransient
    <3>1. CASE pc[p] \in Retaining
      BY <1>1, <3>1 DEF SharesOK
    <3>2. CASE p = o /\ pc[o] = "new"
      <4>1. as[o] = o
        BY <3>2 DEF IInv, LeaseOK, RunsOK
      <4>2. o \notin exec.users
        BY <3>2 DEF IInv, LeaseOK, UsersOK, Fresh
      <4>3. o \notin exec.persistent
        BY <1>1, <3>2 DEF SharesOK
      <4>4. o \notin ReleasingTransient
        BY <3>2 DEF ReleasingTransient
      <4> QED
        BY <3>2, <4>1, <4>2, <4>3, <4>4
    <3> QED
      BY <2>2, <3>1, <3>2
  <2> QED
    BY <1>1, <1>3, <2>1, <2>2 DEF SharesOK
<1>6. BalanceOK'
  BY <1>1, <1>3 DEF BalanceOK, WithAgents, WithSlots, Slots
<1> QED
  BY <1>4, <1>5, <1>6

\* Retentions and requests that end without a change of the state.
LEMMA BooksOfRequests ==
    ASSUME IInv, BooksOK, NEW o \in Op,
           \/ Request(o) \/ RetainRefused(o) \/ RetainFirst(o) \/ AcquireFirst(o) \/ FirstFails(o)
           \/ GrantPersistent(o) \/ GrantTransient(o)
           \/ RequestRelease(o) \/ ReleaseNothing(o) \/ RequestSuspension(o)
           \/ SuspensionRefused(o) \/ IterationEnds(o) \/ ContinueHeld(o) \/ ContinueRefused(o)
           \/ \E failed \in SUBSET held : Abandon(o, failed)
    PROVE  BooksOK'
<1>1. UNCHANGED <<as, topUp, exec, current, attached>>
  BY DEF Request, RetainRefused, RetainFirst, AcquireFirst, FirstFails, GrantPersistent,
         GrantTransient, RequestRelease, ReleaseNothing, RequestSuspension, SuspensionRefused,
         IterationEnds, ContinueHeld, ContinueRefused, Abandon, Handover, stateVars
<1>2. PICK at \in {"queued", "identity", "first", "transient", "committing", "releasing", "done",
                   "suspending", "ending", "between", "running"} :
        /\ pc' = [pc EXCEPT ![o] = at]
        /\ at = "queued" => pc[o] = "new"
        /\ at \in {"identity", "first"} => pc[o] \in {"queued", "identity"}
        /\ at \in Reserving => pc[o] \in Reserving
        /\ at \notin Reserving => pc[o] \notin Reserving
        /\ pc[o] \notin {"oneTransient", "lastTransient"}
  <2> USE DEF Reserving
  <2>1. CASE Request(o) \/ RetainFirst(o) \/ AcquireFirst(o)
    BY <2>1 DEF Request, RetainFirst, AcquireFirst
  <2>2. CASE RetainRefused(o) \/ FirstFails(o) \/ \E failed \in SUBSET held : Abandon(o, failed)
    <3>1. /\ pc[o] \in {"queued", "identity", "first", "abandoning"}
          /\ pc' = [pc EXCEPT ![o] = IF o \in retaking THEN "ending" ELSE "done"]
      BY <2>2 DEF RetainRefused, FirstFails, Abandon, Failed
    <3>2. CASE o \in retaking
      BY <3>1, <3>2
    <3>3. CASE o \notin retaking
      BY <3>1, <3>3
    <3> QED
      BY <3>2, <3>3
  <2>3. CASE GrantPersistent(o)
    <3>1. /\ pc[o] = "persistent"
          /\ pc' = [pc EXCEPT ![o] = AfterReservation(as[o], {})]
      BY <2>3 DEF GrantPersistent
    <3>2. AfterReservation(as[o], {}) \in {"transient", "committing"}
      BY DEF AfterReservation
    <3> QED
      BY <3>1, <3>2
  <2>4. CASE GrantTransient(o)
    BY <2>4 DEF GrantTransient
  <2>5. CASE \/ RequestRelease(o) \/ ReleaseNothing(o) \/ RequestSuspension(o)
             \/ SuspensionRefused(o) \/ IterationEnds(o) \/ ContinueRefused(o)
    BY <2>5 DEF RequestRelease, ReleaseNothing, ReleaseAtHead, Done, RequestSuspension,
                SuspensionRefused, IterationEnds, ContinueRefused
  <2>6. CASE ContinueHeld(o)
    <3>1. /\ pc[o] = "between"
          /\ pc' = [pc EXCEPT ![o] = IF AllValid(exec) THEN "running" ELSE "ending"]
      BY <2>6 DEF ContinueHeld
    <3>2. CASE AllValid(exec)
      BY <3>1, <3>2
    <3>3. CASE ~AllValid(exec)
      BY <3>1, <3>3
    <3> QED
      BY <3>2, <3>3
  <2> QED
    BY <2>1, <2>2, <2>3, <2>4, <2>5, <2>6
<1>3. pc'[o] = at /\ \A p \in Op \ {o} : pc'[p] = pc[p]
  BY <1>2 DEF IInv, TypeOK
<1> QED
  BY <1>1, <1>2, <1>3, BooksMove DEF Reserving, Retaining

\* A lease that is closed, or about to be, has no books.
LEMMA BooksOfClosing ==
    ASSUME IInv, NEW o \in Op,
           \/ Suspend(o) \/ Retake(o)
           \/ \E failed \in SUBSET held : Close(o, failed) \/ SuspendCloses(o, failed)
    PROVE  BooksOK'
<1>1. CASE Suspend(o)
  <2>1. exec' = Closing([exec EXCEPT !.users = {}])
    BY <1>1 DEF Suspend
  <2>2. exec'.closing = StateLeases([exec EXCEPT !.users = {}])
    <3>1. exec \in ExecType
      BY DEF IInv, LeaseOK, ShapeOK
    <3> QED
      BY <2>1, <3>1 DEF Closing, ExecType
  <2>3. exec'.closing # {}
    BY <2>2 DEF StateLeases
  <2> QED
    BY <2>3 DEF BooksOK, Open
<1>2. CASE Retake(o) \/ \E failed \in SUBSET held : Close(o, failed) \/ SuspendCloses(o, failed)
  <2>1. ~current'
    BY <1>2 DEF Retake, Handover, Close, SuspendCloses, CloseLease
  <2> QED
    BY <2>1 DEF BooksOK, Open
<1> QED
  BY <1>1, <1>2

-----------------------------------------------------------------------------
(***************************************************************************)
(* Steps that write in the books.                                          *)
(***************************************************************************)

\* The first retention of a lease opens the books.
LEMMA BooksOfFirst ==
    ASSUME IInv, NEW o \in Op, GrantFirst(o)
    PROVE  BooksOK'
<1> DEFINE u == as[o]
<1>1. /\ exec' = [NoExec EXCEPT !.main = u, !.users = {u}, !.reserved = UnitsOf[u],
                                !.agents = AgentsOf[u]]
      /\ attached' = {} /\ UNCHANGED <<as, topUp>>
      /\ pc[o] = "first" /\ pc' = [pc EXCEPT ![o] = "running"] /\ u \in Op
  BY DEF GrantFirst, IInv, TypeOK
<1>2. /\ exec'.main = u /\ exec'.users = {u} /\ exec'.pending = {} /\ exec'.persistent = {}
      /\ exec'.reserved = UnitsOf[u]
  BY <1>1 DEF NoExec
<1>3. /\ pc'[o] = "running" /\ \A p \in Op \ {o} : pc'[p] = pc[p]
      /\ \A p \in Op \ {o} : pc[p] \notin Inside
  <2>1. queue # <<>> /\ Head(queue).op = o
    BY <1>1 DEF IInv, LeaseOK, HeadOK, Inside
  <2> QED
    BY <1>1, <2>1, NobodyElseInside DEF IInv, LeaseOK, TypeOK
<1>4. ReleasingTransient' = {}
  BY <1>3 DEF ReleasingTransient, Inside
<1>5. PendingOK'
  BY <1>1, <1>2 DEF PendingOK
<1>6. SharesOK'
  <2>1. \A p \in Op : pc'[p] \in Retaining => as'[p] # u
    <3>1. \A p \in Op \ {o} : pc[p] \in Retaining => as[p] # u
      BY <1>1, UsersDiffer DEF IInv, LeaseOK, Retaining
    <3> QED
      BY <1>1, <1>3, <3>1 DEF Retaining
  <2> QED
    BY <1>2, <1>4, <2>1 DEF SharesOK
<1>7. BalanceOK'
  <2>1. WithAgents' = {} /\ WithSlots' = {}
    BY <1>2, <1>4 DEF WithAgents, WithSlots
  <2>2. Units(topUp, WithAgents)' = {} /\ Units(Slots, WithSlots)' = {}
    BY <2>1 DEF Units
  <2>3. IsFiniteSet({}) /\ Cardinality({}) = 0
    BY FS_EmptySet
  <2>4. UnitsOf[u] \in Nat
    BY <1>1, Constants
  <2>5. exec'.reserved = UnitsOf[u] + 0 + 0
    <3> DEFINE n == UnitsOf[u]
    <3>1. exec'.reserved = n /\ n \in Nat
      BY <1>2, <2>4
    <3> HIDE DEF n
    <3>2. exec'.reserved = n + 0 + 0
      BY <3>1
    <3> QED
      BY <3>2 DEF n
  <2> HIDE DEF u
  <2> QED
    BY <1>2, <2>2, <2>3, <2>5 DEF BalanceOK
<1> QED
  BY <1>5, <1>6, <1>7 DEF BooksOK

\* A top-up reserves the agents that are new to the state, and its slots.
LEMMA BooksOfReserve ==
    ASSUME IInv, BooksOK, NEW o \in Op, ReserveTopUp(o)
    PROVE  BooksOK'
<1> DEFINE u == as[o]
           agents == NewAgents(u)
           at == AfterReservation(u, agents)
<1>1. /\ pc[o] = "queued" /\ pc' = [pc EXCEPT ![o] = at] /\ current
      /\ exec' = [exec EXCEPT !.reserved = AggregateDemand(u),
                              !.agents = @ \cup agents, !.pending = @ \cup {u}]
      /\ topUp' = [topUp EXCEPT ![u] = agents] /\ attached' = attached \cup {o}
      /\ UNCHANGED <<as, current>>
  BY DEF ReserveTopUp
<1>2. at \in Reserving
  BY DEF AfterReservation, Reserving
<1> HIDE DEF at
<1> SUFFICES ASSUME Open PROVE PendingOK' /\ SharesOK' /\ BalanceOK'
  <2>1. exec'.closing = exec.closing
    BY <1>1 DEF IInv, LeaseOK, ShapeOK, ExecType
  <2> QED
    BY <1>1, <2>1 DEF BooksOK, Open
<1>3. PendingOK /\ SharesOK /\ BalanceOK
  BY DEF BooksOK
<1>4. /\ u \in Op /\ u # exec.main /\ o \notin attached
      /\ u \notin exec.users \cup exec.persistent \cup ReleasingTransient
      /\ u \notin exec.pending
  <2>1. o \notin attached
    BY <1>1, <1>3 DEF PendingOK, Reserving
  <2> QED
    BY <1>1, <1>3, <2>1, PendingIs DEF Retaining
<1>5. /\ exec'.reserved = AggregateDemand(u) /\ exec'.pending = exec.pending \cup {u}
      /\ exec'.main = exec.main /\ exec'.users = exec.users
      /\ exec'.persistent = exec.persistent
  BY <1>1 DEF IInv, LeaseOK, ShapeOK, ExecType
<1>6. pc'[o] = at /\ \A p \in Op \ {o} : pc'[p] = pc[p]
  BY <1>1 DEF IInv, TypeOK
<1>7. ReleasingTransient' = ReleasingTransient
  BY <1>1, <1>2, <1>6 DEF ReleasingTransient, Reserving
<1>8. PendingOK'
  <2>1. attached' = attached \cup {o} /\ attached \subseteq Op /\ as' = as
    BY <1>1 DEF IInv, TypeOK
  <2>2. exec'.pending = {as[p] : p \in attached} \cup {as[o]}
    BY <1>3, <1>5 DEF PendingOK
  <2>3. exec'.pending = {as[p] : p \in attached \cup {o}}
    BY <2>2
  <2>4. \A p \in attached \cup {o} : pc'[p] \in Reserving
    BY <1>2, <1>3, <1>6, <2>1 DEF PendingOK
  <2> QED
    BY <2>1, <2>3, <2>4 DEF PendingOK
<1>9. SharesOK'
  <2>1. exec.persistent \subseteq Op
    BY DEF IInv, LeaseOK, ShapeOK, ExecType
  <2>2. \A p \in Op : pc'[p] \in Retaining => pc[p] \in Retaining
    BY <1>1, <1>6 DEF Retaining
  <2>3. at # "new"
    BY <1>2 DEF Reserving
  <2>4. \A x \in exec.persistent : pc'[x] # "new"
    BY <1>3, <1>6, <2>1, <2>3 DEF SharesOK
  <2>5. \A p \in Op : pc'[p] \in Retaining =>
          as'[p] \notin exec.users \cup exec.persistent \cup ReleasingTransient
    BY <1>1, <1>3, <2>2 DEF SharesOK
  <2> QED
    BY <1>3, <1>5, <1>7, <2>4, <2>5 DEF SharesOK
<1>10. BalanceOK'
  <2>1. WithAgents' = WithAgents \cup {u} /\ WithSlots' = WithSlots \cup {u}
    BY <1>5, <1>7 DEF WithAgents, WithSlots
  <2>2. u \notin WithAgents /\ u \notin WithSlots
    BY <1>4 DEF WithAgents, WithSlots
  <2>3. topUp'[u] = agents /\ \A x \in WithAgents : topUp'[x] = topUp[x]
    <3>1. topUp \in [Op -> SUBSET UNION {AgentsOf[x] : x \in Op}]
      BY DEF IInv, LeaseOK, ShapeOK
    <3>2. WithAgents \subseteq Op
      BY DEF WithAgents, IInv, LeaseOK, ShapeOK, ExecType
    <3> QED
      BY <1>1, <1>4, <2>2, <3>1, <3>2
  <2>4. IsFiniteSet(agents) /\ Cardinality(agents) \in Nat
    <3>1. agents \in SUBSET AgentsOf[u] /\ IsFiniteSet(AgentsOf[u])
      BY <1>4, Constants DEF NewAgents
    <3> QED
      BY <3>1, FS_Subset, FS_CardinalityType
  <2> HIDE DEF agents
  <2>5. Units(topUp', WithAgents) = Units(topUp, WithAgents)
    BY <2>3, UnitsSame
  <2>6. /\ IsFiniteSet(Units(topUp', WithAgents \cup {u}))
        /\ Cardinality(Units(topUp, WithAgents)) \in Nat
        /\ Cardinality(Units(topUp', WithAgents \cup {u}))
             = Cardinality(Units(topUp, WithAgents)) + Cardinality(agents)
    <3>1. /\ IsFiniteSet(topUp'[u]) /\ Cardinality(topUp'[u]) = Cardinality(agents)
          /\ IsFiniteSet(Units(topUp', WithAgents))
      BY <1>3, <2>3, <2>4, <2>5 DEF BalanceOK
    <3> HIDE DEF u
    <3>2. /\ IsFiniteSet(Units(topUp', WithAgents \cup {u}))
          /\ Cardinality(Units(topUp', WithAgents)) \in Nat
          /\ Cardinality(Units(topUp', WithAgents \cup {u}))
               = Cardinality(Units(topUp', WithAgents)) + Cardinality(agents)
      BY <2>2, <3>1, CountedAs
    <3> QED
      BY <2>5, <3>2
  <2>7. /\ IsFiniteSet(Units(Slots, WithSlots \cup {u}))
        /\ Cardinality(Units(Slots, WithSlots)) \in Nat /\ SlotsOf[u] \in Nat
        /\ Cardinality(Units(Slots, WithSlots \cup {u}))
             = Cardinality(Units(Slots, WithSlots)) + SlotsOf[u]
    <3>1. /\ IsFiniteSet(Slots[u]) /\ Cardinality(Slots[u]) = SlotsOf[u]
          /\ IsFiniteSet(Units(Slots, WithSlots))
      BY <1>3, <1>4, SlotsCounted DEF BalanceOK
    <3> HIDE DEF u
    <3> QED
      BY <2>2, <3>1, CountedAs
  <2>8. AggregateDemand(u) = exec.reserved + (Cardinality(agents) + SlotsOf[u])
    BY DEF AggregateDemand, AdditionalUnits, agents
  <2>9. UnitsOf[exec.main] \in Nat
    BY Constants DEF IInv, LeaseOK, UsersOK, Open
  <2>10. exec'.reserved = UnitsOf[exec.main] + Cardinality(Units(topUp', WithAgents \cup {u}))
                                             + Cardinality(Units(Slots, WithSlots \cup {u}))
    <3>1. exec.reserved = UnitsOf[exec.main] + Cardinality(Units(topUp, WithAgents))
                                             + Cardinality(Units(Slots, WithSlots))
      BY <1>3 DEF BalanceOK
    <3> DEFINE k == UnitsOf[exec.main]
               a == Cardinality(Units(topUp, WithAgents))
               b == Cardinality(Units(Slots, WithSlots))
               m == Cardinality(agents)
               n == SlotsOf[u]
    <3>2. k \in Nat /\ a \in Nat /\ b \in Nat /\ m \in Nat /\ n \in Nat
      BY <2>4, <2>6, <2>7, <2>9
    <3>3. exec'.reserved = (k + a + b) + (m + n)
      BY <1>5, <2>8, <3>1
    <3>4. /\ Cardinality(Units(topUp', WithAgents \cup {u})) = a + m
          /\ Cardinality(Units(Slots, WithSlots \cup {u})) = b + n
      BY <2>6, <2>7
    <3> HIDE DEF k, a, b, m, n
    <3>5. exec'.reserved = k + (a + m) + (b + n)
      BY <3>2, <3>3
    <3> QED
      BY <3>4, <3>5 DEF k
  <2> QED
    BY <1>5, <2>1, <2>6, <2>7, <2>10 DEF BalanceOK, Slots
<1> QED
  BY <1>8, <1>9, <1>10

\* A top-up that comes to nothing gives back what it had reserved, if the state
\* is still the one it was reserved on.
LEMMA BooksOfGiveBack ==
    ASSUME IInv, BooksOK, NEW o \in Op, TopUpFails(o) \/ CommitRefused(o)
    PROVE  BooksOK'
<1> DEFINE u == as[o]
           units == AdditionalUnits(u, topUp[u])
<1>1. /\ pc[o] \in Reserving /\ pc' = [pc EXCEPT ![o] = "abandoning"]
      /\ ReleaseReservation(o) /\ UNCHANGED <<as, topUp, current>>
  BY DEF TopUpFails, CommitRefused, Reserving
<1>2. pc'[o] = "abandoning" /\ \A p \in Op \ {o} : pc'[p] = pc[p]
  BY <1>1 DEF IInv, TypeOK
<1>3. /\ exec'.main = exec.main /\ exec'.users = exec.users
      /\ exec'.persistent = exec.persistent /\ exec'.closing = exec.closing
      /\ attached' = attached \ {o}
  <2>1. attached' = attached \ {o}
    BY <1>1 DEF ReleaseReservation
  <2> QED
    BY <1>1, <2>1, ReservationIs DEF IInv, LeaseOK
<1> SUFFICES ASSUME Open PROVE PendingOK' /\ SharesOK' /\ BalanceOK'
  BY <1>1, <1>3 DEF BooksOK, Open
<1>4. PendingOK /\ SharesOK /\ BalanceOK
  BY DEF BooksOK
<1>5. /\ u \in Op /\ u # exec.main
      /\ u \notin exec.users \cup exec.persistent \cup ReleasingTransient
      /\ u \in exec.pending <=> o \in attached
      /\ exec.pending \ {u} = {as[p] : p \in attached \ {o}}
  BY <1>1, <1>4, PendingIs DEF Reserving, Retaining
<1>6. ReleasingTransient' = ReleasingTransient
  BY <1>1, <1>2 DEF ReleasingTransient, Reserving
<1>7. exec'.pending = exec.pending \ {u}
  <2>1. exec \in ExecType
    BY DEF IInv, LeaseOK, ShapeOK
  <2>2. CASE o \in attached
    BY <1>1, <2>1, <2>2 DEF ReleaseReservation, ExecType
  <2>3. CASE o \notin attached
    <3>1. exec' = exec
      BY <1>1, <2>3 DEF ReleaseReservation
    <3> QED
      BY <1>5, <2>3, <3>1
  <2> QED
    BY <2>2, <2>3
<1>8. PendingOK'
  <2>1. \A p \in attached \ {o} : pc'[p] \in Reserving
    BY <1>2, <1>4 DEF PendingOK, IInv, TypeOK
  <2> QED
    BY <1>1, <1>3, <1>5, <1>7, <2>1 DEF PendingOK
<1>9. SharesOK'
  <2>1. exec.persistent \subseteq Op
    BY DEF IInv, LeaseOK, ShapeOK, ExecType
  <2>2. \A p \in Op : pc'[p] \in Retaining => pc[p] \in Retaining
    BY <1>1, <1>2 DEF Reserving, Retaining
  <2> QED
    BY <1>1, <1>2, <1>3, <1>4, <1>6, <2>1, <2>2 DEF SharesOK
<1>10. CASE o \notin attached
  <2>1. exec' = exec
    BY <1>1, <1>10 DEF ReleaseReservation
  <2>2. BalanceOK'
    BY <1>1, <1>4, <1>6, <2>1 DEF BalanceOK, WithAgents, WithSlots, Slots
  <2> QED
    BY <1>8, <1>9, <2>2
<1>11. CASE o \in attached
  <2>1. /\ WithAgents = WithAgents' \cup {u} /\ u \notin WithAgents'
        /\ WithSlots = WithSlots' \cup {u} /\ u \notin WithSlots'
    BY <1>3, <1>5, <1>6, <1>7, <1>11 DEF WithAgents, WithSlots
  <2>2. /\ IsFiniteSet(Units(topUp, WithAgents')) /\ Cardinality(topUp[u]) \in Nat
        /\ Cardinality(Units(topUp, WithAgents')) \in Nat
        /\ Cardinality(Units(topUp, WithAgents))
             = Cardinality(Units(topUp, WithAgents')) + Cardinality(topUp[u])
    <3>1. IsFiniteSet(topUp[u]) /\ IsFiniteSet(Units(topUp, WithAgents' \cup {u}))
      BY <1>4, <1>5, <2>1, AgentsCounted DEF BalanceOK, IInv
    <3> QED
      BY <2>1, <3>1, UnitsCounted
  <2>3. /\ IsFiniteSet(Units(Slots, WithSlots')) /\ SlotsOf[u] \in Nat
        /\ Cardinality(Units(Slots, WithSlots')) \in Nat
        /\ Cardinality(Units(Slots, WithSlots))
             = Cardinality(Units(Slots, WithSlots')) + SlotsOf[u]
    <3>1. /\ IsFiniteSet(Slots[u]) /\ Cardinality(Slots[u]) = SlotsOf[u]
          /\ IsFiniteSet(Units(Slots, WithSlots' \cup {u}))
      BY <1>4, <1>5, <2>1, SlotsCounted DEF BalanceOK
    <3> HIDE DEF u
    <3> QED
      BY <2>1, <3>1, CountedAs
  <2>4. units = Cardinality(topUp[u]) + SlotsOf[u]
    BY DEF AdditionalUnits
  <2> HIDE DEF units
  <2>5. exec'.reserved = IF units > exec.reserved THEN 0 ELSE exec.reserved - units
    <3>1. exec' = [exec EXCEPT !.pending = @ \ {u},
                               !.reserved = IF units > @ THEN 0 ELSE @ - units,
                               !.agents = @ \ topUp[u]]
      BY <1>1, <1>11 DEF ReleaseReservation, units
    <3> QED
      BY <3>1 DEF IInv, LeaseOK, ShapeOK, ExecType
  <2>6. UnitsOf[exec.main] \in Nat
    BY Constants DEF IInv, LeaseOK, UsersOK, Open
  <2>7. exec'.reserved = UnitsOf[exec.main] + Cardinality(Units(topUp, WithAgents'))
                                            + Cardinality(Units(Slots, WithSlots'))
    <3>1. exec.reserved = UnitsOf[exec.main] + Cardinality(Units(topUp, WithAgents))
                                             + Cardinality(Units(Slots, WithSlots))
      BY <1>4 DEF BalanceOK
    <3> DEFINE k == UnitsOf[exec.main]
               a == Cardinality(Units(topUp, WithAgents'))
               b == Cardinality(Units(Slots, WithSlots'))
               m == Cardinality(topUp[u])
               n == SlotsOf[u]
    <3>2. k \in Nat /\ a \in Nat /\ b \in Nat /\ m \in Nat /\ n \in Nat
      BY <2>2, <2>3, <2>6
    <3>3. exec.reserved = k + (a + m) + (b + n) /\ units = m + n
      BY <2>2, <2>3, <2>4, <3>1
    <3> HIDE DEF k, a, b, m, n
    <3>4. exec'.reserved = k + a + b
      BY <2>5, <3>2, <3>3
    <3> QED
      BY <3>4 DEF k, a, b
  <2>8. BalanceOK'
    BY <1>1, <1>3, <2>2, <2>3, <2>7 DEF BalanceOK, Slots
  <2> QED
    BY <1>8, <1>9, <2>8
<1> QED
  BY <1>10, <1>11

\* A top-up that holds becomes a user, with the same agents and slots.
LEMMA BooksOfCommit ==
    ASSUME IInv, BooksOK, NEW o \in Op, Commit(o)
    PROVE  BooksOK'
<1> DEFINE u == as[o]
<1>1. /\ pc[o] = "committing" /\ o \in attached /\ current /\ exec.closing = {}
      /\ attached' = attached \ {o}
      /\ exec' = [exec EXCEPT !.pending = @ \ {u}, !.users = @ \cup {u},
                              !.persistent = IF topUp[u] = {} THEN @ ELSE @ \cup {u}]
      /\ UNCHANGED <<as, topUp, current>>
  BY DEF Commit, TopUpHolds
<1>2. PICK at \in {"running", "ending"} : pc' = [pc EXCEPT ![o] = at]
  <2>1. pc' = [pc EXCEPT ![o] = "running"] \/ pc' = [pc EXCEPT ![o] = "ending"]
    BY DEF Commit
  <2> QED
    BY <2>1
<1>3. pc'[o] = at /\ \A p \in Op \ {o} : pc'[p] = pc[p]
  BY <1>2 DEF IInv, TypeOK
<1>4. PendingOK /\ SharesOK /\ BalanceOK /\ Open
  BY <1>1 DEF BooksOK, Open
<1>5. /\ u \in Op /\ u # exec.main
      /\ u \notin exec.users \cup exec.persistent \cup ReleasingTransient
      /\ u \in exec.pending
      /\ exec.pending \ {u} = {as[p] : p \in attached \ {o}}
  BY <1>1, <1>4, PendingIs DEF Retaining
<1>6. /\ exec'.pending = exec.pending \ {u} /\ exec'.users = exec.users \cup {u}
      /\ exec'.persistent = IF topUp[u] = {} THEN exec.persistent ELSE exec.persistent \cup {u}
      /\ exec'.main = exec.main /\ exec'.reserved = exec.reserved
  BY <1>1 DEF IInv, LeaseOK, ShapeOK, ExecType
<1>7. ReleasingTransient' = ReleasingTransient
  BY <1>1, <1>3 DEF ReleasingTransient
<1>8. PendingOK'
  <2>1. \A p \in attached \ {o} : pc'[p] \in Reserving
    BY <1>3, <1>4 DEF PendingOK, IInv, TypeOK
  <2>2. attached' = attached \ {o} /\ as' = as
    BY <1>1
  <2>3. exec'.pending = {as[p] : p \in attached \ {o}}
    BY <1>5, <1>6
  <2> QED
    BY <2>1, <2>2, <2>3 DEF PendingOK
<1>9. SharesOK'
  <2>1. exec.persistent \subseteq Op
    BY DEF IInv, LeaseOK, ShapeOK, ExecType
  <2>2. pc'[u] # "new"
    <3>1. CASE u = o
      BY <1>3, <3>1
    <3>2. CASE u # o
      <4>1. ~Fresh(u)
        BY <1>5, <3>2 DEF IInv, LeaseOK, UsersOK
      <4> QED
        BY <1>3, <1>5, <3>2, <4>1 DEF Fresh
    <3> QED
      BY <3>1, <3>2
  <2>3. \A p \in Op : pc'[p] \in Retaining => p # o /\ pc[p] \in Retaining /\ as[p] # u
    <3>1. \A p \in Op : pc'[p] \in Retaining => p # o /\ pc[p] \in Retaining
      BY <1>3 DEF Retaining
    <3>2. \A p \in Op : p # o /\ pc[p] \in Retaining => as[p] # u
      BY <1>1, UsersDiffer DEF IInv, LeaseOK, Retaining
    <3> QED
      BY <3>1, <3>2
  <2>4. \A x \in exec'.persistent : pc'[x] # "new"
    BY <1>3, <1>4, <1>6, <2>1, <2>2 DEF SharesOK
  <2>5. \A x \in exec'.users : x \notin ReleasingTransient
    <3>1. \A x \in exec.users : x \notin ReleasingTransient
      BY <1>4 DEF SharesOK
    <3>2. u \notin ReleasingTransient
      BY <1>5
    <3> HIDE DEF u
    <3> QED
      BY <1>6, <3>1, <3>2
  <2>6. exec'.persistent \subseteq exec.persistent \cup {u}
    BY <1>6
  <2>7. \A p \in Op : pc'[p] \in Retaining =>
          as[p] \notin exec'.users \cup exec'.persistent \cup ReleasingTransient
    BY <1>4, <1>6, <2>3, <2>6 DEF SharesOK
  <2>8. exec'.main \notin ReleasingTransient'
    BY <1>4, <1>6, <1>7 DEF SharesOK
  <2>9. as' = as
    BY <1>1
  <2> QED
    BY <1>7, <2>4, <2>5, <2>7, <2>8, <2>9 DEF SharesOK
<1>10. BalanceOK'
  <2>1. WithSlots' = WithSlots
    BY <1>5, <1>6, <1>7 DEF WithSlots
  <2>2. Units(topUp, WithAgents') = Units(topUp, WithAgents)
    <3>1. CASE topUp[u] = {}
      <4>1. WithAgents = WithAgents' \cup {u}
        BY <1>5, <1>6, <3>1 DEF WithAgents
      <4> QED
        BY <3>1, <4>1, UnitsOfNone
    <3>2. CASE topUp[u] # {}
      <4>1. WithAgents = WithAgents'
        BY <1>5, <1>6, <3>2 DEF WithAgents
      <4> QED
        BY <4>1
    <3> QED
      BY <3>1, <3>2
  <2> QED
    BY <1>1, <1>4, <1>6, <2>1, <2>2 DEF BalanceOK, Slots
<1> QED
  BY <1>8, <1>9, <1>10 DEF BooksOK

\* A share that is given up keeps its slots until its transient lease is settled.
LEMMA BooksOfShare ==
    ASSUME IInv, BooksOK, NEW o \in Op, ReleaseShare(o)
    PROVE  BooksOK'
<1> DEFINE left == [exec EXCEPT !.users = @ \ {o}]
           slow == o \in TransientUsers(exec)
<1>1. /\ pc[o] = "releasing" /\ current /\ o \in exec.users
      /\ UNCHANGED <<as, topUp, current, attached>>
  BY DEF ReleaseShare, ReleaseAtHead
<1>2. \/ exec' = Closing(left)
      \/ /\ exec' = left
         /\ \E at \in {"lastTransient", "oneTransient", "done"} :
              /\ pc' = [pc EXCEPT ![o] = at]
              /\ at \in {"lastTransient", "oneTransient"} <=> slow
  <2> HIDE DEF left
  <2>1. IF o \in TransientUsers(exec)
        THEN /\ exec' = left
             /\ pc' = [pc EXCEPT ![o] = IF IsLast(o) THEN "lastTransient" ELSE "oneTransient"]
        ELSE exec' = Closing(left) \/ (exec' = left /\ pc' = [pc EXCEPT ![o] = "done"])
    BY DEF ReleaseShare, Done, left
  <2>2. CASE IsLast(o)
    BY <2>1, <2>2
  <2>3. CASE ~IsLast(o)
    BY <2>1, <2>3
  <2> QED
    BY <2>2, <2>3
<1>3. CASE exec' = Closing(left)
  <2>1. left \in ExecType
    BY DEF IInv, LeaseOK, ShapeOK, ExecType
  <2> HIDE DEF left
  <2>2. exec'.closing = StateLeases(left)
    BY <1>3, <2>1, ClosingTyped DEF IInv
  <2>3. exec'.closing # {}
    BY <2>2 DEF StateLeases
  <2> QED
    BY <2>3 DEF BooksOK, Open
<1>4. ASSUME NEW at \in {"lastTransient", "oneTransient", "done"}, exec' = left,
             pc' = [pc EXCEPT ![o] = at],
             at \in {"lastTransient", "oneTransient"} <=> slow
      PROVE  BooksOK'
  <2>1. /\ exec'.main = exec.main /\ exec'.users = exec.users \ {o}
        /\ exec'.pending = exec.pending /\ exec'.persistent = exec.persistent
        /\ exec'.closing = exec.closing /\ exec'.reserved = exec.reserved
    BY <1>4 DEF IInv, LeaseOK, ShapeOK, ExecType
  <2>2. pc'[o] = at /\ \A p \in Op \ {o} : pc'[p] = pc[p]
    BY <1>4 DEF IInv, TypeOK
  <2> SUFFICES ASSUME Open PROVE PendingOK' /\ SharesOK' /\ BalanceOK'
    BY <1>1, <2>1 DEF BooksOK, Open
  <2>3. PendingOK /\ SharesOK /\ BalanceOK
    BY DEF BooksOK
  <2>4. slow <=> o # exec.main /\ SlotsOf[o] > 0
    BY <1>1 DEF TransientUsers
  <2>5. ReleasingTransient' = IF slow THEN ReleasingTransient \cup {o} ELSE ReleasingTransient
    BY <1>1, <1>4, <2>2 DEF ReleasingTransient
  <2> HIDE DEF slow, left
  <2>6. PendingOK'
    <3>1. \A p \in attached : p # o
      BY <1>1, <2>3 DEF PendingOK, Reserving
    <3>2. attached \subseteq Op /\ attached' = attached /\ as' = as
      BY <1>1 DEF IInv, TypeOK
    <3> QED
      BY <2>1, <2>2, <2>3, <3>1, <3>2 DEF PendingOK
  <2>7. SharesOK'
    <3>1. exec.persistent \subseteq Op
      BY DEF IInv, LeaseOK, ShapeOK, ExecType
    <3>2. \A u \in exec.persistent : pc'[u] # "new"
      BY <2>2, <2>3, <3>1 DEF SharesOK
    <3>3. \A u \in exec'.users : u \notin ReleasingTransient'
      BY <2>1, <2>3, <2>5 DEF SharesOK
    <3>4. exec.main \notin ReleasingTransient'
      BY <2>3, <2>4, <2>5 DEF SharesOK
    <3>5. \A p \in Op : pc'[p] \in Retaining =>
            as[p] \notin exec.users \cup exec.persistent \cup ReleasingTransient
      <4>1. \A p \in Op : pc'[p] \in Retaining => pc[p] \in Retaining
        BY <1>1, <1>4, <2>2 DEF Retaining
      <4> QED
        BY <2>3, <4>1 DEF SharesOK
    <3>6. \A p \in Op : pc'[p] \in Retaining =>
            as[p] \notin exec'.users \cup exec'.persistent \cup ReleasingTransient'
      BY <1>1, <2>1, <2>5, <3>5
    <3>7. as' = as
      BY <1>1
    <3> QED
      BY <2>1, <3>2, <3>3, <3>4, <3>6, <3>7 DEF SharesOK
  <2>8. Units(Slots, WithSlots') = Units(Slots, WithSlots)
    <3>1. CASE slow \/ o = exec.main
      <4>1. WithSlots' = WithSlots
        BY <1>1, <2>1, <2>4, <2>5, <3>1 DEF WithSlots
      <4> QED
        BY <4>1
    <3>2. CASE ~slow /\ o # exec.main
      <4>1. WithSlots' \cup {o} = WithSlots \cup {o}
        BY <2>1, <2>5, <3>2 DEF WithSlots
      <4>2. Slots[o] = {}
        <5>1. SlotsOf[o] = 0
          BY <2>4, <3>2, Constants
        <5> QED
          BY <5>1 DEF Slots
      <4> QED
        BY <4>1, <4>2, UnitsOfNone
    <3> QED
      BY <3>1, <3>2
  <2>9. BalanceOK'
    <3>1. WithAgents' = WithAgents
      BY <2>1 DEF WithAgents
    <3> QED
      BY <1>1, <2>1, <2>3, <2>8, <3>1 DEF BalanceOK, Slots
  <2> QED
    BY <2>6, <2>7, <2>9
<1> QED
  BY <1>2, <1>3, <1>4

\* The slots of a transient lease that is settled are given back.
LEMMA BooksOfTransient ==
    ASSUME IInv, BooksOK, NEW o \in Op, NEW failed \in SUBSET held, ReleaseTransient(o, failed)
    PROVE  BooksOK'
<1> DEFINE n == IF SlotsOf[o] > exec.reserved THEN 0 ELSE exec.reserved - SlotsOf[o]
           left == [exec EXCEPT !.reserved = n]
<1>1. /\ pc[o] \in {"oneTransient", "lastTransient"}
      /\ UNCHANGED <<as, topUp, current, attached>>
      /\ \/ exec' = Closing(left)
         \/ exec' = left /\ pc' = [pc EXCEPT ![o] = "done"]
  BY DEF ReleaseTransient, Done
<1>2. exec \in ExecType /\ SlotsOf[o] \in Nat
  BY Constants DEF IInv, LeaseOK, ShapeOK
<1>3. n \in Nat
  <2>1. exec.reserved \in Nat
    BY <1>2 DEF ExecType
  <2> QED
    BY <1>2, <2>1
<1>4. CASE exec' = Closing(left)
  <2>1. left \in ExecType
    <3> HIDE DEF n
    <3> QED
      BY <1>2, <1>3 DEF ExecType
  <2> HIDE DEF left
  <2>2. exec'.closing = StateLeases(left)
    BY <1>4, <2>1, ClosingTyped DEF IInv
  <2>3. exec'.closing # {}
    BY <2>2 DEF StateLeases
  <2> QED
    BY <2>3 DEF BooksOK, Open
<1>5. CASE exec' = left /\ pc' = [pc EXCEPT ![o] = "done"]
  <2>1. /\ exec'.main = exec.main /\ exec'.users = exec.users
        /\ exec'.pending = exec.pending /\ exec'.persistent = exec.persistent
        /\ exec'.closing = exec.closing /\ exec'.reserved = n
    BY <1>2, <1>5 DEF ExecType
  <2>2. pc'[o] = "done" /\ \A p \in Op \ {o} : pc'[p] = pc[p]
    BY <1>5 DEF IInv, TypeOK
  <2> SUFFICES ASSUME Open PROVE PendingOK' /\ SharesOK' /\ BalanceOK'
    BY <1>1, <2>1 DEF BooksOK, Open
  <2>3. PendingOK /\ SharesOK /\ BalanceOK
    BY DEF BooksOK
  <2>4. ReleasingTransient' = ReleasingTransient \ {o} /\ o \in ReleasingTransient
    BY <1>1, <2>2 DEF ReleasingTransient
  <2>5. o \notin exec.pending /\ o \notin exec.users
    <3>1. \A p \in attached : p \in Op /\ pc[p] \in Retaining
      BY <2>3 DEF PendingOK, Reserving, Retaining, IInv, TypeOK
    <3>2. \A p \in attached : as[p] # o
      BY <2>3, <2>4, <3>1 DEF SharesOK
    <3> QED
      BY <2>3, <2>4, <3>2 DEF PendingOK, SharesOK
  <2>6. PendingOK'
    <3>1. \A p \in attached : p # o
      BY <1>1, <2>3 DEF PendingOK, Reserving
    <3>2. attached \subseteq Op /\ attached' = attached /\ as' = as
      BY <1>1 DEF IInv, TypeOK
    <3> QED
      BY <2>1, <2>2, <2>3, <3>1, <3>2 DEF PendingOK
  <2>7. SharesOK'
    <3>1. exec.persistent \subseteq Op
      BY <1>2 DEF ExecType
    <3>2. \A u \in exec.persistent : pc'[u] # "new"
      BY <2>2, <2>3, <3>1 DEF SharesOK
    <3>3. \A p \in Op : pc'[p] \in Retaining =>
            as[p] \notin exec.users \cup exec.persistent \cup ReleasingTransient
      <4>1. \A p \in Op : pc'[p] \in Retaining => pc[p] \in Retaining
        BY <2>2 DEF Retaining
      <4> QED
        BY <2>3, <4>1 DEF SharesOK
    <3>4. as' = as
      BY <1>1
    <3> QED
      BY <2>1, <2>3, <2>4, <3>2, <3>3, <3>4 DEF SharesOK
  <2>8. WithSlots = WithSlots' \cup {o} /\ o \notin WithSlots' /\ WithAgents' = WithAgents
    <3>1. o # exec.main
      BY <2>3, <2>4 DEF SharesOK
    <3> QED
      BY <2>1, <2>4, <2>5, <3>1 DEF WithSlots, WithAgents
  <2>9. /\ IsFiniteSet(Units(Slots, WithSlots'))
        /\ Cardinality(Units(Slots, WithSlots')) \in Nat
        /\ Cardinality(Units(Slots, WithSlots))
             = Cardinality(Units(Slots, WithSlots')) + SlotsOf[o]
    <3>1. /\ IsFiniteSet(Slots[o]) /\ Cardinality(Slots[o]) = SlotsOf[o]
          /\ IsFiniteSet(Units(Slots, WithSlots' \cup {o}))
      BY <2>3, <2>8, SlotsCounted DEF BalanceOK
    <3> QED
      BY <2>8, <3>1, CountedAs
  <2>10. n = UnitsOf[exec.main] + Cardinality(Units(topUp, WithAgents))
                                + Cardinality(Units(Slots, WithSlots'))
    <3>1. exec.reserved = UnitsOf[exec.main] + Cardinality(Units(topUp, WithAgents))
                                             + Cardinality(Units(Slots, WithSlots))
      BY <2>3 DEF BalanceOK
    <3> DEFINE k == UnitsOf[exec.main]
               a == Cardinality(Units(topUp, WithAgents))
               b == Cardinality(Units(Slots, WithSlots'))
               m == SlotsOf[o]
    <3>2. k \in Nat /\ a \in Nat
      <4>1. k \in Nat
        BY Constants DEF IInv, LeaseOK, UsersOK, Open
      <4>2. a \in Nat
        BY <2>3, FS_CardinalityType DEF BalanceOK
      <4> QED
        BY <4>1, <4>2
    <3>3. b \in Nat /\ m \in Nat
      BY <1>2, <2>9
    <3>4. exec.reserved = k + a + (b + m)
          /\ n = IF m > exec.reserved THEN 0 ELSE exec.reserved - m
      BY <2>9, <3>1
    <3> HIDE DEF k, a, b, m, n
    <3>5. n = k + a + b
      BY <3>2, <3>3, <3>4
    <3> QED
      BY <3>5 DEF k, a, b
  <2> HIDE DEF n
  <2>11. BalanceOK'
    BY <1>1, <2>1, <2>3, <2>8, <2>9, <2>10 DEF BalanceOK, Slots
  <2> QED
    BY <2>6, <2>7, <2>11
<1> QED
  BY <1>1, <1>4, <1>5

-----------------------------------------------------------------------------
(***************************************************************************)
(* The balance.                                                            *)
(***************************************************************************)

\* Every step keeps the books.
LEMMA BooksStep == IInv /\ BooksOK /\ [Next]_vars => BooksOK'
<1> SUFFICES ASSUME IInv, BooksOK, [Next]_vars PROVE BooksOK'
  OBVIOUS
<1>1. ASSUME NEW o \in Op, HandlerStep(o) \/ CallerStep(o)
      PROVE  BooksOK'
  BY <1>1, BooksOfRequests, BooksOfClosing, BooksOfFirst, BooksOfReserve, BooksOfGiveBack,
     BooksOfCommit, BooksOfShare, BooksOfTransient
  DEF HandlerStep, CallerStep
<1>2. CASE \/ Interrupt \/ InterruptConfirmed \/ InterruptTimesOut \/ UNCHANGED vars
           \/ \E l \in held : LoseLease(l)
           \/ \E failed \in SUBSET held : InterruptQuarantines(failed)
  <2>1. UNCHANGED <<pc, as, topUp, exec, attached>>
    BY <1>2 DEF Interrupt, InterruptConfirmed, InterruptTimesOut, vars, LoseLease,
                InterruptQuarantines, opVars, stateVars, Handover
  <2>2. current' \in {current, FALSE}
    BY <1>2 DEF Interrupt, InterruptConfirmed, InterruptTimesOut, vars, LoseLease,
                InterruptQuarantines, stateVars, Handover
  <2>3. current' => current
    BY <2>2
  <2> QED
    BY <2>1, <2>3, BooksStay
<1> QED
  BY <1>1, <1>2 DEF Next

\* What the state of a lease counts as reserved is the demand of its first user,
\* the agents of its pending and its persistent users and the slots of those who
\* hold or give up a transient lease: nothing is counted twice or left behind.
THEOREM BooksAreBalanced == Spec => []ReservationsBalance
<1>1. Init => BooksOK
  BY DEF Init, BooksOK, Open
<1>2. IInv /\ BooksOK => ReservationsBalance
  BY BooksBalance
<1> QED
  BY <1>1, <1>2, BooksStep, LeaseInvariant, PTL DEF Spec
=============================================================================
