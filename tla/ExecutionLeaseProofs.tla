------------------------ MODULE ExecutionLeaseProofs ------------------------
EXTENDS ExecutionLease, FiniteSetTheorems, SequenceTheorems, TLAPS

(***************************************************************************)
(* The inductive invariant, in eight parts.                                *)
(***************************************************************************)

\* A retention that is under way; the others have none or have had theirs.
Retaining == {"queued", "identity", "first", "persistent", "transient", "committing",
              "abandoning"}
ToppingUp == {"persistent", "transient", "committing", "abandoning"}

\* An operation whose first retention is still to come.
Fresh(o) == pc[o] = "new" \/ (pc[o] \in Retaining /\ o \notin retaking)

ExecType ==
    [main : Op \cup {NoOp}, users : SUBSET Op, pending : SUBSET Op, reserved : Nat,
     agents : SUBSET UNION {AgentsOf[o] : o \in Op}, persistent : SUBSET Op,
     closing : SUBSET ((Op \cup {NoOp}) \X {"main", "persistent", "transient"})]

\* What TypeOK leaves open.
ShapeOK ==
    /\ exec \in ExecType
    /\ topUp \in [Op -> SUBSET UNION {AgentsOf[o] : o \in Op}]
    /\ IsFiniteSet(held)
    /\ interruption \in [at : {"none", "asked", "quarantining"},
                         leases : SUBSET ((Op \cup {NoOp}) \X {"main", "persistent", "transient"})]

\* Whoever waits inside a mutation is the head of the queue.
Inside == {"identity", "first", "oneTransient", "lastTransient", "closing", "suspendClosing"}

HeadOK == \A o \in Op : pc[o] \in Inside => queue # <<>> /\ Head(queue).op = o

\* One run is under way at a time, and only a run changes its user.
RunsOK ==
    /\ \A r, s \in Run : pc[r] \notin {"new", "done"} /\ pc[s] \notin {"new", "done"} => r = s
    /\ \A o \in Op : pc[o] = "new" => as[o] = o
    /\ \A o \in Op \ Run :
         /\ as[o] = o
         /\ pc[o] \notin {"between", "checklist", "suspending", "suspendClosing"}

\* A user has been retained before it is known as one.
UsersOK ==
    /\ \A u \in exec.users : ~Fresh(u)
    /\ suspended # NoOp => ~Fresh(suspended)
    /\ current => exec.main \in Op /\ ~Fresh(exec.main)
    /\ \A o, u \in Op : as[o] = u /\ o # u => ~Fresh(u)

\* The state while a retention, a top-up or a release is under way.
StageOK ==
    /\ \A o \in Op : pc[o] \in {"identity", "first"} => ~current
    /\ \A o \in Op : pc[o] \in Retaining /\ current => exec.main # as[o]
    /\ \A o \in Op : pc[o] = "persistent" => topUp[as[o]] # {}
    /\ \A o \in Op : pc[o] = "transient" => SlotsOf[as[o]] > 0
    /\ exec.closing # {} <=> \E o \in Op : pc[o] \in {"closing", "suspendClosing"}

\* What a top-up or the release of a share has of its own.
OwnLeases(o) ==
    {l \in {Persistent(as[o])} : topUp[as[o]] # {}
                                 /\ pc[o] \in {"transient", "committing", "abandoning"}}
    \cup {l \in {Transient(as[o])} : SlotsOf[as[o]] > 0
                                     /\ pc[o] \in {"committing", "abandoning"}}
    \cup {l \in {Transient(o)} : pc[o] \in {"oneTransient", "lastTransient"}}

LeasesOK ==
    /\ \A l \in held :
         \/ l \in stuck \cup forgotten \cup exec.closing
         \/ current /\ l \in StateLeases(exec)
         \/ \E o \in Op : l \in OwnLeases(o)
    /\ NothingJoinsAClosingLease

\* A lease that is held has a user who is yet to release it, or is being closed.
KeptOK ==
    current /\ (\A o \in Op : as[o] = o) =>
        /\ \A u \in exec.users : pc[u] \notin {"oneTransient", "done"}
        /\ exec.users # {}
             \/ \E o \in Op : pc[o] \in {"lastTransient", "closing", "suspendClosing"}

LeaseOK == ShapeOK /\ HeadOK /\ RunsOK /\ UsersOK /\ StageOK /\ LeasesOK /\ KeptOK

IInv == TypeOK /\ LeaseOK

-----------------------------------------------------------------------------
(***************************************************************************)
(* Types.                                                                  *)
(***************************************************************************)

\* What the assumption says of the constants.
LEMMA Constants ==
    /\ NoOp \notin Op /\ Run \subseteq Op /\ MaxFaults \in Nat
    /\ \A o \in Op : IsFiniteSet(AgentsOf[o]) /\ SlotsOf[o] \in Nat /\ UnitsOf[o] \in Nat
  BY ExecutionAssumption

\* The units an operation adds for its agents are a natural number.
LEMMA UnitsTyped ==
    ASSUME NEW u \in Op, NEW agents \in SUBSET AgentsOf[u]
    PROVE  AdditionalUnits(u, agents) \in Nat
<1>1. Cardinality(agents) \in Nat
  BY Constants, FS_Subset, FS_CardinalityType
<1> QED
  BY <1>1, Constants DEF AdditionalUnits

\* Settling leases loses none but those it was asked to settle.
LEMMA SettleTypes ==
    ASSUME TypeOK, ShapeOK, NEW leases, NEW failed \in SUBSET held,
           SettleLeases(leases, failed)
    PROVE  /\ held' \subseteq Lease /\ IsFiniteSet(held') /\ lost' \subseteq held'
           /\ stuck' \subseteq Lease /\ faults' \in 0 .. MaxFaults
<1>1. IsFiniteSet(failed) /\ Cardinality(failed) \in Nat
  BY FS_Subset, FS_CardinalityType DEF ShapeOK
<1>2. faults' \in 0 .. MaxFaults
  BY <1>1, Constants DEF SettleLeases, TypeOK
<1>3. held' \subseteq held /\ lost' \subseteq held' /\ stuck' \subseteq stuck \cup held
  BY DEF SettleLeases, TypeOK
<1>4. IsFiniteSet(held')
  BY <1>3, FS_Subset DEF ShapeOK
<1> QED
  BY <1>2, <1>3, <1>4 DEF TypeOK

\* A reservation that is given back leaves the users of the state alone.
LEMMA ReservationIs ==
    ASSUME TypeOK, ShapeOK, NEW o \in Op, ReleaseReservation(o)
    PROVE  /\ exec' \in ExecType /\ attached' \subseteq Op
           /\ exec'.main = exec.main /\ exec'.users = exec.users
           /\ exec'.persistent = exec.persistent /\ exec'.closing = exec.closing
<1>1. exec \in ExecType /\ as[o] \in Op /\ topUp[as[o]] \subseteq AgentsOf[as[o]]
  BY DEF TypeOK, ShapeOK
<1> DEFINE units == AdditionalUnits(as[o], topUp[as[o]])
<1>2. units \in Nat
  BY <1>1, UnitsTyped
<1>3. attached' \subseteq Op
  BY DEF ReleaseReservation, TypeOK
<1>4. CASE o \notin attached
  BY <1>1, <1>3, <1>4 DEF ReleaseReservation
<1>5. CASE o \in attached
  <2> DEFINE n == IF units > exec.reserved THEN 0 ELSE exec.reserved - units
  <2>1. exec' = [exec EXCEPT !.pending = exec.pending \ {as[o]}, !.reserved = n,
                             !.agents = exec.agents \ topUp[as[o]]]
    BY <1>5 DEF ReleaseReservation
  <2>2. n \in Nat
    <3>1. exec.reserved \in Nat
      BY <1>1 DEF ExecType
    <3> HIDE DEF units
    <3> QED
      BY <1>2, <3>1
  <2> HIDE DEF n
  <2> QED
    BY <1>1, <1>3, <2>1, <2>2 DEF ExecType
<1> QED
  BY <1>4, <1>5

\* The queue only takes requests of operations.
LEMMA QueueTypes ==
    ASSUME TypeOK, NEW o \in Op,
           \/ queue' = queue
           \/ \E what \in {"retain", "release", "suspend"} : Enqueue(o, what)
           \/ queue # <<>> /\ queue' = Tail(queue)
    PROVE  queue' \in Seq([do : {"retain", "release", "suspend"}, op : Op])
<1> DEFINE Item == [do : {"retain", "release", "suspend"}, op : Op]
<1> SUFFICES queue' \in Seq(Item)
  OBVIOUS
<1>1. queue \in Seq(Item)
  BY DEF TypeOK
<1>2. ASSUME NEW what \in {"retain", "release", "suspend"}, Enqueue(o, what)
      PROVE  queue' \in Seq(Item)
  <2>1. [do |-> what, op |-> o] \in Item
    OBVIOUS
  <2>2. queue' = Append(queue, [do |-> what, op |-> o])
    BY <1>2 DEF Enqueue
  <2> HIDE DEF Item
  <2> QED
    BY <1>1, <2>1, <2>2
<1> HIDE DEF Item
<1>3. CASE queue # <<>> /\ queue' = Tail(queue)
  BY <1>1, <1>3, HeadTailProperties
<1> QED
  BY <1>1, <1>2, <1>3

\* The values the state of the execution is set to keep its type.
LEMMA SettledExec ==
    ASSUME ShapeOK, NEW users \in SUBSET Op, NEW n \in Nat
    PROVE  /\ NoExec \in ExecType
           /\ [exec EXCEPT !.users = users] \in ExecType
           /\ [exec EXCEPT !.reserved = n] \in ExecType
  BY DEF ShapeOK, NoExec, ExecType

\* A state that is closed down holds leases of its users.
LEMMA ClosingTyped ==
    ASSUME TypeOK, NEW e \in ExecType
    PROVE  /\ StateLeases(e) \subseteq (Op \cup {NoOp}) \X {"main", "persistent", "transient"}
           /\ Closing(e) \in ExecType
           /\ Closing(e).main = e.main /\ Closing(e).users = e.users
           /\ Closing(e).persistent = e.persistent /\ Closing(e).closing = StateLeases(e)
<1>1. StateLeases(e) \subseteq (Op \cup {NoOp}) \X {"main", "persistent", "transient"}
  BY DEF ExecType, StateLeases, TransientUsers, Main, Persistent, Transient
<1> HIDE DEF ExecType
<1>2. Closing(e) = [e EXCEPT !.closing = StateLeases(e)]
  BY DEF Closing
<1> QED
  BY <1>1, <1>2 DEF ExecType

-----------------------------------------------------------------------------
(***************************************************************************)
(* A step of one operation.                                                *)
(***************************************************************************)

\* The head of the queue stays, but for the operation that leaves it.
LEMMA QueueStep ==
    ASSUME TypeOK, NEW o \in Op, NEW p,
           queue # <<>>, Head(queue).op = p,
           queue' = queue \/ \E what : Enqueue(o, what)
    PROVE  queue' # <<>> /\ Head(queue').op = p
<1>1. CASE queue' = queue
  BY <1>1
<1>2. ASSUME NEW what, Enqueue(o, what) PROVE queue' # <<>> /\ Head(queue').op = p
  <2>1. \A s, e : s \in Seq([do : {"retain", "release", "suspend"}, op : Op]) /\ s # <<>>
                    => Append(s, e) # <<>> /\ Head(Append(s, e)) = Head(s)
    OBVIOUS
  <2> QED
    BY <1>2, <2>1 DEF TypeOK, Enqueue
<1> QED
  BY <1>1, <1>2

\* An operation that moves on, inside the queue or outside of it.
LEMMA StepOfOne ==
    ASSUME TypeOK, HeadOK, RunsOK, NEW o \in Op, NEW at \in PC,
           pc' = [pc EXCEPT ![o] = at], as' = as,
           pc[o] \notin {"new", "done"}, at # "new",
           o \notin Run => at \notin {"between", "checklist", "suspending", "suspendClosing"},
           \/ queue' = queue /\ (at \in Inside => queue # <<>> /\ Head(queue).op = o)
           \/ at \notin Inside /\ \E what \in {"retain", "release", "suspend"} : Enqueue(o, what)
           \/ at \notin Inside /\ queue # <<>> /\ Head(queue).op = o /\ queue' = Tail(queue),
           retaking' = retaking \/ (retaking' = retaking \ {o} /\ at \notin Retaining),
           at \in Retaining => pc[o] \in Retaining
    PROVE  /\ pc'[o] = at /\ \A p \in Op \ {o} : pc'[p] = pc[p]
           /\ pc' \in [Op -> PC] /\ as' \in [Op -> Op] /\ retaking' \subseteq Run
           /\ queue' \in Seq([do : {"retain", "release", "suspend"}, op : Op])
           /\ HeadOK' /\ RunsOK'
           /\ \A u \in Op : ~Fresh(u) => ~(Fresh(u)')
<1>1. /\ pc'[o] = at /\ \A p \in Op \ {o} : pc'[p] = pc[p]
      /\ pc' \in [Op -> PC] /\ as' \in [Op -> Op] /\ retaking' \subseteq Run
  BY DEF TypeOK
<1>2. queue' \in Seq([do : {"retain", "release", "suspend"}, op : Op])
  BY QueueTypes
<1>3. HeadOK'
  <2> SUFFICES ASSUME NEW p \in Op, pc'[p] \in Inside
               PROVE  queue' # <<>> /\ Head(queue').op = p
    BY DEF HeadOK
  <2>1. CASE p = o
    BY <1>1, <2>1
  <2>2. CASE p # o
    <3>1. queue # <<>> /\ Head(queue).op = p
      BY <1>1, <2>2 DEF HeadOK
    <3>2. queue' = queue \/ \E what : Enqueue(o, what)
      BY <3>1, <2>2
    <3> QED
      BY <3>1, <3>2, QueueStep
  <2> QED
    BY <2>1, <2>2
<1>4. RunsOK'
  BY <1>1, Constants DEF RunsOK
<1>5. \A u \in Op : ~Fresh(u) => ~(Fresh(u)')
  BY <1>1 DEF Fresh
<1> QED
  BY <1>1, <1>2, <1>3, <1>4, <1>5

\* The user of a retention is nobody else's.
LEMMA UsersDiffer ==
    ASSUME TypeOK, RunsOK, UsersOK, NEW o \in Op, NEW p \in Op, o # p,
           pc[o] \in Retaining, pc[p] \in Retaining
    PROVE  as[o] # as[p]
<1> USE Constants DEF Retaining
<1>1. SUFFICES ASSUME as[o] = as[p] PROVE FALSE
  OBVIOUS
<1>2. ~(o \in Run /\ p \in Run)
  BY DEF RunsOK
<1>3. ASSUME NEW q \in Op, NEW r \in Op, q # r, as[q] = as[r], q \notin Run,
             pc[q] \in Retaining
      PROVE  FALSE
  <2>1. as[r] = q /\ r # q
    BY <1>3 DEF RunsOK
  <2>2. ~Fresh(q)
    BY <2>1 DEF UsersOK
  <2> QED
    BY <1>3, <2>2 DEF Fresh, TypeOK
<1> QED
  BY <1>1, <1>2, <1>3

\* What moves on without touching the leases disturbs nothing.
LEMMA MoveKeeps ==
    ASSUME IInv, NEW o \in Op, pc[o] \notin ToppingUp, pc'[o] \notin ToppingUp,
           {pc[o], pc'[o]} \cap {"oneTransient", "lastTransient", "closing", "suspendClosing"}
             = {},
           \A p \in Op \ {o} : pc'[p] = pc[p],
           UNCHANGED <<as, topUp, stateVars, held, stuck, forgotten, interruption>>,
           suspended' \in {suspended, NoOp},
           \A u \in Op : ~Fresh(u) => ~(Fresh(u)'),
           pc'[o] \in {"identity", "first"} => ~current,
           pc'[o] \in Retaining => pc[o] \in Retaining \/ pc[o] = "new",
           pc'[o] = "done" => ~current \/ o \notin exec.users
    PROVE  ShapeOK' /\ UsersOK' /\ StageOK' /\ LeasesOK' /\ KeptOK'
<1> USE Constants DEF IInv, LeaseOK, stateVars
<1>1. ShapeOK'
  BY DEF ShapeOK
<1>2. UsersOK'
  <2>1. exec.users \subseteq Op
    BY DEF ShapeOK, ExecType
  <2>2. \A u \in exec.users : ~(Fresh(u)')
    BY <2>1 DEF UsersOK
  <2>3. suspended' # NoOp => ~(Fresh(suspended)')
    BY DEF UsersOK, TypeOK
  <2>4. current => exec.main \in Op /\ ~(Fresh(exec.main)')
    BY DEF UsersOK
  <2>5. \A p, u \in Op : as[p] = u /\ p # u => ~(Fresh(u)')
    BY DEF UsersOK
  <2> QED
    BY <2>2, <2>3, <2>4, <2>5 DEF UsersOK, Fresh
<1>3. StageOK'
  <2>1. pc'[o] \in Retaining /\ current => exec.main # as[o]
    <3>1. CASE pc[o] \in Retaining
      BY <3>1 DEF StageOK
    <3>2. CASE pc[o] = "new"
      BY <3>2 DEF RunsOK, UsersOK, Fresh
    <3> QED
      BY <3>1, <3>2
  <2> QED
    BY <2>1 DEF StageOK, ToppingUp
<1>4. LeasesOK'
  <2>1. \A p \in Op : OwnLeases(p)' = OwnLeases(p)
    BY DEF OwnLeases, ToppingUp
  <2>2. StateLeases(exec)' = StateLeases(exec)
    OBVIOUS
  <2>3. NothingJoinsAClosingLease'
    BY DEF LeasesOK, NothingJoinsAClosingLease
  <2> QED
    BY <2>1, <2>2, <2>3 DEF LeasesOK
<1>5. KeptOK'
  <2>1. exec.users \subseteq Op
    BY DEF ShapeOK, ExecType
  <2> QED
    BY <2>1 DEF KeptOK
<1> QED
  BY <1>1, <1>2, <1>3, <1>4, <1>5

\* A step that only moves one operation on keeps the invariant.
LEMMA SimpleStep ==
    ASSUME IInv, NEW o \in Op, NEW at \in PC,
           pc' = [pc EXCEPT ![o] = at],
           pc[o] \notin {"new", "done"} \cup ToppingUp,
           pc[o] \notin {"oneTransient", "lastTransient", "closing", "suspendClosing"},
           at \notin {"new", "oneTransient", "lastTransient", "closing", "suspendClosing"}
                       \cup ToppingUp,
           o \notin Run => at \notin {"between", "checklist", "suspending"},
           \/ queue' = queue /\ (at \in Inside => queue # <<>> /\ Head(queue).op = o)
           \/ at \notin Inside /\ \E what \in {"retain", "release", "suspend"} : Enqueue(o, what)
           \/ at \notin Inside /\ queue # <<>> /\ Head(queue).op = o /\ queue' = Tail(queue),
           retaking' = retaking \/ (retaking' = retaking \ {o} /\ at \notin Retaining),
           at \in Retaining => pc[o] \in Retaining,
           at \in {"identity", "first"} => ~current,
           at = "done" => ~current \/ o \notin exec.users,
           UNCHANGED <<as, topUp, stateVars, leaseVars, interruptVars>>,
           suspended' \in {suspended, NoOp},
           controller' \in Op \cup {NoOp}, aborted' \subseteq Op
    PROVE  IInv'
<1>1. /\ pc'[o] = at /\ \A p \in Op \ {o} : pc'[p] = pc[p]
      /\ pc' \in [Op -> PC] /\ as' \in [Op -> Op] /\ retaking' \subseteq Run
      /\ queue' \in Seq([do : {"retain", "release", "suspend"}, op : Op])
      /\ HeadOK' /\ RunsOK'
      /\ \A u \in Op : ~Fresh(u) => ~(Fresh(u)')
  <2>1. TypeOK /\ HeadOK /\ RunsOK
    BY DEF IInv, LeaseOK
  <2> QED
    BY <2>1, StepOfOne
<1>2. ShapeOK' /\ UsersOK' /\ StageOK' /\ LeasesOK' /\ KeptOK'
  BY <1>1, MoveKeeps DEF leaseVars, interruptVars
<1>3. TypeOK'
  BY <1>1 DEF IInv, TypeOK, stateVars, leaseVars, interruptVars
<1> QED
  BY <1>1, <1>2, <1>3 DEF IInv, LeaseOK

\* A retention that comes to nothing was not known as a user, or is retaken.
LEMMA FailedIs ==
    ASSUME IInv, NEW o \in Op, pc[o] \in Retaining
    PROVE  /\ o \notin retaking => ~(o \in exec.users)
           /\ (IF o \in retaking THEN "ending" ELSE "done") \in {"ending", "done"}
  BY DEF IInv, LeaseOK, UsersOK, Fresh

\* What stands at the head of the queue is there.
LEMMA HeadIs ==
    ASSUME NEW o \in Op, NEW what, AtHead(o, what)
    PROVE  queue # <<>> /\ Head(queue).op = o
  BY DEF AtHead

\* A retention that is refused fails; the first of a lease stays at the head while it acquires.
LEMMA RetainKeeps ==
    ASSUME IInv, NEW o \in Op,
           RetainRefused(o) \/ RetainFirst(o) \/ AcquireFirst(o) \/ FirstFails(o)
    PROVE  IInv'
<1> USE Constants
<1>1. HeadOK /\ TypeOK /\ controller \in Op \cup {NoOp} /\ aborted \subseteq Op
  BY DEF IInv, LeaseOK, TypeOK
<1> DEFINE failed == IF o \in retaking THEN "ending" ELSE "done"
<1>2. CASE RetainRefused(o)
  <2>1. /\ pc[o] = "queued" /\ pc' = [pc EXCEPT ![o] = failed] /\ queue' = Tail(queue)
        /\ retaking' = retaking \ {o} /\ queue # <<>> /\ Head(queue).op = o
    BY <1>2, HeadIs DEF RetainRefused, Failed, Rejected
  <2>2. failed \in {"ending", "done"} /\ (failed = "done" => o \notin exec.users)
    BY <2>1, FailedIs DEF Retaining
  <2> HIDE DEF failed
  <2> QED
    BY <1>1, <1>2, <2>1, <2>2, SimpleStep
    DEF RetainRefused, PC, ToppingUp, Inside, Retaining, Handover, waitVars, stateVars
<1>3. CASE RetainFirst(o)
  <2>1. queue # <<>> /\ Head(queue).op = o
    BY <1>3, HeadIs DEF RetainFirst
  <2>2. /\ pc[o] = "queued" /\ pc' = [pc EXCEPT ![o] = "identity"] /\ ~current
        /\ queue' = queue /\ retaking' = retaking /\ suspended' = suspended
        /\ UNCHANGED <<as, topUp, stateVars, controller, aborted, leaseVars, interruptVars>>
    BY <1>3 DEF RetainFirst, Handover, waitVars, stateVars
  <2>3. "identity" \in PC
    BY DEF PC
  <2> QED
    BY <1>1, <2>1, <2>2, <2>3, SimpleStep DEF ToppingUp, Inside, Retaining
<1>4. CASE AcquireFirst(o)
  <2>1. queue # <<>> /\ Head(queue).op = o /\ ~current
        /\ controller' \in Op \cup {NoOp} /\ aborted' \subseteq Op
    BY <1>1, <1>4 DEF AcquireFirst, HeadOK, Inside, IInv, LeaseOK, StageOK
  <2>2. /\ pc[o] = "identity" /\ pc' = [pc EXCEPT ![o] = "first"]
        /\ queue' = queue /\ retaking' = retaking /\ suspended' = suspended
        /\ UNCHANGED <<as, topUp, stateVars, leaseVars, interruptVars>>
    BY <1>4 DEF AcquireFirst, Handover, stateVars
  <2>3. "first" \in PC
    BY DEF PC
  <2> QED
    BY <2>1, <2>2, <2>3, SimpleStep DEF ToppingUp, Inside, Retaining
<1>5. CASE FirstFails(o)
  <2>1. /\ pc[o] \in {"identity", "first"} /\ pc' = [pc EXCEPT ![o] = failed]
        /\ queue' = Tail(queue) /\ retaking' = retaking \ {o}
        /\ queue # <<>> /\ Head(queue).op = o
    BY <1>1, <1>5 DEF FirstFails, Failed, Rejected, HeadOK, Inside
  <2>2. failed \in {"ending", "done"} /\ (failed = "done" => o \notin exec.users)
    BY <2>1, FailedIs DEF Retaining
  <2>3. controller' \in Op \cup {NoOp} /\ aborted' \subseteq Op
    BY <1>1, <1>5 DEF FirstFails, AcquisitionOver, TypeOK
  <2> HIDE DEF failed
  <2> QED
    BY <1>1, <1>5, <2>1, <2>2, <2>3, SimpleStep
    DEF FirstFails, PC, ToppingUp, Inside, Retaining, Handover, stateVars
<1> QED
  BY <1>2, <1>3, <1>4, <1>5

\* What is only asked for, or ends without a turn in the queue, changes no lease.
LEMMA RequestsKeep ==
    ASSUME IInv, NEW o \in Op,
           \/ RequestRelease(o) \/ ReleaseNothing(o) \/ RequestSuspension(o)
           \/ SuspensionRefused(o) \/ IterationEnds(o) \/ ContinueHeld(o) \/ ContinueRefused(o)
    PROVE  IInv'
<1> USE Constants
<1> USE DEF PC, ToppingUp, Inside, Retaining, Handover, waitVars, stateVars
<1>1. TypeOK /\ controller \in Op \cup {NoOp} /\ aborted \subseteq Op
  BY DEF IInv, TypeOK
<1>2. CASE RequestRelease(o)
  BY <1>1, <1>2, SimpleStep DEF RequestRelease
<1>3. CASE ReleaseNothing(o)
  <2>1. queue # <<>> /\ Head(queue).op = o
    BY <1>3, HeadIs DEF ReleaseNothing, ReleaseAtHead
  <2> QED
    BY <1>1, <1>3, <2>1, SimpleStep DEF ReleaseNothing, ReleaseAtHead, Done
<1>4. CASE RequestSuspension(o)
  BY <1>1, <1>4, SimpleStep DEF RequestSuspension
<1>5. CASE SuspensionRefused(o)
  <2>1. queue # <<>> /\ Head(queue).op = o
    BY <1>5, HeadIs DEF SuspensionRefused
  <2> QED
    BY <1>1, <1>5, <2>1, SimpleStep DEF SuspensionRefused, Rejected
<1>6. CASE IterationEnds(o)
  BY <1>1, <1>6, SimpleStep DEF IterationEnds
<1>7. CASE ContinueHeld(o)
  <2> DEFINE at == IF AllValid(exec) THEN "running" ELSE "ending"
  <2>1. pc[o] = "between" /\ pc' = [pc EXCEPT ![o] = at] /\ at \in {"running", "ending"}
    BY <1>7 DEF ContinueHeld
  <2> HIDE DEF at
  <2> QED
    BY <1>1, <1>7, <2>1, SimpleStep DEF ContinueHeld
<1>8. CASE ContinueRefused(o)
  BY <1>1, <1>8, SimpleStep DEF ContinueRefused
<1> QED
  BY <1>2, <1>3, <1>4, <1>5, <1>6, <1>7, <1>8

\* A first retention, and one that is taken back.
LEMMA RequestKeeps ==
    ASSUME IInv, NEW o \in Op, Request(o)
    PROVE  IInv'
<1> USE Constants
<1>1. /\ pc[o] = "new" /\ pc' = [pc EXCEPT ![o] = "queued"] /\ Enqueue(o, "retain")
      /\ UNCHANGED <<as, retaking, topUp, stateVars, suspended, controller, aborted, leaseVars,
                     interruptVars>>
      /\ TypeOK /\ HeadOK /\ RunsOK
  BY DEF Request, Handover, waitVars, stateVars, IInv, LeaseOK
<1>2. pc'[o] = "queued" /\ (\A p \in Op \ {o} : pc'[p] = pc[p]) /\ pc' \in [Op -> PC]
  BY <1>1 DEF TypeOK, PC
<1>3. \A u \in Op : ~Fresh(u) => ~(Fresh(u)')
  BY <1>1, <1>2 DEF Fresh
<1>4. ShapeOK' /\ UsersOK' /\ StageOK' /\ LeasesOK' /\ KeptOK'
  BY <1>1, <1>2, <1>3, MoveKeeps DEF ToppingUp, Retaining, leaseVars, interruptVars
<1>5. HeadOK'
  <2> SUFFICES ASSUME NEW p \in Op, pc'[p] \in Inside
               PROVE  queue' # <<>> /\ Head(queue').op = p
    BY DEF HeadOK
  <2>1. queue # <<>> /\ Head(queue).op = p
    BY <1>1, <1>2 DEF HeadOK, Inside
  <2> QED
    BY <1>1, <2>1, QueueStep
<1>6. RunsOK'
  <2>1. \A r, s \in Run :
          pc'[r] \notin {"new", "done"} /\ pc'[s] \notin {"new", "done"} => r = s
    <3>1. o \in Run => \A r \in Run \ {o} : pc[r] \in {"new", "done"}
      BY DEF Request
    <3> QED
      BY <1>1, <1>2, <3>1 DEF RunsOK
  <2>2. \A p \in Op : pc'[p] = "new" => as'[p] = p
    BY <1>1, <1>2 DEF RunsOK
  <2>3. \A p \in Op \ Run :
          as'[p] = p /\ pc'[p] \notin {"between", "checklist", "suspending", "suspendClosing"}
    BY <1>1, <1>2 DEF RunsOK
  <2> QED
    BY <2>1, <2>2, <2>3 DEF RunsOK
<1>7. queue' \in Seq([do : {"retain", "release", "suspend"}, op : Op])
  BY <1>1, QueueTypes
<1>8. TypeOK'
  BY <1>1, <1>2, <1>7 DEF TypeOK, stateVars, leaseVars, interruptVars
<1> QED
  BY <1>4, <1>5, <1>6, <1>8 DEF IInv, LeaseOK

\* A suspended retention is asked for again under its user; only the queue and its place change.
LEMMA RetakeKeeps ==
    ASSUME IInv, NEW o \in Op, Retake(o)
    PROVE  IInv'
<1> USE Constants
<1>1. /\ pc[o] = "between" /\ pc' = [pc EXCEPT ![o] = "queued"] /\ Enqueue(o, "retain")
      /\ ~current /\ suspended \in Op /\ as' = [as EXCEPT ![o] = suspended]
      /\ retaking' = retaking \cup {o}
      /\ UNCHANGED <<topUp, stateVars, suspended, controller, aborted, leaseVars,
                     interruptVars>>
      /\ TypeOK /\ HeadOK /\ RunsOK /\ o \in Run /\ ~Fresh(suspended)
  BY DEF Retake, Handover, waitVars, stateVars, IInv, LeaseOK, TypeOK, RunsOK, UsersOK
<1>2. /\ pc'[o] = "queued" /\ (\A p \in Op \ {o} : pc'[p] = pc[p]) /\ pc' \in [Op -> PC]
      /\ as'[o] = suspended /\ (\A p \in Op \ {o} : as'[p] = as[p]) /\ as' \in [Op -> Op]
  BY <1>1 DEF TypeOK, PC
<1>3. \A u \in Op : ~Fresh(u) => ~(Fresh(u)')
  BY <1>1, <1>2 DEF Fresh
<1>4. HeadOK'
  <2> SUFFICES ASSUME NEW p \in Op, pc'[p] \in Inside
               PROVE  queue' # <<>> /\ Head(queue').op = p
    BY DEF HeadOK
  <2>1. queue # <<>> /\ Head(queue).op = p
    BY <1>1, <1>2 DEF HeadOK, Inside
  <2> QED
    BY <1>1, <2>1, QueueStep
<1>5. RunsOK'
  BY <1>1, <1>2 DEF RunsOK
<1>6. queue' \in Seq([do : {"retain", "release", "suspend"}, op : Op])
  BY <1>1, QueueTypes
<1>7. TypeOK'
  BY <1>1, <1>2, <1>6 DEF TypeOK, stateVars, leaseVars, interruptVars
<1>8. ShapeOK'
  BY <1>1 DEF IInv, LeaseOK, ShapeOK, stateVars, leaseVars, interruptVars
<1>9. UsersOK'
  <2>1. exec.users \subseteq Op
    BY DEF IInv, LeaseOK, ShapeOK, ExecType
  <2>2. \A u \in exec.users : ~(Fresh(u)')
    BY <2>1, <1>3 DEF IInv, LeaseOK, UsersOK
  <2>3. ~(Fresh(suspended)')
    BY <1>1, <1>3
  <2>4. ASSUME NEW p \in Op, NEW u \in Op, as'[p] = u, p # u PROVE ~(Fresh(u)')
    <3>1. ~Fresh(u)
      BY <1>1, <1>2, <2>4 DEF IInv, LeaseOK, UsersOK
    <3> QED
      BY <1>3, <3>1
  <2> QED
    BY <1>1, <2>2, <2>3, <2>4 DEF UsersOK, Fresh, stateVars
<1>10. StageOK'
  <2>1. ASSUME NEW p \in Op
        PROVE  /\ pc'[p] = "persistent" => topUp[as'[p]] # {}
               /\ pc'[p] = "transient" => SlotsOf[as'[p]] > 0
    <3>1. CASE p = o
      BY <1>2, <3>1
    <3>2. CASE p # o
      <4>1. pc'[p] = pc[p] /\ as'[p] = as[p]
        BY <1>2, <3>2
      <4> QED
        BY <4>1 DEF IInv, LeaseOK, StageOK
    <3> QED
      BY <3>1, <3>2
  <2>2. (\E p \in Op : pc'[p] \in {"closing", "suspendClosing"}) <=>
          (\E p \in Op : pc[p] \in {"closing", "suspendClosing"})
    BY <1>1, <1>2
  <2>3. \A p \in Op : pc'[p] \in {"identity", "first"} => ~current
    BY <1>1
  <2> QED
    BY <1>1, <2>1, <2>2, <2>3 DEF IInv, LeaseOK, StageOK, stateVars
<1>11. LeasesOK'
  <2>1. \A p \in Op : OwnLeases(p) \subseteq OwnLeases(p)'
    <3>1. ASSUME NEW p \in Op PROVE OwnLeases(p) \subseteq OwnLeases(p)'
      BY <1>1, <1>2 DEF OwnLeases
    <3> QED
      BY <3>1
  <2>2. NothingJoinsAClosingLease'
    BY <1>1 DEF IInv, LeaseOK, LeasesOK, NothingJoinsAClosingLease, stateVars
  <2> QED
    BY <1>1, <2>1, <2>2 DEF IInv, LeaseOK, LeasesOK, stateVars, leaseVars
<1>12. KeptOK'
  BY <1>1 DEF KeptOK, stateVars
<1> QED
  BY <1>4, <1>5, <1>7, <1>8, <1>9, <1>10, <1>11, <1>12 DEF IInv, LeaseOK

-----------------------------------------------------------------------------
(***************************************************************************)
(* Interruptions and lost leases.                                          *)
(***************************************************************************)

\* What no step of an operation touches.
LEMMA NoStepKeeps ==
    ASSUME IInv,
           UNCHANGED <<queue, opVars, exec>>,
           suspended' \in {suspended, NoOp},
           current' => current
    PROVE  HeadOK' /\ RunsOK' /\ UsersOK' /\ StageOK' /\ KeptOK'
<1> USE Constants DEF IInv, LeaseOK, opVars
<1>1. HeadOK'
  BY DEF HeadOK
<1>2. RunsOK'
  BY DEF RunsOK
<1>3. UsersOK'
  BY DEF UsersOK, Fresh
<1>4. StageOK'
  BY DEF StageOK
<1>5. KeptOK'
  BY DEF KeptOK
<1> QED
  BY <1>1, <1>2, <1>3, <1>4, <1>5

\* Interrupts and lost leases set flags, and grant nothing.
LEMMA InterruptKeeps ==
    ASSUME IInv,
           \/ Interrupt \/ InterruptConfirmed \/ InterruptTimesOut
           \/ \E l \in held : LoseLease(l)
    PROVE  IInv'
<1> USE Constants
<1>1. /\ UNCHANGED <<queue, opVars, stateVars, controller, held, stuck, forgotten>>
      /\ suspended' \in {suspended, NoOp}
      /\ aborted' = aborted \/ aborted' = aborted \cup ({controller} \ {NoOp})
      /\ lost' = lost \/ \E l \in held : lost' = lost \cup {l}
      /\ faults' = faults \/ (faults < MaxFaults /\ faults' = faults + 1)
      /\ TypeOK
  BY DEF Interrupt, InterruptConfirmed, InterruptTimesOut, LoseLease, Handover, waitVars, leaseVars,
         stateVars, IInv
<1>2. TypeOK'
  <2>1. faults' \in 0 .. MaxFaults
    BY <1>1 DEF TypeOK
  <2>2. suspended' \in Op \cup {NoOp} /\ aborted' \subseteq Op /\ lost' \subseteq held'
    BY <1>1 DEF TypeOK
  <2> QED
    BY <1>1, <2>1, <2>2 DEF TypeOK, opVars, stateVars
<1>3. HeadOK' /\ RunsOK' /\ UsersOK' /\ StageOK' /\ KeptOK'
  BY <1>1, NoStepKeeps DEF stateVars
<1>4. LeasesOK'
  <2>1. \A o \in Op : OwnLeases(o)' = OwnLeases(o)
    BY <1>1 DEF OwnLeases, opVars
  <2>2. NothingJoinsAClosingLease'
    BY <1>1 DEF IInv, LeaseOK, LeasesOK, NothingJoinsAClosingLease, stateVars
  <2> QED
    BY <1>1, <2>1, <2>2 DEF IInv, LeaseOK, LeasesOK, stateVars
<1>5. ShapeOK'
  <2>1. exec \in ExecType
    BY DEF IInv, LeaseOK, ShapeOK
  <2>2. StateLeases(exec) \subseteq (Op \cup {NoOp}) \X {"main", "persistent", "transient"}
    BY <1>1, <2>1, ClosingTyped
  <2>3. interruption' \in [at : {"none", "asked", "quarantining"},
                           leases : SUBSET ((Op \cup {NoOp}) \X {"main", "persistent", "transient"})]
    <3>1. CASE interruption' = interruption
      BY <3>1 DEF IInv, LeaseOK, ShapeOK
    <3>2. CASE interruption' = Quiet
      BY <3>2 DEF Quiet
    <3>3. CASE interruption' = [at |-> "asked", leases |-> {}]
      BY <3>3
    <3>4. CASE interruption' = [at |-> "quarantining", leases |-> StateLeases(exec)]
      BY <2>2, <3>4
    <3> QED
      BY <3>1, <3>2, <3>3, <3>4
      DEF Interrupt, InterruptConfirmed, InterruptTimesOut, LoseLease
  <2> QED
    BY <1>1, <2>3 DEF IInv, LeaseOK, ShapeOK, opVars, stateVars
<1> QED
  BY <1>2, <1>3, <1>4, <1>5 DEF IInv, LeaseOK

\* A state that is dropped leaves what it still holds as forgotten.
LEMMA QuarantineKeeps ==
    ASSUME IInv, NEW failed \in SUBSET held, InterruptQuarantines(failed)
    PROVE  IInv'
<1> USE Constants
<1>1. /\ SettleLeases(interruption.leases, failed) /\ TypeOK /\ ShapeOK
      /\ UNCHANGED <<queue, opVars, exec, attached, waitVars>>
      /\ suspended' = NoOp /\ interruption' = Quiet
      /\ current' \in {current, FALSE} /\ forgotten \subseteq forgotten'
      /\ forgotten' \subseteq forgotten \cup held'
  BY DEF InterruptQuarantines, IInv, LeaseOK
<1>2. /\ held' \subseteq Lease /\ IsFiniteSet(held') /\ lost' \subseteq held'
      /\ stuck' \subseteq Lease /\ faults' \in 0 .. MaxFaults
  BY <1>1, SettleTypes
<1>3. TypeOK'
  BY <1>1, <1>2 DEF TypeOK, opVars, waitVars
<1>4. ShapeOK'
  BY <1>1, <1>2 DEF ShapeOK, opVars, Quiet
<1>5. HeadOK' /\ RunsOK' /\ UsersOK' /\ StageOK' /\ KeptOK'
  <2>1. current' => current
    BY DEF InterruptQuarantines
  <2> QED
    BY <1>1, <2>1, NoStepKeeps
<1>6. LeasesOK'
  <2>1. \A o \in Op : OwnLeases(o)' = OwnLeases(o)
    BY <1>1 DEF OwnLeases, opVars
  <2>2. held' \subseteq held /\ stuck \subseteq stuck'
    BY <1>1 DEF SettleLeases
  <2>3. \A l \in held' : current /\ l \in StateLeases(exec)
                           => l \in forgotten' \/ (current' /\ l \in StateLeases(exec)')
    BY <1>1 DEF InterruptQuarantines
  <2>4. NothingJoinsAClosingLease'
    BY <1>1 DEF IInv, LeaseOK, LeasesOK, NothingJoinsAClosingLease
  <2> QED
    BY <1>1, <2>1, <2>2, <2>3, <2>4 DEF IInv, LeaseOK, LeasesOK
<1> QED
  BY <1>3, <1>4, <1>5, <1>6 DEF IInv, LeaseOK

-----------------------------------------------------------------------------
(***************************************************************************)
(* Top-ups.                                                                *)
(***************************************************************************)

\* Only the head of the queue is inside a mutation.
LEMMA NobodyElseInside ==
    ASSUME HeadOK, NEW o \in Op, queue # <<>>, Head(queue).op = o
    PROVE  \A p \in Op \ {o} : pc[p] \notin Inside
  BY DEF HeadOK

\* The leases of a state follow from its main, its users and its persistent ones.
LEMMA SameLeases ==
    ASSUME exec'.main = exec.main, exec'.users = exec.users,
           exec'.persistent = exec.persistent
    PROVE  StateLeases(exec)' = StateLeases(exec)
  BY DEF StateLeases, TransientUsers, Main, Persistent, Transient

\* Leases that an operation acquires or settles on its own account.
LEMMA OwnLeasesStep ==
    ASSUME IInv, NEW o \in Op,
           \A p \in Op \ {o} : OwnLeases(p) \subseteq OwnLeases(p)',
           exec'.main = exec.main, exec'.users = exec.users,
           exec'.persistent = exec.persistent, exec'.closing = exec.closing,
           current' = current, stuck \subseteq stuck', forgotten' = forgotten,
           \A l \in held' : l \in held \/ l \in OwnLeases(o)',
           \A l \in held' : l \in OwnLeases(o) => l \in OwnLeases(o)' \/ l \in stuck'
    PROVE  LeasesOK'
<1>1. StateLeases(exec)' = StateLeases(exec)
  BY SameLeases
<1>2. NothingJoinsAClosingLease'
  BY <1>1 DEF IInv, LeaseOK, LeasesOK, NothingJoinsAClosingLease
<1> QED
  BY <1>1, <1>2 DEF IInv, LeaseOK, LeasesOK

\* A top-up that goes on or fails changes no user.
LEMMA TopUpKeeps ==
    ASSUME IInv, NEW o \in Op, pc[o] \in ToppingUp,
           pc'[o] \in {"transient", "committing", "abandoning", "ending", "done"},
           \A p \in Op \ {o} : pc'[p] = pc[p],
           \A u \in Op : ~Fresh(u) => ~(Fresh(u)'),
           exec'.main = exec.main, exec'.users = exec.users, exec'.closing = exec.closing,
           UNCHANGED <<as, topUp, current, suspended>>,
           pc'[o] = "transient" => SlotsOf[as[o]] > 0,
           pc'[o] = "done" => o \notin exec.users
    PROVE  UsersOK' /\ StageOK' /\ KeptOK'
<1> USE Constants DEF IInv, LeaseOK
<1>1. exec.users \subseteq Op
  BY DEF ShapeOK, ExecType
<1>2. UsersOK'
  <2>1. \A u \in exec.users : ~(Fresh(u)')
    BY <1>1 DEF UsersOK
  <2>2. suspended # NoOp => ~(Fresh(suspended)')
    BY DEF UsersOK, TypeOK
  <2>3. current => exec.main \in Op /\ ~(Fresh(exec.main)')
    BY DEF UsersOK
  <2>4. \A p, u \in Op : as[p] = u /\ p # u => ~(Fresh(u)')
    BY DEF UsersOK
  <2> QED
    BY <2>1, <2>2, <2>3, <2>4 DEF UsersOK, Fresh
<1>3. StageOK'
  BY DEF StageOK, ToppingUp, Retaining
<1>4. KeptOK'
  BY <1>1 DEF KeptOK, ToppingUp
<1> QED
  BY <1>2, <1>3, <1>4

\* What the others have of their own when one operation moves on.
LEMMA OthersOwn ==
    ASSUME NEW o \in Op, \A p \in Op \ {o} : pc'[p] = pc[p], UNCHANGED <<as, topUp>>
    PROVE  \A p \in Op \ {o} : OwnLeases(p) \subseteq OwnLeases(p)'
<1>1. ASSUME NEW p \in Op \ {o} PROVE OwnLeases(p) \subseteq OwnLeases(p)'
  BY <1>1 DEF OwnLeases
<1> QED
  BY <1>1

\* An acquisition keeps the types of the controller and of the aborted operations.
LEMMA AcquiringTypes ==
    ASSUME TypeOK, NEW o \in Op, NEW stage, Acquiring(o, stage) \/ AcquisitionOver(o)
    PROVE  controller' \in Op \cup {NoOp} /\ aborted' \subseteq Op
  BY DEF TypeOK, Acquiring, AcquisitionOver

\* A granted lease is held, and its acquisition is no longer the controller.
LEMMA GrantKeeps ==
    ASSUME IInv, NEW o \in Op, GrantPersistent(o) \/ GrantTransient(o)
    PROVE  IInv'
<1> USE Constants
<1> DEFINE u == as[o]
           lease == IF pc[o] = "persistent" THEN Persistent(u) ELSE Transient(u)
           at == IF pc[o] = "persistent" THEN AfterReservation(u, {}) ELSE "committing"
<1>1. TypeOK /\ HeadOK /\ RunsOK /\ u \in Op
  BY DEF IInv, LeaseOK, TypeOK
<1>2. /\ pc[o] \in {"persistent", "transient"} /\ pc' = [pc EXCEPT ![o] = at]
      /\ held' = held \cup {lease}
      /\ UNCHANGED <<queue, as, retaking, topUp, suspended, exec, current, attached, lost,
                     stuck, forgotten, interruption, faults>>
  BY DEF GrantPersistent, GrantTransient, Handover, interruptVars
<1>3. /\ at \in {"transient", "committing"} /\ (at = "transient" => SlotsOf[u] > 0)
      /\ pc[o] = "transient" => at = "committing"
  BY <1>2 DEF AfterReservation
<1>4. controller' \in Op \cup {NoOp} /\ aborted' \subseteq Op
  BY <1>1, AcquiringTypes DEF GrantPersistent, GrantTransient
<1>5. lease \in Lease
  BY <1>1 DEF Lease, Persistent, Transient
<1>6. /\ pc[o] = "persistent" => topUp[u] # {} /\ lease = Persistent(u)
      /\ pc[o] = "transient" => SlotsOf[u] > 0 /\ lease = Transient(u)
  BY DEF IInv, LeaseOK, StageOK
<1> HIDE DEF at, lease
<1>7. /\ pc'[o] = at /\ \A p \in Op \ {o} : pc'[p] = pc[p]
      /\ pc' \in [Op -> PC] /\ as' \in [Op -> Op] /\ retaking' \subseteq Run
      /\ queue' \in Seq([do : {"retain", "release", "suspend"}, op : Op])
      /\ HeadOK' /\ RunsOK'
      /\ \A x \in Op : ~Fresh(x) => ~(Fresh(x)')
  <2>1. at \in PC
    BY <1>3 DEF PC
  <2> QED
    BY <1>1, <1>2, <1>3, <2>1, StepOfOne DEF Inside, Retaining
<1>8. UsersOK' /\ StageOK' /\ KeptOK'
  BY <1>2, <1>3, <1>7, TopUpKeeps DEF ToppingUp
<1>9. lease \in OwnLeases(o)' /\ OwnLeases(o) \subseteq OwnLeases(o)'
  BY <1>2, <1>3, <1>6, <1>7 DEF OwnLeases
<1>10. LeasesOK'
  <2>1. \A p \in Op \ {o} : OwnLeases(p) \subseteq OwnLeases(p)'
    BY <1>2, <1>7, OthersOwn
  <2> QED
    BY <1>2, <1>9, <2>1, OwnLeasesStep
<1>11. TypeOK'
  <2>1. held' \subseteq Lease /\ lost' \subseteq held'
    BY <1>1, <1>2, <1>5 DEF TypeOK
  <2> QED
    BY <1>1, <1>2, <1>4, <1>7, <2>1 DEF TypeOK
<1>12. ShapeOK'
  <2>1. IsFiniteSet(held')
    BY <1>2, FS_AddElement DEF IInv, LeaseOK, ShapeOK
  <2> QED
    BY <1>2, <2>1 DEF IInv, LeaseOK, ShapeOK
<1> QED
  BY <1>7, <1>8, <1>10, <1>11, <1>12 DEF IInv, LeaseOK

\* A top-up that fails or is refused gives its reservation back.
LEMMA TopUpFailsKeeps ==
    ASSUME IInv, NEW o \in Op, TopUpFails(o) \/ CommitRefused(o)
    PROVE  IInv'
<1> USE Constants
<1>1. TypeOK /\ HeadOK /\ RunsOK /\ ShapeOK
  BY DEF IInv, LeaseOK
<1>2. /\ pc[o] \in {"persistent", "transient", "committing"}
      /\ pc' = [pc EXCEPT ![o] = "abandoning"] /\ ReleaseReservation(o)
      /\ UNCHANGED <<queue, as, retaking, topUp, suspended, current, held, lost, stuck,
                     forgotten, interruption, faults>>
  BY DEF TopUpFails, CommitRefused, leaseVars, interruptVars
<1>3. controller' \in Op \cup {NoOp} /\ aborted' \subseteq Op
  BY <1>1 DEF TopUpFails, CommitRefused, AcquisitionOver, TypeOK, waitVars
<1>4. /\ exec' \in ExecType /\ attached' \subseteq Op
      /\ exec'.main = exec.main /\ exec'.users = exec.users
      /\ exec'.persistent = exec.persistent /\ exec'.closing = exec.closing
  BY <1>1, <1>2, ReservationIs
<1>5. /\ pc'[o] = "abandoning" /\ \A p \in Op \ {o} : pc'[p] = pc[p]
      /\ pc' \in [Op -> PC] /\ as' \in [Op -> Op] /\ retaking' \subseteq Run
      /\ queue' \in Seq([do : {"retain", "release", "suspend"}, op : Op])
      /\ HeadOK' /\ RunsOK'
      /\ \A x \in Op : ~Fresh(x) => ~(Fresh(x)')
  <2>1. "abandoning" \in PC
    BY DEF PC
  <2> QED
    BY <1>1, <1>2, <2>1, StepOfOne DEF Inside, Retaining
<1>6. UsersOK' /\ StageOK' /\ KeptOK'
  BY <1>2, <1>4, <1>5, TopUpKeeps DEF ToppingUp
<1>7. LeasesOK'
  <2>1. \A p \in Op \ {o} : OwnLeases(p) \subseteq OwnLeases(p)'
    BY <1>2, <1>5, OthersOwn
  <2>2. OwnLeases(o) \subseteq OwnLeases(o)'
    BY <1>2, <1>5 DEF OwnLeases
  <2> QED
    BY <1>2, <1>4, <2>1, <2>2, OwnLeasesStep
<1>8. TypeOK'
  BY <1>2, <1>3, <1>4, <1>5 DEF IInv, TypeOK
<1>9. ShapeOK'
  BY <1>2, <1>4 DEF IInv, LeaseOK, ShapeOK
<1> QED
  BY <1>5, <1>6, <1>7, <1>8, <1>9 DEF IInv, LeaseOK

\* Then its leases are settled, and the retention has failed.
LEMMA AbandonKeeps ==
    ASSUME IInv, NEW o \in Op, NEW failed \in SUBSET held, Abandon(o, failed)
    PROVE  IInv'
<1> USE Constants
<1> DEFINE at == IF o \in retaking THEN "ending" ELSE "done"
<1>1. TypeOK /\ HeadOK /\ RunsOK /\ ShapeOK
  BY DEF IInv, LeaseOK
<1>2. /\ pc[o] = "abandoning" /\ pc' = [pc EXCEPT ![o] = at]
      /\ SettleLeases(ReservedLeases(o), failed) /\ retaking' = retaking \ {o}
      /\ UNCHANGED <<queue, as, topUp, suspended, exec, current, attached, controller, aborted,
                     forgotten, interruption>>
  BY DEF Abandon, Failed, Handover, waitVars
<1>3. at \in {"ending", "done"} /\ (at = "done" => o \notin exec.users)
  BY <1>2, FailedIs DEF Retaining
<1>4. /\ held' \subseteq Lease /\ IsFiniteSet(held') /\ lost' \subseteq held'
      /\ stuck' \subseteq Lease /\ faults' \in 0 .. MaxFaults
  BY <1>1, <1>2, SettleTypes
<1> HIDE DEF at
<1>5. /\ pc'[o] = at /\ \A p \in Op \ {o} : pc'[p] = pc[p]
      /\ pc' \in [Op -> PC] /\ as' \in [Op -> Op] /\ retaking' \subseteq Run
      /\ queue' \in Seq([do : {"retain", "release", "suspend"}, op : Op])
      /\ HeadOK' /\ RunsOK'
      /\ \A x \in Op : ~Fresh(x) => ~(Fresh(x)')
  <2>1. at \in PC
    BY <1>3 DEF PC
  <2> QED
    BY <1>1, <1>2, <1>3, <2>1, StepOfOne DEF Inside, Retaining
<1>6. UsersOK' /\ StageOK' /\ KeptOK'
  BY <1>2, <1>3, <1>5, TopUpKeeps DEF ToppingUp
<1>7. LeasesOK'
  <2>1. \A p \in Op \ {o} : OwnLeases(p) \subseteq OwnLeases(p)'
    BY <1>2, <1>5, OthersOwn
  <2>2. /\ held' \subseteq held /\ stuck \subseteq stuck'
        /\ \A l \in held' : l \in ReservedLeases(o) => l \in stuck'
    BY <1>2 DEF SettleLeases
  <2>3. \A l \in held : l \in OwnLeases(o) => l \in ReservedLeases(o)
    BY <1>2 DEF OwnLeases, ReservedLeases
  <2> QED
    BY <1>2, <2>1, <2>2, <2>3, OwnLeasesStep
<1>8. TypeOK'
  BY <1>2, <1>4, <1>5 DEF IInv, TypeOK
<1>9. ShapeOK'
  BY <1>2, <1>4 DEF IInv, LeaseOK, ShapeOK
<1> QED
  BY <1>5, <1>6, <1>7, <1>8, <1>9 DEF IInv, LeaseOK

\* Inside its own mutation an operation meets nobody else's, nor a closing.
LEMMA NothingCloses ==
    ASSUME IInv, NEW o \in Op, queue # <<>>, Head(queue).op = o,
           pc[o] \notin {"closing", "suspendClosing"}
    PROVE  exec.closing = {} /\ \A p \in Op \ {o} : pc[p] \notin Inside
<1>1. \A p \in Op \ {o} : pc[p] \notin Inside
  BY NobodyElseInside DEF IInv, LeaseOK
<1> QED
  BY <1>1 DEF IInv, LeaseOK, StageOK, Inside

\* Users that are added by an operation which is retained by now.
LEMMA UsersStep ==
    ASSUME IInv, NEW o \in Op, as' = as, \A x \in Op : ~Fresh(x) => ~(Fresh(x)'),
           ~(Fresh(o)'), suspended' \in {suspended, NoOp} \cup exec.users,
           exec'.users \subseteq exec.users \cup {as[o]},
           current' => (current /\ exec'.main = exec.main) \/ exec'.main = as[o]
    PROVE  UsersOK'
<1> USE Constants DEF IInv, LeaseOK
<1>1. exec.users \subseteq Op /\ as[o] \in Op /\ suspended \in Op \cup {NoOp}
  BY DEF ShapeOK, ExecType, TypeOK
<1>2. ~(Fresh(as[o])')
  <2>1. CASE as[o] = o
    BY <2>1 DEF Fresh
  <2>2. CASE as[o] # o
    BY <1>1, <2>2 DEF UsersOK, Fresh
  <2> QED
    BY <2>1, <2>2
<1>3. \A u \in exec'.users : ~(Fresh(u)')
  BY <1>1, <1>2 DEF UsersOK, Fresh
<1>4. suspended' # NoOp => ~(Fresh(suspended)')
  BY <1>1 DEF UsersOK, Fresh
<1>5. current' => exec'.main \in Op /\ ~(Fresh(exec.main)')
  BY <1>1, <1>2 DEF UsersOK, Fresh
<1>6. \A p, u \in Op : as'[p] = u /\ p # u => ~(Fresh(u)')
  BY DEF UsersOK
<1> QED
  BY <1>3, <1>4, <1>5, <1>6 DEF UsersOK, Fresh

\* The first retention takes a new state for its own.
LEMMA GrantFirstKeeps ==
    ASSUME IInv, NEW o \in Op, GrantFirst(o)
    PROVE  IInv'
<1> USE Constants
<1> DEFINE u == as[o]
<1>1. TypeOK /\ HeadOK /\ RunsOK /\ ShapeOK /\ u \in Op
  BY DEF IInv, LeaseOK, TypeOK
<1>2. /\ pc[o] = "first" /\ pc' = [pc EXCEPT ![o] = "running"] /\ queue' = Tail(queue)
      /\ held' = held \cup {Main(u)} /\ current' = TRUE /\ attached' = {}
      /\ exec' = [NoExec EXCEPT !.main = u, !.users = {u},
                                !.reserved = UnitsOf[u], !.agents = AgentsOf[u]]
      /\ retaking' = retaking \ {o} /\ suspended' \in {suspended, NoOp}
      /\ UNCHANGED <<as, topUp, lost, stuck, forgotten, interruption, faults>>
  BY DEF GrantFirst, Retained, interruptVars
<1>3. controller' \in Op \cup {NoOp} /\ aborted' \subseteq Op
  BY <1>1 DEF GrantFirst, AcquisitionOver, TypeOK
<1>4. queue # <<>> /\ Head(queue).op = o
  BY <1>1, <1>2 DEF HeadOK, Inside
<1>5. exec.closing = {} /\ (\A p \in Op \ {o} : pc[p] \notin Inside) /\ ~current
  BY <1>2, <1>4, NothingCloses DEF IInv, LeaseOK, StageOK
<1>6. /\ pc'[o] = "running" /\ \A p \in Op \ {o} : pc'[p] = pc[p]
      /\ pc' \in [Op -> PC] /\ as' \in [Op -> Op] /\ retaking' \subseteq Run
      /\ queue' \in Seq([do : {"retain", "release", "suspend"}, op : Op])
      /\ HeadOK' /\ RunsOK'
      /\ \A x \in Op : ~Fresh(x) => ~(Fresh(x)')
  <2>1. "running" \in PC
    BY DEF PC
  <2> QED
    BY <1>1, <1>2, <1>4, <2>1, StepOfOne DEF Inside, Retaining
<1>7. /\ exec' \in ExecType /\ exec'.main = u /\ exec'.users = {u} /\ exec'.closing = {}
  BY <1>1, <1>2 DEF NoExec, ExecType
<1>8. UsersOK'
  <2>1. ~(Fresh(o)')
    BY <1>6 DEF Fresh, Retaining
  <2> QED
    BY <1>2, <1>6, <1>7, <2>1, UsersStep
<1>9. StageOK'
  <2>1. \A p \in Op : pc'[p] \notin Inside
    BY <1>5, <1>6 DEF Inside
  <2>2. \A p \in Op : pc'[p] \in Retaining => u # as[p]
    <3>1. \A p \in Op \ {o} : pc[p] \in Retaining => u # as[p]
      BY <1>1, <1>2, UsersDiffer DEF IInv, LeaseOK, Retaining
    <3> QED
      BY <1>6, <3>1 DEF Retaining
  <2>3. \A p \in Op : /\ pc'[p] = "persistent" => topUp[as[p]] # {}
                      /\ pc'[p] = "transient" => SlotsOf[as[p]] > 0
    BY <1>6 DEF IInv, LeaseOK, StageOK
  <2> QED
    BY <1>2, <1>7, <2>1, <2>2, <2>3 DEF StageOK, Inside
<1>10. LeasesOK'
  <2>1. \A p \in Op \ {o} : OwnLeases(p) \subseteq OwnLeases(p)'
    BY <1>2, <1>6, OthersOwn
  <2>2. OwnLeases(o) = {}
    BY <1>2 DEF OwnLeases
  <2>3. Main(u) \in StateLeases(exec)'
    BY <1>7 DEF StateLeases
  <2>4. NothingJoinsAClosingLease'
    BY <1>7 DEF NothingJoinsAClosingLease
  <2>5. \A l \in held : l \in stuck \cup forgotten \/ \E p \in Op : l \in OwnLeases(p)
    BY <1>5 DEF IInv, LeaseOK, LeasesOK
  <2> QED
    BY <1>2, <2>1, <2>2, <2>3, <2>4, <2>5 DEF LeasesOK
<1>11. KeptOK'
  BY <1>2, <1>6, <1>7 DEF KeptOK
<1>12. TypeOK'
  <2>1. Main(u) \in Lease
    BY <1>1 DEF Lease, Main
  <2>2. held' \subseteq Lease /\ lost' \subseteq held'
    BY <1>1, <1>2, <2>1 DEF TypeOK
  <2> QED
    BY <1>1, <1>2, <1>3, <1>6, <2>2 DEF TypeOK
<1>13. ShapeOK'
  <2>1. IsFiniteSet(held')
    BY <1>1, <1>2, FS_AddElement DEF ShapeOK
  <2> QED
    BY <1>1, <1>2, <1>7, <2>1 DEF ShapeOK
<1> QED
  BY <1>6, <1>8, <1>9, <1>10, <1>11, <1>12, <1>13 DEF IInv, LeaseOK

\* A top-up reserves what the state does not have yet.
LEMMA ReserveKeeps ==
    ASSUME IInv, NEW o \in Op, ReserveTopUp(o)
    PROVE  IInv'
<1> USE Constants
<1> DEFINE u == as[o]
           agents == NewAgents(u)
           at == AfterReservation(u, agents)
<1>1. TypeOK /\ HeadOK /\ RunsOK /\ ShapeOK /\ u \in Op
  BY DEF IInv, LeaseOK, TypeOK
<1>2. /\ pc[o] = "queued" /\ pc' = [pc EXCEPT ![o] = at] /\ queue' = Tail(queue)
      /\ exec' = [exec EXCEPT !.reserved = AggregateDemand(u),
                              !.agents = @ \cup agents, !.pending = @ \cup {u}]
      /\ topUp' = [topUp EXCEPT ![u] = agents] /\ attached' = attached \cup {o}
      /\ Acquiring(o, at)
      /\ UNCHANGED <<as, retaking, current, suspended, held, lost, stuck, forgotten,
                     interruption, faults>>
  BY DEF ReserveTopUp, leaseVars, interruptVars
<1>3. /\ at \in {"persistent", "transient", "committing"}
      /\ at = "persistent" => agents # {}
      /\ at = "transient" => SlotsOf[u] > 0
  BY DEF AfterReservation
<1>4. agents \subseteq AgentsOf[u] /\ AggregateDemand(u) \in Nat
  <2>1. agents \in SUBSET AgentsOf[u]
    BY DEF NewAgents
  <2>2. AdditionalUnits(u, agents) \in Nat
    BY <1>1, <2>1, UnitsTyped
  <2>3. exec.reserved \in Nat
    BY <1>1 DEF ShapeOK, ExecType
  <2> HIDE DEF agents
  <2>4. exec.reserved + AdditionalUnits(u, agents) \in Nat
    <3>1. \A m, n \in Nat : m + n \in Nat
      OBVIOUS
    <3> QED
      BY <2>2, <2>3, <3>1, Zenon
  <2> QED
    BY <2>1, <2>4 DEF AggregateDemand, agents
<1>5. queue # <<>> /\ Head(queue).op = o
  BY HeadIs DEF ReserveTopUp
<1> HIDE DEF at, agents
<1>6. controller' \in Op \cup {NoOp} /\ aborted' \subseteq Op
  BY <1>1, <1>2, AcquiringTypes
<1>7. /\ pc'[o] = at /\ \A p \in Op \ {o} : pc'[p] = pc[p]
      /\ pc' \in [Op -> PC] /\ as' \in [Op -> Op] /\ retaking' \subseteq Run
      /\ queue' \in Seq([do : {"retain", "release", "suspend"}, op : Op])
      /\ HeadOK' /\ RunsOK'
      /\ \A x \in Op : ~Fresh(x) => ~(Fresh(x)')
  <2>1. at \in PC
    BY <1>3 DEF PC
  <2> QED
    BY <1>1, <1>2, <1>3, <1>5, <2>1, StepOfOne DEF Inside, Retaining
<1>8. /\ exec' \in ExecType /\ exec'.main = exec.main /\ exec'.users = exec.users
      /\ exec'.persistent = exec.persistent /\ exec'.closing = exec.closing
  <2>1. exec \in ExecType /\ exec.agents \cup agents \subseteq UNION {AgentsOf[x] : x \in Op}
        /\ exec.pending \cup {u} \subseteq Op
    BY <1>1, <1>4 DEF ShapeOK, ExecType
  <2> QED
    BY <1>2, <1>4, <2>1 DEF ExecType
<1>9. /\ topUp' \in [Op -> SUBSET UNION {AgentsOf[x] : x \in Op}]
      /\ topUp'[u] = agents /\ \A x \in Op \ {u} : topUp'[x] = topUp[x]
  BY <1>1, <1>2, <1>4 DEF ShapeOK
<1>10. \A p \in Op \ {o} : pc[p] \in Retaining => u # as[p] /\ topUp'[as[p]] = topUp[as[p]]
  <2>1. \A p \in Op \ {o} : pc[p] \in Retaining => u # as[p]
    BY <1>1, <1>2, UsersDiffer DEF IInv, LeaseOK, Retaining
  <2> QED
    BY <1>1, <1>9, <2>1 DEF TypeOK
<1>11. UsersOK'
  <2>1. \A x \in exec.users : ~(Fresh(x)')
    BY <1>1, <1>7 DEF IInv, LeaseOK, UsersOK, ShapeOK, ExecType
  <2>2. suspended # NoOp => ~(Fresh(suspended)')
    BY <1>1, <1>2, <1>7 DEF IInv, LeaseOK, UsersOK, TypeOK
  <2>3. current => exec.main \in Op /\ ~(Fresh(exec.main)')
    BY <1>7, <1>8 DEF IInv, LeaseOK, UsersOK, Fresh
  <2>4. \A p, x \in Op : as[p] = x /\ p # x => ~(Fresh(x)')
    BY <1>7 DEF IInv, LeaseOK, UsersOK
  <2> QED
    BY <1>2, <1>8, <2>1, <2>2, <2>3, <2>4 DEF UsersOK, Fresh
<1>12. StageOK'
  <2>1. \A p \in Op : pc'[p] \in {"identity", "first"} => ~current'
    BY <1>2, <1>3, <1>7 DEF IInv, LeaseOK, StageOK
  <2>2. \A p \in Op : pc'[p] \in Retaining /\ current' => exec'.main # as'[p]
    <3>1. \A p \in Op : pc'[p] \in Retaining => pc[p] \in Retaining
      BY <1>2, <1>7 DEF Retaining
    <3> QED
      BY <1>2, <1>8, <3>1 DEF IInv, LeaseOK, StageOK
  <2>3. \A p \in Op : /\ pc'[p] = "persistent" => topUp'[as'[p]] # {}
                      /\ pc'[p] = "transient" => SlotsOf[as'[p]] > 0
    <3>1. ASSUME NEW p \in Op
          PROVE  /\ pc'[p] = "persistent" => topUp'[as'[p]] # {}
                 /\ pc'[p] = "transient" => SlotsOf[as'[p]] > 0
      <4>1. CASE p = o
        BY <1>2, <1>3, <1>7, <1>9, <4>1
      <4>2. CASE p # o
        <5>1. pc'[p] = pc[p] /\ (pc[p] \in Retaining => topUp'[as[p]] = topUp[as[p]])
          BY <1>7, <1>10, <4>2
        <5> QED
          BY <1>2, <5>1 DEF IInv, LeaseOK, StageOK, Retaining
      <4> QED
        BY <4>1, <4>2
    <3> QED
      BY <3>1
  <2>4. exec'.closing # {} <=> \E p \in Op : pc'[p] \in {"closing", "suspendClosing"}
    BY <1>2, <1>3, <1>7, <1>8 DEF IInv, LeaseOK, StageOK
  <2> QED
    BY <2>1, <2>2, <2>3, <2>4 DEF StageOK
<1>13. LeasesOK'
  <2>1. \A p \in Op \ {o} : OwnLeases(p) \subseteq OwnLeases(p)'
    <3>1. ASSUME NEW p \in Op \ {o} PROVE OwnLeases(p) \subseteq OwnLeases(p)'
      <4>1. pc'[p] = pc[p] /\ as'[p] = as[p]
            /\ (pc[p] \in Retaining => topUp'[as[p]] = topUp[as[p]])
        BY <1>2, <1>7, <1>10
      <4> QED
        BY <4>1 DEF OwnLeases, Retaining
    <3> QED
      BY <3>1
  <2>2. OwnLeases(o) = {}
    BY <1>2 DEF OwnLeases
  <2> QED
    BY <1>2, <1>8, <2>1, <2>2, OwnLeasesStep
<1>14. KeptOK'
  <2>1. exec.users \subseteq Op
    BY <1>1 DEF ShapeOK, ExecType
  <2> QED
    BY <1>2, <1>3, <1>7, <1>8, <2>1 DEF IInv, LeaseOK, KeptOK
<1>15. TypeOK'
  <2>1. \A x \in Op : topUp'[x] \subseteq AgentsOf[x]
    BY <1>1, <1>4, <1>9 DEF TypeOK
  <2> QED
    BY <1>1, <1>2, <1>6, <1>7, <2>1 DEF TypeOK
<1>16. ShapeOK'
  BY <1>1, <1>2, <1>8, <1>9 DEF ShapeOK
<1> QED
  BY <1>7, <1>11, <1>12, <1>13, <1>14, <1>15, <1>16 DEF IInv, LeaseOK

\* A top-up that holds becomes a user, and its leases the state's.
LEMMA CommitKeeps ==
    ASSUME IInv, NEW o \in Op, Commit(o)
    PROVE  IInv'
<1> USE Constants
<1> DEFINE u == as[o]
<1>1. TypeOK /\ HeadOK /\ RunsOK /\ ShapeOK /\ u \in Op
  BY DEF IInv, LeaseOK, TypeOK
<1>2. PICK at \in {"running", "ending"} : pc' = [pc EXCEPT ![o] = at]
  <2>1. pc' = [pc EXCEPT ![o] = "running"] \/ pc' = [pc EXCEPT ![o] = "ending"]
    BY DEF Commit
  <2> QED
    BY <2>1
<1>3. /\ pc[o] = "committing" /\ current /\ exec.closing = {} /\ attached' = attached \ {o}
      /\ exec' = [exec EXCEPT !.pending = @ \ {u}, !.users = @ \cup {u},
                              !.persistent = IF topUp[u] = {} THEN @ ELSE @ \cup {u}]
      /\ retaking' = retaking \ {o} /\ suspended' \in {suspended, NoOp}
      /\ UNCHANGED <<queue, as, topUp, current, controller, aborted, held, lost, stuck,
                     forgotten, interruption, faults>>
  BY DEF Commit, TopUpHolds, Retained, waitVars, leaseVars, interruptVars
<1>4. /\ pc'[o] = at /\ \A p \in Op \ {o} : pc'[p] = pc[p]
      /\ pc' \in [Op -> PC] /\ as' \in [Op -> Op] /\ retaking' \subseteq Run
      /\ queue' \in Seq([do : {"retain", "release", "suspend"}, op : Op])
      /\ HeadOK' /\ RunsOK'
      /\ \A x \in Op : ~Fresh(x) => ~(Fresh(x)')
  <2>1. at \in PC
    BY DEF PC
  <2> QED
    BY <1>1, <1>2, <1>3, <2>1, StepOfOne DEF Inside, Retaining
<1>5. /\ exec' \in ExecType /\ exec'.main = exec.main /\ exec'.users = exec.users \cup {u}
      /\ exec.persistent \subseteq exec'.persistent
      /\ topUp[u] # {} => u \in exec'.persistent
      /\ exec'.closing = {}
  <2>1. exec \in ExecType
    BY <1>1 DEF ShapeOK
  <2> QED
    BY <1>1, <1>3, <2>1 DEF ExecType
<1>6. UsersOK'
  <2>1. ~(Fresh(o)')
    BY <1>4 DEF Fresh, Retaining
  <2> QED
    BY <1>3, <1>4, <1>5, <2>1, UsersStep
<1>7. StageOK'
  BY <1>3, <1>4, <1>5 DEF IInv, LeaseOK, StageOK, Retaining
<1>8. LeasesOK'
  <2>1. \A p \in Op \ {o} : OwnLeases(p) \subseteq OwnLeases(p)'
    BY <1>3, <1>4, OthersOwn
  <2>2. u # exec.main
    BY <1>3 DEF IInv, LeaseOK, StageOK, Retaining
  <2>3. StateLeases(exec) \subseteq StateLeases(exec)'
    BY <1>5 DEF StateLeases, TransientUsers
  <2>4. OwnLeases(o) \subseteq StateLeases(exec)'
    BY <1>3, <1>5, <2>2 DEF OwnLeases, StateLeases, TransientUsers
  <2>5. NothingJoinsAClosingLease'
    BY <1>5 DEF NothingJoinsAClosingLease
  <2>6. \A l \in held : \/ l \in stuck \cup forgotten \/ l \in StateLeases(exec)
                        \/ \E p \in Op : l \in OwnLeases(p)
    BY <1>3 DEF IInv, LeaseOK, LeasesOK
  <2> QED
    BY <1>3, <2>1, <2>3, <2>4, <2>5, <2>6 DEF LeasesOK
<1>9. KeptOK'
  <2>1. exec.users \subseteq Op
    BY <1>1 DEF ShapeOK, ExecType
  <2> QED
    BY <1>3, <1>4, <1>5, <2>1 DEF IInv, LeaseOK, KeptOK
<1>10. TypeOK'
  BY <1>1, <1>3, <1>4 DEF TypeOK
<1>11. ShapeOK'
  BY <1>1, <1>3, <1>5 DEF ShapeOK
<1> QED
  BY <1>4, <1>6, <1>7, <1>8, <1>9, <1>10, <1>11 DEF IInv, LeaseOK

-----------------------------------------------------------------------------
(***************************************************************************)
(* Releases and closings.                                                  *)
(***************************************************************************)

\* An operation that gives up its share, or closes the lease.
LEMMA ShareStep ==
    ASSUME IInv, NEW o \in Op, pc[o] \notin Retaining, pc'[o] \notin Retaining \cup {"new"},
           \A p \in Op \ {o} : pc'[p] = pc[p] /\ pc[p] \notin Inside,
           UNCHANGED <<as, topUp>>, \A x \in Op : ~Fresh(x) => ~(Fresh(x)'),
           suspended' \in {suspended, NoOp} \cup exec.users,
           exec'.users \subseteq exec.users,
           current' => current /\ exec'.main = exec.main,
           exec'.closing # {} <=> pc'[o] \in {"closing", "suspendClosing"}
    PROVE  UsersOK' /\ StageOK'
<1>1. UsersOK'
  <2>1. ~(Fresh(o)')
    BY DEF Fresh
  <2> QED
    BY <2>1, UsersStep
<1>2. StageOK'
  <2>1. \A p \in Op : pc'[p] \notin {"identity", "first"}
    BY DEF Inside, Retaining
  <2>2. \A p \in Op : pc'[p] \in Retaining /\ current' => exec'.main # as'[p]
    BY DEF IInv, LeaseOK, StageOK
  <2>3. \A p \in Op : /\ pc'[p] = "persistent" => topUp'[as'[p]] # {}
                      /\ pc'[p] = "transient" => SlotsOf[as'[p]] > 0
    BY DEF IInv, LeaseOK, StageOK, Retaining
  <2>4. exec'.closing # {} <=> \E p \in Op : pc'[p] \in {"closing", "suspendClosing"}
    BY DEF Inside
  <2> QED
    BY <2>1, <2>2, <2>3, <2>4 DEF StageOK
<1> QED
  BY <1>1, <1>2

\* What a state holds depends on its users, its main and its persistent leases.
LEMMA StateLeasesOf ==
    ASSUME NEW e, NEW f, e.main = f.main, e.users = f.users, e.persistent = f.persistent
    PROVE  StateLeases(e) = StateLeases(f) /\ StateLeases(e) # {}
  BY DEF StateLeases, TransientUsers, Main, Persistent, Transient

\* The share is given up; the last one closes the lease.
LEMMA ReleaseShareKeeps ==
    ASSUME IInv, NEW o \in Op, ReleaseShare(o)
    PROVE  IInv'
<1> USE Constants
<1> DEFINE left == [exec EXCEPT !.users = exec.users \ {o}]
<1>1. TypeOK /\ HeadOK /\ RunsOK /\ ShapeOK /\ exec \in ExecType
  BY DEF IInv, LeaseOK, ShapeOK
<1>2. /\ pc[o] = "releasing" /\ current /\ o \in exec.users
      /\ UNCHANGED <<as, retaking, topUp, current, attached, suspended, controller, aborted, held,
                     lost, stuck, forgotten, interruption, faults>>
      /\ queue # <<>> /\ Head(queue).op = o
  BY HeadIs DEF ReleaseShare, ReleaseAtHead, waitVars, leaseVars, interruptVars
<1>3. /\ left \in ExecType /\ left.main = exec.main /\ left.users = exec.users \ {o}
      /\ left.persistent = exec.persistent /\ left.closing = exec.closing
  BY <1>1 DEF ExecType
<1>4. exec.closing = {} /\ \A p \in Op \ {o} : pc[p] \notin Inside
  BY <1>2, NothingCloses
<1>5. /\ Closing(left) \in ExecType /\ Closing(left).main = exec.main
      /\ Closing(left).users = exec.users \ {o} /\ Closing(left).persistent = exec.persistent
      /\ Closing(left).closing = StateLeases(left)
  BY <1>1, <1>3, ClosingTyped
<1>6. PICK at \in {"lastTransient", "oneTransient", "closing", "done"} :
        /\ pc' = [pc EXCEPT ![o] = at]
        /\ queue' = IF at = "done" THEN Tail(queue) ELSE queue
        /\ exec' = IF at = "closing" THEN Closing(left) ELSE left
        /\ at \in {"lastTransient", "oneTransient"} <=> o \in TransientUsers(exec)
        /\ at = "closing" => exec.users = {o}
        /\ at \in {"oneTransient", "done"} => exec.users \ {o} # {}
  <2> HIDE DEF left
  <2>1. /\ IF o \in TransientUsers(exec)
           THEN /\ exec' = left
                /\ pc' = [pc EXCEPT ![o] = IF IsLast(o) THEN "lastTransient" ELSE "oneTransient"]
                /\ UNCHANGED queue
           ELSE IF IsLast(o)
           THEN /\ exec' = Closing(left)
                /\ pc' = [pc EXCEPT ![o] = "closing"]
                /\ UNCHANGED queue
           ELSE /\ exec' = left
                /\ Done(o)
        /\ IsLast(o) <=> exec.users \ {o} = {}
    BY DEF ReleaseShare, IsLast, left
  <2>2. CASE o \in TransientUsers(exec) /\ IsLast(o)
    <3>1. exec' = left /\ pc' = [pc EXCEPT ![o] = "lastTransient"] /\ queue' = queue
      BY <2>1, <2>2
    <3> QED
      BY <2>2, <3>1
  <2>3. CASE o \in TransientUsers(exec) /\ ~IsLast(o)
    <3>1. exec' = left /\ pc' = [pc EXCEPT ![o] = "oneTransient"] /\ queue' = queue
      BY <2>1, <2>3
    <3> QED
      BY <2>1, <2>3, <3>1
  <2>4. CASE o \notin TransientUsers(exec) /\ IsLast(o)
    <3>1. exec' = Closing(left) /\ pc' = [pc EXCEPT ![o] = "closing"] /\ queue' = queue
      BY <2>1, <2>4
    <3>2. exec.users = {o}
      BY <1>2, <2>1, <2>4
    <3> QED
      BY <2>4, <3>1, <3>2
  <2>5. CASE o \notin TransientUsers(exec) /\ ~IsLast(o)
    <3>1. exec' = left /\ pc' = [pc EXCEPT ![o] = "done"] /\ queue' = Tail(queue)
      BY <2>1, <2>5 DEF Done
    <3> QED
      BY <2>1, <2>5, <3>1
  <2> QED
    BY <2>2, <2>3, <2>4, <2>5
<1>7. /\ exec' \in ExecType /\ exec'.main = exec.main /\ exec'.users = exec.users \ {o}
      /\ exec'.persistent = exec.persistent
      /\ exec'.closing = IF at = "closing" THEN StateLeases(left) ELSE {}
  <2> HIDE DEF left
  <2> QED
    BY <1>3, <1>4, <1>5, <1>6
<1>8. StateLeases(exec)' = StateLeases(left) /\ StateLeases(left) # {}
  BY <1>3, <1>7, StateLeasesOf
<1>9. /\ pc'[o] = at /\ \A p \in Op \ {o} : pc'[p] = pc[p]
      /\ pc' \in [Op -> PC] /\ as' \in [Op -> Op] /\ retaking' \subseteq Run
      /\ queue' \in Seq([do : {"retain", "release", "suspend"}, op : Op])
      /\ HeadOK' /\ RunsOK'
      /\ \A x \in Op : ~Fresh(x) => ~(Fresh(x)')
  <2>1. at \in PC
    BY DEF PC
  <2> QED
    BY <1>1, <1>2, <1>6, <2>1, StepOfOne DEF Inside, Retaining
<1>10. UsersOK' /\ StageOK'
  <2>1. exec'.closing # {} <=> pc'[o] \in {"closing", "suspendClosing"}
    BY <1>6, <1>7, <1>8, <1>9
  <2> HIDE DEF left
  <2> QED
    BY <1>2, <1>4, <1>6, <1>7, <1>9, <2>1, ShareStep DEF Retaining
<1>11. LeasesOK'
  <2>1. \A p \in Op \ {o} : OwnLeases(p) \subseteq OwnLeases(p)'
    BY <1>2, <1>9, OthersOwn
  <2>2. OwnLeases(o) = {}
    BY <1>2 DEF OwnLeases
  <2>3. NothingJoinsAClosingLease'
    BY <1>7, <1>8 DEF NothingJoinsAClosingLease
  <2>4. \A l \in held : \/ l \in stuck \cup forgotten \/ l \in StateLeases(exec)
                        \/ \E p \in Op : l \in OwnLeases(p)
    BY <1>4 DEF IInv, LeaseOK, LeasesOK
  <2>5. \A l \in StateLeases(exec) : l \in StateLeases(left) \/ l \in OwnLeases(o)'
    <3>1. \A l \in StateLeases(exec) :
            l \in StateLeases(left) \/ (o \in TransientUsers(exec) /\ l = Transient(o))
      BY <1>1, <1>3 DEF StateLeases, TransientUsers
    <3>2. o \in TransientUsers(exec) => Transient(o) \in OwnLeases(o)'
      BY <1>6, <1>9 DEF OwnLeases
    <3> QED
      BY <3>1, <3>2
  <2> HIDE DEF left
  <2> QED
    BY <1>2, <1>7, <1>8, <2>1, <2>2, <2>3, <2>4, <2>5 DEF LeasesOK
<1>12. KeptOK'
  <2>1. exec.users \subseteq Op
    BY <1>1 DEF ExecType
  <2>2. exec'.users # {} \/ pc'[o] \in {"lastTransient", "closing"}
    BY <1>6, <1>7, <1>9
  <2> HIDE DEF left
  <2> QED
    BY <1>2, <1>7, <1>9, <2>1, <2>2 DEF IInv, LeaseOK, KeptOK
<1>13. TypeOK'
  BY <1>1, <1>2, <1>9 DEF TypeOK
<1>14. ShapeOK'
  BY <1>1, <1>2, <1>7 DEF ShapeOK
<1> QED
  BY <1>9, <1>10, <1>11, <1>12, <1>13, <1>14 DEF IInv, LeaseOK

\* A transient lease is settled; the last user goes on to close the rest.
LEMMA ReleaseTransientKeeps ==
    ASSUME IInv, NEW o \in Op, NEW failed \in SUBSET held, ReleaseTransient(o, failed)
    PROVE  IInv'
<1> USE Constants
<1> DEFINE n == IF SlotsOf[o] > exec.reserved THEN 0 ELSE exec.reserved - SlotsOf[o]
           left == [exec EXCEPT !.reserved = n]
<1>1. TypeOK /\ HeadOK /\ RunsOK /\ ShapeOK /\ exec \in ExecType
  BY DEF IInv, LeaseOK, ShapeOK
<1>2. /\ pc[o] \in {"oneTransient", "lastTransient"}
      /\ SettleLeases({Transient(o)}, failed)
      /\ UNCHANGED <<as, retaking, topUp, current, attached, suspended, controller, aborted,
                     forgotten, interruption>>
  BY DEF ReleaseTransient, waitVars
<1>3. queue # <<>> /\ Head(queue).op = o
  BY <1>1, <1>2 DEF HeadOK, Inside
<1>4. /\ left \in ExecType /\ left.main = exec.main /\ left.users = exec.users
      /\ left.persistent = exec.persistent /\ left.closing = exec.closing
  <2>1. n \in Nat
    <3>1. exec.reserved \in Nat
      BY <1>1 DEF ExecType
    <3> QED
      BY <3>1
  <2> HIDE DEF n
  <2> QED
    BY <1>1, <2>1 DEF ExecType
<1>5. exec.closing = {} /\ \A p \in Op \ {o} : pc[p] \notin Inside
  BY <1>2, <1>3, NothingCloses
<1>6. /\ Closing(left) \in ExecType /\ Closing(left).main = exec.main
      /\ Closing(left).users = exec.users /\ Closing(left).persistent = exec.persistent
      /\ Closing(left).closing = StateLeases(left)
  <2> HIDE DEF left
  <2> QED
    BY <1>1, <1>4, ClosingTyped
<1>7. PICK at \in {"closing", "done"} :
        /\ pc' = [pc EXCEPT ![o] = at]
        /\ queue' = IF at = "done" THEN Tail(queue) ELSE queue
        /\ exec' = IF at = "closing" THEN Closing(left) ELSE left
        /\ at = "closing" <=> pc[o] = "lastTransient"
  <2> HIDE DEF left
  <2>1. IF pc[o] = "lastTransient"
        THEN exec' = Closing(left) /\ pc' = [pc EXCEPT ![o] = "closing"] /\ queue' = queue
        ELSE exec' = left /\ pc' = [pc EXCEPT ![o] = "done"] /\ queue' = Tail(queue)
    BY DEF ReleaseTransient, Done, left
  <2> QED
    BY <2>1
<1> HIDE DEF left, n
<1>8. /\ exec' \in ExecType /\ exec'.main = exec.main /\ exec'.users = exec.users
      /\ exec'.persistent = exec.persistent
      /\ exec'.closing = IF at = "closing" THEN StateLeases(left) ELSE {}
  BY <1>4, <1>5, <1>6, <1>7
<1>9. /\ StateLeases(exec)' = StateLeases(left) /\ StateLeases(left) # {}
      /\ StateLeases(exec)' = StateLeases(exec)
  BY <1>4, <1>8, StateLeasesOf
<1>10. /\ pc'[o] = at /\ \A p \in Op \ {o} : pc'[p] = pc[p]
       /\ pc' \in [Op -> PC] /\ as' \in [Op -> Op] /\ retaking' \subseteq Run
       /\ queue' \in Seq([do : {"retain", "release", "suspend"}, op : Op])
       /\ HeadOK' /\ RunsOK'
       /\ \A x \in Op : ~Fresh(x) => ~(Fresh(x)')
  <2>1. at \in PC
    BY DEF PC
  <2> QED
    BY <1>1, <1>2, <1>3, <1>7, <2>1, StepOfOne DEF Inside, Retaining
<1>11. UsersOK' /\ StageOK'
  <2>1. exec'.closing # {} <=> pc'[o] \in {"closing", "suspendClosing"}
    BY <1>7, <1>8, <1>9, <1>10
  <2> QED
    BY <1>2, <1>5, <1>7, <1>8, <1>10, <2>1, ShareStep DEF Retaining
<1>12. LeasesOK'
  <2>1. \A p \in Op \ {o} : OwnLeases(p) \subseteq OwnLeases(p)'
    BY <1>2, <1>10, OthersOwn
  <2>2. \A l \in held' : l \in OwnLeases(o) => l \in stuck'
    BY <1>2 DEF OwnLeases, SettleLeases
  <2>3. NothingJoinsAClosingLease'
    BY <1>8, <1>9 DEF NothingJoinsAClosingLease
  <2>4. \A l \in held : \/ l \in stuck \cup forgotten \/ (current /\ l \in StateLeases(exec))
                        \/ \E p \in Op : l \in OwnLeases(p)
    BY <1>5 DEF IInv, LeaseOK, LeasesOK
  <2>5. held' \subseteq held /\ stuck \subseteq stuck'
    BY <1>2 DEF SettleLeases
  <2> QED
    BY <1>2, <1>9, <2>1, <2>2, <2>3, <2>4, <2>5 DEF LeasesOK
<1>13. KeptOK'
  <2>1. exec.users \subseteq Op
    BY <1>1 DEF ExecType
  <2>2. CASE at = "closing"
    BY <1>2, <1>8, <1>10, <2>1, <2>2, <1>7 DEF IInv, LeaseOK, KeptOK
  <2>3. CASE at = "done"
    <3>1. pc[o] = "oneTransient"
      BY <1>2, <1>7, <2>3
    <3> QED
      BY <1>2, <1>8, <1>10, <2>1, <2>3, <3>1 DEF IInv, LeaseOK, KeptOK
  <2> QED
    BY <2>2, <2>3
<1>14. /\ held' \subseteq Lease /\ IsFiniteSet(held') /\ lost' \subseteq held'
       /\ stuck' \subseteq Lease /\ faults' \in 0 .. MaxFaults
  BY <1>1, <1>2, SettleTypes
<1>15. TypeOK'
  BY <1>1, <1>2, <1>10, <1>14 DEF TypeOK
<1>16. ShapeOK'
  BY <1>1, <1>2, <1>8, <1>14 DEF ShapeOK
<1> QED
  BY <1>10, <1>11, <1>12, <1>13, <1>15, <1>16 DEF IInv, LeaseOK

\* The state goes; what could not be settled is known to be stuck.
LEMMA CloseKeeps ==
    ASSUME IInv, NEW o \in Op, NEW failed \in SUBSET held,
           Close(o, failed) \/ SuspendCloses(o, failed)
    PROVE  IInv'
<1> USE Constants
<1>1. TypeOK /\ HeadOK /\ RunsOK /\ ShapeOK
  BY DEF IInv, LeaseOK
<1>2. PICK at \in {"done", "checklist", "ending"} :
        /\ pc' = [pc EXCEPT ![o] = at]
        /\ pc[o] = "closing" => at = "done"
  <2>1. CASE Close(o, failed)
    BY <2>1 DEF Close, Done
  <2>2. CASE SuspendCloses(o, failed)
    <3>1. pc[o] = "suspendClosing"
          /\ pc' = [pc EXCEPT ![o] = IF failed = {} THEN "checklist" ELSE "ending"]
      BY <2>2 DEF SuspendCloses
    <3>2. CASE failed = {}
      BY <3>1, <3>2
    <3>3. CASE failed # {}
      BY <3>1, <3>3
    <3> QED
      BY <3>2, <3>3
  <2> QED
    BY <2>1, <2>2
<1>3. /\ pc[o] \in {"closing", "suspendClosing"} /\ queue' = Tail(queue)
      /\ SettleLeases(exec.closing, failed)
      /\ exec' = NoExec /\ current' = FALSE /\ attached' = {}
      /\ UNCHANGED <<as, retaking, topUp, suspended, controller, aborted, forgotten, interruption>>
  BY DEF Close, SuspendCloses, CloseLease, Done, waitVars
<1>4. queue # <<>> /\ Head(queue).op = o
  BY <1>1, <1>3 DEF HeadOK, Inside
<1>5. \A p \in Op \ {o} : pc[p] \notin Inside
  BY <1>1, <1>4, NobodyElseInside
<1>6. exec.closing # {} /\ StateLeases(exec) \subseteq exec.closing
  BY <1>3 DEF IInv, LeaseOK, StageOK, LeasesOK, NothingJoinsAClosingLease
<1>7. /\ pc'[o] = at /\ \A p \in Op \ {o} : pc'[p] = pc[p]
      /\ pc' \in [Op -> PC] /\ as' \in [Op -> Op] /\ retaking' \subseteq Run
      /\ queue' \in Seq([do : {"retain", "release", "suspend"}, op : Op])
      /\ HeadOK' /\ RunsOK'
      /\ \A x \in Op : ~Fresh(x) => ~(Fresh(x)')
  <2>1. at \in PC
    BY DEF PC
  <2>2. o \notin Run => at = "done"
    BY <1>1, <1>2, <1>3 DEF RunsOK
  <2> QED
    BY <1>1, <1>2, <1>3, <1>4, <2>1, <2>2, StepOfOne DEF Inside, Retaining
<1>8. exec' \in ExecType /\ exec'.users = {} /\ exec'.closing = {}
  BY <1>3 DEF NoExec, ExecType
<1>9. UsersOK' /\ StageOK'
  BY <1>3, <1>5, <1>7, <1>8, ShareStep DEF Retaining
<1>10. LeasesOK'
  <2>1. \A p \in Op \ {o} : OwnLeases(p) \subseteq OwnLeases(p)'
    BY <1>3, <1>7, OthersOwn
  <2>2. OwnLeases(o) = {}
    BY <1>3 DEF OwnLeases
  <2>3. NothingJoinsAClosingLease'
    BY <1>8 DEF NothingJoinsAClosingLease
  <2>4. /\ held' \subseteq held /\ stuck \subseteq stuck'
        /\ \A l \in held' : l \in exec.closing => l \in stuck'
    BY <1>3 DEF SettleLeases
  <2>5. \A l \in held : l \in stuck \cup forgotten \cup exec.closing
                        \/ \E p \in Op : l \in OwnLeases(p)
    BY <1>6 DEF IInv, LeaseOK, LeasesOK
  <2> QED
    BY <1>3, <2>1, <2>2, <2>3, <2>4, <2>5 DEF LeasesOK
<1>11. KeptOK'
  BY <1>3 DEF KeptOK
<1>12. /\ held' \subseteq Lease /\ IsFiniteSet(held') /\ lost' \subseteq held'
       /\ stuck' \subseteq Lease /\ faults' \in 0 .. MaxFaults
  BY <1>1, <1>3, SettleTypes
<1>13. TypeOK'
  BY <1>1, <1>3, <1>7, <1>12 DEF TypeOK
<1>14. ShapeOK'
  BY <1>1, <1>3, <1>8, <1>12 DEF ShapeOK
<1> QED
  BY <1>7, <1>9, <1>10, <1>11, <1>13, <1>14 DEF IInv, LeaseOK

\* The only user is remembered; a transient lease of its own is forgotten.
LEMMA SuspendKeeps ==
    ASSUME IInv, NEW o \in Op, Suspend(o)
    PROVE  IInv'
<1> USE Constants
<1> DEFINE left == [exec EXCEPT !.users = {}]
           own == {Transient(u) : u \in TransientUsers(exec)}
<1>1. TypeOK /\ HeadOK /\ RunsOK /\ ShapeOK /\ exec \in ExecType
  BY DEF IInv, LeaseOK, ShapeOK
<1>2. /\ pc[o] = "suspending" /\ pc' = [pc EXCEPT ![o] = "suspendClosing"] /\ current
      /\ exec' = Closing(left) /\ forgotten' = forgotten \cup own /\ suspended' \in exec.users
      /\ UNCHANGED <<queue, as, retaking, topUp, current, attached, controller, aborted, held, lost,
                     stuck, interruption, faults>>
      /\ queue # <<>> /\ Head(queue).op = o
  BY HeadIs DEF Suspend, waitVars, interruptVars
<1>3. /\ left \in ExecType /\ left.main = exec.main /\ left.users = {}
      /\ left.persistent = exec.persistent
  BY <1>1 DEF ExecType
<1>4. exec.closing = {} /\ \A p \in Op \ {o} : pc[p] \notin Inside
  BY <1>2, NothingCloses
<1>5. own \subseteq Lease
  <2>1. TransientUsers(exec) \subseteq Op
    BY <1>1 DEF ExecType, TransientUsers
  <2> QED
    BY <2>1 DEF Lease, Transient
<1>6. StateLeases(exec) \subseteq StateLeases(left) \cup own
  <2> HIDE DEF left
  <2> QED
    BY <1>3 DEF StateLeases
<1> HIDE DEF left, own
<1>7. /\ exec' \in ExecType /\ exec'.main = exec.main /\ exec'.users = {}
      /\ exec'.persistent = exec.persistent /\ exec'.closing = StateLeases(left)
  BY <1>1, <1>2, <1>3, ClosingTyped
<1>8. StateLeases(exec)' = StateLeases(left) /\ StateLeases(left) # {}
  BY <1>3, <1>7, StateLeasesOf
<1>9. /\ pc'[o] = "suspendClosing" /\ \A p \in Op \ {o} : pc'[p] = pc[p]
      /\ pc' \in [Op -> PC] /\ as' \in [Op -> Op] /\ retaking' \subseteq Run
      /\ queue' \in Seq([do : {"retain", "release", "suspend"}, op : Op])
      /\ HeadOK' /\ RunsOK'
      /\ \A x \in Op : ~Fresh(x) => ~(Fresh(x)')
  <2>1. "suspendClosing" \in PC
    BY DEF PC
  <2>2. o \in Run
    BY <1>1, <1>2 DEF RunsOK
  <2> QED
    BY <1>1, <1>2, <2>1, <2>2, StepOfOne DEF Inside, Retaining
<1>10. UsersOK' /\ StageOK'
  BY <1>2, <1>4, <1>7, <1>8, <1>9, ShareStep DEF Retaining
<1>11. LeasesOK'
  <2>1. \A p \in Op \ {o} : OwnLeases(p) \subseteq OwnLeases(p)'
    BY <1>2, <1>9, OthersOwn
  <2>2. OwnLeases(o) = {}
    BY <1>2 DEF OwnLeases
  <2>3. NothingJoinsAClosingLease'
    BY <1>7, <1>8 DEF NothingJoinsAClosingLease
  <2>4. \A l \in held : \/ l \in stuck \cup forgotten \/ l \in StateLeases(exec)
                        \/ \E p \in Op : l \in OwnLeases(p)
    BY <1>4 DEF IInv, LeaseOK, LeasesOK
  <2> QED
    BY <1>2, <1>6, <1>7, <2>1, <2>2, <2>3, <2>4 DEF LeasesOK
<1>12. KeptOK'
  BY <1>7, <1>9 DEF KeptOK
<1>13. TypeOK'
  <2>1. suspended' \in Op \cup {NoOp}
    BY <1>1, <1>2 DEF ExecType
  <2> QED
    BY <1>1, <1>2, <1>5, <1>9, <2>1 DEF TypeOK
<1>14. ShapeOK'
  BY <1>1, <1>2, <1>7 DEF ShapeOK
<1> QED
  BY <1>9, <1>10, <1>11, <1>12, <1>13, <1>14 DEF IInv, LeaseOK

-----------------------------------------------------------------------------
(***************************************************************************)
(* The invariant, and what it implies.                                     *)
(***************************************************************************)
LEMMA InitLease == Init => IInv
<1> SUFFICES ASSUME Init PROVE IInv
  OBVIOUS
<1> USE Constants
<1>1. TypeOK
  <2>1. pc \in [Op -> PC]
    BY DEF Init, PC
  <2>2. queue \in Seq([do : {"retain", "release", "suspend"}, op : Op])
    BY DEF Init
  <2>3. \A o \in Op : topUp[o] \subseteq AgentsOf[o]
    BY DEF Init
  <2>4. as \in [Op -> Op] /\ retaking \subseteq Run
    BY DEF Init
  <2>5. held = {} /\ lost = {} /\ stuck = {} /\ forgotten = {} /\ attached = {} /\ aborted = {}
        /\ current = FALSE /\ suspended = NoOp /\ controller = NoOp
    BY DEF Init
  <2>6. faults \in 0 .. MaxFaults
    BY DEF Init
  <2> QED
    BY <2>1, <2>2, <2>3, <2>4, <2>5, <2>6 DEF TypeOK
<1>2. ShapeOK
  <2>1. IsFiniteSet(held)
    BY FS_EmptySet DEF Init
  <2>2. exec \in ExecType
    BY DEF Init, NoExec, ExecType
  <2>3. topUp \in [Op -> SUBSET UNION {AgentsOf[x] : x \in Op}]
    BY DEF Init
  <2>4. interruption \in [at : {"none", "asked", "quarantining"},
                          leases : SUBSET ((Op \cup {NoOp}) \X {"main", "persistent", "transient"})]
    BY DEF Init, Quiet
  <2> QED
    BY <2>1, <2>2, <2>3, <2>4 DEF ShapeOK
<1>3. HeadOK /\ RunsOK
  BY DEF Init, HeadOK, RunsOK, Inside
<1>4. UsersOK
  BY DEF Init, UsersOK, NoExec
<1>5. StageOK
  BY DEF Init, StageOK, NoExec
<1>6. LeasesOK
  BY DEF Init, LeasesOK, NoExec, NothingJoinsAClosingLease
<1>7. KeptOK
  BY DEF Init, KeptOK
<1> QED
  BY <1>1, <1>2, <1>3, <1>4, <1>5, <1>6, <1>7 DEF IInv, LeaseOK

\* Every step keeps the invariant.
LEMMA LeaseStep == IInv /\ [Next]_vars => IInv'
<1> SUFFICES ASSUME IInv, [Next]_vars PROVE IInv'
  OBVIOUS
<1>1. CASE UNCHANGED vars
  <2>1. UNCHANGED <<queue, pc, as, retaking, topUp, exec, current, attached, suspended, controller,
                    aborted, held, lost, stuck, forgotten, interruption, faults>>
    BY <1>1 DEF vars, opVars, stateVars, waitVars, leaseVars, interruptVars
  <2>2. TypeOK'
    BY <2>1 DEF IInv, TypeOK
  <2>3. ShapeOK'
    BY <2>1 DEF IInv, LeaseOK, ShapeOK
  <2>4. HeadOK' /\ RunsOK' /\ UsersOK' /\ StageOK' /\ KeptOK'
    BY <2>1, NoStepKeeps DEF opVars
  <2>5. LeasesOK'
    <3>1. \A p \in Op : OwnLeases(p)' = OwnLeases(p)
      BY <2>1 DEF OwnLeases
    <3>2. NothingJoinsAClosingLease'
      BY <2>1 DEF IInv, LeaseOK, LeasesOK, NothingJoinsAClosingLease
    <3> QED
      BY <2>1, <3>1, <3>2 DEF IInv, LeaseOK, LeasesOK
  <2> QED
    BY <2>2, <2>3, <2>4, <2>5 DEF IInv, LeaseOK
<1>2. ASSUME NEW o \in Op, HandlerStep(o)
      PROVE  IInv'
  BY <1>2, RetainKeeps, GrantFirstKeeps, ReserveKeeps, GrantKeeps, TopUpFailsKeeps, CommitKeeps,
     RequestsKeep, ReleaseShareKeeps, SuspendKeeps, AbandonKeeps, ReleaseTransientKeeps, CloseKeeps
  DEF HandlerStep
<1>3. ASSUME NEW o \in Op, CallerStep(o)
      PROVE  IInv'
  BY <1>3, RequestKeeps, RequestsKeep, RetakeKeeps DEF CallerStep
<1>4. CASE Interrupt \/ InterruptConfirmed \/ InterruptTimesOut \/ \E l \in held : LoseLease(l)
  BY <1>4, InterruptKeeps
<1>5. ASSUME NEW failed \in SUBSET held, InterruptQuarantines(failed)
      PROVE  IInv'
  BY <1>5, QuarantineKeeps
<1> QED
  BY <1>1, <1>2, <1>3, <1>4, <1>5 DEF Next

\* What the four properties below rest on: each step of the operations, of an
\* interruption or of the broker keeps the eight parts of the invariant.
THEOREM LeaseInvariant == Spec => []IInv
  BY InitLease, LeaseStep, PTL DEF Spec

\* In every state the lease, its queue and its retentions have their types.
THEOREM LeaseTypeCorrect == Spec => []TypeOK
<1>1. IInv => TypeOK
  BY DEF IInv
<1> QED
  BY <1>1, LeaseInvariant, PTL

\* Every lease the broker granted to the conversation is at all times that of
\* a top-up or a release under way, or of the state, or of its closing, or it
\* is one that could not be settled or was forgotten.
THEOREM NoLeaseIsLeftBehind == Spec => []NoLeaseLeftBehind
<1>1. IInv => NoLeaseLeftBehind
  <2> SUFFICES ASSUME IInv, NEW l \in held
               PROVE  l \in InFlight \cup stuck \cup forgotten \cup exec.closing
                              \cup (IF current THEN StateLeases(exec) ELSE {})
    BY DEF NoLeaseLeftBehind
  <2>1. CASE l \in stuck \cup forgotten \cup exec.closing
    BY <2>1
  <2>2. CASE current /\ l \in StateLeases(exec)
    BY <2>2
  <2>3. CASE \E o \in Op : l \in OwnLeases(o)
    <3>1. PICK o \in Op : l \in OwnLeases(o)
      BY <2>3
    <3>2. \/ pc[o] \in {"transient", "committing", "abandoning"}
             /\ l \in {Persistent(as[o]), Transient(as[o])}
          \/ pc[o] \in {"oneTransient", "lastTransient"} /\ l = Transient(o)
      BY <3>1 DEF OwnLeases
    <3>3. CASE pc[o] \in {"transient", "committing", "abandoning"}
                 /\ l \in {Persistent(as[o]), Transient(as[o])}
      <4> DEFINE Waiting == {p \in Op : pc[p] \in {"transient", "committing", "abandoning"}}
      <4>1. o \in Waiting
        BY <3>3
      <4>2. l \in UNION {{Persistent(as[p]), Transient(as[p])} : p \in Waiting}
        <5> HIDE DEF Waiting
        <5> QED
          BY <3>3, <4>1
      <4> QED
        BY <4>2 DEF InFlight
    <3>4. CASE pc[o] \in {"oneTransient", "lastTransient"} /\ l = Transient(o)
      <4>1. l \in {Transient(p) : p \in ReleasingTransient}
        BY <3>4 DEF ReleasingTransient
      <4> QED
        BY <4>1 DEF InFlight
    <3> QED
      BY <3>2, <3>3, <3>4
  <2> QED
    BY <2>1, <2>2, <2>3 DEF IInv, LeaseOK, LeasesOK
<1> QED
  BY <1>1, LeaseInvariant, PTL

\* A top-up that waited outside of the queue never adds a lease to a state
\* whose closing has begun.
THEOREM ClosingIsFinal == Spec => []NothingJoinsAClosingLease
<1>1. IInv => NothingJoinsAClosingLease
  BY DEF IInv, LeaseOK, LeasesOK
<1> QED
  BY <1>1, LeaseInvariant, PTL

\* When every operation that began has ended, the conversation holds no lease
\* but those that could not be settled or were forgotten.
THEOREM LastOneCloses == Spec => []NothingIsKept
<1>1. IInv => NothingIsKept
  <2> SUFFICES ASSUME IInv, \A o \in Op : pc[o] \in {"new", "done"} /\ as[o] = o,
                      NEW l \in held
               PROVE  l \in stuck \cup forgotten
    BY DEF NothingIsKept
  <2>1. exec.closing = {}
    BY DEF IInv, LeaseOK, StageOK
  <2>2. \A o \in Op : OwnLeases(o) = {}
    BY DEF OwnLeases
  <2>3. exec.users = {} \/ ~current
    <3>1. exec.users \subseteq Op /\ \A u \in exec.users : pc[u] # "new"
      BY DEF IInv, LeaseOK, ShapeOK, ExecType, UsersOK, Fresh
    <3>2. current => \A u \in exec.users : pc[u] # "done"
      BY DEF IInv, LeaseOK, KeptOK
    <3> QED
      BY <3>1, <3>2
  <2>4. ~current
    BY <2>3 DEF IInv, LeaseOK, KeptOK
  <2> QED
    BY <2>1, <2>2, <2>4 DEF IInv, LeaseOK, LeasesOK
<1> QED
  BY <1>1, LeaseInvariant, PTL
=============================================================================
