------------------------ MODULE TodoOrchestratorProofs ------------------------
EXTENDS TodoOrchestrator, FiniteSetTheorems, WellFoundedInduction, TLAPS

(***************************************************************************)
(* The inductive invariant: IInv, in ten parts, and RetainedOK.            *)
(***************************************************************************)

\* A task holds the integration from its marker to its acceptance or rollback.
Holding == {"marked", "integrated", "notSaved", "rollback"}
Pcs == {"idle", "top", "removing", "preparing", "implementing", "validating", "checking",
        "queued", "accepted", "concluding"} \cup Holding

\* Where the loop stands while no task is active.
Resting == {"selecting", "finalChecks", "cleanup", "saved", "ending", "off"} \cup Maintenance
Loops == {"scheduling", "waiting", "draining"} \cup Resting

\* What TypeOK leaves open.
ControlOK ==
    /\ pc \in [Task -> Pcs]
    /\ loop \in Loops
    /\ rejected \in BOOLEAN /\ aborted \in BOOLEAN /\ pointer \in BOOLEAN
    /\ confirmed \subseteq Task
    /\ spent \in [saves : Nat, faults : Nat, resumes : Nat]
    /\ disk \in [task : [Task -> TaskRecord], run : RunRecord]
    /\ loop \in Resting => \A t \in Task : pc[t] = "idle"

\* One task at a time integrates, and the section is its own.
SectionOK ==
    /\ \A t, u \in Task : pc[t] \in Holding /\ pc[u] \in Holding => t = u
    /\ section # NoSection => /\ \E t \in Task : pc[t] \in Holding
                              /\ section.sequence <= run.accepted

Live == {"running", "stopping", "stopped", "completed", "blocked", "failed"}
Gone == {"abandoning", "abandoned", "none"}

\* What the persisted status says of the operation and of the branch.
StatusOK ==
    /\ Operating => /\ run.status \in Live /\ disk.run.status \in Live
                    /\ integration \subseteq Task
    /\ loop = "removingRun" => disk.run.status \in PendingCleanup
    /\ loop = "finalizing" => disk.run.status = "abandoning"
    /\ loop = "clearing" => disk.run.status \in {"abandoned", "cleanupPending"}
    /\ loop = "erasing" => disk.run.status = "cleanupPending" /\ ~pointer
    /\ integration = NoTree => disk.run.status \in Gone \cup {"cleanupPending"}
    /\ aborted /\ run.status = "none" => ~pointer

Attempting == {"top", "removing", "preparing", "implementing", "validating", "checking", "queued"}

\* The record r of task t whose operation stands at p with verdict v, while the
\* section is s and the branch holds m.
StageAt(t, r, p, v, s, m) ==
    /\ p \in Attempting => r.marker = NoTree /\ r.status \notin {"done", "failed", "cancelled"}
    /\ p \in {"implementing", "validating"} => r.worktree
    /\ p \in {"checking", "queued"} \cup Holding => r.impl /\ r.worktree
    /\ p \in {"queued", "marked", "integrated"} => r.status = "integrating"
    /\ p = "notSaved" => r.status = "done"
    /\ p = "rollback" => r.status \in {"integrating", "done"}
    /\ p \in Holding => /\ s.tree \subseteq Task /\ t \notin s.tree
                        /\ r.status = "done" => r.marker = NoTree
                        /\ r.status # "done" => r.marker = s.tree /\ r.sequence = s.sequence
    /\ p = "integrated" => t \in m
    /\ p = "accepted" => r.status = "done" /\ r.marker = NoTree
    /\ p = "concluding" => /\ r.status # "done" /\ v # "none"
                           /\ r.marker # NoTree => r.status = "blocked" /\ v = "blocked"
                           /\ r.status \in {"failed", "cancelled"} => r.impl /\ r.worktree

StageOK == \A t \in Task : StageAt(t, task[t], pc[t], verdict[t], section, integration)

KeptIn(T) == DoneIn(T) \cup MarkedIn(T)

\* A ledger that counts base acceptances, after n failed saves: what was
\* confirmed (c) is done and in its tree, and in every marker that names base;
\* its trees have no other work than that of tasks that are done or marked.
LedgerOK(T, r, base, c, n) ==
    /\ c \subseteq DoneIn(T) /\ c \subseteq r.tree
    /\ \A u \in MarkedIn(T) :
         /\ T[u].sequence <= base
         /\ T[u].sequence = base => c \subseteq T[u].marker
         /\ T[u].status \in {"integrating", "blocked", "cancelled"}
         /\ ~(T[u].status = "cancelled" /\ T[u].result = "failed")
         /\ u \notin T[u].marker
    /\ r.status \notin Gone => /\ r.tree \subseteq KeptIn(T)
                               /\ \A u \in MarkedIn(T) : T[u].marker \subseteq KeptIn(T)
    /\ n = 0 => /\ DoneIn(T) \subseteq c
                /\ r.status = "completed" => Task \subseteq c

\* Acceptances that no rollback can take back.
Base == IF section = NoSection THEN run.accepted ELSE section.sequence

\* What a rollback of the task that holds the integration leaves as it is.
Firm == {t \in KeptIn(task) : pc[t] \notin Holding}

TreesOK ==
    Operating =>
      /\ confirmed \subseteq integration /\ integration \subseteq KeptIn(task)
      /\ section # NoSection => confirmed \subseteq section.tree /\ section.tree \subseteq Firm
      /\ \A u \in MarkedIn(task) : task[u].marker \subseteq Firm

\* As long as every save succeeds, what a task depends on was confirmed first.
DependsOK ==
    spent.saves = 0 =>
      \A t \in Task : t \in confirmed \/ pc[t] # "idle" => DependsOn[t] \subseteq confirmed

Memory == [task |-> task, run |-> run]

\* The ledger in memory knows of every failure that is on disk.
FailedOK == Operating => \A t \in Task : Exhausted(disk, t) => Exhausted(Memory, t)

MemoryOK == LedgerOK(task, run, Base, confirmed, spent.saves)
DiskOK == LedgerOK(disk.task, disk.run, disk.run.accepted, confirmed, spent.saves)

IInv ==
    /\ TypeOK /\ ControlOK /\ SectionOK /\ StatusOK /\ StageOK
    /\ MemoryOK /\ DiskOK /\ TreesOK /\ DependsOK /\ FailedOK

\* The ledger of a completed run is retained, and a retained one has every task
\* done, in memory and on disk, whatever the disk says of the run meanwhile.
RetainedOK ==
    /\ retained \in BOOLEAN
    /\ retained => loop \in {"saved", "ending", "off"} \cup Maintenance
    /\ retained => DoneIn(task) = Task /\ DoneIn(disk.task) = Task
    /\ disk.run.status \in Retainable => retained
    /\ Operating /\ run.status = "completed" =>
         loop \in {"finalChecks", "cleanup", "saved", "ending"} /\ DoneIn(task) = Task

-----------------------------------------------------------------------------
(***************************************************************************)
(* Induction over the order of the tasks: a set of naturals has a least    *)
(* element, and so a recursive function over 0 .. n is well defined.       *)
(***************************************************************************)
LEMMA Constants ==
    /\ \A t \in Task : DependsOn[t] \subseteq Task /\ Retries[t] \in Nat
    /\ Order \in Seq(Task) /\ Len(Order) \in Nat
    /\ \A n \in 1 .. Len(Order) : Order[n] \in Task
    /\ \A t \in Task : \E n \in 1 .. Len(Order) : t = Order[n]
    /\ NoTree \notin SUBSET Task /\ NoTask \notin Task
<1>1. Order \in Seq(Task) /\ \A t \in Task : DependsOn[t] \subseteq Task /\ Retries[t] \in Nat
  BY OrchestratorAssumption
<1>2. Len(Order) \in Nat /\ DOMAIN Order = 1 .. Len(Order)
  BY <1>1
<1>3. Task = {Order[n] : n \in 1 .. Len(Order)}
  BY <1>2 DEF Task, ToSet
<1>4. NoTree \notin SUBSET Task /\ NoTask \notin Task
  BY OrchestratorAssumption DEF NoTree
<1> HIDE DEF Task
<1> QED
  BY <1>1, <1>2, <1>3, <1>4

\* Every nonempty set of natural numbers has a least element.
LEMMA LeastOf ==
    ASSUME NEW S, S \subseteq Nat, S # {}
    PROVE  \E m \in S : \A k \in S : m <= k
<1>1. \E m \in S : \A k \in S : ~(<<k, m>> \in OpToRel(<, Nat))
  BY NatLessThanWellFounded, WFMin
<1>2. \A k, m \in Nat : k < m => <<k, m>> \in OpToRel(<, Nat)
  BY DEF OpToRel
<1>3. \E m \in S : \A k \in S : ~(k < m)
  BY <1>1, <1>2, Zenon
<1> QED
  BY <1>3

\* What holds at 0 and goes from n - 1 to n holds up to Len(Order).
LEMMA OrderInduction ==
    ASSUME NEW Good, 0 \in Good,
           \A n \in 1 .. Len(Order) : n - 1 \in Good => n \in Good
    PROVE  \A n \in 0 .. Len(Order) : n \in Good
<1> DEFINE Bad == {n \in 0 .. Len(Order) : n \notin Good}
<1> SUFFICES ASSUME Bad # {} PROVE FALSE
  OBVIOUS
<1>1. Len(Order) \in Nat
  BY Constants
<1>2. PICK m \in Bad : \A k \in Bad : m <= k
  <2>1. Bad \subseteq Nat
    BY <1>1
  <2> HIDE DEF Bad
  <2> QED
    BY <2>1, LeastOf
<1>3. m \in 1 .. Len(Order) /\ m - 1 \notin Bad /\ m - 1 \in 0 .. Len(Order)
  BY <1>1, <1>2
<1> QED
  BY <1>2, <1>3

\* A step of refreshTaskReadiness.
Visit(T, v, n) == IF n = 0 THEN T ELSE Refreshed(v[n - 1], Order[n])

Visited(T, v, m) == v = [n \in 0 .. m |-> Visit(T, v, n)]

\* refreshReadiness, task by task, has a value at every prefix of the order.
LEMMA VisitedExists ==
    ASSUME NEW T
    PROVE  \E v : Visited(T, v, Len(Order))
<1> DEFINE Good == {m \in 0 .. Len(Order) : \E v : Visited(T, v, m)}
<1>1. Len(Order) \in Nat
  BY Constants
<1>2. 0 \in Good
  <2> DEFINE v == [n \in 0 .. 0 |-> T]
  <2>1. Visited(T, v, 0)
    BY DEF Visited, Visit
  <2> QED
    BY <1>1, <2>1
<1>3. ASSUME NEW m \in 1 .. Len(Order), m - 1 \in Good PROVE m \in Good
  <2>1. PICK v : Visited(T, v, m - 1)
    BY <1>3
  <2> DEFINE w == [n \in 0 .. m |-> Visit(T, v, n)]
  <2>2. \A n \in 0 .. (m - 1) : w[n] = v[n]
    BY <1>1, <2>1 DEF Visited
  <2>3. \A n \in 0 .. m : Visit(T, v, n) = Visit(T, w, n)
    <3>1. \A n \in 0 .. m : n # 0 => n - 1 \in 0 .. (m - 1)
      BY <1>1
    <3> HIDE DEF w
    <3> QED
      BY <2>2, <3>1 DEF Visit
  <2>4. Visited(T, w, m)
    BY <2>3 DEF Visited
  <2> QED
    BY <1>1, <2>4
<1>4. \A n \in 0 .. Len(Order) : n \in Good
  <2> HIDE DEF Good
  <2> QED
    BY <1>2, <1>3, OrderInduction
<1> QED
  BY <1>1, <1>4

\* refreshTaskReadiness is the result of the last visit.
LEMMA RefreshVisits ==
    ASSUME NEW T
    PROVE  \E v : Visited(T, v, Len(Order)) /\ RefreshReadiness(T) = v[Len(Order)]
<1> DEFINE P(v) == Visited(T, v, Len(Order))
<1>1. P(CHOOSE v : P(v))
  <2>1. \E v : P(v)
    BY VisitedExists
  <2> HIDE DEF P
  <2> QED
    BY <2>1
<1>2. RefreshReadiness(T) = (CHOOSE v : P(v))[Len(Order)]
  BY DEF RefreshReadiness, Visited, Visit
<1> QED
  BY <1>1, <1>2

\* It gives each task a status that its dependencies justify, and touches none
\* but the tasks that are pending or ready.
RefreshedFrom(T, U) ==
    /\ U \in [Task -> TaskRecord]
    /\ \A t \in Task :
         \/ U[t] = T[t]
         \/ /\ T[t].status \in {"pending", "ready"}
            /\ \E s \in {"pending", "ready", "blocked"} : U[t] = [T[t] EXCEPT !.status = s]

\* One visit of refreshReadiness writes one task, and a ready task has its dependencies done.
LEMMA RefreshedIs ==
    ASSUME NEW U \in [Task -> TaskRecord], NEW t \in Task
    PROVE  /\ RefreshedFrom(U, Refreshed(U, t))
           /\ \A u \in Task \ {t} : Refreshed(U, t)[u] = U[u]
           /\ Refreshed(U, t)[t].status = "ready" =>
                \A d \in DependsOn[t] : U[d].status = "done"
<1> DEFINE depends == {U[d].status : d \in DependsOn[t]}
<1>1. CASE U[t].status \notin {"pending", "ready"}
  <2>1. Refreshed(U, t) = U
    BY <1>1 DEF Refreshed
  <2> QED
    BY <1>1, <2>1 DEF RefreshedFrom
<1>2. CASE U[t].status \in {"pending", "ready"}
  <2>1. PICK s \in {"pending", "ready", "blocked"} :
          /\ Refreshed(U, t) = [U EXCEPT ![t].status = s]
          /\ s = "ready" => depends \subseteq {"done"}
    <3> HIDE DEF depends
    <3>1. CASE depends \cap {"blocked", "failed", "cancelled"} # {}
      BY <1>2, <3>1 DEF Refreshed, depends
    <3>2. CASE depends \cap {"blocked", "failed", "cancelled"} = {}
      <4>1. Refreshed(U, t) = [U EXCEPT ![t].status =
                                 IF depends \subseteq {"done"} THEN "ready" ELSE "pending"]
        BY <1>2, <3>2 DEF Refreshed, depends
      <4>2. CASE depends \subseteq {"done"}
        BY <4>1, <4>2
      <4>3. CASE ~(depends \subseteq {"done"})
        BY <4>1, <4>3
      <4> QED
        BY <4>2, <4>3
    <3> QED
      BY <3>1, <3>2
  <2>2. Refreshed(U, t)[t] = [U[t] EXCEPT !.status = s]
        /\ \A u \in Task \ {t} : Refreshed(U, t)[u] = U[u]
    BY <2>1
  <2>3. U[t] \in TaskRecord /\ [U[t] EXCEPT !.status = s] \in TaskRecord
    BY DEF TaskRecord
  <2>4. Refreshed(U, t) \in [Task -> TaskRecord]
    <3> HIDE DEF Task
    <3> QED
      BY <2>1, <2>3
  <2>5. Refreshed(U, t)[t].status = "ready" => s = "ready"
    BY <2>2, <2>3 DEF TaskRecord
  <2>6. RefreshedFrom(U, Refreshed(U, t))
    BY <1>2, <2>2, <2>4 DEF RefreshedFrom
  <2> QED
    BY <2>1, <2>2, <2>5, <2>6
<1> QED
  BY <1>1, <1>2

\* Visits compose.
LEMMA RefreshedTwice ==
    ASSUME NEW T, NEW U, NEW V, T \in [Task -> TaskRecord],
           RefreshedFrom(T, U), RefreshedFrom(U, V)
    PROVE  RefreshedFrom(T, V)
<1>1. \A t \in Task : T[t] \in TaskRecord /\ U[t] \in TaskRecord
  BY DEF RefreshedFrom
<1>2. ASSUME NEW t \in Task, U[t] # T[t], V[t] # U[t]
      PROVE  /\ T[t].status \in {"pending", "ready"}
             /\ \E s \in {"pending", "ready", "blocked"} : V[t] = [T[t] EXCEPT !.status = s]
  <2>1. T[t].status \in {"pending", "ready"}
    BY <1>2 DEF RefreshedFrom
  <2>2. PICK r \in {"pending", "ready", "blocked"} : U[t] = [T[t] EXCEPT !.status = r]
    BY <1>2 DEF RefreshedFrom
  <2>3. PICK s \in {"pending", "ready", "blocked"} : V[t] = [U[t] EXCEPT !.status = s]
    BY <1>2 DEF RefreshedFrom
  <2>4. [[T[t] EXCEPT !.status = r] EXCEPT !.status = s] = [T[t] EXCEPT !.status = s]
    BY <1>1 DEF TaskRecord
  <2> QED
    BY <2>1, <2>2, <2>3, <2>4
<1>3. \A t \in Task :
         \/ V[t] = T[t]
         \/ /\ T[t].status \in {"pending", "ready"}
            /\ \E s \in {"pending", "ready", "blocked"} : V[t] = [T[t] EXCEPT !.status = s]
  BY <1>2 DEF RefreshedFrom
<1> QED
  BY <1>3 DEF RefreshedFrom

\* Refreshing makes no task done and takes none back.
LEMMA RefreshKeepsDone ==
    ASSUME NEW T, NEW U, T \in [Task -> TaskRecord], RefreshedFrom(T, U), NEW t \in Task
    PROVE  /\ U[t] \in TaskRecord
           /\ U[t].status = "done" <=> T[t].status = "done"
           /\ U[t].marker = T[t].marker /\ U[t].sequence = T[t].sequence
           /\ U[t].attempts = T[t].attempts /\ U[t].result = T[t].result
           /\ U[t].impl = T[t].impl /\ U[t].worktree = T[t].worktree
           /\ U[t].status # T[t].status =>
                /\ T[t].status \in {"pending", "ready"}
                /\ U[t].status \in {"pending", "ready", "blocked"}
<1>1. T[t] \in TaskRecord /\ U[t] \in TaskRecord
  BY DEF RefreshedFrom
<1>2. CASE U[t] = T[t]
  BY <1>1, <1>2
<1>3. ASSUME NEW s \in {"pending", "ready", "blocked"}, U[t] = [T[t] EXCEPT !.status = s],
             T[t].status \in {"pending", "ready"}
      PROVE  U[t].status = s /\ \A f \in {"marker", "sequence", "attempts", "result", "impl",
                                          "worktree"} : U[t][f] = T[t][f]
  BY <1>1, <1>3 DEF TaskRecord
<1> QED
  BY <1>1, <1>2, <1>3 DEF RefreshedFrom

\* A task that refreshTaskReadiness makes ready has all its dependencies done.
LEMMA ReadinessIs ==
    ASSUME NEW T \in [Task -> TaskRecord]
    PROVE  /\ RefreshedFrom(T, RefreshReadiness(T))
           /\ \A t \in Task : RefreshReadiness(T)[t].status = "ready" =>
                \A d \in DependsOn[t] : T[d].status = "done"
<1> DEFINE Justified(U, t) == U[t].status = "ready" => \A d \in DependsOn[t] : T[d].status = "done"
<1>1. PICK v : Visited(T, v, Len(Order)) /\ RefreshReadiness(T) = v[Len(Order)]
  BY RefreshVisits
<1>2. Len(Order) \in Nat /\ \A n \in 1 .. Len(Order) : Order[n] \in Task
  BY Constants
<1>3. v[0] = T /\ \A n \in 1 .. Len(Order) : v[n] = Refreshed(v[n - 1], Order[n])
  BY <1>1, <1>2 DEF Visited, Visit
<1> DEFINE Good == {n \in 0 .. Len(Order) :
                      /\ RefreshedFrom(T, v[n])
                      /\ \A i \in 1 .. n : Justified(v[n], Order[i])}
<1>4. 0 \in Good
  BY <1>2, <1>3 DEF RefreshedFrom
<1>5. ASSUME NEW n \in 1 .. Len(Order), n - 1 \in Good PROVE n \in Good
  <2>1. n - 1 \in 0 .. Len(Order) /\ n \in 0 .. Len(Order)
    BY <1>2
  <2>2. RefreshedFrom(T, v[n - 1]) /\ \A i \in 1 .. (n - 1) : Justified(v[n - 1], Order[i])
    BY <1>5
  <2>3. v[n - 1] \in [Task -> TaskRecord]
    BY <2>2 DEF RefreshedFrom
  <2>4. Order[n] \in Task /\ v[n] = Refreshed(v[n - 1], Order[n])
    BY <1>2, <1>3
  <2>5. /\ RefreshedFrom(v[n - 1], v[n])
        /\ \A u \in Task \ {Order[n]} : v[n][u] = v[n - 1][u]
        /\ v[n][Order[n]].status = "ready" =>
             \A d \in DependsOn[Order[n]] : v[n - 1][d].status = "done"
    BY <2>3, <2>4, RefreshedIs
  <2>6. RefreshedFrom(T, v[n])
    BY <2>2, <2>5, RefreshedTwice
  <2>7. Justified(v[n], Order[n])
    <3>1. \A d \in DependsOn[Order[n]] : d \in Task
      BY <2>4, Constants
    <3>2. \A d \in Task : v[n - 1][d].status = "done" => T[d].status = "done"
      BY <2>2, RefreshKeepsDone
    <3> QED
      BY <2>5, <3>1, <3>2
  <2>8. ASSUME NEW i \in 1 .. n PROVE Justified(v[n], Order[i])
    <3>1. CASE Order[i] = Order[n]
      <4> HIDE DEF Justified
      <4> QED
        BY <2>7, <3>1
    <3>2. CASE Order[i] # Order[n]
      <4>1. i \in 1 .. (n - 1)
        BY <1>2, <3>2
      <4>2. i \in 1 .. Len(Order)
        BY <1>2
      <4>3. v[n][Order[i]] = v[n - 1][Order[i]]
        BY <1>2, <2>5, <3>2, <4>2
      <4> QED
        BY <2>2, <4>1, <4>3
    <3> QED
      BY <3>1, <3>2
  <2> HIDE DEF Justified
  <2> QED
    BY <2>1, <2>6, <2>8
<1>6. Len(Order) \in Good
  <2>1. \A n \in 0 .. Len(Order) : n \in Good
    <3> HIDE DEF Good
    <3> QED
      BY <1>4, <1>5, OrderInduction
  <2> QED
    BY <1>2, <2>1
<1>7. \A t \in Task : Justified(v[Len(Order)], t)
  <2> HIDE DEF Justified
  <2> QED
    BY <1>6, Constants
<1> QED
  BY <1>1, <1>6, <1>7

\* A step of selectRunnableTasks.
Select(T, s, n) ==
    IF n = 0 THEN {} ELSE s[n - 1] \cup {t \in {Order[n]} : MayJoin(T, s[n - 1], t)}

Selected(T, s, m) == s = [n \in 0 .. m |-> Select(T, s, n)]

\* selectRunnableTasks, task by task, has a value at every prefix of the order.
LEMMA SelectedExists ==
    ASSUME NEW T
    PROVE  \E s : Selected(T, s, Len(Order))
<1> DEFINE Good == {m \in 0 .. Len(Order) : \E s : Selected(T, s, m)}
<1>1. Len(Order) \in Nat
  BY Constants
<1>2. 0 \in Good
  <2> DEFINE s == [n \in 0 .. 0 |-> {}]
  <2>1. Selected(T, s, 0)
    BY DEF Selected, Select
  <2> QED
    BY <1>1, <2>1
<1>3. ASSUME NEW m \in 1 .. Len(Order), m - 1 \in Good PROVE m \in Good
  <2>1. PICK s : Selected(T, s, m - 1)
    BY <1>3
  <2> DEFINE w == [n \in 0 .. m |-> Select(T, s, n)]
  <2>2. \A n \in 0 .. (m - 1) : w[n] = s[n]
    BY <1>1, <2>1 DEF Selected
  <2>3. \A n \in 0 .. m : Select(T, s, n) = Select(T, w, n)
    <3>1. \A n \in 0 .. m : n # 0 => n - 1 \in 0 .. (m - 1)
      BY <1>1
    <3> HIDE DEF w
    <3> QED
      BY <2>2, <3>1 DEF Select
  <2>4. Selected(T, w, m)
    BY <2>3 DEF Selected
  <2> QED
    BY <1>1, <2>4
<1>4. \A n \in 0 .. Len(Order) : n \in Good
  <2> HIDE DEF Good
  <2> QED
    BY <1>2, <1>3, OrderInduction
<1> QED
  BY <1>1, <1>4

\* Only tasks that are ready are started.
LEMMA SelectedAreReady ==
    ASSUME NEW T
    PROVE  SelectRunnable(T) \subseteq {t \in Task : T[t].status = "ready"}
<1> DEFINE P(s) == Selected(T, s, Len(Order))
<1> DEFINE c == CHOOSE s : P(s)
<1>1. P(c)
  <2>1. \E s : P(s)
    BY SelectedExists
  <2> HIDE DEF P
  <2> QED
    BY <2>1
<1>2. SelectRunnable(T) = c[Len(Order)]
  BY DEF SelectRunnable, Selected, Select
<1> HIDE DEF c
<1>3. Len(Order) \in Nat /\ \A n \in 1 .. Len(Order) : Order[n] \in Task
  BY Constants
<1>4. c[0] = {} /\ \A n \in 1 .. Len(Order) :
          c[n] = c[n - 1] \cup {t \in {Order[n]} : MayJoin(T, c[n - 1], t)}
  <2>1. c = [n \in 0 .. Len(Order) |-> Select(T, c, n)]
    BY <1>1 DEF Selected
  <2>2. \A n \in 0 .. Len(Order) : c[n] = Select(T, c, n)
    BY <2>1
  <2>3. 0 \in 0 .. Len(Order) /\ \A n \in 1 .. Len(Order) : n \in 0 .. Len(Order) /\ n # 0
    BY <1>3
  <2>4. c[0] = Select(T, c, 0)
    BY <2>2, <2>3
  <2> QED
    BY <2>2, <2>3, <2>4 DEF Select
<1> DEFINE Ready == {t \in Task : T[t].status = "ready"}
<1> DEFINE Good == {n \in 0 .. Len(Order) : c[n] \subseteq Ready}
<1>5. 0 \in Good
  BY <1>3, <1>4
<1>6. ASSUME NEW n \in 1 .. Len(Order), n - 1 \in Good PROVE n \in Good
  <2>1. {t \in {Order[n]} : MayJoin(T, c[n - 1], t)} \subseteq Ready
    BY <1>3 DEF MayJoin
  <2>2. c[n - 1] \subseteq Ready
    BY <1>6
  <2>3. c[n] \subseteq Ready
    BY <1>4, <2>1, <2>2
  <2> QED
    BY <1>3, <2>3
<1>7. \A n \in 0 .. Len(Order) : n \in Good
  <2> HIDE DEF Good
  <2> QED
    BY <1>5, <1>6, OrderInduction
<1> QED
  BY <1>2, <1>3, <1>7

-----------------------------------------------------------------------------
(***************************************************************************)
(* Ledgers, and what a resume restores from one.                           *)
(***************************************************************************)

\* Counting more acceptances asks less of the markers.
LEMMA LedgerGrows ==
    ASSUME NEW T \in [Task -> TaskRecord], NEW r, NEW b \in Nat, NEW a \in Nat, b <= a,
           NEW c, NEW n, LedgerOK(T, r, b, c, n)
    PROVE  LedgerOK(T, r, a, c, n)
<1>1. ASSUME NEW u \in MarkedIn(T)
      PROVE  T[u].sequence <= a /\ (T[u].sequence = a => c \subseteq T[u].marker)
  <2>1. u \in Task /\ T[u] \in TaskRecord
    BY DEF MarkedIn
  <2>2. T[u].sequence \in Nat
    BY <2>1 DEF TaskRecord
  <2>3. T[u].sequence <= b /\ (T[u].sequence = b => c \subseteq T[u].marker)
    BY DEF LedgerOK
  <2>4. T[u].sequence <= a /\ (T[u].sequence = a => T[u].sequence = b)
    BY <2>2, <2>3
  <2> QED
    BY <2>3, <2>4
<1> QED
  BY <1>1 DEF LedgerOK

\* More failed saves ask less of it, and so does the end of a run.
LEMMA LedgerForgives ==
    ASSUME NEW T, NEW r, NEW s, NEW b, NEW c, NEW n, NEW m, LedgerOK(T, r, b, c, n),
           s.tree = r.tree, m = 0 => n = 0,
           r.status \in Gone => s.status \in Gone, s.status = "completed" => r.status = "completed"
    PROVE  LedgerOK(T, s, b, c, m)
BY DEF LedgerOK

\* The order lists every task, so there are finitely many.
LEMMA TaskIsFinite == IsFiniteSet(Task)
<1>1. Order \in Seq(Task) /\ \A t \in Task : \E n \in 1 .. Len(Order) : Order[n] = t
  BY Constants
<1> HIDE DEF Task
<1> QED
  BY <1>1 DEF IsFiniteSet

\* A ledger that can be resumed has one marker at most.
LEMMA OneMarker ==
    ASSUME NEW d, Resumable(d)
    PROVE  \/ MarkedIn(d.task) = {} /\ Restored(d) = d.run.tree
           \/ \E u \in Task : MarkedIn(d.task) = {u} /\ Restored(d) = d.task[u].marker
<1> DEFINE marked == MarkedIn(d.task)
<1>1. Cardinality(marked) <= 1
  BY DEF Resumable
<1>2. marked \in SUBSET Task
  BY DEF MarkedIn
<1> HIDE DEF marked
<1>3. IsFiniteSet(marked)
  BY <1>2, TaskIsFinite, FS_Subset
<1>4. Cardinality(marked) = 0 \/ Cardinality(marked) = 1
  <2>1. Cardinality(marked) \in Nat
    BY <1>3, FS_CardinalityType
  <2> QED
    BY <1>1, <2>1
<1>5. marked = {} \/ \E u : marked = {u}
  BY <1>3, <1>4, FS_EmptySet, FS_Singleton
<1>6. CASE marked = {}
  BY <1>6 DEF Restored, marked
<1>7. ASSUME NEW u, marked = {u}
      PROVE  u \in Task /\ Restored(d) = d.task[u].marker
  <2>1. u \in Task /\ u = CHOOSE t \in marked : TRUE
    BY <1>2, <1>7
  <2>2. Restored(d) = d.task[CHOOSE t \in marked : TRUE].marker
    BY <1>7 DEF Restored, marked
  <2> QED
    BY <2>1, <2>2
<1> QED
  BY <1>5, <1>6, <1>7 DEF marked

\* A resume that is not refused restores all that was confirmed, and no more
\* than is done.
LEMMA RestoresConfirmed ==
    ASSUME NEW d, d.task \in [Task -> TaskRecord], d.run \in RunRecord, Resumable(d),
           NEW c, NEW n, LedgerOK(d.task, d.run, d.run.accepted, c, n)
    PROVE  c \subseteq Restored(d) /\ Restored(d) \subseteq DoneIn(d.task)
<1>1. d.run.status \notin Gone
  BY DEF Resumable, Gone
<1>2. CASE MarkedIn(d.task) = {} /\ Restored(d) = d.run.tree
  BY <1>1, <1>2 DEF LedgerOK, KeptIn
<1>3. ASSUME NEW u \in Task, MarkedIn(d.task) = {u}, Restored(d) = d.task[u].marker
      PROVE  c \subseteq Restored(d) /\ Restored(d) \subseteq DoneIn(d.task)
  <2>1. u \in MarkedIn(d.task)
    BY <1>3
  <2>2. d.task[u].marker \subseteq KeptIn(d.task) /\ u \notin d.task[u].marker
    BY <1>1, <2>1 DEF LedgerOK
  <2>3. d.task[u].marker \subseteq DoneIn(d.task)
    BY <1>3, <2>2 DEF KeptIn
  <2>4. CASE DoneIn(d.task) = {}
    BY <1>3, <2>3, <2>4 DEF LedgerOK
  <2>5. CASE DoneIn(d.task) # {}
    <3>1. d.run.accepted <= d.task[u].sequence
      BY <2>1, <2>5 DEF Resumable
    <3>2. d.task[u].sequence <= d.run.accepted
      BY <2>1 DEF LedgerOK
    <3>3. d.task[u].sequence \in Nat /\ d.run.accepted \in Nat
      BY DEF TaskRecord, RunRecord
    <3>4. d.task[u].sequence = d.run.accepted
      BY <3>1, <3>2, <3>3
    <3>5. c \subseteq d.task[u].marker
      BY <2>1, <3>4 DEF LedgerOK
    <3> QED
      BY <1>3, <2>3, <3>5
  <2> QED
    BY <2>4, <2>5
<1> QED
  BY <1>2, <1>3, OneMarker

-----------------------------------------------------------------------------
(***************************************************************************)
(* What the invariant says of an active task.                              *)
(***************************************************************************)
LEMMA Facts ==
    ASSUME IInv
    PROVE  /\ task \in [Task -> TaskRecord] /\ run \in RunRecord
           /\ disk.task \in [Task -> TaskRecord] /\ disk.run \in RunRecord
           /\ disk \in [task : [Task -> TaskRecord], run : RunRecord]
           /\ verdict \in [Task -> {"none", "failed", "blocked"}]
           /\ section \in [tree : (SUBSET Task) \cup {NoTree}, sequence : Nat]
           /\ pc \in [Task -> Pcs] /\ loop \in Loops
           /\ rejected \in BOOLEAN /\ aborted \in BOOLEAN /\ pointer \in BOOLEAN
           /\ confirmed \subseteq Task
           /\ spent \in [saves : Nat, faults : Nat, resumes : Nat]
           /\ \A t \in Task : StageAt(t, task[t], pc[t], verdict[t], section, integration)
BY DEF IInv, TypeOK, ControlOK, StageOK

\* A task with work in progress is under the run loop, and is not exhausted.
LEMMA ActiveTask ==
    ASSUME IInv, NEW t \in Task, pc[t] # "idle"
    PROVE  /\ loop \notin Resting /\ loop \in {"scheduling", "waiting", "draining"} /\ Operating
           /\ ~Exhausted(Memory, t) /\ ~Exhausted(disk, t)
<1>1. loop \notin Resting /\ loop \in Loops
  BY DEF IInv, ControlOK
<1>2. loop \in {"scheduling", "waiting", "draining"} /\ Operating
  BY <1>1 DEF Loops, Resting, Operating, Maintenance
<1>3. ~Exhausted(Memory, t)
  <2>1. StageAt(t, task[t], pc[t], verdict[t], section, integration) /\ pc[t] \in Pcs
    BY Facts
  <2>2. task[t] \in TaskRecord
    BY Facts
  <2>3. Memory.task[t] = task[t]
    BY DEF Memory
  <2>4. CASE pc[t] \in Attempting
    BY <2>1, <2>3, <2>4 DEF StageAt, Exhausted
  <2>5. CASE pc[t] \in Holding
    <3>1. task[t].impl /\ task[t].worktree
      BY <2>1, <2>5 DEF StageAt
    <3> QED
      BY <2>3, <3>1 DEF Exhausted
  <2>6. CASE pc[t] = "accepted"
    BY <2>1, <2>3, <2>6 DEF StageAt, Exhausted
  <2>7. CASE pc[t] = "concluding"
    BY <2>1, <2>3, <2>7 DEF StageAt, Exhausted
  <2> QED
    BY <2>1, <2>4, <2>5, <2>6, <2>7 DEF Pcs, Attempting
<1>4. ~Exhausted(disk, t)
  BY <1>2, <1>3 DEF IInv, FailedOK
<1> QED
  BY <1>1, <1>2, <1>3, <1>4

\* Every section has a tree, and it is there while a task holds the integration.
LEMMA HeldSection ==
    ASSUME IInv, NEW t \in Task, pc[t] \in Holding
    PROVE  /\ section # NoSection /\ section.tree \subseteq Task /\ section.tree # NoTree
           /\ section.sequence \in Nat /\ Base = section.sequence
           /\ section.sequence <= run.accepted /\ run.accepted \in Nat
           /\ t \notin section.tree /\ confirmed \subseteq section.tree
           /\ section.tree \subseteq Firm /\ t \notin confirmed
           /\ \A u \in Task \ {t} : pc[u] \notin Holding
           /\ t \in KeptIn(task)
<1>1. StageAt(t, task[t], pc[t], verdict[t], section, integration)
  BY Facts
<1>2. section.tree \subseteq Task /\ t \notin section.tree
  BY <1>1 DEF StageAt
<1>3. section.tree # NoTree
  BY <1>2, Constants
<1>4. section # NoSection
  BY <1>3 DEF NoSection
<1>5. section.sequence \in Nat /\ section.sequence <= run.accepted /\ run.accepted \in Nat
  <2>1. section.sequence <= run.accepted
    BY <1>4 DEF IInv, SectionOK
  <2>2. section.sequence \in Nat /\ run.accepted \in Nat
    BY Facts DEF RunRecord
  <2> QED
    BY <2>1, <2>2
<1>6. Operating
  BY ActiveTask DEF Holding
<1>7. confirmed \subseteq section.tree /\ section.tree \subseteq Firm
  BY <1>4, <1>6 DEF IInv, TreesOK
<1>8. \A u \in Task \ {t} : pc[u] \notin Holding
  BY DEF IInv, SectionOK
<1>9. t \in KeptIn(task)
  <2>1. task[t].status = "done" \/ task[t].marker # NoTree
    BY <1>1, <1>3 DEF StageAt
  <2> QED
    BY <2>1 DEF KeptIn, DoneIn, MarkedIn
<1> QED
  BY <1>2, <1>3, <1>4, <1>5, <1>7, <1>8, <1>9 DEF Base

-----------------------------------------------------------------------------
(***************************************************************************)
(* The steps of one task. What an operation changes is its own record and  *)
(* its own place, and perhaps the tree, the section and the branch.        *)
(***************************************************************************)
StopStep ==
    /\ aborted /\ aborted' =>
         /\ DoneIn(task') \subseteq DoneIn(task)
         /\ \A t \in Task : task'[t].attempts <= task[t].attempts
    /\ disk.run.status \in Abandonment =>
         \/ disk'.run.status \in Abandonment
         \/ /\ disk'.run.status = "cleanupPending"
            /\ retained /\ DoneIn(disk.task) = Task

ExhaustedStep ==
    \A t \in Task : Exhausted(disk, t) => Exhausted(disk', t) \/ disk'.run.status \in Abandonment

Persists ==
    \/ disk' = [task |-> task', run |-> run'] /\ spent' = spent
    \/ /\ disk' = disk
       /\ spent' = spent \/ spent' = [spent EXCEPT !.saves = @ + 1, !.faults = @ + 1]

Changes(t, r, p, x) ==
    /\ task' = [task EXCEPT ![t] = r]
    /\ pc' = [pc EXCEPT ![t] = p]
    /\ verdict' = [verdict EXCEPT ![t] = x]
    /\ run' \in RunRecord /\ run'.status = run.status
    /\ section' \in [tree : (SUBSET Task) \cup {NoTree}, sequence : Nat]
    /\ integration' \in SUBSET Task
    /\ loop' = loop \/ (loop = "waiting" /\ loop' = "scheduling")
    /\ rejected' \in BOOLEAN /\ aborted' = aborted /\ pointer' = pointer
    /\ confirmed' = confirmed \/ confirmed' = confirmed \cup {t}
    /\ Persists
    /\ aborted => /\ r.attempts <= task[t].attempts
                  /\ r.status = "done" => task[t].status = "done"

\* A save that fails is counted.
LEMMA SpentMore ==
    ASSUME IInv, Persists
    PROVE  /\ spent' \in [saves : Nat, faults : Nat, resumes : Nat]
           /\ spent'.saves = 0 => spent.saves = 0
<1>1. spent \in [saves : Nat, faults : Nat, resumes : Nat]
  BY Facts
<1>2. spent.saves \in Nat /\ spent.faults \in Nat
  BY <1>1
<1>3. CASE spent' = spent
  BY <1>1, <1>3
<1>4. CASE spent' = [spent EXCEPT !.saves = @ + 1, !.faults = @ + 1]
  <2>1. spent'.saves = spent.saves + 1
    BY <1>1, <1>4
  <2>2. spent.saves + 1 \in Nat /\ spent.faults + 1 \in Nat
    BY <1>2
  <2>3. spent' \in [saves : Nat, faults : Nat, resumes : Nat]
    BY <1>1, <1>4, <2>2
  <2> QED
    BY <1>2, <2>1, <2>3
<1> QED
  BY <1>3, <1>4 DEF Persists

\* What a step of one task leaves alone, whatever stage it goes to.
LEMMA TaskFrame ==
    ASSUME IInv, NEW t \in Task, pc[t] # "idle",
           NEW r \in TaskRecord, NEW p \in Pcs, NEW x \in {"none", "failed", "blocked"},
           Changes(t, r, p, x)
    PROVE  /\ TypeOK' /\ ControlOK' /\ StatusOK' /\ DependsOK' /\ FailedOK'
           /\ StopStep /\ ExhaustedStep
<1>1. /\ loop \notin Resting /\ loop \in {"scheduling", "waiting", "draining"} /\ Operating
      /\ ~Exhausted(Memory, t) /\ ~Exhausted(disk, t)
  BY ActiveTask
<1>2. /\ task' \in [Task -> TaskRecord] /\ pc' \in [Task -> Pcs]
      /\ verdict' \in [Task -> {"none", "failed", "blocked"}]
      /\ \A u \in Task \ {t} : task'[u] = task[u] /\ pc'[u] = pc[u]
      /\ task'[t] = r
  <2> HIDE DEF Task
  <2> QED
    BY Facts DEF Changes
<1>3. loop' \in {"scheduling", "waiting", "draining"}
  BY <1>1 DEF Changes
<1>4. disk' \in [task : [Task -> TaskRecord], run : RunRecord]
      /\ disk'.task \in [Task -> TaskRecord] /\ disk'.run \in RunRecord
  <2>1. CASE disk' = [task |-> task', run |-> run']
    BY <1>2, <2>1 DEF Changes
  <2>2. CASE disk' = disk
    BY <2>2, Facts
  <2> QED
    BY <2>1, <2>2 DEF Changes, Persists
<1>5. spent' \in [saves : Nat, faults : Nat, resumes : Nat] /\ (spent'.saves = 0 => spent.saves = 0)
  BY SpentMore DEF Changes
<1>6. TypeOK'
  BY <1>2, <1>4 DEF TypeOK, Changes
<1>7. ControlOK'
  <2>1. loop' \in Loops /\ loop' \notin Resting
    BY <1>3 DEF Loops, Resting, Maintenance
  <2>2. confirmed' \subseteq Task
    BY Facts DEF Changes
  <2>3. rejected' \in BOOLEAN /\ aborted' \in BOOLEAN /\ pointer' \in BOOLEAN
    BY Facts DEF Changes
  <2> QED
    BY <1>2, <1>4, <1>5, <2>1, <2>2, <2>3 DEF ControlOK
<1>8. run.status \in Live /\ disk.run.status \in Live
  BY <1>1 DEF IInv, StatusOK
<1>9. disk'.run.status \in Live /\ run'.status \in Live
  BY <1>8 DEF Changes, Persists
<1>10. StatusOK'
  <2>1. integration' \subseteq Task /\ integration' # NoTree
    BY Constants DEF Changes
  <2>2. run'.status # "none"
    BY <1>9 DEF Live
  <2> QED
    BY <1>3, <1>9, <2>1, <2>2 DEF StatusOK
<1>11. DependsOK'
  <2> SUFFICES ASSUME spent'.saves = 0, NEW u \in Task, u \in confirmed' \/ pc'[u] # "idle"
               PROVE  DependsOn[u] \subseteq confirmed'
    BY DEF DependsOK
  <2>1. spent.saves = 0 /\ confirmed \subseteq confirmed'
    BY <1>5 DEF Changes
  <2>2. u \in confirmed \/ pc[u] # "idle"
    BY <1>2 DEF Changes
  <2> QED
    BY <2>1, <2>2 DEF IInv, DependsOK
<1>12. \A u \in Task : Exhausted(disk, u) =>
         /\ Exhausted([task |-> task', run |-> run'], u)
         /\ Exhausted(disk', u)
  <2> SUFFICES ASSUME NEW u \in Task, Exhausted(disk, u)
               PROVE  /\ Exhausted([task |-> task', run |-> run'], u)
                      /\ Exhausted(disk', u)
    OBVIOUS
  <2>1. Exhausted(Memory, u)
    BY <1>1 DEF IInv, FailedOK
  <2>2. u # t
    BY <1>1
  <2>3. Exhausted([task |-> task', run |-> run'], u)
    BY <1>2, <2>1, <2>2 DEF Exhausted, Memory
  <2>4. Exhausted(disk', u)
    BY <2>3 DEF Changes, Persists
  <2> QED
    BY <2>3, <2>4
<1>13. FailedOK'
  <2> SUFFICES ASSUME NEW u \in Task, Exhausted(disk', u)
               PROVE  Exhausted([task |-> task', run |-> run'], u)
    BY DEF FailedOK, Memory
  <2> QED
    BY <1>12 DEF Changes, Persists
<1>14. StopStep
  <2>1. ASSUME aborted, NEW u \in Task
        PROVE  /\ task'[u].attempts <= task[u].attempts
               /\ task'[u].status = "done" => task[u].status = "done"
    <3>1. CASE u = t
      BY <1>2, <2>1, <3>1 DEF Changes
    <3>2. CASE u # t
      <4>1. task[u].attempts \in Nat
        BY Facts DEF TaskRecord
      <4> QED
        BY <1>2, <3>2, <4>1
    <3> QED
      BY <3>1, <3>2
  <2>2. disk.run.status \notin Abandonment
    BY <1>8 DEF Live, Abandonment
  <2> QED
    BY <2>1, <2>2 DEF StopStep, DoneIn
<1>15. ExhaustedStep
  BY <1>12 DEF ExhaustedStep
<1> QED
  BY <1>6, <1>7, <1>10, <1>11, <1>13, <1>14, <1>15

\* A task whose record keeps its marker, and stays done or not done, leaves all
\* ledgers as they are.
LEMMA SameKept ==
    ASSUME NEW T, NEW U, T \in [Task -> TaskRecord],
           \A u \in Task : /\ U[u].marker = T[u].marker
                           /\ U[u].status = "done" <=> T[u].status = "done"
    PROVE  DoneIn(U) = DoneIn(T) /\ MarkedIn(U) = MarkedIn(T) /\ KeptIn(U) = KeptIn(T)
BY DEF DoneIn, MarkedIn, KeptIn

\* What is marked has a status that only the task's own operation changes.
LEMMA SameLedger ==
    ASSUME NEW T, NEW U, T \in [Task -> TaskRecord], NEW r, NEW b, NEW c, NEW n,
           LedgerOK(T, r, b, c, n),
           \A u \in Task : /\ U[u].marker = T[u].marker /\ U[u].sequence = T[u].sequence
                           /\ U[u].status = "done" <=> T[u].status = "done",
           \A u \in MarkedIn(T) : /\ U[u].status \in {"integrating", "blocked", "cancelled"}
                                  /\ ~(U[u].status = "cancelled" /\ U[u].result = "failed")
    PROVE  LedgerOK(U, r, b, c, n)
<1>1. DoneIn(U) = DoneIn(T) /\ MarkedIn(U) = MarkedIn(T) /\ KeptIn(U) = KeptIn(T)
  BY SameKept
<1>2. MarkedIn(T) \subseteq Task
  BY DEF MarkedIn
<1> QED
  BY <1>1, <1>2 DEF LedgerOK

\* A save that succeeds writes a ledger as good as the one in memory.
LEMMA WrittenLedger ==
    ASSUME IInv, task' \in [Task -> TaskRecord], run' \in RunRecord,
           Base' \in Nat, Base' <= run'.accepted, MemoryOK',
           \/ disk' = [task |-> task', run |-> run']
           \/ disk' = disk /\ confirmed' = confirmed,
           spent'.saves = 0 => spent.saves = 0
    PROVE  DiskOK'
<1>1. CASE disk' = [task |-> task', run |-> run']
  <2>1. run'.accepted \in Nat
    BY DEF RunRecord
  <2>2. LedgerOK(task', run', Base', confirmed', spent'.saves)
    BY DEF MemoryOK
  <2>3. LedgerOK(task', run', run'.accepted, confirmed', spent'.saves)
    BY <2>1, <2>2, LedgerGrows
  <2> QED
    BY <1>1, <2>3 DEF DiskOK
<1>2. CASE disk' = disk /\ confirmed' = confirmed
  <2>1. LedgerOK(disk.task, disk.run, disk.run.accepted, confirmed, spent'.saves)
    BY LedgerForgives DEF IInv, DiskOK
  <2> QED
    BY <1>2, <2>1 DEF DiskOK
<1> QED
  BY <1>1, <1>2

\* A save that succeeds makes the ledger in memory the one on disk; a failed one keeps both.
LEMMA SavedLedger ==
    ASSUME IInv, Persists, task' \in [Task -> TaskRecord], run' \in RunRecord,
           Base' \in Nat, Base' <= run'.accepted, MemoryOK',
           confirmed' = confirmed \/ disk' = [task |-> task', run |-> run']
    PROVE  DiskOK'
<1>1. spent'.saves = 0 => spent.saves = 0
  BY SpentMore
<1>2. \/ disk' = [task |-> task', run |-> run']
      \/ disk' = disk /\ confirmed' = confirmed
  BY DEF Persists
<1> QED
  BY <1>1, <1>2, WrittenLedger

\* The sequence the next marker has to reach is at most the count of acceptances.
LEMMA BaseIs ==
    ASSUME IInv
    PROVE  Base \in Nat /\ Base <= run.accepted /\ run.accepted \in Nat
<1>1. section.sequence \in Nat /\ run.accepted \in Nat
  BY Facts DEF RunRecord
<1>2. section # NoSection => section.sequence <= run.accepted
  BY DEF IInv, SectionOK
<1> QED
  BY <1>1, <1>2 DEF Base

\* The steps of a task that neither holds nor takes the integration.
LEMMA OrdinaryStep ==
    ASSUME IInv, NEW t \in Task, pc[t] # "idle", pc[t] \notin Holding,
           NEW r \in TaskRecord, NEW p \in Pcs, p \notin Holding,
           NEW x \in {"none", "failed", "blocked"},
           Changes(t, r, p, x), UNCHANGED <<run, section, integration, confirmed>>,
           r.marker = task[t].marker, r.sequence = task[t].sequence,
           r.status = "done" <=> task[t].status = "done",
           task[t].marker # NoTree => /\ r.status \in {"integrating", "blocked", "cancelled"}
                                      /\ ~(r.status = "cancelled" /\ r.result = "failed"),
           StageAt(t, r, p, x, section, integration)
    PROVE  IInv' /\ StopStep /\ ExhaustedStep
<1>1. /\ TypeOK' /\ ControlOK' /\ StatusOK' /\ DependsOK' /\ FailedOK'
      /\ StopStep /\ ExhaustedStep
  BY TaskFrame
<1>2. /\ task' \in [Task -> TaskRecord]
      /\ \A u \in Task \ {t} : task'[u] = task[u] /\ pc'[u] = pc[u] /\ verdict'[u] = verdict[u]
      /\ task'[t] = r /\ pc'[t] = p /\ verdict'[t] = x
  <2> HIDE DEF Task
  <2> QED
    BY Facts DEF Changes
<1>3. \A u \in Task : pc'[u] \in Holding <=> pc[u] \in Holding
  BY <1>2
<1>4. SectionOK'
  BY <1>3 DEF IInv, SectionOK
<1>5. StageOK'
  <2>1. \A u \in Task : StageAt(u, task'[u], pc'[u], verdict'[u], section, integration)
    BY <1>2, Facts
  <2> QED
    BY <2>1 DEF StageOK
<1>6. \A u \in Task : /\ task'[u].marker = task[u].marker /\ task'[u].sequence = task[u].sequence
                      /\ task'[u].status = "done" <=> task[u].status = "done"
  BY <1>2
<1>7. MemoryOK'
  <2>1. LedgerOK(task, run, Base, confirmed, spent.saves)
    BY DEF IInv, MemoryOK
  <2>2. \A u \in MarkedIn(task) :
          /\ task'[u].status \in {"integrating", "blocked", "cancelled"}
          /\ ~(task'[u].status = "cancelled" /\ task'[u].result = "failed")
    BY <1>2, <2>1 DEF LedgerOK, MarkedIn
  <2>3. LedgerOK(task', run, Base, confirmed, spent.saves)
    BY <1>6, <2>1, <2>2, Facts, SameLedger
  <2>4. spent'.saves = 0 => spent.saves = 0
    BY SpentMore DEF Changes
  <2>5. LedgerOK(task', run, Base, confirmed, spent'.saves)
    BY <2>3, <2>4, LedgerForgives
  <2>6. Base' = Base
    BY DEF Base
  <2> QED
    BY <2>5, <2>6 DEF MemoryOK
<1>8. DiskOK'
  <2>1. Base' = Base /\ run' = run /\ confirmed' = confirmed
    BY DEF Base
  <2>2. Base \in Nat /\ Base <= run.accepted /\ run \in RunRecord
    BY BaseIs, Facts
  <2>3. Persists
    BY DEF Changes
  <2> QED
    BY <1>2, <1>7, <2>1, <2>2, <2>3, SavedLedger
<1>9. TreesOK'
  <2>1. Operating
    BY ActiveTask
  <2>2. MarkedIn(task') = MarkedIn(task) /\ KeptIn(task') = KeptIn(task)
    BY <1>6, Facts, SameKept
  <2>3. Firm' = Firm
    <3>1. KeptIn(task) \subseteq Task
      BY DEF KeptIn, DoneIn, MarkedIn
    <3> QED
      BY <1>3, <2>2, <3>1 DEF Firm
  <2>4. MarkedIn(task) \subseteq Task
    BY DEF MarkedIn
  <2> QED
    BY <1>6, <2>1, <2>2, <2>3, <2>4 DEF IInv, TreesOK
<1> QED
  BY <1>1, <1>4, <1>5, <1>7, <1>8, <1>9 DEF IInv

\* A failing save, and a step that saves nothing, leave the disk.
LEMMA SaveIs ==
    ASSUME \/ \E ok : Save(ok)
           \/ UNCHANGED <<disk, spent>>
    PROVE  Persists
BY DEF Save, Saved, Stored, SaveFailed, Persists

\* The stages of an operation, and those at which it holds the integration.
LEMMA PlacesArePcs ==
    /\ Attempting \subseteq Pcs /\ Holding \subseteq Pcs
    /\ {"idle", "accepted", "concluding"} \subseteq Pcs
    /\ \A p \in Attempting \cup {"accepted", "concluding"} : p \notin Holding /\ p # "idle"
    /\ \A p \in Holding : p # "idle"
    /\ "idle" \notin Holding
BY DEF Attempting, Holding, Pcs

\* The record of a task at the top of its loop.
LEMMA AtTopIs ==
    ASSUME NEW t, NEW r \in TaskRecord, NEW x, NEW s, NEW m, r.marker = NoTree,
           r.status \notin {"done", "failed", "cancelled"}
    PROVE  /\ AtTop(r) \in TaskRecord /\ AtTop(r).marker = NoTree
           /\ AtTop(r).sequence = r.sequence
           /\ AtTop(r).status \notin {"done", "failed", "cancelled"}
           /\ PcAtTop(r) \in {"validating", "removing", "preparing"}
           /\ StageAt(t, AtTop(r), PcAtTop(r), x, s, m)
<1>1. CASE r.worktree
  <2>1. AtTop(r) = r
    BY <1>1 DEF AtTop
  <2>2. CASE r.impl
    <3>1. PcAtTop(r) = "validating"
      BY <1>1, <2>2 DEF PcAtTop
    <3> QED
      BY <1>1, <2>1, <3>1 DEF StageAt, Attempting, Holding
  <2>3. CASE ~r.impl
    <3>1. PcAtTop(r) = "removing"
      BY <1>1, <2>3 DEF PcAtTop
    <3> QED
      BY <2>1, <3>1 DEF StageAt, Attempting, Holding
  <2> QED
    BY <2>2, <2>3
<1>2. CASE ~r.worktree
  <2>1. AtTop(r) = [r EXCEPT !.status = "running", !.attempts = @ + 1]
    BY <1>2 DEF AtTop
  <2>2. PcAtTop(r) = "preparing"
    BY <1>2 DEF PcAtTop
  <2>3. /\ AtTop(r) \in TaskRecord /\ AtTop(r).marker = NoTree /\ AtTop(r).status = "running"
        /\ AtTop(r).sequence = r.sequence
    <3>1. r.attempts + 1 \in Nat
      BY DEF TaskRecord
    <3>2. [r EXCEPT !.status = "running", !.attempts = r.attempts + 1] \in TaskRecord
      BY <3>1 DEF TaskRecord, ActiveStatus
    <3>3. r.marker = NoTree => [r EXCEPT !.status = "running", !.attempts = r.attempts + 1].marker = NoTree
      BY DEF TaskRecord
    <3> QED
      BY <2>1, <3>2, <3>3 DEF TaskRecord
  <2> QED
    BY <2>2, <2>3 DEF StageAt, Attempting, Holding
<1> QED
  BY <1>1, <1>2 DEF TaskRecord

Quiet(t, r, p, x) ==
    /\ task' = [task EXCEPT ![t] = r]
    /\ pc' = [pc EXCEPT ![t] = p]
    /\ verdict' = [verdict EXCEPT ![t] = x]
    /\ loop' = loop \/ (loop = "waiting" /\ loop' = "scheduling")
    /\ UNCHANGED <<run, section, aborted, pointer, integration, confirmed>>
    /\ rejected' \in BOOLEAN
    /\ Persists
    /\ aborted => r.attempts <= task[t].attempts

\* A step of a task outside the integration that neither marks nor accepts.
LEMMA QuietStep ==
    ASSUME IInv, NEW t \in Task, pc[t] # "idle", pc[t] \notin Holding,
           NEW r \in TaskRecord, NEW p \in Pcs, p \notin Holding,
           NEW x \in {"none", "failed", "blocked"}, Quiet(t, r, p, x),
           r.marker = task[t].marker, r.sequence = task[t].sequence,
           r.status = "done" <=> task[t].status = "done",
           task[t].marker # NoTree => /\ r.status \in {"integrating", "blocked", "cancelled"}
                                      /\ ~(r.status = "cancelled" /\ r.result = "failed"),
           StageAt(t, r, p, x, section, integration)
    PROVE  IInv' /\ StopStep /\ ExhaustedStep
<1>1. Operating
  BY ActiveTask
<1>2. integration \in SUBSET Task
  BY <1>1 DEF IInv, StatusOK
<1>3. Changes(t, r, p, x)
  BY <1>2, Facts DEF Quiet, Changes
<1>4. UNCHANGED <<run, section, integration, confirmed>>
  BY DEF Quiet
<1> QED
  BY <1>3, <1>4, OrdinaryStep

\* How an operation moves on.
LEMMA Moves ==
    ASSUME IInv, NEW t \in Task
    PROVE  /\ Settle(t) => /\ pc' = [pc EXCEPT ![t] = "idle"]
                           /\ verdict' = [verdict EXCEPT ![t] = "none"]
                           /\ loop' = loop \/ (loop = "waiting" /\ loop' = "scheduling")
           /\ \A at : Goto(t, at) => /\ pc' = [pc EXCEPT ![t] = at]
                                     /\ verdict' = [verdict EXCEPT ![t] = verdict[t]]
                                     /\ loop' = loop
           /\ \A x : Report(t, x) => /\ pc' = [pc EXCEPT ![t] = "concluding"]
                                     /\ verdict' = [verdict EXCEPT ![t] = x]
                                     /\ loop' = loop
           /\ Thrown(t) => \E x \in {"failed", "blocked"} :
                             /\ Report(t, x)
                             /\ aborted <=> x = "blocked"
           /\ verdict[t] \in {"none", "failed", "blocked"}
<1>1. verdict \in [Task -> {"none", "failed", "blocked"}]
  BY Facts
<1>2. verdict' = verdict => verdict' = [verdict EXCEPT ![t] = verdict[t]]
  BY <1>1
<1>3. Thrown(t) => \E x \in {"failed", "blocked"} : Report(t, x) /\ (aborted <=> x = "blocked")
  BY DEF Thrown
<1> QED
  BY <1>1, <1>2, <1>3 DEF Settle, Goto, Report

\* The record and the place of an active task.
LEMMA Here ==
    ASSUME IInv, NEW t \in Task
    PROVE  /\ task[t] \in TaskRecord /\ task = [task EXCEPT ![t] = task[t]]
           /\ task[t].attempts \in Nat /\ task[t].attempts <= task[t].attempts
           /\ StageAt(t, task[t], pc[t], verdict[t], section, integration)
<1>1. task \in [Task -> TaskRecord]
  BY Facts
<1>2. task[t] \in TaskRecord /\ task = [task EXCEPT ![t] = task[t]]
  BY <1>1
<1>3. task[t].attempts \in Nat
  BY <1>2 DEF TaskRecord
<1> QED
  BY <1>2, <1>3, Facts

\* A task that throws keeps its record.
LEMMA ThrownStep ==
    ASSUME IInv, NEW t \in Task, pc[t] \in Attempting,
           NEW r \in TaskRecord, task' = [task EXCEPT ![t] = r],
           r.marker = NoTree, r.sequence = task[t].sequence,
           r.status \notin {"done", "failed", "cancelled"}, r.attempts <= task[t].attempts,
           NEW x \in {"failed", "blocked"}, Report(t, x),
           UNCHANGED <<run, section, aborted, pointer, integration, confirmed, rejected>>,
           Persists
    PROVE  IInv' /\ StopStep /\ ExhaustedStep
<1>1. pc[t] # "idle" /\ pc[t] \notin Holding /\ "concluding" \in Pcs /\ "concluding" \notin Holding
  BY PlacesArePcs
<1>2. task[t].marker = NoTree /\ task[t].status \notin {"done", "failed", "cancelled"}
  BY Here DEF StageAt
<1>3. Quiet(t, r, "concluding", x)
  BY Moves, Facts DEF Quiet
<1>4. StageAt(t, r, "concluding", x, section, integration)
  BY DEF StageAt, Attempting, Holding
<1> QED
  BY <1>1, <1>2, <1>3, <1>4, QuietStep

\* The top of the attempt loop: an abort ends it, or the next attempt begins.
LEMMA LoopTopKeeps ==
    ASSUME IInv, NEW t \in Task, NEW ok \in BOOLEAN, LoopTop(t, ok)
    PROVE  IInv' /\ StopStep /\ ExhaustedStep
<1>1. pc[t] = "top" /\ rejected' \in BOOLEAN
  BY Facts DEF LoopTop
<1>2. pc[t] \in Attempting /\ pc[t] # "idle" /\ pc[t] \notin Holding
  BY <1>1, PlacesArePcs DEF Attempting
<1>3. task[t] \in TaskRecord /\ task[t].marker = NoTree
      /\ task[t].status \notin {"done", "failed", "cancelled"}
  BY <1>2, Here DEF StageAt
<1>4. CASE aborted
  <2> DEFINE r == [task[t] EXCEPT !.status = "cancelled"]
  <2>1. r \in TaskRecord /\ r.marker = task[t].marker /\ r.sequence = task[t].sequence
        /\ r.status = "cancelled" /\ r.attempts = task[t].attempts
    BY <1>3 DEF TaskRecord
  <2>2. task' = [task EXCEPT ![t] = r] /\ Settle(t) /\ Save(ok)
        /\ UNCHANGED <<run, section, aborted, pointer, integration, confirmed>>
    BY <1>4 DEF LoopTop, AbandonLoop
  <2> HIDE DEF r
  <2>3. Quiet(t, r, "idle", "none")
    BY <1>1, <2>1, <2>2, Moves, Here, SaveIs DEF Quiet
  <2>4. StageAt(t, r, "idle", "none", section, integration)
    BY DEF StageAt, Attempting, Holding
  <2> QED
    BY <1>2, <1>3, <2>1, <2>3, <2>4, PlacesArePcs, QuietStep
<1>5. CASE ~aborted
  <2> DEFINE r == AtTop(task[t])
  <2> DEFINE p == PcAtTop(task[t])
  <2>1. /\ r \in TaskRecord /\ r.marker = NoTree /\ r.sequence = task[t].sequence
        /\ r.status \notin {"done", "failed", "cancelled"}
        /\ p \in {"validating", "removing", "preparing"}
        /\ StageAt(t, r, p, verdict[t], section, integration)
    BY <1>3, AtTopIs
  <2>2. task' = [task EXCEPT ![t] = r] /\ Goto(t, p) /\ UNCHANGED <<disk, spent>>
        /\ UNCHANGED <<run, section, aborted, pointer, integration, confirmed>>
    BY <1>5 DEF LoopTop
  <2> HIDE DEF r, p
  <2>3. Quiet(t, r, p, verdict[t])
    BY <1>1, <1>5, <2>2, Moves, SaveIs DEF Quiet
  <2>4. p \in Pcs /\ p \notin Holding
    BY <2>1, PlacesArePcs DEF Attempting
  <2> QED
    BY <1>2, <1>3, <2>1, <2>3, <2>4, Moves, QuietStep
<1> QED
  BY <1>4, <1>5

\* The old worktree of a task is gone.
LEMMA WorktreeRemovedKeeps ==
    ASSUME IInv, NEW t \in Task, WorktreeRemoved(t)
    PROVE  IInv' /\ StopStep /\ ExhaustedStep
<1> DEFINE r == [task[t] EXCEPT !.worktree = FALSE]
<1>1. pc[t] \in Attempting /\ pc[t] # "idle" /\ pc[t] \notin Holding
  BY PlacesArePcs DEF Attempting, WorktreeRemoved
<1>2. task[t] \in TaskRecord /\ task[t].marker = NoTree
      /\ task[t].status \notin {"done", "failed", "cancelled"}
  BY <1>1, Here DEF StageAt
<1>3. /\ r \in TaskRecord /\ r.marker = NoTree /\ r.sequence = task[t].sequence
      /\ r.status = task[t].status /\ r.attempts = task[t].attempts /\ ~r.worktree
  BY <1>2 DEF TaskRecord
<1>4. UNCHANGED <<run, section, aborted, rejected, pointer, integration, confirmed>> /\ Persists
  BY SaveIs DEF WorktreeRemoved, flags, outside
<1>5. CASE aborted
  <2>1. task' = [task EXCEPT ![t] = r] /\ Thrown(t)
    BY <1>5 DEF WorktreeRemoved
  <2> HIDE DEF r
  <2>2. PICK x \in {"failed", "blocked"} : Report(t, x)
    BY <2>1, Moves
  <2> QED
    BY <1>1, <1>2, <1>3, <1>4, <2>1, <2>2, Here, ThrownStep
<1>6. CASE ~aborted
  <2>1. task' = [task EXCEPT ![t] = AtTop(r)] /\ Goto(t, "preparing")
    BY <1>6 DEF WorktreeRemoved
  <2> HIDE DEF r
  <2>2. /\ AtTop(r) \in TaskRecord /\ AtTop(r).marker = NoTree
        /\ AtTop(r).sequence = r.sequence
        /\ AtTop(r).status \notin {"done", "failed", "cancelled"}
        /\ StageAt(t, AtTop(r), PcAtTop(r), verdict[t], section, integration)
    BY <1>2, <1>3, AtTopIs
  <2>3. PcAtTop(r) = "preparing"
    BY <1>3 DEF PcAtTop
  <2>4. Quiet(t, AtTop(r), "preparing", verdict[t])
    BY <1>4, <1>6, <2>1, Moves, Facts DEF Quiet
  <2>5. "preparing" \in Pcs /\ "preparing" \notin Holding
    BY PlacesArePcs DEF Attempting
  <2> QED
    BY <1>1, <1>2, <1>3, <2>2, <2>3, <2>4, <2>5, Moves, QuietStep
<1> QED
  BY <1>5, <1>6

\* The removal of the old worktree fails.
LEMMA RemovalFailsKeeps ==
    ASSUME IInv, NEW t \in Task, RemovalFails(t)
    PROVE  IInv' /\ StopStep /\ ExhaustedStep
<1>1. pc[t] # "idle" /\ pc[t] \notin Holding
  BY PlacesArePcs DEF Attempting, RemovalFails
<1>2. task[t] \in TaskRecord /\ task[t].marker = NoTree
  BY Here DEF StageAt, RemovalFails, Attempting
<1>3. Settle(t) /\ UNCHANGED <<task, run, section, aborted, pointer, integration, confirmed>>
      /\ Persists /\ rejected' \in BOOLEAN
  BY SaveIs DEF RemovalFails, ledgerVars, outside
<1>4. Quiet(t, task[t], "idle", "none")
  BY <1>3, Moves, Here DEF Quiet
<1>5. StageAt(t, task[t], "idle", "none", section, integration)
  BY DEF StageAt, Attempting, Holding
<1> QED
  BY <1>1, <1>2, <1>4, <1>5, PlacesArePcs, QuietStep

\* A task that goes on with its attempt.
LEMMA ForwardStep ==
    ASSUME IInv, NEW t \in Task, pc[t] \in Attempting,
           NEW r \in TaskRecord, task' = [task EXCEPT ![t] = r],
           r.marker = NoTree, r.sequence = task[t].sequence,
           r.status \notin {"done", "failed", "cancelled"}, r.attempts <= task[t].attempts,
           NEW p \in Attempting, Goto(t, p),
           UNCHANGED <<run, section, aborted, pointer, integration, confirmed, rejected>>,
           Persists, StageAt(t, r, p, verdict[t], section, integration)
    PROVE  IInv' /\ StopStep /\ ExhaustedStep
<1>1. pc[t] # "idle" /\ pc[t] \notin Holding /\ p \in Pcs /\ p \notin Holding
  BY PlacesArePcs
<1>2. task[t].marker = NoTree /\ task[t].status \notin {"done", "failed", "cancelled"}
  BY Here DEF StageAt
<1>3. Quiet(t, r, p, verdict[t])
  BY Moves, Facts DEF Quiet
<1> QED
  BY <1>1, <1>2, <1>3, Moves, QuietStep

\* What an attempt that is not yet in its integration may change of its record.
LEMMA AttemptRecord ==
    ASSUME IInv, NEW t \in Task, pc[t] \in Attempting,
           NEW r,
           \E s \in {"waitingForResources", "integrating", task[t].status} :
             \E i, w \in BOOLEAN : r = [task[t] EXCEPT !.status = s, !.impl = i, !.worktree = w]
    PROVE  /\ r \in TaskRecord /\ r.marker = NoTree /\ r.sequence = task[t].sequence
           /\ r.status \notin {"done", "failed", "cancelled"} /\ r.attempts <= task[t].attempts
<1>1. task[t] \in TaskRecord /\ task[t].marker = NoTree /\ task[t].attempts <= task[t].attempts
      /\ task[t].status \notin {"done", "failed", "cancelled"}
  BY Here DEF StageAt
<1>2. PICK s \in {"waitingForResources", "integrating", task[t].status} :
         \E i, w \in BOOLEAN : r = [task[t] EXCEPT !.status = s, !.impl = i, !.worktree = w]
  OBVIOUS
<1>3. PICK i \in BOOLEAN, w \in BOOLEAN :
         r = [task[t] EXCEPT !.status = s, !.impl = i, !.worktree = w]
  BY <1>2
<1>4. r \in TaskRecord
  BY <1>1, <1>3 DEF TaskRecord, ActiveStatus
<1> QED
  BY <1>1, <1>3, <1>4 DEF TaskRecord

\* The worktree of the attempt is there.
LEMMA PreparedKeeps ==
    ASSUME IInv, NEW t \in Task, Prepared(t)
    PROVE  IInv' /\ StopStep /\ ExhaustedStep
<1> DEFINE r == [task[t] EXCEPT !.worktree = TRUE]
<1>1. pc[t] \in Attempting /\ pc[t] = "preparing"
  BY DEF Prepared, Attempting
<1>2. task[t] \in TaskRecord
  BY Here
<1>3. r.worktree /\ \E s \in {"waitingForResources", "integrating", task[t].status} :
        \E i, w \in BOOLEAN : r = [task[t] EXCEPT !.status = s, !.impl = i, !.worktree = w]
  <2>1. r = [task[t] EXCEPT !.status = task[t].status, !.impl = task[t].impl, !.worktree = TRUE]
    BY <1>2 DEF TaskRecord
  <2>2. task[t].impl \in BOOLEAN /\ r.worktree
    BY <1>2 DEF TaskRecord
  <2> HIDE DEF r
  <2> QED
    BY <2>1, <2>2, Zenon
<1>4. task' = [task EXCEPT ![t] = r]
      /\ UNCHANGED <<run, section, aborted, rejected, pointer, integration, confirmed>>
      /\ Persists
  BY SaveIs DEF Prepared, flags
<1> HIDE DEF r
<1>5. /\ r \in TaskRecord /\ r.marker = NoTree /\ r.sequence = task[t].sequence /\ r.worktree
      /\ r.status \notin {"done", "failed", "cancelled"} /\ r.attempts <= task[t].attempts
  BY <1>1, <1>3, AttemptRecord
<1>6. CASE aborted
  <2>1. PICK x \in {"failed", "blocked"} : Report(t, x)
    BY <1>6, Moves DEF Prepared
  <2> QED
    BY <1>1, <1>4, <1>5, <2>1, ThrownStep
<1>7. CASE ~aborted
  <2>1. Goto(t, "implementing")
    BY <1>7 DEF Prepared
  <2>2. StageAt(t, r, "implementing", verdict[t], section, integration)
    BY <1>5 DEF StageAt, Attempting, Holding
  <2>3. "implementing" \in Attempting
    BY DEF Attempting
  <2> QED
    BY <1>1, <1>4, <1>5, <2>1, <2>2, <2>3, ForwardStep
<1> QED
  BY <1>6, <1>7

\* The implementation comes back.
LEMMA ImplementedKeeps ==
    ASSUME IInv, NEW t \in Task, Implemented(t)
    PROVE  IInv' /\ StopStep /\ ExhaustedStep
<1>1. pc[t] \in Attempting /\ pc[t] = "implementing" /\ "validating" \in Attempting
  BY DEF Implemented, Attempting
<1>2. StageAt(t, task[t], pc[t], verdict[t], section, integration) /\ task[t] \in TaskRecord
      /\ task = [task EXCEPT ![t] = task[t]] /\ task[t].attempts <= task[t].attempts
  BY Here
<1>3. task[t].marker = NoTree /\ task[t].status \notin {"done", "failed", "cancelled"}
      /\ task[t].worktree
  BY <1>1, <1>2 DEF StageAt
<1>4. /\ UNCHANGED <<task, run, section, aborted, rejected, pointer, integration, confirmed>>
      /\ Persists /\ Goto(t, "validating")
  BY SaveIs DEF Implemented, flags, outside, ledgerVars
<1>5. StageAt(t, task[t], "validating", verdict[t], section, integration)
  BY <1>3 DEF StageAt, Attempting, Holding
<1> QED
  BY <1>1, <1>2, <1>3, <1>4, <1>5, ForwardStep

\* The validation comes back.
LEMMA ValidatedKeeps ==
    ASSUME IInv, NEW t \in Task, Validated(t)
    PROVE  IInv' /\ StopStep /\ ExhaustedStep
<1> DEFINE r == [task[t] EXCEPT !.impl = TRUE, !.status = "waitingForResources"]
<1>1. pc[t] \in Attempting /\ pc[t] = "validating"
  BY DEF Validated, Attempting
<1>2. StageAt(t, task[t], pc[t], verdict[t], section, integration) /\ task[t] \in TaskRecord
  BY Here
<1>3. task[t].worktree
  BY <1>1, <1>2 DEF StageAt
<1>4. r.impl /\ r.worktree /\ \E s \in {"waitingForResources", "integrating", task[t].status} :
        \E i, w \in BOOLEAN : r = [task[t] EXCEPT !.status = s, !.impl = i, !.worktree = w]
  <2>1. r = [task[t] EXCEPT !.status = "waitingForResources", !.impl = TRUE, !.worktree = TRUE]
    BY <1>2, <1>3 DEF TaskRecord
  <2>2. r.impl /\ r.worktree
    BY <1>2, <1>3 DEF TaskRecord
  <2> HIDE DEF r
  <2> QED
    BY <2>1, <2>2, Zenon
<1>5. task' = [task EXCEPT ![t] = r]
      /\ UNCHANGED <<run, section, aborted, rejected, pointer, integration, confirmed>>
      /\ Persists
  BY SaveIs DEF Validated, flags
<1> HIDE DEF r
<1>6. /\ r \in TaskRecord /\ r.marker = NoTree /\ r.sequence = task[t].sequence
      /\ r.worktree /\ r.impl
      /\ r.status \notin {"done", "failed", "cancelled"} /\ r.attempts <= task[t].attempts
  BY <1>1, <1>4, AttemptRecord
<1>7. CASE aborted
  <2>1. PICK x \in {"failed", "blocked"} : Report(t, x)
    BY <1>7, Moves DEF Validated
  <2> QED
    BY <1>1, <1>5, <1>6, <2>1, ThrownStep
<1>8. CASE ~aborted
  <2>1. Goto(t, "checking")
    BY <1>8 DEF Validated
  <2>2. StageAt(t, r, "checking", verdict[t], section, integration)
    BY <1>6 DEF StageAt, Attempting, Holding
  <2>3. "checking" \in Attempting
    BY DEF Attempting
  <2> QED
    BY <1>1, <1>5, <1>6, <2>1, <2>2, <2>3, ForwardStep
<1> QED
  BY <1>7, <1>8

\* The checks pass and the task waits for the integration.
LEMMA ChecksPassedKeeps ==
    ASSUME IInv, NEW t \in Task, ChecksPassed(t)
    PROVE  IInv' /\ StopStep /\ ExhaustedStep
<1> DEFINE r == [task[t] EXCEPT !.status = "integrating"]
<1>1. pc[t] \in Attempting /\ pc[t] = "checking" /\ "queued" \in Attempting
  BY DEF ChecksPassed, Attempting
<1>2. StageAt(t, task[t], pc[t], verdict[t], section, integration) /\ task[t] \in TaskRecord
  BY Here
<1>3. task[t].impl /\ task[t].worktree
  BY <1>1, <1>2 DEF StageAt
<1>4. r.impl /\ r.worktree /\ r.status = "integrating" /\ \E s \in {"waitingForResources", "integrating", task[t].status} :
        \E i, w \in BOOLEAN : r = [task[t] EXCEPT !.status = s, !.impl = i, !.worktree = w]
  <2>1. r = [task[t] EXCEPT !.status = "integrating", !.impl = TRUE, !.worktree = TRUE]
    BY <1>2, <1>3 DEF TaskRecord
  <2>2. r.impl /\ r.worktree /\ r.status = "integrating"
    BY <1>2, <1>3 DEF TaskRecord
  <2> HIDE DEF r
  <2> QED
    BY <2>1, <2>2, Zenon
<1>5. task' = [task EXCEPT ![t] = r] /\ Goto(t, "queued")
      /\ UNCHANGED <<run, section, aborted, rejected, pointer, integration, confirmed>>
      /\ Persists
  BY SaveIs DEF ChecksPassed, flags
<1> HIDE DEF r
<1>6. /\ r \in TaskRecord /\ r.marker = NoTree /\ r.sequence = task[t].sequence
      /\ r.worktree /\ r.impl /\ r.status = "integrating"
      /\ r.status \notin {"done", "failed", "cancelled"} /\ r.attempts <= task[t].attempts
  BY <1>1, <1>4, AttemptRecord
<1>7. StageAt(t, r, "queued", verdict[t], section, integration)
  BY <1>6 DEF StageAt, Attempting, Holding
<1> QED
  BY <1>1, <1>5, <1>6, <1>7, ForwardStep

\* An attempt fails.
LEMMA AttemptFailsKeeps ==
    ASSUME IInv, NEW t \in Task, AttemptFails(t)
    PROVE  IInv' /\ StopStep /\ ExhaustedStep
<1> DEFINE r == [task[t] EXCEPT !.impl = FALSE]
<1>1. pc[t] \in Attempting
  BY DEF AttemptFails, Attempting
<1>2. \E s \in {"waitingForResources", "integrating", task[t].status} :
        \E i, w \in BOOLEAN : r = [task[t] EXCEPT !.status = s, !.impl = i, !.worktree = w]
  <2>1. r = [task[t] EXCEPT !.status = task[t].status, !.impl = FALSE, !.worktree = task[t].worktree]
        /\ task[t].worktree \in BOOLEAN
    BY Here DEF TaskRecord
  <2> HIDE DEF r
  <2> QED
    BY <2>1, Zenon
<1>3. task' = [task EXCEPT ![t] = r] /\ Report(t, "failed")
      /\ UNCHANGED <<run, section, aborted, rejected, pointer, integration, confirmed>>
      /\ Persists
  BY SaveIs DEF AttemptFails, flags, outside
<1> HIDE DEF r
<1>4. /\ r \in TaskRecord /\ r.marker = NoTree /\ r.sequence = task[t].sequence
      /\ r.status \notin {"done", "failed", "cancelled"} /\ r.attempts <= task[t].attempts
  BY <1>1, <1>2, AttemptRecord
<1> QED
  BY <1>1, <1>3, <1>4, ThrownStep

\* The checks block the task.
LEMMA ChecksBlockedKeeps ==
    ASSUME IInv, NEW t \in Task, ChecksBlocked(t)
    PROVE  IInv' /\ StopStep /\ ExhaustedStep
<1>1. pc[t] \in Attempting
  BY DEF ChecksBlocked, Attempting
<1>2. task[t].marker = NoTree /\ task[t].status \notin {"done", "failed", "cancelled"}
  BY <1>1, Here DEF StageAt
<1>3. Report(t, "blocked") /\ Persists
      /\ UNCHANGED <<task, run, section, aborted, rejected, pointer, integration, confirmed>>
  BY SaveIs DEF ChecksBlocked, flags, outside, ledgerVars
<1> QED
  BY <1>1, <1>2, <1>3, Here, ThrownStep

\* An attempt throws.
LEMMA AttemptThrowsKeeps ==
    ASSUME IInv, NEW t \in Task, AttemptThrows(t)
    PROVE  IInv' /\ StopStep /\ ExhaustedStep
<1>1. pc[t] \in Attempting
  BY DEF AttemptThrows, Attempting
<1>2. task[t].marker = NoTree /\ task[t].status \notin {"done", "failed", "cancelled"}
  BY <1>1, Here DEF StageAt
<1>3. Persists
      /\ UNCHANGED <<task, run, section, aborted, rejected, pointer, integration, confirmed>>
  BY SaveIs DEF AttemptThrows, flags, outside, ledgerVars
<1>4. PICK x \in {"failed", "blocked"} : Report(t, x)
  BY Moves DEF AttemptThrows
<1> QED
  BY <1>1, <1>2, <1>3, <1>4, Here, ThrownStep

\* The worktree of an accepted task is removed.
LEMMA TidiedKeeps ==
    ASSUME IInv, NEW t \in Task, NEW ok \in BOOLEAN, Tidied(t, ok)
    PROVE  IInv' /\ StopStep /\ ExhaustedStep
<1> DEFINE r == [task[t] EXCEPT !.worktree = FALSE, !.impl = FALSE]
<1>1. pc[t] = "accepted" /\ pc[t] # "idle" /\ pc[t] \notin Holding
  BY PlacesArePcs DEF Tidied
<1>2. task[t] \in TaskRecord /\ task[t].status = "done" /\ task[t].marker = NoTree
  BY <1>1, Here DEF StageAt
<1>3. r \in TaskRecord /\ r.status = "done" /\ r.marker = NoTree /\ r.sequence = task[t].sequence
      /\ r.attempts = task[t].attempts
  BY <1>2 DEF TaskRecord
<1>4. task' = [task EXCEPT ![t] = r] /\ Settle(t) /\ Persists /\ rejected' \in BOOLEAN
      /\ UNCHANGED <<run, section, aborted, pointer, integration, confirmed>>
  BY SaveIs, Facts DEF Tidied
<1> HIDE DEF r
<1>5. Quiet(t, r, "idle", "none")
  BY <1>3, <1>4, Moves, Here DEF Quiet
<1>6. StageAt(t, r, "idle", "none", section, integration)
  BY DEF StageAt, Attempting, Holding
<1> QED
  BY <1>1, <1>2, <1>3, <1>5, <1>6, PlacesArePcs, QuietStep

\* A verdict leaves the task not done, and a task whose rollback failed blocked
\* or cancelled.
LEMMA ConcludedIs ==
    ASSUME IInv, NEW t \in Task, pc[t] = "concluding"
    PROVE  /\ Concluded(t) \in TaskRecord /\ Concluded(t).status # "done"
           /\ Concluded(t).marker = task[t].marker /\ Concluded(t).sequence = task[t].sequence
           /\ Concluded(t).attempts = task[t].attempts
           /\ Concluded(t).status \in {"cancelled", "blocked", "failed", "pending"}
           /\ task[t].marker # NoTree =>
                /\ Concluded(t).status \in {"blocked", "cancelled"}
                /\ ~(Concluded(t).status = "cancelled" /\ Concluded(t).result = "failed")
<1>1. task[t] \in TaskRecord /\ verdict[t] \in {"none", "failed", "blocked"}
  BY Here, Moves
<1>2. task[t].marker # NoTree => verdict[t] = "blocked"
  BY Here DEF StageAt
<1>3. CASE aborted
  <2>1. Concluded(t) = [task[t] EXCEPT !.result = verdict[t], !.status = "cancelled"]
    BY <1>1, <1>3 DEF Concluded, TaskRecord
  <2> QED
    BY <1>1, <1>2, <2>1 DEF TaskRecord
<1>4. CASE ~aborted /\ verdict[t] = "blocked"
  <2>1. Concluded(t) = [task[t] EXCEPT !.result = verdict[t], !.status = "blocked"]
    BY <1>1, <1>4 DEF Concluded, TaskRecord
  <2> QED
    BY <1>1, <1>2, <2>1 DEF TaskRecord
<1>5. CASE ~aborted /\ verdict[t] # "blocked"
  <2>1. PICK s \in {"failed", "pending"} :
          Concluded(t) = [task[t] EXCEPT !.result = verdict[t], !.impl = FALSE, !.status = s]
    <3>1. CASE task[t].attempts > Retries[t]
      BY <1>1, <1>5, <3>1 DEF Concluded, TaskRecord
    <3>2. CASE ~(task[t].attempts > Retries[t])
      BY <1>1, <1>5, <3>2 DEF Concluded, TaskRecord
    <3> QED
      BY <3>1, <3>2
  <2> QED
    BY <1>1, <1>2, <1>5, <2>1 DEF TaskRecord
<1> QED
  BY <1>3, <1>4, <1>5

\* What becomes of a task after a verdict: a retry, a failure, a block or a cancellation.
LEMMA ConcludeKeeps ==
    ASSUME IInv, NEW t \in Task, NEW ok \in BOOLEAN, Conclude(t, ok)
    PROVE  IInv' /\ StopStep /\ ExhaustedStep
<1> DEFINE r == Concluded(t)
<1>1. pc[t] = "concluding" /\ pc[t] # "idle" /\ pc[t] \notin Holding
  BY PlacesArePcs DEF Conclude
<1>2. task[t] \in TaskRecord /\ task[t].status # "done"
  BY <1>1, Here DEF StageAt
<1>3. /\ r \in TaskRecord /\ r.status # "done"
      /\ r.marker = task[t].marker /\ r.sequence = task[t].sequence
      /\ r.attempts = task[t].attempts
      /\ r.status \in {"cancelled", "blocked", "failed", "pending"}
      /\ task[t].marker # NoTree => /\ r.status \in {"blocked", "cancelled"}
                                    /\ ~(r.status = "cancelled" /\ r.result = "failed")
  BY <1>1, ConcludedIs
<1>4. task' = [task EXCEPT ![t] = r] /\ Persists /\ rejected' \in BOOLEAN
      /\ UNCHANGED <<run, section, aborted, pointer, integration, confirmed>>
  BY SaveIs, Facts DEF Conclude
<1>5. \/ Settle(t)
      \/ /\ r.status = "pending"
         /\ pc' = [pc EXCEPT ![t] = "top"]
         /\ verdict' = [verdict EXCEPT ![t] = "none"]
         /\ loop' = loop
  BY DEF Conclude
<1> HIDE DEF r
<1>6. CASE Settle(t)
  <2>1. Quiet(t, r, "idle", "none")
    BY <1>3, <1>4, <1>6, Moves, Here DEF Quiet
  <2>2. StageAt(t, r, "idle", "none", section, integration)
    BY DEF StageAt, Attempting, Holding
  <2> QED
    BY <1>1, <1>2, <1>3, <2>1, <2>2, PlacesArePcs, QuietStep
<1>7. CASE /\ r.status = "pending"
           /\ pc' = [pc EXCEPT ![t] = "top"]
           /\ verdict' = [verdict EXCEPT ![t] = "none"]
           /\ loop' = loop
  <2>1. Quiet(t, r, "top", "none")
    BY <1>3, <1>4, <1>7, Here DEF Quiet
  <2>2. r.marker = NoTree
    BY <1>3, <1>7
  <2>3. StageAt(t, r, "top", "none", section, integration)
    BY <1>7, <2>2 DEF StageAt, Attempting, Holding
  <2>4. "top" \in Pcs /\ "top" \notin Holding
    BY PlacesArePcs DEF Attempting
  <2> QED
    BY <1>1, <1>2, <1>3, <2>1, <2>3, <2>4, QuietStep
<1> QED
  BY <1>5, <1>6, <1>7

-----------------------------------------------------------------------------
(***************************************************************************)
(* The steps of the task that holds the integration.                       *)
(***************************************************************************)
\* The ledger after a step of t.
LEMMA Changed ==
    ASSUME IInv, NEW t \in Task, NEW r, NEW p, NEW x, Changes(t, r, p, x)
    PROVE  /\ task'[t] = r /\ \A u \in Task \ {t} : task'[u] = task[u] /\ pc'[u] = pc[u]
           /\ pc'[t] = p
           /\ DoneIn(task') \ {t} = DoneIn(task) \ {t}
           /\ MarkedIn(task') \ {t} = MarkedIn(task) \ {t}
           /\ KeptIn(task') \ {t} = KeptIn(task) \ {t}
           /\ t \in DoneIn(task') <=> r.status = "done"
           /\ t \in MarkedIn(task') <=> r.marker # NoTree
           /\ t \in KeptIn(task') <=> r.status = "done" \/ r.marker # NoTree
           /\ MarkedIn(task) \subseteq Task /\ KeptIn(task) \subseteq Task
<1>1. task'[t] = r /\ pc'[t] = p /\ \A u \in Task \ {t} : task'[u] = task[u] /\ pc'[u] = pc[u]
  <2> HIDE DEF Task
  <2> QED
    BY Facts DEF Changes
<1>2. MarkedIn(task) \subseteq Task /\ KeptIn(task) \subseteq Task
  BY DEF KeptIn, MarkedIn, DoneIn
<1>3. /\ DoneIn(task') \ {t} = DoneIn(task) \ {t}
      /\ MarkedIn(task') \ {t} = MarkedIn(task) \ {t}
      /\ t \in DoneIn(task') <=> r.status = "done"
      /\ t \in MarkedIn(task') <=> r.marker # NoTree
  BY <1>1 DEF DoneIn, MarkedIn
<1>4. /\ KeptIn(task') \ {t} = KeptIn(task) \ {t}
      /\ t \in KeptIn(task') <=> r.status = "done" \/ r.marker # NoTree
  BY <1>3 DEF KeptIn
<1> QED
  BY <1>1, <1>2, <1>3, <1>4

\* A task outside the integration does not see the section or the branch.
LEMMA StageElsewhere ==
    ASSUME NEW u, NEW r, NEW p, p \notin Holding, NEW v, NEW s, NEW m, NEW s2, NEW m2,
           StageAt(u, r, p, v, s, m)
    PROVE  StageAt(u, r, p, v, s2, m2)
BY DEF StageAt, Holding

\* A step of the one task that holds the integration.
LEMMA HolderStep ==
    ASSUME IInv, NEW t \in Task, pc[t] # "idle",
           NEW r \in TaskRecord, NEW p \in Pcs, NEW x \in {"none", "failed", "blocked"},
           Changes(t, r, p, x), \A u \in Task \ {t} : pc[u] \notin Holding,
           StageAt(t, r, p, x, section', integration'),
           section' = NoSection \/ (p \in Holding /\ section'.sequence <= run'.accepted),
           confirmed' = confirmed \/ disk' = [task |-> task', run |-> run'],
           MemoryOK', TreesOK'
    PROVE  IInv' /\ StopStep /\ ExhaustedStep
<1>1. /\ TypeOK' /\ ControlOK' /\ StatusOK' /\ DependsOK' /\ FailedOK'
      /\ StopStep /\ ExhaustedStep
  BY TaskFrame
<1>2. /\ task' \in [Task -> TaskRecord]
      /\ \A u \in Task \ {t} : task'[u] = task[u] /\ pc'[u] = pc[u] /\ verdict'[u] = verdict[u]
      /\ task'[t] = r /\ pc'[t] = p /\ verdict'[t] = x
  <2> HIDE DEF Task
  <2> QED
    BY Facts DEF Changes
<1>3. SectionOK'
  BY <1>2 DEF SectionOK
<1>4. StageOK'
  <2>1. ASSUME NEW u \in Task \ {t}
        PROVE  StageAt(u, task'[u], pc'[u], verdict'[u], section', integration')
    <3>1. StageAt(u, task[u], pc[u], verdict[u], section, integration) /\ pc[u] \notin Holding
      BY Facts
    <3>2. StageAt(u, task[u], pc[u], verdict[u], section', integration')
      BY <3>1, StageElsewhere
    <3> QED
      BY <1>2, <3>2
  <2>2. StageAt(t, task'[t], pc'[t], verdict'[t], section', integration')
    BY <1>2
  <2> QED
    BY <2>1, <2>2 DEF StageOK
<1>5. DiskOK'
  <2>1. section'.sequence \in Nat /\ run'.accepted \in Nat /\ run' \in RunRecord
    BY DEF Changes, RunRecord
  <2>2. Base' \in Nat /\ Base' <= run'.accepted
    BY <2>1 DEF Base
  <2>3. Persists
    BY DEF Changes
  <2> QED
    BY <1>2, <2>1, <2>2, <2>3, SavedLedger
<1> QED
  BY <1>1, <1>3, <1>4, <1>5 DEF IInv

\* What the memory and the trees say while the operation runs.
LEMMA Kept ==
    ASSUME IInv
    PROVE  /\ confirmed \subseteq DoneIn(task) /\ confirmed \subseteq run.tree
           /\ \A u \in MarkedIn(task) :
                /\ task[u].sequence <= Base
                /\ task[u].sequence = Base => confirmed \subseteq task[u].marker
                /\ task[u].status \in {"integrating", "blocked", "cancelled"}
                /\ ~(task[u].status = "cancelled" /\ task[u].result = "failed")
                /\ u \notin task[u].marker
           /\ spent.saves = 0 => /\ DoneIn(task) \subseteq confirmed
                                 /\ run.status = "completed" => Task \subseteq confirmed
           /\ Operating =>
                /\ run.status \notin Gone /\ run.tree \subseteq KeptIn(task)
                /\ integration \in SUBSET Task
                /\ confirmed \subseteq integration /\ integration \subseteq KeptIn(task)
                /\ \A u \in MarkedIn(task) : task[u].marker \subseteq Firm
           /\ Firm = {u \in KeptIn(task) : pc[u] \notin Holding}
           /\ Firm \subseteq KeptIn(task)
<1>1. Operating => run.status \notin Gone /\ integration \in SUBSET Task
  BY DEF IInv, StatusOK, Live, Gone
<1> QED
  BY <1>1 DEF IInv, MemoryOK, LedgerOK, TreesOK, Firm

\* The section opens at the branch's tree and at the count of acceptances.
LEMMA MarkKeeps ==
    ASSUME IInv, NEW t \in Task, NEW ok \in BOOLEAN, Mark(t, ok)
    PROVE  IInv' /\ StopStep /\ ExhaustedStep
<1>1. pc[t] = "queued" /\ pc[t] \in Attempting /\ pc[t] # "idle" /\ pc[t] \notin Holding
  BY PlacesArePcs DEF Mark, Attempting
<1>2. /\ task[t] \in TaskRecord /\ task[t].marker = NoTree /\ task[t].status = "integrating"
      /\ task[t].impl /\ task[t].worktree
  BY <1>1, Here DEF StageAt
<1>3. UNCHANGED <<run, aborted, rejected, pointer, integration, confirmed>> /\ Persists
      /\ ~aborted /\ section = NoSection
  BY SaveIs DEF Mark, flags, IntegrationIsFree
<1>4. CASE ~ok
  <2>1. UNCHANGED <<task, section>> /\ Thrown(t)
    BY <1>4 DEF Mark
  <2>2. PICK x \in {"failed", "blocked"} : Report(t, x)
    BY <2>1, Moves
  <2> QED
    BY <1>1, <1>2, <1>3, <2>1, <2>2, Here, ThrownStep
<1>5. CASE ok
  <2> DEFINE r == [task[t] EXCEPT !.marker = integration, !.sequence = run.accepted]
  <2>1. /\ task' = [task EXCEPT ![t] = r]
        /\ section' = [tree |-> integration, sequence |-> run.accepted]
        /\ Goto(t, "marked")
    BY <1>5 DEF Mark
  <2>2. Operating
    BY <1>1, ActiveTask
  <2>3. integration \in SUBSET Task /\ integration # NoTree /\ run.accepted \in Nat
    BY <2>2, Kept, BaseIs, Constants
  <2>4. r \in TaskRecord
    BY <1>2, <2>3 DEF TaskRecord
  <2>5. /\ r.marker = integration /\ r.sequence = run.accepted /\ r.status = "integrating"
        /\ r.impl /\ r.worktree /\ r.attempts = task[t].attempts
    BY <1>2 DEF TaskRecord
  <2> HIDE DEF r
  <2>6. \A u \in Task : pc[u] \notin Holding
    <3>1. \A u \in Task : pc[u] \in Holding => section # NoSection
      BY HeldSection
    <3> QED
      BY <1>3, <3>1
  <2>7. t \notin KeptIn(task) /\ t \notin integration
    <3>1. t \notin KeptIn(task)
      BY <1>2 DEF KeptIn, DoneIn, MarkedIn
    <3> QED
      BY <2>2, <3>1, Kept
  <2>8. Changes(t, r, "marked", verdict[t])
    <3>1. section' \in [tree : (SUBSET Task) \cup {NoTree}, sequence : Nat]
      BY <2>1, <2>3
    <3> QED
      BY <1>3, <2>1, <2>3, <3>1, Moves, Facts DEF Changes
  <2>9. section'.tree = integration /\ section'.sequence = run.accepted /\ section' # NoSection
    BY <2>1, <2>3 DEF NoSection
  <2>10. StageAt(t, r, "marked", verdict[t], section', integration')
    BY <2>3, <2>5, <2>7, <2>9 DEF StageAt, Attempting, Holding
  <2>11. /\ task'[t] = r /\ \A u \in Task \ {t} : task'[u] = task[u]
         /\ DoneIn(task') = DoneIn(task)
         /\ MarkedIn(task') = MarkedIn(task) \cup {t}
         /\ KeptIn(task') = KeptIn(task) \cup {t}
    <3>1. /\ task'[t] = r /\ \A u \in Task \ {t} : task'[u] = task[u]
          /\ DoneIn(task') \ {t} = DoneIn(task) \ {t}
          /\ MarkedIn(task') \ {t} = MarkedIn(task) \ {t}
          /\ KeptIn(task') \ {t} = KeptIn(task) \ {t}
          /\ t \notin DoneIn(task') /\ t \in MarkedIn(task') /\ t \in KeptIn(task')
      BY <2>3, <2>5, <2>8, Changed
    <3>2. t \notin DoneIn(task)
      BY <1>2 DEF DoneIn
    <3> QED
      BY <3>1, <3>2
  <2>12. Base' = Base /\ Base = run.accepted
    BY <1>3, <2>9 DEF Base
  <2>13. Firm = KeptIn(task) /\ Firm \subseteq Firm'
    <3>1. KeptIn(task) \subseteq Task
      BY DEF KeptIn, DoneIn, MarkedIn
    <3>2. Firm = KeptIn(task)
      BY <2>6, <3>1 DEF Firm
    <3>3. \A u \in Task \ {t} : pc'[u] = pc[u]
      BY <2>8, Facts DEF Changes
    <3> QED
      BY <2>6, <2>7, <2>11, <3>1, <3>2, <3>3 DEF Firm
  <2>14. MemoryOK'
    <3>1. ASSUME NEW u \in MarkedIn(task')
          PROVE  /\ task'[u].sequence <= Base
                 /\ task'[u].sequence = Base => confirmed \subseteq task'[u].marker
                 /\ task'[u].status \in {"integrating", "blocked", "cancelled"}
                 /\ ~(task'[u].status = "cancelled" /\ task'[u].result = "failed")
                 /\ u \notin task'[u].marker
                 /\ task'[u].marker \subseteq KeptIn(task')
      <4>1. CASE u = t
        BY <2>2, <2>3, <2>5, <2>7, <2>11, <2>12, <4>1, Kept
      <4>2. CASE u # t
        <5>1. u \in MarkedIn(task) /\ u \in Task
          BY <2>11, <4>2 DEF MarkedIn
        <5>2. task'[u] = task[u]
          BY <2>11, <4>2, <5>1
        <5> QED
          BY <2>2, <2>11, <5>1, <5>2, Kept
      <4> QED
        BY <4>1, <4>2
    <3>2. spent'.saves = 0 => spent.saves = 0
      BY <1>3, SpentMore
    <3> QED
      BY <1>3, <2>2, <2>11, <2>12, <3>1, <3>2, Kept DEF MemoryOK, LedgerOK
  <2>15. TreesOK'
    <3>1. \A u \in MarkedIn(task') : task'[u].marker \subseteq Firm'
      <4> SUFFICES ASSUME NEW u \in MarkedIn(task') PROVE task'[u].marker \subseteq Firm
        BY <2>13
      <4>1. CASE u = t
        BY <2>2, <2>5, <2>11, <2>13, <4>1, Kept
      <4>2. CASE u # t
        <5>1. u \in MarkedIn(task) /\ u \in Task
          BY <2>11, <4>2 DEF MarkedIn
        <5> QED
          BY <2>2, <2>11, <4>2, <5>1, Kept
      <4> QED
        BY <4>1, <4>2
    <3>2. integration \subseteq Firm'
      BY <2>2, <2>13, Kept
    <3> QED
      BY <1>3, <2>2, <2>9, <2>11, <3>1, <3>2, Kept DEF TreesOK
  <2>16. section'.sequence <= run'.accepted
    BY <1>3, <2>3, <2>9
  <2>17. "marked" \in Pcs /\ "marked" \in Holding
    BY PlacesArePcs DEF Holding
  <2> QED
    BY <1>1, <1>3, <2>4, <2>6, <2>8, <2>10, <2>14, <2>15, <2>16, <2>17, Moves, HolderStep
<1> QED
  BY <1>4, <1>5

\* While t holds the integration, its step leaves all other work as it is.
LEMMA Others ==
    ASSUME IInv, NEW t \in Task, pc[t] \in Holding, NEW r, NEW p, NEW x, Changes(t, r, p, x)
    PROVE  /\ \A u \in MarkedIn(task') \ {t} :
                /\ task'[u].sequence <= section.sequence
                /\ task'[u].sequence = section.sequence => confirmed \subseteq task'[u].marker
                /\ task'[u].status \in {"integrating", "blocked", "cancelled"}
                /\ ~(task'[u].status = "cancelled" /\ task'[u].result = "failed")
                /\ u \notin task'[u].marker
                /\ task'[u].marker \subseteq Firm
                /\ task'[u].sequence \in Nat
           /\ Firm \subseteq KeptIn(task') /\ Firm \subseteq Firm' /\ t \notin Firm
           /\ KeptIn(task) = Firm \cup {t}
           /\ spent'.saves = 0 => spent.saves = 0
<1>1. Operating /\ pc[t] # "idle"
  BY ActiveTask, PlacesArePcs
<1>2. /\ \A u \in Task \ {t} : task'[u] = task[u] /\ pc'[u] = pc[u]
      /\ MarkedIn(task') \ {t} = MarkedIn(task) \ {t}
      /\ KeptIn(task') \ {t} = KeptIn(task) \ {t}
      /\ MarkedIn(task) \subseteq Task /\ KeptIn(task) \subseteq Task
  BY Changed
<1>3. Base = section.sequence /\ t \in KeptIn(task) /\ \A u \in Task \ {t} : pc[u] \notin Holding
  BY HeldSection
<1>4. t \notin Firm /\ KeptIn(task) = Firm \cup {t}
  BY <1>2, <1>3 DEF Firm
<1>5. Firm \subseteq KeptIn(task') /\ Firm \subseteq Firm'
  BY <1>2, <1>3, <1>4 DEF Firm
<1>6. ASSUME NEW u \in MarkedIn(task') \ {t}
      PROVE  /\ task'[u].sequence <= section.sequence
             /\ task'[u].sequence = section.sequence => confirmed \subseteq task'[u].marker
             /\ task'[u].status \in {"integrating", "blocked", "cancelled"}
             /\ ~(task'[u].status = "cancelled" /\ task'[u].result = "failed")
             /\ u \notin task'[u].marker
             /\ task'[u].marker \subseteq Firm
             /\ task'[u].sequence \in Nat
  <2>1. u \in MarkedIn(task) /\ u \in Task /\ task'[u] = task[u]
    BY <1>2
  <2>2. task[u].sequence \in Nat
    BY <2>1, Here DEF TaskRecord
  <2> QED
    BY <1>1, <1>3, <2>1, <2>2, Kept
<1>7. spent'.saves = 0 => spent.saves = 0
  BY SpentMore DEF Changes
<1> QED
  BY <1>4, <1>5, <1>6, <1>7

\* The integration goes on, or its rollback begins: the records stay.
LEMMA SectionGoesOn ==
    ASSUME IInv, NEW t \in Task, pc[t] \in Holding, NEW p \in Holding,
           Goto(t, p), UNCHANGED <<task, section, aborted, rejected, disk, pointer, confirmed, spent>>,
           integration' = integration \/ integration' = integration \cup {t},
           \/ run' = [run EXCEPT !.accepted = section.sequence]
           \/ run' = [run EXCEPT !.tree = integration \cup {t}],
           StageAt(t, task[t], p, verdict[t], section, integration')
    PROVE  IInv' /\ StopStep /\ ExhaustedStep
<1>1. Operating /\ pc[t] # "idle" /\ p \in Pcs
  BY ActiveTask, PlacesArePcs
<1>2. /\ section # NoSection /\ section.tree \subseteq Task /\ section.sequence \in Nat
      /\ Base = section.sequence /\ section.sequence <= run.accepted /\ run.accepted \in Nat
      /\ confirmed \subseteq section.tree /\ section.tree \subseteq Firm
      /\ \A u \in Task \ {t} : pc[u] \notin Holding
      /\ t \in KeptIn(task)
  BY HeldSection
<1>3. integration' \in SUBSET Task /\ confirmed \subseteq integration'
      /\ integration' \subseteq KeptIn(task)
  BY <1>1, <1>2, Kept
<1>4. run \in RunRecord /\ integration \cup {t} \in SUBSET Task
  BY <1>1, Facts, Kept
<1>5. /\ run' \in RunRecord /\ run'.status = run.status /\ section.sequence <= run'.accepted
      /\ run'.tree = run.tree \/ run'.tree = integration \cup {t}
  <2>1. CASE run' = [run EXCEPT !.accepted = section.sequence]
    BY <1>2, <1>4, <2>1 DEF RunRecord
  <2>2. CASE run' = [run EXCEPT !.tree = integration \cup {t}]
    BY <1>2, <1>4, <2>2 DEF RunRecord
  <2> QED
    BY <2>1, <2>2
<1>6. Changes(t, task[t], p, verdict[t])
  <2>1. Persists
    BY SaveIs
  <2> QED
    BY <1>3, <1>5, <2>1, Moves, Here, Facts DEF Changes
<1>7. Base' = Base
  BY <1>2 DEF Base
<1>8. Firm' = Firm
  <2>1. \A u \in Task : pc'[u] \in Holding <=> pc[u] \in Holding
    BY <1>6, Changed
  <2>2. KeptIn(task) \subseteq Task
    BY DEF KeptIn, DoneIn, MarkedIn
  <2> QED
    BY <2>1, <2>2 DEF Firm
<1>9. MemoryOK'
  <2>1. LedgerOK(task, run, Base, confirmed, spent.saves)
    BY DEF IInv, MemoryOK
  <2>2. confirmed \subseteq run'.tree /\ run'.tree \subseteq KeptIn(task)
    BY <1>1, <1>2, <1>5, Kept
  <2>3. LedgerOK(task, run', Base, confirmed, spent.saves)
    BY <1>5, <2>1, <2>2 DEF LedgerOK
  <2> QED
    BY <1>7, <2>3 DEF MemoryOK
<1>10. TreesOK'
  BY <1>1, <1>2, <1>3, <1>8, Kept DEF TreesOK
<1> QED
  BY <1>1, <1>2, <1>5, <1>6, <1>9, <1>10, Here, Moves, HolderStep

\* The task's work is on the branch, above its marker.
LEMMA IntegratedKeeps ==
    ASSUME IInv, NEW t \in Task, Integrated(t)
    PROVE  IInv' /\ StopStep /\ ExhaustedStep
<1>1. pc[t] = "marked" /\ pc[t] \in Holding /\ {"rollback", "integrated"} \subseteq Holding
  BY DEF Integrated, Holding
<1>2. PICK p \in {"rollback", "integrated"} : Goto(t, p)
  BY DEF Integrated
<1>3. /\ UNCHANGED <<task, section, aborted, rejected, disk, pointer, confirmed, spent>>
      /\ integration' = integration \cup {t}
      /\ run' = [run EXCEPT !.tree = integration \cup {t}]
  BY DEF Integrated, flags
<1>4. StageAt(t, task[t], p, verdict[t], section, integration')
  <2>1. StageAt(t, task[t], pc[t], verdict[t], section, integration)
    BY Here
  <2> QED
    BY <1>1, <1>3, <2>1 DEF StageAt, Attempting, Holding
<1> QED
  BY <1>1, <1>2, <1>3, <1>4, SectionGoesOn

\* The work is not on the branch, and the marker still names what was there.
LEMMA IntegrationFailsKeeps ==
    ASSUME IInv, NEW t \in Task, IntegrationFails(t)
    PROVE  IInv' /\ StopStep /\ ExhaustedStep
<1>1. pc[t] \in {"marked", "integrated"} /\ pc[t] \in Holding /\ "rollback" \in Holding
  BY DEF IntegrationFails, Holding
<1>2. /\ UNCHANGED <<task, section, aborted, rejected, disk, pointer, confirmed, spent>>
      /\ integration' = integration \/ integration' = integration \cup {t}
      /\ run' = [run EXCEPT !.accepted = section.sequence]
      /\ Goto(t, "rollback")
  BY DEF IntegrationFails, StartRollback, flags
<1>3. StageAt(t, task[t], "rollback", verdict[t], section, integration')
  <2>1. StageAt(t, task[t], pc[t], verdict[t], section, integration)
    BY Here
  <2> QED
    BY <1>1, <2>1 DEF StageAt, Attempting, Holding
<1> QED
  BY <1>1, <1>2, <1>3, SectionGoesOn

\* A stop before the acceptance, or a save of it that failed, begins a rollback.
LEMMA TakeBackKeeps ==
    ASSUME IInv, NEW t \in Task, TakeBack(t)
    PROVE  IInv' /\ StopStep /\ ExhaustedStep
<1>1. pc[t] \in {"integrated", "notSaved"} /\ pc[t] \in Holding /\ "rollback" \in Holding
  BY DEF TakeBack, Holding
<1>2. /\ UNCHANGED <<task, section, aborted, rejected, disk, pointer, confirmed, spent>>
      /\ integration' = integration
      /\ run' = [run EXCEPT !.accepted = section.sequence]
      /\ Goto(t, "rollback")
  BY DEF TakeBack, StartRollback, flags, outside
<1>3. StageAt(t, task[t], "rollback", verdict[t], section, integration')
  <2>1. StageAt(t, task[t], pc[t], verdict[t], section, integration)
    BY Here
  <2> QED
    BY <1>1, <2>1 DEF StageAt, Attempting, Holding
<1> QED
  BY <1>1, <1>2, <1>3, SectionGoesOn

\* The acceptance: the marker goes, the count grows and the tree of the run takes the task.
LEMMA AcceptKeeps ==
    ASSUME IInv, NEW t \in Task, NEW ok \in BOOLEAN, Accept(t, ok)
    PROVE  IInv' /\ StopStep /\ ExhaustedStep
<1> DEFINE r == [task[t] EXCEPT !.status = "done", !.result = "done",
                                !.marker = NoTree, !.sequence = 0]
<1>1. pc[t] = "integrated" /\ pc[t] \in Holding /\ pc[t] # "idle" /\ Operating
  <2>1. pc[t] = "integrated" /\ pc[t] \in Holding
    BY DEF Accept, Holding
  <2> QED
    BY <2>1, ActiveTask, PlacesArePcs
<1>2. StageAt(t, task[t], pc[t], verdict[t], section, integration) /\ task[t] \in TaskRecord
  BY Here
<1>3. t \in integration /\ task[t].impl /\ task[t].worktree /\ task[t].attempts \in Nat
  BY <1>1, <1>2 DEF StageAt, TaskRecord
<1>4. r \in TaskRecord /\ r.status = "done" /\ r.marker = NoTree /\ r.sequence = 0
      /\ r.impl = task[t].impl /\ r.worktree = task[t].worktree /\ r.attempts = task[t].attempts
  BY <1>2 DEF TaskRecord
<1>5. /\ task' = [task EXCEPT ![t] = r]
      /\ run' = [run EXCEPT !.tree = integration, !.accepted = section.sequence + 1]
      /\ UNCHANGED <<aborted, rejected, pointer, integration>> /\ ~aborted /\ Persists
  BY SaveIs DEF Accept, flags
<1> HIDE DEF r
<1>6. /\ section # NoSection /\ section.tree \subseteq Task /\ section.sequence \in Nat
      /\ Base = section.sequence /\ section.sequence <= run.accepted /\ run.accepted \in Nat
      /\ confirmed \subseteq section.tree /\ section.tree \subseteq Firm /\ t \notin section.tree
      /\ \A u \in Task \ {t} : pc[u] \notin Holding
      /\ t \in KeptIn(task)
  BY <1>1, HeldSection
<1>7. integration \in SUBSET Task /\ confirmed \subseteq integration
      /\ integration \subseteq KeptIn(task) /\ run.status \notin Gone
  BY <1>1, Kept
<1>8. /\ run' \in RunRecord /\ run'.status = run.status /\ run'.tree = integration
      /\ run'.accepted = section.sequence + 1 /\ section.sequence <= run'.accepted
  <2>1. run \in RunRecord /\ section.sequence + 1 \in Nat
    BY <1>6, Facts
  <2>2. run' \in RunRecord /\ run'.status = run.status /\ run'.tree = integration
        /\ run'.accepted = section.sequence + 1
    BY <1>5, <1>7, <2>1 DEF RunRecord
  <2> QED
    BY <1>6, <2>2
<1>9. PICK p \in {"accepted", "notSaved"} :
        /\ Goto(t, p)
        /\ p = "accepted" => /\ confirmed' = confirmed \cup {t} /\ section' = NoSection
                             /\ disk' = [task |-> task', run |-> run'] /\ spent' = spent
        /\ p = "notSaved" => /\ confirmed' = confirmed /\ section' = section /\ disk' = disk
                             /\ spent' = [spent EXCEPT !.saves = @ + 1, !.faults = @ + 1]
  BY DEF Accept, Save, Saved, Stored, SaveFailed
<1>10. Changes(t, r, p, verdict[t])
  <2>1. section' \in [tree : (SUBSET Task) \cup {NoTree}, sequence : Nat]
    BY <1>9, Facts DEF NoSection
  <2> QED
    BY <1>5, <1>7, <1>8, <1>9, <2>1, Moves, Facts DEF Changes
<1>11. /\ task'[t] = r
       /\ DoneIn(task') \ {t} = DoneIn(task) \ {t} /\ t \in DoneIn(task')
       /\ MarkedIn(task') = MarkedIn(task') \ {t}
       /\ KeptIn(task') \ {t} = KeptIn(task) \ {t} /\ t \in KeptIn(task')
  BY <1>4, <1>10, Changed
<1>12. KeptIn(task') = KeptIn(task)
  <2>1. \A u : u \in KeptIn(task') <=> u \in KeptIn(task)
    BY <1>6, <1>11
  <2> QED
    BY <2>1
<1>13. /\ \A u \in MarkedIn(task') :
            /\ task'[u].sequence <= section.sequence
            /\ task'[u].sequence = section.sequence => confirmed \subseteq task'[u].marker
            /\ task'[u].status \in {"integrating", "blocked", "cancelled"}
            /\ ~(task'[u].status = "cancelled" /\ task'[u].result = "failed")
            /\ u \notin task'[u].marker
            /\ task'[u].marker \subseteq Firm
            /\ task'[u].sequence \in Nat
       /\ Firm \subseteq KeptIn(task') /\ Firm \subseteq Firm'
       /\ spent'.saves = 0 => spent.saves = 0
  BY <1>1, <1>10, <1>11, Others
<1>14. /\ confirmed \subseteq DoneIn(task)
       /\ spent.saves = 0 => /\ DoneIn(task) \subseteq confirmed
                             /\ run.status = "completed" => Task \subseteq confirmed
  BY Kept
<1>15. p \in Pcs /\ ("notSaved" \in Holding)
  BY PlacesArePcs DEF Holding
<1>16. StageAt(t, r, p, verdict[t], section', integration')
  <2>1. CASE p = "accepted"
    BY <1>4, <2>1 DEF StageAt, Attempting, Holding
  <2>2. CASE p = "notSaved"
    BY <1>3, <1>4, <1>6, <1>9, <2>2 DEF StageAt, Attempting, Holding
  <2> QED
    BY <2>1, <2>2
<1>17. MemoryOK'
  <2>1. confirmed' \subseteq DoneIn(task') /\ confirmed' \subseteq run'.tree
    BY <1>3, <1>7, <1>8, <1>9, <1>11, <1>14
  <2>2. run'.tree \subseteq KeptIn(task')
    BY <1>7, <1>8, <1>12
  <2>3. CASE p = "accepted"
    <3>1. Base' = section.sequence + 1 /\ confirmed' = confirmed \cup {t} /\ spent' = spent
      BY <1>8, <1>9, <2>3 DEF Base
    <3>2. \A u \in MarkedIn(task') : /\ task'[u].sequence <= section.sequence + 1
                                     /\ task'[u].sequence # section.sequence + 1
      BY <1>6, <1>13
    <3>3. spent'.saves = 0 => /\ DoneIn(task') \subseteq confirmed'
                              /\ run'.status = "completed" => Task \subseteq confirmed'
      BY <1>8, <1>11, <1>14, <3>1
    <3>4. \A u \in MarkedIn(task') : task'[u].marker \subseteq KeptIn(task')
      BY <1>13
    <3> QED
      BY <1>13, <2>1, <2>2, <3>1, <3>2, <3>3, <3>4 DEF MemoryOK, LedgerOK
  <2>4. CASE p = "notSaved"
    <3>1. Base' = section.sequence /\ confirmed' = confirmed
      BY <1>6, <1>9, <2>4 DEF Base
    <3>2. spent'.saves # 0
      <4>1. spent \in [saves : Nat, faults : Nat, resumes : Nat]
        BY Facts
      <4>2. spent'.saves = spent.saves + 1 /\ spent.saves \in Nat
        BY <1>9, <2>4, <4>1
      <4> QED
        BY <4>2
    <3>3. \A u \in MarkedIn(task') : task'[u].marker \subseteq KeptIn(task')
      BY <1>13
    <3> QED
      BY <1>13, <2>1, <2>2, <3>1, <3>2, <3>3 DEF MemoryOK, LedgerOK
  <2> QED
    BY <2>3, <2>4
<1>18. TreesOK'
  <2>1. confirmed' \subseteq integration /\ integration \subseteq KeptIn(task')
    BY <1>3, <1>7, <1>9, <1>12
  <2>2. section' # NoSection => confirmed' \subseteq section'.tree /\ section'.tree \subseteq Firm'
    BY <1>6, <1>9, <1>13
  <2>3. \A u \in MarkedIn(task') : task'[u].marker \subseteq Firm'
    BY <1>13
  <2> QED
    BY <1>5, <2>1, <2>2, <2>3 DEF TreesOK
<1>19. /\ section' = NoSection \/ (p \in Holding /\ section'.sequence <= run'.accepted)
       /\ confirmed' = confirmed \/ disk' = [task |-> task', run |-> run']
  BY <1>8, <1>9, <1>15
<1> QED
  BY <1>1, <1>4, <1>6, <1>10, <1>15, <1>16, <1>17, <1>18, <1>19, Moves, HolderStep

\* The branch is back at the marker, which goes.
LEMMA RolledBackKeeps ==
    ASSUME IInv, NEW t \in Task, RolledBack(t)
    PROVE  IInv' /\ StopStep /\ ExhaustedStep
<1> DEFINE s == IF aborted THEN "cancelled" ELSE "failed"
<1> DEFINE r == [task[t] EXCEPT !.marker = NoTree, !.sequence = 0, !.status = s]
<1>1. pc[t] = "rollback" /\ pc[t] \in Holding /\ pc[t] # "idle" /\ Operating
  <2>1. pc[t] = "rollback" /\ pc[t] \in Holding
    BY DEF RolledBack, Holding
  <2> QED
    BY <2>1, ActiveTask, PlacesArePcs
<1>2. StageAt(t, task[t], pc[t], verdict[t], section, integration) /\ task[t] \in TaskRecord
      /\ task[t].attempts \in Nat
  BY Here
<1>3. task[t].impl /\ task[t].worktree
  BY <1>1, <1>2 DEF StageAt
<1>4. /\ r \in TaskRecord /\ r.status \in {"cancelled", "failed"} /\ r.marker = NoTree
      /\ r.impl = task[t].impl /\ r.worktree = task[t].worktree /\ r.attempts = task[t].attempts
  BY <1>2 DEF TaskRecord
<1>5. /\ task' = [task EXCEPT ![t] = r]
      /\ run' = [run EXCEPT !.tree = section.tree]
      /\ integration' = section.tree /\ section' = NoSection
      /\ UNCHANGED <<aborted, rejected, disk, pointer, confirmed, spent>> /\ Persists
      /\ Thrown(t)
  BY SaveIs DEF RolledBack, flags
<1> HIDE DEF r, s
<1>6. /\ section # NoSection /\ section.tree \subseteq Task /\ section.sequence \in Nat
      /\ section.sequence <= run.accepted /\ run.accepted \in Nat
      /\ confirmed \subseteq section.tree /\ section.tree \subseteq Firm /\ t \notin section.tree
      /\ \A u \in Task \ {t} : pc[u] \notin Holding
  BY <1>1, HeldSection
<1>7. run.status \notin Gone
  BY <1>1, Kept
<1>8. /\ run' \in RunRecord /\ run'.status = run.status /\ run'.tree = section.tree
      /\ run'.accepted = run.accepted
  BY <1>5, <1>6, Facts DEF RunRecord
<1>9. PICK x \in {"failed", "blocked"} : Report(t, x)
  BY <1>5, Moves
<1>10. Changes(t, r, "concluding", x)
  <2>1. section' \in [tree : (SUBSET Task) \cup {NoTree}, sequence : Nat]
    BY <1>5 DEF NoSection
  <2> QED
    BY <1>2, <1>4, <1>5, <1>6, <1>8, <1>9, <2>1, Moves, Facts DEF Changes
<1>11. /\ DoneIn(task') \ {t} = DoneIn(task) \ {t} /\ t \notin DoneIn(task')
       /\ MarkedIn(task') = MarkedIn(task') \ {t}
  BY <1>4, <1>10, Changed
<1>12. /\ \A u \in MarkedIn(task') :
            /\ task'[u].sequence <= section.sequence
            /\ task'[u].sequence = section.sequence => confirmed \subseteq task'[u].marker
            /\ task'[u].status \in {"integrating", "blocked", "cancelled"}
            /\ ~(task'[u].status = "cancelled" /\ task'[u].result = "failed")
            /\ u \notin task'[u].marker
            /\ task'[u].marker \subseteq Firm
            /\ task'[u].sequence \in Nat
       /\ Firm \subseteq KeptIn(task') /\ Firm \subseteq Firm'
  BY <1>1, <1>10, <1>11, Others
<1>13. /\ confirmed \subseteq DoneIn(task)
       /\ spent.saves = 0 => /\ DoneIn(task) \subseteq confirmed
                             /\ run.status = "completed" => Task \subseteq confirmed
  BY Kept
<1>14. "concluding" \in Pcs
  BY PlacesArePcs
<1>15. StageAt(t, r, "concluding", x, section', integration')
  BY <1>3, <1>4 DEF StageAt, Attempting, Holding
<1>16. MemoryOK'
  <2>1. Base' = run.accepted
    BY <1>5, <1>8 DEF Base
  <2>2. confirmed \subseteq DoneIn(task') /\ DoneIn(task') \subseteq DoneIn(task)
    BY <1>6, <1>11, <1>13
  <2>3. \A u \in MarkedIn(task') :
          /\ task'[u].sequence <= run.accepted
          /\ task'[u].sequence = run.accepted => confirmed \subseteq task'[u].marker
    <3>1. \A u \in MarkedIn(task') :
            /\ task'[u].sequence <= run.accepted
            /\ task'[u].sequence = run.accepted => task'[u].sequence = section.sequence
      BY <1>6, <1>12
    <3> QED
      BY <1>12, <3>1
  <2>4. section.tree \subseteq KeptIn(task')
        /\ \A u \in MarkedIn(task') : task'[u].marker \subseteq KeptIn(task')
    BY <1>6, <1>12
  <2>5. spent.saves = 0 => /\ DoneIn(task') \subseteq confirmed
                           /\ run'.status = "completed" => Task \subseteq confirmed
    BY <1>8, <1>13, <2>2
  <2>6. confirmed \subseteq run'.tree /\ run'.tree \subseteq KeptIn(task')
    BY <1>6, <1>8, <2>4
  <2>7. LedgerOK(task', run', run.accepted, confirmed, spent.saves)
    BY <1>12, <2>2, <2>3, <2>4, <2>5, <2>6 DEF LedgerOK
  <2> QED
    BY <1>5, <2>1, <2>7 DEF MemoryOK
<1>17. TreesOK'
  <2>1. confirmed \subseteq section.tree /\ section.tree \subseteq KeptIn(task')
    BY <1>6, <1>12
  <2>2. \A u \in MarkedIn(task') : task'[u].marker \subseteq Firm'
    BY <1>12
  <2> QED
    BY <1>5, <2>1, <2>2 DEF TreesOK
<1> QED
  BY <1>1, <1>4, <1>5, <1>6, <1>10, <1>14, <1>15, <1>16, <1>17, HolderStep

\* The rollback fails: the task is blocked and keeps its marker.
LEMMA RollbackFailsKeeps ==
    ASSUME IInv, NEW t \in Task, NEW ok \in BOOLEAN, RollbackFails(t, ok)
    PROVE  IInv' /\ StopStep /\ ExhaustedStep
<1> DEFINE r == [task[t] EXCEPT !.marker = section.tree, !.sequence = section.sequence,
                                !.status = "blocked"]
<1>1. pc[t] = "rollback" /\ pc[t] \in Holding /\ pc[t] # "idle" /\ Operating
  <2>1. pc[t] = "rollback" /\ pc[t] \in Holding
    BY DEF RollbackFails, Holding
  <2> QED
    BY <2>1, ActiveTask, PlacesArePcs
<1>2. task[t] \in TaskRecord /\ task[t].attempts \in Nat
  BY Here
<1>3. /\ section # NoSection /\ section.tree \subseteq Task /\ section.sequence \in Nat
      /\ section.tree # NoTree
      /\ section.sequence <= run.accepted /\ run.accepted \in Nat
      /\ confirmed \subseteq section.tree /\ section.tree \subseteq Firm /\ t \notin section.tree
      /\ \A u \in Task \ {t} : pc[u] \notin Holding
  BY <1>1, HeldSection
<1>4. /\ r \in TaskRecord /\ r.status = "blocked" /\ r.marker = section.tree
      /\ r.sequence = section.sequence /\ r.attempts = task[t].attempts
  BY <1>2, <1>3 DEF TaskRecord
<1>5. /\ task' = [task EXCEPT ![t] = r]
      /\ integration' = integration \/ integration' = section.tree
      /\ section' = NoSection /\ Report(t, "blocked")
      /\ UNCHANGED <<run, aborted, rejected, pointer, confirmed>> /\ Persists
  BY SaveIs DEF RollbackFails, flags
<1> HIDE DEF r
<1>6. run.status \notin Gone /\ integration \in SUBSET Task /\ confirmed \subseteq integration
      /\ integration \subseteq KeptIn(task) /\ run.tree \subseteq KeptIn(task)
  BY <1>1, Kept
<1>7. Changes(t, r, "concluding", "blocked")
  <2>1. section' \in [tree : (SUBSET Task) \cup {NoTree}, sequence : Nat]
    BY <1>5 DEF NoSection
  <2> QED
    BY <1>2, <1>3, <1>4, <1>5, <1>6, <2>1, Moves, Facts DEF Changes
<1>8. /\ task'[t] = r
      /\ DoneIn(task') \ {t} = DoneIn(task) \ {t} /\ t \notin DoneIn(task')
      /\ t \in KeptIn(task')
  BY <1>3, <1>4, <1>7, Changed
<1>9. /\ \A u \in MarkedIn(task') \ {t} :
            /\ task'[u].sequence <= section.sequence
            /\ task'[u].sequence = section.sequence => confirmed \subseteq task'[u].marker
            /\ task'[u].status \in {"integrating", "blocked", "cancelled"}
            /\ ~(task'[u].status = "cancelled" /\ task'[u].result = "failed")
            /\ u \notin task'[u].marker
            /\ task'[u].marker \subseteq Firm
            /\ task'[u].sequence \in Nat
      /\ Firm \subseteq KeptIn(task') /\ Firm \subseteq Firm'
      /\ KeptIn(task) = Firm \cup {t}
      /\ spent'.saves = 0 => spent.saves = 0
  BY <1>1, <1>7, Others
<1>10. \A u \in MarkedIn(task') :
            /\ task'[u].sequence <= section.sequence
            /\ task'[u].sequence = section.sequence => confirmed \subseteq task'[u].marker
            /\ task'[u].status \in {"integrating", "blocked", "cancelled"}
            /\ ~(task'[u].status = "cancelled" /\ task'[u].result = "failed")
            /\ u \notin task'[u].marker
            /\ task'[u].marker \subseteq Firm
            /\ task'[u].sequence \in Nat
  <2>1. /\ task'[t].sequence = section.sequence /\ task'[t].marker = section.tree
        /\ task'[t].status = "blocked"
    BY <1>4, <1>8
  <2> QED
    BY <1>3, <1>9, <2>1
<1>11. /\ confirmed \subseteq DoneIn(task)
       /\ spent.saves = 0 => /\ DoneIn(task) \subseteq confirmed
                             /\ run.status = "completed" => Task \subseteq confirmed
       /\ confirmed \subseteq run.tree
  BY Kept
<1>12. KeptIn(task) \subseteq KeptIn(task')
  BY <1>8, <1>9
<1>13. StageAt(t, r, "concluding", "blocked", section', integration')
  BY <1>4 DEF StageAt, Attempting, Holding
<1>14. MemoryOK'
  <2>1. Base' = run.accepted
    BY <1>5 DEF Base
  <2>2. confirmed \subseteq DoneIn(task') /\ DoneIn(task') \subseteq DoneIn(task)
    BY <1>3, <1>8, <1>11
  <2>3. \A u \in MarkedIn(task') :
          /\ task'[u].sequence <= run.accepted
          /\ task'[u].sequence = run.accepted => confirmed \subseteq task'[u].marker
    <3>1. \A u \in MarkedIn(task') :
            /\ task'[u].sequence <= run.accepted
            /\ task'[u].sequence = run.accepted => task'[u].sequence = section.sequence
      BY <1>3, <1>10
    <3> QED
      BY <1>10, <3>1
  <2>4. run.tree \subseteq KeptIn(task')
        /\ \A u \in MarkedIn(task') : task'[u].marker \subseteq KeptIn(task')
    BY <1>6, <1>9, <1>10, <1>12
  <2>5. spent'.saves = 0 => /\ DoneIn(task') \subseteq confirmed
                            /\ run.status = "completed" => Task \subseteq confirmed
    BY <1>9, <1>11, <2>2
  <2>6. LedgerOK(task', run, run.accepted, confirmed, spent'.saves)
    BY <1>10, <1>11, <2>2, <2>3, <2>4, <2>5 DEF LedgerOK
  <2> QED
    BY <1>5, <2>1, <2>6 DEF MemoryOK
<1>15. TreesOK'
  <2>1. confirmed \subseteq integration' /\ integration' \subseteq KeptIn(task')
    BY <1>3, <1>5, <1>6, <1>9, <1>12
  <2>2. \A u \in MarkedIn(task') : task'[u].marker \subseteq Firm'
    BY <1>9, <1>10
  <2> QED
    BY <1>5, <2>1, <2>2 DEF TreesOK
<1>16. "concluding" \in Pcs
  BY PlacesArePcs
<1> QED
  BY <1>1, <1>3, <1>4, <1>5, <1>7, <1>13, <1>14, <1>15, <1>16, HolderStep

\* Every step of a task keeps the invariant and both action properties.
LEMMA TaskStepKeeps ==
    ASSUME IInv, NEW t \in Task, TaskStep(t)
    PROVE  IInv' /\ StopStep /\ ExhaustedStep
<1>1. \/ WorktreeRemoved(t) \/ RemovalFails(t)
      \/ Prepared(t) \/ Implemented(t) \/ Validated(t) \/ ChecksPassed(t)
      \/ AttemptFails(t) \/ ChecksBlocked(t) \/ AttemptThrows(t)
      \/ Integrated(t) \/ IntegrationFails(t) \/ TakeBack(t) \/ RolledBack(t)
      \/ \E ok \in BOOLEAN :
           \/ LoopTop(t, ok) \/ Mark(t, ok) \/ Accept(t, ok) \/ RollbackFails(t, ok)
           \/ Tidied(t, ok) \/ Conclude(t, ok)
  BY DEF TaskStep
<1> QED
  BY <1>1, WorktreeRemovedKeeps, RemovalFailsKeeps, PreparedKeeps, ImplementedKeeps,
     ValidatedKeeps, ChecksPassedKeeps, AttemptFailsKeeps, ChecksBlockedKeeps,
     AttemptThrowsKeeps, IntegratedKeeps, IntegrationFailsKeeps, TakeBackKeeps,
     RolledBackKeeps, LoopTopKeeps, MarkKeeps, AcceptKeeps, RollbackFailsKeeps,
     TidiedKeeps, ConcludeKeeps

-----------------------------------------------------------------------------
(***************************************************************************)
(* The steps of the loop, and a stop.                                      *)
(***************************************************************************)
Idle == \A t \in Task : pc[t] = "idle"

\* A step of the run loop that changes the run's status alone.
LEMMA LoopFrame ==
    ASSUME IInv, Operating, NEW s \in Live, run' = [run EXCEPT !.status = s],
           UNCHANGED <<task, pc, verdict, section, integration, confirmed>>,
           rejected' \in BOOLEAN, aborted' \in BOOLEAN, pointer' \in BOOLEAN,
           loop' \in {"scheduling", "waiting", "draining", "selecting", "finalChecks",
                      "cleanup", "saved", "ending", "off"},
           loop' \in Resting => Idle,
           s = "completed" /\ spent.saves = 0 => Task \subseteq confirmed,
           disk' = [task |-> task', run |-> run'] \/ disk' = disk,
           spent' \in [saves : Nat, faults : Nat, resumes : Nat],
           spent'.saves = 0 => spent.saves = 0
    PROVE  IInv' /\ StopStep /\ ExhaustedStep
<1>1. /\ run' \in RunRecord /\ run'.status = s /\ run'.tree = run.tree
      /\ run'.accepted = run.accepted
  BY Facts DEF RunRecord, Live
<1>2. run.status \in Live /\ disk.run.status \in Live /\ integration \subseteq Task
  BY DEF IInv, StatusOK
<1>3. disk' \in [task : [Task -> TaskRecord], run : RunRecord]
      /\ disk'.task \in [Task -> TaskRecord] /\ disk'.run \in RunRecord
      /\ disk'.run.status \in Live
  <2>1. CASE disk' = [task |-> task', run |-> run']
    BY <1>1, <2>1, Facts
  <2>2. CASE disk' = disk
    BY <1>2, <2>2, Facts
  <2> QED
    BY <2>1, <2>2
<1>4. TypeOK'
  BY <1>1, <1>3 DEF IInv, TypeOK
<1>5. ControlOK'
  <2>1. loop' \in Loops
    BY DEF Loops, Resting
  <2> QED
    BY <1>3, <2>1, Facts DEF ControlOK, Idle
<1>6. SectionOK'
  BY <1>1 DEF IInv, SectionOK
<1>7. StatusOK'
  <2>1. run'.status # "none" /\ integration # NoTree
    BY <1>1, <1>2, Constants DEF Live
  <2> QED
    BY <1>1, <1>2, <1>3, <2>1 DEF StatusOK
<1>8. StageOK'
  BY DEF IInv, StageOK
<1>9. Base' = Base /\ Base \in Nat /\ Base <= run'.accepted
  BY <1>1, BaseIs DEF Base
<1>10. MemoryOK'
  <2>1. LedgerOK(task, run, Base, confirmed, spent.saves)
    BY DEF IInv, MemoryOK
  <2>2. run.status \notin Gone
    BY <1>2 DEF Live, Gone
  <2>3. LedgerOK(task, run', Base, confirmed, spent'.saves)
    BY <1>1, <2>1, <2>2 DEF LedgerOK
  <2> QED
    BY <1>9, <2>3 DEF MemoryOK
<1>11. DiskOK'
  BY <1>1, <1>9, <1>10, Facts, WrittenLedger
<1>12. TreesOK'
  <2>1. Firm' = Firm
    BY DEF Firm
  <2> QED
    BY <2>1 DEF IInv, TreesOK
<1>13. DependsOK'
  BY DEF IInv, DependsOK
<1>14. \A u \in Task : Exhausted(disk, u) =>
         Exhausted([task |-> task', run |-> run'], u) /\ Exhausted(disk', u)
  <2> SUFFICES ASSUME NEW u \in Task, Exhausted(disk, u)
               PROVE  Exhausted([task |-> task', run |-> run'], u) /\ Exhausted(disk', u)
    OBVIOUS
  <2>1. Exhausted(Memory, u)
    BY DEF IInv, FailedOK
  <2> QED
    BY <2>1 DEF Exhausted, Memory
<1>15. FailedOK'
  <2> SUFFICES ASSUME NEW u \in Task, Exhausted(disk', u)
               PROVE  Exhausted([task |-> task', run |-> run'], u)
    BY DEF FailedOK, Memory
  <2> QED
    BY <1>14
<1>16. StopStep
  <2>1. \A u \in Task : task[u].attempts <= task[u].attempts
    BY Here
  <2> QED
    BY <1>2, <2>1 DEF StopStep, Live, Abandonment
<1>17. ExhaustedStep
  BY <1>14 DEF ExhaustedStep
<1> QED
  BY <1>4, <1>5, <1>6, <1>7, <1>8, <1>10, <1>11, <1>12, <1>13, <1>15, <1>16, <1>17 DEF IInv

\* A step of the loop that leaves the status of the run.
LEMMA SameRun ==
    ASSUME IInv, Operating
    PROVE  /\ run.status \in Live /\ run = [run EXCEPT !.status = run.status]
           /\ run.status = "completed" /\ spent.saves = 0 => Task \subseteq confirmed
<1>1. run.status \in Live
  BY DEF IInv, StatusOK
<1>2. run = [run EXCEPT !.status = run.status]
  BY Facts DEF RunRecord
<1> QED
  BY <1>1, <1>2, Kept

\* Where the loop stands while it operates, and while no task is active.
LEMMA OperatingLoops ==
    /\ loop \in {"scheduling", "waiting", "draining", "selecting", "finalChecks",
                 "cleanup", "saved", "ending"} => Operating
    /\ {"selecting", "finalChecks", "cleanup", "saved", "ending", "off"} \subseteq Resting
    /\ {"scheduling", "waiting", "draining"} \cap Resting = {}
BY DEF Operating, Maintenance, Resting

\* No task is active exactly when every operation is idle.
LEMMA ActiveIsEmpty == Active = {} <=> Idle
BY DEF Active, Idle

\* The loop rests only when every operation is idle.
LEMMA RestingIdle == IInv /\ loop \in Resting => Idle
BY DEF IInv, ControlOK, Idle

\* The Master check blocks the run, or lets the selection go on.
LEMMA MasterChecksKeeps ==
    ASSUME IInv, NEW deviation \in BOOLEAN, MasterChecks(deviation)
    PROVE  IInv' /\ StopStep /\ ExhaustedStep
<1>1. Operating /\ Idle
  BY OperatingLoops, ActiveIsEmpty DEF MasterChecks
<1>2. UNCHANGED <<task, pc, verdict, section, integration, confirmed, rejected, aborted,
                  pointer, disk, spent>>
  BY DEF MasterChecks, taskVars, flags, outside
<1>3. CASE deviation
  <2>1. run' = [run EXCEPT !.status = "blocked"] /\ loop' = "cleanup"
    BY <1>3 DEF MasterChecks, LeaveLoop
  <2>2. "blocked" \in Live
    BY DEF Live
  <2> QED
    BY <1>1, <1>2, <2>1, <2>2, Facts, LoopFrame
<1>4. CASE ~deviation
  <2>1. loop' = "selecting" /\ run' = run
    BY <1>4 DEF MasterChecks
  <2> QED
    BY <1>1, <1>2, <2>1, SameRun, Facts, LoopFrame
<1> QED
  BY <1>3, <1>4

\* The loop finds an abort or a rejection, and waits for the tasks that are active.
LEMMA LoopFailsKeeps ==
    ASSUME IInv, LoopFails
    PROVE  IInv' /\ StopStep /\ ExhaustedStep
<1>1. Operating
  BY OperatingLoops DEF LoopFails
<1>2. UNCHANGED <<task, pc, verdict, section, integration, confirmed, pointer, disk, spent>>
      /\ aborted' = TRUE /\ rejected' = FALSE /\ loop' = "draining"
  BY DEF LoopFails, taskVars, outside
<1>3. PICK s \in {"stopped", "failed"} : run' = [run EXCEPT !.status = s]
  BY DEF LoopFails
<1>4. s \in Live /\ s # "completed"
  BY DEF Live
<1> QED
  BY <1>1, <1>2, <1>3, <1>4, OperatingLoops, Facts, LoopFrame

\* The last of the active tasks is over.
LEMMA DrainedKeeps ==
    ASSUME IInv, Drained
    PROVE  IInv' /\ StopStep /\ ExhaustedStep
<1>1. Operating /\ Idle
  BY OperatingLoops, ActiveIsEmpty DEF Drained
<1>2. UNCHANGED <<run, task, pc, verdict, section, integration, confirmed, rejected, aborted,
                  pointer, disk, spent>>
      /\ loop' = "cleanup"
  BY DEF Drained, taskVars, flags, outside, ledgerVars
<1> QED
  BY <1>1, <1>2, SameRun, Facts, LoopFrame

\* The final checks, of a loop left with every task done, settle the status of the run.
LEMMA FinalChecksKeeps ==
    ASSUME IInv, NEW outcome \in {"passed", "failed", "blocked", "thrown"}, FinalChecks(outcome)
    PROVE  IInv' /\ StopStep /\ ExhaustedStep
<1>1. Operating /\ Idle
  BY OperatingLoops, RestingIdle DEF FinalChecks
<1>2. UNCHANGED <<task, pc, verdict, section, integration, confirmed, rejected,
                  pointer, disk, spent>>
      /\ aborted' \in BOOLEAN /\ loop' = "cleanup"
  BY Facts DEF FinalChecks, taskVars, outside
<1>3. PICK s \in {"blocked", "stopped", "failed", run.status} : run' = [run EXCEPT !.status = s]
  BY DEF FinalChecks
<1>4. s \in Live /\ (s = "completed" /\ spent.saves = 0 => Task \subseteq confirmed)
  BY <1>1, SameRun DEF Live
<1> QED
  BY <1>1, <1>2, <1>3, <1>4, Facts, LoopFrame

\* The clean-up of a completed run.
LEMMA CleanUpKeeps ==
    ASSUME IInv, NEW cleaned \in BOOLEAN, NEW ok \in BOOLEAN, CleanUp(cleaned, ok)
    PROVE  IInv' /\ StopStep /\ ExhaustedStep
<1>1. Operating /\ Idle
  BY OperatingLoops, RestingIdle DEF CleanUp
<1>2. UNCHANGED <<task, pc, verdict, section, integration, confirmed, rejected, aborted, pointer>>
      /\ loop' \in {"saved", "off"} /\ Persists
  BY SaveIs DEF CleanUp, taskVars, flags
<1>3. PICK s \in {"failed", run.status} : run' = [run EXCEPT !.status = s]
  BY <1>1, SameRun DEF CleanUp
<1>4. s \in Live /\ (s = "completed" /\ spent.saves = 0 => Task \subseteq confirmed)
  BY <1>1, SameRun DEF Live
<1>5. disk' = [task |-> task', run |-> run'] \/ disk' = disk
  BY <1>2 DEF Persists
<1>6. spent' \in [saves : Nat, faults : Nat, resumes : Nat] /\ (spent'.saves = 0 => spent.saves = 0)
  BY <1>2, SpentMore
<1>7. rejected' \in BOOLEAN /\ aborted' \in BOOLEAN /\ pointer' \in BOOLEAN
  BY <1>2, Facts
<1>8. /\ loop' \in {"scheduling", "waiting", "draining", "selecting", "finalChecks",
                     "cleanup", "saved", "ending", "off"}
      /\ UNCHANGED <<task, pc, verdict, section, integration, confirmed>>
      /\ loop' \in Resting => Idle
  BY <1>1, <1>2
<1> QED
  BY <1>1, <1>3, <1>4, <1>5, <1>6, <1>7, <1>8, LoopFrame

\* After its last save the run stays the active one unless it completed.
LEMMA SetPointerKeeps ==
    ASSUME IInv, SetPointer
    PROVE  IInv' /\ StopStep /\ ExhaustedStep
<1>1. Operating /\ Idle
  BY OperatingLoops, RestingIdle DEF SetPointer
<1>2. UNCHANGED <<run, task, pc, verdict, section, integration, confirmed, rejected, aborted,
                  disk, spent>>
      /\ loop' = "ending" /\ pointer' \in BOOLEAN
  BY DEF SetPointer, taskVars, flags, ledgerVars
<1> QED
  BY <1>1, <1>2, SameRun, Facts, LoopFrame

\* The operation is over.
LEMMA OperationEndsKeeps ==
    ASSUME IInv, OperationEnds
    PROVE  IInv' /\ StopStep /\ ExhaustedStep
<1>1. Operating /\ Idle
  BY OperatingLoops, RestingIdle DEF OperationEnds
<1>2. UNCHANGED <<run, task, pc, verdict, section, integration, confirmed, rejected, aborted,
                  pointer, disk, spent>>
      /\ loop' = "off"
  BY DEF OperationEnds, taskVars, flags, ledgerVars, outside
<1> QED
  BY <1>1, <1>2, SameRun, Facts, LoopFrame

\* The loop of an operation, wherever it stands.
LEMMA LoopStays ==
    ASSUME IInv, Operating
    PROVE  /\ loop \in {"scheduling", "waiting", "draining", "selecting", "finalChecks",
                        "cleanup", "saved", "ending", "off"}
           /\ loop \in Resting => Idle
<1>1. loop \in Loops /\ loop \notin Maintenance
  BY Facts DEF Operating
<1> QED
  BY <1>1, RestingIdle DEF Loops, Resting

\* A stop changes the status of the run and raises the abort.
LEMMA StopKeeps ==
    ASSUME IInv, NEW ok \in BOOLEAN, Stop(ok)
    PROVE  IInv' /\ StopStep /\ ExhaustedStep
<1>1. Operating
  BY DEF Stop
<1>2. UNCHANGED <<task, pc, verdict, section, integration, confirmed, rejected, pointer, loop>>
      /\ aborted' = TRUE /\ run' = [run EXCEPT !.status = "stopping"]
      /\ (disk' = [task |-> task', run |-> run'] \/ disk' = disk)
  BY DEF Stop, taskVars
<1>3. spent' \in [saves : Nat, faults : Nat, resumes : Nat] /\ (spent'.saves = 0 => spent.saves = 0)
  <2>1. PICK n \in {0, 1} : spent' = [spent EXCEPT !.faults = @ + 1, !.saves = @ + n]
    BY DEF Stop
  <2>2. spent \in [saves : Nat, faults : Nat, resumes : Nat]
    BY Facts
  <2>3. spent.saves + n \in Nat /\ spent.faults + 1 \in Nat /\ spent.saves \in Nat
    BY <2>2
  <2>4. spent'.saves = spent.saves + n
    BY <2>1, <2>2
  <2>5. spent' \in [saves : Nat, faults : Nat, resumes : Nat]
    BY <2>1, <2>2, <2>3
  <2> QED
    BY <2>3, <2>4, <2>5
<1>4. "stopping" \in Live
  BY DEF Live
<1>5. /\ loop' \in {"scheduling", "waiting", "draining", "selecting", "finalChecks",
                     "cleanup", "saved", "ending", "off"}
      /\ loop' \in Resting => Idle
  BY <1>1, <1>2, LoopStays
<1>6. rejected' \in BOOLEAN /\ aborted' \in BOOLEAN /\ pointer' \in BOOLEAN
  BY <1>2, Facts
<1> QED
  BY <1>1, <1>2, <1>3, <1>4, <1>5, <1>6, LoopFrame

\* A stop that is not answered in time changes the status alone.
LEMMA StopTimesOutKeeps ==
    ASSUME IInv, StopTimesOut
    PROVE  IInv' /\ StopStep /\ ExhaustedStep
<1>1. Operating
  BY DEF StopTimesOut
<1>2. UNCHANGED <<task, pc, verdict, section, integration, confirmed, rejected, aborted,
                  pointer, loop, spent>>
      /\ run' = [run EXCEPT !.status = "stopped"]
      /\ disk' = [task |-> task', run |-> run']
  BY DEF StopTimesOut, Saved, Stored, taskVars, flags
<1>3. "stopped" \in Live
  BY DEF Live
<1> QED
  BY <1>1, <1>2, <1>3, LoopStays, Facts, LoopFrame

\* Where a task stands when the scheduler has looked at it.
Scheduled(T, started, u) == IF u \in started /\ ~aborted THEN AtTop(T[u]) ELSE T[u]
ScheduledPc(T, started, u) ==
    IF u \notin started THEN pc[u] ELSE IF aborted THEN "top" ELSE PcAtTop(T[u])

\* What a scheduling does: it refreshes, starts some ready tasks, and may leave the loop.
LEMMA ScheduleIs ==
    ASSUME IInv, Schedule
    PROVE  \E T, started :
             /\ T = RefreshReadiness(task)
             /\ started \subseteq {u \in Task : T[u].status = "ready" /\ pc[u] = "idle"}
             /\ task' = [u \in Task |-> Scheduled(T, started, u)]
             /\ pc' = [u \in Task |-> ScheduledPc(T, started, u)]
             /\ IF Active \cup started # {} THEN loop' = "waiting" /\ run' = run
                ELSE LeaveLoop(IF TerminalStatus(T) = "none" THEN "blocked"
                               ELSE TerminalStatus(T))
             /\ UNCHANGED <<verdict, section, rejected, aborted, disk, pointer, integration,
                            confirmed, spent>>
             /\ Operating
<1> DEFINE T == RefreshReadiness(task)
<1> DEFINE started == SelectRunnable(T) \ Active
<1>1. started \subseteq {u \in Task : T[u].status = "ready" /\ pc[u] = "idle"}
  BY SelectedAreReady DEF Active
<1>2. /\ task' = [u \in Task |-> Scheduled(T, started, u)]
      /\ pc' = [u \in Task |-> ScheduledPc(T, started, u)]
      /\ IF Active \cup started # {} THEN loop' = "waiting" /\ run' = run
         ELSE LeaveLoop(IF TerminalStatus(T) = "none" THEN "blocked"
                        ELSE TerminalStatus(T))
      /\ UNCHANGED <<verdict, section, rejected, aborted, disk, pointer, integration,
                     confirmed, spent>>
  BY DEF Schedule, Scheduled, ScheduledPc, flags, outside
<1>3. Operating
  BY OperatingLoops DEF Schedule
<1> HIDE DEF T, started
<1>4. T = RefreshReadiness(task)
  BY DEF T
<1> QED
  BY <1>1, <1>2, <1>3, <1>4

\* Scheduling changes the record of a task in no way a ledger cares about.
LEMMA ScheduledIs ==
    ASSUME IInv, NEW T, T = RefreshReadiness(task),
           NEW started, started \subseteq {u \in Task : T[u].status = "ready" /\ pc[u] = "idle"},
           NEW u \in Task
    PROVE  \E r, p :
              /\ r = Scheduled(T, started, u) /\ p = ScheduledPc(T, started, u)
              /\ r \in TaskRecord /\ p \in Pcs /\ (p \in Holding <=> pc[u] \in Holding)
              /\ r.marker = task[u].marker /\ r.sequence = task[u].sequence
              /\ r.status = "done" <=> task[u].status = "done"
              /\ u \in MarkedIn(task) => r = task[u]
              /\ Exhausted(Memory, u) => r = task[u]
              /\ StageAt(u, r, p, verdict[u], section, integration)
              /\ aborted => r.attempts = task[u].attempts
              /\ u \notin started => p = pc[u]
              /\ u \in started => \A d \in DependsOn[u] : task[d].status = "done"
<1> DEFINE r == Scheduled(T, started, u)
<1> DEFINE p == ScheduledPc(T, started, u)
<1>1. /\ T[u] \in TaskRecord
      /\ T[u].status = "done" <=> task[u].status = "done"
      /\ T[u].marker = task[u].marker /\ T[u].sequence = task[u].sequence
      /\ T[u].attempts = task[u].attempts /\ T[u].result = task[u].result
      /\ T[u].impl = task[u].impl /\ T[u].worktree = task[u].worktree
      /\ T[u].status # task[u].status =>
           /\ task[u].status \in {"pending", "ready"}
           /\ T[u].status \in {"pending", "ready", "blocked"}
  BY Facts, ReadinessIs, RefreshKeepsDone
<1>2. T[u].status = "ready" => \A d \in DependsOn[u] : task[d].status = "done"
  BY Facts, ReadinessIs
<1>3. task[u] \in TaskRecord /\ pc[u] \in Pcs
      /\ StageAt(u, task[u], pc[u], verdict[u], section, integration)
  BY Facts
<1>4. u \in MarkedIn(task) => task[u].status \in {"integrating", "blocked", "cancelled"}
  BY Kept
<1>5. task[u].status \notin {"pending", "ready"} => T[u] = task[u]
  BY <1>1, <1>3 DEF TaskRecord
<1>6. Exhausted(Memory, u) => task[u].status \notin {"pending", "ready"}
  BY DEF Exhausted, Memory
<1>7. ASSUME u \in started
      PROVE  /\ r \in TaskRecord /\ p \in Pcs /\ (p \in Holding <=> pc[u] \in Holding)
             /\ r.marker = task[u].marker /\ r.sequence = task[u].sequence
             /\ r.status = "done" <=> task[u].status = "done"
             /\ u \in MarkedIn(task) => r = task[u]
             /\ Exhausted(Memory, u) => r = task[u]
             /\ StageAt(u, r, p, verdict[u], section, integration)
             /\ aborted => r.attempts = task[u].attempts
             /\ u \notin started => p = pc[u]
             /\ u \in started => \A d \in DependsOn[u] : task[d].status = "done"
  <2>1. T[u].status = "ready" /\ pc[u] = "idle" /\ task[u].status \in {"pending", "ready"}
    BY <1>1, <1>7
  <2>2. T[u].marker = NoTree /\ u \notin MarkedIn(task) /\ ~Exhausted(Memory, u)
    BY <1>1, <1>4, <1>6, <2>1 DEF MarkedIn
  <2>3. /\ AtTop(T[u]) \in TaskRecord /\ AtTop(T[u]).marker = NoTree
        /\ AtTop(T[u]).sequence = T[u].sequence
        /\ AtTop(T[u]).status \notin {"done", "failed", "cancelled"}
        /\ PcAtTop(T[u]) \in {"validating", "removing", "preparing"}
        /\ StageAt(u, AtTop(T[u]), PcAtTop(T[u]), verdict[u], section, integration)
    BY <1>1, <2>1, <2>2, AtTopIs
  <2>4. CASE aborted
    <3>1. r = T[u] /\ p = "top"
      BY <1>7, <2>4 DEF Scheduled, ScheduledPc
    <3> HIDE DEF r, p
    <3>2. StageAt(u, r, p, verdict[u], section, integration)
      BY <2>1, <2>2, <3>1 DEF StageAt, Attempting, Holding
    <3>3. p \in Pcs /\ p \notin Holding /\ pc[u] \notin Holding
      BY <2>1, <3>1, PlacesArePcs DEF Attempting
    <3> QED
      BY <1>1, <1>2, <1>7, <2>1, <2>2, <3>1, <3>2, <3>3 DEF r, p
  <2>5. CASE ~aborted
    <3>1. r = AtTop(T[u]) /\ p = PcAtTop(T[u])
      BY <1>7, <2>5 DEF Scheduled, ScheduledPc
    <3> HIDE DEF r, p
    <3>2. p \in Pcs /\ p \notin Holding /\ pc[u] \notin Holding
      BY <2>1, <2>3, <3>1, PlacesArePcs DEF Attempting
    <3> QED
      BY <1>1, <1>2, <1>7, <2>1, <2>2, <2>3, <2>5, <3>1, <3>2 DEF r, p
  <2> QED
    BY <2>4, <2>5
<1>8. ASSUME u \notin started
      PROVE  /\ r \in TaskRecord /\ p \in Pcs /\ (p \in Holding <=> pc[u] \in Holding)
             /\ r.marker = task[u].marker /\ r.sequence = task[u].sequence
             /\ r.status = "done" <=> task[u].status = "done"
             /\ u \in MarkedIn(task) => r = task[u]
             /\ Exhausted(Memory, u) => r = task[u]
             /\ StageAt(u, r, p, verdict[u], section, integration)
             /\ aborted => r.attempts = task[u].attempts
             /\ u \notin started => p = pc[u]
             /\ u \in started => \A d \in DependsOn[u] : task[d].status = "done"
  <2>1. r = T[u] /\ p = pc[u]
    BY <1>8 DEF Scheduled, ScheduledPc
  <2> HIDE DEF r, p
  <2>2. StageAt(u, T[u], pc[u], verdict[u], section, integration)
    BY <1>1, <1>3 DEF StageAt, Attempting, Holding
  <2> QED
    BY <1>1, <1>3, <1>4, <1>5, <1>6, <1>8, <2>1, <2>2 DEF r, p
<1>9. r = Scheduled(T, started, u) /\ p = ScheduledPc(T, started, u)
  OBVIOUS
<1> HIDE DEF r, p
<1> QED
  BY <1>7, <1>8, <1>9

\* A scheduling starts only tasks whose dependencies are done and that can be retried.
LEMMA ScheduleKeeps ==
    ASSUME IInv, Schedule
    PROVE  IInv' /\ StopStep /\ ExhaustedStep
<1>1. PICK T, started :
        /\ T = RefreshReadiness(task)
        /\ started \subseteq {u \in Task : T[u].status = "ready" /\ pc[u] = "idle"}
        /\ task' = [u \in Task |-> Scheduled(T, started, u)]
        /\ pc' = [u \in Task |-> ScheduledPc(T, started, u)]
        /\ IF Active \cup started # {} THEN loop' = "waiting" /\ run' = run
           ELSE LeaveLoop(IF TerminalStatus(T) = "none" THEN "blocked" ELSE TerminalStatus(T))
        /\ UNCHANGED <<verdict, section, rejected, aborted, disk, pointer, integration,
                       confirmed, spent>>
        /\ Operating
  BY ScheduleIs
<1>2. \A u \in Task :
        /\ task'[u] \in TaskRecord /\ pc'[u] \in Pcs
        /\ pc'[u] \in Holding <=> pc[u] \in Holding
        /\ task'[u].marker = task[u].marker /\ task'[u].sequence = task[u].sequence
        /\ task'[u].status = "done" <=> task[u].status = "done"
        /\ u \in MarkedIn(task) => task'[u] = task[u]
        /\ Exhausted(Memory, u) => task'[u] = task[u]
        /\ StageAt(u, task'[u], pc'[u], verdict[u], section, integration)
        /\ aborted => task'[u].attempts = task[u].attempts
        /\ u \notin started => pc'[u] = pc[u]
        /\ u \in started => \A d \in DependsOn[u] : task[d].status = "done"
  <2> TAKE u \in Task
  <2>1. task'[u] = Scheduled(T, started, u) /\ pc'[u] = ScheduledPc(T, started, u)
    BY <1>1
  <2>2. T = RefreshReadiness(task)
        /\ started \subseteq {v \in Task : T[v].status = "ready" /\ pc[v] = "idle"}
    BY <1>1
  <2>3. PICK r, p :
          /\ r = Scheduled(T, started, u) /\ p = ScheduledPc(T, started, u)
          /\ r \in TaskRecord /\ p \in Pcs /\ (p \in Holding <=> pc[u] \in Holding)
          /\ r.marker = task[u].marker /\ r.sequence = task[u].sequence
          /\ r.status = "done" <=> task[u].status = "done"
          /\ u \in MarkedIn(task) => r = task[u]
          /\ Exhausted(Memory, u) => r = task[u]
          /\ StageAt(u, r, p, verdict[u], section, integration)
          /\ aborted => r.attempts = task[u].attempts
          /\ u \notin started => p = pc[u]
          /\ u \in started => \A d \in DependsOn[u] : task[d].status = "done"
    BY <2>2, ScheduledIs
  <2>4. task'[u] = r /\ pc'[u] = p
    BY <2>1, <2>3
  <2> QED
    BY <2>3, <2>4
<1>3. task' \in [Task -> TaskRecord] /\ pc' \in [Task -> Pcs]
  BY <1>1, <1>2
<1>4. /\ DoneIn(task') = DoneIn(task) /\ MarkedIn(task') = MarkedIn(task)
      /\ KeptIn(task') = KeptIn(task)
  BY <1>2, Facts, SameKept
<1>5. PICK s \in Live :
        /\ run' = [run EXCEPT !.status = s]
        /\ loop' \in {"waiting", "draining", "finalChecks", "cleanup"}
        /\ loop' \in Resting => Active \cup started = {}
        /\ s = "completed" /\ spent.saves = 0 => Task \subseteq confirmed
  <2>1. CASE Active \cup started # {}
    <3>1. loop' = "waiting" /\ run' = run
      BY <1>1, <2>1
    <3> QED
      BY <1>1, <3>1, SameRun, OperatingLoops
  <2>2. CASE Active \cup started = {}
    <3> DEFINE status == IF TerminalStatus(T) = "none" THEN "blocked" ELSE TerminalStatus(T)
    <3>1. LeaveLoop(status)
      BY <1>1, <2>2
    <3>2. status \in {"blocked", "failed", "completed"}
      BY DEF TerminalStatus
    <3>3. status = "completed" => \A u \in Task : T[u].status = "done"
      <4> SUFFICES ASSUME TerminalStatus(T) = "completed", NEW u \in Task
                   PROVE  T[u].status = "done"
        OBVIOUS
      <4> DEFINE all == {T[v].status : v \in Task}
      <4>1. /\ all \cap (ActiveStatus \cup {"pending", "ready"}) = {} /\ "failed" \notin all
            /\ all \cap {"blocked", "cancelled"} = {}
        <5> HIDE DEF all
        <5> QED
          BY DEF TerminalStatus, all
      <4>2. T[u].status \in all
        OBVIOUS
      <4>3. T[u] \in TaskRecord
        BY <1>1, Facts, ReadinessIs, RefreshKeepsDone
      <4> QED
        BY <4>1, <4>2, <4>3 DEF TaskRecord, ActiveStatus
    <3>4. (\A u \in Task : T[u].status = "done") => DoneIn(task) = Task
      <4>1. \A u \in Task : T[u].status = "done" <=> task[u].status = "done"
        BY <1>1, Facts, ReadinessIs, RefreshKeepsDone
      <4> QED
        BY <4>1 DEF DoneIn
    <3> HIDE DEF status
    <3>5. status = "completed" /\ spent.saves = 0 => Task \subseteq confirmed
      BY <3>3, <3>4, Kept
    <3>6. PICK s \in {"stopped", status} : run' = [run EXCEPT !.status = s]
            /\ loop' \in {"draining", "finalChecks", "cleanup"}
      BY <3>1 DEF LeaveLoop
    <3>7. s \in Live
      BY <3>2, <3>6 DEF Live
    <3> QED
      BY <2>2, <3>5, <3>6, <3>7
  <2> QED
    BY <2>1, <2>2
<1>6. /\ run' \in RunRecord /\ run'.status = s /\ run'.tree = run.tree
      /\ run'.accepted = run.accepted
  BY <1>5, Facts DEF RunRecord, Live
<1>7. TypeOK'
  BY <1>1, <1>3, <1>6 DEF IInv, TypeOK
<1>8. ControlOK'
  <2>1. loop' \in Loops
    BY <1>5 DEF Loops, Resting
  <2>2. loop' \in Resting => \A u \in Task : pc'[u] = "idle"
    BY <1>2, <1>5 DEF Active
  <2> QED
    BY <1>1, <1>3, <2>1, <2>2, Facts DEF ControlOK
<1>9. SectionOK'
  BY <1>1, <1>2, <1>6 DEF IInv, SectionOK
<1>10. StatusOK'
  <2>1. run.status \in Live /\ disk.run.status \in Live /\ integration \subseteq Task
    BY <1>1 DEF IInv, StatusOK
  <2>2. integration # NoTree /\ s # "none"
    BY <2>1, Constants DEF Live
  <2> QED
    BY <1>1, <1>5, <1>6, <2>1, <2>2 DEF StatusOK
<1>11. StageOK'
  BY <1>1, <1>2 DEF StageOK
<1>12. Base' = Base /\ Base \in Nat /\ Base <= run'.accepted
  BY <1>1, <1>6, BaseIs DEF Base
<1>13. MemoryOK'
  <2>1. LedgerOK(task, run, Base, confirmed, spent.saves)
    BY DEF IInv, MemoryOK
  <2>2. \A u \in MarkedIn(task) :
          /\ task'[u].status \in {"integrating", "blocked", "cancelled"}
          /\ ~(task'[u].status = "cancelled" /\ task'[u].result = "failed")
    BY <1>2, Kept DEF MarkedIn
  <2>3. LedgerOK(task', run, Base, confirmed, spent.saves)
    BY <1>2, <2>1, <2>2, Facts, SameLedger
  <2>4. run.status \notin Gone
    BY <1>1, Kept
  <2>5. LedgerOK(task', run', Base, confirmed, spent.saves)
    BY <1>5, <1>6, <2>3, <2>4 DEF LedgerOK
  <2> QED
    BY <1>1, <1>12, <2>5 DEF MemoryOK
<1>14. DiskOK'
  BY <1>1, <1>3, <1>6, <1>12, <1>13, WrittenLedger
<1>15. TreesOK'
  <2>1. Firm' = Firm
    <3>1. KeptIn(task) \subseteq Task
      BY DEF KeptIn, DoneIn, MarkedIn
    <3> QED
      BY <1>2, <1>4, <3>1 DEF Firm
  <2>2. MarkedIn(task) \subseteq Task
    BY DEF MarkedIn
  <2> QED
    BY <1>1, <1>2, <1>4, <2>1, <2>2 DEF IInv, TreesOK
<1>16. DependsOK'
  <2> SUFFICES ASSUME spent.saves = 0, NEW u \in Task, u \in confirmed \/ pc'[u] # "idle"
               PROVE  DependsOn[u] \subseteq confirmed
    BY <1>1 DEF DependsOK
  <2>1. CASE u \in started
    <3>1. \A d \in DependsOn[u] : d \in Task /\ task[d].status = "done"
      BY <1>2, <2>1, Constants
    <3>2. DependsOn[u] \subseteq DoneIn(task)
      BY <3>1 DEF DoneIn
    <3> QED
      BY <3>2, Kept
  <2>2. CASE u \notin started
    BY <1>2, <2>2 DEF IInv, DependsOK
  <2> QED
    BY <2>1, <2>2
<1>17. FailedOK'
  <2> SUFFICES ASSUME NEW u \in Task, Exhausted(disk, u)
               PROVE  Exhausted([task |-> task', run |-> run'], u)
    BY <1>1 DEF FailedOK, Memory
  <2>1. Exhausted(Memory, u)
    BY <1>1 DEF IInv, FailedOK
  <2>2. task'[u] = task[u]
    BY <1>2, <2>1
  <2> QED
    BY <2>1, <2>2 DEF Exhausted, Memory
<1>18. StopStep
  <2>1. aborted => \A u \in Task : task'[u].attempts <= task[u].attempts
    BY <1>2, Here
  <2> QED
    BY <1>1, <1>4, <2>1 DEF StopStep
<1>19. ExhaustedStep
  BY <1>1 DEF ExhaustedStep
<1> QED
  BY <1>7, <1>8, <1>9, <1>10, <1>11, <1>13, <1>14, <1>15, <1>16, <1>17, <1>18, <1>19 DEF IInv

\* Every step of the run loop keeps the invariant and both action properties.
LEMMA LoopStepKeeps ==
    ASSUME IInv, LoopStep
    PROVE  IInv' /\ StopStep /\ ExhaustedStep
<1>1. \/ \E deviation \in BOOLEAN : MasterChecks(deviation)
      \/ Schedule \/ LoopFails \/ Drained
      \/ \E outcome \in {"passed", "failed", "blocked", "thrown"} : FinalChecks(outcome)
      \/ \E cleaned, ok \in BOOLEAN : CleanUp(cleaned, ok)
      \/ SetPointer \/ OperationEnds
  BY DEF LoopStep
<1> QED
  BY <1>1, MasterChecksKeeps, ScheduleKeeps, LoopFailsKeeps, DrainedKeeps, FinalChecksKeeps,
     CleanUpKeeps, SetPointerKeeps, OperationEndsKeeps

-----------------------------------------------------------------------------
(***************************************************************************)
(* The steps without an operation: maintenance, a crash and a resume.      *)
(***************************************************************************)

\* Without an operation no task is active and there is no section.
LEMMA AtRest ==
    ASSUME IInv, ~Operating
    PROVE  /\ loop \in Maintenance \cup {"off"} /\ Idle /\ section = NoSection
           /\ Base = run.accepted
<1>1. loop \in Maintenance \cup {"off"}
  BY DEF Operating
<1>2. Idle
  BY <1>1, RestingIdle DEF Resting
<1>3. section = NoSection
  BY <1>2 DEF IInv, SectionOK, Idle, Holding
<1> QED
  BY <1>1, <1>2, <1>3 DEF Base

\* Steps that begin and end without an operation, and leave no task active.
LEMMA RestFrame ==
    ASSUME IInv,
           task' \in [Task -> TaskRecord], run' \in RunRecord,
           disk' \in [task : [Task -> TaskRecord], run : RunRecord],
           verdict' \in [Task -> {"none", "failed", "blocked"}],
           pc' \in [Task -> Pcs], \A t \in Task : pc'[t] = "idle", section' = NoSection,
           loop' \in Maintenance \cup {"off"},
           rejected' \in BOOLEAN, aborted' \in BOOLEAN, pointer' \in BOOLEAN,
           confirmed' = confirmed,
           spent' \in [saves : Nat, faults : Nat, resumes : Nat],
           spent'.saves = 0 => spent.saves = 0,
           integration' \in (SUBSET Task) \cup {NoTree},
           loop' = "removingRun" => disk'.run.status \in PendingCleanup,
           loop' = "finalizing" => disk'.run.status = "abandoning",
           loop' = "clearing" => disk'.run.status \in {"abandoned", "cleanupPending"},
           loop' = "erasing" => disk'.run.status = "cleanupPending" /\ ~pointer',
           integration' = NoTree => disk'.run.status \in Gone \cup {"cleanupPending"},
           aborted' /\ run'.status = "none" => ~pointer',
           LedgerOK(task', run', run'.accepted, confirmed, spent'.saves),
           LedgerOK(disk'.task, disk'.run, disk'.run.accepted, confirmed, spent'.saves)
    PROVE  IInv'
<1>1. disk'.task \in [Task -> TaskRecord] /\ disk'.run \in RunRecord
  OBVIOUS
<1>2. section' \in [tree : (SUBSET Task) \cup {NoTree}, sequence : Nat]
  BY DEF NoSection
<1>3. TypeOK'
  BY <1>1, <1>2 DEF TypeOK
<1>4. ControlOK'
  <2>1. loop' \in Loops
    BY DEF Loops, Resting
  <2> QED
    BY <2>1, Facts DEF ControlOK
<1>5. SectionOK'
  BY DEF SectionOK, Holding
<1>6. ~Operating'
  BY DEF Operating
<1>7. StatusOK'
  BY <1>6 DEF StatusOK
<1>8. StageOK'
  BY DEF StageOK, StageAt, Attempting, Holding
<1>9. MemoryOK' /\ DiskOK'
  BY DEF MemoryOK, DiskOK, Base
<1>10. TreesOK' /\ FailedOK'
  BY <1>6 DEF TreesOK, FailedOK
<1>11. DependsOK'
  BY DEF IInv, DependsOK
<1> QED
  BY <1>3, <1>4, <1>5, <1>7, <1>8, <1>9, <1>10, <1>11 DEF IInv

\* A save outside an operation that fails leaves what was there.
LEMMA SpentOutside ==
    ASSUME IInv, SaveFailed \/ spent' = spent
    PROVE  /\ spent' \in [saves : Nat, faults : Nat, resumes : Nat]
           /\ spent'.saves = 0 => spent.saves = 0
<1>1. CASE spent' = spent
  BY <1>1, Facts
<1>2. CASE SaveFailed
  <2>1. Persists
    BY <1>2 DEF SaveFailed, Persists
  <2> QED
    BY <2>1, SpentMore
<1> QED
  BY <1>1, <1>2

\* Most steps at rest change the loop, and at most the disk, the status in memory,
\* the pointer and the branch.
LEMMA QuietRest ==
    ASSUME IInv, ~Operating,
           UNCHANGED <<task, pc, verdict, section, rejected, aborted, confirmed>>,
           run' = run \/ run' = NoLedger(run),
           disk' \in [task : [Task -> TaskRecord], run : RunRecord],
           loop' \in Maintenance \cup {"off"}, pointer' = pointer \/ pointer' = FALSE,
           SaveFailed \/ spent' = spent,
           integration' \in {integration, NoTree},
           loop' = "removingRun" => disk'.run.status \in PendingCleanup,
           loop' = "finalizing" => disk'.run.status = "abandoning",
           loop' = "clearing" => disk'.run.status \in {"abandoned", "cleanupPending"},
           loop' = "erasing" => disk'.run.status = "cleanupPending" /\ ~pointer',
           integration' = NoTree => disk'.run.status \in Gone \cup {"cleanupPending"},
           run'.status = "none" => run.status = "none" \/ ~pointer',
           LedgerOK(disk'.task, disk'.run, disk'.run.accepted, confirmed, spent.saves)
    PROVE  IInv'
<1>1. Idle /\ section = NoSection /\ Base = run.accepted
  BY AtRest
<1>2. /\ run' \in RunRecord /\ run'.tree = run.tree /\ run'.accepted = run.accepted
      /\ run'.status = run.status \/ run'.status = "none"
  BY Facts DEF NoLedger, RunRecord
<1>3. integration' \in (SUBSET Task) \cup {NoTree}
  BY DEF IInv, TypeOK
<1>4. aborted' /\ run'.status = "none" => ~pointer'
  BY <1>2 DEF IInv, StatusOK
<1>5. spent' \in [saves : Nat, faults : Nat, resumes : Nat] /\ (spent'.saves = 0 => spent.saves = 0)
  BY SpentOutside
<1>6. LedgerOK(task, run, run.accepted, confirmed, spent.saves)
  BY <1>1 DEF IInv, MemoryOK
<1>7. LedgerOK(task', run', run'.accepted, confirmed, spent'.saves)
  <2>1. LedgerOK(task, run', run.accepted, confirmed, spent'.saves)
    BY <1>2, <1>5, <1>6 DEF LedgerOK, Gone
  <2> QED
    BY <1>2, <2>1
<1>8. LedgerOK(disk'.task, disk'.run, disk'.run.accepted, confirmed, spent'.saves)
  BY <1>5 DEF LedgerOK
<1>9. rejected' \in BOOLEAN /\ aborted' \in BOOLEAN /\ pointer' \in BOOLEAN
  BY Facts
<1>10. /\ task' \in [Task -> TaskRecord] /\ verdict' \in [Task -> {"none", "failed", "blocked"}]
       /\ pc' \in [Task -> Pcs] /\ \A t \in Task : pc'[t] = "idle"
  BY <1>1, Facts DEF Idle
<1> QED
  BY <1>1, <1>2, <1>3, <1>4, <1>5, <1>7, <1>8, <1>9, <1>10, RestFrame

\* The action properties hold of every step at rest that leaves the records in
\* memory, and on disk does no more than change the run's status.
LEMMA RestPromises ==
    ASSUME IInv, aborted /\ aborted' => task' = task,
           disk.run.status \in Abandonment => disk'.run.status \in Abandonment,
           disk'.task = disk.task \/ disk'.run.status \in Abandonment
    PROVE  StopStep /\ ExhaustedStep
<1>1. \A t \in Task : task[t].attempts <= task[t].attempts
  BY Here
<1>2. StopStep
  BY <1>1 DEF StopStep
<1>3. ExhaustedStep
  BY DEF ExhaustedStep, Exhausted
<1> QED
  BY <1>2, <1>3

\* What the invariant says of the ledger on disk.
LEMMA DiskIs ==
    ASSUME IInv
    PROVE  /\ disk \in [task : [Task -> TaskRecord], run : RunRecord]
           /\ disk.task \in [Task -> TaskRecord] /\ disk.run \in RunRecord
           /\ LedgerOK(disk.task, disk.run, disk.run.accepted, confirmed, spent.saves)
BY Facts DEF IInv, DiskOK

\* The worktrees and the branch of a run are removed, whole or in part.
LEMMA RunRemovedKeeps ==
    ASSUME IInv, NEW whole \in BOOLEAN, RunRemoved(whole)
    PROVE  IInv' /\ StopStep /\ ExhaustedStep
<1>1. /\ loop = "removingRun" /\ ~Operating
      /\ UNCHANGED <<task, run, pc, verdict, section, rejected, aborted, disk, pointer, confirmed,
                     spent>>
      /\ integration' \in {integration, NoTree}
  BY DEF RunRemoved, Operating, Maintenance, ledgerVars, taskVars, flags
<1>2. disk.run.status \in PendingCleanup
  BY <1>1 DEF IInv, StatusOK
<1>3. /\ loop' \in {"off", "finalizing", "clearing", "erasing"}
      /\ loop' = "finalizing" => disk.run.status = "abandoning"
      /\ loop' = "clearing" => disk.run.status = "cleanupPending"
      /\ loop' = "erasing" => disk.run.status = "cleanupPending" /\ ~pointer
  <2>1. CASE ~whole
    BY <2>1 DEF RunRemoved
  <2>2. CASE whole /\ disk.run.status = "abandoning"
    BY <2>2 DEF RunRemoved
  <2>3. CASE whole /\ disk.run.status # "abandoning"
    BY <1>2, <2>3 DEF RunRemoved, PendingCleanup
  <2> QED
    BY <2>1, <2>2, <2>3
<1>4. IInv'
  <2>1. loop' \in Maintenance \cup {"off"} /\ loop' # "removingRun"
    BY <1>3 DEF Maintenance
  <2>2. disk.run.status \in Gone \cup {"cleanupPending"}
    BY <1>2 DEF Gone, PendingCleanup
  <2>3. aborted' /\ run'.status = "none" => ~pointer'
    BY <1>1 DEF IInv, StatusOK
  <2>4. LedgerOK(task, run, run.accepted, confirmed, spent.saves)
    BY <1>1, AtRest DEF IInv, MemoryOK
  <2>5. integration' \in (SUBSET Task) \cup {NoTree}
    BY <1>1 DEF IInv, TypeOK
  <2>6. section = NoSection /\ \A t \in Task : pc[t] = "idle"
    BY <1>1, AtRest DEF Idle
  <2> QED
    BY <1>1, <1>3, <2>1, <2>2, <2>3, <2>4, <2>5, <2>6, Facts, DiskIs, RestFrame
<1>5. StopStep /\ ExhaustedStep
  BY <1>1, RestPromises
<1> QED
  BY <1>4, <1>5

\* An abandonment is recorded.
LEMMA FinalizeKeeps ==
    ASSUME IInv, NEW ok \in BOOLEAN, Finalize(ok)
    PROVE  IInv' /\ StopStep /\ ExhaustedStep
<1> DEFINE T == [t \in Task |-> AbandonedTask(disk.task[t])]
<1> DEFINE r == [disk.run EXCEPT !.status = "abandoned"]
<1>1. /\ loop = "finalizing" /\ ~Operating
      /\ UNCHANGED <<task, run, pc, verdict, section, rejected, aborted, pointer, integration,
                     confirmed>>
  BY DEF Finalize, Operating, Maintenance, ledgerVars, taskVars, flags
<1>2. disk.run.status = "abandoning"
  BY <1>1 DEF IInv, StatusOK
<1>3. \A t \in Task : /\ AbandonedTask(disk.task[t]) \in TaskRecord
                      /\ AbandonedTask(disk.task[t]).marker = NoTree
                      /\ AbandonedTask(disk.task[t]).status = "done"
                           <=> disk.task[t].status = "done"
  <2> TAKE t \in Task
  <2>1. disk.task[t] \in TaskRecord
    BY Facts
  <2>2. CASE disk.task[t].status = "done"
    BY <2>1, <2>2 DEF AbandonedTask, TaskRecord
  <2>3. CASE disk.task[t].status # "done"
    <3>1. AbandonedTask(disk.task[t]) =
            [disk.task[t] EXCEPT !.worktree = FALSE, !.marker = NoTree, !.sequence = 0,
                                 !.status = "cancelled"]
      BY <2>1, <2>3 DEF AbandonedTask, TaskRecord
    <3>2. NoTree \in (SUBSET Task) \cup {NoTree}
      OBVIOUS
    <3>3. [disk.task[t] EXCEPT !.worktree = FALSE, !.marker = NoTree, !.sequence = 0,
                               !.status = "cancelled"] \in TaskRecord
      BY <2>1, <3>2 DEF TaskRecord
    <3>4. AbandonedTask(disk.task[t]).marker = NoTree
          /\ AbandonedTask(disk.task[t]).status = "cancelled"
      BY <2>1, <3>1 DEF TaskRecord
    <3> QED
      BY <2>3, <3>1, <3>3, <3>4
  <2> QED
    BY <2>2, <2>3
<1>4. CASE ok
  <2>1. disk' = [task |-> T, run |-> r] /\ spent' = spent /\ loop' = "clearing"
    BY <1>4 DEF Finalize
  <2>2. /\ T \in [Task -> TaskRecord] /\ MarkedIn(T) = {} /\ DoneIn(T) = DoneIn(disk.task)
    BY <1>3 DEF MarkedIn, DoneIn
  <2>3. r \in RunRecord /\ r.status = "abandoned" /\ r.tree = disk.run.tree
    BY Facts DEF RunRecord
  <2> HIDE DEF T, r
  <2>4. LedgerOK(T, r, r.accepted, confirmed, spent.saves)
    <3>1. /\ confirmed \subseteq DoneIn(disk.task) /\ confirmed \subseteq disk.run.tree
          /\ spent.saves = 0 => DoneIn(disk.task) \subseteq confirmed
      BY DiskIs DEF LedgerOK
    <3> QED
      BY <2>2, <2>3, <3>1 DEF LedgerOK, Gone
  <2>5. disk' \in [task : [Task -> TaskRecord], run : RunRecord]
        /\ disk'.task = T /\ disk'.run = r
    BY <2>1, <2>2, <2>3
  <2>6. run'.status = "none" => run.status = "none" \/ ~pointer'
    BY <1>1
  <2>7. loop' \in Maintenance \cup {"off"} /\ "abandoned" \in Gone /\ "abandoned" \in Abandonment
    BY <2>1 DEF Maintenance, Gone, Abandonment
  <2>8. IInv'
    BY <1>1, <2>1, <2>3, <2>4, <2>5, <2>6, <2>7, QuietRest
  <2>9. StopStep /\ ExhaustedStep
    BY <1>1, <2>3, <2>5, <2>7, RestPromises
  <2> QED
    BY <2>8, <2>9
<1>5. CASE ~ok
  <2>1. disk' = disk /\ SaveFailed /\ loop' = "off"
    BY <1>5 DEF Finalize, SaveFailed
  <2>2. loop' \in Maintenance \cup {"off"} /\ disk.run.status \in Gone
    BY <1>2, <2>1 DEF Gone
  <2>3. IInv'
    BY <1>1, <2>1, <2>2, DiskIs, QuietRest
  <2>4. StopStep /\ ExhaustedStep
    BY <1>1, <2>1, RestPromises
  <2> QED
    BY <2>3, <2>4
<1> QED
  BY <1>4, <1>5

\* The pointer to the run is cleared.
LEMMA ClearPointerKeeps ==
    ASSUME IInv, NEW ok \in BOOLEAN, ClearPointer(ok)
    PROVE  IInv' /\ StopStep /\ ExhaustedStep
<1>1. /\ loop = "clearing" /\ ~Operating
      /\ UNCHANGED <<task, pc, verdict, section, rejected, aborted, integration, confirmed>>
  BY DEF ClearPointer, Operating, Maintenance, taskVars, flags
<1>2. /\ disk' = disk /\ (SaveFailed \/ spent' = spent)
      /\ loop' \in {"off", "erasing"}
      /\ loop' = "erasing" => disk.run.status = "cleanupPending" /\ pointer' = FALSE
      /\ run' = run \/ (run' = NoLedger(run) /\ pointer' = FALSE)
      /\ pointer' = pointer \/ pointer' = FALSE
  BY DEF ClearPointer, SaveFailed
<1>3. integration' = NoTree => disk.run.status \in Gone \cup {"cleanupPending"}
  BY <1>1 DEF IInv, StatusOK
<1>4. run'.status = "none" => run.status = "none" \/ ~pointer'
  BY <1>2
<1>5. loop' \in Maintenance \cup {"off"} /\ loop' \notin {"removingRun", "finalizing", "clearing"}
  BY <1>2 DEF Maintenance
<1>6. IInv'
  BY <1>1, <1>2, <1>3, <1>4, <1>5, DiskIs, QuietRest
<1>7. StopStep /\ ExhaustedStep
  BY <1>1, <1>2, RestPromises
<1> QED
  BY <1>6, <1>7

\* The record of a completed run is erased.
LEMMA EraseKeeps ==
    ASSUME IInv, NEW ok \in BOOLEAN, Erase(ok)
    PROVE  IInv' /\ StopStep /\ ExhaustedStep
<1>1. /\ loop = "erasing" /\ ~Operating
      /\ UNCHANGED <<task, pc, verdict, section, rejected, aborted, pointer, integration, confirmed>>
      /\ loop' = "off"
  BY DEF Erase, Operating, Maintenance, taskVars, flags
<1>2. disk.run.status = "cleanupPending" /\ ~pointer
  BY <1>1 DEF IInv, StatusOK
<1>3. CASE ok
  <2> DEFINE d == [disk EXCEPT !.run = NoLedger(@)]
  <2>1. disk' = d /\ run' = NoLedger(run) /\ spent' = spent
    BY <1>3 DEF Erase
  <2>2. NoLedger(disk.run) \in RunRecord /\ NoLedger(disk.run).status = "none"
        /\ NoLedger(disk.run).tree = disk.run.tree
        /\ NoLedger(disk.run).accepted = disk.run.accepted
    BY Facts DEF NoLedger, RunRecord
  <2>3. d \in [task : [Task -> TaskRecord], run : RunRecord]
        /\ d.task = disk.task /\ d.run = NoLedger(disk.run)
    <3>1. disk \in [task : [Task -> TaskRecord], run : RunRecord]
      BY Facts
    <3> QED
      BY <2>2, <3>1
  <2> HIDE DEF d
  <2>4. LedgerOK(d.task, d.run, d.run.accepted, confirmed, spent.saves)
    <3>1. LedgerOK(disk.task, disk.run, disk.run.accepted, confirmed, spent.saves)
      BY DiskIs
    <3>2. LedgerOK(disk.task, NoLedger(disk.run), disk.run.accepted, confirmed, spent.saves)
      BY <2>2, <3>1 DEF LedgerOK, Gone
    <3> QED
      BY <2>2, <2>3, <3>2
  <2>5. loop' \in Maintenance \cup {"off"} /\ "none" \in Gone
    BY <1>1 DEF Gone
  <2>6. IInv'
    BY <1>1, <1>2, <2>1, <2>2, <2>3, <2>4, <2>5, QuietRest
  <2>7. disk.run.status \notin Abandonment
    BY <1>2 DEF Abandonment
  <2>8. StopStep /\ ExhaustedStep
    BY <1>1, <2>1, <2>3, <2>7, RestPromises
  <2> QED
    BY <2>6, <2>8
<1>4. CASE ~ok
  <2>1. disk' = disk /\ SaveFailed /\ run' = run
    BY <1>4 DEF Erase, SaveFailed
  <2>2. loop' \in Maintenance \cup {"off"}
    BY <1>1
  <2>3. IInv'
    BY <1>1, <1>2, <2>1, <2>2, DiskIs, QuietRest
  <2>4. StopStep /\ ExhaustedStep
    BY <1>1, <2>1, RestPromises
  <2> QED
    BY <2>3, <2>4
<1> QED
  BY <1>3, <1>4

\* Every step of an abandonment or a clean-up keeps them too.
LEMMA MaintenanceStepKeeps ==
    ASSUME IInv, MaintenanceStep
    PROVE  IInv' /\ StopStep /\ ExhaustedStep
BY RunRemovedKeeps, FinalizeKeeps, ClearPointerKeeps, EraseKeeps DEF MaintenanceStep

\* The clean-up of a retained run begins, whatever the disk says of the run.
LEMMA CleanUpRetainedKeeps ==
    ASSUME IInv, RetainedOK, NEW ok \in BOOLEAN, CleanUpRetained(ok)
    PROVE  IInv' /\ StopStep /\ ExhaustedStep
<1>1. /\ loop = "off" /\ ~Operating
      /\ UNCHANGED <<task, run, pc, verdict, section, rejected, aborted, pointer, integration,
                     confirmed>>
      /\ retained /\ DoneIn(disk.task) = Task
  BY DEF CleanUpRetained, RetainedOK, Operating, ledgerVars, taskVars, flags
<1>2. integration' = NoTree => disk.run.status \in Gone \cup {"cleanupPending"}
  BY <1>1 DEF IInv, StatusOK
<1>3. CASE ok
  <2> DEFINE d == [disk EXCEPT !.run.status = "cleanupPending"]
  <2>1. disk' = d /\ spent' = spent /\ loop' = "removingRun"
    BY <1>3 DEF CleanUpRetained
  <2>2. d \in [task : [Task -> TaskRecord], run : RunRecord]
        /\ d.task = disk.task /\ d.run.status = "cleanupPending"
        /\ d.run.tree = disk.run.tree /\ d.run.accepted = disk.run.accepted
    <3>1. disk \in [task : [Task -> TaskRecord], run : RunRecord]
      BY Facts
    <3>2. [disk.run EXCEPT !.status = "cleanupPending"] \in RunRecord
      BY Facts DEF RunRecord
    <3>3. d = [disk EXCEPT !.run = [disk.run EXCEPT !.status = "cleanupPending"]]
      BY <3>1
    <3> QED
      BY <3>1, <3>2, <3>3, Facts DEF RunRecord
  <2> HIDE DEF d
  <2>3. LedgerOK(d.task, d.run, d.run.accepted, confirmed, spent.saves)
    <3>1. LedgerOK(disk.task, disk.run, disk.run.accepted, confirmed, spent.saves)
          /\ disk.task \in [Task -> TaskRecord] /\ disk.run \in RunRecord
      BY DiskIs
    <3>2. disk.run.tree \subseteq Task /\ KeptIn(disk.task) = Task
      <4>1. MarkedIn(disk.task) \subseteq Task
        BY DEF MarkedIn
      <4> QED
        BY <1>1, <3>1, <4>1 DEF RunRecord, KeptIn
    <3>3. \A u \in MarkedIn(disk.task) : disk.task[u].marker \subseteq Task
      BY <3>1 DEF MarkedIn, TaskRecord
    <3>4. LedgerOK(disk.task, d.run, disk.run.accepted, confirmed, spent.saves)
      BY <2>2, <3>1, <3>2, <3>3 DEF LedgerOK
    <3> QED
      BY <2>2, <3>4
  <2>4. loop' \in Maintenance \cup {"off"} /\ "cleanupPending" \in PendingCleanup
    BY <2>1 DEF Maintenance, PendingCleanup
  <2>5. IInv'
    BY <1>1, <2>1, <2>2, <2>3, <2>4, QuietRest
  <2>6. StopStep
    <3>1. \A t \in Task : task[t].attempts <= task[t].attempts
      BY Here
    <3> QED
      BY <1>1, <2>1, <2>2, <3>1 DEF StopStep
  <2>7. ExhaustedStep
    BY <2>1, <2>2 DEF ExhaustedStep, Exhausted
  <2> QED
    BY <2>5, <2>6, <2>7
<1>4. CASE ~ok
  <2>1. disk' = disk /\ SaveFailed /\ loop' = "off"
    BY <1>4 DEF CleanUpRetained, SaveFailed
  <2>2. loop' \in Maintenance \cup {"off"}
    BY <2>1
  <2>3. IInv'
    BY <1>1, <1>2, <2>1, <2>2, DiskIs, QuietRest
  <2>4. StopStep /\ ExhaustedStep
    BY <1>1, <2>1, RestPromises
  <2> QED
    BY <2>3, <2>4
<1> QED
  BY <1>3, <1>4

\* A completed run is forgotten.
LEMMA ForgetCompletedKeeps ==
    ASSUME IInv, ForgetCompleted
    PROVE  IInv' /\ StopStep /\ ExhaustedStep
<1>1. /\ loop = "off" /\ loop' = loop /\ ~Operating /\ pointer' = FALSE
      /\ UNCHANGED <<task, run, pc, verdict, section, rejected, aborted, disk, integration,
                     confirmed, spent>>
  BY DEF ForgetCompleted, Operating, ledgerVars, taskVars, flags
<1>2. integration' = NoTree => disk.run.status \in Gone \cup {"cleanupPending"}
  BY <1>1 DEF IInv, StatusOK
<1>3. IInv'
  BY <1>1, <1>2, DiskIs, QuietRest
<1>4. StopStep /\ ExhaustedStep
  BY <1>1, RestPromises
<1> QED
  BY <1>3, <1>4

\* An abandonment begins.
LEMMA AbandonKeeps ==
    ASSUME IInv, NEW ok \in BOOLEAN, Abandon(ok)
    PROVE  IInv' /\ StopStep /\ ExhaustedStep
<1>1. /\ loop = "off" /\ ~Operating
      /\ UNCHANGED <<pc, verdict, section, rejected, aborted, pointer, integration, confirmed>>
      /\ run.status # "none" \/ pointer
  BY DEF Abandon, Operating, taskVars, flags
<1>2. Idle /\ section = NoSection /\ Base = run.accepted
  BY <1>1, AtRest
<1>3. CASE ok
  <2> DEFINE current == IF run.status # "none" THEN Memory ELSE disk
  <2> DEFINE r == [current.run EXCEPT !.status = "abandoning"]
  <2>1. current.task \in [Task -> TaskRecord] /\ current.run \in RunRecord
        /\ current \in [task : [Task -> TaskRecord], run : RunRecord]
    BY Facts DEF Memory
  <2>2. LedgerOK(current.task, current.run, current.run.accepted, confirmed, spent.saves)
    <3>1. LedgerOK(task, run, run.accepted, confirmed, spent.saves)
      BY <1>2 DEF IInv, MemoryOK
    <3> QED
      BY <3>1, DiskIs DEF Memory
  <2>3. /\ task' = [current EXCEPT !.run.status = "abandoning"].task
        /\ run' = [current EXCEPT !.run.status = "abandoning"].run
        /\ Stored /\ loop' = "removingRun"
    BY <1>3 DEF Abandon, Memory
  <2>4. current.task = task \/ (run.status = "none" /\ pointer)
    BY <1>1 DEF Memory
  <2> HIDE DEF current
  <2>5. task' = current.task /\ run' = r
    BY <2>1, <2>3
  <2>6. r \in RunRecord /\ r.status = "abandoning" /\ r.tree = current.run.tree
        /\ r.accepted = current.run.accepted
    BY <2>1 DEF RunRecord
  <2> HIDE DEF r
  <2>7. disk' = [task |-> task', run |-> run'] /\ spent' = spent
    BY <2>3 DEF Stored
  <2>8. LedgerOK(task', run', run'.accepted, confirmed, spent'.saves)
    BY <2>2, <2>5, <2>6, <2>7 DEF LedgerOK, Gone
  <2>9. /\ task' \in [Task -> TaskRecord] /\ run' \in RunRecord
        /\ disk' \in [task : [Task -> TaskRecord], run : RunRecord]
        /\ disk'.task = task' /\ disk'.run = run' /\ run'.status = "abandoning"
    BY <2>1, <2>5, <2>6, <2>7
  <2>10. /\ loop' \in Maintenance \cup {"off"} /\ "abandoning" \in PendingCleanup
         /\ "abandoning" \in Gone /\ "abandoning" \in Abandonment
    BY <2>3 DEF Maintenance, PendingCleanup, Gone, Abandonment
  <2>11. integration' \in (SUBSET Task) \cup {NoTree}
    BY <1>1 DEF IInv, TypeOK
  <2>12. \A t \in Task : pc'[t] = "idle"
    BY <1>1, <1>2 DEF Idle
  <2>13. IInv'
    BY <1>1, <1>2, <2>3, <2>7, <2>8, <2>9, <2>10, <2>11, <2>12, Facts, RestFrame
  <2>14. aborted => task' = task
    <3>1. aborted /\ run.status = "none" => ~pointer
      BY DEF IInv, StatusOK
    <3> QED
      BY <2>4, <2>5, <3>1
  <2>15. StopStep /\ ExhaustedStep
    BY <2>9, <2>10, <2>14, RestPromises
  <2> QED
    BY <2>13, <2>15
<1>4. CASE ~ok
  <2>1. disk' = disk /\ SaveFailed /\ loop' = "off" /\ UNCHANGED <<task, run>>
    BY <1>4 DEF Abandon, SaveFailed, ledgerVars
  <2>2. loop' \in Maintenance \cup {"off"}
    BY <2>1
  <2>3. integration' = NoTree => disk.run.status \in Gone \cup {"cleanupPending"}
    BY <1>1 DEF IInv, StatusOK
  <2>4. IInv'
    BY <1>1, <2>1, <2>2, <2>3, DiskIs, QuietRest
  <2>5. StopStep /\ ExhaustedStep
    BY <1>1, <2>1, RestPromises
  <2> QED
    BY <2>4, <2>5
<1> QED
  BY <1>3, <1>4

\* After a crash the controller has no ledger in memory, and no operation.
LEMMA CrashKeeps ==
    ASSUME IInv, Crash
    PROVE  IInv' /\ StopStep /\ ExhaustedStep
<1>1. /\ task' = disk.task /\ run' = NoLedger(disk.run)
      /\ pc' = [t \in Task |-> "idle"] /\ verdict' = [t \in Task |-> "none"]
      /\ section' = NoSection /\ rejected' = FALSE /\ aborted' = FALSE
      /\ UNCHANGED <<disk, pointer, integration, confirmed>>
      /\ spent' = [spent EXCEPT !.faults = @ + 1]
      /\ loop' = IF disk.run.status \in PendingCleanup THEN "removingRun" ELSE "off"
  BY DEF Crash
<1>2. /\ run' \in RunRecord /\ run'.status = "none" /\ run'.tree = disk.run.tree
      /\ run'.accepted = disk.run.accepted
  BY <1>1, Facts DEF NoLedger, RunRecord
<1>3. spent' \in [saves : Nat, faults : Nat, resumes : Nat] /\ spent'.saves = spent.saves
  <2>1. spent \in [saves : Nat, faults : Nat, resumes : Nat]
    BY Facts
  <2>2. spent.faults + 1 \in Nat
    BY <2>1
  <2> QED
    BY <1>1, <2>1, <2>2
<1>4. LedgerOK(task', run', run'.accepted, confirmed, spent'.saves)
  <2>1. LedgerOK(disk.task, disk.run, disk.run.accepted, confirmed, spent.saves)
    BY DiskIs
  <2>2. LedgerOK(disk.task, run', disk.run.accepted, confirmed, spent.saves)
    BY <1>2, <2>1 DEF LedgerOK, Gone
  <2> QED
    BY <1>1, <1>2, <1>3, <2>2
<1>5. LedgerOK(disk'.task, disk'.run, disk'.run.accepted, confirmed, spent'.saves)
  BY <1>1, <1>3, DiskIs
<1>6. integration' = NoTree => disk'.run.status \in Gone \cup {"cleanupPending"}
  BY <1>1 DEF IInv, StatusOK
<1>7. integration' \in (SUBSET Task) \cup {NoTree} /\ pointer' \in BOOLEAN
  BY <1>1 DEF IInv, TypeOK, ControlOK
<1>8. /\ loop' \in Maintenance \cup {"off"}
      /\ loop' \notin {"finalizing", "clearing", "erasing"}
      /\ loop' = "removingRun" => disk'.run.status \in PendingCleanup
  BY <1>1 DEF Maintenance
<1>9. /\ pc' \in [Task -> Pcs] /\ \A t \in Task : pc'[t] = "idle"
      /\ verdict' \in [Task -> {"none", "failed", "blocked"}]
  BY <1>1, PlacesArePcs
<1>10. task' \in [Task -> TaskRecord] /\ disk' \in [task : [Task -> TaskRecord], run : RunRecord]
  BY <1>1, Facts
<1>11. IInv'
  BY <1>1, <1>2, <1>3, <1>4, <1>5, <1>6, <1>7, <1>8, <1>9, <1>10, RestFrame
<1>12. StopStep /\ ExhaustedStep
  BY <1>1, RestPromises
<1> QED
  BY <1>11, <1>12

\* A task after a resume: done if it was or if its work is restored; failed again
\* if it was out of retries; without a marker in any case.
LEMMA ResumedIs ==
    ASSUME IInv, NEW t \in Task
    PROVE  LET r == ResumedTask(t, disk.task[t])
           IN /\ r \in TaskRecord /\ r.marker = NoTree
              /\ r.status = "done" <=> disk.task[t].status = "done" \/ t \in Restored(disk)
              /\ Exhausted(disk, t) /\ t \notin Restored(disk) =>
                   /\ r.status = "failed" /\ r.attempts > Retries[t] /\ ~r.worktree
<1> DEFINE kept == disk.task[t]
<1> DEFINE r == [kept EXCEPT !.marker = NoTree, !.sequence = 0]
<1> DEFINE fresh == [r EXCEPT !.worktree = FALSE, !.impl = FALSE]
<1> DEFINE new == ResumedTask(t, kept)
<1>1. kept \in TaskRecord /\ Retries[t] \in Nat
  BY Facts, Constants
<1>2. NoTree \in (SUBSET Task) \cup {NoTree}
  OBVIOUS
<1>3. /\ r \in TaskRecord /\ r.marker = NoTree /\ r.status = kept.status
      /\ r.attempts = kept.attempts /\ r.result = kept.result /\ r.impl = kept.impl
      /\ r.worktree = kept.worktree
  BY <1>1, <1>2 DEF TaskRecord
<1> HIDE DEF r
<1>4. /\ fresh \in TaskRecord /\ fresh.marker = NoTree /\ fresh.status = kept.status
      /\ fresh.attempts = kept.attempts /\ fresh.result = kept.result /\ ~fresh.impl
      /\ ~fresh.worktree
  BY <1>3 DEF TaskRecord
<1>5. CASE kept.status = "done" \/ t \in Restored(disk)
  <2>1. new = [fresh EXCEPT !.status = "done", !.result = "done"]
    BY <1>3, <1>5 DEF ResumedTask, r
  <2> HIDE DEF new, fresh
  <2>2. new \in TaskRecord /\ new.marker = NoTree /\ new.status = "done"
    BY <1>4, <2>1 DEF TaskRecord
  <2>3. Exhausted(disk, t) => kept.status # "done"
    BY DEF Exhausted
  <2> QED
    BY <1>5, <2>2, <2>3 DEF new
<1>6. CASE /\ kept.status # "done" /\ t \notin Restored(disk)
           /\ kept.worktree /\ kept.impl
  <2>1. new = [r EXCEPT !.status = "pending", !.result = "none"]
    BY <1>3, <1>6 DEF ResumedTask, r
  <2> HIDE DEF new, fresh
  <2>2. new \in TaskRecord /\ new.marker = NoTree /\ new.status = "pending"
    BY <1>3, <2>1 DEF TaskRecord
  <2>3. ~Exhausted(disk, t)
    BY <1>6 DEF Exhausted
  <2> QED
    BY <1>6, <2>2, <2>3 DEF new
<1>7. CASE /\ kept.status # "done" /\ t \notin Restored(disk)
           /\ ~(kept.worktree /\ kept.impl)
  <2>1. new = ResetIncomplete(t, fresh)
    BY <1>3, <1>7 DEF ResumedTask, r
  <2> HIDE DEF new, fresh
  <2> DEFINE a == IF WasInterrupted(fresh) /\ ~fresh.impl /\ fresh.attempts > 0
                  THEN fresh.attempts - 1 ELSE fresh.attempts
  <2>2. a \in Nat
    BY <1>4 DEF TaskRecord
  <2>3. ~WasInterrupted(fresh) => a = fresh.attempts
    OBVIOUS
  <2>4. new = IF "failed" \in {fresh.status, fresh.result} /\ a > Retries[t]
              THEN [fresh EXCEPT !.status = "failed", !.attempts = a]
              ELSE [fresh EXCEPT !.status = "pending", !.attempts = a, !.result = "none"]
    BY <2>1 DEF ResetIncomplete
  <2> HIDE DEF a
  <2>5. new \in TaskRecord /\ new.marker = NoTree /\ new.status \in {"failed", "pending"}
        /\ ~new.worktree
    BY <1>4, <2>2, <2>4 DEF TaskRecord
  <2>6. Exhausted(disk, t) => new.status = "failed" /\ new.attempts > Retries[t]
    <3> SUFFICES ASSUME Exhausted(disk, t)
                 PROVE  new.status = "failed" /\ new.attempts > Retries[t]
      OBVIOUS
    <3>1. /\ kept.status = "failed" \/ (kept.status = "cancelled" /\ kept.result = "failed")
          /\ kept.attempts > Retries[t]
      BY DEF Exhausted
    <3>2. ~WasInterrupted(fresh)
      BY <1>4, <3>1 DEF WasInterrupted, ActiveStatus
    <3>3. a > Retries[t] /\ "failed" \in {fresh.status, fresh.result}
      BY <1>4, <2>3, <3>1, <3>2
    <3>4. new = [fresh EXCEPT !.status = "failed", !.attempts = a]
      BY <2>4, <3>3
    <3> QED
      BY <1>4, <3>3, <3>4 DEF TaskRecord
  <2> QED
    BY <1>7, <2>5, <2>6 DEF new
<1> QED
  BY <1>5, <1>6, <1>7

\* A resume restores the branch, and the tasks of the ledger on disk.
LEMMA ResumeKeeps ==
    ASSUME IInv, Resume
    PROVE  IInv' /\ StopStep /\ ExhaustedStep
<1>1. /\ loop = "off" /\ Resumable(disk)
      /\ task' = [t \in Task |-> ResumedTask(t, disk.task[t])]
      /\ run' = [disk.run EXCEPT !.status = "running", !.tree = Restored(disk)]
      /\ integration' = Restored(disk)
      /\ disk' = [task |-> task', run |-> run']
      /\ loop' = "scheduling" /\ aborted' = FALSE /\ rejected' = FALSE
      /\ UNCHANGED <<pc, verdict, section, pointer, confirmed>>
      /\ spent' = [spent EXCEPT !.resumes = @ + 1]
  BY DEF Resume, taskVars
<1>2. Idle /\ section = NoSection
  <2>1. ~Operating
    BY <1>1 DEF Operating
  <2> QED
    BY <2>1, AtRest
<1>3. LedgerOK(disk.task, disk.run, disk.run.accepted, confirmed, spent.saves)
      /\ disk.task \in [Task -> TaskRecord] /\ disk.run \in RunRecord
  BY DiskIs
<1>4. confirmed \subseteq Restored(disk) /\ Restored(disk) \subseteq DoneIn(disk.task)
  BY <1>1, <1>3, RestoresConfirmed
<1>5. \A t \in Task :
        /\ task'[t] \in TaskRecord /\ task'[t].marker = NoTree
        /\ task'[t].status = "done" <=> disk.task[t].status = "done" \/ t \in Restored(disk)
        /\ Exhausted(disk, t) /\ t \notin Restored(disk) =>
             /\ task'[t].status = "failed" /\ task'[t].attempts > Retries[t]
             /\ ~task'[t].worktree
  <2> TAKE t \in Task
  <2>1. task'[t] = ResumedTask(t, disk.task[t])
    BY <1>1
  <2> QED
    BY <2>1, ResumedIs
<1>6. /\ task' \in [Task -> TaskRecord]
      /\ MarkedIn(task') = {} /\ DoneIn(task') = DoneIn(disk.task)
  <2>1. task' \in [Task -> TaskRecord]
    BY <1>1, <1>5
  <2>2. MarkedIn(task') = {}
    BY <1>5 DEF MarkedIn
  <2>3. DoneIn(task') = DoneIn(disk.task)
    BY <1>4, <1>5 DEF DoneIn
  <2> QED
    BY <2>1, <2>2, <2>3
<1>7. Restored(disk) \in SUBSET Task
  BY <1>4 DEF DoneIn
<1>8. /\ run' \in RunRecord /\ run'.status = "running" /\ run'.tree = Restored(disk)
      /\ run'.accepted = disk.run.accepted
  BY <1>1, <1>3, <1>7 DEF RunRecord
<1>9. spent' \in [saves : Nat, faults : Nat, resumes : Nat] /\ spent'.saves = spent.saves
  <2>1. spent \in [saves : Nat, faults : Nat, resumes : Nat]
    BY Facts
  <2>2. spent.resumes + 1 \in Nat
    BY <2>1
  <2> QED
    BY <1>1, <2>1, <2>2
<1>10. disk' \in [task : [Task -> TaskRecord], run : RunRecord]
       /\ disk'.task = task' /\ disk'.run = run'
  BY <1>1, <1>6, <1>8
<1>11. TypeOK'
  BY <1>1, <1>6, <1>7, <1>8, <1>10, Facts DEF TypeOK
<1>12. ControlOK'
  <2>1. loop' \in Loops /\ loop' \notin Resting
    BY <1>1 DEF Loops, Resting, Maintenance
  <2> QED
    BY <1>1, <1>9, <1>10, <2>1, Facts DEF ControlOK
<1>13. SectionOK'
  BY <1>1, <1>2, PlacesArePcs DEF SectionOK, Idle
<1>14. StatusOK'
  <2>1. Restored(disk) # NoTree
    BY <1>7, Constants
  <2>2. "running" \in Live
    BY DEF Live
  <2> QED
    BY <1>1, <1>7, <1>8, <1>10, <2>1, <2>2 DEF StatusOK
<1>15. StageOK'
  BY <1>1, <1>2 DEF StageOK, StageAt, Attempting, Holding, Idle
<1>16. LedgerOK(task', run', run'.accepted, confirmed, spent.saves)
  <2>1. confirmed \subseteq DoneIn(disk.task)
        /\ (spent.saves = 0 => DoneIn(disk.task) \subseteq confirmed)
    BY <1>3 DEF LedgerOK
  <2> QED
    BY <1>4, <1>6, <1>8, <2>1 DEF LedgerOK, KeptIn
<1>17. MemoryOK' /\ DiskOK'
  <2>1. Base' = run'.accepted
    BY <1>1, <1>2 DEF Base
  <2> QED
    BY <1>1, <1>9, <1>10, <1>16, <2>1 DEF MemoryOK, DiskOK
<1>18. TreesOK'
  BY <1>1, <1>2, <1>4, <1>6 DEF TreesOK, KeptIn
<1>19. DependsOK'
  BY <1>1, <1>9 DEF IInv, DependsOK
<1>20. FailedOK'
  BY <1>1 DEF FailedOK, Memory
<1>21. StopStep
  BY <1>1 DEF StopStep, Resumable, Abandonment
<1>22. ExhaustedStep
  <2> SUFFICES ASSUME NEW t \in Task, Exhausted(disk, t) PROVE Exhausted(disk', t)
    BY DEF ExhaustedStep
  <2>1. t \notin Restored(disk)
    BY <1>4 DEF DoneIn, Exhausted
  <2> QED
    BY <1>5, <1>10, <2>1 DEF Exhausted
<1> QED
  BY <1>11, <1>12, <1>13, <1>14, <1>15, <1>17, <1>18, <1>19, <1>20, <1>21, <1>22 DEF IInv

-----------------------------------------------------------------------------
(***************************************************************************)
(* The retained ledgers.                                                   *)
(***************************************************************************)

\* A save keeps the ledger of a completed run, and drops any other one.
Retains ==
    \/ UNCHANGED <<disk, retained>>
    \/ disk' = [task |-> task', run |-> run'] /\ retained' = (run'.status \in Retainable)

LEMMA SaveRetains ==
    ASSUME \/ \E ok : Save(ok)
           \/ UNCHANGED <<disk, retained>>
    PROVE  Retains
BY DEF Save, Saved, Stored, SaveFailed, Retains

\* While a task is active, nothing is retained and no step retains anything.
LEMMA TaskRetains ==
    ASSUME IInv, RetainedOK, NEW t \in Task, TaskStep(t)
    PROVE  RetainedOK'
<1>1. run \in RunRecord
  BY Facts
<1>2. pc[t] # "idle" /\ run'.status = run.status /\ Retains
      /\ (loop' = loop \/ loop' = "scheduling")
  <2>1. CASE WorktreeRemoved(t)
    BY <2>1, SaveRetains DEF WorktreeRemoved, Thrown, Report, Goto, outside
  <2>2. CASE RemovalFails(t)
    BY <2>2, SaveRetains DEF RemovalFails, Settle, ledgerVars, outside
  <2>3. CASE Prepared(t)
    BY <2>3, SaveRetains DEF Prepared, Thrown, Report, Goto
  <2>4. CASE Implemented(t) \/ ChecksBlocked(t) \/ AttemptThrows(t)
    BY <2>4, SaveRetains
       DEF Implemented, ChecksBlocked, AttemptThrows, Thrown, Report, Goto, ledgerVars, outside
  <2>5. CASE Validated(t) \/ ChecksPassed(t)
    BY <2>5, SaveRetains DEF Validated, ChecksPassed, Thrown, Report, Goto
  <2>6. CASE AttemptFails(t)
    BY <2>6, SaveRetains DEF AttemptFails, Report, outside
  <2>7. CASE Integrated(t)
    BY <1>1, <2>7, SaveRetains DEF Integrated, Goto, RunRecord
  <2>8. CASE IntegrationFails(t)
    BY <1>1, <2>8, SaveRetains DEF IntegrationFails, StartRollback, Goto, RunRecord
  <2>9. CASE TakeBack(t)
    BY <1>1, <2>9, SaveRetains DEF TakeBack, StartRollback, Goto, RunRecord, outside
  <2>10. CASE RolledBack(t)
    BY <1>1, <2>10, SaveRetains DEF RolledBack, Thrown, Report, RunRecord
  <2>11. ASSUME NEW ok \in BOOLEAN, LoopTop(t, ok)
         PROVE  pc[t] # "idle" /\ run'.status = run.status /\ Retains
                /\ (loop' = loop \/ loop' = "scheduling")
    BY <2>11, SaveRetains DEF LoopTop, AbandonLoop, Settle, Goto
  <2>12. ASSUME NEW ok \in BOOLEAN, Mark(t, ok)
         PROVE  pc[t] # "idle" /\ run'.status = run.status /\ Retains
                /\ (loop' = loop \/ loop' = "scheduling")
    BY <2>12, SaveRetains DEF Mark, Thrown, Report, Goto
  <2>13. ASSUME NEW ok \in BOOLEAN, Accept(t, ok)
         PROVE  pc[t] # "idle" /\ run'.status = run.status /\ Retains
                /\ (loop' = loop \/ loop' = "scheduling")
    BY <1>1, <2>13, SaveRetains DEF Accept, Goto, RunRecord
  <2>14. ASSUME NEW ok \in BOOLEAN, RollbackFails(t, ok)
         PROVE  pc[t] # "idle" /\ run'.status = run.status /\ Retains
                /\ (loop' = loop \/ loop' = "scheduling")
    BY <2>14, SaveRetains DEF RollbackFails, Report
  <2>15. ASSUME NEW ok \in BOOLEAN, Tidied(t, ok)
         PROVE  pc[t] # "idle" /\ run'.status = run.status /\ Retains
                /\ (loop' = loop \/ loop' = "scheduling")
    BY <2>15, SaveRetains DEF Tidied, Settle
  <2>16. ASSUME NEW ok \in BOOLEAN, Conclude(t, ok)
         PROVE  pc[t] # "idle" /\ run'.status = run.status /\ Retains
                /\ (loop' = loop \/ loop' = "scheduling")
    BY <2>16, SaveRetains DEF Conclude, Settle
  <2> QED
    BY <2>1, <2>2, <2>3, <2>4, <2>5, <2>6, <2>7, <2>8, <2>9, <2>10, <2>11, <2>12, <2>13,
       <2>14, <2>15, <2>16 DEF TaskStep
<1>3. loop \in {"scheduling", "waiting", "draining"} /\ Operating
  BY <1>2, ActiveTask
<1>4. ~retained /\ run.status # "completed" /\ disk.run.status \notin Retainable
  BY <1>3 DEF RetainedOK, Maintenance
<1>5. run.status \notin Retainable
  BY <1>3, <1>4 DEF IInv, StatusOK, Live, Retainable
<1> QED
  BY <1>2, <1>3, <1>4, <1>5 DEF RetainedOK, Retains, Retainable

\* A step of an operation that makes no task done or undone: the loop's, or a stop.
\* Nothing is retained before the last save of a run whose tasks are all done.
LEMMA OperationRetains ==
    ASSUME RetainedOK, Operating, DoneIn(task) = Task => DoneIn(task') = Task,
           run'.status = "completed" /\ loop' # "off" =>
             /\ loop' \in {"finalChecks", "cleanup", "saved", "ending"}
             /\ DoneIn(task') = Task,
           \/ UNCHANGED <<disk, retained>>
           \/ /\ disk' = [task |-> task', run |-> run']
              /\ retained' = (run'.status \in Retainable)
              /\ run'.status # "cleanupPending"
              /\ run'.status = "completed" =>
                   loop' \in {"saved", "ending"} /\ DoneIn(task') = Task,
           retained => loop' \in {"saved", "ending", "off"}
    PROVE  RetainedOK'
<1>1. Operating' => loop' # "off"
  BY DEF Operating
<1>2. CASE UNCHANGED <<disk, retained>>
  BY <1>1, <1>2 DEF RetainedOK
<1>3. CASE /\ disk' = [task |-> task', run |-> run']
           /\ retained' = (run'.status \in Retainable)
           /\ run'.status # "cleanupPending"
           /\ run'.status = "completed" =>
                loop' \in {"saved", "ending"} /\ DoneIn(task') = Task
  <2>1. /\ retained' => run'.status = "completed"
        /\ run'.status \in Retainable => retained'
        /\ retained' \in BOOLEAN
    <3>1. retained' \in BOOLEAN
      BY <1>3
    <3>2. retained' <=> run'.status \in Retainable
      BY <1>3
    <3>3. run'.status \in Retainable => run'.status = "completed"
      BY <1>3 DEF Retainable
    <3> QED
      BY <3>1, <3>2, <3>3
  <2>2. disk'.task = task' /\ disk'.run = run'
    BY <1>3
  <2> QED
    BY <1>1, <1>3, <2>1, <2>2 DEF RetainedOK
<1> QED
  BY <1>2, <1>3

\* A loop that still schedules has nothing retained, and its run is not completed.
LEMMA NothingRetained ==
    ASSUME IInv, RetainedOK
    PROVE  /\ run \in RunRecord
           /\ Operating => run.status \notin {"cleanupPending", "none"}
           /\ loop \in {"scheduling", "waiting", "draining", "selecting"} =>
                ~retained /\ Operating /\ run.status # "completed"
           /\ loop \in {"finalChecks", "cleanup"} => ~retained /\ Operating
<1>1. Operating => run.status \in Live
  BY DEF IInv, StatusOK
<1> QED
  BY <1>1, Facts DEF RetainedOK, Operating, Maintenance, Live

\* A scheduling leaves the loop with a completed run only if every task is done.
LEMMA ScheduleRetains ==
    ASSUME IInv, RetainedOK, Schedule
    PROVE  RetainedOK'
<1>1. PICK T, started :
        /\ T = RefreshReadiness(task)
        /\ started \subseteq {u \in Task : T[u].status = "ready"}
        /\ task' = [u \in Task |-> Scheduled(T, started, u)]
        /\ IF Active \cup started # {} THEN loop' = "waiting" /\ run' = run
           ELSE LeaveLoop(IF TerminalStatus(T) = "none" THEN "blocked" ELSE TerminalStatus(T))
        /\ Operating
  <2>1. PICK T, started :
          /\ T = RefreshReadiness(task)
          /\ started \subseteq {u \in Task : T[u].status = "ready" /\ pc[u] = "idle"}
          /\ task' = [u \in Task |-> Scheduled(T, started, u)]
          /\ IF Active \cup started # {} THEN loop' = "waiting" /\ run' = run
             ELSE LeaveLoop(IF TerminalStatus(T) = "none" THEN "blocked"
                            ELSE TerminalStatus(T))
          /\ Operating
    BY ScheduleIs
  <2>2. started \subseteq {u \in Task : T[u].status = "ready"}
    BY <2>1
  <2> QED
    BY <2>1, <2>2
<1>2. UNCHANGED <<disk, retained>> /\ loop \in {"scheduling", "selecting"}
  BY DEF Schedule, outside
<1>3. ~retained /\ run.status # "completed" /\ run \in RunRecord
  BY <1>2, NothingRetained
<1>4. run'.status = "completed" =>
        loop' \in {"finalChecks", "cleanup", "saved", "ending"} /\ DoneIn(task') = Task
  <2> SUFFICES ASSUME run'.status = "completed"
               PROVE  loop' = "finalChecks" /\ DoneIn(task') = Task
    OBVIOUS
  <2> DEFINE status == IF TerminalStatus(T) = "none" THEN "blocked" ELSE TerminalStatus(T)
  <2>1. LeaveLoop(status) /\ started = {}
    BY <1>1, <1>3
  <2>2. status = "completed" /\ loop' = "finalChecks"
    <3> HIDE DEF status
    <3> QED
      BY <1>3, <2>1 DEF LeaveLoop, RunRecord
  <2>3. TerminalStatus(T) = "completed"
    BY <2>2
  <2>4. \A u \in Task : T[u].status = "done"
    <3> SUFFICES ASSUME NEW u \in Task PROVE T[u].status = "done"
      OBVIOUS
    <3> DEFINE all == {T[v].status : v \in Task}
    <3>1. /\ all \cap (ActiveStatus \cup {"pending", "ready"}) = {} /\ "failed" \notin all
          /\ all \cap {"blocked", "cancelled"} = {}
      <4> HIDE DEF all
      <4> QED
        BY <2>3 DEF TerminalStatus, all
    <3>2. T[u].status \in all
      OBVIOUS
    <3>3. T[u] \in TaskRecord
      BY <1>1, Facts, ReadinessIs, RefreshKeepsDone
    <3> QED
      BY <3>1, <3>2, <3>3 DEF TaskRecord, ActiveStatus
  <2>5. \A u \in Task : task'[u] = T[u]
    BY <1>1, <2>1 DEF Scheduled
  <2> QED
    BY <2>2, <2>4, <2>5 DEF DoneIn
<1>5. DoneIn(task) = Task => DoneIn(task') = Task
  <2> SUFFICES ASSUME DoneIn(task) = Task, NEW u \in Task
               PROVE  task'[u].status = "done"
    BY DEF DoneIn
  <2>1. task[u].status = "done"
    BY DEF DoneIn
  <2>2. T[u].status = "done"
    BY <1>1, <2>1, Facts, ReadinessIs, RefreshKeepsDone
  <2>3. u \notin started
    BY <1>1, <2>2
  <2> QED
    BY <1>1, <2>2, <2>3 DEF Scheduled
<1> QED
  BY <1>1, <1>2, <1>3, <1>4, <1>5, OperationRetains

\* The run loop, and a stop.
LEMMA LoopRetains ==
    ASSUME IInv, RetainedOK, LoopStep \/ StopTimesOut \/ \E ok \in BOOLEAN : Stop(ok)
    PROVE  RetainedOK'
<1>1. /\ run \in RunRecord
      /\ Operating => run.status \notin {"cleanupPending", "none"}
      /\ loop \in {"scheduling", "waiting", "draining", "selecting"} =>
           ~retained /\ Operating /\ run.status # "completed"
      /\ loop \in {"finalChecks", "cleanup"} => ~retained /\ Operating
  BY NothingRetained
<1>2. /\ retained => loop \in {"saved", "ending", "off"} \cup Maintenance
      /\ Operating /\ run.status = "completed" =>
           loop \in {"finalChecks", "cleanup", "saved", "ending"} /\ DoneIn(task) = Task
  BY DEF RetainedOK
<1>3. ASSUME NEW deviation \in BOOLEAN, MasterChecks(deviation) PROVE RetainedOK'
  <2>1. loop = "scheduling" /\ task' = task /\ UNCHANGED <<disk, retained>>
        /\ (run' = run \/ LeaveLoop("blocked"))
    BY <1>3 DEF MasterChecks, outside
  <2>2. run'.status # "completed"
    BY <1>1, <2>1 DEF LeaveLoop, RunRecord
  <2> QED
    BY <1>1, <2>1, <2>2, OperationRetains
<1>4. CASE LoopFails
  <2>1. loop = "scheduling" /\ task' = task /\ UNCHANGED <<disk, retained>>
        /\ run' = [run EXCEPT !.status = IF aborted THEN "stopped" ELSE "failed"]
    BY <1>4 DEF LoopFails, outside
  <2>2. run'.status # "completed"
    BY <1>1, <2>1 DEF RunRecord
  <2> QED
    BY <1>1, <2>1, <2>2, OperationRetains
<1>5. CASE Drained
  <2>1. loop = "draining" /\ UNCHANGED <<task, run, disk, retained>>
    BY <1>5 DEF Drained, ledgerVars, outside
  <2> QED
    BY <1>1, <2>1, OperationRetains
<1>6. ASSUME NEW outcome \in {"passed", "failed", "blocked", "thrown"}, FinalChecks(outcome)
      PROVE  RetainedOK'
  <2>1. loop = "finalChecks" /\ loop' = "cleanup" /\ task' = task
        /\ UNCHANGED <<disk, retained>>
        /\ run' = [run EXCEPT !.status = CASE outcome = "passed" -> @
                                           [] outcome = "blocked" -> "blocked"
                                           [] OTHER -> IF aborted THEN "stopped" ELSE "failed"]
    BY <1>6 DEF FinalChecks, outside
  <2>2. run'.status = "completed" => run.status = "completed"
    BY <1>1, <2>1 DEF RunRecord
  <2> QED
    BY <1>1, <1>2, <2>1, <2>2, OperationRetains
<1>7. ASSUME NEW cleaned \in BOOLEAN, NEW ok \in BOOLEAN, CleanUp(cleaned, ok)
      PROVE  RetainedOK'
  <2>1. loop = "cleanup" /\ task' = task
        /\ (run' = run \/ run' = [run EXCEPT !.status = "failed"])
    BY <1>7 DEF CleanUp
  <2>2. run'.status \in {run.status, "failed"}
    BY <1>1, <2>1 DEF RunRecord
  <2>3. Operating /\ ~retained
    BY <1>1, <2>1
  <2>4. CASE ok
    <3>1. /\ disk' = [task |-> task', run |-> run']
          /\ retained' = (run'.status \in Retainable)
          /\ loop' = "saved"
      BY <1>7, <2>4 DEF CleanUp, Save, Saved, Stored
    <3> QED
      BY <1>1, <1>2, <2>1, <2>2, <2>3, <3>1, OperationRetains
  <2>5. CASE ~ok
    <3>1. UNCHANGED <<disk, retained>> /\ loop' = "off"
      BY <1>7, <2>5 DEF CleanUp, Save, SaveFailed
    <3> QED
      BY <2>1, <2>2, <2>3, <3>1, OperationRetains
  <2> QED
    BY <2>4, <2>5
<1>8. CASE SetPointer \/ OperationEnds
  <2>1. /\ \/ loop = "saved" /\ loop' = "ending"
           \/ loop = "ending" /\ loop' = "off"
        /\ UNCHANGED <<task, run, disk, retained>>
    BY <1>8 DEF SetPointer, OperationEnds, ledgerVars, outside
  <2>2. Operating
    BY <2>1 DEF Operating, Maintenance
  <2> QED
    BY <1>2, <2>1, <2>2, OperationRetains
<1>9. ASSUME NEW ok \in BOOLEAN, Stop(ok) PROVE RetainedOK'
  <2>1. /\ Operating /\ UNCHANGED <<task, loop>>
        /\ run' = [run EXCEPT !.status = "stopping"]
        /\ disk' = IF ok THEN [task |-> task, run |-> run'] ELSE disk
        /\ retained' = (retained /\ ~ok)
    BY <1>9 DEF Stop
  <2>2. run'.status = "stopping" /\ run'.status \notin Retainable
    BY <1>1, <2>1 DEF RunRecord, Retainable
  <2>3. retained => loop' \in {"saved", "ending", "off"}
    BY <1>2, <2>1 DEF Operating
  <2>4. \/ UNCHANGED <<disk, retained>>
        \/ disk' = [task |-> task', run |-> run'] /\ retained' = (run'.status \in Retainable)
    <3>1. retained \in BOOLEAN
      BY DEF RetainedOK
    <3> QED
      BY <2>1, <2>2, <3>1
  <2> QED
    BY <2>1, <2>2, <2>3, <2>4, OperationRetains
<1>10. CASE StopTimesOut
  <2>1. /\ Operating /\ UNCHANGED <<task, loop>>
        /\ run' = [run EXCEPT !.status = "stopped"]
        /\ disk' = [task |-> task', run |-> run']
        /\ retained' = (run'.status \in Retainable)
    BY <1>10 DEF StopTimesOut, Saved, Stored
  <2>2. run'.status = "stopped"
    BY <1>1, <2>1 DEF RunRecord
  <2>3. retained => loop' \in {"saved", "ending", "off"}
    BY <1>2, <2>1 DEF Operating
  <2> QED
    BY <2>1, <2>2, <2>3, OperationRetains
<1> QED
  BY <1>3, <1>4, <1>5, <1>6, <1>7, <1>8, <1>9, <1>10, ScheduleRetains DEF LoopStep

\* Outside an operation, what is retained has its tasks done in memory and on disk.
LEMMA RestingRetains ==
    ASSUME loop' \in Maintenance \cup {"off"}, retained' \in BOOLEAN,
           retained' => DoneIn(task') = Task /\ DoneIn(disk'.task) = Task,
           disk'.run.status \in Retainable => retained'
    PROVE  RetainedOK'
BY DEF RetainedOK, Operating

\* An abandonment or a clean-up, a crash, a resume.
LEMMA RestRetains ==
    ASSUME IInv, RetainedOK,
           MaintenanceStep \/ Crash \/ Resume \/ ForgetCompleted
             \/ \E ok \in BOOLEAN : Abandon(ok) \/ CleanUpRetained(ok)
    PROVE  RetainedOK'
<1>1. /\ retained \in BOOLEAN
      /\ retained => DoneIn(task) = Task /\ DoneIn(disk.task) = Task
      /\ disk.run.status \in Retainable => retained
  BY DEF RetainedOK
<1>2. /\ disk \in [task : [Task -> TaskRecord], run : RunRecord]
      /\ disk.run \in RunRecord /\ run \in RunRecord
  BY Facts
<1>3. ASSUME NEW whole \in BOOLEAN, RunRemoved(whole) PROVE RetainedOK'
  <2>1. UNCHANGED <<task, disk, retained>> /\ loop' \in Maintenance \cup {"off"}
    BY <1>3 DEF RunRemoved, ledgerVars, Maintenance
  <2> QED
    BY <1>1, <2>1, RestingRetains
<1>4. ASSUME NEW ok \in BOOLEAN, Finalize(ok) PROVE RetainedOK'
  <2>1. UNCHANGED <<task, retained>> /\ loop' \in Maintenance \cup {"off"}
    BY <1>4 DEF Finalize, SaveFailed, ledgerVars, Maintenance
  <2>2. CASE ok
    <3>1. /\ disk'.task = [t \in Task |-> AbandonedTask(disk.task[t])]
          /\ disk'.run = [disk.run EXCEPT !.status = "abandoned"]
      BY <1>4, <2>2 DEF Finalize
    <3>2. disk'.run.status \notin Retainable
      BY <1>2, <3>1 DEF RunRecord, Retainable
    <3>3. ASSUME NEW t \in Task, disk.task[t].status = "done"
          PROVE  AbandonedTask(disk.task[t]).status = "done"
      BY <1>2, <3>3 DEF AbandonedTask, TaskRecord
    <3>4. DoneIn(disk.task) = Task => DoneIn(disk'.task) = Task
      BY <3>1, <3>3 DEF DoneIn
    <3> QED
      BY <1>1, <2>1, <3>2, <3>4, RestingRetains
  <2>3. CASE ~ok
    <3>1. disk' = disk
      BY <1>4, <2>3 DEF Finalize, SaveFailed
    <3> QED
      BY <1>1, <2>1, <3>1, RestingRetains
  <2> QED
    BY <2>2, <2>3
<1>5. ASSUME NEW ok \in BOOLEAN, ClearPointer(ok) PROVE RetainedOK'
  <2>1. /\ UNCHANGED <<task, disk>> /\ loop' \in Maintenance \cup {"off"}
        /\ retained' = retained
             \/ retained' = (retained /\ disk.run.status = "cleanupPending")
        /\ loop = "clearing"
    BY <1>5 DEF ClearPointer, SaveFailed, Maintenance
  <2>2. disk.run.status \in {"abandoned", "cleanupPending"}
    BY <2>1 DEF IInv, StatusOK
  <2>3. disk.run.status \in Retainable => disk.run.status = "cleanupPending"
    BY <2>2 DEF Retainable
  <2>4. /\ retained' \in BOOLEAN /\ (retained' => retained)
        /\ disk.run.status \in Retainable => retained'
    <3>1. CASE disk.run.status = "cleanupPending"
      <4>1. retained' = retained \/ retained' = (retained /\ TRUE)
        BY <2>1, <3>1
      <4> QED
        BY <1>1, <4>1
    <3>2. CASE disk.run.status # "cleanupPending"
      <4>1. CASE retained' = retained
        BY <1>1, <4>1
      <4>2. CASE retained' = (retained /\ disk.run.status = "cleanupPending")
        <5>1. retained' = FALSE
          BY <3>2, <4>2
        <5> QED
          BY <2>3, <3>2, <5>1
      <4> QED
        BY <2>1, <4>1, <4>2
    <3> QED
      BY <3>1, <3>2
  <2> QED
    BY <1>1, <2>1, <2>4, RestingRetains
<1>6. ASSUME NEW ok \in BOOLEAN, Erase(ok) PROVE RetainedOK'
  <2>1. task' = task /\ loop' \in Maintenance \cup {"off"}
    BY <1>6 DEF Erase
  <2>2. CASE ok
    <3>1. disk' = [disk EXCEPT !.run = NoLedger(@)] /\ retained' = FALSE
      BY <1>6, <2>2 DEF Erase
    <3>2. disk'.run.status = "none"
      BY <1>2, <3>1 DEF NoLedger, RunRecord
    <3> QED
      BY <2>1, <3>1, <3>2, RestingRetains DEF Retainable
  <2>3. CASE ~ok
    <3>1. UNCHANGED <<disk, retained>>
      BY <1>6, <2>3 DEF Erase, SaveFailed
    <3> QED
      BY <1>1, <2>1, <3>1, RestingRetains
  <2> QED
    BY <2>2, <2>3
<1>7. ASSUME NEW ok \in BOOLEAN, Abandon(ok) PROVE RetainedOK'
  <2>1. retained' = retained /\ loop' \in Maintenance \cup {"off"}
    BY <1>7 DEF Abandon, SaveFailed, Maintenance
  <2>2. CASE ok
    <3> DEFINE current == IF run.status # "none" THEN [task |-> task, run |-> run] ELSE disk
    <3>1. /\ task' = [current EXCEPT !.run.status = "abandoning"].task
          /\ run' = [current EXCEPT !.run.status = "abandoning"].run
          /\ disk' = [task |-> task', run |-> run']
      BY <1>7, <2>2 DEF Abandon, Stored
    <3>2. current.task \in {task, disk.task} /\ current.run \in RunRecord
          /\ current = [task |-> current.task, run |-> current.run]
      BY <1>2
    <3> HIDE DEF current
    <3>3. task' = current.task /\ run'.status = "abandoning"
      BY <3>1, <3>2 DEF RunRecord
    <3>4. disk'.task = task' /\ disk'.run.status \notin Retainable
      BY <3>1, <3>3 DEF Retainable
    <3> QED
      BY <1>1, <2>1, <3>2, <3>3, <3>4, RestingRetains
  <2>3. CASE ~ok
    <3>1. UNCHANGED <<task, disk>>
      BY <1>7, <2>3 DEF Abandon, SaveFailed, ledgerVars
    <3> QED
      BY <1>1, <2>1, <3>1, RestingRetains
  <2> QED
    BY <2>2, <2>3
<1>8. ASSUME NEW ok \in BOOLEAN, CleanUpRetained(ok) PROVE RetainedOK'
  <2>1. retained /\ task' = task /\ loop' \in Maintenance \cup {"off"}
    BY <1>1, <1>8 DEF CleanUpRetained, ledgerVars, Maintenance
  <2>2. retained' = TRUE /\ disk'.task = disk.task
    BY <1>1, <1>2, <1>8, <2>1 DEF CleanUpRetained, SaveFailed
  <2> QED
    BY <1>1, <2>1, <2>2, RestingRetains
<1>9. CASE Crash
  <2>1. /\ task' = disk.task /\ disk' = disk /\ loop' \in Maintenance \cup {"off"}
        /\ retained' = (disk.run.status \in Retainable)
    BY <1>9 DEF Crash, Maintenance
  <2> QED
    BY <1>1, <2>1, RestingRetains
<1>10. CASE Resume
  <2>1. /\ run' = [disk.run EXCEPT !.status = "running", !.tree = Restored(disk)]
        /\ disk' = [task |-> task', run |-> run']
        /\ retained' = FALSE
    BY <1>10 DEF Resume
  <2>2. disk'.run.status = "running" /\ run'.status = "running"
    BY <1>2, <2>1 DEF RunRecord
  <2> QED
    BY <2>1, <2>2 DEF RetainedOK, Retainable
<1>11. CASE ForgetCompleted
  <2>1. UNCHANGED <<task, disk, retained>> /\ loop' = "off"
    BY <1>11 DEF ForgetCompleted, ledgerVars
  <2> QED
    BY <1>1, <2>1, RestingRetains
<1> QED
  BY <1>3, <1>4, <1>5, <1>6, <1>7, <1>8, <1>9, <1>10, <1>11 DEF MaintenanceStep

-----------------------------------------------------------------------------
(***************************************************************************)
(* The theorems.                                                           *)
(***************************************************************************)
LEMMA StepKeeps ==
    ASSUME IInv, RetainedOK, Next
    PROVE  IInv' /\ RetainedOK' /\ StopStep /\ ExhaustedStep
<1>1. \/ \E t \in Task : TaskStep(t)
      \/ LoopStep \/ MaintenanceStep
      \/ \E ok \in BOOLEAN : Stop(ok) \/ Abandon(ok) \/ CleanUpRetained(ok)
      \/ StopTimesOut \/ Crash \/ Resume \/ ForgetCompleted
  BY DEF Next
<1> QED
  BY <1>1, TaskStepKeeps, LoopStepKeeps, MaintenanceStepKeeps, StopKeeps, AbandonKeeps,
     CleanUpRetainedKeeps, StopTimesOutKeeps, CrashKeeps, ResumeKeeps, ForgetCompletedKeeps,
     TaskRetains, LoopRetains, RestRetains

\* The invariant holds when a run has been created.
LEMMA InitIsOK == ASSUME Init PROVE IInv /\ RetainedOK
<1>1. NewTask \in TaskRecord /\ NewTask.status = "pending" /\ NewTask.marker = NoTree
  BY DEF NewTask, TaskRecord
<1>2. task = [t \in Task |-> NewTask] /\ run = [status |-> "running", tree |-> {}, accepted |-> 0]
      /\ disk = [task |-> task, run |-> run] /\ confirmed = {} /\ section = NoSection
      /\ pc = [t \in Task |-> "idle"] /\ verdict = [t \in Task |-> "none"]
      /\ loop = "scheduling" /\ rejected = FALSE /\ aborted = FALSE /\ pointer = TRUE
      /\ integration = {} /\ spent = [saves |-> 0, faults |-> 0, resumes |-> 0]
      /\ retained = FALSE
  BY DEF Init
<1>3. /\ task \in [Task -> TaskRecord] /\ DoneIn(task) = {} /\ MarkedIn(task) = {}
      /\ \A t \in Task : task[t] = NewTask /\ pc[t] = "idle"
  BY <1>1, <1>2 DEF DoneIn, MarkedIn
<1>4. /\ run \in RunRecord /\ run.status = "running" /\ run.tree = {} /\ run.accepted = 0
      /\ disk.task = task /\ disk.run = run
      /\ disk \in [task : [Task -> TaskRecord], run : RunRecord]
  BY <1>2, <1>3 DEF RunRecord
<1>5. TypeOK
  BY <1>2, <1>3, <1>4 DEF TypeOK, NoSection
<1>6. ControlOK
  <2>1. loop \in Loops /\ loop \notin Resting
    BY <1>2 DEF Loops, Resting, Maintenance
  <2> QED
    BY <1>2, <1>4, <2>1, PlacesArePcs DEF ControlOK
<1>7. SectionOK
  BY <1>2, <1>3, PlacesArePcs DEF SectionOK
<1>8. StatusOK
  <2>1. {} # NoTree
    BY DEF NoTree
  <2> QED
    BY <1>2, <1>4, <2>1 DEF StatusOK, Live
<1>9. StageOK
  BY <1>3 DEF StageOK, StageAt, Attempting, Holding
<1>10. LedgerOK(task, run, run.accepted, confirmed, spent.saves)
  BY <1>2, <1>3, <1>4 DEF LedgerOK
<1>11. MemoryOK /\ DiskOK
  BY <1>2, <1>4, <1>10 DEF MemoryOK, DiskOK, Base
<1>12. TreesOK
  BY <1>2, <1>3 DEF TreesOK
<1>13. DependsOK
  BY <1>2, <1>3 DEF DependsOK
<1>14. FailedOK
  BY <1>2 DEF FailedOK, Memory
<1>15. RetainedOK
  BY <1>2, <1>4 DEF RetainedOK, Retainable
<1> QED
  BY <1>5, <1>6, <1>7, <1>8, <1>9, <1>11, <1>12, <1>13, <1>14, <1>15 DEF IInv

\* A step that changes nothing keeps the invariant.
LEMMA StutterKeeps == IInv /\ RetainedOK /\ UNCHANGED vars => IInv' /\ RetainedOK'
<1> SUFFICES ASSUME IInv, RetainedOK, UNCHANGED vars PROVE IInv' /\ RetainedOK'
  OBVIOUS
<1>1. UNCHANGED <<task, run, pc, verdict, section, loop, rejected, aborted, disk, retained,
                  pointer, integration, confirmed, spent>>
  BY DEF vars, ledgerVars, taskVars, flags, outside
<1> QED
  BY <1>1 DEF IInv, TypeOK, ControlOK, SectionOK, StatusOK, Operating, StageOK, MemoryOK, DiskOK,
     Base, TreesOK, Firm, DependsOK, FailedOK, Memory, Exhausted, RetainedOK

\* The invariant the other theorems follow from: the ledger in memory and the one
\* on disk account for every acceptance that was persisted, whatever the
\* coroutines of the run do between two awaits (src/src/orchestrator/controller.ts).
THEOREM OrchestratorInvariant == Spec => [](IInv /\ RetainedOK)
<1>1. Init => IInv /\ RetainedOK
  BY InitIsOK
<1>2. IInv /\ RetainedOK /\ [Next]_vars => IInv' /\ RetainedOK'
  BY StepKeeps, StutterKeeps
<1> QED
  BY <1>1, <1>2, PTL DEF Spec

\* The ledger keeps the shape that validateLedger accepts.
THEOREM TodoTypeCorrect == Spec => []TypeOK
<1>1. IInv => TypeOK
  BY DEF IInv
<1> QED
  BY <1>1, OrchestratorInvariant, PTL

\* A resume that is not refused restores every task whose acceptance was persisted,
\* and finds the branch that has its work (resume and recoverRollback of the controller).
THEOREM AcceptedStaysAccepted == Spec => []AcceptedIsKept
<1>1. ASSUME IInv PROVE AcceptedIsKept
  <2>1. confirmed \subseteq DoneIn(disk.task)
    BY <1>1, DiskIs DEF LedgerOK
  <2>2. Resumable(disk) => confirmed \subseteq Restored(disk)
    BY <1>1, DiskIs, RestoresConfirmed
  <2>3. pointer /\ Resumable(disk) /\ disk.run.status # "cleanupPending" => integration # NoTree
    BY <1>1 DEF IInv, StatusOK, Resumable, Gone
  <2> QED
    BY <2>1, <2>2, <2>3 DEF AcceptedIsKept
<1> QED
  BY <1>1, OrchestratorInvariant, PTL

\* As long as every save succeeds, a resume restores exactly the work the ledger
\* reports as accepted, a completed run has integrated every task, and a task is
\* accepted only after the tasks it depends on.
THEOREM LedgerIsTruthful == Spec => []LedgerTellsTheTruth
<1>1. ASSUME IInv, spent.saves = 0
      PROVE  /\ RestoredIsAccepted
             /\ disk.run.status = "completed" => disk.run.tree = Task
             /\ \A t \in DoneIn(disk.task) : DependsOn[t] \subseteq DoneIn(disk.task)
  <2>1. /\ confirmed = DoneIn(disk.task) /\ confirmed \subseteq disk.run.tree
        /\ disk.run.status = "completed" => Task \subseteq confirmed
    BY <1>1, DiskIs DEF LedgerOK
  <2>2. RestoredIsAccepted
    <3>1. Resumable(disk) => confirmed \subseteq Restored(disk) /\ Restored(disk) \subseteq DoneIn(disk.task)
      BY <1>1, DiskIs, RestoresConfirmed
    <3> QED
      BY <2>1, <3>1 DEF RestoredIsAccepted
  <2>3. disk.run.tree \subseteq Task
    BY <1>1, Facts DEF RunRecord
  <2>4. disk.run.status = "completed" => disk.run.tree = Task
    BY <2>1, <2>3
  <2>5. \A t \in DoneIn(disk.task) : DependsOn[t] \subseteq DoneIn(disk.task)
    BY <1>1, <2>1 DEF IInv, DependsOK, DoneIn
  <2> QED
    BY <2>2, <2>4, <2>5
<1>2. IInv => LedgerTellsTheTruth
  BY <1>1 DEF LedgerTellsTheTruth
<1> QED
  BY <1>2, OrchestratorInvariant, PTL

\* Once the run is aborted no task is accepted and no attempt begins, and a run
\* whose abandonment was persisted never runs again as long as one of its tasks is
\* not done; only a clean-up of a run that is among the retained ones takes an
\* abandoned run over (stop, abandon and cleanupRetained of the controller).
THEOREM StopHolds == Spec => StopIsFinal
<1>1. ASSUME IInv, RetainedOK, [Next]_vars PROVE StopStep \/ UNCHANGED vars
  BY <1>1, StepKeeps
<1>2. IInv /\ RetainedOK /\ [Next]_vars =>
        [/\ aborted /\ aborted' =>
              /\ DoneIn(task') \subseteq DoneIn(task)
              /\ \A t \in Task : task'[t].attempts <= task[t].attempts
         /\ disk.run.status \in Abandonment =>
              \/ disk'.run.status \in Abandonment
              \/ /\ disk'.run.status = "cleanupPending"
                 /\ retained /\ DoneIn(disk.task) = Task]_vars
  BY <1>1 DEF StopStep
<1> QED
  BY <1>2, OrchestratorInvariant, PTL DEF Spec, StopIsFinal

\* A task recorded as out of retries is never tried again by whatever stops,
\* crashes and resumes (resetIncompleteTask of the controller).
THEOREM ExhaustedIsFinal == Spec => ExhaustedStaysFailed
<1>1. ASSUME IInv, RetainedOK, [Next]_vars PROVE ExhaustedStep \/ UNCHANGED vars
  BY <1>1, StepKeeps
<1>2. IInv /\ RetainedOK /\ [Next]_vars =>
        [\A t \in Task : Exhausted(disk, t) =>
            Exhausted(disk', t) \/ disk'.run.status \in Abandonment]_vars
  BY <1>1 DEF ExhaustedStep
<1> QED
  BY <1>2, OrchestratorInvariant, PTL DEF Spec, ExhaustedStaysFailed
=============================================================================
