------------------------ MODULE OwnerStalenessProofs ------------------------
EXTENDS OwnerStaleness, TLAPS

(***************************************************************************)
(* What the code's defaults (2 s between heartbeats, 5 s for the write     *)
(* lock, 15 s until an owner is stale) and a machine that is either awake  *)
(* or asleep for longer than that have in common: a window renews itself   *)
(* well within the time that stale cleanup stays blocked after a sleep,    *)
(* and every window notices every sleep.                                   *)
(***************************************************************************)
PunctualWindows ==
    /\ SleepInHandler = FALSE
    /\ HeartbeatInterval + BusyTimeout < StaleOwner
    /\ 2 * BusyTimeout <= StaleOwner
    /\ \A d \in SleepLengths : d > StaleOwner /\ d > DriftLimit

(***************************************************************************)
(* The inductive invariant.                                                *)
(***************************************************************************)

\* How long the machine is awake, at most, before the next commit of o.
Remaining(o) ==
    IF reading[o] = None THEN Less(HeartbeatInterval, gap[o]) + BusyTimeout
                         ELSE Less(BusyTimeout, reading[o].mono)

\* o will renew its row before anybody can find it stale.
RenewsInTime(o) == beatAge[o] + Remaining(o) <= StaleOwner

\* p has slept, or was late, since its last maintenance.
Alarmed(p) == gap[p] > StaleOwner \/ drift[p] > DriftLimit

\* p reclaims nobody before o has renewed its row: it has yet to notice that the
\* machine slept, or still waits since it did.
WaitsFor(p, o) ==
    IF reading[p] = None
    THEN Alarmed(p) \/ blocked[p] > Remaining(o)
    ELSE ~reading[p].mayReclaim /\ blocked[p] > Remaining(o)

\* A window that was always on time.
PromptOK ==
    \A o \in prompt :
        /\ mode[o] = "running"
        /\ reading[o] # None =>
             reading[o].wall = reading[o].mono /\ reading[o].mono <= BusyTimeout

\* Its row is either young, or everybody else waits for it.
RowsOK ==
    \A o \in prompt : beatAge[o] # None =>
        \/ RenewsInTime(o)
        \/ \A p \in Owner \ {o} : Awake(p) => WaitsFor(p, o)

\* A window that never ran has no row.
UnopenedHasNoRow == \A o \in Owner : mode[o] = "off" => beatAge[o] = None

IInv == TypeOK /\ PromptOK /\ RowsOK /\ UnopenedHasNoRow

-----------------------------------------------------------------------------
(***************************************************************************)
(* Every age stays within its cap.                                         *)
(***************************************************************************)

\* Ages are natural numbers.
LEMMA CapIsBounded ==
    ASSUME NEW n \in Nat, NEW max \in Nat
    PROVE  Cap(n, max) \in 0 .. max /\ Cap(n, max) <= n
  BY DEF Cap

\* Subtraction that stops at zero stays between zero and what it subtracts from.
LEMMA LessIsBounded ==
    ASSUME NEW n \in Nat, NEW d \in Nat
    PROVE  Less(n, d) \in 0 .. n /\ Less(n, d) \in Nat
  BY DEF Less

\* The constants as numbers.
LEMMA Thresholds ==
    /\ HeartbeatInterval \in Nat /\ BusyTimeout \in Nat /\ DriftLimit \in Nat
    /\ StaleOwner \in Nat /\ StaleOwner > 0 /\ LiveOwnerGrace \in Nat /\ MaxSleeps \in Nat
    /\ HeartbeatInterval <= StaleOwner /\ StaleOwner <= LiveOwnerGrace
    /\ MaxAge \in Nat /\ MaxGap \in Nat /\ SleepLengths \subseteq Nat
    /\ None \notin Nat /\ None \notin Reading
<1>1. /\ HeartbeatInterval \in Nat /\ BusyTimeout \in Nat /\ DriftLimit \in Nat
      /\ StaleOwner \in Nat /\ StaleOwner > 0 /\ LiveOwnerGrace \in Nat /\ MaxSleeps \in Nat
      /\ 2 * HeartbeatInterval <= StaleOwner /\ StaleOwner <= LiveOwnerGrace
      /\ SleepLengths \subseteq Nat /\ None \notin Nat
      /\ None \notin [wall : Nat, mono : Nat, mayReclaim : BOOLEAN]
  BY StalenessAssumption
<1>2. MaxAge \in Nat /\ MaxGap \in Nat
  BY <1>1 DEF MaxAge, MaxGap
<1>3. Reading \subseteq [wall : Nat, mono : Nat, mayReclaim : BOOLEAN]
  BY <1>2 DEF Reading
<1> QED
  BY <1>1, <1>2, <1>3

\* Time passes on all clocks within their caps.
LEMMA PassKeepsTypes ==
    ASSUME TypeOK, NEW d \in Nat, NEW m \in Nat, Pass(d, m)
    PROVE  /\ beatAge' \in [Owner -> (0 .. MaxAge) \cup {None}]
           /\ gap' \in [Owner -> 0 .. MaxGap]
           /\ drift' \in [Owner -> 0 .. DriftLimit + 1]
           /\ blocked' \in [Owner -> 0 .. StaleOwner]
           /\ reading' \in [Owner -> Reading \cup {None}]
<1> USE Thresholds
<1>1. beatAge' \in [Owner -> (0 .. MaxAge) \cup {None}]
  <2>1. \A o \in Owner : beatAge[o] # None => Cap(beatAge[o] + d, MaxAge) \in 0 .. MaxAge
    BY DEF TypeOK, Cap
  <2> QED
    BY <2>1 DEF Pass
<1>2. gap' \in [Owner -> 0 .. MaxGap]
  <2>1. ASSUME NEW o \in Owner PROVE gap[o] \in 0 .. MaxGap /\ gap[o] + m \in Nat
    BY DEF TypeOK
  <2>2. \A o \in Owner : gap[o] \in 0 .. MaxGap /\ Cap(gap[o] + m, MaxGap) \in 0 .. MaxGap
    BY <2>1, CapIsBounded
  <2> QED
    BY <2>2 DEF Pass
<1>3. drift' \in [Owner -> 0 .. DriftLimit + 1]
  <2>1. Less(d, m) \in Nat /\ DriftLimit + 1 \in Nat
    BY LessIsBounded
  <2>2. ASSUME NEW o \in Owner
        PROVE  drift[o] \in 0 .. DriftLimit + 1 /\ drift[o] + Less(d, m) \in Nat
    BY <2>1 DEF TypeOK
  <2>3. \A o \in Owner : /\ drift[o] \in 0 .. DriftLimit + 1
                          /\ Cap(drift[o] + Less(d, m), DriftLimit + 1) \in 0 .. DriftLimit + 1
    BY <2>1, <2>2, CapIsBounded
  <2> QED
    BY <2>3 DEF Pass
<1>4. blocked' \in [Owner -> 0 .. StaleOwner]
  <2>1. ASSUME NEW o \in Owner
        PROVE  blocked[o] \in 0 .. StaleOwner /\ Less(blocked[o], m) \in 0 .. StaleOwner
    BY DEF TypeOK, Less
  <2> QED
    BY <2>1 DEF Pass
<1>5. reading' \in [Owner -> Reading \cup {None}]
  <2>1. ASSUME NEW o \in Owner, reading[o] # None
        PROVE  [reading[o] EXCEPT !.wall = Cap(reading[o].wall + d, MaxAge),
                                  !.mono = Cap(reading[o].mono + m, MaxAge)] \in Reading
    <3>1. reading[o] \in Reading
      BY <2>1 DEF TypeOK
    <3>2. reading[o].wall + d \in Nat /\ reading[o].mono + m \in Nat
      BY <3>1 DEF Reading
    <3>3. /\ Cap(reading[o].wall + d, MaxAge) \in 0 .. MaxAge
          /\ Cap(reading[o].mono + m, MaxAge) \in 0 .. MaxAge
      BY <3>2, CapIsBounded
    <3> QED
      BY <3>1, <3>3 DEF Reading
  <2> QED
    BY <2>1 DEF Pass
<1> QED
  BY <1>1, <1>2, <1>3, <1>4, <1>5

\* Every step keeps the types.
LEMMA TypeStep == TypeOK /\ [Next]_vars => TypeOK'
<1> SUFFICES ASSUME TypeOK, [Next]_vars PROVE TypeOK'
  OBVIOUS
<1> USE Thresholds
<1>1. CASE UNCHANGED vars
  BY <1>1 DEF TypeOK, vars
<1>2. ASSUME NEW o \in Owner, Start(o) PROVE TypeOK'
  <2>1. [wall |-> 0, mono |-> 0, mayReclaim |-> FALSE] \in Reading
    BY DEF Reading
  <2> QED
    BY <1>2, <2>1 DEF Start, TypeOK
<1>3. ASSUME NEW o \in Owner, ReadClocks(o) PROVE TypeOK'
  <2>1. RenewedBlock(o) \in 0 .. StaleOwner
    BY DEF RenewedBlock, TypeOK
  <2>2. [wall |-> 0, mono |-> 0, mayReclaim |-> RenewedBlock(o) = 0] \in Reading
    BY DEF Reading
  <2> QED
    BY <1>3, <2>1, <2>2 DEF ReadClocks, TypeOK
<1>4. ASSUME NEW o \in Owner, Pause(o) \/ Resume(o) PROVE TypeOK'
  BY <1>4 DEF Pause, Resume, TypeOK
<1>5. ASSUME NEW o \in Owner, Exit(o) PROVE TypeOK'
  BY <1>5 DEF Exit, TypeOK
<1>6. ASSUME NEW o \in Owner, NEW pidReused \in BOOLEAN, Commit(o, pidReused) PROVE TypeOK'
  <2>1. reading[o] \in Reading
    BY <1>6 DEF Commit, TypeOK
  <2>2. reading[o].wall \in 0 .. MaxAge /\ reading[o].mono \in 0 .. MaxAge
    BY <2>1 DEF Reading
  <2>3. beatAge' \in [Owner -> (0 .. MaxAge) \cup {None}]
    BY <1>6, <2>2 DEF Commit, TypeOK
  <2>4. Cap(reading[o].mono, MaxGap) \in 0 .. MaxGap
    BY <2>2 DEF Cap
  <2>5. Cap(Less(reading[o].wall, reading[o].mono), DriftLimit + 1) \in 0 .. DriftLimit + 1
    BY <2>2 DEF Cap, Less
  <2> QED
    BY <1>6, <2>3, <2>4, <2>5 DEF Commit, TypeOK
<1>7. CASE Tick
  BY <1>7, PassKeepsTypes DEF Tick, TypeOK
<1>8. ASSUME NEW d \in SleepLengths, NEW counted \in BOOLEAN, Sleep(d, counted)
      PROVE  TypeOK'
  <2>1. d \in Nat /\ (IF counted THEN d ELSE 0) \in Nat
    OBVIOUS
  <2>2. /\ beatAge' \in [Owner -> (0 .. MaxAge) \cup {None}]
        /\ gap' \in [Owner -> 0 .. MaxGap]
        /\ drift' \in [Owner -> 0 .. DriftLimit + 1]
        /\ blocked' \in [Owner -> 0 .. StaleOwner]
        /\ reading' \in [Owner -> Reading \cup {None}]
    BY <1>8, <2>1, PassKeepsTypes DEF Sleep
  <2> QED
    BY <1>8, <2>2 DEF Sleep, TypeOK
<1> QED
  BY <1>1, <1>2, <1>3, <1>4, <1>5, <1>6, <1>7, <1>8 DEF Next

\* The types hold at first.
LEMMA TypeInit == Init => TypeOK
  BY Thresholds DEF Init, TypeOK

\* Every age that maintainOwners keeps stays within its cap, whatever the clocks
\* and the machine do.
THEOREM StalenessTypeCorrect == Spec => []TypeOK
  BY TypeInit, TypeStep, PTL DEF Spec

-----------------------------------------------------------------------------
(***************************************************************************)
(* No window that is on time loses its row.                                *)
(***************************************************************************)

\* What TypeOK says of one owner's clocks.
LEMMA Ages ==
    ASSUME TypeOK, NEW o \in Owner
    PROVE  /\ gap[o] \in 0 .. MaxGap
           /\ drift[o] \in 0 .. DriftLimit + 1
           /\ blocked[o] \in 0 .. StaleOwner
           /\ beatAge[o] # None => beatAge[o] \in 0 .. MaxAge
           /\ reading[o] # None => /\ reading[o] \in Reading
                                   /\ reading[o].wall \in 0 .. MaxAge
                                   /\ reading[o].mono \in 0 .. MaxAge
                                   /\ reading[o].mayReclaim \in BOOLEAN
<1>1. reading[o] \in Reading \cup {None}
  BY DEF TypeOK
<1> QED
  BY <1>1 DEF TypeOK, Reading

\* A window commits again within one interval and one wait for the write lock.
LEMMA RemainingIsBounded ==
    ASSUME TypeOK, NEW o \in Owner
    PROVE  Remaining(o) \in 0 .. HeartbeatInterval + BusyTimeout
<1>1. CASE reading[o] = None
  BY <1>1, Ages, Thresholds DEF Remaining, Less
<1>2. CASE reading[o] # None
  BY <1>2, Ages, Thresholds DEF Remaining, Less
<1> QED
  BY <1>1, <1>2

\* What PunctualWindows says, as numbers.
LEMMA Punctual ==
    ASSUME PunctualWindows
    PROVE  /\ HeartbeatInterval + BusyTimeout < StaleOwner
           /\ BusyTimeout + BusyTimeout <= StaleOwner
           /\ BusyTimeout <= StaleOwner
           /\ StaleOwner < MaxGap /\ StaleOwner < MaxAge
  BY Thresholds DEF PunctualWindows, MaxGap, MaxAge

\* A window whose own clocks do not change has as much time left as before.
LEMMA SameClocksSameTime ==
    ASSUME NEW o \in Owner, reading'[o] = reading[o], gap'[o] = gap[o]
    PROVE  Remaining(o)' = Remaining(o)
  BY DEF Remaining

\* A window that opens waits longer than any other one needs to renew its row.
LEMMA StartKeeps ==
    ASSUME PunctualWindows, IInv, NEW p \in Owner, Start(p)
    PROVE  /\ PromptOK' /\ RowsOK' /\ UnopenedHasNoRow'
           /\ \A o \in prompt : beatAge[o] # None => beatAge'[o] # None
<1> USE Thresholds, Punctual
<1>1. /\ TypeOK /\ mode[p] = "off" /\ p \notin prompt /\ beatAge' = beatAge
      /\ prompt' = prompt \cup {p} /\ prompt \subseteq Owner /\ beatAge[p] = None
  BY DEF IInv, PromptOK, UnopenedHasNoRow, Start, TypeOK
<1>2. /\ mode'[p] = "running" /\ blocked'[p] = StaleOwner
      /\ reading'[p] = [wall |-> 0, mono |-> 0, mayReclaim |-> FALSE]
  BY DEF IInv, TypeOK, Start
<1>3. \A q \in Owner \ {p} : /\ mode'[q] = mode[q] /\ gap'[q] = gap[q]
                              /\ drift'[q] = drift[q] /\ blocked'[q] = blocked[q]
                              /\ reading'[q] = reading[q]
  BY DEF IInv, TypeOK, Start
<1>4. [wall |-> 0, mono |-> 0, mayReclaim |-> FALSE] # None
  <2>1. [wall |-> 0, mono |-> 0, mayReclaim |-> FALSE] \in Reading
    BY DEF Reading
  <2> QED
    BY <2>1
<1>5. PromptOK'
  <2> SUFFICES ASSUME NEW o \in prompt'
               PROVE  /\ mode'[o] = "running"
                      /\ reading'[o] # None => /\ reading'[o].wall = reading'[o].mono
                                               /\ reading'[o].mono <= BusyTimeout
    BY DEF PromptOK
  <2>1. CASE o = p
    BY <2>1, <1>2
  <2>2. CASE o # p
    BY <2>2, <1>1, <1>3 DEF IInv, PromptOK
  <2> QED
    BY <2>1, <2>2
<1>6. RowsOK'
  <2> SUFFICES ASSUME NEW o \in prompt', beatAge'[o] # None
               PROVE  \/ RenewsInTime(o)'
                      \/ \A q \in Owner \ {o} : Awake(q)' => WaitsFor(q, o)'
    BY DEF RowsOK
  <2>1. o \in prompt /\ o # p /\ o \in Owner /\ beatAge[o] # None
    BY <1>1
  <2>2. Remaining(o)' = Remaining(o)
    BY <2>1, <1>3, SameClocksSameTime
  <2>3. CASE RenewsInTime(o)
    BY <2>2, <2>3, <1>1 DEF RenewsInTime
  <2>4. CASE \A q \in Owner \ {o} : Awake(q) => WaitsFor(q, o)
    <3>1. Remaining(o) < StaleOwner
      BY <2>1, <1>1, RemainingIsBounded
    <3>2. WaitsFor(p, o)'
      BY <3>1, <2>2, <1>2, <1>4 DEF WaitsFor
    <3>3. ASSUME NEW q \in Owner \ {o, p}, Awake(q)' PROVE WaitsFor(q, o)'
      <4>1. Awake(q) /\ WaitsFor(q, o)
        BY <3>3, <2>4, <1>3 DEF Awake
      <4> QED
        BY <4>1, <2>2, <1>3 DEF WaitsFor, Alarmed
    <3> QED
      BY <3>2, <3>3
  <2> QED
    BY <2>1, <2>3, <2>4 DEF IInv, RowsOK
<1>7. UnopenedHasNoRow'
  BY <1>1, <1>2, <1>3 DEF IInv, UnopenedHasNoRow
<1> QED
  BY <1>1, <1>5, <1>6, <1>7

\* A window that looks at its clocks renews its interval if it was alarmed, and
\* has less time left than before.
LEMMA ReadClocksKeeps ==
    ASSUME PunctualWindows, IInv, NEW p \in Owner, ReadClocks(p)
    PROVE  /\ PromptOK' /\ RowsOK' /\ UnopenedHasNoRow'
           /\ \A o \in prompt : beatAge[o] # None => beatAge'[o] # None
<1> USE Thresholds, Punctual
<1> DEFINE r == [wall |-> 0, mono |-> 0, mayReclaim |-> RenewedBlock(p) = 0]
<1>1. /\ TypeOK /\ mode[p] = "running" /\ reading[p] = None /\ beatAge' = beatAge
      /\ mode' = mode /\ gap' = gap /\ drift' = drift
      /\ prompt' = prompt /\ prompt \subseteq Owner
  BY DEF IInv, ReadClocks, TypeOK
<1>2. blocked'[p] = RenewedBlock(p) /\ reading'[p] = r
  BY DEF IInv, TypeOK, ReadClocks
<1>3. \A q \in Owner \ {p} : blocked'[q] = blocked[q] /\ reading'[q] = reading[q]
  BY DEF IInv, TypeOK, ReadClocks
<1>4. r # None /\ r.wall = 0 /\ r.mono = 0 /\ (r.mayReclaim => RenewedBlock(p) = 0)
  <2>1. r \in Reading
    BY DEF Reading
  <2>2. r.wall = 0 /\ r.mono = 0 /\ (r.mayReclaim => RenewedBlock(p) = 0)
    OBVIOUS
  <2> QED
    BY <2>1, <2>2
<1> HIDE DEF r
<1>5. PromptOK'
  <2> SUFFICES ASSUME NEW o \in prompt'
               PROVE  /\ mode'[o] = "running"
                      /\ reading'[o] # None => /\ reading'[o].wall = reading'[o].mono
                                               /\ reading'[o].mono <= BusyTimeout
    BY DEF PromptOK
  <2>1. CASE o = p
    BY <2>1, <1>1, <1>2, <1>4
  <2>2. CASE o # p
    BY <2>2, <1>1, <1>3 DEF IInv, PromptOK
  <2> QED
    BY <2>1, <2>2
<1>6. RowsOK'
  <2> SUFFICES ASSUME NEW o \in prompt', beatAge'[o] # None
               PROVE  \/ RenewsInTime(o)'
                      \/ \A q \in Owner \ {o} : Awake(q)' => WaitsFor(q, o)'
    BY DEF RowsOK
  <2>1. o \in prompt /\ o \in Owner /\ beatAge[o] # None /\ beatAge[o] \in Nat
    BY <1>1, Ages
  <2>2. Remaining(o)' <= Remaining(o) /\ Remaining(o) \in Nat /\ Remaining(o)' \in Nat
    <3>1. CASE o = p
      <4>1. Remaining(o) = Less(HeartbeatInterval, gap[o]) + BusyTimeout
        BY <3>1, <1>1 DEF Remaining
      <4>2. Remaining(o)' = BusyTimeout
        BY <3>1, <1>2, <1>4 DEF Remaining, Less
      <4>3. Less(HeartbeatInterval, gap[o]) \in Nat
        BY <2>1, <1>1, Ages DEF Less
      <4> QED
        BY <4>1, <4>2, <4>3
    <3>2. CASE o # p
      BY <3>2, <2>1, <1>1, <1>3, SameClocksSameTime, RemainingIsBounded
    <3> QED
      BY <3>1, <3>2
  <2>3. CASE RenewsInTime(o)
    BY <2>1, <2>2, <2>3, <1>1 DEF RenewsInTime
  <2>4. CASE \A q \in Owner \ {o} : Awake(q) => WaitsFor(q, o)
    <3>1. Remaining(o) < StaleOwner
      BY <2>1, <1>1, RemainingIsBounded
    <3>2. ASSUME p # o PROVE WaitsFor(p, o)'
      <4>1. Alarmed(p) \/ blocked[p] > Remaining(o)
        BY <3>2, <2>4, <1>1 DEF Awake, WaitsFor
      <4>2. RenewedBlock(p) > Remaining(o)
        BY <4>1, <3>1, <2>2 DEF RenewedBlock, Alarmed
      <4>3. RenewedBlock(p) \in Nat
        BY <1>1, Ages DEF RenewedBlock
      <4>4. RenewedBlock(p) # 0 /\ RenewedBlock(p) > Remaining(o)'
        BY <4>2, <4>3, <2>2
      <4> QED
        BY <4>4, <1>2, <1>4 DEF WaitsFor
    <3>3. ASSUME NEW q \in Owner \ {o, p}, Awake(q)' PROVE WaitsFor(q, o)'
      <4>1. WaitsFor(q, o)
        BY <3>3, <2>4, <1>1 DEF Awake
      <4>2. blocked[q] \in Nat
        BY <1>1, Ages
      <4> QED
        BY <4>1, <4>2, <2>2, <1>1, <1>3 DEF WaitsFor, Alarmed
    <3> QED
      BY <3>2, <3>3
  <2> QED
    BY <2>1, <2>3, <2>4 DEF IInv, RowsOK
<1>7. UnopenedHasNoRow'
  BY <1>1 DEF IInv, UnopenedHasNoRow
<1> QED
  BY <1>1, <1>5, <1>6, <1>7

\* A commit of a window that was on time makes its row young again; a commit of
\* another one takes no row that is young or that the other one waits for.
LEMMA CommitKeeps ==
    ASSUME PunctualWindows, IInv, NEW p \in Owner, NEW pidReused \in BOOLEAN,
           Commit(p, pidReused)
    PROVE  /\ PromptOK' /\ RowsOK' /\ UnopenedHasNoRow'
           /\ \A o \in prompt : beatAge[o] # None => beatAge'[o] # None
<1> USE Thresholds, Punctual
<1>1. /\ TypeOK /\ mode[p] = "running" /\ reading[p] # None
      /\ mode' = mode /\ blocked' = blocked
      /\ prompt' = prompt /\ prompt \subseteq Owner
  BY DEF IInv, Commit, TypeOK
<1>2. /\ reading'[p] = None /\ gap'[p] = Cap(reading[p].mono, MaxGap)
      /\ beatAge'[p] = reading[p].wall
  BY DEF IInv, TypeOK, Commit
<1>3. \A q \in Owner \ {p} : /\ gap'[q] = gap[q] /\ drift'[q] = drift[q]
                              /\ reading'[q] = reading[q]
  BY DEF IInv, TypeOK, Commit
<1>4. \A q \in Owner \ {p} : q \notin Reclaimed(p, pidReused) => beatAge'[q] = beatAge[q]
  BY DEF Commit
<1>5. \A q \in Owner \ {p} : beatAge'[q] \in {beatAge[q], None}
  BY DEF Commit
<1>6. ASSUME NEW o \in prompt, o # p, beatAge[o] # None
      PROVE  /\ beatAge'[o] = beatAge[o] /\ Remaining(o)' = Remaining(o)
             /\ RenewsInTime(o) \/ WaitsFor(p, o)
  <2>1. o \in Owner /\ beatAge[o] \in Nat /\ Remaining(o) \in Nat
    BY <1>1, <1>6, Ages, RemainingIsBounded
  <2>2. RenewsInTime(o) \/ WaitsFor(p, o)
    BY <2>1, <1>1, <1>6 DEF IInv, RowsOK, Awake
  <2>3. o \notin Reclaimed(p, pidReused)
    <3>1. CASE RenewsInTime(o)
      BY <2>1, <3>1 DEF RenewsInTime, Reclaimed
    <3>2. CASE WaitsFor(p, o)
      BY <1>1, <3>2 DEF WaitsFor, Reclaimed
    <3> QED
      BY <2>2, <3>1, <3>2
  <2> QED
    BY <2>1, <2>2, <2>3, <1>3, <1>4, <1>6, SameClocksSameTime
<1>7. PromptOK'
  <2> SUFFICES ASSUME NEW o \in prompt'
               PROVE  /\ mode'[o] = "running"
                      /\ reading'[o] # None => /\ reading'[o].wall = reading'[o].mono
                                               /\ reading'[o].mono <= BusyTimeout
    BY DEF PromptOK
  <2>1. CASE o = p
    BY <2>1, <1>1, <1>2
  <2>2. CASE o # p
    BY <2>2, <1>1, <1>3 DEF IInv, PromptOK
  <2> QED
    BY <2>1, <2>2
<1>8. RowsOK'
  <2> SUFFICES ASSUME NEW o \in prompt', beatAge'[o] # None
               PROVE  \/ RenewsInTime(o)'
                      \/ \A q \in Owner \ {o} : Awake(q)' => WaitsFor(q, o)'
    BY DEF RowsOK
  <2>1. o \in prompt /\ o \in Owner
    BY <1>1
  <2>2. CASE o = p
    <3>1. /\ reading[p].wall = reading[p].mono /\ reading[p].mono <= BusyTimeout
          /\ reading[p].mono \in Nat
      BY <2>1, <2>2, <1>1, Ages DEF IInv, PromptOK
    <3>2. gap'[p] = reading[p].mono
      BY <3>1, <1>2 DEF Cap
    <3>3. Remaining(p)' = Less(HeartbeatInterval, reading[p].mono) + BusyTimeout
      BY <3>2, <1>2 DEF Remaining
    <3>4. reading[p].mono + (Less(HeartbeatInterval, reading[p].mono) + BusyTimeout)
            <= StaleOwner
      BY <3>1 DEF Less
    <3> QED
      BY <2>2, <3>1, <3>3, <3>4, <1>2 DEF RenewsInTime
  <2>3. CASE o # p
    <3>1. beatAge[o] # None
      BY <2>1, <2>3, <1>5
    <3>2. /\ beatAge'[o] = beatAge[o] /\ Remaining(o)' = Remaining(o)
          /\ RenewsInTime(o) \/ WaitsFor(p, o)
      BY <2>1, <2>3, <3>1, <1>6
    <3>3. CASE RenewsInTime(o)
      BY <3>2, <3>3 DEF RenewsInTime
    <3>4. CASE \A q \in Owner \ {o} : Awake(q) => WaitsFor(q, o)
      <4>1. WaitsFor(p, o)
        BY <2>3, <3>4, <1>1 DEF Awake
      <4>2. WaitsFor(p, o)'
        BY <4>1, <3>2, <1>1, <1>2 DEF WaitsFor
      <4>3. ASSUME NEW q \in Owner \ {o, p}, Awake(q)' PROVE WaitsFor(q, o)'
        <5>1. WaitsFor(q, o)
          BY <4>3, <3>4, <1>1 DEF Awake
        <5> QED
          BY <5>1, <3>2, <1>1, <1>3 DEF WaitsFor, Alarmed
      <4> QED
        BY <4>2, <4>3
    <3> QED
      BY <2>1, <3>1, <3>3, <3>4 DEF IInv, RowsOK
  <2> QED
    BY <2>2, <2>3
<1>9. UnopenedHasNoRow'
  BY <1>1, <1>5 DEF IInv, UnopenedHasNoRow
<1>10. ASSUME NEW o \in prompt, beatAge[o] # None PROVE beatAge'[o] # None
  <2>1. CASE o = p
    BY <2>1, <1>1, <1>2, Ages
  <2>2. CASE o # p
    BY <2>2, <1>6, <1>10
  <2> QED
    BY <2>1, <2>2
<1> QED
  BY <1>7, <1>8, <1>9, <1>10

\* While the machine is awake, a window that is on time has one unit less left
\* and the others have waited one unit.
LEMMA TickKeeps ==
    ASSUME PunctualWindows, IInv, Tick
    PROVE  /\ PromptOK' /\ RowsOK' /\ UnopenedHasNoRow'
           /\ \A o \in prompt : beatAge[o] # None => beatAge'[o] # None
<1> USE Thresholds, Punctual
<1>1. /\ TypeOK /\ mode' = mode /\ prompt' = prompt /\ prompt \subseteq Owner /\ Pass(1, 1)
  BY DEF IInv, Tick, TypeOK
<1>2. \A o \in Owner : beatAge[o] = None => beatAge'[o] = None
  BY <1>1 DEF Pass
<1>3. \A o \in Owner : beatAge[o] # None => beatAge'[o] = Cap(beatAge[o] + 1, MaxAge)
  BY <1>1 DEF Pass
<1>4. \A o \in Owner : beatAge[o] # None => /\ beatAge'[o] \in Nat
                                             /\ beatAge'[o] <= beatAge[o] + 1
  BY <1>1, <1>3, Ages DEF Cap
<1>5. \A o \in Owner : reading[o] = None => reading'[o] = None
  BY <1>1 DEF Pass
<1>6. \A o \in Owner : reading[o] # None =>
         reading'[o] = [reading[o] EXCEPT !.wall = Cap(reading[o].wall + 1, MaxAge),
                                          !.mono = Cap(reading[o].mono + 1, MaxAge)]
  BY <1>1 DEF Pass
<1>7. ASSUME NEW o \in Owner, reading[o] # None
      PROVE  /\ reading'[o] # None /\ reading'[o].mayReclaim = reading[o].mayReclaim
             /\ reading'[o].wall = Cap(reading[o].wall + 1, MaxAge)
             /\ reading'[o].mono = Cap(reading[o].mono + 1, MaxAge)
  <2>1. reading[o] \in Reading
    BY <1>1, <1>7, Ages
  <2>2. /\ Cap(reading[o].wall + 1, MaxAge) \in 0 .. MaxAge
        /\ Cap(reading[o].mono + 1, MaxAge) \in 0 .. MaxAge
    BY <1>1, <1>7, Ages DEF Cap
  <2>3. reading'[o] \in Reading
    BY <2>1, <2>2, <1>6, <1>7 DEF Reading
  <2> QED
    BY <2>1, <2>3, <1>6, <1>7 DEF Reading
<1>8. ASSUME NEW o \in Owner, Awake(o)
      PROVE  /\ gap'[o] = Cap(gap[o] + 1, MaxGap)
             /\ drift'[o] = Cap(drift[o] + Less(1, 1), DriftLimit + 1)
             /\ blocked'[o] = Less(blocked[o], 1)
  BY <1>1, <1>8 DEF Pass
<1>9. ASSUME NEW o \in prompt
      PROVE  /\ Remaining(o) \in Nat /\ Remaining(o)' \in Nat
             /\ Remaining(o) = Remaining(o)' + 1
             /\ reading'[o] # None => /\ reading'[o].wall = reading'[o].mono
                                      /\ reading'[o].mono <= BusyTimeout
  <2>1. o \in Owner /\ mode[o] = "running" /\ Awake(o)
    BY <1>1 DEF IInv, PromptOK, Awake
  <2>2. CASE reading[o] = None
    <3>1. gap[o] \in Nat /\ gap[o] < HeartbeatInterval
      BY <2>1, <2>2, <1>1, Ages DEF Tick
    <3>2. gap'[o] = gap[o] + 1
      BY <3>1, <2>1, <1>8 DEF Cap
    <3>3. Remaining(o) = (HeartbeatInterval - gap[o]) + BusyTimeout
      BY <3>1, <2>2 DEF Remaining, Less
    <3>4. reading'[o] = None
      BY <2>1, <2>2, <1>5
    <3>5. Remaining(o)' = (HeartbeatInterval - (gap[o] + 1)) + BusyTimeout
      BY <3>1, <3>2, <3>4 DEF Remaining, Less
    <3> QED
      BY <3>1, <3>3, <3>4, <3>5
  <2>3. CASE reading[o] # None
    <3>1. /\ reading[o].mono \in Nat /\ reading[o].mono < BusyTimeout
          /\ reading[o].wall = reading[o].mono
      BY <2>1, <2>3, <1>1, Ages DEF Tick, IInv, PromptOK
    <3>2. /\ reading'[o] # None /\ reading'[o].mono = reading[o].mono + 1
          /\ reading'[o].wall = reading[o].mono + 1
      BY <3>1, <2>1, <2>3, <1>7 DEF Cap
    <3>3. Remaining(o) = BusyTimeout - reading[o].mono
      BY <3>1, <2>3 DEF Remaining, Less
    <3>4. Remaining(o)' = BusyTimeout - (reading[o].mono + 1)
      BY <3>1, <3>2 DEF Remaining, Less
    <3> QED
      BY <3>1, <3>2, <3>3, <3>4
  <2> QED
    BY <2>2, <2>3
<1>10. PromptOK'
  BY <1>1, <1>9 DEF IInv, PromptOK
<1>11. RowsOK'
  <2> SUFFICES ASSUME NEW o \in prompt', beatAge'[o] # None
               PROVE  \/ RenewsInTime(o)'
                      \/ \A q \in Owner \ {o} : Awake(q)' => WaitsFor(q, o)'
    BY DEF RowsOK
  <2>1. o \in prompt /\ o \in Owner
    BY <1>1
  <2>2. beatAge[o] # None /\ beatAge[o] \in Nat
    BY <2>1, <1>1, <1>2, Ages
  <2>3. /\ Remaining(o) \in Nat /\ Remaining(o)' \in Nat
        /\ Remaining(o) = Remaining(o)' + 1
    BY <2>1, <1>9
  <2>4. CASE RenewsInTime(o)
    BY <2>1, <2>2, <2>3, <2>4, <1>4 DEF RenewsInTime
  <2>5. CASE \A q \in Owner \ {o} : Awake(q) => WaitsFor(q, o)
    <3> SUFFICES ASSUME NEW q \in Owner \ {o}, Awake(q)' PROVE WaitsFor(q, o)'
      OBVIOUS
    <3>1. Awake(q) /\ WaitsFor(q, o)
      BY <2>5, <1>1 DEF Awake
    <3>2. gap[q] \in Nat /\ drift[q] \in Nat /\ blocked[q] \in Nat
      BY <1>1, Ages
    <3>3. /\ gap'[q] = Cap(gap[q] + 1, MaxGap)
          /\ drift'[q] = Cap(drift[q] + Less(1, 1), DriftLimit + 1)
          /\ blocked'[q] = Less(blocked[q], 1)
      BY <3>1, <1>8
    <3>4. blocked[q] > Remaining(o) => blocked'[q] > Remaining(o)'
      BY <3>2, <3>3, <2>3 DEF Less
    <3>5. Alarmed(q) => Alarmed(q)'
      <4>1. CASE gap[q] > StaleOwner
        BY <4>1, <3>2, <3>3 DEF Alarmed, Cap, MaxGap
      <4>2. CASE drift[q] > DriftLimit
        BY <4>2, <3>2, <3>3 DEF Alarmed, Cap, Less
      <4> QED
        BY <4>1, <4>2 DEF Alarmed
    <3>6. CASE reading[q] = None
      <4>1. reading'[q] = None
        BY <3>6, <1>5
      <4> QED
        BY <4>1, <3>1, <3>4, <3>5, <3>6 DEF WaitsFor
    <3>7. CASE reading[q] # None
      <4>1. reading'[q] # None /\ reading'[q].mayReclaim = reading[q].mayReclaim
        BY <3>7, <1>7
      <4> QED
        BY <4>1, <3>1, <3>4, <3>7 DEF WaitsFor
    <3> QED
      BY <3>6, <3>7
  <2> QED
    BY <2>1, <2>2, <2>4, <2>5 DEF IInv, RowsOK
<1>12. UnopenedHasNoRow'
  BY <1>1, <1>2 DEF IInv, UnopenedHasNoRow
<1>13. \A o \in prompt : beatAge[o] # None => beatAge'[o] # None
  BY <1>1, <1>4
<1> QED
  BY <1>10, <1>11, <1>12, <1>13

\* After a sleep every window is alarmed: one of its clocks tells.
LEMMA SleepKeeps ==
    ASSUME PunctualWindows, IInv, NEW d \in SleepLengths, NEW counted \in BOOLEAN,
           Sleep(d, counted)
    PROVE  /\ PromptOK' /\ RowsOK' /\ UnopenedHasNoRow'
           /\ \A o \in prompt : beatAge[o] # None => beatAge'[o] # None
<1> USE Thresholds, Punctual
<1> DEFINE m == IF counted THEN d ELSE 0
<1>1. m \in Nat /\ (m = d \/ m = 0)
  OBVIOUS
<1>2. Pass(d, m)
  BY DEF Sleep
<1> HIDE DEF m
<1>3. d \in Nat /\ d > StaleOwner /\ d > DriftLimit
  BY DEF PunctualWindows
<1>4. /\ TypeOK /\ mode' = mode /\ prompt' = prompt /\ prompt \subseteq Owner
      /\ \A o \in Owner : reading[o] = None
  BY DEF IInv, Sleep, TypeOK, PunctualWindows
<1>5. \A o \in Owner : reading'[o] = None
  BY <1>2, <1>4 DEF Pass
<1>6. \A o \in Owner : beatAge[o] = None => beatAge'[o] = None
  BY <1>2 DEF Pass
<1>7. ASSUME NEW o \in Owner, beatAge[o] # None PROVE beatAge'[o] # None
  <2>1. beatAge'[o] = Cap(beatAge[o] + d, MaxAge)
    BY <1>2, <1>7 DEF Pass
  <2>2. beatAge[o] \in Nat
    BY <1>4, <1>7, Ages
  <2>3. Cap(beatAge[o] + d, MaxAge) \in Nat
    BY <2>2, <1>3 DEF Cap
  <2> QED
    BY <2>1, <2>3
<1>8. ASSUME NEW q \in Owner, Awake(q) PROVE Alarmed(q)'
  <2>1. /\ gap'[q] = Cap(gap[q] + m, MaxGap)
        /\ drift'[q] = Cap(drift[q] + Less(d, m), DriftLimit + 1)
    BY <1>2, <1>8 DEF Pass
  <2>2. gap[q] \in Nat /\ drift[q] \in Nat
    BY <1>4, Ages
  <2>3. CASE m = d
    BY <2>1, <2>2, <2>3, <1>3 DEF Alarmed, Cap, MaxGap
  <2>4. CASE m = 0
    BY <2>1, <2>2, <2>4, <1>3 DEF Alarmed, Cap, Less
  <2> QED
    BY <1>1, <2>3, <2>4
<1>9. PromptOK'
  BY <1>4, <1>5 DEF IInv, PromptOK
<1>10. RowsOK'
  <2> SUFFICES ASSUME NEW o \in prompt', NEW q \in Owner \ {o}, Awake(q)'
               PROVE  WaitsFor(q, o)'
    BY DEF RowsOK
  <2>1. Alarmed(q)'
    BY <1>4, <1>8 DEF Awake
  <2> QED
    BY <2>1, <1>5 DEF WaitsFor
<1>11. UnopenedHasNoRow'
  BY <1>4, <1>6 DEF IInv, UnopenedHasNoRow
<1> QED
  BY <1>4, <1>7, <1>9, <1>10, <1>11

\* A window that is stopped or exits is no longer on time; the others wait as before.
LEMMA PauseKeeps ==
    ASSUME IInv, NEW p \in Owner, Pause(p) \/ Resume(p) \/ Exit(p)
    PROVE  /\ PromptOK' /\ RowsOK' /\ UnopenedHasNoRow'
           /\ \A o \in prompt : beatAge[o] # None => beatAge'[o] # None
<1>1. /\ TypeOK /\ beatAge' = beatAge /\ prompt' = prompt \ {p} /\ prompt \subseteq Owner
      /\ Awake(p) /\ (mode'[p] = "exited" \/ Awake(p)') /\ mode'[p] # "off"
  BY DEF IInv, PromptOK, Pause, Resume, Exit, TypeOK, Awake
<1>2. \A q \in Owner \ {p} : /\ mode'[q] = mode[q] /\ gap'[q] = gap[q]
                              /\ drift'[q] = drift[q] /\ blocked'[q] = blocked[q]
                              /\ reading'[q] = reading[q]
  BY DEF IInv, TypeOK, Pause, Resume, Exit
<1>3. mode'[p] # "exited" => /\ gap'[p] = gap[p] /\ drift'[p] = drift[p]
                             /\ blocked'[p] = blocked[p] /\ reading'[p] = reading[p]
  BY DEF IInv, TypeOK, Pause, Resume, Exit
<1>4. PromptOK'
  BY <1>1, <1>2 DEF IInv, PromptOK
<1>5. RowsOK'
  <2> SUFFICES ASSUME NEW o \in prompt', beatAge'[o] # None
               PROVE  \/ RenewsInTime(o)'
                      \/ \A q \in Owner \ {o} : Awake(q)' => WaitsFor(q, o)'
    BY DEF RowsOK
  <2>1. o \in prompt /\ o # p /\ o \in Owner /\ beatAge[o] # None
    BY <1>1
  <2>2. Remaining(o)' = Remaining(o)
    BY <2>1, <1>2, SameClocksSameTime
  <2>3. CASE RenewsInTime(o)
    BY <2>2, <2>3, <1>1 DEF RenewsInTime
  <2>4. CASE \A q \in Owner \ {o} : Awake(q) => WaitsFor(q, o)
    <3> SUFFICES ASSUME NEW q \in Owner \ {o}, Awake(q)' PROVE WaitsFor(q, o)'
      OBVIOUS
    <3>1. Awake(q) /\ (q = p => mode'[p] # "exited")
      BY <1>1, <1>2 DEF Awake
    <3>2. /\ gap'[q] = gap[q] /\ drift'[q] = drift[q] /\ blocked'[q] = blocked[q]
          /\ reading'[q] = reading[q]
      BY <3>1, <1>2, <1>3
    <3> QED
      BY <3>1, <3>2, <2>2, <2>4 DEF WaitsFor, Alarmed
  <2> QED
    BY <2>1, <2>3, <2>4 DEF IInv, RowsOK
<1>6. UnopenedHasNoRow'
  BY <1>1, <1>2 DEF IInv, UnopenedHasNoRow
<1> QED
  BY <1>1, <1>4, <1>5, <1>6

\* Every step keeps the invariant and the rows of the windows that are on time.
LEMMA PunctualStep ==
    ASSUME PunctualWindows, IInv, [Next]_vars
    PROVE  IInv' /\ (\A o \in prompt : beatAge[o] # None => beatAge'[o] # None)
<1>1. TypeOK'
  BY TypeStep DEF IInv
<1>2. CASE UNCHANGED vars
  <2>1. PromptOK' /\ UnopenedHasNoRow'
    BY <1>2 DEF IInv, PromptOK, UnopenedHasNoRow, vars
  <2>2. RowsOK'
    BY <1>2 DEF IInv, RowsOK, RenewsInTime, Remaining, WaitsFor, Alarmed, Awake, vars
  <2> QED
    BY <1>1, <1>2, <2>1, <2>2 DEF IInv, vars
<1>3. ASSUME NEW o \in Owner, Start(o)
      PROVE  IInv' /\ (\A q \in prompt : beatAge[q] # None => beatAge'[q] # None)
  BY <1>1, <1>3, StartKeeps DEF IInv
<1>4. ASSUME NEW o \in Owner, ReadClocks(o)
      PROVE  IInv' /\ (\A q \in prompt : beatAge[q] # None => beatAge'[q] # None)
  BY <1>1, <1>4, ReadClocksKeeps DEF IInv
<1>5. ASSUME NEW o \in Owner, Pause(o) \/ Resume(o) \/ Exit(o)
      PROVE  IInv' /\ (\A q \in prompt : beatAge[q] # None => beatAge'[q] # None)
  BY <1>1, <1>5, PauseKeeps DEF IInv
<1>6. ASSUME NEW o \in Owner, NEW pidReused \in BOOLEAN, Commit(o, pidReused)
      PROVE  IInv' /\ (\A q \in prompt : beatAge[q] # None => beatAge'[q] # None)
  BY <1>1, <1>6, CommitKeeps DEF IInv
<1>7. CASE Tick
  BY <1>1, <1>7, TickKeeps DEF IInv
<1>8. ASSUME NEW d \in SleepLengths, NEW counted \in BOOLEAN, Sleep(d, counted)
      PROVE  IInv' /\ (\A q \in prompt : beatAge[q] # None => beatAge'[q] # None)
  BY <1>1, <1>8, SleepKeeps DEF IInv
<1> QED
  BY <1>2, <1>3, <1>4, <1>5, <1>6, <1>7, <1>8 DEF Next

\* The invariant of the punctual owner holds at first.
LEMMA PunctualInit == Init => IInv
<1>1. Init => PromptOK /\ RowsOK /\ UnopenedHasNoRow
  BY DEF Init, PromptOK, RowsOK, UnopenedHasNoRow
<1> QED
  BY <1>1, TypeInit DEF IInv

\* No window that renews itself on time whenever the machine is awake is ever
\* reclaimed by another one (cleanupStaleOwners), whatever the number of windows and
\* hosts and however often the machine sleeps, if windows are as punctual as the
\* code's defaults make them and no sleep is shorter than staleOwnerMs.
THEOREM PunctualOwnersAreKept == PunctualWindows /\ Spec => PromptOwnersAreKept
<1>1. PunctualWindows /\ Init => IInv
  BY PunctualInit
<1>2. PunctualWindows /\ IInv /\ [Next]_vars => IInv'
  BY PunctualStep
<1>3. PunctualWindows /\ IInv /\ [Next]_vars
        => [\A o \in prompt : beatAge[o] # None => beatAge'[o] # None]_vars
  BY PunctualStep
<1>4. PunctualWindows => PunctualWindows'
  BY DEF PunctualWindows
<1> QED
  BY <1>1, <1>2, <1>3, <1>4, PTL DEF Spec, PromptOwnersAreKept
=============================================================================
