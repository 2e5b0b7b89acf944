--------------------------- MODULE OwnerStaleness ---------------------------
(***************************************************************************)
(* When a broker instance judges another one stale: the clocks of          *)
(* maintainOwners, cleanupStaleOwners and silentButAlive                   *)
(* (src/src/concurrency/resourceBroker.ts). ResourceBroker abstracts all   *)
(* of this to an owner row that is "fresh" or "silent".                    *)
(*                                                                         *)
(* Time is counted in units of one heartbeat interval or so. Every         *)
(* timestamp the code keeps is kept here as its age, so that time may pass *)
(* for ever: ages stop counting once no comparison tells them apart.       *)
(***************************************************************************)
EXTENDS Naturals, FiniteSets

CONSTANTS
    Owner,
    HostOf,            \* owner -> the host it records
    HeartbeatInterval, \* a running window's timer fires this often
    BusyTimeout,       \* how long BEGIN IMMEDIATE waits for the write lock
    StaleOwner,        \* staleOwnerMs
    LiveOwnerGrace,    \* liveOwnerGraceMs
    DriftLimit,        \* max(1000, 2 * heartbeatIntervalMs)
    SleepLengths,      \* how long the machine may sleep
    MaxSleeps,         \* bound: how often it does
    SleepInHandler,    \* may it fall asleep between clock reading and commit
    None               \* no row, no clock reading

ASSUME StalenessAssumption ==
    /\ {HeartbeatInterval, StaleOwner, LiveOwnerGrace} \subseteq Nat \ {0}
    /\ {BusyTimeout, DriftLimit, MaxSleeps} \subseteq Nat
    /\ 2 * HeartbeatInterval <= StaleOwner
    /\ StaleOwner <= LiveOwnerGrace
    /\ SleepLengths \subseteq Nat
    /\ SleepInHandler \in BOOLEAN
    /\ None \notin Nat \cup [wall : Nat, mono : Nat, mayReclaim : BOOLEAN]

VARIABLES
    mode,       \* owner -> "off", "running", "paused" or "exited"
    beatAge,    \* owner -> wall age of heartbeat_at, or None without a row
    gap,        \* owner -> monotonic age of lastMaintenanceAt
    drift,      \* owner -> how much more the wall clock than the monotonic
                \*   clock has advanced since lastMaintenanceAt
    blocked,    \* owner -> time until staleCleanupBlockedUntil
    reading,    \* owner -> the clocks its maintainOwners has read, or None
    sleeps,     \* how often the machine has slept
    prompt      \* owners that were never paused, nor late while awake

vars == <<mode, beatAge, gap, drift, blocked, reading, sleeps, prompt>>

MaxAge == LiveOwnerGrace + 1
MaxGap == StaleOwner + 1
Cap(n, max) == IF n > max THEN max ELSE n
Less(n, d) == IF n > d THEN n - d ELSE 0

Awake(o) == mode[o] \in {"running", "paused"}

Init ==
    /\ mode = [o \in Owner |-> "off"]
    /\ beatAge = [o \in Owner |-> None]
    /\ gap = [o \in Owner |-> 0]
    /\ drift = [o \in Owner |-> 0]
    /\ blocked = [o \in Owner |-> 0]
    /\ reading = [o \in Owner |-> None]
    /\ sleeps = 0
    /\ prompt = {}

(***************************************************************************)
(* The first half of maintainOwners: it reads both clocks, and renews the  *)
(* grace interval if its own last maintenance is too long ago or the two   *)
(* clocks disagree about it. mayReclaim is maintenanceAt >= blockedUntil.  *)
(***************************************************************************)
\* (a plausible bug, for TypeOK) the interval is added to what is left of it
MutantLongBlock(o) ==
    IF gap[o] > StaleOwner \/ drift[o] > DriftLimit
    THEN blocked[o] + StaleOwner ELSE blocked[o]

\* (a plausible bug, for PromptOwnersAreKept) only one clock is looked at
MutantOneClock(o) == IF gap[o] > StaleOwner THEN StaleOwner ELSE blocked[o]

\* (a plausible bug, for ExitedOwnersAreReclaimed) every late heartbeat begins a
\* new grace interval
MutantEveryPause(o) ==
    IF gap[o] > HeartbeatInterval \/ drift[o] > DriftLimit THEN StaleOwner ELSE blocked[o]

RenewedBlock(o) ==
    IF gap[o] > StaleOwner \/ drift[o] > DriftLimit THEN StaleOwner ELSE blocked[o]

ReadClocks(o) ==
    /\ mode[o] = "running"
    /\ reading[o] = None
    /\ blocked' = [blocked EXCEPT ![o] = RenewedBlock(o)]
    /\ reading' = [reading EXCEPT ![o] =
                     [wall |-> 0, mono |-> 0, mayReclaim |-> RenewedBlock(o) = 0]]
    /\ UNCHANGED <<mode, beatAge, gap, drift, sleeps, prompt>>

(***************************************************************************)
(* A window opens: lastMaintenanceAt is now, and stale cleanup is blocked  *)
(* for one interval; the first heartbeat has then read the same clocks.    *)
(***************************************************************************)
Start(o) ==
    /\ mode[o] = "off"
    /\ mode' = [mode EXCEPT ![o] = "running"]
    /\ gap' = [gap EXCEPT ![o] = 0]
    /\ drift' = [drift EXCEPT ![o] = 0]
    /\ blocked' = [blocked EXCEPT ![o] = StaleOwner]
    /\ reading' = [reading EXCEPT ![o] = [wall |-> 0, mono |-> 0, mayReclaim |-> FALSE]]
    /\ prompt' = prompt \cup {o}
    /\ UNCHANGED <<beatAge, sleeps>>

(***************************************************************************)
(* silentButAlive, as o judges p. processAlive asks the system about the   *)
(* recorded pid: an exited owner's pid may have been given to another      *)
(* process (pidReused).                                                    *)
(***************************************************************************)
SilentButAlive(o, p, pidReused) ==
    /\ HostOf[p] = HostOf[o]
    /\ beatAge[p] <= LiveOwnerGrace
    /\ Awake(p) \/ pidReused

(***************************************************************************)
(* The transaction: the row gets the wall time read before, then the stale *)
(* owners are found with the time of now. Afterwards both clock readings   *)
(* become the last maintenance.                                            *)
(***************************************************************************)
Reclaimed(o, pidReused) ==
    {p \in Owner \ {o} :
        /\ reading[o].mayReclaim
        /\ beatAge[p] # None
        /\ beatAge[p] > StaleOwner
        /\ ~SilentButAlive(o, p, pidReused)}

Commit(o, pidReused) ==
    /\ mode[o] = "running"
    /\ reading[o] # None
    /\ beatAge' = [p \in Owner |-> IF p = o THEN reading[o].wall
                                   ELSE IF p \in Reclaimed(o, pidReused) THEN None
                                   ELSE beatAge[p]]
    /\ gap' = [gap EXCEPT ![o] = Cap(reading[o].mono, MaxGap)]
    /\ drift' = [drift EXCEPT ![o] =
                   Cap(Less(reading[o].wall, reading[o].mono), DriftLimit + 1)]
    /\ reading' = [reading EXCEPT ![o] = None]
    /\ UNCHANGED <<mode, blocked, sleeps, prompt>>

(***************************************************************************)
(* d units pass on the wall clock and m on the monotonic clock.            *)
(***************************************************************************)
Pass(d, m) ==
    /\ beatAge' = [o \in Owner |-> IF beatAge[o] = None THEN None
                                   ELSE Cap(beatAge[o] + d, MaxAge)]
    /\ gap' = [o \in Owner |-> IF Awake(o) THEN Cap(gap[o] + m, MaxGap) ELSE gap[o]]
    /\ drift' = [o \in Owner |-> IF Awake(o) THEN Cap(drift[o] + Less(d, m), DriftLimit + 1)
                                 ELSE drift[o]]
    /\ blocked' = [o \in Owner |-> IF Awake(o) THEN Less(blocked[o], m) ELSE blocked[o]]
    /\ reading' = [o \in Owner |->
                     IF reading[o] = None THEN None
                     ELSE [reading[o] EXCEPT !.wall = Cap(@ + d, MaxAge),
                                             !.mono = Cap(@ + m, MaxAge)]]

(***************************************************************************)
(* A running window is on time: its timer fires within the interval, and   *)
(* its transaction gets the write lock within the busy timeout.            *)
(***************************************************************************)
Tick ==
    /\ \A o \in Owner : mode[o] = "running" =>
         IF reading[o] = None THEN gap[o] < HeartbeatInterval
                              ELSE reading[o].mono < BusyTimeout
    /\ Pass(1, 1)
    /\ UNCHANGED <<mode, sleeps, prompt>>

\* The machine sleeps; counted says whether the monotonic clock counts it.
Sleep(d, counted) ==
    /\ sleeps < MaxSleeps
    /\ SleepInHandler \/ \A o \in Owner : reading[o] = None
    /\ sleeps' = sleeps + 1
    /\ Pass(d, IF counted THEN d ELSE 0)
    /\ UNCHANGED <<mode, prompt>>

\* one process alone is stopped or starved, and later goes on
Pause(o) ==
    /\ mode[o] = "running"
    /\ mode' = [mode EXCEPT ![o] = "paused"]
    /\ prompt' = prompt \ {o}
    /\ UNCHANGED <<beatAge, gap, drift, blocked, reading, sleeps>>

Resume(o) ==
    /\ mode[o] = "paused"
    /\ mode' = [mode EXCEPT ![o] = "running"]
    /\ UNCHANGED <<beatAge, gap, drift, blocked, reading, sleeps, prompt>>

Exit(o) ==
    /\ Awake(o)
    /\ mode' = [mode EXCEPT ![o] = "exited"]
    /\ gap' = [gap EXCEPT ![o] = 0]
    /\ drift' = [drift EXCEPT ![o] = 0]
    /\ blocked' = [blocked EXCEPT ![o] = 0]
    /\ reading' = [reading EXCEPT ![o] = None]
    /\ prompt' = prompt \ {o}
    /\ UNCHANGED <<beatAge, sleeps>>

Next ==
    \/ \E o \in Owner :
         \/ Start(o) \/ ReadClocks(o) \/ Pause(o) \/ Resume(o) \/ Exit(o)
         \/ \E pidReused \in BOOLEAN : Commit(o, pidReused)
    \/ Tick
    \/ \E d \in SleepLengths, counted \in BOOLEAN : Sleep(d, counted)

Spec == Init /\ [][Next]_vars

-----------------------------------------------------------------------------
(***************************************************************************)
(* Properties.                                                             *)
(***************************************************************************)
Reading == [wall : 0 .. MaxAge, mono : 0 .. MaxAge, mayReclaim : BOOLEAN]

\* Every age stays within its cap.
TypeOK ==
    /\ mode \in [Owner -> {"off", "running", "paused", "exited"}]
    /\ beatAge \in [Owner -> (0 .. MaxAge) \cup {None}]
    /\ gap \in [Owner -> 0 .. MaxGap]
    /\ drift \in [Owner -> 0 .. DriftLimit + 1]
    /\ blocked \in [Owner -> 0 .. StaleOwner]
    /\ reading \in [Owner -> Reading \cup {None}]
    /\ sleeps \in 0 .. MaxSleeps
    /\ prompt \subseteq Owner

\* An owner that renews itself on time whenever the machine is awake is never
\* reclaimed, however often the machine slept for more than staleOwnerMs and
\* whichever window was opened or woke first: the others wait for its heartbeat.
PromptOwnersAreKept ==
    [][\A o \in prompt : beatAge[o] # None => beatAge'[o] # None]_vars

(***************************************************************************)
(* Fairness: time passes; a window that runs again and again gets through  *)
(* its maintenance.                                                        *)
(***************************************************************************)
FairSpec ==
    /\ Spec
    /\ SF_vars(Tick)
    /\ \A o \in Owner : /\ SF_vars(ReadClocks(o))
                         /\ SF_vars(\E pidReused \in BOOLEAN : Commit(o, pidReused))

\* A window keeps up once its heartbeats are never again further apart than the
\* stale threshold allows: it may be paused for ever and ever, but each time
\* shortly enough that maintainOwners does not begin a new grace interval.
KeepsUp(s) ==
    <>[](Awake(s) /\ gap[s] <= StaleOwner /\ drift[s] <= DriftLimit)

\* As soon as one window keeps up, the row of every window that exited is
\* reclaimed in the end: the grace intervals that sleeps and earlier pauses began
\* run out, the short pauses that go on begin no new ones, and another process
\* that got the pid protects the row for liveOwnerGraceMs only.
ExitedOwnersAreReclaimed ==
    (\E s \in Owner : KeepsUp(s)) => \A o \in Owner : mode[o] = "exited" ~> beatAge[o] = None
=============================================================================
