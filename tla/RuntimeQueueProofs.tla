------------------------- MODULE RuntimeQueueProofs -------------------------
EXTENDS RuntimeQueue, SequenceTheorems, TLAPS

(***************************************************************************)
(* The inductive invariant, in eight parts.                                *)
(***************************************************************************)

QueuedOnce(q) == \A i, j \in 1 .. Len(q) : q[i] = q[j] => i = j

\* A message is queued at most once; one that was never sent has not run.
QueueOK ==
    /\ QueuedOnce(queuedMessages)
    /\ ClaimNamesQueued
    /\ \A m \in Message : fate[m] = "unsent" => starts[m] = 0

\* The drain has a message from its claim to the end of its failure handling.
Executing == {"prepare", "running", "returned", "adopting", "finalizing"}
Settling == {"returned", "adopting", "finalizing"}

\* The run in flight is the drain's or a resumed one, and nobody else's
\* checkpoint exists beside it.
RunOK ==
    /\ operation.by = "none" => operation = NoOperation
    /\ operation.by # "none" =>
         /\ operation.msg \in Message
         /\ fate[operation.msg] # "unsent"
         /\ operation.at # "none"
         /\ resumableWorkflow \in {operation.msg, None}
         /\ operation.at = "preflight" \/ operation.by = "resume" => operation.msg \in Pipeline
    /\ operation.by = "drain" <=> drain.at = "running"
    /\ operation.by = "drain" =>
         /\ operation.msg = drain.msg
         /\ drain.accepted <=> operation.at = "working"
         /\ operation.at = "preflight" => resumableWorkflow = None
    /\ operation.by = "resume" => ~Queued(operation.msg)

\* What the drain knows of its message.
DrainOK ==
    /\ drain.at \in Executing \cup {"claiming"} =>
         drain.msg \in Message /\ fate[drain.msg] # "unsent"
    /\ drain.at \in {"claiming", "prepare"} =>
         resumableWorkflow = None /\ operation = NoOperation /\ ~drain.accepted
    /\ drain.at = "claiming" => queueStartClaim = None
    /\ drain.at \in Executing => queueStartClaim \in {None, drain.msg}
    /\ drain.at \in Settling => drain.accepted
    /\ drain.at = "adopting" => resumableWorkflow = drain.msg \/ drain.msg \in closed
    /\ drain.at = "pausing" /\ ~drain.pause => queueStartClaim = None

\* What the flows beside the drain know of the checkpoint.
CallersOK ==
    /\ \A c \in Caller : caller[c].at \in {"adopt", "takeOver"} =>
         /\ caller[c].msg \in Message
         /\ resumableWorkflow = caller[c].msg \/ caller[c].msg \in closed
    /\ \A c \in Caller \ {"workflow"} : caller[c].at \notin {"takeOver", "start"}
    /\ resumableWorkflow # None => fate[resumableWorkflow] # "unsent"
    /\ caller["workflow"].at # "idle" =>
         operation = NoOperation /\ drain.at \notin Settling
    /\ caller["workflow"].at = "takeOver" =>
         resumableWorkflow \in {caller["workflow"].msg, None}
    /\ caller["workflow"].at \in {"reconcile", "adopt", "clear", "start"}
         /\ resumableWorkflow # None => ~Queued(resumableWorkflow)

\* The drain has yet to run its message.
Pending == drain.at = "prepare" \/ (drain.at = "running" /\ ~drain.accepted)

\* Nothing runs twice unless its claim was dropped in the open.
StartsOK ==
    /\ StartedOncePerOffer
    /\ \A m \in Message : Queued(m) /\ queueStartClaim # m => starts[m] <= offers[m]
    /\ drain.at = "claiming" \/ Pending => starts[drain.msg] <= offers[drain.msg]
    /\ Pending /\ Queued(drain.msg) /\ queueStartClaim # drain.msg
         => starts[drain.msg] < offers[drain.msg]
    /\ Pending /\ fate[drain.msg] = "cancelled" => offers[drain.msg] > 0
    /\ drain.at = "pausing" /\ ~drain.retain /\ queueStartClaim # None
         => starts[queueStartClaim] <= offers[queueStartClaim]

\* A claim nobody works on waits for a person, and so does the queue unless
\* somebody is about to call the drain.
CallsOK ==
    /\ queueStartClaim # None =>
         queuePaused \/ missed \/ drain.at \in Executing \cup {"pausing"}
    /\ drain.at = "idle" =>
         \/ queuedMessages = <<>> \/ queuePaused \/ missed
         \/ owed # {} \/ operation # NoOperation
         \/ caller["interrupt"].at # "idle" \/ caller["mutation"].at # "idle"

FlowOK == QueueOK /\ RunOK /\ DrainOK /\ CallersOK /\ NothingVanishes /\ StartsOK /\ CallsOK

IInv == TypeOK /\ FlowOK

-----------------------------------------------------------------------------
(***************************************************************************)
(* The queue as a sequence: what leaving it, joining it and moving to its  *)
(* head do to the messages it holds.                                       *)
(***************************************************************************)

\* Without(m) is the rest of a queue that holds m once.
LEMMA RemovalFromQueue ==
    ASSUME NEW q \in Seq(Message), QueuedOnce(q), NEW m \in Message, Contains(q, m)
    PROVE  /\ RemoveFirst(q, m) \in Seq(Message)
           /\ QueuedOnce(RemoveFirst(q, m))
           /\ \A x \in Message : Contains(RemoveFirst(q, m), x) <=> Contains(q, x) /\ x # m
<1>1. PICK k \in 1 .. Len(q) : q[k] = m
  BY DEF Contains
<1>2. {i \in 1 .. Len(q) : q[i] = m} = {k}
  BY <1>1 DEF QueuedOnce
<1>3. RemoveFirst(q, m) = RemoveAt(q, k)
  BY <1>1, <1>2 DEF RemoveFirst, SelectInSeq, Min
<1> DEFINE r == RemoveAt(q, k)
<1> DEFINE s == SubSeq(q, 1, k - 1)
           t == SubSeq(q, k + 1, Len(q))
<1>4. Len(q) \in Nat /\ k \in Int /\ \A i \in 1 .. Len(q) : q[i] \in Message
  OBVIOUS
<1>5. /\ s \in Seq(Message) /\ Len(s) = k - 1
      /\ \A i \in 1 .. k - 1 : s[i] = q[i]
  <2>1. \A i \in 1 .. k - 1 : q[i] \in Message
    BY <1>4
  <2>2. /\ s \in Seq(Message)
        /\ Len(s) = IF 1 <= k - 1 THEN (k - 1) - 1 + 1 ELSE 0
        /\ \A i \in 1 .. (k - 1) - 1 + 1 : s[i] = q[1 + i - 1]
    BY <2>1, <1>4, SubSeqProperties
  <2> QED
    BY <2>2, <1>4
<1>6. /\ t \in Seq(Message) /\ Len(t) = Len(q) - k
      /\ \A i \in 1 .. Len(q) - k : t[i] = q[k + i]
  <2>1. \A i \in k + 1 .. Len(q) : q[i] \in Message
    BY <1>4
  <2>2. /\ t \in Seq(Message)
        /\ Len(t) = IF k + 1 <= Len(q) THEN Len(q) - (k + 1) + 1 ELSE 0
        /\ \A i \in 1 .. Len(q) - (k + 1) + 1 : t[i] = q[(k + 1) + i - 1]
    BY <2>1, <1>4, SubSeqProperties
  <2> QED
    BY <2>2, <1>4
<1>7. r = s \o t
  BY DEF RemoveAt
<1> HIDE DEF r, s, t
<1>8. /\ r \in Seq(Message) /\ Len(r) = Len(q) - 1
      /\ \A i \in 1 .. Len(s) + Len(t) : r[i] = IF i <= Len(s) THEN s[i] ELSE t[i - Len(s)]
  <2>1. s \in Seq(Message) /\ t \in Seq(Message)
    BY <1>5, <1>6
  <2>2. /\ s \o t \in Seq(Message)
        /\ Len(s \o t) = Len(s) + Len(t)
        /\ \A i \in 1 .. Len(s) + Len(t) :
             (s \o t)[i] = IF i <= Len(s) THEN s[i] ELSE t[i - Len(s)]
    BY <2>1, ConcatProperties
  <2>3. Len(s) + Len(t) = Len(q) - 1
    BY <1>4, <1>5, <1>6
  <2> QED
    BY <2>2, <2>3, <1>7
<1>9. \A i \in 1 .. Len(r) : r[i] = IF i < k THEN q[i] ELSE q[i + 1]
  <2> SUFFICES ASSUME NEW i \in 1 .. Len(r) PROVE r[i] = IF i < k THEN q[i] ELSE q[i + 1]
    OBVIOUS
  <2>1. i \in 1 .. Len(s) + Len(t)
    BY <1>4, <1>5, <1>6, <1>8
  <2>2. r[i] = IF i <= Len(s) THEN s[i] ELSE t[i - Len(s)]
    BY <2>1, <1>8
  <2>3. CASE i < k
    BY <2>2, <2>3, <1>4, <1>5
  <2>4. CASE ~(i < k)
    <3>1. i - Len(s) = i - k + 1 /\ i - k + 1 \in 1 .. Len(q) - k /\ ~(i <= Len(s))
      BY <2>4, <1>4, <1>5, <1>8
    <3>2. r[i] = t[i - k + 1]
      BY <2>2, <3>1
    <3>3. t[i - k + 1] = q[k + (i - k + 1)]
      BY <3>1, <1>6
    <3>4. k + (i - k + 1) = i + 1
      BY <1>4
    <3> QED
      BY <2>4, <3>2, <3>3, <3>4
  <2> QED
    BY <2>3, <2>4
<1>10. QueuedOnce(r)
  BY <1>1, <1>8, <1>9 DEF QueuedOnce
<1>11. ASSUME NEW x \in Message, Contains(r, x) PROVE Contains(q, x) /\ x # m
  <2>1. PICK i \in 1 .. Len(r) : r[i] = x
    BY <1>11 DEF Contains
  <2>2. CASE i < k
    <3>1. i \in 1 .. Len(q) /\ q[i] = x /\ i # k
      BY <1>4, <1>8, <1>9, <2>1, <2>2
    <3> QED
      BY <3>1, <1>2 DEF Contains
  <2>3. CASE ~(i < k)
    <3>1. i + 1 \in 1 .. Len(q) /\ q[i + 1] = x /\ i + 1 # k
      BY <1>1, <1>8, <1>9, <2>1, <2>3
    <3> QED
      BY <3>1, <1>2 DEF Contains
  <2> QED
    BY <2>2, <2>3
<1>12. ASSUME NEW x \in Message, Contains(q, x), x # m PROVE Contains(r, x)
  <2>1. PICK i \in 1 .. Len(q) : q[i] = x
    BY <1>12 DEF Contains
  <2>2. CASE i < k
    BY <1>1, <1>8, <1>9, <2>1, <2>2 DEF Contains
  <2>3. CASE i > k
    <3>1. i - 1 \in 1 .. Len(r) /\ r[i - 1] = x
      BY <1>1, <1>8, <1>9, <2>1, <2>3
    <3> QED
      BY <3>1 DEF Contains
  <2>4. i # k
    BY <2>1, <1>1, <1>12
  <2> QED
    BY <2>1, <2>2, <2>3, <2>4, <1>1
<1> QED
  BY <1>3, <1>8, <1>10, <1>11, <1>12 DEF r

\* A message that joins at the end.
LEMMA AdditionToQueue ==
    ASSUME NEW q \in Seq(Message), QueuedOnce(q), NEW m \in Message, ~Contains(q, m)
    PROVE  /\ Append(q, m) \in Seq(Message)
           /\ QueuedOnce(Append(q, m))
           /\ \A x \in Message : Contains(Append(q, m), x) <=> Contains(q, x) \/ x = m
<1> DEFINE r == Append(q, m)
<1>1. /\ r \in Seq(Message) /\ Len(r) = Len(q) + 1 /\ r[Len(q) + 1] = m
      /\ \A i \in 1 .. Len(q) : r[i] = q[i]
  OBVIOUS
<1>2. Len(q) \in Nat
  OBVIOUS
<1> HIDE DEF r
<1>3. \A i \in 1 .. Len(q) : q[i] # m
  BY DEF Contains
<1>4. QueuedOnce(r)
  BY <1>1, <1>2, <1>3 DEF QueuedOnce
<1>5. ASSUME NEW x \in Message PROVE Contains(r, x) <=> Contains(q, x) \/ x = m
  BY <1>1, <1>2 DEF Contains
<1> QED
  BY <1>1, <1>4, <1>5 DEF r

\* A message that is moved to the head.
LEMMA HeadOfQueue ==
    ASSUME NEW q \in Seq(Message), QueuedOnce(q), NEW m \in Message, ~Contains(q, m)
    PROVE  /\ <<m>> \o q \in Seq(Message)
           /\ QueuedOnce(<<m>> \o q)
           /\ \A x \in Message : Contains(<<m>> \o q, x) <=> Contains(q, x) \/ x = m
<1> DEFINE r == <<m>> \o q
<1>1. /\ r \in Seq(Message) /\ Len(r) = Len(q) + 1 /\ r[1] = m
      /\ \A i \in 2 .. Len(r) : r[i] = q[i - 1]
  OBVIOUS
<1>2. Len(q) \in Nat
  OBVIOUS
<1> HIDE DEF r
<1>3. \A i \in 1 .. Len(q) : q[i] # m
  BY DEF Contains
<1>4. QueuedOnce(r)
  <2>1. ASSUME NEW i \in 1 .. Len(r), NEW j \in 1 .. Len(r), r[i] = r[j] PROVE i = j
    <3>1. CASE i = 1 /\ j = 1
      BY <3>1
    <3>2. CASE i # 1 /\ j # 1
      <4>1. i - 1 \in 1 .. Len(q) /\ j - 1 \in 1 .. Len(q) /\ q[i - 1] = q[j - 1]
        BY <2>1, <3>2, <1>1, <1>2
      <4>2. i - 1 = j - 1
        BY <4>1 DEF QueuedOnce
      <4> QED
        BY <4>2, <1>1, <1>2
    <3>3. CASE i = 1 /\ j # 1
      <4>1. j - 1 \in 1 .. Len(q) /\ q[j - 1] = m
        BY <2>1, <3>3, <1>1, <1>2
      <4> QED
        BY <4>1, <1>3
    <3>4. CASE i # 1 /\ j = 1
      <4>1. i - 1 \in 1 .. Len(q) /\ q[i - 1] = m
        BY <2>1, <3>4, <1>1, <1>2
      <4> QED
        BY <4>1, <1>3
    <3> QED
      BY <3>1, <3>2, <3>3, <3>4
  <2> QED
    BY <2>1 DEF QueuedOnce
<1>5. ASSUME NEW x \in Message PROVE Contains(r, x) <=> Contains(q, x) \/ x = m
  <2>1. ASSUME NEW i \in 1 .. Len(r), r[i] = x PROVE Contains(q, x) \/ x = m
    <3>1. CASE i = 1
      BY <2>1, <3>1, <1>1
    <3>2. CASE i # 1
      <4>1. i - 1 \in 1 .. Len(q) /\ q[i - 1] = x
        BY <2>1, <3>2, <1>1, <1>2
      <4> QED
        BY <4>1 DEF Contains
    <3> QED
      BY <3>1, <3>2
  <2>2. ASSUME NEW i \in 1 .. Len(q), q[i] = x PROVE Contains(r, x)
    <3>1. i + 1 \in 2 .. Len(r) /\ r[i + 1] = x
      BY <2>2, <1>1, <1>2
    <3> QED
      BY <3>1, <1>1, <1>2 DEF Contains
  <2>3. x = m => Contains(r, x)
    BY <1>1, <1>2 DEF Contains
  <2> QED
    BY <2>1, <2>2, <2>3 DEF Contains
<1> QED
  BY <1>1, <1>4, <1>5 DEF r

\* The empty queue holds nothing; the head of another one is queued.
LEMMA EmptyQueue ==
    ASSUME NEW q \in Seq(Message)
    PROVE  /\ \A x : Contains(q, x) => q # <<>>
           /\ q # <<>> => Head(q) \in Message /\ Contains(q, Head(q))
<1>1. \A x : Contains(q, x) => q # <<>>
  BY DEF Contains
<1>2. q # <<>> => Head(q) \in Message /\ Contains(q, Head(q))
  BY DEF Contains
<1> QED
  BY <1>1, <1>2

-----------------------------------------------------------------------------
(***************************************************************************)
(* Types.                                                                  *)
(***************************************************************************)

\* What the assumption says of the constants, and the typing of the empty records.
LEMMA Constants ==
    /\ None \notin Message /\ Pipeline \subseteq Message
    /\ NoDrain \in DrainType /\ NoOperation \in OperationType /\ NoCall \in CallType
<1>1. None \notin Message /\ Pipeline \subseteq Message
  BY QueueAssumption
<1>2. NoDrain \in DrainType
  BY DEF NoDrain, DrainType
<1>3. NoOperation \in OperationType
  BY DEF NoOperation, OperationType
<1>4. NoCall \in CallType
  BY DEF NoCall, CallType
<1> QED
  BY <1>1, <1>2, <1>3, <1>4

\* The places of a call.
Places == {"idle", "prepare", "abort", "discard", "reconcile", "adopt", "takeOver",
           "clear", "unpause", "pause", "cancel", "promote", "start"}

\* The transitions of the queue, by the message that leaves it.
LEMMA LeavingKeepsTypes ==
    ASSUME TypeOK, QueueOK, NEW m \in Message, Queued(m),
           \/ Completion(m) \/ Cancellation(m) \/ Supersession(m) \/ RecoveryAdoption(m)
    PROVE  /\ queuedMessages' \in Seq(Message)
           /\ queuePaused' \in BOOLEAN
           /\ queueStartClaim' \in Message \cup {None}
           /\ fate' \in [Message -> Fates]
<1>1. queuedMessages' = RemoveFirst(queuedMessages, m)
  BY DEF Completion, Cancellation, Supersession, RecoveryAdoption, CommitQueue, Without
<1>2. queuedMessages' \in Seq(Message)
  BY <1>1, RemovalFromQueue DEF TypeOK, QueueOK, Queued
<1>3. queuePaused' \in BOOLEAN /\ queueStartClaim' \in Message \cup {None}
  BY DEF TypeOK, Completion, Cancellation, Supersession, RecoveryAdoption, CommitQueue
<1>4. fate' \in [Message -> Fates]
  BY DEF TypeOK, Completion, Cancellation, Supersession, RecoveryAdoption, Fates
<1> QED
  BY <1>2, <1>3, <1>4

\* A claim counts an offer of the message.
LEMMA OfferKeepsTypes == TypeOK /\ OfferClaimed => offers' \in [Message -> Nat]
  BY DEF TypeOK, OfferClaimed

\* A call of the drain sets a whole drain record, or leaves it alone.
LEMMA DrainCallKeepsTypes ==
    ASSUME TypeOK, NEW paused, NEW at, DrainCall(paused, at)
    PROVE  drain' \in DrainType
  BY DEF TypeOK, DrainCall, NoDrain, DrainType

\* The end of an execution sets fields of the drain record.
LEMMA CaughtKeepsTypes ==
    ASSUME TypeOK, NEW accepted \in BOOLEAN, Caught(accepted) \/ ToPause(accepted)
    PROVE  drain' \in DrainType
  BY DEF TypeOK, Caught, ToPause, DrainType

\* A flow moves on, and gets a message or loses it.
LEMMA CallKeepsTypes ==
    ASSUME TypeOK, NEW c \in Caller, NEW r \in CallType, caller' = [caller EXCEPT ![c] = r]
    PROVE  caller' \in [Caller -> CallType]
  BY DEF TypeOK

\* A caller moves from one place to another.
LEMMA MoveKeepsTypes ==
    ASSUME TypeOK, NEW c \in Caller, NEW at \in Places, NEW m \in Message \cup {None},
           \/ caller' = [caller EXCEPT ![c].at = at]
           \/ caller' = [caller EXCEPT ![c].msg = m, ![c].at = at]
    PROVE  caller' \in [Caller -> CallType]
<1>1. caller[c] \in CallType
  BY DEF TypeOK
<1>2. [caller[c] EXCEPT !.at = at] \in CallType
  BY <1>1 DEF CallType, Places
<1>3. [[caller[c] EXCEPT !.msg = m] EXCEPT !.at = at] \in CallType
  BY <1>1 DEF CallType, Places
<1>4. CASE caller' = [caller EXCEPT ![c].at = at]
  BY <1>2, <1>4 DEF TypeOK
<1>5. CASE caller' = [caller EXCEPT ![c].msg = m, ![c].at = at]
  BY <1>3, <1>5 DEF TypeOK
<1> QED
  BY <1>4, <1>5

\* The end of a run.
LEMMA EndsKeepsTypes ==
    ASSUME TypeOK, NEW throws \in BOOLEAN, Ends(throws)
    PROVE  /\ operation' \in OperationType /\ drain' \in DrainType
           /\ caller' \in [Caller -> CallType] /\ missed' \in BOOLEAN
<1>1. operation' \in OperationType /\ missed' \in BOOLEAN
  BY Constants DEF TypeOK, Ends
<1>2. drain' \in DrainType
  <2>1. drain.accepted \in BOOLEAN
    BY DEF TypeOK, DrainType
  <2>2. CASE operation.by = "resume"
    BY <2>2, DrainCallKeepsTypes DEF Ends
  <2>3. CASE operation.by # "resume" /\ throws
    BY <2>1, <2>3, CaughtKeepsTypes DEF Ends
  <2>4. CASE operation.by # "resume" /\ ~throws
    BY <2>4 DEF Ends, TypeOK, DrainType
  <2> QED
    BY <2>2, <2>3, <2>4
<1>3. caller' \in [Caller -> CallType]
  <2>1. ASSUME NEW c \in Caller PROVE [caller[c] EXCEPT !.waits = FALSE] \in CallType
    <3>1. caller[c] \in CallType
      BY DEF TypeOK
    <3> QED
      BY <3>1 DEF CallType
  <2> QED
    BY <2>1 DEF Ends, Awake
<1> QED
  BY <1>1, <1>2, <1>3

\* A mutation that ends.
LEMMA MutationKeepsTypes ==
    ASSUME TypeOK, MutationDone \/ MutationThrows
    PROVE  /\ drain' \in DrainType /\ caller' \in [Caller -> CallType] /\ missed' \in BOOLEAN
           /\ MutationThrows => UNCHANGED <<queueVars, fate>>
<1>1. drain' \in DrainType
  <2>1. CASE MutationDone
    BY <2>1, DrainCallKeepsTypes DEF MutationDone
  <2>2. CASE MutationThrows
    BY <2>2 DEF MutationThrows, TypeOK
  <2> QED
    BY <2>1, <2>2
<1>2. caller' \in [Caller -> CallType]
  <2>1. "mutation" \in Caller /\ caller' = [caller EXCEPT !["mutation"] = NoCall]
    BY DEF MutationDone, MutationThrows, Caller
  <2> QED
    BY <2>1, Constants, CallKeepsTypes
<1>3. missed' \in BOOLEAN
  BY DEF MutationDone, MutationThrows, NoDrainScheduled, TypeOK
<1> QED
  BY <1>1, <1>2, <1>3 DEF MutationThrows

\* A delivery keeps the types.
LEMMA DeliveryTypes ==
    ASSUME TypeOK, QueueOK, NEW m \in Message,
           Enqueue(m) \/ EnqueueInterrupt(m) \/ DeliveryCalls(m)
    PROVE  TypeOK'
<1>1. CASE Enqueue(m)
  BY <1>1 DEF TypeOK, Enqueue, Admits, CommitQueue, Fates
<1>2. CASE EnqueueInterrupt(m)
  <2>1. "interrupt" \in Caller /\ "prepare" \in Places
    BY DEF Caller, Places
  <2>2. caller' \in [Caller -> CallType]
    BY <1>2, <2>1, MoveKeepsTypes DEF EnqueueInterrupt
  <2> QED
    BY <1>2, <2>2 DEF TypeOK, EnqueueInterrupt, Admits, CommitQueue, Fates
<1>3. CASE DeliveryCalls(m)
  <2>1. drain' \in DrainType
    BY <1>3, DrainCallKeepsTypes DEF DeliveryCalls
  <2> QED
    BY <1>3, <2>1 DEF TypeOK, DeliveryCalls, queueVars, ghosts
<1> QED
  BY <1>1, <1>2, <1>3

\* A person's request keeps the types.
LEMMA AskTypes == TypeOK /\ QueueOK /\ Ask => TypeOK'
<1> SUFFICES ASSUME TypeOK, QueueOK, Ask PROVE TypeOK'
  OBVIOUS
<1> USE Constants
<1>1. ASSUME NEW at \in {"cancel", "promote", "reconcile", "discard"},
             NEW m \in Message \cup {None}, StartMutation(at, m)
      PROVE  TypeOK'
  <2>1. "mutation" \in Caller /\ [[NoCall EXCEPT !.at = at] EXCEPT !.msg = m] \in CallType
    BY DEF Caller, CallType, NoCall
  <2>2. caller' \in [Caller -> CallType]
    BY <1>1, <2>1 DEF StartMutation, TypeOK
  <2> QED
    BY <1>1, <2>2 DEF TypeOK, StartMutation, queueVars, ghosts
<1>2. CASE AskWorkflow
  <2>1. resumableWorkflow \in Message \cup {None}
    BY DEF TypeOK
  <2>2. "workflow" \in Caller
        /\ [[NoCall EXCEPT !.at = "takeOver"] EXCEPT !.msg = resumableWorkflow] \in CallType
    BY <2>1 DEF Caller, CallType, NoCall
  <2>3. caller' \in [Caller -> CallType]
    BY <1>2, <2>2 DEF AskWorkflow, TypeOK
  <2> QED
    BY <1>2, <2>3 DEF TypeOK, AskWorkflow, queueVars, ghosts
<1> QED
  BY <1>1, <1>2 DEF Ask, AskCancel, AskPromote, AskResume, AskDiscard

\* The flow of an interrupt, and what the flows share.
LEMMA CallerTypes ==
    ASSUME TypeOK, QueueOK, NEW c \in Caller,
           \/ PrepareInterrupt \/ Supersede \/ InterruptDiscards \/ InterruptPauses
           \/ Reconcile(c) \/ Adopt(c) \/ ClearClaim(c) \/ Unpause(c) \/ CallerFails(c)
    PROVE  TypeOK'
<1> USE Constants
<1>1. /\ "interrupt" \in Caller /\ "workflow" \in Caller /\ "mutation" \in Caller
      /\ Places = Places \cup {"discard", "reconcile", "adopt", "clear", AfterReconcile(c)}
      /\ caller[c].msg \in Message \cup {None}
      /\ caller["interrupt"].msg \in Message \cup {None}
      /\ caller["interrupt"].pause \in BOOLEAN
  BY DEF Caller, Places, AfterReconcile, TypeOK, CallType
<1>2. CASE PrepareInterrupt
  <2>1. [at |-> "abort", msg |-> queueStartClaim, waits |-> operation # NoOperation,
         pause |-> FALSE] \in CallType
    BY DEF CallType, TypeOK
  <2>2. caller' \in [Caller -> CallType]
    BY <1>1, <1>2, <2>1, CallKeepsTypes DEF PrepareInterrupt
  <2>3. operation' \in OperationType
    BY <1>2 DEF PrepareInterrupt, TypeOK, OperationType
  <2> QED
    BY <1>2, <2>2, <2>3 DEF TypeOK, PrepareInterrupt, queueVars, ghosts
<1>3. CASE Supersede
  <2>1. caller' \in [Caller -> CallType]
    BY <1>1, <1>3, MoveKeepsTypes DEF Supersede, Move
  <2>2. /\ queuedMessages' \in Seq(Message) /\ queuePaused' \in BOOLEAN
        /\ queueStartClaim' \in Message \cup {None} /\ fate' \in [Message -> Fates]
    <3> DEFINE m == caller["interrupt"].msg
    <3>1. CASE m # None /\ (Queued(m) \/ queueStartClaim = m)
      <4>1. m \in Message /\ Queued(m) /\ Supersession(m)
        BY <1>1, <1>3, <3>1 DEF Supersede, QueueOK, ClaimNamesQueued
      <4> HIDE DEF m
      <4> QED
        BY <4>1, LeavingKeepsTypes
    <3>2. CASE ~(m # None /\ (Queued(m) \/ queueStartClaim = m))
      BY <1>3, <3>2 DEF Supersede, queueVars, TypeOK
    <3> QED
      BY <3>1, <3>2
  <2> QED
    BY <1>3, <2>1, <2>2 DEF TypeOK, Supersede
<1>4. CASE InterruptDiscards
  <2>1. caller' \in [Caller -> CallType]
    BY <1>1, <1>4, MoveKeepsTypes DEF InterruptDiscards, Move
  <2> QED
    BY <1>4, <2>1 DEF TypeOK, InterruptDiscards, DiscardRecovery, queueVars
<1>5. CASE InterruptPauses
  <2>1. caller' \in [Caller -> CallType]
    BY <1>1, <1>5, CallKeepsTypes DEF InterruptPauses
  <2> QED
    BY <1>1, <1>5, <2>1 DEF TypeOK, InterruptPauses, CommitQueue, StalePause
<1>6. CASE Reconcile(c)
  <2>1. caller' \in [Caller -> CallType]
    <3>1. queueStartClaim \in Message \cup {None}
      BY DEF TypeOK
    <3> DEFINE at == IF queueStartClaim = None THEN AfterReconcile(c)
                     ELSE IF resumableWorkflow = queueStartClaim THEN "adopt" ELSE "clear"
    <3>2. at \in Places /\ caller' = [caller EXCEPT ![c].msg = queueStartClaim, ![c].at = at]
      BY <1>1, <1>6 DEF Reconcile
    <3> HIDE DEF at
    <3> QED
      BY <3>1, <3>2, MoveKeepsTypes
  <2> QED
    BY <1>6, <2>1 DEF TypeOK, Reconcile, queueVars, ghosts
<1>7. CASE Adopt(c)
  <2>1. caller' \in [Caller -> CallType]
    <3> DEFINE at == IF caller[c].at = "takeOver" THEN "reconcile"
                     ELSE IF Queued(caller[c].msg) THEN AfterReconcile(c) ELSE "clear"
    <3>1. at \in Places /\ caller' = [caller EXCEPT ![c].at = at]
      BY <1>1, <1>7 DEF Adopt, Move
    <3> HIDE DEF at
    <3> QED
      BY <3>1, <1>1, MoveKeepsTypes
  <2>2. /\ queuedMessages' \in Seq(Message) /\ queuePaused' \in BOOLEAN
        /\ queueStartClaim' \in Message \cup {None} /\ fate' \in [Message -> Fates]
        /\ offers' \in [Message -> Nat]
    <3> DEFINE m == caller[c].msg
    <3>1. CASE Queued(m)
      <4>1. m # None
        BY <3>1 DEF TypeOK, Queued, Contains
      <4>2. m \in Message /\ RecoveryAdoption(m) /\ OfferClaimed
        BY <1>1, <1>7, <3>1, <4>1 DEF Adopt
      <4> HIDE DEF m
      <4> QED
        BY <3>1, <4>2, LeavingKeepsTypes, OfferKeepsTypes
    <3>2. CASE ~Queued(m)
      BY <1>7, <3>2 DEF Adopt, queueVars, TypeOK
    <3> QED
      BY <3>1, <3>2
  <2> QED
    BY <1>7, <2>1, <2>2 DEF TypeOK, Adopt
<1>8. CASE ClearClaim(c)
  <2>1. caller' \in [Caller -> CallType]
    BY <1>1, <1>8, MoveKeepsTypes DEF ClearClaim, Move
  <2> QED
    BY <1>8, <2>1, OfferKeepsTypes DEF TypeOK, ClearClaim, CommitQueue
<1>9. CASE Unpause(c)
  <2>1. caller' \in [Caller -> CallType]
    BY <1>1, <1>9, CallKeepsTypes DEF Unpause
  <2>2. drain' \in DrainType
    BY <1>9, DrainCallKeepsTypes DEF Unpause
  <2> QED
    BY <1>9, <2>1, <2>2, OfferKeepsTypes DEF TypeOK, Unpause, CommitQueue
<1>10. CASE CallerFails(c)
  <2>1. [[NoCall EXCEPT !.at = "pause"] EXCEPT !.pause = queuedMessages # <<>>] \in CallType
    BY DEF CallType, NoCall
  <2>2. caller' \in [Caller -> CallType]
    BY <1>10, <2>1 DEF CallerFails, TypeOK
  <2> QED
    BY <1>10, <2>2 DEF TypeOK, CallerFails, NoDrainScheduled, queueVars, ghosts
<1> QED
  BY <1>2, <1>3, <1>4, <1>5, <1>6, <1>7, <1>8, <1>9, <1>10

\* A mutation of the queue keeps the types.
LEMMA MutationTypes ==
    ASSUME TypeOK, QueueOK, Cancel \/ Promote \/ Discard \/ ResumeWorkflow
    PROVE  TypeOK'
<1> USE Constants
<1> DEFINE m == caller["mutation"].msg
<1>1. CASE Cancel
  <2>1. CASE MutationThrows
    BY <1>1, <2>1, MutationKeepsTypes DEF TypeOK, Cancel, queueVars
  <2>2. CASE MayCancel(m) /\ Cancellation(m) /\ MutationDone
    <3>1. m \in Message /\ Queued(m)
      BY <2>2 DEF MayCancel, TypeOK, Queued, Contains
    <3>2. /\ queuedMessages' \in Seq(Message) /\ queuePaused' \in BOOLEAN
          /\ queueStartClaim' \in Message \cup {None} /\ fate' \in [Message -> Fates]
      <4> HIDE DEF m
      <4> QED
        BY <2>2, <3>1, LeavingKeepsTypes
    <3> QED
      BY <1>1, <2>2, <3>2, MutationKeepsTypes DEF TypeOK, Cancel
  <2> QED
    BY <1>1, <2>1, <2>2 DEF Cancel
<1>2. CASE Promote
  <2>1. CASE MutationThrows
    BY <1>2, <2>1, MutationKeepsTypes DEF TypeOK, Promote, queueVars
  <2>2. CASE /\ MayPromote(m) /\ fate' = fate /\ MutationDone
             /\ CommitQueue(<<m>> \o Without(m), queuePaused, queueStartClaim)
    <3>1. m \in Message /\ Queued(m)
      BY <2>2 DEF MayPromote, TypeOK, Queued, Contains
    <3>2. Without(m) \in Seq(Message) /\ QueuedOnce(Without(m)) /\ ~Contains(Without(m), m)
      <4> HIDE DEF m
      <4> QED
        BY <3>1, RemovalFromQueue DEF TypeOK, QueueOK, Queued, Without
    <3>3. queuedMessages' \in Seq(Message)
      <4>1. <<m>> \o Without(m) \in Seq(Message)
        <5> HIDE DEF m
        <5> QED
          BY <3>1, <3>2, HeadOfQueue
      <4> QED
        BY <2>2, <4>1 DEF CommitQueue
    <3> QED
      BY <1>2, <2>2, <3>3, MutationKeepsTypes DEF TypeOK, Promote, CommitQueue
  <2> QED
    BY <1>2, <2>1, <2>2 DEF Promote
<1>3. CASE Discard
  BY <1>3, MutationKeepsTypes DEF TypeOK, Discard, DiscardRecovery, queueVars
<1>4. CASE ResumeWorkflow
  <2>1. "workflow" \in Caller /\ "idle" \in Places
    BY DEF Caller, Places
  <2>2. caller' \in [Caller -> CallType]
    BY <1>4, <2>1, MoveKeepsTypes DEF ResumeWorkflow, Move
  <2>3. operation' \in OperationType
    BY <1>4 DEF ResumeWorkflow, TypeOK, OperationType
  <2> QED
    BY <1>4, <2>2, <2>3 DEF TypeOK, ResumeWorkflow, queueVars, ghosts
<1> QED
  BY <1>1, <1>2, <1>3, <1>4

\* A step of a run keeps the types.
LEMMA RunTypes == TypeOK /\ RunOK /\ (RunStep \/ FailRun) => TypeOK'
<1> SUFFICES ASSUME TypeOK, RunOK, RunStep \/ FailRun PROVE TypeOK'
  OBVIOUS
<1>1. CASE AcceptRun
  <2>1. /\ operation.msg \in Pipeline /\ operation.msg \in Message
        /\ drain \in DrainType /\ operation \in OperationType
    BY <1>1, Constants DEF TypeOK, OperationType, AcceptRun, RunOK, NoOperation
  <2>2. drain' \in DrainType /\ operation' \in OperationType
    BY <1>1, <2>1 DEF AcceptRun, DrainType, OperationType
  <2>3. starts' \in [Message -> Nat]
    <3>1. starts[operation.msg] + 1 \in Nat
      BY <2>1 DEF TypeOK
    <3> QED
      BY <1>1, <3>1 DEF TypeOK, AcceptRun
  <2> QED
    BY <1>1, <2>1, <2>2, <2>3 DEF TypeOK, AcceptRun, queueVars
<1>2. ASSUME CompleteRun \/ StopRun \/ FailRun PROVE TypeOK'
  <2>1. PICK throws \in BOOLEAN : Ends(throws)
    BY <1>2 DEF CompleteRun, StopRun, FailRun
  <2>2. /\ operation' \in OperationType /\ drain' \in DrainType
        /\ caller' \in [Caller -> CallType] /\ missed' \in BOOLEAN
    BY <2>1, EndsKeepsTypes
  <2>3. resumableWorkflow' \in Pipeline \cup {None} /\ closed' \subseteq Message
    BY <1>2, Constants DEF CompleteRun, StopRun, FailRun, TypeOK, ghosts
  <2> QED
    BY <1>2, <2>2, <2>3 DEF TypeOK, CompleteRun, StopRun, FailRun, queueVars, ghosts
<1> QED
  BY <1>1, <1>2 DEF RunStep

\* A step of the drain keeps the types.
LEMMA DrainTypes ==
    ASSUME TypeOK, QueueOK, DrainOK, DrainStep \/ DrainFails \/ ExecutionRefused
    PROVE  TypeOK'
<1> USE Constants
<1> DEFINE m == drain.msg
<1>1. /\ drain \in DrainType /\ drain.msg \in Message \cup {None}
      /\ drain.pause \in BOOLEAN
      /\ drain.at \in Executing => drain.msg \in Message
  BY DEF TypeOK, DrainType, DrainOK
<1>2. CASE Loop
  <2>1. queuedMessages # <<>> => Head(queuedMessages) \in Message
    BY EmptyQueue DEF TypeOK
  <2>2. drain' \in DrainType
    BY <1>2, <2>1 DEF Loop, NoDrain, DrainType
  <2> QED
    BY <1>2, <2>2 DEF TypeOK, Loop, queueVars, ghosts
<1>3. CASE Claim
  <2>1. drain' \in DrainType
    <3>1. CASE Caught(FALSE)
      BY <3>1, CaughtKeepsTypes
    <3>2. CASE ~Caught(FALSE)
      BY <1>1, <1>3, <3>2 DEF Claim, NoDrain, DrainType
    <3> QED
      BY <3>1, <3>2
  <2>2. Queued(m) => m \in Message
    BY <1>1 DEF TypeOK, Queued, Contains
  <2> QED
    BY <1>3, <2>1, <2>2 DEF TypeOK, Claim, CommitQueue, queueVars, ghosts
<1>4. CASE Execute
  <2>1. m \in Message
    BY <1>1, <1>4 DEF Execute, Executing
  <2>2. operation' \in OperationType
    <3>1. [msg |-> m, by |-> "drain", at |-> FirstStage(m), stopped |-> FALSE] \in OperationType
      BY <2>1 DEF FirstStage, OperationType
    <3> QED
      BY <1>4, <3>1 DEF Execute, TypeOK
  <2>3. drain' \in DrainType
    <3>1. CASE Caught(TRUE)
      BY <3>1, CaughtKeepsTypes
    <3>2. CASE ~Caught(TRUE)
      BY <1>1, <1>4, <3>2 DEF Execute, DrainType
    <3> QED
      BY <3>1, <3>2
  <2>4. starts' \in [Message -> Nat]
    <3>1. starts[m] + 1 \in Nat
      BY <2>1 DEF TypeOK
    <3>2. starts' \in {starts, [starts EXCEPT ![m] = starts[m] + 1]}
      BY <1>4 DEF Execute
    <3> QED
      BY <3>1, <3>2 DEF TypeOK
  <2> QED
    BY <1>4, <2>2, <2>3, <2>4 DEF TypeOK, Execute, queueVars
<1>5. CASE ExecutionRefused
  <2>1. drain' \in DrainType
    BY <1>5, CaughtKeepsTypes DEF ExecutionRefused
  <2> QED
    BY <1>5, <2>1 DEF TypeOK, ExecutionRefused, queueVars, ghosts
<1>6. ASSUME Finalize \/ AdoptFailed \/ FinalizeFailed PROVE TypeOK'
  <2>1. m \in Message
    BY <1>1, <1>6 DEF Finalize, AdoptFailed, FinalizeFailed, Executing
  <2>2. /\ queuedMessages' \in Seq(Message) /\ queuePaused' \in BOOLEAN
        /\ queueStartClaim' \in Message \cup {None} /\ fate' \in [Message -> Fates]
    <3>1. CASE Queued(m) /\ (Completion(m) \/ RecoveryAdoption(m))
      <4> HIDE DEF m
      <4> QED
        BY <2>1, <3>1, LeavingKeepsTypes
    <3>2. CASE UNCHANGED <<queueVars, fate>>
      BY <3>2 DEF TypeOK, queueVars
    <3> QED
      BY <1>6, <3>1, <3>2 DEF Finalize, AdoptFailed, FinalizeFailed, MayComplete
  <2>3. drain' \in DrainType
    <3>1. CASE Caught(TRUE) \/ ToPause(TRUE)
      BY <3>1, CaughtKeepsTypes
    <3>2. CASE ToPause(FALSE)
      BY <3>2, CaughtKeepsTypes
    <3>3. CASE ~Caught(TRUE) /\ ~ToPause(TRUE) /\ ~ToPause(FALSE)
      BY <1>1, <1>6, <3>3 DEF Finalize, AdoptFailed, FinalizeFailed, Unsettled, NoDrain, DrainType
    <3> QED
      BY <3>1, <3>2, <3>3
  <2> QED
    BY <1>6, <2>2, <2>3 DEF TypeOK, Finalize, AdoptFailed, FinalizeFailed
<1>7. CASE Pause
  BY <1>1, <1>7 DEF TypeOK, Pause, CommitQueue, StalePause
<1>8. CASE DrainFails
  <2>1. drain' \in DrainType
    <3>1. CASE drain.at = "claiming"
      BY <1>8, <3>1, CaughtKeepsTypes DEF DrainFails
    <3>2. CASE drain.at = "returned"
      BY <1>8, <3>2, CaughtKeepsTypes DEF DrainFails
    <3>3. CASE drain.at = "adopting" /\ drain.accepted
      BY <1>1, <1>8, <3>3 DEF DrainFails, DrainType
    <3>4. CASE drain.at = "adopting" /\ ~drain.accepted
      BY <1>8, <3>4, CaughtKeepsTypes DEF DrainFails
    <3>5. CASE drain.at = "finalizing"
      BY <1>8, <3>5, CaughtKeepsTypes DEF DrainFails, Unsettled
    <3>6. CASE drain.at = "pausing"
      BY <1>8, <3>6 DEF DrainFails
    <3> QED
      BY <1>8, <3>1, <3>2, <3>3, <3>4, <3>5, <3>6 DEF DrainFails
  <2> QED
    BY <1>1, <1>8, <2>1 DEF TypeOK, DrainFails, StalePause, ghosts
<1> QED
  BY <1>2, <1>3, <1>4, <1>5, <1>6, <1>7, <1>8 DEF DrainStep

\* A restart, with or without a checkpoint whose message is still queued.
LEMMA RestartTypes == TypeOK /\ QueueOK /\ Restart => TypeOK'
<1> SUFFICES ASSUME TypeOK, QueueOK, Restart PROVE TypeOK'
  OBVIOUS
<1> USE Constants
<1> DEFINE m == resumableWorkflow
<1>1. /\ drain' \in DrainType /\ operation' \in OperationType
      /\ caller' \in [Caller -> CallType] /\ owed' = {} /\ missed' = FALSE
      /\ starts' = starts /\ queueStartClaim' = None /\ queuePaused' \in BOOLEAN
  BY DEF Restart, CommitQueue
<1>2. /\ resumableWorkflow' \in Pipeline \cup {None} /\ closed' \subseteq Message
      /\ fate' \in [Message -> Fates] /\ offers' \in [Message -> Nat]
  BY OfferKeepsTypes DEF Restart, TypeOK, Fates
<1>3. queuedMessages' \in Seq(Message)
  <2>1. CASE queuedMessages' = queuedMessages
    BY <2>1 DEF TypeOK
  <2>2. CASE m # None /\ Queued(m) /\ queuedMessages' = Without(m)
    <3>1. m \in Message
      BY <2>2 DEF TypeOK
    <3> HIDE DEF m
    <3> QED
      BY <2>2, <3>1, RemovalFromQueue DEF TypeOK, QueueOK, Queued, Without
  <2> QED
    BY <2>1, <2>2 DEF Restart, CommitQueue
<1> QED
  BY <1>1, <1>2, <1>3 DEF TypeOK

\* Every step keeps the types.
LEMMA TypeStep == TypeOK /\ QueueOK /\ RunOK /\ DrainOK /\ [Next]_vars => TypeOK'
<1> SUFFICES ASSUME TypeOK, QueueOK, RunOK, DrainOK, [Next]_vars PROVE TypeOK'
  OBVIOUS
<1>1. CASE UNCHANGED vars
  BY <1>1 DEF TypeOK, vars, queueVars, ghosts
<1>2. ASSUME NEW m \in Message, Enqueue(m) \/ EnqueueInterrupt(m) \/ DeliveryCalls(m)
      PROVE  TypeOK'
  BY <1>2, DeliveryTypes
<1>3. CASE Ask
  BY <1>3, AskTypes
<1>4. ASSUME NEW c \in Caller,
             \/ PrepareInterrupt \/ Supersede \/ InterruptDiscards \/ InterruptPauses
             \/ Reconcile(c) \/ Adopt(c) \/ ClearClaim(c) \/ Unpause(c) \/ CallerFails(c)
      PROVE  TypeOK'
  BY <1>4, CallerTypes
<1>5. ASSUME Cancel \/ Promote \/ Discard \/ ResumeWorkflow PROVE TypeOK'
  BY <1>5, MutationTypes
<1>6. CASE RunStep \/ FailRun
  BY <1>6, RunTypes
<1>7. CASE DrainStep \/ DrainFails \/ ExecutionRefused
  BY <1>7, DrainTypes
<1>8. CASE Restart
  BY <1>8, RestartTypes
<1>9. "interrupt" \in Caller
  BY DEF Caller
<1> QED
  BY <1>1, <1>2, <1>3, <1>4, <1>5, <1>6, <1>7, <1>8, <1>9 DEF Next, Deliver, CallerStep, Fault

-----------------------------------------------------------------------------
(***************************************************************************)
(* What the operations do to the rest of the invariant.                    *)
(***************************************************************************)

\* What leaves the queue leaves it for good, and its claim goes with it.
LEMMA Leaving ==
    ASSUME TypeOK, QueueOK, NEW m \in Message, Queued(m),
           \/ Completion(m) \/ Cancellation(m) \/ Supersession(m) \/ RecoveryAdoption(m)
    PROVE  /\ QueuedOnce(queuedMessages') /\ ClaimNamesQueued'
           /\ \A x \in Message : Contains(queuedMessages', x) <=>
                                   Contains(queuedMessages, x) /\ x # m
           /\ queueStartClaim' \in {None, queueStartClaim} \ {m}
           /\ fate'[m] \in {"completed", "cancelled", "superseded", "recoverable"}
           /\ \A x \in Message \ {m} : fate'[x] = fate[x]
<1>1. queuedMessages' = RemoveFirst(queuedMessages, m)
  BY DEF Completion, Cancellation, Supersession, RecoveryAdoption, CommitQueue, Without
<1>2. /\ QueuedOnce(queuedMessages')
      /\ \A x \in Message : Contains(queuedMessages', x) <=>
                              Contains(queuedMessages, x) /\ x # m
  BY <1>1, RemovalFromQueue DEF TypeOK, QueueOK, Queued
<1>3. queueStartClaim' \in {None, queueStartClaim} \ {m}
  BY Constants DEF Completion, Cancellation, Supersession, RecoveryAdoption, CommitQueue
<1>4. /\ fate'[m] \in {"completed", "cancelled", "superseded", "recoverable"}
      /\ \A x \in Message \ {m} : fate'[x] = fate[x]
  BY DEF TypeOK, Completion, Cancellation, Supersession, RecoveryAdoption
<1>5. ClaimNamesQueued'
  <2>1. queueStartClaim' # None => Contains(queuedMessages', queueStartClaim')
    BY <1>2, <1>3 DEF TypeOK, QueueOK, ClaimNamesQueued, Queued
  <2>2. \A x \in Message : fate'[x] = "queued" <=> Contains(queuedMessages', x)
    BY <1>2, <1>4 DEF QueueOK, ClaimNamesQueued, Queued
  <2> QED
    BY <2>1, <2>2 DEF ClaimNamesQueued, Queued
<1> QED
  BY <1>2, <1>3, <1>4, <1>5

\* A message enters a queue it is not in, and was never started before.
LEMMA EnqueueKeeps ==
    ASSUME IInv, NEW m \in Message, Enqueue(m) \/ EnqueueInterrupt(m)
    PROVE  FlowOK'
<1> USE Constants
<1>1. /\ TypeOK /\ QueueOK /\ fate[m] = "unsent" /\ starts[m] = 0
      /\ ~Contains(queuedMessages, m)
  BY DEF IInv, FlowOK, QueueOK, ClaimNamesQueued, Queued, Enqueue, EnqueueInterrupt, Admits
<1>2. queuedMessages' = Append(queuedMessages, m)
  BY DEF Enqueue, EnqueueInterrupt, CommitQueue
<1>3. /\ QueuedOnce(queuedMessages') /\ queuedMessages' \in Seq(Message)
      /\ \A x \in Message : Contains(queuedMessages', x) <=>
                              Contains(queuedMessages, x) \/ x = m
  BY <1>1, <1>2, AdditionToQueue DEF TypeOK, QueueOK
<1>4. /\ queueStartClaim' = queueStartClaim
      /\ fate'[m] = "queued" /\ \A x \in Message \ {m} : fate'[x] = fate[x]
      /\ UNCHANGED <<resumableWorkflow, drain, operation, starts, offers, closed, missed>>
  BY DEF IInv, TypeOK, Enqueue, EnqueueInterrupt, CommitQueue
<1>5. /\ \A c \in Caller : caller'[c].msg = caller[c].msg
      /\ \A c \in Caller \ {"interrupt"} : caller'[c] = caller[c]
      /\ \/ caller'["interrupt"].at = "prepare" /\ queuePaused'
         \/ caller' = caller /\ owed' # {} /\ queuePaused' = queuePaused
  <2>1. CASE Enqueue(m)
    BY <2>1 DEF Enqueue, CommitQueue
  <2>2. CASE EnqueueInterrupt(m)
    <3>1. /\ caller' = [caller EXCEPT !["interrupt"].at = "prepare"] /\ queuePaused'
          /\ "interrupt" \in Caller /\ caller \in [Caller -> CallType]
      BY <1>1, <2>2 DEF EnqueueInterrupt, CommitQueue, Caller, TypeOK
    <3>2. caller["interrupt"] \in CallType
      BY <3>1
    <3> QED
      BY <3>1, <3>2 DEF CallType
  <2> QED
    BY <2>1, <2>2
<1>6. QueueOK'
  BY <1>1, <1>3, <1>4 DEF TypeOK, QueueOK, ClaimNamesQueued, Queued
<1>7. RunOK'
  BY <1>1, <1>3, <1>4 DEF IInv, FlowOK, RunOK, Queued
<1>8. DrainOK'
  BY <1>1, <1>4 DEF IInv, FlowOK, DrainOK, Executing
<1>9. CallersOK'
  BY <1>1, <1>3, <1>4, <1>5 DEF IInv, TypeOK, FlowOK, CallersOK, Queued, Caller
<1>10. NothingVanishes'
  BY <1>1, <1>4 DEF IInv, FlowOK, NothingVanishes
<1>11. StartsOK'
  <2>1. Pending => drain.msg \in Message /\ drain.msg # m
    BY <1>1 DEF IInv, FlowOK, DrainOK, Pending, Executing
  <2> QED
    BY <1>1, <1>3, <1>4, <2>1
    DEF IInv, TypeOK, FlowOK, StartsOK, StartedOncePerOffer, Pending, Queued
<1>12. CallsOK'
  BY <1>1, <1>4, <1>5 DEF IInv, FlowOK, CallsOK
<1> QED
  BY <1>6, <1>7, <1>8, <1>9, <1>10, <1>11, <1>12 DEF FlowOK

\* What calls the drain without touching the queue: the end of a delivery.
LEMMA DeliveryCallsKeeps ==
    ASSUME IInv, NEW m \in Message, DeliveryCalls(m)
    PROVE  FlowOK'
<1> USE Constants DEF IInv, FlowOK, DeliveryCalls, DrainCall, NoDrain, queueVars, ghosts, Queued
<1>1. QueueOK'
  BY DEF QueueOK, ClaimNamesQueued
<1>2. RunOK'
  BY DEF RunOK
<1>3. DrainOK'
  BY DEF DrainOK, Executing, Settling
<1>4. CallersOK'
  BY DEF CallersOK, Settling
<1>5. NothingVanishes'
  BY DEF NothingVanishes
<1>6. StartsOK'
  BY DEF StartsOK, StartedOncePerOffer, Pending
<1>7. CallsOK'
  BY DEF CallsOK, Executing
<1> QED
  BY <1>1, <1>2, <1>3, <1>4, <1>5, <1>6, <1>7

\* A step that changes neither the queue nor what runs from it.
LEMMA QuietStep ==
    ASSUME IInv,
           UNCHANGED <<queuedMessages, queueStartClaim, resumableWorkflow, drain, operation,
                       ghosts>>
    PROVE  QueueOK' /\ RunOK' /\ DrainOK' /\ NothingVanishes' /\ StartsOK'
<1> USE DEF IInv, FlowOK, ghosts, Queued
<1>1. QueueOK'
  BY DEF QueueOK, ClaimNamesQueued
<1>2. RunOK'
  BY DEF RunOK
<1>3. DrainOK'
  BY DEF DrainOK
<1>4. NothingVanishes'
  BY DEF NothingVanishes
<1>5. StartsOK'
  BY DEF StartsOK, StartedOncePerOffer, Pending
<1> QED
  BY <1>1, <1>2, <1>3, <1>4, <1>5

\* A flow that moves on keeps its message; the others stay where they are.
LEMMA MoveIs ==
    ASSUME TypeOK, NEW c \in Caller, NEW at, Move(c, at)
    PROVE  /\ caller'[c].at = at /\ caller'[c].msg = caller[c].msg
           /\ \A b \in Caller \ {c} : caller'[b] = caller[b]
<1>1. caller[c] \in CallType /\ caller \in [Caller -> CallType]
  BY DEF TypeOK
<1> QED
  BY <1>1 DEF Move, CallType

\* A call of the drain starts an idle one and changes no other.
LEMMA DrainCallIs ==
    ASSUME NEW paused, NEW at, DrainCall(paused, at)
    PROVE  \/ drain' = drain /\ (at # "idle" \/ paused)
           \/ drain' = [NoDrain EXCEPT !.at = "loop"] /\ at = "idle" /\ ~paused
  BY DEF DrainCall

\* A request for a mutation only moves its caller.
LEMMA AskMutationKeeps ==
    ASSUME IInv, NEW at \in {"cancel", "promote", "reconcile", "discard"},
           NEW m \in Message \cup {None}, StartMutation(at, m)
    PROVE  FlowOK'
<1>1. QueueOK' /\ RunOK' /\ DrainOK' /\ NothingVanishes' /\ StartsOK'
  BY QuietStep DEF StartMutation, queueVars
<1>2. CallersOK'
  BY DEF IInv, TypeOK, FlowOK, CallersOK, Caller, Queued, StartMutation, NoCall, queueVars, ghosts
<1>3. CallsOK'
  BY DEF IInv, TypeOK, FlowOK, CallsOK, Caller, StartMutation, NoCall, queueVars
<1> QED
  BY <1>1, <1>2, <1>3 DEF FlowOK

\* A request to resume a workflow only moves its caller.
LEMMA AskWorkflowKeeps ==
    ASSUME IInv, AskWorkflow
    PROVE  FlowOK'
<1>1. QueueOK' /\ RunOK' /\ DrainOK' /\ NothingVanishes' /\ StartsOK'
  BY QuietStep DEF AskWorkflow, queueVars
<1>2. CallersOK'
  BY Constants
  DEF IInv, TypeOK, FlowOK, CallersOK, Settling, Caller, Queued, AskWorkflow, executionBusy,
      NoCall, queueVars, ghosts
<1>3. CallsOK'
  BY DEF IInv, TypeOK, FlowOK, CallsOK, Caller, AskWorkflow, NoCall, queueVars
<1> QED
  BY <1>1, <1>2, <1>3 DEF FlowOK

\* The preparation of an interrupt notes the claim and stops what runs; the queue stays.
LEMMA PrepareInterruptKeeps ==
    ASSUME IInv, PrepareInterrupt
    PROVE  FlowOK'
<1> USE Constants
    DEF IInv, FlowOK, TypeOK, PrepareInterrupt, NoOperation, Caller, queueVars, ghosts, Queued
<1>1. QueueOK'
  BY DEF QueueOK, ClaimNamesQueued
<1>2. RunOK'
  BY DEF RunOK, OperationType
<1>3. DrainOK'
  BY DEF DrainOK, RunOK, OperationType
<1>4. CallersOK'
  BY DEF CallersOK
<1>5. NothingVanishes'
  BY DEF NothingVanishes
<1>6. StartsOK'
  BY DEF StartsOK, StartedOncePerOffer, Pending
<1>7. CallsOK'
  BY DEF CallsOK, OperationType
<1> QED
  BY <1>1, <1>2, <1>3, <1>4, <1>5, <1>6, <1>7

\* What leaves the queue outside the drain was not in its hands, or was offered
\* again: it is not about to run without that.
LEMMA LeavingKeepsStarts ==
    ASSUME IInv, NEW m \in Message, Queued(m),
           \/ MayCancel(m) /\ Cancellation(m) /\ offers' = offers
           \/ Supersession(m) /\ offers' = offers
           \/ RecoveryAdoption(m) /\ OfferClaimed,
           starts' = starts,
           \/ drain' = drain
           \/ drain.at = "idle" /\ drain' = [NoDrain EXCEPT !.at = "loop"]
    PROVE  StartsOK'
<1> USE Constants DEF IInv, FlowOK
<1>1. /\ TypeOK /\ QueueOK
      /\ Completion(m) \/ Cancellation(m) \/ Supersession(m) \/ RecoveryAdoption(m)
  OBVIOUS
<1>2. /\ \A x \in Message : Contains(queuedMessages', x) <=>
                              Contains(queuedMessages, x) /\ x # m
      /\ queueStartClaim' \in {None, queueStartClaim} \ {m}
      /\ \A x \in Message \ {m} : fate'[x] = fate[x]
  <2> HIDE DEF IInv, FlowOK
  <2> QED
    BY <1>1, Leaving
<1>3. /\ \A x \in Message : starts[x] \in Nat /\ offers[x] \in Nat /\ offers'[x] \in Nat
      /\ \A x \in Message : offers'[x] >= offers[x]
      /\ queueStartClaim \in Message \cup {None}
  <2>1. \A x \in Message : starts[x] \in Nat /\ offers[x] \in Nat
    BY DEF TypeOK
  <2>2. \A x \in Message : offers'[x] \in {offers[x], offers[x] + 1}
    <3>1. CASE offers' = offers
      BY <3>1
    <3>2. CASE OfferClaimed
      BY <3>2 DEF OfferClaimed
    <3> QED
      BY <3>1, <3>2
  <2>3. ASSUME NEW x \in Message PROVE offers'[x] \in Nat /\ offers'[x] >= offers[x]
    <3>1. offers[x] \in Nat /\ (offers'[x] = offers[x] \/ offers'[x] = offers[x] + 1)
      BY <2>1, <2>2
    <3> HIDE DEF IInv, FlowOK
    <3> QED
      BY <3>1
  <2>4. queueStartClaim \in Message \cup {None}
    BY DEF TypeOK
  <2> QED
    BY <2>1, <2>3, <2>4
<1>4. ASSUME NEW x \in Message, Queued(x), queueStartClaim = x, queueStartClaim' # x, x # m
      PROVE  offers'[x] = offers[x] + 1
  BY <1>4 DEF TypeOK, Cancellation, Supersession, RecoveryAdoption, CommitQueue, OfferClaimed
<1>5. StartedOncePerOffer'
  BY <1>3 DEF StartsOK, StartedOncePerOffer
<1>6. ASSUME NEW x \in Message, Contains(queuedMessages', x), queueStartClaim' # x
      PROVE  starts'[x] <= offers'[x]
  <2>1. CASE queueStartClaim # x
    BY <1>2, <1>3, <1>6, <2>1 DEF StartsOK, Queued
  <2>2. CASE queueStartClaim = x
    BY <1>2, <1>3, <1>4, <1>6, <2>2 DEF StartsOK, StartedOncePerOffer, Queued
  <2> QED
    BY <2>1, <2>2
<1>7. CASE drain' = [NoDrain EXCEPT !.at = "loop"]
  BY <1>5, <1>6, <1>7 DEF StartsOK, Pending, NoDrain, Queued
<1>8. CASE drain' = drain
  <2>1. drain.at = "claiming" \/ Pending => drain.msg \in Message /\ drain.at # "idle"
    BY DEF DrainOK, Pending, Executing
  <2>2. drain.at = "claiming" \/ Pending => starts[drain.msg] <= offers'[drain.msg]
    BY <1>3, <2>1 DEF StartsOK
  <2>3. ASSUME Pending, Contains(queuedMessages', drain.msg), queueStartClaim' # drain.msg
        PROVE  starts[drain.msg] < offers'[drain.msg]
    <3>1. CASE queueStartClaim # drain.msg
      BY <1>2, <1>3, <2>1, <2>3, <3>1 DEF StartsOK, Queued
    <3>2. CASE queueStartClaim = drain.msg
      <4>1. offers'[drain.msg] = offers[drain.msg] + 1
        BY <1>2, <1>4, <2>1, <2>3, <3>2 DEF Queued
      <4> QED
        BY <4>1, <1>3, <2>1, <2>3 DEF StartsOK
    <3> QED
      BY <3>1, <3>2
  <2>4. ASSUME Pending, fate'[drain.msg] = "cancelled" PROVE offers'[drain.msg] > 0
    <3>1. CASE drain.msg # m
      BY <1>2, <1>3, <2>1, <2>4, <3>1 DEF StartsOK
    <3>2. CASE drain.msg = m
      <4>1. MayCancel(m)
        BY <2>4, <3>2 DEF TypeOK, Supersession, RecoveryAdoption
      <4>2. queueStartClaim # m
        BY <4>1, <2>1, <2>4 DEF MayCancel
      <4>3. starts[m] < offers[m]
        BY <2>4, <3>2, <4>2 DEF StartsOK
      <4> QED
        BY <4>3, <3>2, <1>3
    <3> QED
      BY <3>1, <3>2
  <2>5. drain.at = "pausing" /\ ~drain.retain /\ queueStartClaim' # None
          => starts[queueStartClaim'] <= offers'[queueStartClaim']
    BY <1>2, <1>3 DEF StartsOK
  <2> QED
    BY <1>5, <1>6, <1>8, <2>2, <2>3, <2>4, <2>5 DEF StartsOK, Pending, Queued
<1> QED
  BY <1>7, <1>8

\* A message that leaves the queue for a recorded reason is not lost, whoever took it out.
LEMMA LeavingKeepsRuns ==
    ASSUME IInv, NEW m \in Message, Queued(m),
           \/ Cancellation(m) \/ Supersession(m)
           \/ RecoveryAdoption(m) /\ (resumableWorkflow = m \/ m \in closed),
           UNCHANGED <<resumableWorkflow, operation, starts, closed>>,
           \/ drain' = drain
           \/ drain.at = "idle" /\ drain' = [NoDrain EXCEPT !.at = "loop"]
    PROVE  QueueOK' /\ RunOK' /\ DrainOK' /\ NothingVanishes'
<1>1. /\ QueuedOnce(queuedMessages') /\ ClaimNamesQueued'
      /\ \A x \in Message : Contains(queuedMessages', x) <=>
                              Contains(queuedMessages, x) /\ x # m
      /\ queueStartClaim' \in {None, queueStartClaim} \ {m}
      /\ fate'[m] \in {"completed", "cancelled", "superseded", "recoverable"}
      /\ \A x \in Message \ {m} : fate'[x] = fate[x]
  BY Leaving DEF IInv, FlowOK
<1>2. \A x \in Message : fate[x] # "unsent" => fate'[x] # "unsent"
  BY <1>1
<1>3. QueueOK'
  BY <1>1 DEF IInv, FlowOK, QueueOK
<1>4. RunOK'
  BY <1>1, <1>2 DEF IInv, FlowOK, RunOK, NoDrain, Queued
<1>5. DrainOK'
  BY <1>1, <1>2 DEF IInv, FlowOK, DrainOK, Executing, Settling, NoDrain
<1>6. NothingVanishes'
  BY <1>1 DEF IInv, TypeOK, FlowOK, NothingVanishes, Cancellation, Supersession
<1> QED
  BY <1>3, <1>4, <1>5, <1>6

\* An interrupt supersedes the claimed message it had noted, and says so.
LEMMA SupersedeKeeps ==
    ASSUME IInv, Supersede
    PROVE  FlowOK'
<1> USE Constants
<1> DEFINE m == caller["interrupt"].msg
<1>1. "interrupt" \in Caller /\ Move("interrupt", "discard") /\ TypeOK
  BY DEF Supersede, Caller, IInv
<1>2. /\ caller'["interrupt"].at = "discard"
      /\ caller'["interrupt"].msg = caller["interrupt"].msg
      /\ \A b \in Caller \ {"interrupt"} : caller'[b] = caller[b]
  BY <1>1, MoveIs
<1>3. UNCHANGED <<resumableWorkflow, drain, operation, owed, starts, offers, closed, missed>>
  BY DEF Supersede
<1>4. CASE UNCHANGED <<queueVars, fate>>
  <2>1. QueueOK' /\ RunOK' /\ DrainOK' /\ NothingVanishes' /\ StartsOK'
    BY <1>3, <1>4, QuietStep DEF queueVars, ghosts
  <2>2. CallersOK'
    BY <1>1, <1>2, <1>3, <1>4 DEF IInv, FlowOK, CallersOK, Caller, Queued, queueVars
  <2>3. CallsOK'
    BY <1>1, <1>2, <1>3, <1>4 DEF IInv, FlowOK, CallsOK, queueVars
  <2> QED
    BY <2>1, <2>2, <2>3 DEF FlowOK
<1>5. CASE m # None /\ (Queued(m) \/ queueStartClaim = m) /\ Supersession(m)
  <2>1. m \in Message /\ Queued(m)
    BY <1>1, <1>5 DEF IInv, TypeOK, CallType, FlowOK, QueueOK, ClaimNamesQueued
  <2>2. QueueOK' /\ RunOK' /\ DrainOK' /\ NothingVanishes' /\ StartsOK'
    <3> HIDE DEF m
    <3> QED
      BY <1>3, <1>5, <2>1, LeavingKeepsRuns, LeavingKeepsStarts
  <2>3. /\ \A x \in Message : Contains(queuedMessages', x) <=>
                                Contains(queuedMessages, x) /\ x # m
        /\ queueStartClaim' \in {None, queueStartClaim} \ {m}
        /\ fate'[m] # "unsent"
        /\ \A x \in Message \ {m} : fate'[x] = fate[x]
    <3> HIDE DEF m
    <3> QED
      BY <1>5, <2>1, Leaving DEF IInv, FlowOK
  <2>4. CallersOK'
    BY <1>1, <1>2, <1>3, <2>3 DEF IInv, TypeOK, FlowOK, CallersOK, Caller, Queued
  <2>5. queuePaused'
    BY <1>5 DEF Supersession, CommitQueue
  <2>6. CallsOK'
    BY <1>2, <1>3, <2>3, <2>5 DEF IInv, FlowOK, CallsOK
  <2> QED
    BY <2>2, <2>4, <2>6 DEF FlowOK
<1> QED
  BY <1>4, <1>5 DEF Supersede

\* An interrupt discards the resumable workflow, which is then closed.
LEMMA InterruptDiscardsKeeps ==
    ASSUME IInv, InterruptDiscards
    PROVE  FlowOK'
<1> USE Constants
    DEF IInv, TypeOK, FlowOK, InterruptDiscards, DiscardRecovery, Caller, queueVars, Queued
<1>1. /\ caller'["interrupt"].at = "reconcile"
      /\ \A b \in Caller \ {"interrupt"} : caller'[b] = caller[b]
  BY MoveIs
<1>2. QueueOK'
  BY DEF QueueOK, ClaimNamesQueued
<1>3. RunOK'
  BY DEF RunOK
<1>4. DrainOK'
  BY DEF DrainOK
<1>5. CallersOK'
  BY <1>1 DEF CallersOK
<1>6. NothingVanishes'
  BY DEF NothingVanishes
<1>7. StartsOK'
  BY DEF StartsOK, StartedOncePerOffer, Pending
<1>8. CallsOK'
  BY <1>1 DEF CallsOK
<1> QED
  BY <1>2, <1>3, <1>4, <1>5, <1>6, <1>7, <1>8

\* An interrupt that could not be prepared leaves a claim paused, or is missed.
LEMMA InterruptPausesKeeps ==
    ASSUME IInv, InterruptPauses
    PROVE  FlowOK'
<1>1. /\ queuedMessages' = queuedMessages /\ queueStartClaim' = queueStartClaim
      /\ UNCHANGED <<resumableWorkflow, drain, operation, owed, ghosts>>
      /\ queuePaused' = caller["interrupt"].pause
      /\ missed' = (missed \/ (~queuePaused' /\ queuedMessages # <<>>))
  BY DEF InterruptPauses, CommitQueue, StalePause, ghosts
<1>2. caller' = [caller EXCEPT !["interrupt"] = NoCall]
  BY DEF InterruptPauses
<1>3. QueueOK' /\ RunOK' /\ DrainOK' /\ NothingVanishes' /\ StartsOK'
  BY <1>1, QuietStep
<1>4. CallersOK'
  BY <1>1, <1>2 DEF IInv, TypeOK, FlowOK, CallersOK, Caller, NoCall, Queued, ghosts
<1>5. queueStartClaim # None => queuedMessages # <<>>
  BY EmptyQueue DEF IInv, TypeOK, FlowOK, QueueOK, ClaimNamesQueued, Queued
<1>6. CallsOK'
  <2>1. queuePaused' \in BOOLEAN /\ missed \in BOOLEAN
    BY <1>1 DEF IInv, TypeOK, CallType, Caller
  <2>2. queuedMessages' = <<>> \/ queuePaused' \/ missed'
    BY <1>1, <2>1
  <2>3. queueStartClaim' # None => queuePaused' \/ missed'
    BY <1>1, <1>5, <2>2
  <2> QED
    BY <2>2, <2>3 DEF CallsOK
<1> QED
  BY <1>3, <1>4, <1>6 DEF FlowOK

\* A reconciliation reads the claim and the checkpoint, and only moves its caller.
LEMMA ReconcileKeeps ==
    ASSUME IInv, NEW c \in Caller, Reconcile(c)
    PROVE  FlowOK'
<1> USE Constants
<1> DEFINE at == IF queueStartClaim = None THEN AfterReconcile(c)
                 ELSE IF resumableWorkflow = queueStartClaim THEN "adopt" ELSE "clear"
<1>1. caller[c] \in CallType /\ caller \in [Caller -> CallType] /\ caller[c].at = "reconcile"
  BY DEF IInv, TypeOK, Reconcile
<1>2. /\ caller'[c].at = at /\ caller'[c].msg = queueStartClaim
      /\ \A b \in Caller \ {c} : caller'[b] = caller[b]
  BY <1>1 DEF Reconcile, CallType
<1>3. /\ at \in {"adopt", "clear", AfterReconcile(c)}
      /\ at = "adopt" => queueStartClaim \in Message /\ resumableWorkflow = queueStartClaim
      /\ at \in {"start", "unpause", "adopt", "clear"} /\ (at = "start" => c = "workflow")
  BY DEF AfterReconcile, IInv, TypeOK
<1> HIDE DEF at
<1>4. UNCHANGED <<queueVars, resumableWorkflow, drain, operation, owed, ghosts, missed>>
  BY DEF Reconcile
<1>5. QueueOK' /\ RunOK' /\ DrainOK' /\ NothingVanishes' /\ StartsOK'
  BY <1>4, QuietStep DEF queueVars
<1>6. CallersOK'
  BY <1>1, <1>2, <1>3, <1>4
  DEF IInv, FlowOK, CallersOK, Caller, Queued, queueVars, ghosts
<1>7. CallsOK'
  BY <1>1, <1>2, <1>3, <1>4 DEF IInv, FlowOK, CallsOK, Caller, queueVars
<1> QED
  BY <1>5, <1>6, <1>7 DEF FlowOK

\* A recovery is adopted on behalf of a checkpoint that exists or was closed.
LEMMA AdoptKeeps ==
    ASSUME IInv, NEW c \in Caller, Adopt(c)
    PROVE  FlowOK'
<1> USE Constants
<1> DEFINE m == caller[c].msg
           at == IF caller[c].at = "takeOver" THEN "reconcile"
                 ELSE IF Queued(caller[c].msg) THEN AfterReconcile(c) ELSE "clear"
<1>1. /\ caller[c].at \in {"adopt", "takeOver"} /\ m \in Message /\ TypeOK
      /\ resumableWorkflow = m \/ m \in closed
  BY DEF IInv, FlowOK, CallersOK, Adopt
<1>2. Move(c, at)
  BY DEF Adopt
<1>3. /\ at \in {"reconcile", "start", "unpause", "clear"}
      /\ at = "start" => c = "workflow"
      /\ c = "workflow" => at # "unpause"
      /\ ~Queued(m) => at \in {"reconcile", "clear"}
  BY DEF AfterReconcile
<1> HIDE DEF at
<1>4. caller'[c].at = at /\ \A b \in Caller \ {c} : caller'[b] = caller[b]
  BY <1>1, <1>2, MoveIs
<1>5. UNCHANGED <<resumableWorkflow, drain, operation, owed, starts, closed, missed>>
  BY DEF Adopt
<1>6. c = "workflow" /\ resumableWorkflow # None =>
        (caller[c].at = "takeOver" /\ resumableWorkflow = m) \/ ~Queued(resumableWorkflow)
  BY <1>1 DEF IInv, FlowOK, CallersOK
<1>7. CASE ~Queued(m)
  <2>1. UNCHANGED <<queueVars, fate, offers>>
    BY <1>7 DEF Adopt
  <2>2. QueueOK' /\ RunOK' /\ DrainOK' /\ NothingVanishes' /\ StartsOK'
    BY <1>5, <2>1, QuietStep DEF queueVars, ghosts
  <2>3. CallersOK'
    BY <1>1, <1>3, <1>4, <1>5, <1>6, <1>7, <2>1
    DEF IInv, FlowOK, CallersOK, Caller, Queued, queueVars
  <2>4. CallsOK'
    BY <1>1, <1>3, <1>4, <1>5, <2>1 DEF IInv, FlowOK, CallsOK, Caller, queueVars
  <2> QED
    BY <2>2, <2>3, <2>4 DEF FlowOK
<1>8. CASE Queued(m)
  <2>1. RecoveryAdoption(m) /\ OfferClaimed
    BY <1>8 DEF Adopt
  <2>2. QueueOK' /\ RunOK' /\ DrainOK' /\ NothingVanishes' /\ StartsOK'
    <3> HIDE DEF m
    <3> QED
      BY <1>1, <1>5, <1>8, <2>1, LeavingKeepsRuns, LeavingKeepsStarts
  <2>3. /\ \A x \in Message : Contains(queuedMessages', x) <=>
                                Contains(queuedMessages, x) /\ x # m
        /\ fate'[m] # "unsent"
        /\ \A x \in Message \ {m} : fate'[x] = fate[x]
    <3> HIDE DEF m
    <3> QED
      BY <1>1, <1>8, <2>1, Leaving DEF IInv, FlowOK
  <2>4. queueStartClaim' = None /\ queuePaused' = (queuedMessages' # <<>>)
    BY <2>1 DEF RecoveryAdoption, CommitQueue
  <2>5. CallersOK'
    <3>1. resumableWorkflow # None => fate'[resumableWorkflow] # "unsent"
      BY <2>3, <1>1 DEF IInv, TypeOK, FlowOK, CallersOK
    <3>2. c = "workflow" /\ resumableWorkflow # None
            => ~Contains(queuedMessages', resumableWorkflow)
      BY <1>1, <1>6, <2>3 DEF TypeOK, Queued
    <3>3. c # "workflow" /\ resumableWorkflow # None
            /\ caller["workflow"].at \in {"reconcile", "adopt", "clear", "start"}
            => ~Contains(queuedMessages', resumableWorkflow)
      BY <1>1, <2>3 DEF IInv, TypeOK, FlowOK, CallersOK, Queued
    <3> QED
      BY <1>1, <1>3, <1>4, <1>5, <3>1, <3>2, <3>3
      DEF IInv, FlowOK, CallersOK, Caller, Queued
  <2>6. CallsOK'
    BY <2>4 DEF CallsOK
  <2> QED
    BY <2>2, <2>5, <2>6 DEF FlowOK
<1> QED
  BY <1>7, <1>8

\* A claim that a person drops is offered again, to whatever else is queued.
LEMMA OfferingKeepsStarts ==
    ASSUME IInv, OfferClaimed, queueStartClaim' = None,
           UNCHANGED <<queuedMessages, fate, starts>>,
           \/ drain' = drain
           \/ drain.at = "idle" /\ drain' = [NoDrain EXCEPT !.at = "loop"]
    PROVE  StartsOK'
<1> USE Constants
<1>1. /\ \A x \in Message : starts[x] \in Nat /\ offers[x] \in Nat
      /\ queueStartClaim \in Message \cup {None}
  BY DEF IInv, TypeOK
<1>2. \A x \in Message : x # queueStartClaim => offers'[x] = offers[x]
  BY DEF OfferClaimed
<1>3. \A x \in Message : x = queueStartClaim => offers'[x] = offers[x] + 1
  BY DEF OfferClaimed
<1>4. \A x \in Message : starts[x] <= 1 + offers[x]
  BY DEF IInv, FlowOK, StartsOK, StartedOncePerOffer
<1>5. StartedOncePerOffer'
  <2> SUFFICES ASSUME NEW x \in Message PROVE starts[x] <= 1 + offers'[x]
    BY DEF StartedOncePerOffer
  <2> QED
    BY <1>1, <1>2, <1>3, <1>4
<1>6. ASSUME NEW x \in Message, Contains(queuedMessages, x) PROVE starts[x] <= offers'[x]
  <2>1. CASE x = queueStartClaim
    BY <1>1, <1>3, <1>4, <2>1
  <2>2. CASE x # queueStartClaim
    BY <1>1, <1>2, <1>6, <2>2 DEF IInv, FlowOK, StartsOK, Queued
  <2> QED
    BY <2>1, <2>2
<1>7. CASE drain' = [NoDrain EXCEPT !.at = "loop"]
  BY <1>5, <1>6, <1>7 DEF StartsOK, Pending, NoDrain, Queued
<1>8. CASE drain' = drain
  <2>1. drain.at = "claiming" \/ Pending => drain.msg \in Message
    BY DEF IInv, FlowOK, DrainOK, Pending, Executing
  <2>2. \A x \in Message : offers'[x] \in Nat /\ offers'[x] >= offers[x]
    <3> SUFFICES ASSUME NEW x \in Message PROVE offers'[x] \in Nat /\ offers'[x] >= offers[x]
      OBVIOUS
    <3> QED
      BY <1>1, <1>2, <1>3
  <2>3. drain.at = "claiming" \/ Pending => starts[drain.msg] <= offers'[drain.msg]
    BY <1>1, <2>1, <2>2 DEF IInv, FlowOK, StartsOK
  <2>4. Pending /\ Contains(queuedMessages, drain.msg) => starts[drain.msg] < offers'[drain.msg]
    <3>1. CASE drain.msg = queueStartClaim
      BY <1>1, <1>3, <2>1, <3>1 DEF IInv, FlowOK, StartsOK
    <3>2. CASE drain.msg # queueStartClaim
      BY <1>1, <1>2, <2>1, <3>2 DEF IInv, FlowOK, StartsOK, Queued
    <3> QED
      BY <3>1, <3>2
  <2>5. Pending /\ fate[drain.msg] = "cancelled" => offers'[drain.msg] > 0
    BY <1>1, <2>1, <2>2 DEF IInv, FlowOK, StartsOK
  <2> QED
    BY <1>5, <1>6, <1>8, <2>3, <2>4, <2>5 DEF StartsOK, Pending, Queued
<1> QED
  BY <1>7, <1>8

\* A claim that is cleared offers its message again.
LEMMA ClearClaimKeeps ==
    ASSUME IInv, NEW c \in Caller, ClearClaim(c)
    PROVE  FlowOK'
<1> USE Constants
<1>1. /\ queuedMessages' = queuedMessages /\ queueStartClaim' = None
      /\ queuePaused' = (queuedMessages # <<>>)
      /\ UNCHANGED <<resumableWorkflow, drain, operation, fate, starts, closed>>
      /\ OfferClaimed /\ caller[c].at = "clear" /\ TypeOK
  BY DEF ClearClaim, CommitQueue, IInv
<1>2. /\ caller'[c].at = AfterReconcile(c) /\ caller'[c].msg = caller[c].msg
      /\ \A b \in Caller \ {c} : caller'[b] = caller[b]
  BY <1>1, MoveIs DEF ClearClaim
<1>3. QueueOK'
  BY <1>1 DEF IInv, FlowOK, QueueOK, ClaimNamesQueued, Queued
<1>4. RunOK'
  BY <1>1 DEF IInv, FlowOK, RunOK, Queued
<1>5. DrainOK'
  BY <1>1 DEF IInv, FlowOK, DrainOK
<1>6. CallersOK'
  BY <1>1, <1>2 DEF IInv, FlowOK, CallersOK, Caller, Queued, AfterReconcile
<1>7. NothingVanishes'
  BY <1>1 DEF IInv, FlowOK, NothingVanishes
<1>8. StartsOK'
  BY <1>1, OfferingKeepsStarts
<1>9. CallsOK'
  <2>1. queuedMessages' = <<>> \/ queuePaused'
    BY <1>1
  <2> QED
    BY <2>1, <1>1 DEF CallsOK
<1> QED
  BY <1>3, <1>4, <1>5, <1>6, <1>7, <1>8, <1>9 DEF FlowOK

\* The end of a pause clears the claim and calls the drain.
LEMMA UnpauseKeeps ==
    ASSUME IInv, NEW c \in Caller, Unpause(c)
    PROVE  FlowOK'
<1> USE Constants
<1>1. /\ queuedMessages' = queuedMessages /\ queueStartClaim' = None
      /\ UNCHANGED <<resumableWorkflow, operation, fate, starts, closed>>
      /\ OfferClaimed /\ caller[c].at = "unpause" /\ TypeOK
  BY DEF Unpause, CommitQueue, IInv
<1>2. /\ caller'[c] = NoCall /\ \A b \in Caller \ {c} : caller'[b] = caller[b]
  BY <1>1 DEF Unpause, TypeOK
<1>3. \/ drain' = drain /\ drain.at # "idle"
      \/ drain' = [NoDrain EXCEPT !.at = "loop"] /\ drain.at = "idle"
  BY DrainCallIs DEF Unpause
<1>4. QueueOK'
  BY <1>1 DEF IInv, FlowOK, QueueOK, ClaimNamesQueued, Queued
<1>5. RunOK'
  BY <1>1, <1>3 DEF IInv, FlowOK, RunOK, Queued, NoDrain
<1>6. DrainOK'
  BY <1>1, <1>3 DEF IInv, FlowOK, DrainOK, Executing, Settling, NoDrain
<1>7. CallersOK'
  BY <1>1, <1>2, <1>3 DEF IInv, FlowOK, CallersOK, Caller, Queued, NoCall, NoDrain, Settling
<1>8. NothingVanishes'
  BY <1>1 DEF IInv, FlowOK, NothingVanishes
<1>9. StartsOK'
  BY <1>1, <1>3, OfferingKeepsStarts
<1>10. CallsOK'
  BY <1>1, <1>3 DEF CallsOK, NoDrain
<1> QED
  BY <1>4, <1>5, <1>6, <1>7, <1>8, <1>9, <1>10 DEF FlowOK

\* A mutation that throws schedules no drain: the call is missed.
LEMMA CallerFailsKeeps ==
    ASSUME IInv, NEW c \in Caller, CallerFails(c)
    PROVE  FlowOK'
<1> USE Constants
<1>1. UNCHANGED <<queueVars, resumableWorkflow, drain, operation, owed, ghosts>>
  BY DEF CallerFails
<1>2. QueueOK' /\ RunOK' /\ DrainOK' /\ NothingVanishes' /\ StartsOK'
  BY <1>1, QuietStep DEF queueVars
<1>3. /\ \A b \in Caller \ {c} : caller'[b] = caller[b]
      /\ caller'[c].at = IF c = "interrupt" THEN "pause" ELSE "idle"
  BY DEF CallerFails, IInv, TypeOK, NoCall
<1>4. CallersOK'
  BY <1>1, <1>3 DEF IInv, FlowOK, CallersOK, Caller, Queued, queueVars, ghosts
<1>5. CallsOK'
  <2>1. CASE c = "mutation"
    <3>1. NoDrainScheduled
      BY <2>1 DEF CallerFails
    <3>2. drain.at = "idle" => queuedMessages = <<>> \/ queuePaused \/ missed'
      BY <3>1 DEF NoDrainScheduled
    <3>3. missed => missed'
      BY <3>1 DEF NoDrainScheduled
    <3> QED
      BY <1>1, <3>2, <3>3 DEF IInv, FlowOK, CallsOK, queueVars
  <2>2. CASE c # "mutation"
    <3>1. /\ missed' = missed /\ caller'["mutation"] = caller["mutation"]
          /\ caller["interrupt"].at # "idle" => caller'["interrupt"].at # "idle"
      BY <1>3, <2>2 DEF CallerFails, Caller
    <3> QED
      BY <1>1, <3>1 DEF IInv, FlowOK, CallsOK, queueVars
  <2> QED
    BY <2>1, <2>2
<1> QED
  BY <1>2, <1>4, <1>5 DEF FlowOK

\* A mutation that ends calls the drain, or notes that the call is missed.
LEMMA MutationIs ==
    ASSUME TypeOK, MutationDone \/ MutationThrows
    PROVE  /\ caller'["mutation"] = NoCall
           /\ \A b \in Caller \ {"mutation"} : caller'[b] = caller[b]
           /\ \/ drain' = drain
              \/ drain.at = "idle" /\ drain' = [NoDrain EXCEPT !.at = "loop"]
           /\ missed => missed'
           /\ drain'.at = "idle" =>
                IF MutationDone THEN queuePaused'
                ELSE queuedMessages = <<>> \/ queuePaused \/ missed'
<1>1. /\ caller'["mutation"] = NoCall
      /\ \A b \in Caller \ {"mutation"} : caller'[b] = caller[b]
  BY DEF TypeOK, MutationDone, MutationThrows, Caller
<1>2. CASE MutationDone
  <2>1. \/ drain' = drain /\ (drain.at # "idle" \/ queuePaused')
        \/ drain' = [NoDrain EXCEPT !.at = "loop"] /\ drain.at = "idle" /\ ~queuePaused'
    BY <1>2, DrainCallIs DEF MutationDone
  <2>2. [NoDrain EXCEPT !.at = "loop"].at = "loop"
    BY DEF NoDrain
  <2>3. missed' = missed
    BY <1>2 DEF MutationDone
  <2> QED
    BY <1>1, <1>2, <2>1, <2>2, <2>3
<1>3. CASE MutationThrows /\ ~MutationDone
  <2>1. drain' = drain /\ NoDrainScheduled
    BY <1>3 DEF MutationThrows
  <2>2. drain.at = "idle" => queuedMessages = <<>> \/ queuePaused \/ missed'
    BY <2>1 DEF NoDrainScheduled
  <2>3. missed => missed'
    BY <2>1 DEF NoDrainScheduled
  <2> QED
    BY <1>1, <1>3, <2>1, <2>2, <2>3
<1> QED
  BY <1>2, <1>3

\* A mutation that throws has changed nothing.
LEMMA MutationThrowsKeeps ==
    ASSUME IInv, MutationThrows,
           UNCHANGED <<resumableWorkflow, operation, owed, starts, offers, closed>>
    PROVE  FlowOK'
<1>1. UNCHANGED <<queueVars, fate, drain>> /\ TypeOK
  BY DEF MutationThrows, IInv
<1>2. QueueOK' /\ RunOK' /\ DrainOK' /\ NothingVanishes' /\ StartsOK'
  BY <1>1, QuietStep DEF queueVars, ghosts
<1>3. /\ caller'["mutation"] = NoCall
      /\ \A b \in Caller \ {"mutation"} : caller'[b] = caller[b]
      /\ missed => missed'
  BY <1>1, MutationIs
<1>4. CallersOK'
  BY <1>1, <1>3 DEF IInv, FlowOK, CallersOK, Caller, NoCall, Queued, queueVars
<1>5. drain.at = "idle" => queuedMessages = <<>> \/ queuePaused \/ missed'
  BY DEF MutationThrows, NoDrainScheduled
<1>6. CallsOK'
  BY <1>1, <1>3, <1>5 DEF IInv, FlowOK, CallsOK, queueVars
<1> QED
  BY <1>2, <1>4, <1>6 DEF FlowOK

\* A cancelled message leaves the queue; none that a running drain has claimed is cancelled.
LEMMA CancelKeeps ==
    ASSUME IInv, Cancel
    PROVE  FlowOK'
<1> USE Constants
<1> DEFINE m == caller["mutation"].msg
<1>1. UNCHANGED <<resumableWorkflow, operation, owed, starts, offers, closed>> /\ TypeOK
  BY DEF Cancel, IInv
<1>2. CASE MutationThrows
  BY <1>1, <1>2, MutationThrowsKeeps
<1>3. CASE MayCancel(m) /\ Cancellation(m) /\ MutationDone
  <2>1. m \in Message /\ Queued(m)
    BY <1>3 DEF MayCancel, IInv, TypeOK, Queued, Contains
  <2>2. /\ caller'["mutation"] = NoCall
        /\ \A b \in Caller \ {"mutation"} : caller'[b] = caller[b]
        /\ \/ drain' = drain
           \/ drain.at = "idle" /\ drain' = [NoDrain EXCEPT !.at = "loop"]
        /\ missed => missed'
        /\ drain'.at = "idle" => queuePaused'
    BY <1>1, <1>3, MutationIs
  <2>3. QueueOK' /\ RunOK' /\ DrainOK' /\ NothingVanishes' /\ StartsOK'
    <3> HIDE DEF m
    <3> QED
      BY <1>1, <1>3, <2>1, <2>2, LeavingKeepsRuns, LeavingKeepsStarts
  <2>4. /\ \A x \in Message : Contains(queuedMessages', x) <=>
                                Contains(queuedMessages, x) /\ x # m
        /\ queueStartClaim' \in {None, queueStartClaim} \ {m}
        /\ fate'[m] # "unsent"
        /\ \A x \in Message \ {m} : fate'[x] = fate[x]
    <3> HIDE DEF m
    <3> QED
      BY <1>3, <2>1, Leaving DEF IInv, FlowOK
  <2>5. CallersOK'
    <3>1. resumableWorkflow # None => fate'[resumableWorkflow] # "unsent"
      BY <2>4, <1>1 DEF IInv, TypeOK, FlowOK, CallersOK
    <3>2. drain'.at \in Settling => drain.at \in Settling
      BY <2>2 DEF NoDrain, Settling
    <3>3. resumableWorkflow \in Message \cup {None}
      BY <1>1 DEF TypeOK
    <3> QED
      BY <1>1, <2>2, <2>4, <3>1, <3>2, <3>3
      DEF IInv, FlowOK, CallersOK, Caller, NoCall, Queued
  <2>6. queuePaused' = queuePaused
    BY <1>3 DEF Cancellation, CommitQueue
  <2>7. CallsOK'
    BY <2>2, <2>4, <2>6 DEF IInv, FlowOK, CallsOK, Executing
  <2> QED
    BY <2>3, <2>5, <2>7 DEF FlowOK
<1> QED
  BY <1>2, <1>3 DEF Cancel

\* A promotion reorders the queue.
LEMMA PromoteKeeps ==
    ASSUME IInv, Promote
    PROVE  FlowOK'
<1> USE Constants
<1> DEFINE m == caller["mutation"].msg
<1>1. UNCHANGED <<resumableWorkflow, operation, owed, starts, offers, closed>> /\ TypeOK
  BY DEF Promote, IInv
<1>2. CASE MutationThrows
  BY <1>1, <1>2, MutationThrowsKeeps
<1>3. CASE /\ MayPromote(m) /\ fate' = fate /\ MutationDone
           /\ CommitQueue(<<m>> \o Without(m), queuePaused, queueStartClaim)
  <2>1. m \in Message /\ Queued(m) /\ queueStartClaim = None
    BY <1>3 DEF MayPromote, IInv, TypeOK, Queued, Contains
  <2>2. /\ caller'["mutation"] = NoCall
        /\ \A b \in Caller \ {"mutation"} : caller'[b] = caller[b]
        /\ \/ drain' = drain
           \/ drain.at = "idle" /\ drain' = [NoDrain EXCEPT !.at = "loop"]
        /\ missed => missed'
        /\ drain'.at = "idle" => queuePaused'
    BY <1>1, <1>3, MutationIs
  <2>3. /\ Without(m) \in Seq(Message) /\ QueuedOnce(Without(m))
        /\ \A x \in Message : Contains(Without(m), x) <=> Contains(queuedMessages, x) /\ x # m
    <3> HIDE DEF m
    <3> QED
      BY <2>1, RemovalFromQueue DEF IInv, TypeOK, FlowOK, QueueOK, Queued, Without
  <2>4. /\ QueuedOnce(<<m>> \o Without(m))
        /\ \A x \in Message : Contains(<<m>> \o Without(m), x) <=>
                                Contains(Without(m), x) \/ x = m
    <3>1. ~Contains(Without(m), m)
      BY <2>1, <2>3
    <3> HIDE DEF m
    <3> QED
      BY <2>1, <2>3, <3>1, HeadOfQueue
  <2>5. /\ QueuedOnce(queuedMessages') /\ queuePaused' = queuePaused
        /\ queueStartClaim' = queueStartClaim /\ fate' = fate
        /\ \A x \in Message : Contains(queuedMessages', x) <=> Contains(queuedMessages, x)
    BY <1>3, <2>1, <2>3, <2>4 DEF CommitQueue, Queued
  <2> HIDE DEF m
  <2>6. QueueOK'
    BY <1>1, <2>1, <2>5 DEF IInv, TypeOK, FlowOK, QueueOK, ClaimNamesQueued, Queued
  <2>7. RunOK'
    BY <1>1, <2>2, <2>5 DEF IInv, FlowOK, RunOK, NoDrain, Queued
  <2>8. DrainOK'
    BY <1>1, <2>1, <2>2, <2>5 DEF IInv, FlowOK, DrainOK, Executing, Settling, NoDrain
  <2>9. CallersOK'
    <3>1. drain'.at \in Settling => drain.at \in Settling
      BY <2>2 DEF NoDrain, Settling
    <3>2. resumableWorkflow \in Message \cup {None}
      BY <1>1 DEF TypeOK
    <3> QED
      BY <1>1, <2>2, <2>5, <3>1, <3>2 DEF IInv, FlowOK, CallersOK, Caller, NoCall, Queued
  <2>10. NothingVanishes'
    BY <1>1, <2>5 DEF IInv, FlowOK, NothingVanishes
  <2>11. StartsOK'
    <3>1. Pending => drain.msg \in Message
      BY DEF IInv, FlowOK, DrainOK, Pending, Executing
    <3> QED
      BY <1>1, <2>1, <2>2, <2>5, <3>1
      DEF IInv, TypeOK, FlowOK, StartsOK, StartedOncePerOffer, Pending, NoDrain, Queued
  <2>12. CallsOK'
    BY <2>1, <2>2, <2>5 DEF IInv, FlowOK, CallsOK
  <2> QED
    BY <2>6, <2>7, <2>8, <2>9, <2>10, <2>11, <2>12 DEF FlowOK
<1> QED
  BY <1>2, <1>3 DEF Promote

\* A discarded workflow is closed; the queue stays.
LEMMA DiscardKeeps ==
    ASSUME IInv, Discard
    PROVE  FlowOK'
<1> USE Constants
<1>1. /\ UNCHANGED <<queueVars, operation, owed, fate, starts, offers>>
      /\ resumableWorkflow' = None /\ closed' = closed \cup ({resumableWorkflow} \ {None})
      /\ MutationDone /\ TypeOK
  BY DEF Discard, DiscardRecovery, IInv
<1>2. /\ caller'["mutation"] = NoCall
      /\ \A b \in Caller \ {"mutation"} : caller'[b] = caller[b]
      /\ \/ drain' = drain
         \/ drain.at = "idle" /\ drain' = [NoDrain EXCEPT !.at = "loop"]
      /\ missed => missed'
      /\ drain'.at = "idle" => queuePaused'
  BY <1>1, MutationIs
<1> USE DEF IInv, FlowOK, queueVars, Queued
<1>3. QueueOK'
  BY <1>1 DEF QueueOK, ClaimNamesQueued
<1>4. RunOK'
  BY <1>1, <1>2 DEF RunOK, NoDrain
<1>5. DrainOK'
  BY <1>1, <1>2 DEF DrainOK, Executing, Settling, NoDrain
<1>6. CallersOK'
  <2>1. drain'.at \in Settling => drain.at \in Settling
    BY <1>2 DEF NoDrain, Settling
  <2> QED
    BY <1>1, <1>2, <2>1 DEF CallersOK, Caller, NoCall
<1>7. NothingVanishes'
  BY <1>1 DEF NothingVanishes
<1>8. StartsOK'
  BY <1>1, <1>2 DEF StartsOK, StartedOncePerOffer, Pending, NoDrain
<1>9. CallsOK'
  BY <1>1, <1>2 DEF CallsOK, Executing
<1> QED
  BY <1>3, <1>4, <1>5, <1>6, <1>7, <1>8, <1>9

\* A resumed workflow starts an operation for a message that has left the queue.
LEMMA ResumeWorkflowKeeps ==
    ASSUME IInv, ResumeWorkflow
    PROVE  FlowOK'
<1> USE Constants
<1>1. /\ UNCHANGED <<queueVars, resumableWorkflow, drain, owed, ghosts, missed>>
      /\ caller["workflow"].at = "start" /\ operation = NoOperation /\ TypeOK
      /\ Move("workflow", "idle") /\ "workflow" \in Caller
  BY DEF ResumeWorkflow, Caller, IInv, FlowOK, CallersOK
<1>2. /\ caller'["workflow"].at = "idle"
      /\ \A b \in Caller \ {"workflow"} : caller'[b] = caller[b]
  BY <1>1, MoveIs
<1>3. CASE resumableWorkflow = None
  <2>1. operation' = operation
    BY <1>3 DEF ResumeWorkflow
  <2>2. QueueOK' /\ RunOK' /\ DrainOK' /\ NothingVanishes' /\ StartsOK'
    BY <1>1, <2>1, QuietStep DEF queueVars
  <2>3. CallersOK'
    BY <1>1, <1>2, <2>1 DEF IInv, FlowOK, CallersOK, Caller, Queued, queueVars, ghosts
  <2>4. CallsOK'
    BY <1>1, <1>2, <2>1 DEF IInv, FlowOK, CallsOK, Caller, queueVars
  <2> QED
    BY <2>2, <2>3, <2>4 DEF FlowOK
<1>4. CASE resumableWorkflow # None
  <2>1. /\ operation' = [msg |-> resumableWorkflow, by |-> "resume", at |-> "preflight",
                         stopped |-> FALSE]
        /\ resumableWorkflow \in Pipeline /\ resumableWorkflow \in Message
        /\ ~Queued(resumableWorkflow) /\ fate[resumableWorkflow] # "unsent"
    BY <1>1, <1>4 DEF ResumeWorkflow, TypeOK, IInv, FlowOK, CallersOK
  <2>2. drain.at \notin {"running", "claiming", "prepare"}
    BY <1>1, <1>4 DEF IInv, FlowOK, RunOK, DrainOK, NoOperation
  <2>3. QueueOK'
    BY <1>1 DEF IInv, FlowOK, QueueOK, ClaimNamesQueued, Queued, queueVars, ghosts
  <2>4. RunOK'
    BY <1>1, <2>1, <2>2 DEF RunOK, Queued, queueVars, ghosts
  <2>5. DrainOK'
    BY <1>1, <2>1, <2>2 DEF IInv, FlowOK, DrainOK, queueVars, ghosts
  <2>6. CallersOK'
    BY <1>1, <1>2 DEF IInv, FlowOK, CallersOK, Caller, Queued, queueVars, ghosts
  <2>7. NothingVanishes'
    BY <1>1 DEF IInv, FlowOK, NothingVanishes, ghosts
  <2>8. StartsOK'
    BY <1>1 DEF IInv, FlowOK, StartsOK, StartedOncePerOffer, Pending, Queued, queueVars, ghosts
  <2>9. CallsOK'
    BY <1>1, <1>2, <2>1 DEF IInv, FlowOK, CallsOK, Caller, NoOperation, queueVars
  <2> QED
    BY <2>3, <2>4, <2>5, <2>6, <2>7, <2>8, <2>9 DEF FlowOK
<1> QED
  BY <1>3, <1>4

\* A run that is accepted takes the place of no other checkpoint.
LEMMA AcceptRunKeeps ==
    ASSUME IInv, AcceptRun
    PROVE  FlowOK'
<1> USE Constants
<1> DEFINE m == operation.msg
<1>1. /\ operation.at = "preflight" /\ operation.by # "none" /\ m \in Pipeline /\ m \in Message
      /\ resumableWorkflow \in {m, None} /\ fate[m] # "unsent" /\ TypeOK
      /\ operation \in OperationType /\ drain \in DrainType
      /\ caller["workflow"].at = "idle"
  BY DEF AcceptRun, IInv, FlowOK, RunOK, CallersOK, NoOperation, TypeOK
<1>2. /\ resumableWorkflow' = m /\ closed' = closed \ {m}
      /\ UNCHANGED <<queueVars, caller, owed, fate, offers, missed>>
  BY DEF AcceptRun
<1>3. /\ operation'.at = "working" /\ operation'.msg = m /\ operation'.by = operation.by
      /\ operation' # NoOperation
  BY <1>1 DEF AcceptRun, OperationType, NoOperation
<1>4. CASE operation.by = "drain"
  <2>1. /\ drain.at = "running" /\ m = drain.msg /\ ~drain.accepted
        /\ resumableWorkflow = None
    BY <1>1, <1>4 DEF IInv, FlowOK, RunOK
  <2>2. /\ drain'.at = "running" /\ drain'.msg = m /\ drain'.accepted
        /\ starts' = [starts EXCEPT ![m] = starts[m] + 1]
    BY <1>1, <1>4, <2>1 DEF AcceptRun, DrainType
  <2>3. /\ \A x \in Message : starts[x] \in Nat /\ offers[x] \in Nat
        /\ starts'[m] = starts[m] + 1 /\ \A x \in Message \ {m} : starts'[x] = starts[x]
    BY <1>1, <2>2 DEF TypeOK
  <2> HIDE DEF m
  <2>4. QueueOK'
    BY <1>1, <1>2, <2>3 DEF IInv, FlowOK, QueueOK, ClaimNamesQueued, Queued, queueVars
  <2>5. RunOK'
    BY <1>1, <1>2, <1>3, <1>4, <2>2 DEF RunOK
  <2>6. DrainOK'
    <3>1. queueStartClaim' \in {None, m}
      BY <1>2, <2>1 DEF IInv, FlowOK, DrainOK, Executing, queueVars
    <3>2. fate'[m] # "unsent"
      BY <1>1, <1>2
    <3> QED
      BY <1>1, <2>2, <3>1, <3>2 DEF DrainOK, Executing, Settling
  <2>7. CallersOK'
    BY <1>1, <1>2 DEF IInv, FlowOK, CallersOK, Caller
  <2>8. NothingVanishes'
    BY <1>1, <1>2 DEF IInv, FlowOK, NothingVanishes
  <2>9. StartsOK'
    <3>1. Pending /\ starts[m] <= offers[m]
      BY <2>1 DEF Pending, IInv, FlowOK, StartsOK
    <3>2. Contains(queuedMessages, m) /\ queueStartClaim # m => starts[m] < offers[m]
      BY <2>1, <3>1 DEF IInv, FlowOK, StartsOK, Queued
    <3>3. StartedOncePerOffer'
      BY <1>1, <1>2, <2>3, <3>1 DEF IInv, FlowOK, StartsOK, StartedOncePerOffer
    <3>4. \A x \in Message : Contains(queuedMessages, x) /\ queueStartClaim # x
                               => starts'[x] <= offers[x]
      BY <1>1, <2>3, <3>2 DEF IInv, FlowOK, StartsOK, Queued
    <3> QED
      BY <1>2, <2>2, <3>3, <3>4 DEF StartsOK, Pending, Queued, queueVars
  <2>10. CallsOK'
    BY <1>2, <2>2, <2>1 DEF IInv, FlowOK, CallsOK, Executing, queueVars
  <2> QED
    BY <2>4, <2>5, <2>6, <2>7, <2>8, <2>9, <2>10 DEF FlowOK
<1>5. CASE operation.by # "drain"
  <2>1. UNCHANGED <<drain, starts>> /\ drain.at \notin {"claiming", "prepare", "running"}
    BY <1>1, <1>5 DEF AcceptRun, IInv, FlowOK, RunOK, DrainOK, NoOperation
  <2> HIDE DEF m
  <2>2. QueueOK'
    BY <1>2, <2>1 DEF IInv, FlowOK, QueueOK, ClaimNamesQueued, Queued, queueVars
  <2>3. RunOK'
    BY <1>1, <1>2, <1>3, <1>5, <2>1 DEF IInv, FlowOK, RunOK, Queued, queueVars, m
  <2>4. DrainOK'
    <3>1. drain.at = "adopting" => resumableWorkflow' = drain.msg \/ drain.msg \in closed'
      BY <1>1, <1>2, <2>1 DEF IInv, FlowOK, DrainOK, Executing
    <3> QED
      BY <1>2, <2>1, <3>1 DEF IInv, FlowOK, DrainOK, queueVars
  <2>5. CallersOK'
    BY <1>1, <1>2 DEF IInv, FlowOK, CallersOK, Caller
  <2>6. NothingVanishes'
    BY <1>1, <1>2 DEF IInv, FlowOK, NothingVanishes
  <2>7. StartsOK'
    BY <1>2, <2>1 DEF IInv, FlowOK, StartsOK, StartedOncePerOffer, Pending, Queued, queueVars
  <2>8. CallsOK'
    BY <1>2, <1>3, <2>1 DEF IInv, FlowOK, CallsOK, queueVars
  <2> QED
    BY <2>2, <2>3, <2>4, <2>5, <2>6, <2>7, <2>8 DEF FlowOK
<1> QED
  BY <1>4, <1>5

\* What the drain does next when its request failed.
LEMMA CaughtIs ==
    ASSUME TypeOK, NEW accepted \in BOOLEAN, Caught(accepted)
    PROVE  /\ drain'.msg = drain.msg
           /\ \/ /\ resumableWorkflow = drain.msg /\ drain'.at = "adopting"
                 /\ drain'.accepted = accepted
              \/ /\ resumableWorkflow # drain.msg /\ accepted /\ drain'.at = "finalizing"
                 /\ drain'.accepted
              \/ /\ resumableWorkflow # drain.msg /\ ~accepted /\ drain'.at = "pausing"
                 /\ ~drain'.retain /\ drain'.pause = (queuedMessages # <<>>)
<1>1. drain \in DrainType
  BY DEF TypeOK
<1> QED
  BY <1>1 DEF Caught, ToPause, DrainType

\* How the drain goes to its pause.
LEMMA ToPauseIs ==
    ASSUME TypeOK, NEW retain \in BOOLEAN, ToPause(retain)
    PROVE  /\ drain'.msg = drain.msg /\ drain'.at = "pausing"
           /\ drain'.retain = retain /\ drain'.pause = (queuedMessages # <<>>)
<1>1. drain \in DrainType
  BY DEF TypeOK
<1> QED
  BY <1>1 DEF ToPause, DrainType

\* However a run ends, its request is settled, adopted or still claimed.
LEMMA EndsKeeps ==
    ASSUME IInv, NEW throws \in BOOLEAN, Ends(throws), operation # NoOperation,
           UNCHANGED <<queueVars, owed, fate, starts, offers>>,
           \/ UNCHANGED <<resumableWorkflow, closed>>
           \/ resumableWorkflow' = None /\ closed' = closed \cup {operation.msg}
    PROVE  FlowOK'
<1> USE Constants
<1>1. /\ operation' = NoOperation /\ missed' = missed /\ TypeOK /\ operation.by # "none"
      /\ operation.msg \in Message /\ resumableWorkflow \in {operation.msg, None}
      /\ caller["workflow"].at = "idle" /\ drain \in DrainType
  BY DEF Ends, IInv, FlowOK, RunOK, CallersOK, TypeOK
<1>2. \A c \in Caller : caller'[c].at = caller[c].at /\ caller'[c].msg = caller[c].msg
  <2>1. \A c \in Caller : caller[c] \in CallType
    BY <1>1 DEF TypeOK
  <2> QED
    BY <2>1 DEF Ends, Awake, CallType
<1>3. CASE operation.by = "resume"
  <2>1. \/ drain' = drain /\ (drain.at # "idle" \/ queuePaused)
        \/ drain.at = "idle" /\ drain' = [NoDrain EXCEPT !.at = "loop"]
    BY <1>3, DrainCallIs DEF Ends
  <2>2. drain.at \notin {"claiming", "prepare", "running"}
    BY <1>3 DEF IInv, FlowOK, RunOK, DrainOK, NoOperation
  <2>3. QueueOK'
    BY DEF IInv, FlowOK, QueueOK, ClaimNamesQueued, Queued, queueVars
  <2>4. RunOK'
    BY <1>1, <2>1, <2>2 DEF RunOK, NoOperation, NoDrain
  <2>5. DrainOK'
    BY <1>1, <2>1, <2>2 DEF IInv, FlowOK, DrainOK, Executing, Settling, NoDrain, queueVars
  <2>6. CallersOK'
    BY <1>1, <1>2 DEF IInv, FlowOK, CallersOK, Caller, Queued, queueVars
  <2>7. NothingVanishes'
    BY <1>1 DEF IInv, FlowOK, NothingVanishes
  <2>8. StartsOK'
    BY <2>1, <2>2
    DEF IInv, FlowOK, StartsOK, StartedOncePerOffer, Pending, NoDrain, Queued, queueVars
  <2>9. CallsOK'
    BY <1>1, <2>1 DEF IInv, FlowOK, CallsOK, Executing, NoDrain, queueVars
  <2> QED
    BY <2>3, <2>4, <2>5, <2>6, <2>7, <2>8, <2>9 DEF FlowOK
<1>4. CASE operation.by = "drain"
  <2>1. /\ drain.at = "running" /\ operation.msg = drain.msg
        /\ drain.accepted <=> operation.at = "working"
        /\ ~drain.accepted => resumableWorkflow = None
        /\ queueStartClaim \in {None, drain.msg}
        /\ fate[drain.msg] # "unsent"
        /\ drain.accepted \in BOOLEAN
    BY <1>1, <1>4 DEF IInv, FlowOK, RunOK, DrainOK, Executing, OperationType, TypeOK, DrainType
  <2>2. /\ drain'.msg = drain.msg
        /\ \/ ~throws /\ drain'.at = "returned" /\ drain'.accepted
           \/ /\ throws /\ resumableWorkflow = drain.msg /\ drain'.at = "adopting"
              /\ drain'.accepted
           \/ throws /\ drain'.at = "finalizing" /\ drain'.accepted
           \/ /\ throws /\ ~drain.accepted /\ drain'.at = "pausing"
              /\ ~drain'.retain /\ drain'.pause = (queuedMessages # <<>>)
    <3>1. CASE throws
      <4>1. Caught(drain.accepted)
        BY <1>4, <3>1 DEF Ends
      <4> QED
        BY <1>1, <2>1, <3>1, <4>1, CaughtIs
    <3>2. CASE ~throws
      <4>1. drain' = [drain EXCEPT !.at = "returned", !.accepted = TRUE]
        BY <1>4, <3>2 DEF Ends
      <4> QED
        BY <1>1, <2>1, <3>2, <4>1 DEF DrainType
    <3> QED
      BY <3>1, <3>2
  <2>3. queueStartClaim # None => queuedMessages # <<>>
    BY <1>1, EmptyQueue DEF IInv, TypeOK, FlowOK, QueueOK, ClaimNamesQueued, Queued
  <2>4. QueueOK'
    BY DEF IInv, FlowOK, QueueOK, ClaimNamesQueued, Queued, queueVars
  <2>5. RunOK'
    BY <1>1, <2>2 DEF RunOK, NoOperation
  <2>6. DrainOK'
    BY <1>1, <2>1, <2>2, <2>3 DEF DrainOK, Executing, Settling, queueVars
  <2>7. CallersOK'
    BY <1>1, <1>2 DEF IInv, FlowOK, CallersOK, Caller, Queued, queueVars
  <2>8. NothingVanishes'
    BY <1>1 DEF IInv, FlowOK, NothingVanishes
  <2>9. StartsOK'
    <3>1. ~drain.accepted => starts[drain.msg] <= offers[drain.msg]
      BY <2>1 DEF IInv, FlowOK, StartsOK, Pending
    <3> QED
      BY <2>1, <2>2, <3>1
      DEF IInv, FlowOK, StartsOK, StartedOncePerOffer, Pending, Queued, queueVars
  <2>10. CallsOK'
    BY <2>2 DEF CallsOK, Executing
  <2> QED
    BY <2>4, <2>5, <2>6, <2>7, <2>8, <2>9, <2>10 DEF FlowOK
<1> QED
  BY <1>1, <1>3, <1>4 DEF TypeOK, OperationType, IInv

\* A run that ends leaves the queue alone, and closes a pipeline that completed.
LEMMA RunEndKeeps ==
    ASSUME IInv, CompleteRun \/ StopRun \/ FailRun
    PROVE  FlowOK'
<1>1. CASE CompleteRun
  <2>1. operation.at = "working" /\ Ends(FALSE)
        /\ UNCHANGED <<queueVars, owed, fate, starts, offers>>
    BY <1>1 DEF CompleteRun
  <2>2. operation # NoOperation
    BY <2>1 DEF NoOperation
  <2>3. \/ UNCHANGED <<resumableWorkflow, closed>>
        \/ resumableWorkflow' = None /\ closed' = closed \cup {operation.msg}
    BY <1>1 DEF CompleteRun
  <2> QED
    BY <2>1, <2>3, <2>2, EndsKeeps
<1>2. CASE StopRun
  <2>1. operation # NoOperation
        /\ UNCHANGED <<queueVars, owed, fate, starts, offers, resumableWorkflow, closed>>
    BY <1>2 DEF StopRun, NoOperation, ghosts
  <2>2. PICK throws \in BOOLEAN : Ends(throws)
    BY <1>2 DEF StopRun
  <2> QED
    BY <2>1, <2>2, EndsKeeps
<1>3. CASE FailRun
  <2>1. operation # NoOperation /\ Ends(TRUE)
        /\ UNCHANGED <<queueVars, owed, fate, starts, offers, resumableWorkflow, closed>>
    BY <1>3 DEF FailRun, ghosts
  <2> QED
    BY <2>1, EndsKeeps
<1> QED
  BY <1>1, <1>2, <1>3

-----------------------------------------------------------------------------
(***************************************************************************)
(* The drain.                                                              *)
(***************************************************************************)

\* A claim names a message of the queue, so an empty queue has none.
LEMMA ClaimedIsQueued ==
    ASSUME IInv, queueStartClaim # None
    PROVE  queuedMessages # <<>> /\ queueStartClaim \in Message /\ Queued(queueStartClaim)
<1>1. queueStartClaim \in Message /\ Queued(queueStartClaim)
  BY DEF IInv, TypeOK, FlowOK, QueueOK, ClaimNamesQueued
<1> QED
  BY <1>1, EmptyQueue DEF IInv, TypeOK, Queued

\* A step of the drain alone disturbs the queue and its checkpoint in nothing.
LEMMA DrainStepKeeps ==
    ASSUME IInv,
           UNCHANGED <<queuedMessages, queueStartClaim, resumableWorkflow, operation, caller,
                       fate, offers, closed>>,
           drain'.at \in Settling => caller["workflow"].at = "idle"
    PROVE  /\ starts' = starts => QueueOK'
           /\ NothingVanishes' /\ CallersOK'
<1> USE DEF IInv, FlowOK, Queued
<1>1. starts' = starts => QueueOK'
  BY DEF QueueOK, ClaimNamesQueued
<1>2. NothingVanishes'
  BY DEF NothingVanishes
<1>3. CallersOK'
  BY DEF CallersOK, Caller
<1> QED
  BY <1>1, <1>2, <1>3

\* The loop picks the head of the queue, pauses, or ends.
LEMMA LoopKeeps ==
    ASSUME IInv, Loop
    PROVE  FlowOK'
<1> USE Constants
<1>1. /\ drain.at = "loop" /\ drain.at \notin Executing
      /\ UNCHANGED <<queueVars, resumableWorkflow, operation, caller, owed, ghosts, missed>>
      /\ TypeOK
  BY DEF Loop, Executing, IInv
<1>2. \/ /\ drain' = [NoDrain EXCEPT !.at = "claiming", !.msg = Head(queuedMessages)]
         /\ ~queuePaused /\ queuedMessages # <<>> /\ CanStart
      \/ /\ drain' = [NoDrain EXCEPT !.at = "pausing", !.pause = TRUE, !.retain = TRUE]
         /\ resumableWorkflow # None
      \/ drain' = NoDrain /\ (queuePaused \/ queuedMessages = <<>> \/ ~CanStart)
         /\ (queuePaused \/ queuedMessages = <<>> \/ ~recoveryIdle)
  BY DEF Loop, recoveryIdle
<1>3. drain'.at \in {"claiming", "pausing", "idle"}
  <2>1. /\ [NoDrain EXCEPT !.at = "claiming", !.msg = Head(queuedMessages)].at = "claiming"
        /\ [NoDrain EXCEPT !.at = "pausing", !.pause = TRUE, !.retain = TRUE].at = "pausing"
        /\ NoDrain.at = "idle"
    BY DEF NoDrain
  <2> QED
    BY <1>2, <2>1
<1>4. QueueOK' /\ NothingVanishes' /\ CallersOK'
  BY <1>1, <1>3, DrainStepKeeps DEF Settling, queueVars, ghosts
<1>5. RunOK'
  BY <1>1, <1>3 DEF IInv, FlowOK, RunOK, Queued, queueVars, ghosts
<1>6. CASE /\ drain' = [NoDrain EXCEPT !.at = "claiming", !.msg = Head(queuedMessages)]
           /\ ~queuePaused /\ queuedMessages # <<>> /\ CanStart
  <2> DEFINE m == Head(queuedMessages)
  <2>1. drain'.at = "claiming" /\ drain'.msg = m /\ ~drain'.accepted
    BY <1>6 DEF NoDrain
  <2>2. m \in Message /\ Contains(queuedMessages, m)
    BY <1>1, <1>6, EmptyQueue DEF TypeOK
  <2> HIDE DEF m
  <2>3. queueStartClaim = None /\ operation = NoOperation /\ resumableWorkflow = None
    BY <1>6 DEF CanStart
  <2>4. fate[m] = "queued" /\ starts[m] <= offers[m]
    BY <2>2, <2>3 DEF IInv, FlowOK, QueueOK, ClaimNamesQueued, StartsOK, Queued
  <2>5. DrainOK'
    BY <1>1, <2>1, <2>2, <2>3, <2>4 DEF DrainOK, Executing, Settling, queueVars, ghosts
  <2>6. StartsOK'
    BY <1>1, <2>1, <2>3, <2>4
    DEF IInv, FlowOK, StartsOK, StartedOncePerOffer, Pending, Queued, queueVars, ghosts
  <2>7. CallsOK'
    BY <1>1, <2>1, <2>3 DEF CallsOK, queueVars
  <2> QED
    BY <1>4, <1>5, <2>5, <2>6, <2>7 DEF FlowOK
<1>7. CASE /\ drain' = [NoDrain EXCEPT !.at = "pausing", !.pause = TRUE, !.retain = TRUE]
           /\ resumableWorkflow # None
  <2>1. drain'.at = "pausing" /\ drain'.pause /\ drain'.retain
    BY <1>7 DEF NoDrain
  <2>2. DrainOK'
    BY <2>1 DEF DrainOK, Executing, Settling
  <2>3. StartsOK'
    BY <1>1, <2>1
    DEF IInv, FlowOK, StartsOK, StartedOncePerOffer, Pending, Queued, queueVars, ghosts
  <2>4. CallsOK'
    BY <1>1, <2>1 DEF CallsOK, queueVars
  <2> QED
    BY <1>4, <1>5, <2>2, <2>3, <2>4 DEF FlowOK
<1>8. CASE /\ drain' = NoDrain /\ (queuePaused \/ queuedMessages = <<>> \/ ~CanStart)
           /\ (queuePaused \/ queuedMessages = <<>> \/ ~recoveryIdle)
  <2>1. drain'.at = "idle"
    BY <1>8 DEF NoDrain
  <2>2. DrainOK'
    BY <2>1 DEF DrainOK, Executing, Settling
  <2>3. StartsOK'
    BY <1>1, <2>1
    DEF IInv, FlowOK, StartsOK, StartedOncePerOffer, Pending, Queued, queueVars, ghosts
  <2>4. queueStartClaim # None => queuePaused \/ missed
    BY <1>1 DEF IInv, FlowOK, CallsOK
  <2>5. \/ queuedMessages = <<>> \/ queuePaused \/ missed
        \/ operation # NoOperation \/ caller["mutation"].at # "idle"
    <3>1. CASE queueStartClaim # None
      BY <2>4, <3>1
    <3>2. CASE resumableWorkflow # None /\ operation = NoOperation
      <4>1. ~pipelineActive
        BY <1>1, <3>2 DEF pipelineActive, NoOperation
      <4> QED
        BY <1>8, <3>2, <4>1 DEF recoveryIdle
    <3> QED
      BY <1>8, <3>1, <3>2 DEF CanStart, mutationActive
  <2>6. CallsOK'
    BY <1>1, <2>1, <2>4, <2>5 DEF CallsOK, queueVars
  <2> QED
    BY <1>4, <1>5, <2>2, <2>3, <2>6 DEF FlowOK
<1> QED
  BY <1>2, <1>6, <1>7, <1>8

\* A claim is persisted for the head of the queue, before anything of it runs.
LEMMA ClaimKeeps ==
    ASSUME IInv, Claim
    PROVE  FlowOK'
<1> USE Constants
<1> DEFINE m == drain.msg
<1>1. /\ drain.at = "claiming" /\ m \in Message /\ fate[m] # "unsent" /\ ~drain.accepted
      /\ resumableWorkflow = None /\ operation = NoOperation /\ queueStartClaim = None
      /\ starts[m] <= offers[m] /\ drain \in DrainType /\ TypeOK
      /\ UNCHANGED <<resumableWorkflow, operation, caller, owed, ghosts>>
  BY DEF Claim, IInv, FlowOK, DrainOK, StartsOK, TypeOK
<1>2. CASE ~Queued(m) /\ drain' = [NoDrain EXCEPT !.at = "loop"]
           /\ UNCHANGED <<queueVars, missed>>
  <2>1. drain'.at = "loop"
    BY <1>2 DEF NoDrain
  <2>2. QueueOK' /\ NothingVanishes' /\ CallersOK'
    BY <1>1, <1>2, <2>1, DrainStepKeeps DEF Settling, queueVars, ghosts
  <2>3. RunOK'
    BY <1>1, <1>2, <2>1 DEF RunOK, NoOperation
  <2>4. DrainOK'
    BY <2>1 DEF DrainOK, Executing, Settling
  <2>5. StartsOK'
    BY <1>1, <1>2, <2>1
    DEF IInv, FlowOK, StartsOK, StartedOncePerOffer, Pending, Queued, queueVars, ghosts
  <2>6. CallsOK'
    BY <1>1, <1>2, <2>1 DEF CallsOK, queueVars
  <2> QED
    BY <2>2, <2>3, <2>4, <2>5, <2>6 DEF FlowOK
<1>3. CASE /\ Queued(m) /\ CommitQueue(queuedMessages, queuePaused, m)
           /\ drain' = [drain EXCEPT !.at = "prepare"]
  <2>1. drain'.at = "prepare" /\ drain'.msg = m /\ ~drain'.accepted
    BY <1>1, <1>3 DEF DrainType
  <2>2. queuedMessages' = queuedMessages /\ queueStartClaim' = m
    BY <1>3 DEF CommitQueue
  <2>3. fate[m] = "queued"
    BY <1>1, <1>3 DEF IInv, FlowOK, QueueOK, ClaimNamesQueued
  <2> HIDE DEF m
  <2>4. QueueOK'
    BY <1>1, <1>3, <2>2 DEF IInv, FlowOK, QueueOK, ClaimNamesQueued, Queued, ghosts
  <2>5. RunOK'
    BY <1>1, <2>1 DEF RunOK, NoOperation
  <2>6. DrainOK'
    BY <1>1, <2>1, <2>2 DEF DrainOK, Executing, Settling, ghosts
  <2>7. CallersOK'
    BY <1>1, <2>1, <2>2 DEF IInv, FlowOK, CallersOK, Caller, Settling, Queued, ghosts
  <2>8. NothingVanishes'
    BY <1>1 DEF IInv, FlowOK, NothingVanishes, ghosts
  <2>9. StartsOK'
    <3>1. \A x \in Message : Contains(queuedMessages, x) => starts[x] <= offers[x]
      BY <1>1 DEF IInv, FlowOK, StartsOK, Queued
    <3> QED
      BY <1>1, <2>1, <2>2, <2>3, <3>1
      DEF IInv, FlowOK, StartsOK, StartedOncePerOffer, Pending, Queued, ghosts
  <2>10. CallsOK'
    BY <2>1 DEF CallsOK, Executing
  <2> QED
    BY <2>4, <2>5, <2>6, <2>7, <2>8, <2>9, <2>10 DEF FlowOK
<1> QED
  BY <1>1, <1>2, <1>3 DEF Claim

\* An execution starts the message the drain claimed, once for that claim.
LEMMA ExecuteKeeps ==
    ASSUME IInv, Execute, operation' # operation
    PROVE  FlowOK'
<1> USE Constants
<1> DEFINE m == drain.msg
           direct == m \notin Pipeline
<1>1. /\ drain.at = "prepare" /\ operation = NoOperation /\ caller["workflow"].at = "idle"
      /\ m \in Message /\ fate[m] # "unsent" /\ resumableWorkflow = None
      /\ queueStartClaim \in {None, m} /\ drain \in DrainType /\ TypeOK
      /\ UNCHANGED <<queueVars, resumableWorkflow, caller, owed, fate, offers, closed, missed>>
  BY DEF Execute, IInv, FlowOK, DrainOK, Executing, TypeOK
<1>2. /\ operation' = [msg |-> m, by |-> "drain", at |-> FirstStage(m), stopped |-> FALSE]
      /\ drain' = [drain EXCEPT !.at = "running", !.accepted = direct]
      /\ starts' = IF direct THEN [starts EXCEPT ![m] = starts[m] + 1] ELSE starts
  BY DEF Execute
<1>3. /\ operation'.msg = m /\ operation'.by = "drain" /\ operation'.at = FirstStage(m)
      /\ drain'.at = "running" /\ drain'.msg = m /\ drain'.accepted = direct
  BY <1>1, <1>2 DEF DrainType
<1>4. /\ FirstStage(m) = "working" <=> direct
      /\ FirstStage(m) \in {"working", "preflight"}
      /\ FirstStage(m) = "preflight" => m \in Pipeline
  BY DEF FirstStage
<1>5. /\ \A x \in Message : starts[x] \in Nat /\ offers[x] \in Nat
      /\ \A x \in Message \ {m} : starts'[x] = starts[x]
      /\ direct => starts'[m] = starts[m] + 1
      /\ ~direct => starts'[m] = starts[m]
  BY <1>1, <1>2 DEF TypeOK
<1>6. /\ starts[m] <= offers[m]
      /\ Contains(queuedMessages, m) /\ queueStartClaim # m => starts[m] < offers[m]
      /\ fate[m] = "cancelled" => offers[m] > 0
  BY <1>1 DEF IInv, FlowOK, StartsOK, Pending, Queued
<1> HIDE DEF m, direct
<1>7. QueueOK'
  BY <1>1, <1>5 DEF IInv, FlowOK, QueueOK, ClaimNamesQueued, Queued, queueVars
<1>8. RunOK'
  BY <1>1, <1>3, <1>4 DEF RunOK
<1>9. DrainOK'
  BY <1>1, <1>3 DEF DrainOK, Executing, Settling, queueVars
<1>10. CallersOK'
  BY <1>1 DEF IInv, FlowOK, CallersOK, Caller, Queued, queueVars
<1>11. NothingVanishes'
  BY <1>1 DEF IInv, FlowOK, NothingVanishes
<1>12. StartsOK'
  <2>1. \A x \in Message : starts'[x] <= 1 + offers[x]
    BY <1>5, <1>6 DEF IInv, FlowOK, StartsOK, StartedOncePerOffer
  <2>2. \A x \in Message : Contains(queuedMessages, x) /\ queueStartClaim # x
                             => starts'[x] <= offers[x]
    BY <1>5, <1>6 DEF IInv, FlowOK, StartsOK, Queued
  <2>3. ~drain'.accepted => starts'[m] = starts[m]
    BY <1>3, <1>5
  <2> QED
    BY <1>1, <1>3, <1>6, <2>1, <2>2, <2>3
    DEF StartsOK, StartedOncePerOffer, Pending, Queued, queueVars
<1>13. CallsOK'
  BY <1>3 DEF CallsOK, Executing
<1> QED
  BY <1>7, <1>8, <1>9, <1>10, <1>11, <1>12, <1>13 DEF FlowOK

\* A request that failed is adopted, completed, or left to a person.
LEMMA FailureKeeps ==
    ASSUME IInv, drain.at \in (Executing \cup {"claiming"}) \ {"running"},
           UNCHANGED <<queueVars, resumableWorkflow, operation, caller, owed, ghosts>>,
           drain'.msg = drain.msg,
           \/ /\ drain'.at = "adopting" /\ resumableWorkflow = drain.msg /\ drain'.accepted
              /\ caller["workflow"].at = "idle"
           \/ drain'.at = "finalizing" /\ drain'.accepted /\ caller["workflow"].at = "idle"
           \/ /\ drain'.at = "pausing" /\ drain'.pause = (queuedMessages # <<>>)
              /\ drain'.retain \/ drain.at \in {"claiming", "prepare"}
    PROVE  FlowOK'
<1> USE Constants
<1>1. QueueOK' /\ NothingVanishes' /\ CallersOK'
  BY DrainStepKeeps DEF Settling, queueVars, ghosts
<1>2. /\ drain.msg \in Message /\ fate[drain.msg] # "unsent"
      /\ queueStartClaim \in {None, drain.msg}
  BY DEF IInv, FlowOK, DrainOK
<1>3. RunOK'
  BY DEF IInv, FlowOK, RunOK, Queued, queueVars, ghosts
<1>4. DrainOK'
  BY <1>2, ClaimedIsQueued DEF DrainOK, Executing, Settling, queueVars, ghosts
<1>5. drain'.at = "pausing" /\ ~drain'.retain /\ queueStartClaim # None
        => starts[queueStartClaim] <= offers[queueStartClaim]
  BY <1>2 DEF IInv, FlowOK, StartsOK, Pending
<1>6. StartsOK'
  BY <1>5 DEF IInv, FlowOK, StartsOK, StartedOncePerOffer, Pending, Queued, queueVars, ghosts
<1>7. CallsOK'
  BY DEF CallsOK, Executing
<1> QED
  BY <1>1, <1>3, <1>4, <1>6, <1>7 DEF FlowOK

\* What failed before it was accepted left no checkpoint.
LEMMA CaughtKeeps ==
    ASSUME IInv, NEW accepted \in BOOLEAN, Caught(accepted),
           drain.at \in {"claiming", "prepare", "returned"},
           accepted => caller["workflow"].at = "idle",
           ~accepted => drain.at # "returned",
           UNCHANGED <<queueVars, resumableWorkflow, operation, caller, owed, ghosts>>
    PROVE  FlowOK'
<1>1. drain.at \in (Executing \cup {"claiming"}) \ {"running"} /\ TypeOK
  BY DEF Executing, IInv
<1>2. drain.at # "returned" => resumableWorkflow # drain.msg
  BY Constants DEF IInv, FlowOK, DrainOK, Executing
<1> QED
  BY <1>1, <1>2, CaughtIs, FailureKeeps

\* A request that is settled leaves the queue, and its claim with it.
LEMMA SettledKeeps ==
    ASSUME IInv, drain.at \in Settling, Queued(drain.msg),
           \/ Completion(drain.msg)
           \/ /\ RecoveryAdoption(drain.msg)
              /\ resumableWorkflow = drain.msg \/ drain.msg \in closed,
           UNCHANGED <<resumableWorkflow, operation, caller, owed, starts, offers, closed>>,
           drain'.at \in {"loop", "pausing"}
    PROVE  FlowOK'
<1> USE Constants
<1> DEFINE m == drain.msg
<1>1. /\ m \in Message /\ queueStartClaim \in {None, m} /\ Queued(m)
      /\ caller["workflow"].at = "idle" /\ operation.by # "drain"
  BY DEF IInv, FlowOK, RunOK, DrainOK, CallersOK, Executing, Settling
<1>2. \/ Completion(m)
      \/ RecoveryAdoption(m) /\ (resumableWorkflow = m \/ m \in closed)
  OBVIOUS
<1>3. queueStartClaim' = None
  BY <1>2 DEF Completion, RecoveryAdoption, CommitQueue
<1>4. /\ QueuedOnce(queuedMessages') /\ ClaimNamesQueued'
      /\ \A x \in Message : Contains(queuedMessages', x) <=>
                              Contains(queuedMessages, x) /\ x # m
      /\ fate'[m] \in {"completed", "cancelled", "superseded", "recoverable"}
      /\ \A x \in Message \ {m} : fate'[x] = fate[x]
  <2> HIDE DEF m
  <2> QED
    BY <1>1, <1>2, Leaving DEF IInv, FlowOK
<1>5. fate'[m] = "recoverable" => resumableWorkflow = m \/ m \in closed
  BY <1>1, <1>2 DEF IInv, TypeOK, Completion
<1> HIDE DEF m
<1>6. QueueOK'
  BY <1>4 DEF IInv, FlowOK, QueueOK
<1>7. RunOK'
  BY <1>1, <1>4 DEF IInv, FlowOK, RunOK, Queued
<1>8. DrainOK'
  BY <1>3 DEF DrainOK, Executing, Settling
<1>9. CallersOK'
  BY <1>1, <1>4 DEF IInv, TypeOK, FlowOK, CallersOK, Caller
<1>10. NothingVanishes'
  BY <1>4, <1>5 DEF IInv, FlowOK, NothingVanishes
<1>11. StartsOK'
  <2>1. \A x \in Message : Contains(queuedMessages', x) => starts[x] <= offers[x]
    BY <1>1, <1>4 DEF IInv, FlowOK, StartsOK, Queued
  <2> QED
    BY <1>3, <2>1 DEF IInv, FlowOK, StartsOK, StartedOncePerOffer, Pending, Queued
<1>12. CallsOK'
  BY <1>3 DEF CallsOK
<1> QED
  BY <1>6, <1>7, <1>8, <1>9, <1>10, <1>11, <1>12 DEF FlowOK

\* A finished message leaves the queue together with its claim.
LEMMA FinalizeKeeps ==
    ASSUME IInv, Finalize
    PROVE  FlowOK'
<1>1. /\ drain.at = "returned" /\ drain.at \in Settling /\ caller["workflow"].at = "idle"
      /\ UNCHANGED <<resumableWorkflow, operation, caller, owed, starts, offers, closed>>
  BY DEF Finalize, Settling, IInv, FlowOK, CallersOK
<1>2. CASE MayComplete(drain.msg)
  <2>1. Completion(drain.msg) /\ drain'.at = "loop" /\ Queued(drain.msg)
    BY <1>2 DEF Finalize, MayComplete, NoDrain
  <2> QED
    BY <1>1, <2>1, SettledKeeps
<1>3. CASE ~MayComplete(drain.msg)
  <2>1. Caught(TRUE) /\ UNCHANGED <<queueVars, fate>>
    BY <1>3 DEF Finalize
  <2> QED
    BY <1>1, <2>1, CaughtKeeps DEF ghosts
<1> QED
  BY <1>2, <1>3

\* After a failed run the drain leaves its message to the checkpoint, or to a pause.
LEMMA AdoptFailedKeeps ==
    ASSUME IInv, AdoptFailed
    PROVE  FlowOK'
<1> USE Constants
<1>1. /\ drain.at = "adopting" /\ drain.at \in Settling /\ caller["workflow"].at = "idle"
      /\ drain.accepted /\ drain \in DrainType
      /\ resumableWorkflow = drain.msg \/ drain.msg \in closed
      /\ UNCHANGED <<resumableWorkflow, operation, caller, owed, starts, offers, closed>>
  BY DEF AdoptFailed, Settling, IInv, TypeOK, FlowOK, DrainOK, CallersOK
<1>2. CASE Queued(drain.msg)
  <2>1. /\ RecoveryAdoption(drain.msg)
        /\ drain' = [drain EXCEPT !.at = "pausing", !.retain = FALSE,
                                  !.pause = Without(drain.msg) # <<>>]
    BY <1>2 DEF AdoptFailed
  <2>2. drain'.at = "pausing" /\ drain'.pause = (Without(drain.msg) # <<>>)
    BY <1>1, <2>1 DEF DrainType
  <2> QED
    BY <1>1, <1>2, <2>1, <2>2, SettledKeeps
<1>3. CASE ~Queued(drain.msg)
  <2>1. drain' = [drain EXCEPT !.at = "finalizing"] /\ UNCHANGED <<queueVars, fate>>
    BY <1>1, <1>3 DEF AdoptFailed
  <2>2. drain'.at = "finalizing" /\ drain'.msg = drain.msg /\ drain'.accepted
    BY <1>1, <2>1 DEF DrainType
  <2> QED
    BY <1>1, <2>1, <2>2, FailureKeeps DEF Executing, ghosts
<1> QED
  BY <1>2, <1>3

\* After a failed run the drain settles the message it accepted, or leaves it unsettled.
LEMMA FinalizeFailedKeeps ==
    ASSUME IInv, FinalizeFailed
    PROVE  FlowOK'
<1>1. /\ drain.at = "finalizing" /\ drain.at \in Settling /\ drain \in DrainType /\ TypeOK
      /\ UNCHANGED <<resumableWorkflow, operation, caller, owed, starts, offers, closed>>
  BY DEF FinalizeFailed, Settling, IInv, TypeOK
<1>2. CASE MayComplete(drain.msg)
  <2>1. /\ Completion(drain.msg) /\ Queued(drain.msg)
        /\ drain' = [drain EXCEPT !.at = "pausing", !.retain = FALSE,
                                  !.pause = Without(drain.msg) # <<>>]
    BY <1>2 DEF FinalizeFailed, MayComplete
  <2>2. drain'.at = "pausing"
    BY <1>1, <2>1 DEF DrainType
  <2> QED
    BY <1>1, <2>1, <2>2, SettledKeeps
<1>3. CASE ~MayComplete(drain.msg)
  <2>1. ToPause(TRUE) /\ UNCHANGED <<queueVars, fate>>
    BY <1>3 DEF FinalizeFailed, Unsettled
  <2>2. /\ drain'.msg = drain.msg /\ drain'.at = "pausing" /\ drain'.retain
        /\ drain'.pause = (queuedMessages # <<>>)
    BY <1>1, <2>1, ToPauseIs
  <2> QED
    BY <1>1, <2>1, <2>2, FailureKeeps DEF Executing, ghosts
<1> QED
  BY <1>2, <1>3

\* The drain that ends gives the queue, and a claim of it, to a person.
LEMMA PauseEnds ==
    ASSUME IInv, drain.at = "pausing", drain' = NoDrain, StalePause(drain.pause),
           queuedMessages' = queuedMessages, queuePaused' = drain.pause,
           \/ queueStartClaim' = queueStartClaim
           \/ queueStartClaim' = None /\ ~drain.retain,
           UNCHANGED <<resumableWorkflow, operation, caller, owed, ghosts>>
    PROVE  FlowOK'
<1> USE Constants
<1>1. /\ drain'.at = "idle" /\ drain'.at \notin Executing /\ TypeOK
      /\ drain.pause \in BOOLEAN /\ missed \in BOOLEAN
      /\ queueStartClaim' \in {None, queueStartClaim}
  BY DEF NoDrain, Executing, IInv, TypeOK, DrainType
<1>2. QueueOK'
  BY <1>1 DEF IInv, FlowOK, QueueOK, ClaimNamesQueued, Queued, ghosts
<1>3. RunOK'
  BY <1>1 DEF IInv, FlowOK, RunOK, Queued, ghosts
<1>4. DrainOK'
  BY <1>1 DEF DrainOK, Executing, Settling
<1>5. CallersOK'
  BY <1>1 DEF IInv, FlowOK, CallersOK, Caller, Settling, Queued, ghosts
<1>6. NothingVanishes'
  BY DEF IInv, FlowOK, NothingVanishes, ghosts
<1>7. StartsOK'
  <2>1. \A x \in Message : Contains(queuedMessages, x) /\ queueStartClaim' # x
                             => starts[x] <= offers[x]
    BY <1>1 DEF IInv, FlowOK, StartsOK, Queued
  <2> QED
    BY <1>1, <2>1 DEF IInv, FlowOK, StartsOK, StartedOncePerOffer, Pending, Queued, ghosts
<1>8. CallsOK'
  <2>1. queuedMessages = <<>> \/ queuePaused' \/ missed'
    BY <1>1 DEF StalePause
  <2>2. queueStartClaim' # None => queuePaused' \/ missed'
    BY <1>1, <2>1, ClaimedIsQueued
  <2> QED
    BY <2>1, <2>2 DEF CallsOK
<1> QED
  BY <1>2, <1>3, <1>4, <1>5, <1>6, <1>7, <1>8 DEF FlowOK

\* A pause keeps every message, and the claim if the drain retains it.
LEMMA PauseKeeps ==
    ASSUME IInv, Pause
    PROVE  FlowOK'
<1>1. drain.retain \in BOOLEAN
  BY DEF IInv, TypeOK, DrainType
<1> QED
  BY <1>1, PauseEnds DEF Pause, CommitQueue, ghosts

\* A transition of the drain that fails keeps the queue.
LEMMA DrainFailsKeeps ==
    ASSUME IInv, DrainFails
    PROVE  FlowOK'
<1> USE Constants
<1>1. /\ drain.at \in {"claiming", "returned", "adopting", "finalizing", "pausing"}
      /\ UNCHANGED <<queuedMessages, queueStartClaim, resumableWorkflow, operation, caller,
                     owed, ghosts>>
      /\ queuePaused' = IF drain.at = "pausing" THEN drain.pause ELSE queuePaused
      /\ drain \in DrainType /\ TypeOK
  BY DEF DrainFails, IInv, TypeOK
<1>2. drain.at \in Settling => caller["workflow"].at = "idle" /\ drain.accepted
  BY DEF IInv, FlowOK, CallersOK, DrainOK
<1>3. CASE drain.at \in {"claiming", "returned"}
  <2>1. \/ drain.at = "claiming" /\ Caught(FALSE)
        \/ drain.at = "returned" /\ Caught(TRUE)
    BY <1>3 DEF DrainFails
  <2> QED
    BY <1>1, <1>2, <2>1, CaughtKeeps DEF Settling, queueVars
<1>4. CASE drain.at = "adopting"
  <2>1. drain' = [drain EXCEPT !.at = "finalizing"]
    BY <1>2, <1>4 DEF DrainFails, Settling
  <2>2. drain'.at = "finalizing" /\ drain'.msg = drain.msg /\ drain'.accepted
    BY <1>1, <1>2, <1>4, <2>1 DEF DrainType, Settling
  <2> QED
    BY <1>1, <1>2, <1>4, <2>2, FailureKeeps DEF Executing, Settling, queueVars
<1>5. CASE drain.at = "finalizing"
  <2>1. ToPause(TRUE)
    BY <1>5 DEF DrainFails, Unsettled
  <2>2. /\ drain'.msg = drain.msg /\ drain'.at = "pausing" /\ drain'.retain
        /\ drain'.pause = (queuedMessages # <<>>)
    BY <1>1, <2>1, ToPauseIs
  <2> QED
    BY <1>1, <1>5, <2>2, FailureKeeps DEF Executing, queueVars
<1>6. CASE drain.at = "pausing"
  <2>1. drain' = NoDrain
    BY <1>6 DEF DrainFails
  <2>2. StalePause(drain.pause)
    BY <1>1, <1>6 DEF DrainFails, StalePause
  <2> QED
    BY <1>1, <1>6, <2>1, <2>2, PauseEnds
<1> QED
  BY <1>1, <1>3, <1>4, <1>5, <1>6

\* A restart drops every claim in the open, and no checkpoint but an unusable one.
LEMMA RestartKeeps ==
    ASSUME IInv, Restart
    PROVE  FlowOK'
<1> USE Constants
<1> DEFINE m == resumableWorkflow
<1>1. /\ drain' = NoDrain /\ operation' = NoOperation
      /\ caller' = [c \in Caller |-> NoCall]
      /\ queueStartClaim' = None /\ OfferClaimed /\ starts' = starts
      /\ queuePaused' = (queuedMessages' # <<>>)
      /\ m \in Message \cup {None} /\ TypeOK
  BY DEF Restart, CommitQueue, IInv, TypeOK
<1>2. drain'.at = "idle" /\ \A c \in Caller : caller'[c].at = "idle"
  BY <1>1 DEF NoDrain, NoCall
<1>3. \/ /\ m # None /\ Queued(m) /\ RecoveryAdoption(m)
         /\ resumableWorkflow' = m /\ closed' = closed
      \/ /\ UNCHANGED <<queuedMessages, fate>>
         /\ \/ resumableWorkflow' = m /\ closed' = closed
            \/ resumableWorkflow' = None /\ closed' = closed \cup ({m} \ {None})
  BY <1>1 DEF Restart, CommitQueue, RecoveryAdoption
<1>4. ASSUME NEW x \in Message, Contains(queuedMessages, x) PROVE starts[x] <= offers'[x]
  <2>1. starts[x] \in Nat /\ offers[x] \in Nat
    BY <1>1 DEF TypeOK
  <2>2. CASE x = queueStartClaim
    <3>1. offers'[x] = offers[x] + 1
      BY <1>1, <2>2 DEF OfferClaimed
    <3>2. starts[x] <= 1 + offers[x]
      BY DEF IInv, FlowOK, StartsOK, StartedOncePerOffer
    <3> QED
      BY <2>1, <3>1, <3>2
  <2>3. CASE x # queueStartClaim
    <3>1. offers'[x] = offers[x]
      BY <1>1, <2>3 DEF OfferClaimed
    <3> QED
      BY <1>4, <2>3, <3>1 DEF IInv, FlowOK, StartsOK, Queued
  <2> QED
    BY <2>2, <2>3
<1>5. ASSUME NEW x \in Message PROVE starts[x] <= 1 + offers'[x]
  <2>1. starts[x] \in Nat /\ offers[x] \in Nat /\ starts[x] <= 1 + offers[x]
    BY <1>1 DEF IInv, TypeOK, FlowOK, StartsOK, StartedOncePerOffer
  <2>2. offers'[x] = offers[x] \/ offers'[x] = offers[x] + 1
    BY <1>1 DEF OfferClaimed
  <2> QED
    BY <2>1, <2>2
<1>6. /\ QueuedOnce(queuedMessages')
      /\ \A x \in Message : Contains(queuedMessages', x) => Contains(queuedMessages, x)
      /\ \A x \in Message : fate'[x] = "queued" <=> Contains(queuedMessages', x)
      /\ \A x \in Message : fate'[x] = "unsent" <=> fate[x] = "unsent"
      /\ \A x \in Message : fate'[x] = "recoverable" => fate[x] = "recoverable" \/ x = resumableWorkflow'
  <2>1. CASE UNCHANGED <<queuedMessages, fate>>
    BY <2>1 DEF IInv, FlowOK, QueueOK, ClaimNamesQueued, Queued
  <2>2. CASE /\ m # None /\ Queued(m) /\ RecoveryAdoption(m)
             /\ resumableWorkflow' = m
    <3>1. m \in Message /\ fate[m] = "queued"
      BY <1>1, <2>2 DEF IInv, FlowOK, QueueOK, ClaimNamesQueued
    <3>2. resumableWorkflow' = m
      BY <2>2
    <3> HIDE DEF m
    <3>3. /\ QueuedOnce(queuedMessages') /\ ClaimNamesQueued'
          /\ \A x \in Message : Contains(queuedMessages', x) <=>
                                  Contains(queuedMessages, x) /\ x # m
          /\ fate'[m] \in {"completed", "cancelled", "superseded", "recoverable"}
          /\ \A x \in Message \ {m} : fate'[x] = fate[x]
      BY <2>2, <3>1, Leaving DEF IInv, FlowOK
    <3> QED
      BY <3>1, <3>2, <3>3 DEF ClaimNamesQueued, Queued
  <2> QED
    BY <1>3, <2>1, <2>2
<1>7. QueueOK'
  BY <1>1, <1>6 DEF IInv, FlowOK, QueueOK, ClaimNamesQueued, Queued
<1>8. RunOK'
  BY <1>1, <1>2 DEF RunOK, NoOperation
<1>9. DrainOK'
  BY <1>1, <1>2 DEF DrainOK, Executing, Settling
<1>10. CallersOK'
  <2>1. resumableWorkflow' # None => fate'[resumableWorkflow'] # "unsent"
    BY <1>1, <1>3, <1>6 DEF IInv, FlowOK, CallersOK
  <2> QED
    BY <1>2, <2>1 DEF CallersOK, Caller
<1>11. NothingVanishes'
  BY <1>1, <1>3, <1>6 DEF IInv, FlowOK, NothingVanishes
<1>12. StartsOK'
  BY <1>1, <1>2, <1>4, <1>5, <1>6 DEF StartsOK, StartedOncePerOffer, Pending, Queued
<1>13. CallsOK'
  BY <1>1 DEF CallsOK
<1> QED
  BY <1>7, <1>8, <1>9, <1>10, <1>11, <1>12, <1>13 DEF FlowOK

-----------------------------------------------------------------------------
(***************************************************************************)
(* The theorems.                                                           *)
(***************************************************************************)

\* The invariant holds at first.
LEMMA InitFlow == Init => IInv
<1> SUFFICES ASSUME Init PROVE IInv
  OBVIOUS
<1> USE Constants DEF Init
<1>1. TypeOK
  <2>1. NoDrain \in DrainType /\ NoOperation \in OperationType /\ NoCall \in CallType
    BY DEF NoDrain, NoOperation, NoCall, DrainType, OperationType, CallType
  <2>2. <<>> \in Seq(Message) /\ "unsent" \in Fates
    BY DEF Fates
  <2> QED
    BY <2>1, <2>2 DEF TypeOK
<1>2. \A x : ~Queued(x)
  BY DEF Queued, Contains
<1>3. QueueOK
  BY <1>2 DEF QueueOK, QueuedOnce, ClaimNamesQueued
<1>4. RunOK
  BY DEF RunOK, NoDrain, NoOperation
<1>5. DrainOK
  BY DEF DrainOK, NoDrain, Executing, Settling
<1>6. CallersOK
  BY DEF CallersOK, NoCall, Caller
<1>7. NothingVanishes
  BY DEF NothingVanishes
<1>8. StartsOK
  BY DEF StartsOK, StartedOncePerOffer, Pending, NoDrain
<1>9. CallsOK
  BY DEF CallsOK
<1> QED
  BY <1>1, <1>3, <1>4, <1>5, <1>6, <1>7, <1>8, <1>9 DEF IInv, FlowOK

\* Every step keeps the invariant.
LEMMA FlowStep == IInv /\ [Next]_vars => IInv'
<1> SUFFICES ASSUME IInv, [Next]_vars PROVE IInv'
  OBVIOUS
<1>1. TypeOK'
  BY TypeStep DEF IInv, FlowOK
<1> SUFFICES FlowOK'
  BY <1>1 DEF IInv
<1>2. CASE UNCHANGED vars
  <2>1. QueueOK' /\ RunOK' /\ DrainOK' /\ NothingVanishes' /\ StartsOK'
    BY <1>2, QuietStep DEF vars, queueVars
  <2>2. CallersOK' /\ CallsOK'
    BY <1>2 DEF IInv, FlowOK, CallersOK, CallsOK, Queued, vars, queueVars, ghosts
  <2> QED
    BY <2>1, <2>2 DEF FlowOK
<1>3. ASSUME NEW m \in Message, Enqueue(m) \/ EnqueueInterrupt(m) \/ DeliveryCalls(m)
      PROVE  FlowOK'
  BY <1>3, EnqueueKeeps, DeliveryCallsKeeps
<1>4. CASE Ask
  <2>1. \/ \E at \in {"cancel", "promote", "reconcile", "discard"},
              m \in Message \cup {None} : StartMutation(at, m)
        \/ AskWorkflow
    BY <1>4 DEF Ask, AskCancel, AskPromote, AskResume, AskDiscard
  <2> QED
    BY <2>1, AskMutationKeeps, AskWorkflowKeeps
<1>5. CASE PrepareInterrupt \/ Supersede \/ InterruptDiscards \/ InterruptPauses
  BY <1>5, PrepareInterruptKeeps, SupersedeKeeps, InterruptDiscardsKeeps, InterruptPausesKeeps
<1>6. ASSUME NEW c \in Caller,
             Reconcile(c) \/ Adopt(c) \/ ClearClaim(c) \/ Unpause(c) \/ CallerFails(c)
      PROVE  FlowOK'
  BY <1>6, ReconcileKeeps, AdoptKeeps, ClearClaimKeeps, UnpauseKeeps, CallerFailsKeeps
<1>7. CASE Cancel \/ Promote \/ Discard \/ ResumeWorkflow
  BY <1>7, CancelKeeps, PromoteKeeps, DiscardKeeps, ResumeWorkflowKeeps
<1>8. CASE RunStep \/ FailRun
  BY <1>8, AcceptRunKeeps, RunEndKeeps DEF RunStep
<1>9. CASE Execute
  <2>1. CASE operation' # operation
    BY <1>9, <2>1, ExecuteKeeps
  <2>2. CASE operation' = operation
    <3>1. operation = NoOperation /\ drain.at = "prepare"
      BY <1>9 DEF Execute
    <3>2. operation' # [msg |-> drain.msg, by |-> "drain", at |-> FirstStage(drain.msg),
                        stopped |-> FALSE]
      BY <2>2, <3>1 DEF NoOperation
    <3>3. Caught(TRUE) /\ UNCHANGED <<operation, starts>> /\ caller["workflow"].at = "idle"
      BY <1>9, <3>2 DEF Execute
    <3> QED
      BY <1>9, <3>1, <3>3, CaughtKeeps DEF Execute, ghosts
  <2> QED
    BY <2>1, <2>2
<1>10. CASE ExecutionRefused
  BY <1>10, CaughtKeeps DEF ExecutionRefused
<1>11. CASE Loop \/ Claim \/ Finalize \/ AdoptFailed \/ FinalizeFailed \/ Pause \/ DrainFails
  BY <1>11, LoopKeeps, ClaimKeeps, FinalizeKeeps, AdoptFailedKeeps, FinalizeFailedKeeps,
     PauseKeeps, DrainFailsKeeps
<1>12. CASE Restart
  BY <1>12, RestartKeeps
<1> QED
  BY <1>2, <1>3, <1>4, <1>5, <1>6, <1>7, <1>8, <1>9, <1>10, <1>11, <1>12
  DEF Next, Deliver, CallerStep, DrainStep, Fault

\* The inductive invariant of the runtime's queue holds in every reachable state.
THEOREM FlowInvariant == Spec => []IInv
<1>1. Init => IInv
  BY InitFlow
<1>2. IInv /\ [Next]_vars => IInv'
  BY FlowStep
<1> QED
  BY <1>1, <1>2, PTL DEF Spec

\* The variables keep their types.
THEOREM QueueTypeCorrect == Spec => []TypeOK
<1>1. IInv => TypeOK
  BY DEF IInv
<1> QED
  BY <1>1, FlowInvariant, PTL

\* For any number of messages, interrupts, personal actions, failed writes and
\* restarts: the claim names a queued message, and what is announced as queued
\* is in the queue (queueTransitions.ts, queueRemoval).
THEOREM ClaimsNameQueued == Spec => []ClaimNamesQueued
<1>1. IInv => ClaimNamesQueued
  BY DEF IInv, FlowOK, QueueOK
<1> QED
  BY <1>1, FlowInvariant, PTL

\* Preserved recoverable work keeps its checkpoint until it is completed or
\* discarded (adoptQueuedRecovery, canStartQueuedMessage).
THEOREM PreservedWorkIsKept == Spec => []NothingVanishes
<1>1. IInv => NothingVanishes
  BY DEF IInv, FlowOK
<1> QED
  BY <1>1, FlowInvariant, PTL

\* The drain runs a message once for every time its claim was given up in the
\* open (queueTransitions.ts, queueFailureReconciliation).
THEOREM RunsOncePerOffer == Spec => []StartedOncePerOffer
<1>1. IInv => StartedOncePerOffer
  BY DEF IInv, FlowOK, StartsOK
<1> QED
  BY <1>1, FlowInvariant, PTL

\* A resumed run does not wait in the queue as well (workflow.resume).
THEOREM ResumedLeftTheQueue == Spec => []ResumedIsNotQueued
<1>1. IInv => ResumedIsNotQueued
  BY DEF IInv, FlowOK, RunOK, ResumedIsNotQueued
<1> QED
  BY <1>1, FlowInvariant, PTL

\* A queue at rest that is not paused is empty, but for a call that was missed
\* (drainQueue, scheduleQueueDrain).
THEOREM QueueAtRestIsEmpty == Spec => []NoMessageForgotten
<1>1. IInv => NoMessageForgotten
  BY DEF IInv, FlowOK, CallsOK, NoMessageForgotten, Caller
<1> QED
  BY <1>1, FlowInvariant, PTL

\* Only a message the drain has claimed and not run yet is run.
LEMMA OnlyPendingStarts ==
    ASSUME IInv, [Next]_vars, NEW m \in Message, starts'[m] # starts[m]
    PROVE  Pending /\ m = drain.msg
<1>1. starts' # starts
  OBVIOUS
<1>2. CASE Execute
  BY <1>2, <1>1 DEF Execute, Pending, IInv, TypeOK
<1>3. CASE AcceptRun
  <2>1. operation.by = "drain" /\ operation.at = "preflight"
    BY <1>3, <1>1 DEF AcceptRun
  <2>2. Pending /\ operation.msg = drain.msg
    BY <2>1 DEF IInv, FlowOK, RunOK, Pending
  <2>3. starts' = [starts EXCEPT ![operation.msg] = @ + 1]
    BY <1>3, <2>1 DEF AcceptRun
  <2> QED
    BY <2>2, <2>3 DEF IInv, TypeOK
<1>4. CASE ~Execute /\ ~AcceptRun
  <2>1. CASE UNCHANGED vars \/ Deliver \/ Ask \/ \E x \in Message : DeliveryCalls(x)
    BY <1>1, <2>1
    DEF vars, ghosts, Deliver, Enqueue, EnqueueInterrupt, DeliveryCalls, Ask, AskCancel,
        AskPromote, AskResume, AskDiscard, AskWorkflow, StartMutation
  <2>2. CASE CallerStep
    BY <1>1, <2>2
    DEF ghosts, CallerStep, PrepareInterrupt, Supersede, InterruptDiscards, InterruptPauses,
        Reconcile, Adopt, ClearClaim, Unpause, Cancel, Promote, Discard, ResumeWorkflow
  <2>3. CASE RunStep \/ DrainStep
    BY <1>1, <1>4, <2>3
    DEF ghosts, RunStep, CompleteRun, StopRun, DrainStep, Loop, Claim, Finalize, AdoptFailed,
        FinalizeFailed, Pause
  <2>4. CASE Fault
    BY <1>1, <2>4
    DEF ghosts, Fault, FailRun, ExecutionRefused, DrainFails, Restart, CallerFails
  <2> QED
    BY <2>1, <2>2, <2>3, <2>4 DEF Next
<1> QED
  BY <1>2, <1>3, <1>4

\* A cancelled message never runs, unless its claim had been dropped while the
\* drain held it (cancelQueuedMessage).
THEOREM CancelledStaysOut == Spec => CancelledNeverStarts
<1> DEFINE Quiet == \A m \in Message :
                      fate[m] = "cancelled" /\ offers[m] = 0 => starts'[m] = starts[m]
<1>1. IInv /\ [Next]_vars => [Quiet]_vars
  <2> SUFFICES ASSUME IInv, [Next]_vars, NEW m \in Message,
                      fate[m] = "cancelled", offers[m] = 0, starts'[m] # starts[m]
               PROVE  FALSE
    OBVIOUS
  <2>1. Pending /\ m = drain.msg
    BY OnlyPendingStarts
  <2>2. offers[m] > 0
    BY <2>1 DEF IInv, FlowOK, StartsOK
  <2> QED
    BY <2>2
<1> HIDE DEF Quiet
<1>2. Spec => [][Quiet]_vars
  BY <1>1, FlowInvariant, PTL DEF Spec
<1> QED
  BY <1>2 DEF Quiet, CancelledNeverStarts
=============================================================================
