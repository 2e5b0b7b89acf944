------------------------ MODULE WorkspaceWriterProofs -----------------------
EXTENDS WorkspaceWriter, FiniteSetTheorems, TLAPS

(***************************************************************************)
(* The writer lease: what the broker's promises amount to for one key of   *)
(* one unit.                                                               *)
(***************************************************************************)

\* A window claims the writer key, one unit of it, and nothing physical
\* (acquireWorkspaceWriterLease).
LEMMA WriterClaims ==
    ASSUME NEW w \in Window
    PROVE  /\ Lease!KeysOf(w) = {WriterKey}
           /\ Lease!PhysicalKeysOf(w) = {}
           /\ Lease!UnitsOf({w}, WriterKey) = {<<w, 1>>}
<1>1. Lease!KeysOf(w) = {WriterKey} /\ Lease!PhysicalKeysOf(w) = {}
  BY DEF Lease!KeysOf, Lease!PhysicalKeysOf, WriterClaim
<1>2. Lease!ClaimantsOf({w}, WriterKey) = {w}
  BY <1>1 DEF Lease!ClaimantsOf
<1>3. Lease!UnitsOf({w}, WriterKey) = {w} \X (1 .. 1)
  BY <1>2 DEF Lease!UnitsOf, WriterClaim
<1> QED
  BY <1>1, <1>3

\* The lease service counts as this module does.
LEMMA LeaseCounts == \A S : Lease!Cardinality(S) = Cardinality(S)
  BY Zenon DEF Lease!Cardinality, Cardinality

\* The writer lease is granted only while nobody has it, with a new token.
LEMMA GrantStep ==
    ASSUME TypeOK, LeaseInv, NEW w \in Window, Lease!Grant(w)
    PROVE  /\ live = {} /\ live' = {w}
           /\ w \notin granted /\ granted' = granted \cup {w}
           /\ token' = [k \in {WriterKey} |-> token[WriterKey] + 1]
           /\ TokenOf(w)' = token[WriterKey] + 1
           /\ fences' \in [Window -> [{WriterKey} -> Nat]]
           /\ \A v \in Window \ {w} : TokenOf(v)' = TokenOf(v)
<1>1. live = {}
  <2> SUFFICES ASSUME NEW v \in live PROVE FALSE
    OBVIOUS
  <2>1. live = {v} /\ v \in Window
    BY DEF LeaseInv, TypeOK
  <2>2. Lease!Used(live, WriterKey) = 1
    BY <2>1, WriterClaims, LeaseCounts, FS_Singleton DEF Lease!Used
  <2>3. Lease!Used(live, WriterKey) + WriterClaim.units <= WriterClaim.capacity
    BY WriterClaims DEF Lease!Grant
  <2> QED
    BY <2>2, <2>3 DEF WriterClaim
<1>2. /\ live' = live \cup {w} /\ w \notin granted /\ granted' = granted \cup {w}
      /\ token' = [k \in {WriterKey} |-> token[k] + 1]
      /\ fences' = [fences EXCEPT ![w] = [k \in {WriterKey} |-> token[k] + 1]]
  BY WriterClaims DEF Lease!Grant
<1> QED
  BY <1>1, <1>2 DEF TokenOf, TypeOK

\* The end of a lease takes it away and leaves every token as it was.
LEMMA EndStep ==
    ASSUME NEW clean, NEW lost, Lease!End(clean, lost)
    PROVE  live' \subseteq live /\ UNCHANGED <<granted, token, fences>>
  BY DEF Lease!End

-----------------------------------------------------------------------------
(***************************************************************************)
(* Types.                                                                  *)
(***************************************************************************)

\* Every step of a window keeps the shape of the two databases.
LEMMA TypeStep == TypeOK /\ LeaseInv /\ [Next]_vars => TypeOK'
<1> SUFFICES ASSUME TypeOK, LeaseInv, [Next]_vars PROVE TypeOK'
  OBVIOUS
<1> USE DEF leaseVars, storeVars, Goto
<1>1. \A w \in Window : TokenOf(w) \in Nat
  BY DEF TypeOK, TokenOf
<1>2. ASSUME NEW w \in Window, AcquireLease(w) PROVE TypeOK'
  <2>1. /\ live' \subseteq Window /\ granted' \subseteq Window
        /\ fences' \in [Window -> [{WriterKey} -> Nat]]
        /\ token' = [k \in {WriterKey} |-> token[WriterKey] + 1]
    BY <1>2, GrantStep DEF AcquireLease, TypeOK
  <2>2. token' \in [{WriterKey} -> Nat]
    BY <2>1 DEF TypeOK
  <2> QED
    BY <1>2, <2>1, <2>2 DEF AcquireLease, TypeOK, Stage
<1>3. ASSUME NEW w \in Window,
             FenceAsked(w) \/ FenceLocked(w) \/ FenceChecked(w) \/ FenceActivated(w)
               \/ ActivationFails(w)
      PROVE  TypeOK'
  BY <1>1, <1>3 DEF FenceAsked, FenceLocked, FenceChecked, FenceActivated, ActivationFails,
     TypeOK, Stage
<1>4. ASSUME NEW w \in Window, OpenCatalog(w) PROVE TypeOK'
  BY <1>1, <1>4 DEF OpenCatalog, TypeOK, Stage
<1>5. ASSUME NEW w \in Window,
             OpAsked(w) \/ OpStarts(w) \/ OpRefused(w) \/ WriteFile(w) \/ OpEnds(w)
      PROVE  TypeOK'
  BY <1>1, <1>5 DEF OpAsked, OpStarts, OpRefused, WriteFile, OpEnds, TypeOK
<1>6. ASSUME NEW w \in Window,
             CatalogAsserted(w) \/ CatalogWritten(w) \/ CatalogAborted(w)
      PROVE  TypeOK'
  BY <1>1, <1>6 DEF CatalogAsserted, CatalogWritten, CatalogAborted, TypeOK
<1>7. ASSUME NEW w \in Window, DisposeFence(w) PROVE TypeOK'
  BY <1>7 DEF DisposeFence, TypeOK, Stage
<1>8. ASSUME NEW w \in Window, Crash(w) PROVE TypeOK'
  BY <1>8 DEF Crash, TypeOK, Stage
<1>9. ASSUME NEW w \in Window, ReleaseLease(w) \/ LoseLease(w) PROVE TypeOK'
  BY <1>9, EndStep DEF ReleaseLease, LoseLease, TypeOK, Stage
<1>10. CASE UNCHANGED vars
  BY <1>10 DEF vars, TypeOK
<1> QED
  BY <1>2, <1>3, <1>4, <1>5, <1>6, <1>7, <1>8, <1>9, <1>10 DEF Next, WindowStep

-----------------------------------------------------------------------------
(***************************************************************************)
(* The steps, by what they do to the lease.                                *)
(***************************************************************************)

\* Only an activation that begins has its lease granted; every other step
\* keeps all tokens and adds no lease.
LEMMA LeaseSteps ==
    ASSUME TypeOK, LeaseInv, [Next]_vars
    PROVE  \/ \E w \in Window : AcquireLease(w)
           \/ live' \subseteq live /\ UNCHANGED <<granted, token, fences>>
<1> USE DEF leaseVars
<1>1. ASSUME NEW w \in Window, WindowStep(w), ~AcquireLease(w)
      PROVE  live' \subseteq live /\ UNCHANGED <<granted, token, fences>>
  BY <1>1, EndStep DEF WindowStep, FenceAsked, FenceLocked, FenceChecked, FenceActivated,
     ActivationFails, OpenCatalog, OpAsked, OpStarts, OpRefused, WriteFile, OpEnds,
     CatalogAsserted, CatalogWritten, CatalogAborted, DisposeFence, ReleaseLease, LoseLease,
     Crash
<1>2. CASE UNCHANGED vars
  BY <1>2 DEF vars
<1> QED
  BY <1>1, <1>2 DEF Next

\* Every step keeps the tokens in order and the live lease the newest.
LEMMA LeaseStep == TypeOK /\ LeaseInv /\ [Next]_vars => LeaseInv'
<1> SUFFICES ASSUME TypeOK, LeaseInv, [Next]_vars PROVE LeaseInv'
  OBVIOUS
<1>0. \A w \in Window : TokenOf(w) \in Nat /\ token[WriterKey] \in Nat
  BY DEF TypeOK, TokenOf
<1>1. ASSUME NEW w \in Window, AcquireLease(w) PROVE LeaseInv'
  <2>1. stage' = [stage EXCEPT ![w] = "leased"] /\ Lease!Grant(w)
    BY <1>1 DEF AcquireLease, Goto
  <2>2. /\ live' = {w} /\ w \notin granted /\ granted' = granted \cup {w}
        /\ token'[WriterKey] = token[WriterKey] + 1
        /\ TokenOf(w)' = token[WriterKey] + 1
        /\ \A v \in Window \ {w} : TokenOf(v)' = TokenOf(v)
    BY <2>1, GrantStep
  <2>3. granted \subseteq Window
    BY DEF TypeOK
  <2>4. \A v \in Window : stage'[v] = "new" <=> v \notin granted'
    BY <2>1, <2>2 DEF LeaseInv, TypeOK
  <2> QED
    BY <1>0, <2>2, <2>3, <2>4 DEF LeaseInv
<1>2. CASE live' \subseteq live /\ UNCHANGED <<granted, token, fences>>
            /\ ~\E w \in Window : AcquireLease(w)
  <2>1. \A w \in Window : stage'[w] = "new" <=> stage[w] = "new"
    <3>1. ASSUME NEW w \in Window, WindowStep(w)
          PROVE  \A v \in Window : stage'[v] = "new" <=> stage[v] = "new"
      BY <3>1, <1>2 DEF TypeOK, WindowStep, FenceAsked, FenceLocked, FenceChecked,
         FenceActivated, ActivationFails, OpenCatalog, OpAsked, OpStarts, OpRefused,
         WriteFile, OpEnds, CatalogAsserted, CatalogWritten, CatalogAborted, DisposeFence,
         ReleaseLease, LoseLease, Crash, Goto
    <3>2. CASE UNCHANGED vars
      BY <3>2 DEF vars
    <3> QED
      BY <3>1, <3>2 DEF Next
  <2> QED
    BY <1>2, <2>1 DEF LeaseInv, TokenOf
<1> QED
  BY <1>1, <1>2, LeaseSteps

-----------------------------------------------------------------------------
(***************************************************************************)
(* The fence.                                                              *)
(***************************************************************************)

\* Every step keeps the fence with a valid writer, and the row below the token
\* of a window that is about to replace it.
LEMMA FenceStep == TypeOK /\ LeaseInv /\ FenceInv /\ [Next]_vars => FenceInv'
<1> SUFFICES ASSUME TypeOK, LeaseInv, FenceInv, [Next]_vars PROVE FenceInv'
  OBVIOUS
<1> USE DEF leaseVars, storeVars, Goto
<1>0. /\ \A w \in Window : TokenOf(w) \in Nat
      /\ token[WriterKey] \in Nat /\ fenceToken \in Nat
      /\ Nobody \notin Window /\ live \subseteq Window
  BY WriterAssumption DEF TypeOK, TokenOf
<1>1. ASSUME NEW w \in Window, AcquireLease(w) PROVE FenceInv'
  <2>1. /\ stage' = [stage EXCEPT ![w] = "leased"] /\ Lease!Grant(w) /\ stage[w] = "new"
        /\ UNCHANGED <<op, lock, fenceToken>>
    BY <1>1 DEF AcquireLease
  <2>2. /\ live' = {w}
        /\ token'[WriterKey] = token[WriterKey] + 1
        /\ TokenOf(w)' = token[WriterKey] + 1
        /\ \A v \in Window \ {w} : TokenOf(v)' = TokenOf(v)
    BY <2>1, GrantStep
  <2> QED
    BY <1>0, <2>1, <2>2 DEF FenceInv, ValidWriterHoldsFence, TypeOK
<1>2. ASSUME NEW w \in Window, FenceActivated(w) PROVE FenceInv'
  <2>1. /\ fenceToken' = TokenOf(w) /\ stage[w] = "fenceChecked"
        /\ stage' = [stage EXCEPT ![w] = "fenced"] /\ lock' = Nobody
        /\ UNCHANGED <<live, granted, token, fences, op>>
    BY <1>2 DEF FenceActivated
  <2>2. lock = w /\ fenceToken < TokenOf(w) /\ w \in granted
    BY <2>1 DEF FenceInv, LeaseInv
  <2>3. ASSUME NEW v \in Window \ {w}
        PROVE  /\ stage[v] \notin {"fenceLocked", "fenceChecked"}
               /\ op[v] # "running"
               /\ v \in live => stage[v] \notin {"fenced", "active"}
               /\ v \in granted => TokenOf(v) # TokenOf(w)
               /\ v \notin granted => stage[v] = "new"
    BY <1>0, <2>2 DEF FenceInv, LeaseInv, ValidWriterHoldsFence
  <2>4. \A v \in Window : TokenOf(v)' = TokenOf(v)
    BY <2>1 DEF TokenOf
  <2>5. op[w] = "none"
    BY <2>1 DEF FenceInv, TypeOK
  <2> QED
    BY <1>0, <2>1, <2>2, <2>3, <2>4, <2>5 DEF FenceInv, LeaseInv, ValidWriterHoldsFence, TypeOK
<1>3. ASSUME NEW w \in Window,
             FenceAsked(w) \/ FenceLocked(w) \/ FenceChecked(w) \/ ActivationFails(w)
               \/ OpenCatalog(w)
      PROVE  FenceInv'
  BY <1>0, <1>3 DEF FenceAsked, FenceLocked, FenceChecked, ActivationFails, OpenCatalog,
     LeaseValid, LeaseInv, FenceInv, ValidWriterHoldsFence, TypeOK, TokenOf
<1>4. ASSUME NEW w \in Window,
             OpAsked(w) \/ OpStarts(w) \/ OpRefused(w) \/ WriteFile(w) \/ OpEnds(w)
      PROVE  FenceInv'
  BY <1>0, <1>4 DEF OpAsked, OpStarts, OpRefused, WriteFile, OpEnds, FenceInv,
     ValidWriterHoldsFence, TypeOK, TokenOf
<1>5. ASSUME NEW w \in Window,
             CatalogAsserted(w) \/ CatalogWritten(w) \/ CatalogAborted(w)
      PROVE  FenceInv'
  BY <1>5 DEF CatalogAsserted, CatalogWritten, CatalogAborted, FenceInv,
     ValidWriterHoldsFence, TokenOf
<1>6. ASSUME NEW w \in Window, DisposeFence(w) \/ Crash(w) PROVE FenceInv'
  BY <1>0, <1>6 DEF DisposeFence, Crash, FenceInv, ValidWriterHoldsFence, TypeOK, TokenOf
<1>7. ASSUME NEW w \in Window, ReleaseLease(w) \/ LoseLease(w) PROVE FenceInv'
  <2>1. live' \subseteq live /\ UNCHANGED <<granted, token, fences>>
    BY <1>7, EndStep DEF ReleaseLease, LoseLease
  <2> QED
    BY <1>0, <1>7, <2>1 DEF ReleaseLease, LoseLease, FenceInv, ValidWriterHoldsFence, TypeOK,
       TokenOf
<1>8. CASE UNCHANGED vars
  BY <1>8 DEF vars, FenceInv, ValidWriterHoldsFence, TokenOf
<1> QED
  BY <1>1, <1>2, <1>3, <1>4, <1>5, <1>6, <1>7, <1>8 DEF Next, WindowStep

\* Every step replaces the fence by a newer token, writes files under the token
\* in the fence, or does neither.
LEMMA WriterStep ==
    TypeOK /\ LeaseInv /\ FenceInv /\ [Next]_vars => [Fence!Next]_<<fenceToken, fileWriter>>
<1> SUFFICES ASSUME TypeOK, LeaseInv, FenceInv, [Next]_vars
             PROVE  Fence!Next \/ UNCHANGED <<fenceToken, fileWriter>>
  OBVIOUS
<1> USE DEF storeVars
<1>1. ASSUME NEW w \in Window, FenceActivated(w) PROVE Fence!TakeOffice
  BY <1>1 DEF FenceActivated, Fence!TakeOffice, FenceInv, TypeOK, TokenOf
<1>2. ASSUME NEW w \in Window, WriteFile(w) PROVE Fence!Write
  BY <1>2 DEF WriteFile, Fence!Write, FenceInv, LeaseInv
<1>3. ASSUME NEW w \in Window, WindowStep(w), ~FenceActivated(w), ~WriteFile(w)
      PROVE  UNCHANGED <<fenceToken, fileWriter>>
  BY <1>3 DEF WindowStep, AcquireLease, FenceAsked, FenceLocked, FenceChecked,
     ActivationFails, OpenCatalog, OpAsked, OpStarts, OpRefused, OpEnds, CatalogAsserted,
     CatalogWritten, CatalogAborted, DisposeFence, ReleaseLease, LoseLease, Crash
<1>4. CASE UNCHANGED vars
  BY <1>4 DEF vars
<1> QED
  BY <1>1, <1>2, <1>3, <1>4 DEF Next, Fence!Next

-----------------------------------------------------------------------------
(***************************************************************************)
(* The catalog.                                                            *)
(***************************************************************************)

\* Every step keeps what a window that asserted its lease relies on.
LEMMA CatalogStep == TypeOK /\ LeaseInv /\ CatalogInv /\ [Next]_vars => CatalogInv'
<1> SUFFICES ASSUME TypeOK, LeaseInv, CatalogInv, [Next]_vars PROVE CatalogInv'
  OBVIOUS
<1> USE DEF leaseVars, storeVars, Goto
<1>0. /\ \A w \in Window : TokenOf(w) \in Nat
      /\ token[WriterKey] \in Nat /\ catalogWriter \in Nat
      /\ live \subseteq Window
  BY DEF TypeOK, TokenOf
<1>1. ASSUME NEW w \in Window, AcquireLease(w) PROVE CatalogInv'
  <2>1. /\ stage' = [stage EXCEPT ![w] = "leased"] /\ Lease!Grant(w) /\ stage[w] = "new"
        /\ UNCHANGED <<catalogCall, catalogFence, catalogWriter>>
    BY <1>1 DEF AcquireLease
  <2>2. /\ token'[WriterKey] = token[WriterKey] + 1
        /\ \A v \in Window \ {w} : TokenOf(v)' = TokenOf(v)
    BY <2>1, GrantStep
  <2> QED
    BY <1>0, <2>1, <2>2 DEF CatalogInv, TypeOK
<1>2. ASSUME NEW w \in Window, OpenCatalog(w) PROVE CatalogInv'
  <2>1. /\ stage[w] = "fenced" /\ stage' = [stage EXCEPT ![w] = "active"]
        /\ catalogFence' = TokenOf(w)
        /\ UNCHANGED <<live, granted, token, fences, catalogCall, catalogWriter>>
    BY <1>2 DEF OpenCatalog
  <2>2. ASSUME NEW v \in Window, catalogCall[v] = "asserted"
        PROVE  v # w /\ stage[v] = "active" /\ TokenOf(v) # TokenOf(w)
    BY <2>1, <2>2 DEF CatalogInv, LeaseInv
  <2>3. \A v \in Window : TokenOf(v)' = TokenOf(v)
    BY <2>1 DEF TokenOf
  <2> QED
    BY <2>1, <2>2, <2>3 DEF CatalogInv, TypeOK
<1>3. ASSUME NEW w \in Window, CatalogWritten(w) PROVE CatalogInv'
  <2>1. /\ catalogFence = TokenOf(w) /\ catalogWriter' = TokenOf(w)
        /\ catalogCall[w] = "asserted"
        /\ catalogCall' = [catalogCall EXCEPT ![w] = "none"]
        /\ UNCHANGED <<live, granted, token, fences, stage, catalogFence>>
    BY <1>3 DEF CatalogWritten
  <2>2. TokenOf(w) <= token[WriterKey]
    BY <2>1 DEF CatalogInv, LeaseInv
  <2>3. \A v \in Window : TokenOf(v)' = TokenOf(v)
    BY <2>1 DEF TokenOf
  <2> QED
    BY <1>0, <2>1, <2>2, <2>3 DEF CatalogInv, TypeOK
<1>4. ASSUME NEW w \in Window, CatalogAsserted(w) \/ CatalogAborted(w) PROVE CatalogInv'
  BY <1>0, <1>4 DEF CatalogAsserted, CatalogAborted, LeaseValid, LeaseInv, CatalogInv, TypeOK,
     TokenOf
<1>5. ASSUME NEW w \in Window,
             \/ FenceAsked(w) \/ FenceLocked(w) \/ FenceChecked(w) \/ FenceActivated(w)
             \/ ActivationFails(w) \/ DisposeFence(w) \/ Crash(w)
      PROVE  CatalogInv'
  BY <1>5 DEF FenceAsked, FenceLocked, FenceChecked, FenceActivated, ActivationFails,
     DisposeFence, Crash, CatalogInv, TypeOK, TokenOf
<1>6. ASSUME NEW w \in Window,
             OpAsked(w) \/ OpStarts(w) \/ OpRefused(w) \/ WriteFile(w) \/ OpEnds(w)
      PROVE  CatalogInv'
  BY <1>6 DEF OpAsked, OpStarts, OpRefused, WriteFile, OpEnds, CatalogInv, TokenOf
<1>7. ASSUME NEW w \in Window, ReleaseLease(w) \/ LoseLease(w) PROVE CatalogInv'
  BY <1>7, EndStep DEF ReleaseLease, LoseLease, CatalogInv, TypeOK, TokenOf
<1>8. CASE UNCHANGED vars
  BY <1>8 DEF vars, CatalogInv, TokenOf
<1> QED
  BY <1>1, <1>2, <1>3, <1>4, <1>5, <1>6, <1>7, <1>8 DEF Next, WindowStep

\* A row is written under the newest token that ever wrote one.
LEMMA CatalogOrder == TypeOK /\ CatalogInv /\ [Next]_vars => catalogWriter' >= catalogWriter
<1> SUFFICES ASSUME TypeOK, CatalogInv, [Next]_vars PROVE catalogWriter' >= catalogWriter
  OBVIOUS
<1> USE DEF storeVars
<1>0. catalogWriter \in Nat
  BY DEF TypeOK
<1>1. ASSUME NEW w \in Window, CatalogWritten(w) PROVE catalogWriter' >= catalogWriter
  BY <1>1 DEF CatalogWritten, CatalogInv, TypeOK, TokenOf
<1>2. ASSUME NEW w \in Window, WindowStep(w), ~CatalogWritten(w)
      PROVE  catalogWriter' = catalogWriter
  BY <1>2 DEF WindowStep, AcquireLease, FenceAsked, FenceLocked, FenceChecked,
     FenceActivated, ActivationFails, OpenCatalog, OpAsked, OpStarts, OpRefused, WriteFile,
     OpEnds, CatalogAsserted, CatalogAborted, DisposeFence, ReleaseLease, LoseLease, Crash
<1>3. CASE UNCHANGED vars
  <2>1. catalogWriter' = catalogWriter
    BY <1>3 DEF vars
  <2> QED
    BY <2>1, <1>0
<1> QED
  BY <1>1, <1>2, <1>3, <1>0 DEF Next

-----------------------------------------------------------------------------
(***************************************************************************)
(* The inductive invariant, and the theorems that follow from it.          *)
(***************************************************************************)
IndInv == TypeOK /\ LeaseInv /\ FenceInv /\ CatalogInv

\* The invariant holds at first and every step keeps it.
LEMMA Inductive == Spec => []IndInv
<1>1. Init => IndInv
  BY DEF Init, Lease!Init, IndInv, TypeOK, LeaseInv, FenceInv, CatalogInv,
     ValidWriterHoldsFence, TokenOf, Stage
<1>2. IndInv /\ [Next]_vars => IndInv'
  BY TypeStep, LeaseStep, FenceStep, CatalogStep DEF IndInv
<1> QED
  BY <1>1, <1>2, PTL DEF Spec

\* The two databases and the windows' variables keep their shapes.
THEOREM WriterTypeCorrect == Spec => []TypeOK
<1>1. IndInv => TypeOK
  BY DEF IndInv
<1> QED
  BY <1>1, Inductive, PTL

\* However many windows start, pause and lose their lease, a writer with a
\* valid lease finds its token in the fence (createWorkspaceMutationFence).
THEOREM ValidWriterCanWrite == Spec => []ValidWriterHoldsFence
<1>1. IndInv => ValidWriterHoldsFence
  BY DEF IndInv, FenceInv
<1> QED
  BY <1>1, Inductive, PTL

\* The windows and the fence implement a state writer whose files follow the
\* order of the fencing tokens (activate and run of the fence).
THEOREM WriterRefinement == Spec => ImplementsStateWriter
<1>1. Init => Fence!Init
  BY DEF Init, Fence!Init
<1>2. IndInv /\ [Next]_vars => [Fence!Next]_<<fenceToken, fileWriter>>
  BY WriterStep DEF IndInv
<1> QED
  BY <1>1, <1>2, Inductive, PTL DEF Spec, Fence!Spec, ImplementsStateWriter

\* Catalog rows follow the order of the tokens too, although the token in
\* writer_fence may go back (installWriterFence).
THEOREM CatalogInOrder == Spec => CatalogWritesInOrder
<1>1. IndInv /\ [Next]_vars => [catalogWriter' >= catalogWriter]_vars
  BY CatalogOrder DEF IndInv
<1> QED
  BY <1>1, Inductive, PTL DEF Spec, CatalogWritesInOrder
=============================================================================
