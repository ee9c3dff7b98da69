----------------------- MODULE MachineReconcilerProofs -----------------------
(***************************************************************************)
(* The safety properties of MachineReconciler, for every set of specs,     *)
(* every set and number of faults and every number of additional disks.    *)
(* They are proved from the kinds of step of MachineStepProofs.            *)
(***************************************************************************)
EXTENDS MachineStepProofs

LEMMA InitType ==
  ASSUME Init
  PROVE  TypeOK /\ OnItsPath
<1>1. ASSUME NEW b \in BOOLEAN
      PROVE  NewHost(b) \in Host
  <2>1. NoDomain \in Domain
    BY NDisksAssumption DEF NoDomain, Domain, Pools
  <2>2. [v \in Volumes |-> "absent"] \in [Volumes -> Content]
    BY DEF Content
  <2>3. << >> \in Seq(Layer)
    OBVIOUS
  <2> QED
    BY <2>1, <2>2, <2>3 DEF NewHost, Host
<1>2. TypeOK
  <2>1. host \in Host
    BY <1>1 DEF Init
  <2>2. faults \in 0..MaxFaults
    BY FaultsAssumption DEF Init
  <2> QED
    BY <2>1, <2>2, NothingType, Zenon DEF Init, TypeOK, Steps
<1>3. spec.disks \in Nat
  BY SpecsAssumption, NDisksAssumption DEF Init, AllSpecs
<1>4. OnItsPath
  BY <1>3, NothingType DEF Init, OnItsPath, Released, NormalSteps, DeleteSteps
<1> QED
  BY <1>2, <1>4

(* The worker keeps to its path whatever the kind of step.                 *)
LEMMA PathStep ==
  ASSUME TypeOK, OnItsPath, [Next]_vars
  PROVE  TypeOK' /\ OnItsPath'
<1> USE DEF NormalSteps, DeleteSteps, PoolSteps, ReturnSteps
<1>1. CASE UNCHANGED vars
  BY <1>1 DEF vars, TypeOK, OnItsPath, Released
<1>9. TypeOK'
  BY <1>1, StepKinds
<1> SUFFICES ASSUME Next PROVE OnItsPath'
  BY <1>1, <1>9
<1>2. /\ snap \in Object /\ cached \in Object /\ mem \in Memory /\ mem' \in Memory
      /\ mem.disks \in Nat /\ spec.disks \in Nat
  BY StepKinds, <1>1, SpecsAssumption, NDisksAssumption
     DEF TypeOK, Memory, AllSpecs
<1>3. CASE Loading
  BY <1>2, <1>3, LoadType DEF Loading, OnItsPath, Released
<1>4. CASE Storing \/ Crash
  BY <1>2, <1>4, NothingType DEF Storing, Crash, OnItsPath, Released, env
<1>5. CASE Drifting \/ UserDelete \/ SyncCache
  BY <1>2, <1>5 DEF Drifting, UserDelete, SyncCache, OnItsPath, Released, env
<1>6. CASE Adding /\ ~mem.deleting /\ pc \in NormalSteps \cup PoolSteps
  BY <1>2, <1>6 DEF Adding, OnItsPath, Released, DiskSteps, ISOSteps
<1>7. CASE Removing /\ mem.deleting
  <2>1. mem'.disks <= spec.disks
    <3> HIDE DEF NormalSteps, DeleteSteps, PoolSteps, ReturnSteps
    <3>1. mem'.disks = IF pc = "delNext" THEN mem.disks + 1 ELSE mem.disks
      BY <1>7, Zenon DEF Removing
    <3>2. mem.disks <= spec.disks /\ (pc = "delNext" => mem.disks < spec.disks)
      BY DEF OnItsPath
    <3> QED
      BY <1>2, <3>1, <3>2
  <2>2. pc' \in {"diskExists", "diskCreate", "diskPath", "diskDone", "delDisk",
                "delNext"} => mem'.disks < spec.disks
    BY <1>2, <1>7 DEF Removing, OnItsPath
  <2>3. Released' => mem'.deleting
    BY <1>2, <1>7 DEF Removing, OnItsPath, Released
  <2> QED
    BY <1>2, <1>7, <2>1, <2>2, <2>3, ZenonT(30) DEF Removing, OnItsPath
<1>8. CASE TearingDown /\ mem.deleting
  BY <1>2, <1>8, ZenonT(30) DEF TearingDown, OnItsPath, Released
<1> QED
  BY <1>1, <1>3, <1>4, <1>5, <1>6, <1>7, <1>8, StepKinds

(* Every reachable state is well typed, for all specs, faults and disks.   *)
(* The bound on mem.disks needs OnItsPath: the loops over the additional   *)
(* disks stop in time.                                                     *)
THEOREM TypeCorrect == Spec => []TypeOK
<1>1. Init => TypeOK /\ OnItsPath
  BY InitType
<1>2. TypeOK /\ OnItsPath /\ [Next]_vars => TypeOK' /\ OnItsPath'
  BY PathStep
<1> QED
  BY <1>1, <1>2, PTL DEF Spec
-----------------------------------------------------------------------------
(* The types the steps below need.                                         *)
LEMMA Typed ==
  ASSUME TypeOK
  PROVE  /\ obj \in Object /\ cached \in Object /\ snap \in Object /\ mem \in Memory
         /\ host \in Host /\ host.store \in [Volumes -> Content]
         /\ host.disks \subseteq 1..NDisks
         /\ mem.disks \in Nat /\ spec.disks \in Nat
         /\ spec.format \in {"ignition", "cloud-init"}
         /\ mem.deleting \in BOOLEAN
BY SpecsAssumption, NDisksAssumption DEF TypeOK, Memory, AllSpecs, Host

(* A step that removes, or lets things be, makes nothing dirty.            *)
LEMMA ShrinksClean ==
  ASSUME TypeOK, Shrinks(host, host'), UNCHANGED spec, ~Dirty
  PROVE  ~Dirty'
<1>1. host.disks = {} => host'.disks = {}
  BY DEF Shrinks
<1> QED
  BY <1>1 DEF Dirty, Shrinks

LEMMA DriftShrinks ==
  ASSUME Drifting
  PROVE  Shrinks(host, host')
BY DEF Drifting, Shrinks, SameDefinition
-----------------------------------------------------------------------------
(* FinalizerKept and DeletionSeen.                                         *)

LEMMA FinalizerStep ==
  ASSUME TypeOK, OnItsPath, FinalizerKept, DeletionSeen, Next
  PROVE  FinalizerKept' /\ DeletionSeen'
<1> USE DEF FinalizerKept, DeletionSeen, SeenDeleted
<1>1. CASE Loading
  BY <1>1, Typed, LoadType DEF Loading
<1>2. CASE Storing
  <2>1. held' = (held \/ obj'.fin) /\ pc' = "idle" /\ pc # "idle" /\ cached' = cached
    BY <1>2 DEF Storing, ReturnSteps
  <2>2. CASE ~obj.exists
    BY <1>2, <2>1, <2>2, NothingType, Zenon DEF Storing
  <2>3. CASE obj.exists /\ obj' = NoObject
    <3>1. obj.fin /\ held /\ Released
      BY <1>2, <2>3, NothingType DEF Storing
    <3> QED
      BY <1>2, <2>1, <2>3, <3>1, NothingType DEF Storing, OnItsPath
  <2>4. CASE obj.exists /\ obj'.exists
    <3>1. obj'.deleting = obj.deleting /\ (obj'.deleting => obj'.fin)
      BY <1>2, <2>4, NothingType DEF Storing
    <3>2. obj.fin => obj'.fin \/ Released
      BY <1>2, <2>4, NothingType DEF Storing
    <3>3. Released => obj.deleting
      BY <2>4 DEF OnItsPath
    <3>4. obj.fin => obj'.fin
      BY <3>1, <3>2, <3>3
    <3> QED
      BY <1>2, <2>1, <2>4, <3>1, <3>4, NothingType, Zenon DEF Storing
  <2> QED
    BY <1>2, <2>2, <2>3, <2>4 DEF Storing
<1>3. CASE Drifting
  BY <1>3 DEF Drifting
<1>4. CASE UserDelete
  <2>1. \/ obj.fin /\ obj' = [obj EXCEPT !.deleting = TRUE]
        \/ ~obj.fin /\ obj' = NoObject
    BY <1>4 DEF UserDelete
  <2>2. UNCHANGED <<held, cached, pc, snap, mem>> /\ obj.exists
    BY <1>4 DEF UserDelete
  <2> QED
    BY <2>1, <2>2, Typed, NothingType DEF Object
<1>5. CASE SyncCache
  BY <1>5 DEF SyncCache
<1>6. CASE Crash
  BY <1>6, NothingType DEF Crash
<1>7. CASE Adding /\ ~mem.deleting /\ pc \in NormalSteps \cup PoolSteps
  BY <1>7 DEF Adding, NormalSteps, PoolSteps
<1>8. CASE Removing /\ mem.deleting
  BY <1>8 DEF Removing
<1>9. CASE TearingDown /\ mem.deleting
  BY <1>9 DEF TearingDown
<1> QED
  BY <1>1, <1>2, <1>3, <1>4, <1>5, <1>6, <1>7, <1>8, <1>9, StepKinds, Zenon
-----------------------------------------------------------------------------
(* CleanedSoFar, first for the steps that do not advance a deletion.       *)

LEMMA NotDeletingClean ==
  ASSUME TypeOK, CleanedSoFar, UNCHANGED spec, ~mem'.deleting, ~Released',
         host' = host
  PROVE  CleanedSoFar'
BY DEF CleanedSoFar

LEMMA AddingClean ==
  ASSUME TypeOK, OnItsPath, CleanedSoFar, Adding, ~mem.deleting
  PROVE  CleanedSoFar'
<1>1. ~Released'
  BY DEF Adding, OnItsPath, Released
<1>2. spec.format = "ignition" => host'.store["iso"] = "absent"
  BY DEF Adding, CleanedSoFar
<1>3. host'.disks \subseteq 1..spec.disks
  <2>1. CASE host'.disks = host.disks
    BY <2>1 DEF CleanedSoFar
  <2>2. CASE pc \in DiskSteps /\ host'.disks = host.disks \cup {mem.disks + 1}
    <3>1. mem.disks < spec.disks
      BY <2>2 DEF OnItsPath, DiskSteps
    <3>2. mem.disks + 1 \in 1..spec.disks
      BY <3>1, Typed
    <3> QED
      BY <2>2, <3>2 DEF CleanedSoFar
  <2> QED
    BY <2>1, <2>2 DEF Adding
<1> QED
  BY <1>1, <1>2, <1>3 DEF CleanedSoFar, Adding

LEMMA RemovingClean ==
  ASSUME TypeOK, OnItsPath, CleanedSoFar, Removing, mem.deleting
  PROVE  CleanedSoFar'
<1> USE DEF AfterDisks, AfterBoot, AfterRoot, AfterDomain, PoolSteps, ReturnSteps,
            DeleteSteps
<1>1. /\ Shrinks(host, host') /\ mem'.deleting
      /\ spec' = spec /\ snap' = snap
  BY DEF Removing
<1>2. /\ spec.format = "ignition" => host'.store["iso"] = "absent"
      /\ host'.disks \subseteq 1..spec.disks
  BY <1>1 DEF CleanedSoFar, Shrinks, Volumes
<1>3. /\ pc' = "undefineDom" => host'.dom.state # "running"
      /\ pc' \in AfterDomain => host'.dom.state = "absent"
  BY <1>1 DEF CleanedSoFar, Shrinks, Removing
<1>4. pc' \in AfterRoot /\ ~spec.eph => host'.store["root"] = "absent"
  BY <1>1 DEF CleanedSoFar, Shrinks, Removing, Volumes
<1>5. pc' \in AfterBoot /\ ~spec.eph => host'.store["iso"] = "absent"
  <2>1. CASE pc = "delBoot"
    BY <1>2, <2>1, Typed DEF Removing
  <2>2. CASE pc # "delBoot"
    BY <1>1, <2>2 DEF CleanedSoFar, Shrinks, Removing, Volumes
  <2> QED
    BY <2>1, <2>2
<1>6. ASSUME pc' \in AfterBoot, NEW i \in 1..mem'.disks
      PROVE  i \notin host'.disks
  <2>1. CASE pc = "delBoot"
    <3>1. mem'.disks = 0
      BY <2>1 DEF Removing, OnItsPath
    <3> QED
      BY <3>1, <1>6
  <2>2. CASE pc = "delNext"
    <3>1. mem'.disks = mem.disks + 1 /\ host'.disks = host.disks
      BY <2>2 DEF Removing
    <3>2. i \in 1..mem.disks \/ i = mem.disks + 1
      BY <3>1, Typed
    <3> QED
      BY <2>2, <3>1, <3>2 DEF CleanedSoFar
  <2>3. CASE pc \notin {"delBoot", "delNext"}
    <3>1. mem'.disks = mem.disks /\ pc \in AfterBoot
      BY <2>3, <1>6 DEF Removing
    <3> QED
      BY <1>1, <3>1 DEF CleanedSoFar, Shrinks
  <2> QED
    BY <2>1, <2>2, <2>3
<1>7. pc' = "delNext" => (mem'.disks + 1) \notin host'.disks
  BY DEF Removing
<1>8. ASSUME pc' \in AfterDisks
      PROVE  host'.disks = {}
  <2>1. mem.disks >= spec.disks /\ mem'.disks = mem.disks
    BY <1>8 DEF Removing
  <2>2. \A i \in host'.disks : i \in 1..mem'.disks
    BY <1>2, <2>1, Typed
  <2> QED
    BY <1>6, <1>8, <2>2
<1>9. ASSUME Released'
      PROVE  ~Dirty'
  <2>1. CASE Released
    BY <1>1, <2>1, ShrinksClean DEF CleanedSoFar
  <2>2. CASE ~Released
    <3>1. pc = "delNode"
      BY <1>1, <1>9, <2>2 DEF Removing, Released
    <3>2. ~Dirty
      BY <3>1 DEF CleanedSoFar, Dirty, Volumes
    <3> QED
      BY <1>1, <3>2, ShrinksClean
  <2> QED
    BY <2>1, <2>2
<1> QED
  BY <1>1, <1>2, <1>3, <1>4, <1>5, <1>6, <1>7, <1>8, <1>9 DEF CleanedSoFar

LEMMA CleanedStep ==
  ASSUME TypeOK, OnItsPath, CleanedSoFar, Next
  PROVE  CleanedSoFar'
<1>1. CASE Loading
  <2>1. CASE UNCHANGED <<pc, snap, mem>>
    BY <1>1, <2>1 DEF Loading, CleanedSoFar, Released, Dirty
  <2>2. CASE snap' = cached /\ mem' = Load(cached)
               /\ pc' \in {"error", "done", IF cached.deleting THEN "delete" ELSE "normal"}
    <3>1. ~Released'
      BY <2>2, Typed, LoadType DEF Released
    <3>2. pc' \notin {"undefineDom", "delNext"} \cup AfterDomain
      BY <2>2 DEF AfterDomain, AfterRoot, AfterBoot, AfterDisks, PoolSteps
    <3>3. /\ AfterDisks \subseteq AfterDomain /\ AfterBoot \subseteq AfterDomain
          /\ AfterRoot \subseteq AfterDomain
      BY DEF AfterDomain, AfterRoot, AfterBoot
    <3> QED
      BY <1>1, <3>1, <3>2, <3>3 DEF CleanedSoFar, Loading
  <2> QED
    BY <1>1, <2>1, <2>2 DEF Loading
<1>2. CASE Storing \/ Crash
  BY <1>2, NotDeletingClean, NothingType DEF Storing, Crash, Released, env
<1>3. CASE Drifting
  <2>1. Shrinks(host, host') /\ UNCHANGED <<spec, pc, snap, mem>>
        /\ host'.store = host.store /\ host'.disks = host.disks
    BY <1>3, DriftShrinks DEF Drifting
  <2>2. Released' => ~Dirty'
    BY <2>1, ShrinksClean DEF CleanedSoFar, Released
  <2> QED
    BY <2>1, <2>2 DEF CleanedSoFar, Shrinks
<1>4. CASE UserDelete \/ SyncCache
  BY <1>4 DEF UserDelete, SyncCache, env, CleanedSoFar, Released, Dirty
<1>5. CASE Adding /\ ~mem.deleting /\ pc \in NormalSteps \cup PoolSteps
  BY <1>5, AddingClean
<1>6. CASE Removing /\ mem.deleting
  BY <1>6, RemovingClean
<1>7. CASE TearingDown /\ mem.deleting
  <2>1. /\ UNCHANGED <<spec, snap>> /\ Untouched(host, host')
        /\ mem'.deleting /\ mem'.fin = mem.fin /\ mem'.disks = mem.disks
        /\ pc \in PoolSteps /\ pc' \in PoolSteps \cup {"delNode", "error"}
    BY <1>7 DEF TearingDown
  <2>2. Released' => ~Dirty'
    BY <2>1 DEF CleanedSoFar, Released, Dirty, Untouched
  <2> QED
    BY <1>7, <2>1, <2>2 DEF CleanedSoFar, Untouched, AfterDomain, AfterRoot,
       AfterBoot, AfterDisks, PoolSteps
<1> QED
  BY <1>1, <1>2, <1>3, <1>4, <1>5, <1>6, <1>7, StepKinds

(* NoOrphanOnceHeld: the object goes with a worker that has released it,   *)
(* and afterwards only a worker that has seen the deletion is left.        *)
LEMMA NoOrphanStep ==
  ASSUME TypeOK, CleanupInv, Next
  PROVE  NoOrphanOnceHeld'
<1> SUFFICES ASSUME held', ~obj'.exists PROVE ~Dirty'
  BY DEF NoOrphanOnceHeld
<1> USE DEF CleanupInv
<1>1. CASE held /\ ~obj.exists
  <2>1. ~Dirty
    BY <1>1 DEF NoOrphanOnceHeld
  <2>2. CASE Loading \/ Storing \/ UserDelete \/ SyncCache \/ Crash
    BY <2>1, <2>2, Zenon DEF Loading, Storing, UserDelete, SyncCache, Crash, env, Dirty
  <2>3. CASE Drifting
    BY <2>1, <2>3, DriftShrinks, ShrinksClean, Zenon DEF Drifting
  <2>4. CASE Adding /\ ~mem.deleting /\ pc \in NormalSteps \cup PoolSteps
    BY <1>1, <2>4 DEF DeletionSeen, NormalSteps, PoolSteps
  <2>5. CASE Removing
    BY <2>1, <2>5, ShrinksClean DEF Removing
  <2>6. CASE TearingDown
    BY <2>1, <2>6 DEF TearingDown, Untouched, Dirty
  <2> QED
    BY <2>2, <2>3, <2>4, <2>5, <2>6, StepKinds
<1>2. CASE ~held \/ obj.exists
  <2>1. CASE Storing
    <3>1. obj' = NoObject /\ obj.exists /\ obj.deleting /\ (Released \/ ~obj.fin)
      BY <1>2, <2>1, NothingType, Zenon DEF Storing, FinalizerKept
    <3>2. Released
      BY <3>1 DEF FinalizerKept
    <3> QED
      BY <2>1, <3>2 DEF CleanedSoFar, Storing, Dirty
  <2>2. CASE UserDelete
    BY <1>2, <2>2, Typed DEF UserDelete, FinalizerKept, Object
  <2>3. CASE UNCHANGED <<obj, held>>
    BY <1>2, <2>3
  <2> QED
    BY <2>1, <2>2, <2>3, StepKinds, ZenonT(30)
       DEF Loading, Drifting, SyncCache, Crash, Adding, Removing, TearingDown
<1> QED
  BY <1>1, <1>2

LEMMA CleanupStep ==
  ASSUME TypeOK, CleanupInv, [Next]_vars
  PROVE  TypeOK' /\ CleanupInv'
<1>1. CASE Next
  BY <1>1, PathStep, FinalizerStep, CleanedStep, NoOrphanStep, Zenon DEF CleanupInv
<1>2. CASE UNCHANGED vars
  <2>1. TypeOK' /\ OnItsPath'
    BY PathStep, Zenon DEF CleanupInv
  <2>2. FinalizerKept' /\ DeletionSeen'
    BY <1>2 DEF vars, CleanupInv, FinalizerKept, DeletionSeen, SeenDeleted
  <2>3. CleanedSoFar'
    <3>1. UNCHANGED <<spec, pc, snap, mem, host>> /\ CleanedSoFar
      BY <1>2, Zenon DEF vars, CleanupInv
    <3> QED
      BY <3>1 DEF CleanedSoFar, Released, Dirty
  <2>4. NoOrphanOnceHeld'
    BY <1>2 DEF vars, CleanupInv, NoOrphanOnceHeld, Dirty
  <2> QED
    BY <2>1, <2>2, <2>3, <2>4, Zenon DEF CleanupInv
<1> QED
  BY <1>1, <1>2

LEMMA InitHost ==
  ASSUME Init
  PROVE  /\ host.store["iso"] = "absent" /\ host.store["root"] = "absent"
         /\ host.disks = {} /\ host.dom.state = "absent"
<1>1. PICK b \in BOOLEAN : host = NewHost(b)
  BY Zenon DEF Init
<1> QED
  BY <1>1 DEF NewHost, NoDomain, Volumes

LEMMA InitClean ==
  ASSUME Init
  PROVE  TypeOK /\ CleanupInv
<1>2. CleanedSoFar
  BY InitHost, NothingType, Zenon DEF Init, CleanedSoFar, Released
<1>3. FinalizerKept /\ DeletionSeen /\ NoOrphanOnceHeld
  BY NothingType DEF Init, FinalizerKept, DeletionSeen, SeenDeleted, NoOrphanOnceHeld
<1> QED
  BY <1>2, <1>3, InitType DEF CleanupInv

(* The inductive invariant of the cleanup: the finalizer stays until the   *)
(* object goes, a worker or cache that has seen the deletion never goes    *)
(* back to reconcileNormal, and what reconcileDelete has removed is gone.  *)
THEOREM CleanupInvariant == Spec => [](TypeOK /\ CleanupInv)
<1>1. Init => TypeOK /\ CleanupInv
  BY InitClean
<1>2. TypeOK /\ CleanupInv /\ [Next]_vars => TypeOK' /\ CleanupInv'
  BY CleanupStep
<1> QED
  BY <1>1, <1>2, PTL DEF Spec

(* Once its finalizer was stored, a machine's object disappears only after *)
(* its domain, its additional disks and its persistent volumes have, and   *)
(* none of them comes back: reconcileDelete's order and its treatment of   *)
(* errors, against every interleaving of crashes, retries, lost replies,   *)
(* stale reads and failed patches.                                         *)
THEOREM NoOrphan == Spec => []NoOrphanOnceHeld
<1>1. TypeOK /\ CleanupInv => NoOrphanOnceHeld
  BY DEF CleanupInv
<1> QED
  BY <1>1, CleanupInvariant, PTL
-----------------------------------------------------------------------------
(* BackedInv.                                                              *)

LEMMA BackedStep ==
  ASSUME TypeOK, OnItsPath, CleanedSoFar, BackedInv, Next
  PROVE  BackedInv'
<1>1. CASE Loading \/ Storing \/ Crash
  <2>1. host' = host /\ (mem' = mem \/ mem'.disks = 0)
    <3>1. CASE Loading
      BY <3>1, Typed, LoadType DEF Loading
    <3>2. CASE Storing \/ Crash
      BY <3>2, NothingType DEF Storing, Crash
    <3> QED
      BY <1>1, <3>1, <3>2
  <2>2. 1..0 = {}
    OBVIOUS
  <2>3. pc' \notin {"diskDone", "define"}
    BY <1>1 DEF Loading, Storing, Crash
  <2> QED
    BY <2>1, <2>2, <2>3 DEF BackedInv, DomainBacked
<1>2. CASE Drifting
  BY <1>2 DEF Drifting, BackedInv, DomainBacked, SameDefinition
<1>3. CASE UserDelete \/ SyncCache
  BY <1>3 DEF UserDelete, SyncCache, env, BackedInv, DomainBacked
<1>4. CASE Adding /\ ~mem.deleting /\ pc \in NormalSteps \cup PoolSteps
  <2>1. 1..mem'.disks \subseteq host'.disks
    <3>1. CASE mem'.disks = mem.disks
      BY <1>4, <3>1 DEF Adding, BackedInv
    <3>2. CASE pc = "diskDone" /\ mem'.disks = mem.disks + 1
      <4>1. \A i \in 1..mem'.disks : i \in 1..mem.disks \/ i = mem.disks + 1
        BY <3>2, Typed
      <4> QED
        BY <1>4, <3>2, <4>1 DEF Adding, BackedInv
    <3> QED
      BY <1>4, <3>1, <3>2 DEF Adding
  <2>2. /\ host'.store["root"] # "empty"
        /\ host.store["root"] = "full" => host'.store["root"] = "full"
    BY <1>4 DEF Adding, BackedInv
  <2>3. host.store["root"] \in {"absent", "empty", "full"}
    BY Typed DEF Volumes, Content
  <2>4. CASE SameDefinition(host.dom, host'.dom)
    <3>1. DomainBacked'
      BY <1>4, <2>2, <2>4 DEF Adding, BackedInv, DomainBacked, SameDefinition
    <3> QED
      BY <1>4, <2>1, <2>2, <3>1 DEF Adding, BackedInv
  <2>5. CASE /\ pc = "define"
             /\ host'.dom.pool = mem.pool /\ host'.dom.disks = mem.disks
    <3>1. mem.pool = "store" => host'.store["root"] = "full"
      BY <2>2, <2>3, <2>5 DEF BackedInv
    <3>2. 1..mem.disks \subseteq host'.disks
      BY <1>4 DEF BackedInv, Adding
    <3>3. DomainBacked'
      BY <2>5, <3>1, <3>2 DEF DomainBacked
    <3> QED
      BY <1>4, <2>1, <2>2, <3>3 DEF Adding, BackedInv
  <2> QED
    BY <1>4, <2>4, <2>5 DEF Adding
<1>5. CASE Removing /\ mem.deleting
  <2>1. pc' \notin {"diskDone", "define"} /\ mem'.deleting
    BY <1>5 DEF Removing, ReturnSteps
  <2>2. host'.store["root"] # "empty"
    BY <1>5 DEF Removing, BackedInv
  <2>3. DomainBacked'
    <3>1. CASE host'.dom.state = "absent"
      BY <3>1 DEF DomainBacked
    <3>2. CASE host'.dom.state # "absent"
      <4>1. host.dom.state # "absent" /\ SameDefinition(host.dom, host'.dom)
        BY <1>5, <3>2 DEF Removing, SameDefinition
      <4>2. pc \notin {"delRoot", "delDisk"}
        BY <1>5, <4>1 DEF CleanedSoFar, AfterDomain, AfterRoot, AfterBoot
      <4> QED
        BY <1>5, <4>1, <4>2 DEF Removing, BackedInv, DomainBacked, SameDefinition
    <3> QED
      BY <3>1, <3>2
  <2> QED
    BY <2>1, <2>2, <2>3 DEF BackedInv
<1>6. CASE TearingDown /\ mem.deleting
  BY <1>6 DEF TearingDown, Untouched, BackedInv, DomainBacked, PoolSteps
<1> QED
  BY <1>1, <1>2, <1>3, <1>4, <1>5, <1>6, StepKinds

(* A defined domain has its additional disks and, in the persistent pool,  *)
(* its root disk: reconcileDomain defines it after reconcileRootDisk and   *)
(* reconcileAdditionalDisks, and reconcileDelete undefines it first.       *)
THEOREM DomainAlwaysBacked == Spec => []DomainBacked
<1>1. Init => BackedInv
  <2> SUFFICES ASSUME Init PROVE BackedInv
    OBVIOUS
  <2>1. /\ host.store["root"] = "absent" /\ host.dom.state = "absent"
        /\ pc = "idle" /\ mem.disks = 0
    BY InitHost, NothingType, Zenon DEF Init
  <2>2. 1..0 = {}
    OBVIOUS
  <2> QED
    BY <2>1, <2>2 DEF BackedInv, DomainBacked
<1>2. TypeOK /\ CleanupInv /\ BackedInv /\ [Next]_vars => BackedInv'
  <2> SUFFICES ASSUME TypeOK, CleanupInv, BackedInv, [Next]_vars PROVE BackedInv'
    OBVIOUS
  <2>1. CASE Next
    BY <2>1, BackedStep DEF CleanupInv
  <2>2. CASE UNCHANGED vars
    BY <2>2 DEF vars, BackedInv, DomainBacked
  <2> QED
    BY <2>1, <2>2
<1>3. BackedInv => DomainBacked
  BY DEF BackedInv
<1> QED
  BY <1>1, <1>2, <1>3, CleanupInvariant, PTL DEF Spec
-----------------------------------------------------------------------------
(* StatusInv.                                                              *)

LEMMA StatusStep ==
  ASSUME TypeOK, CleanupInv, StatusInv, Next
  PROVE  StatusInv'
<1> USE DEF CleanupInv
<1>1. CASE Loading
  <2>1. /\ obj' = obj /\ host' = host /\ pc' # "status"
    BY <1>1 DEF Loading
  <2>2. CASE UNCHANGED <<pc, snap, mem>>
    BY <2>1, <2>2 DEF StatusInv, ReadyHasDomain, FailedRunsNothing
  <2>3. CASE snap' = cached /\ mem' = Load(cached)
               /\ pc' \in {"error", "done", IF cached.deleting THEN "delete" ELSE "normal"}
    BY <2>1, <2>3, Typed, LoadType
       DEF StatusInv, ReadyHasDomain, FailedRunsNothing, ReturnSteps
  <2> QED
    BY <1>1, <2>2, <2>3 DEF Loading
<1>2. CASE Storing
  <2>1. ReadyHasDomain'
    BY <1>2, NothingType DEF Storing, StatusInv, ReadyHasDomain
  <2> QED
    BY <1>2, <2>1, NothingType DEF Storing, StatusInv, FailedRunsNothing
<1>3. CASE Crash
  BY <1>3, NothingType DEF Crash, StatusInv, ReadyHasDomain, FailedRunsNothing
<1>4. CASE Drifting
  BY <1>4 DEF Drifting, StatusInv, ReadyHasDomain, FailedRunsNothing, SameDefinition
<1>5. CASE UserDelete
  <2>1. obj'.ready /\ ~obj'.deleting => obj.ready /\ ~obj.deleting
    BY <1>5, Typed, NothingType DEF UserDelete, Object
  <2> QED
    BY <1>5, <2>1 DEF UserDelete, StatusInv, ReadyHasDomain, FailedRunsNothing
<1>6. CASE SyncCache
  BY <1>6 DEF SyncCache, StatusInv, ReadyHasDomain, FailedRunsNothing
<1>7. CASE /\ Adding /\ ~mem.deleting /\ pc \in NormalSteps \cup PoolSteps
           /\ pc = "normal" /\ mem.failed => pc' \in ReturnSteps
  <2>1. host.dom.state # "absent" => host'.dom.state # "absent"
    BY <1>7 DEF Adding, SameDefinition
  <2>2. FailedRunsNothing'
    <3>1. ASSUME snap.failed, ~snap.deleting
          PROVE  pc' \in ReturnSteps
      BY <1>7, <3>1 DEF StatusInv, FailedRunsNothing, NormalSteps, PoolSteps, ReturnSteps
    <3> QED
      BY <1>7, <3>1 DEF FailedRunsNothing, Adding
  <2> QED
    BY <1>7, <2>1, <2>2 DEF Adding, StatusInv, ReadyHasDomain
<1>8. CASE (Removing \/ TearingDown) /\ mem.deleting
  <2>1. /\ UNCHANGED <<obj, snap>> /\ pc # "idle" /\ pc' # "status"
        /\ mem.failed => mem'.failed
        /\ mem'.ready => mem.ready
    BY <1>8, Zenon DEF Removing, TearingDown, DeleteSteps, PoolSteps, ReturnSteps
  <2>2. snap.deleting /\ ~(obj.ready /\ ~obj.deleting)
    BY <1>8, <2>1, NothingType, Typed, Zenon
       DEF OnItsPath, DeletionSeen, SeenDeleted, FinalizerKept
  <2> QED
    BY <1>8, <2>1, <2>2 DEF StatusInv, ReadyHasDomain, FailedRunsNothing
<1> QED
  BY <1>1, <1>2, <1>3, <1>4, <1>5, <1>6, <1>7, <1>8, StepKinds

(* What reconcileNormal may report: a failure it has read is kept, and the *)
(* status step lies past a domain that was seen on the host.               *)
THEOREM StatusInvariant == Spec => []StatusInv
<1>1. Init => StatusInv
  BY NothingType DEF Init, StatusInv, ReadyHasDomain, FailedRunsNothing
<1>2. TypeOK /\ CleanupInv /\ StatusInv /\ [Next]_vars => StatusInv'
  <2> SUFFICES ASSUME TypeOK, CleanupInv, StatusInv, [Next]_vars PROVE StatusInv'
    OBVIOUS
  <2>1. CASE UNCHANGED vars
    BY <2>1 DEF vars, StatusInv, ReadyHasDomain, FailedRunsNothing
  <2> QED
    BY <2>1, StatusStep
<1> QED
  BY <1>1, <1>2, CleanupInvariant, PTL DEF Spec

(* Status.Ready is only stored past a domain that GetDomain has seen, and  *)
(* only reconcileDelete undefines one.                                     *)
THEOREM ReadyMachineHasDomain == Spec => []ReadyHasDomain
<1>1. StatusInv => ReadyHasDomain
  BY DEF StatusInv
<1> QED
  BY <1>1, StatusInvariant, PTL

(* A reconcile that loads a machine with a failure never reaches the host: *)
(* reconcileNormal returns first.                                          *)
THEOREM FailedMachineRunsNothing == Spec => []FailedRunsNothing
<1>1. StatusInv => FailedRunsNothing
  BY DEF StatusInv
<1> QED
  BY <1>1, StatusInvariant, PTL

(* The deferred patch of a reconcile that read the machine before a        *)
(* failure was stored does not erase it: a patch only carries changes, and *)
(* no reconcile clears the failure.                                        *)
THEOREM FailureIsKept == Spec => FailureSticks
<1>1. TypeOK /\ CleanupInv /\ StatusInv /\ [Next]_vars
        => [obj.failed /\ obj'.exists => obj'.failed]_vars
  <2> SUFFICES ASSUME TypeOK, CleanupInv, StatusInv, Next, obj.failed, obj'.exists
               PROVE  obj'.failed
    OBVIOUS
  <2>1. CASE Storing
    BY <2>1, NothingType DEF Storing, StatusInv
  <2>2. CASE UserDelete
    BY <2>2, Typed, NothingType DEF UserDelete, Object
  <2>3. CASE UNCHANGED obj
    BY <2>3
  <2> QED
    BY <2>1, <2>2, <2>3, StepKinds, ZenonT(30)
       DEF CleanupInv, Loading, Drifting, SyncCache, Crash, Adding, Removing, TearingDown
<1> QED
  BY <1>1, CleanupInvariant, StatusInvariant, PTL DEF Spec, FailureSticks
-----------------------------------------------------------------------------
(* The reconciler implements the finalizer protocol of MachineLifecycle.   *)

Phase == IF held THEN IF obj.exists THEN "held" ELSE "gone"
         ELSE IF obj.exists THEN "new" ELSE "lost"

LEMMA LifecycleStep ==
  ASSUME TypeOK, CleanupInv, NoOrphanOnceHeld', Next
  PROVE  [Lifecycle!LifecycleNext]_(Lifecycle!lifecycle)
<1> USE DEF CleanupInv
<1>1. SUFFICES \/ UNCHANGED <<Phase, Dirty>>
               \/ Phase # "gone" /\ Phase' = Phase
               \/ Phase = "new" /\ Phase' \in {"held", "lost"} /\ Dirty' = Dirty
               \/ Phase = "held" /\ ~Dirty /\ Phase' = "gone" /\ Dirty' = Dirty
  <2>1. Dirty' \in BOOLEAN
    BY DEF Dirty
  <2> QED
    BY <2>1 DEF Phase, Lifecycle!LifecycleNext, Lifecycle!lifecycle, Lifecycle!Work,
       Lifecycle!Hold, Lifecycle!Lose, Lifecycle!Release
<1>2. CASE UNCHANGED <<obj, held>>
  <2>1. Phase' = Phase
    BY <1>2 DEF Phase
  <2>2. Phase = "gone" => ~Dirty /\ ~Dirty'
    BY <1>2 DEF Phase, NoOrphanOnceHeld
  <2>3. Dirty \in BOOLEAN /\ Dirty' \in BOOLEAN
    BY DEF Dirty
  <2> QED
    BY <2>1, <2>2, <2>3
<1>3. CASE Storing
  <2>1. Dirty' = Dirty
    BY <1>3 DEF Storing, Dirty
  <2>2. CASE ~obj.exists
    BY <1>3, <2>1, <2>2, NothingType, Zenon DEF Storing, FinalizerKept, Phase
  <2>3. CASE obj.exists /\ obj' = NoObject
    <3>1. held /\ Released
      BY <1>3, <2>3, NothingType DEF Storing, FinalizerKept
    <3>2. ~Dirty /\ Phase = "held" /\ Phase' = "gone"
      BY <1>3, <2>3, <3>1, NothingType, Zenon DEF CleanedSoFar, Storing, Phase
    <3> QED
      BY <2>1, <3>2
  <2>4. CASE obj.exists /\ obj'.exists
    BY <1>3, <2>1, <2>4, Zenon DEF Storing, Phase
  <2> QED
    BY <1>3, <2>2, <2>3, <2>4 DEF Storing
<1>4. CASE UserDelete
  <2>1. Dirty' = Dirty
    BY <1>4 DEF UserDelete, env, Dirty
  <2>2. held' = held /\ obj.exists
    BY <1>4 DEF UserDelete
  <2>3. CASE obj.fin
    <3>1. obj'.exists
      BY <1>4, <2>3, Typed DEF UserDelete, Object
    <3> QED
      BY <2>1, <2>2, <3>1 DEF Phase
  <2>4. CASE ~obj.fin
    BY <1>4, <2>1, <2>2, <2>4, NothingType DEF UserDelete, Phase, FinalizerKept
  <2> QED
    BY <2>3, <2>4
<1> QED
  BY <1>2, <1>3, <1>4, StepKinds, ZenonT(30)
     DEF Loading, Drifting, SyncCache, Crash, Adding, Removing, TearingDown

(* Every behaviour of the reconciler is one of the abstract finalizer      *)
(* protocol: the object is released only with a clean host, and nothing    *)
(* of the machine appears afterwards.                                      *)
THEOREM Refinement == Spec => ImplementsLifecycle
<1>1. Init => Lifecycle!LifecycleInit
  <2> SUFFICES ASSUME Init PROVE Lifecycle!LifecycleInit
    OBVIOUS
  <2>1. ~Dirty
    BY InitHost DEF Dirty, Volumes
  <2> QED
    BY <2>1, NothingType DEF Init, Lifecycle!LifecycleInit
<1>2. TypeOK /\ CleanupInv /\ NoOrphanOnceHeld' /\ [Next]_vars
        => [Lifecycle!LifecycleNext]_(Lifecycle!lifecycle)
  <2> SUFFICES ASSUME TypeOK, CleanupInv, NoOrphanOnceHeld', [Next]_vars
               PROVE  [Lifecycle!LifecycleNext]_(Lifecycle!lifecycle)
    OBVIOUS
  <2>1. CASE UNCHANGED vars
    BY <2>1 DEF vars, Dirty, Lifecycle!lifecycle
  <2> QED
    BY <2>1, LifecycleStep
<1> QED
  BY <1>1, <1>2, CleanupInvariant, NoOrphan, PTL
     DEF Spec, ImplementsLifecycle, Lifecycle!LifecycleSpec
-----------------------------------------------------------------------------
(* TmpfsInv.                                                               *)

(* A reconcile that provisions has not released the finalizer, and the     *)
(* object it works for still exists or never had one.                      *)
LEMMA NothingReleased ==
  ASSUME TypeOK, CleanupInv, Adding, ~mem.deleting, pc # "idle"
  PROVE  ~mem'.deleting /\ ~Released' /\ ~(held' /\ ~obj'.exists)
BY Typed DEF CleanupInv, Adding, OnItsPath, DeletionSeen, Released, Object, Memory

LEMMA TmpfsProvisioning ==
  ASSUME TypeOK, CleanupInv, TmpfsAtStep, NormalStep, spec.eph, faults' = 0
  PROVE  TmpfsAtStep'
<1>1. pc \in NormalSteps /\ ~mem.deleting /\ OnItsPath
  BY NormalFrom DEF CleanupInv, OnItsPath
<1>2. pc # "idle" /\ Adding
  BY <1>1, NormalAdds DEF NormalSteps
<1>3. ~mem'.deleting /\ ~Released' /\ ~(held' /\ ~obj'.exists)
  BY <1>1, <1>2, NothingReleased
<1> USE DEF Making, Unmaking, AfterPool, PoolSteps, ReturnSteps
<1>4. CASE ReconcileNormal \/ PreflightPools \/ ReconcileBaseImage
  <2>1. /\ pc \in {"normal", "pools", "base"}
        /\ pc' \in {"pools", "base", "ephExists"} \cup ReturnSteps
        /\ host'.pool = host.pool /\ host'.stack = host.stack
    BY <1>4, BeforePool
  <2>2. Gone(host) \/ Up(host)
    BY <2>1 DEF TmpfsAtStep
  <2>3. Gone(host') \/ Up(host')
    BY <2>1, <2>2 DEF Gone, Up, Mounted
  <2> QED
    BY <1>3, <2>1, <2>3 DEF TmpfsAtStep
<1>5. CASE EphemeralPoolStep
  BY <1>1, <1>3, <1>5, PoolMaking DEF TmpfsAtStep
<1>6. CASE PastPoolStep
  <2>1. Past /\ pc \in AfterPool
    BY <1>1, <1>6, PastPool
  <2>2. Up(host)
    BY <2>1 DEF TmpfsAtStep
  <2>3. Up(host')
    BY <2>1, <2>2, SameMountKeeps DEF Past, Up
  <2> QED
    BY <1>3, <2>1, <2>3 DEF Past, TmpfsAtStep
<1> QED
  BY <1>4, <1>5, <1>6, NormalSplit

(* A step that leaves the object and the finalizer alone.                  *)
Staying == /\ UNCHANGED <<spec, obj, held, snap>>
           /\ mem'.deleting = mem.deleting /\ mem'.fin = mem.fin

LEMMA StillGone ==
  ASSUME TmpfsAtStep, Staying, Gone(host) => Gone(host')
  PROVE  Released' \/ (held' /\ ~obj'.exists) => Gone(host')
BY DEF TmpfsAtStep, Staying, Released

LEMMA TmpfsDeletion ==
  ASSUME TypeOK, CleanupInv, TmpfsAtStep, DeleteStep, spec.eph, faults' = 0
  PROVE  TmpfsAtStep'
<1> USE DEF Making, Unmaking, AfterPool, PoolSteps, ReturnSteps
<1>1. host \in Host /\ SameMount(host, host)
  BY SameMountItself DEF TypeOK
<1> DEFINE Here == {"delete", "destroyDom", "undefineDom", "delRoot", "delBoot",
                    "delDisks", "delDisk", "delNext"}
           There == Here \cup {"done", "requeue", "error", "dump"}
<1>2. mem.deleting
  <2>1. Removing
    BY DeleteRemoves DEF CleanupInv
  <2> QED
    BY <2>1 DEF Removing, CleanupInv, OnItsPath
<1>3. ASSUME pc \in Here, pc' \in There, Staying, SameMount(host, host')
      PROVE  TmpfsAtStep'
  <2>1. Gone(host) \/ Up(host)
    BY <1>3 DEF TmpfsAtStep
  <2>2. (Gone(host) => Gone(host')) /\ (Up(host) => Up(host'))
    BY <1>3, SameMountKeeps
  <2>3. Released' \/ (held' /\ ~obj'.exists) => Gone(host')
    BY <1>3, <2>2, StillGone
  <2>4. mem'.deleting
    BY <1>2, <1>3 DEF Staying
  <2> QED
    BY <1>3, <2>1, <2>2, <2>3, <2>4 DEF TmpfsAtStep
<1>4. ASSUME NEW r \in Reply, SameMount(host, r.host), NEW from \in Here, NEW ok \in There,
             Virsh(from, r, UnlessNotFound(ok))
      PROVE  TmpfsAtStep'
  <2>1. Quietly(from, r, UnlessNotFound(ok))
    BY <1>4, Undisturbed
  <2>2. pc' \in {ok, "error"}
    BY <1>4, UnlessNotFoundStep
  <2> QED
    BY <1>3, <1>4, <2>1, <2>2 DEF Quietly, Staying
<1>5. CASE ReconcileDelete
  <2>1. pc = "delete" /\ pc' \in {"done", "requeue", "destroyDom"} /\ host' = host
    BY <1>5 DEF ReconcileDelete
  <2>2. Staying
    BY <1>5 DEF ReconcileDelete, Staying, env, api
  <2> QED
    BY <1>1, <1>3, <2>1, <2>2
<1>6. CASE DeleteDestroyDomain
  BY <1>1, <1>4, <1>6, DestroyDomainType, DomainsKeepMount DEF DeleteDestroyDomain
<1>7. CASE DeleteUndefineDomain
  BY <1>1, <1>4, <1>7, UndefineDomainType, DomainsKeepMount DEF DeleteUndefineDomain
<1>8. Home = "eph" /\ "eph" \in Pools /\ "root" \in Volumes /\ "iso" \in Volumes
        /\ "full" \in Content
  BY DEF Home, Pools, Volumes, Content
<1>9. CASE DeleteRootDisk
  <2> DEFINE r == DeleteVolume(host, "eph", "root")
  <2>1. r \in Reply /\ SameMount(host, r.host)
    BY <1>1, <1>8, DeleteVolumeType, VolumesKeepMount, Zenon
  <2>2. Virsh("delRoot", r, UnlessNotFound("delBoot"))
    BY <1>8, <1>9 DEF DeleteRootDisk
  <2> HIDE DEF r
  <2> QED
    BY <1>4, <2>1, <2>2
<1>10. CASE DeleteBootstrap /\ spec.format = "ignition"
  <2> DEFINE r == DeleteRemoteFile(host)
             goto == IgnoreErrors("delDisks")
  <2>1. r \in Reply /\ SameMount(host, r.host)
    BY <1>1, FileCommands, FilesKeepMount
  <2>2. Plain("delBoot", r, goto)
    BY <1>10 DEF DeleteBootstrap
  <2>3. Quietly("delBoot", r, goto)
    BY <2>1, <2>2, Undisturbed
  <2>4. pc' = "delDisks"
    BY <2>1, <2>2, IgnoreErrorsStep
  <2> HIDE DEF r, goto
  <2> QED
    BY <1>3, <2>1, <2>3, <2>4 DEF Quietly, Staying
<1>11. CASE DeleteBootstrap /\ spec.format # "ignition"
  <2> DEFINE r == DeleteVolume(host, "eph", "iso")
  <2>1. r \in Reply /\ SameMount(host, r.host)
    BY <1>1, <1>8, DeleteVolumeType, VolumesKeepMount, Zenon
  <2>2. Virsh("delBoot", r, UnlessNotFound("delDisks"))
    BY <1>8, <1>11 DEF DeleteBootstrap
  <2> HIDE DEF r
  <2> QED
    BY <1>4, <2>1, <2>2
<1>12. CASE DeleteNextDisk
  <2>1. pc = "delDisks" /\ pc' \in {"delDisk", "dump"} /\ host' = host /\ mem' = mem
    BY <1>12 DEF DeleteNextDisk, Local
  <2>2. Staying
    BY <1>12 DEF DeleteNextDisk, Local, Staying, env, api
  <2> QED
    BY <1>1, <1>3, <2>1, <2>2
<1>13. CASE DeleteAdditionalDisk
  <2> DEFINE i == mem.disks + 1
             r == DeleteDisk(host, i)
  <2>1. pc = "delDisk"
    BY <1>13 DEF DeleteAdditionalDisk, Virsh, Command
  <2>2. i \in 1..NDisks
    BY <2>1, SpecsAssumption, NDisksAssumption
       DEF TypeOK, Memory, AllSpecs, CleanupInv, OnItsPath
  <2>3. Virsh("delDisk", r, UnlessNotFound("delNext"))
    BY <1>13 DEF DeleteAdditionalDisk
  <2> HIDE DEF i
  <2>4. r \in Reply /\ SameMount(host, r.host)
    BY <1>1, <2>2, DeleteDiskType, DisksKeepMount
  <2> HIDE DEF r
  <2> QED
    BY <1>4, <2>3, <2>4
<1>14. CASE AdditionalDiskDeleted
  <2>1. pc = "delNext" /\ pc' = "delDisks" /\ host' = host
    BY <1>14 DEF AdditionalDiskDeleted, Local
  <2>2. mem'.deleting = mem.deleting /\ mem'.fin = mem.fin
    BY <1>14, Zenon DEF AdditionalDiskDeleted, Local, TypeOK, Memory
  <2>3. Staying
    BY <1>14, <2>2 DEF AdditionalDiskDeleted, Local, Staying, env, api
  <2> QED
    BY <1>1, <1>3, <2>1, <2>3
<1>15. CASE DeleteNode
  <2>1. pc = "delNode" /\ pc' = "done" /\ host' = host
    BY <1>15 DEF DeleteNode
  <2>2. Gone(host')
    BY <2>1 DEF TmpfsAtStep
  <2> QED
    BY <2>1, <2>2 DEF TmpfsAtStep
<1> QED
  BY <1>5, <1>6, <1>7, <1>9, <1>10, <1>11, <1>12, <1>13, <1>14, <1>15 DEF DeleteStep

(* DestroyPool finds a pool that runs on its mount, or neither.            *)
LEMMA TmpfsDestroyed ==
  ASSUME TypeOK, CleanupInv, TmpfsAtStep, PoolStep, spec.eph, faults' = 0
  PROVE  TmpfsAtStep'
<1> USE DEF Making, Unmaking, AfterPool, PoolSteps, ReturnSteps
<1>1. host \in Host /\ pc \in PoolSteps
  BY PoolStepType DEF TypeOK
<1>2. mem.deleting
  BY <1>1 DEF TmpfsAtStep
<1>3. host.dom.state = "absent"
  BY <1>1, <1>2 DEF CleanupInv, CleanedSoFar, AfterDomain, AfterRoot, AfterBoot, AfterDisks
<1>4. ASSUME Staying, ~Gone(host) \/ Gone(host'),
             \/ pc' = "poolGone" /\ Gone(host')
             \/ pc' = "delNode" /\ Gone(host')
             \/ pc' = "stop" /\ Up(host')
             \/ pc' = "undefine" /\ host'.pool = "inactive" /\ Mounted(host')
             \/ pc' = "unmount" /\ host'.pool = "undefined" /\ Mounted(host')
             \/ pc' = "rmdir" /\ host'.pool = "undefined" /\ host'.stack = << EmptyLayer >>
      PROVE  TmpfsAtStep'
  <2>1. Released' \/ (held' /\ ~obj'.exists) => Gone(host')
    BY <1>4, StillGone
  <2>2. mem'.deleting
    BY <1>2, <1>4 DEF Staying
  <2> QED
    BY <1>4, <2>1, <2>2 DEF TmpfsAtStep
<1>5. ASSUME NEW r \in Reply, NEW from, NEW next, Plain(from, r, IgnoreErrors(next))
      PROVE  Staying /\ pc = from /\ pc' = next /\ host' = r.host
  <2>1. Quietly(from, r, IgnoreErrors(next)) /\ pc' = next
    BY <1>5, Undisturbed, IgnoreErrorsStep
  <2> QED
    BY <2>1 DEF Quietly, Staying
<1>6. CASE DestroyPoolDump
  <2> DEFINE r == DumpPool(host)
             goto == [a \in Answers |->
                         CASE a = "ok" -> "stop"
                           [] a = "notFound" -> "poolGone"
                           [] a = "terminal" /\ ~mem.deleting -> "bootstrap"
                           [] OTHER -> "error"]
  <2>1. Virsh("dump", r, goto)
    BY <1>6 DEF DestroyPoolDump
  <2>2. goto["ok"] = "stop" /\ goto["notFound"] = "poolGone"
    BY DEF Answers
  <2>3. r \in Reply /\ r.host = host
    BY <1>1, Queries
  <2>4. r.ans = IF host.pool = "undefined" THEN "notFound" ELSE "ok"
    BY DEF DumpPool, Fail, Answer, ClassifyVirshError
  <2> HIDE DEF r, goto
  <2>5. Quietly("dump", r, goto)
    BY <2>1, <2>3, Undisturbed
  <2>6. Staying /\ host' = host /\ pc' = goto[r.ans] /\ pc = "dump"
    BY <2>3, <2>5 DEF Quietly, Staying
  <2>7. Gone(host) \/ Up(host)
    BY <2>6 DEF TmpfsAtStep
  <2> QED
    BY <1>4, <2>2, <2>4, <2>6, <2>7 DEF Gone, Up
<1>7. CASE DestroyPoolStop
  <2>1. Staying /\ pc = "stop" /\ pc' = "undefine" /\ host' = StopPool(host).host
    BY <1>1, <1>5, <1>7, PoolCommands DEF DestroyPoolStop
  <2>2. Up(host) /\ ~Gone(host)
    BY <2>1 DEF TmpfsAtStep, Up, Gone
  <2> QED
    BY <1>1, <1>4, <2>1, <2>2, PoolIsUnmade
<1>8. CASE DestroyPoolUndefine
  <2>1. Staying /\ pc = "undefine" /\ pc' = "unmount" /\ host' = UndefinePool(host).host
    BY <1>1, <1>5, <1>8, PoolCommands DEF DestroyPoolUndefine
  <2>2. host.pool = "inactive" /\ Mounted(host) /\ ~Gone(host)
    BY <2>1 DEF TmpfsAtStep, Gone
  <2> QED
    BY <1>1, <1>4, <2>1, <2>2, PoolIsUnmade
<1>9. CASE DestroyPoolUnmount
  <2>1. Staying /\ pc = "unmount" /\ pc' = "rmdir" /\ host' = Unmount(host).host
    BY <1>1, <1>5, <1>9, DirectoryCommands DEF DestroyPoolUnmount
  <2>2. host.pool = "undefined" /\ Mounted(host) /\ ~Gone(host)
    BY <2>1 DEF TmpfsAtStep, Gone, Mounted
  <2> QED
    BY <1>1, <1>3, <1>4, <2>1, <2>2, PoolIsUnmade
<1>10. CASE DestroyPoolRemove
  <2>1. Staying /\ pc = "rmdir" /\ pc' = "poolGone" /\ host' = RemoveDirectory(host).host
    BY <1>1, <1>5, <1>10, DirectoryCommands DEF DestroyPoolRemove
  <2>2. host.pool = "undefined" /\ host.stack = << EmptyLayer >>
    BY <2>1 DEF TmpfsAtStep
  <2> QED
    BY <1>1, <1>4, <2>1, <2>2, PoolIsUnmade
<1>11. CASE DestroyPoolReturn
  <2>1. pc = "poolGone" /\ pc' = "delNode" /\ host' = host /\ mem' = mem
    BY <1>2, <1>11 DEF DestroyPoolReturn, Local
  <2>2. Staying
    BY <1>11 DEF DestroyPoolReturn, Local, Staying, env, api
  <2>3. Gone(host)
    BY <2>1 DEF TmpfsAtStep
  <2> QED
    BY <1>4, <2>1, <2>2, <2>3
<1> QED
  BY <1>6, <1>7, <1>8, <1>9, <1>10, <1>11 DEF PoolStep

(* What happens on the host by itself is a fault.                          *)
LEMMA QuietBackground ==
  ASSUME TypeOK, Background, faults' = 0
  PROVE  host' = host
<1>1. ~VMStops /\ ~DaemonRestart /\ ~Reboot
  BY DEF VMStops, DaemonRestart, Reboot, Fault, TypeOK
<1> QED
  BY <1>1, Zenon DEF Background, Resync, SetOwner, Pause, Unpause, HostReady, HostLost,
     BootstrapReady, KubeletJoins, env

LEMMA StepSplit ==
  ASSUME TypeOK, CleanupInv, Next
  PROVE  \/ Loading \/ Storing \/ Drifting \/ UserDelete \/ SyncCache \/ Crash
         \/ NormalStep \/ DeleteStep \/ PoolStep
BY ReconcileLoads, PatchStores, BackgroundDrifts, Zenon
   DEF Next, Worker, Environment, Background

(* The steps of CreateTmpfsPool and DestroyPool are for machines with an   *)
(* ephemeral pool.                                                         *)
LEMMA EphStepsStep ==
  ASSUME TypeOK, CleanupInv, pc \in EphSteps => spec.eph, Next
  PROVE  pc' \in EphSteps => spec'.eph
<1> USE DEF EphSteps, Making, PoolSteps, ReturnSteps
<1>1. CASE Loading \/ Storing \/ Drifting \/ UserDelete \/ SyncCache \/ Crash
  BY <1>1 DEF Loading, Storing, Drifting, UserDelete, SyncCache, Crash, env
<1>2. CASE NormalStep
  <2>1. OnItsPath /\ ~mem.deleting /\ spec' = spec
    BY <1>2, NormalFrom, NormalAdds DEF CleanupInv, OnItsPath, Adding
  <2>2. CASE ReconcileNormal \/ PreflightPools \/ ReconcileBaseImage
    BY <2>1, <2>2, BeforePool
  <2>3. CASE EphemeralPoolStep
    BY <2>1, <2>3 DEF EphemeralPoolStep, EphemeralPoolExists, EphemeralPoolActive,
       StartEphemeralPool, CreateTmpfsDirectory, CreateTmpfsMount,
       CreateTmpfsDefine, CreateTmpfsStart, UseEphemeralPool, Virsh, Plain, Command, Local
  <2>4. CASE PastPoolStep
    BY <2>1, <2>4, PastPool DEF Past, AfterPool
  <2> QED
    BY <1>2, <2>2, <2>3, <2>4, NormalSplit
<1>3. CASE DeleteStep
  <2>1. Removing
    BY <1>3, DeleteRemoves DEF CleanupInv
  <2>2. CASE pc = "delDisks"
    <3>1. DeleteNextDisk
      BY <1>3, <2>2 DEF DeleteStep, ReconcileDelete, DeleteDestroyDomain,
         DeleteUndefineDomain, DeleteRootDisk, DeleteBootstrap, DeleteAdditionalDisk,
         AdditionalDiskDeleted, DeleteNode, Virsh, Plain, Command, Local
    <3> QED
      BY <2>1, <3>1 DEF DeleteNextDisk, Local, Removing
  <2> QED
    BY <2>1, <2>2 DEF Removing
<1>4. CASE PoolStep
  BY <1>4, PoolStepType DEF Frame
<1> QED
  BY <1>1, <1>2, <1>3, <1>4, StepSplit

LEMMA TmpfsStep ==
  ASSUME TypeOK, CleanupInv, TmpfsInv, Next
  PROVE  TmpfsInv'
<1>1. pc' \in EphSteps => spec'.eph
  BY EphStepsStep DEF TmpfsInv
<1> SUFFICES ASSUME faults' = 0, spec'.eph
             PROVE  TmpfsAtStep'
  BY <1>1 DEF TmpfsInv
<1>2. faults = 0
  BY FaultsCount DEF CleanupInv, TypeOK
<1>3. spec' = spec
  BY StepKinds, Zenon
     DEF CleanupInv, Loading, Storing, Drifting, UserDelete, SyncCache, Crash, Adding,
         Removing, TearingDown, env
<1>4. TmpfsAtStep /\ spec.eph
  BY <1>2, <1>3 DEF TmpfsInv
<1> USE DEF Making, Unmaking, AfterPool, PoolSteps, ReturnSteps
<1>5. CASE Reconcile
  <2>1. Loading /\ cached \in Object
    BY <1>5, ReconcileLoads DEF TypeOK
  <2>2. CASE UNCHANGED <<pc, snap, mem>>
    BY <1>4, <2>1, <2>2 DEF Loading, TmpfsAtStep, Released
  <2>3. CASE snap' = cached /\ mem' = Load(cached)
               /\ pc' \in {"error", "done", "delete", "normal"}
    <3>1. ~Released'
      BY <2>1, <2>3, LoadType DEF Released
    <3>2. /\ host' = host /\ pc = "idle" /\ held' = held /\ obj' = obj
      BY <2>1 DEF Loading
    <3> QED
      BY <1>4, <2>3, <3>1, <3>2 DEF TmpfsAtStep
  <2> QED
    BY <2>1, <2>2, <2>3 DEF Loading
<1>6. CASE Patch
  <2>1. Storing
    BY <1>6, PatchStores
  <2>2. host' = host /\ pc \in ReturnSteps /\ pc' = "idle" /\ ~Released'
    BY <2>1, NothingType DEF Storing, Released
  <2>3. held' /\ ~obj'.exists => Gone(host)
    <3>1. CASE ~obj.exists
      BY <1>4, <2>1, <3>1, Typed, NothingType, Zenon
         DEF Storing, TmpfsAtStep, CleanupInv, FinalizerKept
    <3>2. CASE obj.exists
      BY <1>4, <2>1, <3>2, NothingType DEF Storing, TmpfsAtStep, CleanupInv, FinalizerKept
    <3> QED
      BY <3>1, <3>2
  <2> QED
    BY <1>4, <2>2, <2>3 DEF TmpfsAtStep
<1>7. CASE Background
  <2>1. host' = host /\ Drifting
    BY <1>7, QuietBackground, BackgroundDrifts
  <2> QED
    BY <1>4, <2>1 DEF Drifting, TmpfsAtStep, Released
<1>8. CASE UserDelete
  <2>1. UNCHANGED <<pc, snap, mem, host, held>>
    BY <1>8 DEF UserDelete
  <2>2. held => obj'.exists
    BY <1>8, Typed, Zenon DEF UserDelete, CleanupInv, FinalizerKept, Object
  <2> QED
    BY <1>4, <2>1, <2>2 DEF TmpfsAtStep, Released
<1>9. CASE SyncCache
  BY <1>4, <1>9 DEF SyncCache, TmpfsAtStep, Released
<1>10. ~Crash
  BY <1>2 DEF Crash, Fault
<1>11. CASE NormalStep
  BY <1>4, <1>11, TmpfsProvisioning
<1>12. CASE DeleteStep
  BY <1>4, <1>12, TmpfsDeletion
<1>13. CASE PoolStep
  BY <1>4, <1>13, TmpfsDestroyed
<1> QED
  BY <1>5, <1>6, <1>7, <1>8, <1>9, <1>10, <1>11, <1>12, <1>13, Zenon
     DEF Next, Worker, Environment, Background

(* The steps of CreateTmpfsPool and DestroyPool, taken without a fault,    *)
(* leave the pool and its mount both there or both gone.                   *)
THEOREM TmpfsInvariant == Spec => []TmpfsInv
<1>1. Init => TmpfsInv
  <2> SUFFICES ASSUME Init PROVE TmpfsInv
    OBVIOUS
  <2>1. Gone(host)
    BY DEF Init, NewHost, Gone
  <2> QED
    BY <2>1, NothingType
       DEF Init, TmpfsInv, TmpfsAtStep, EphSteps, Making, Unmaking, AfterPool, PoolSteps
<1>2. TypeOK /\ CleanupInv /\ TmpfsInv /\ [Next]_vars => TmpfsInv'
  <2> SUFFICES ASSUME TypeOK, CleanupInv, TmpfsInv, [Next]_vars PROVE TmpfsInv'
    OBVIOUS
  <2>1. CASE UNCHANGED vars
    BY <2>1 DEF vars, TmpfsInv, TmpfsAtStep, Released, Gone, Up, Mounted
  <2> QED
    BY <2>1, TmpfsStep
<1> QED
  BY <1>1, <1>2, CleanupInvariant, PTL DEF Spec

(* The tmpfs of a machine goes with it, whenever it is deleted: DestroyPool *)
(* finds the pool that CreateTmpfsPool defined, and the domain that held   *)
(* files open is gone before.                                              *)
THEOREM TmpfsIsTornDown == Spec => []TmpfsTornDown
<1>1. TmpfsInv => TmpfsTornDown
  BY DEF TmpfsInv, TmpfsAtStep, TmpfsTornDown, Gone
<1> QED
  BY <1>1, TmpfsInvariant, PTL
-----------------------------------------------------------------------------
(* WholeInv.                                                               *)

LEMMA PlacedProvisioning ==
  ASSUME TypeOK, CleanupInv, TmpfsInv, Placed, NormalStep
  PROVE  Placed'
<1>1. pc \in NormalSteps /\ ~mem.deleting /\ OnItsPath
  BY NormalFrom DEF CleanupInv, OnItsPath
<1>2. Adding /\ faults' \in {faults, faults + 1} /\ faults \in Nat
  BY <1>1, NormalAdds, FaultsCount, FaultsAssumption
     DEF Next, Worker, CleanupInv, TypeOK
<1>3. /\ ~mem'.deleting /\ spec' = spec /\ Home' = Home
      /\ faults' = 0 \/ ~mem'.failed => faults = 0 \/ ~mem.failed
  <2>1. ~mem'.deleting /\ spec' = spec /\ (mem.failed => mem'.failed)
    BY <1>1, <1>2 DEF Adding
  <2> QED
    BY <1>2, <2>1 DEF Home
<1>4. CASE ReconcileNormal \/ PreflightPools \/ ReconcileBaseImage
  <2>1. /\ pc' \in {"pools", "base"} \cup ReturnSteps
              \cup (IF spec.eph THEN {"ephExists"} ELSE {"rootExists"})
        /\ mem'.pool = mem.pool /\ mem.pool \in Pools
    BY <1>4, BeforePool DEF TypeOK, Memory
  <2> QED
    BY <1>1, <1>3, <2>1 DEF Placed, AfterPool, Defining, ReturnSteps, Pools, Home
<1>5. CASE EphemeralPoolStep
  <2>1. spec.eph
    BY <1>5 DEF TmpfsInv, EphSteps, Making, EphemeralPoolStep, EphemeralPoolExists,
       EphemeralPoolActive, StartEphemeralPool, CreateTmpfsDirectory,
       CreateTmpfsMount, CreateTmpfsDefine, CreateTmpfsStart, UseEphemeralPool,
       Virsh, Plain, Command, Local
  <2> QED
    BY <1>1, <1>3, <1>5, <2>1, PoolIsUsed DEF Placed, TmpfsInv
<1>6. CASE PastPoolStep
  <2>1. Past /\ pc \in AfterPool /\ (pc \in DiskLoop => AdditionalDisksStep)
    BY <1>1, <1>6, PastPool
  <2>2. mem'.pool = mem.pool
    BY <2>1 DEF Past
  <2>3. CASE pc \in DiskLoop
    <3>1. /\ pc' = "diskCreate" => (mem'.disks + 1) \notin host'.disks
          /\ pc' \in Defining /\ (faults' = 0 \/ ~mem'.failed) => mem'.disks = spec.disks
      BY <1>1, <2>1, <2>3, DisksAreMade DEF Placed
    <3> QED
      BY <1>1, <1>3, <2>1, <2>2, <3>1 DEF Placed
  <2>4. CASE pc \notin DiskLoop
    <3>1. pc' # "diskCreate" /\ (pc' \in Defining => pc \in Defining)
      BY <2>1, <2>4 DEF Past
    <3>2. pc \in Defining => mem'.disks = mem.disks
      BY <1>2 DEF Adding, Defining
    <3> QED
      BY <1>1, <1>3, <2>1, <2>2, <3>1, <3>2 DEF Placed
  <2> QED
    BY <2>3, <2>4
<1> QED
  BY <1>4, <1>5, <1>6, NormalSplit

LEMMA PlacedStep ==
  ASSUME TypeOK, CleanupInv, TmpfsInv, Placed, Next
  PROVE  Placed'
<1> USE DEF AfterPool, Defining, ReturnSteps
<1>1. CASE Loading
  <2>1. cached \in Object /\ UNCHANGED <<spec, host>> /\ pc = "idle"
    BY <1>1 DEF TypeOK, Loading
  <2>2. CASE UNCHANGED <<pc, snap, mem>>
    BY <2>1, <2>2 DEF Placed, CleanupInv, OnItsPath, NoMemory
  <2>3. CASE mem' = Load(cached) /\ pc' \in {"error", "done", "delete", "normal"}
    BY <2>1, <2>3, LoadType DEF Placed
  <2> QED
    BY <1>1, <2>2, <2>3 DEF Loading
<1>2. NoMemory.pool = "store"
  BY NothingType, LoadType DEF NoMemory
<1>3. CASE Storing \/ Crash
  BY <1>2, <1>3 DEF Storing, Crash, Placed
<1>4. CASE Drifting \/ UserDelete \/ SyncCache
  <2>1. /\ UNCHANGED <<spec, mem, pc>> /\ host'.disks = host.disks
        /\ faults' \in {faults, faults + 1} /\ faults \in Nat
    BY <1>4, FaultsCount, FaultsAssumption
       DEF Drifting, UserDelete, SyncCache, env, CleanupInv, TypeOK
  <2>2. Home' = Home /\ (faults' = 0 => faults = 0)
    BY <2>1 DEF Home
  <2> QED
    BY <2>1, <2>2 DEF Placed
<1>5. CASE NormalStep
  BY <1>5, PlacedProvisioning
<1>6. CASE DeleteStep
  <2>1. Removing
    BY <1>6, DeleteRemoves DEF CleanupInv
  <2>2. mem'.deleting /\ pc' # "diskCreate"
    BY <2>1 DEF Removing, CleanupInv, OnItsPath
  <2> QED
    BY <2>2 DEF Placed
<1>7. CASE PoolStep
  <2>1. mem'.deleting = mem.deleting /\ spec' = spec /\ pc' # "diskCreate"
    BY <1>7, PoolStepType, FrameMemory DEF Frame, PoolSteps
  <2>2. CASE mem.deleting
    BY <2>1, <2>2 DEF Placed
  <2>3. CASE ~mem.deleting
    <3>1. /\ pc' \notin Defining /\ mem'.pool = mem.pool
          /\ pc' \in AfterPool => mem'.failed /\ faults' # 0
      BY <1>7, <2>3, PoolIsRemade
    <3> QED
      BY <2>1, <2>3, <3>1 DEF Placed
  <2> QED
    BY <2>2, <2>3
<1> QED
  BY <1>1, <1>3, <1>4, <1>5, <1>6, <1>7, StepSplit

(* A domain becomes incomplete only by being defined after a terminal      *)
(* error, and an incomplete one is not forgotten: the patch stores the     *)
(* failure or takes a second fault.                                        *)
LEMMA AccountedStep ==
  ASSUME TypeOK, CleanupInv, StatusInv, Placed, Accounted, Next
  PROVE  Accounted'
<1> SUFFICES ASSUME Incomplete', faults' <= 1
             PROVE  /\ faults' = 1
                    /\ \/ obj'.failed \/ obj'.deleting \/ ~obj'.exists
                       \/ mem'.failed /\ ~snap'.failed /\ ~obj'.ready
  BY DEF Accounted
<1>1. faults \in Nat /\ faults' \in {faults, faults + 1}
  BY FaultsCount, FaultsAssumption DEF CleanupInv, TypeOK
<1>2. spec' = spec /\ Home' = Home
  BY StepKinds, Zenon
     DEF CleanupInv, Loading, Storing, Drifting, UserDelete, SyncCache, Crash, Adding,
         Removing, TearingDown, env, Home
<1>3. CASE ~Incomplete
  <2>1. /\ pc = "define" /\ Adding /\ ~mem.deleting
        /\ host.dom.state = "absent"
        /\ mem.pool # Home \/ mem.disks # spec.disks
    <3>1. ~SameDefinition(host.dom, host'.dom)
      BY <1>2, <1>3 DEF SameDefinition, Incomplete
    <3>2. SameDefinition(host.dom, host.dom)
      BY DEF SameDefinition
    <3>3. host' # host /\ host'.dom.state # "absent" /\ host'.dom # host.dom
      BY <3>1, <3>2 DEF Incomplete
    <3>4. Adding /\ ~mem.deleting
      BY <3>1, <3>3, StepKinds, Zenon
         DEF CleanupInv, Loading, Storing, Drifting, UserDelete, SyncCache, Crash,
             Removing, TearingDown, Untouched, env
    <3> QED
      BY <1>2, <3>1, <3>4 DEF Adding, Incomplete
  <2>2. mem.failed /\ faults # 0
    BY <2>1 DEF Placed, AfterPool, Defining
  <2>3. ~snap.failed
    BY <2>1 DEF StatusInv, FailedRunsNothing, CleanupInv, OnItsPath, ReturnSteps
  <2>4. ~obj.ready \/ obj.deleting
    BY <2>1 DEF StatusInv, ReadyHasDomain
  <2>5. mem'.failed /\ UNCHANGED <<obj, snap>>
    BY <2>1, <2>2 DEF Adding
  <2>6. faults' = 1
    BY <1>1, <2>2
  <2> QED
    BY <2>3, <2>4, <2>5, <2>6
<1>4. CASE Incomplete
  <2>1. /\ faults = 1 /\ faults' = 1
        /\ \/ obj.failed \/ obj.deleting \/ ~obj.exists
           \/ mem.failed /\ ~snap.failed /\ ~obj.ready
    BY <1>1, <1>4 DEF Accounted
  <2>2. CASE Loading
    <3>1. ~mem.failed
      BY <2>2, NothingType DEF Loading, CleanupInv, OnItsPath
    <3> QED
      BY <2>1, <2>2, <3>1 DEF Loading
  <2>3. CASE Storing
    <3>1. snap.failed => mem.failed
      BY DEF StatusInv
    <3> QED
      BY <2>1, <2>3, <3>1, NothingType DEF Storing
  <2>4. CASE Drifting \/ SyncCache
    BY <2>1, <2>4 DEF Drifting, SyncCache
  <2>5. CASE UserDelete
    <3>1. obj'.deleting \/ ~obj'.exists
      BY <2>5, NothingType DEF UserDelete, TypeOK, Object
    <3> QED
      BY <2>1, <3>1
  <2>6. ~Crash
    BY <2>1 DEF Crash, Fault
  <2>7. CASE Adding \/ Removing \/ TearingDown
    BY <2>1, <2>7 DEF Adding, Removing, TearingDown
  <2> QED
    BY <2>2, <2>3, <2>4, <2>5, <2>6, <2>7, StepKinds DEF CleanupInv
<1> QED
  BY <1>3, <1>4

(* A domain that lacks a disk, or has its root disk in the wrong pool, is  *)
(* the work of a reconcile that met a terminal error.                      *)
THEOREM WholeInvariant == Spec => []WholeInv
<1>1. Init => WholeInv
  <2> SUFFICES ASSUME Init PROVE WholeInv
    OBVIOUS
  <2>1. mem.pool = "store" /\ ~mem.deleting /\ pc = "idle"
    BY NothingType, LoadType DEF Init, NoMemory
  <2>2. host.dom.state = "absent"
    BY InitHost, Zenon DEF Init
  <2> QED
    BY <2>1, <2>2 DEF WholeInv, Placed, Accounted, Incomplete, AfterPool, Defining
<1>2. TypeOK /\ CleanupInv /\ StatusInv /\ TmpfsInv /\ WholeInv /\ [Next]_vars => WholeInv'
  <2> SUFFICES ASSUME TypeOK, CleanupInv, StatusInv, TmpfsInv, WholeInv, [Next]_vars
               PROVE  WholeInv'
    OBVIOUS
  <2>1. CASE UNCHANGED vars
    BY <2>1 DEF vars, WholeInv, Placed, Accounted, Incomplete, Home
  <2> QED
    BY <2>1, PlacedStep, AccountedStep DEF WholeInv
<1> QED
  BY <1>1, <1>2, CleanupInvariant, StatusInvariant, TmpfsInvariant, PTL DEF Spec

(* A machine reported ready has the domain its spec asks for, unless two   *)
(* things went wrong.                                                      *)
THEOREM ReadyMachineIsWhole == Spec => []ReadyIsWhole
<1>1. TypeOK /\ CleanupInv /\ StatusInv /\ WholeInv => ReadyIsWhole
  <2> SUFFICES ASSUME TypeOK, CleanupInv, StatusInv, Accounted,
                      obj.ready, ~obj.failed, ~obj.deleting, faults <= 1
               PROVE  host.dom.disks = spec.disks /\ host.dom.pool = Home
    BY DEF ReadyIsWhole, WholeInv
  <2>1. obj.exists
    BY NothingType DEF CleanupInv, FinalizerKept
  <2>2. host.dom.state # "absent"
    BY DEF StatusInv, ReadyHasDomain
  <2> QED
    BY <2>1, <2>2 DEF Accounted, Incomplete
<1> QED
  BY <1>1, CleanupInvariant, StatusInvariant, WholeInvariant, PTL
=============================================================================
