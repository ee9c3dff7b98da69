---------------------------- MODULE HostFleetProofs ----------------------------
(***************************************************************************)
(* Proofs of the safety properties of HostFleet, for any machines, hosts,  *)
(* sizes and reservations, and any number of faults.                       *)
(***************************************************************************)
EXTENDS HostFleet, TLAPS

Stored == [state : {"live", "deleting"}, spec : MachineSpecs, fin : BOOLEAN,
           failed : BOOLEAN]

(* What is stored under a name is a machine, or Absent.                    *)
LEMMA StoredOrAbsent ==
    ASSUME NEW o \in Objects
    PROVE  o \in Stored \/ (o = Absent /\ o.state = "absent")
BY DEF Objects, Stored, Absent

LEMMA StoredIsNotAbsent ==
    ASSUME NEW o \in Objects, o.state # "absent"
    PROVE  o \in Stored
BY StoredOrAbsent

(* Each step of the admission keeps the types.                             *)
LEMMA AdmissionTypesStep ==
    ASSUME FleetTypeOK, [FleetNext]_fleetVars
    PROVE  AdmissionTypeOK'
<1> USE DEF FleetTypeOK, AdmissionTypeOK
<1>1. ASSUME NEW m \in Machines, NEW o \in Objects, machine' = [machine EXCEPT ![m] = o]
      PROVE  machine' \in [Machines -> Objects]
  BY <1>1
<1>2. ASSUME NEW m \in Machines, Refuse(m) PROVE AdmissionTypeOK'
  <2>1. machine[m] \in Stored
    BY <1>2, StoredIsNotAbsent DEF Refuse, Exists
  <2>2. [machine[m] EXCEPT !.fin = TRUE, !.failed = TRUE] \in Objects
    BY <2>1, Zenon DEF Stored, Objects
  <2>3. machine' = [machine EXCEPT ![m] = [machine[m] EXCEPT !.fin = TRUE, !.failed = TRUE]]
    BY <1>2, Zenon DEF Refuse
  <2> QED
    BY <1>1, <1>2, <2>2, <2>3 DEF Refuse
<1>3. ASSUME NEW m \in Machines, PatchMachine(m) PROVE AdmissionTypeOK'
  <2> DEFINE b == machine[m].spec.id \/ vm[m][HostOf(m)] # None
             o == [machine[m] EXCEPT !.fin = TRUE, !.spec.id = b]
  <2>1. machine[m] \in Stored
    BY <1>3, StoredIsNotAbsent DEF PatchMachine, Live
  <2>2. b \in BOOLEAN
    OBVIOUS
  <2> HIDE DEF b
  <2>3. o \in Objects
    BY <2>1, <2>2, Zenon DEF Stored, Objects, MachineSpecs
  <2>4. machine' = [machine EXCEPT ![m] = o]
    BY <1>3, Zenon DEF PatchMachine, b
  <2> QED
    BY <1>1, <1>3, <2>3, <2>4, Zenon DEF PatchMachine
<1>4. ASSUME NEW m \in Machines, Finish(m) PROVE AdmissionTypeOK'
  BY <1>4 DEF Finish, Objects
<1>5. ASSUME NEW m \in Machines, NEW s \in MachineSpecs, ValidateCreate(m, s)
      PROVE  AdmissionTypeOK'
  BY <1>5 DEF ValidateCreate, Unlisted
<1>6. ASSUME NEW m \in Machines, NEW s \in MachineSpecs, ValidateUpdate(m, s)
      PROVE  AdmissionTypeOK'
  <2>1. machine[m] \in Stored
    BY <1>6, StoredIsNotAbsent DEF ValidateUpdate, Exists
  <2>2. [machine[m] EXCEPT !.spec = s] \in Objects
    BY <2>1, Zenon DEF Stored, Objects
  <2>3. machine' = [machine EXCEPT ![m] = [machine[m] EXCEPT !.spec = s]]
    BY <1>6 DEF ValidateUpdate
  <2> QED
    BY <1>1, <1>6, <2>2, <2>3 DEF ValidateUpdate
<1>7. ASSUME NEW m \in Machines, Store(m) PROVE AdmissionTypeOK'
  <2> DEFINE o == [state |-> "live", spec |-> request[m], fin |-> FALSE, failed |-> FALSE]
  <2>1. o \in Objects
    BY <1>7 DEF Store, Objects
  <2>2. machine' \in {machine, [machine EXCEPT ![m] = o]}
    BY <1>7 DEF Store
  <2> HIDE DEF o
  <2> QED
    BY <1>7, <2>1, <2>2 DEF Store
<1>8. ASSUME NEW m \in Machines, Delete(m) PROVE AdmissionTypeOK'
  <2>1. machine[m] \in Stored
    BY <1>8, StoredIsNotAbsent DEF Delete, Live
  <2>2. [machine[m] EXCEPT !.state = "deleting"] \in Objects /\ Absent \in Objects
    BY <2>1 DEF Stored, Objects
  <2>3. \E o \in Objects : machine' = [machine EXCEPT ![m] = o]
    BY <1>8, <2>2, Zenon DEF Delete
  <2> QED
    BY <1>1, <1>8, <2>3, Zenon DEF Delete
<1>9. ASSUME SyncMachines PROVE AdmissionTypeOK'
  BY <1>9 DEF SyncMachines
<1>10. ASSUME UNCHANGED admissionVars PROVE AdmissionTypeOK'
  BY <1>10 DEF admissionVars
<1>11. \/ UNCHANGED admissionVars \/ SyncMachines
       \/ \E m \in Machines :
              \/ Refuse(m) \/ PatchMachine(m) \/ Finish(m) \/ Store(m) \/ Delete(m)
              \/ \E s \in MachineSpecs : ValidateCreate(m, s) \/ ValidateUpdate(m, s)
  BY Zenon DEF FleetNext, MachineStep, UserStep, HostEvent, StartVM, RemoveVM, fleetVars
<1> QED
  BY <1>2, <1>3, <1>4, <1>5, <1>6, <1>7, <1>8, <1>9, <1>10, <1>11, Zenon
-----------------------------------------------------------------------------
(* What a host can offer is never more than it has.                        *)
FitStatuses == [ready : BOOLEAN, avail : (0 .. Total) \cup {None}]
FitObjects  == [reserve : Reserves, status : FitStatuses]

HostInv ==
    /\ up \in [Hosts -> BOOLEAN]
    /\ hostObj \in [Hosts -> FitObjects]
    /\ hostSeen \in [Hosts -> FitObjects]
    /\ stamped \subseteq Hosts /\ queue \subseteq Hosts /\ timer \subseteq Hosts
    /\ check \in [Hosts -> {"idle", "check", "list", "patch"}]
    /\ snap \in [Hosts -> FitObjects \cup {None}]
    /\ status \in [Hosts -> FitStatuses \cup {None}]
    /\ again \in [Hosts -> BOOLEAN]
    /\ faults \in 0..MaxFaults
    /\ \A h \in Hosts : /\ check[h] # "idle" => snap[h] \in FitObjects
                        /\ check[h] \in {"list", "patch"} => status[h] \in FitStatuses

LEMMA FitIsTyped ==
    /\ FitStatuses \subseteq Statuses /\ FitObjects \subseteq HostObjects
    /\ HostInv => HostTypeOK
<1>1. FitStatuses \subseteq Statuses
  BY HostAssumption DEF FitStatuses, Statuses
<1>2. FitObjects \subseteq HostObjects
  BY <1>1 DEF FitObjects, HostObjects
<1>3. ASSUME HostInv PROVE HostTypeOK
  BY <1>1, <1>2, <1>3 DEF HostInv, HostTypeOK
<1> QED
  BY <1>1, <1>2, <1>3

LEMMA FaultCounts ==
    ASSUME faults \in 0..MaxFaults, Fault
    PROVE  faults' \in 0..MaxFaults
BY HostAssumption DEF Fault

LEMMA HostInvReconcile ==
    ASSUME HostInv, NEW h \in Hosts, Reconcile(h)
    PROVE  HostInv'
<1> USE DEF HostInv, Reconcile
<1>1. UNCHANGED <<up, hostObj, hostSeen, stamped, timer, status, again, faults>>
  OBVIOUS
<1>2. /\ queue' \subseteq Hosts
      /\ check' \in [Hosts -> {"idle", "check", "list", "patch"}]
      /\ snap' \in [Hosts -> FitObjects \cup {None}]
  OBVIOUS
<1>3. ASSUME NEW g \in Hosts
      PROVE  /\ check'[g] # "idle" => snap'[g] \in FitObjects
             /\ check'[g] \in {"list", "patch"} => status'[g] \in FitStatuses
  OBVIOUS
<1> QED
  BY <1>1, <1>2, <1>3

LEMMA HostInvCheck ==
    ASSUME HostInv, NEW h \in Hosts, PerformHealthCheck(h)
    PROVE  HostInv'
<1> USE DEF HostInv, PerformHealthCheck
<1>1. UNCHANGED <<up, hostObj, hostSeen, stamped, queue, timer, snap, again>>
  OBVIOUS
<1>2. snap[h] \in FitObjects
  OBVIOUS
<1>3. faults' \in 0..MaxFaults
  BY FaultCounts
<1>4. Available(snap[h].reserve) \in 0 .. Total
  BY <1>2, HostAssumption DEF FitObjects, Available
<1>5. PICK s \in FitStatuses : status' = [status EXCEPT ![h] = s]
  <2>1. [ready |-> TRUE, avail |-> Available(snap[h].reserve)] \in FitStatuses
    BY <1>4 DEF FitStatuses
  <2>2. [snap[h].status EXCEPT !.ready = FALSE] \in FitStatuses
    BY <1>2, Zenon DEF FitStatuses, FitObjects
  <2> QED
    BY <2>1, <2>2, Zenon
<1>6. check' = [check EXCEPT ![h] = "list"]
  OBVIOUS
<1>7. /\ check' \in [Hosts -> {"idle", "check", "list", "patch"}]
      /\ status' \in [Hosts -> FitStatuses \cup {None}]
  BY <1>5, <1>6
<1>8. ASSUME NEW g \in Hosts
      PROVE  /\ check'[g] # "idle" => snap'[g] \in FitObjects
             /\ check'[g] \in {"list", "patch"} => status'[g] \in FitStatuses
  BY <1>1, <1>2, <1>5, <1>6
<1> QED
  BY <1>1, <1>3, <1>7, <1>8

LEMMA HostInvList ==
    ASSUME HostInv, NEW h \in Hosts, HasReferencingMachines(h)
    PROVE  HostInv'
<1> USE DEF HostInv, HasReferencingMachines
<1>1. UNCHANGED <<up, hostObj, hostSeen, stamped, queue, timer, snap, status>>
  OBVIOUS
<1>2. faults' \in 0..MaxFaults
  BY FaultCounts
<1>3. again' \in [Hosts -> BOOLEAN]
  <2>1. Referenced(listed, h) \in BOOLEAN
    BY DEF Referenced
  <2>2. \E b \in BOOLEAN : again' = [again EXCEPT ![h] = b]
    BY <2>1, Zenon
  <2> QED
    BY <2>2
<1>4. check' = [check EXCEPT ![h] = "patch"]
  OBVIOUS
<1> QED
  BY <1>1, <1>2, <1>3, <1>4

LEMMA HostInvPatch ==
    ASSUME HostInv, NEW h \in Hosts, Patch(h)
    PROVE  HostInv'
<1> USE DEF HostInv
<1>1. UNCHANGED <<up, hostSeen, queue>> /\ timer' \subseteq Hosts
  BY DEF Patch
<1>2. snap[h] \in FitObjects /\ status[h] \in FitStatuses
  BY DEF Patch
<1>3. faults' \in 0..MaxFaults /\ stamped' \subseteq Hosts
  BY FaultCounts DEF Patch, Write
<1>4. Merged(h) \in FitObjects
  <2> DEFINE r == IF status[h].ready = snap[h].status.ready
                  THEN hostObj[h].status.ready ELSE status[h].ready
             a == IF status[h].avail = snap[h].status.avail
                  THEN hostObj[h].status.avail ELSE status[h].avail
  <2>1. r \in BOOLEAN /\ a \in (0 .. Total) \cup {None} /\ hostObj[h] \in FitObjects
    BY <1>2 DEF FitObjects, FitStatuses
  <2>2. Merged(h) = [hostObj[h] EXCEPT !.status.ready = r, !.status.avail = a]
    BY DEF Merged
  <2> HIDE DEF r, a
  <2>3. PICK o \in FitObjects : hostObj[h] = o
    BY <2>1
  <2>4. [o EXCEPT !.status.ready = r] \in FitObjects
    BY <2>1, Zenon DEF FitObjects, FitStatuses
  <2>5. [o EXCEPT !.status.ready = r, !.status.avail = a] \in FitObjects
    BY <2>1, <2>4, Zenon DEF FitObjects, FitStatuses
  <2> QED
    BY <2>2, <2>3, <2>5
<1>5. hostObj' \in [Hosts -> FitObjects]
  BY <1>4 DEF Patch, Write
<1>6. /\ check' = [check EXCEPT ![h] = "idle"]
      /\ snap' = [snap EXCEPT ![h] = None]
      /\ status' = [status EXCEPT ![h] = None]
      /\ again' = [again EXCEPT ![h] = FALSE]
  BY DEF Patch, Return
<1>7. again' \in [Hosts -> BOOLEAN]
  BY <1>6
<1> QED
  BY <1>1, <1>3, <1>5, <1>6, <1>7

LEMMA HostInvEvents ==
    ASSUME HostInv, NEW h \in Hosts,
           Requeue(h) \/ SyncHost(h) \/ Flip(h) \/ EditReserve(h)
    PROVE  HostInv'
<1>1. CASE Requeue(h)
  BY <1>1 DEF HostInv, Requeue
<1>2. CASE SyncHost(h)
  BY <1>2 DEF HostInv, SyncHost
<1>3. CASE Flip(h)
  <2>1. up' \in [Hosts -> BOOLEAN]
    BY <1>3 DEF HostInv, Flip
  <2>2. faults' \in 0..MaxFaults
    BY <1>3, FaultCounts DEF HostInv, Flip
  <2> QED
    BY <1>3, <2>1, <2>2 DEF HostInv, Flip
<1>4. CASE EditReserve(h)
  <2>1. faults' \in 0..MaxFaults
    BY <1>4, FaultCounts DEF HostInv, EditReserve
  <2>2. hostObj' \in [Hosts -> FitObjects]
    <3>1. PICK r \in Reserves : hostObj' = [hostObj EXCEPT ![h].reserve = r]
      BY <1>4, Zenon DEF EditReserve
    <3>2. [hostObj[h] EXCEPT !.reserve = r] \in FitObjects
      BY DEF HostInv, FitObjects
    <3> QED
      BY <3>1, <3>2 DEF HostInv
  <2> QED
    BY <1>4, <2>1, <2>2 DEF HostInv, EditReserve
<1> QED
  BY <1>1, <1>2, <1>3, <1>4

(* A machine's host is one of the hosts.                                   *)
LEMMA HostsOfAreHosts ==
    ASSUME NEW list \in [Machines -> Objects], NEW ms \in SUBSET Machines
    PROVE  HostsOf(list, ms) \subseteq Hosts
<1> SUFFICES ASSUME NEW n \in ms, list[n] # Absent
             PROVE  list[n].spec.host \in Hosts
  BY DEF HostsOf
<1>1. list[n] \in Stored
  BY StoredOrAbsent
<1> QED
  BY <1>1 DEF Stored, MachineSpecs

LEMMA HostInvStep ==
    ASSUME AdmissionTypeOK, HostInv, [FleetNext]_fleetVars
    PROVE  HostInv'
<1>1. ASSUME UNCHANGED hostVars PROVE HostInv'
  BY <1>1 DEF HostInv, hostVars
<1>2. ASSUME SyncMachines PROVE HostInv'
  <2> DEFINE changed == {m \in Machines : listed[m] # machine[m]}
  <2>1. /\ HostsOf(listed, changed) \subseteq Hosts
        /\ HostsOf(machine, changed) \subseteq Hosts
    BY HostsOfAreHosts DEF AdmissionTypeOK
  <2>2. queue' \subseteq Hosts
    BY <1>2, <2>1 DEF SyncMachines, HostInv
  <2> QED
    BY <1>2, <2>2 DEF SyncMachines, HostInv
<1>3. ASSUME NEW h \in Hosts, HostStep(h) \/ Requeue(h) \/ SyncHost(h) \/ Flip(h) \/ EditReserve(h)
      PROVE  HostInv'
  BY <1>3, HostInvReconcile, HostInvCheck, HostInvList, HostInvPatch, HostInvEvents
     DEF HostStep
<1>4. \/ UNCHANGED hostVars \/ SyncMachines
      \/ \E h \in Hosts : HostStep(h) \/ Requeue(h) \/ SyncHost(h) \/ Flip(h) \/ EditReserve(h)
  BY Zenon DEF FleetNext, MachineStep, UserStep, HostEvent, StartVM, RemoveVM, Refuse,
               PatchMachine, Finish, fleetVars
<1> QED
  BY <1>1, <1>2, <1>3, <1>4, Zenon
-----------------------------------------------------------------------------
(* Memory of a VM: what the spec says, or what was left of the host.       *)
Memory == (Sizes \ {0}) \cup (1 .. Total)

VMInv == vm \in [Machines -> [Hosts -> Memory \cup {None}]]

LEMMA VMIsTyped ==
    ASSUME VMInv
    PROVE  vm \in [Machines -> [Hosts -> Nat \cup {None}]] /\ AutoSizedFits
<1>1. Memory \subseteq Nat
  BY AdmissionAssumption, HostAssumption DEF Memory
<1>2. vm \in [Machines -> [Hosts -> Nat \cup {None}]]
  BY <1>1, Zenon DEF VMInv
<1>3. AutoSizedFits
  BY DEF VMInv, AutoSizedFits, Memory
<1> QED
  BY <1>2, <1>3

LEMMA VMStep ==
    ASSUME AdmissionTypeOK, HostInv, VMInv, [FleetNext]_fleetVars
    PROVE  VMInv'
<1>1. ASSUME NEW m \in Machines, NEW h \in Hosts, NEW x \in Memory \cup {None},
             vm' = [vm EXCEPT ![m][h] = x]
      PROVE  VMInv'
  BY <1>1 DEF VMInv
<1>2. ASSUME NEW m \in Machines, StartVM(m) PROVE VMInv'
  <2> DEFINE spec == listed[m].spec
             cap  == hostSeen[spec.host].status
             x    == Resolved(spec, cap)
  <2>1. listed[m] \in Stored
    BY <1>2, StoredIsNotAbsent DEF StartVM, AdmissionTypeOK
  <2>2. spec \in MachineSpecs /\ spec.host \in Hosts /\ spec.size \in Sizes
    BY <2>1 DEF Stored, MachineSpecs
  <2>3. cap \in FitStatuses /\ cap.avail \in (0 .. Total) \cup {None}
    BY <2>2 DEF HostInv, FitObjects, FitStatuses
  <2>4. x # None /\ ~Insufficient(spec, cap)
    BY <1>2 DEF StartVM
  <2>5. vm' = [vm EXCEPT ![m][spec.host] = x]
    BY <1>2 DEF StartVM
  <2>6. x \in Memory
    <3>1. CASE spec.size # 0
      BY <2>2, <3>1 DEF Resolved, Memory
    <3>2. CASE spec.size = 0
      <4>1. x = cap.avail /\ x \in 0 .. Total
        BY <2>3, <2>4, <3>2 DEF Resolved
      <4>2. ~(x <= 0)
        BY <2>4, <3>2, <4>1 DEF Insufficient
      <4> HIDE DEF x
      <4>3. x \in 1 .. Total
        BY <4>1, <4>2, HostAssumption
      <4> QED
        BY <4>3 DEF Memory
    <3> QED
      BY <3>1, <3>2
  <2> QED
    BY <1>1, <2>2, <2>5, <2>6, Zenon
<1>3. ASSUME NEW m \in Machines, RemoveVM(m) PROVE VMInv'
  <2>1. listed[m] \in Stored
    BY <1>3, StoredIsNotAbsent DEF RemoveVM, AdmissionTypeOK
  <2> QED
    BY <1>1, <1>3, <2>1, Zenon DEF RemoveVM, Stored, MachineSpecs
<1>4. ASSUME UNCHANGED vm PROVE VMInv'
  BY <1>4 DEF VMInv
<1>5. UNCHANGED vm \/ \E m \in Machines : StartVM(m) \/ RemoveVM(m)
  BY Zenon DEF FleetNext, MachineStep, UserStep, HostEvent, Refuse, PatchMachine, Finish,
               fleetVars
<1> QED
  BY <1>2, <1>3, <1>4, <1>5, Zenon
-----------------------------------------------------------------------------
(* Two machines that have or are about to have one host: one of them was   *)
(* judged by a list in which the other was missing. A request is only      *)
(* pending for a name that does not exist.                                 *)
ShareInv ==
    /\ \A m \in Machines : request[m] # None => ~Exists(m)
    /\ \A m, n \in Machines :
           m # n /\ Taken(m) # None /\ Taken(m) = Taken(n)
               => n \in blind[m] \/ m \in blind[n]

(* A step that keeps the histories and takes no new host.                  *)
LEMMA NothingTaken ==
    ASSUME ShareInv, UNCHANGED blind,
           \A m \in Machines : Taken(m)' \in {None, Taken(m)},
           \A m \in Machines : request'[m] # None => ~Exists(m)'
    PROVE  ShareInv'
<1> SUFFICES ASSUME NEW m \in Machines, NEW n \in Machines, m # n,
                    Taken(m)' # None, Taken(m)' = Taken(n)'
             PROVE  n \in blind'[m] \/ m \in blind'[n]
  BY DEF ShareInv
<1>1. Taken(m) # None /\ Taken(m) = Taken(n)
  OBVIOUS
<1> QED
  BY <1>1 DEF ShareInv

(* A change of one stored machine.                                         *)
LEMMA OneMachineChanged ==
    ASSUME AdmissionTypeOK, ShareInv, UNCHANGED <<blind, request>>,
           NEW m \in Machines, NEW o, machine' = [machine EXCEPT ![m] = o],
           Exists(m),
           \/ o.state = machine[m].state /\ o.spec.host = machine[m].spec.host
           \/ o.state # "live"
    PROVE  ShareInv'
<1>1. request[m] = None
  BY DEF ShareInv
<1>2. machine'[m] = o /\ \A n \in Machines \ {m} : machine'[n] = machine[n]
  BY DEF AdmissionTypeOK
<1>3. ASSUME NEW n \in Machines PROVE Taken(n)' \in {None, Taken(n)}
  BY <1>1, <1>2 DEF Taken, Live, HostOf
<1>4. ASSUME NEW n \in Machines, request'[n] # None PROVE ~Exists(n)'
  BY <1>1, <1>2, <1>4 DEF ShareInv, Exists
<1> QED
  BY <1>3, <1>4, NothingTaken

LEMMA ShareStep ==
    ASSUME AdmissionTypeOK, ShareInv, [FleetNext]_fleetVars
    PROVE  ShareInv'
<1>1. ASSUME NEW m \in Machines, Refuse(m) PROVE ShareInv'
  <2>1. machine' = [machine EXCEPT ![m] = [machine[m] EXCEPT !.fin = TRUE, !.failed = TRUE]]
    BY <1>1, Zenon DEF Refuse
  <2>2. machine[m] \in Stored
    BY <1>1, StoredIsNotAbsent DEF Refuse, Exists, AdmissionTypeOK
  <2>3. /\ [machine[m] EXCEPT !.fin = TRUE, !.failed = TRUE].state = machine[m].state
        /\ [machine[m] EXCEPT !.fin = TRUE, !.failed = TRUE].spec = machine[m].spec
    BY <2>2 DEF Stored
  <2> QED
    BY <1>1, <2>1, <2>3, OneMachineChanged, Zenon DEF Refuse
<1>2. ASSUME NEW m \in Machines, PatchMachine(m) PROVE ShareInv'
  <2> DEFINE b == machine[m].spec.id \/ vm[m][HostOf(m)] # None
             o == [machine[m] EXCEPT !.fin = TRUE, !.spec.id = b]
  <2>1. machine' = [machine EXCEPT ![m] = o]
    BY <1>2, Zenon DEF PatchMachine
  <2>2. machine[m] \in Stored
    BY <1>2, StoredIsNotAbsent DEF PatchMachine, Live, AdmissionTypeOK
  <2> HIDE DEF b
  <2>3. o.state = machine[m].state /\ o.spec.host = machine[m].spec.host
    BY <2>2 DEF Stored, MachineSpecs
  <2> HIDE DEF o
  <2> QED
    BY <1>2, <2>1, <2>3, OneMachineChanged, Zenon DEF PatchMachine, Live, Exists
<1>3. ASSUME NEW m \in Machines, Finish(m) PROVE ShareInv'
  BY <1>3, OneMachineChanged, Zenon DEF Finish, Exists, Absent
<1>4. ASSUME NEW m \in Machines, NEW s \in MachineSpecs, ValidateCreate(m, s)
      PROVE  ShareInv'
  <2>1. /\ request' = [request EXCEPT ![m] = s]
        /\ blind' = [n \in Machines |-> IF n = m THEN Unlisted ELSE blind[n] \ {m}]
        /\ UNCHANGED <<machine, listed>> /\ ~Exists(m)
        /\ ValidateHostUniqueness(m, s)
    BY <1>4 DEF ValidateCreate
  <2>2. \A n \in Machines \ {m} : Taken(n)' = Taken(n) /\ request'[n] = request[n]
    BY <2>1 DEF Taken, Live, HostOf, AdmissionTypeOK
  <2>3. s.host \in Hosts /\ s.host # None
    BY AdmissionAssumption DEF MachineSpecs
  <2>4. Taken(m)' \in {None, s.host}
    BY <2>1 DEF Taken, Live, HostOf, Exists, AdmissionTypeOK
  <2>5. ASSUME NEW n \in Machines \ {m}, Taken(n) = s.host PROVE n \in blind'[m]
    <3>1. Taken(n) # Listed(n)
      BY <2>1, <2>3, <2>5 DEF ValidateHostUniqueness, Listed
    <3> QED
      BY <2>1, <2>3, <2>5, <3>1 DEF Unlisted
  <2>6. ASSUME NEW k \in Machines, NEW n \in Machines,
               k # n, Taken(k)' # None, Taken(k)' = Taken(n)'
        PROVE  n \in blind'[k] \/ k \in blind'[n]
    <3>1. CASE k = m
      BY <2>2, <2>4, <2>5, <2>6, <3>1
    <3>2. CASE n = m
      BY <2>2, <2>4, <2>5, <2>6, <3>2
    <3>3. CASE k # m /\ n # m
      <4>1. n \in blind[k] \/ k \in blind[n]
        BY <2>2, <2>6, <3>3 DEF ShareInv
      <4> QED
        BY <2>1, <3>3, <4>1
    <3> QED
      BY <3>1, <3>2, <3>3
  <2>7. ASSUME NEW n \in Machines, request'[n] # None PROVE ~Exists(n)'
    BY <2>1, <2>2, <2>7 DEF ShareInv, Exists
  <2> QED
    BY <2>6, <2>7 DEF ShareInv
<1>5. ASSUME NEW m \in Machines, NEW s \in MachineSpecs, ValidateUpdate(m, s)
      PROVE  ShareInv'
  <2>1. machine' = [machine EXCEPT ![m] = [machine[m] EXCEPT !.spec = s]]
    BY <1>5 DEF ValidateUpdate
  <2>2. machine[m] \in Stored
    BY <1>5, StoredIsNotAbsent DEF ValidateUpdate, Exists, AdmissionTypeOK
  <2>3. s.host = machine[m].spec.host
    BY <1>5, <2>2 DEF ValidateUpdate, SameSpec, Stored, MachineSpecs
  <2>4. /\ [machine[m] EXCEPT !.spec = s].state = machine[m].state
        /\ [machine[m] EXCEPT !.spec = s].spec = s
    BY <2>2 DEF Stored
  <2> QED
    BY <1>5, <2>1, <2>3, <2>4, OneMachineChanged, Zenon DEF ValidateUpdate
<1>6. ASSUME NEW m \in Machines, Store(m) PROVE ShareInv'
  <2>1. /\ request[m] # None /\ request'[m] = None
        /\ \A n \in Machines \ {m} : request'[n] = request[n] /\ machine'[n] = machine[n]
    BY <1>6 DEF Store, AdmissionTypeOK
  <2>2. ~Exists(m)
    BY <2>1 DEF ShareInv
  <2>3. \/ machine'[m] = machine[m]
        \/ machine'[m].state = "live" /\ machine'[m].spec = request[m]
    BY <1>6 DEF Store, AdmissionTypeOK
  <2>4. Taken(m)' \in {None, Taken(m)}
    BY <2>1, <2>2, <2>3 DEF Taken, Live, Exists, HostOf
  <2>5. \A n \in Machines \ {m} : Taken(n)' = Taken(n)
    BY <2>1 DEF Taken, Live, HostOf
  <2>6. ASSUME NEW n \in Machines, request'[n] # None PROVE ~Exists(n)'
    BY <2>1, <2>6 DEF ShareInv, Exists
  <2>7. UNCHANGED blind
    BY <1>6 DEF Store
  <2> QED
    BY <2>4, <2>5, <2>6, <2>7, NothingTaken
<1>7. ASSUME NEW m \in Machines, Delete(m) PROVE ShareInv'
  <2>1. machine[m] \in Stored
    BY <1>7, StoredIsNotAbsent DEF Delete, Live, AdmissionTypeOK
  <2> DEFINE gone == [machine[m] EXCEPT !.state = "deleting"]
  <2>2. gone.state = "deleting" /\ Absent.state = "absent"
    BY <2>1 DEF Stored, Absent
  <2>3. machine' = [machine EXCEPT ![m] = IF machine[m].fin THEN gone ELSE Absent]
    BY <1>7 DEF Delete
  <2> HIDE DEF gone
  <2> QED
    BY <1>7, <2>2, <2>3, OneMachineChanged, Zenon DEF Delete, Live, Exists
<1>8. ASSUME UNCHANGED <<machine, request, blind>> PROVE ShareInv'
  BY <1>8 DEF ShareInv, Taken, Live, HostOf, Exists
<1>9. \/ UNCHANGED <<machine, request, blind>>
      \/ \E m \in Machines :
             \/ Refuse(m) \/ PatchMachine(m) \/ Finish(m) \/ Store(m) \/ Delete(m)
             \/ \E s \in MachineSpecs : ValidateCreate(m, s) \/ ValidateUpdate(m, s)
  BY Zenon DEF FleetNext, MachineStep, UserStep, HostEvent, StartVM, RemoveVM, SyncMachines,
         fleetVars, admissionVars
<1> QED
  BY <1>1, <1>2, <1>3, <1>4, <1>5, <1>6, <1>7, <1>8, <1>9, Zenon
-----------------------------------------------------------------------------
(* The inductive invariant.                                                *)
FleetInv == AdmissionTypeOK /\ HostInv /\ VMInv /\ ShareInv

LEMMA FleetInvInit ==
    ASSUME FleetInit
    PROVE  FleetInv
<1> USE DEF FleetInit, AdmissionInit, HostInit
<1>1. AdmissionTypeOK
  BY DEF AdmissionTypeOK, Objects
<1>2. HostInv
  <2>1. NotReady \in FitStatuses
    BY DEF NotReady, FitStatuses
  <2>2. hostObj \in [Hosts -> FitObjects]
    BY <2>1 DEF FitObjects
  <2>3. up \in [Hosts -> BOOLEAN] /\ again \in [Hosts -> BOOLEAN]
    OBVIOUS
  <2>4. faults \in 0..MaxFaults
    BY HostAssumption
  <2> QED
    BY <2>2, <2>3, <2>4 DEF HostInv
<1>3. VMInv
  BY DEF VMInv
<1>4. ShareInv
  BY DEF ShareInv, Taken, Live, Absent
<1> QED
  BY <1>1, <1>2, <1>3, <1>4 DEF FleetInv

LEMMA FleetInvStep ==
    ASSUME FleetInv, [FleetNext]_fleetVars
    PROVE  FleetInv'
<1>1. FleetTypeOK
  BY FitIsTyped, VMIsTyped DEF FleetInv, FleetTypeOK
<1> QED
  BY <1>1, AdmissionTypesStep, HostInvStep, VMStep, ShareStep DEF FleetInv

LEMMA FleetInvHolds == FleetSpec => []FleetInv
BY FleetInvInit, FleetInvStep, PTL DEF FleetSpec

(* Machines, hosts, requests and VMs stay in their types.                  *)
THEOREM FleetTypes == FleetSpec => []FleetTypeOK
<1>1. ASSUME FleetInv PROVE FleetTypeOK
  BY <1>1, FitIsTyped, VMIsTyped DEF FleetInv, FleetTypeOK
<1> QED
  BY <1>1, FleetInvHolds, PTL

(* resolveAutoSizing never gives a VM more memory than its host has, nor   *)
(* none: whatever status the cache shows, and whatever is reserved.        *)
THEOREM AutoSizingFits == FleetSpec => []AutoSizedFits
<1>1. ASSUME FleetInv PROVE AutoSizedFits
  BY <1>1, VMIsTyped DEF FleetInv
<1> QED
  BY <1>1, FleetInvHolds, PTL

(* validateHostUniqueness lets two machines share a host only if one was   *)
(* judged before the other was in the list, for any number of machines.    *)
THEOREM SharedOnlyByRaces == FleetSpec => []OnlyRacesShareAHost
<1>1. ASSUME FleetInv PROVE OnlyRacesShareAHost
  <2> SUFFICES ASSUME NEW m \in Machines, NEW n \in Machines,
                      m # n, Live(m), Live(n), HostOf(m) = HostOf(n)
               PROVE  n \in blind[m] \/ m \in blind[n]
    BY DEF OnlyRacesShareAHost
  <2>1. machine[m] \in Stored
    BY <1>1, StoredIsNotAbsent DEF FleetInv, AdmissionTypeOK, Live
  <2>2. HostOf(m) # None
    BY <2>1, AdmissionAssumption DEF HostOf, Stored, MachineSpecs
  <2>3. request[m] = None /\ request[n] = None
    BY <1>1 DEF FleetInv, ShareInv, Exists, Live
  <2> QED
    BY <1>1, <2>2, <2>3 DEF FleetInv, ShareInv, Taken
<1> QED
  BY <1>1, FleetInvHolds, PTL

Kept(m) == /\ machine'[m].spec.host = machine[m].spec.host
           /\ machine'[m].spec.size = machine[m].spec.size
           /\ machine[m].spec.id => machine'[m].spec.id

Fixed == \A m \in Machines : Exists(m) /\ Exists(m)' => Kept(m)

(* No step changes host or size of a machine that exists, or takes its     *)
(* provider ID away.                                                       *)
THEOREM SpecsAreFixed == FleetSpec => SpecFixed
<1>1. ASSUME FleetInv, [FleetNext]_fleetVars PROVE Fixed
  <2> SUFFICES ASSUME NEW m \in Machines, Exists(m), Exists(m)' PROVE Kept(m)
    BY DEF Fixed
  <2> USE <1>1 DEF FleetInv
  <2>1. machine[m] \in Stored
    BY StoredIsNotAbsent DEF AdmissionTypeOK, Exists
  <2>2. ASSUME machine'[m] = machine[m] PROVE Kept(m)
    BY <2>2 DEF Kept
  <2>3. CASE Refuse(m)
    <3>1. machine'[m].spec = machine[m].spec
      BY <2>1, <2>3 DEF Refuse, AdmissionTypeOK, Stored
    <3> QED
      BY <3>1 DEF Kept
  <2>4. CASE PatchMachine(m)
    <3> DEFINE b == machine[m].spec.id \/ vm[m][HostOf(m)] # None
    <3>1. machine'[m] = [machine[m] EXCEPT !.fin = TRUE, !.spec.id = b]
      BY <2>4 DEF PatchMachine, AdmissionTypeOK
    <3>2. machine[m].spec.id => b
      OBVIOUS
    <3> HIDE DEF b
    <3>3. /\ machine'[m].spec.host = machine[m].spec.host
          /\ machine'[m].spec.size = machine[m].spec.size
          /\ machine'[m].spec.id = b
      BY <2>1, <3>1 DEF Stored, MachineSpecs
    <3> QED
      BY <3>2, <3>3, Zenon DEF Kept
  <2>5. ASSUME NEW s \in MachineSpecs, ValidateUpdate(m, s) PROVE Kept(m)
    <3>1. machine'[m].spec = s
      BY <2>1, <2>5 DEF ValidateUpdate, AdmissionTypeOK, Stored
    <3>2. s.host = machine[m].spec.host /\ s.size = machine[m].spec.size
      BY <2>1, <2>5 DEF ValidateUpdate, SameSpec, Stored, MachineSpecs
    <3>3. machine[m].spec.id => s.id
      BY <2>5 DEF ValidateUpdate
    <3> QED
      BY <3>1, <3>2, <3>3, Zenon DEF Kept
  <2>6. CASE Delete(m)
    <3>1. machine'[m].spec = machine[m].spec
      BY <2>1, <2>6 DEF Delete, AdmissionTypeOK, Stored, Exists, Absent
    <3> QED
      BY <3>1 DEF Kept
  <2>7. ASSUME NEW n \in Machines,
               \/ Refuse(n) \/ PatchMachine(n) \/ Finish(n) \/ Store(n) \/ Delete(n)
               \/ \E s \in MachineSpecs : ValidateUpdate(n, s)
        PROVE  Kept(m)
    <3>1. CASE n # m
      BY <2>2, <2>7, <3>1 DEF AdmissionTypeOK, Refuse, PatchMachine, Finish, Store, Delete,
                              ValidateUpdate
    <3>2. ~Finish(m)
      BY DEF Finish, AdmissionTypeOK, Exists, Absent
    <3>3. ~Store(m)
      BY DEF Store, ShareInv
    <3> QED
      BY <2>3, <2>4, <2>5, <2>6, <2>7, <3>1, <3>2, <3>3
  <2>8. ASSUME UNCHANGED machine PROVE Kept(m)
    BY <2>2, <2>8
  <2>9. \/ UNCHANGED machine
        \/ \E n \in Machines :
               \/ Refuse(n) \/ PatchMachine(n) \/ Finish(n) \/ Store(n) \/ Delete(n)
               \/ \E s \in MachineSpecs : ValidateUpdate(n, s)
    BY Zenon DEF FleetNext, MachineStep, UserStep, HostEvent, StartVM, RemoveVM, SyncMachines,
           ValidateCreate, fleetVars, admissionVars
  <2> QED
    BY <2>7, <2>8, <2>9, Zenon
<1> QED
  BY <1>1, FleetInvHolds, PTL DEF FleetSpec, SpecFixed, Fixed, Kept
=============================================================================
