------------------------------- MODULE HostFleet -------------------------------
(***************************************************************************)
(* Machines on hosts: the admission webhook, the LibvirtHost controller,   *)
(* and the machine controller reduced to what meets them (it reads a       *)
(* host's status from the cache, sizes and starts one VM per machine,      *)
(* stores finalizer and provider ID, and on deletion removes the VM before *)
(* the finalizer). MachineReconciler has its steps.                        *)
(***************************************************************************)
EXTENDS HostController

VARIABLE vm             \* the memory of each machine's VM on each host, or None

fleetVars == <<admissionVars, hostVars, vm>>

FleetTypeOK ==
    /\ AdmissionTypeOK /\ HostTypeOK
    /\ vm \in [Machines -> [Hosts -> Nat \cup {None}]]

FleetInit ==
    /\ AdmissionInit /\ HostInit
    /\ vm = [m \in Machines |-> [h \in Hosts |-> None]]
-----------------------------------------------------------------------------
(* resolveAutoSizing: a memory of zero means what the host has left.       *)
Resolved(spec, cap) == IF spec.size = 0 THEN cap.avail ELSE spec.size

(* Mutant: a host that has nothing left is overlooked.                     *)
NeverInsufficient(spec, cap) == FALSE

Insufficient(spec, cap) ==
    /\ spec.size = 0 /\ cap.avail # None
    /\ cap.avail <= 0

(* A reconcile of a machine that the cache shows, on a host that the cache *)
(* shows as ready, gets as far as starting the VM.                         *)
StartVM(m) ==
    LET spec == listed[m].spec
        cap  == hostSeen[spec.host].status
    IN  /\ listed[m].state = "live" /\ ~listed[m].failed
        /\ cap.ready /\ up[spec.host]
        /\ Resolved(spec, cap) # None /\ ~Insufficient(spec, cap)
        /\ vm[m][spec.host] = None
        /\ vm' = [vm EXCEPT ![m][spec.host] = Resolved(spec, cap)]
        /\ UNCHANGED <<admissionVars, hostVars>>

(* Auto-sizing fails for good, and the failure is stored.                  *)
Refuse(m) ==
    LET spec == listed[m].spec
        cap  == hostSeen[spec.host].status
    IN  /\ listed[m].state = "live" /\ cap.ready /\ Insufficient(spec, cap)
        /\ Exists(m) /\ ~machine[m].failed
        /\ machine' = [machine EXCEPT ![m].fin = TRUE, ![m].failed = TRUE]
        /\ UNCHANGED <<listed, request, blind, hostVars, vm>>

(* The deferred patch of another reconcile: the finalizer and, when the VM *)
(* runs, the provider ID.                                                  *)
PatchMachine(m) ==
    /\ listed[m].state = "live" /\ Live(m)
    /\ machine' = [machine EXCEPT ![m].fin = TRUE,
                                  ![m].spec.id = @ \/ vm[m][HostOf(m)] # None]
    /\ UNCHANGED <<listed, request, blind, hostVars, vm>>

(* reconcileDelete on a host that the cache shows as ready: the VM first,  *)
(* the finalizer last.                                                     *)
RemoveVM(m) ==
    LET h == listed[m].spec.host
    IN  /\ listed[m].state = "deleting" /\ hostSeen[h].status.ready /\ up[h]
        /\ vm[m][h] # None
        /\ vm' = [vm EXCEPT ![m][h] = None]
        /\ UNCHANGED <<admissionVars, hostVars>>

Finish(m) ==
    LET h == listed[m].spec.host
    IN  /\ listed[m].state = "deleting" /\ hostSeen[h].status.ready /\ up[h]
        /\ vm[m][h] = None
        /\ machine[m].state = "deleting"
        /\ machine' = [machine EXCEPT ![m] = Absent]
        /\ UNCHANGED <<listed, request, blind, hostVars, vm>>

MachineStep(m) ==
    StartVM(m) \/ Refuse(m) \/ PatchMachine(m) \/ RemoveVM(m) \/ Finish(m)

UserStep(m) ==
    /\ \/ \E s \in MachineSpecs : ~s.id /\ ValidateCreate(m, s)
       \/ \E s \in MachineSpecs : ValidateUpdate(m, s)
       \/ Store(m) \/ Delete(m)
    /\ UNCHANGED <<hostVars, vm>>

HostEvent(h) ==
    /\ HostStep(h) \/ Requeue(h) \/ SyncHost(h) \/ Flip(h) \/ EditReserve(h)
    /\ UNCHANGED <<admissionVars, vm>>

FleetNext ==
    \/ \E m \in Machines : MachineStep(m) \/ UserStep(m)
    \/ \E h \in Hosts : HostEvent(h)
    \/ SyncMachines /\ UNCHANGED vm

FleetSpec == FleetInit /\ [][FleetNext]_fleetVars

(* The host workers run, the informers deliver, and intervals end. Nothing *)
(* is assumed of the users and of the machine controller.                  *)
FleetFairSpec ==
    /\ FleetSpec
    /\ WF_fleetVars(SyncMachines /\ UNCHANGED vm)
    /\ \A h \in Hosts :
         /\ WF_fleetVars(HostStep(h) /\ UNCHANGED <<admissionVars, vm>>)
         /\ WF_fleetVars(SyncHost(h) /\ UNCHANGED <<admissionVars, vm>>)
         /\ WF_fleetVars(Requeue(h) /\ UNCHANGED <<admissionVars, vm>>)
-----------------------------------------------------------------------------
(* Two machines that share a host, neither being deleted, were judged      *)
(* concurrently: one of them by a list in which the other was missing.     *)
OnlyRacesShareAHost ==
    \A m, n \in Machines :
        m # n /\ Live(m) /\ Live(n) /\ HostOf(m) = HostOf(n)
            => n \in blind[m] \/ m \in blind[n]

(* An auto-sized VM has memory, and no more than its host: whichever       *)
(* capacity the reconcile read, and however the reservation was changed.   *)
AutoSizedFits ==
    \A m \in Machines, h \in Hosts :
        vm[m][h] \notin {None} \cup (Sizes \ {0}) => vm[m][h] \in 1..Total

(* The spec of a stored machine never changes, except that the provider    *)
(* ID is set once (ValidateUpdate). MachineReconciler relies on it: it     *)
(* computes the names it deletes from the same spec it created from.       *)
SpecFixed ==
    [][\A m \in Machines : Exists(m) /\ Exists(m)' =>
           /\ machine'[m].spec.host = machine[m].spec.host
           /\ machine'[m].spec.size = machine[m].spec.size
           /\ machine[m].spec.id => machine'[m].spec.id]_fleetVars

(* When a host's condition and reservation stop changing, while machines   *)
(* refer to it, its stored status becomes what a check finds, and stays:   *)
(* in spite of lost patches, patches computed from a stale object, and     *)
(* lists without the machine.                                              *)
Steady(h, v, r) == up[h] = v /\ hostObj[h].reserve = r /\ Referenced(machine, h)

Shown(h, v, r) == /\ hostObj[h].status.ready = v
                  /\ v => hostObj[h].status.avail = Available(r)

StatusConverges ==
    \A h \in Hosts, v \in BOOLEAN, r \in Reserves :
        <>[]Steady(h, v, r) => <>[]Shown(h, v, r)
=============================================================================
