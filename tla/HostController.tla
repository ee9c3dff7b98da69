---------------------------- MODULE HostController ----------------------------
(***************************************************************************)
(* The LibvirtHost controller: a health check of the host on each event,   *)
(* a status patched after it, and a next check while a machine in the      *)
(* cache refers to the host. One worker serves a host at a time, and what  *)
(* it reads comes from the manager's cache.                                *)
(*                                                                         *)
(* Memory stands for both resources the check discovers.                   *)
(***************************************************************************)
EXTENDS AdmissionWebhook, Faults, Integers

CONSTANTS Total,        \* a host's memory
          Reserves      \* spec.reservedResources

ASSUME HostAssumption ==
    Total \in Nat /\ Reserves \subseteq Nat /\ MaxFaults \in Nat

VARIABLES
    up,         \* whether a host passes the health check
    hostObj,    \* the LibvirtHosts in the API server
    hostSeen,   \* the LibvirtHosts in the manager's cache
    stamped,    \* the hosts whose lastChecked in the cache is not the latest
    queue,      \* the hosts in the work queue
    timer,      \* the hosts with a pending RequeueAfter
    check,      \* where the worker of each host is
    snap,       \* the object it loaded, None when it is idle
    status,     \* the status it is about to patch, None before the check
    again       \* whether it will ask for another check

hostVars == <<up, hostObj, hostSeen, stamped, queue, timer, check, snap, status,
              again, faults>>

Statuses == [ready : BOOLEAN, avail : Nat \cup {None}]

NotReady == [ready |-> FALSE, avail |-> None]

HostObjects == [reserve : Reserves, status : Statuses]

HostTypeOK ==
    /\ up \in [Hosts -> BOOLEAN]
    /\ hostObj \in [Hosts -> HostObjects]
    /\ hostSeen \in [Hosts -> HostObjects]
    /\ stamped \subseteq Hosts
    /\ queue \subseteq Hosts
    /\ timer \subseteq Hosts
    /\ check \in [Hosts -> {"idle", "check", "list", "patch"}]
    /\ snap \in [Hosts -> HostObjects \cup {None}]
    /\ status \in [Hosts -> Statuses \cup {None}]
    /\ again \in [Hosts -> BOOLEAN]
    /\ faults \in 0..MaxFaults

(* The manager starts: every host is in the cache and in the queue.        *)
HostInit ==
    /\ up \in [Hosts -> BOOLEAN]
    /\ hostObj \in [Hosts -> [reserve : Reserves, status : {NotReady}]]
    /\ hostSeen = hostObj
    /\ stamped = {}
    /\ queue = Hosts
    /\ timer = {}
    /\ check = [h \in Hosts |-> "idle"]
    /\ snap = [h \in Hosts |-> None]
    /\ status = [h \in Hosts |-> None]
    /\ again = [h \in Hosts |-> FALSE]
    /\ faults = 0
-----------------------------------------------------------------------------
(* The key is taken from the queue, the host from the cache.               *)
Reconcile(h) ==
    /\ check[h] = "idle" /\ h \in queue
    /\ queue' = queue \ {h}
    /\ snap' = [snap EXCEPT ![h] = hostSeen[h]]
    /\ check' = [check EXCEPT ![h] = "check"]
    /\ UNCHANGED <<up, hostObj, hostSeen, stamped, timer, status, again, faults>>

(* Mutant: what is left may be negative.                                   *)
AvailableUnclamped(reserve) == Total - reserve

Available(reserve) == IF reserve > Total THEN 0 ELSE Total - reserve

(* Ping, VerifyHypervisor, VerifySessionPrerequisites and GetNodeInfo.     *)
Healthy(h) == up[h]

(* A failed check leaves the capacity of the last good one.                *)
PerformHealthCheck(h) ==
    /\ check[h] = "check"
    /\ \/ /\ Healthy(h)
          /\ status' = [status EXCEPT ![h] =
                           [ready |-> TRUE, avail |-> Available(snap[h].reserve)]]
          /\ UNCHANGED faults
       \/ /\ IF Healthy(h) THEN Fault ELSE UNCHANGED faults
          /\ status' = [status EXCEPT ![h] = [snap[h].status EXCEPT !.ready = FALSE]]
    /\ check' = [check EXCEPT ![h] = "list"]
    /\ UNCHANGED <<up, hostObj, hostSeen, stamped, queue, timer, snap, again>>

(* Machines that are being deleted count as well.                          *)
Referenced(list, h) == \E m \in Machines : list[m] # Absent /\ list[m].spec.host = h

(* An error of the list also asks for another check.                       *)
HasReferencingMachines(h) ==
    /\ check[h] = "list"
    /\ \/ again' = [again EXCEPT ![h] = Referenced(listed, h)] /\ UNCHANGED faults
       \/ Fault /\ again' = [again EXCEPT ![h] = TRUE]
    /\ check' = [check EXCEPT ![h] = "patch"]
    /\ UNCHANGED <<up, hostObj, hostSeen, stamped, queue, timer, snap, status>>

(* The patch holds what differs from the object that was loaded.           *)
Merged(h) ==
    [hostObj[h] EXCEPT
        !.status.ready = IF status[h].ready = snap[h].status.ready
                         THEN @ ELSE status[h].ready,
        !.status.avail = IF status[h].avail = snap[h].status.avail
                         THEN @ ELSE status[h].avail]

(* lastChecked has a resolution of a second: it differs as well, unless    *)
(* the check ended in the second that the cached object shows. An error of *)
(* the patch is logged.                                                    *)
Write(h) ==
    \/ /\ hostObj' = [hostObj EXCEPT ![h] = Merged(h)]
       /\ stamped' \in {stamped, stamped \cup {h}}
       /\ UNCHANGED faults
    \/ Fault /\ UNCHANGED <<hostObj, stamped>>

Return(h) ==
    /\ check' = [check EXCEPT ![h] = "idle"]
    /\ snap' = [snap EXCEPT ![h] = None]
    /\ status' = [status EXCEPT ![h] = None]
    /\ again' = [again EXCEPT ![h] = FALSE]

(* Mutant: the next check is only asked for after a good one.              *)
PatchIfReady(h) ==
    /\ check[h] = "patch"
    /\ Write(h)
    /\ timer' = IF again[h] /\ status[h].ready THEN timer \cup {h} ELSE timer
    /\ Return(h)
    /\ UNCHANGED <<up, hostSeen, queue>>

(* The deferred patch, then the result.                                    *)
Patch(h) ==
    /\ check[h] = "patch"
    /\ Write(h)
    /\ timer' = IF again[h] THEN timer \cup {h} ELSE timer
    /\ Return(h)
    /\ UNCHANGED <<up, hostSeen, queue>>

(* The interval is over.                                                   *)
Requeue(h) ==
    /\ h \in timer
    /\ timer' = timer \ {h}
    /\ queue' = queue \cup {h}
    /\ UNCHANGED <<up, hostObj, hostSeen, stamped, check, snap, status, again,
                   faults>>

(* The informer delivers a changed host: an event for its key.             *)
SyncHost(h) ==
    /\ hostSeen[h] # hostObj[h] \/ h \in stamped
    /\ hostSeen' = [hostSeen EXCEPT ![h] = hostObj[h]]
    /\ stamped' = stamped \ {h}
    /\ queue' = queue \cup {h}
    /\ UNCHANGED <<up, hostObj, timer, check, snap, status, again, faults>>

(* The watch on LibvirtMachines maps a machine to its host.                *)
HostsOf(list, ms) == {list[m].spec.host : m \in {n \in ms : list[n] # Absent}}

(* Mutant: no watch on LibvirtMachines.                                    *)
SyncMachinesUnwatched ==
    /\ listed # machine
    /\ listed' = machine
    /\ UNCHANGED <<machine, request, blind, hostVars>>

(* The informer delivers changed machines: events for their hosts.         *)
SyncMachines ==
    LET changed == {m \in Machines : listed[m] # machine[m]}
    IN  /\ changed # {}
        /\ listed' = machine
        /\ queue' = queue \cup HostsOf(listed, changed) \cup HostsOf(machine, changed)
        /\ UNCHANGED <<machine, request, blind, up, hostObj, hostSeen, stamped,
                       timer, check, snap, status, again, faults>>

(* The host goes down or comes back, or its owner changes the reservation. *)
Flip(h) ==
    /\ Fault
    /\ up' = [up EXCEPT ![h] = ~@]
    /\ UNCHANGED <<hostObj, hostSeen, stamped, queue, timer, check, snap, status,
                   again>>

EditReserve(h) ==
    /\ Fault
    /\ \E r \in Reserves \ {hostObj[h].reserve} :
           hostObj' = [hostObj EXCEPT ![h].reserve = r]
    /\ UNCHANGED <<up, hostSeen, stamped, queue, timer, check, snap, status, again>>

HostStep(h) ==
    \/ Reconcile(h) \/ PerformHealthCheck(h) \/ HasReferencingMachines(h) \/ Patch(h)
=============================================================================
