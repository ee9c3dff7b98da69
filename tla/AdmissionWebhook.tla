--------------------------- MODULE AdmissionWebhook ---------------------------
(***************************************************************************)
(* Admission of LibvirtMachines: the validating webhook decides on what    *)
(* the manager's informer shows it, and the API server stores the object   *)
(* some time after the decision.                                           *)
(*                                                                         *)
(* A spec is abstracted to the host it names, the memory it asks for (0    *)
(* for auto-sizing), whether it is well formed, and the provider ID.       *)
(***************************************************************************)
EXTENDS Naturals

CONSTANTS Machines,     \* names of LibvirtMachines, in one namespace
          Hosts,        \* LibvirtHosts, in the same namespace
          Sizes,        \* spec.domain.memoryMB
          None          \* nothing

ASSUME AdmissionAssumption == Sizes \subseteq Nat /\ None \notin Hosts \cup Nat

VARIABLES
    machine,    \* the LibvirtMachines in the API server
    listed,     \* the LibvirtMachines in the manager's cache
    request,    \* create requests that were admitted and are not stored yet
    blind       \* history: what was not in the list a machine was judged by

admissionVars == <<machine, listed, request, blind>>

MachineSpecs == [host : Hosts, size : Sizes, formed : BOOLEAN, id : BOOLEAN]

Absent == [state |-> "absent", spec |-> None, fin |-> FALSE, failed |-> FALSE]

Objects == [state : {"live", "deleting"}, spec : MachineSpecs, fin : BOOLEAN,
            failed : BOOLEAN] \cup {Absent}

AdmissionTypeOK ==
    /\ machine \in [Machines -> Objects]
    /\ listed \in [Machines -> Objects]
    /\ request \in [Machines -> MachineSpecs \cup {None}]
    /\ blind \in [Machines -> SUBSET Machines]

AdmissionInit ==
    /\ machine = [m \in Machines |-> Absent]
    /\ listed = machine
    /\ request = [m \in Machines |-> None]
    /\ blind = [m \in Machines |-> {}]

Exists(m) == machine[m].state # "absent"
Live(m)   == machine[m].state = "live"
HostOf(m) == machine[m].spec.host
-----------------------------------------------------------------------------
(* Mutant: a machine that failed is not counted.                           *)
HostUniquenessIgnoringFailed(m, spec) ==
    \A n \in Machines \ {m} :
        listed[n].state = "live" /\ ~listed[n].failed => listed[n].spec.host # spec.host

(* No other machine in the list, leaving out those being deleted, has the  *)
(* host.                                                                   *)
ValidateHostUniqueness(m, spec) ==
    \A n \in Machines \ {m} :
        listed[n].state = "live" => listed[n].spec.host # spec.host

(* The host a machine has or is about to have, and the one it is listed    *)
(* with.                                                                   *)
Taken(m)  == IF request[m] # None THEN request[m].host
             ELSE IF Live(m) THEN HostOf(m) ELSE None
Listed(m) == IF listed[m].state = "live" THEN listed[m].spec.host ELSE None

Unlisted == {m \in Machines : Taken(m) \notin {None, Listed(m)}}

ValidateCreate(m, spec) ==
    /\ ~Exists(m) /\ request[m] = None
    /\ spec.formed /\ ValidateHostUniqueness(m, spec)
    /\ request' = [request EXCEPT ![m] = spec]
    /\ blind' = [n \in Machines |-> IF n = m THEN Unlisted ELSE blind[n] \ {m}]
    /\ UNCHANGED <<machine, listed>>

(* The API server stores an admitted object, or refuses it after all.      *)
Store(m) ==
    /\ request[m] # None
    /\ machine' \in {machine,
                     [machine EXCEPT ![m] = [state  |-> "live",
                                             spec   |-> request[m],
                                             fin    |-> FALSE,
                                             failed |-> FALSE]]}
    /\ request' = [request EXCEPT ![m] = None]
    /\ UNCHANGED <<listed, blind>>

SameSpec(old, new) == [new EXCEPT !.id = old.id] = old

(* Mutant: the provider ID may be cleared.                                 *)
ValidateUpdateClearing(m, spec) ==
    /\ Exists(m)
    /\ spec.formed
    /\ SameSpec(machine[m].spec, spec)
    /\ machine' = [machine EXCEPT ![m].spec = spec]
    /\ UNCHANGED <<listed, request, blind>>

(* The provider ID may be set once; nothing else may change.               *)
ValidateUpdate(m, spec) ==
    /\ Exists(m)
    /\ spec.formed
    /\ machine[m].spec.id => spec.id
    /\ SameSpec(machine[m].spec, spec)
    /\ machine' = [machine EXCEPT ![m].spec = spec]
    /\ UNCHANGED <<listed, request, blind>>

(* ValidateDelete allows everything; the finalizer keeps the object.       *)
Delete(m) ==
    /\ Live(m)
    /\ machine' = [machine EXCEPT ![m] = IF machine[m].fin
                                         THEN [@ EXCEPT !.state = "deleting"]
                                         ELSE Absent]
    /\ UNCHANGED <<listed, request, blind>>
=============================================================================
