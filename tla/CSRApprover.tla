------------------------------ MODULE CSRApprover ------------------------------
(***************************************************************************)
(* The approver of kubelet certificate requests. It is woken by events of  *)
(* the requests only, decides on the manager's cache, and writes through   *)
(* the approval subresource with the version it read, so that the write    *)
(* fails when somebody else decided in between.                            *)
(***************************************************************************)
EXTENDS Faults

CONSTANTS CSRs,         \* certificate signing requests
          Requests,     \* what they may ask for
          Nodes,        \* node names
          None          \* no name

Signers == {"kubelet-client", "kubelet-serving", "other"}
Users   == Nodes \cup {"bootstrapper", "someone"}
Usages  == {"digital signature", "client auth", "server auth"}

ASSUME CSRAssumption ==
    /\ Requests \subseteq [signer : Signers, user : Users, cn : Nodes \cup {None},
                           org : BOOLEAN, sans : BOOLEAN, usages : SUBSET Usages]
    /\ None \notin Users /\ None # {"Approved", "Denied"}
    /\ MaxFaults \in Nat

VARIABLES
    asks,       \* the content of each request
    decided,    \* its conditions in the API server, None before it is posted
    known,      \* its conditions in the manager's cache
    owners,     \* nodes that have a Machine with a LibvirtMachine
    listed,     \* the same in the manager's cache
    csrQueue,   \* requests in the work queue
    loaded,     \* the conditions a worker decided on, None when it is idle
    ours        \* history: the requests this approver approved

csrVars == <<asks, decided, known, owners, listed, csrQueue, loaded,
             ours, faults>>

Conditions == {None} \cup SUBSET {"Approved", "Denied"}

CSRTypeOK ==
    /\ asks \in [CSRs -> Requests]
    /\ decided \in [CSRs -> Conditions]
    /\ known \in [CSRs -> Conditions]
    /\ owners \subseteq Nodes
    /\ listed \subseteq Nodes
    /\ csrQueue \subseteq CSRs
    /\ loaded \in [CSRs -> Conditions]
    /\ ours \subseteq CSRs
    /\ faults \in 0..MaxFaults

CSRInit ==
    /\ asks \in [CSRs -> Requests]
    /\ decided = [c \in CSRs |-> None]
    /\ known = decided
    /\ owners = {}
    /\ listed = {}
    /\ csrQueue = {}
    /\ loaded = [c \in CSRs |-> None]
    /\ ours = {}
    /\ faults = 0
-----------------------------------------------------------------------------
(* The user name, or else the common name of the certificate.              *)
NodeNameFromCSR(r) == IF r.user \in Nodes THEN r.user ELSE r.cn

(* Every usage is an allowed one (key encipherment is like the signature), *)
(* and the one that matters is among them.                                 *)
HasUsage(r, usage) == usage \in r.usages /\ r.usages \subseteq {"digital signature", usage}

(* Mutant: the subject of the certificate is not compared.                 *)
ShouldApproveAnySubject(r, node) ==
    /\ r.org
    /\ \/ /\ r.signer = "kubelet-client"
          /\ r.user \in {node, "bootstrapper"} /\ HasUsage(r, "client auth")
       \/ /\ r.signer = "kubelet-serving"
          /\ r.user = node /\ r.sans /\ HasUsage(r, "server auth")

(* Mutant: only a node that has a certificate already gets one.            *)
ShouldApproveRenewals(r, node) ==
    /\ r.cn = node /\ r.org /\ r.user = node
    /\ \/ r.signer = "kubelet-client" /\ HasUsage(r, "client auth")
       \/ r.signer = "kubelet-serving" /\ r.sans /\ HasUsage(r, "server auth")

(* The subject is the node's; a client certificate is asked for by the     *)
(* node or a bootstrapper, a serving certificate by the node.              *)
ShouldApproveKubeletCSR(r, node) ==
    /\ r.cn = node /\ r.org
    /\ \/ /\ r.signer = "kubelet-client"
          /\ r.user \in {node, "bootstrapper"} /\ HasUsage(r, "client auth")
       \/ /\ r.signer = "kubelet-serving"
          /\ r.user = node /\ r.sans /\ HasUsage(r, "server auth")

IsLibvirtManagedNode(node) == node \in listed

(* A request that is decided, or that the policy does not cover, is left.  *)
(* An error of the list counts as a node that is not managed.              *)
ReconcileCSR(c) ==
    LET node == NodeNameFromCSR(asks[c])
        ok   == /\ known[c] = {}
                /\ asks[c].signer # "other"
                /\ node # None /\ IsLibvirtManagedNode(node)
                /\ ShouldApproveKubeletCSR(asks[c], node)
    IN  /\ c \in csrQueue /\ loaded[c] = None
        /\ csrQueue' = csrQueue \ {c}
        /\ \/ ok /\ loaded' = [loaded EXCEPT ![c] = known[c]] /\ UNCHANGED faults
           \/ ~ok /\ UNCHANGED <<loaded, faults>>
           \/ ok /\ Fault /\ UNCHANGED loaded
        /\ UNCHANGED <<asks, decided, known, owners, listed, ours>>

(* Mutant: the update does not carry a version.                            *)
ApproveUnconditionally(c) ==
    /\ loaded[c] # None
    /\ loaded' = [loaded EXCEPT ![c] = None]
    /\ decided' = [decided EXCEPT ![c] = @ \cup {"Approved"}]
    /\ ours' = ours \cup {c}
    /\ UNCHANGED <<asks, known, owners, listed, csrQueue, faults>>

(* The update of the approval; a conflict or an error is retried.          *)
Approve(c) ==
    /\ loaded[c] # None
    /\ loaded' = [loaded EXCEPT ![c] = None]
    /\ \/ /\ decided[c] = loaded[c]
          /\ decided' = [decided EXCEPT ![c] = loaded[c] \cup {"Approved"}]
          /\ ours' = ours \cup {c}
          /\ UNCHANGED <<csrQueue, faults>>
       \/ /\ IF decided[c] = loaded[c] THEN Fault ELSE UNCHANGED faults
          /\ csrQueue' = csrQueue \cup {c}
          /\ UNCHANGED <<decided, ours>>
    /\ UNCHANGED <<asks, known, owners, listed>>

Post(c) ==
    /\ decided[c] = None
    /\ decided' = [decided EXCEPT ![c] = {}]
    /\ UNCHANGED <<asks, known, owners, listed, csrQueue, loaded, ours,
                   faults>>

(* An administrator or another approver decides.                           *)
OtherDecision(c) ==
    /\ decided[c] = {} /\ Fault
    /\ \E x \in {"Approved", "Denied"} : decided' = [decided EXCEPT ![c] = {x}]
    /\ UNCHANGED <<asks, known, owners, listed, csrQueue, loaded, ours>>

SyncCSR(c) ==
    /\ known[c] # decided[c]
    /\ known' = [known EXCEPT ![c] = decided[c]]
    /\ csrQueue' = csrQueue \cup {c}
    /\ UNCHANGED <<asks, decided, owners, listed, loaded, ours, faults>>

SyncOwners ==
    /\ listed # owners
    /\ listed' = owners
    /\ UNCHANGED <<asks, decided, known, owners, csrQueue, loaded, ours, faults>>

(* The periodic resync, or a restart of the manager.                       *)
ResyncCSRs ==
    /\ csrQueue' = csrQueue \cup {c \in CSRs : known[c] # None}
    /\ UNCHANGED <<asks, decided, known, owners, listed, loaded, ours, faults>>

CSRWorker(c) == ReconcileCSR(c) \/ Approve(c)
=============================================================================
