------------------------------- MODULE NodeLabels -------------------------------
(***************************************************************************)
(* How a machine's Node comes to be and gets its labels: the kubelet's     *)
(* certificate is approved (CSRApprover), it registers the Node, and       *)
(* reconcileNodeLabels of the machine controller applies spec.nodeLabels   *)
(* and spec.nodeAnnotations with a merge patch against a cached Node,      *)
(* remembering its keys in two annotations of the Node. Nodes are not      *)
(* watched. Machines of the same name may follow one another.              *)
(***************************************************************************)
EXTENDS CSRApprover, FiniteSets, Functions, Sequences

CONSTANTS Me,           \* the machine's node name
          Keys          \* label and annotation keys, in the order of their names

ASSUME LabelsAssumption == Me \in Nodes /\ Keys \subseteq Nat /\ IsFiniteSet(Keys)

VARIABLES
    desired,    \* spec.nodeLabels and spec.nodeAnnotations
    node,       \* the Node in the API server, or None
    seen,       \* the Node in the manager's cache
    base,       \* the Node a reconcile is about to patch, None when idle
    due,        \* a reconcile of the machine is queued
    labelled,   \* the NodeLabelled condition
    applied,    \* history: the keys that were ever applied to the Node
    foreign,    \* history: the keys that others have set on the Node
    crossed     \* history: a patch may meet another Node than it was made for

labelVars == <<desired, node, seen, base, due, labelled, applied, foreign, crossed>>
allVars   == <<csrVars, labelVars>>

Kinds   == {"labels", "annotations"}
KeySets == [Kinds -> SUBSET Keys]
NoKeys  == [k \in Kinds |-> {}]

(* formatManagedKeys lists the keys in ascending order, parseManagedKeys   *)
(* reads the list again; a missing annotation is empty.                    *)
IsSorted(s, ks) ==
    Range(s) = ks /\ \A i, j \in DOMAIN s : i < j => s[i] < s[j]

FormatManagedKeys(ks) == CHOOSE s \in [1..Cardinality(ks) -> ks] : IsSorted(s, ks)
ParseManagedKeys(s)   == Range(s)

NodeObjects ==
    [set : [Kinds -> [Keys -> {"no", "spec", "other"}]],
     managed : [Kinds -> {FormatManagedKeys(ks) : ks \in SUBSET Keys}]]

NewNode == [set |-> [k \in Kinds |-> [key \in Keys |-> "no"]],
            managed |-> [k \in Kinds |-> << >>]]

ASSUME NodeAssumption == None \notin NodeObjects

LabelTypeOK ==
    /\ CSRTypeOK
    /\ desired \in KeySets
    /\ node \in NodeObjects \cup {None}
    /\ seen \in NodeObjects \cup {None}
    /\ base \in NodeObjects \cup {None}
    /\ due \in BOOLEAN
    /\ labelled \in {"unset", "NodeNotJoined", "NodeLabelled"}
    /\ applied \in KeySets
    /\ foreign \in KeySets
    /\ crossed \in BOOLEAN

LabelInit ==
    /\ CSRInit
    /\ desired = NoKeys
    /\ node = None /\ seen = None /\ base = None
    /\ due = FALSE
    /\ labelled = "unset"
    /\ applied = NoKeys /\ foreign = NoKeys
    /\ crossed = FALSE
-----------------------------------------------------------------------------
(* Mutant: the keys are added to the ones remembered before.               *)
WantedAppending(n) ==
    [set |-> [k \in Kinds |-> [key \in Keys |->
                 IF key \in desired[k] THEN "spec" ELSE n.set[k][key]]],
     managed |-> [k \in Kinds |-> n.managed[k] \o FormatManagedKeys(desired[k])]]

(* Mutant: only labels are remembered.                                     *)
WantedForgetting(n) ==
    [set |-> [k \in Kinds |-> [key \in Keys |->
                 IF key \in desired[k] THEN "spec"
                 ELSE IF key \in ParseManagedKeys(n.managed[k]) THEN "no"
                 ELSE n.set[k][key]]],
     managed |-> [k \in Kinds |->
                 IF k = "labels" THEN FormatManagedKeys(desired[k]) ELSE << >>]]

(* The Node as the reconcile wants it: earlier keys removed, keys of the   *)
(* spec set, and these remembered.                                         *)
Wanted(n) ==
    [set |-> [k \in Kinds |-> [key \in Keys |->
                 IF key \in desired[k] THEN "spec"
                 ELSE IF key \in ParseManagedKeys(n.managed[k]) THEN "no"
                 ELSE n.set[k][key]]],
     managed |-> [k \in Kinds |-> FormatManagedKeys(desired[k])]]

(* Mutant: the Node is updated as a whole.                                 *)
Replaced(n, b) == Wanted(b)

(* The merge patch holds the differences to the cached Node.               *)
MergeFrom(n, b) ==
    [set |-> [k \in Kinds |-> [key \in Keys |->
                 IF Wanted(b).set[k][key] = b.set[k][key] THEN n.set[k][key]
                 ELSE Wanted(b).set[k][key]]],
     managed |-> [k \in Kinds |->
                 IF Wanted(b).managed[k] = b.managed[k] THEN n.managed[k]
                 ELSE Wanted(b).managed[k]]]

(* Mutant: a Node that was labelled is not looked at again.                *)
ReconcileNodeLabelsOnce ==
    /\ due /\ base = None
    /\ \/ /\ desired = NoKeys
          /\ labelled' = "unset" /\ due' = FALSE /\ UNCHANGED base
       \/ /\ desired # NoKeys /\ seen = None
          /\ labelled' = "NodeNotJoined" /\ UNCHANGED <<due, base>>
       \/ /\ desired # NoKeys /\ seen # None
          /\ base' = IF labelled = "NodeLabelled" THEN None ELSE seen
          /\ due' = FALSE /\ UNCHANGED labelled
    /\ UNCHANGED <<csrVars, desired, node, seen, applied, foreign, crossed>>

(* With nothing desired the Node is left as it is; without a Node the      *)
(* reconcile is repeated.                                                  *)
ReconcileNodeLabels ==
    /\ due /\ base = None
    /\ \/ /\ desired = NoKeys
          /\ labelled' = "unset" /\ due' = FALSE /\ UNCHANGED base
       \/ /\ desired # NoKeys /\ seen = None
          /\ labelled' = "NodeNotJoined" /\ UNCHANGED <<due, base>>
       \/ /\ desired # NoKeys /\ seen # None
          /\ base' = seen /\ due' = FALSE /\ UNCHANGED labelled
    /\ UNCHANGED <<csrVars, desired, node, seen, applied, foreign, crossed>>

(* The patch of the Node; an error is retried.                             *)
PatchNode ==
    /\ base # None
    /\ base' = None
    /\ \/ /\ node # None
          /\ node' = MergeFrom(node, base)
          /\ labelled' = "NodeLabelled"
          /\ applied' = [k \in Kinds |-> applied[k] \cup desired[k]]
          /\ UNCHANGED <<due, faults>>
       \/ /\ IF node # None THEN Fault ELSE UNCHANGED faults
          /\ due' = TRUE
          /\ UNCHANGED <<node, labelled, applied>>
    /\ UNCHANGED <<asks, decided, known, owners, listed, csrQueue, loaded, ours,
                   desired, seen, foreign, crossed>>
-----------------------------------------------------------------------------
(* A machine of this name is created, and reconciled up to the labels. The *)
(* cache of Nodes is not older than the machine.                           *)
CreateMachine ==
    /\ Me \notin owners /\ base = None /\ seen = node
    /\ owners' = owners \cup {Me}
    /\ desired' \in KeySets
    /\ due' = TRUE /\ labelled' = "unset"
    /\ UNCHANGED <<asks, decided, known, listed, csrQueue, loaded, ours, faults,
                   node, seen, base, applied, foreign, crossed>>

(* It is deleted, and with it a Node that is in the cache, unless that     *)
(* fails.                                                                  *)
DeleteMachine ==
    /\ Me \in owners /\ base = None
    /\ owners' = owners \ {Me}
    /\ desired' = NoKeys
    /\ due' = FALSE /\ labelled' = "unset"
    /\ \/ seen # None /\ node' = None /\ foreign' = NoKeys /\ UNCHANGED faults
       \/ seen = None /\ UNCHANGED <<node, foreign, faults>>
       \/ seen # None /\ node # None /\ Fault /\ UNCHANGED <<node, foreign>>
    /\ UNCHANGED <<asks, decided, known, listed, csrQueue, loaded, ours,
                   seen, base, applied, crossed>>

(* A kubelet with a client certificate registers its Node.                 *)
Register ==
    /\ node = None
    /\ \E c \in CSRs : /\ decided[c] \notin {None, {}} /\ "Approved" \in decided[c]
                       /\ asks[c].signer = "kubelet-client" /\ asks[c].cn = Me
    /\ node' = NewNode
    /\ crossed' = (crossed \/ base # None \/ seen # None)
    /\ UNCHANGED <<csrVars, desired, seen, base, due, labelled, applied, foreign>>

LoseNode ==
    /\ node # None /\ Fault
    /\ node' = None /\ foreign' = NoKeys
    /\ UNCHANGED <<asks, decided, known, owners, listed, csrQueue, loaded, ours,
                   desired, seen, base, due, labelled, applied, crossed>>

(* Somebody else sets or removes a key.                                    *)
EditNode ==
    /\ node # None /\ Fault
    /\ \E k \in Kinds, key \in Keys :
         \/ /\ node' = [node EXCEPT !.set[k][key] = "other"]
            /\ foreign' = [foreign EXCEPT ![k] = @ \cup {key}]
         \/ /\ node' = [node EXCEPT !.set[k][key] = "no"]
            /\ foreign' = [foreign EXCEPT ![k] = @ \ {key}]
    /\ UNCHANGED <<asks, decided, known, owners, listed, csrQueue, loaded, ours,
                   desired, seen, base, due, labelled, applied, crossed>>

SyncNode ==
    /\ seen # node
    /\ seen' = node
    /\ UNCHANGED <<csrVars, desired, node, base, due, labelled, applied, foreign,
                   crossed>>

ResyncMachine ==
    /\ Me \in owners /\ ~due
    /\ due' = TRUE
    /\ UNCHANGED <<csrVars, desired, node, seen, base, labelled, applied, foreign,
                   crossed>>

CSRStep == /\ \/ \E c \in CSRs : CSRWorker(c) \/ Post(c) \/ OtherDecision(c) \/ SyncCSR(c)
              \/ SyncOwners \/ ResyncCSRs
           /\ UNCHANGED labelVars

LabelStep == ReconcileNodeLabels \/ PatchNode

NodeNext ==
    \/ CSRStep \/ LabelStep \/ CreateMachine \/ DeleteMachine
    \/ Register \/ LoseNode \/ EditNode \/ SyncNode \/ ResyncMachine

NodeSpec == LabelInit /\ [][NodeNext]_allVars

(* Both controllers run, their informers deliver, and they are resynced.   *)
NodeFairSpec ==
    /\ NodeSpec
    /\ WF_allVars(LabelStep) /\ WF_allVars(SyncNode) /\ WF_allVars(ResyncMachine)
    /\ WF_allVars(SyncOwners /\ UNCHANGED labelVars)
    /\ WF_allVars(ResyncCSRs /\ UNCHANGED labelVars)
    /\ \A c \in CSRs : /\ WF_allVars(CSRWorker(c) /\ UNCHANGED labelVars)
                       /\ WF_allVars(SyncCSR(c) /\ UNCHANGED labelVars)
-----------------------------------------------------------------------------
(* A key that somebody else set and that no machine of this name ever      *)
(* asked for is left alone ("admin-applied keys CAPLV never set are left   *)
(* untouched"), even when it was set after the reconcile read the Node.    *)
ForeignKeysKept ==
    node # None => \A k \in Kinds : \A key \in foreign[k] \ applied[k] :
                       node.set[k][key] = "other"

(* Every key that was applied and is still on the Node is remembered, so   *)
(* that a later machine removes it: through edits by others and patches    *)
(* against an old Node, unless a patch met a re-registered Node.           *)
KeysTracked ==
    node # None /\ ~crossed =>
        \A k \in Kinds, key \in Keys :
            node.set[k][key] = "spec" => key \in ParseManagedKeys(node.managed[k])

(* A machine and a Node that stay get all the keys, whatever was lost,     *)
(* edited or patched onto another Node before.                             *)
EventuallyLabelled ==
    <>[](Me \in owners /\ node # None) =>
        <>[](node # None /\ \A k \in Kinds : \A key \in desired[k] :
                                node.set[k][key] = "spec")

(* No request ends with both decisions, although the approver decides on   *)
(* a cached one while others decide as well.                               *)
OneDecision == \A c \in CSRs : decided[c] # {"Approved", "Denied"}

(* What the approver approves is a certificate for a node that was one of  *)
(* a LibvirtMachine, asked for by that node or, a client certificate, by   *)
(* a bootstrapper.                                                         *)
ApprovedForItsNode ==
    \A c \in ours : /\ asks[c].cn = Me
                    /\ \/ asks[c].user = asks[c].cn
                       \/ asks[c].user = "bootstrapper" /\ asks[c].signer = "kubelet-client"

(* The first certificate of a machine's kubelet is decided in the end,     *)
(* although the approver ignores a request whose machine it does not see,  *)
(* and is not woken by machines.                                           *)
Bootstrap(c) == asks[c] = [signer |-> "kubelet-client", user |-> "bootstrapper",
                           cn |-> Me, org |-> TRUE, sans |-> TRUE,
                           usages |-> {"digital signature", "client auth"}]

BootstrapDecided ==
    \A c \in CSRs : Bootstrap(c) =>
        (<>[](Me \in owners /\ decided[c] # None) => <>(decided[c] \notin {None, {}}))
=============================================================================
