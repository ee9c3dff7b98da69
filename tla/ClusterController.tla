--------------------------- MODULE ClusterController ---------------------------
(***************************************************************************)
(* The LibvirtCluster controller: it dials the control plane endpoint and  *)
(* reports whether it answers, in status.ready and in a condition, which   *)
(* one deferred patch merges into the object. It watches LibvirtClusters   *)
(* only; the owner Cluster and its pause are read from the cache.          *)
(***************************************************************************)
EXTENDS Faults

CONSTANTS Endpoints,    \* spec.controlPlaneEndpoint
          Unset         \* no condition, no object

ASSUME ClusterAssumption ==
    MaxFaults \in Nat /\ Unset \notin [addr : Endpoints, up : BOOLEAN]

VARIABLES
    answers,    \* whether each endpoint accepts connections
    obj,        \* the LibvirtCluster in the API server
    cached,     \* the LibvirtCluster in the manager's cache
    owner,      \* whether the owner Cluster is paused
    ownerSeen,  \* the same in the manager's cache
    queued,     \* the key is in the work queue
    timer,      \* a RequeueAfter is pending
    step,       \* where the worker is
    snap,       \* the object it loaded
    verdict,    \* whether the endpoint answered it
    skipped     \* history: the last reconcile found a pause or no owner

vars == <<answers, obj, cached, owner, ownerSeen, queued, timer, step, snap,
          verdict, skipped, faults>>

ReadyConditions == [addr : Endpoints, up : BOOLEAN]

Clusters == [endpoint : Endpoints,
             owned    : BOOLEAN,                 \* has the ownerReference
             paused   : BOOLEAN,                 \* has the pause annotation
             ready    : BOOLEAN,
             cond     : ReadyConditions \cup {Unset}]

(* Every variable stays in its type.                                       *)
ClusterTypeOK ==
    /\ answers \in [Endpoints -> BOOLEAN]
    /\ obj \in Clusters /\ cached \in Clusters
    /\ owner \in BOOLEAN /\ ownerSeen \in BOOLEAN
    /\ queued \in BOOLEAN /\ timer \in BOOLEAN
    /\ step \in {"idle", "owner", "dial", "patch"}
    /\ IF step = "idle" THEN snap = Unset ELSE snap \in Clusters
    /\ verdict \in BOOLEAN
    /\ skipped \in BOOLEAN
    /\ faults \in 0..MaxFaults

Init ==
    /\ answers \in [Endpoints -> BOOLEAN]
    /\ obj \in {c \in Clusters : ~c.ready /\ c.cond = Unset}
    /\ cached = obj
    /\ owner \in BOOLEAN
    /\ ownerSeen = owner
    /\ queued = TRUE
    /\ timer = FALSE
    /\ step = "idle"
    /\ snap = Unset
    /\ verdict = FALSE
    /\ skipped = FALSE
    /\ faults = 0

Return == step' = "idle" /\ snap' = Unset /\ verdict' = FALSE
-----------------------------------------------------------------------------
(* The key is taken from the queue and the object from the cache, also as  *)
(* the base of the patch.                                                  *)
Reconcile ==
    /\ step = "idle" /\ queued
    /\ queued' = FALSE /\ snap' = cached /\ step' = "owner"
    /\ UNCHANGED <<answers, obj, cached, owner, ownerSeen, timer, verdict,
                   skipped, faults>>

(* The owner Cluster is paused, or the LibvirtCluster has the annotation.  *)
IsPaused(c) == ownerSeen \/ c.paused

(* Without an owner, and while either is paused, there is nothing to do    *)
(* and no next time; the deferred patch is empty. An error of the reads    *)
(* queues the key again.                                                   *)
CheckOwner ==
    /\ step = "owner"
    /\ \/ /\ ~snap.owned \/ IsPaused(snap)
          /\ Return /\ skipped' = TRUE /\ UNCHANGED <<queued, faults>>
       \/ /\ snap.owned /\ ~IsPaused(snap)
          /\ step' = "dial" /\ UNCHANGED <<queued, skipped, snap, verdict, faults>>
       \/ Fault /\ Return /\ queued' = TRUE /\ skipped' = FALSE
    /\ UNCHANGED <<answers, obj, cached, owner, ownerSeen, timer>>

(* Mutant: a cluster that is ready stays so.                               *)
DialUnlessReady ==
    /\ step = "dial"
    /\ \/ verdict' = (snap.ready \/ answers[snap.endpoint]) /\ UNCHANGED faults
       \/ Fault /\ verdict' = FALSE
    /\ step' = "patch"
    /\ UNCHANGED <<answers, obj, cached, owner, ownerSeen, queued, timer, snap,
                   skipped>>

(* A dial may time out.                                                    *)
Dial ==
    /\ step = "dial"
    /\ \/ verdict' = answers[snap.endpoint] /\ UNCHANGED faults
       \/ Fault /\ verdict' = FALSE
    /\ step' = "patch"
    /\ UNCHANGED <<answers, obj, cached, owner, ownerSeen, queued, timer, snap,
                   skipped>>

(* Mutant: the object is written back as it was loaded.                    *)
MergedWhole == [snap EXCEPT !.ready = verdict,
                            !.cond = [addr |-> snap.endpoint, up |-> verdict]]

(* Mutant: the condition does not have the endpoint that was dialled.      *)
MergedUnaddressed ==
    [obj EXCEPT !.ready = IF verdict = snap.ready THEN @ ELSE verdict,
                !.cond  = [addr |-> Unset, up |-> verdict]]

(* What differs from the object that was loaded is merged, field by field. *)
Merged ==
    LET cond == [addr |-> snap.endpoint, up |-> verdict]
    IN  [obj EXCEPT !.ready = IF verdict = snap.ready THEN @ ELSE verdict,
                    !.cond  = IF cond = snap.cond THEN @ ELSE cond]

(* Mutant: only a failed dial is tried again.                              *)
PatchOnFailure ==
    /\ step = "patch"
    /\ \/ obj' = Merged /\ UNCHANGED faults
       \/ Fault /\ UNCHANGED obj
    /\ timer' = (timer \/ ~verdict)
    /\ skipped' = FALSE
    /\ Return
    /\ UNCHANGED <<answers, cached, owner, ownerSeen, queued>>

(* The deferred patch, whose error is logged; RequeueAfter in both cases.  *)
Patch ==
    /\ step = "patch"
    /\ \/ obj' = Merged /\ UNCHANGED faults
       \/ Fault /\ UNCHANGED obj
    /\ timer' = TRUE
    /\ skipped' = FALSE
    /\ Return
    /\ UNCHANGED <<answers, cached, owner, ownerSeen, queued>>

Worker == Reconcile \/ CheckOwner \/ Dial \/ Patch
-----------------------------------------------------------------------------
(* The interval is over.                                                   *)
Requeue ==
    /\ timer /\ timer' = FALSE /\ queued' = TRUE
    /\ UNCHANGED <<answers, obj, cached, owner, ownerSeen, step, snap, verdict,
                   skipped, faults>>

(* The informer delivers the LibvirtCluster: an event.                     *)
Sync ==
    /\ cached # obj
    /\ cached' = obj /\ queued' = TRUE
    /\ UNCHANGED <<answers, obj, owner, ownerSeen, timer, step, snap, verdict,
                   skipped, faults>>

(* The informer delivers the owner: nobody watches it.                     *)
SyncOwner ==
    /\ ownerSeen # owner /\ ownerSeen' = owner
    /\ UNCHANGED <<answers, obj, cached, owner, queued, timer, step, snap, verdict,
                   skipped, faults>>

(* The informer's own resync, every ten hours.                             *)
Resync ==
    /\ ~queued /\ queued' = TRUE
    /\ UNCHANGED <<answers, obj, cached, owner, ownerSeen, timer, step, snap,
                   verdict, skipped, faults>>

(* An endpoint comes up or goes down; the LibvirtCluster is edited, paused *)
(* or adopted; its owner is paused or resumed; the manager restarts.       *)
Flip ==
    /\ Fault
    /\ \E e \in Endpoints : answers' = [answers EXCEPT ![e] = ~@]
    /\ UNCHANGED <<obj, cached, owner, ownerSeen, queued, timer, step, snap,
                   verdict, skipped>>

Edit ==
    /\ Fault
    /\ \/ \E e \in Endpoints : obj' = [obj EXCEPT !.endpoint = e]
       \/ obj' = [obj EXCEPT !.paused = ~@]
       \/ ~obj.owned /\ obj' = [obj EXCEPT !.owned = TRUE]
    /\ UNCHANGED <<answers, cached, owner, ownerSeen, queued, timer, step, snap,
                   verdict, skipped>>

PauseOwner ==
    /\ Fault
    /\ owner' = ~owner
    /\ UNCHANGED <<answers, obj, cached, ownerSeen, queued, timer, step, snap,
                   verdict, skipped>>

Restart ==
    /\ Fault /\ Return
    /\ cached' = obj /\ ownerSeen' = owner
    /\ queued' = TRUE /\ timer' = FALSE /\ skipped' = FALSE
    /\ UNCHANGED <<answers, obj, owner>>

Next == \/ Worker \/ Requeue \/ Sync \/ SyncOwner \/ Resync
        \/ Flip \/ Edit \/ PauseOwner \/ Restart

Spec == Init /\ [][Next]_vars

(* The worker goes on, timers fire and informers deliver. The resync is    *)
(* not assumed: it is ten hours away.                                      *)
FairSpec == Spec /\ WF_vars(Worker) /\ WF_vars(Requeue) /\ WF_vars(Sync)
                 /\ WF_vars(SyncOwner)
-----------------------------------------------------------------------------
(* The controller writes its two status fields, and only those, and not in *)
(* a reconcile whose object was paused or had no owner. What others change *)
(* in the object meanwhile is not undone.                                  *)
OnlyStatusWritten ==
    [][step = "patch" /\ step' = "idle" /\ obj' # obj =>
          /\ snap.owned /\ ~snap.paused
          /\ \E r \in BOOLEAN, c \in ReadyConditions \cup {Unset} :
                 obj' = [obj EXCEPT !.ready = r, !.cond = c]]_vars

(* A cluster is never left alone: a reconcile is under way, queued or due, *)
(* or the last one found a pause or no owner. A patch that was lost, or    *)
(* merged into a status that was newer than its base, is therefore made    *)
(* good without an event.                                                  *)
Attended == queued \/ timer \/ step # "idle" \/ skipped

Right == LET up == answers[obj.endpoint]
         IN  obj.ready = up /\ obj.cond = [addr |-> obj.endpoint, up |-> up]

(* The status settles on what the endpoint of the spec does, from any base *)
(* of the patches and whatever of them is lost, for a cluster that is not  *)
(* skipped. A cluster whose owner is resumed may be skipped until the next *)
(* resync: nothing tells the controller.                                   *)
StatusConverges == <>[]~skipped => <>[]Right
=============================================================================
