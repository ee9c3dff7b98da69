-------------------------- MODULE MachineReconciler --------------------------
(***************************************************************************)
(* The life of one LibvirtMachine under the LibvirtMachineReconciler       *)
(* (internal/controller/libvirtmachine_controller.go): the API object and  *)
(* the controller's cached copy of it, one reconcile worker that runs      *)
(* reconcileNormal or reconcileDelete one remote command at a time, and    *)
(* the libvirt host the commands act on (VirshClient).                     *)
(*                                                                         *)
(* controller-runtime gives a key to one worker at a time, so one program  *)
(* counter is enough. The object is read from the informer cache at the    *)
(* start of a reconcile and written back by the deferred patch at its end. *)
(* Everything that may go wrong is a fault: FaultKinds names the kinds an  *)
(* instance allows and MaxFaults bounds how many happen.                   *)
(***************************************************************************)
EXTENDS VirshClient

CONSTANTS Specs,        \* the machine specs an instance considers
          FaultKinds,   \* the kinds of fault that may happen
          MaxFaults     \* bound on the number of faults

AllSpecs == [eph    : BOOLEAN,       \* rootDisk.ephemeralPool
             clone  : BOOLEAN,       \* rootDisk.cloneStrategy = full-clone
             format : {"ignition", "cloud-init"},
             disks  : 0..NDisks,     \* how many additionalDisks
             stage  : BOOLEAN]       \* the cluster has a spec.baseImage

AllFaults == {"transient", "lostReply", "terminal", "crash", "patch", "pause",
              "hostDown", "vmStop", "daemonRestart", "reboot"}

ASSUME SpecsAssumption  == Specs \subseteq AllSpecs
ASSUME FaultsAssumption == FaultKinds \subseteq AllFaults /\ MaxFaults \in Nat

VARIABLES
    spec,       \* the machine's spec, immutable after creation
    obj,        \* the LibvirtMachine in the API server
    held,       \* history: the finalizer has been stored in the API server
    cached,     \* the informer's copy of obj
    queued,     \* the key is in the work queue (or a requeue timer is set)
    pc,         \* where the worker is; "idle" between reconciles
    snap,       \* the object as read at the start of the reconcile
    mem,        \* the object as changed by the reconcile, and its reconcileCtx
    host,       \* the libvirt host
    node,       \* the Kubernetes Node of the machine exists
    gate,       \* "noOwner", "paused" or "open"
    ready,      \* LibvirtHost.status.ready
    secret,     \* the bootstrap data secret exists
    faults      \* faults so far

vars == <<spec, obj, held, cached, queued, pc, snap, mem, host, node, gate,
          ready, secret, faults>>

env == <<spec, node, gate, ready, secret>>
api == <<obj, held, cached, queued>>

Object == [exists : BOOLEAN, deleting : BOOLEAN, fin : BOOLEAN,
           failed : BOOLEAN, ready : BOOLEAN]

NoObject  == [exists |-> FALSE, deleting |-> FALSE, fin |-> FALSE,
              failed |-> FALSE, ready |-> FALSE]
NewObject == [NoObject EXCEPT !.exists = TRUE]

(* The in-memory object and what reconcileCtx adds to it: the pool volumes *)
(* are looked up in, and how many additional disks have been handled.      *)
Memory == [deleting : BOOLEAN, fin : BOOLEAN, failed : BOOLEAN,
           ready : BOOLEAN, pool : Pools, disks : 0..NDisks]

Load(o) == [deleting |-> o.deleting, fin |-> o.fin, failed |-> o.failed,
            ready |-> o.ready, pool |-> "store", disks |-> 0]

NoMemory == Load(NoObject)

(* handleLibvirtError and setTerminalError.                                *)
Failed(m) == [m EXCEPT !.failed = TRUE, !.ready = FALSE]

NormalSteps ==
    {"normal", "pools", "base", "ephExists", "ephActive", "ephStart",
     "mkdir", "mount", "poolDefine", "poolStart", "useEph", "rootExists",
     "clone", "basePath", "createRoot", "bootstrap", "ignDir", "truncate",
     "fill", "isoExists", "isoCreate", "isoUpload", "disks", "diskExists",
     "diskCreate", "diskPath", "diskDone", "artifacts", "domExists",
     "domPaths", "define", "getDomain", "start", "started", "status"}

DeleteSteps ==
    {"delete", "destroyDom", "undefineDom", "delRoot", "delBoot", "delDisks",
     "delDisk", "delNext", "delNode"}

(* DestroyPool is called by both.                                          *)
PoolSteps   == {"dump", "stop", "undefine", "unmount", "rmdir", "poolGone"}
ReturnSteps == {"done", "requeue", "error"}
Steps == {"idle"} \cup NormalSteps \cup DeleteSteps \cup PoolSteps
                  \cup ReturnSteps

TypeOK ==
    /\ spec \in Specs
    /\ obj \in Object /\ cached \in Object /\ snap \in Object
    /\ mem \in Memory
    /\ host \in Host
    /\ pc \in Steps
    /\ gate \in {"noOwner", "paused", "open"}
    /\ held \in BOOLEAN /\ queued \in BOOLEAN
    /\ node \in BOOLEAN /\ ready \in BOOLEAN /\ secret \in BOOLEAN
    /\ faults \in 0..MaxFaults

NewHost(b) ==
    [dom |-> NoDomain, base |-> b, store |-> [v \in Volumes |-> "absent"],
     disks |-> {}, pool |-> "undefined", stack |-> << >>]

Init ==
    /\ spec \in Specs
    /\ obj = NewObject /\ cached = NoObject /\ snap = NoObject
    /\ mem = NoMemory
    /\ host \in {NewHost(b) : b \in BOOLEAN}
    /\ pc = "idle"
    /\ gate = "noOwner"
    /\ held = FALSE /\ queued = FALSE /\ node = FALSE
    /\ ready = FALSE /\ secret = FALSE
    /\ faults = 0
-----------------------------------------------------------------------------
(* Faults, and the shape of a step.                                        *)

CanFault(k) == k \in FaultKinds /\ faults < MaxFaults

Fault(k) == CanFault(k) /\ faults' = faults + 1

(* What the worker may see of a command whose undisturbed reply is r: that *)
(* reply; an error although or because the command did (not) run; or a     *)
(* refusal such as "permission denied".                                    *)
Outcomes(r) ==
    {r} \cup (IF CanFault("transient") THEN {Answer(host, "transient")} ELSE {})
        \cup (IF CanFault("lostReply") THEN {Answer(r.host, "transient")} ELSE {})
        \cup (IF CanFault("terminal")  THEN {Answer(host, "terminal")} ELSE {})

(* Errors that are plain Go errors (SSH commands), or whose category the   *)
(* caller does not look at, are never terminal.                            *)
PlainOutcomes(r) == {x \in Outcomes(r) : x.ans # "terminal"}

(* The worker at `from` gets one of the replies xs to a command whose      *)
(* undisturbed reply is r, and goes where `goto` sends that answer. A      *)
(* terminal error of reconcileNormal is recorded on the object.            *)
Command(from, r, xs, goto) ==
    /\ pc = from
    /\ \E x \in xs :
         /\ host' = x.host
         /\ faults' = IF x = r THEN faults ELSE faults + 1
         /\ pc' = goto[x.ans]
         /\ mem' = IF x.ans = "terminal" /\ ~mem.deleting THEN Failed(mem)
                   ELSE mem
    /\ UNCHANGED <<snap, env, api>>

Virsh(from, r, goto) == Command(from, r, Outcomes(r), goto)
Plain(from, r, goto) == Command(from, r, PlainOutcomes(r), goto)

(* reconcileNormal: a transient or not-found error is returned, a terminal *)
(* one is recorded and nil returned, so that the caller goes on at `skip`. *)
HandleLibvirtError(ok, no, skip) ==
    [a \in Answers |-> CASE a = "ok" -> ok
                         [] a = "no" -> no
                         [] a = "terminal" -> skip
                         [] OTHER -> "error"]

(* An error whose value is dropped.                                        *)
IgnoreErrors(next) == [a \in Answers |-> next]

(* reconcileDelete: every error other than not-found is returned.          *)
UnlessNotFound(ok) ==
    [a \in Answers |-> IF a \in {"ok", "no", "notFound"} THEN ok ELSE "error"]

(* Mutant: a missing base image is retried like any other error.           *)
RetryIfMissing(r) == r

(* A missing base image is a terminal error.                               *)
TerminalIfMissing(r) == IF r.ans = "notFound" THEN Answer(r.host, "terminal")
                        ELSE r

(* A step that runs no command.                                            *)
Local(from, next, m) ==
    /\ pc = from
    /\ pc' = next
    /\ mem' = m
    /\ UNCHANGED <<snap, host, faults, env, api>>
-----------------------------------------------------------------------------
(* Reconcile: dequeue, read the cached object, return early without an     *)
(* owner or while paused, dispatch on the deletion timestamp.              *)
Reconcile ==
    /\ pc = "idle" /\ queued
    /\ queued' = FALSE
    /\ \/ /\ ~cached.exists
          /\ UNCHANGED <<pc, snap, mem, faults>>
       \/ /\ cached.exists
          /\ snap' = cached
          /\ mem' = Load(cached)
          /\ \/ Fault("transient") /\ pc' = "error"    \* an API read failed
             \/ /\ gate # "open"
                /\ pc' = "done"
                /\ UNCHANGED faults
             \/ /\ gate = "open"
                /\ pc' = IF cached.deleting THEN "delete" ELSE "normal"
                /\ UNCHANGED faults
    /\ UNCHANGED <<obj, held, cached, host, env>>

(* Mutant: the patch writes every field of the in-memory object.           *)
PatchedWhole(meta, status) ==
    LET o == [obj EXCEPT !.fin    = IF meta THEN mem.fin ELSE @,
                         !.failed = IF status THEN mem.failed ELSE @,
                         !.ready  = IF status THEN mem.ready ELSE @]
    IN  IF ~obj.exists THEN obj
        ELSE IF o.deleting /\ ~o.fin THEN NoObject
        ELSE o

(* The object with the changes of this reconcile applied. The patch helper *)
(* sends what differs from the snapshot, metadata and status in requests   *)
(* of their own; an object that is being deleted goes away with its last   *)
(* finalizer.                                                              *)
Patched(meta, status) ==
    LET o == [obj EXCEPT
                !.fin    = IF meta /\ mem.fin # snap.fin THEN mem.fin ELSE @,
                !.failed = IF status /\ mem.failed # snap.failed
                           THEN mem.failed ELSE @,
                !.ready  = IF status /\ mem.ready # snap.ready
                           THEN mem.ready ELSE @]
    IN  IF ~obj.exists THEN obj
        ELSE IF o.deleting /\ ~o.fin THEN NoObject
        ELSE o

(* The deferred patch. Its failure is only logged: what Reconcile returned *)
(* decides alone whether the key is queued again.                          *)
Patch ==
    /\ pc \in ReturnSteps
    /\ \E meta, status \in BOOLEAN :
         /\ IF meta /\ status THEN UNCHANGED faults ELSE Fault("patch")
         /\ obj' = Patched(meta, status)
    /\ held' = (held \/ obj'.fin)
    /\ queued' = (queued \/ pc # "done")
    /\ pc' = "idle" /\ mem' = NoMemory /\ snap' = NoObject
    /\ UNCHANGED <<cached, host, env>>
-----------------------------------------------------------------------------
(* Mutant: a failure recorded earlier does not stop the reconcile.         *)
ReconcileNormalRetrying ==
    /\ pc = "normal"
    /\ pc' = IF ready /\ secret THEN "pools" ELSE "requeue"
    /\ mem' = [mem EXCEPT !.fin = TRUE]
    /\ UNCHANGED <<snap, host, faults, env, api>>

(* reconcileNormal up to the first remote command: add the finalizer (in   *)
(* memory), wait for the host and the bootstrap data, stop on a verdict    *)
(* that needs no command (auto-sizing, session-mode network) or on a       *)
(* failure recorded earlier.                                               *)
ReconcileNormal ==
    /\ pc = "normal"
    /\ LET m == [mem EXCEPT !.fin = TRUE]
       IN  \/ /\ ~ready \/ ~secret
              /\ pc' = "requeue" /\ mem' = m /\ UNCHANGED faults
           \/ /\ ready
              /\ Fault("transient")                  \* createClients failed
              /\ pc' = "error" /\ mem' = m
           \/ /\ ready /\ secret
              /\ Fault("terminal")
              /\ pc' = "done" /\ mem' = Failed(m)
           \/ /\ ready /\ secret
              /\ pc' = IF mem.failed THEN "done" ELSE "pools"
              /\ mem' = m /\ UNCHANGED faults
    /\ UNCHANGED <<snap, host, env, api>>

(* preflightPools. A missing pool is a terminal outcome.                   *)
PreflightPools ==
    Virsh("pools", Answer(host, "ok"), HandleLibvirtError("base", "base", "done"))

(* reconcileBaseImage as one step; BaseImageStaging has its own steps.     *)
ReconcileBaseImage ==
    LET next == IF spec.eph THEN "ephExists" ELSE "rootExists"
    IN  Virsh("base",
              Answer(IF spec.stage THEN [host EXCEPT !.base = TRUE] ELSE host,
                     "ok"),
              HandleLibvirtError(next, next, next))

(* reconcileRootDisk: the ephemeral pool ...                               *)
EphemeralPoolExists ==
    Virsh("ephExists", PoolExists(host),
          HandleLibvirtError("ephActive", "mkdir", "bootstrap"))

EphemeralPoolActive ==
    Virsh("ephActive", PoolIsActive(host),
          HandleLibvirtError("useEph", "ephStart", "bootstrap"))

StartEphemeralPool ==
    Plain("ephStart", StartPool(host),
          [a \in Answers |-> IF a = "ok" THEN "useEph" ELSE "dump"])

CreateTmpfsDirectory ==
    Plain("mkdir", MakeDirectory(host), HandleLibvirtError("mount", "mount", "error"))

CreateTmpfsMount ==
    Plain("mount", MountTmpfs(host),
          HandleLibvirtError("poolDefine", "poolDefine", "error"))

CreateTmpfsDefine ==
    Virsh("poolDefine", DefinePool(host),
          HandleLibvirtError("poolStart", "poolStart", "bootstrap"))

CreateTmpfsStart ==
    Virsh("poolStart", StartPool(host),
          HandleLibvirtError("useEph", "useEph", "bootstrap"))

UseEphemeralPool == Local("useEph", "rootExists", [mem EXCEPT !.pool = "eph"])

(* ... and the root disk.                                                  *)
RootDiskExists ==
    Virsh("rootExists", VolumeExists(host, mem.pool, "root"),
          HandleLibvirtError("bootstrap",
                             IF spec.clone THEN "clone" ELSE "basePath",
                             "bootstrap"))

CloneRootDisk ==
    Virsh("clone", TerminalIfMissing(CloneVolume(host)),
          HandleLibvirtError("bootstrap", "bootstrap", "bootstrap"))

BaseImagePath ==
    Virsh("basePath", TerminalIfMissing(GetBasePath(host)),
          HandleLibvirtError("createRoot", "createRoot", "bootstrap"))

CreateRootDisk ==
    Virsh("createRoot", CreateVolumeAs(host, mem.pool, "root", "full"),
          HandleLibvirtError("bootstrap", "bootstrap", "bootstrap"))

(* reconcileBootstrapArtifacts.                                            *)
ReadBootstrapData ==
    Plain("bootstrap", Answer(host, "ok"),
          LET next == IF spec.format = "ignition" THEN "ignDir" ELSE "isoExists"
          IN  HandleLibvirtError(next, next, next))

CreateIgnitionDirectory ==
    Plain("ignDir", MakeDirectory(host),
          HandleLibvirtError("truncate", "truncate", "truncate"))

TruncateIgnition ==
    Plain("truncate", TruncateFile(host), HandleLibvirtError("fill", "fill", "fill"))

FillIgnition ==
    Plain("fill", FillFile(host), HandleLibvirtError("disks", "disks", "disks"))

BootstrapISOExists ==
    Virsh("isoExists", VolumeExists(host, mem.pool, "iso"),
          HandleLibvirtError("disks", "isoCreate", "disks"))

CreateBootstrapISO ==
    Virsh("isoCreate", CreateVolumeAs(host, mem.pool, "iso", "empty"),
          HandleLibvirtError("isoUpload", "isoUpload", "disks"))

UploadBootstrapISO ==
    Virsh("isoUpload", UploadVolume(host, mem.pool, "iso"),
          HandleLibvirtError("disks", "disks", "disks"))

(* Mutant: the loop runs once too often.                                   *)
NextDiskOffByOne ==
    Local("disks", IF mem.disks <= spec.disks THEN "diskExists" ELSE "artifacts",
          mem)

(* reconcileAdditionalDisks: one pass of the loop per disk.                *)
NextDisk ==
    Local("disks", IF mem.disks < spec.disks THEN "diskExists" ELSE "artifacts",
          mem)

AdditionalDiskExists ==
    Virsh("diskExists", DiskExists(host, mem.disks + 1),
          HandleLibvirtError("diskPath", "diskCreate", "artifacts"))

CreateAdditionalDisk ==
    Virsh("diskCreate", CreateDisk(host, mem.disks + 1),
          HandleLibvirtError("diskPath", "diskPath", "artifacts"))

AdditionalDiskPath ==
    Virsh("diskPath", GetDiskPath(host, mem.disks + 1),
          HandleLibvirtError("diskDone", "diskDone", "artifacts"))

AdditionalDiskDone ==
    Local("diskDone", "disks", [mem EXCEPT !.disks = @ + 1])

(* reconcileBootArtifacts as one step: its files are shared by machines    *)
(* and never removed.                                                      *)
ReconcileBootArtifacts ==
    Plain("artifacts", Answer(host, "ok"),
          HandleLibvirtError("domExists", "domExists", "domExists"))

(* reconcileDomain. A terminal error leaves no domain info: return nil.    *)
DomainIsDefined ==
    Virsh("domExists", DomainExists(host),
          HandleLibvirtError("getDomain", "domPaths", "done"))

(* The paths that go into the XML: the root disk's and the ISO's.          *)
DomainPaths ==
    LET r == GetVolumePath(host, mem.pool, "root")
    IN  Virsh("domPaths",
              IF r.ans = "ok" /\ spec.format = "cloud-init"
              THEN GetVolumePath(host, mem.pool, "iso") ELSE r,
              HandleLibvirtError("define", "define", "done"))

(* Mutant: a refused definition is reported like a running domain.         *)
DefineUnchecked ==
    Virsh("define", DefineDomain(host, mem.pool, mem.disks),
          HandleLibvirtError("getDomain", "getDomain", "status"))

(* Mutant: the additional disks are left out of the XML.                   *)
DefineWithoutDisks ==
    Virsh("define", DefineDomain(host, mem.pool, 0),
          HandleLibvirtError("getDomain", "getDomain", "done"))

Define ==
    Virsh("define", DefineDomain(host, mem.pool, mem.disks),
          HandleLibvirtError("getDomain", "getDomain", "done"))

DomainState ==
    Virsh("getDomain", GetDomain(host),
          HandleLibvirtError("status", "start", "done"))

Start ==
    Virsh("start", StartDomain(host, spec.format),
          HandleLibvirtError("started", "started", "done"))

DomainStarted ==
    Virsh("started", GetDomain(host),
          HandleLibvirtError("status", "status", "done"))

(* The status update, and reconcileNodeLabels, which only decides whether  *)
(* the reconcile returns an error, a requeue or neither.                   *)
UpdateStatus ==
    \E r \in ReturnSteps : Local("status", r, [mem EXCEPT !.ready = TRUE])
-----------------------------------------------------------------------------
(* Mutant: an unreachable host does not keep the finalizer.                *)
ReconcileDeleteGivingUp ==
    /\ pc = "delete"
    /\ pc' = IF mem.fin /\ ready THEN "destroyDom" ELSE "done"
    /\ mem' = [mem EXCEPT !.fin = ready]
    /\ UNCHANGED <<snap, host, faults, env, api>>

(* reconcileDelete up to the first remote command.                         *)
ReconcileDelete ==
    /\ pc = "delete"
    /\ \/ ~mem.fin /\ pc' = "done" /\ UNCHANGED faults
       \/ mem.fin /\ ~ready /\ pc' = "requeue" /\ UNCHANGED faults
       \/ mem.fin /\ ready /\ Fault("transient") /\ pc' = "requeue"
       \/ mem.fin /\ ready /\ pc' = "destroyDom" /\ UNCHANGED faults
    /\ UNCHANGED <<snap, mem, host, env, api>>

(* The pool that reconcileDelete looks for the machine's volumes in.       *)
Home == IF spec.eph THEN "eph" ELSE "store"

DeleteDestroyDomain ==
    Virsh("destroyDom", DestroyDomain(host), UnlessNotFound("undefineDom"))

(* Mutant: the error of virsh undefine is dropped.                         *)
DeleteUndefineUnchecked ==
    Virsh("undefineDom", UndefineDomain(host), IgnoreErrors("delRoot"))

DeleteUndefineDomain ==
    Virsh("undefineDom", UndefineDomain(host), UnlessNotFound("delRoot"))

DeleteRootDisk ==
    Virsh("delRoot", DeleteVolume(host, Home, "root"), UnlessNotFound("delBoot"))

DeleteBootstrap ==
    IF spec.format = "ignition"
    THEN Plain("delBoot", DeleteRemoteFile(host), IgnoreErrors("delDisks"))
    ELSE Virsh("delBoot", DeleteVolume(host, Home, "iso"),
               UnlessNotFound("delDisks"))

DeleteNextDisk ==
    Local("delDisks",
          IF mem.disks < spec.disks THEN "delDisk"
          ELSE IF spec.eph THEN "dump" ELSE "delNode",
          mem)

DeleteAdditionalDisk ==
    Virsh("delDisk", DeleteDisk(host, mem.disks + 1), UnlessNotFound("delNext"))

AdditionalDiskDeleted ==
    Local("delNext", "delDisks", [mem EXCEPT !.disks = @ + 1])

(* Mutant: a Node that does not exist is an error.                         *)
DeleteNodeStrict ==
    /\ pc = "delNode"
    /\ node' = FALSE
    /\ mem' = [mem EXCEPT !.fin = ~node]
    /\ pc' = IF node THEN "done" ELSE "error"
    /\ UNCHANGED <<snap, host, faults, spec, gate, ready, secret, api>>

(* The Node is deleted if that works; then the finalizer goes.             *)
DeleteNode ==
    /\ pc = "delNode"
    /\ \/ node' = FALSE /\ UNCHANGED faults
       \/ node /\ UNCHANGED node /\ Fault("transient")
    /\ mem' = [mem EXCEPT !.fin = FALSE]
    /\ pc' = "done"
    /\ UNCHANGED <<snap, host, spec, gate, ready, secret, api>>
-----------------------------------------------------------------------------
(* DestroyPool, called by reconcileRootDisk and by reconcileDelete. Only   *)
(* an error of its first command is returned.                              *)
DestroyPoolDump ==
    Virsh("dump", DumpPool(host),
          [a \in Answers |->
              CASE a = "ok" -> "stop"
                [] a = "notFound" -> "poolGone"
                [] a = "terminal" /\ ~mem.deleting -> "bootstrap"
                [] OTHER -> "error"])

DestroyPoolStop     == Plain("stop", StopPool(host), IgnoreErrors("undefine"))
DestroyPoolUndefine == Plain("undefine", UndefinePool(host), IgnoreErrors("unmount"))

(* Mutant: the tmpfs is left to the removal of the directory.              *)
DestroyPoolNoUnmount == Plain("unmount", Answer(host, "ok"), IgnoreErrors("rmdir"))

DestroyPoolUnmount == Plain("unmount", Unmount(host), IgnoreErrors("rmdir"))
DestroyPoolRemove  == Plain("rmdir", RemoveDirectory(host), IgnoreErrors("poolGone"))

DestroyPoolReturn ==
    Local("poolGone", IF mem.deleting THEN "delNode" ELSE "mkdir", mem)
-----------------------------------------------------------------------------
(* The environment.                                                        *)

(* kubectl delete: an object without a finalizer goes away at once.        *)
UserDelete ==
    /\ obj.exists /\ ~obj.deleting
    /\ obj' = IF obj.fin THEN [obj EXCEPT !.deleting = TRUE] ELSE NoObject
    /\ UNCHANGED <<held, cached, queued, pc, snap, mem, host, faults, env>>

(* The informer catches up, and its event queues the key.                  *)
SyncCache ==
    /\ cached # obj
    /\ cached' = obj
    /\ queued' = TRUE
    /\ UNCHANGED <<obj, held, pc, snap, mem, host, faults, env>>

(* The periodic resync queues every cached object.                         *)
Resync ==
    /\ cached.exists /\ ~queued
    /\ queued' = TRUE
    /\ UNCHANGED <<obj, held, cached, pc, snap, mem, host, faults, env>>

(* The manager dies inside a reconcile; its successor lists everything.    *)
Crash ==
    /\ pc # "idle"
    /\ Fault("crash")
    /\ pc' = "idle" /\ snap' = NoObject /\ mem' = NoMemory
    /\ cached' = obj
    /\ queued' = obj.exists
    /\ UNCHANGED <<obj, held, host, env>>

(* The Machine controller sets the owner reference, which is an event.     *)
SetOwner ==
    /\ gate = "noOwner"
    /\ gate' = "open"
    /\ queued' = TRUE
    /\ UNCHANGED <<obj, held, cached, pc, snap, mem, host, faults, spec, node,
                   ready, secret>>

(* Pausing and unpausing the Cluster are no events of this controller.     *)
Pause ==
    /\ gate = "open" /\ Fault("pause")
    /\ gate' = "paused"
    /\ UNCHANGED <<api, pc, snap, mem, host, spec, node, ready, secret>>

Unpause ==
    /\ gate = "paused"
    /\ gate' = "open"
    /\ UNCHANGED <<api, pc, snap, mem, host, faults, spec, node, ready, secret>>

(* The host controller's verdict, which this controller only reads.        *)
HostReady ==
    /\ ~ready
    /\ ready' = TRUE
    /\ UNCHANGED <<api, pc, snap, mem, host, faults, spec, node, gate, secret>>

HostLost ==
    /\ ready /\ Fault("hostDown")
    /\ ready' = FALSE
    /\ UNCHANGED <<api, pc, snap, mem, host, spec, node, gate, secret>>

BootstrapReady ==
    /\ ~secret
    /\ secret' = TRUE
    /\ UNCHANGED <<api, pc, snap, mem, host, faults, spec, node, gate, ready>>

KubeletJoins ==
    /\ host.dom.state = "running" /\ ~node
    /\ node' = TRUE
    /\ UNCHANGED <<api, pc, snap, mem, host, faults, spec, gate, ready, secret>>

Stopped(d) == IF d.state = "running" THEN [d EXCEPT !.state = "shutoff", !.depth = 0]
              ELSE d

(* The guest powers off or is killed.                                      *)
VMStops ==
    /\ host.dom.state = "running" /\ Fault("vmStop")
    /\ host' = [host EXCEPT !.dom = Stopped(@)]
    /\ UNCHANGED <<api, pc, snap, mem, env>>

(* A restarted libvirt daemon leaves the ephemeral pool inactive.          *)
DaemonRestart ==
    /\ host.pool = "active" /\ Fault("daemonRestart")
    /\ host' = [host EXCEPT !.pool = "inactive"]
    /\ UNCHANGED <<api, pc, snap, mem, env>>

(* A reboot also stops the domain and empties /run.                        *)
Reboot ==
    /\ Fault("reboot")
    /\ host' = [host EXCEPT !.dom = Stopped(@), !.stack = << >>,
                            !.pool = IF @ = "active" THEN "inactive" ELSE @]
    /\ UNCHANGED <<api, pc, snap, mem, env>>
-----------------------------------------------------------------------------
RootDiskStep ==
    \/ EphemeralPoolExists \/ EphemeralPoolActive \/ StartEphemeralPool
    \/ CreateTmpfsDirectory \/ CreateTmpfsMount \/ CreateTmpfsDefine
    \/ CreateTmpfsStart \/ UseEphemeralPool
    \/ RootDiskExists \/ CloneRootDisk \/ BaseImagePath \/ CreateRootDisk

BootstrapStep ==
    \/ ReadBootstrapData
    \/ CreateIgnitionDirectory \/ TruncateIgnition \/ FillIgnition
    \/ BootstrapISOExists \/ CreateBootstrapISO \/ UploadBootstrapISO

AdditionalDisksStep ==
    \/ NextDisk \/ AdditionalDiskExists \/ CreateAdditionalDisk
    \/ AdditionalDiskPath \/ AdditionalDiskDone

DomainStep ==
    \/ DomainIsDefined \/ DomainPaths \/ Define \/ DomainState \/ Start
    \/ DomainStarted \/ UpdateStatus

NormalStep ==
    \/ ReconcileNormal \/ PreflightPools \/ ReconcileBaseImage
    \/ RootDiskStep \/ BootstrapStep \/ AdditionalDisksStep
    \/ ReconcileBootArtifacts \/ DomainStep

DeleteStep ==
    \/ ReconcileDelete \/ DeleteDestroyDomain \/ DeleteUndefineDomain
    \/ DeleteRootDisk \/ DeleteBootstrap \/ DeleteNextDisk
    \/ DeleteAdditionalDisk \/ AdditionalDiskDeleted \/ DeleteNode

PoolStep ==
    \/ DestroyPoolDump \/ DestroyPoolStop \/ DestroyPoolUndefine
    \/ DestroyPoolUnmount \/ DestroyPoolRemove \/ DestroyPoolReturn

Worker == Reconcile \/ NormalStep \/ DeleteStep \/ PoolStep \/ Patch

Environment ==
    \/ UserDelete \/ SyncCache \/ Resync \/ Crash \/ SetOwner \/ Pause
    \/ Unpause \/ HostReady \/ HostLost \/ BootstrapReady \/ KubeletJoins
    \/ VMStops \/ DaemonRestart \/ Reboot

Next == Worker \/ Environment

Spec == Init /\ [][Next]_vars

(* The worker runs whenever it has something to do, the informer catches   *)
(* up, the resync period elapses, and what a machine waits for (its owner, *)
(* its host, its bootstrap data, an end to the pause) arrives. Nothing is  *)
(* assumed about deletions and faults.                                     *)
Fairness ==
    /\ WF_vars(Worker)
    /\ WF_vars(SyncCache) /\ WF_vars(Resync)
    /\ WF_vars(SetOwner) /\ WF_vars(Unpause)
    /\ WF_vars(HostReady) /\ WF_vars(BootstrapReady)

FairSpec == Spec /\ Fairness
-----------------------------------------------------------------------------
(* Safety.                                                                 *)

(* The artifacts that outlive a reboot and that reconcileDelete must have  *)
(* removed: the domain, the additional disks and, unless they were in the  *)
(* ephemeral pool, the root disk and the ISO.                              *)
Dirty ==
    \/ host.dom.state # "absent"
    \/ host.disks # {}
    \/ ~spec.eph /\ \E v \in Volumes : host.store[v] # "absent"

(* Once the finalizer was stored, the object is gone only when the host    *)
(* is clean, whatever failed, crashed or was retried on the way            *)
(* (reconcileNormal's finalizer against reconcileDelete's order).          *)
NoOrphanOnceHeld == held /\ ~obj.exists => ~Dirty

(* A defined domain in the persistent pool has the disks its XML names:    *)
(* they are made before it is defined and deleted after it is undefined.   *)
DomainBacked ==
    host.dom.state # "absent" =>
        /\ 1..host.dom.disks \subseteq host.disks
        /\ host.dom.pool = "store" => host.store["root"] = "full"

(* Status.Ready in the API server means that the domain is defined, until  *)
(* the machine is deleted.                                                 *)
ReadyHasDomain ==
    obj.ready /\ ~obj.deleting => host.dom.state # "absent"

(* A failure that was stored is never erased by the deferred patch of a    *)
(* reconcile that read the machine before.                                 *)
FailureSticks == [][obj.failed /\ obj'.exists => obj'.failed]_vars

(* A reconcile that loads a failed machine runs no command on the host.    *)
FailedRunsNothing ==
    snap.failed /\ ~snap.deleting => pc \in {"idle", "normal"} \cup ReturnSteps

(* What one fault cannot do: a ready machine that is not marked failed has *)
(* a domain with all its additional disks and its root disk where the spec *)
(* asks for it. (A terminal error together with a lost status patch can.)  *)
ReadyIsWhole ==
    obj.ready /\ ~obj.failed /\ ~obj.deleting /\ faults <= 1 =>
        host.dom.disks = spec.disks /\ host.dom.pool = Home

(* Lifecycle!LifecycleSpec: the finalizer protocol, see MachineLifecycle.  *)
Lifecycle == INSTANCE MachineLifecycle WITH
    phase <- IF held THEN IF obj.exists THEN "held" ELSE "gone"
             ELSE IF obj.exists THEN "new" ELSE "lost",
    dirty <- Dirty

ImplementsLifecycle == Lifecycle!LifecycleSpec

(* The tmpfs mount and the ephemeral pool of a deleted machine are gone    *)
(* with it, whenever in its life it was deleted, unless something went     *)
(* wrong: DestroyPool ignores every error, and finds the mount point only  *)
(* through the definition of the pool.                                     *)
TmpfsTornDown ==
    held /\ ~obj.exists /\ spec.eph /\ faults = 0 =>
        host.pool = "undefined" /\ host.stack = << >>
-----------------------------------------------------------------------------
(* The inductive invariant behind NoOrphanOnceHeld, DomainBacked and       *)
(* ReadyHasDomain.                                                         *)

(* The finalizer stays from the moment it is stored until the object goes. *)
FinalizerKept ==
    /\ ~obj.exists => obj = NoObject
    /\ obj.fin => held
    /\ held /\ obj.exists => obj.fin
    /\ obj.deleting => obj.fin

SeenDeleted(o) == o.exists => o.deleting

(* The cache and the worker may be behind the API server, but whoever has  *)
(* seen the deletion never goes back, and the release of the finalizer is  *)
(* only behind a worker and a cache that have seen it.                     *)
DeletionSeen ==
    /\ cached.deleting => SeenDeleted(obj)
    /\ mem.deleting => SeenDeleted(obj) /\ SeenDeleted(cached)
    /\ held /\ ~obj.exists => SeenDeleted(cached)
    /\ held /\ ~obj.exists /\ pc # "idle" => mem.deleting

(* reconcileDelete has taken the finalizer off in memory.                  *)
Released == snap.fin /\ ~mem.fin

OnItsPath ==
    /\ pc \in NormalSteps => ~mem.deleting
    /\ pc \in DeleteSteps => mem.deleting
    /\ pc = "idle" => mem = NoMemory /\ snap = NoObject
    /\ pc # "idle" => mem.deleting = snap.deleting
    /\ Released => mem.deleting
    /\ pc \in {"isoExists", "isoCreate", "isoUpload"} => spec.format = "cloud-init"
    /\ mem.disks <= spec.disks
    /\ pc \in {"diskExists", "diskCreate", "diskPath", "diskDone", "delDisk",
               "delNext"} => mem.disks < spec.disks
    /\ pc \in {"delete", "destroyDom", "undefineDom", "delRoot", "delBoot"} =>
         mem.disks = 0

AfterDisks  == PoolSteps \cup {"delNode"}
AfterBoot   == AfterDisks \cup {"delDisks", "delDisk", "delNext"}
AfterRoot   == AfterBoot \cup {"delBoot"}
AfterDomain == AfterRoot \cup {"delRoot"}

(* What reconcileDelete has removed stays removed.                         *)
CleanedSoFar ==
    /\ spec.format = "ignition" => host.store["iso"] = "absent"
    /\ host.disks \subseteq 1..spec.disks
    /\ mem.deleting =>
         /\ pc = "undefineDom" => host.dom.state # "running"
         /\ pc \in AfterDomain => host.dom.state = "absent"
         /\ pc \in AfterRoot /\ ~spec.eph => host.store["root"] = "absent"
         /\ pc \in AfterBoot /\ ~spec.eph => host.store["iso"] = "absent"
         /\ pc \in AfterBoot => \A i \in 1..mem.disks : i \notin host.disks
         /\ pc = "delNext" => (mem.disks + 1) \notin host.disks
         /\ pc \in AfterDisks => host.disks = {}
    /\ Released => ~Dirty

CleanupInv ==
    /\ FinalizerKept /\ DeletionSeen /\ OnItsPath /\ CleanedSoFar
    /\ NoOrphanOnceHeld

(* What reconcileNormal has made is there when the domain is defined.      *)
BackedInv ==
    /\ host.store["root"] # "empty"
    /\ ~mem.deleting => 1..mem.disks \subseteq host.disks
    /\ pc = "diskDone" => (mem.disks + 1) \in host.disks
    /\ pc = "define" /\ mem.pool = "store" => host.store["root"] # "absent"
    /\ DomainBacked

(* What the reconcile may tell the API server.                             *)
StatusInv ==
    /\ snap.failed => mem.failed
    /\ pc = "status" => host.dom.state # "absent"
    /\ mem.ready /\ ~snap.ready => ~mem.deleting /\ host.dom.state # "absent"
    /\ ReadyHasDomain /\ FailedRunsNothing

(* The machine's tmpfs and its pool on a host: neither is there, it is      *)
(* mounted (on an empty directory), it is mounted and its pool runs.       *)
Gone(h)    == h.pool = "undefined" /\ h.stack = << >>
Mounted(h) == Len(h.stack) = 2 /\ h.stack[2] = EmptyLayer
Up(h)      == h.pool = "active" /\ Mounted(h)

(* reconcileNormal past the ephemeral pool, or without one.                *)
AfterPool == {"rootExists", "clone", "basePath", "createRoot", "bootstrap", "ignDir",
              "truncate", "fill", "isoExists", "isoCreate", "isoUpload", "disks",
              "diskExists", "diskCreate", "diskPath", "diskDone", "artifacts",
              "domExists", "domPaths", "define", "getDomain", "start", "started",
              "status"}

Defining == {"artifacts", "domExists", "domPaths", "define"}
Making   == {"mkdir", "mount", "poolDefine", "poolStart"}
Unmaking == {"stop", "undefine", "unmount", "rmdir"}
EphSteps == {"ephExists", "ephActive", "ephStart", "useEph"} \cup Making \cup PoolSteps

(* How far CreateTmpfsPool and DestroyPool have come at each step.         *)
TmpfsAtStep ==
    /\ pc \notin Making \cup Unmaking => Gone(host) \/ Up(host)
    /\ pc \in AfterPool \cup {"ephActive", "useEph", "stop"} => Up(host)
    /\ pc \in {"mkdir", "poolGone", "delNode"} => Gone(host)
    /\ pc \in {"mount", "rmdir"} =>
         host.pool = "undefined" /\ host.stack = << EmptyLayer >>
    /\ pc \in {"poolDefine", "unmount"} => host.pool = "undefined" /\ Mounted(host)
    /\ pc \in {"poolStart", "undefine"} => host.pool = "inactive" /\ Mounted(host)
    /\ ~mem.deleting => pc \notin PoolSteps \cup {"ephStart"}
    /\ Released \/ (held /\ ~obj.exists) => Gone(host)

(* When nothing goes wrong, the pool of an ephemeral machine and its mount *)
(* are made and removed together, never left half-way, and gone when the   *)
(* finalizer goes.                                                         *)
TmpfsInv ==
    /\ pc \in EphSteps => spec.eph
    /\ faults = 0 /\ spec.eph => TmpfsAtStep

(* The domain lacks a disk, or has its root disk in the wrong pool.        *)
Incomplete ==
    /\ host.dom.state # "absent"
    /\ host.dom.disks # spec.disks \/ host.dom.pool # Home

(* A step of reconcileNormal that is skipped is one that failed for good,  *)
(* which takes a fault and is recorded in memory: a reconcile without one  *)
(* works in the pool the spec asks for and makes every disk.               *)
Placed ==
    /\ ~mem.deleting =>
         /\ mem.pool = "eph" => spec.eph
         /\ faults = 0 \/ ~mem.failed =>
              /\ pc \in AfterPool => mem.pool = Home
              /\ pc \in Defining => mem.disks = spec.disks
    /\ pc = "diskCreate" => (mem.disks + 1) \notin host.disks

(* An incomplete domain of one fault is therefore behind a failure that is *)
(* stored or about to be.                                                  *)
Accounted ==
    Incomplete /\ faults <= 1 =>
        /\ faults = 1
        /\ \/ obj.failed \/ obj.deleting \/ ~obj.exists
           \/ mem.failed /\ ~snap.failed /\ ~obj.ready

WholeInv == Placed /\ Accounted
-----------------------------------------------------------------------------
(* Liveness.                                                               *)

(* A machine becomes ready or is reported as failed, unless it is deleted. *)
EventuallySettled ==
    obj.exists ~> (obj.ready \/ obj.failed \/ obj.deleting \/ ~obj.exists)

(* reconcileDelete cannot pass a domain that is defined but off, nor an    *)
(* ephemeral pool that is defined but not running.                         *)
Blocked == host.dom.state = "shutoff" \/ host.pool = "inactive"

(* A deleted machine goes away, or stays behind one of the two for good.   *)
DeletionEnds == obj.deleting ~> (~obj.exists \/ []Blocked)
-----------------------------------------------------------------------------
(* What the documentation says of the program and the program does not do. *)

(* handleLibvirtError's comment: a terminal error stops the reconcile. So  *)
(* a machine that is marked failed is not ready.                           *)
FailedIsNotReady == ~(obj.failed /\ obj.ready)

(* "Controller crashes mid-deletion": the controller retries the cleanup,  *)
(* which is automatic and idempotent. So a deleted machine goes away.      *)
DeletionCompletes == obj.deleting ~> ~obj.exists

(* "Controller crashes mid-provisioning": the controller resumes from the  *)
(* artifacts it finds. So a ready cloud-init machine has its user data.    *)
ReadyHasUserData ==
    obj.ready /\ ~obj.deleting /\ ~spec.eph /\ spec.format = "cloud-init" =>
        host.store["iso"] = "full"
=============================================================================
