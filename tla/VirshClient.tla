----------------------------- MODULE VirshClient -----------------------------
(***************************************************************************)
(* The commands CAPLV runs on a libvirt host over SSH, as functions of the *)
(* host's state (internal/libvirt/virsh_client.go), and the way a failed   *)
(* virsh command is classified (internal/libvirt/errors.go).               *)
(*                                                                         *)
(* A command maps a host to a reply: the host after the command, and the   *)
(* answer the Go method gives its caller:                                  *)
(*   "ok"         nil error (for a query: the answer is yes)               *)
(*   "no"         a query answered no, nil error                           *)
(*   "notFound", "terminal", "transient"   the category of the error       *)
(* What libvirt and the host's kernel do is external; what the client does *)
(* with it is the code's.                                                  *)
(*                                                                         *)
(* One machine's artifacts are modelled: its domain, its root disk and     *)
(* cloud-init ISO (in the persistent pool "store" or in the machine's own  *)
(* tmpfs pool "eph"), its additional disks 1..n (always in a persistent    *)
(* pool), and the directory /run/caplv/<machine>, which holds the ignition *)
(* file and on which the tmpfs of the ephemeral pool is mounted.           *)
(***************************************************************************)
EXTENDS Naturals, Sequences

CONSTANT NDisks          \* most additional disks a machine may declare

ASSUME NDisksAssumption == NDisks \in Nat

Content == {"absent", "empty", "full"}
Pools   == {"store", "eph"}
Volumes == {"root", "iso"}

(* What one layer of /run/caplv/<machine> holds. The last layer of a stack *)
(* is the plain directory, each one before it a tmpfs mounted on top;      *)
(* paths and pool volumes resolve in the first.                            *)
Layer == [{"root", "iso", "ign"} -> Content]

EmptyLayer == [f \in {"root", "iso", "ign"} |-> "absent"]

(* A defined domain remembers the pool its root disk was taken from, how   *)
(* many additional disks its XML lists, and, while it runs, the depth of   *)
(* the stack whose first layer holds its open files.                       *)
Domain == [state : {"absent", "shutoff", "running"},
           pool  : Pools,
           disks : 0..NDisks,
           depth : Nat]

NoDomain == [state |-> "absent", pool |-> "store", disks |-> 0, depth |-> 0]

Host == [dom   : Domain,
         base  : BOOLEAN,                    \* the base image volume exists
         store : [Volumes -> Content],       \* volumes of the persistent pool
         disks : SUBSET (1..NDisks),         \* additional disk volumes
         pool  : {"undefined", "inactive", "active"},   \* ephemeral pool
         stack : Seq(Layer)]

Answers == {"ok", "no", "notFound", "terminal", "transient"}

Reply == [host : Host, ans : Answers]

Answer(h, a) == [host |-> h, ans |-> a]

(* The category of what virsh prints on stderr: the first matching case    *)
(* wins, anything unrecognised is transient.                               *)
ClassifyVirshError(stderr) ==
    CASE stderr \in {"no domain", "no storage vol", "storage pool not found"}
            -> "notFound"
      [] stderr \in {"already exists", "permission denied"} -> "terminal"
      [] OTHER -> "transient"

Fail(h, stderr) == Answer(h, ClassifyVirshError(stderr))

(* A query's not-found error is its answer "no", with a nil error.         *)
Query(h, found, stderr) ==
    IF found THEN Answer(h, "ok")
    ELSE IF ClassifyVirshError(stderr) = "notFound" THEN Answer(h, "no")
    ELSE Fail(h, stderr)

(* A removal whose target is not found has succeeded.                      *)
Removed(h, present, h2, stderr) ==
    IF present THEN Answer(h2, "ok")
    ELSE IF ClassifyVirshError(stderr) = "notFound" THEN Answer(h, "ok")
    ELSE Fail(h, stderr)
-----------------------------------------------------------------------------
(* Storage volumes.                                                        *)

Top(h) == IF h.stack = << >> THEN EmptyLayer ELSE Head(h.stack)

SetTop(h, f, c) ==
    [h EXCEPT !.stack = << [Head(@) EXCEPT ![f] = c] >> \o Tail(@)]

VolContent(h, p, v) == IF p = "store" THEN h.store[v] ELSE Top(h)[v]

SetVolume(h, p, v, c) ==
    IF p = "store" THEN [h EXCEPT !.store[v] = c] ELSE SetTop(h, v, c)

(* libvirt refuses volume commands on a pool that is not running; the      *)
(* persistent pools are the operator's and stay up.                        *)
PoolError(h, p) ==
    CASE p = "eph" /\ h.pool = "undefined" -> "storage pool not found"
      [] p = "eph" /\ h.pool = "inactive"  -> "pool is not active"
      [] OTHER -> "none"

VolumeExists(h, p, v) ==
    IF PoolError(h, p) = "none"
    THEN Query(h, VolContent(h, p, v) # "absent", "no storage vol")
    ELSE Query(h, FALSE, PoolError(h, p))

GetVolumePath(h, p, v) ==
    IF PoolError(h, p) # "none" THEN Fail(h, PoolError(h, p))
    ELSE IF VolContent(h, p, v) = "absent" THEN Fail(h, "no storage vol")
    ELSE Answer(h, "ok")

(* vol-create-as, with the bytes in place (a qcow2 overlay or data disk)   *)
(* or still to be uploaded (an ISO).                                       *)
CreateVolumeAs(h, p, v, c) ==
    IF PoolError(h, p) # "none" THEN Fail(h, PoolError(h, p))
    ELSE IF VolContent(h, p, v) # "absent" THEN Fail(h, "already exists")
    ELSE IF p = "eph" /\ h.stack = << >> THEN Fail(h, "no such directory")
    ELSE Answer(SetVolume(h, p, v, c), "ok")

(* vol-upload into a volume that vol-create-as made.                       *)
UploadVolume(h, p, v) ==
    IF PoolError(h, p) # "none" THEN Fail(h, PoolError(h, p))
    ELSE IF VolContent(h, p, v) = "absent" THEN Fail(h, "no storage vol")
    ELSE Answer(SetVolume(h, p, v, "full"), "ok")

(* vol-clone works within one pool: the base image's.                      *)
CloneVolume(h) ==
    IF ~h.base THEN Fail(h, "no storage vol")
    ELSE IF h.store["root"] # "absent" THEN Fail(h, "already exists")
    ELSE Answer(SetVolume(h, "store", "root", "full"), "ok")

DeleteVolume(h, p, v) ==
    IF PoolError(h, p) # "none" THEN Removed(h, FALSE, h, PoolError(h, p))
    ELSE Removed(h, VolContent(h, p, v) # "absent",
                 SetVolume(h, p, v, "absent"), "no storage vol")

GetBasePath(h) == IF h.base THEN Answer(h, "ok") ELSE Fail(h, "no storage vol")

DiskExists(h, i) == Query(h, i \in h.disks, "no storage vol")

CreateDisk(h, i) ==
    IF i \in h.disks THEN Fail(h, "already exists")
    ELSE Answer([h EXCEPT !.disks = @ \cup {i}], "ok")

GetDiskPath(h, i) ==
    IF i \in h.disks THEN Answer(h, "ok") ELSE Fail(h, "no storage vol")

DeleteDisk(h, i) ==
    Removed(h, i \in h.disks, [h EXCEPT !.disks = @ \ {i}], "no storage vol")
-----------------------------------------------------------------------------
(* The ephemeral pool and the directory under it.                          *)

PoolExists(h) == Query(h, h.pool # "undefined", "storage pool not found")

PoolIsActive(h) ==
    IF h.pool = "undefined" THEN Fail(h, "storage pool not found")
    ELSE Answer(h, IF h.pool = "active" THEN "ok" ELSE "no")

StartPool(h) ==
    IF h.pool = "undefined" THEN Fail(h, "storage pool not found")
    ELSE IF h.pool = "active" THEN Fail(h, "pool is already active")
    ELSE IF h.stack = << >> THEN Fail(h, "no such directory")
    ELSE Answer([h EXCEPT !.pool = "active"], "ok")

(* CreateTmpfsPool: mkdir -p, mount -t tmpfs, pool-define-as, pool-start.  *)
MakeDirectory(h) ==
    Answer([h EXCEPT !.stack = IF @ = << >> THEN << EmptyLayer >> ELSE @], "ok")

MountTmpfs(h) ==
    IF h.stack = << >> THEN Answer(h, "transient")
    ELSE Answer([h EXCEPT !.stack = << EmptyLayer >> \o @], "ok")

DefinePool(h) ==
    IF h.pool # "undefined" THEN Fail(h, "already exists")
    ELSE Answer([h EXCEPT !.pool = "inactive"], "ok")

(* DestroyPool: pool-dumpxml, pool-destroy, pool-undefine, umount, rmdir.  *)
(* A pool that is still active cannot be undefined; a tmpfs whose files    *)
(* are open cannot be unmounted; a directory that is mounted on or not     *)
(* empty cannot be removed.                                                *)
DumpPool(h) ==
    IF h.pool = "undefined" THEN Fail(h, "storage pool not found")
    ELSE Answer(h, "ok")

StopPool(h) ==
    IF h.pool = "active" THEN Answer([h EXCEPT !.pool = "inactive"], "ok")
    ELSE Fail(h, "pool is not active")

UndefinePool(h) ==
    IF h.pool = "inactive" THEN Answer([h EXCEPT !.pool = "undefined"], "ok")
    ELSE Fail(h, "pool is still active")

Busy(h) == /\ h.dom.state = "running"
           /\ h.dom.pool = "eph"
           /\ h.dom.depth = Len(h.stack)

Unmount(h) ==
    IF Len(h.stack) > 1 /\ ~Busy(h)
    THEN Answer([h EXCEPT !.stack = Tail(@)], "ok")
    ELSE Answer(h, "transient")

RemoveDirectory(h) ==
    IF h.stack = << EmptyLayer >> THEN Answer([h EXCEPT !.stack = << >>], "ok")
    ELSE Answer(h, "transient")
-----------------------------------------------------------------------------
(* Remote files: WriteRemoteFile makes the directory (MakeDirectory), then *)
(* tee truncates and fills the file. Errors are plain Go errors, never     *)
(* terminal.                                                               *)

WriteFile(h, c) ==
    IF h.stack = << >> THEN Answer(h, "transient")
    ELSE Answer(SetTop(h, "ign", c), "ok")

TruncateFile(h) == WriteFile(h, "empty")
FillFile(h)     == WriteFile(h, "full")

DeleteRemoteFile(h) ==
    Answer(IF h.stack = << >> THEN h ELSE SetTop(h, "ign", "absent"), "ok")
-----------------------------------------------------------------------------
(* Domains. A domain is persistent: it stays defined when it stops.        *)

DomainExists(h) == Query(h, h.dom.state # "absent", "no domain")

(* The XML carries no UUID, so a name that is taken is refused.            *)
DefineDomain(h, p, n) ==
    IF h.dom.state # "absent" THEN Fail(h, "already exists")
    ELSE Answer([h EXCEPT !.dom = [state |-> "shutoff", pool |-> p,
                                   disks |-> n, depth |-> 0]], "ok")

(* "ok" when dominfo reports the state "running", "no" for another state.  *)
GetDomain(h) ==
    IF h.dom.state = "absent" THEN Fail(h, "no domain")
    ELSE Answer(h, IF h.dom.state = "running" THEN "ok" ELSE "no")

(* The files the domain's XML names.                                       *)
FilesPresent(h, format) ==
    /\ VolContent(h, h.dom.pool, "root") # "absent"
    /\ 1..h.dom.disks \subseteq h.disks
    /\ IF format = "ignition" THEN Top(h)["ign"] # "absent"
       ELSE VolContent(h, h.dom.pool, "iso") # "absent"

StartDomain(h, format) ==
    IF h.dom.state = "absent" THEN Fail(h, "no domain")
    ELSE IF h.dom.state = "running" THEN Fail(h, "domain is already active")
    ELSE IF ~FilesPresent(h, format) THEN Fail(h, "cannot access storage file")
    ELSE Answer([h EXCEPT !.dom.state = "running",
                          !.dom.depth = Len(h.stack)], "ok")

(* A domain that is defined but off has nothing to destroy: libvirt says   *)
(* that it "is not running", which the classification does not recognise.  *)
DestroyDomain(h) ==
    IF h.dom.state = "shutoff" THEN Fail(h, "domain is not running")
    ELSE Removed(h, h.dom.state = "running",
                 [h EXCEPT !.dom.state = "shutoff", !.dom.depth = 0],
                 "no domain")

(* Undefining a running domain leaves it running.                          *)
UndefineDomain(h) ==
    Removed(h, h.dom.state # "absent",
            IF h.dom.state = "shutoff" THEN [h EXCEPT !.dom = NoDomain] ELSE h,
            "no domain")
=============================================================================
