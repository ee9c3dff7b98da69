-------------------------- MODULE MachineStepProofs --------------------------
(***************************************************************************)
(* What the commands of VirshClient do to a host, for every number of      *)
(* additional disks and every stack of mounts: a reply is a reply, a       *)
(* removal adds nothing, and a removal that answers "ok" has removed. Then *)
(* the steps of a reconcile that provisions: they only add (Adding), past  *)
(* the ephemeral pool they leave its mount alone (Past), and they skip     *)
(* nothing without a fault, for every set of specs and every set and       *)
(* number of faults. Last the other kinds of step: of the reconcile that   *)
(* removes (Removing, TearingDown), its start and its end (Loading,        *)
(* Storing), and of the environment (Drifting, UserDelete, SyncCache,      *)
(* Crash). StepKinds says that there are no others.                        *)
(***************************************************************************)
EXTENDS MachineReconciler, TLAPS

(* A host after a step that adds no artifact.                              *)
Shrinks(h, g) ==
    /\ h.dom.state = "absent" => g.dom.state = "absent"
    /\ h.dom.state # "running" => g.dom.state # "running"
    /\ g.disks \subseteq h.disks
    /\ \A v \in Volumes : h.store[v] = "absent" => g.store[v] = "absent"

(* A host after a step that leaves the domain, the persistent volumes and  *)
(* the additional disks alone.                                             *)
Untouched(h, g) == g.dom = h.dom /\ g.store = h.store /\ g.disks = h.disks

(* A path in the machine's directory is written in its topmost layer.      *)
LEMMA SetTopType ==
  ASSUME NEW h \in Host, h.stack # << >>, NEW f \in {"root", "iso", "ign"},
         NEW c \in Content
  PROVE  /\ SetTop(h, f, c) \in Host
         /\ SetTop(h, f, c).dom = h.dom
         /\ SetTop(h, f, c).store = h.store
         /\ SetTop(h, f, c).disks = h.disks
<1>1. h.stack \in Seq(Layer)
  BY DEF Host
<1>2. Head(h.stack) \in Layer /\ Tail(h.stack) \in Seq(Layer)
  BY <1>1
<1>3. [Head(h.stack) EXCEPT ![f] = c] \in Layer
  BY <1>2 DEF Layer
<1>4. << [Head(h.stack) EXCEPT ![f] = c] >> \o Tail(h.stack) \in Seq(Layer)
  BY <1>2, <1>3
<1> QED
  BY <1>4, Zenon DEF SetTop, Host

LEMMA SetVolumeType ==
  ASSUME NEW h \in Host, NEW p \in Pools, NEW v \in Volumes, NEW c \in Content,
         p = "eph" => h.stack # << >>
  PROVE  /\ SetVolume(h, p, v, c) \in Host
         /\ SetVolume(h, p, v, c).dom = h.dom
         /\ SetVolume(h, p, v, c).disks = h.disks
         /\ p = "store" => SetVolume(h, p, v, c).store = [h.store EXCEPT ![v] = c]
         /\ p = "eph" => SetVolume(h, p, v, c).store = h.store
<1>1. CASE p = "store"
  BY <1>1 DEF SetVolume, Host, Volumes, Content
<1>2. CASE p = "eph"
  BY <1>2, SetTopType DEF SetVolume, Volumes
<1> QED
  BY <1>1, <1>2 DEF Pools

(* Every error of virsh has a category.                                    *)
LEMMA ClassifyType ==
  ASSUME NEW e
  PROVE  ClassifyVirshError(e) \in {"notFound", "terminal", "transient"}
BY DEF ClassifyVirshError

LEMMA FailType ==
  ASSUME NEW h \in Host, NEW e
  PROVE  /\ Fail(h, e) \in Reply
         /\ Fail(h, e).host = h
         /\ Fail(h, e).ans \in {"notFound", "terminal", "transient"}
BY ClassifyType DEF Fail, Answer, Reply, Answers

LEMMA QueryType ==
  ASSUME NEW h \in Host, NEW b \in BOOLEAN, NEW e
  PROVE  /\ Query(h, b, e) \in Reply
         /\ Query(h, b, e).host = h
         /\ Query(h, b, e).ans = "ok" => b
BY FailType, ClassifyType DEF Query, Answer, Reply, Answers

(* A removal that found nothing, or removed, answers "ok".                 *)
LEMMA RemovedType ==
  ASSUME NEW h \in Host, NEW b \in BOOLEAN, NEW e, NEW g, b => g \in Host
  PROVE  /\ Removed(h, b, g, e) \in Reply
         /\ Removed(h, b, g, e).host = IF b THEN g ELSE h
BY FailType DEF Removed, Answer, Reply, Answers

LEMMA AnswerType ==
  ASSUME NEW h \in Host, NEW a \in Answers
  PROVE  Answer(h, a) \in Reply /\ Answer(h, a).host = h /\ Answer(h, a).ans = a
BY DEF Answer, Reply

LEMMA UntouchedShrinks ==
  ASSUME NEW h \in Host, NEW g \in Host, Untouched(h, g)
  PROVE  Shrinks(h, g)
BY DEF Untouched, Shrinks
-----------------------------------------------------------------------------
(* Commands that only look.                                                *)
LEMMA Queries ==
  ASSUME NEW h \in Host
  PROVE  /\ DomainExists(h) \in Reply /\ DomainExists(h).host = h
         /\ GetDomain(h) \in Reply /\ GetDomain(h).host = h
         /\ GetDomain(h).ans \in {"ok", "no"} => h.dom.state # "absent"
         /\ PoolExists(h) \in Reply /\ PoolExists(h).host = h
         /\ PoolIsActive(h) \in Reply /\ PoolIsActive(h).host = h
         /\ DumpPool(h) \in Reply /\ DumpPool(h).host = h
         /\ GetBasePath(h) \in Reply /\ GetBasePath(h).host = h
<1>1. DomainExists(h) \in Reply /\ DomainExists(h).host = h
  BY QueryType DEF DomainExists
<1>2. GetDomain(h) \in Reply /\ GetDomain(h).host = h
  BY FailType DEF GetDomain, Answer, Reply, Answers
<1>7. GetDomain(h).ans \in {"ok", "no"} => h.dom.state # "absent"
  BY FailType DEF GetDomain, Answer
<1>3. PoolExists(h) \in Reply /\ PoolExists(h).host = h
  BY QueryType DEF PoolExists
<1>4. PoolIsActive(h) \in Reply /\ PoolIsActive(h).host = h
  BY FailType DEF PoolIsActive, Answer, Reply, Answers
<1>5. DumpPool(h) \in Reply /\ DumpPool(h).host = h
  BY FailType DEF DumpPool, Answer, Reply, Answers
<1>6. GetBasePath(h) \in Reply /\ GetBasePath(h).host = h
  BY FailType DEF GetBasePath, Answer, Reply, Answers
<1> QED
  BY <1>1, <1>2, <1>3, <1>4, <1>5, <1>6, <1>7

LEMMA VolumeQueries ==
  ASSUME NEW h \in Host, NEW p \in Pools, NEW v \in Volumes
  PROVE  /\ VolumeExists(h, p, v) \in Reply /\ VolumeExists(h, p, v).host = h
         /\ GetVolumePath(h, p, v) \in Reply /\ GetVolumePath(h, p, v).host = h
         /\ GetVolumePath(h, p, v).ans \in {"ok", "no"} /\ p = "store"
              => h.store[v] # "absent"
<1>1. VolumeExists(h, p, v) \in Reply /\ VolumeExists(h, p, v).host = h
  BY QueryType DEF VolumeExists
<1>2. GetVolumePath(h, p, v) \in Reply /\ GetVolumePath(h, p, v).host = h
  BY FailType DEF GetVolumePath, Answer, Reply, Answers
<1>3. GetVolumePath(h, p, v).ans \in {"ok", "no"} => VolContent(h, p, v) # "absent"
  BY FailType DEF GetVolumePath, Answer, Reply, Answers
<1> QED
  BY <1>1, <1>2, <1>3 DEF VolContent

LEMMA DiskQueries ==
  ASSUME NEW h \in Host, NEW i \in Nat
  PROVE  /\ DiskExists(h, i) \in Reply /\ DiskExists(h, i).host = h
         /\ GetDiskPath(h, i) \in Reply /\ GetDiskPath(h, i).host = h
         /\ GetDiskPath(h, i).ans \in {"ok", "no"} => i \in h.disks
<1>1. DiskExists(h, i) \in Reply /\ DiskExists(h, i).host = h
  BY FailType, ClassifyType DEF DiskExists, Query, Answer, Reply, Answers
<1>2. GetDiskPath(h, i) \in Reply /\ GetDiskPath(h, i).host = h
  <2>1. CASE i \in h.disks
    BY <2>1 DEF GetDiskPath, Answer, Reply, Answers
  <2>2. CASE i \notin h.disks
    BY <2>2, FailType DEF GetDiskPath
  <2> QED
    BY <2>1, <2>2
<1>3. GetDiskPath(h, i).ans \in {"ok", "no"} => i \in h.disks
  BY FailType DEF GetDiskPath, Answer, Reply, Answers
<1> QED
  BY <1>1, <1>2, <1>3
-----------------------------------------------------------------------------
(* Commands on the ephemeral pool and the machine's directory touch no     *)
(* domain and no persistent volume.                                        *)
LEMMA PoolCommands ==
  ASSUME NEW h \in Host
  PROVE  /\ StartPool(h) \in Reply /\ Untouched(h, StartPool(h).host)
         /\ DefinePool(h) \in Reply /\ Untouched(h, DefinePool(h).host)
         /\ StopPool(h) \in Reply /\ Untouched(h, StopPool(h).host)
         /\ UndefinePool(h) \in Reply /\ Untouched(h, UndefinePool(h).host)
<1>1. \A q \in {"undefined", "inactive", "active"} :
         [h EXCEPT !.pool = q] \in Host /\ Untouched(h, [h EXCEPT !.pool = q])
  BY DEF Host, Untouched
<1>2. Untouched(h, h)
  BY DEF Untouched
<1>3. StartPool(h) \in Reply /\ Untouched(h, StartPool(h).host)
  <2>1. CASE h.pool # "undefined" /\ h.pool # "active" /\ h.stack # << >>
    BY <2>1, <1>1 DEF StartPool, Answer, Reply, Answers
  <2>2. CASE ~(h.pool # "undefined" /\ h.pool # "active" /\ h.stack # << >>)
    BY <2>2, <1>2, FailType DEF StartPool
  <2> QED
    BY <2>1, <2>2
<1>4. DefinePool(h) \in Reply /\ Untouched(h, DefinePool(h).host)
  <2>1. CASE h.pool = "undefined"
    BY <2>1, <1>1 DEF DefinePool, Answer, Reply, Answers
  <2>2. CASE ~(h.pool = "undefined")
    BY <2>2, <1>2, FailType DEF DefinePool
  <2> QED
    BY <2>1, <2>2
<1>5. StopPool(h) \in Reply /\ Untouched(h, StopPool(h).host)
  <2>1. CASE h.pool = "active"
    BY <2>1, <1>1 DEF StopPool, Answer, Reply, Answers
  <2>2. CASE ~(h.pool = "active")
    BY <2>2, <1>2, FailType DEF StopPool
  <2> QED
    BY <2>1, <2>2
<1>6. UndefinePool(h) \in Reply /\ Untouched(h, UndefinePool(h).host)
  <2>1. CASE h.pool = "inactive"
    BY <2>1, <1>1 DEF UndefinePool, Answer, Reply, Answers
  <2>2. CASE ~(h.pool = "inactive")
    BY <2>2, <1>2, FailType DEF UndefinePool
  <2> QED
    BY <2>1, <2>2
<1> QED
  BY <1>3, <1>4, <1>5, <1>6

LEMMA DirectoryCommands ==
  ASSUME NEW h \in Host
  PROVE  /\ MakeDirectory(h) \in Reply /\ Untouched(h, MakeDirectory(h).host)
         /\ MakeDirectory(h).host.stack # << >>
         /\ MountTmpfs(h) \in Reply /\ Untouched(h, MountTmpfs(h).host)
         /\ Unmount(h) \in Reply /\ Untouched(h, Unmount(h).host)
         /\ RemoveDirectory(h) \in Reply /\ Untouched(h, RemoveDirectory(h).host)
<1>1. EmptyLayer \in Layer
  BY DEF EmptyLayer, Layer, Content
<1>2. \A s \in Seq(Layer) :
         [h EXCEPT !.stack = s] \in Host /\ Untouched(h, [h EXCEPT !.stack = s])
  BY DEF Host, Untouched
<1>3. h.stack \in Seq(Layer) /\ Untouched(h, h)
  BY DEF Host, Untouched
<1>4. << >> \in Seq(Layer) /\ << EmptyLayer >> \in Seq(Layer)
  BY <1>1
<1>5. MakeDirectory(h) \in Reply /\ Untouched(h, MakeDirectory(h).host)
  <2>1. (IF h.stack = << >> THEN << EmptyLayer >> ELSE h.stack) \in Seq(Layer)
    BY <1>3, <1>4
  <2> QED
    BY <2>1, <1>2, AnswerType, ZenonT(30) DEF MakeDirectory, Answers
<1>6. MakeDirectory(h).host.stack # << >>
  BY <1>1, <1>4, Zenon DEF MakeDirectory, Answer, Host
<1>7. MountTmpfs(h) \in Reply /\ Untouched(h, MountTmpfs(h).host)
  <2>1. << EmptyLayer >> \o h.stack \in Seq(Layer)
    BY <1>3, <1>4
  <2> QED
    BY <2>1, <1>2, <1>3, AnswerType, Zenon DEF MountTmpfs, Answers
<1>8. Unmount(h) \in Reply /\ Untouched(h, Unmount(h).host)
  <2>1. Len(h.stack) > 1 => Tail(h.stack) \in Seq(Layer)
    BY <1>3
  <2> QED
    BY <2>1, <1>2, <1>3, AnswerType, ZenonT(30) DEF Unmount, Answers
<1>9. RemoveDirectory(h) \in Reply /\ Untouched(h, RemoveDirectory(h).host)
  BY <1>2, <1>3, <1>4, AnswerType, ZenonT(30) DEF RemoveDirectory, Answers
<1> QED
  BY <1>5, <1>6, <1>7, <1>8, <1>9
-----------------------------------------------------------------------------
(* Commands that make something. They leave the domain alone, and of the   *)
(* persistent volumes they touch the one they name.                        *)
LEMMA CreateVolumeType ==
  ASSUME NEW h \in Host, NEW p \in Pools, NEW v \in Volumes, NEW c \in Content
  PROVE  LET r == CreateVolumeAs(h, p, v, c)
         IN  /\ r \in Reply /\ r.host.dom = h.dom /\ r.host.disks = h.disks
             /\ r.host.store \in {h.store, [h.store EXCEPT ![v] = c]}
<1> DEFINE able == /\ PoolError(h, p) = "none" /\ VolContent(h, p, v) = "absent"
                   /\ ~(p = "eph" /\ h.stack = << >>)
<1>1. CASE able
  <2>1. CreateVolumeAs(h, p, v, c) = Answer(SetVolume(h, p, v, c), "ok")
    BY <1>1 DEF CreateVolumeAs
  <2>2. p = "eph" => h.stack # << >>
    BY <1>1
  <2> DEFINE g == SetVolume(h, p, v, c)
  <2>4. /\ g \in Host /\ g.dom = h.dom /\ g.disks = h.disks
        /\ p = "store" => g.store = [h.store EXCEPT ![v] = c]
        /\ p = "eph" => g.store = h.store
    BY <2>2, SetVolumeType
  <2> HIDE DEF g
  <2>5. g.store \in {h.store, [h.store EXCEPT ![v] = c]}
    BY <2>4 DEF Pools
  <2> QED
    BY <2>1, <2>4, <2>5 DEF g, Answer, Reply, Answers
<1>2. CASE ~able
  <2>1. \E e : CreateVolumeAs(h, p, v, c) = Fail(h, e)
    BY <1>2 DEF CreateVolumeAs
  <2> QED
    BY <2>1, FailType
<1> QED
  BY <1>1, <1>2

LEMMA UploadVolumeType ==
  ASSUME NEW h \in Host, NEW p \in Pools, NEW v \in Volumes
  PROVE  LET r == UploadVolume(h, p, v)
         IN  /\ r \in Reply /\ r.host.dom = h.dom /\ r.host.disks = h.disks
             /\ r.host.store \in {h.store, [h.store EXCEPT ![v] = "full"]}
<1> DEFINE able == PoolError(h, p) = "none" /\ VolContent(h, p, v) # "absent"
<1>1. CASE able
  <2>1. UploadVolume(h, p, v) = Answer(SetVolume(h, p, v, "full"), "ok")
    BY <1>1 DEF UploadVolume
  <2>2. p = "eph" => h.stack # << >>
    BY <1>1 DEF VolContent, Top, EmptyLayer, Volumes
  <2>3. "full" \in Content
    BY DEF Content
  <2> DEFINE g == SetVolume(h, p, v, "full")
  <2>4. /\ g \in Host /\ g.dom = h.dom /\ g.disks = h.disks
        /\ p = "store" => g.store = [h.store EXCEPT ![v] = "full"]
        /\ p = "eph" => g.store = h.store
    BY <2>2, <2>3, SetVolumeType
  <2> HIDE DEF g
  <2>5. g.store \in {h.store, [h.store EXCEPT ![v] = "full"]}
    BY <2>4 DEF Pools
  <2> QED
    BY <2>1, <2>4, <2>5 DEF g, Answer, Reply, Answers
<1>2. CASE ~able
  <2>1. \E e : UploadVolume(h, p, v) = Fail(h, e)
    BY <1>2 DEF UploadVolume
  <2> QED
    BY <2>1, FailType
<1> QED
  BY <1>1, <1>2

LEMMA CloneVolumeType ==
  ASSUME NEW h \in Host
  PROVE  LET r == CloneVolume(h)
         IN  /\ r \in Reply /\ r.host.dom = h.dom /\ r.host.disks = h.disks
             /\ r.host.store \in {h.store, [h.store EXCEPT !["root"] = "full"]}
<1>1. CASE h.base /\ h.store["root"] = "absent"
  <2>1. CloneVolume(h) = Answer(SetVolume(h, "store", "root", "full"), "ok")
    BY <1>1 DEF CloneVolume
  <2>2. /\ SetVolume(h, "store", "root", "full") \in Host
        /\ SetVolume(h, "store", "root", "full").dom = h.dom
        /\ SetVolume(h, "store", "root", "full").disks = h.disks
        /\ SetVolume(h, "store", "root", "full").store
             = [h.store EXCEPT !["root"] = "full"]
    BY DEF SetVolume, Host, Volumes, Content
  <2> QED
    BY <2>1, <2>2 DEF Answer, Reply, Answers
<1>2. CASE ~(h.base /\ h.store["root"] = "absent")
  <2>1. \E e : CloneVolume(h) = Fail(h, e)
    BY <1>2 DEF CloneVolume
  <2> QED
    BY <2>1, FailType
<1> QED
  BY <1>1, <1>2

LEMMA CreateDiskType ==
  ASSUME NEW h \in Host, NEW i \in 1..NDisks
  PROVE  LET r == CreateDisk(h, i)
         IN  /\ r \in Reply /\ r.host.dom = h.dom /\ r.host.store = h.store
             /\ r.host.disks \in {h.disks, h.disks \cup {i}}
<1>1. CASE i \in h.disks
  BY <1>1, FailType DEF CreateDisk
<1>2. CASE i \notin h.disks
  <2>1. [h EXCEPT !.disks = @ \cup {i}] \in Host
    BY DEF Host
  <2> QED
    BY <1>2, <2>1, Zenon DEF CreateDisk, Answer, Reply, Answers, Host
<1> QED
  BY <1>1, <1>2

LEMMA FileCommands ==
  ASSUME NEW h \in Host
  PROVE  /\ TruncateFile(h) \in Reply /\ Untouched(h, TruncateFile(h).host)
         /\ FillFile(h) \in Reply /\ Untouched(h, FillFile(h).host)
         /\ DeleteRemoteFile(h) \in Reply /\ Untouched(h, DeleteRemoteFile(h).host)
<1>1. \A g \in Host : \A c \in Content : g.stack # << >> =>
         SetTop(g, "ign", c) \in Host /\ Untouched(g, SetTop(g, "ign", c))
  BY SetTopType DEF Untouched
<1>2. TruncateFile(h) \in Reply /\ Untouched(h, TruncateFile(h).host)
  BY <1>1 DEF TruncateFile, WriteFile, Answer, Reply, Answers, Untouched, Content
<1>3. FillFile(h) \in Reply /\ Untouched(h, FillFile(h).host)
  BY <1>1 DEF FillFile, WriteFile, Answer, Reply, Answers, Untouched, Content
<1>4. DeleteRemoteFile(h) \in Reply /\ Untouched(h, DeleteRemoteFile(h).host)
  BY <1>1 DEF DeleteRemoteFile, Answer, Reply, Answers, Untouched, Content
<1> QED
  BY <1>2, <1>3, <1>4
-----------------------------------------------------------------------------
(* Commands that remove something.                                         *)
LEMMA DeleteVolumeType ==
  ASSUME NEW h \in Host, NEW p \in Pools, NEW v \in Volumes
  PROVE  LET r == DeleteVolume(h, p, v)
         IN  /\ r \in Reply /\ Shrinks(h, r.host) /\ r.host.dom = h.dom
             /\ p = "store" => r.host.store = [h.store EXCEPT ![v] = "absent"]
             /\ p = "eph" => r.host.store = h.store
             /\ r.host.disks = h.disks
<1> DEFINE g == SetVolume(h, p, v, "absent")
           present == PoolError(h, p) = "none" /\ VolContent(h, p, v) # "absent"
<1>1. CASE present
  <2>1. DeleteVolume(h, p, v) = Answer(g, "ok")
    BY <1>1 DEF DeleteVolume, Removed
  <2>2. p = "eph" => h.stack # << >>
    BY <1>1 DEF VolContent, Top, EmptyLayer, Volumes
  <2>3. "absent" \in Content
    BY DEF Content
  <2>4. /\ g \in Host /\ g.dom = h.dom /\ g.disks = h.disks
        /\ p = "store" => g.store = [h.store EXCEPT ![v] = "absent"]
        /\ p = "eph" => g.store = h.store
    BY <2>2, <2>3, SetVolumeType
  <2> HIDE DEF g
  <2>5. Shrinks(h, g)
    BY <2>4 DEF Shrinks, Pools, Host
  <2> QED
    BY <2>1, <2>4, <2>5 DEF Answer, Reply, Answers
<1>2. CASE ~present
  <2>1. /\ DeleteVolume(h, p, v) \in Reply
        /\ DeleteVolume(h, p, v).host = h
    BY <1>2, FailType DEF DeleteVolume, Removed, Answer, Reply, Answers
  <2>2. p = "store" => h.store[v] = "absent"
    BY <1>2 DEF PoolError, VolContent
  <2>3. p = "store" => h.store = [h.store EXCEPT ![v] = "absent"]
    BY <2>2 DEF Host
  <2> QED
    BY <2>1, <2>3 DEF Shrinks
<1> QED
  BY <1>1, <1>2

LEMMA DeleteDiskType ==
  ASSUME NEW h \in Host, NEW i \in 1..NDisks
  PROVE  LET r == DeleteDisk(h, i)
         IN  /\ r \in Reply /\ Shrinks(h, r.host)
             /\ r.host.dom = h.dom /\ r.host.store = h.store
             /\ r.host.disks = h.disks \ {i}
<1>1. [h EXCEPT !.disks = @ \ {i}] \in Host
  BY DEF Host
<1>2. CASE i \in h.disks
  BY <1>1, <1>2, SMTT(30) DEF DeleteDisk, Removed, Answer, Reply, Answers, Shrinks, Host
<1>3. CASE i \notin h.disks
  <2>1. DeleteDisk(h, i) \in Reply /\ DeleteDisk(h, i).host = h
    BY <1>3, FailType DEF DeleteDisk, Removed, Answer, Reply, Answers
  <2> QED
    BY <1>3, <2>1 DEF Shrinks, Host
<1> QED
  BY <1>2, <1>3

(* A domain that virsh destroy did not complain about is not running, and  *)
(* one that was then undefined is gone.                                    *)
LEMMA DestroyDomainType ==
  ASSUME NEW h \in Host
  PROVE  LET r == DestroyDomain(h)
         IN  /\ r \in Reply /\ Shrinks(h, r.host)
             /\ r.host.store = h.store /\ r.host.disks = h.disks
             /\ r.host.dom.state # "running"
             /\ r.host.dom.state = "absent" <=> h.dom.state = "absent"
             /\ r.host.dom.pool = h.dom.pool /\ r.host.dom.disks = h.dom.disks
<1> DEFINE g == [h EXCEPT !.dom.state = "shutoff", !.dom.depth = 0]
<1>1. /\ g \in Host /\ g.dom.state = "shutoff" /\ g.store = h.store
      /\ g.disks = h.disks /\ g.dom.pool = h.dom.pool
      /\ g.dom.disks = h.dom.disks
  BY Zenon DEF Host, Domain
<1>2. h.dom.state \in {"absent", "shutoff", "running"}
  BY DEF Host, Domain
<1> HIDE DEF g
<1>3. CASE h.dom.state = "running"
  <2>1. DestroyDomain(h) = Answer(g, "ok")
    BY <1>3 DEF DestroyDomain, Removed, g
  <2> QED
    BY <1>1, <1>3, <2>1 DEF Answer, Reply, Answers, Shrinks
<1>4. CASE h.dom.state # "running"
  <2>1. DestroyDomain(h) \in Reply /\ DestroyDomain(h).host = h
    BY <1>4, FailType DEF DestroyDomain, Removed, Answer, Reply, Answers
  <2> QED
    BY <1>4, <2>1 DEF Shrinks
<1> QED
  BY <1>3, <1>4

LEMMA UndefineDomainType ==
  ASSUME NEW h \in Host
  PROVE  LET r == UndefineDomain(h)
         IN  /\ r \in Reply /\ Shrinks(h, r.host)
             /\ r.host.store = h.store /\ r.host.disks = h.disks
             /\ h.dom.state # "running" => r.host.dom.state = "absent"
             /\ r.host.dom \in {h.dom, NoDomain}
<1> DEFINE g == [h EXCEPT !.dom = NoDomain]
<1>1. /\ g \in Host /\ g.dom = NoDomain /\ g.store = h.store
      /\ g.disks = h.disks /\ NoDomain.state = "absent"
  BY NDisksAssumption DEF Host, Domain, NoDomain, Pools
<1>2. h.dom.state \in {"absent", "shutoff", "running"}
  BY DEF Host, Domain
<1> HIDE DEF g
<1>3. CASE h.dom.state = "shutoff"
  <2>1. UndefineDomain(h) = Answer(g, "ok")
    BY <1>3 DEF UndefineDomain, Removed, g
  <2> QED
    BY <1>1, <1>3, <2>1 DEF Answer, Reply, Answers, Shrinks
<1>4. CASE h.dom.state # "shutoff"
  <2>1. UndefineDomain(h) \in Reply /\ UndefineDomain(h).host = h
    BY <1>4, FailType DEF UndefineDomain, Removed, Answer, Reply, Answers
  <2> QED
    BY <1>2, <1>4, <2>1 DEF Shrinks
<1> QED
  BY <1>3, <1>4
-----------------------------------------------------------------------------
(* The domain is defined with the disks it is given, and starting it       *)
(* changes nothing but its state.                                          *)
LEMMA DefineDomainType ==
  ASSUME NEW h \in Host, NEW p \in Pools, NEW n \in 0..NDisks
  PROVE  LET r == DefineDomain(h, p, n)
         IN  /\ r \in Reply /\ r.host.store = h.store /\ r.host.disks = h.disks
             /\ r.host.dom.state # "absent"
             /\ \/ r.host.dom = h.dom
                \/ /\ h.dom.state = "absent"
                   /\ r.host.dom.pool = p /\ r.host.dom.disks = n
<1> DEFINE d == [state |-> "shutoff", pool |-> p, disks |-> n, depth |-> 0]
           g == [h EXCEPT !.dom = d]
<1>1. /\ g \in Host /\ g.dom = d /\ g.store = h.store /\ g.disks = h.disks
      /\ d.state = "shutoff" /\ d.pool = p /\ d.disks = n
  BY DEF Host, Domain
<1>2. CASE h.dom.state = "absent"
  <2>1. DefineDomain(h, p, n) = Answer(g, "ok")
    BY <1>2 DEF DefineDomain
  <2> HIDE DEF g, d
  <2> QED
    BY <1>1, <1>2, <2>1 DEF Answer, Reply, Answers
<1>3. CASE h.dom.state # "absent"
  BY <1>3 DEF DefineDomain, Fail, ClassifyVirshError, Answer, Reply, Answers
<1> QED
  BY <1>2, <1>3

LEMMA StartDomainType ==
  ASSUME NEW h \in Host, NEW f
  PROVE  LET r == StartDomain(h, f)
         IN  /\ r \in Reply /\ r.host.store = h.store /\ r.host.disks = h.disks
             /\ r.host.dom.state = "absent" <=> h.dom.state = "absent"
             /\ r.host.dom.pool = h.dom.pool /\ r.host.dom.disks = h.dom.disks
<1> DEFINE g == [h EXCEPT !.dom.state = "running", !.dom.depth = Len(h.stack)]
           able == h.dom.state \notin {"absent", "running"} /\ FilesPresent(h, f)
<1>1. Len(h.stack) \in Nat
  BY DEF Host
<1>2. /\ g \in Host /\ g.dom.state = "running" /\ g.store = h.store
      /\ g.disks = h.disks /\ g.dom.pool = h.dom.pool
      /\ g.dom.disks = h.dom.disks
  BY <1>1, Zenon DEF Host, Domain
<1> HIDE DEF g
<1>3. CASE able
  <2>1. StartDomain(h, f) = Answer(g, "ok")
    BY <1>3 DEF StartDomain, g
  <2> QED
    BY <1>2, <1>3, <2>1 DEF Answer, Reply, Answers
<1>4. CASE ~able
  <2>1. \E e : StartDomain(h, f) = Fail(h, e)
    BY <1>4 DEF StartDomain
  <2> QED
    BY <2>1, FailType
<1> QED
  BY <1>3, <1>4
-----------------------------------------------------------------------------
(* What every step of a reconcile between Reconcile and Patch leaves alone *)
(* or changes in one way only.                                             *)
Frame ==
    /\ UNCHANGED <<spec, obj, held, cached, queued, snap, node, gate, ready, secret>>
    /\ mem' \in {mem, Failed(mem)}
    /\ host' \in Host
    /\ faults' \in 0..MaxFaults

LEMMA FailedType ==
  ASSUME NEW m \in Memory
  PROVE  /\ Failed(m) \in Memory
         /\ Failed(m).deleting = m.deleting /\ Failed(m).fin = m.fin
         /\ Failed(m).disks = m.disks /\ Failed(m).pool = m.pool
         /\ Failed(m).failed = TRUE /\ Failed(m).ready = FALSE
BY Zenon DEF Failed, Memory

LEMMA OutcomesType ==
  ASSUME TypeOK, NEW r \in Reply, NEW x \in Outcomes(r)
  PROVE  /\ x \in Reply
         /\ x.host \in {host, r.host}
         /\ x = r \/ (x.ans \in {"transient", "terminal"} /\ faults < MaxFaults)
<1>1. host \in Host /\ r.host \in Host
  BY DEF TypeOK, Reply
<1>2. CASE x = r
  BY <1>2
<1>3. CASE x # r
  <2>1. /\ x \in {Answer(host, "transient"), Answer(r.host, "transient"),
                  Answer(host, "terminal")}
        /\ faults < MaxFaults
    BY <1>3 DEF Outcomes, CanFault
  <2> QED
    BY <1>1, <2>1 DEF Answer, Reply, Answers
<1> QED
  BY <1>2, <1>3

(* A command: its outcome is the undisturbed reply or an error.            *)
LEMMA CommandStep ==
  ASSUME TypeOK, NEW r \in Reply, NEW from, NEW goto,
         Virsh(from, r, goto) \/ Plain(from, r, goto)
  PROVE  /\ Frame
         /\ pc = from
         /\ host' \in {host, r.host}
         /\ \E a \in Answers :
              /\ pc' = goto[a]
              /\ a \in {"transient", "terminal"} \/ (a = r.ans /\ host' = r.host)
<1>1. PICK x \in Outcomes(r) :
         /\ host' = x.host
         /\ faults' = IF x = r THEN faults ELSE faults + 1
         /\ pc' = goto[x.ans]
         /\ mem' = IF x.ans = "terminal" /\ ~mem.deleting THEN Failed(mem)
                   ELSE mem
  BY DEF Virsh, Plain, Command, PlainOutcomes
<1>2. /\ x \in Reply /\ x.host \in {host, r.host}
      /\ x = r \/ (x.ans \in {"transient", "terminal"} /\ faults < MaxFaults)
  BY <1>1, OutcomesType
<1>3. x.ans \in Answers /\ x.host \in Host
  BY <1>2 DEF Reply
<1>4. faults' \in 0..MaxFaults
  BY <1>1, <1>2, FaultsAssumption DEF TypeOK
<1>5. /\ pc = from
      /\ UNCHANGED <<spec, obj, held, cached, queued, snap, node, gate, ready, secret>>
  BY DEF Virsh, Plain, Command, env, api
<1>6. mem' \in {mem, Failed(mem)}
  BY <1>1
<1>7. Frame
  BY <1>1, <1>3, <1>4, <1>5, <1>6 DEF Frame
<1>8. x.ans \in {"transient", "terminal"} \/ (x.ans = r.ans /\ host' = r.host)
  BY <1>1, <1>2
<1> QED
  BY <1>1, <1>2, <1>3, <1>5, <1>7, <1>8

(* reconcileNormal's way with errors: only the undisturbed reply leads on  *)
(* to a step that is neither the one after a terminal error nor a return.  *)
LEMMA HandleStep ==
  ASSUME TypeOK, NEW r \in Reply, NEW from, NEW ok, NEW no, NEW skip,
         \/ Virsh(from, r, HandleLibvirtError(ok, no, skip))
         \/ Plain(from, r, HandleLibvirtError(ok, no, skip))
  PROVE  /\ Frame
         /\ pc = from
         /\ host' \in {host, r.host}
         /\ pc' \in {ok, no, skip, "error"}
         /\ pc' \notin {skip, "error"} => host' = r.host /\ r.ans \in {"ok", "no"}
<1> DEFINE goto == HandleLibvirtError(ok, no, skip)
<1>1. PICK a \in Answers :
         /\ pc' = goto[a]
         /\ a \in {"transient", "terminal"} \/ (a = r.ans /\ host' = r.host)
  BY CommandStep
<1>2. goto[a] = IF a = "ok" THEN ok ELSE IF a = "no" THEN no
                ELSE IF a = "terminal" THEN skip ELSE "error"
  BY <1>1 DEF HandleLibvirtError, Answers
<1>3. /\ Frame /\ pc = from /\ host' \in {host, r.host}
  BY CommandStep
<1> HIDE DEF goto
<1> QED
  BY <1>1, <1>2, <1>3

(* reconcileDelete's way with errors: only a command that worked or found  *)
(* nothing leads on.                                                       *)
LEMMA UnlessNotFoundStep ==
  ASSUME TypeOK, NEW r \in Reply, NEW from, NEW ok,
         Virsh(from, r, UnlessNotFound(ok))
  PROVE  /\ Frame
         /\ pc = from
         /\ host' \in {host, r.host}
         /\ pc' \in {ok, "error"}
         /\ pc' # "error" => host' = r.host
<1> DEFINE goto == UnlessNotFound(ok)
<1>1. PICK a \in Answers :
         /\ pc' = goto[a]
         /\ a \in {"transient", "terminal"} \/ (a = r.ans /\ host' = r.host)
  BY CommandStep
<1>2. goto[a] = IF a \in {"ok", "no", "notFound"} THEN ok ELSE "error"
  BY <1>1 DEF UnlessNotFound
<1>3. /\ Frame /\ pc = from /\ host' \in {host, r.host}
  BY CommandStep
<1> HIDE DEF goto
<1> QED
  BY <1>1, <1>2, <1>3

LEMMA IgnoreErrorsStep ==
  ASSUME TypeOK, NEW r \in Reply, NEW from, NEW next,
         Plain(from, r, IgnoreErrors(next))
  PROVE  Frame /\ pc = from /\ host' \in {host, r.host} /\ pc' = next
<1>1. PICK a \in Answers : pc' = IgnoreErrors(next)[a]
  BY CommandStep
<1> QED
  BY <1>1, CommandStep DEF IgnoreErrors
-----------------------------------------------------------------------------
ISOSteps  == {"isoExists", "isoCreate", "isoUpload"}
DiskSteps == {"diskExists", "diskCreate", "diskPath", "diskDone", "delDisk",
              "delNext"}

(* The domain's definition is the same as before, or still missing.        *)
SameDefinition(d, e) ==
    /\ e.state = "absent" <=> d.state = "absent"
    /\ e.pool = d.pool /\ e.disks = d.disks

(* What a step of reconcileNormal may do.                                  *)
Adding ==
    /\ UNCHANGED <<spec, obj, held, cached, snap>>
    /\ mem'.deleting = mem.deleting
    /\ mem.fin => mem'.fin
    /\ mem.failed => mem'.failed
    /\ mem'.ready => mem.ready \/ pc = "status"
    /\ pc' \in NormalSteps \cup PoolSteps \cup ReturnSteps
    /\ mem'.disks = mem.disks \/ (pc = "diskDone" /\ mem'.disks = mem.disks + 1)
    /\ pc' \in DiskSteps => mem'.disks < spec.disks
    /\ pc' \in ISOSteps => spec.format = "cloud-init"
    /\ spec.format = "ignition" => host'.store["iso"] = host.store["iso"]
    /\ host'.store["root"] \in {host.store["root"], "full"}
    /\ host.disks \subseteq host'.disks
    /\ \/ host'.disks = host.disks
       \/ pc \in DiskSteps /\ host'.disks = host.disks \cup {mem.disks + 1}
    /\ \/ SameDefinition(host.dom, host'.dom)
       \/ /\ pc = "define"
          /\ host.dom.state = "absent" /\ host'.dom.state # "absent"
          /\ host'.dom.pool = mem.pool /\ host'.dom.disks = mem.disks
    /\ pc' = "diskDone" => (mem'.disks + 1) \in host'.disks
    /\ pc' = "define" /\ mem'.pool = "store" => host'.store["root"] # "absent"
    /\ pc' = "status" => host'.dom.state # "absent"

LEMMA FrameType ==
  ASSUME TypeOK, Frame, pc' \in Steps
  PROVE  TypeOK'
<1>1. mem' \in Memory
  BY FailedType, Zenon DEF Frame, TypeOK
<1> QED
  BY <1>1 DEF Frame, TypeOK

LEMMA FrameMemory ==
  ASSUME TypeOK, Frame
  PROVE  /\ mem'.deleting = mem.deleting /\ mem'.fin = mem.fin
         /\ mem'.disks = mem.disks /\ mem'.pool = mem.pool
         /\ mem.failed => mem'.failed
         /\ mem'.ready => mem.ready
BY FailedType, Zenon DEF Frame, TypeOK

LEMMA LocalStep ==
  ASSUME TypeOK, NEW from, NEW next \in Steps, NEW m \in Memory,
         Local(from, next, m)
  PROVE  /\ TypeOK'
         /\ pc = from /\ pc' = next /\ mem' = m /\ host' = host
         /\ UNCHANGED <<spec, obj, held, cached, snap>>
BY DEF Local, TypeOK, env, api

(* Most steps of reconcileNormal touch neither the domain nor a persistent *)
(* volume and go on to a step that assumes nothing.                        *)
LEMMA PlainAdding ==
  ASSUME TypeOK, Frame, Untouched(host, host'),
         pc' \in (NormalSteps \cup PoolSteps \cup ReturnSteps)
                    \ (DiskSteps \cup ISOSteps \cup {"define", "status"})
  PROVE  Adding
BY FrameMemory DEF Adding, Frame, Untouched, SameDefinition, DiskSteps

LEMMA UntouchedItself ==
  ASSUME NEW h
  PROVE  Untouched(h, h)
BY DEF Untouched

(* A command that touches nothing the invariant speaks of.                 *)
LEMMA PlainHandle ==
  ASSUME TypeOK, NEW r \in Reply, Untouched(host, r.host), NEW from,
         NEW ok, NEW no, NEW skip,
         \/ Virsh(from, r, HandleLibvirtError(ok, no, skip))
         \/ Plain(from, r, HandleLibvirtError(ok, no, skip)),
         {ok, no, skip} \subseteq
            (NormalSteps \cup PoolSteps \cup ReturnSteps)
               \ (DiskSteps \cup ISOSteps \cup {"define", "status"})
  PROVE  Adding /\ TypeOK'
<1>1. /\ Frame /\ host' \in {host, r.host}
      /\ pc' \in {ok, no, skip, "error"}
  BY HandleStep
<1>2. "error" \in (NormalSteps \cup PoolSteps \cup ReturnSteps)
               \ (DiskSteps \cup ISOSteps \cup {"define", "status"})
  BY DEF ReturnSteps, DiskSteps, ISOSteps
<1>3. Untouched(host, host')
  BY <1>1, UntouchedItself
<1>4. pc' \in (NormalSteps \cup PoolSteps \cup ReturnSteps)
               \ (DiskSteps \cup ISOSteps \cup {"define", "status"})
  BY <1>1, <1>2
<1>5. pc' \in Steps
  BY <1>4 DEF Steps
<1> QED
  BY <1>1, <1>3, <1>4, <1>5, PlainAdding, FrameType
-----------------------------------------------------------------------------
(* Every step of reconcileNormal is an Adding step.                        *)

LEMMA ReconcileNormalAdds ==
  ASSUME TypeOK, ReconcileNormal
  PROVE  Adding /\ TypeOK'
<1> DEFINE m == [mem EXCEPT !.fin = TRUE]
<1>1. /\ m \in Memory /\ m.fin /\ m.deleting = mem.deleting
      /\ m.disks = mem.disks /\ m.failed = mem.failed /\ m.ready = mem.ready
  BY Zenon DEF TypeOK, Memory
<1>2. /\ mem' \in {m, Failed(m)}
      /\ pc' \in {"requeue", "error", "done", "pools"}
      /\ UNCHANGED <<spec, obj, held, cached, queued, snap, node, gate, ready,
                     secret, host>>
  BY DEF ReconcileNormal, env, api
<1>3. faults' \in 0..MaxFaults
  BY FaultsAssumption DEF ReconcileNormal, Fault, CanFault, TypeOK
<1> HIDE DEF m
<1>4. /\ mem' \in Memory /\ mem'.fin /\ mem'.deleting = mem.deleting
      /\ mem'.disks = mem.disks
      /\ mem.failed => mem'.failed
      /\ mem'.ready => mem.ready
  BY <1>1, <1>2, FailedType, Zenon
<1>5. TypeOK'
  BY <1>2, <1>3, <1>4 DEF TypeOK, Steps, ReturnSteps, NormalSteps
<1>6. Adding
  BY <1>2, <1>4 DEF Adding, SameDefinition, DiskSteps, ISOSteps, NormalSteps,
     ReturnSteps
<1> QED
  BY <1>5, <1>6

(* The steps up to the root disk, those that touch nothing persistent.     *)
LEMMA PreparationAdds ==
  ASSUME TypeOK,
         \/ PreflightPools \/ ReconcileBaseImage
         \/ EphemeralPoolExists \/ EphemeralPoolActive
         \/ CreateTmpfsDirectory \/ CreateTmpfsMount \/ CreateTmpfsDefine
         \/ CreateTmpfsStart \/ RootDiskExists \/ BaseImagePath
         \/ CreateIgnitionDirectory \/ TruncateIgnition \/ FillIgnition
         \/ ReconcileBootArtifacts
  PROVE  Adding /\ TypeOK'
<1> USE DEF NormalSteps, PoolSteps, ReturnSteps, DiskSteps, ISOSteps
<1>1. host \in Host /\ Untouched(host, host)
  BY DEF TypeOK, Untouched
<1>2. Answer(host, "ok") \in Reply /\ Answer(host, "ok").host = host
  BY <1>1 DEF Answer, Reply, Answers
<1>3. CASE PreflightPools
  BY <1>3, <1>1, <1>2, PlainHandle DEF PreflightPools
<1>4. CASE ReconcileBaseImage
  <2> DEFINE g == IF spec.stage THEN [host EXCEPT !.base = TRUE] ELSE host
             next == IF spec.eph THEN "ephExists" ELSE "rootExists"
  <2>1. g \in Host /\ Untouched(host, g)
    BY <1>1, Zenon DEF Host, Untouched
  <2>2. Virsh("base", Answer(g, "ok"), HandleLibvirtError(next, next, next))
    BY <1>4 DEF ReconcileBaseImage
  <2>3. next \in {"ephExists", "rootExists"}
    OBVIOUS
  <2> HIDE DEF g, next
  <2>4. Answer(g, "ok") \in Reply /\ Untouched(host, Answer(g, "ok").host)
    BY <2>1 DEF Answer, Reply, Answers
  <2> QED
    BY <2>2, <2>3, <2>4, PlainHandle
<1>5. CASE EphemeralPoolExists
  BY <1>5, <1>1, Queries, PlainHandle DEF EphemeralPoolExists
<1>6. CASE EphemeralPoolActive
  BY <1>6, <1>1, Queries, PlainHandle DEF EphemeralPoolActive
<1>7. CASE CreateTmpfsDirectory
  BY <1>7, <1>1, DirectoryCommands, PlainHandle DEF CreateTmpfsDirectory
<1>8. CASE CreateTmpfsMount
  BY <1>8, <1>1, DirectoryCommands, PlainHandle DEF CreateTmpfsMount
<1>9. CASE CreateTmpfsDefine
  BY <1>9, <1>1, PoolCommands, PlainHandle DEF CreateTmpfsDefine
<1>10. CASE CreateTmpfsStart
  BY <1>10, <1>1, PoolCommands, PlainHandle DEF CreateTmpfsStart
<1>11. CASE RootDiskExists
  <2> DEFINE no == IF spec.clone THEN "clone" ELSE "basePath"
             r == VolumeExists(host, mem.pool, "root")
  <2>1. r \in Reply /\ r.host = host
    BY <1>1, VolumeQueries DEF TypeOK, Memory, Volumes
  <2>2. Virsh("rootExists", r, HandleLibvirtError("bootstrap", no, "bootstrap"))
    BY <1>11 DEF RootDiskExists
  <2>3. no \in {"clone", "basePath"}
    OBVIOUS
  <2> HIDE DEF no, r
  <2> QED
    BY <1>1, <2>1, <2>2, <2>3, PlainHandle
<1>12. CASE BaseImagePath
  <2> DEFINE r == TerminalIfMissing(GetBasePath(host))
  <2>1. r \in Reply /\ r.host = host
    BY <1>1, Queries DEF TerminalIfMissing, Answer, Reply, Answers
  <2>2. Virsh("basePath", r, HandleLibvirtError("createRoot", "createRoot", "bootstrap"))
    BY <1>12 DEF BaseImagePath
  <2> HIDE DEF r
  <2> QED
    BY <1>1, <2>1, <2>2, PlainHandle
<1>13. CASE TruncateIgnition
  BY <1>13, <1>1, FileCommands, PlainHandle DEF TruncateIgnition
<1>14. CASE FillIgnition
  BY <1>14, <1>1, FileCommands, PlainHandle DEF FillIgnition
<1>15. CASE ReconcileBootArtifacts
  BY <1>15, <1>1, <1>2, PlainHandle DEF ReconcileBootArtifacts
<1>16. CASE CreateIgnitionDirectory
  BY <1>16, <1>1, DirectoryCommands, PlainHandle DEF CreateIgnitionDirectory
<1> QED
  BY <1>3, <1>4, <1>5, <1>6, <1>7, <1>8, <1>9, <1>10, <1>11, <1>12, <1>13,
     <1>14, <1>15, <1>16

(* The steps that make the root disk, and the start of an inactive pool.   *)
LEMMA RootDiskAdds ==
  ASSUME TypeOK, OnItsPath, RootDiskStep
  PROVE  Adding /\ TypeOK'
<1> USE DEF NormalSteps, PoolSteps, ReturnSteps, DiskSteps, ISOSteps
<1>1. host \in Host /\ mem.pool \in Pools /\ mem \in Memory
  BY DEF TypeOK, Memory
<1>2. ASSUME Frame, host'.dom = host.dom, host'.disks = host.disks,
             host'.store \in {host.store, [host.store EXCEPT !["root"] = "full"]},
             pc' \in {"bootstrap", "error"}
      PROVE  Adding /\ TypeOK'
  <2>1. /\ host'.store["root"] \in {host.store["root"], "full"}
        /\ host'.store["iso"] = host.store["iso"]
    BY <1>1, <1>2 DEF Host, Volumes
  <2> QED
    BY <1>2, <2>1, FrameMemory, FrameType DEF Adding, Frame, SameDefinition, Steps
<1>3. CASE StartEphemeralPool
  <2> DEFINE goto == [a \in Answers |-> IF a = "ok" THEN "useEph" ELSE "dump"]
  <2>1. Plain("ephStart", StartPool(host), goto)
    BY <1>3 DEF StartEphemeralPool
  <2>2. \A a \in Answers : goto[a] \in {"useEph", "dump"}
    OBVIOUS
  <2> HIDE DEF goto
  <2>3. StartPool(host) \in Reply /\ Untouched(host, StartPool(host).host)
    BY <1>1, PoolCommands
  <2>4. Frame /\ host' \in {host, StartPool(host).host} /\ pc' \in {"useEph", "dump"}
    BY <2>1, <2>2, <2>3, CommandStep
  <2>5. Untouched(host, host')
    BY <2>3, <2>4, UntouchedItself
  <2> QED
    BY <2>4, <2>5, PlainAdding, FrameType DEF Steps
<1>4. CASE UseEphemeralPool
  <2> DEFINE m == [mem EXCEPT !.pool = "eph"]
  <2>1. /\ m \in Memory /\ m.fin = mem.fin /\ m.deleting = mem.deleting
        /\ m.disks = mem.disks /\ m.failed = mem.failed /\ m.ready = mem.ready
    BY <1>1 DEF Memory, Pools
  <2>2. Local("useEph", "rootExists", m)
    BY <1>4 DEF UseEphemeralPool
  <2> HIDE DEF m
  <2> QED
    BY <2>1, <2>2, LocalStep DEF Adding, SameDefinition, Steps
<1>5. CASE CloneRootDisk
  <2> DEFINE r == TerminalIfMissing(CloneVolume(host))
  <2>1. /\ r \in Reply /\ r.host.dom = host.dom /\ r.host.disks = host.disks
        /\ r.host.store \in {host.store, [host.store EXCEPT !["root"] = "full"]}
    BY <1>1, CloneVolumeType DEF TerminalIfMissing, Answer, Reply, Answers
  <2>2. Virsh("clone", r, HandleLibvirtError("bootstrap", "bootstrap", "bootstrap"))
    BY <1>5 DEF CloneRootDisk
  <2> HIDE DEF r
  <2> QED
    BY <2>1, <2>2, <1>2, HandleStep
<1>6. CASE CreateRootDisk
  <2> DEFINE r == CreateVolumeAs(host, mem.pool, "root", "full")
  <2>1. /\ r \in Reply /\ r.host.dom = host.dom /\ r.host.disks = host.disks
        /\ r.host.store \in {host.store, [host.store EXCEPT !["root"] = "full"]}
    BY <1>1, CreateVolumeType DEF Volumes, Content
  <2>2. Virsh("createRoot", r, HandleLibvirtError("bootstrap", "bootstrap", "bootstrap"))
    BY <1>6 DEF CreateRootDisk
  <2> HIDE DEF r
  <2> QED
    BY <2>1, <2>2, <1>2, HandleStep
<1> QED
  BY <1>3, <1>4, <1>5, <1>6, PreparationAdds DEF RootDiskStep

(* The ISO is made only for cloud-init.                                    *)
LEMMA BootstrapAdds ==
  ASSUME TypeOK, OnItsPath, BootstrapStep
  PROVE  Adding /\ TypeOK'
<1> USE DEF NormalSteps, PoolSteps, ReturnSteps, DiskSteps, ISOSteps
<1>1. host \in Host /\ mem.pool \in Pools
  BY DEF TypeOK, Memory
<1>2. ASSUME Frame, host'.dom = host.dom, host'.disks = host.disks,
             host'.store \in {host.store, [host.store EXCEPT !["iso"] = "empty"],
                              [host.store EXCEPT !["iso"] = "full"]},
             spec.format = "cloud-init",
             pc' \in {"disks", "isoCreate", "isoUpload", "error"}
      PROVE  Adding /\ TypeOK'
  <2>1. host'.store["root"] = host.store["root"]
    BY <1>1, <1>2 DEF Host, Volumes
  <2> QED
    BY <1>2, <2>1, FrameMemory, FrameType DEF Adding, Frame, SameDefinition, Steps
<1>3. CASE ReadBootstrapData
  <2> DEFINE next == IF spec.format = "ignition" THEN "ignDir" ELSE "isoExists"
  <2>1. Plain("bootstrap", Answer(host, "ok"), HandleLibvirtError(next, next, next))
    BY <1>3 DEF ReadBootstrapData
  <2>2. next = "ignDir" \/ (next = "isoExists" /\ spec.format = "cloud-init")
    BY SpecsAssumption DEF TypeOK, AllSpecs
  <2> HIDE DEF next
  <2>3. Answer(host, "ok") \in Reply /\ Answer(host, "ok").host = host
    BY <1>1 DEF Answer, Reply, Answers
  <2>4. Frame /\ host' = host /\ pc' \in {next, "error"}
    BY <2>1, <2>3, HandleStep
  <2> QED
    BY <2>2, <2>4, FrameMemory, FrameType DEF Adding, Frame, SameDefinition, Steps
<1>4. CASE BootstrapISOExists
  <2> DEFINE r == VolumeExists(host, mem.pool, "iso")
  <2>1. r \in Reply /\ r.host = host
    BY <1>1, VolumeQueries DEF Volumes
  <2>2. Virsh("isoExists", r, HandleLibvirtError("disks", "isoCreate", "disks"))
    BY <1>4 DEF BootstrapISOExists
  <2> HIDE DEF r
  <2>3. /\ Frame /\ host' = host /\ pc = "isoExists"
        /\ pc' \in {"disks", "isoCreate", "error"}
    BY <2>1, <2>2, HandleStep
  <2> QED
    BY <2>3, <1>2 DEF OnItsPath
<1>5. CASE CreateBootstrapISO
  <2> DEFINE r == CreateVolumeAs(host, mem.pool, "iso", "empty")
  <2>1. /\ r \in Reply /\ r.host.dom = host.dom /\ r.host.disks = host.disks
        /\ r.host.store \in {host.store, [host.store EXCEPT !["iso"] = "empty"]}
    BY <1>1, CreateVolumeType DEF Volumes, Content
  <2>2. Virsh("isoCreate", r, HandleLibvirtError("isoUpload", "isoUpload", "disks"))
    BY <1>5 DEF CreateBootstrapISO
  <2> HIDE DEF r
  <2>3. /\ Frame /\ host' \in {host, r.host} /\ pc = "isoCreate"
        /\ pc' \in {"isoUpload", "disks", "error"}
    BY <2>1, <2>2, HandleStep
  <2> QED
    BY <2>1, <2>3, <1>2 DEF OnItsPath
<1>6. CASE UploadBootstrapISO
  <2> DEFINE r == UploadVolume(host, mem.pool, "iso")
  <2>1. /\ r \in Reply /\ r.host.dom = host.dom /\ r.host.disks = host.disks
        /\ r.host.store \in {host.store, [host.store EXCEPT !["iso"] = "full"]}
    BY <1>1, UploadVolumeType DEF Volumes
  <2>2. Virsh("isoUpload", r, HandleLibvirtError("disks", "disks", "disks"))
    BY <1>6 DEF UploadBootstrapISO
  <2> HIDE DEF r
  <2>3. /\ Frame /\ host' \in {host, r.host} /\ pc = "isoUpload"
        /\ pc' \in {"disks", "error"}
    BY <2>1, <2>2, HandleStep
  <2> QED
    BY <2>1, <2>3, <1>2 DEF OnItsPath
<1> QED
  BY <1>3, <1>4, <1>5, <1>6, PreparationAdds DEF BootstrapStep

(* A disk is added only in the loop, which stops at spec.disks.            *)
LEMMA DisksAdd ==
  ASSUME TypeOK, OnItsPath, AdditionalDisksStep
  PROVE  Adding /\ TypeOK'
<1> USE DEF NormalSteps, PoolSteps, ReturnSteps, DiskSteps, ISOSteps
<1>1. /\ host \in Host /\ mem \in Memory /\ mem.disks \in Nat
      /\ spec.disks \in Nat /\ spec.disks <= NDisks
  BY SpecsAssumption, NDisksAssumption DEF TypeOK, Memory, AllSpecs
<1> DEFINE i == mem.disks + 1
<1>2. i \in Nat /\ (pc \in DiskSteps => i \in 1..NDisks)
  BY <1>1, NDisksAssumption DEF OnItsPath
<1> HIDE DEF i
<1>3. ASSUME Frame, host'.dom = host.dom, host'.store = host.store,
             host'.disks \in {host.disks, host.disks \cup {i}}, pc \in DiskSteps,
             pc' \in {"diskPath", "diskCreate", "diskDone", "artifacts", "error"},
             pc' = "diskDone" => i \in host'.disks
      PROVE  Adding /\ TypeOK'
  <2>1. mem.disks < spec.disks
    BY <1>3 DEF OnItsPath
  <2> QED
    BY <1>3, <2>1, FrameMemory, FrameType
       DEF Adding, Frame, SameDefinition, Steps, i
<1>4. CASE NextDisk
  <2> DEFINE next == IF mem.disks < spec.disks THEN "diskExists" ELSE "artifacts"
  <2>1. Local("disks", next, mem)
    BY <1>4 DEF NextDisk
  <2>2. next = "artifacts" \/ (next = "diskExists" /\ mem.disks < spec.disks)
    OBVIOUS
  <2> HIDE DEF next
  <2> QED
    BY <1>1, <2>1, <2>2, LocalStep DEF Adding, SameDefinition, Steps
<1>5. CASE AdditionalDiskExists
  <2>1. Virsh("diskExists", DiskExists(host, i),
              HandleLibvirtError("diskPath", "diskCreate", "artifacts"))
    BY <1>5 DEF AdditionalDiskExists, i
  <2>2. DiskExists(host, i) \in Reply /\ DiskExists(host, i).host = host
    BY <1>1, <1>2, DiskQueries
  <2>3. /\ Frame /\ host' = host /\ pc = "diskExists"
        /\ pc' \in {"diskPath", "diskCreate", "artifacts", "error"}
    BY <2>1, <2>2, HandleStep
  <2> QED
    BY <2>3, <1>3
<1>6. CASE CreateAdditionalDisk
  <2> DEFINE r == CreateDisk(host, i)
  <2>1. Virsh("diskCreate", r, HandleLibvirtError("diskPath", "diskPath", "artifacts"))
    BY <1>6 DEF CreateAdditionalDisk, i
  <2>2. pc = "diskCreate"
    BY <1>6 DEF CreateAdditionalDisk, Virsh, Command
  <2>3. /\ r \in Reply /\ r.host.dom = host.dom /\ r.host.store = host.store
        /\ r.host.disks \in {host.disks, host.disks \cup {i}}
    BY <1>1, <1>2, <2>2, CreateDiskType
  <2> HIDE DEF r
  <2>4. /\ Frame /\ host' \in {host, r.host}
        /\ pc' \in {"diskPath", "artifacts", "error"}
    BY <2>1, <2>3, HandleStep
  <2> QED
    BY <2>2, <2>3, <2>4, <1>3
<1>7. CASE AdditionalDiskPath
  <2> DEFINE r == GetDiskPath(host, i)
  <2>1. Virsh("diskPath", r, HandleLibvirtError("diskDone", "diskDone", "artifacts"))
    BY <1>7 DEF AdditionalDiskPath, i
  <2>2. r \in Reply /\ r.host = host /\ (r.ans \in {"ok", "no"} => i \in host.disks)
    BY <1>1, <1>2, DiskQueries
  <2> HIDE DEF r
  <2>3. /\ Frame /\ host' = host /\ pc = "diskPath"
        /\ pc' \in {"diskDone", "artifacts", "error"}
        /\ pc' = "diskDone" => r.ans \in {"ok", "no"}
    BY <2>1, <2>2, HandleStep
  <2> QED
    BY <2>2, <2>3, <1>3
<1>8. CASE AdditionalDiskDone
  <2> DEFINE m == [mem EXCEPT !.disks = @ + 1]
  <2>1. Local("diskDone", "disks", m)
    BY <1>8 DEF AdditionalDiskDone
  <2>2. pc = "diskDone"
    BY <2>1 DEF Local
  <2>3. i \in 0..NDisks
    BY <1>2, <2>2
  <2>4. /\ m \in Memory /\ m.fin = mem.fin /\ m.deleting = mem.deleting
        /\ m.disks = i /\ m.failed = mem.failed /\ m.ready = mem.ready
    BY <1>1, <2>3 DEF Memory, i
  <2> HIDE DEF m
  <2> QED
    BY <2>1, <2>2, <2>4, LocalStep DEF Adding, SameDefinition, Steps, i
<1> QED
  BY <1>4, <1>5, <1>6, <1>7, <1>8 DEF AdditionalDisksStep

(* The domain is defined with what the reconcile made, and status is only  *)
(* reached past a domain that was seen.                                    *)
LEMMA DomainAdds ==
  ASSUME TypeOK, OnItsPath, DomainStep
  PROVE  Adding /\ TypeOK'
<1> USE DEF NormalSteps, PoolSteps, ReturnSteps, DiskSteps, ISOSteps
<1>1. host \in Host /\ mem \in Memory /\ mem.pool \in Pools /\ mem.disks \in 0..NDisks
  BY DEF TypeOK, Memory
<1>2. ASSUME Frame, host'.store = host.store, host'.disks = host.disks,
             \/ SameDefinition(host.dom, host'.dom)
             \/ /\ pc = "define"
                /\ host.dom.state = "absent" /\ host'.dom.state # "absent"
                /\ host'.dom.pool = mem.pool /\ host'.dom.disks = mem.disks,
             pc' \in {"getDomain", "domPaths", "define", "start", "started",
                      "status", "done", "error"},
             pc' = "define" /\ mem.pool = "store" => host'.store["root"] # "absent",
             pc' = "status" => host'.dom.state # "absent"
      PROVE  Adding /\ TypeOK'
  BY <1>2, FrameMemory, FrameType DEF Adding, Frame, Steps
<1>3. CASE DomainIsDefined
  <2>1. /\ Frame /\ host' = host
        /\ pc' \in {"getDomain", "domPaths", "define", "start", "started", "done", "error"}
        /\ pc' # "define"
    BY <1>3, <1>1, Queries, HandleStep DEF DomainIsDefined
  <2>2. SameDefinition(host.dom, host'.dom)
    BY <2>1 DEF SameDefinition
  <2> QED
    BY <2>1, <2>2, <1>2
<1>4. CASE DomainPaths
  <2> DEFINE p == GetVolumePath(host, mem.pool, "root")
             r == IF p.ans = "ok" /\ spec.format = "cloud-init"
                  THEN GetVolumePath(host, mem.pool, "iso") ELSE p
  <2>1. Virsh("domPaths", r, HandleLibvirtError("define", "define", "done"))
    BY <1>4 DEF DomainPaths
  <2>2. /\ r \in Reply /\ r.host = host
        /\ r.ans \in {"ok", "no"} /\ mem.pool = "store" => host.store["root"] # "absent"
    BY <1>1, VolumeQueries DEF Volumes
  <2> HIDE DEF r
  <2>3. /\ Frame /\ host' = host
        /\ pc' \in {"define", "done", "error"}
        /\ pc' = "define" => r.ans \in {"ok", "no"}
    BY <2>1, <2>2, HandleStep
  <2> QED
    BY <2>2, <2>3, <1>2 DEF SameDefinition
<1>5. CASE Define
  <2> DEFINE r == DefineDomain(host, mem.pool, mem.disks)
  <2>1. Virsh("define", r, HandleLibvirtError("getDomain", "getDomain", "done"))
    BY <1>5 DEF Define
  <2>2. /\ r \in Reply /\ r.host.store = host.store /\ r.host.disks = host.disks
        /\ r.host.dom.state # "absent"
        /\ \/ r.host.dom = host.dom
           \/ /\ host.dom.state = "absent"
              /\ r.host.dom.pool = mem.pool /\ r.host.dom.disks = mem.disks
    BY <1>1, DefineDomainType
  <2> HIDE DEF r
  <2>3. /\ Frame /\ host' \in {host, r.host} /\ pc = "define"
        /\ pc' \in {"getDomain", "done", "error"}
    BY <2>1, <2>2, HandleStep
  <2> QED
    BY <2>2, <2>3, <1>2 DEF SameDefinition
<1>6. CASE DomainState
  <2>1. /\ Frame /\ host' = host /\ pc' \in {"status", "start", "done", "error"}
        /\ pc' = "status" => GetDomain(host).ans \in {"ok", "no"}
    BY <1>6, <1>1, Queries, HandleStep DEF DomainState
  <2> QED
    BY <2>1, <1>1, <1>2, Queries DEF SameDefinition
<1>7. CASE Start
  <2> DEFINE r == StartDomain(host, spec.format)
  <2>1. Virsh("start", r, HandleLibvirtError("started", "started", "done"))
    BY <1>7 DEF Start
  <2>2. /\ r \in Reply /\ r.host.store = host.store /\ r.host.disks = host.disks
        /\ SameDefinition(host.dom, r.host.dom)
    BY <1>1, StartDomainType DEF SameDefinition
  <2> HIDE DEF r
  <2>3. Frame /\ host' \in {host, r.host} /\ pc' \in {"started", "done", "error"}
    BY <2>1, <2>2, HandleStep
  <2>4. SameDefinition(host.dom, host'.dom)
    BY <2>2, <2>3 DEF SameDefinition
  <2> QED
    BY <2>2, <2>3, <2>4, <1>2
<1>8. CASE DomainStarted
  <2>1. /\ Frame /\ host' = host /\ pc' \in {"status", "done", "error"}
        /\ pc' = "status" => GetDomain(host).ans \in {"ok", "no"}
    BY <1>8, <1>1, Queries, HandleStep DEF DomainStarted
  <2>2. pc' = "status" => host'.dom.state # "absent"
    BY <2>1, <1>1, Queries
  <2>3. SameDefinition(host.dom, host'.dom)
    BY <2>1 DEF SameDefinition
  <2> QED
    BY <2>1, <2>2, <2>3, <1>2
<1>9. CASE UpdateStatus
  <2> DEFINE m == [mem EXCEPT !.ready = TRUE]
  <2>1. PICK next \in ReturnSteps : Local("status", next, m)
    BY <1>9 DEF UpdateStatus
  <2>2. /\ m \in Memory /\ m.fin = mem.fin /\ m.deleting = mem.deleting
        /\ m.disks = mem.disks /\ m.failed = mem.failed
    BY <1>1, Zenon DEF Memory
  <2> HIDE DEF m
  <2>3. /\ TypeOK' /\ pc = "status" /\ pc' \in ReturnSteps /\ mem' = m /\ host' = host
        /\ UNCHANGED <<spec, obj, held, cached, snap>>
    BY <2>1, <2>2, LocalStep DEF Steps
  <2>4. SameDefinition(host.dom, host'.dom)
    BY <2>3 DEF SameDefinition
  <2> QED
    BY <2>2, <2>3, <2>4 DEF Adding
<1> QED
  BY <1>3, <1>4, <1>5, <1>6, <1>7, <1>8, <1>9 DEF DomainStep

LEMMA NormalAdds ==
  ASSUME TypeOK, OnItsPath, NormalStep
  PROVE  Adding /\ TypeOK'
BY ReconcileNormalAdds, PreparationAdds, RootDiskAdds, BootstrapAdds, DisksAdd,
   DomainAdds DEF NormalStep
-----------------------------------------------------------------------------
(* DestroyPool touches neither the domain nor a persistent volume, and     *)
(* returns to its caller.                                                  *)
LEMMA PoolStepType ==
  ASSUME TypeOK, PoolStep
  PROVE  /\ TypeOK' /\ Frame /\ Untouched(host, host')
         /\ pc \in PoolSteps
         /\ pc' \in PoolSteps \cup {"error"}
              \cup (IF mem.deleting THEN {"delNode"} ELSE {"mkdir", "bootstrap"})
<1> DEFINE Targets == PoolSteps \cup {"error"}
              \cup (IF mem.deleting THEN {"delNode"} ELSE {"mkdir", "bootstrap"})
<1>1. host \in Host
  BY DEF TypeOK
<1>2. ASSUME Frame, pc \in PoolSteps, Untouched(host, host'), pc' \in Targets
      PROVE  /\ TypeOK' /\ Frame /\ Untouched(host, host')
             /\ pc \in PoolSteps /\ pc' \in Targets
  BY <1>2, FrameType DEF Steps, PoolSteps, ReturnSteps, NormalSteps, DeleteSteps
<1>3. ASSUME NEW r \in Reply, NEW from \in PoolSteps, NEW next \in PoolSteps,
             Untouched(host, r.host), Plain(from, r, IgnoreErrors(next))
      PROVE  /\ TypeOK' /\ Frame /\ Untouched(host, host')
             /\ pc \in PoolSteps /\ pc' \in Targets
  <2>1. Frame /\ pc = from /\ host' \in {host, r.host} /\ pc' = next
    BY <1>3, IgnoreErrorsStep
  <2>2. Untouched(host, host')
    BY <1>3, <2>1, UntouchedItself
  <2> QED
    BY <1>2, <1>3, <2>1, <2>2
<1>4. CASE DestroyPoolDump
  <2> DEFINE goto == [a \in Answers |->
                         CASE a = "ok" -> "stop"
                           [] a = "notFound" -> "poolGone"
                           [] a = "terminal" /\ ~mem.deleting -> "bootstrap"
                           [] OTHER -> "error"]
  <2>1. Virsh("dump", DumpPool(host), goto)
    BY <1>4 DEF DestroyPoolDump
  <2>2. \A a \in Answers : goto[a] \in Targets
    BY DEF PoolSteps, Answers
  <2> HIDE DEF goto
  <2>3. DumpPool(host) \in Reply /\ DumpPool(host).host = host
    BY <1>1, Queries
  <2>4. Frame /\ pc = "dump" /\ host' = host /\ pc' \in Targets
    BY <2>1, <2>2, <2>3, CommandStep
  <2> QED
    BY <1>2, <2>4, UntouchedItself DEF PoolSteps
<1>5. CASE DestroyPoolStop
  BY <1>5, <1>1, <1>3, PoolCommands DEF DestroyPoolStop, PoolSteps
<1>6. CASE DestroyPoolUndefine
  BY <1>6, <1>1, <1>3, PoolCommands, SMTT(30) DEF DestroyPoolUndefine, PoolSteps
<1>7. CASE DestroyPoolUnmount
  BY <1>7, <1>1, <1>3, DirectoryCommands DEF DestroyPoolUnmount, PoolSteps
<1>8. CASE DestroyPoolRemove
  BY <1>8, <1>1, <1>3, DirectoryCommands DEF DestroyPoolRemove, PoolSteps
<1>9. CASE DestroyPoolReturn
  <2>1. /\ pc = "poolGone" /\ host' = host /\ mem' = mem /\ faults' = faults
        /\ pc' \in Targets
        /\ UNCHANGED <<spec, obj, held, cached, queued, snap, node, gate, ready, secret>>
    BY <1>9 DEF DestroyPoolReturn, Local, env, api
  <2>2. Frame
    BY <2>1 DEF Frame, TypeOK
  <2> QED
    BY <1>2, <2>1, <2>2, UntouchedItself DEF PoolSteps
<1> QED
  BY <1>4, <1>5, <1>6, <1>7, <1>8, <1>9 DEF PoolStep

(* Called by reconcileRootDisk, it is an Adding step like its caller's.    *)
LEMMA PoolStepAdds ==
  ASSUME TypeOK, PoolStep, ~mem.deleting
  PROVE  Adding /\ TypeOK'
BY PoolStepType, PlainAdding DEF PoolSteps, DiskSteps, ISOSteps, NormalSteps, ReturnSteps
-----------------------------------------------------------------------------
(* The ephemeral pool and the tmpfs under it.                              *)

(* A host after a command that leaves the ephemeral pool and what is       *)
(* mounted under it alone.                                                 *)
SameMount(h, g) ==
    /\ g.pool = h.pool
    /\ h.stack = << >> => g.stack = << >>
    /\ Mounted(h) => Mounted(g)

LEMMA SameMountKeeps ==
  ASSUME NEW h, NEW g, SameMount(h, g)
  PROVE  (Gone(h) => Gone(g)) /\ (Up(h) => Up(g))
BY DEF SameMount, Gone, Up

LEMMA SameMountItself ==
  ASSUME NEW h, NEW g, g.pool = h.pool, g.stack = h.stack
  PROVE  SameMount(h, g)
BY DEF SameMount, Mounted

(* What a sequence of two layers is under its top.                         *)
LEMMA Joined ==
  ASSUME NEW S, NEW u \in Seq(S), NEW t \in Seq(S)
  PROVE  /\ Len(u \o t) = Len(u) + Len(t)
         /\ \A i \in 1..(Len(u) + Len(t)) :
                (u \o t)[i] = IF i <= Len(u) THEN u[i] ELSE t[i - Len(u)]
OBVIOUS

LEMMA UnderTheTop ==
  ASSUME NEW S, NEW s \in Seq(S), Len(s) = 2, NEW l \in S
  PROVE  /\ Tail(s) = << s[2] >>
         /\ Len(<< l >> \o Tail(s)) = 2 /\ (<< l >> \o Tail(s))[2] = s[2]
<1>1. s # << >>
  OBVIOUS
<1>2. /\ Tail(s) \in Seq(S) /\ Len(Tail(s)) = Len(s) - 1
      /\ \A i \in 1..Len(Tail(s)) : Tail(s)[i] = s[i + 1]
  BY <1>1
<1> DEFINE t == Tail(s)
           u == << l >>
<1>3. u \in Seq(S) /\ Len(u) = 1
  OBVIOUS
<1> HIDE DEF t, u
<1>4. t \in Seq(S) /\ Len(t) = 1 /\ \A i \in 1..Len(t) : t[i] = s[i + 1]
  BY <1>2 DEF t
<1>5. t[1] = s[2]
  BY <1>4
<1>6. t = << s[2] >>
  BY <1>4, <1>5
<1>7. Len(u \o t) = 2 /\ (u \o t)[2] = t[1]
  <2> DEFINE v == u \o t
  <2>1. /\ Len(v) = Len(u) + Len(t)
        /\ \A i \in 1..(Len(u) + Len(t)) :
               v[i] = IF i <= Len(u) THEN u[i] ELSE t[i - Len(u)]
    BY <1>3, <1>4, Joined, Zenon
  <2> HIDE DEF v
  <2>2. Len(v) = 2 /\ v[2] = t[1]
    BY <1>3, <1>4, <2>1
  <2> QED
    BY <2>2 DEF v
<1> QED
  BY <1>5, <1>6, <1>7 DEF t, u

LEMMA SetTopMount ==
  ASSUME NEW h \in Host, h.stack # << >>, NEW f \in {"root", "iso", "ign"},
         NEW c \in Content
  PROVE  SameMount(h, SetTop(h, f, c))
<1> DEFINE s == h.stack
           l == [Head(s) EXCEPT ![f] = c]
           g == SetTop(h, f, c)
<1>1. s \in Seq(Layer) /\ Head(s) \in Layer /\ Tail(s) \in Seq(Layer)
  BY DEF Host
<1>2. l \in Layer
  BY <1>1 DEF Layer
<1>3. g.pool = h.pool /\ g.stack = << l >> \o Tail(s)
  BY Zenon DEF SetTop, Host
<1> HIDE DEF l, g, s
<1>4. ASSUME Len(s) = 2
      PROVE  Len(<< l >> \o Tail(s)) = 2 /\ (<< l >> \o Tail(s))[2] = s[2]
  BY <1>1, <1>2, <1>4, UnderTheTop
<1> QED
  BY <1>3, <1>4 DEF SameMount, Mounted, s, g

LEMMA SetVolumeMount ==
  ASSUME NEW h \in Host, NEW p \in Pools, NEW v \in Volumes, NEW c \in Content,
         p = "eph" => h.stack # << >>
  PROVE  SameMount(h, SetVolume(h, p, v, c))
<1>1. CASE p = "store"
  <2>1. SetVolume(h, p, v, c).pool = h.pool /\ SetVolume(h, p, v, c).stack = h.stack
    BY <1>1 DEF SetVolume, Host
  <2> QED
    BY <2>1, SameMountItself
<1>2. CASE p = "eph"
  BY <1>2, SetTopMount DEF SetVolume, Volumes
<1> QED
  BY <1>1, <1>2 DEF Pools

(* No command on a volume, a file or the domain touches the mount.         *)
LEMMA VolumesKeepMount ==
  ASSUME NEW h \in Host, NEW p \in Pools, NEW v \in Volumes, NEW c \in Content
  PROVE  /\ SameMount(h, CreateVolumeAs(h, p, v, c).host)
         /\ SameMount(h, UploadVolume(h, p, v).host)
         /\ SameMount(h, DeleteVolume(h, p, v).host)
<1>1. "full" \in Content /\ "absent" \in Content
  BY DEF Content
<1>2. SameMount(h, h)
  BY SameMountItself
<1>3. p = "eph" /\ VolContent(h, p, v) # "absent" => h.stack # << >>
  BY DEF VolContent, Top, EmptyLayer, Volumes
<1>4. SameMount(h, CreateVolumeAs(h, p, v, c).host)
  BY <1>2, SetVolumeMount, FailType DEF CreateVolumeAs, Answer
<1>5. SameMount(h, UploadVolume(h, p, v).host)
  BY <1>1, <1>2, <1>3, SetVolumeMount, FailType DEF UploadVolume, Answer
<1>6. SameMount(h, DeleteVolume(h, p, v).host)
  BY <1>1, <1>2, <1>3, SetVolumeMount, FailType DEF DeleteVolume, Removed, Answer
<1> QED
  BY <1>4, <1>5, <1>6

LEMMA CloneKeepsMount ==
  ASSUME NEW h \in Host
  PROVE  SameMount(h, CloneVolume(h).host)
<1>1. "full" \in Content /\ "root" \in Volumes /\ "store" \in Pools
  BY DEF Content, Volumes, Pools
<1>2. SameMount(h, SetVolume(h, "store", "root", "full")) /\ SameMount(h, h)
  BY <1>1, SetVolumeMount, SameMountItself
<1> QED
  BY <1>2, FailType DEF CloneVolume, Answer

LEMMA DisksKeepMount ==
  ASSUME NEW h \in Host, NEW i
  PROVE  SameMount(h, CreateDisk(h, i).host) /\ SameMount(h, DeleteDisk(h, i).host)
<1>1. ASSUME NEW d PROVE SameMount(h, [h EXCEPT !.disks = d])
  BY SameMountItself DEF Host
<1>2. SameMount(h, h)
  BY SameMountItself
<1>3. SameMount(h, CreateDisk(h, i).host)
  BY <1>1, <1>2, FailType, Zenon DEF CreateDisk, Answer
<1>4. SameMount(h, DeleteDisk(h, i).host)
  BY <1>1, <1>2, FailType, Zenon DEF DeleteDisk, Removed, Answer
<1> QED
  BY <1>3, <1>4

LEMMA FilesKeepMount ==
  ASSUME NEW h \in Host
  PROVE  /\ SameMount(h, TruncateFile(h).host)
         /\ SameMount(h, FillFile(h).host)
         /\ SameMount(h, DeleteRemoteFile(h).host)
         /\ Mounted(h) => SameMount(h, MakeDirectory(h).host)
<1>1. \A c \in Content : h.stack # << >> => SameMount(h, SetTop(h, "ign", c))
  BY SetTopMount
<1>2. SameMount(h, h) /\ "full" \in Content /\ "empty" \in Content /\ "absent" \in Content
  BY SameMountItself DEF Content
<1>3. SameMount(h, TruncateFile(h).host) /\ SameMount(h, FillFile(h).host)
  BY <1>1, <1>2 DEF TruncateFile, FillFile, WriteFile, Answer
<1>4. SameMount(h, DeleteRemoteFile(h).host)
  BY <1>1, <1>2 DEF DeleteRemoteFile, Answer
<1>5. ASSUME Mounted(h)
      PROVE  SameMount(h, MakeDirectory(h).host)
  <2>1. h.stack # << >>
    BY <1>5 DEF Mounted
  <2>2. MakeDirectory(h).host.pool = h.pool /\ MakeDirectory(h).host.stack = h.stack
    BY <2>1, Zenon DEF MakeDirectory, Answer, Host
  <2> QED
    BY <2>2, SameMountItself
<1> QED
  BY <1>3, <1>4, <1>5

LEMMA DomainsKeepMount ==
  ASSUME NEW h \in Host, NEW p, NEW n, NEW f
  PROVE  /\ SameMount(h, DefineDomain(h, p, n).host)
         /\ SameMount(h, StartDomain(h, f).host)
         /\ SameMount(h, DestroyDomain(h).host)
         /\ SameMount(h, UndefineDomain(h).host)
<1>1. ASSUME NEW d PROVE SameMount(h, [h EXCEPT !.dom = d])
  BY SameMountItself DEF Host
<1>2. SameMount(h, h)
  BY SameMountItself
<1>3. SameMount(h, DefineDomain(h, p, n).host)
  BY <1>1, <1>2, FailType, Zenon DEF DefineDomain, Answer
<1>4. SameMount(h, UndefineDomain(h).host)
  BY <1>1, <1>2, FailType, Zenon DEF UndefineDomain, Removed, Answer
<1>5. ASSUME NEW s, NEW k
      PROVE  SameMount(h, [h EXCEPT !.dom.state = s, !.dom.depth = k])
  <2> DEFINE g == [h EXCEPT !.dom.state = s, !.dom.depth = k]
  <2>1. g.pool = h.pool /\ g.stack = h.stack
    BY Zenon DEF Host
  <2> HIDE DEF g
  <2>2. SameMount(h, g)
    BY <2>1, SameMountItself
  <2> QED
    BY <2>2 DEF g
<1>6. SameMount(h, StartDomain(h, f).host)
  BY <1>2, <1>5, FailType, Zenon DEF StartDomain, Answer
<1>7. SameMount(h, DestroyDomain(h).host)
  BY <1>2, <1>5, FailType, Zenon DEF DestroyDomain, Removed, Answer
<1> QED
  BY <1>3, <1>4, <1>6, <1>7

(* CreateTmpfsPool makes the pool from nothing, DestroyPool takes it away  *)
(* again, one command at a time.                                           *)
LEMMA PoolIsMade ==
  ASSUME NEW h \in Host
  PROVE  /\ Gone(h) =>
              /\ MakeDirectory(h).ans = "ok"
              /\ MakeDirectory(h).host.pool = "undefined"
              /\ MakeDirectory(h).host.stack = << EmptyLayer >>
         /\ h.pool = "undefined" /\ h.stack = << EmptyLayer >> =>
              /\ MountTmpfs(h).ans = "ok"
              /\ MountTmpfs(h).host.pool = "undefined" /\ Mounted(MountTmpfs(h).host)
         /\ h.pool = "undefined" /\ Mounted(h) =>
              /\ DefinePool(h).ans = "ok"
              /\ DefinePool(h).host.pool = "inactive" /\ Mounted(DefinePool(h).host)
         /\ h.pool = "inactive" /\ Mounted(h) =>
              StartPool(h).ans = "ok" /\ Up(StartPool(h).host)
<1>0. EmptyLayer \in Layer /\ h.stack \in Seq(Layer)
  BY DEF EmptyLayer, Layer, Content, Host
<1>1. ASSUME Gone(h)
      PROVE  /\ MakeDirectory(h).ans = "ok"
             /\ MakeDirectory(h).host.pool = "undefined"
             /\ MakeDirectory(h).host.stack = << EmptyLayer >>
  BY <1>1, Zenon DEF Gone, MakeDirectory, Answer, Host
<1>2. ASSUME h.pool = "undefined", h.stack = << EmptyLayer >>
      PROVE  /\ MountTmpfs(h).ans = "ok"
             /\ MountTmpfs(h).host.pool = "undefined" /\ Mounted(MountTmpfs(h).host)
  <2> DEFINE s == << EmptyLayer >> \o << EmptyLayer >>
  <2>1. h.stack # << >>
    BY <1>2
  <2>2. /\ MountTmpfs(h).ans = "ok" /\ MountTmpfs(h).host.pool = "undefined"
        /\ MountTmpfs(h).host.stack = s
    BY <1>2, <2>1, Zenon DEF MountTmpfs, Answer, Host
  <2>3. Len(s) = 2 /\ s[2] = EmptyLayer
    BY <1>0
  <2> QED
    BY <2>2, <2>3 DEF Mounted
<1>3. \A q : /\ [h EXCEPT !.pool = q].pool = q /\ [h EXCEPT !.pool = q].stack = h.stack
             /\ Mounted(h) => Mounted([h EXCEPT !.pool = q])
  BY DEF Host, Mounted
<1>4. ASSUME h.pool = "undefined", Mounted(h)
      PROVE  /\ DefinePool(h).ans = "ok"
             /\ DefinePool(h).host.pool = "inactive" /\ Mounted(DefinePool(h).host)
  BY <1>3, <1>4, Zenon DEF DefinePool, Answer
<1>5. ASSUME h.pool = "inactive", Mounted(h)
      PROVE  StartPool(h).ans = "ok" /\ Up(StartPool(h).host)
  <2>1. h.stack # << >>
    BY <1>5 DEF Mounted
  <2> DEFINE g == [h EXCEPT !.pool = "active"]
  <2>2. StartPool(h) = Answer(g, "ok")
    BY <1>5, <2>1 DEF StartPool
  <2>3. g.pool = "active" /\ Mounted(g)
    BY <1>3, <1>5, Zenon
  <2> HIDE DEF g
  <2> QED
    BY <2>2, <2>3 DEF Answer, Up
<1> QED
  BY <1>1, <1>2, <1>4, <1>5

LEMMA PoolIsUnmade ==
  ASSUME NEW h \in Host
  PROVE  /\ Up(h) => StopPool(h).host.pool = "inactive" /\ Mounted(StopPool(h).host)
         /\ h.pool = "inactive" /\ Mounted(h) =>
              UndefinePool(h).host.pool = "undefined" /\ Mounted(UndefinePool(h).host)
         /\ h.pool = "undefined" /\ Mounted(h) /\ h.dom.state = "absent" =>
              /\ Unmount(h).host.pool = "undefined"
              /\ Unmount(h).host.stack = << EmptyLayer >>
         /\ h.pool = "undefined" /\ h.stack = << EmptyLayer >> =>
              Gone(RemoveDirectory(h).host)
<1>0. EmptyLayer \in Layer /\ h.stack \in Seq(Layer)
  BY DEF EmptyLayer, Layer, Content, Host
<1>1. \A q : /\ [h EXCEPT !.pool = q].pool = q
             /\ Mounted(h) => Mounted([h EXCEPT !.pool = q])
  BY DEF Host, Mounted
<1>2. Up(h) => StopPool(h).host.pool = "inactive" /\ Mounted(StopPool(h).host)
  BY <1>1, Zenon DEF Up, StopPool, Answer
<1>3. h.pool = "inactive" /\ Mounted(h) =>
         UndefinePool(h).host.pool = "undefined" /\ Mounted(UndefinePool(h).host)
  BY <1>1, Zenon DEF UndefinePool, Answer
<1>4. ASSUME h.pool = "undefined", Mounted(h), h.dom.state = "absent"
      PROVE  Unmount(h).host.pool = "undefined" /\ Unmount(h).host.stack = << EmptyLayer >>
  <2>1. Len(h.stack) > 1 /\ ~Busy(h)
    BY <1>4 DEF Mounted, Busy
  <2>2. Unmount(h).host.pool = "undefined" /\ Unmount(h).host.stack = Tail(h.stack)
    BY <1>4, <2>1, Zenon DEF Unmount, Answer, Host
  <2>3. Tail(h.stack) = << EmptyLayer >>
    BY <1>0, <1>4, UnderTheTop DEF Mounted
  <2> QED
    BY <2>2, <2>3
<1>5. h.pool = "undefined" /\ h.stack = << EmptyLayer >> => Gone(RemoveDirectory(h).host)
  BY Zenon DEF RemoveDirectory, Answer, Host, Gone
<1> QED
  BY <1>2, <1>3, <1>4, <1>5
-----------------------------------------------------------------------------
(* Steps that meet no fault, and steps past the ephemeral pool.            *)

(* Without a fault the worker sees the undisturbed reply; an error that    *)
(* the command did not cause costs one. reconcileNormal records a terminal *)
(* error.                                                                  *)
LEMMA CommandFaults ==
  ASSUME TypeOK, NEW r \in Reply, NEW from, NEW goto,
         Virsh(from, r, goto) \/ Plain(from, r, goto)
  PROVE  \E a \in Answers :
            /\ pc' = goto[a]
            /\ a = "terminal" /\ ~mem.deleting => mem'.failed
            /\ \/ faults' = faults /\ host' = r.host /\ a = r.ans
               \/ faults' = faults + 1 /\ a \in {"transient", "terminal"}
<1>1. PICK x \in Outcomes(r) :
         /\ host' = x.host
         /\ faults' = IF x = r THEN faults ELSE faults + 1
         /\ pc' = goto[x.ans]
         /\ mem' = IF x.ans = "terminal" /\ ~mem.deleting THEN Failed(mem)
                   ELSE mem
  BY DEF Virsh, Plain, Command, PlainOutcomes
<1>2. x \in Reply /\ (x = r \/ x.ans \in {"transient", "terminal"})
  BY <1>1, OutcomesType
<1>3. x.ans \in Answers
  BY <1>2 DEF Reply
<1>4. x.ans = "terminal" /\ ~mem.deleting => mem'.failed
  BY <1>1, FailedType DEF TypeOK
<1> QED
  BY <1>1, <1>2, <1>3, <1>4

(* A command of a life without faults.                                     *)
Quietly(from, r, goto) ==
    /\ faults = 0 /\ pc = from /\ pc' = goto[r.ans] /\ host' = r.host
    /\ mem'.deleting = mem.deleting /\ mem'.fin = mem.fin
    /\ UNCHANGED <<spec, obj, held, snap>>

LEMMA Undisturbed ==
  ASSUME TypeOK, NEW r \in Reply, NEW from, NEW goto,
         Virsh(from, r, goto) \/ Plain(from, r, goto), faults' = 0
  PROVE  Quietly(from, r, goto)
<1>1. faults = 0 /\ pc' = goto[r.ans] /\ host' = r.host
  BY CommandFaults DEF TypeOK
<1>2. Frame /\ pc = from
  BY CommandStep
<1> QED
  BY <1>1, <1>2, FrameMemory DEF Quietly, Frame

(* In reconcileNormal, what follows a command follows its answer, unless a *)
(* terminal error has been recorded.                                       *)
LEMMA HandleFaults ==
  ASSUME TypeOK, ~mem.deleting, NEW r \in Reply, NEW from, NEW ok, NEW no, NEW skip,
         \/ Virsh(from, r, HandleLibvirtError(ok, no, skip))
         \/ Plain(from, r, HandleLibvirtError(ok, no, skip))
  PROVE  /\ faults' \in {faults, faults + 1}
         /\ \/ pc' = "error"
            \/ pc' = ok /\ r.ans = "ok" /\ host' = r.host /\ faults' = faults
            \/ pc' = no /\ r.ans = "no" /\ host' = r.host /\ faults' = faults
            \/ pc' = skip /\ mem'.failed /\ (faults' = faults => r.ans = "terminal")
<1> DEFINE goto == HandleLibvirtError(ok, no, skip)
<1>1. PICK a \in Answers :
         /\ pc' = goto[a]
         /\ a = "terminal" /\ ~mem.deleting => mem'.failed
         /\ \/ faults' = faults /\ host' = r.host /\ a = r.ans
            \/ faults' = faults + 1 /\ a \in {"transient", "terminal"}
  BY CommandFaults
<1>2. goto[a] = IF a = "ok" THEN ok ELSE IF a = "no" THEN no
                ELSE IF a = "terminal" THEN skip ELSE "error"
  BY <1>1 DEF HandleLibvirtError, Answers
<1>3. faults # faults + 1
  BY FaultsAssumption DEF TypeOK
<1> HIDE DEF goto
<1> QED
  BY <1>1, <1>2, <1>3

(* reconcileAdditionalDisks, up to the step that counts a disk.            *)
DiskLoop == {"disks", "diskExists", "diskCreate", "diskPath"}

(* What a step of reconcileNormal past the ephemeral pool may do.          *)
Past ==
    /\ pc' \in AfterPool \cup ReturnSteps
    /\ mem'.pool = mem.pool
    /\ faults' >= faults
    /\ Mounted(host) => SameMount(host, host')
    /\ pc' \in Defining => pc \in Defining \cup DiskLoop
    /\ pc' = "diskCreate" => pc \in DiskLoop

LEMMA PastHandle ==
  ASSUME TypeOK, ~mem.deleting, NEW r \in Reply,
         Mounted(host) => SameMount(host, r.host),
         NEW from, NEW ok, NEW no, NEW skip,
         \/ Virsh(from, r, HandleLibvirtError(ok, no, skip))
         \/ Plain(from, r, HandleLibvirtError(ok, no, skip)),
         {ok, no, skip} \subseteq AfterPool \cup ReturnSteps,
         from \in Defining \cup DiskLoop \/ {ok, no, skip} \cap Defining = {},
         from \in DiskLoop \/ "diskCreate" \notin {ok, no, skip}
  PROVE  Past
<1>1. Frame /\ host' \in {host, r.host} /\ pc = from /\ pc' \in {ok, no, skip, "error"}
  BY HandleStep
<1>2. faults' \in {faults, faults + 1}
  BY HandleFaults
<1>3. faults' >= faults
  BY <1>2 DEF TypeOK
<1>4. SameMount(host, host)
  BY SameMountItself
<1>5. "error" \notin Defining /\ "error" # "diskCreate"
  BY DEF Defining
<1> QED
  BY <1>1, <1>3, <1>4, <1>5, FrameMemory DEF Past, ReturnSteps

LEMMA PastLocal ==
  ASSUME TypeOK, NEW from, NEW next \in AfterPool \cup ReturnSteps, NEW m,
         m.pool = mem.pool, Local(from, next, m),
         next \in Defining => from \in Defining \cup DiskLoop,
         next = "diskCreate" => from \in DiskLoop
  PROVE  Past
BY SameMountItself DEF Local, Past, TypeOK

LEMMA RootDiskGoesPast ==
  ASSUME TypeOK, ~mem.deleting,
         RootDiskExists \/ CloneRootDisk \/ BaseImagePath \/ CreateRootDisk
  PROVE  Past
<1> USE DEF AfterPool, Defining, DiskLoop
<1>1. host \in Host /\ mem.pool \in Pools /\ SameMount(host, host)
  BY SameMountItself DEF TypeOK, Memory
<1>2. "root" \in Volumes /\ "full" \in Content
  BY DEF Volumes, Content
<1>3. ASSUME NEW r \in Reply
      PROVE  TerminalIfMissing(r) \in Reply /\ TerminalIfMissing(r).host = r.host
  BY DEF TerminalIfMissing, Answer, Reply, Answers
<1>4. CASE RootDiskExists
  <2> DEFINE r == VolumeExists(host, mem.pool, "root")
             no == IF spec.clone THEN "clone" ELSE "basePath"
  <2>1. r \in Reply /\ r.host = host
    BY <1>1, <1>2, VolumeQueries
  <2>2. Virsh("rootExists", r, HandleLibvirtError("bootstrap", no, "bootstrap"))
    BY <1>4 DEF RootDiskExists
  <2>3. no \in {"clone", "basePath"}
    OBVIOUS
  <2> HIDE DEF r, no
  <2> QED
    BY <1>1, <2>1, <2>2, <2>3, PastHandle
<1>5. CASE CloneRootDisk
  <2> DEFINE r == TerminalIfMissing(CloneVolume(host))
  <2>1. r \in Reply /\ SameMount(host, r.host)
    BY <1>1, <1>3, CloneVolumeType, CloneKeepsMount
  <2>2. Virsh("clone", r, HandleLibvirtError("bootstrap", "bootstrap", "bootstrap"))
    BY <1>5 DEF CloneRootDisk
  <2> HIDE DEF r
  <2> QED
    BY <2>1, <2>2, PastHandle
<1>6. CASE BaseImagePath
  <2> DEFINE r == TerminalIfMissing(GetBasePath(host))
  <2>1. r \in Reply /\ r.host = host
    BY <1>1, <1>3, Queries
  <2>2. Virsh("basePath", r, HandleLibvirtError("createRoot", "createRoot", "bootstrap"))
    BY <1>6 DEF BaseImagePath
  <2> HIDE DEF r
  <2> QED
    BY <1>1, <2>1, <2>2, PastHandle
<1>7. CASE CreateRootDisk
  <2> DEFINE r == CreateVolumeAs(host, mem.pool, "root", "full")
  <2>1. r \in Reply /\ SameMount(host, r.host)
    BY <1>1, <1>2, CreateVolumeType, VolumesKeepMount
  <2>2. Virsh("createRoot", r, HandleLibvirtError("bootstrap", "bootstrap", "bootstrap"))
    BY <1>7 DEF CreateRootDisk
  <2> HIDE DEF r
  <2> QED
    BY <2>1, <2>2, PastHandle
<1> QED
  BY <1>4, <1>5, <1>6, <1>7

LEMMA BootstrapGoesPast ==
  ASSUME TypeOK, ~mem.deleting, BootstrapStep \/ ReconcileBootArtifacts
  PROVE  Past
<1> USE DEF AfterPool, Defining, DiskLoop
<1>1. host \in Host /\ mem.pool \in Pools /\ SameMount(host, host)
  BY SameMountItself DEF TypeOK, Memory
<1>2. "iso" \in Volumes /\ "empty" \in Content
  BY DEF Volumes, Content
<1>3. CASE ReadBootstrapData
  <2> DEFINE r == Answer(host, "ok")
             next == IF spec.format = "ignition" THEN "ignDir" ELSE "isoExists"
  <2>1. r \in Reply /\ r.host = host
    BY <1>1, AnswerType DEF Answers
  <2>2. Plain("bootstrap", r, HandleLibvirtError(next, next, next))
    BY <1>3 DEF ReadBootstrapData
  <2>3. next \in {"ignDir", "isoExists"}
    OBVIOUS
  <2> HIDE DEF r, next
  <2> QED
    BY <1>1, <2>1, <2>2, <2>3, PastHandle
<1>4. CASE CreateIgnitionDirectory
  BY <1>1, <1>4, DirectoryCommands, FilesKeepMount, PastHandle DEF CreateIgnitionDirectory
<1>5. CASE TruncateIgnition
  BY <1>1, <1>5, FileCommands, FilesKeepMount, PastHandle DEF TruncateIgnition
<1>6. CASE FillIgnition
  BY <1>1, <1>6, FileCommands, FilesKeepMount, PastHandle DEF FillIgnition
<1>7. CASE BootstrapISOExists
  <2> DEFINE r == VolumeExists(host, mem.pool, "iso")
  <2>1. r \in Reply /\ r.host = host
    BY <1>1, <1>2, VolumeQueries
  <2>2. Virsh("isoExists", r, HandleLibvirtError("disks", "isoCreate", "disks"))
    BY <1>7 DEF BootstrapISOExists
  <2> HIDE DEF r
  <2> QED
    BY <1>1, <2>1, <2>2, PastHandle
<1>8. CASE CreateBootstrapISO
  <2> DEFINE r == CreateVolumeAs(host, mem.pool, "iso", "empty")
  <2>1. r \in Reply /\ SameMount(host, r.host)
    BY <1>1, <1>2, CreateVolumeType, VolumesKeepMount
  <2>2. Virsh("isoCreate", r, HandleLibvirtError("isoUpload", "isoUpload", "disks"))
    BY <1>8 DEF CreateBootstrapISO
  <2> HIDE DEF r
  <2> QED
    BY <2>1, <2>2, PastHandle
<1>9. CASE UploadBootstrapISO
  <2> DEFINE r == UploadVolume(host, mem.pool, "iso")
  <2>1. r \in Reply /\ SameMount(host, r.host)
    BY <1>1, <1>2, UploadVolumeType, VolumesKeepMount
  <2>2. Virsh("isoUpload", r, HandleLibvirtError("disks", "disks", "disks"))
    BY <1>9 DEF UploadBootstrapISO
  <2> HIDE DEF r
  <2> QED
    BY <2>1, <2>2, PastHandle
<1>10. CASE ReconcileBootArtifacts
  <2> DEFINE r == Answer(host, "ok")
  <2>1. r \in Reply /\ r.host = host
    BY <1>1, AnswerType DEF Answers
  <2>2. Plain("artifacts", r, HandleLibvirtError("domExists", "domExists", "domExists"))
    BY <1>10 DEF ReconcileBootArtifacts
  <2> HIDE DEF r
  <2> QED
    BY <1>1, <2>1, <2>2, PastHandle
<1> QED
  BY <1>3, <1>4, <1>5, <1>6, <1>7, <1>8, <1>9, <1>10 DEF BootstrapStep

LEMMA DisksGoPast ==
  ASSUME TypeOK, OnItsPath, AdditionalDisksStep
  PROVE  Past
<1> USE DEF AfterPool, Defining, DiskLoop
<1>1. host \in Host /\ mem \in Memory /\ SameMount(host, host)
  BY SameMountItself DEF TypeOK
<1>2. mem.disks \in Nat /\ spec.disks \in 0..NDisks
  BY <1>1, SpecsAssumption, NDisksAssumption DEF TypeOK, Memory, AllSpecs
<1> DEFINE i == mem.disks + 1
<1>3. i \in Nat /\ (mem.disks < spec.disks => i \in 1..NDisks)
  BY <1>2, NDisksAssumption
<1> HIDE DEF i
<1>4. CASE NextDisk
  <2>1. (IF mem.disks < spec.disks THEN "diskExists" ELSE "artifacts")
           \in {"diskExists", "artifacts"}
    OBVIOUS
  <2> QED
    BY <1>4, <2>1, PastLocal DEF NextDisk
<1>5. CASE AdditionalDiskExists
  <2>1. pc = "diskExists"
    BY <1>5 DEF AdditionalDiskExists, Virsh, Command
  <2>2. DiskExists(host, i) \in Reply /\ DiskExists(host, i).host = host /\ ~mem.deleting
    BY <1>1, <1>3, <2>1, DiskQueries DEF OnItsPath, NormalSteps
  <2>3. Virsh("diskExists", DiskExists(host, i),
              HandleLibvirtError("diskPath", "diskCreate", "artifacts"))
    BY <1>5 DEF AdditionalDiskExists, i
  <2> QED
    BY <1>1, <2>2, <2>3, PastHandle
<1>6. CASE CreateAdditionalDisk
  <2>1. pc = "diskCreate"
    BY <1>6 DEF CreateAdditionalDisk, Virsh, Command
  <2>2. i \in 1..NDisks /\ ~mem.deleting
    BY <1>3, <2>1 DEF OnItsPath, NormalSteps
  <2>3. CreateDisk(host, i) \in Reply /\ SameMount(host, CreateDisk(host, i).host)
    BY <1>1, <2>2, CreateDiskType, DisksKeepMount
  <2>4. Virsh("diskCreate", CreateDisk(host, i),
              HandleLibvirtError("diskPath", "diskPath", "artifacts"))
    BY <1>6 DEF CreateAdditionalDisk, i
  <2> QED
    BY <2>2, <2>3, <2>4, PastHandle
<1>7. CASE AdditionalDiskPath
  <2>1. pc = "diskPath"
    BY <1>7 DEF AdditionalDiskPath, Virsh, Command
  <2>2. GetDiskPath(host, i) \in Reply /\ GetDiskPath(host, i).host = host /\ ~mem.deleting
    BY <1>1, <1>3, <2>1, DiskQueries DEF OnItsPath, NormalSteps
  <2>3. Virsh("diskPath", GetDiskPath(host, i),
              HandleLibvirtError("diskDone", "diskDone", "artifacts"))
    BY <1>7 DEF AdditionalDiskPath, i
  <2> QED
    BY <1>1, <2>2, <2>3, PastHandle
<1>8. CASE AdditionalDiskDone
  <2> DEFINE m == [mem EXCEPT !.disks = @ + 1]
  <2>1. m.pool = mem.pool
    BY <1>1, Zenon DEF Memory
  <2>2. Local("diskDone", "disks", m)
    BY <1>8 DEF AdditionalDiskDone
  <2> HIDE DEF m
  <2> QED
    BY <2>1, <2>2, PastLocal
<1> QED
  BY <1>4, <1>5, <1>6, <1>7, <1>8 DEF AdditionalDisksStep

LEMMA DomainGoesPast ==
  ASSUME TypeOK, ~mem.deleting, DomainStep
  PROVE  Past
<1> USE DEF AfterPool, Defining, DiskLoop, ReturnSteps
<1>1. /\ host \in Host /\ mem \in Memory /\ mem.pool \in Pools
      /\ mem.disks \in 0..NDisks /\ SameMount(host, host)
  BY SameMountItself DEF TypeOK, Memory
<1>2. CASE DomainIsDefined
  <2> DEFINE r == DomainExists(host)
  <2>1. r \in Reply /\ r.host = host
    BY <1>1, Queries
  <2>2. Virsh("domExists", r, HandleLibvirtError("getDomain", "domPaths", "done"))
    BY <1>2 DEF DomainIsDefined
  <2> HIDE DEF r
  <2> QED
    BY <1>1, <2>1, <2>2, PastHandle
<1>3. CASE DomainPaths
  <2> DEFINE p == GetVolumePath(host, mem.pool, "root")
             r == IF p.ans = "ok" /\ spec.format = "cloud-init"
                  THEN GetVolumePath(host, mem.pool, "iso") ELSE p
  <2>1. r \in Reply /\ r.host = host
    BY <1>1, VolumeQueries DEF Volumes
  <2>2. Virsh("domPaths", r, HandleLibvirtError("define", "define", "done"))
    BY <1>3 DEF DomainPaths
  <2> HIDE DEF r
  <2> QED
    BY <1>1, <2>1, <2>2, PastHandle
<1>4. CASE Define
  <2> DEFINE r == DefineDomain(host, mem.pool, mem.disks)
  <2>1. r \in Reply /\ SameMount(host, r.host)
    BY <1>1, DefineDomainType, DomainsKeepMount
  <2>2. Virsh("define", r, HandleLibvirtError("getDomain", "getDomain", "done"))
    BY <1>4 DEF Define
  <2> HIDE DEF r
  <2> QED
    BY <2>1, <2>2, PastHandle
<1>5. CASE DomainState
  <2> DEFINE r == GetDomain(host)
  <2>1. r \in Reply /\ r.host = host
    BY <1>1, Queries
  <2>2. Virsh("getDomain", r, HandleLibvirtError("status", "start", "done"))
    BY <1>5 DEF DomainState
  <2> HIDE DEF r
  <2> QED
    BY <1>1, <2>1, <2>2, PastHandle
<1>6. CASE Start
  <2> DEFINE r == StartDomain(host, spec.format)
  <2>1. r \in Reply /\ SameMount(host, r.host)
    BY <1>1, StartDomainType, DomainsKeepMount
  <2>2. Virsh("start", r, HandleLibvirtError("started", "started", "done"))
    BY <1>6 DEF Start
  <2> HIDE DEF r
  <2> QED
    BY <2>1, <2>2, PastHandle
<1>7. CASE DomainStarted
  <2> DEFINE r == GetDomain(host)
  <2>1. r \in Reply /\ r.host = host
    BY <1>1, Queries
  <2>2. Virsh("started", r, HandleLibvirtError("status", "status", "done"))
    BY <1>7 DEF DomainStarted
  <2> HIDE DEF r
  <2> QED
    BY <1>1, <2>1, <2>2, PastHandle
<1>8. CASE UpdateStatus
  <2> DEFINE m == [mem EXCEPT !.ready = TRUE]
  <2>1. m.pool = mem.pool
    BY <1>1, Zenon DEF Memory
  <2>2. PICK r \in ReturnSteps : Local("status", r, m)
    BY <1>8 DEF UpdateStatus
  <2> HIDE DEF m
  <2> QED
    BY <2>1, <2>2, PastLocal
<1> QED
  BY <1>2, <1>3, <1>4, <1>5, <1>6, <1>7, <1>8 DEF DomainStep

(* The steps before the ephemeral pool.                                    *)
LEMMA BeforePool ==
  ASSUME TypeOK, ReconcileNormal \/ PreflightPools \/ ReconcileBaseImage
  PROVE  /\ pc \in {"normal", "pools", "base"}
         /\ pc' \in {"pools", "base"} \cup ReturnSteps
              \cup (IF spec.eph THEN {"ephExists"} ELSE {"rootExists"})
         /\ host'.pool = host.pool /\ host'.stack = host.stack
         /\ mem'.pool = mem.pool /\ spec' = spec
<1>1. host \in Host /\ mem \in Memory
  BY DEF TypeOK
<1> USE DEF ReturnSteps
<1>2. CASE ReconcileNormal
  <2> DEFINE m == [mem EXCEPT !.fin = TRUE]
  <2>1. m \in Memory /\ m.pool = mem.pool
    BY <1>1, Zenon DEF Memory
  <2>2. mem' \in {m, Failed(m)} /\ host' = host /\ spec' = spec /\ pc = "normal"
    BY <1>2 DEF ReconcileNormal, env
  <2>3. pc' \in {"requeue", "error", "done", "pools"}
    BY <1>2 DEF ReconcileNormal
  <2> HIDE DEF m
  <2>4. mem'.pool = mem.pool
    BY <2>1, <2>2, FailedType
  <2> QED
    BY <2>2, <2>3, <2>4
<1>3. CASE PreflightPools
  <2> DEFINE r == Answer(host, "ok")
  <2>1. r \in Reply /\ r.host = host
    BY <1>1, AnswerType DEF Answers
  <2>2. Virsh("pools", r, HandleLibvirtError("base", "base", "done"))
    BY <1>3 DEF PreflightPools
  <2> HIDE DEF r
  <2>3. Frame /\ host' = host /\ pc = "pools" /\ pc' \in {"base", "done", "error"}
    BY <2>1, <2>2, HandleStep
  <2> QED
    BY <2>3, FrameMemory DEF Frame
<1>4. CASE ReconcileBaseImage
  <2> DEFINE next == IF spec.eph THEN "ephExists" ELSE "rootExists"
             g == IF spec.stage THEN [host EXCEPT !.base = TRUE] ELSE host
             r == Answer(g, "ok")
  <2>1. g \in Host /\ g.pool = host.pool /\ g.stack = host.stack
    BY <1>1, Zenon DEF Host
  <2>2. Virsh("base", r, HandleLibvirtError(next, next, next))
    BY <1>4 DEF ReconcileBaseImage
  <2> HIDE DEF g, next
  <2>3. r \in Reply /\ r.host = g
    BY <2>1, AnswerType DEF Answers
  <2> HIDE DEF r
  <2>4. Frame /\ host' \in {host, g} /\ pc = "base" /\ pc' \in {next, "error"}
    BY <2>2, <2>3, HandleStep
  <2> QED
    BY <2>1, <2>4, FrameMemory DEF Frame, next
<1> QED
  BY <1>2, <1>3, <1>4

EphemeralPoolStep ==
    \/ EphemeralPoolExists \/ EphemeralPoolActive \/ StartEphemeralPool
    \/ CreateTmpfsDirectory \/ CreateTmpfsMount \/ CreateTmpfsDefine
    \/ CreateTmpfsStart \/ UseEphemeralPool

PastPoolStep ==
    \/ RootDiskExists \/ CloneRootDisk \/ BaseImagePath \/ CreateRootDisk
    \/ BootstrapStep \/ AdditionalDisksStep \/ ReconcileBootArtifacts \/ DomainStep

LEMMA NormalSplit ==
  ASSUME NormalStep
  PROVE  \/ ReconcileNormal \/ PreflightPools \/ ReconcileBaseImage
         \/ EphemeralPoolStep
         \/ PastPoolStep
BY Zenon DEF NormalStep, RootDiskStep, EphemeralPoolStep, PastPoolStep

LEMMA PastPool ==
  ASSUME TypeOK, OnItsPath, ~mem.deleting, PastPoolStep
  PROVE  Past /\ pc \in AfterPool /\ (pc \in DiskLoop => AdditionalDisksStep)
<1>1. Past
  BY RootDiskGoesPast, BootstrapGoesPast, DisksGoPast, DomainGoesPast, Zenon
     DEF PastPoolStep
<1> USE DEF AfterPool, DiskLoop, Virsh, Plain, Command, Local
<1>2. CASE RootDiskExists \/ CloneRootDisk \/ BaseImagePath \/ CreateRootDisk
             \/ ReconcileBootArtifacts
  BY <1>1, <1>2 DEF RootDiskExists, CloneRootDisk, BaseImagePath, CreateRootDisk,
     ReconcileBootArtifacts
<1>3. CASE BootstrapStep
  BY <1>1, <1>3 DEF BootstrapStep, ReadBootstrapData, CreateIgnitionDirectory,
     TruncateIgnition, FillIgnition,
     BootstrapISOExists, CreateBootstrapISO, UploadBootstrapISO
<1>4. CASE AdditionalDisksStep
  BY <1>1, <1>4 DEF AdditionalDisksStep, NextDisk, AdditionalDiskExists,
     CreateAdditionalDisk, AdditionalDiskPath, AdditionalDiskDone
<1>5. CASE DomainStep
  BY <1>1, <1>5 DEF DomainStep, DomainIsDefined, DomainPaths, Define, DomainState,
     Start, DomainStarted, UpdateStatus
<1> QED
  BY <1>2, <1>3, <1>4, <1>5, Zenon DEF PastPoolStep

LEMMA QuietAnswer ==
  ASSUME NEW r, NEW from, NEW ok, NEW no, NEW skip,
         Quietly(from, r, HandleLibvirtError(ok, no, skip))
  PROVE  (r.ans = "ok" => pc' = ok) /\ (r.ans = "no" => pc' = no)
BY DEF Quietly, HandleLibvirtError, Answers

(* CreateTmpfsPool and the tests before it, when nothing goes wrong.       *)
LEMMA PoolMaking ==
  ASSUME TypeOK, ~mem.deleting, spec.eph, TmpfsAtStep, EphemeralPoolStep, faults' = 0
  PROVE  \/ pc = "ephExists" /\ Up(host') /\ pc' = "ephActive"
         \/ pc = "ephExists" /\ Gone(host') /\ pc' = "mkdir"
         \/ pc = "ephActive" /\ Up(host') /\ pc' = "useEph"
         \/ /\ pc = "mkdir" /\ pc' = "mount"
            /\ host'.pool = "undefined" /\ host'.stack = << EmptyLayer >>
         \/ /\ pc = "mount" /\ pc' = "poolDefine"
            /\ host'.pool = "undefined" /\ Mounted(host')
         \/ /\ pc = "poolDefine" /\ pc' = "poolStart"
            /\ host'.pool = "inactive" /\ Mounted(host')
         \/ pc = "poolStart" /\ pc' = "useEph" /\ Up(host')
         \/ pc = "useEph" /\ pc' = "rootExists" /\ Up(host')
<1>1. host \in Host
  BY DEF TypeOK
<1>2. CASE EphemeralPoolExists
  <2>1. Quietly("ephExists", PoolExists(host),
                HandleLibvirtError("ephActive", "mkdir", "bootstrap"))
    <3> DEFINE r == PoolExists(host)
               goto == HandleLibvirtError("ephActive", "mkdir", "bootstrap")
    <3>1. r \in Reply
      BY <1>1, Queries
    <3>2. Virsh("ephExists", r, goto)
      BY <1>2 DEF EphemeralPoolExists
    <3> HIDE DEF r, goto
    <3>3. Quietly("ephExists", r, goto)
      BY <3>1, <3>2, Undisturbed
    <3> QED
      BY <3>3 DEF r, goto
  <2>2. PoolExists(host) = Answer(host, IF host.pool # "undefined" THEN "ok" ELSE "no")
    BY DEF PoolExists, Query, ClassifyVirshError
  <2>3. Gone(host) \/ Up(host)
    BY <2>1 DEF Quietly, TmpfsAtStep, Making, Unmaking
  <2>4. host' = host /\ pc = "ephExists"
    BY <2>1, <2>2 DEF Quietly, Answer
  <2>5. CASE Up(host)
    <3>1. PoolExists(host).ans = "ok"
      BY <2>2, <2>5 DEF Answer, Up
    <3>2. pc' = "ephActive"
      BY <2>1, <3>1, QuietAnswer
    <3> QED
      BY <2>4, <2>5, <3>2
  <2>6. CASE Gone(host)
    <3>1. PoolExists(host).ans = "no"
      BY <2>2, <2>6 DEF Answer, Gone
    <3>2. pc' = "mkdir"
      BY <2>1, <3>1, QuietAnswer
    <3> QED
      BY <2>4, <2>6, <3>2
  <2> QED
    BY <2>3, <2>5, <2>6
<1>3. CASE EphemeralPoolActive
  <2>1. Quietly("ephActive", PoolIsActive(host),
                HandleLibvirtError("useEph", "ephStart", "bootstrap"))
    <3> DEFINE r == PoolIsActive(host)
               goto == HandleLibvirtError("useEph", "ephStart", "bootstrap")
    <3>1. r \in Reply
      BY <1>1, Queries
    <3>2. Virsh("ephActive", r, goto)
      BY <1>3 DEF EphemeralPoolActive
    <3> HIDE DEF r, goto
    <3>3. Quietly("ephActive", r, goto)
      BY <3>1, <3>2, Undisturbed
    <3> QED
      BY <3>3 DEF r, goto
  <2>2. Up(host)
    BY <2>1 DEF Quietly, TmpfsAtStep
  <2>3. PoolIsActive(host) = Answer(host, "ok")
    BY <2>2 DEF PoolIsActive, Up
  <2>4. pc' = "useEph"
    <3>1. PoolIsActive(host).ans = "ok"
      BY <2>3 DEF Answer
    <3> QED
      BY <2>1, <3>1, QuietAnswer
  <2>5. host' = host /\ pc = "ephActive"
    BY <2>1, <2>3 DEF Quietly, Answer
  <2>6. Up(host')
    BY <2>2, <2>5
  <2> QED
    BY <2>4, <2>5, <2>6, Zenon
<1>4. ~StartEphemeralPool
  BY DEF StartEphemeralPool, Plain, Command, TmpfsAtStep
<1>5. CASE CreateTmpfsDirectory
  <2>1. Quietly("mkdir", MakeDirectory(host),
                HandleLibvirtError("mount", "mount", "error"))
    <3> DEFINE r == MakeDirectory(host)
               goto == HandleLibvirtError("mount", "mount", "error")
    <3>1. r \in Reply
      BY <1>1, DirectoryCommands
    <3>2. Plain("mkdir", r, goto)
      BY <1>5 DEF CreateTmpfsDirectory
    <3> HIDE DEF r, goto
    <3>3. Quietly("mkdir", r, goto)
      BY <3>1, <3>2, Undisturbed
    <3> QED
      BY <3>3 DEF r, goto
  <2>2. Gone(host)
    BY <2>1 DEF Quietly, TmpfsAtStep
  <2>3. host' = MakeDirectory(host).host /\ pc = "mkdir"
    BY <2>1 DEF Quietly
  <2>4. /\ MakeDirectory(host).ans = "ok"
        /\ MakeDirectory(host).host.pool = "undefined"
        /\ MakeDirectory(host).host.stack = << EmptyLayer >>
    BY <1>1, <2>2, PoolIsMade, Zenon
  <2>5. pc' = "mount"
    BY <2>1, <2>4, QuietAnswer
  <2>6. host'.pool = "undefined" /\ host'.stack = << EmptyLayer >>
    BY <2>3, <2>4, Zenon
  <2> QED
    BY <2>3, <2>5, <2>6
<1>6. CASE CreateTmpfsMount
  <2>1. Quietly("mount", MountTmpfs(host),
                HandleLibvirtError("poolDefine", "poolDefine", "error"))
    <3> DEFINE r == MountTmpfs(host)
               goto == HandleLibvirtError("poolDefine", "poolDefine", "error")
    <3>1. r \in Reply
      BY <1>1, DirectoryCommands
    <3>2. Plain("mount", r, goto)
      BY <1>6 DEF CreateTmpfsMount
    <3> HIDE DEF r, goto
    <3>3. Quietly("mount", r, goto)
      BY <3>1, <3>2, Undisturbed
    <3> QED
      BY <3>3 DEF r, goto
  <2>2. host.pool = "undefined" /\ host.stack = << EmptyLayer >>
    BY <2>1 DEF Quietly, TmpfsAtStep
  <2>3. host' = MountTmpfs(host).host /\ pc = "mount"
    BY <2>1 DEF Quietly
  <2>4. /\ MountTmpfs(host).ans = "ok"
        /\ MountTmpfs(host).host.pool = "undefined" /\ Mounted(MountTmpfs(host).host)
    BY <1>1, <2>2, PoolIsMade, Zenon
  <2>5. pc' = "poolDefine"
    BY <2>1, <2>4, QuietAnswer
  <2>6. host'.pool = "undefined" /\ Mounted(host')
    BY <2>3, <2>4, Zenon
  <2> QED
    BY <2>3, <2>5, <2>6
<1>7. CASE CreateTmpfsDefine
  <2>1. Quietly("poolDefine", DefinePool(host),
                HandleLibvirtError("poolStart", "poolStart", "bootstrap"))
    <3> DEFINE r == DefinePool(host)
               goto == HandleLibvirtError("poolStart", "poolStart", "bootstrap")
    <3>1. r \in Reply
      BY <1>1, PoolCommands
    <3>2. Virsh("poolDefine", r, goto)
      BY <1>7 DEF CreateTmpfsDefine
    <3> HIDE DEF r, goto
    <3>3. Quietly("poolDefine", r, goto)
      BY <3>1, <3>2, Undisturbed
    <3> QED
      BY <3>3 DEF r, goto
  <2>2. host.pool = "undefined" /\ Mounted(host)
    BY <2>1 DEF Quietly, TmpfsAtStep
  <2>3. host' = DefinePool(host).host /\ pc = "poolDefine"
    BY <2>1 DEF Quietly
  <2>4. /\ DefinePool(host).ans = "ok"
        /\ DefinePool(host).host.pool = "inactive" /\ Mounted(DefinePool(host).host)
    BY <1>1, <2>2, PoolIsMade, Zenon
  <2>5. pc' = "poolStart"
    BY <2>1, <2>4, QuietAnswer
  <2>6. host'.pool = "inactive" /\ Mounted(host')
    BY <2>3, <2>4, Zenon
  <2> QED
    BY <2>3, <2>5, <2>6
<1>8. CASE CreateTmpfsStart
  <2>1. Quietly("poolStart", StartPool(host),
                HandleLibvirtError("useEph", "useEph", "bootstrap"))
    <3> DEFINE r == StartPool(host)
               goto == HandleLibvirtError("useEph", "useEph", "bootstrap")
    <3>1. r \in Reply
      BY <1>1, PoolCommands
    <3>2. Virsh("poolStart", r, goto)
      BY <1>8 DEF CreateTmpfsStart
    <3> HIDE DEF r, goto
    <3>3. Quietly("poolStart", r, goto)
      BY <3>1, <3>2, Undisturbed
    <3> QED
      BY <3>3 DEF r, goto
  <2>2. host.pool = "inactive" /\ Mounted(host)
    BY <2>1 DEF Quietly, TmpfsAtStep
  <2>3. host' = StartPool(host).host /\ pc = "poolStart"
    BY <2>1 DEF Quietly
  <2>4. StartPool(host).ans = "ok" /\ Up(StartPool(host).host)
    BY <1>1, <2>2, PoolIsMade, Zenon
  <2>5. pc' = "useEph"
    BY <2>1, <2>4, QuietAnswer
  <2>6. Up(host')
    BY <2>3, <2>4, Zenon
  <2> QED
    BY <2>3, <2>5, <2>6
<1>9. CASE UseEphemeralPool
  BY <1>9 DEF UseEphemeralPool, Local, TmpfsAtStep
<1> QED
  BY <1>2, <1>3, <1>4, <1>5, <1>6, <1>7, <1>8, <1>9 DEF EphemeralPoolStep
-----------------------------------------------------------------------------
(* What reconcileNormal skips.                                             *)

(* The loop over the additional disks is left early only by a terminal     *)
(* error, which takes a fault.                                             *)
LEMMA DisksAreMade ==
  ASSUME TypeOK, OnItsPath, ~mem.deleting, AdditionalDisksStep,
         pc = "diskCreate" => (mem.disks + 1) \notin host.disks
  PROVE  /\ pc' = "diskCreate" => (mem'.disks + 1) \notin host'.disks
         /\ pc' \in Defining /\ (faults' = 0 \/ ~mem'.failed) => mem'.disks = spec.disks
<1>1. host \in Host /\ mem \in Memory /\ faults \in Nat
  BY FaultsAssumption DEF TypeOK
<1>2. mem.disks \in Nat /\ spec.disks \in Nat
  BY <1>1, SpecsAssumption, NDisksAssumption DEF TypeOK, Memory, AllSpecs
<1> DEFINE i == mem.disks + 1
<1>3. i \in Nat
  BY <1>2
<1> USE DEF Defining
<1>4. ASSUME NEW r \in Reply, NEW from, NEW ok, NEW no,
             Virsh(from, r, HandleLibvirtError(ok, no, "artifacts")),
             {ok, no} \subseteq {"diskPath", "diskCreate", "diskDone"},
             r.ans # "terminal"
      PROVE  /\ pc' = "diskCreate" => pc' \in {ok, no} /\ mem'.disks = mem.disks
             /\ pc' = "diskCreate" /\ ok # "diskCreate" => r.ans = "no" /\ host' = r.host
             /\ pc' \in Defining => mem'.failed /\ faults' # 0
  <2>1. /\ faults' \in {faults, faults + 1}
        /\ \/ pc' = "error"
           \/ pc' = ok /\ r.ans = "ok" /\ host' = r.host /\ faults' = faults
           \/ pc' = no /\ r.ans = "no" /\ host' = r.host /\ faults' = faults
           \/ pc' = "artifacts" /\ mem'.failed /\ (faults' = faults => r.ans = "terminal")
    BY <1>4, HandleFaults
  <2>2. Frame
    BY <1>4, HandleStep
  <2>3. mem'.disks = mem.disks
    BY <2>2, FrameMemory
  <2> QED
    BY <1>1, <1>4, <2>1, <2>3
<1> HIDE DEF i
<1>5. CASE NextDisk
  BY <1>2, <1>5 DEF NextDisk, Local, OnItsPath
<1>6. CASE AdditionalDiskExists
  <2>1. Virsh("diskExists", DiskExists(host, i),
              HandleLibvirtError("diskPath", "diskCreate", "artifacts"))
    BY <1>6 DEF AdditionalDiskExists, i
  <2>2. /\ DiskExists(host, i) \in Reply /\ DiskExists(host, i).host = host
        /\ DiskExists(host, i).ans = IF i \in host.disks THEN "ok" ELSE "no"
    BY <1>1, <1>3, DiskQueries DEF DiskExists, Query, ClassifyVirshError, Answer
  <2>3. /\ pc' = "diskCreate" => mem'.disks = mem.disks
        /\ pc' = "diskCreate" => DiskExists(host, i).ans = "no" /\ host' = host
        /\ pc' \in Defining => mem'.failed /\ faults' # 0
    <3> DEFINE q == DiskExists(host, i)
    <3>1. q \in Reply /\ q.host = host /\ q.ans # "terminal"
      BY <2>2
    <3> HIDE DEF q
    <3>2. Virsh("diskExists", q, HandleLibvirtError("diskPath", "diskCreate", "artifacts"))
      BY <2>1 DEF q
    <3>3. /\ pc' = "diskCreate" => mem'.disks = mem.disks /\ q.ans = "no" /\ host' = host
          /\ pc' \in Defining => mem'.failed /\ faults' # 0
      BY <1>4, <3>1, <3>2
    <3> QED
      BY <3>3 DEF q
  <2> QED
    BY <2>2, <2>3 DEF i
<1>7. CASE CreateAdditionalDisk
  <2>1. Virsh("diskCreate", CreateDisk(host, i),
              HandleLibvirtError("diskPath", "diskPath", "artifacts"))
    BY <1>7 DEF CreateAdditionalDisk, i
  <2>2. pc = "diskCreate"
    BY <2>1 DEF Virsh, Command
  <2>3. i \in 1..NDisks /\ i \notin host.disks
    BY <1>2, <2>2, NDisksAssumption, SpecsAssumption DEF OnItsPath, i, TypeOK, AllSpecs
  <2>4. CreateDisk(host, i) \in Reply /\ CreateDisk(host, i).ans = "ok"
    BY <1>1, <2>3, CreateDiskType DEF CreateDisk, Answer
  <2> DEFINE q == CreateDisk(host, i)
  <2> HIDE DEF q
  <2>5. /\ q \in Reply /\ q.ans # "terminal"
        /\ Virsh("diskCreate", q, HandleLibvirtError("diskPath", "diskPath", "artifacts"))
    BY <2>1, <2>4 DEF q
  <2> QED
    BY <1>4, <2>5
<1>8. CASE AdditionalDiskPath
  <2>1. Virsh("diskPath", GetDiskPath(host, i),
              HandleLibvirtError("diskDone", "diskDone", "artifacts"))
    BY <1>8 DEF AdditionalDiskPath, i
  <2>2. GetDiskPath(host, i) \in Reply /\ GetDiskPath(host, i).ans # "terminal"
    BY <1>1, <1>3, DiskQueries DEF GetDiskPath, Fail, ClassifyVirshError, Answer
  <2> DEFINE q == GetDiskPath(host, i)
  <2> HIDE DEF q
  <2>3. /\ q \in Reply /\ q.ans # "terminal"
        /\ Virsh("diskPath", q, HandleLibvirtError("diskDone", "diskDone", "artifacts"))
    BY <2>1, <2>2 DEF q
  <2> QED
    BY <1>4, <2>3
<1>9. CASE AdditionalDiskDone
  BY <1>9 DEF AdditionalDiskDone, Local
<1> QED
  BY <1>5, <1>6, <1>7, <1>8, <1>9 DEF AdditionalDisksStep

(* The steps on the ephemeral pool are left early only by a terminal       *)
(* error, which takes a fault: without one the pool to be defined is not.  *)
LEMMA PoolIsUsed ==
  ASSUME TypeOK, ~mem.deleting, spec.eph, faults = 0 => TmpfsAtStep, EphemeralPoolStep
  PROVE  /\ pc' \notin Defining /\ pc' # "diskCreate"
         /\ pc' \in AfterPool /\ (faults' = 0 \/ ~mem'.failed) => mem'.pool = Home
         /\ mem'.pool = "eph" => mem.pool = "eph" \/ spec.eph
<1>1. host \in Host /\ mem \in Memory /\ faults \in Nat
  BY FaultsAssumption DEF TypeOK
<1> USE DEF Defining, AfterPool
<1>2. ASSUME NEW r \in Reply, NEW from, NEW ok, NEW no,
             NEW skip \in {"bootstrap", "error"},
             \/ Virsh(from, r, HandleLibvirtError(ok, no, skip))
             \/ Plain(from, r, HandleLibvirtError(ok, no, skip)),
             {ok, no} \subseteq {"ephActive", "mkdir", "useEph", "ephStart", "mount",
                                 "poolDefine", "poolStart"},
             faults = 0 => r.ans # "terminal"
      PROVE  /\ pc' \notin Defining /\ pc' # "diskCreate"
             /\ pc' \in AfterPool => mem'.failed /\ faults' # 0
             /\ mem'.pool = mem.pool
  <2>1. /\ faults' \in {faults, faults + 1}
        /\ \/ pc' = "error"
           \/ pc' = ok /\ r.ans = "ok" /\ host' = r.host /\ faults' = faults
           \/ pc' = no /\ r.ans = "no" /\ host' = r.host /\ faults' = faults
           \/ pc' = skip /\ mem'.failed /\ (faults' = faults => r.ans = "terminal")
    BY <1>2, HandleFaults
  <2>2. Frame
    BY <1>2, HandleStep
  <2>3. mem'.pool = mem.pool
    BY <2>2, FrameMemory
  <2>4. pc' \in {"error", "bootstrap"} \/ pc' \in {ok, no}
    BY <2>1
  <2>5. pc' = "bootstrap" => mem'.failed /\ faults' # 0
    BY <1>1, <1>2, <2>1
  <2> QED
    BY <1>2, <2>3, <2>4, <2>5
<1>3. CASE EphemeralPoolExists
  <2>1. PoolExists(host) \in Reply /\ PoolExists(host).ans # "terminal"
    BY <1>1, Queries DEF PoolExists, Query, ClassifyVirshError, Answer
  <2> QED
    BY <1>2, <1>3, <2>1 DEF EphemeralPoolExists
<1>4. CASE EphemeralPoolActive
  <2>1. PoolIsActive(host) \in Reply /\ PoolIsActive(host).ans # "terminal"
    BY <1>1, Queries DEF PoolIsActive, Fail, ClassifyVirshError, Answer
  <2> QED
    BY <1>2, <1>4, <2>1 DEF EphemeralPoolActive
<1>5. CASE StartEphemeralPool
  <2>1. StartPool(host) \in Reply
    BY <1>1, PoolCommands
  <2> DEFINE goto == [a \in Answers |-> IF a = "ok" THEN "useEph" ELSE "dump"]
  <2>2. Plain("ephStart", StartPool(host), goto)
    BY <1>5 DEF StartEphemeralPool
  <2>3. \A a \in Answers : goto[a] \in {"useEph", "dump"}
    OBVIOUS
  <2> HIDE DEF goto
  <2>4. Frame /\ pc' \in {"useEph", "dump"}
    BY <2>1, <2>2, <2>3, CommandStep
  <2> QED
    BY <2>4, FrameMemory
<1>6. CASE CreateTmpfsDirectory
  <2>1. MakeDirectory(host) \in Reply /\ MakeDirectory(host).ans # "terminal"
    BY <1>1, DirectoryCommands DEF MakeDirectory, Answer
  <2> QED
    BY <1>2, <1>6, <2>1 DEF CreateTmpfsDirectory
<1>7. CASE CreateTmpfsMount
  <2>1. MountTmpfs(host) \in Reply /\ pc = "mount"
    BY <1>1, <1>7, DirectoryCommands DEF CreateTmpfsMount, Plain, Command
  <2>2. faults = 0 => MountTmpfs(host).ans # "terminal"
    BY <1>1, <2>1, PoolIsMade DEF TmpfsAtStep
  <2> QED
    BY <1>2, <1>7, <2>1, <2>2 DEF CreateTmpfsMount
<1>8. CASE CreateTmpfsDefine
  <2>1. DefinePool(host) \in Reply /\ pc = "poolDefine"
    BY <1>1, <1>8, PoolCommands DEF CreateTmpfsDefine, Plain, Virsh, Command
  <2>2. faults = 0 => DefinePool(host).ans # "terminal"
    BY <1>1, <2>1, PoolIsMade DEF TmpfsAtStep
  <2> QED
    BY <1>2, <1>8, <2>1, <2>2 DEF CreateTmpfsDefine
<1>9. CASE CreateTmpfsStart
  <2>1. StartPool(host) \in Reply /\ StartPool(host).ans # "terminal"
    BY <1>1, PoolCommands DEF StartPool, Fail, ClassifyVirshError, Answer
  <2> QED
    BY <1>2, <1>9, <2>1 DEF CreateTmpfsStart
<1>10. CASE UseEphemeralPool
  <2>1. mem'.pool = "eph" /\ pc' = "rootExists"
    BY <1>1, <1>10 DEF UseEphemeralPool, Local, Memory
  <2> QED
    BY <2>1 DEF Home
<1> QED
  BY <1>3, <1>4, <1>5, <1>6, <1>7, <1>8, <1>9, <1>10 DEF EphemeralPoolStep

(* The same of DestroyPool on behalf of reconcileNormal.                   *)
LEMMA PoolIsRemade ==
  ASSUME TypeOK, ~mem.deleting, PoolStep
  PROVE  /\ pc' \notin Defining /\ pc' # "diskCreate" /\ mem'.pool = mem.pool
         /\ pc' \in AfterPool => mem'.failed /\ faults' # 0
<1> USE DEF Defining, AfterPool, PoolSteps
<1>1. /\ Frame /\ pc' \in PoolSteps \cup {"error", "mkdir", "bootstrap"}
  BY PoolStepType
<1>2. mem'.pool = mem.pool /\ faults \in Nat
  BY <1>1, FrameMemory, FaultsAssumption DEF TypeOK
<1>3. ASSUME pc' = "bootstrap" PROVE mem'.failed /\ faults' # 0
  <2>1. DestroyPoolDump
    <3>1. host \in Host
      BY DEF TypeOK
    <3>2. StopPool(host) \in Reply /\ UndefinePool(host) \in Reply
      BY <3>1, PoolCommands
    <3>3. Unmount(host) \in Reply /\ RemoveDirectory(host) \in Reply
      BY <3>1, DirectoryCommands
    <3>4. ~DestroyPoolStop
      BY <1>3, <3>2, IgnoreErrorsStep DEF DestroyPoolStop
    <3>5. ~DestroyPoolUndefine
      BY <1>3, <3>2, IgnoreErrorsStep DEF DestroyPoolUndefine
    <3>6. ~DestroyPoolUnmount
      BY <1>3, <3>3, IgnoreErrorsStep DEF DestroyPoolUnmount
    <3>7. ~DestroyPoolRemove
      BY <1>3, <3>3, IgnoreErrorsStep DEF DestroyPoolRemove
    <3>8. ~DestroyPoolReturn
      BY <1>3 DEF DestroyPoolReturn, Local
    <3> QED
      BY <3>4, <3>5, <3>6, <3>7, <3>8 DEF PoolStep
  <2> DEFINE goto == [a \in Answers |->
                        CASE a = "ok" -> "stop"
                          [] a = "notFound" -> "poolGone"
                          [] a = "terminal" /\ ~mem.deleting -> "bootstrap"
                          [] OTHER -> "error"]
  <2>2. Virsh("dump", DumpPool(host), goto)
    BY <2>1 DEF DestroyPoolDump
  <2>3. DumpPool(host) \in Reply /\ DumpPool(host).ans # "terminal"
    BY Queries DEF DumpPool, Fail, ClassifyVirshError, Answer, TypeOK
  <2>4. \A a \in Answers : goto[a] = "bootstrap" => a = "terminal"
    BY DEF Answers
  <2> HIDE DEF goto
  <2>5. PICK a \in Answers :
           /\ pc' = goto[a]
           /\ a = "terminal" /\ ~mem.deleting => mem'.failed
           /\ \/ faults' = faults /\ host' = DumpPool(host).host /\ a = DumpPool(host).ans
              \/ faults' = faults + 1 /\ a \in {"transient", "terminal"}
    BY <2>2, <2>3, CommandFaults
  <2> QED
    BY <1>2, <1>3, <2>3, <2>4, <2>5
<1> QED
  BY <1>1, <1>2, <1>3

(* A step meets one fault at most.                                         *)
LEMMA FaultsCount ==
  ASSUME TypeOK, OnItsPath, Next
  PROVE  faults' \in {faults, faults + 1}
<1>1. CASE Reconcile
  BY <1>1 DEF Reconcile, Fault
<1>2. CASE Patch
  BY <1>2 DEF Patch, Fault
<1>3. CASE Environment
  BY <1>3 DEF Environment, UserDelete, SyncCache, Crash, Resync, SetOwner, Pause, Unpause,
     HostReady, HostLost, BootstrapReady, KubeletJoins, VMStops, DaemonRestart, Reboot, Fault
<1>4. ASSUME NEW from, NEW r, NEW goto, Virsh(from, r, goto) \/ Plain(from, r, goto)
      PROVE  faults' \in {faults, faults + 1}
  BY <1>4 DEF Virsh, Plain, Command
<1>5. CASE ReconcileNormal \/ PreflightPools \/ ReconcileBaseImage
             \/ ReconcileBootArtifacts
  BY <1>4, <1>5, Zenon DEF ReconcileNormal, PreflightPools, ReconcileBaseImage,
     ReconcileBootArtifacts, Fault
<1>6. CASE RootDiskStep
  BY <1>4, <1>6, Zenon DEF RootDiskStep, EphemeralPoolExists, EphemeralPoolActive,
     StartEphemeralPool, CreateTmpfsDirectory, CreateTmpfsMount,
     CreateTmpfsDefine, CreateTmpfsStart, UseEphemeralPool, RootDiskExists,
     CloneRootDisk, BaseImagePath, CreateRootDisk, Local
<1>7. CASE BootstrapStep
  BY <1>4, <1>7, Zenon DEF BootstrapStep, ReadBootstrapData, CreateIgnitionDirectory,
     TruncateIgnition, FillIgnition,
     BootstrapISOExists, CreateBootstrapISO, UploadBootstrapISO
<1>8. CASE AdditionalDisksStep
  BY <1>4, <1>8, Zenon DEF AdditionalDisksStep, NextDisk, AdditionalDiskExists,
     CreateAdditionalDisk, AdditionalDiskPath, AdditionalDiskDone, Local
<1>9. CASE DomainStep
  BY <1>4, <1>9, Zenon DEF DomainStep, DomainIsDefined, DomainPaths, Define, DomainState,
     Start, DomainStarted, UpdateStatus, Local
<1>10. CASE DeleteStep
  BY <1>4, <1>10, Zenon DEF DeleteStep, ReconcileDelete, DeleteDestroyDomain,
     DeleteUndefineDomain, DeleteRootDisk, DeleteBootstrap, DeleteNextDisk,
     DeleteAdditionalDisk, AdditionalDiskDeleted, DeleteNode, Local, Fault
<1>11. CASE PoolStep
  BY <1>4, <1>11, Zenon DEF PoolStep, DestroyPoolDump, DestroyPoolStop, DestroyPoolUndefine,
     DestroyPoolUnmount, DestroyPoolRemove, DestroyPoolReturn, Local
<1> QED
  BY <1>1, <1>2, <1>3, <1>5, <1>6, <1>7, <1>8, <1>9, <1>10, <1>11, Zenon
     DEF Next, Worker, NormalStep
-----------------------------------------------------------------------------
(* What a step of reconcileDelete may do.                                  *)
Removing ==
    /\ UNCHANGED <<spec, obj, held, cached, snap>>
    /\ pc \in DeleteSteps
    /\ \/ pc' \in ReturnSteps
       \/ pc = "delete"      /\ pc' = "destroyDom"
       \/ pc = "destroyDom"  /\ pc' = "undefineDom"
       \/ pc = "undefineDom" /\ pc' = "delRoot"
       \/ pc = "delRoot"     /\ pc' = "delBoot"
       \/ pc = "delBoot"     /\ pc' = "delDisks"
       \/ pc = "delDisks"    /\ pc' \in {"delDisk", "dump", "delNode"}
       \/ pc = "delDisk"     /\ pc' = "delNext"
       \/ pc = "delNext"     /\ pc' = "delDisks"
    /\ mem'.deleting = mem.deleting
    /\ mem'.fin = mem.fin \/ pc = "delNode"
    /\ mem.failed => mem'.failed
    /\ mem'.ready => mem.ready
    /\ mem'.disks = IF pc = "delNext" THEN mem.disks + 1 ELSE mem.disks
    /\ Shrinks(host, host')
    /\ host'.dom.state = "absent" \/ SameDefinition(host.dom, host'.dom)
    /\ host'.store["root"] = host.store["root"]
         \/ (pc = "delRoot" /\ host'.store["root"] = "absent")
    /\ pc # "delDisk" => host'.disks = host.disks
    /\ pc' = "undefineDom" => host'.dom.state # "running"
    /\ pc' = "delRoot" /\ host.dom.state # "running" => host'.dom.state = "absent"
    /\ pc' = "delBoot" /\ ~spec.eph => host'.store["root"] = "absent"
    /\ pc = "delBoot" /\ pc' = "delDisks" /\ ~spec.eph /\ spec.format = "cloud-init"
         => host'.store["iso"] = "absent"
    /\ pc' = "delDisk" => mem.disks < spec.disks
    /\ pc' \in {"dump", "delNode"} => mem.disks >= spec.disks
    /\ pc' = "delNext" => (mem.disks + 1) \notin host'.disks

LEMMA ShrinksItself ==
  ASSUME NEW h
  PROVE  Shrinks(h, h) /\ SameDefinition(h.dom, h.dom)
BY DEF Shrinks, SameDefinition

LEMMA DeleteRemoves ==
  ASSUME TypeOK, OnItsPath, DeleteStep
  PROVE  Removing /\ TypeOK'
<1> USE DEF DeleteSteps, ReturnSteps
<1>1. /\ host \in Host /\ mem \in Memory /\ mem.disks \in Nat
      /\ spec.disks \in Nat /\ spec.disks <= NDisks
      /\ spec.format \in {"ignition", "cloud-init"} /\ spec.eph \in BOOLEAN
  BY SpecsAssumption, NDisksAssumption DEF TypeOK, Memory, AllSpecs
<1>2. ASSUME Frame, pc' \in DeleteSteps \cup PoolSteps \cup ReturnSteps
      PROVE  TypeOK'
  BY <1>2, FrameType DEF Steps
<1>4. CASE ReconcileDelete
  <2>1. /\ pc = "delete" /\ host' = host /\ mem' = mem
        /\ pc' \in {"done", "requeue", "destroyDom"}
        /\ UNCHANGED <<spec, obj, held, cached, queued, snap, node, gate, ready, secret>>
    BY <1>4 DEF ReconcileDelete, env, api
  <2>2. faults' \in 0..MaxFaults
    BY <1>4, FaultsAssumption DEF ReconcileDelete, Fault, CanFault, TypeOK
  <2>3. Frame
    BY <2>1, <2>2, <1>1 DEF Frame
  <2> QED
    BY <2>1, <2>3, <1>2, ShrinksItself DEF Removing
<1>5. CASE DeleteDestroyDomain
  <2> DEFINE r == DestroyDomain(host)
  <2>1. Virsh("destroyDom", r, UnlessNotFound("undefineDom"))
    BY <1>5 DEF DeleteDestroyDomain
  <2>2. /\ r \in Reply /\ Shrinks(host, r.host)
        /\ r.host.store = host.store /\ r.host.disks = host.disks
        /\ r.host.dom.state # "running"
        /\ SameDefinition(host.dom, r.host.dom)
    BY <1>1, DestroyDomainType DEF SameDefinition
  <2> HIDE DEF r
  <2>3. /\ Frame /\ pc = "destroyDom" /\ host' \in {host, r.host}
        /\ pc' \in {"undefineDom", "error"}
        /\ pc' # "error" => host' = r.host
    BY <2>1, <2>2, UnlessNotFoundStep
  <2>4. Shrinks(host, host') /\ SameDefinition(host.dom, host'.dom)
    BY <2>2, <2>3, ShrinksItself
  <2>5. host'.store = host.store /\ host'.disks = host.disks
    BY <2>2, <2>3
  <2>6. pc' = "undefineDom" => host'.dom.state # "running"
    BY <2>2, <2>3
  <2>7. TypeOK'
    BY <1>2, <2>3
  <2> QED
    BY <2>3, <2>4, <2>5, <2>6, <2>7, FrameMemory DEF Removing, Frame
<1>6. CASE DeleteUndefineDomain
  <2> DEFINE r == UndefineDomain(host)
  <2>1. Virsh("undefineDom", r, UnlessNotFound("delRoot"))
    BY <1>6 DEF DeleteUndefineDomain
  <2>2. /\ r \in Reply /\ Shrinks(host, r.host)
        /\ r.host.store = host.store /\ r.host.disks = host.disks
        /\ host.dom.state # "running" => r.host.dom.state = "absent"
    BY <1>1, UndefineDomainType
  <2>3. r.host.dom.state = "absent" \/ SameDefinition(host.dom, r.host.dom)
    <3>1. r.host.dom \in {host.dom, NoDomain}
      BY <1>1, UndefineDomainType
    <3> HIDE DEF r
    <3>2. NoDomain.state = "absent"
      BY DEF NoDomain
    <3> QED
      BY <3>1, <3>2, ShrinksItself
  <2> HIDE DEF r
  <2>4. /\ Frame /\ pc = "undefineDom" /\ host' \in {host, r.host}
        /\ pc' \in {"delRoot", "error"}
        /\ pc' # "error" => host' = r.host
    BY <2>1, <2>2, UnlessNotFoundStep
  <2>5. /\ Shrinks(host, host')
        /\ host'.dom.state = "absent" \/ SameDefinition(host.dom, host'.dom)
    BY <2>2, <2>3, <2>4, ShrinksItself
  <2> QED
    BY <2>2, <2>4, <2>5, <1>2, FrameMemory DEF Removing, Frame
<1>7. Home \in Pools /\ (~spec.eph => Home = "store")
  BY <1>1 DEF Home, Pools
<1>8. CASE DeleteRootDisk
  <2> DEFINE r == DeleteVolume(host, Home, "root")
  <2>1. Virsh("delRoot", r, UnlessNotFound("delBoot"))
    BY <1>8 DEF DeleteRootDisk
  <2>2. /\ r \in Reply /\ Shrinks(host, r.host) /\ r.host.dom = host.dom
        /\ r.host.disks = host.disks
        /\ Home = "store" => r.host.store = [host.store EXCEPT !["root"] = "absent"]
        /\ Home = "eph" => r.host.store = host.store
    BY <1>1, <1>7, DeleteVolumeType, Zenon DEF Volumes
  <2>3. /\ r.host.store["root"] \in {"absent", host.store["root"]}
        /\ ~spec.eph => r.host.store["root"] = "absent"
    BY <1>1, <1>7, <2>2 DEF Host, Volumes, Pools
  <2> HIDE DEF r
  <2>4. /\ Frame /\ pc = "delRoot" /\ host' \in {host, r.host}
        /\ pc' \in {"delBoot", "error"}
        /\ pc' # "error" => host' = r.host
    BY <2>1, <2>2, UnlessNotFoundStep
  <2>5. Shrinks(host, host') /\ SameDefinition(host.dom, host'.dom)
    BY <2>2, <2>4, ShrinksItself
  <2> QED
    BY <2>2, <2>3, <2>4, <2>5, <1>2, FrameMemory DEF Removing, Frame
<1>9. CASE DeleteBootstrap /\ spec.format = "ignition"
  <2> DEFINE r == DeleteRemoteFile(host)
  <2>1. Plain("delBoot", r, IgnoreErrors("delDisks"))
    BY <1>9 DEF DeleteBootstrap
  <2>2. r \in Reply /\ Untouched(host, r.host)
    BY <1>1, FileCommands
  <2> HIDE DEF r
  <2>3. Frame /\ pc = "delBoot" /\ host' \in {host, r.host} /\ pc' = "delDisks"
    BY <2>1, <2>2, IgnoreErrorsStep
  <2>4. /\ Untouched(host, host') /\ Shrinks(host, host')
        /\ SameDefinition(host.dom, host'.dom)
    BY <2>2, <2>3, ShrinksItself DEF Untouched, Shrinks, SameDefinition
  <2> QED
    BY <1>9, <2>3, <2>4, <1>2, FrameMemory DEF Removing, Frame, Untouched
<1>10. CASE DeleteBootstrap /\ spec.format # "ignition"
  <2> DEFINE r == DeleteVolume(host, Home, "iso")
  <2>1. Virsh("delBoot", r, UnlessNotFound("delDisks"))
    BY <1>10 DEF DeleteBootstrap
  <2>2. /\ r \in Reply /\ Shrinks(host, r.host) /\ r.host.dom = host.dom
        /\ r.host.disks = host.disks
        /\ Home = "store" => r.host.store = [host.store EXCEPT !["iso"] = "absent"]
        /\ Home = "eph" => r.host.store = host.store
    BY <1>1, <1>7, DeleteVolumeType, Zenon DEF Volumes
  <2>3. /\ r.host.store["root"] = host.store["root"]
        /\ ~spec.eph => r.host.store["iso"] = "absent"
    BY <1>1, <1>7, <2>2 DEF Host, Volumes, Pools
  <2> HIDE DEF r
  <2>4. /\ Frame /\ pc = "delBoot" /\ host' \in {host, r.host}
        /\ pc' \in {"delDisks", "error"}
        /\ pc' # "error" => host' = r.host
    BY <2>1, <2>2, UnlessNotFoundStep
  <2>5. Shrinks(host, host') /\ SameDefinition(host.dom, host'.dom)
    BY <2>2, <2>4, ShrinksItself
  <2> QED
    BY <2>2, <2>3, <2>4, <2>5, <1>2, FrameMemory DEF Removing, Frame
<1>11. CASE DeleteNextDisk
  <2> DEFINE next == IF mem.disks < spec.disks THEN "delDisk"
                     ELSE IF spec.eph THEN "dump" ELSE "delNode"
  <2>1. Local("delDisks", next, mem)
    BY <1>11 DEF DeleteNextDisk
  <2>2. \/ next = "delDisk" /\ mem.disks < spec.disks
        \/ next \in {"dump", "delNode"} /\ mem.disks >= spec.disks
    BY <1>1
  <2> HIDE DEF next
  <2>3. next \in Steps
    BY <2>2 DEF Steps, PoolSteps
  <2>4. /\ TypeOK' /\ pc = "delDisks" /\ pc' = next /\ mem' = mem /\ host' = host
        /\ UNCHANGED <<spec, obj, held, cached, snap>>
    BY <1>1, <2>1, <2>3, LocalStep
  <2> QED
    BY <2>2, <2>4, ShrinksItself DEF Removing
<1>12. CASE DeleteAdditionalDisk
  <2> DEFINE i == mem.disks + 1
             r == DeleteDisk(host, i)
  <2>1. Virsh("delDisk", r, UnlessNotFound("delNext"))
    BY <1>12 DEF DeleteAdditionalDisk
  <2>2. pc = "delDisk"
    BY <1>12 DEF DeleteAdditionalDisk, Virsh, Command
  <2>3. i \in 1..NDisks
    BY <1>1, <2>2, NDisksAssumption DEF OnItsPath
  <2>4. /\ r \in Reply /\ Shrinks(host, r.host)
        /\ r.host.dom = host.dom /\ r.host.store = host.store
        /\ i \notin r.host.disks
    BY <1>1, <2>3, DeleteDiskType
  <2> HIDE DEF r
  <2>5. /\ Frame /\ host' \in {host, r.host}
        /\ pc' \in {"delNext", "error"}
        /\ pc' # "error" => host' = r.host
    BY <2>1, <2>4, UnlessNotFoundStep
  <2>6. Shrinks(host, host') /\ SameDefinition(host.dom, host'.dom)
    BY <2>4, <2>5, ShrinksItself
  <2> QED
    BY <2>2, <2>4, <2>5, <2>6, <1>2, FrameMemory DEF Removing, Frame
<1>13. CASE AdditionalDiskDeleted
  <2> DEFINE m == [mem EXCEPT !.disks = @ + 1]
  <2>1. Local("delNext", "delDisks", m)
    BY <1>13 DEF AdditionalDiskDeleted
  <2>2. pc = "delNext"
    BY <2>1 DEF Local
  <2>3. mem.disks + 1 \in 0..NDisks
    BY <1>1, <2>2, NDisksAssumption DEF OnItsPath
  <2>4. /\ m \in Memory /\ m.fin = mem.fin /\ m.deleting = mem.deleting
        /\ m.disks = mem.disks + 1 /\ m.failed = mem.failed /\ m.ready = mem.ready
    BY <1>1, <2>3 DEF Memory
  <2> HIDE DEF m
  <2>5. /\ TypeOK' /\ pc' = "delDisks" /\ mem' = m /\ host' = host
        /\ UNCHANGED <<spec, obj, held, cached, snap>>
    BY <2>1, <2>4, LocalStep DEF Steps
  <2> QED
    BY <2>2, <2>4, <2>5, ShrinksItself DEF Removing
<1>14. CASE DeleteNode
  <2> DEFINE m == [mem EXCEPT !.fin = FALSE]
  <2>1. /\ pc = "delNode" /\ pc' = "done" /\ mem' = m
        /\ UNCHANGED <<spec, obj, held, cached, queued, snap, host, gate, ready, secret>>
        /\ node' \in {FALSE, node}
    BY <1>14, Zenon DEF DeleteNode, api
  <2>2. faults' \in 0..MaxFaults
    BY <1>14, FaultsAssumption DEF DeleteNode, Fault, CanFault, TypeOK
  <2>3. /\ m \in Memory /\ m.deleting = mem.deleting
        /\ m.disks = mem.disks /\ m.failed = mem.failed /\ m.ready = mem.ready
    BY <1>1, Zenon DEF Memory
  <2> HIDE DEF m
  <2>4. TypeOK'
    BY <2>1, <2>2, <2>3, Zenon DEF TypeOK, Steps
  <2> QED
    BY <2>1, <2>3, <2>4, ShrinksItself DEF Removing
<1> QED
  BY <1>4, <1>5, <1>6, <1>8, <1>9, <1>10, <1>11, <1>12, <1>13, <1>14 DEF DeleteStep

(* DestroyPool on behalf of reconcileDelete.                               *)
TearingDown ==
    /\ UNCHANGED <<spec, obj, held, cached, snap>>
    /\ Untouched(host, host')
    /\ mem'.deleting = mem.deleting /\ mem'.fin = mem.fin /\ mem'.disks = mem.disks
    /\ mem.failed => mem'.failed
    /\ mem'.ready => mem.ready
    /\ pc \in PoolSteps /\ pc' \in PoolSteps \cup {"delNode", "error"}

LEMMA PoolStepTears ==
  ASSUME TypeOK, PoolStep, mem.deleting
  PROVE  TearingDown /\ TypeOK'
BY PoolStepType, FrameMemory, Zenon DEF TearingDown, Frame
-----------------------------------------------------------------------------
(* The start and the end of a reconcile.                                   *)

Loading ==
    /\ UNCHANGED <<spec, obj, held, cached, host>>
    /\ pc = "idle"
    /\ \/ UNCHANGED <<pc, snap, mem>>
       \/ /\ cached.exists /\ snap' = cached /\ mem' = Load(cached)
          /\ pc' \in {"error", "done", IF cached.deleting THEN "delete" ELSE "normal"}

LEMMA LoadType ==
  ASSUME NEW o \in Object
  PROVE  /\ Load(o) \in Memory
         /\ Load(o).deleting = o.deleting /\ Load(o).fin = o.fin
         /\ Load(o).failed = o.failed /\ Load(o).ready = o.ready
         /\ Load(o).pool = "store" /\ Load(o).disks = 0
BY NDisksAssumption DEF Load, Object, Memory, Pools

LEMMA NothingType ==
  /\ NoObject \in Object /\ NewObject \in Object /\ NoMemory \in Memory
  /\ ~NoObject.exists /\ ~NoObject.deleting /\ ~NoObject.fin
  /\ ~NoObject.failed /\ ~NoObject.ready
  /\ NewObject.exists /\ ~NewObject.deleting /\ ~NewObject.fin
  /\ ~NewObject.failed /\ ~NewObject.ready
  /\ ~NoMemory.deleting /\ ~NoMemory.fin /\ ~NoMemory.failed /\ ~NoMemory.ready
  /\ NoMemory.disks = 0
<1>1. /\ NoObject \in Object
      /\ ~NoObject.exists /\ ~NoObject.deleting /\ ~NoObject.fin
      /\ ~NoObject.failed /\ ~NoObject.ready
  BY DEF NoObject, Object
<1>2. /\ NewObject \in Object
      /\ NewObject.exists /\ ~NewObject.deleting /\ ~NewObject.fin
      /\ ~NewObject.failed /\ ~NewObject.ready
  BY Zenon DEF NewObject, NoObject, Object
<1> QED
  BY <1>1, <1>2, LoadType DEF NoMemory

LEMMA ReconcileLoads ==
  ASSUME TypeOK, Reconcile
  PROVE  Loading /\ TypeOK'
<1>1. Loading
  BY DEF Reconcile, Loading, env
<1>2. queued' = FALSE /\ (faults' = faults \/ Fault("transient"))
  BY DEF Reconcile
<1>5. faults' \in 0..MaxFaults
  BY <1>2, FaultsAssumption DEF Fault, CanFault, TypeOK
<1>3. mem' \in Memory /\ snap' \in Object /\ pc' \in Steps
  BY <1>1, LoadType DEF Loading, TypeOK, Steps, NormalSteps, DeleteSteps, ReturnSteps
<1>4. UNCHANGED <<spec, obj, cached, host, gate, held, node, ready, secret>>
  BY DEF Reconcile, env
<1> QED
  BY <1>1, <1>2, <1>3, <1>4, <1>5, Zenon DEF TypeOK

(* What the deferred patch does to the object.                             *)
Storing ==
    /\ UNCHANGED <<spec, cached, host>>
    /\ pc \in ReturnSteps /\ pc' = "idle" /\ mem' = NoMemory /\ snap' = NoObject
    /\ held' = (held \/ obj'.fin)
    /\ ~obj.exists => obj' = obj
    /\ obj.exists =>
         \/ obj' = NoObject /\ obj.deleting /\ (Released \/ ~obj.fin)
         \/ /\ obj'.exists
            /\ obj'.deleting = obj.deleting
            /\ obj'.deleting => obj'.fin
            /\ obj.fin => obj'.fin \/ Released
            /\ obj.failed => obj'.failed \/ (snap.failed /\ ~mem.failed)
            /\ mem.failed /\ ~snap.failed => obj'.failed \/ faults' # faults
            /\ obj'.ready => obj.ready \/ (mem.ready /\ ~snap.ready)

LEMMA PatchStores ==
  ASSUME TypeOK, Patch
  PROVE  Storing /\ TypeOK'
<1>1. PICK meta \in BOOLEAN, status \in BOOLEAN :
         /\ IF meta /\ status THEN UNCHANGED faults ELSE Fault("patch")
         /\ obj' = Patched(meta, status)
  BY DEF Patch
<1> DEFINE f == IF meta /\ mem.fin # snap.fin THEN mem.fin ELSE obj.fin
           e == IF status /\ mem.failed # snap.failed THEN mem.failed ELSE obj.failed
           d == IF status /\ mem.ready # snap.ready THEN mem.ready ELSE obj.ready
           o == [obj EXCEPT !.fin = f, !.failed = e, !.ready = d]
<1>2. /\ obj \in Object /\ mem \in Memory /\ snap \in Object
  BY DEF TypeOK
<1>3. f \in BOOLEAN /\ e \in BOOLEAN /\ d \in BOOLEAN
  BY <1>2 DEF Object, Memory
<1>4. /\ obj.fin => f \/ Released
      /\ obj.failed => e \/ (snap.failed /\ ~mem.failed)
      /\ d => obj.ready \/ (mem.ready /\ ~snap.ready)
      /\ mem.failed /\ ~snap.failed => e \/ ~status
  BY <1>2 DEF Object, Memory, Released
<1>13. status \/ faults' # faults
  BY <1>1, FaultsAssumption DEF Fault, TypeOK
<1>5. obj' = IF ~obj.exists THEN obj
             ELSE IF o.deleting /\ ~o.fin THEN NoObject ELSE o
  BY <1>1 DEF Patched
<1> HIDE DEF f, e, d
<1>6. /\ o \in Object /\ o.exists = obj.exists /\ o.deleting = obj.deleting
      /\ o.fin = f /\ o.failed = e /\ o.ready = d
  BY <1>2, <1>3, ZenonT(30) DEF Object
<1> HIDE DEF o
<1>7. obj' \in Object
  BY <1>2, <1>5, <1>6, NothingType
<1>8. obj.exists =>
         \/ obj' = NoObject /\ obj.deleting /\ (Released \/ ~obj.fin)
         \/ /\ obj'.exists
            /\ obj'.deleting = obj.deleting
            /\ obj'.deleting => obj'.fin
            /\ obj.fin => obj'.fin \/ Released
            /\ obj.failed => obj'.failed \/ (snap.failed /\ ~mem.failed)
            /\ mem.failed /\ ~snap.failed => obj'.failed \/ faults' # faults
            /\ obj'.ready => obj.ready \/ (mem.ready /\ ~snap.ready)
  BY <1>4, <1>5, <1>6, <1>13, Zenon
<1>9. Storing
  BY <1>5, <1>8 DEF Storing, Patch, env
<1>10. faults' \in 0..MaxFaults
  BY <1>1, FaultsAssumption DEF Fault, CanFault, TypeOK
<1>11. held' \in BOOLEAN /\ queued' \in BOOLEAN
  BY <1>2, <1>7 DEF Patch, TypeOK, Object
<1>12. TypeOK'
  BY <1>7, <1>10, <1>11, NothingType DEF Patch, TypeOK, Steps, env
<1> QED
  BY <1>9, <1>12
-----------------------------------------------------------------------------
(* The environment.                                                        *)

Background ==
    \/ Resync \/ SetOwner \/ Pause \/ Unpause \/ HostReady \/ HostLost
    \/ BootstrapReady \/ KubeletJoins \/ VMStops \/ DaemonRestart \/ Reboot

(* What happens behind the controller's back: a domain may stop.           *)
Drifting ==
    /\ UNCHANGED <<spec, obj, held, cached, pc, snap, mem>>
    /\ host'.store = host.store /\ host'.disks = host.disks
    /\ SameDefinition(host.dom, host'.dom)
    /\ host.dom.state # "running" => host'.dom.state # "running"

LEMMA StoppedType ==
  ASSUME NEW d \in Domain
  PROVE  /\ Stopped(d) \in Domain /\ SameDefinition(d, Stopped(d))
         /\ Stopped(d).state # "running"
BY Zenon DEF Stopped, Domain, SameDefinition

LEMMA BackgroundDrifts ==
  ASSUME TypeOK, Background
  PROVE  Drifting /\ TypeOK'
<1>1. host \in Host /\ host.dom \in Domain
  BY DEF TypeOK, Host
<1>2. faults' \in 0..MaxFaults
  BY FaultsAssumption
     DEF Background, Resync, SetOwner, Pause, Unpause, HostReady, HostLost,
         BootstrapReady, KubeletJoins, VMStops, DaemonRestart, Reboot, Fault,
         CanFault, TypeOK
<1>3. UNCHANGED <<spec, obj, held, cached, pc, snap, mem>>
  BY DEF Background, Resync, SetOwner, Pause, Unpause, HostReady, HostLost,
         BootstrapReady, KubeletJoins, VMStops, DaemonRestart, Reboot, env, api
<1>4. /\ queued' \in BOOLEAN /\ gate' \in {"noOwner", "paused", "open"}
      /\ node' \in BOOLEAN /\ ready' \in BOOLEAN /\ secret' \in BOOLEAN
  BY Zenon DEF Background, Resync, SetOwner, Pause, Unpause, HostReady, HostLost,
         BootstrapReady, KubeletJoins, VMStops, DaemonRestart, Reboot, env, api,
         TypeOK
<1>5. ASSUME host' \in Host, host'.store = host.store, host'.disks = host.disks,
             host'.dom \in {host.dom, Stopped(host.dom)}
      PROVE  Drifting /\ TypeOK'
  <2>1. /\ SameDefinition(host.dom, host'.dom)
        /\ host.dom.state # "running" => host'.dom.state # "running"
    BY <1>1, <1>5, StoppedType DEF SameDefinition
  <2> QED
    BY <1>2, <1>3, <1>4, <1>5, <2>1 DEF Drifting, TypeOK
<1>6. CASE UNCHANGED host
  BY <1>1, <1>5, <1>6
<1>7. CASE VMStops
  BY <1>1, <1>5, <1>7, StoppedType DEF VMStops, Host
<1>8. CASE DaemonRestart
  BY <1>1, <1>5, <1>8 DEF DaemonRestart, Host
<1>9. CASE Reboot
  <2> DEFINE p == IF host.pool = "active" THEN "inactive" ELSE host.pool
             d == Stopped(host.dom)
  <2>1. host' = [host EXCEPT !.dom = d, !.stack = << >>, !.pool = p]
    BY <1>9 DEF Reboot
  <2>2. p \in {"undefined", "inactive", "active"} /\ d \in Domain /\ << >> \in Seq(Layer)
    BY <1>1, StoppedType DEF Host
  <2>3. host' \in Host /\ host'.store = host.store /\ host'.disks = host.disks
        /\ host'.dom = d
    <3> HIDE DEF p, d
    <3> QED  BY <1>1, <2>1, <2>2 DEF Host
  <2> QED
    BY <2>3, <1>5
<1> QED
  BY <1>6, <1>7, <1>8, <1>9
     DEF Background, Resync, SetOwner, Pause, Unpause, HostReady, HostLost,
         BootstrapReady, KubeletJoins, env

LEMMA ActorType ==
  ASSUME TypeOK, UserDelete \/ SyncCache \/ Crash
  PROVE  TypeOK' /\ UNCHANGED <<spec, held, host>>
<1>1. CASE UserDelete
  <2>1. obj' \in Object
    BY <1>1, NothingType, Zenon DEF UserDelete, TypeOK, Object
  <2> QED
    BY <1>1, <2>1 DEF UserDelete, TypeOK, env
<1>2. CASE SyncCache
  BY <1>2 DEF SyncCache, TypeOK, env
<1>3. CASE Crash
  <2>1. faults' \in 0..MaxFaults
    BY <1>3, FaultsAssumption DEF Crash, Fault, CanFault, TypeOK
  <2>2. queued' \in BOOLEAN
    BY <1>3 DEF Crash, TypeOK, Object
  <2> QED
    BY <1>3, <2>1, <2>2, NothingType DEF Crash, TypeOK, Steps, env
<1> QED
  BY <1>1, <1>2, <1>3
-----------------------------------------------------------------------------
(* The kinds of step there are.                                            *)

LEMMA NormalFrom ==
  ASSUME NormalStep
  PROVE  pc \in NormalSteps
<1> USE DEF NormalSteps, Virsh, Plain, Command, Local
<1>1. CASE ReconcileNormal \/ PreflightPools \/ ReconcileBaseImage \/ ReconcileBootArtifacts
  BY <1>1 DEF ReconcileNormal, PreflightPools, ReconcileBaseImage, ReconcileBootArtifacts
<1>2. CASE RootDiskStep
  BY <1>2 DEF RootDiskStep, EphemeralPoolExists, EphemeralPoolActive,
     StartEphemeralPool, CreateTmpfsDirectory, CreateTmpfsMount,
     CreateTmpfsDefine, CreateTmpfsStart, UseEphemeralPool, RootDiskExists,
     CloneRootDisk, BaseImagePath, CreateRootDisk
<1>3. CASE BootstrapStep
  BY <1>3 DEF BootstrapStep, ReadBootstrapData, CreateIgnitionDirectory,
     TruncateIgnition, FillIgnition,
     BootstrapISOExists, CreateBootstrapISO, UploadBootstrapISO
<1>4. CASE AdditionalDisksStep
  BY <1>4 DEF AdditionalDisksStep, NextDisk, AdditionalDiskExists,
     CreateAdditionalDisk, AdditionalDiskPath, AdditionalDiskDone
<1>5. CASE DomainStep
  BY <1>5 DEF DomainStep, DomainIsDefined, DomainPaths, Define, DomainState,
     Start, DomainStarted, UpdateStatus
<1> QED
  BY <1>1, <1>2, <1>3, <1>4, <1>5 DEF NormalStep

(* A failure recorded earlier ends the reconcile before any command.       *)
LEMMA FailedStops ==
  ASSUME NormalStep, pc = "normal", mem.failed
  PROVE  pc' \in ReturnSteps
<1> USE DEF ReturnSteps, Virsh, Plain, Command, Local
<1>1. CASE ReconcileNormal
  BY <1>1 DEF ReconcileNormal
<1>2. ~(PreflightPools \/ ReconcileBaseImage \/ ReconcileBootArtifacts)
  BY DEF PreflightPools, ReconcileBaseImage, ReconcileBootArtifacts
<1>3. ~RootDiskStep
  BY DEF RootDiskStep, EphemeralPoolExists, EphemeralPoolActive,
     StartEphemeralPool, CreateTmpfsDirectory, CreateTmpfsMount,
     CreateTmpfsDefine, CreateTmpfsStart, UseEphemeralPool, RootDiskExists,
     CloneRootDisk, BaseImagePath, CreateRootDisk
<1>4. ~BootstrapStep
  BY DEF BootstrapStep, ReadBootstrapData, CreateIgnitionDirectory,
     TruncateIgnition, FillIgnition,
     BootstrapISOExists, CreateBootstrapISO, UploadBootstrapISO
<1>5. ~AdditionalDisksStep
  BY DEF AdditionalDisksStep, NextDisk, AdditionalDiskExists,
     CreateAdditionalDisk, AdditionalDiskPath, AdditionalDiskDone
<1>6. ~DomainStep
  BY DEF DomainStep, DomainIsDefined, DomainPaths, Define, DomainState,
     Start, DomainStarted, UpdateStatus
<1> QED
  BY <1>1, <1>2, <1>3, <1>4, <1>5, <1>6 DEF NormalStep

LEMMA StepKinds ==
  ASSUME TypeOK, OnItsPath, Next
  PROVE  /\ TypeOK'
         /\ \/ Loading \/ Storing \/ Drifting \/ UserDelete \/ SyncCache \/ Crash
            \/ /\ Adding /\ ~mem.deleting /\ pc \in NormalSteps \cup PoolSteps
               /\ pc = "normal" /\ mem.failed => pc' \in ReturnSteps
            \/ Removing /\ mem.deleting
            \/ TearingDown /\ mem.deleting
<1>1. CASE Reconcile
  BY <1>1, ReconcileLoads
<1>2. CASE Patch
  BY <1>2, PatchStores
<1>3. CASE Background
  BY <1>3, BackgroundDrifts
<1>4. CASE UserDelete \/ SyncCache \/ Crash
  BY <1>4, ActorType
<1>5. CASE NormalStep
  BY <1>5, NormalAdds, NormalFrom, FailedStops DEF OnItsPath
<1>6. CASE DeleteStep
  <2>1. Removing /\ TypeOK'
    BY <1>6, DeleteRemoves
  <2> QED
    BY <2>1 DEF Removing, OnItsPath
<1>7. CASE PoolStep
  BY <1>7, PoolStepType, PoolStepAdds, PoolStepTears DEF PoolSteps
<1> QED
  BY <1>1, <1>2, <1>3, <1>4, <1>5, <1>6, <1>7, Zenon DEF Next, Worker, Environment, Background
=============================================================================
