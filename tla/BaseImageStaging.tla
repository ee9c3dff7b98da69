--------------------------- MODULE BaseImageStaging ---------------------------
(***************************************************************************)
(* Staging the cluster's base image on libvirt hosts: reconcileBaseImage   *)
(* of concurrent reconcile workers (each with its own machine), the image  *)
(* cache they share, the per-(host, digest) upload lock, the commands of   *)
(* UploadQcow2Volume, and the step of reconcileRootDisk that then uses the *)
(* volume. An error sends a worker back to the start of its next reconcile.*)
(***************************************************************************)
EXTENDS ImageCache

CONSTANTS Hosts,        \* LibvirtHosts
          Absent,       \* there is no volume
          Blank         \* a volume whose upload has not finished

ASSUME StagingAssumption ==
    Absent # Blank /\ {Absent, Blank} \cap MaybeDigest = {}

VARIABLES
    at,         \* the host of each worker's machine: spec.hostRef
    stage,      \* where each worker is
    vol,        \* the base image volume of each host
    locked,     \* the upload locks that are held, as <<host, digest>>
    failed,     \* the machine has a terminal failure
    used,       \* what the machine's root disk was made from, or Absent
    refused     \* history: a vol-upload or a command failed for good

stagingVars == <<at, stage, vol, locked, failed, used, refused>>
allVars     == <<cacheVars, stagingVars>>

Contents == Digests \cup {Absent, Blank}

StageSteps == {"idle", "exists", "creds", "get", "lock", "recheck", "stream",
               "create", "upload", "discard", "root", "done"}

StagingTypeOK ==
    /\ CacheTypeOK
    /\ at \in [Workers -> Hosts]
    /\ stage \in [Workers -> StageSteps]
    /\ vol \in [Hosts -> Contents]
    /\ locked \subseteq Hosts \X Digests
    /\ failed \in [Workers -> BOOLEAN]
    /\ used \in [Workers -> Contents]
    /\ refused \in BOOLEAN

StagingInit ==
    /\ CacheInit
    /\ at \in [Workers -> Hosts]
    /\ stage = [w \in Workers |-> "idle"]
    /\ vol = [h \in Hosts |-> Absent]
    /\ locked = {}
    /\ failed = [w \in Workers |-> FALSE]
    /\ used = [w \in Workers |-> Absent]
    /\ refused = FALSE

Lock(w) == <<at[w], entry[w]>>

Go(w, s) == stage' = [stage EXCEPT ![w] = s]

Fails(w) == failed' = [failed EXCEPT ![w] = TRUE]

OnlyStage == UNCHANGED <<req, serving, file, body, get, entry, at, used>>

(* What can go wrong with a command, seen from the worker: an error that   *)
(* ends the reconcile, or a terminal one, after which reconcileNormal goes *)
(* on with the root disk.                                                  *)
Wrong(w) == /\ Fault
            /\ \/ Go(w, "idle") /\ UNCHANGED <<failed, refused>>
               \/ Go(w, "root") /\ Fails(w) /\ refused' = TRUE

(* The deferred Unlock.                                                    *)
Release(w) == locked' = locked \ {Lock(w)}
-----------------------------------------------------------------------------
(* A machine with a failure stops before the staging.                      *)
Begin(w) ==
    /\ stage[w] = "idle" /\ ~failed[w]
    /\ Go(w, "exists")
    /\ OnlyStage /\ UNCHANGED <<faults, vol, locked, failed, refused>>

(* The fast path: a volume of that name is there.                          *)
VolumeExists(w) ==
    /\ stage[w] = "exists"
    /\ \/ /\ Go(w, IF vol[at[w]] # Absent THEN "root" ELSE "creds")
          /\ UNCHANGED <<faults, failed, refused>>
       \/ Wrong(w)
    /\ OnlyStage /\ UNCHANGED <<vol, locked>>

(* The pull secret is read, and Get is called.                             *)
Credentials(w) ==
    /\ stage[w] = "creds"
    /\ \/ Go(w, "get") /\ get' = [get EXCEPT ![w] = "stat"] /\ UNCHANGED faults
       \/ Fault /\ Go(w, "idle") /\ UNCHANGED get
    /\ UNCHANGED <<req, serving, file, body, entry, at, vol, locked, failed,
                   used, refused>>

Fetch(w) == stage[w] = "get" /\ GetStep(w) /\ UNCHANGED stagingVars

(* Mutant: the error of Get is not looked at.                              *)
FetchedUnchecked(w) ==
    /\ stage[w] = "get" /\ get[w] = "returned"
    /\ get' = [get EXCEPT ![w] = "out"]
    /\ Go(w, "lock")
    /\ UNCHANGED <<req, serving, file, body, entry, faults, at, vol, locked,
                   failed, used, refused>>

Fetched(w) ==
    /\ stage[w] = "get" /\ get[w] = "returned"
    /\ get' = [get EXCEPT ![w] = "out"]
    /\ Go(w, IF entry[w] = None THEN "idle" ELSE "lock")
    /\ UNCHANGED <<req, serving, file, body, entry, faults, at, vol, locked,
                   failed, used, refused>>

LockUpload(w) ==
    /\ stage[w] = "lock" /\ Lock(w) \notin locked
    /\ locked' = locked \cup {Lock(w)}
    /\ Go(w, "recheck")
    /\ OnlyStage /\ UNCHANGED <<faults, vol, failed, refused>>

(* Mutant: whoever gets the lock uploads, without looking again.           *)
RecheckSkipped(w) ==
    /\ stage[w] = "recheck"
    /\ Go(w, "stream")
    /\ OnlyStage /\ UNCHANGED <<faults, vol, locked, failed, refused>>

Recheck(w) ==
    /\ stage[w] = "recheck"
    /\ \/ /\ vol[at[w]] # Absent
          /\ Go(w, "root") /\ Release(w) /\ UNCHANGED <<faults, failed, refused>>
       \/ /\ vol[at[w]] = Absent
          /\ Go(w, "stream") /\ UNCHANGED <<faults, failed, refused, locked>>
       \/ Wrong(w) /\ Release(w)
    /\ OnlyStage /\ UNCHANGED vol

(* The cached file is opened, its header read, and it is streamed to a     *)
(* temporary file on the host. These errors are plain.                     *)
StreamImage(w) ==
    /\ stage[w] = "stream"
    /\ \/ Go(w, "create") /\ UNCHANGED <<faults, locked>>
       \/ Fault /\ Go(w, "idle") /\ Release(w)
    /\ OnlyStage /\ UNCHANGED <<vol, failed, refused>>

(* vol-create-as. A volume that is there already is a terminal error.      *)
CreateVolume(w) ==
    /\ stage[w] = "create"
    /\ \/ /\ vol[at[w]] = Absent
          /\ vol' = [vol EXCEPT ![at[w]] = Blank]
          /\ \/ Go(w, "upload") /\ UNCHANGED <<faults, locked>>
             \/ Fault /\ Go(w, "idle") /\ Release(w)     \* the reply is lost
          /\ UNCHANGED <<failed, refused>>
       \/ /\ vol[at[w]] # Absent
          /\ Go(w, "root") /\ Fails(w) /\ Release(w)
          /\ UNCHANGED <<faults, vol, refused>>
       \/ Wrong(w) /\ Release(w) /\ UNCHANGED vol
    /\ OnlyStage

(* vol-upload. When it reports an error, whether or not it ran, the volume *)
(* is deleted again.                                                       *)
UploadVolume(w) ==
    /\ stage[w] = "upload"
    /\ \/ /\ vol' = [vol EXCEPT ![at[w]] = file[entry[w]]]
          /\ Go(w, "root") /\ Release(w)
          /\ UNCHANGED <<faults, failed, refused>>
       \/ /\ Fault
          /\ vol' \in {vol, [vol EXCEPT ![at[w]] = file[entry[w]]]}
          /\ failed' \in {failed, [failed EXCEPT ![w] = TRUE]}
          /\ refused' = TRUE
          /\ Go(w, "discard") /\ UNCHANGED locked
    /\ OnlyStage

(* Mutant: the error path keeps the lock.                                  *)
DiscardLocked(w) ==
    /\ stage[w] = "discard"
    /\ vol' = [vol EXCEPT ![at[w]] = Absent]
    /\ Go(w, IF failed[w] THEN "root" ELSE "idle")
    /\ OnlyStage /\ UNCHANGED <<faults, locked, failed, refused>>

DiscardVolume(w) ==
    /\ stage[w] = "discard"
    /\ \/ vol' = [vol EXCEPT ![at[w]] = Absent] /\ UNCHANGED faults
       \/ Fault /\ UNCHANGED vol
    /\ Go(w, IF failed[w] THEN "root" ELSE "idle") /\ Release(w)
    /\ OnlyStage /\ UNCHANGED <<failed, refused>>

(* reconcileRootDisk makes the root disk from the volume; a missing base   *)
(* image is terminal.                                                      *)
MakeRootDisk(w) ==
    /\ stage[w] = "root"
    /\ \/ /\ vol[at[w]] # Absent
          /\ used' = [used EXCEPT ![w] = vol[at[w]]]
          /\ Go(w, "done") /\ UNCHANGED <<faults, failed>>
       \/ /\ vol[at[w]] = Absent
          /\ Go(w, "idle") /\ Fails(w) /\ UNCHANGED <<faults, used>>
       \/ Fault /\ Go(w, "idle") /\ UNCHANGED <<failed, used>>
    /\ UNCHANGED <<req, serving, file, body, get, entry, at, vol, locked,
                   refused>>

(* The manager restarts: locks and flights are gone, and so is the cache   *)
(* directory if the pod was replaced (an emptyDir).                        *)
Crash ==
    /\ Fault
    /\ stage' = [w \in Workers |-> IF stage[w] = "done" THEN "done" ELSE "idle"]
    /\ get' = [w \in Workers |-> "out"]
    /\ body' = [w \in Workers |-> None]
    /\ entry' = [w \in Workers |-> None]
    /\ locked' = {}
    /\ file' \in {file, [d \in Digests |-> None]}
    /\ UNCHANGED <<req, serving, at, vol, failed, used, refused>>

(* Somebody replaces the image behind a source.                            *)
Republish(s) ==
    /\ Fault
    /\ \E d \in Digests \ {serving[s]} : serving' = [serving EXCEPT ![s] = d]
    /\ UNCHANGED <<req, file, body, get, entry, stagingVars>>

StageStep(w) ==
    \/ Begin(w) \/ VolumeExists(w) \/ Credentials(w) \/ Fetch(w) \/ Fetched(w)
    \/ LockUpload(w) \/ Recheck(w) \/ StreamImage(w) \/ CreateVolume(w)
    \/ UploadVolume(w) \/ DiscardVolume(w) \/ MakeRootDisk(w)

StagingNext ==
    \/ \E w \in Workers : StageStep(w)
    \/ Crash
    \/ \E s \in Sources : Republish(s)

StagingSpec == StagingInit /\ [][StagingNext]_allVars

(* Every worker keeps running. A mutex is handed to a waiter that waits.   *)
StagingFairSpec ==
    /\ StagingSpec
    /\ \A w \in Workers : WF_allVars(StageStep(w)) /\ SF_allVars(LockUpload(w))
-----------------------------------------------------------------------------
(* A pinned digest is what reaches the host: if every machine of a host    *)
(* pins d, the host's volume is never complete with anything else, however *)
(* often the source changed between the workers' downloads, and whichever  *)
(* of Stat, Commit and Land gave the uploader its entry.                   *)
PinnedImageOnly ==
    \A h \in Hosts, d \in Digests :
        (\A w \in Workers : at[w] = h => req[w].want = d)
            => vol[h] \in {Absent, Blank, d}

(* The inductive invariant behind it. An entry that Get returned is the    *)
(* name of a file with that content, and the digest its caller pinned; a   *)
(* worker is in Get exactly while its reconcile waits for it.              *)
Uploading == {"lock", "recheck", "stream", "create", "upload"}

StagingInv ==
    /\ \A d \in Digests : file[d] \in {None, d}
    /\ \A w \in Workers :
         /\ entry[w] # None => /\ file[entry[w]] = entry[w]
                              /\ req[w].want \in {None, entry[w]}
         /\ get[w] # "out" => stage[w] = "get"
         /\ get[w] \in {"copy", "commit"} => body[w] # None
         /\ stage[w] \in Uploading => entry[w] # None
    /\ PinnedImageOnly

(* Machines that pin the same image do not fail each other: unless a       *)
(* vol-upload fails or a command is refused for good, none of them ends    *)
(* with a terminal failure ("already exists", or a base image that is not  *)
(* found), whatever the interleaving, crashes and lost replies.            *)
Agreed == /\ \A v, w \in Workers : req[v] = req[w]
          /\ \A w \in Workers : req[w].want # None

RacesDoNotFail == Agreed /\ ~refused => \A w \in Workers : ~failed[w]

(* Each machine with an image that can be had gets its root disk or a      *)
(* failure: no call of Get and no lock is waited for in vain.              *)
Fetchable(w) == req[w].want \in {None, serving[req[w].src]}

EventuallyBuilt ==
    \A w \in Workers : <>[]Fetchable(w) => <>(used[w] # Absent \/ failed[w])

(* UploadQcow2Volume's comment: the volume is not visible to others before *)
(* the upload is complete. So no root disk is made from a blank volume.    *)
NothingMadeFromBlank == \A w \in Workers : used[w] # Blank
=============================================================================
