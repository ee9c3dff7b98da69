------------------------- MODULE ImageAndClusterProofs -------------------------
(***************************************************************************)
(* Proofs about two parts that share nothing but their faults.             *)
(* BaseImageStaging: types, that a pinned digest is the only content that  *)
(* reaches a host, and that racing workers do not fail each other, for any *)
(* number of workers, sources, digests, hosts and faults.                  *)
(* ClusterController: types, what the patch writes, and that no cluster is *)
(* left alone, for any endpoints and any number of faults.                 *)
(***************************************************************************)
EXTENDS BaseImageStaging, ClusterController, TLAPS

(* BaseImageStaging.                                                       *)

Good == StagingTypeOK /\ StagingInv

LEMMA FaultType ==
  ASSUME faults \in 0..MaxFaults, Fault
  PROVE  faults' \in 0..MaxFaults
BY CacheAssumption DEF Fault

(* A flight that ends with no entry, or with a digest that is in the cache *)
(* and that the request accepts, keeps the invariant.                      *)
LEMMA LandKeeps ==
  ASSUME Good, NEW w \in Workers, NEW d \in MaybeDigest, Land(w, d),
         get[w] \in Leading, UNCHANGED stagingVars,
         file' \in [Digests -> MaybeDigest], faults' \in 0..MaxFaults,
         \A e \in Digests : file'[e] \in {None, e},
         \A e \in Digests : file[e] # None => file'[e] = file[e],
         d # None => file'[d] = d /\ req[w].want \in {None, d}
  PROVE  Good'
<1> USE DEF Good
<1> DEFINE done == {w} \cup {v \in Workers : req[v] = req[w] /\ get[v] = "wait"}
<1>1. /\ req' = req /\ serving' = serving
      /\ body' = [body EXCEPT ![w] = None]
      /\ get' = [v \in Workers |-> IF v \in done THEN "returned" ELSE get[v]]
      /\ entry' = [v \in Workers |-> IF v \in done THEN d ELSE entry[v]]
  BY DEF Land
<1>2. StagingTypeOK'
  <2>1. CacheTypeOK'
    BY <1>1 DEF StagingTypeOK, CacheTypeOK, MaybeDigest, GetSteps
  <2> QED
    BY <2>1 DEF StagingTypeOK, stagingVars
<1>3. ASSUME NEW v \in Workers
      PROVE  /\ entry[v]' # None => /\ file'[entry'[v]] = entry'[v]
                                    /\ req'[v].want \in {None, entry'[v]}
             /\ get'[v] # "out" => stage'[v] = "get"
             /\ get'[v] \in {"copy", "commit"} => body'[v] # None
             /\ stage'[v] \in Uploading => entry'[v] # None
  <2>1. stage' = stage
    BY DEF stagingVars
  <2>2. v \in done => req[v] = req[w] /\ get[v] # "out"
    BY DEF Leading
  <2>3. CASE v \in done
    BY <1>1, <2>1, <2>2, <2>3 DEF StagingInv, Uploading
  <2>4. CASE v \notin done
    <3>1. v # w /\ get'[v] = get[v] /\ entry'[v] = entry[v] /\ body'[v] = body[v]
      BY <1>1, <2>4 DEF StagingTypeOK, CacheTypeOK
    <3> QED
      BY <1>1, <2>1, <3>1 DEF StagingInv, StagingTypeOK, CacheTypeOK, MaybeDigest
  <2> QED
    BY <2>3, <2>4
<1>4. PinnedImageOnly'
  BY <1>1 DEF StagingInv, PinnedImageOnly, stagingVars
<1> QED
  BY <1>2, <1>3, <1>4 DEF StagingInv

(* A step of Get.                                                          *)
LEMMA FetchKeeps ==
  ASSUME Good, NEW w \in Workers, Fetch(w)
  PROVE  Good'
<1> USE DEF Good
<1>1. stage[w] = "get" /\ UNCHANGED stagingVars
  BY DEF Fetch
<1>2. CASE Stat(w)
  <2>1. /\ req' = req /\ serving' = serving /\ file' = file /\ body' = body
        /\ faults' = faults
        /\ \E s \in {"returned", "join"} : get' = [get EXCEPT ![w] = s]
        /\ \/ entry' = [entry EXCEPT ![w] = None]
           \/ /\ entry' = [entry EXCEPT ![w] = req[w].want]
              /\ req[w].want \in Digests /\ file[req[w].want] = req[w].want
    BY <1>2, ZenonT(30) DEF Stat, StagingTypeOK, CacheTypeOK, Requests, MaybeDigest, StagingInv
  <2>2. StagingTypeOK'
    BY <1>1, <2>1
       DEF StagingTypeOK, CacheTypeOK, MaybeDigest, GetSteps, stagingVars
  <2>3. PinnedImageOnly'
    BY <1>1, <2>1 DEF StagingInv, PinnedImageOnly, stagingVars
  <2> QED
    BY <1>1, <2>1, <2>2, <2>3
       DEF StagingInv, StagingTypeOK, CacheTypeOK, stagingVars, Uploading
<1>3. CASE \/ Join(w)
           \/ Open(w) /\ ~Land(w, None)
           \/ Copy(w) /\ ~Land(w, None)
  <2>1. /\ req' = req /\ serving' = serving /\ file' = file /\ entry' = entry
        /\ faults' = faults
        /\ \/ body' = body /\ get[w] \in {"join", "copy"}
           \/ body' = [body EXCEPT ![w] = serving[req[w].src]] /\ get[w] = "open"
        /\ \/ get' = [get EXCEPT ![w] = "wait"] /\ get[w] = "join"
           \/ get' = [get EXCEPT ![w] = "open"] /\ get[w] = "join"
           \/ get' = [get EXCEPT ![w] = "copy"] /\ get[w] = "open"
           \/ get' = [get EXCEPT ![w] = "commit"] /\ get[w] = "copy"
    BY <1>3 DEF Join, Open, Copy
  <2>2. serving[req[w].src] \in Digests
    BY DEF StagingTypeOK, CacheTypeOK, Requests
  <2>3. StagingTypeOK'
    BY <1>1, <2>1, <2>2
       DEF StagingTypeOK, CacheTypeOK, MaybeDigest, GetSteps, Leading, stagingVars
  <2>4. PinnedImageOnly'
    BY <1>1, <2>1 DEF StagingInv, PinnedImageOnly, stagingVars
  <2> QED
    BY <1>1, <2>1, <2>2, <2>3, <2>4, CacheAssumption
       DEF StagingInv, StagingTypeOK, CacheTypeOK, stagingVars
<1>4. CASE /\ Land(w, None) /\ UNCHANGED file /\ get[w] \in Leading
           /\ faults' \in 0..MaxFaults
  BY <1>1, <1>4, LandKeeps DEF StagingTypeOK, CacheTypeOK, StagingInv, MaybeDigest
<1>5. CASE /\ Commit(w) /\ req[w].want \in {None, body[w]} /\ Land(w, body[w])
           /\ file' = [file EXCEPT ![body[w]] = body[w]] /\ UNCHANGED faults
  <2>1. get[w] = "commit" /\ body[w] \in Digests
    BY <1>5 DEF Commit, StagingInv, StagingTypeOK, CacheTypeOK, MaybeDigest
  <2>2. /\ file' \in [Digests -> MaybeDigest] /\ faults' \in 0..MaxFaults
        /\ \A e \in Digests : file'[e] \in {None, e}
        /\ \A e \in Digests : file[e] # None => file'[e] = file[e]
        /\ file'[body[w]] = body[w]
    BY <1>5, <2>1 DEF StagingInv, StagingTypeOK, CacheTypeOK, MaybeDigest
  <2> QED
    BY <1>1, <1>5, <2>1, <2>2, LandKeeps DEF Leading, MaybeDigest
<1>6. faults \in 0..MaxFaults
  BY DEF StagingTypeOK, CacheTypeOK
<1>7. CASE Open(w) \/ Copy(w)
  BY <1>3, <1>4, <1>6, <1>7, FaultType DEF Open, Copy, Leading
<1>8. CASE Commit(w)
  BY <1>4, <1>5, <1>6, <1>8, FaultType DEF Commit, Leading
<1> QED
  BY <1>2, <1>3, <1>7, <1>8 DEF Fetch, GetStep

(* A step of reconcileBaseImage that leaves the cache and the entries      *)
(* alone, enters the uploading steps only with an entry, and leaves a      *)
(* volume as it is, absent, blank, or with the content of its own entry.   *)
Staged(w) ==
    /\ UNCHANGED <<req, serving, file, body, entry, at>>
    /\ faults' \in 0..MaxFaults
    /\ \E s \in StageSteps, g \in {"out", "stat", get[w]} :
         /\ stage' = [stage EXCEPT ![w] = s]
         /\ get' = [get EXCEPT ![w] = g]
         /\ g # "out" => s = "get"
         /\ g \notin {"copy", "commit"}
         /\ s \in Uploading => entry[w] # None
    /\ \/ vol' = vol
       \/ \E c \in {Absent, Blank} : vol' = [vol EXCEPT ![at[w]] = c]
       \/ vol' = [vol EXCEPT ![at[w]] = entry[w]] /\ entry[w] # None
    /\ locked' \in SUBSET (Hosts \X Digests)
    /\ failed' \in [Workers -> BOOLEAN]
    /\ used' \in [Workers -> Contents]
    /\ refused' \in BOOLEAN

LEMMA StagedKeeps ==
  ASSUME Good, NEW w \in Workers, Staged(w)
  PROVE  Good'
<1> USE DEF Good
<1>1. CacheTypeOK'
  BY DEF Staged, StagingTypeOK, CacheTypeOK, GetSteps
<1>2. StagingTypeOK'
  <2>1. vol' \in [Hosts -> Contents]
    BY DEF Staged, StagingTypeOK, CacheTypeOK, MaybeDigest, Contents
  <2>2. stage' \in [Workers -> StageSteps]
    BY DEF Staged, StagingTypeOK
  <2>3. /\ at' \in [Workers -> Hosts] /\ failed' \in [Workers -> BOOLEAN]
        /\ used' \in [Workers -> Contents] /\ refused' \in BOOLEAN
    BY Zenon DEF Staged, StagingTypeOK
  <2>4. locked' \subseteq Hosts \X Digests
    BY DEF Staged
  <2> QED
    BY <1>1, <2>1, <2>2, <2>3, <2>4 DEF StagingTypeOK
<1>3. PinnedImageOnly'
  <2> SUFFICES ASSUME NEW h \in Hosts, NEW d \in Digests,
                      \A v \in Workers : at[v] = h => req[v].want = d
               PROVE  vol'[h] \in {Absent, Blank, d}
    BY DEF PinnedImageOnly, Staged
  <2>1. vol[h] \in {Absent, Blank, d}
    BY DEF StagingInv, PinnedImageOnly
  <2>2. at[w] = h /\ entry[w] # None => entry[w] = d
    BY CacheAssumption DEF StagingInv
  <2> QED
    BY <2>1, <2>2 DEF Staged, StagingTypeOK
<1> QED
  BY <1>2, <1>3 DEF Staged, StagingInv, StagingTypeOK, CacheTypeOK

LEMMA StageKeeps ==
  ASSUME Good, NEW w \in Workers, StageStep(w)
  PROVE  Good'
<1> USE DEF Good
<1>1. /\ faults \in 0..MaxFaults /\ stage[w] \in StageSteps
      /\ get = [get EXCEPT ![w] = get[w]]
      /\ failed \in [Workers -> BOOLEAN] /\ used \in [Workers -> Contents]
      /\ refused \in BOOLEAN /\ locked \in SUBSET (Hosts \X Digests)
      /\ locked \ {Lock(w)} \in SUBSET (Hosts \X Digests)
      /\ [failed EXCEPT ![w] = TRUE] \in [Workers -> BOOLEAN]
      /\ vol[at[w]] \in Contents
  BY DEF StagingTypeOK, CacheTypeOK
<1>2. stage[w] # "get" => get[w] = "out"
  BY DEF StagingInv
<1> DEFINE Cached == UNCHANGED <<req, serving, file, body, entry, at>>
           Jump(s, g) == /\ stage' = [stage EXCEPT ![w] = s]
                         /\ get' = [get EXCEPT ![w] = g]
<1>3. ASSUME NEW s \in StageSteps, NEW g \in {"out", "stat"}, Jump(s, g), Cached,
             g = "stat" => s = "get", s \in Uploading => entry[w] # None,
             faults' = faults \/ Fault,
             \/ vol' = vol
             \/ vol' = [vol EXCEPT ![at[w]] = Absent]
             \/ vol' = [vol EXCEPT ![at[w]] = Blank]
             \/ vol' = [vol EXCEPT ![at[w]] = entry[w]] /\ entry[w] # None,
             \/ locked' = locked
             \/ locked' = locked \ {Lock(w)}
             \/ locked' = locked \cup {Lock(w)} /\ entry[w] # None,
             failed' \in {failed, [failed EXCEPT ![w] = TRUE]},
             used' \in {used, [used EXCEPT ![w] = vol[at[w]]]},
             refused' \in {refused, TRUE}
      PROVE  Good'
  <2>1. faults' \in 0..MaxFaults
    BY <1>1, <1>3, FaultType
  <2>2. entry[w] # None => Lock(w) \in Hosts \X Digests
    BY DEF Lock, StagingTypeOK, CacheTypeOK, MaybeDigest
  <2>3. locked' \in SUBSET (Hosts \X Digests)
    BY <1>1, <1>3, <2>2
  <2>4. failed' \in [Workers -> BOOLEAN] /\ used' \in [Workers -> Contents]
    BY <1>1, <1>3, Zenon
  <2>5. refused' \in BOOLEAN
    BY <1>1, <1>3, Zenon
  <2> HIDE DEF Good
  <2>6. Staged(w)
    BY <1>3, <2>1, <2>3, <2>4, <2>5, Zenon DEF Staged
  <2> QED
    BY <2>6, StagedKeeps
<1>4. CASE Fetch(w)
  BY <1>4, FetchKeeps
<1>5. CASE Begin(w)
  BY <1>1, <1>2, <1>3, <1>5 DEF Begin, Go, OnlyStage, StageSteps, Uploading
<1>6. CASE VolumeExists(w)
  BY <1>1, <1>2, <1>3, <1>6, Zenon
     DEF VolumeExists, Wrong, Fails, Go, OnlyStage, StageSteps, Uploading
<1>7. CASE Credentials(w)
  BY <1>1, <1>2, <1>3, <1>7 DEF Credentials, Go, StageSteps, Uploading
<1>8. CASE Fetched(w)
  BY <1>1, <1>3, <1>8, Zenon DEF Fetched, Go, StageSteps, Uploading
<1>9. stage[w] \in Uploading => entry[w] # None /\ file[entry[w]] = entry[w]
  BY DEF StagingInv
<1>10. CASE LockUpload(w)
  BY <1>1, <1>2, <1>3, <1>9, <1>10
     DEF LockUpload, Go, OnlyStage, StageSteps, Uploading
<1>11. CASE Recheck(w)
  BY <1>1, <1>2, <1>3, <1>9, <1>11, Zenon
     DEF Recheck, Wrong, Fails, Release, Go, OnlyStage, StageSteps, Uploading
<1>12. CASE StreamImage(w)
  BY <1>1, <1>2, <1>3, <1>9, <1>12
     DEF StreamImage, Release, Go, OnlyStage, StageSteps, Uploading
<1>13. CASE CreateVolume(w)
  BY <1>1, <1>2, <1>3, <1>9, <1>13, Zenon
     DEF CreateVolume, Wrong, Fails, Release, Go, OnlyStage, StageSteps, Uploading
<1>14. CASE UploadVolume(w)
  BY <1>1, <1>2, <1>3, <1>9, <1>14, Zenon
     DEF UploadVolume, Release, Go, OnlyStage, StageSteps, Uploading
<1>15. CASE DiscardVolume(w)
  BY <1>1, <1>2, <1>3, <1>15, Zenon
     DEF DiscardVolume, Release, Go, OnlyStage, StageSteps, Uploading
<1>16. CASE MakeRootDisk(w)
  BY <1>1, <1>2, <1>3, <1>16
     DEF MakeRootDisk, Fails, Go, StageSteps, Uploading
<1> QED
  BY <1>4, <1>5, <1>6, <1>7, <1>8, <1>10, <1>11, <1>12, <1>13, <1>14, <1>15,
     <1>16 DEF StageStep

LEMMA CrashKeeps ==
  ASSUME Good, Crash
  PROVE  Good'
<1> USE DEF Good
<1>1. StagingTypeOK'
  BY FaultType
     DEF Crash, StagingTypeOK, CacheTypeOK, MaybeDigest, GetSteps, StageSteps
<1>2. PinnedImageOnly'
  BY DEF Crash, StagingInv, PinnedImageOnly
<1> QED
  BY <1>1, <1>2 DEF Crash, StagingInv, StagingTypeOK, Uploading

LEMMA RepublishKeeps ==
  ASSUME Good, NEW s \in Sources, Republish(s)
  PROVE  Good'
<1> USE DEF Good
<1>1. StagingTypeOK'
  BY FaultType DEF Republish, StagingTypeOK, CacheTypeOK, stagingVars
<1> QED
  BY <1>1 DEF Republish, StagingInv, PinnedImageOnly, stagingVars

LEMMA GoodStep ==
  ASSUME Good, [StagingNext]_allVars
  PROVE  Good'
<1>1. CASE UNCHANGED allVars
  BY <1>1
     DEF Good, StagingTypeOK, CacheTypeOK, StagingInv, PinnedImageOnly,
         allVars, cacheVars, stagingVars
<1> QED
  BY <1>1, StageKeeps, CrashKeeps, RepublishKeeps DEF StagingNext

LEMMA GoodInit == StagingInit => Good
<1> SUFFICES ASSUME StagingInit PROVE Good
  OBVIOUS
<1>1. CacheTypeOK
  BY CacheAssumption
     DEF StagingInit, CacheInit, CacheTypeOK, MaybeDigest, GetSteps
<1>2. StagingTypeOK
  BY <1>1, Zenon DEF StagingInit, StagingTypeOK, StageSteps, Contents
<1>3. PinnedImageOnly
  BY DEF StagingInit, PinnedImageOnly
<1> QED
  BY <1>2, <1>3 DEF StagingInit, CacheInit, Good, StagingInv, Uploading

(* Every reachable state of the staging is well typed. That what vol-upload*)
(* writes is the content of a cached file needs the invariant: a worker    *)
(* that uploads has an entry, and its file is there.                       *)
THEOREM StagingTypeCorrect == StagingSpec => []StagingTypeOK
<1>1. Good => StagingTypeOK
  BY DEF Good
<1> QED
  BY <1>1, GoodInit, GoodStep, PTL DEF StagingSpec

(* A host whose machines all pin a digest never holds a complete base      *)
(* image with another one: Cache.fetch verifies before it renames, every   *)
(* waiter of a flight asked for the same digest, and the cached file is    *)
(* what UploadQcow2Volume sends.                                           *)
THEOREM PinnedImage == StagingSpec => []PinnedImageOnly
<1>1. Good => PinnedImageOnly
  BY DEF Good, StagingInv
<1> QED
  BY <1>1, GoodInit, GoodStep, PTL DEF StagingSpec
-----------------------------------------------------------------------------
(* Workers that agree on the image: whoever holds the lock of a host is    *)
(* alone, finds the volume as the recheck found it, and nobody comes to    *)
(* the root disk before the volume is there.                               *)
Holding == {"recheck", "stream", "create", "upload"}

Key(w) == <<at[w], req[w].want>>

Racing(w) ==
    /\ stage[w] # "discard"
    /\ stage[w] = "root" => vol[at[w]] # Absent
    /\ stage[w] \in {"stream", "create"} => vol[at[w]] = Absent
    /\ stage[w] \in Holding =>
          /\ Key(w) \in locked
          /\ \A v \in Workers \ {w} : stage[v] \in Holding => at[v] # at[w]

NoneFailed == \A w \in Workers : ~failed[w]

Races == NoneFailed /\ \A w \in Workers : Racing(w)

(* A worker that does not hold the lock before the step or after it.       *)
LEMMA OutsiderStep ==
  ASSUME StagingTypeOK, Races, UNCHANGED <<req, at, vol, locked, failed>>,
         NEW w \in Workers, NEW s, Go(w, s), stage[w] \notin Holding,
         s \notin Holding \cup {"discard"}, s = "root" => vol[at[w]] # Absent
  PROVE  Races'
<1>1. stage'[w] = s /\ \A v \in Workers \ {w} : stage'[v] = stage[v]
  BY DEF Go, StagingTypeOK
<1>2. \A v \in Workers : Racing(v)'
  BY <1>1 DEF Races, Racing, Key, Holding
<1>3. NoneFailed'
  BY Zenon DEF Races, NoneFailed
<1> QED
  BY <1>2, <1>3 DEF Races

(* A worker that holds the lock, and releases it when it leaves.           *)
HolderMoves(w, s, c) ==
    /\ UNCHANGED <<req, at, failed>>
    /\ stage[w] \in Holding /\ Go(w, s) /\ s # "discard"
    /\ vol' = [vol EXCEPT ![at[w]] = c]
    /\ c # Absent \/ c = vol[at[w]]
    /\ s = "root" => c # Absent
    /\ s \in {"stream", "create"} => c = Absent
    /\ locked' = IF s \in Holding THEN locked ELSE locked \ {Key(w)}

LEMMA HolderStep ==
  ASSUME StagingTypeOK, Races, NEW w \in Workers, NEW s, NEW c, HolderMoves(w, s, c)
  PROVE  Races'
<1> USE DEF HolderMoves
<1>1. stage'[w] = s /\ \A v \in Workers \ {w} : stage'[v] = stage[v]
  BY DEF Go, StagingTypeOK
<1>2. vol'[at[w]] = c /\ \A h \in Hosts : vol[h] # Absent => vol'[h] # Absent
  BY DEF StagingTypeOK
<1>3. ASSUME NEW v \in Workers \ {w} PROVE Racing(v)'
  <2>1. Racing(v) /\ Racing(w) /\ at[v] \in Hosts
    BY DEF Races, StagingTypeOK
  <2>2. stage[v] \in Holding => at[v] # at[w] /\ Key(v) # Key(w)
    BY <2>1 DEF Racing, Key
  <2>3. stage[v] \in Holding => vol'[at[v]] = vol[at[v]] /\ Key(v) \in locked'
    BY <2>1, <2>2 DEF StagingTypeOK, Racing
  <2>4. stage'[v] \in Holding =>
           /\ Key(v)' \in locked'
           /\ \A x \in Workers \ {v} : stage'[x] \in Holding => at'[x] # at'[v]
    BY <1>1, <2>1, <2>2, <2>3 DEF Racing, Key
  <2> QED
    BY <1>1, <1>2, <2>1, <2>3, <2>4 DEF Racing, Holding
<1>4. Racing(w)'
  <2>1. Racing(w)
    BY DEF Races
  <2> QED
    BY <1>1, <1>2, <2>1 DEF Racing, Key, Holding
<1>5. NoneFailed'
  BY Zenon DEF Races, NoneFailed
<1> QED
  BY <1>3, <1>4, <1>5 DEF Races

LEMMA LockStep ==
  ASSUME Good, Agreed, Races, NEW w \in Workers, LockUpload(w)
  PROVE  Races'
<1>1. /\ UNCHANGED <<req, at, vol, failed>>
      /\ stage[w] = "lock" /\ Lock(w) \notin locked /\ locked' = locked \cup {Lock(w)}
      /\ stage'[w] = "recheck" /\ \A v \in Workers \ {w} : stage'[v] = stage[v]
  BY DEF LockUpload, OnlyStage, Go, Good, StagingTypeOK
<1>2. Lock(w) = Key(w)
  BY <1>1 DEF Good, StagingInv, Uploading, Agreed, Lock, Key
<1>3. ASSUME NEW v \in Workers \ {w}, stage[v] \in Holding PROVE at[v] # at[w]
  BY <1>1, <1>2, <1>3 DEF Races, Racing, Key, Agreed
<1>4. Racing(w)'
  BY <1>1, <1>2, <1>3 DEF Racing, Key, Holding
<1>5. ASSUME NEW v \in Workers \ {w} PROVE Racing(v)'
  <2>1. Racing(v)
    BY DEF Races
  <2> QED
    BY <1>1, <1>3, <2>1 DEF Racing, Key
<1>6. NoneFailed'
  BY <1>1, Zenon DEF Races, NoneFailed
<1> QED
  BY <1>4, <1>5, <1>6 DEF Races

LEMMA IdleStep ==
  ASSUME Races, UNCHANGED <<req, stagingVars>>
  PROVE  Races'
<1>1. failed' = failed /\ \A w \in Workers : Racing(w)'
  BY DEF Races, Racing, Key, stagingVars
<1>2. NoneFailed'
  BY <1>1, Zenon DEF Races, NoneFailed
<1> QED
  BY <1>1, <1>2 DEF Races

(* Requests do not change, and what was refused stays so.                  *)
LEMMA HistoryStep ==
  ASSUME [StagingNext]_allVars
  PROVE  (Agreed' => Agreed) /\ (~refused' => ~refused)
<1>1. req' = req
  BY ZenonT(30) DEF StagingNext, StageStep, Crash, Republish, Begin, VolumeExists,
         Credentials, Fetch, GetStep, Stat, Join, Open, Copy, Commit, Land,
         Fetched, LockUpload, Recheck, StreamImage, CreateVolume, UploadVolume,
         DiscardVolume, MakeRootDisk, OnlyStage, allVars, cacheVars
<1>2. refused' = refused \/ refused' = TRUE
  <2>1. ASSUME StagingNext PROVE refused' = refused \/ refused' = TRUE
    BY <2>1, Zenon
       DEF StagingNext, StageStep, Crash, Republish, Begin, VolumeExists,
           Credentials, Fetch, Fetched, LockUpload, Recheck, StreamImage,
           CreateVolume, UploadVolume, DiscardVolume, MakeRootDisk, Wrong,
           stagingVars
  <2> QED
    BY <2>1 DEF allVars, stagingVars
<1>3. Agreed' => Agreed
  BY <1>1 DEF Agreed
<1>4. ~refused' => ~refused
  BY <1>2, Zenon
<1> QED
  BY <1>3, <1>4

LEMMA RaceStep ==
  ASSUME Good, Agreed, ~refused', ~refused, Races, StagingNext
  PROVE  Races'
<1> USE DEF Good
<1>1. ASSUME NEW w \in Workers, Wrong(w) PROVE Go(w, "idle") /\ UNCHANGED failed
  BY <1>1, Zenon DEF Wrong
<1>2. ASSUME NEW w \in Workers, stage[w] \in Uploading PROVE Lock(w) = Key(w)
  BY <1>2 DEF StagingInv, Agreed, Lock, Key
<1>3. ASSUME NEW w \in Workers, VolumeExists(w) PROVE Races'
  <2>1. /\ stage[w] = "exists" /\ UNCHANGED <<req, at, vol, locked>>
        /\ \/ Go(w, IF vol[at[w]] # Absent THEN "root" ELSE "creds") /\ UNCHANGED failed
           \/ Go(w, "idle") /\ UNCHANGED failed
    BY <1>1, <1>3, Zenon DEF VolumeExists, OnlyStage
  <2> QED
    BY <2>1, OutsiderStep DEF Holding
<1>4. ASSUME NEW w \in Workers, Begin(w) \/ Credentials(w) \/ Fetched(w) PROVE Races'
  BY <1>4, OutsiderStep DEF Begin, Credentials, Fetched, OnlyStage, Holding
<1>5. ASSUME NEW w \in Workers, Recheck(w) PROVE Races'
  <2>1. /\ stage[w] = "recheck" /\ UNCHANGED <<req, at, vol, failed>>
        /\ \/ vol[at[w]] # Absent /\ Go(w, "root") /\ Release(w)
           \/ vol[at[w]] = Absent /\ Go(w, "stream") /\ UNCHANGED locked
           \/ Go(w, "idle") /\ Release(w)
    BY <1>1, <1>5, Zenon DEF Recheck, OnlyStage
  <2>2. vol' = [vol EXCEPT ![at[w]] = vol[at[w]]]
    BY <2>1 DEF StagingTypeOK
  <2>3. Release(w) => locked' = locked \ {Key(w)}
    BY <1>2, <2>1 DEF Release, Uploading
  <2>4. CASE Go(w, "root") /\ vol[at[w]] # Absent /\ Release(w)
    <3>1. HolderMoves(w, "root", vol[at[w]])
      BY <2>1, <2>2, <2>3, <2>4, Zenon DEF HolderMoves, Holding
    <3> QED
      BY <3>1, HolderStep
  <2>5. CASE Go(w, "stream") /\ vol[at[w]] = Absent /\ UNCHANGED locked
    <3>1. HolderMoves(w, "stream", vol[at[w]])
      BY <2>1, <2>2, <2>5, Zenon DEF HolderMoves, Holding
    <3> QED
      BY <3>1, HolderStep
  <2>6. CASE Go(w, "idle") /\ Release(w)
    <3>1. HolderMoves(w, "idle", vol[at[w]])
      BY <2>1, <2>2, <2>3, <2>6, Zenon DEF HolderMoves, Holding
    <3> QED
      BY <3>1, HolderStep
  <2> QED
    BY <2>1, <2>4, <2>5, <2>6
<1>6. ASSUME NEW w \in Workers, StreamImage(w) PROVE Races'
  <2>1. /\ stage[w] = "stream" /\ UNCHANGED <<req, at, vol, failed>>
        /\ \/ Go(w, "create") /\ UNCHANGED locked
           \/ Go(w, "idle") /\ Release(w)
    BY <1>6 DEF StreamImage, OnlyStage
  <2>2. vol' = [vol EXCEPT ![at[w]] = vol[at[w]]] /\ vol[at[w]] = Absent
    BY <2>1 DEF StagingTypeOK, Races, Racing
  <2>3. Release(w) => locked' = locked \ {Key(w)}
    BY <1>2, <2>1 DEF Release, Uploading
  <2>4. CASE Go(w, "create") /\ UNCHANGED locked
    <3>1. HolderMoves(w, "create", vol[at[w]])
      BY <2>1, <2>2, <2>4, Zenon DEF HolderMoves, Holding
    <3> QED
      BY <3>1, HolderStep
  <2>5. CASE Go(w, "idle") /\ Release(w)
    <3>1. HolderMoves(w, "idle", vol[at[w]])
      BY <2>1, <2>2, <2>3, <2>5, Zenon DEF HolderMoves, Holding
    <3> QED
      BY <3>1, HolderStep
  <2> QED
    BY <2>1, <2>4, <2>5
<1>7. ASSUME NEW w \in Workers, CreateVolume(w) PROVE Races'
  <2>1. stage[w] = "create" /\ UNCHANGED <<req, at>> /\ vol[at[w]] = Absent
    BY <1>7 DEF CreateVolume, OnlyStage, Races, Racing
  <2>2. /\ UNCHANGED failed
        /\ \/ vol' = [vol EXCEPT ![at[w]] = Blank] /\ Go(w, "upload") /\ UNCHANGED locked
           \/ vol' = [vol EXCEPT ![at[w]] = Blank] /\ Go(w, "idle") /\ Release(w)
           \/ UNCHANGED vol /\ Go(w, "idle") /\ Release(w)
    BY <1>1, <1>7, <2>1, Zenon DEF CreateVolume
  <2>3. UNCHANGED vol => vol' = [vol EXCEPT ![at[w]] = vol[at[w]]]
    BY DEF StagingTypeOK
  <2>4. Release(w) => locked' = locked \ {Key(w)}
    BY <1>2, <2>1 DEF Release, Uploading
  <2>5. \/ HolderMoves(w, "upload", Blank)
        \/ HolderMoves(w, "idle", Blank)
        \/ HolderMoves(w, "idle", vol[at[w]])
    BY <2>1, <2>2, <2>3, <2>4, StagingAssumption DEF HolderMoves, Holding
  <2> QED
    BY <2>5, HolderStep
<1>8. ASSUME NEW w \in Workers, UploadVolume(w) PROVE Races'
  <2>1. /\ stage[w] = "upload" /\ UNCHANGED <<req, at, failed>>
        /\ vol' = [vol EXCEPT ![at[w]] = file[entry[w]]] /\ Go(w, "root") /\ Release(w)
    BY <1>8, Zenon DEF UploadVolume, OnlyStage
  <2>2. file[entry[w]] # Absent
    BY <2>1, StagingAssumption DEF StagingTypeOK, CacheTypeOK, StagingInv, Uploading, MaybeDigest
  <2>3. Release(w) => locked' = locked \ {Key(w)}
    BY <1>2, <2>1 DEF Release, Uploading
  <2>4. HolderMoves(w, "root", file[entry[w]])
    BY <2>1, <2>2, <2>3 DEF HolderMoves, Holding
  <2> QED
    BY <2>4, HolderStep
<1>9. ASSUME NEW w \in Workers, DiscardVolume(w) PROVE Races'
  BY <1>9 DEF DiscardVolume, Races, Racing
<1>10. ASSUME NEW w \in Workers, MakeRootDisk(w) PROVE Races'
  <2>1. stage[w] = "root" /\ UNCHANGED <<req, at, vol, locked>> /\ vol[at[w]] # Absent
    BY <1>10 DEF MakeRootDisk, Races, Racing
  <2>2. (Go(w, "done") \/ Go(w, "idle")) /\ UNCHANGED failed
    BY <1>10, <2>1, Zenon DEF MakeRootDisk
  <2> QED
    BY <2>1, <2>2, OutsiderStep DEF Holding
<1>11. ASSUME NEW w \in Workers, Fetch(w) PROVE Races'
  BY <1>11, IdleStep
     DEF Fetch, GetStep, Stat, Join, Open, Copy, Commit, Land
<1>12. ASSUME Crash PROVE Races'
  <2>1. failed' = failed /\ \A w \in Workers : stage'[w] \in {"done", "idle"}
    BY <1>12 DEF Crash
  <2>2. \A w \in Workers : Racing(w)'
    BY <2>1 DEF Racing, Holding
  <2>3. NoneFailed'
    BY <2>1, Zenon DEF Races, NoneFailed
  <2> QED
    BY <2>2, <2>3 DEF Races
<1>13. ASSUME NEW s \in Sources, Republish(s) PROVE Races'
  BY <1>13, IdleStep DEF Republish
<1> HIDE DEF Good
<1> QED
  BY <1>3, <1>4, <1>5, <1>6, <1>7, <1>8, <1>9, <1>10, <1>11, <1>12, <1>13, LockStep
     DEF StagingNext, StageStep

RaceInv == Good /\ (Agreed /\ ~refused => Races)

(* Machines of one host or several that pin the same image never fail      *)
(* each other: uploadLock and the second look under it keep all but one    *)
(* from creating the volume, for any number of workers.                    *)
THEOREM RacersDoNotFail == StagingSpec => []RacesDoNotFail
<1>1. ASSUME StagingInit PROVE RaceInv
  <2>1. Races
    BY <1>1 DEF StagingInit, Races, NoneFailed, Racing, Holding
  <2> QED
    BY <1>1, <2>1, GoodInit DEF RaceInv
<1>2. ASSUME RaceInv, [StagingNext]_allVars PROVE RaceInv'
  <2>1. Good'
    BY <1>2, GoodStep DEF RaceInv
  <2>2. ASSUME Agreed', ~refused' PROVE Races'
    <3>1. Agreed /\ ~refused /\ Races /\ Good
      BY <1>2, <2>2, HistoryStep, Zenon DEF RaceInv
    <3>2. CASE UNCHANGED allVars
      BY <3>1, <3>2, IdleStep DEF allVars, cacheVars
    <3> QED
      BY <1>2, <2>2, <3>1, <3>2, RaceStep
  <2> QED
    BY <2>1, <2>2, Zenon DEF RaceInv
<1>3. RaceInv => RacesDoNotFail
  BY Zenon DEF RaceInv, Races, NoneFailed, RacesDoNotFail
<1> QED
  BY <1>1, <1>2, <1>3, PTL DEF StagingSpec
-----------------------------------------------------------------------------
(* ClusterController.                                                      *)

(* The type invariant in two parts, for two provers.                       *)
Flags == /\ owner \in BOOLEAN /\ ownerSeen \in BOOLEAN
         /\ queued \in BOOLEAN /\ timer \in BOOLEAN
         /\ verdict \in BOOLEAN /\ skipped \in BOOLEAN

Data == /\ answers \in [Endpoints -> BOOLEAN]
        /\ obj \in Clusters /\ cached \in Clusters
        /\ step \in {"idle", "owner", "dial", "patch"}
        /\ IF step = "idle" THEN snap = Unset ELSE snap \in Clusters
        /\ faults \in 0..MaxFaults

LEMMA TypeParts == ClusterTypeOK <=> Flags /\ Data
BY Zenon DEF ClusterTypeOK, Flags, Data

LEMMA FaultCounts ==
    ASSUME faults \in 0..MaxFaults, Fault \/ UNCHANGED faults
    PROVE  faults' \in 0..MaxFaults
BY ClusterAssumption DEF Fault

(* Every variable keeps its type, and the worker has an object exactly     *)
(* while it is busy.                                                       *)
THEOREM ClusterTypes == Spec => []ClusterTypeOK
<1>1. Init => ClusterTypeOK
  <2> SUFFICES ASSUME Init PROVE ClusterTypeOK
    OBVIOUS
  <2>1. Flags
    BY Zenon DEF Init, Flags
  <2>2. faults \in 0..MaxFaults
    BY ClusterAssumption DEF Init
  <2>3. Data
    BY <2>2, Zenon DEF Init, Data
  <2> QED
    BY <2>1, <2>3, TypeParts
<1>2. ClusterTypeOK /\ [Next]_vars => ClusterTypeOK'
  <2> SUFFICES ASSUME Flags, Data, [Next]_vars PROVE Flags' /\ Data'
    BY TypeParts, PTL
  <2>1. faults' \in 0..MaxFaults
    BY FaultCounts, Zenon DEF Data, Next, vars, Worker, Reconcile, CheckOwner, Dial, Patch,
       Requeue, Sync, SyncOwner, Resync, Flip, Edit, PauseOwner, Restart
  <2> USE <2>1
  <2>2. CASE Reconcile
    BY <2>2, Zenon DEF Reconcile, Flags, Data
  <2>3. CASE CheckOwner
    BY <2>3, Zenon DEF CheckOwner, Return, Flags, Data
  <2>4. CASE Dial
    <3>1. snap.endpoint \in Endpoints
      BY <2>4 DEF Dial, Data, Clusters
    <3>2. verdict' \in BOOLEAN
      BY <2>4, <3>1, Zenon DEF Dial, Data
    <3> QED
      BY <2>4, <3>2, Zenon DEF Dial, Flags, Data
  <2>5. CASE Patch
    <3>1. [addr |-> snap.endpoint, up |-> verdict] \in ReadyConditions
      BY <2>5 DEF Patch, Flags, Data, Clusters, ReadyConditions
    <3>2. Merged \in Clusters
      BY <2>5, <3>1, Zenon DEF Patch, Merged, Flags, Data, Clusters
    <3> QED
      BY <2>5, <3>2, Zenon DEF Patch, Return, Flags, Data
  <2>6. CASE Requeue \/ Sync \/ SyncOwner \/ Resync
    BY <2>6, Zenon DEF Requeue, Sync, SyncOwner, Resync, Flags, Data
  <2>7. CASE Flip
    <3>1. answers' \in [Endpoints -> BOOLEAN]
      BY <2>7 DEF Flip, Data
    <3> QED
      BY <2>7, <3>1, Zenon DEF Flip, Flags, Data
  <2>8. CASE Edit
    <3>1. obj' \in Clusters
      BY <2>8, Zenon DEF Edit, Data, Clusters
    <3> QED
      BY <2>8, <3>1, Zenon DEF Edit, Flags, Data
  <2>9. CASE PauseOwner \/ Restart
    BY <2>9, Zenon DEF PauseOwner, Restart, Return, Flags, Data
  <2>10. CASE UNCHANGED vars
    BY <2>10, Zenon DEF vars, Flags, Data
  <2> QED
    BY <2>2, <2>3, <2>4, <2>5, <2>6, <2>7, <2>8, <2>9, <2>10 DEF Next, Worker
<1> QED
  BY <1>1, <1>2, PTL DEF Spec
-----------------------------------------------------------------------------
(* A worker that has passed the check of owner and pause holds an object   *)
(* that has the one and not the other.                                     *)
Checked == step \in {"dial", "patch"} => snap.owned /\ ~snap.paused

LEMMA CheckedHolds == Spec => []Checked
<1>1. Init => Checked
  BY DEF Init, Checked
<1>2. Checked /\ [Next]_vars => Checked'
  BY DEF Checked, Next, vars, Worker, Reconcile, CheckOwner, IsPaused, Dial, Patch,
         Return, Requeue, Sync, SyncOwner, Resync, Flip, Edit, PauseOwner, Restart
<1> QED
  BY <1>1, <1>2, PTL DEF Spec

(* The deferred patch changes ready and the condition, nothing else of     *)
(* what is stored at that moment, and only after the check.                *)
THEOREM PatchWritesStatus == Spec => OnlyStatusWritten
<1> DEFINE Written == step = "patch" /\ step' = "idle" /\ obj' # obj =>
                          /\ snap.owned /\ ~snap.paused
                          /\ \E r \in BOOLEAN, c \in ReadyConditions \cup {Unset} :
                                 obj' = [obj EXCEPT !.ready = r, !.cond = c]
<1>1. ClusterTypeOK /\ Checked /\ [Next]_vars => [Written]_vars
  <2> SUFFICES ASSUME ClusterTypeOK, Checked, Next,
                      step = "patch", step' = "idle", obj' # obj
               PROVE  Written
    BY Zenon DEF vars
  <2>1. Patch /\ obj' = Merged
    BY DEF Next, Worker, Reconcile, CheckOwner, Dial, Patch, Requeue, Sync,
           SyncOwner, Resync, Flip, Edit, PauseOwner, Restart
  <2>2. snap.owned /\ ~snap.paused
    BY DEF Checked
  <2>3. \E r \in BOOLEAN, c \in ReadyConditions \cup {Unset} :
            obj' = [obj EXCEPT !.ready = r, !.cond = c]
    <3> DEFINE new == [addr |-> snap.endpoint, up |-> verdict]
               r == IF verdict = snap.ready THEN obj.ready ELSE verdict
               c == IF new = snap.cond THEN obj.cond ELSE new
    <3>1. new \in ReadyConditions
      BY DEF ClusterTypeOK, Clusters, ReadyConditions
    <3>2. obj' = [obj EXCEPT !.ready = r, !.cond = c]
      BY <2>1 DEF Merged
    <3>3. r \in BOOLEAN
      BY DEF ClusterTypeOK, Clusters
    <3>4. c \in ReadyConditions \cup {Unset}
      BY <3>1 DEF ClusterTypeOK, Clusters
    <3> HIDE DEF r, c
    <3> QED
      BY <3>2, <3>3, <3>4, Zenon
  <2> QED
    BY <2>2, <2>3, Zenon
<1> QED
  BY <1>1, ClusterTypes, CheckedHolds, PTL DEF Spec, OnlyStatusWritten
-----------------------------------------------------------------------------
(* No cluster is left without a reconcile to come, unless the last one     *)
(* found a pause or no owner.                                              *)
THEOREM AlwaysAttended == Spec => []Attended
<1>1. Init => Attended
  BY DEF Init, Attended
<1>2. Attended /\ [Next]_vars => Attended'
  BY Zenon DEF Attended, Next, vars, Worker, Reconcile, CheckOwner, Dial, Patch, Return,
         Requeue, Sync, SyncOwner, Resync, Flip, Edit, PauseOwner, Restart, Fault
<1> QED
  BY <1>1, <1>2, PTL DEF Spec
=============================================================================
