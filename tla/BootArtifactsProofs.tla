-------------------------- MODULE BootArtifactsProofs --------------------------
(***************************************************************************)
(* The pairs of boot artifacts and their files, in FirstBoot: for any      *)
(* machines, hosts and sources, and any number of failures.                *)
(***************************************************************************)
EXTENDS FirstBoot, SequenceTheorems, TLAPS

(***************************************************************************)
(* Types. Each step of a worker changes only what is its own, and goes on  *)
(* or gives up.                                                            *)
(***************************************************************************)
LEMMA FaultCounts ==
    ASSUME faults \in 0..MaxFaults, Fault \/ UNCHANGED faults
    PROVE  faults' \in 0..MaxFaults /\ (faults' = 0 => UNCHANGED faults)
BY BootAssumption DEF Fault

LEMMA GoKeepsTypes ==
    ASSUME BootTypeOK, NEW w \in Machines, NEW s \in BootSteps, Go(w, s)
    PROVE  step' \in [Machines -> BootSteps] /\ step'[w] = s
BY DEF BootTypeOK, Go

LEMMA FailsKeepsTypes ==
    ASSUME BootTypeOK, NEW w \in Machines, Fails(w)
    PROVE  /\ step' \in [Machines -> BootSteps]
           /\ asked' \in [Machines -> BootSpecs \cup {None}]
           /\ pair' \in [Machines -> Pairs]
BY DEF BootTypeOK, Fails, Go, BootSteps, Pairs, NoPair

(* Below, a worker that stages files knows the source and has the pair.    *)
Matched(src, p) ==
    /\ p \in [kernel : Published, initrd : Published]
    /\ Matches(src.kernel, p.kernel) /\ Matches(src.initrd, p.initrd)
    /\ src.type = "OCI" => p.kernel = p.initrd
    /\ faults = 0 => p.kernel = serving /\ p.initrd = serving

Staging == {"resolve", "kernel", "initrd", "checkKernel", "writeKernel", "fillKernel",
            "checkInitrd", "writeInitrd", "fillInitrd"}

CacheOK == \A k \in Keys : cache[k] # None => Matched(k, cache[k])

PairOK(w) ==
    /\ step[w] \in Staging => asked[w] # None
    /\ step[w] = "initrd" =>
          /\ pair[w].kernel \in Published
          /\ Matches(Source(w).kernel, pair[w].kernel)
          /\ faults = 0 => pair[w].kernel = serving
          /\ pair[w].initrd = IF Source(w).type = "OCI" THEN pair[w].kernel ELSE None
    /\ Resolved(w) => Matched(Source(w), pair[w])

PairInv == CacheOK /\ \A w \in Machines : PairOK(w)

(* Every file is complete, cut off, or being written by a machine of the   *)
(* host; and what a worker has passed exists.                              *)
ContentOK ==
    \A h \in Hosts, f \in FileNames :
        /\ file[h][f] \in Published => file[h][f] = f[2]
        /\ file[h][f] = Cut => torn

WritersOK ==
    \A h \in Hosts, f \in FileNames, v \in Machines : file[h][f] = v =>
        /\ at[v] = h
        /\ \/ step[v] = "fillKernel" /\ f = KernelPath(v)
           \/ step[v] = "fillInitrd" /\ f = InitrdPath(v)

KernelPassed == {"fillKernel", "checkInitrd", "writeInitrd", "fillInitrd", "define",
                 "start"}

InitrdPassed == {"fillInitrd", "define", "start"}

PassedOK(w) ==
    asked[w] # None =>
        /\ step[w] \in KernelPassed => file[at[w]][KernelPath(w)] # Absent
        /\ step[w] \in InitrdPassed => file[at[w]][InitrdPath(w)] # Absent

FileInv == ContentOK /\ WritersOK /\ \A w \in Machines : PassedOK(w)
-----------------------------------------------------------------------------
(* The source a worker asks for is one of the sources.                     *)
LEMMA SourceType ==
    ASSUME BootTypeOK, NEW w \in Machines, asked[w] # None
    PROVE  /\ asked[w] \in BootSpecs /\ Source(w) \in Sources
           /\ BootArtifactsCacheKey(Source(w)) \in Keys
<1>1. asked[w] \in BootSpecs
  BY DEF BootTypeOK
<1>2. Source(w) \in Sources
  BY <1>1 DEF BootSpecs, Source
<1> QED
  BY <1>1, <1>2 DEF Keys

LEMMA FileUpdated ==
    ASSUME file \in [Hosts -> [FileNames -> Contents]], NEW h \in Hosts, NEW f, NEW x,
           f \in FileNames => x \in Contents
    PROVE  [file EXCEPT ![h][f] = x] \in [Hosts -> [FileNames -> Contents]]
BY Zenon

LEMMA BootTypesStep ==
    ASSUME BootTypeOK, PairInv, [Next]_vars
    PROVE  BootTypeOK'
<1> USE BootAssumption DEF BootTypeOK
<1>1. ASSUME NEW w \in Machines, Reconcile(w) PROVE BootTypeOK'
  <2>1. step' \in [Machines -> BootSteps]
    BY <1>1 DEF Reconcile, Go, BootSteps, AfterConfig
  <2> QED
    BY <1>1, <2>1, Zenon DEF Reconcile
<1>2. ASSUME NEW w \in Machines, WriteConfig(w) \/ FillConfig(w) PROVE BootTypeOK'
  <2>1. faults' \in 0..MaxFaults
    BY <1>2, FaultCounts DEF WriteConfig, FillConfig
  <2>2. /\ step' \in [Machines -> BootSteps]
        /\ asked' \in [Machines -> BootSpecs \cup {None}]
        /\ pair' \in [Machines -> Pairs]
    BY <1>2, GoKeepsTypes, FailsKeepsTypes
       DEF WriteConfig, FillConfig, AfterConfig, BootSteps
  <2> QED
    BY <1>2, <2>1, <2>2 DEF WriteConfig, FillConfig
<1>3. ASSUME NEW w \in Machines, ResolveCachedArtifacts(w) PROVE BootTypeOK'
  <2>1. asked[w] # None
    BY <1>3 DEF ResolveCachedArtifacts, CredentialsFail, PairInv, PairOK, Staging
  <2>2. cache[BootArtifactsCacheKey(Source(w))] \in Pairs \cup {None}
    BY <2>1, SourceType
  <2>3. faults' \in 0..MaxFaults
    BY <1>3, FaultCounts DEF ResolveCachedArtifacts, CredentialsFail
  <2>4. /\ step' \in [Machines -> BootSteps]
        /\ asked' \in [Machines -> BootSpecs \cup {None}]
        /\ pair' \in [Machines -> Pairs]
    BY <1>3, <2>2, GoKeepsTypes, FailsKeepsTypes, Zenon
       DEF ResolveCachedArtifacts, CredentialsFail, BootSteps
  <2> QED
    BY <1>3, <2>3, <2>4 DEF ResolveCachedArtifacts, CredentialsFail
<1>4. ASSUME NEW w \in Machines, FetchKernel(w) PROVE BootTypeOK'
  <2>1. faults' \in 0..MaxFaults
    BY <1>4, FaultCounts DEF FetchKernel, FetchFails, OneManifest
  <2>2. /\ step' \in [Machines -> BootSteps]
        /\ asked' \in [Machines -> BootSpecs \cup {None}]
        /\ pair' \in [Machines -> Pairs]
    <3> DEFINE new == [kernel |-> serving,
                       initrd |-> IF Source(w).type = "OCI" THEN serving ELSE None]
    <3>1. new \in Pairs
      BY DEF Pairs
    <3> HIDE DEF new
    <3>2. CASE Go(w, "initrd") /\ pair' = [pair EXCEPT ![w] = new] /\ UNCHANGED asked
      BY <3>1, <3>2, GoKeepsTypes DEF BootSteps
    <3>3. CASE Fails(w)
      BY <3>3, FailsKeepsTypes
    <3> QED
      BY <1>4, <3>2, <3>3 DEF FetchKernel, FetchFails, OneManifest, new
  <2> QED
    BY <1>4, <2>1, <2>2 DEF FetchKernel, FetchFails, OneManifest
<1>5. ASSUME NEW w \in Machines, FetchInitramfs(w) PROVE BootTypeOK'
  <2> DEFINE fetched == IF pair[w].initrd # None THEN pair[w].initrd ELSE serving
             key == BootArtifactsCacheKey(Source(w))
             new == [pair[w] EXCEPT !.initrd = fetched]
  <2>1. asked[w] # None
    BY <1>5 DEF FetchInitramfs, FetchFails, PairInv, PairOK, Staging
  <2>2. key \in Keys
    BY <2>1, SourceType
  <2>3. new \in Pairs
    <3>1. pair[w] \in Pairs
      OBVIOUS
    <3>2. fetched \in Published \cup {None}
      BY <3>1 DEF Pairs
    <3> HIDE DEF fetched
    <3> QED
      BY <3>1, <3>2, Zenon DEF Pairs
  <2>4. faults' \in 0..MaxFaults
    BY <1>5, FaultCounts DEF FetchInitramfs, FetchFails
  <2> HIDE DEF fetched, key, new
  <2>5. /\ step' \in [Machines -> BootSteps]
        /\ asked' \in [Machines -> BootSpecs \cup {None}]
        /\ pair' \in [Machines -> Pairs]
        /\ cache' \in [Keys -> Pairs \cup {None}]
    <3>1. CASE /\ Go(w, "checkKernel") /\ pair' = [pair EXCEPT ![w] = new]
               /\ cache' = [cache EXCEPT ![key] = new] /\ UNCHANGED asked
      BY <2>2, <2>3, <3>1, GoKeepsTypes DEF BootSteps
    <3>2. CASE Fails(w) /\ UNCHANGED cache
      BY <3>2, FailsKeepsTypes
    <3> QED
      BY <1>5, <3>1, <3>2 DEF FetchInitramfs, FetchFails, fetched, key, new
  <2> QED
    BY <1>5, <2>4, <2>5 DEF FetchInitramfs, FetchFails
<1>6. ASSUME NEW w \in Machines, NEW f, NEW from, NEW write \in BootSteps,
             NEW next \in BootSteps, Check(w, f, from, write, next)
      PROVE  BootTypeOK'
  <2>1. faults' \in 0..MaxFaults
    BY <1>6, FaultCounts DEF Check
  <2>2. /\ step' \in [Machines -> BootSteps]
        /\ asked' \in [Machines -> BootSpecs \cup {None}]
        /\ pair' \in [Machines -> Pairs]
    BY <1>6, GoKeepsTypes, FailsKeepsTypes DEF Check
  <2> QED
    BY <1>6, <2>1, <2>2 DEF Check
<1>7. ASSUME NEW w \in Machines, NEW f, NEW from, NEW fill \in BootSteps,
             Truncate(w, f, from, fill)
      PROVE  BootTypeOK'
  <2>1. faults' \in 0..MaxFaults
    BY <1>7, FaultCounts DEF Truncate
  <2>2. /\ step' \in [Machines -> BootSteps]
        /\ asked' \in [Machines -> BootSpecs \cup {None}]
        /\ pair' \in [Machines -> Pairs]
    BY <1>7, GoKeepsTypes, FailsKeepsTypes DEF Truncate
  <2>3. file' \in [Hosts -> [FileNames -> Contents]]
    <3>1. w \in Contents /\ at[w] \in Hosts
      BY DEF Contents
    <3>2. [file EXCEPT ![at[w]][f] = w] \in [Hosts -> [FileNames -> Contents]]
      BY <3>1, Zenon
    <3> QED
      BY <1>7, <3>2, Zenon DEF Truncate
  <2> QED
    BY <1>7, <2>1, <2>2, <2>3 DEF Truncate
<1>8. ASSUME NEW w \in Machines, NEW f, NEW content, NEW from, NEW next \in BootSteps,
             f \in FileNames => content \in Contents,
             FillFile(w, f, content, from, next)
      PROVE  BootTypeOK'
  <2>1. faults' \in 0..MaxFaults
    BY <1>8, FaultCounts DEF FillFile
  <2>2. /\ step' \in [Machines -> BootSteps]
        /\ asked' \in [Machines -> BootSpecs \cup {None}]
        /\ pair' \in [Machines -> Pairs]
    BY <1>8, GoKeepsTypes, FailsKeepsTypes DEF FillFile
  <2>3. ASSUME NEW c, f \in FileNames => c \in Contents
        PROVE  [file EXCEPT ![at[w]][f] = Written(@, w, c)]
                   \in [Hosts -> [FileNames -> Contents]]
    <3> DEFINE x == Written(file[at[w]][f], w, c)
    <3>1. at[w] \in Hosts
      OBVIOUS
    <3>2. f \in FileNames => x \in Contents
      BY <2>3, <3>1 DEF Written
    <3>3. [file EXCEPT ![at[w]][f] = x] \in [Hosts -> [FileNames -> Contents]]
      <4> HIDE DEF x
      <4> QED
        BY <3>1, <3>2, FileUpdated
    <3> QED
      BY <3>3
  <2>4. file' \in [Hosts -> [FileNames -> Contents]]
    <3>1. [file EXCEPT ![at[w]][f] = Written(@, w, content)]
              \in [Hosts -> [FileNames -> Contents]]
      BY <1>8, <2>3, Zenon
    <3>2. Cut \in Contents
      BY DEF Contents
    <3>3. [file EXCEPT ![at[w]][f] = Written(@, w, Cut)]
              \in [Hosts -> [FileNames -> Contents]]
      BY <2>3, <3>2
    <3> QED
      BY <1>8, <3>1, <3>3, Zenon DEF FillFile
  <2>5. torn' \in BOOLEAN
    BY <1>8, Zenon DEF FillFile
  <2> QED
    BY <1>8, <2>1, <2>2, <2>4, <2>5 DEF FillFile
<1>9. ASSUME NEW w \in Machines, ArtifactStep(w) PROVE BootTypeOK'
  <2>1. CASE CheckKernel(w) \/ CheckInitrd(w)
    BY <1>6, <2>1, Zenon DEF CheckKernel, CheckInitrd, BootSteps
  <2>2. CASE WriteKernel(w) \/ WriteInitrd(w)
    BY <1>7, <2>2 DEF WriteKernel, WriteInitrd, BootSteps
  <2>3. CASE FillKernel(w)
    <3>1. KernelPath(w) \in FileNames => pair[w].kernel \in Contents
      BY DEF KernelPath, FileNames, Contents
    <3> QED
      BY <1>8, <2>3, <3>1 DEF FillKernel, BootSteps
  <2>4. CASE FillInitrd(w)
    <3>1. InitrdPath(w) \in FileNames => pair[w].initrd \in Contents
      BY DEF InitrdPath, FileNames, Contents
    <3> QED
      BY <1>8, <2>4, <3>1 DEF FillInitrd, BootSteps
  <2> QED
    BY <1>3, <1>4, <1>5, <1>9, <2>1, <2>2, <2>3, <2>4 DEF ArtifactStep
<1>10. ASSUME NEW w \in Machines, DefineDomain(w) PROVE BootTypeOK'
  <2>1. faults' \in 0..MaxFaults
    BY <1>10, FaultCounts DEF DefineDomain
  <2>2. /\ step' \in [Machines -> BootSteps]
        /\ asked' \in [Machines -> BootSpecs \cup {None}]
        /\ pair' \in [Machines -> Pairs]
    BY <1>10, GoKeepsTypes, FailsKeepsTypes DEF DefineDomain, BootSteps
  <2> QED
    BY <1>10, <2>1, <2>2 DEF DefineDomain
<1>11. ASSUME NEW w \in Machines, StartDomain(w) PROVE BootTypeOK'
  <2>1. faults' \in 0..MaxFaults
    BY <1>11, FaultCounts DEF StartDomain
  <2> QED
    BY <1>11, <2>1, FailsKeepsTypes DEF StartDomain
<1>12. ASSUME NEW w \in Machines, GuestReads(w) \/ PowerOff(w) PROVE BootTypeOK'
  BY <1>12, FaultCounts DEF GuestReads, PowerOff, bootVars
<1>13. CASE Republish
  BY <1>13, FaultCounts DEF Republish
<1>14. CASE EditCluster
  BY <1>14, FaultCounts DEF EditCluster
<1>15. CASE Restart
  <2>1. /\ step' \in [Machines -> BootSteps]
        /\ asked' \in [Machines -> BootSpecs \cup {None}]
        /\ pair' \in [Machines -> Pairs]
        /\ cache' \in [Keys -> Pairs \cup {None}]
    BY <1>15 DEF Restart, BootSteps, Pairs, NoPair
  <2>2. file' \in [Hosts -> [FileNames -> Contents]]
    BY <1>15 DEF Restart, CutOff, Contents
  <2>3. faults' \in 0..MaxFaults /\ torn' \in BOOLEAN
    BY <1>15, FaultCounts DEF Restart
  <2> QED
    BY <1>15, <2>1, <2>2, <2>3 DEF Restart
<1>16. CASE UNCHANGED vars
  BY <1>16 DEF vars, bootVars
<1> QED
  BY <1>1, <1>2, <1>9, <1>10, <1>11, <1>12, <1>13, <1>14, <1>15, <1>16, Zenon
     DEF Next, Worker, BootArtifactStep, Environment
-----------------------------------------------------------------------------
(***************************************************************************)
(* Pairs.                                                                  *)
(***************************************************************************)
LEMMA FailedIsIdle ==
    ASSUME BootTypeOK, NEW w \in Machines, Fails(w)
    PROVE  /\ step'[w] = "idle" /\ asked'[w] = None
           /\ \A v \in Machines \ {w} :
                  step'[v] = step[v] /\ asked'[v] = asked[v] /\ pair'[v] = pair[v]
BY DEF BootTypeOK, Fails, Go

LEMMA WentOn ==
    ASSUME BootTypeOK, NEW w \in Machines, NEW s, Go(w, s)
    PROVE  step'[w] = s /\ \A v \in Machines \ {w} : step'[v] = step[v]
BY DEF BootTypeOK, Go

(* What is matched stays so, unless something is published.                *)
LEMMA MatchedStays ==
    ASSUME NEW src, NEW p, Matched(src, p),
           \/ UNCHANGED serving /\ (faults' = 0 => faults = 0)
           \/ faults' # 0
    PROVE  Matched(src, p)'
BY DEF Matched, Matches

(* A step of one worker, without a new publication.                        *)
LEMMA PairFrame ==
    ASSUME PairInv, NEW w \in Machines,
           \A v \in Machines \ {w} :
               step'[v] = step[v] /\ asked'[v] = asked[v] /\ pair'[v] = pair[v],
           UNCHANGED serving, faults' = 0 => faults = 0, CacheOK', PairOK(w)'
    PROVE  PairInv'
<1>1. ASSUME NEW v \in Machines \ {w} PROVE PairOK(v)'
  <2>1. /\ Source(v)' = Source(v) /\ Resolved(v)' = Resolved(v)
        /\ step'[v] = step[v] /\ asked'[v] = asked[v] /\ pair'[v] = pair[v]
    BY DEF Source, Resolved
  <2>2. PairOK(v)
    BY DEF PairInv
  <2>3. Resolved(v) => Matched(Source(v), pair[v])'
    BY <2>1, <2>2, MatchedStays DEF PairOK
  <2> QED
    BY <2>1, <2>2, <2>3 DEF PairOK, Matches
<1> QED
  BY <1>1 DEF PairInv

LEMMA CacheKept ==
    ASSUME PairInv, UNCHANGED cache,
           \/ UNCHANGED serving /\ (faults' = 0 => faults = 0)
           \/ faults' # 0
    PROVE  CacheOK'
<1>1. ASSUME NEW k \in Keys, cache[k] # None PROVE Matched(k, cache[k])'
  BY <1>1, MatchedStays DEF PairInv, CacheOK
<1> QED
  BY <1>1 DEF CacheOK

LEMMA IdleIsOK ==
    ASSUME NEW w \in Machines, step'[w] = "idle"
    PROVE  PairOK(w)'
BY DEF PairOK, Resolved, Staging

(* A worker that gives up.                                                 *)
LEMMA PairFails ==
    ASSUME BootTypeOK, PairInv, NEW w \in Machines, Fails(w),
           UNCHANGED <<cache, serving>>, Fault \/ UNCHANGED faults
    PROVE  PairInv'
<1>1. faults' = 0 => faults = 0
  BY FaultCounts DEF BootTypeOK
<1>2. CacheOK'
  BY <1>1, CacheKept
<1> QED
  BY <1>1, <1>2, FailedIsIdle, IdleIsOK, PairFrame

(* A worker that goes on with what it has.                                 *)
LEMMA PairGoes ==
    ASSUME BootTypeOK, PairInv, NEW w \in Machines, NEW s, Go(w, s),
           UNCHANGED <<cache, serving, asked, pair, faults>>,
           s \in Staging => asked[w] # None,
           s # "initrd",
           asked[w] # None /\ s \in {"checkKernel", "writeKernel", "fillKernel",
                  "checkInitrd", "writeInitrd", "fillInitrd", "define", "start"}
               => Resolved(w)
    PROVE  PairInv'
<1>1. CacheOK'
  BY CacheKept
<1>2. step'[w] = s /\ \A v \in Machines \ {w} : step'[v] = step[v]
  BY WentOn
<1>3. PairOK(w)'
  <2>1. Source(w)' = Source(w)
    BY DEF Source
  <2>2. Resolved(w)' => Resolved(w)
    BY <1>2 DEF Resolved
  <2>3. Resolved(w) => Matched(Source(w), pair[w])'
    BY <2>1, MatchedStays DEF PairInv, PairOK
  <2> QED
    BY <1>2, <2>1, <2>2, <2>3 DEF PairOK
<1> QED
  BY <1>1, <1>2, <1>3, PairFrame

LEMMA PairStep ==
    ASSUME BootTypeOK, PairInv, [Next]_vars
    PROVE  PairInv'
<1>1. ASSUME NEW w \in Machines, Reconcile(w) PROVE PairInv'
  <2> DEFINE s == IF Ignition THEN "config" ELSE AfterConfig(boot)
  <2>1. CacheOK'
    BY <1>1, CacheKept DEF Reconcile
  <2>2. step'[w] = s /\ \A v \in Machines \ {w} : step'[v] = step[v]
    BY <1>1, WentOn DEF Reconcile
  <2>3. asked'[w] = boot /\ \A v \in Machines \ {w} : asked'[v] = asked[v]
    BY <1>1 DEF Reconcile, BootTypeOK
  <2>4. PairOK(w)'
    <3>1. s \in {"config", "define", "resolve"}
      BY DEF AfterConfig
    <3>2. s = "resolve" => boot # None
      BY DEF AfterConfig
    <3>3. s = "define" => boot = None
      BY DEF AfterConfig
    <3> HIDE DEF s
    <3> QED
      BY <2>2, <2>3, <3>1, <3>2, <3>3 DEF PairOK, Resolved, Staging
  <2> QED
    BY <1>1, <2>1, <2>2, <2>3, <2>4, PairFrame DEF Reconcile
<1>2. ASSUME NEW w \in Machines, WriteConfig(w) PROVE PairInv'
  <2>1. CASE Go(w, "fill") /\ UNCHANGED <<asked, pair, faults>>
    BY <1>2, <2>1, PairGoes DEF WriteConfig, Staging
  <2>2. CASE Fault /\ Fails(w)
    BY <1>2, <2>2, PairFails DEF WriteConfig
  <2> QED
    BY <1>2, <2>1, <2>2 DEF WriteConfig
<1>3. ASSUME NEW w \in Machines, FillConfig(w) PROVE PairInv'
  <2>1. CASE Go(w, AfterConfig(asked[w])) /\ UNCHANGED <<asked, pair, faults>>
    <3> DEFINE s == AfterConfig(asked[w])
    <3>1. \/ s = "resolve" /\ asked[w] # None
          \/ s = "define" /\ asked[w] = None
      BY DEF AfterConfig
    <3> HIDE DEF s
    <3>2. Go(w, s)
      BY <2>1 DEF s
    <3> QED
      BY <1>3, <2>1, <3>1, <3>2, PairGoes DEF FillConfig, Staging
  <2>2. CASE Fault /\ Fails(w)
    BY <1>3, <2>2, PairFails DEF FillConfig
  <2> QED
    BY <1>3, <2>1, <2>2 DEF FillConfig
<1>4. ASSUME NEW w \in Machines, ResolveCachedArtifacts(w) PROVE PairInv'
  <2> DEFINE key == BootArtifactsCacheKey(Source(w))
             hit == cache[key]
  <2>1. step[w] = "resolve" /\ asked[w] # None
    BY <1>4 DEF ResolveCachedArtifacts, CredentialsFail, PairInv, PairOK, Staging
  <2>2. key \in Keys
    BY <2>1, SourceType
  <2>3. CASE /\ hit # None /\ Go(w, "checkKernel")
             /\ pair' = [pair EXCEPT ![w] = hit] /\ UNCHANGED <<asked, faults>>
    <3>1. Matched(key, hit)
      BY <2>2, <2>3 DEF PairInv, CacheOK
    <3>2. Matched(Source(w), hit)
      BY <3>1 DEF Matched, BootArtifactsCacheKey
    <3> HIDE DEF key, hit
    <3>3. UNCHANGED serving /\ CacheOK'
      BY <1>4, <2>3, CacheKept DEF ResolveCachedArtifacts, CredentialsFail
    <3>5. step'[w] = "checkKernel" /\ \A v \in Machines \ {w} : step'[v] = step[v]
      BY <2>3, WentOn
    <3>6. pair'[w] = hit /\ \A v \in Machines \ {w} : pair'[v] = pair[v]
      BY <2>3 DEF BootTypeOK
    <3>7. Source(w)' = Source(w)
      BY <2>3 DEF Source
    <3>8. Matched(Source(w), pair[w])'
      BY <2>3, <3>2, <3>3, <3>6, <3>7 DEF Matched, Matches
    <3>9. PairOK(w)'
      BY <2>1, <2>3, <3>5, <3>8 DEF PairOK
    <3> QED
      BY <2>3, <3>3, <3>5, <3>6, <3>9, PairFrame
  <2>4. CASE Go(w, "kernel") /\ UNCHANGED <<asked, pair, faults>>
    BY <1>4, <2>1, <2>4, PairGoes DEF ResolveCachedArtifacts, CredentialsFail
  <2>5. CASE Fault /\ Fails(w)
    BY <1>4, <2>5, PairFails DEF ResolveCachedArtifacts, CredentialsFail
  <2> QED
    BY <1>4, <2>3, <2>4, <2>5 DEF ResolveCachedArtifacts, CredentialsFail
<1>5. ASSUME NEW w \in Machines, FetchKernel(w) PROVE PairInv'
  <2> DEFINE new == [kernel |-> serving,
                     initrd |-> IF Source(w).type = "OCI" THEN serving ELSE None]
  <2>1. step[w] = "kernel" /\ asked[w] # None
    BY <1>5 DEF FetchKernel, FetchFails, OneManifest, PairInv, PairOK, Staging
  <2>2. CASE /\ Matches(Source(w).kernel, serving) /\ Go(w, "initrd")
             /\ pair' = [pair EXCEPT ![w] = new] /\ UNCHANGED <<asked, faults>>
    <3>1. UNCHANGED serving /\ CacheOK'
      BY <1>5, <2>2, CacheKept DEF FetchKernel, FetchFails, OneManifest
    <3>2. step'[w] = "initrd" /\ \A v \in Machines \ {w} : step'[v] = step[v]
      BY <2>2, WentOn
    <3>3. pair'[w] = new /\ \A v \in Machines \ {w} : pair'[v] = pair[v]
      BY <2>2 DEF BootTypeOK
    <3>4. Source(w)' = Source(w)
      BY <2>2 DEF Source
    <3>5. serving \in Published
      BY DEF BootTypeOK
    <3>6. /\ pair'[w].kernel = serving
          /\ pair'[w].initrd = IF Source(w).type = "OCI" THEN serving ELSE None
      BY <3>3
    <3>7. asked'[w] # None /\ ~Resolved(w)'
      BY <2>1, <2>2, <3>2 DEF Resolved
    <3> HIDE DEF new
    <3>8. PairOK(w)'
      BY <2>2, <3>1, <3>4, <3>5, <3>6, <3>7 DEF PairOK
    <3> QED
      BY <2>2, <3>1, <3>2, <3>3, <3>8, PairFrame
  <2>3. CASE Fails(w) /\ (Fault \/ UNCHANGED faults)
    BY <1>5, <2>3, PairFails DEF FetchKernel, FetchFails, OneManifest
  <2> QED
    BY <1>5, <2>2, <2>3 DEF FetchKernel, FetchFails, OneManifest
<1>6. ASSUME NEW w \in Machines, FetchInitramfs(w) PROVE PairInv'
  <2> DEFINE fetched == IF pair[w].initrd # None THEN pair[w].initrd ELSE serving
             key == BootArtifactsCacheKey(Source(w))
             new == [pair[w] EXCEPT !.initrd = fetched]
  <2>1. /\ step[w] = "initrd" /\ asked[w] # None
        /\ pair[w].kernel \in Published
        /\ Matches(Source(w).kernel, pair[w].kernel)
        /\ faults = 0 => pair[w].kernel = serving
        /\ pair[w].initrd = IF Source(w).type = "OCI" THEN pair[w].kernel ELSE None
    BY <1>6 DEF FetchInitramfs, FetchFails, PairInv, PairOK, Staging
  <2>2. pair[w] \in Pairs /\ serving \in Published
    BY DEF BootTypeOK
  <2>3. CASE /\ Matches(Source(w).initrd, fetched) /\ Go(w, "checkKernel")
             /\ pair' = [pair EXCEPT ![w] = new]
             /\ cache' = [cache EXCEPT ![key] = new] /\ UNCHANGED <<asked, faults>>
    <3>1. new.kernel = pair[w].kernel /\ new.initrd = fetched
          /\ new = [kernel |-> pair[w].kernel, initrd |-> fetched]
      BY <2>2 DEF Pairs
    <3>2. fetched \in Published /\ (faults = 0 => fetched = serving)
          /\ (Source(w).type = "OCI" => fetched = pair[w].kernel)
      BY <2>1, <2>2, BootAssumption
    <3>3. Matched(Source(w), new)
      BY <2>1, <2>3, <3>1, <3>2 DEF Matched
    <3>4. Matched(key, new)
      BY <3>3 DEF Matched, BootArtifactsCacheKey
    <3> HIDE DEF new, key, fetched
    <3>5. UNCHANGED serving
      BY <1>6 DEF FetchInitramfs, FetchFails
    <3>7. CacheOK'
      <4> SUFFICES ASSUME NEW k \in Keys, cache'[k] # None PROVE Matched(k, cache[k])'
        BY DEF CacheOK
      <4>1. CASE k = key
        <5>1. cache'[k] = new
          BY <2>3, <4>1 DEF BootTypeOK
        <5> QED
          BY <2>3, <3>4, <3>5, <4>1, <5>1 DEF Matched, Matches
      <4>2. CASE k # key
        <5>1. cache'[k] = cache[k]
          BY <2>3, <4>2 DEF BootTypeOK
        <5>2. Matched(k, cache[k])
          BY <5>1 DEF PairInv, CacheOK
        <5> QED
          BY <2>3, <3>5, <5>1, <5>2 DEF Matched, Matches
      <4> QED
        BY <4>1, <4>2
    <3>8. step'[w] = "checkKernel" /\ \A v \in Machines \ {w} : step'[v] = step[v]
      BY <2>3, WentOn
    <3>9. pair'[w] = new /\ \A v \in Machines \ {w} : pair'[v] = pair[v]
      BY <2>3 DEF BootTypeOK
    <3>10. Source(w)' = Source(w)
      BY <2>3 DEF Source
    <3>11. Matched(Source(w), pair[w])'
      BY <2>3, <3>3, <3>5, <3>9, <3>10 DEF Matched, Matches
    <3>12. PairOK(w)'
      BY <2>1, <2>3, <3>8, <3>11 DEF PairOK
    <3> QED
      BY <2>3, <3>5, <3>7, <3>8, <3>9, <3>12, PairFrame
  <2>4. CASE Fails(w) /\ UNCHANGED cache /\ (Fault \/ UNCHANGED faults)
    BY <1>6, <2>4, PairFails DEF FetchInitramfs, FetchFails
  <2> QED
    BY <1>6, <2>3, <2>4 DEF FetchInitramfs, FetchFails
<1> DEFINE Later == {"writeKernel", "fillKernel", "checkInitrd", "writeInitrd",
                     "fillInitrd", "define"}
<1>7. ASSUME NEW w \in Machines, NEW from \in Staging, NEW s \in Later,
             step[w] = from, from \notin {"resolve", "kernel", "initrd"},
             UNCHANGED <<cache, serving>>,
             \/ Go(w, s) /\ UNCHANGED <<asked, pair, faults>>
             \/ Fault /\ Fails(w)
      PROVE  PairInv'
  <2>1. Resolved(w) /\ asked[w] # None
    BY <1>7 DEF PairInv, PairOK, Resolved, Staging
  <2>2. CASE Go(w, s) /\ UNCHANGED <<asked, pair, faults>>
    BY <1>7, <2>1, <2>2, PairGoes
  <2>3. CASE Fault /\ Fails(w)
    BY <1>7, <2>3, PairFails
  <2> QED
    BY <1>7, <2>2, <2>3
<1>8. ASSUME NEW w \in Machines, CheckKernel(w) \/ CheckInitrd(w) PROVE PairInv'
  BY <1>7, <1>8 DEF CheckKernel, CheckInitrd, Check, Staging
<1>9. ASSUME NEW w \in Machines, WriteKernel(w) \/ WriteInitrd(w) PROVE PairInv'
  BY <1>7, <1>9 DEF WriteKernel, WriteInitrd, Truncate, Staging
<1>10. ASSUME NEW w \in Machines, FillKernel(w) \/ FillInitrd(w) PROVE PairInv'
  BY <1>7, <1>10 DEF FillKernel, FillInitrd, FillFile, Staging
<1>11. ASSUME NEW w \in Machines, DefineDomain(w) PROVE PairInv'
  <2>1. CASE Go(w, "start") /\ UNCHANGED <<asked, pair, faults>>
    <3>1. asked[w] # None => Resolved(w)
      BY <1>11 DEF DefineDomain, Resolved
    <3> QED
      BY <1>11, <2>1, <3>1, PairGoes DEF DefineDomain, Staging
  <2>2. CASE Fails(w) /\ (Fault \/ UNCHANGED faults)
    BY <1>11, <2>2, PairFails DEF DefineDomain
  <2> QED
    BY <1>11, <2>1, <2>2 DEF DefineDomain
<1>12. ASSUME NEW w \in Machines, StartDomain(w) PROVE PairInv'
  BY <1>12, PairFails DEF StartDomain
<1>13. ASSUME UNCHANGED <<cache, step, asked, pair>>,
              \/ UNCHANGED serving /\ (faults' = 0 => faults = 0)
              \/ faults' # 0
       PROVE  PairInv'
  <2>1. CacheOK'
    BY <1>13, CacheKept
  <2>2. ASSUME NEW w \in Machines PROVE PairOK(w)'
    <3>1. Source(w)' = Source(w) /\ Resolved(w)' = Resolved(w) /\ PairOK(w)
      BY <1>13 DEF Source, Resolved, PairInv
    <3>2. Resolved(w) => Matched(Source(w), pair[w])'
      BY <1>13, <3>1, MatchedStays DEF PairOK
    <3> QED
      BY <1>13, <3>1, <3>2 DEF PairOK, Matches
  <2> QED
    BY <2>1, <2>2 DEF PairInv
<1>14. Fault => faults' # 0
  BY DEF Fault, BootTypeOK
<1>15. ASSUME NEW w \in Machines, GuestReads(w) \/ PowerOff(w) PROVE PairInv'
  BY <1>13, <1>14, <1>15 DEF GuestReads, PowerOff, bootVars
<1>16. CASE Republish \/ EditCluster
  BY <1>13, <1>14, <1>16 DEF Republish, EditCluster
<1>17. CASE Restart
  <2>1. CacheOK'
    BY <1>17 DEF Restart, CacheOK
  <2>2. \A w \in Machines : step'[w] = "idle"
    BY <1>17 DEF Restart
  <2> QED
    BY <2>1, <2>2, IdleIsOK DEF PairInv
<1>18. CASE UNCHANGED vars
  BY <1>13, <1>18 DEF vars, bootVars
<1> QED
  BY <1>1, <1>2, <1>3, <1>4, <1>5, <1>6, <1>8, <1>9, <1>10, <1>11, <1>12, <1>15,
     <1>16, <1>17, <1>18
     DEF Next, Worker, BootArtifactStep, ArtifactStep, Environment
-----------------------------------------------------------------------------
(***************************************************************************)
(* Files.                                                                  *)
(***************************************************************************)
LEMMA PathTypes ==
    ASSUME BootTypeOK, PairInv, NEW w \in Machines, Resolved(w)
    PROVE  /\ KernelPath(w) \in FileNames /\ InitrdPath(w) \in FileNames
           /\ KernelPath(w)[2] = pair[w].kernel /\ InitrdPath(w)[2] = pair[w].initrd
           /\ KernelPath(w) # InitrdPath(w)
<1>1. asked[w] \in BootSpecs
  BY SourceType DEF Resolved
<1>2. pair[w] \in [kernel : Published, initrd : Published]
  BY DEF PairInv, PairOK, Matched
<1> QED
  BY <1>1, <1>2 DEF BootSpecs, KernelPath, InitrdPath, FileNames

(* What each write, and each machine, has to do with the files.            *)
LEMMA WritersFrame ==
    ASSUME WritersOK, NEW w \in Machines, UNCHANGED <<file, at>>,
           step[w] \notin {"fillKernel", "fillInitrd"},
           \A v \in Machines \ {w} :
               step'[v] = step[v] /\ asked'[v] = asked[v] /\ pair'[v] = pair[v]
    PROVE  WritersOK'
<1> SUFFICES ASSUME NEW h \in Hosts, NEW f \in FileNames, NEW v \in Machines,
                    file'[h][f] = v
             PROVE  /\ at'[v] = h
                    /\ \/ step'[v] = "fillKernel" /\ f = KernelPath(v)'
                       \/ step'[v] = "fillInitrd" /\ f = InitrdPath(v)'
  BY DEF WritersOK
<1>1. /\ at[v] = h
      /\ \/ step[v] = "fillKernel" /\ f = KernelPath(v)
         \/ step[v] = "fillInitrd" /\ f = InitrdPath(v)
  BY DEF WritersOK
<1>2. v \in Machines \ {w}
  BY <1>1
<1>3. KernelPath(v)' = KernelPath(v) /\ InitrdPath(v)' = InitrdPath(v)
  BY <1>2 DEF KernelPath, InitrdPath
<1> QED
  BY <1>1, <1>2, <1>3

LEMMA WritersSame ==
    ASSUME WritersOK, UNCHANGED <<file, at, step, asked, pair>>
    PROVE  WritersOK'
<1>1. \A v \in Machines : KernelPath(v)' = KernelPath(v) /\ InitrdPath(v)' = InitrdPath(v)
  BY DEF KernelPath, InitrdPath
<1> QED
  BY <1>1 DEF WritersOK

LEMMA PassedFrame ==
    ASSUME NEW v \in Machines, PassedOK(v), UNCHANGED at, at[v] \in Hosts,
           step'[v] = step[v], asked'[v] = asked[v], pair'[v] = pair[v],
           \A h \in Hosts : \A g : file[h][g] # Absent => file'[h][g] # Absent
    PROVE  PassedOK(v)'
<1>1. KernelPath(v)' = KernelPath(v) /\ InitrdPath(v)' = InitrdPath(v)
  BY DEF KernelPath, InitrdPath
<1> QED
  BY <1>1 DEF PassedOK

(* The end of a write changes the file that the machine truncated, if it   *)
(* is the last to have done so, and no other.                              *)
Filling(w, f, c) ==
    /\ f \in FileNames /\ at[w] \in Hosts
    /\ \/ step[w] = "fillKernel" /\ f = KernelPath(w)
       \/ step[w] = "fillInitrd" /\ f = InitrdPath(w)
    /\ file' = [file EXCEPT ![at[w]][f] = Written(@, w, c)]

Filled(w, f, c) ==
    \A h \in Hosts, g \in FileNames :
        /\ file[h][g] = w => h = at[w] /\ g = f
        /\ file'[h][g] = IF file[h][g] = w THEN c ELSE file[h][g]

LEMMA FilledFile ==
    ASSUME file \in [Hosts -> [FileNames -> Contents]], WritersOK, NEW w \in Machines,
           NEW f, NEW c, Filling(w, f, c)
    PROVE  Filled(w, f, c)
<1> SUFFICES ASSUME NEW h \in Hosts, NEW g \in FileNames
             PROVE  /\ file[h][g] = w => h = at[w] /\ g = f
                    /\ file'[h][g] = IF file[h][g] = w THEN c ELSE file[h][g]
  BY DEF Filled
<1>1. file[h][g] = w => h = at[w] /\ g = f
  BY DEF WritersOK, Filling
<1>2. file'[h][g] = IF h = at[w] /\ g = f THEN Written(file[h][g], w, c) ELSE file[h][g]
  BY DEF Filling
<1> QED
  BY <1>1, <1>2 DEF Written

LEMMA FilledStays ==
    ASSUME file \in [Hosts -> [FileNames -> Contents]], NEW w \in Machines,
           NEW f, NEW c, c # Absent, Filling(w, f, c)
    PROVE  \A h \in Hosts : \A g : file[h][g] # Absent => file'[h][g] # Absent
<1> SUFFICES ASSUME NEW h \in Hosts, NEW g, file[h][g] # Absent PROVE file'[h][g] # Absent
  OBVIOUS
<1>1. CASE h = at[w] /\ g = f
  BY <1>1 DEF Written, Filling
<1>2. CASE h = at[w] /\ g # f
  BY <1>2 DEF Filling
<1>3. CASE h # at[w]
  BY <1>3 DEF Filling
<1> QED
  BY <1>1, <1>2, <1>3

LEMMA FilledWriters ==
    ASSUME WritersOK, NEW w \in Machines, NEW f, NEW c, c \notin Machines,
           Filled(w, f, c), UNCHANGED at,
           \A v \in Machines \ {w} :
               step'[v] = step[v] /\ asked'[v] = asked[v] /\ pair'[v] = pair[v]
    PROVE  WritersOK'
<1> SUFFICES ASSUME NEW h \in Hosts, NEW g \in FileNames, NEW v \in Machines,
                    file'[h][g] = v
             PROVE  /\ at'[v] = h
                    /\ \/ step'[v] = "fillKernel" /\ g = KernelPath(v)'
                       \/ step'[v] = "fillInitrd" /\ g = InitrdPath(v)'
  BY DEF WritersOK
<1>1. file[h][g] = v /\ v # w
  BY DEF Filled
<1>2. /\ at[v] = h
      /\ \/ step[v] = "fillKernel" /\ g = KernelPath(v)
         \/ step[v] = "fillInitrd" /\ g = InitrdPath(v)
  BY <1>1 DEF WritersOK
<1>3. KernelPath(v)' = KernelPath(v) /\ InitrdPath(v)' = InitrdPath(v)
  BY <1>1 DEF KernelPath, InitrdPath
<1> QED
  BY <1>1, <1>2, <1>3

LEMMA CutOffWriters ==
    ASSUME \A h \in Hosts, f \in FileNames : file'[h][f] = CutOff(file[h][f])
    PROVE  WritersOK'
<1>1. \A h \in Hosts, f \in FileNames : file'[h][f] \notin Machines
  BY BootAssumption DEF CutOff
<1> QED
  BY <1>1 DEF WritersOK

(* A worker that is in no write, and one that leaves a write behind.       *)
LEMMA FileFrame ==
    ASSUME FileInv, NEW w \in Machines,
           \A v \in Machines \ {w} :
               step'[v] = step[v] /\ asked'[v] = asked[v] /\ pair'[v] = pair[v],
           UNCHANGED <<file, at>>, torn => torn',
           step[w] \notin {"fillKernel", "fillInitrd"},
           PassedOK(w)'
    PROVE  FileInv'
<1>1. \A v \in Machines \ {w} : /\ KernelPath(v)' = KernelPath(v)
                                /\ InitrdPath(v)' = InitrdPath(v)
  BY DEF KernelPath, InitrdPath
<1>2. \A v \in Machines \ {w} : PassedOK(v)'
  BY <1>1 DEF FileInv, PassedOK
<1>3. ContentOK'
  BY DEF FileInv, ContentOK
<1>4. WritersOK'
  <2>1. WritersOK
    BY DEF FileInv
  <2> QED
    BY <2>1, WritersFrame
<1> QED
  BY <1>2, <1>3, <1>4 DEF FileInv

LEMMA FileFails ==
    ASSUME BootTypeOK, FileInv, NEW w \in Machines, Fails(w), UNCHANGED <<file, at, torn>>,
           step[w] \notin {"fillKernel", "fillInitrd"}
    PROVE  FileInv'
<1>1. PassedOK(w)'
  BY FailedIsIdle DEF PassedOK
<1> QED
  BY <1>1, FailedIsIdle, FileFrame

LEMMA FileGoes ==
    ASSUME BootTypeOK, FileInv, NEW w \in Machines, NEW s, Go(w, s),
           UNCHANGED <<file, at, torn, asked, pair>>,
           step[w] \notin {"fillKernel", "fillInitrd"},
           asked[w] # None /\ s \in KernelPassed => file[at[w]][KernelPath(w)] # Absent,
           asked[w] # None /\ s \in InitrdPassed => file[at[w]][InitrdPath(w)] # Absent
    PROVE  FileInv'
<1>1. step'[w] = s /\ \A v \in Machines \ {w} : step'[v] = step[v]
  BY WentOn
<1>2. PassedOK(w)'
  BY <1>1 DEF PassedOK, KernelPath, InitrdPath
<1> QED
  BY <1>1, <1>2, FileFrame

(* A file is truncated.                                                    *)
LEMMA FileTruncated ==
    ASSUME BootTypeOK, PairInv, FileInv, NEW w \in Machines, Resolved(w), NEW f, NEW s,
           \/ f = KernelPath(w) /\ s = "fillKernel"
           \/ f = InitrdPath(w) /\ s = "fillInitrd",
           step[w] \notin {"fillKernel", "fillInitrd"},
           s = "fillInitrd" => step[w] \in KernelPassed,
           file' = [file EXCEPT ![at[w]][f] = w], Go(w, s),
           UNCHANGED <<at, asked, pair, torn>>
    PROVE  FileInv'
<1>1. step'[w] = s /\ \A v \in Machines \ {w} : step'[v] = step[v]
  BY WentOn
<1>2. f \in FileNames /\ at[w] \in Hosts
  BY PathTypes DEF BootTypeOK
<1>3. \A v \in Machines : KernelPath(v)' = KernelPath(v) /\ InitrdPath(v)' = InitrdPath(v)
  BY DEF KernelPath, InitrdPath
<1>4. \A h \in Hosts, g \in FileNames :
          file'[h][g] = IF h = at[w] /\ g = f THEN w ELSE file[h][g]
  BY <1>2 DEF BootTypeOK
<1>5. w \notin Published /\ w # Cut /\ w # Absent
  BY BootAssumption
<1>6. ContentOK'
  BY <1>4, <1>5 DEF FileInv, ContentOK
<1>7. WritersOK'
  <2> SUFFICES ASSUME NEW h \in Hosts, NEW g \in FileNames, NEW v \in Machines,
                      file'[h][g] = v
               PROVE  /\ at'[v] = h
                      /\ \/ step'[v] = "fillKernel" /\ g = KernelPath(v)'
                         \/ step'[v] = "fillInitrd" /\ g = InitrdPath(v)'
    BY DEF WritersOK
  <2>1. CASE h = at[w] /\ g = f
    BY <1>1, <1>3, <1>4, <2>1
  <2>2. CASE ~(h = at[w] /\ g = f)
    BY <1>1, <1>3, <1>4, <2>2 DEF FileInv, WritersOK
  <2> QED
    BY <2>1, <2>2
<1>8. ASSUME NEW v \in Machines PROVE PassedOK(v)'
  <2>1. \A h \in Hosts : \A g : file[h][g] # Absent => file'[h][g] # Absent
    BY <1>2, <1>5 DEF BootTypeOK
  <2>2. at[v] \in Hosts
    BY DEF BootTypeOK
  <2>3. CASE v # w
    BY <1>1, <1>3, <2>1, <2>2, <2>3 DEF FileInv, PassedOK
  <2>4. CASE v = w
    <3>1. file'[at[w]][f] # Absent
      BY <1>2, <1>4, <1>5
    <3>2. asked[w] # None
      BY DEF Resolved
    <3>3. s = "fillInitrd" => file'[at[w]][KernelPath(w)] # Absent
      BY <2>1, <1>2, <3>2 DEF FileInv, PassedOK
    <3> QED
      BY <1>1, <1>3, <2>4, <3>1, <3>3 DEF PassedOK, KernelPassed, InitrdPassed
  <2> QED
    BY <2>3, <2>4
<1> QED
  BY <1>6, <1>7, <1>8 DEF FileInv

(* A write ends, with the file complete or cut off.                        *)
LEMMA FileFilled ==
    ASSUME BootTypeOK, PairInv, FileInv, NEW w \in Machines, NEW f, NEW c,
           \/ step[w] = "fillKernel" /\ f = KernelPath(w)
           \/ step[w] = "fillInitrd" /\ f = InitrdPath(w),
           \/ c = f[2]
           \/ c = Cut /\ torn',
           torn => torn',
           file' = [file EXCEPT ![at[w]][f] = Written(@, w, c)],
           \A v \in Machines \ {w} :
               step'[v] = step[v] /\ asked'[v] = asked[v] /\ pair'[v] = pair[v],
           UNCHANGED at,
           \/ step'[w] = "idle" /\ asked'[w] = None
           \/ /\ asked'[w] = asked[w] /\ pair'[w] = pair[w]
              /\ step'[w] \in {"checkInitrd", "define"}
              /\ step'[w] = "define" => step[w] = "fillInitrd"
    PROVE  FileInv'
<1>1. Resolved(w) /\ asked[w] # None
  BY DEF PairInv, PairOK, Resolved, Staging
<1>2. f \in FileNames /\ at[w] \in Hosts
  BY <1>1, PathTypes DEF BootTypeOK
<1>3. c \in Published \cup {Cut} /\ c # Absent /\ c # w
  BY <1>2, BootAssumption DEF FileNames
<1>4. \A v \in Machines \ {w} :
          KernelPath(v)' = KernelPath(v) /\ InitrdPath(v)' = InitrdPath(v)
  BY DEF KernelPath, InitrdPath
<1>5. WritersOK /\ file \in [Hosts -> [FileNames -> Contents]]
  BY DEF FileInv, BootTypeOK
<1>6. Filling(w, f, c)
  BY <1>2 DEF Filling
<1>7. Filled(w, f, c)
  BY <1>5, <1>6, FilledFile, Zenon
<1>8. ContentOK'
  <2> SUFFICES ASSUME NEW h \in Hosts, NEW g \in FileNames
               PROVE  /\ file'[h][g] \in Published => file'[h][g] = g[2]
                      /\ file'[h][g] = Cut => torn'
    BY DEF ContentOK
  <2>1. CASE file[h][g] = w
    <3>1. file'[h][g] = c /\ g = f
      BY <1>7, <2>1 DEF Filled
    <3>2. c = Cut => torn'
      BY <1>2, BootAssumption DEF FileNames
    <3>3. c \in Published => c = f[2]
      BY <1>3, BootAssumption
    <3> QED
      BY <3>1, <3>2, <3>3
  <2>2. CASE file[h][g] # w
    <3>1. file'[h][g] = file[h][g]
      BY <1>7, <2>2 DEF Filled
    <3>2. /\ file[h][g] \in Published => file[h][g] = g[2]
          /\ file[h][g] = Cut => torn
      BY Zenon DEF FileInv, ContentOK
    <3> QED
      BY <3>1, <3>2, Zenon
  <2> QED
    BY <2>1, <2>2
<1>9. WritersOK'
  <2>1. c \notin Machines
    BY <1>3, BootAssumption
  <2> QED
    BY <1>5, <1>7, <2>1, FilledWriters
<1>10. ASSUME NEW v \in Machines PROVE PassedOK(v)'
  <2>1. \A h \in Hosts : \A g : file[h][g] # Absent => file'[h][g] # Absent
    BY <1>3, <1>5, <1>6, FilledStays
  <2>2. at[v] \in Hosts
    BY DEF BootTypeOK
  <2>3. CASE v # w
    <3>1. PassedOK(v)
      BY DEF FileInv
    <3> QED
      BY <2>1, <2>2, <2>3, <3>1, PassedFrame
  <2>4. CASE v = w /\ asked'[w] = None
    BY <2>4 DEF PassedOK
  <2>5. CASE /\ v = w /\ asked'[w] = asked[w] /\ pair'[w] = pair[w]
             /\ step'[w] \in {"checkInitrd", "define"}
             /\ step'[w] = "define" => step[w] = "fillInitrd"
    <3>1. KernelPath(w)' = KernelPath(w) /\ InitrdPath(w)' = InitrdPath(w)
      BY <2>5 DEF KernelPath, InitrdPath
    <3>2. file[at[w]][KernelPath(w)] # Absent
      BY <1>1 DEF FileInv, PassedOK, KernelPassed
    <3>3. step[w] = "fillInitrd" => file[at[w]][InitrdPath(w)] # Absent
      BY <1>1 DEF FileInv, PassedOK, InitrdPassed
    <3>4. file'[at'[w]][KernelPath(w)'] # Absent
      BY <2>1, <2>2, <2>5, <3>1, <3>2
    <3>5. step[w] = "fillInitrd" => file'[at'[w]][InitrdPath(w)'] # Absent
      BY <2>1, <2>2, <2>5, <3>1, <3>3, Zenon
    <3>6. step'[w] \in InitrdPassed => step[w] = "fillInitrd"
      BY <2>5 DEF InitrdPassed
    <3> QED
      BY <2>5, <3>4, <3>5, <3>6, Zenon DEF PassedOK
  <2> QED
    BY <2>3, <2>4, <2>5
<1> QED
  BY <1>8, <1>9, <1>10 DEF FileInv

LEMMA FileStep ==
    ASSUME BootTypeOK, PairInv, FileInv, [Next]_vars
    PROVE  FileInv'
<1> DEFINE Fills == {"fillKernel", "fillInitrd"}
<1>1. ASSUME NEW w \in Machines, Reconcile(w) PROVE FileInv'
  <2>1. /\ step'[w] \in {"config", "define", "resolve"}
        /\ step'[w] = "define" => asked'[w] = None
        /\ \A v \in Machines \ {w} : step'[v] = step[v]
    BY <1>1, WentOn DEF Reconcile, AfterConfig, BootTypeOK
  <2>2. \A v \in Machines \ {w} : asked'[v] = asked[v]
    BY <1>1 DEF Reconcile, BootTypeOK
  <2>3. PassedOK(w)'
    BY <2>1 DEF PassedOK, KernelPassed, InitrdPassed
  <2> QED
    BY <1>1, <2>1, <2>2, <2>3, FileFrame DEF Reconcile
<1>2. ASSUME NEW w \in Machines, WriteConfig(w) PROVE FileInv'
  BY <1>2, FileGoes, FileFails DEF WriteConfig, KernelPassed, InitrdPassed
<1>3. ASSUME NEW w \in Machines, FillConfig(w) PROVE FileInv'
  <2>1. AfterConfig(asked[w]) \in KernelPassed => asked[w] = None
    BY DEF AfterConfig, KernelPassed
  <2>2. AfterConfig(asked[w]) \in InitrdPassed => asked[w] = None
    BY DEF AfterConfig, InitrdPassed
  <2> QED
    BY <1>3, <2>1, <2>2, FileGoes, FileFails DEF FillConfig
<1>4. ASSUME NEW w \in Machines, ResolveCachedArtifacts(w) PROVE FileInv'
  <2>1. CASE Fails(w)
    BY <1>4, <2>1, FileFails DEF ResolveCachedArtifacts, CredentialsFail
  <2>2. CASE /\ Go(w, "checkKernel") \/ Go(w, "kernel")
             /\ \A v \in Machines \ {w} : asked'[v] = asked[v] /\ pair'[v] = pair[v]
    <3>1. step'[w] \in {"checkKernel", "kernel"} /\ \A v \in Machines \ {w} : step'[v] = step[v]
      BY <2>2, WentOn
    <3>2. PassedOK(w)'
      BY <3>1 DEF PassedOK, KernelPassed, InitrdPassed
    <3> QED
      BY <1>4, <2>2, <3>1, <3>2, FileFrame DEF ResolveCachedArtifacts, CredentialsFail
  <2> QED
    BY <1>4, <2>1, <2>2 DEF ResolveCachedArtifacts, CredentialsFail, BootTypeOK
<1>5. ASSUME NEW w \in Machines, FetchKernel(w) PROVE FileInv'
  <2>1. CASE Fails(w)
    BY <1>5, <2>1, FileFails DEF FetchKernel, FetchFails, OneManifest
  <2>2. CASE /\ Go(w, "initrd")
             /\ \A v \in Machines \ {w} : asked'[v] = asked[v] /\ pair'[v] = pair[v]
    <3>1. step'[w] = "initrd" /\ \A v \in Machines \ {w} : step'[v] = step[v]
      BY <2>2, WentOn
    <3>2. PassedOK(w)'
      BY <3>1 DEF PassedOK, KernelPassed, InitrdPassed
    <3> QED
      BY <1>5, <2>2, <3>1, <3>2, FileFrame DEF FetchKernel, FetchFails, OneManifest
  <2> QED
    BY <1>5, <2>1, <2>2 DEF FetchKernel, FetchFails, OneManifest, BootTypeOK
<1>6. ASSUME NEW w \in Machines, FetchInitramfs(w) PROVE FileInv'
  <2>1. CASE Fails(w)
    BY <1>6, <2>1, FileFails DEF FetchInitramfs, FetchFails
  <2>2. CASE /\ Go(w, "checkKernel")
             /\ \A v \in Machines \ {w} : asked'[v] = asked[v] /\ pair'[v] = pair[v]
    <3>1. step'[w] = "checkKernel" /\ \A v \in Machines \ {w} : step'[v] = step[v]
      BY <2>2, WentOn
    <3>2. PassedOK(w)'
      BY <3>1 DEF PassedOK, KernelPassed, InitrdPassed
    <3> QED
      BY <1>6, <2>2, <3>1, <3>2, FileFrame DEF FetchInitramfs, FetchFails
  <2> QED
    BY <1>6, <2>1, <2>2 DEF FetchInitramfs, FetchFails, BootTypeOK
<1>7. ASSUME NEW w \in Machines, CheckKernel(w) PROVE FileInv'
  <2>1. CASE Fault /\ Fails(w)
    BY <1>7, <2>1, FileFails DEF CheckKernel, Check
  <2>2. CASE Go(w, "writeKernel") /\ UNCHANGED <<asked, pair>>
    BY <1>7, <2>2, FileGoes DEF CheckKernel, Check, KernelPassed, InitrdPassed
  <2>3. CASE /\ file[at[w]][KernelPath(w)] # Absent
             /\ Go(w, "checkInitrd") /\ UNCHANGED <<asked, pair>>
    BY <1>7, <2>3, FileGoes DEF CheckKernel, Check, KernelPassed, InitrdPassed
  <2> QED
    BY <1>7, <2>1, <2>2, <2>3 DEF CheckKernel, Check
<1>8. ASSUME NEW w \in Machines, CheckInitrd(w) PROVE FileInv'
  <2>1. asked[w] # None => file[at[w]][KernelPath(w)] # Absent
    BY <1>8 DEF CheckInitrd, Check, FileInv, PassedOK, KernelPassed
  <2>2. CASE Fault /\ Fails(w)
    BY <1>8, <2>2, FileFails DEF CheckInitrd, Check
  <2>3. CASE Go(w, "writeInitrd") /\ UNCHANGED <<asked, pair>>
    BY <1>8, <2>1, <2>3, FileGoes DEF CheckInitrd, Check, InitrdPassed
  <2>4. CASE /\ file[at[w]][InitrdPath(w)] # Absent
             /\ Go(w, "define") /\ UNCHANGED <<asked, pair>>
    BY <1>8, <2>1, <2>4, FileGoes DEF CheckInitrd, Check
  <2> QED
    BY <1>8, <2>2, <2>3, <2>4 DEF CheckInitrd, Check
<1>9. ASSUME NEW w \in Machines, step[w] \in {"writeKernel", "writeInitrd"}
      PROVE  Resolved(w)
  BY <1>9 DEF Resolved, PairInv, PairOK, Staging
<1>10. ASSUME NEW w \in Machines, WriteKernel(w) PROVE FileInv'
  <2>1. CASE Fault /\ Fails(w) /\ UNCHANGED file
    BY <1>10, <2>1, FileFails DEF WriteKernel, Truncate
  <2>2. CASE /\ file' = [file EXCEPT ![at[w]][KernelPath(w)] = w]
             /\ Go(w, "fillKernel") /\ UNCHANGED <<asked, pair>>
    BY <1>9, <1>10, <2>2, FileTruncated, Zenon DEF WriteKernel, Truncate
  <2> QED
    BY <1>10, <2>1, <2>2 DEF WriteKernel, Truncate
<1>11. ASSUME NEW w \in Machines, WriteInitrd(w) PROVE FileInv'
  <2>1. CASE Fault /\ Fails(w) /\ UNCHANGED file
    BY <1>11, <2>1, FileFails DEF WriteInitrd, Truncate
  <2>2. CASE /\ file' = [file EXCEPT ![at[w]][InitrdPath(w)] = w]
             /\ Go(w, "fillInitrd") /\ UNCHANGED <<asked, pair>>
    <3>1. step[w] \in KernelPassed /\ step[w] \notin Fills
      BY <1>11 DEF WriteInitrd, Truncate, KernelPassed
    <3> QED
      BY <1>9, <1>11, <2>2, <3>1, FileTruncated, Zenon DEF WriteInitrd, Truncate
  <2> QED
    BY <1>11, <2>1, <2>2 DEF WriteInitrd, Truncate
<1>12. ASSUME NEW w \in Machines, FillKernel(w) PROVE FileInv'
  <2>1. step[w] = "fillKernel" /\ Resolved(w) /\ UNCHANGED at
    BY <1>12 DEF FillKernel, FillFile, Resolved, PairInv, PairOK, Staging
  <2>2. pair[w].kernel = KernelPath(w)[2]
    BY <2>1, PathTypes
  <2>3. CASE /\ file' = [file EXCEPT ![at[w]][KernelPath(w)] = Written(@, w, pair[w].kernel)]
             /\ Go(w, "checkInitrd") /\ UNCHANGED <<asked, pair, torn>>
    <3>1. step'[w] = "checkInitrd" /\ \A v \in Machines \ {w} : step'[v] = step[v]
      BY <2>3, WentOn
    <3>2. \A v \in Machines \ {w} :
              step'[v] = step[v] /\ asked'[v] = asked[v] /\ pair'[v] = pair[v]
      BY <2>3, <3>1
    <3> QED
      BY <2>1, <2>2, <2>3, <3>1, <3>2, FileFilled, Zenon
  <2>4. CASE /\ file' = [file EXCEPT ![at[w]][KernelPath(w)] = Written(@, w, pair[w].kernel)]
             /\ Fails(w) /\ UNCHANGED torn
    BY <2>1, <2>2, <2>4, FailedIsIdle, FileFilled, Zenon
  <2>5. CASE /\ file' = [file EXCEPT ![at[w]][KernelPath(w)] = Written(@, w, Cut)]
             /\ Fails(w) /\ torn' = TRUE
    BY <2>1, <2>5, FailedIsIdle, FileFilled, Zenon
  <2> QED
    BY <1>12, <2>3, <2>4, <2>5, Zenon DEF FillKernel, FillFile
<1>13. ASSUME NEW w \in Machines, FillInitrd(w) PROVE FileInv'
  <2>1. step[w] = "fillInitrd" /\ Resolved(w) /\ UNCHANGED at
    BY <1>13 DEF FillInitrd, FillFile, Resolved, PairInv, PairOK, Staging
  <2>2. pair[w].initrd = InitrdPath(w)[2]
    BY <2>1, PathTypes
  <2>3. CASE /\ file' = [file EXCEPT ![at[w]][InitrdPath(w)] = Written(@, w, pair[w].initrd)]
             /\ Go(w, "define") /\ UNCHANGED <<asked, pair, torn>>
    <3>1. step'[w] = "define" /\ \A v \in Machines \ {w} : step'[v] = step[v]
      BY <2>3, WentOn
    <3>2. \A v \in Machines \ {w} :
              step'[v] = step[v] /\ asked'[v] = asked[v] /\ pair'[v] = pair[v]
      BY <2>3, <3>1
    <3> QED
      BY <2>1, <2>2, <2>3, <3>1, <3>2, FileFilled, Zenon
  <2>4. CASE /\ file' = [file EXCEPT ![at[w]][InitrdPath(w)] = Written(@, w, pair[w].initrd)]
             /\ Fails(w) /\ UNCHANGED torn
    BY <2>1, <2>2, <2>4, FailedIsIdle, FileFilled, Zenon
  <2>5. CASE /\ file' = [file EXCEPT ![at[w]][InitrdPath(w)] = Written(@, w, Cut)]
             /\ Fails(w) /\ torn' = TRUE
    BY <2>1, <2>5, FailedIsIdle, FileFilled, Zenon
  <2> QED
    BY <1>13, <2>3, <2>4, <2>5, Zenon DEF FillInitrd, FillFile
<1>14. ASSUME NEW w \in Machines, DefineDomain(w) PROVE FileInv'
  <2>1. CASE Fails(w)
    BY <1>14, <2>1, FileFails DEF DefineDomain
  <2>2. CASE Go(w, "start") /\ UNCHANGED <<asked, pair>>
    <3>1. asked[w] # None => /\ file[at[w]][KernelPath(w)] # Absent
                             /\ file[at[w]][InitrdPath(w)] # Absent
      BY <1>14 DEF DefineDomain, FileInv, PassedOK, KernelPassed, InitrdPassed
    <3> QED
      BY <1>14, <2>2, <3>1, FileGoes DEF DefineDomain
  <2> QED
    BY <1>14, <2>1, <2>2 DEF DefineDomain
<1>15. ASSUME NEW w \in Machines, StartDomain(w) PROVE FileInv'
  BY <1>15, FileFails DEF StartDomain
<1>16. ASSUME UNCHANGED <<step, asked, pair, file, at, torn>> PROVE FileInv'
  <2>1. \A w \in Machines : KernelPath(w)' = KernelPath(w) /\ InitrdPath(w)' = InitrdPath(w)
    BY <1>16 DEF KernelPath, InitrdPath
  <2>2. ContentOK'
    BY <1>16 DEF FileInv, ContentOK
  <2>3. WritersOK'
    <3>1. WritersOK
      BY DEF FileInv
    <3> QED
      BY <1>16, <3>1, WritersSame
  <2>4. \A w \in Machines : PassedOK(w)'
    BY <1>16, <2>1 DEF FileInv, PassedOK
  <2> QED
    BY <2>2, <2>3, <2>4 DEF FileInv
<1>17. ASSUME NEW w \in Machines, GuestReads(w) \/ PowerOff(w) PROVE FileInv'
  BY <1>16, <1>17 DEF GuestReads, PowerOff, bootVars
<1>18. CASE Republish \/ EditCluster
  BY <1>16, <1>18 DEF Republish, EditCluster
<1>19. CASE Restart
  <2>1. \A h \in Hosts, f \in FileNames : file'[h][f] = CutOff(file[h][f])
    BY <1>19 DEF Restart
  <2>2. ContentOK'
    BY <1>19, <2>1, BootAssumption, Zenon DEF Restart, CutOff, FileInv, ContentOK
  <2>3. WritersOK'
    BY <2>1, CutOffWriters
  <2>4. \A w \in Machines : PassedOK(w)'
    BY <1>19 DEF Restart, PassedOK
  <2> QED
    BY <2>2, <2>3, <2>4 DEF FileInv
<1>20. CASE UNCHANGED vars
  BY <1>16, <1>20 DEF vars, bootVars
<1> QED
  BY <1>1, <1>2, <1>3, <1>4, <1>5, <1>6, <1>7, <1>8, <1>10, <1>11, <1>12, <1>13,
     <1>14, <1>15, <1>17, <1>18, <1>19, <1>20
     DEF Next, Worker, BootArtifactStep, ArtifactStep, Environment
=============================================================================
