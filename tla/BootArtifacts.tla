----------------------------- MODULE BootArtifacts -----------------------------
(***************************************************************************)
(* Kernel and initramfs for a direct boot: the source a cluster names, the *)
(* resolvers that fetch the pair, the manager's cache of pairs, and the    *)
(* files on the libvirt hosts, for concurrent reconciles of machines.      *)
(*                                                                         *)
(* A publication is a kernel and an initramfs; it stands for the digests   *)
(* of both, which only the name of the file tells apart. Decompression     *)
(* comes before the digest, so content is what is decompressed.            *)
(***************************************************************************)
EXTENDS DomainXML, Faults

CONSTANTS Machines,     \* the machines, with a reconcile worker each
          Hosts,        \* LibvirtHosts
          Published,    \* publications
          Sources,      \* the sources that spec.bootArtifacts may name
          HostPaths,    \* spec.bootArtifacts.hostPath
          Absent,       \* there is no file
          Cut           \* a file that is not complete and not being written

AllSources == [type   : {"HTTPS", "OCI", "S3"},
               kernel : Published \cup {None},     \* kernelSHA256
               initrd : Published \cup {None},     \* initramfsSHA256
               secret : BOOLEAN]                   \* credentialsSecretRef

ASSUME BootAssumption ==
    /\ Sources \subseteq AllSources /\ MaxFaults \in Nat
    /\ Absent # Cut /\ None # Absent /\ None # Cut
    /\ {None, Absent, Cut} \cap (Machines \cup Published) = {}
    /\ Machines \cap Published = {}

VARIABLES
    boot,       \* LibvirtCluster.spec.bootArtifacts, or None
    serving,    \* the publication that the source has at the moment
    cache,      \* artifactCache: pairs by the key of their source
    at,         \* the host of each machine: spec.hostRef
    step,       \* where the worker of each machine is
    asked,      \* spec.bootArtifacts as the reconcile read it
    pair,       \* the artifacts it has fetched so far
    file,       \* the files on each host
    torn        \* history: a write ended before the file was complete

bootVars == <<boot, serving, cache, at, step, asked, pair, file, torn, faults>>

BootSpecs == [src : Sources, path : HostPaths]

Pairs == [kernel : Published \cup {None}, initrd : Published \cup {None}]

NoPair == [kernel |-> None, initrd |-> None]

FileNames == HostPaths \X Published \X {"vmlinuz", "initramfs.img"}

ASSUME PathAssumption == None \notin FileNames

(* A file that a machine is writing is that machine, the last to truncate  *)
(* it; a complete one is the publication it has the content of.            *)
Contents == {Absent, Cut} \cup Machines \cup Published

(* Mutant: the digests are not part of the key.                            *)
UnpinnedCacheKey(src) == [type |-> src.type]

(* Neither are the credentials, nor how the files are used.                *)
BootArtifactsCacheKey(src) ==
    [type |-> src.type, kernel |-> src.kernel, initrd |-> src.initrd]

Keys == {BootArtifactsCacheKey(src) : src \in Sources}

BootSteps == {"idle", "config", "fill", "resolve", "kernel", "initrd",
              "checkKernel", "writeKernel", "fillKernel",
              "checkInitrd", "writeInitrd", "fillInitrd", "define", "start"}

BootTypeOK ==
    /\ boot \in BootSpecs \cup {None}
    /\ serving \in Published
    /\ cache \in [Keys -> Pairs \cup {None}]
    /\ at \in [Machines -> Hosts]
    /\ step \in [Machines -> BootSteps]
    /\ asked \in [Machines -> BootSpecs \cup {None}]
    /\ pair \in [Machines -> Pairs]
    /\ file \in [Hosts -> [FileNames -> Contents]]
    /\ torn \in BOOLEAN
    /\ faults \in 0..MaxFaults

BootInit ==
    /\ boot \in BootSpecs \cup {None}
    /\ serving \in Published
    /\ cache = [k \in Keys |-> None]
    /\ at \in [Machines -> Hosts]
    /\ step = [w \in Machines |-> "idle"]
    /\ asked = [w \in Machines |-> None]
    /\ pair = [w \in Machines |-> NoPair]
    /\ file = [h \in Hosts |-> [f \in FileNames |-> Absent]]
    /\ torn = FALSE
    /\ faults = 0

Go(w, s) == step' = [step EXCEPT ![w] = s]

(* An error ends the reconcile, which is tried again. None of them is      *)
(* terminal: they are plain errors.                                        *)
Fails(w) == /\ Go(w, "idle")
            /\ asked' = [asked EXCEPT ![w] = None]
            /\ pair' = [pair EXCEPT ![w] = NoPair]

Source(w) == asked[w].src
-----------------------------------------------------------------------------
(* The secret that the source names is not there, or has no credentials.   *)
CredentialsFail(w) == Source(w).secret /\ Fault /\ Fails(w)

(* The credentials, if the source has some; then the cache.                *)
ResolveCachedArtifacts(w) ==
    /\ step[w] = "resolve"
    /\ LET hit == cache[BootArtifactsCacheKey(Source(w))]
       IN  \/ /\ hit # None
              /\ Go(w, "checkKernel") /\ pair' = [pair EXCEPT ![w] = hit]
              /\ UNCHANGED <<asked, faults>>
           \/ /\ hit = None
              /\ Go(w, "kernel") /\ UNCHANGED <<asked, pair, faults>>
           \/ CredentialsFail(w)
    /\ UNCHANGED <<boot, serving, cache, at, file, torn>>

(* A digest that is given has to match.                                    *)
Matches(want, got) == want \in {None, got}

(* A download that fails, or has another digest.                           *)
FetchFails(w, want, got) ==
    \/ ~Matches(want, got) /\ Fails(w) /\ UNCHANGED faults
    \/ Fault /\ Fails(w)

(* Kernel and initramfs are layers of one artifact.                        *)
OneManifest(src) == src.type = "OCI"

(* Mutant: the tag is looked up for each layer.                            *)
FetchKernelOnly(w) ==
    /\ step[w] = "kernel"
    /\ \/ /\ Matches(Source(w).kernel, serving)
          /\ Go(w, "initrd") /\ pair' = [pair EXCEPT ![w].kernel = serving]
          /\ UNCHANGED <<asked, faults>>
       \/ FetchFails(w, Source(w).kernel, serving)
    /\ UNCHANGED <<boot, serving, cache, at, file, torn>>

(* The kernel is downloaded. For OCI, the manifest names both layers.      *)
FetchKernel(w) ==
    /\ step[w] = "kernel"
    /\ \/ /\ Matches(Source(w).kernel, serving)
          /\ Go(w, "initrd")
          /\ pair' = [pair EXCEPT ![w] =
                         [kernel |-> serving,
                          initrd |-> IF OneManifest(Source(w)) THEN serving ELSE None]]
          /\ UNCHANGED <<asked, faults>>
       \/ FetchFails(w, Source(w).kernel, serving)
    /\ UNCHANGED <<boot, serving, cache, at, file, torn>>

(* Then the initramfs, and the pair is stored.                             *)
FetchInitramfs(w) ==
    LET got == IF pair[w].initrd # None THEN pair[w].initrd ELSE serving
        key == BootArtifactsCacheKey(Source(w))
        new == [pair[w] EXCEPT !.initrd = got]
    IN  /\ step[w] = "initrd"
        /\ \/ /\ Matches(Source(w).initrd, got)
              /\ Go(w, "checkKernel") /\ pair' = [pair EXCEPT ![w] = new]
              /\ cache' = [cache EXCEPT ![key] = new]
              /\ UNCHANGED <<asked, faults>>
           \/ FetchFails(w, Source(w).initrd, got) /\ UNCHANGED cache
        /\ UNCHANGED <<boot, serving, at, file, torn>>
-----------------------------------------------------------------------------
KernelPath(w) == <<asked[w].path, pair[w].kernel, "vmlinuz">>

(* Mutant: both files are in the directory of the kernel's digest.         *)
InitrdPathByKernel(w) == <<asked[w].path, pair[w].kernel, "initramfs.img">>

InitrdPath(w) == <<asked[w].path, pair[w].initrd, "initramfs.img">>

(* ensureRemoteArtifact: a file that exists is left as it is.              *)
Check(w, f, from, write, next) ==
    /\ step[w] = from
    /\ \/ /\ Go(w, IF file[at[w]][f] # Absent THEN next ELSE write)
          /\ UNCHANGED <<asked, pair, faults>>
       \/ Fault /\ Fails(w)
    /\ UNCHANGED <<boot, serving, cache, at, file, torn>>

(* WriteRemoteFile: the directory is made, and tee truncates the file ...  *)
Truncate(w, f, from, fill) ==
    /\ step[w] = from
    /\ \/ /\ file' = [file EXCEPT ![at[w]][f] = w]
          /\ Go(w, fill) /\ UNCHANGED <<asked, pair, faults>>
       \/ Fault /\ Fails(w) /\ UNCHANGED file
    /\ UNCHANGED <<boot, serving, cache, at, torn>>

(* ... and writes it. It is complete if nobody else truncated it since.    *)
Written(f, w, content) == IF f = w THEN content ELSE f

FillFile(w, f, content, from, next) ==
    /\ step[w] = from
    /\ \/ /\ file' = [file EXCEPT ![at[w]][f] = Written(@, w, content)]
          /\ Go(w, next) /\ UNCHANGED <<asked, pair, torn, faults>>
       \/ /\ Fault /\ Fails(w)
          /\ \/ /\ file' = [file EXCEPT ![at[w]][f] = Written(@, w, content)]
                /\ UNCHANGED torn                        \* chmod failed
             \/ /\ file' = [file EXCEPT ![at[w]][f] = Written(@, w, Cut)]
                /\ torn' = TRUE
    /\ UNCHANGED <<boot, serving, cache, at>>

CheckKernel(w) == Check(w, KernelPath(w), "checkKernel", "writeKernel", "checkInitrd")
WriteKernel(w) == Truncate(w, KernelPath(w), "writeKernel", "fillKernel")
FillKernel(w)  == FillFile(w, KernelPath(w), pair[w].kernel, "fillKernel", "checkInitrd")

(* Mutant: the kernel's file is looked for instead of the initramfs.       *)
CheckInitrdByKernel(w) ==
    Check(w, KernelPath(w), "checkInitrd", "writeInitrd", "define")

CheckInitrd(w) == Check(w, InitrdPath(w), "checkInitrd", "writeInitrd", "define")
WriteInitrd(w) == Truncate(w, InitrdPath(w), "writeInitrd", "fillInitrd")
FillInitrd(w)  == FillFile(w, InitrdPath(w), pair[w].initrd, "fillInitrd", "define")

ArtifactStep(w) ==
    \/ ResolveCachedArtifacts(w) \/ FetchKernel(w) \/ FetchInitramfs(w)
    \/ CheckKernel(w) \/ WriteKernel(w) \/ FillKernel(w)
    \/ CheckInitrd(w) \/ WriteInitrd(w) \/ FillInitrd(w)
-----------------------------------------------------------------------------
(* Somebody publishes something else under the same name.                  *)
Republish ==
    /\ Fault
    /\ serving' \in Published \ {serving}
    /\ UNCHANGED <<boot, cache, at, step, asked, pair, file, torn>>

(* Somebody edits the cluster's spec.                                      *)
EditCluster ==
    /\ Fault
    /\ boot' \in (BootSpecs \cup {None}) \ {boot}
    /\ UNCHANGED <<serving, cache, at, step, asked, pair, file, torn>>

(* The manager restarts: the cache is gone, and a write ends half-way.     *)
CutOff(f) == IF f \in Machines THEN Cut ELSE f

Restart ==
    /\ Fault
    /\ cache' = [k \in Keys |-> None]
    /\ step' = [w \in Machines |-> "idle"]
    /\ asked' = [w \in Machines |-> None]
    /\ pair' = [w \in Machines |-> NoPair]
    /\ file' = [h \in Hosts |-> [f \in FileNames |-> CutOff(file[h][f])]]
    /\ torn' = (torn \/ \E h \in Hosts, f \in FileNames : file[h][f] \in Machines)
    /\ UNCHANGED <<boot, serving, at>>
=============================================================================
