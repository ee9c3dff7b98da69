------------------------------- MODULE FirstBoot -------------------------------
(***************************************************************************)
(* From the bootstrap data to a guest that runs with it: the ignition      *)
(* config is rendered and written to the host, kernel and initramfs are    *)
(* staged (BootArtifacts), the domain is defined (DomainXML) and started,  *)
(* and the guest reads what it was given. reconcileNormal has no exit for  *)
(* a machine that is ready: every reconcile goes through all of it.        *)
(*                                                                         *)
(* The machines are replicas of one template. Disks, base image and pools  *)
(* are MachineReconciler's.                                                *)
(***************************************************************************)
EXTENDS BootArtifacts, IgnitionConfig

CONSTANT Templates      \* what the machines may look like

Files == [path : MetadataPaths \cup {NetworkPath, "user-file"}, by : {"user"},
          form : {"overwrite", "filesystem"}]

ASSUME TemplateAssumption ==
    \A t \in Templates :
        /\ t.format \in {"ignition", "cloud-init"}
        /\ t.bus \in Buses /\ t.disks \in Seq(Buses)
        /\ t.addresses \in BOOLEAN
        /\ t.doc \in [version : 0..3, files : Seq(Files)]

(* What becomes of the bootstrap data of a template for each machine.      *)
Configs ==
    [t \in Templates |->
        [w \in Machines |-> Rendered(t.doc, w, t.addresses).files]]

(* No config is one of the marks for a file that is missing or cut off.    *)
ASSUME ConfigAssumption ==
    \A t \in Templates, w \in Machines : Configs[t][w] \notin {Absent, Cut}

(* The parameters of a domain XML.                                         *)
DomainXMLParams(t, kernel, initrd) ==
    [bus      |-> t.bus,
     disks    |-> t.disks,
     ignition |-> t.format = "ignition",
     iso      |-> t.format # "ignition",
     kernel   |-> kernel,
     initrd   |-> initrd]

ASSUME DomainAssumption ==
    \A t \in Templates, k, i \in FileNames \cup {None} :
        GenerateDomainXML(DomainXMLParams(t, k, i)) # None

VARIABLES
    template,   \* the template of the machines
    config,     \* the ignition file of each machine on its host
    dom,        \* the domain of each machine, or None
    running,    \* whether it runs
    ran,        \* kernel and initramfs files as they were at its last launch
    got         \* the ignition config that its guest has read

guestVars == <<template, config, dom, running, ran, got>>

vars == <<bootVars, guestVars>>

Ignition == template.format = "ignition"

(* What the config of a machine has to be.                                 *)
Config(w) == Configs[template][w]

Nothing == [kernel |-> None, initrd |-> None]

Init ==
    /\ BootInit
    /\ template \in Templates
    /\ config = [w \in Machines |-> Absent]
    /\ dom = [w \in Machines |-> None]
    /\ running = [w \in Machines |-> FALSE]
    /\ ran = [w \in Machines |-> Nothing]
    /\ got = [w \in Machines |-> Absent]
-----------------------------------------------------------------------------
AfterConfig(spec) == IF spec = None THEN "define" ELSE "resolve"

(* A reconcile reads the cluster.                                          *)
Reconcile(w) ==
    /\ step[w] = "idle"
    /\ asked' = [asked EXCEPT ![w] = boot]
    /\ Go(w, IF Ignition THEN "config" ELSE AfterConfig(boot))
    /\ UNCHANGED <<boot, serving, cache, at, pair, file, torn, faults, guestVars>>

(* reconcileBootstrapArtifacts: the config is written over the old one.    *)
WriteConfig(w) ==
    /\ step[w] = "config"
    /\ \/ /\ config' = [config EXCEPT ![w] = Cut]
          /\ Go(w, "fill") /\ UNCHANGED <<asked, pair, faults>>
       \/ Fault /\ Fails(w) /\ UNCHANGED config
    /\ UNCHANGED <<boot, serving, cache, at, file, torn>>
    /\ UNCHANGED <<template, dom, running, ran, got>>

(* Mutant: the error of the write is only logged.                          *)
FillConfigAnyway(w) ==
    /\ step[w] = "fill"
    /\ Go(w, AfterConfig(asked[w]))
    /\ \/ /\ config' = [config EXCEPT ![w] = Config(w)] /\ UNCHANGED faults
       \/ Fault /\ UNCHANGED config
    /\ UNCHANGED <<boot, serving, cache, at, asked, pair, file, torn>>
    /\ UNCHANGED <<template, dom, running, ran, got>>

FillConfig(w) ==
    /\ step[w] = "fill"
    /\ \/ /\ config' = [config EXCEPT ![w] = Config(w)]
          /\ Go(w, AfterConfig(asked[w])) /\ UNCHANGED <<asked, pair, faults>>
       \/ /\ Fault /\ Fails(w)
          /\ \/ UNCHANGED config
             \/ config' = [config EXCEPT ![w] = Config(w)]
    /\ UNCHANGED <<boot, serving, cache, at, file, torn>>
    /\ UNCHANGED <<template, dom, running, ran, got>>

BootArtifactStep(w) == ArtifactStep(w) /\ UNCHANGED guestVars
-----------------------------------------------------------------------------
(* Mutant: kernel and initramfs are swapped.                               *)
XMLParamsSwapped(w) ==
    IF asked[w] = None THEN DomainXMLParams(template, None, None)
                       ELSE DomainXMLParams(template, InitrdPath(w), KernelPath(w))

(* The parameters of the domain, after the artifacts are staged.           *)
XMLParams(w) ==
    IF asked[w] = None THEN DomainXMLParams(template, None, None)
                       ELSE DomainXMLParams(template, KernelPath(w), InitrdPath(w))

(* Mutant: a domain that exists needs nothing more.                        *)
DefineDomainOnce(w) ==
    LET xml == GenerateDomainXML(XMLParams(w))
    IN  /\ step[w] = "define"
        /\ \/ /\ dom[w] # None
              /\ Fails(w) /\ UNCHANGED <<dom, faults>>
           \/ /\ dom[w] = None /\ ~Clash(xml)
              /\ dom' = [dom EXCEPT ![w] = xml]
              /\ Go(w, "start") /\ UNCHANGED <<asked, pair, faults>>
           \/ /\ dom[w] = None /\ Clash(xml)
              /\ Fails(w) /\ UNCHANGED <<dom, faults>>
           \/ Fault /\ Fails(w) /\ UNCHANGED dom
        /\ UNCHANGED <<boot, serving, cache, at, file, torn>>
        /\ UNCHANGED <<template, config, running, ran, got>>

(* A domain that exists is not defined again, whatever the cluster says    *)
(* by now. libvirt refuses two disks of one name, which is retried.        *)
DefineDomain(w) ==
    LET xml == GenerateDomainXML(XMLParams(w))
    IN  /\ step[w] = "define"
        /\ \/ /\ dom[w] # None
              /\ Go(w, "start") /\ UNCHANGED <<dom, asked, pair, faults>>
           \/ /\ dom[w] = None /\ ~Clash(xml)
              /\ dom' = [dom EXCEPT ![w] = xml]
              /\ Go(w, "start") /\ UNCHANGED <<asked, pair, faults>>
           \/ /\ dom[w] = None /\ Clash(xml)
              /\ Fails(w) /\ UNCHANGED <<dom, faults>>
           \/ Fault /\ Fails(w) /\ UNCHANGED dom
        /\ UNCHANGED <<boot, serving, cache, at, file, torn>>
        /\ UNCHANGED <<template, config, running, ran, got>>

Load(w, f) == IF f = None THEN None ELSE file[at[w]][f]

(* qemu loads kernel, initramfs and an fw_cfg entry when it starts. It     *)
(* does not start when one of the files is missing.                        *)
Launch(w) ==
    /\ running' = [running EXCEPT ![w] = TRUE]
    /\ ran' = [ran EXCEPT ![w] = [kernel |-> Load(w, dom[w].os.kernel),
                                  initrd |-> Load(w, dom[w].os.initrd)]]
    /\ got' = [got EXCEPT ![w] = IF dom[w].fwcfg THEN config[w] ELSE @]

StartDomain(w) ==
    /\ step[w] = "start"
    /\ \/ /\ running[w] /\ UNCHANGED <<running, ran, got, faults>>
       \/ /\ ~running[w] /\ Launch(w) /\ UNCHANGED faults
       \/ Fault /\ UNCHANGED <<running, ran, got>>
    /\ Fails(w)
    /\ UNCHANGED <<boot, serving, cache, at, file, torn>>
    /\ UNCHANGED <<template, config, dom>>

Worker(w) ==
    \/ Reconcile(w) \/ WriteConfig(w) \/ FillConfig(w) \/ BootArtifactStep(w)
    \/ DefineDomain(w) \/ StartDomain(w)
-----------------------------------------------------------------------------
(* The guest of a direct boot reads its ignition disk after it started.    *)
GuestReads(w) ==
    /\ running[w] /\ got[w] = Absent
    /\ Uses(dom[w], "ignition") # {}
    /\ got' = [got EXCEPT ![w] = config[w]]
    /\ UNCHANGED <<bootVars, template, config, dom, running, ran>>

(* The guest is powered off.                                               *)
PowerOff(w) ==
    /\ Fault
    /\ running[w]
    /\ running' = [running EXCEPT ![w] = FALSE]
    /\ UNCHANGED <<boot, serving, cache, at, step, asked, pair, file, torn>>
    /\ UNCHANGED <<template, config, dom, ran, got>>

Environment == (Republish \/ EditCluster \/ Restart) /\ UNCHANGED guestVars

Next == \/ \E w \in Machines : Worker(w) \/ GuestReads(w) \/ PowerOff(w)
        \/ Environment

Spec == Init /\ [][Next]_vars

(* A reconcile ends, and another one follows: after an error the request   *)
(* is queued again, and after a success the cache resyncs.                 *)
FairSpec == Spec /\ \A w \in Machines : WF_vars(Worker(w))
-----------------------------------------------------------------------------
Paths(name) == HostPaths \X (Published \cup {None}) \X {name}

(* Every variable stays in its type.                                       *)
TypeOK ==
    /\ BootTypeOK
    /\ template \in Templates
    /\ \A w \in Machines :
           /\ {config[w], got[w]} \subseteq {Absent, Cut, Config(w)}
           /\ dom[w] = None \/
              (/\ dom[w].fwcfg \in BOOLEAN
               /\ dom[w].os.kernel \in Paths("vmlinuz") \cup {None}
               /\ dom[w].os.initrd \in Paths("initramfs.img") \cup {None})
    /\ running \in [Machines -> BOOLEAN]
    /\ ran \in [Machines -> [kernel : Contents \cup {None},
                             initrd : Contents \cup {None}]]

Resolved(w) == /\ asked[w] # None
               /\ step[w] \in {"checkKernel", "writeKernel", "fillKernel",
                               "checkInitrd", "writeInitrd", "fillInitrd",
                               "define", "start"}

(* The artifacts that a reconcile goes on with match the digests of the    *)
(* source it read, whether it fetched them or another reconcile did, for   *)
(* a spec that has been edited since: resolveCachedArtifacts shares by the *)
(* key alone.                                                              *)
PinsHonoured ==
    \A w \in Machines : Resolved(w) =>
        /\ Matches(Source(w).kernel, pair[w].kernel)
        /\ Matches(Source(w).initrd, pair[w].initrd)

(* Kernel and initramfs are of one publication when they come from an OCI  *)
(* artifact, whatever is published in between: one manifest names both.    *)
(* HTTPS and S3 sources are fetched one by one and may be mixed, but only  *)
(* if something was published between the two.                             *)
PairUnmixed ==
    \A w \in Machines : Resolved(w) /\ pair[w].kernel # pair[w].initrd =>
        Source(w).type # "OCI" /\ faults > 0

(* A file that is complete has the content that its directory names, so a  *)
(* file that exists can be reused by any machine of the host.              *)
ContentAddressed ==
    \A h \in Hosts, f \in FileNames : file[h][f] \in Published => file[h][f] = f[2]

(* A guest is launched with the files its domain names. One of them may be *)
(* incomplete for two reasons only: a write that was cut off, since        *)
(* ensureRemoteArtifact takes any file that exists for the artifact, or    *)
(* another machine of the host that is still writing it.                   *)
LoadedWell(w, c, f) ==
    \/ c = f[2]
    \/ c = Cut /\ torn
    \/ \E v \in Machines \ {w} : c = v /\ at[v] = at[w]

LaunchedWhole ==
    \A w \in Machines : running[w] /\ dom[w].os.kernel # None =>
        /\ LoadedWell(w, ran[w].kernel, dom[w].os.kernel)
        /\ LoadedWell(w, ran[w].initrd, dom[w].os.initrd)

(* The config that reaches a guest through fw_cfg is always complete: host *)
(* name and provider ID of this machine once, the static network if it has *)
(* addresses, and all else of the bootstrap data. Through the disk of a    *)
(* direct boot it may also be half of a file, since each later reconcile   *)
(* truncates the file that the disk is.                                    *)
ConfigComplete ==
    \A w \in Machines : got[w] # Absent =>
        /\ got[w] = Cut => ~dom[w].fwcfg
        /\ got[w] # Cut => IsComplete(got[w], template.doc, w, template.addresses)

(* The domain of an ignition machine has its config in exactly one place,  *)
(* and that of a cloud-init machine only the cdrom; a kernel never comes   *)
(* without its initramfs.                                                  *)
OneDelivery ==
    \A w \in Machines : dom[w] # None =>
        LET disks == Uses(dom[w], "ignition")
        IN  /\ (dom[w].fwcfg \/ disks # {}) <=> Ignition
            /\ ~(dom[w].fwcfg /\ disks # {})
            /\ (Uses(dom[w], "cdrom") # {}) <=> ~Ignition
            /\ (dom[w].os.kernel = None) <=> (dom[w].os.initrd = None)

(* libvirt finds two disks of one name only for a cloud-init machine whose *)
(* root disk is on a sata or scsi bus: the cdrom is always sda.            *)
RefusedOnlyForCdrom ==
    \A w \in Machines : step[w] = "define" /\ Clash(GenerateDomainXML(XMLParams(w))) =>
        ~Ignition /\ template.bus \in {"sata", "scsi"}

Fetchable == \/ boot = None
             \/ Matches(boot.src.kernel, serving) /\ Matches(boot.src.initrd, serving)

Definable == Ignition \/ template.bus \notin {"sata", "scsi"}

(* Every machine comes to run and is started again when it stops, if the   *)
(* source goes on to have what the cluster asks for.                       *)
EventuallyRunning ==
    <>[]Fetchable /\ Definable => \A w \in Machines : <>[]running[w]
=============================================================================
