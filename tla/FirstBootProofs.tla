---------------------------- MODULE FirstBootProofs ----------------------------
(***************************************************************************)
(* FirstBoot for any machines, hosts, sources and templates, and any       *)
(* number of failures.                                                     *)
(***************************************************************************)
EXTENDS BootArtifactsProofs, IgnitionProofs

(***************************************************************************)
(* The disks of a domain.                                                  *)
(***************************************************************************)
DiskUses == {"root", "cdrom", "ignition", "data"}

AllDisks == [use : DiskUses, dev : {"sd", "vd"} \X Nat]

LEMMA DiskType ==
    ASSUME NEW u \in DiskUses, NEW i \in Nat, NEW b
    PROVE  Disk(u, VirtioDevName(i, b)) \in AllDisks
BY DEF Disk, VirtioDevName, AllDisks

(* Where the disks are: the root disk, the cdrom if there is an ISO, the   *)
(* ignition disk of a direct boot, then the additional disks.              *)
Cdroms(p) == IF p.iso THEN 1 ELSE 0
Ignitions(p) == IF p.kernel # None /\ p.ignition THEN 1 ELSE 0

LEMMA DeviceList ==
    ASSUME NEW p, NEW S, p.disks \in Seq(S), p.iso \in BOOLEAN, p.ignition \in BOOLEAN
    PROVE  LET d == BuildDevices(p)
               c == Cdroms(p)
               g == Ignitions(p)
               n == Len(p.disks)
           IN  /\ d \in Seq(AllDisks) /\ n \in Nat
               /\ Len(d) = 1 + c + g + n
               /\ d[1] = Disk("root", VirtioDevName(0, p.bus))
               /\ c = 1 => d[2] = Disk("cdrom", <<"sd", 0>>)
               /\ g = 1 => d[1 + c + g] = Disk("ignition", VirtioDevName(1, "virtio"))
               /\ \A i \in 1..n :
                      d[1 + c + g + i] = Disk("data", VirtioDevName(g + i, p.disks[i]))
<1> DEFINE c == Cdroms(p)
           g == Ignitions(p)
           n == Len(p.disks)
           r == <<Disk("root", VirtioDevName(0, p.bus))>>
           cd == IF p.iso THEN <<Disk("cdrom", <<"sd", 0>>)>> ELSE << >>
           ig == IF p.kernel # None /\ p.ignition
                 THEN <<Disk("ignition", VirtioDevName(1, "virtio"))>> ELSE << >>
           da == [i \in DOMAIN p.disks |->
                    Disk("data", VirtioDevName(Len(ig) + i, p.disks[i]))]
<1>1. n \in Nat /\ DOMAIN p.disks = 1..n
  OBVIOUS
<1>2. r \in Seq(AllDisks) /\ Len(r) = 1 /\ r[1] = Disk("root", VirtioDevName(0, p.bus))
  <2>1. Disk("root", VirtioDevName(0, p.bus)) \in AllDisks
    BY DiskType DEF DiskUses
  <2> QED
    BY <2>1
<1>3. cd \in Seq(AllDisks) /\ Len(cd) = c /\ (c = 1 => cd[1] = Disk("cdrom", <<"sd", 0>>))
  <2>1. Disk("cdrom", <<"sd", 0>>) \in AllDisks
    BY DEF Disk, AllDisks, DiskUses
  <2> QED
    BY <2>1 DEF Cdroms
<1>4. /\ ig \in Seq(AllDisks) /\ Len(ig) = g
      /\ g = 1 => ig[1] = Disk("ignition", VirtioDevName(1, "virtio"))
  <2>1. Disk("ignition", VirtioDevName(1, "virtio")) \in AllDisks
    BY DiskType DEF DiskUses
  <2> QED
    BY <2>1 DEF Ignitions
<1>5. c \in 0..1 /\ g \in 0..1
  BY DEF Cdroms, Ignitions
<1> HIDE DEF c, g, n, r, cd, ig
<1>6. /\ da \in Seq(AllDisks) /\ Len(da) = n
      /\ \A i \in 1..n : da[i] = Disk("data", VirtioDevName(g + i, p.disks[i]))
  <2>1. \A i \in 1..n : Disk("data", VirtioDevName(Len(ig) + i, p.disks[i])) \in AllDisks
    BY <1>1, <1>4, <1>5, DiskType DEF DiskUses
  <2>2. da \in [1..n -> AllDisks]
    BY <1>1, <2>1
  <2>3. da \in Seq(AllDisks) /\ Len(da) = n
    BY <1>1, <2>2
  <2> QED
    BY <1>1, <1>4, <2>3
<1> HIDE DEF da
<1>7. BuildDevices(p) = ((r \o cd) \o ig) \o da
  BY DEF BuildDevices, r, cd, ig, da
<1> DEFINE h == r \o cd
<1>8. /\ h \in Seq(AllDisks) /\ Len(h) = 1 + c
      /\ h[1] = r[1] /\ (c = 1 => h[2] = cd[1])
  <2>1. /\ h \in Seq(AllDisks) /\ Len(h) = Len(r) + Len(cd)
        /\ \A i \in 1..(Len(r) + Len(cd)) :
               h[i] = IF i <= Len(r) THEN r[i] ELSE cd[i - Len(r)]
    BY <1>2, <1>3, ConcatProperties, Zenon
  <2> HIDE DEF h
  <2> QED
    BY <2>1, <1>2, <1>3, <1>5
<1> HIDE DEF h
<1>9. LET s == h \o ig
      IN  /\ s \in Seq(AllDisks) /\ Len(s) = 1 + c + g
          /\ s[1] = r[1] /\ (c = 1 => s[2] = cd[1])
          /\ g = 1 => s[1 + c + g] = ig[1]
  <2> DEFINE s == h \o ig
  <2>1. /\ s \in Seq(AllDisks) /\ Len(s) = Len(h) + Len(ig)
        /\ \A i \in 1..(Len(h) + Len(ig)) :
               s[i] = IF i <= Len(h) THEN h[i] ELSE ig[i - Len(h)]
    BY <1>4, <1>8, ConcatProperties, Zenon
  <2> HIDE DEF s
  <2> QED
    BY <2>1, <1>4, <1>5, <1>8
<1> DEFINE s == h \o ig
<1> HIDE DEF s
<1>10. /\ s \in Seq(AllDisks) /\ Len(s) = 1 + c + g
       /\ s[1] = r[1] /\ (c = 1 => s[2] = cd[1])
       /\ g = 1 => s[1 + c + g] = ig[1]
  BY <1>9, Zenon DEF s
<1>11. /\ s \o da \in Seq(AllDisks) /\ Len(s \o da) = 1 + c + g + n
       /\ \A i \in 1..(1 + c + g) : (s \o da)[i] = s[i]
       /\ \A i \in 1..n : (s \o da)[1 + c + g + i] = da[i]
  <2>1. /\ s \o da \in Seq(AllDisks) /\ Len(s \o da) = Len(s) + Len(da)
        /\ \A i \in 1..(Len(s) + Len(da)) :
               (s \o da)[i] = IF i <= Len(s) THEN s[i] ELSE da[i - Len(s)]
    BY <1>6, <1>10, ConcatProperties, Zenon
  <2>2. Len(s) + Len(da) = 1 + c + g + n /\ 1 + c + g \in Nat
    BY <1>1, <1>5, <1>6, <1>10
  <2>3. ASSUME NEW i \in 1..(1 + c + g) PROVE (s \o da)[i] = s[i]
    BY <1>1, <1>5, <1>10, <2>1, <2>2
  <2>4. ASSUME NEW i \in 1..n PROVE (s \o da)[1 + c + g + i] = da[i]
    <3>1. 1 + c + g + i \in 1..(1 + c + g + n) /\ ~(1 + c + g + i <= 1 + c + g)
      BY <1>1, <1>5
    <3>2. (1 + c + g + i) - (1 + c + g) = i
      BY <1>1, <1>5
    <3> QED
      BY <1>10, <2>1, <2>2, <3>1, <3>2
  <2> QED
    BY <2>1, <2>2, <2>3, <2>4, Zenon
<1>12. BuildDevices(p) = s \o da
  BY <1>7 DEF s, h
<1>13. 1 \in 1..(1 + c + g) /\ (c = 1 => 2 \in 1..(1 + c + g)) /\ 1 + c + g \in 1..(1 + c + g)
  BY <1>5
<1>14. /\ (s \o da)[1] = Disk("root", VirtioDevName(0, p.bus))
       /\ c = 1 => (s \o da)[2] = Disk("cdrom", <<"sd", 0>>)
       /\ g = 1 => (s \o da)[1 + c + g] = Disk("ignition", VirtioDevName(1, "virtio"))
       /\ \A i \in 1..n : (s \o da)[1 + c + g + i]
                           = Disk("data", VirtioDevName(g + i, p.disks[i]))
  BY <1>2, <1>3, <1>4, <1>6, <1>10, <1>11, <1>13, ZenonT(30)
<1> QED
  BY <1>1, <1>11, <1>12, <1>14, Zenon DEF c, g, n

(* Number and use of each disk, by its place.                              *)
LEMMA DevicePlaces ==
    ASSUME NEW p, NEW S, p.disks \in Seq(S), p.iso \in BOOLEAN, p.ignition \in BOOLEAN,
           NEW i \in DOMAIN BuildDevices(p)
    PROVE  LET d == BuildDevices(p)[i]
               c == Cdroms(p)
               g == Ignitions(p)
           IN  \/ i = 1 /\ d = Disk("root", VirtioDevName(0, p.bus))
               \/ i = 2 /\ c = 1 /\ d = Disk("cdrom", <<"sd", 0>>)
               \/ i = 1 + c + g /\ g = 1 /\ d = Disk("ignition", VirtioDevName(1, "virtio"))
               \/ \E k \in 1..Len(p.disks) :
                      i = 1 + c + g + k /\ d = Disk("data", VirtioDevName(g + k, p.disks[k]))
<1> DEFINE c == Cdroms(p)
           g == Ignitions(p)
           n == Len(p.disks)
           d == BuildDevices(p)
<1>1. c \in 0..1 /\ g \in 0..1
  BY DEF Cdroms, Ignitions
<1>2. /\ d \in Seq(AllDisks) /\ n \in Nat
      /\ Len(d) = 1 + c + g + n
      /\ d[1] = Disk("root", VirtioDevName(0, p.bus))
      /\ c = 1 => d[2] = Disk("cdrom", <<"sd", 0>>)
      /\ g = 1 => d[1 + c + g] = Disk("ignition", VirtioDevName(1, "virtio"))
      /\ \A k \in 1..n :
             d[1 + c + g + k] = Disk("data", VirtioDevName(g + k, p.disks[k]))
  BY DeviceList
<1> HIDE DEF c, g, n, d
<1>3. i \in 1..(1 + c + g + n)
  BY <1>2 DEF d
<1>4. CASE i <= 1 + c + g
  BY <1>1, <1>2, <1>3, <1>4 DEF c, g, n, d
<1>5. CASE i > 1 + c + g
  <2> DEFINE k == i - (1 + c + g)
  <2>1. k \in 1..n /\ i = 1 + c + g + k
    BY <1>1, <1>2, <1>3, <1>5
  <2> HIDE DEF k
  <2>2. d[i] = Disk("data", VirtioDevName(g + k, p.disks[k]))
    BY <1>2, <2>1
  <2> QED
    BY <2>1, <2>2 DEF c, g, n, d
<1> QED
  BY <1>1, <1>2, <1>3, <1>4, <1>5

(* The domain has an ignition disk exactly for an ignition machine that    *)
(* boots a kernel, and a cdrom exactly for one with an ISO.                *)
LEMMA DisksByUse ==
    ASSUME NEW p, NEW S, p.disks \in Seq(S), p.iso \in BOOLEAN, p.ignition \in BOOLEAN
    PROVE  LET xml == GenerateDomainXML(p)
           IN  /\ Uses(xml, "ignition") # {} <=> (p.kernel # None /\ p.ignition)
               /\ Uses(xml, "cdrom") # {} <=> p.iso
<1> DEFINE d == BuildDevices(p)
           c == Cdroms(p)
           g == Ignitions(p)
<1>1. GenerateDomainXML(p).disks = d
  BY DEF GenerateDomainXML
<1>2. c \in 0..1 /\ g \in 0..1 /\ (c = 1 <=> p.iso) /\ (g = 1 <=> (p.kernel # None /\ p.ignition))
  BY DEF Cdroms, Ignitions
<1>3. /\ Len(d) \in Nat /\ DOMAIN d = 1..Len(d) /\ Len(d) >= 1 + c + g
      /\ c = 1 => d[2] = Disk("cdrom", <<"sd", 0>>)
      /\ g = 1 => d[1 + c + g] = Disk("ignition", VirtioDevName(1, "virtio"))
  <2>1. /\ d \in Seq(AllDisks) /\ Len(p.disks) \in Nat
        /\ Len(d) = 1 + c + g + Len(p.disks)
        /\ c = 1 => d[2] = Disk("cdrom", <<"sd", 0>>)
        /\ g = 1 => d[1 + c + g] = Disk("ignition", VirtioDevName(1, "virtio"))
    BY DeviceList
  <2> HIDE DEF d, c, g
  <2>2. Len(d) \in Nat /\ DOMAIN d = 1..Len(d)
    BY <2>1
  <2>3. Len(d) >= 1 + c + g
    <3>1. c \in 0..1 /\ g \in 0..1
      BY <1>2
    <3> DEFINE n == Len(p.disks)
    <3>2. n \in Nat /\ Len(d) = 1 + c + g + n
      BY <2>1
    <3> HIDE DEF n
    <3> QED
      BY <3>1, <3>2
  <2> QED
    BY <2>1, <2>2, <2>3
<1>4. \A i \in DOMAIN d : /\ d[i].use = "cdrom" => c = 1
                          /\ d[i].use = "ignition" => g = 1
  BY DevicePlaces DEF Disk
<1> HIDE DEF d, c, g
<1>5. c = 1 => 2 \in DOMAIN d /\ d[2].use = "cdrom"
  BY <1>2, <1>3 DEF Disk
<1>6. g = 1 => 1 + c + g \in DOMAIN d /\ d[1 + c + g].use = "ignition"
  BY <1>2, <1>3 DEF Disk
<1> QED
  BY <1>1, <1>2, <1>4, <1>5, <1>6 DEF Uses

(* Two disks of one name: the root disk and the cdrom.                     *)
LEMMA ClashIsRootAndCdrom ==
    ASSUME NEW p, NEW S, p.disks \in Seq(S), p.iso \in BOOLEAN, p.ignition \in BOOLEAN,
           Clash(GenerateDomainXML(p))
    PROVE  p.iso /\ p.bus \in {"sata", "scsi"}
<1> DEFINE d == BuildDevices(p)
           c == Cdroms(p)
           g == Ignitions(p)
           Num(i) == d[i].dev[2]
<1>1. PICK i, j \in DOMAIN d : i # j /\ d[i].dev = d[j].dev
  BY DEF Clash, GenerateDomainXML
<1>2. c \in 0..1 /\ g \in 0..1 /\ (c = 1 => p.iso)
  BY DEF Cdroms, Ignitions
<1>3. Len(p.disks) \in Nat
  OBVIOUS
<1>4. ASSUME NEW k \in DOMAIN d
      PROVE  \/ k = 1 /\ Num(k) = 0 /\ d[k].dev = VirtioDevName(0, p.bus)
             \/ k = 2 /\ Num(k) = 0 /\ c = 1 /\ d[k].dev[1] = "sd"
             \/ Num(k) = 1 /\ g = 1 /\ k = 2 + c
             \/ Num(k) > g /\ Num(k) \in Nat /\ k = 1 + c + Num(k)
  <2>1. CASE k = 1 /\ d[k] = Disk("root", VirtioDevName(0, p.bus))
    BY <2>1 DEF Disk, VirtioDevName
  <2>2. CASE k = 2 /\ c = 1 /\ d[k] = Disk("cdrom", <<"sd", 0>>)
    BY <2>2 DEF Disk
  <2>3. CASE k = 1 + c + g /\ g = 1 /\ d[k] = Disk("ignition", VirtioDevName(1, "virtio"))
    <3>1. Num(k) = 1
      BY <2>3 DEF Disk, VirtioDevName
    <3> HIDE DEF Num, c, g
    <3> QED
      BY <2>3, <3>1, <1>2
  <2>4. ASSUME NEW l \in 1..Len(p.disks), k = 1 + c + g + l,
               d[k] = Disk("data", VirtioDevName(g + l, p.disks[l]))
        PROVE  Num(k) > g /\ Num(k) \in Nat /\ k = 1 + c + Num(k)
    <3>1. Num(k) = g + l
      BY <2>4 DEF Disk, VirtioDevName
    <3> HIDE DEF Num, c, g
    <3> QED
      BY <2>4, <3>1, <1>2, <1>3
  <2>5. \/ k = 1 /\ d[k] = Disk("root", VirtioDevName(0, p.bus))
        \/ k = 2 /\ c = 1 /\ d[k] = Disk("cdrom", <<"sd", 0>>)
        \/ k = 1 + c + g /\ g = 1 /\ d[k] = Disk("ignition", VirtioDevName(1, "virtio"))
        \/ \E l \in 1..Len(p.disks) :
               k = 1 + c + g + l /\ d[k] = Disk("data", VirtioDevName(g + l, p.disks[l]))
    BY DevicePlaces
  <2> HIDE DEF d, Num, c, g
  <2> QED
    BY <2>1, <2>2, <2>3, <2>4, <2>5
<1>5. Num(i) = Num(j)
  BY <1>1
<1> HIDE DEF d, c, g, Num
<1>6. \/ i = 1 /\ j = 2 /\ c = 1 /\ d[i].dev = VirtioDevName(0, p.bus) /\ d[j].dev[1] = "sd"
      \/ i = 2 /\ j = 1 /\ c = 1 /\ d[j].dev = VirtioDevName(0, p.bus) /\ d[i].dev[1] = "sd"
  BY <1>1, <1>2, <1>4, <1>5
<1>7. VirtioDevName(0, p.bus)[1] = "sd"
  BY <1>1, <1>6
<1> QED
  BY <1>2, <1>6, <1>7 DEF VirtioDevName
-----------------------------------------------------------------------------
(***************************************************************************)
(* Domains and guests.                                                     *)
(***************************************************************************)
(* A domain with a kernel has both files, which exist; its config is in    *)
(* one place; and its guest was launched with what the files were.         *)
Delivered(w, d) ==
    LET direct == d.os.kernel # None
    IN  /\ d.fwcfg = (Ignition /\ ~direct)
        /\ Uses(d, "ignition") # {} <=> (Ignition /\ direct)
        /\ Uses(d, "cdrom") # {} <=> ~Ignition

Staged(w, d) ==
    \/ d.os.kernel = None /\ d.os.initrd = None
    \/ /\ d.os.kernel \in FileNames /\ d.os.initrd \in FileNames
       /\ d.os.kernel[3] = "vmlinuz" /\ d.os.initrd[3] = "initramfs.img"
       /\ file[at[w]][d.os.kernel] # Absent
       /\ file[at[w]][d.os.initrd] # Absent

DomOK(w) ==
    /\ step[w] = "start" \/ running[w] \/ got[w] # Absent => dom[w] # None
    /\ dom[w] # None => Delivered(w, dom[w]) /\ Staged(w, dom[w])
    /\ running[w] /\ dom[w].os.kernel # None =>
          /\ LoadedWell(w, ran[w].kernel, dom[w].os.kernel)
          /\ LoadedWell(w, ran[w].initrd, dom[w].os.initrd)

DomInv == \A w \in Machines : DomOK(w)

GuestTypes ==
    /\ template \in Templates
    /\ running \in [Machines -> BOOLEAN]
    /\ ran \in [Machines -> [kernel : Contents \cup {None}, initrd : Contents \cup {None}]]
    /\ dom = [w \in Machines |-> dom[w]]
    /\ config = [w \in Machines |-> config[w]]
    /\ got = [w \in Machines |-> got[w]]

(* The file of an ignition machine is complete from the end of the write   *)
(* to the next reconcile.                                                  *)
Late == Staging \cup {"define", "start"}

ConfigOK(w) ==
    /\ config[w] \in {Absent, Cut, Config(w)}
    /\ Ignition /\ step[w] \in Late => config[w] = Config(w)
    /\ got[w] \in {Absent, Cut, Config(w)}
    /\ dom[w] # None /\ dom[w].fwcfg /\ got[w] # Absent => got[w] = Config(w)

ConfigInv == \A w \in Machines : ConfigOK(w)

(* Files never go away, and the history of cut writes is kept.             *)
LEMMA FilesStay ==
    ASSUME BootTypeOK, [Next]_vars
    PROVE  /\ \A h \in Hosts, f \in FileNames : file[h][f] # Absent => file'[h][f] # Absent
           /\ torn => torn'
           /\ UNCHANGED <<at, template>>
<1> DEFINE Stay == \A h \in Hosts, f \in FileNames :
                       file[h][f] # Absent => file'[h][f] # Absent
<1>1. ASSUME NEW w \in Machines, NEW f, NEW c, c # Absent,
             file' = [file EXCEPT ![at[w]][f] = c]
      PROVE  Stay
  BY <1>1 DEF BootTypeOK
<1>2. ASSUME NEW w \in Machines, NEW f, NEW c, c # Absent,
             file' = [file EXCEPT ![at[w]][f] = Written(@, w, c)]
      PROVE  Stay
  BY <1>2 DEF BootTypeOK, Written
<1>3. /\ \A w \in Machines : w # Absent /\ pair[w].kernel # Absent /\ pair[w].initrd # Absent
      /\ Cut # Absent
  BY BootAssumption DEF BootTypeOK, Pairs
<1>4. ASSUME NEW w \in Machines, NEW f, NEW from, NEW next, Truncate(w, f, from, next)
      PROVE  Stay /\ (torn => torn')
  <2>1. UNCHANGED torn /\ (UNCHANGED file \/ file' = [file EXCEPT ![at[w]][f] = w])
    BY <1>4 DEF Truncate
  <2>2. Stay
    BY <1>1, <1>3, <2>1, Zenon
  <2> HIDE DEF Stay
  <2> QED
    BY <2>1, <2>2, Zenon
<1>5. ASSUME NEW w \in Machines, NEW f, NEW c, c # Absent, NEW from, NEW next,
             FillFile(w, f, c, from, next)
      PROVE  Stay /\ (torn => torn')
  <2>1. (torn' = TRUE \/ UNCHANGED torn) /\
        \E k \in {c, Cut} : file' = [file EXCEPT ![at[w]][f] = Written(@, w, k)]
    BY <1>5 DEF FillFile
  <2>2. Stay
    BY <1>2, <1>3, <1>5, <2>1, Zenon
  <2> HIDE DEF Stay
  <2>3. torn => torn'
    BY <2>1, Zenon
  <2> QED
    BY <2>2, <2>3, Zenon
<1>6. ASSUME NEW w \in Machines,
             WriteKernel(w) \/ WriteInitrd(w) \/ FillKernel(w) \/ FillInitrd(w)
      PROVE  Stay /\ (torn => torn')
  <2> HIDE DEF Stay
  <2> QED
    BY <1>3, <1>4, <1>5, <1>6, Zenon DEF WriteKernel, WriteInitrd, FillKernel, FillInitrd
<1>7. ASSUME Restart PROVE Stay /\ (torn => torn')
  <2>1. \A h \in Hosts, f \in FileNames : file'[h][f] = CutOff(file[h][f])
    BY <1>7 DEF Restart
  <2>2. Stay
    BY <1>3, <2>1 DEF CutOff
  <2>3. torn => torn'
    BY <1>7, Zenon DEF Restart
  <2> HIDE DEF Stay
  <2> QED
    BY <2>2, <2>3, Zenon
<1>8. ASSUME UNCHANGED <<file, torn>> PROVE Stay /\ (torn => torn')
  <2>1. file' = file /\ torn' = torn
    BY <1>8
  <2>2. Stay
    BY <2>1
  <2> HIDE DEF Stay
  <2> QED
    BY <2>1, <2>2, Zenon
<1>9. \/ UNCHANGED <<file, torn>> \/ Restart
      \/ \E w \in Machines : \/ WriteKernel(w) \/ WriteInitrd(w)
                             \/ FillKernel(w) \/ FillInitrd(w)
  BY Zenon DEF Next, vars, bootVars, Worker, BootArtifactStep, ArtifactStep, Environment,
         Reconcile, WriteConfig, FillConfig, ResolveCachedArtifacts, CredentialsFail,
         FetchKernel, FetchFails, OneManifest,
         FetchInitramfs, CheckKernel, CheckInitrd, Check, DefineDomain, StartDomain,
         GuestReads, PowerOff, Republish, EditCluster
<1>10. UNCHANGED <<at, template>>
  BY ZenonT(30) DEF Next, vars, bootVars, guestVars, Worker, BootArtifactStep, ArtifactStep,
         Environment, Reconcile, WriteConfig, FillConfig, ResolveCachedArtifacts, CredentialsFail,
         FetchKernel, FetchFails, OneManifest, FetchInitramfs, CheckKernel, CheckInitrd,
         Check, WriteKernel,
         WriteInitrd, Truncate, FillKernel, FillInitrd, FillFile, DefineDomain,
         StartDomain, GuestReads, PowerOff, Republish, EditCluster, Restart
<1> HIDE DEF Stay
<1>11. Stay /\ (torn => torn')
  BY <1>6, <1>7, <1>8, <1>9, Zenon
<1> QED
  BY <1>10, <1>11, Zenon DEF Stay

(* The domain that DefineDomain makes.                                     *)
LEMMA NewDomain ==
    ASSUME BootTypeOK, PairInv, FileInv, GuestTypes, NEW w \in Machines, step[w] = "define"
    PROVE  LET d == GenerateDomainXML(XMLParams(w))
           IN  Delivered(w, d) /\ Staged(w, d) /\ d # None
<1> DEFINE p == XMLParams(w)
           d == GenerateDomainXML(p)
<1>1. p.disks \in Seq(Buses) /\ p.iso \in BOOLEAN /\ p.ignition \in BOOLEAN
  BY TemplateAssumption DEF GuestTypes, XMLParams, DomainXMLParams
<1>2. /\ p.ignition = Ignition /\ p.iso = ~Ignition
      /\ p.kernel = IF asked[w] = None THEN None ELSE KernelPath(w)
      /\ p.initrd = IF asked[w] = None THEN None ELSE InitrdPath(w)
  BY DEF XMLParams, DomainXMLParams, Ignition
<1>3. d # None
  <2>1. asked[w] # None => KernelPath(w) \in FileNames /\ InitrdPath(w) \in FileNames
    BY PathTypes DEF Resolved
  <2>2. \E k, i \in FileNames \cup {None} : p = DomainXMLParams(template, k, i)
    BY <2>1 DEF XMLParams
  <2> QED
    BY <2>2, DomainAssumption DEF GuestTypes
<1> HIDE DEF p
<1>4. /\ d.os.kernel = p.kernel
      /\ d.os.initrd = IF p.kernel = None THEN None ELSE p.initrd
      /\ d.fwcfg = (p.ignition /\ p.kernel = None)
  BY DEF GenerateDomainXML, BuildOS, BuildSysInfo
<1>5. /\ Uses(d, "ignition") # {} <=> (p.kernel # None /\ p.ignition)
      /\ Uses(d, "cdrom") # {} <=> p.iso
  BY <1>1, DisksByUse
<1> HIDE DEF d
<1>6. Delivered(w, d)
  BY <1>2, <1>4, <1>5, Zenon DEF Delivered
<1>7. Staged(w, d)
  <2>1. CASE p.kernel = None
    BY <1>4, <2>1 DEF Staged
  <2>2. CASE p.kernel # None
    <3>1. asked[w] # None
      BY <1>2, <2>2
    <3>2. Resolved(w)
      BY <3>1 DEF Resolved
    <3>3. KernelPath(w) \in FileNames /\ InitrdPath(w) \in FileNames
      BY <3>2, PathTypes
    <3>4. KernelPath(w)[3] = "vmlinuz" /\ InitrdPath(w)[3] = "initramfs.img"
      BY DEF KernelPath, InitrdPath
    <3>5. /\ file[at[w]][KernelPath(w)] # Absent
          /\ file[at[w]][InitrdPath(w)] # Absent
      BY <3>1 DEF FileInv, PassedOK, KernelPassed, InitrdPassed
    <3> QED
      BY <1>2, <1>4, <2>2, <3>1, <3>3, <3>4, <3>5 DEF Staged
  <2> QED
    BY <2>1, <2>2
<1> QED
  BY <1>6, <1>7, <1>3 DEF d, p

(* The files of a domain as its guest finds them when it is launched.      *)
LEMMA LaunchLoadsWell ==
    ASSUME BootTypeOK, FileInv, NEW w \in Machines, step[w] = "start",
           NEW f \in FileNames, file[at[w]][f] # Absent
    PROVE  LoadedWell(w, file[at[w]][f], f)
<1> DEFINE c == file[at[w]][f]
<1>1. c \in Contents /\ at[w] \in Hosts
  BY DEF BootTypeOK
<1>2. CASE c = Cut
  BY <1>1, <1>2 DEF FileInv, ContentOK, LoadedWell
<1>3. CASE c \in Published
  BY <1>1, <1>3 DEF FileInv, ContentOK, LoadedWell
<1>4. CASE c \in Machines
  <2>1. /\ at[c] = at[w]
        /\ step[c] \in {"fillKernel", "fillInitrd"}
    BY <1>1, <1>4, SMTT(30) DEF FileInv, WritersOK
  <2>2. c # w
    BY <2>1
  <2> QED
    BY <1>4, <2>1, <2>2 DEF LoadedWell
<1> QED
  BY <1>1, <1>2, <1>3, <1>4 DEF Contents

(* A domain that a step leaves alone.                                      *)
LEMMA DomKept ==
    ASSUME BootTypeOK, DomInv, [Next]_vars, NEW w \in Machines,
           dom'[w] = dom[w], ran'[w] = ran[w], running'[w] => running[w],
           step'[w] = "start" \/ got'[w] # Absent => dom[w] # None
    PROVE  DomOK(w)'
<1>1. DomOK(w) /\ at[w] \in Hosts
  BY DEF DomInv, BootTypeOK
<1>2. Ignition' = Ignition /\ at' = at
  BY FilesStay DEF Ignition
<1>3. dom[w] # None => Delivered(w, dom[w])'
  BY <1>1, <1>2 DEF DomOK, Delivered
<1>4. dom[w] # None => Staged(w, dom[w])'
  BY <1>1, <1>2, FilesStay DEF DomOK, Staged
<1>5. \A c, f : LoadedWell(w, c, f) => LoadedWell(w, c, f)'
  BY FilesStay DEF LoadedWell
<1> QED
  BY <1>1, <1>3, <1>4, <1>5 DEF DomOK

(* The types of the domains, the configs and the guests.                   *)
LEMMA GuestTypesStep ==
    ASSUME BootTypeOK, GuestTypes, DomInv, [Next]_vars
    PROVE  GuestTypes'
<1> DEFINE Ran == [Machines -> [kernel : Contents \cup {None}, initrd : Contents \cup {None}]]
<1>1. template' = template
  BY FilesStay
<1>2. CASE UNCHANGED <<config, dom, running, ran, got>>
  BY <1>1, <1>2 DEF GuestTypes
<1>3. ASSUME NEW w \in Machines, WriteConfig(w) \/ FillConfig(w)
      PROVE  GuestTypes'
  <2>1. UNCHANGED config \/ \E c : config' = [config EXCEPT ![w] = c]
    BY <1>3 DEF WriteConfig, FillConfig
  <2>2. config' = [v \in Machines |-> config'[v]]
    BY <2>1 DEF GuestTypes
  <2>3. UNCHANGED <<dom, running, ran, got>>
    BY <1>3 DEF WriteConfig, FillConfig
  <2> QED
    BY <1>1, <2>2, <2>3 DEF GuestTypes
<1>4. ASSUME NEW w \in Machines, DefineDomain(w)
      PROVE  GuestTypes'
  <2>1. UNCHANGED dom \/ \E d : dom' = [dom EXCEPT ![w] = d]
    BY <1>4 DEF DefineDomain
  <2>2. dom' = [v \in Machines |-> dom'[v]]
    BY <2>1 DEF GuestTypes
  <2>3. UNCHANGED <<config, running, ran, got>>
    BY <1>4 DEF DefineDomain
  <2> QED
    BY <1>1, <2>2, <2>3 DEF GuestTypes
<1>5. ASSUME NEW w \in Machines, step[w] = "start", Launch(w), UNCHANGED <<config, dom>>
      PROVE  GuestTypes'
  <2>1. dom[w] # None /\ Staged(w, dom[w])
    BY <1>5 DEF DomInv, DomOK
  <2>2. /\ Load(w, dom[w].os.kernel) \in Contents \cup {None}
        /\ Load(w, dom[w].os.initrd) \in Contents \cup {None}
    BY <2>1 DEF Staged, Load, BootTypeOK
  <2>3. ran' \in Ran
    BY <1>5, <2>2 DEF Launch, GuestTypes
  <2>4. running' \in [Machines -> BOOLEAN]
    BY <1>5 DEF Launch, GuestTypes
  <2>5. got' = [v \in Machines |-> got'[v]]
    BY <1>5, Zenon DEF Launch, GuestTypes
  <2> QED
    BY <1>1, <1>5, <2>3, <2>4, <2>5 DEF GuestTypes
<1>6. ASSUME NEW w \in Machines, StartDomain(w)
      PROVE  GuestTypes'
  BY <1>2, <1>5, <1>6 DEF StartDomain
<1>7. ASSUME NEW w \in Machines, GuestReads(w)
      PROVE  GuestTypes'
  <2>1. got' = [v \in Machines |-> got'[v]]
    BY <1>7, Zenon DEF GuestReads, GuestTypes
  <2> QED
    BY <1>1, <1>7, <2>1 DEF GuestReads, GuestTypes
<1>8. ASSUME NEW w \in Machines, PowerOff(w)
      PROVE  GuestTypes'
  <2>1. running' \in [Machines -> BOOLEAN]
    BY <1>8 DEF PowerOff, GuestTypes
  <2> QED
    BY <1>1, <1>8, <2>1 DEF PowerOff, GuestTypes
<1>9. ASSUME NEW w \in Machines, Reconcile(w) \/ BootArtifactStep(w)
      PROVE  GuestTypes'
  BY <1>2, <1>9 DEF Reconcile, BootArtifactStep, guestVars
<1>10. CASE Environment \/ UNCHANGED vars
  BY <1>2, <1>10 DEF Environment, vars, guestVars
<1> QED
  BY <1>3, <1>4, <1>6, <1>7, <1>8, <1>9, <1>10, Zenon DEF Next, Worker

(* How a worker comes to the steps that rely on its config or its domain.  *)
LEMMA Onward ==
    ASSUME BootTypeOK, [Next]_vars, NEW v \in Machines
    PROVE  /\ step'[v] = "start" => step[v] = "start" \/ DefineDomain(v)
           /\ step'[v] \in Late => step[v] \in Late \/ FillConfig(v) \/ ~Ignition
<1> DEFINE Goal == /\ step'[v] = "start" => step[v] = "start" \/ DefineDomain(v)
                   /\ step'[v] \in Late => step[v] \in Late \/ FillConfig(v) \/ ~Ignition
<1>1. CASE step'[v] = step[v]
  BY <1>1
<1>2. CASE step'[v] = "idle"
  BY <1>2 DEF Late, Staging
<1>3. ASSUME NEW w \in Machines, Worker(w), w # v PROVE Goal
  <2>1. \A s : Go(w, s) => step'[v] = step[v]
    BY <1>3, WentOn
  <2>2. Fails(w) => step'[v] = step[v]
    BY <1>3, FailedIsIdle
  <2>3. step'[v] = step[v]
    BY <1>3, <2>1, <2>2, Zenon DEF Worker, Reconcile, WriteConfig, FillConfig, BootArtifactStep,
       ArtifactStep, ResolveCachedArtifacts, CredentialsFail, FetchKernel, FetchFails,
       OneManifest, FetchInitramfs, CheckKernel,
       CheckInitrd, Check, WriteKernel, WriteInitrd, Truncate, FillKernel, FillInitrd,
       FillFile, DefineDomain, StartDomain
  <2> QED
    BY <2>3
<1>4. Fails(v) => step'[v] = "idle"
  BY FailedIsIdle
<1>5. \A s : Go(v, s) => step'[v] = s
  BY WentOn
<1>6. CASE Reconcile(v)
  <2>1. step'[v] = IF Ignition THEN "config" ELSE AfterConfig(boot)
    BY <1>5, <1>6 DEF Reconcile
  <2> QED
    BY <2>1 DEF AfterConfig, Late, Staging
<1>7. CASE WriteConfig(v)
  BY <1>2, <1>4, <1>5, <1>7 DEF WriteConfig, Late, Staging
<1>8. CASE FillConfig(v)
  <2>1. step'[v] = "idle" \/ step'[v] = AfterConfig(asked[v])
    BY <1>4, <1>5, <1>8 DEF FillConfig
  <2> QED
    BY <1>8, <2>1 DEF AfterConfig
<1>9. CASE BootArtifactStep(v)
  <2>1. step[v] \in Late /\ step'[v] # "start"
    BY <1>4, <1>5, <1>9, Zenon DEF BootArtifactStep,
       ArtifactStep, ResolveCachedArtifacts, CredentialsFail, FetchKernel, FetchFails,
       OneManifest, FetchInitramfs, CheckKernel,
       CheckInitrd, Check, WriteKernel, WriteInitrd, Truncate, FillKernel, FillInitrd,
       FillFile, Late, Staging
  <2> QED
    BY <2>1
<1>10. CASE DefineDomain(v)
  BY <1>10 DEF DefineDomain, Late
<1>11. CASE StartDomain(v)
  BY <1>2, <1>4, <1>11 DEF StartDomain
<1>12. ASSUME NEW w \in Machines, GuestReads(w) \/ PowerOff(w) PROVE Goal
  BY <1>1, <1>12 DEF GuestReads, PowerOff, bootVars
<1>13. ASSUME Environment \/ UNCHANGED vars PROVE Goal
  BY <1>1, <1>2, <1>13 DEF Environment, Republish, EditCluster, Restart, vars, bootVars
<1>14. ASSUME Worker(v) PROVE Goal
  BY <1>6, <1>7, <1>8, <1>9, <1>10, <1>11, <1>14 DEF Worker
<1> HIDE DEF Goal
<1>15. Goal
  BY <1>3, <1>12, <1>13, <1>14, Zenon DEF Next
<1> QED
  BY <1>15 DEF Goal

(* Every step keeps the invariant of the domains.                          *)
LEMMA DomStep ==
    ASSUME BootTypeOK, PairInv, FileInv, GuestTypes, DomInv, [Next]_vars
    PROVE  DomInv'
<1> SUFFICES ASSUME NEW v \in Machines PROVE DomOK(v)'
  BY DEF DomInv
<1>1. DomOK(v)
  BY DEF DomInv
<1>2. ASSUME ~DefineDomain(v), dom'[v] = dom[v], ran'[v] = ran[v], running'[v] => running[v],
             got'[v] # Absent => dom[v] # None
      PROVE  DomOK(v)'
  <2>1. step'[v] = "start" => step[v] = "start"
    BY <1>2, Onward
  <2> QED
    BY <1>1, <1>2, <2>1, DomKept DEF DomOK
<1>3. CASE DefineDomain(v)
  <2>1. UNCHANGED <<running, ran, got, file, at, template>> /\ step[v] = "define"
    BY <1>3 DEF DefineDomain
  <2>2. CASE dom' = dom /\ (dom[v] # None \/ step'[v] = "idle")
    BY <1>1, <2>1, <2>2, DomKept DEF DomOK
  <2>3. CASE dom[v] = None /\ dom' = [dom EXCEPT ![v] = GenerateDomainXML(XMLParams(v))]
    <3> DEFINE d == GenerateDomainXML(XMLParams(v))
    <3>1. Delivered(v, d) /\ Staged(v, d) /\ d # None
      BY <2>1, NewDomain
    <3>2. dom'[v] = d
      BY <2>3 DEF GuestTypes
    <3>3. ~running[v] /\ got[v] = Absent
      BY <1>1, <2>3 DEF DomOK
    <3>4. ~running'[v] /\ got'[v] = Absent
      BY <2>1, <3>3, Zenon
    <3> HIDE DEF d
    <3>5. Delivered(v, dom[v])'
      BY <2>1, <3>1, <3>2 DEF Delivered, Ignition
    <3>6. Staged(v, dom[v])'
      BY <2>1, <3>1, <3>2 DEF Staged
    <3>7. step'[v] = "start" => dom'[v] # None
      BY <3>1, <3>2
    <3> QED
      BY <3>4, <3>5, <3>6, <3>7 DEF DomOK
  <2> QED
    BY <1>3, <2>2, <2>3, FailedIsIdle DEF DefineDomain
<1>4. ASSUME UNCHANGED <<dom, running, ran, got>> PROVE DomOK(v)'
  BY <1>1, <1>2, <1>3, <1>4 DEF DomOK
<1>5. ASSUME NEW w \in Machines, DefineDomain(w) PROVE DomOK(v)'
  <2>1. CASE w # v
    <3>1. UNCHANGED <<running, ran, got>> /\ dom'[v] = dom[v]
      BY <1>5, <2>1 DEF DefineDomain, GuestTypes
    <3> QED
      BY <1>1, <1>2, <1>3, <3>1 DEF DomOK
  <2> QED
    BY <1>3, <1>5, <2>1
<1>6. ASSUME step[v] = "start", Launch(v), Fails(v), UNCHANGED <<file, torn, at, dom, template>>
      PROVE  DomOK(v)'
  <2>1. dom[v] # None /\ Delivered(v, dom[v]) /\ Staged(v, dom[v])
    BY <1>1, <1>6 DEF DomOK
  <2>2. Delivered(v, dom[v])' /\ Staged(v, dom[v])'
    BY <1>6, <2>1 DEF Delivered, Staged, Ignition
  <2>3. ran'[v].kernel = Load(v, dom[v].os.kernel) /\ ran'[v].initrd = Load(v, dom[v].os.initrd)
    BY <1>6 DEF Launch, GuestTypes
  <2>4. ASSUME dom[v].os.kernel # None
        PROVE  /\ LoadedWell(v, ran'[v].kernel, dom[v].os.kernel)
               /\ LoadedWell(v, ran'[v].initrd, dom[v].os.initrd)
    BY <1>6, <2>1, <2>3, <2>4, LaunchLoadsWell, PathAssumption, Zenon DEF Staged, Load
  <2>5. ASSUME dom[v].os.kernel # None
        PROVE  /\ LoadedWell(v, ran[v].kernel, dom[v].os.kernel)'
               /\ LoadedWell(v, ran[v].initrd, dom[v].os.initrd)'
    BY <1>6, <2>4, <2>5 DEF LoadedWell
  <2> QED
    BY <1>6, <2>1, <2>2, <2>5 DEF DomOK
<1>7. ASSUME NEW w \in Machines, StartDomain(w) PROVE DomOK(v)'
  <2>1. CASE UNCHANGED <<running, ran, got>>
    BY <1>4, <1>7, <2>1 DEF StartDomain
  <2>2. CASE Launch(w) /\ w = v
    BY <1>6, <1>7, <2>2, FilesStay DEF StartDomain
  <2>3. CASE Launch(w) /\ w # v
    <3>1. ran'[v] = ran[v] /\ got'[v] = got[v] /\ dom'[v] = dom[v] /\ running'[v] = running[v]
      BY <1>7, <2>3, Zenon DEF Launch, StartDomain, GuestTypes
    <3> QED
      BY <1>1, <1>2, <1>3, <3>1 DEF DomOK
  <2> QED
    BY <1>7, <2>1, <2>2, <2>3 DEF StartDomain
<1>8. ASSUME NEW w \in Machines, GuestReads(w) PROVE DomOK(v)'
  <2>1. UNCHANGED <<dom, running, ran>> /\ (w # v => got'[v] = got[v]) /\ running[w]
    BY <1>8 DEF GuestReads, GuestTypes
  <2>2. got'[v] # Absent => dom[v] # None
    BY <1>1, <2>1 DEF DomOK
  <2> QED
    BY <1>2, <1>3, <2>1, <2>2
<1>9. ASSUME NEW w \in Machines, PowerOff(w) PROVE DomOK(v)'
  <2>1. UNCHANGED <<dom, ran, got>> /\ (running'[v] => running[v])
    BY <1>9 DEF PowerOff, GuestTypes
  <2> QED
    BY <1>1, <1>2, <1>3, <2>1 DEF DomOK
<1>10. ASSUME NEW w \in Machines,
              Reconcile(w) \/ WriteConfig(w) \/ FillConfig(w) \/ BootArtifactStep(w)
       PROVE  DomOK(v)'
  BY <1>4, <1>10 DEF Reconcile, WriteConfig, FillConfig, BootArtifactStep, guestVars
<1>11. CASE Environment \/ UNCHANGED vars
  BY <1>4, <1>11 DEF Environment, vars, guestVars
<1> QED
  BY <1>5, <1>7, <1>8, <1>9, <1>10, <1>11, Zenon DEF Next, Worker

(* Every step keeps the invariant of the configs.                          *)
LEMMA ConfigStep ==
    ASSUME BootTypeOK, GuestTypes, DomInv, ConfigInv, [Next]_vars
    PROVE  ConfigInv'
<1> SUFFICES ASSUME NEW v \in Machines PROVE ConfigOK(v)'
  BY DEF ConfigInv
<1>1. ConfigOK(v) /\ DomOK(v)
  BY DEF ConfigInv, DomInv
<1>2. Ignition' = Ignition /\ Config(v)' = Config(v)
  BY FilesStay DEF Ignition, Config
<1>3. step'[v] \in Late => step[v] \in Late \/ FillConfig(v) \/ ~Ignition
  BY Onward
<1>4. ASSUME ~FillConfig(v), config'[v] = config[v], got'[v] = got[v], dom'[v] = dom[v]
      PROVE  ConfigOK(v)'
  BY <1>1, <1>2, <1>3, <1>4 DEF ConfigOK
<1>5. CASE WriteConfig(v)
  <2>1. UNCHANGED <<dom, got>> /\ config'[v] \in {Cut, config[v]} /\ step'[v] \notin Late
    <3>1. step'[v] \in {"fill", "idle"}
      BY <1>5, WentOn, FailedIsIdle DEF WriteConfig
    <3> QED
      BY <1>5, <3>1 DEF WriteConfig, GuestTypes, Late, Staging
  <2> QED
    BY <1>1, <1>2, <2>1 DEF ConfigOK
<1>6. CASE FillConfig(v)
  <2>1. UNCHANGED <<dom, got>>
    BY <1>6 DEF FillConfig
  <2>2. \/ config'[v] = Config(v)
        \/ config'[v] = config[v] /\ step'[v] = "idle"
    BY <1>6, FailedIsIdle DEF FillConfig, GuestTypes
  <2> QED
    BY <1>1, <1>2, <2>1, <2>2 DEF ConfigOK, Late, Staging
<1>7. ASSUME UNCHANGED <<config, got, dom>> PROVE ConfigOK(v)'
  BY <1>4, <1>6, <1>7
<1>8. ASSUME NEW w \in Machines, WriteConfig(w) \/ FillConfig(w) PROVE ConfigOK(v)'
  <2>1. CASE w # v
    BY <1>4, <1>6, <1>8, <2>1 DEF WriteConfig, FillConfig, GuestTypes
  <2> QED
    BY <1>5, <1>6, <1>8, <2>1
<1>9. ASSUME NEW w \in Machines, DefineDomain(w) PROVE ConfigOK(v)'
  <2>1. UNCHANGED <<config, got>>
    BY <1>9 DEF DefineDomain
  <2>2. CASE dom'[v] = dom[v]
    BY <1>4, <1>6, <2>1, <2>2
  <2>3. CASE w = v /\ dom[v] = None
    <3>1. got[v] = Absent
      BY <1>1, <2>3 DEF DomOK
    <3>2. ~FillConfig(v)
      BY <1>9, <2>3 DEF DefineDomain, FillConfig
    <3> QED
      BY <1>1, <1>2, <1>3, <2>1, <3>1, <3>2 DEF ConfigOK
  <2> QED
    BY <1>9, <2>2, <2>3 DEF DefineDomain, GuestTypes
<1>10. ASSUME NEW w \in Machines, StartDomain(w) PROVE ConfigOK(v)'
  <2>1. UNCHANGED <<config, dom>>
    BY <1>10 DEF StartDomain
  <2>2. CASE got'[v] = got[v]
    BY <1>4, <1>6, <2>1, <2>2
  <2>3. CASE w = v /\ Launch(v) /\ got'[v] # got[v]
    <3>1. step[v] = "start" /\ step'[v] = "idle"
      BY <1>10, <2>3, FailedIsIdle DEF StartDomain
    <3>2. dom[v].fwcfg /\ got'[v] = config[v]
      BY <2>3 DEF Launch, GuestTypes
    <3>3. Ignition
      BY <1>1, <3>1, <3>2, Zenon DEF DomOK, Delivered
    <3>4. config[v] = Config(v)
      BY <1>1, <3>1, <3>3 DEF ConfigOK, Late
    <3> QED
      BY <1>1, <1>2, <2>1, <3>1, <3>2, <3>4 DEF ConfigOK, Late, Staging
  <2>4. w # v => got'[v] = got[v]
    BY <1>10 DEF StartDomain, Launch, GuestTypes
  <2>5. w = v => got'[v] = got[v] \/ Launch(v)
    BY <1>10 DEF StartDomain
  <2> QED
    BY <2>2, <2>3, <2>4, <2>5
<1>11. ASSUME NEW w \in Machines, GuestReads(w) PROVE ConfigOK(v)'
  <2>1. UNCHANGED <<config, dom, step>>
    BY <1>11 DEF GuestReads, bootVars
  <2>2. CASE w # v
    BY <1>4, <1>6, <1>11, <2>1, <2>2 DEF GuestReads, GuestTypes
  <2>3. CASE w = v
    <3>1. got'[v] = config[v] /\ running[v] /\ Uses(dom[v], "ignition") # {}
      BY <1>11, <2>3 DEF GuestReads, GuestTypes
    <3>2. dom[v].fwcfg = FALSE
      BY <1>1, <3>1, Zenon DEF DomOK, Delivered
    <3> QED
      BY <1>1, <1>2, <2>1, <3>1, <3>2 DEF ConfigOK
  <2> QED
    BY <2>2, <2>3
<1>12. ASSUME NEW w \in Machines, PowerOff(w) \/ Reconcile(w) \/ BootArtifactStep(w)
       PROVE  ConfigOK(v)'
  BY <1>7, <1>12 DEF PowerOff, Reconcile, BootArtifactStep, guestVars
<1>13. CASE Environment \/ UNCHANGED vars
  BY <1>7, <1>13 DEF Environment, vars, guestVars
<1> QED
  BY <1>8, <1>9, <1>10, <1>11, <1>12, <1>13, Zenon DEF Next, Worker
-----------------------------------------------------------------------------
(* The inductive invariant.                                                *)
BootInv == /\ BootTypeOK /\ PairInv /\ FileInv
           /\ GuestTypes /\ DomInv /\ ConfigInv

LEMMA BootInvInit ==
    ASSUME Init
    PROVE  BootInv
<1> USE BootAssumption DEF Init, BootInit
<1>1. BootTypeOK
  <2>1. torn \in BOOLEAN
    BY Zenon
  <2>2. cache \in [Keys -> Pairs \cup {None}]
    OBVIOUS
  <2>3. /\ step \in [Machines -> BootSteps]
        /\ asked \in [Machines -> BootSpecs \cup {None}]
        /\ pair \in [Machines -> Pairs]
    BY DEF BootSteps, Pairs, NoPair
  <2>4. file \in [Hosts -> [FileNames -> Contents]]
    BY DEF Contents
  <2>5. faults \in 0 .. MaxFaults
    OBVIOUS
  <2> QED
    BY <2>1, <2>2, <2>3, <2>4, <2>5 DEF BootTypeOK
<1>2. PairInv
  BY DEF PairInv, CacheOK, PairOK, Staging, Resolved
<1>3. FileInv
  BY DEF FileInv, ContentOK, WritersOK, PassedOK, KernelPassed, InitrdPassed
<1>4. GuestTypes
  BY DEF GuestTypes, Nothing
<1>5. DomInv
  BY DEF DomInv, DomOK
<1>6. ConfigInv
  BY DEF ConfigInv, ConfigOK, Late, Staging
<1> QED
  BY <1>1, <1>2, <1>3, <1>4, <1>5, <1>6 DEF BootInv

LEMMA BootInvStep ==
    ASSUME BootInv, [Next]_vars
    PROVE  BootInv'
<1> USE DEF BootInv
<1> QED
  BY BootTypesStep, PairStep, FileStep, GuestTypesStep, DomStep, ConfigStep

(* Every reachable state satisfies the inductive invariant.                *)
LEMMA BootInvHolds == Spec => []BootInv
BY BootInvInit, BootInvStep, PTL DEF Spec

(* The variables of FirstBoot stay in their types, whatever is published,  *)
(* edited, cut off or restarted.                                           *)
THEOREM FirstBootTypes == Spec => []TypeOK
<1>1. ASSUME BootInv PROVE TypeOK
  <2>1. ASSUME NEW w \in Machines, dom[w] # None
        PROVE  /\ dom[w].fwcfg \in BOOLEAN
               /\ dom[w].os.kernel \in Paths("vmlinuz") \cup {None}
               /\ dom[w].os.initrd \in Paths("initramfs.img") \cup {None}
    <3>1. Delivered(w, dom[w]) /\ Staged(w, dom[w])
      BY <1>1, <2>1 DEF BootInv, DomInv, DomOK
    <3>2. dom[w].fwcfg \in BOOLEAN
      BY <3>1 DEF Delivered
    <3> QED
      BY <3>1, <3>2 DEF Staged, Paths, FileNames
  <2>2. ASSUME NEW w \in Machines
        PROVE  config[w] \in {Absent, Cut, Config(w)} /\ got[w] \in {Absent, Cut, Config(w)}
    BY <1>1 DEF BootInv, ConfigInv, ConfigOK
  <2> QED
    BY <1>1, <2>1, <2>2 DEF BootInv, GuestTypes, TypeOK
<1> QED
  BY <1>1, BootInvHolds, PTL

(* resolveCachedArtifacts never hands a reconcile artifacts that do not    *)
(* match the digests its own source pins.                                  *)
THEOREM PinsAreHonoured == Spec => []PinsHonoured
<1>1. ASSUME BootInv PROVE PinsHonoured
  BY <1>1 DEF BootInv, PairInv, PairOK, PinsHonoured, Matched
<1> QED
  BY <1>1, BootInvHolds, PTL

(* Kernel and initramfs that differ in publication come from HTTPS or S3,  *)
(* after a change at the source.                                           *)
THEOREM PairsStayTogether == Spec => []PairUnmixed
<1>1. ASSUME BootInv PROVE PairUnmixed
  <2>1. faults # 0 => faults > 0
    BY <1>1, BootAssumption DEF BootInv, BootTypeOK
  <2> QED
    BY <1>1, <2>1 DEF BootInv, PairInv, PairOK, PairUnmixed, Matched
<1> QED
  BY <1>1, BootInvHolds, PTL

(* A complete file has the content its directory is named after, for any   *)
(* number of machines that write it at once.                               *)
THEOREM FilesAreAddressed == Spec => []ContentAddressed
<1>1. ASSUME BootInv PROVE ContentAddressed
  BY <1>1 DEF BootInv, FileInv, ContentOK, ContentAddressed
<1> QED
  BY <1>1, BootInvHolds, PTL

(* A guest runs the files its domain names, whole unless a write was cut   *)
(* off or another machine of the host was still writing.                   *)
THEOREM LaunchesAreWhole == Spec => []LaunchedWhole
<1>1. ASSUME BootInv PROVE LaunchedWhole
  BY <1>1 DEF BootInv, DomInv, DomOK, LaunchedWhole
<1> QED
  BY <1>1, BootInvHolds, PTL

(* The config has one way into the guest, and a kernel its initramfs.      *)
THEOREM DeliveredOnce == Spec => []OneDelivery
<1>1. ASSUME BootInv PROVE OneDelivery
  <2> SUFFICES ASSUME NEW w \in Machines, dom[w] # None
               PROVE  LET disks == Uses(dom[w], "ignition")
                      IN  /\ (dom[w].fwcfg \/ disks # {}) <=> Ignition
                          /\ ~(dom[w].fwcfg /\ disks # {})
                          /\ (Uses(dom[w], "cdrom") # {}) <=> ~Ignition
                          /\ (dom[w].os.kernel = None) <=> (dom[w].os.initrd = None)
    BY DEF OneDelivery
  <2>1. Delivered(w, dom[w]) /\ Staged(w, dom[w])
    BY <1>1 DEF BootInv, DomInv, DomOK
  <2>2. (dom[w].os.kernel = None) <=> (dom[w].os.initrd = None)
    BY <2>1, PathAssumption DEF Staged
  <2> QED
    BY <2>1, <2>2, Zenon DEF Delivered
<1> QED
  BY <1>1, BootInvHolds, PTL

(* Whatever disks the template has, libvirt refuses a domain of            *)
(* buildDevices only for the cdrom beside a sata or scsi root disk.        *)
THEOREM RefusalsAreKnown == Spec => []RefusedOnlyForCdrom
<1>1. ASSUME BootInv PROVE RefusedOnlyForCdrom
  <2> SUFFICES ASSUME NEW w \in Machines, Clash(GenerateDomainXML(XMLParams(w)))
               PROVE  ~Ignition /\ template.bus \in {"sata", "scsi"}
    BY DEF RefusedOnlyForCdrom
  <2> DEFINE p == XMLParams(w)
  <2>1. p.disks \in Seq(Buses) /\ p.iso \in BOOLEAN /\ p.ignition \in BOOLEAN
    BY <1>1, TemplateAssumption DEF BootInv, GuestTypes, XMLParams, DomainXMLParams
  <2>2. p.iso = ~Ignition /\ p.bus = template.bus
    BY DEF XMLParams, DomainXMLParams, Ignition
  <2>3. p.iso /\ p.bus \in {"sata", "scsi"}
    BY <2>1, ClashIsRootAndCdrom
  <2> QED
    BY <2>2, <2>3, Zenon
<1> QED
  BY <1>1, BootInvHolds, PTL

(* The config a guest has read is complete for this machine, whatever was  *)
(* in the bootstrap data, unless it was read from the disk of a direct     *)
(* boot while writeFile had truncated it.                                  *)
THEOREM ConfigsAreComplete == Spec => []ConfigComplete
<1>1. ASSUME BootInv PROVE ConfigComplete
  <2> SUFFICES ASSUME NEW w \in Machines, got[w] # Absent
               PROVE  /\ got[w] = Cut => ~dom[w].fwcfg
                      /\ got[w] # Cut => IsComplete(got[w], template.doc, w,
                                                    template.addresses)
    BY DEF ConfigComplete
  <2>1. ConfigOK(w) /\ DomOK(w) /\ template \in Templates
    BY <1>1 DEF BootInv, ConfigInv, DomInv, GuestTypes
  <2>2. template.doc \in Docs(Files) /\ template.addresses \in BOOLEAN
    BY <2>1, TemplateAssumption DEF Docs
  <2>3. IsComplete(Config(w), template.doc, w, template.addresses)
    <3>1. Config(w) = Rendered(template.doc, w, template.addresses).files
      BY <2>1 DEF Config, Configs
    <3> QED
      BY <2>2, <3>1, RenderedComplete, Zenon
  <2>4. got[w] # Cut => got[w] = Config(w)
    BY <2>1 DEF ConfigOK
  <2>5. Cut # Config(w)
    BY <2>1, ConfigAssumption DEF Config
  <2> QED
    BY <2>1, <2>3, <2>4, <2>5 DEF ConfigOK, DomOK
<1> QED
  BY <1>1, BootInvHolds, PTL

(* A guest that is given its config through fw_cfg gets the one that was   *)
(* rendered for it, whole: reconcileDomain comes after the write, and the  *)
(* entry is loaded at launch.                                              *)
THEOREM FwCfgIsWhole ==
    Spec => [](\A w \in Machines :
                   dom[w] # None /\ dom[w].fwcfg /\ got[w] # Absent => got[w] = Config(w))
<1>1. ASSUME BootInv
      PROVE  \A w \in Machines :
                 dom[w] # None /\ dom[w].fwcfg /\ got[w] # Absent => got[w] = Config(w)
  BY <1>1 DEF BootInv, ConfigInv, ConfigOK
<1> QED
  BY <1>1, BootInvHolds, PTL
=============================================================================
