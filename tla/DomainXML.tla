------------------------------- MODULE DomainXML -------------------------------
(***************************************************************************)
(* GenerateDomainXML: which disks a domain has under which target names,   *)
(* how its ignition config reaches the guest, and what it boots.           *)
(*                                                                         *)
(* Parameters: the buses of the root disk and of the additional disks,     *)
(* whether there is an ignition file or a bootstrap ISO, and the kernel    *)
(* and initramfs of a direct boot, or None.                                *)
(***************************************************************************)
EXTENDS Naturals, Sequences

CONSTANT None           \* nothing

Buses == {"virtio", "sata", "scsi", "ide"}

(* The letter of a name is the index.                                      *)
VirtioDevName(idx, bus) == <<IF bus \in {"sata", "scsi"} THEN "sd" ELSE "vd", idx>>

Disk(use, dev) == [use |-> use, dev |-> dev]

(* Mutant: the ignition disk does not take an index.                       *)
BuildDevicesUncounted(p) ==
    <<Disk("root", VirtioDevName(0, p.bus))>>
    \o (IF p.iso THEN <<Disk("cdrom", <<"sd", 0>>)>> ELSE << >>)
    \o (IF p.kernel # None /\ p.ignition
        THEN <<Disk("ignition", VirtioDevName(1, "virtio"))>> ELSE << >>)
    \o [i \in DOMAIN p.disks |-> Disk("data", VirtioDevName(i, p.disks[i]))]

(* The root disk, the cdrom, which is always sda, the ignition disk of a   *)
(* direct boot, and the additional disks at the indices that follow.       *)
BuildDevices(p) ==
    LET ignition == IF p.kernel # None /\ p.ignition
                    THEN <<Disk("ignition", VirtioDevName(1, "virtio"))>>
                    ELSE << >>
    IN  <<Disk("root", VirtioDevName(0, p.bus))>>
        \o (IF p.iso THEN <<Disk("cdrom", <<"sd", 0>>)>> ELSE << >>)
        \o ignition
        \o [i \in DOMAIN p.disks |->
               Disk("data", VirtioDevName(Len(ignition) + i, p.disks[i]))]

(* Mutant: the fw_cfg entry stays when there is a kernel.                  *)
BuildSysInfoAlways(p) == p.ignition

(* Whether the config is an fw_cfg entry.                                  *)
BuildSysInfo(p) == p.ignition /\ p.kernel = None

BuildOS(p) == [kernel |-> p.kernel,
               initrd |-> IF p.kernel = None THEN None ELSE p.initrd]

GenerateDomainXML(p) ==
    [fwcfg |-> BuildSysInfo(p), os |-> BuildOS(p), disks |-> BuildDevices(p)]

Uses(xml, use) == {i \in DOMAIN xml.disks : xml.disks[i].use = use}

(* Two disks have one target name; libvirt refuses such a domain.          *)
Clash(xml) == \E i, j \in DOMAIN xml.disks :
                  i # j /\ xml.disks[i].dev = xml.disks[j].dev
=============================================================================
