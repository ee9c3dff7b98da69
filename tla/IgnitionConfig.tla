---------------------------- MODULE IgnitionConfig ----------------------------
(***************************************************************************)
(* What the controller adds to a machine's ignition config before it is    *)
(* written to the host: host name, provider ID and static network.         *)
(*                                                                         *)
(* A config is its version and its list of files. A file has a path, its   *)
(* author (a machine, or "user" for what was in the bootstrap data), and   *)
(* the form its version asks for. A version other than 2 and 3, or 0 for   *)
(* data that does not parse, is an error of both functions.                *)
(***************************************************************************)
EXTENDS Naturals, Sequences, FiniteSets

MetadataPaths == {"hostname", "kubelet-dropin", "provider-id"}

NetworkPath == "nmconnection"

Form(doc) == IF doc.version = 3 THEN "overwrite" ELSE "filesystem"

Entry(doc, path, who) == [path |-> path, by |-> who, form |-> Form(doc)]

(* The loop over a list of files that leaves out the ones at given paths:  *)
(* what it has kept of the first i files.                                  *)
Filtered(files, paths) ==
    LET filtered[i \in 0..Len(files)] ==
            IF i = 0 THEN << >>
            ELSE IF files[i].path \in paths THEN filtered[i - 1]
            ELSE Append(filtered[i - 1], files[i])
    IN  filtered

Without(files, paths) == Filtered(files, paths)[Len(files)]

(* Any entry at the path is removed, and the new one added at the end.     *)
InjectFile(doc, path, who) ==
    [doc EXCEPT !.files = Append(Without(@, {path}), Entry(doc, path, who))]

Supported(doc) == doc.version \in {2, 3}

(* The caller keeps the original after an error.                           *)
InjectMachineMetadata(doc, who) ==
    IF Supported(doc)
    THEN InjectFile(InjectFile(InjectFile(doc, "hostname", who),
                               "kubelet-dropin", who),
                    "provider-id", who)
    ELSE doc

InjectStaticNetwork(doc, who) ==
    IF Supported(doc) THEN InjectFile(doc, NetworkPath, who) ELSE doc

(* The network is only injected for a machine with addresses.              *)
Rendered(doc, who, addresses) ==
    LET named == InjectMachineMetadata(doc, who)
    IN  IF addresses THEN InjectStaticNetwork(named, who) ELSE named
-----------------------------------------------------------------------------
(* The reference: each path that is injected has one file, of the machine; *)
(* every other file of the bootstrap data is there, in its order.          *)
Injected(doc, addresses) ==
    IF ~Supported(doc) THEN {}
    ELSE MetadataPaths \cup (IF addresses THEN {NetworkPath} ELSE {})

IsComplete(files, doc, who, addresses) ==
    LET paths == Injected(doc, addresses)
        kept  == Without(doc.files, paths)
    IN  /\ Without(files, paths) = kept
        /\ Len(files) = Len(kept) + Cardinality(paths)
        /\ \A p \in paths : \E i \in DOMAIN files : files[i] = Entry(doc, p, who)
=============================================================================
