------------------------------ MODULE MCFirstBoot ------------------------------
(***************************************************************************)
(* Instances of FirstBoot: machines of two kinds, two publications, and    *)
(* sources with and without digests.                                       *)
(***************************************************************************)
EXTENDS FirstBoot

CONSTANTS p1, p2

Src(t, k, i, s) == [type |-> t, kernel |-> k, initrd |-> i, secret |-> s]

MCSources == {Src("HTTPS", None, None, FALSE), Src("HTTPS", p1, p1, FALSE),
              Src("OCI", None, None, TRUE)}

Plain == [version |-> 3, files |-> << >>]

(* Bootstrap data with a file of its own, and one that is replaced.        *)
Busy == [version |-> 2,
         files |-> <<[path |-> "hostname", by |-> "user", form |-> "filesystem"],
                     [path |-> "user-file", by |-> "user", form |-> "filesystem"]>>]

Template(f, b, ds, a, d) ==
    [format |-> f, bus |-> b, disks |-> ds, addresses |-> a, doc |-> d]

MCTemplates == {Template("ignition", "virtio", <<"virtio">>, TRUE, Busy),
                Template("cloud-init", "sata", <<"sata">>, FALSE, Plain)}

(* Bootstrap data of any version with up to two files, the same path twice *)
(* and paths that are injected among them.                                 *)
SmallDocs == [version : 0..3, files : UNION {[1..n -> Files] : n \in 0..2}]

(* The loop keeps what the library's filter selects.                       *)
ASSUME LoopSelects ==
    \A doc \in SmallDocs, paths \in SUBSET {"hostname", NetworkPath} :
        Without(doc.files, paths)
            = SelectSeq(doc.files, LAMBDA f : f.path \notin paths)

(* What is rendered from any of them is what the reference asks for.       *)
ASSUME RenderingIsComplete ==
    \A doc \in SmallDocs, w \in Machines, addresses \in BOOLEAN :
        IsComplete(Rendered(doc, w, addresses).files, doc, w, addresses)
=============================================================================
