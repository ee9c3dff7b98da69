------------------------------ MODULE MCNodeLabels ------------------------------
(***************************************************************************)
(* An instance of NodeLabels: requests that the policy allows, and some    *)
(* that miss it in one respect.                                            *)
(***************************************************************************)
EXTENDS NodeLabels

CONSTANT Stranger       \* a node that is no LibvirtMachine's

Request(signer, user, cn, usages) ==
    [signer |-> signer, user |-> user, cn |-> cn, org |-> TRUE, sans |-> TRUE,
     usages |-> usages]

First   == Request("kubelet-client", "bootstrapper", Me,
                   {"digital signature", "client auth"})
Renewal == Request("kubelet-client", Me, Me, {"client auth"})
Serving == Request("kubelet-serving", Me, Me, {"server auth"})

MCRequests ==
    {First, Renewal, Serving,
     [Serving EXCEPT !.sans = FALSE], [Serving EXCEPT !.user = "bootstrapper"],
     [Renewal EXCEPT !.cn = Stranger], [First EXCEPT !.cn = Stranger],
     [First EXCEPT !.user = "someone"], [First EXCEPT !.org = FALSE],
     [First EXCEPT !.usages = Usages], [First EXCEPT !.cn = None],
     [First EXCEPT !.signer = "other"]}
=============================================================================
