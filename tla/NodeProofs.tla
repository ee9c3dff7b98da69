------------------------------ MODULE NodeProofs ------------------------------
(***************************************************************************)
(* Proofs of the safety properties of NodeLabels and CSRApprover, for any  *)
(* requests, nodes and keys, and any number of faults.                     *)
(***************************************************************************)
EXTENDS NodeLabels, FiniteSetTheorems, WellFoundedInduction, TLAPS

LEMMA FaultCounts ==
    ASSUME faults \in 0..MaxFaults, Fault
    PROVE  faults' \in 0..MaxFaults
BY CSRAssumption DEF Fault

(* A step of the approver, its informers or another approver.              *)
LEMMA CSRTypesStep ==
    ASSUME CSRTypeOK, CSRStep
    PROVE  CSRTypeOK'
<1> USE DEF CSRTypeOK
<1>1. ASSUME NEW c \in CSRs, ReconcileCSR(c) PROVE CSRTypeOK'
  <2>1. faults' \in 0..MaxFaults
    BY <1>1, FaultCounts DEF ReconcileCSR
  <2>2. UNCHANGED loaded \/ loaded' = [loaded EXCEPT ![c] = known[c]]
    BY <1>1 DEF ReconcileCSR
  <2> QED
    BY <1>1, <2>1, <2>2 DEF ReconcileCSR
<1>2. ASSUME NEW c \in CSRs, Approve(c) PROVE CSRTypeOK'
  <2>1. faults' \in 0..MaxFaults
    BY <1>2, FaultCounts DEF Approve
  <2>2. decided' \in [CSRs -> Conditions]
    <3>1. CASE UNCHANGED decided
      BY <3>1
    <3>2. CASE decided' = [decided EXCEPT ![c] = loaded[c] \cup {"Approved"}]
      <4>1. loaded[c] \in SUBSET {"Approved", "Denied"}
        BY <1>2 DEF Approve, Conditions
      <4> QED
        BY <3>2, <4>1 DEF Conditions
    <3> QED
      BY <1>2, <3>1, <3>2 DEF Approve
  <2>3. loaded' \in [CSRs -> Conditions]
    BY <1>2 DEF Approve, Conditions
  <2>4. csrQueue' \subseteq CSRs /\ ours' \subseteq CSRs
    BY <1>2 DEF Approve
  <2> QED
    BY <1>2, <2>1, <2>2, <2>3, <2>4 DEF Approve
<1>3. ASSUME NEW c \in CSRs, Post(c) PROVE CSRTypeOK'
  BY <1>3 DEF Post, Conditions
<1>4. ASSUME NEW c \in CSRs, OtherDecision(c) PROVE CSRTypeOK'
  <2>1. faults' \in 0..MaxFaults
    BY <1>4, FaultCounts DEF OtherDecision
  <2>2. decided' \in [CSRs -> Conditions]
    BY <1>4 DEF OtherDecision, Conditions
  <2> QED
    BY <1>4, <2>1, <2>2 DEF OtherDecision
<1>5. ASSUME NEW c \in CSRs, SyncCSR(c) PROVE CSRTypeOK'
  BY <1>5 DEF SyncCSR
<1>6. ASSUME SyncOwners \/ ResyncCSRs PROVE CSRTypeOK'
  BY <1>6 DEF SyncOwners, ResyncCSRs
<1> QED
  BY <1>1, <1>2, <1>3, <1>4, <1>5, <1>6 DEF CSRStep, CSRWorker

(* What a request must be to be approved.                                  *)
Good(c) == /\ asks[c].cn = Me
           /\ \/ asks[c].user = asks[c].cn
              \/ asks[c].user = "bootstrapper" /\ asks[c].signer = "kubelet-client"

(* A worker that is about to approve read a request without decision, for  *)
(* a node whose machine it saw; and only machines of this name come to be. *)
ApprovalInv ==
    /\ owners \subseteq {Me} /\ listed \subseteq {Me}
    /\ \A c \in CSRs : /\ loaded[c] \in {None, {}}
                       /\ loaded[c] # None => Good(c)
                       /\ c \in ours => Good(c)
    /\ OneDecision

LEMMA ApprovalStep ==
    ASSUME CSRTypeOK, ApprovalInv, CSRStep
    PROVE  ApprovalInv'
<1> USE DEF CSRTypeOK, ApprovalInv, OneDecision
<1>0. asks' = asks /\ \A c \in CSRs : Good(c)' <=> Good(c)
  BY DEF CSRStep, CSRWorker, ReconcileCSR, Approve, Post, OtherDecision, SyncCSR,
         SyncOwners, ResyncCSRs, Good
<1>1. ASSUME NEW c \in CSRs, ReconcileCSR(c) PROVE ApprovalInv'
  <2> DEFINE n == NodeNameFromCSR(asks[c])
  <2>1. CASE UNCHANGED loaded
    BY <1>0, <1>1, <2>1 DEF ReconcileCSR
  <2>2. CASE /\ loaded' = [loaded EXCEPT ![c] = known[c]]
             /\ known[c] = {} /\ IsLibvirtManagedNode(n)
             /\ ShouldApproveKubeletCSR(asks[c], n)
    <3>1. n = Me
      BY <2>2 DEF IsLibvirtManagedNode
    <3> HIDE DEF n
    <3>2. Good(c)
      BY <2>2, <3>1 DEF ShouldApproveKubeletCSR, Good
    <3> QED
      BY <1>0, <1>1, <2>2, <3>2 DEF ReconcileCSR
  <2> QED
    BY <1>1, <2>1, <2>2 DEF ReconcileCSR
<1>2. ASSUME NEW c \in CSRs, Approve(c) PROVE ApprovalInv'
  <2>1. loaded[c] = {} /\ Good(c)
    BY <1>2 DEF Approve
  <2>2. \A d \in CSRs : decided'[d] # {"Approved", "Denied"}
    BY <1>2, <2>1 DEF Approve
  <2>3. \A d \in CSRs : d \in ours' => Good(d)
    BY <1>2, <2>1 DEF Approve
  <2> QED
    BY <1>0, <1>2, <2>2, <2>3 DEF Approve
<1>3. ASSUME NEW c \in CSRs, Post(c) PROVE ApprovalInv'
  BY <1>0, <1>3 DEF Post
<1>4. ASSUME NEW c \in CSRs, OtherDecision(c) PROVE ApprovalInv'
  BY <1>0, <1>4 DEF OtherDecision
<1>5. ASSUME NEW c \in CSRs, SyncCSR(c) PROVE ApprovalInv'
  BY <1>0, <1>5 DEF SyncCSR
<1>6. ASSUME SyncOwners \/ ResyncCSRs PROVE ApprovalInv'
  BY <1>0, <1>6 DEF SyncOwners, ResyncCSRs
<1> QED
  BY <1>1, <1>2, <1>3, <1>4, <1>5, <1>6 DEF CSRStep, CSRWorker
-----------------------------------------------------------------------------
(* The types of the label variables: data and flags.                       *)
LabelData ==
    /\ desired \in KeySets /\ applied \in KeySets /\ foreign \in KeySets
    /\ node \in NodeObjects \cup {None}
    /\ seen \in NodeObjects \cup {None}
    /\ base \in NodeObjects \cup {None}
    /\ labelled \in {"unset", "NodeNotJoined", "NodeLabelled"}

LabelFlags == due \in BOOLEAN /\ crossed \in BOOLEAN

LEMMA LabelTypeParts == LabelTypeOK <=> CSRTypeOK /\ LabelData /\ LabelFlags
BY Zenon DEF LabelTypeOK, LabelData, LabelFlags

(* A set of numbers has a least one.                                       *)
LEMMA Least ==
    ASSUME NEW T, T \subseteq Nat, T # {}
    PROVE  \E n \in T : \A m \in T : n <= m
<1> DEFINE R == {ss \in Nat \X Nat : ss[1] < ss[2]}
<1>1. IsWellFoundedOn(R, Nat)
  BY NatLessThanWellFounded DEF OpToRel
<1>3. \A x, y \in Nat : y < x => <<y, x>> \in R
  OBVIOUS
<1> HIDE DEF R
<1>2. PICK x \in T : \A y \in T : ~ (<<y, x>> \in R)
  BY <1>1, WFMin
<1>4. \A m \in T : x <= m
  <2> TAKE m \in T
  <2>1. x \in Nat /\ m \in Nat /\ ~(m < x)
    BY <1>2, <1>3
  <2> QED
    BY <2>1
<1> QED
  BY <1>4

(* The keys of a Node can be listed in ascending order: the least one, and *)
(* then the list of the others.                                            *)
LEMMA SortedPrepend ==
    ASSUME NEW S \in SUBSET Nat, NEW a \in S, \A x \in S : a <= x,
           NEW n \in Nat, n # 0, NEW t \in [1..n-1 -> S \ {a}], IsSorted(t, S \ {a})
    PROVE  \E s \in [1..n -> S] : IsSorted(s, S)
<1> DEFINE s == [i \in 1..n |-> IF i = 1 THEN a ELSE t[i-1]]
<1>1. \A i \in 1..n : i = 1 \/ (i # 1 /\ i - 1 \in 1..n-1)
  OBVIOUS
<1>2. s \in [1..n -> S]
  BY <1>1
<1>3. /\ s[1] = a /\ \A i \in 1..n : i # 1 => s[i] = t[i-1] /\ t[i-1] \in S \ {a}
      /\ \A i \in 1..n-1 : i + 1 \in 1..n /\ s[i+1] = t[i]
      /\ DOMAIN s = 1..n /\ DOMAIN t = 1..n-1 /\ 1 \in 1..n
  BY <1>1
<1> HIDE DEF s
<1>4. Range(s) = S
  <2>1. \A i \in 1..n : s[i] \in S
    BY <1>2
  <2>2. ASSUME NEW x \in S PROVE \E i \in 1..n : s[i] = x
    <3>1. CASE x = a
      BY <1>3, <3>1
    <3>2. CASE x # a
      <4>1. x \in Range(t)
        BY <3>2 DEF IsSorted
      <4>2. PICK j \in 1..n-1 : t[j] = x
        BY <1>3, <4>1, Zenon DEF Range
      <4>3. j + 1 \in 1..n /\ s[j+1] = x
        BY <1>3, <4>2
      <4> QED
        BY <4>3, Zenon
    <3> QED
      BY <3>1, <3>2
  <2>3. Range(s) = {s[i] : i \in 1..n}
    BY <1>3 DEF Range
  <2> QED
    BY <2>1, <2>2, <2>3, Zenon
<1>5. ASSUME NEW i \in 1..n, NEW j \in 1..n, i < j PROVE s[i] < s[j]
  <2>1. j # 1 /\ s[j] = t[j-1] /\ s[j] \in S \ {a}
    BY <1>3, <1>5
  <2>2. CASE i = 1
    <3>1. s[j] \in Nat /\ a \in Nat /\ a <= s[j] /\ a # s[j] /\ s[i] = a
      BY <1>3, <2>1, <2>2
    <3> QED
      BY <3>1
  <2>3. CASE i # 1
    <3>1. i - 1 \in 1..n-1 /\ j - 1 \in 1..n-1 /\ i - 1 < j - 1
      BY <1>1, <1>5, <2>1, <2>3
    <3>2. t[i-1] < t[j-1]
      BY <1>3, <3>1 DEF IsSorted
    <3> QED
      BY <1>3, <2>1, <2>3, <3>2
  <2> QED
    BY <2>2, <2>3
<1> QED
  BY <1>2, <1>3, <1>4, <1>5 DEF IsSorted

LEMMA SortedExists ==
    ASSUME NEW S \in SUBSET Keys
    PROVE  \E s \in [1..Cardinality(S) -> S] : IsSorted(s, S)
<1> DEFINE Listed(T) == \E s \in [1..Cardinality(T) -> T] : IsSorted(s, T)
           C == {Cardinality(T) : T \in {U \in SUBSET Keys : ~Listed(U)}}
<1>1. \A T \in SUBSET Keys : IsFiniteSet(T) /\ Cardinality(T) \in Nat /\ T \subseteq Nat
  BY LabelsAssumption, FS_Subset, FS_CardinalityType
<1> SUFFICES ASSUME ~Listed(S) PROVE FALSE
  OBVIOUS
<1>2. PICK n \in C : \A m \in C : n <= m
  <2>1. C \subseteq Nat /\ C # {}
    BY <1>1
  <2> HIDE DEF C
  <2> QED
    BY <2>1, Least
<1>3. PICK T \in SUBSET Keys : ~Listed(T) /\ Cardinality(T) = n
  BY <1>2
<1>4. T # {}
  <2>1. CASE T = {}
    <3>1. Cardinality(T) = 0 /\ 1..0 = {}
      BY <2>1, FS_EmptySet
    <3>2. << >> \in [1..0 -> T] /\ DOMAIN << >> = {}
      BY <3>1
    <3>3. IsSorted(<< >>, T)
      BY <2>1, <3>2 DEF IsSorted, Range
    <3> QED
      BY <1>3, <3>1, <3>2, <3>3
  <2> QED
    BY <2>1
<1>5. PICK a \in T : \A x \in T : a <= x
  BY <1>1, <1>4, Least
<1> DEFINE R == T \ {a}
<1>6. Cardinality(R) = n - 1 /\ n \in Nat /\ n # 0 /\ R \in SUBSET Keys
  BY <1>1, <1>3, <1>4, <1>5, FS_RemoveElement, FS_EmptySet
<1>7. Listed(R)
  <2>1. n - 1 \notin C
    BY <1>2, <1>6
  <2> QED
    BY <1>6, <2>1
<1>8. PICK t \in [1..n-1 -> R] : IsSorted(t, R)
  BY <1>6, <1>7
<1>9. \E s \in [1..n -> T] : IsSorted(s, T)
  BY <1>1, <1>5, <1>6, <1>8, SortedPrepend
<1> QED
  BY <1>3, <1>9

(* parseManagedKeys reads back what formatManagedKeys wrote, for any keys. *)
THEOREM ManagedKeysRead ==
    /\ FormatManagedKeys({}) = << >>
    /\ \A ks \in SUBSET Keys : ParseManagedKeys(FormatManagedKeys(ks)) = ks
<1>1. \A ks \in SUBSET Keys :
         /\ FormatManagedKeys(ks) \in [1..Cardinality(ks) -> ks]
         /\ IsSorted(FormatManagedKeys(ks), ks)
  BY SortedExists DEF FormatManagedKeys
<1>2. FormatManagedKeys({}) = << >>
  <2>1. Cardinality({}) = 0 /\ 1..0 = {}
    BY FS_EmptySet
  <2>2. FormatManagedKeys({}) \in [{} -> {}]
    BY <1>1, <2>1
  <2> QED
    BY <2>2
<1> QED
  BY <1>1, <1>2 DEF ParseManagedKeys, IsSorted

LEMMA NewNodeType ==
    /\ NewNode \in NodeObjects
    /\ \A k \in Kinds : ParseManagedKeys(NewNode.managed[k]) = {}
<1>1. << >> \in {FormatManagedKeys(ks) : ks \in SUBSET Keys}
  BY ManagedKeysRead, NodeAssumption
<1>2. ParseManagedKeys(<< >>) = {}
  BY ManagedKeysRead, NodeAssumption
<1> QED
  BY <1>1, <1>2 DEF NewNode, NodeObjects

(* What the patch makes of a Node: its type, and each key.                 *)
LEMMA MergeType ==
    ASSUME desired \in KeySets, NEW n \in NodeObjects, NEW b \in NodeObjects
    PROVE  MergeFrom(n, b) \in NodeObjects
<1> DEFINE Marks == {"no", "spec", "other"}
           Forms == {FormatManagedKeys(ks) : ks \in SUBSET Keys}
<1>1. \A k \in Kinds : desired[k] \in SUBSET Keys
  BY DEF KeySets
<1>2. /\ n.set \in [Kinds -> [Keys -> Marks]] /\ b.set \in [Kinds -> [Keys -> Marks]]
      /\ n.managed \in [Kinds -> Forms] /\ b.managed \in [Kinds -> Forms]
  BY DEF NodeObjects
<1> DEFINE w == Wanted(b)
<1>3. \A k \in Kinds : w.managed[k] \in Forms
  BY <1>1 DEF Wanted
<1>4. \A k \in Kinds, key \in Keys : w.set[k][key] \in Marks
  BY <1>2 DEF Wanted
<1> HIDE DEF w, Marks, Forms
<1> DEFINE s == [k \in Kinds |-> [key \in Keys |->
                    IF w.set[k][key] = b.set[k][key] THEN n.set[k][key] ELSE w.set[k][key]]]
           g == [k \in Kinds |-> IF w.managed[k] = b.managed[k] THEN n.managed[k]
                                 ELSE w.managed[k]]
<1>5. s \in [Kinds -> [Keys -> Marks]] /\ g \in [Kinds -> Forms]
  BY <1>2, <1>3, <1>4
<1>6. MergeFrom(n, b) = [set |-> s, managed |-> g]
  BY DEF MergeFrom, w
<1> HIDE DEF s, g
<1> QED
  BY <1>5, <1>6 DEF NodeObjects, Marks, Forms

LEMMA MergedParts ==
    ASSUME NEW n, NEW b, NEW k \in Kinds, NEW key \in Keys
    PROVE  LET p == MergeFrom(n, b)
               want == IF key \in desired[k] THEN "spec"
                       ELSE IF key \in ParseManagedKeys(b.managed[k]) THEN "no"
                       ELSE b.set[k][key]
           IN  /\ p.set[k][key] = IF want = b.set[k][key] THEN n.set[k][key] ELSE want
               /\ p.managed[k] = IF FormatManagedKeys(desired[k]) = b.managed[k]
                                 THEN n.managed[k] ELSE FormatManagedKeys(desired[k])
BY DEF MergeFrom, Wanted

LEMMA LabelDataStep ==
    ASSUME CSRTypeOK, LabelData, NodeNext
    PROVE  LabelData'
<1> USE DEF LabelData
<1>1. CASE CSRStep
  BY <1>1 DEF CSRStep, labelVars
<1>2. CASE ReconcileNodeLabels
  BY <1>2, Zenon DEF ReconcileNodeLabels
<1>3. CASE PatchNode
  <2>1. CASE UNCHANGED <<node, labelled, applied>>
    BY <1>3, <2>1 DEF PatchNode
  <2>2. CASE /\ node # None /\ node' = MergeFrom(node, base) /\ labelled' = "NodeLabelled"
             /\ applied' = [k \in Kinds |-> applied[k] \cup desired[k]]
    <3>1. node' \in NodeObjects
      BY <1>3, <2>2, MergeType DEF PatchNode
    <3>2. applied' \in KeySets
      BY <2>2 DEF KeySets
    <3> QED
      BY <1>3, <2>2, <3>1, <3>2 DEF PatchNode
  <2> QED
    BY <1>3, <2>1, <2>2 DEF PatchNode
<1>4. CASE CreateMachine
  BY <1>4 DEF CreateMachine
<1>5. CASE DeleteMachine
  <2>1. NoKeys \in KeySets
    BY DEF NoKeys, KeySets
  <2> QED
    BY <1>5, <2>1 DEF DeleteMachine
<1>6. CASE Register
  BY <1>6, NewNodeType DEF Register
<1>7. CASE LoseNode
  <2>1. NoKeys \in KeySets
    BY DEF NoKeys, KeySets
  <2> QED
    BY <1>7, <2>1 DEF LoseNode
<1>8. CASE EditNode
  <2>1. PICK k \in Kinds, key \in Keys, x \in {"other", "no"} :
           /\ node' = [node EXCEPT !.set[k][key] = x]
           /\ foreign' = [foreign EXCEPT ![k] = foreign'[k]] /\ foreign'[k] \in SUBSET Keys
    BY <1>8 DEF EditNode, KeySets
  <2>2. node \in NodeObjects
    BY <1>8 DEF EditNode
  <2>3. node' \in NodeObjects
    BY <2>1, <2>2, Zenon DEF NodeObjects
  <2>4. foreign' \in KeySets
    BY <2>1 DEF KeySets
  <2> QED
    BY <1>8, <2>3, <2>4 DEF EditNode
<1>9. CASE SyncNode \/ ResyncMachine
  BY <1>9 DEF SyncNode, ResyncMachine
<1> QED
  BY <1>1, <1>2, <1>3, <1>4, <1>5, <1>6, <1>7, <1>8, <1>9, Zenon DEF NodeNext, LabelStep

LEMMA LabelFlagsStep ==
    ASSUME LabelFlags, NodeNext
    PROVE  LabelFlags'
<1>1. due' = due \/ due' = TRUE \/ due' = FALSE
  BY Zenon DEF NodeNext, LabelStep, CSRStep, labelVars, ReconcileNodeLabels, PatchNode,
               CreateMachine, DeleteMachine, Register, LoseNode, EditNode, SyncNode,
               ResyncMachine
<1>2. crossed' = crossed \/ crossed' = (crossed \/ base # None \/ seen # None)
  BY Zenon DEF NodeNext, LabelStep, CSRStep, labelVars, ReconcileNodeLabels, PatchNode,
               CreateMachine, DeleteMachine, Register, LoseNode, EditNode, SyncNode,
               ResyncMachine
<1>3. due' \in BOOLEAN
  BY <1>1, Zenon DEF LabelFlags
<1>4. crossed' \in BOOLEAN
  BY <1>2, Zenon DEF LabelFlags
<1> QED
  BY <1>3, <1>4, Zenon DEF LabelFlags
-----------------------------------------------------------------------------
(* The keys remembered on a Node, wherever a copy of it is, were applied.  *)
Remembered(x) == x # None => \A k \in Kinds : ParseManagedKeys(x.managed[k]) \subseteq applied[k]

Tracks(n) == \A k \in Kinds, key \in Keys :
                 n.set[k][key] = "spec" => key \in ParseManagedKeys(n.managed[k])

(* The Node has been patched for this machine, or else the copy shows what *)
(* earlier machines left on it.                                            *)
Patched(k) == /\ node.managed[k] = FormatManagedKeys(desired[k])
              /\ \A key \in Keys : node.set[k][key] = "spec" => key \in desired[k]

Shows(x, k) == /\ x.managed[k] = node.managed[k]
               /\ \A key \in Keys : node.set[k][key] = "spec" => x.set[k][key] = "spec"

Current(x) == \A k \in Kinds : Patched(k) \/ Shows(x, k)

KeysInv ==
    /\ base # None => Me \in owners
    /\ node = None => foreign = NoKeys
    /\ Remembered(node) /\ Remembered(seen) /\ Remembered(base)
    /\ ForeignKeysKept

CopiesInv == node # None => /\ Tracks(node)
                            /\ seen # None /\ Me \in owners => Current(seen)
                            /\ base # None => Current(base)

DueInv == due => Me \in owners

LEMMA DueStep ==
    ASSUME DueInv, KeysInv, NodeNext
    PROVE  DueInv'
<1> USE DEF DueInv
<1>1. CASE CSRStep
  <2>1. UNCHANGED <<due, owners>>
    BY <1>1 DEF CSRStep, labelVars, CSRWorker, ReconcileCSR, Approve, Post, OtherDecision,
                SyncCSR, SyncOwners, ResyncCSRs
  <2> QED
    BY <2>1, Zenon
<1>2. CASE ReconcileNodeLabels
  <2>1. owners' = owners /\ (due' = FALSE \/ due' = due)
    BY <1>2, Zenon DEF ReconcileNodeLabels, csrVars
  <2> QED
    BY <2>1, Zenon
<1>3. CASE PatchNode
  BY <1>3, Zenon DEF PatchNode, KeysInv
<1>4. CASE CreateMachine
  BY <1>4 DEF CreateMachine
<1>5. CASE DeleteMachine
  BY <1>5, Zenon DEF DeleteMachine
<1>6. CASE Register \/ LoseNode \/ EditNode \/ SyncNode
  <2>1. owners' = owners /\ due' = due
    BY <1>6, Zenon DEF Register, LoseNode, EditNode, SyncNode, csrVars
  <2> QED
    BY <2>1, Zenon
<1>7. CASE ResyncMachine
  BY <1>7, Zenon DEF ResyncMachine, csrVars
<1> QED
  BY <1>1, <1>2, <1>3, <1>4, <1>5, <1>6, <1>7, Zenon DEF NodeNext, LabelStep

(* After a patch, for any Node and any copy it was made against.           *)
LEMMA PatchKeeps ==
    ASSUME LabelData, KeysInv, PatchNode
    PROVE  KeysInv'
<1> USE DEF LabelData, KeysInv
<1>1. base \in NodeObjects /\ base' = None /\ UNCHANGED <<owners, seen, foreign, desired>>
  BY DEF PatchNode
<1>2. CASE UNCHANGED <<node, applied>>
  BY <1>1, <1>2 DEF Remembered, ForeignKeysKept
<1>3. CASE /\ node # None /\ node' = MergeFrom(node, base)
           /\ applied' = [k \in Kinds |-> applied[k] \cup desired[k]]
  <2>1. node \in NodeObjects /\ node' \in NodeObjects /\ node' # None
    BY <1>1, <1>3, MergeType, ManagedKeysRead, NodeAssumption
  <2>2. \A k \in Kinds : /\ applied[k] \subseteq applied'[k]
                         /\ desired[k] \subseteq applied'[k]
                         /\ desired[k] \in SUBSET Keys
    BY <1>3 DEF KeySets
  <2>3. Remembered(seen)' /\ Remembered(base)'
    BY <1>1, <2>2 DEF Remembered
  <2>4. ASSUME NEW k \in Kinds
        PROVE  ParseManagedKeys(node'.managed[k]) \subseteq applied'[k]
    <3>1. node'.managed[k] \in {node.managed[k], FormatManagedKeys(desired[k])}
      BY <1>3 DEF MergeFrom, Wanted
    <3> QED
      BY <1>3, <2>2, <3>1, ManagedKeysRead, NodeAssumption DEF Remembered
  <2>5. ASSUME NEW k \in Kinds, NEW key \in foreign[k] \ applied'[k]
        PROVE  node'.set[k][key] = "other"
    <3>1. key \in Keys /\ key \notin desired[k] /\ key \in foreign[k] \ applied[k]
      BY <2>2 DEF KeySets
    <3>2. key \notin ParseManagedKeys(base.managed[k])
      BY <1>1, <3>1, ManagedKeysRead, NodeAssumption DEF Remembered
    <3>3. node.set[k][key] = "other"
      BY <1>3, <3>1 DEF ForeignKeysKept
    <3> QED
      BY <1>3, <3>1, <3>2, <3>3, MergedParts, SMTT(30)
  <2>6. Remembered(node)'
    BY <2>4 DEF Remembered
  <2>7. ForeignKeysKept'
    BY <1>1, <2>5 DEF ForeignKeysKept
  <2> QED
    BY <1>1, <2>1, <2>3, <2>6, <2>7
<1> QED
  BY <1>2, <1>3 DEF PatchNode

LEMMA PatchTracks ==
    ASSUME LabelData, CopiesInv, PatchNode
    PROVE  CopiesInv'
<1>1. /\ base \in NodeObjects /\ base # None /\ base' = None
      /\ UNCHANGED <<owners, seen, desired>>
  BY DEF PatchNode, LabelData
<1>2. CASE UNCHANGED node
  BY <1>1, <1>2 DEF CopiesInv, Tracks, Current, Patched, Shows
<1>3. CASE node # None /\ node' = MergeFrom(node, base)
  <2>1. Tracks(node) /\ Current(base)
    BY <1>1, <1>3 DEF CopiesInv
  <2>2. \A k \in Kinds : desired[k] \in SUBSET Keys
    BY DEF LabelData, KeySets
  <2>3. ASSUME NEW k \in Kinds
        PROVE  node'.managed[k] = FormatManagedKeys(desired[k])
    BY <1>3, <2>1 DEF Current, Patched, Shows, MergeFrom, Wanted
  <2>4. ASSUME NEW k \in Kinds, NEW key \in Keys, node'.set[k][key] = "spec"
        PROVE  key \in desired[k]
    <3> SUFFICES ASSUME key \notin desired[k] PROVE FALSE
      OBVIOUS
    <3> DEFINE want == IF key \in ParseManagedKeys(base.managed[k]) THEN "no"
                       ELSE base.set[k][key]
    <3>1. node'.set[k][key] = IF want = base.set[k][key] THEN node.set[k][key] ELSE want
      BY <1>3, MergedParts
    <3>2. node.set[k][key] = "spec" /\ want = base.set[k][key]
      BY <2>4, <3>1
    <3>3. key \in ParseManagedKeys(node.managed[k])
      BY <2>1, <3>2 DEF Tracks
    <3>4. ~Patched(k)
      BY <3>2 DEF Patched
    <3>5. base.managed[k] = node.managed[k] /\ base.set[k][key] = "spec"
      BY <2>1, <3>2, <3>4 DEF Current, Shows
    <3> QED
      BY <3>2, <3>3, <3>5
  <2>5. \A k \in Kinds : Patched(k)'
    BY <1>1, <2>3, <2>4 DEF Patched
  <2>6. Tracks(node)'
    BY <2>2, <2>3, <2>4, ManagedKeysRead, NodeAssumption DEF Tracks
  <2> QED
    BY <1>1, <2>5, <2>6 DEF CopiesInv, Current
<1> QED
  BY <1>2, <1>3 DEF PatchNode

LEMMA KeysStep ==
    ASSUME LabelData, DueInv, KeysInv, NodeNext
    PROVE  KeysInv'
<1> USE DEF LabelData, KeysInv
<1>1. ASSUME UNCHANGED <<owners, node, seen, base, applied, foreign>> PROVE KeysInv'
  BY <1>1 DEF Remembered, ForeignKeysKept
<1>2. CASE CSRStep
  BY <1>1, <1>2, Zenon DEF CSRStep, labelVars, CSRWorker, ReconcileCSR, Approve, Post,
                    OtherDecision, SyncCSR, SyncOwners, ResyncCSRs
<1>3. CASE ReconcileNodeLabels
  <2>1. Me \in owners
    BY <1>3, Zenon DEF ReconcileNodeLabels, DueInv
  <2>2. UNCHANGED <<owners, node, seen, applied, foreign>> /\ base' \in {base, seen}
    BY <1>3, Zenon DEF ReconcileNodeLabels, csrVars
  <2> QED
    BY <2>1, <2>2 DEF Remembered, ForeignKeysKept
<1>4. CASE CreateMachine
  BY <1>4 DEF CreateMachine, Remembered, ForeignKeysKept
<1>5. CASE DeleteMachine \/ LoseNode
  <2>1. /\ UNCHANGED <<seen, base, applied>> /\ (base # None => Me \in owners')
        /\ \/ UNCHANGED <<node, foreign>>
           \/ node' = None /\ foreign' = NoKeys
    BY <1>5 DEF DeleteMachine, LoseNode
  <2> QED
    BY <2>1 DEF Remembered, ForeignKeysKept
<1>6. CASE Register
  <2>1. /\ UNCHANGED <<owners, seen, base, applied, foreign>>
        /\ node' = NewNode /\ foreign = NoKeys
    BY <1>6 DEF Register, csrVars
  <2>2. Remembered(node)' /\ ForeignKeysKept'
    BY <2>1, NewNodeType DEF Remembered, ForeignKeysKept, NoKeys
  <2> QED
    BY <2>1, <2>2 DEF Remembered
<1>7. CASE EditNode
  <2>1. node \in NodeObjects /\ UNCHANGED <<owners, seen, base, applied>>
    BY <1>7 DEF EditNode
  <2>2. PICK k \in Kinds, key \in Keys :
           \/ /\ node' = [node EXCEPT !.set[k][key] = "other"]
              /\ foreign' = [foreign EXCEPT ![k] = @ \cup {key}]
           \/ /\ node' = [node EXCEPT !.set[k][key] = "no"]
              /\ foreign' = [foreign EXCEPT ![k] = @ \ {key}]
    BY <1>7 DEF EditNode
  <2>3. node'.managed = node.managed
    BY <2>1, <2>2 DEF NodeObjects
  <2>4. ASSUME NEW j \in Kinds, NEW x \in foreign'[j] \ applied[j]
        PROVE  node'.set[j][x] = "other"
    <3>1. x \in Keys
      BY <2>2, <2>4 DEF KeySets
    <3>2. CASE j = k /\ x = key
      <4>1. foreign \in [Kinds -> SUBSET Keys]
        BY DEF KeySets
      <4>2. node' = [node EXCEPT !.set[k][key] = "other"]
        BY <2>2, <2>4, <3>2, <4>1
      <4>3. node.set \in [Kinds -> [Keys -> {"no", "spec", "other"}]]
        BY <2>1 DEF NodeObjects
      <4>4. node'.set = [node.set EXCEPT ![k][key] = "other"]
        BY <2>1, <4>2 DEF NodeObjects
      <4> QED
        BY <3>2, <4>3, <4>4
    <3>3. CASE ~(j = k /\ x = key)
      <4>1. x \in foreign[j] \ applied[j]
        BY <2>2, <2>4, <3>3 DEF KeySets
      <4>2. node.set[j][x] = "other"
        BY <2>1, <4>1, ManagedKeysRead, NodeAssumption DEF ForeignKeysKept
      <4> QED
        BY <2>1, <2>2, <3>1, <3>3, <4>2, SMTT(30) DEF NodeObjects
    <3> QED
      BY <3>2, <3>3
  <2>5. node' # None
    <3>1. PICK x \in {"other", "no"} : node' = [node EXCEPT !.set[k][key] = x]
      BY <2>2
    <3>2. node' \in NodeObjects
      BY <2>1, <3>1, Zenon DEF NodeObjects
    <3> QED
      BY <3>2, ManagedKeysRead, NodeAssumption
  <2>6. Remembered(node)' /\ ForeignKeysKept'
    BY <2>1, <2>3, <2>4, ManagedKeysRead, NodeAssumption DEF Remembered, ForeignKeysKept
  <2> QED
    BY <2>1, <2>5, <2>6 DEF Remembered
<1>8. CASE SyncNode
  BY <1>8 DEF SyncNode, csrVars, Remembered, ForeignKeysKept
<1>9. CASE ResyncMachine
  BY <1>1, <1>9 DEF ResyncMachine, csrVars
<1> QED
  BY <1>2, <1>3, <1>4, <1>5, <1>6, <1>7, <1>8, <1>9, PatchKeeps, Zenon DEF NodeNext, LabelStep

LEMMA CopiesStep ==
    ASSUME LabelData, DueInv, KeysInv, ~crossed => CopiesInv, NodeNext, ~crossed'
    PROVE  CopiesInv'
<1>0. ~crossed
  BY Zenon DEF NodeNext, LabelStep, CSRStep, labelVars, ReconcileNodeLabels, PatchNode,
               CreateMachine, DeleteMachine, Register, LoseNode, EditNode, SyncNode,
               ResyncMachine
<1> USE <1>0 DEF LabelData
<1>1. ASSUME UNCHANGED <<owners, node, seen, base, desired>> PROVE CopiesInv'
  BY <1>1 DEF CopiesInv, Tracks, Current, Patched, Shows
<1>2. CASE CSRStep
  BY <1>1, <1>2, Zenon DEF CSRStep, labelVars, CSRWorker, ReconcileCSR, Approve, Post,
                    OtherDecision, SyncCSR, SyncOwners, ResyncCSRs
<1>3. CASE ReconcileNodeLabels
  <2>1. Me \in owners
    BY <1>3, Zenon DEF ReconcileNodeLabels, DueInv
  <2>2. UNCHANGED <<owners, node, seen, desired>> /\ base' \in {base, seen}
    BY <1>3, Zenon DEF ReconcileNodeLabels, csrVars
  <2>3. node # None => Tracks(node)'
    BY <2>2 DEF CopiesInv, Tracks
  <2>4. Current(seen) => Current(seen)'
    BY <2>2 DEF Current, Patched, Shows
  <2>5. base' = base /\ Current(base) => Current(base)'
    BY <2>2 DEF Current, Patched, Shows
  <2>6. base' = seen /\ Current(seen) => Current(base)'
    BY <2>2 DEF Current, Patched, Shows
  <2> QED
    BY <2>1, <2>2, <2>3, <2>4, <2>5, <2>6 DEF CopiesInv
<1>4. CASE CreateMachine
  <2>1. UNCHANGED <<node, seen, base>> /\ base = None /\ seen = node
    BY <1>4 DEF CreateMachine
  <2> QED
    BY <2>1 DEF CopiesInv, Tracks, Current, Shows
<1>5. CASE DeleteMachine
  <2>1. /\ UNCHANGED <<seen, base>> /\ base = None /\ Me \notin owners'
        /\ node' \in {node, None}
    BY <1>5 DEF DeleteMachine
  <2> QED
    BY <2>1 DEF CopiesInv, Tracks
<1>6. CASE LoseNode
  BY <1>6 DEF LoseNode, CopiesInv
<1>7. CASE Register
  <2>1. base = None /\ seen = None
    BY <1>7, Zenon DEF Register
  <2>2. node' = NewNode /\ UNCHANGED <<seen, base>>
    BY <1>7 DEF Register
  <2> QED
    BY <2>1, <2>2 DEF CopiesInv, Tracks, NewNode
<1>8. CASE EditNode
  <2>1. node \in NodeObjects /\ node # None /\ UNCHANGED <<owners, seen, base, desired>>
    BY <1>8 DEF EditNode
  <2>2. PICK k \in Kinds, key \in Keys, x \in {"other", "no"} :
           node' = [node EXCEPT !.set[k][key] = x]
    BY <1>8 DEF EditNode
  <2>3. /\ node'.managed = node.managed
        /\ \A j \in Kinds, y \in Keys : node'.set[j][y] = "spec" => node.set[j][y] = "spec"
    BY <2>1, <2>2 DEF NodeObjects
  <2>4. \A j \in Kinds : Patched(j) => Patched(j)'
    BY <2>1, <2>3 DEF Patched
  <2>5. \A j \in Kinds : /\ Shows(seen, j) => Shows(seen, j)'
                         /\ Shows(base, j) => Shows(base, j)'
    BY <2>1, <2>3 DEF Shows
  <2>6. Tracks(node) => Tracks(node)'
    BY <2>3 DEF Tracks
  <2> QED
    BY <2>1, <2>4, <2>5, <2>6 DEF CopiesInv, Current
<1>9. CASE SyncNode
  <2>1. UNCHANGED <<owners, node, base, desired>> /\ seen' = node
    BY <1>9 DEF SyncNode, csrVars
  <2> QED
    BY <2>1 DEF CopiesInv, Tracks, Current, Patched, Shows
<1>10. CASE ResyncMachine
  BY <1>1, <1>10 DEF ResyncMachine, csrVars
<1> QED
  BY <1>2, <1>3, <1>4, <1>5, <1>6, <1>7, <1>8, <1>9, <1>10, PatchTracks, Zenon
     DEF NodeNext, LabelStep
-----------------------------------------------------------------------------
(* The inductive invariant.                                                *)
NodeInv == /\ CSRTypeOK /\ LabelData /\ LabelFlags
           /\ ApprovalInv /\ DueInv /\ KeysInv
           /\ ~crossed => CopiesInv

LEMMA NodeInvInit ==
    ASSUME LabelInit
    PROVE  NodeInv
<1>1. CSRTypeOK
  BY CSRAssumption DEF LabelInit, CSRInit, CSRTypeOK, Conditions
<1>2. LabelData
  BY DEF LabelInit, LabelData, NoKeys, KeySets
<1>3. LabelFlags /\ DueInv
  BY Zenon DEF LabelInit, LabelFlags, DueInv
<1>4. ApprovalInv
  <2>1. \A c \in CSRs : decided[c] = None /\ loaded[c] = None
    BY DEF LabelInit, CSRInit
  <2>2. None # {"Approved", "Denied"}
    BY CSRAssumption
  <2> QED
    BY <2>1, <2>2 DEF LabelInit, CSRInit, ApprovalInv, OneDecision
<1>5. KeysInv /\ CopiesInv
  BY DEF LabelInit, KeysInv, Remembered, ForeignKeysKept, CopiesInv
<1> QED
  BY <1>1, <1>2, <1>3, <1>4, <1>5, Zenon DEF NodeInv

LEMMA OtherSteps ==
    ASSUME CSRTypeOK, ApprovalInv, NodeNext, ~CSRStep
    PROVE  CSRTypeOK' /\ ApprovalInv'
<1>1. UNCHANGED <<asks, decided, known, listed, csrQueue, loaded, ours>>
  BY Zenon DEF NodeNext, LabelStep, ReconcileNodeLabels, PatchNode, CreateMachine,
         DeleteMachine, Register, LoseNode, EditNode, SyncNode, ResyncMachine, csrVars
<1>2. owners' \in {owners, owners \cup {Me}, owners \ {Me}}
  BY Zenon DEF NodeNext, LabelStep, ReconcileNodeLabels, PatchNode, CreateMachine,
         DeleteMachine, Register, LoseNode, EditNode, SyncNode, ResyncMachine, csrVars
<1>3. UNCHANGED faults \/ Fault
  BY Zenon DEF NodeNext, LabelStep, ReconcileNodeLabels, PatchNode, CreateMachine,
         DeleteMachine, Register, LoseNode, EditNode, SyncNode, ResyncMachine, csrVars
<1>4. faults' \in 0..MaxFaults
  BY <1>3, FaultCounts DEF CSRTypeOK
<1> QED
  BY <1>1, <1>2, <1>4, LabelsAssumption, SMTT(30) DEF CSRTypeOK, ApprovalInv, OneDecision, Good

LEMMA NodeInvStep ==
    ASSUME NodeInv, [NodeNext]_allVars
    PROVE  NodeInv'
<1>1. CASE NodeNext
  <2>1. CSRTypeOK' /\ ApprovalInv'
    BY <1>1, CSRTypesStep, ApprovalStep, OtherSteps DEF NodeInv
  <2>2. LabelData' /\ LabelFlags' /\ DueInv' /\ KeysInv'
    BY <1>1, LabelDataStep, LabelFlagsStep, DueStep, KeysStep DEF NodeInv
  <2>3. ASSUME ~crossed' PROVE CopiesInv'
    BY <1>1, <2>3, CopiesStep DEF NodeInv
  <2> QED
    BY <2>1, <2>2, <2>3, Zenon DEF NodeInv
<1>2. CASE UNCHANGED allVars
  <2>1. CSRTypeOK' /\ ApprovalInv'
    BY <1>2 DEF NodeInv, allVars, csrVars, CSRTypeOK, ApprovalInv, OneDecision, Good
  <2>2. due' = due /\ crossed' = crossed /\ owners' = owners
    BY <1>2 DEF allVars, csrVars, labelVars
  <2>3. LabelData' /\ KeysInv'
    BY <1>2 DEF NodeInv, allVars, csrVars, labelVars, LabelData, KeysInv, Remembered,
                ForeignKeysKept
  <2>4. LabelFlags' /\ DueInv'
    BY <2>2, Zenon DEF NodeInv, LabelFlags, DueInv
  <2>5. CopiesInv => CopiesInv'
    BY <1>2 DEF allVars, csrVars, labelVars, CopiesInv, Tracks, Current, Patched, Shows
  <2> QED
    BY <2>1, <2>2, <2>3, <2>4, <2>5, Zenon DEF NodeInv
<1> QED
  BY <1>1, <1>2

LEMMA NodeInvHolds == NodeSpec => []NodeInv
BY NodeInvInit, NodeInvStep, PTL DEF NodeSpec

(* Requests, Nodes and their copies stay in their types.                   *)
THEOREM NodeTypes == NodeSpec => []LabelTypeOK
<1>1. ASSUME NodeInv PROVE LabelTypeOK
  BY <1>1, LabelTypeParts, Zenon DEF NodeInv
<1> QED
  BY <1>1, NodeInvHolds, PTL

(* The merge patch of reconcileNodeLabels leaves every key alone that only *)
(* others set, however old the Node is that it was computed from.          *)
THEOREM OthersKeysAreKept == NodeSpec => []ForeignKeysKept
<1>1. ASSUME NodeInv PROVE ForeignKeysKept
  BY <1>1 DEF NodeInv, KeysInv
<1> QED
  BY <1>1, NodeInvHolds, PTL

(* What reconcileNodeLabels set is remembered on the Node, so that a later *)
(* machine of the name can remove it, until a patch meets another Node     *)
(* than it was computed from.                                              *)
THEOREM AppliedKeysAreTracked == NodeSpec => []KeysTracked
<1>1. ASSUME NodeInv PROVE KeysTracked
  <2>1. ASSUME ~crossed, node # None PROVE Tracks(node)
    <3>1. CopiesInv
      BY <1>1, <2>1, Zenon DEF NodeInv
    <3> QED
      BY <2>1, <3>1 DEF CopiesInv
  <2> QED
    BY <2>1, Zenon DEF KeysTracked, Tracks
<1> QED
  BY <1>1, NodeInvHolds, PTL

(* The approver adds no approval to a request that is denied: it writes    *)
(* with the version it read, which had no decision.                        *)
THEOREM DecidedOnce == NodeSpec => []OneDecision
<1>1. ASSUME NodeInv PROVE OneDecision
  BY <1>1 DEF NodeInv, ApprovalInv
<1> QED
  BY <1>1, NodeInvHolds, PTL

(* Whatever is requested, the approver only approves what the node of a    *)
(* LibvirtMachine, or a bootstrapper for it, asked for.                    *)
THEOREM ApprovalsAreForNodes == NodeSpec => []ApprovedForItsNode
<1>1. ASSUME NodeInv PROVE ApprovedForItsNode
  BY <1>1 DEF NodeInv, ApprovalInv, Good, ApprovedForItsNode, CSRTypeOK
<1> QED
  BY <1>1, NodeInvHolds, PTL
=============================================================================
