---------------------------- MODULE IgnitionProofs ----------------------------
(***************************************************************************)
(* The rendered ignition config, for templates and injected files of any   *)
(* number and length. The library's induction theorems take an operator    *)
(* and are of no use to the provers; its theorem on minimal elements gives *)
(* induction over a set of numbers, and with it what the loop over the     *)
(* files computes.                                                         *)
(***************************************************************************)
EXTENDS IgnitionConfig, SequenceTheorems, FiniteSetTheorems, WellFoundedInduction, TLAPS

(* A set of numbers has a least one.                                       *)
LEMMA Least ==
    ASSUME NEW T, T \subseteq Nat, T # {}
    PROVE  \E n \in T : \A m \in T : n <= m
<1> DEFINE R == {ss \in Nat \X Nat : ss[1] < ss[2]}
<1>1. IsWellFoundedOn(R, Nat)
  BY NatLessThanWellFounded DEF OpToRel
<1>3. \A x, y \in Nat : y < x => <<y, x>> \in R
  OBVIOUS
<1> HIDE DEF R
<1>2. PICK x \in T : \A y \in T : ~ (<<y, x>> \in R)
  BY <1>1, WFMin
<1>4. \A m \in T : x <= m
  <2> TAKE m \in T
  <2>1. x \in Nat /\ m \in Nat /\ ~(m < x)
    BY <1>2, <1>3
  <2> QED
    BY <2>1
<1> QED
  BY <1>4

(* A set with 0 that has n + 1 with each n has every number.               *)
LEMMA SetInduction ==
    ASSUME NEW S, 0 \in S, \A n \in Nat : n \in S => n + 1 \in S
    PROVE  Nat \subseteq S
<1> DEFINE T == {n \in Nat : n \notin S}
<1> SUFFICES ASSUME T # {} PROVE FALSE
  OBVIOUS
<1>1. PICK n \in T : \A m \in T : n <= m
  <2>1. T \subseteq Nat
    OBVIOUS
  <2> HIDE DEF T
  <2> QED
    BY <2>1, Least
<1>2. n # 0 /\ n \in Nat
  OBVIOUS
<1>3. n - 1 \in Nat /\ n - 1 \notin T
  BY <1>1, <1>2
<1> QED
  BY <1>1, <1>2, <1>3

(* The equations of the loop over the first n files.                       *)
Kept(f, s, P, n) ==
    \A i \in 0..n : f[i] = IF i = 0 THEN << >>
                           ELSE IF s[i].path \in P THEN f[i-1]
                           ELSE Append(f[i-1], s[i])

(* They have a solution, one file after the other.                         *)
LEMMA FilterExists ==
    ASSUME NEW F, NEW s \in Seq(F), NEW P, NEW n \in Nat, n <= Len(s)
    PROVE  \E f \in [0..n -> Seq(F)] : Kept(f, s, P, n)
<1> DEFINE S == {m \in Nat : m <= Len(s) => \E f \in [0..m -> Seq(F)] : Kept(f, s, P, m)}
<1>1. 0 \in S
  <2>1. [i \in 0..0 |-> << >>] \in [0..0 -> Seq(F)]
    BY EmptySeq
  <2>2. Kept([i \in 0..0 |-> << >>], s, P, 0)
    BY DEF Kept
  <2> QED
    BY <2>1, <2>2
<1>2. ASSUME NEW m \in Nat, m \in S PROVE m + 1 \in S
  <2> SUFFICES ASSUME m + 1 <= Len(s)
               PROVE  \E f \in [0..m+1 -> Seq(F)] : Kept(f, s, P, m+1)
    OBVIOUS
  <2>0. Len(s) \in Nat
    OBVIOUS
  <2>1. PICK f \in [0..m -> Seq(F)] : Kept(f, s, P, m)
    BY <1>2, <2>0
  <2> DEFINE e == IF s[m+1].path \in P THEN f[m] ELSE Append(f[m], s[m+1])
             g == [i \in 0..m+1 |-> IF i = m+1 THEN e ELSE f[i]]
  <2>2. s[m+1] \in F
    BY <2>0
  <2>3. f[m] \in Seq(F)
    OBVIOUS
  <2>4. e \in Seq(F)
    BY <2>2, <2>3
  <2>5. g \in [0..m+1 -> Seq(F)]
    BY <2>4
  <2>6. Kept(g, s, P, m+1)
    <3> SUFFICES ASSUME NEW i \in 0..m+1
                 PROVE  g[i] = IF i = 0 THEN << >>
                               ELSE IF s[i].path \in P THEN g[i-1]
                               ELSE Append(g[i-1], s[i])
      BY DEF Kept
    <3>1. CASE i = m+1
      <4>1. g[i] = e /\ g[i-1] = f[m] /\ i # 0
        BY <3>1
      <4> QED
        BY <4>1, <3>1
    <3>2. CASE i # m+1
      <4>1. i \in 0..m /\ g[i] = f[i]
        BY <3>2
      <4>2. i # 0 => g[i-1] = f[i-1]
        BY <3>2
      <4> HIDE DEF g
      <4> QED
        BY <4>1, <4>2, <2>1 DEF Kept
    <3> QED
      BY <3>1, <3>2
  <2> HIDE DEF g
  <2> QED
    BY <2>5, <2>6
<1> HIDE DEF S
<1>3. n \in S
  BY <1>1, <1>2, SetInduction
<1> QED
  BY <1>3 DEF S

(* So the recursive definition of Filtered is met.                         *)
LEMMA FilterEquation ==
    ASSUME NEW F, NEW s \in Seq(F), NEW P
    PROVE  /\ Filtered(s, P) \in [0..Len(s) -> Seq(F)]
           /\ Kept(Filtered(s, P), s, P, Len(s))
<1> DEFINE IsF(f) == f = [i \in 0..Len(s) |->
                             IF i = 0 THEN << >>
                             ELSE IF s[i].path \in P THEN f[i-1]
                             ELSE Append(f[i-1], s[i])]
<1>0. Len(s) \in Nat /\ Len(s) <= Len(s)
  OBVIOUS
<1>1. PICK f \in [0..Len(s) -> Seq(F)] : Kept(f, s, P, Len(s))
  <2> HIDE DEF IsF
  <2> QED
    BY <1>0, FilterExists
<1>2. IsF(f)
  BY <1>1 DEF Kept
<1>3. Filtered(s, P) = CHOOSE g : IsF(g)
  BY DEF Filtered
<1> DEFINE g == Filtered(s, P)
<1>4. IsF(g)
  <2> HIDE DEF IsF
  <2> QED
    BY <1>2, <1>3
<1> HIDE DEF g
<1>5. Kept(g, s, P, Len(s))
  BY <1>4 DEF Kept
<1>6. DOMAIN g = 0..Len(s) /\ g = [i \in 0..Len(s) |-> g[i]]
  BY <1>4
<1> HIDE DEF IsF
<1>7. ASSUME NEW i \in 0..Len(s) PROVE g[i] = f[i]
  <2> DEFINE S == {m \in Nat : m <= Len(s) => g[m] = f[m]}
  <2>1. 0 \in S
    BY <1>0, <1>1, <1>5 DEF Kept
  <2>2. ASSUME NEW m \in Nat, m \in S PROVE m + 1 \in S
    <3> SUFFICES ASSUME m + 1 <= Len(s) PROVE g[m+1] = f[m+1]
      OBVIOUS
    <3>1. g[m] = f[m] /\ m + 1 \in 0..Len(s) /\ m + 1 # 0 /\ (m + 1) - 1 = m
      BY <1>0, <2>2
    <3> QED
      BY <3>1, <1>1, <1>5 DEF Kept
  <2> HIDE DEF S
  <2>3. i \in S
    BY <2>1, <2>2, <1>0, SetInduction
  <2> QED
    BY <2>3, <1>0 DEF S
<1>8. g \in [0..Len(s) -> Seq(F)]
  BY <1>6, <1>7
<1> QED
  BY <1>5, <1>8 DEF g

LEMMA WithoutSeq ==
    ASSUME NEW F, NEW s \in Seq(F), NEW P
    PROVE  Without(s, P) \in Seq(F)
<1>1. Len(s) \in 0..Len(s)
  OBVIOUS
<1> QED
  BY <1>1, FilterEquation DEF Without

(* A selection from the first m files of s: t lists the files at the       *)
(* places k, which are the ones outside P, in ascending order.             *)
Selects(k, t, s, P, m) ==
    /\ k \in [1..Len(t) -> 1..m]
    /\ \A j \in 1..Len(t) : t[j] = s[k[j]] /\ s[k[j]].path \notin P
    /\ \A i, j \in 1..Len(t) : i < j => k[i] < k[j]
    /\ \A i \in 1..m : s[i].path \notin P => \E j \in 1..Len(t) : k[j] = i

LEMMA SelectsOneMore ==
    ASSUME NEW F, NEW s \in Seq(F), NEW P, NEW t \in Seq(F), NEW m \in Nat,
           m + 1 <= Len(s), NEW k, Selects(k, t, s, P, m)
    PROVE  IF s[m+1].path \in P THEN Selects(k, t, s, P, m + 1)
           ELSE \E l : Selects(l, Append(t, s[m+1]), s, P, m + 1)
<1> DEFINE n == Len(t)
<1>1. /\ n \in Nat /\ k \in [1..n -> 1..m] /\ m + 1 \in 1..Len(s) /\ s[m+1] \in F
      /\ \A i \in 1..m+1 : i \in 1..m \/ i = m + 1
  BY DEF Selects
<1>2. CASE s[m+1].path \in P
  BY <1>1, <1>2 DEF Selects
<1>3. CASE s[m+1].path \notin P
  <2> DEFINE u == Append(t, s[m+1])
             l == [j \in 1..n+1 |-> IF j <= n THEN k[j] ELSE m + 1]
  <2>1. Len(u) = n + 1 /\ u[n+1] = s[m+1] /\ \A j \in 1..n : u[j] = t[j]
    BY <1>1
  <2>2. l[n+1] = m + 1 /\ \A j \in 1..n : l[j] = k[j] /\ l[j] \in 1..m
    BY <1>1
  <2>3. l \in [1..n+1 -> 1..m+1]
    BY <1>1
  <2> HIDE DEF u, l, n
  <2>4. \A j \in 1..n+1 : j \in 1..n \/ j = n + 1
    BY <1>1
  <2>5. \A j \in 1..n+1 : u[j] = s[l[j]] /\ s[l[j]].path \notin P
    BY <1>3, <2>1, <2>2, <2>4 DEF Selects, n
  <2>6. ASSUME NEW i \in 1..n+1, NEW j \in 1..n+1, i < j PROVE l[i] < l[j]
    <3>1. i \in 1..n
      BY <1>1, <2>6
    <3>2. CASE j \in 1..n
      BY <2>2, <2>6, <3>1, <3>2 DEF Selects, n
    <3>3. CASE j = n + 1
      BY <2>2, <3>1, <3>3
    <3> QED
      BY <2>4, <3>2, <3>3
  <2>7. ASSUME NEW i \in 1..m+1, s[i].path \notin P PROVE \E j \in 1..n+1 : l[j] = i
    <3>1. CASE i \in 1..m
      <4>1. PICK j \in 1..n : k[j] = i
        BY <2>7, <3>1 DEF Selects, n
      <4>2. j \in 1..n+1 /\ l[j] = i
        BY <1>1, <2>2, <4>1
      <4> QED
        BY <4>2, Zenon
    <3>2. CASE i = m + 1
      BY <1>1, <2>2, <3>2
    <3> QED
      BY <1>1, <3>1, <3>2
  <2>8. Selects(l, u, s, P, m + 1)
    BY <2>1, <2>3, <2>5, <2>6, <2>7 DEF Selects
  <2> QED
    BY <1>3, <2>8 DEF u
<1> QED
  BY <1>2, <1>3

(* The loop of injectFile keeps exactly the files that are at another      *)
(* path, each as often as it was there, and in their order.                *)
THEOREM LoopSelectsInOrder ==
    ASSUME NEW F, NEW s \in Seq(F), NEW P
    PROVE  \E k : Selects(k, Without(s, P), s, P, Len(s))
<1> DEFINE f == Filtered(s, P)
           S == {m \in Nat : m <= Len(s) => \E k : Selects(k, f[m], s, P, m)}
<1>1. Len(s) \in Nat /\ f \in [0..Len(s) -> Seq(F)] /\ Kept(f, s, P, Len(s))
  BY FilterEquation
<1> HIDE DEF f
<1>2. 0 \in S
  <2>1. f[0] = << >>
    BY <1>1 DEF Kept
  <2>2. Len(<< >>) = 0 /\ 1..0 = {}
    OBVIOUS
  <2>3. << >> \in [1..0 -> 1..0]
    OBVIOUS
  <2>4. Selects(<< >>, << >>, s, P, 0)
    BY <2>2, <2>3 DEF Selects
  <2> QED
    BY <2>1, <2>4
<1>3. ASSUME NEW m \in Nat, m \in S PROVE m + 1 \in S
  <2> SUFFICES ASSUME m + 1 <= Len(s) PROVE \E k : Selects(k, f[m+1], s, P, m + 1)
    OBVIOUS
  <2>1. m \in 0..Len(s) /\ m + 1 \in 0..Len(s) /\ m + 1 # 0 /\ (m + 1) - 1 = m
    BY <1>1
  <2>2. PICK k : Selects(k, f[m], s, P, m)
    BY <1>1, <1>3, <2>1
  <2>3. f[m] \in Seq(F)
    BY <1>1, <2>1
  <2>4. f[m+1] = IF s[m+1].path \in P THEN f[m] ELSE Append(f[m], s[m+1])
    BY <1>1, <2>1 DEF Kept
  <2>5. IF s[m+1].path \in P THEN Selects(k, f[m], s, P, m + 1)
        ELSE \E l : Selects(l, Append(f[m], s[m+1]), s, P, m + 1)
    BY <2>2, <2>3, SelectsOneMore
  <2> QED
    BY <2>4, <2>5, Zenon
<1> HIDE DEF S
<1>4. Len(s) \in S
  BY <1>1, <1>2, <1>3, SetInduction
<1> QED
  BY <1>1, <1>4 DEF S, f, Without

(* One more file is kept or left out.                                      *)
LEMMA WithoutAppend ==
    ASSUME NEW F, NEW s \in Seq(F), NEW e \in F, NEW P
    PROVE  Without(Append(s, e), P)
              = IF e.path \in P THEN Without(s, P) ELSE Append(Without(s, P), e)
<1> DEFINE t == Append(s, e)
           f == Filtered(s, P)
           g == Filtered(t, P)
<1>1. /\ t \in Seq(F) /\ Len(s) \in Nat /\ Len(t) = Len(s) + 1
      /\ t[Len(s) + 1] = e /\ \A i \in 1..Len(s) : t[i] = s[i]
  OBVIOUS
<1>2. Kept(f, s, P, Len(s))
  BY FilterEquation
<1>3. Kept(g, t, P, Len(t))
  <2> HIDE DEF t
  <2> QED
    BY <1>1, FilterEquation
<1>4. Without(s, P) = f[Len(s)] /\ Without(t, P) = g[Len(s) + 1]
  BY <1>1 DEF Without
<1> HIDE DEF t, f, g
<1>5. f[Len(s)] = g[Len(s)]
  <2> DEFINE S == {m \in Nat : m <= Len(s) => g[m] = f[m]}
  <2>1. 0 \in S
    BY <1>1, <1>2, <1>3 DEF Kept
  <2>2. ASSUME NEW m \in Nat, m \in S PROVE m + 1 \in S
    <3> SUFFICES ASSUME m + 1 <= Len(s) PROVE g[m+1] = f[m+1]
      OBVIOUS
    <3>1. /\ g[m] = f[m] /\ m + 1 \in 0..Len(s) /\ m + 1 \in 0..Len(t) /\ m + 1 # 0
          /\ (m + 1) - 1 = m /\ t[m+1] = s[m+1]
      BY <1>1, <2>2
    <3> QED
      BY <3>1, <1>2, <1>3 DEF Kept
  <2> HIDE DEF S
  <2>3. Len(s) \in S
    BY <2>1, <2>2, <1>1, SetInduction
  <2> QED
    BY <2>3, <1>1 DEF S
<1>6. Len(s) + 1 \in 0..Len(t) /\ Len(s) + 1 # 0 /\ (Len(s) + 1) - 1 = Len(s)
  BY <1>1
<1>7. g[Len(s) + 1] = IF e.path \in P THEN g[Len(s)] ELSE Append(g[Len(s)], e)
  BY <1>6, <1>3, <1>1 DEF Kept
<1> QED
  BY <1>4, <1>5, <1>7 DEF t

(* Two passes of the loop leave out what one pass for both sets does.      *)
LEMMA WithoutTwice ==
    ASSUME NEW F, NEW s \in Seq(F), NEW P, NEW Q
    PROVE  Without(Without(s, P), Q) = Without(s, P \cup Q)
<1> DEFINE f == Filtered(s, P)
           g == Filtered(s, P \cup Q)
           S == {m \in Nat : m <= Len(s) => Without(f[m], Q) = g[m]}
<1>0. Len(s) \in Nat /\ Len(s) <= Len(s)
  OBVIOUS
<1>1. f \in [0..Len(s) -> Seq(F)] /\ Kept(f, s, P, Len(s))
  BY FilterEquation
<1>2. Kept(g, s, P \cup Q, Len(s))
  BY FilterEquation
<1> HIDE DEF f, g
<1>3. 0 \in S
  <2>1. f[0] = << >> /\ g[0] = << >>
    BY <1>0, <1>1, <1>2 DEF Kept
  <2>2. Without(<< >>, Q) = << >>
    <3>1. << >> \in Seq({}) /\ Len(<< >>) = 0
      OBVIOUS
    <3>2. Kept(Filtered(<< >>, Q), << >>, Q, 0)
      BY <3>1, FilterEquation
    <3> QED
      BY <3>1, <3>2 DEF Kept, Without
  <2> QED
    BY <2>1, <2>2
<1>4. ASSUME NEW m \in Nat, m \in S PROVE m + 1 \in S
  <2> SUFFICES ASSUME m + 1 <= Len(s) PROVE Without(f[m+1], Q) = g[m+1]
    OBVIOUS
  <2>1. /\ Without(f[m], Q) = g[m] /\ m + 1 \in 0..Len(s) /\ m + 1 # 0 /\ (m + 1) - 1 = m
        /\ m \in 0..Len(s)
    BY <1>0, <1>4
  <2>2. f[m] \in Seq(F) /\ s[m+1] \in F
    BY <2>1, <1>1, <1>0
  <2>3. f[m+1] = IF s[m+1].path \in P THEN f[m] ELSE Append(f[m], s[m+1])
    BY <2>1, <1>1 DEF Kept
  <2>4. g[m+1] = IF s[m+1].path \in P \cup Q THEN g[m] ELSE Append(g[m], s[m+1])
    BY <2>1, <1>2 DEF Kept
  <2>5. Without(Append(f[m], s[m+1]), Q)
           = IF s[m+1].path \in Q THEN Without(f[m], Q) ELSE Append(Without(f[m], Q), s[m+1])
    <3> DEFINE a == f[m]
               b == s[m+1]
    <3>1. a \in Seq(F) /\ b \in F
      BY <2>2
    <3> HIDE DEF a, b, S
    <3>2. Without(Append(a, b), Q) = IF b.path \in Q THEN Without(a, Q) ELSE Append(Without(a, Q), b)
      BY <3>1, WithoutAppend, Zenon
    <3> QED
      BY <3>2 DEF a, b
  <2> QED
    BY <2>1, <2>3, <2>4, <2>5
<1> HIDE DEF S
<1>5. Len(s) \in S
  BY <1>0, <1>3, <1>4, SetInduction
<1> QED
  BY <1>5, <1>0 DEF S, f, g, Without

(* Bootstrap data with files of a set.                                     *)
Docs(F) == [version : Nat, files : Seq(F)]

Injects(doc, path, who, F) ==
    /\ InjectFile(doc, path, who) \in Docs(F)
    /\ InjectFile(doc, path, who).version = doc.version
    /\ InjectFile(doc, path, who).files
          = Append(Without(doc.files, {path}), Entry(doc, path, who))

LEMMA Inject ==
    ASSUME NEW F, NEW doc \in Docs(F), NEW path, NEW who,
           Entry(doc, path, who) \in F
    PROVE  Injects(doc, path, who, F)
<1>1. Without(doc.files, {path}) \in Seq(F)
  BY WithoutSeq DEF Docs
<1>2. Append(Without(doc.files, {path}), Entry(doc, path, who)) \in Seq(F)
  BY <1>1
<1> QED
  BY <1>2 DEF Injects, InjectFile, Docs

LEMMA SeqLarger ==
    ASSUME NEW F, NEW G, NEW s \in Seq(F)
    PROVE  s \in Seq(F \cup G)
OBVIOUS

(* Nothing is left out for no paths.                                       *)
LEMMA WithoutNone ==
    ASSUME NEW F, NEW s \in Seq(F)
    PROVE  Without(s, {}) = s
<1> DEFINE f == Filtered(s, {})
           S == {m \in Nat : m <= Len(s) =>
                    Len(f[m]) = m /\ \A j \in 1..m : f[m][j] = s[j]}
<1>0. Len(s) \in Nat /\ Len(s) <= Len(s)
  OBVIOUS
<1>1. f \in [0..Len(s) -> Seq(F)] /\ Kept(f, s, {}, Len(s))
  BY FilterEquation
<1> HIDE DEF f
<1>2. 0 \in S
  BY <1>0, <1>1 DEF Kept
<1>3. ASSUME NEW m \in Nat, m \in S PROVE m + 1 \in S
  <2> SUFFICES ASSUME m + 1 <= Len(s)
               PROVE  Len(f[m+1]) = m + 1 /\ \A j \in 1..m+1 : f[m+1][j] = s[j]
    OBVIOUS
  <2>1. /\ Len(f[m]) = m /\ \A j \in 1..m : f[m][j] = s[j]
        /\ m + 1 \in 0..Len(s) /\ m + 1 # 0 /\ (m + 1) - 1 = m /\ m \in 0..Len(s)
    BY <1>0, <1>3
  <2>2. f[m] \in Seq(F) /\ s[m+1] \in F
    BY <2>1, <1>1, <1>0
  <2>3. f[m+1] = Append(f[m], s[m+1])
    BY <2>1, <1>1 DEF Kept
  <2> QED
    BY <2>1, <2>2, <2>3
<1> HIDE DEF S
<1>4. Len(s) \in S
  BY <1>0, <1>2, <1>3, SetInduction
<1>5. Without(s, {}) = f[Len(s)] /\ f[Len(s)] \in Seq(F)
  BY <1>0, <1>1 DEF f, Without
<1>6. /\ Len(Without(s, {})) = Len(s) 
      /\ \A j \in 1..Len(s) : Without(s, {})[j] = s[j]
  BY <1>4, <1>0, <1>5 DEF S
<1> QED
  BY <1>5, <1>6, SeqEqual

LEMMA AppendKept ==
    ASSUME NEW F, NEW s \in Seq(F), NEW e \in F, NEW P, e.path \notin P
    PROVE  Without(Append(s, e), P) = Append(Without(s, P), e)
BY WithoutAppend

LEMMA AppendLost ==
    ASSUME NEW F, NEW s \in Seq(F), NEW e \in F, NEW P, e.path \in P
    PROVE  Without(Append(s, e), P) = Without(s, P)
BY WithoutAppend

(* The file list t has the entries E of the paths P, once each, and else   *)
(* the files of s, whatever else is going to be left out of both. This is  *)
(* what one more injection keeps; to have the right length is not enough.  *)
Has(t, E, P) == \A p \in P : \E i \in DOMAIN t : t[i] = E[p]

Carries(t, s, E, P) ==
    /\ Without(t, P) = Without(s, P)
    /\ \A Q : Q \cap P = {} =>
          /\ Len(Without(t, Q)) = Len(Without(s, P \cup Q)) + Cardinality(P)
          /\ Has(Without(t, Q), E, P)

LEMMA CarriesNone ==
    ASSUME NEW F, NEW s \in Seq(F), NEW E
    PROVE  Carries(s, s, E, {})
<1>1. ASSUME NEW Q
      PROVE  Len(Without(s, Q)) = Len(Without(s, {} \cup Q)) + Cardinality({})
  <2>1. Without(s, Q) \in Seq(F)
    BY WithoutSeq, Zenon
  <2>2. {} \cup Q = Q
    OBVIOUS
  <2> QED
    BY <2>1, <2>2, FS_EmptySet
<1> QED
  BY <1>1 DEF Carries, Has

(* injectFile of a new path keeps it.                                      *)
LEMMA CarriesOneMore ==
    ASSUME NEW F, NEW s \in Seq(F), NEW t \in Seq(F), NEW P, IsFiniteSet(P),
           NEW p, p \notin P, NEW E, E[p] \in F, E[p].path = p,
           Carries(t, s, E, P)
    PROVE  Carries(Append(Without(t, {p}), E[p]), s, E, P \cup {p})
<1> DEFINE R == {p}
           e == E[p]
           u == Append(Without(t, R), e)
           PR == P \cup R
<1>0. /\ p \in R /\ p \in PR /\ R \cap P = {} /\ e \in F /\ e.path = p
      /\ Cardinality(PR) = Cardinality(P) + 1 /\ Cardinality(P) \in Nat
      /\ \A q \in PR : q \in P \/ q = p
  BY FS_AddElement, FS_CardinalityType
<1> HIDE DEF R, e
<1>1. Without(t, R) \in Seq(F) /\ u \in Seq(F)
  <2>1. Without(t, R) \in Seq(F)
    BY WithoutSeq, Zenon
  <2> QED
    BY <2>1, <1>0
<1>2. Without(u, PR) = Without(s, PR)
  <2> HIDE DEF PR
  <2>1. Without(u, PR) = Without(Without(t, R), PR)
    BY <1>0, <1>1, AppendLost, Zenon
  <2>2. Without(Without(t, R), PR) = Without(t, R \cup PR)
    BY WithoutTwice
  <2>3. Without(Without(t, P), R) = Without(t, P \cup R)
    BY WithoutTwice
  <2>4. Without(Without(s, P), R) = Without(s, P \cup R)
    BY WithoutTwice
  <2>5. R \cup PR = PR /\ PR = P \cup R
    BY DEF PR
  <2> QED
    BY <2>1, <2>2, <2>3, <2>4, <2>5 DEF Carries
<1>3. ASSUME NEW Q, Q \cap PR = {}
      PROVE  /\ Len(Without(u, Q)) = Len(Without(s, PR \cup Q)) + Cardinality(PR)
             /\ Has(Without(u, Q), E, PR)
  <2>1. e.path \notin Q
    BY <1>0, <1>3
  <2>2. Without(u, Q) = Append(Without(Without(t, R), Q), e)
    BY <1>0, <1>1, <2>1, AppendKept, Zenon
  <2>3. Without(Without(t, R), Q) = Without(t, R \cup Q)
    BY WithoutTwice
  <2> DEFINE RQ == R \cup Q
             v == Without(t, RQ)
  <2>4. RQ \cap P = {} /\ P \cup RQ = PR \cup Q
    BY <1>0, <1>3
  <2> HIDE DEF RQ
  <2>5. v \in Seq(F)
    BY WithoutSeq, Zenon
  <2>6. Len(v) = Len(Without(s, P \cup RQ)) + Cardinality(P) /\ Has(v, E, P)
    BY <2>4 DEF Carries
  <2>7. Without(s, P \cup RQ) \in Seq(F)
    <3> DEFINE PQ == P \cup RQ
    <3> HIDE DEF PQ
    <3>1. Without(s, PQ) \in Seq(F)
      BY WithoutSeq, Zenon
    <3> QED
      BY <3>1 DEF PQ
  <2> HIDE DEF v, PR
  <2>8. Without(u, Q) = Append(v, e)
    BY <2>2, <2>3 DEF v, RQ
  <2>9. Len(Append(v, e)) = Len(Without(s, PR \cup Q)) + Cardinality(PR)
    <3> DEFINE n == Len(Without(s, PR \cup Q))
               c == Cardinality(P)
    <3>0. Without(s, PR \cup Q) = Without(s, P \cup RQ)
      BY <2>4, Zenon
    <3>1. n \in Nat /\ c \in Nat /\ Len(v) = n + c /\ Cardinality(PR) = c + 1
      <4> DEFINE w == Without(s, P \cup RQ)
      <4>1. w \in Seq(F) /\ n = Len(w) /\ Len(v) = Len(w) + c
        BY <2>6, <2>7, <3>0
      <4> HIDE DEF w, n, c
      <4>2. n \in Nat /\ Len(v) = n + c
        BY <4>1
      <4> QED
        BY <4>2, <1>0 DEF c
    <3>2. Len(Append(v, e)) = Len(v) + 1
      BY <2>5, <1>0
    <3> HIDE DEF n, c
    <3>3. Len(Append(v, e)) = n + Cardinality(PR)
      BY <3>1, <3>2
    <3> QED
      BY <3>3 DEF n
  <2>10. ASSUME NEW q \in PR PROVE \E i \in DOMAIN Append(v, e) : Append(v, e)[i] = E[q]
    <3>1. CASE q \in P
      <4>1. PICK i \in DOMAIN v : v[i] = E[q]
        BY <2>6, <3>1 DEF Has
      <4>2. i \in DOMAIN Append(v, e) /\ Append(v, e)[i] = v[i]
        BY <2>5, <4>1, <1>0
      <4> QED
        BY <4>1, <4>2
    <3>2. CASE q = p
      <4>1. Len(v) + 1 \in DOMAIN Append(v, e) /\ Append(v, e)[Len(v) + 1] = e
        BY <2>5, <1>0
      <4> QED
        BY <4>1, <3>2 DEF e
    <3> QED
      BY <1>0, <3>1, <3>2
  <2> QED
    BY <2>8, <2>9, <2>10 DEF Has
<1>4. Carries(u, s, E, PR)
  <2> HIDE DEF u, PR
  <2> QED
    BY <1>2, <1>3 DEF Carries
<1> QED
  BY <1>4 DEF R, e
(* d is the bootstrap data doc with the entries E of the paths P.          *)
Stage(d, doc, F, E, P) ==
    /\ d \in Docs(F)
    /\ d.version = doc.version
    /\ Carries(d.files, doc.files, E, P)

LEMMA InjectStep ==
    ASSUME NEW F, NEW doc \in Docs(F), NEW d, NEW who, NEW E,
           NEW P, IsFiniteSet(P), NEW p, p \notin P,
           E[p] = Entry(doc, p, who), E[p] \in F, Stage(d, doc, F, E, P)
    PROVE  Stage(InjectFile(d, p, who), doc, F, E, P \cup {p})
<1>1. d \in Docs(F) /\ d.version = doc.version
  BY DEF Stage
<1>2. Entry(d, p, who) = E[p] /\ E[p].path = p
  BY <1>1 DEF Entry, Form
<1> DEFINE s == doc.files
           t == d.files
           n == InjectFile(d, p, who)
<1>3. /\ n \in Docs(F) /\ n.version = doc.version
      /\ n.files = Append(Without(t, {p}), E[p])
  <2>1. Entry(d, p, who) \in F
    BY <1>2
  <2>2. Injects(d, p, who, F)
    BY <1>1, <2>1, Inject, Zenon
  <2> QED
    BY <1>1, <1>2, <2>2 DEF Injects
<1>4. s \in Seq(F) /\ t \in Seq(F) /\ Carries(t, s, E, P)
  BY <1>1 DEF Stage, Docs
<1> HIDE DEF s, t, n
<1>5. Carries(Append(Without(t, {p}), E[p]), s, E, P \cup {p})
  BY <1>2, <1>4, CarriesOneMore, Zenon
<1> QED
  BY <1>3, <1>5 DEF Stage, s, n

LEMMA StageComplete ==
    ASSUME NEW F, NEW doc \in Docs(F), NEW d, NEW who,
           NEW E, NEW addresses, NEW P, P = Injected(doc, addresses),
           \A p \in P : E[p] = Entry(doc, p, who), Stage(d, doc, F, E, P)
    PROVE  IsComplete(d.files, doc, who, addresses)
<1> DEFINE s == doc.files
           t == d.files
           N == {}
<1>1. s \in Seq(F) /\ t \in Seq(F) /\ Carries(t, s, E, P)
  BY DEF Stage, Docs
<1>2. N \cap P = {} /\ P \cup N = P
  OBVIOUS
<1>3. Without(t, N) = t
  BY <1>1, WithoutNone, Zenon
<1> HIDE DEF N
<1>4. Len(t) = Len(Without(s, P)) + Cardinality(P) /\ Has(t, E, P)
  BY <1>1, <1>2, <1>3 DEF Carries
<1>5. Without(t, P) = Without(s, P)
  BY <1>1 DEF Carries
<1> QED
  BY <1>4, <1>5 DEF IsComplete, Has

(* What injectFile, InjectMachineMetadata and InjectStaticNetwork make of  *)
(* bootstrap data of any version and with any list of files, the injected  *)
(* paths among them or twice in it, is complete: one entry of the machine  *)
(* for each path, and every other file in its order.                       *)
THEOREM RenderedComplete ==
    ASSUME NEW F, NEW doc \in Docs(F), NEW who,
           NEW addresses \in BOOLEAN
    PROVE  IsComplete(Rendered(doc, who, addresses).files, doc, who, addresses)
<1> DEFINE All == MetadataPaths \cup {NetworkPath}
           E == [p \in All |-> Entry(doc, p, who)]
           G == F \cup {E[p] : p \in All}
           h == "hostname"
           k == "kubelet-dropin"
           v == "provider-id"
           n == NetworkPath
<1>1. /\ h \in All /\ k \in All /\ v \in All /\ n \in All
      /\ h # k /\ h # v /\ h # n /\ k # v /\ k # n /\ v # n
      /\ MetadataPaths = {h, k, v}
  BY DEF MetadataPaths, NetworkPath
<1>2. \A p \in All : E[p] = Entry(doc, p, who) /\ E[p] \in G
  OBVIOUS
<1>3. doc \in Docs(G)
  <2>1. doc.files \in Seq(G)
    BY SeqLarger DEF Docs
  <2> QED
    BY <2>1 DEF Docs
<1> HIDE DEF All, E, G, h, k, v, n
<1>4. Stage(doc, doc, G, E, {})
  <2>1. doc.files \in Seq(G)
    BY <1>3 DEF Docs
  <2>2. Carries(doc.files, doc.files, E, {})
    BY <2>1, CarriesNone
  <2> QED
    BY <1>3, <2>2 DEF Stage
<1>5. CASE ~Supported(doc)
  <2>1. Injected(doc, addresses) = {} /\ Rendered(doc, who, addresses) = doc
    BY <1>5 DEF Injected, Rendered, InjectMachineMetadata, InjectStaticNetwork
  <2> QED
    BY <1>3, <1>4, <2>1, StageComplete
<1>6. CASE Supported(doc)
  <2> DEFINE d1 == InjectFile(doc, h, who)
             d2 == InjectFile(d1, k, who)
             d3 == InjectFile(d2, v, who)
             d4 == InjectFile(d3, n, who)
             P1 == {} \cup {h}
             P2 == P1 \cup {k}
             P3 == P2 \cup {v}
             P4 == P3 \cup {n}
  <2>1. /\ IsFiniteSet({}) /\ IsFiniteSet(P1) /\ IsFiniteSet(P2) /\ IsFiniteSet(P3)
        /\ h \notin {} /\ k \notin P1 /\ v \notin P2 /\ n \notin P3
    BY <1>1, FS_EmptySet, FS_AddElement
  <2>2. /\ E[h] = Entry(doc, h, who) /\ E[k] = Entry(doc, k, who)
        /\ E[v] = Entry(doc, v, who) /\ E[n] = Entry(doc, n, who)
        /\ E[h] \in G /\ E[k] \in G /\ E[v] \in G /\ E[n] \in G
    BY <1>1, <1>2
  <2>3. P3 = MetadataPaths /\ P4 = MetadataPaths \cup {NetworkPath}
    BY <1>1 DEF n
  <2>5. Stage(d1, doc, G, E, P1)
    BY <1>3, <1>4, <2>1, <2>2, InjectStep, Zenon
  <2> HIDE DEF d1, P1
  <2>6. Stage(d2, doc, G, E, P2)
    BY <1>3, <2>5, <2>1, <2>2, InjectStep, Zenon
  <2> HIDE DEF d2, P2
  <2>7. Stage(d3, doc, G, E, P3)
    BY <1>3, <2>6, <2>1, <2>2, InjectStep, Zenon
  <2> HIDE DEF d3, P3
  <2>4. Rendered(doc, who, addresses) = IF addresses THEN d4 ELSE d3
    <3>1. Supported(d3)
      BY <1>6, <2>7 DEF Supported, Stage
    <3>2. InjectMachineMetadata(doc, who) = d3
      BY <1>6 DEF InjectMachineMetadata, d3, d2, d1, h, k, v
    <3>3. InjectStaticNetwork(d3, who) = d4
      BY <3>1 DEF InjectStaticNetwork, n
    <3> QED
      BY <3>2, <3>3 DEF Rendered
  <2>8. Stage(d4, doc, G, E, P4)
    BY <1>3, <2>7, <2>1, <2>2, InjectStep, Zenon
  <2> HIDE DEF d4, P4
  <2>9. CASE addresses
    <3>1. Injected(doc, addresses) = P4 /\ \A p \in P4 : E[p] = Entry(doc, p, who)
      BY <1>2, <1>6, <2>3, <2>9 DEF Injected, All
    <3> QED
      BY <1>3, <2>8, <2>4, <2>9, <3>1, StageComplete
  <2>10. CASE ~addresses
    <3>1. Injected(doc, addresses) = P3 /\ \A p \in P3 : E[p] = Entry(doc, p, who)
      BY <1>2, <1>6, <2>3, <2>10 DEF Injected, All
    <3> QED
      BY <1>3, <2>7, <2>4, <2>10, <3>1, StageComplete
  <2> QED
    BY <2>9, <2>10
<1> QED
  BY <1>5, <1>6
=============================================================================
