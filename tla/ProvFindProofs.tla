--------------------------- MODULE ProvFindProofs ---------------------------
(***************************************************************************)
(* Proofs for module ProvFind: its variables stay in their ranges, find is *)
(* exact where nobody interferes, and its exit status is honest, for every *)
(* tree, command line and change of the tree during the walk.              *)
(*                                                                         *)
(* The walk is described by its frontier, the directories on the stack and *)
(* the entries of the open one.  No path of the frontier lies above        *)
(* another, so a file has been read once if no path above it is in the     *)
(* frontier any more, and not yet otherwise.                               *)
(***************************************************************************)
EXTENDS ProvFind, FiniteSetTheorems, TLAPS

-----------------------------------------------------------------------------
(* The paths above a path. *)

(* above satisfies its recursive definition. *)
LEMMA AboveDef ==
  above = [p \in Paths |-> {p} \cup (IF p = Root THEN {} ELSE above[Parent[p]])]
<1> DEFINE Closed(S) == \A q \in S : q \in Paths /\ q # Root => Parent[q] \in S
           Least(p) == {q \in Paths : \A S \in SUBSET Paths : Closed(S) /\ p \in S => q \in S}
           f == [p \in Paths |-> Least(p)]
<1>1. Root \in Paths /\ \A p \in Paths : p # Root => Parent[p] \in Paths
  BY FindAssumption
<1>2. ASSUME NEW p \in Paths PROVE Closed(Least(p)) /\ p \in Least(p)
  BY <1>1
<1>3. ASSUME NEW p \in Paths, p # Root PROVE Least(p) = {p} \cup Least(Parent[p])
  <2>1. Parent[p] \in Paths
    BY <1>1, <1>3
  <2>2. Least(Parent[p]) \subseteq Least(p)
    BY <1>3, <2>1
  <2> DEFINE T == {p} \cup Least(Parent[p])
  <2>3. Closed(T) /\ T \in SUBSET Paths /\ p \in T
    BY <1>2, <2>1
  <2>4. Least(p) \subseteq T
    <3> HIDE DEF T, Closed
    <3> QED BY <2>3
  <2> QED BY <1>2, <2>2, <2>4
<1>4. Least(Root) = {Root}
  <2>1. Closed({Root}) /\ {Root} \in SUBSET Paths
    BY <1>1
  <2>2. Least(Root) \subseteq {Root}
    <3> HIDE DEF Closed
    <3> QED BY <2>1
  <2> QED BY <1>1, <1>2, <2>2
<1> HIDE DEF Least
<1>5. f = [p \in Paths |-> {p} \cup (IF p = Root THEN {} ELSE f[Parent[p]])]
  <2>1. ASSUME NEW p \in Paths
        PROVE  Least(p) = {p} \cup (IF p = Root THEN {} ELSE f[Parent[p]])
    <3>1. CASE p = Root
      BY <1>4, <3>1
    <3>2. CASE p # Root
      <4>1. f[Parent[p]] = Least(Parent[p])
        BY <1>1, <3>2
      <4> QED BY <1>3, <3>2, <4>1
    <3> QED BY <3>1, <3>2
  <2> QED BY <2>1, Zenon
<1> HIDE DEF f
<1> QED BY <1>5, Zenon DEF above

(* The paths above p: p itself and those above its directory. *)
LEMMA AboveParts ==
  ASSUME NEW p \in Paths
  PROVE  /\ p \in above[p]
         /\ p = Root => above[p] = {p}
         /\ p # Root => Parent[p] \in Paths /\ above[p] = {p} \cup above[Parent[p]]
<1>1. above[p] = {p} \cup (IF p = Root THEN {} ELSE above[Parent[p]])
  BY AboveDef, Zenon
<1> QED BY <1>1, FindAssumption

(* What holds of the root, and of a path if it holds of its directory,     *)
(* holds of every path.                                                    *)
LEMMA TreeInduction ==
  ASSUME NEW S \in SUBSET Paths, Root \in S,
         \A p \in Paths : p # Root /\ Parent[p] \in S => p \in S
  PROVE  S = Paths
<1> DEFINE T == Paths \ S
<1>1. T \in SUBSET (Paths \ {Root})
  OBVIOUS
<1>2. T = {} \/ \E p \in T : Parent[p] \notin T
  BY <1>1, FindAssumption
<1>3. ASSUME NEW p \in T, Parent[p] \notin T PROVE FALSE
  <2>1. p \in Paths /\ p # Root /\ Parent[p] \in Paths
    BY FindAssumption
  <2> QED BY <1>3, <2>1
<1> QED BY <1>2, <1>3

(* above is a partial order of paths, in which those above one path are in *)
(* line.                                                                   *)
LEMMA AbovePaths == \A p \in Paths : above[p] \in SUBSET Paths
<1> DEFINE S == {p \in Paths : above[p] \in SUBSET Paths}
<1>1. Root \in S
  BY AboveParts, FindAssumption
<1>2. \A p \in Paths : p # Root /\ Parent[p] \in S => p \in S
  BY AboveParts
<1>3. S = Paths
  <2> HIDE DEF S
  <2>1. S \in SUBSET Paths
    BY DEF S
  <2> QED BY <1>1, <1>2, <2>1, TreeInduction
<1> QED BY <1>3

(* What is above a path above p is above p. *)
LEMMA AboveTransitive ==
  \A p \in Paths : \A q \in above[p] : above[q] \subseteq above[p]
<1> DEFINE S == {p \in Paths : \A q \in above[p] : above[q] \subseteq above[p]}
<1>1. Root \in S
  <2>1. Root \in Paths /\ above[Root] = {Root}
    BY AboveParts, FindAssumption
  <2> QED BY <2>1
<1>2. ASSUME NEW p \in Paths, p # Root, Parent[p] \in S PROVE p \in S
  <2>1. above[p] = {p} \cup above[Parent[p]]
    BY <1>2, AboveParts
  <2> QED BY <1>2, <2>1
<1>3. S = Paths
  <2>1. S \in SUBSET Paths
    OBVIOUS
  <2> HIDE DEF S
  <2> QED BY <1>1, <1>2, <2>1, TreeInduction
<1> QED BY <1>3

(* No path is above the directory it is in. *)
LEMMA AboveAcyclic ==
  ASSUME NEW p \in Paths, p # Root
  PROVE  p \notin above[Parent[p]]
<1> SUFFICES ASSUME p \in above[Parent[p]] PROVE FALSE
  OBVIOUS
<1> DEFINE T == {q \in Paths : q \in above[p] /\ p \in above[q]}
<1>1. p \in T /\ Root \notin T
  BY AboveParts, FindAssumption
<1>2. ASSUME NEW q \in T PROVE Parent[q] \in T
  <2>1. q \in Paths /\ q # Root
    BY <1>1
  <2>2. Parent[q] \in Paths /\ above[q] = {q} \cup above[Parent[q]]
    BY <2>1, AboveParts
  <2>3. Parent[q] \in above[q] /\ above[q] \subseteq above[p]
    BY <2>1, <2>2, AboveParts, AboveTransitive
  <2>4. p \in above[Parent[q]]
    BY <2>2
  <2> QED BY <2>2, <2>3, <2>4
<1>3. T \in SUBSET (Paths \ {Root}) /\ T # {}
  BY <1>1
<1> HIDE DEF T
<1> QED BY <1>2, <1>3, FindAssumption

(* Two paths are not above each other. *)
LEMMA AboveAntisymmetric ==
  ASSUME NEW p \in Paths, NEW q \in above[p], p \in above[q]
  PROVE  p = q
<1>1. q \in Paths
  BY AbovePaths
<1> SUFFICES ASSUME p # q PROVE FALSE
  OBVIOUS
<1>2. p # Root
  <2>1. p = Root => above[p] = {p}
    BY AboveParts
  <2> QED BY <2>1
<1>3. above[p] = {p} \cup above[Parent[p]] /\ Parent[p] \in Paths
  BY <1>2, AboveParts
<1>4. q \in above[Parent[p]]
  BY <1>3
<1>5. above[q] \subseteq above[Parent[p]]
  BY <1>3, <1>4, AboveTransitive
<1> QED BY <1>2, <1>5, AboveAcyclic

(* Of two paths above p, one is above the other. *)
LEMMA AboveLinear ==
  \A p \in Paths : \A a, b \in above[p] : a \in above[b] \/ b \in above[a]
<1> DEFINE S == {p \in Paths : \A a, b \in above[p] : a \in above[b] \/ b \in above[a]}
<1>1. Root \in S
  <2>1. Root \in Paths /\ above[Root] = {Root}
    BY AboveParts, FindAssumption
  <2> QED BY <2>1
<1>2. ASSUME NEW p \in Paths, p # Root, Parent[p] \in S PROVE p \in S
  <2>1. above[p] = {p} \cup above[Parent[p]] /\ p \in above[p]
    BY <1>2, AboveParts
  <2> QED BY <1>2, <2>1
<1>3. S = Paths
  <2>1. S \in SUBSET Paths
    OBVIOUS
  <2> HIDE DEF S
  <2> QED BY <1>1, <1>2, <2>1, TreeInduction
<1> QED BY <1>3

(* A path above p, other than p, is the directory of another path above p. *)
LEMMA AboveChild ==
  \A p \in Paths : \A a \in above[p] : a # p =>
    \E c \in above[p] : c # Root /\ Parent[c] = a
<1> DEFINE S == {p \in Paths : \A a \in above[p] : a # p =>
                   \E c \in above[p] : c # Root /\ Parent[c] = a}
<1>1. Root \in S
  <2>1. Root \in Paths /\ above[Root] = {Root}
    BY AboveParts, FindAssumption
  <2> QED BY <2>1
<1>2. ASSUME NEW p \in Paths, p # Root, Parent[p] \in S PROVE p \in S
  <2>1. above[p] = {p} \cup above[Parent[p]] /\ p \in above[p]
    BY <1>2, AboveParts
  <2>2. ASSUME NEW a \in above[p], a # p
        PROVE  \E c \in above[p] : c # Root /\ Parent[c] = a
    <3>1. CASE a = Parent[p]
      BY <1>2, <2>1, <3>1
    <3>2. CASE a # Parent[p]
      BY <1>2, <2>1, <2>2, <3>2
    <3> QED BY <3>1, <3>2
  <2> QED BY <2>2
<1>3. S = Paths
  <2>1. S \in SUBSET Paths
    OBVIOUS
  <2> HIDE DEF S
  <2> QED BY <1>1, <1>2, <2>1, TreeInduction
<1> QED BY <1>3

(* In a tree, whatever is above something there is a directory. *)
LEMMA AboveIsDir ==
  ASSUME NEW k, IsTree(k)
  PROVE  \A p \in Paths : k[p] # "none" => \A a \in above[p] : a # p => k[a] = "dir"
<1> DEFINE S == {p \in Paths : k[p] # "none" => \A a \in above[p] : a # p => k[a] = "dir"}
<1>1. Root \in S
  <2>1. Root \in Paths /\ above[Root] = {Root}
    BY AboveParts, FindAssumption
  <2> QED BY <2>1
<1>2. ASSUME NEW p \in Paths, p # Root, Parent[p] \in S PROVE p \in S
  <2>1. above[p] = {p} \cup above[Parent[p]] /\ p \in above[p] /\ Parent[p] \in Paths
    BY <1>2, AboveParts
  <2>2. k[p] # "none" => k[Parent[p]] = "dir"
    BY <1>2 DEF IsTree
  <2> QED BY <1>2, <2>1, <2>2
<1>3. S = Paths
  <2>1. S \in SUBSET Paths
    OBVIOUS
  <2> HIDE DEF S
  <2> QED BY <1>1, <1>2, <2>1, TreeInduction
<1> QED BY <1>3

(* The root is above every path. *)
LEMMA AboveRoot == \A p \in Paths : Root \in above[p]
<1> DEFINE S == {p \in Paths : Root \in above[p]}
<1>1. Root \in S
  BY AboveParts, FindAssumption
<1>2. \A p \in Paths : p # Root /\ Parent[p] \in S => p \in S
  BY AboveParts
<1>3. S = Paths
  <2>1. S \in SUBSET Paths
    OBVIOUS
  <2> HIDE DEF S
  <2> QED BY <1>1, <1>2, <2>1, TreeInduction
<1> QED BY <1>3

-----------------------------------------------------------------------------
(* The frontier of the walk. *)

Elems(s) == {s[i] : i \in 1..Len(s)}
Inj(s) == \A i, j \in 1..Len(s) : s[i] = s[j] => i = j
Named(E) == {e[1] : e \in E}
Frontier(s, E) == Elems(s) \cup Named(E)

(* No path is twice in the frontier, nor above another one there. *)
Shape(s, E) ==
  /\ s \in Seq(Paths \ Links) /\ Inj(s)
  /\ E \in SUBSET ((Paths \ {Root}) \X (Kinds \ {"none"}))
  /\ \A e \in E : e[2] = "dir" => e[1] \notin Links
  /\ \A e, f \in E : e[1] = f[1] => e = f
  /\ Elems(s) \cap Named(E) = {}
  /\ \A x, y \in Frontier(s, E) : x \in above[y] => x = y

(* What the walk believes of a path is so unless the path was touched. *)
Truth(s, E, k, t) ==
  /\ \A e \in E : e[1] \notin t => k[e[1]] = e[2]
  /\ \A e \in E : Parent[e[1]] \notin t => k[Parent[e[1]]] = "dir"
  /\ \A p \in Elems(s) : p \notin t /\ p # Root => k[p] = "dir"

(* A path that is pushed joins the stack. *)
LEMMA PushElems ==
  ASSUME NEW P, NEW s \in Seq(P), NEW x \in P
  PROVE  /\ Append(s, x) \in Seq(P) /\ Elems(Append(s, x)) = Elems(s) \cup {x}
         /\ Inj(s) /\ x \notin Elems(s) => Inj(Append(s, x))
<1>1. PICK n \in Nat : n = Len(s)
  OBVIOUS
<1>2. PICK t \in Seq(P) : t = Append(s, x)
  <2>1. Append(s, x) \in Seq(P)
    OBVIOUS
  <2> QED BY <2>1, Zenon
<1>3. Len(t) = n + 1 /\ t[n + 1] = x /\ \A i \in 1..n : t[i] = s[i]
  BY <1>1, <1>2
<1>4. \A i \in 1..(n + 1) : i \in 1..n \/ i = n + 1
  OBVIOUS
<1>5. \A i \in 1..n : i \in 1..(n + 1) /\ i # n + 1
  OBVIOUS
<1>6. n + 1 \in 1..(n + 1)
  OBVIOUS
<1>7. Elems(t) = {t[i] : i \in 1..(n + 1)} /\ Elems(s) = {s[i] : i \in 1..n}
  BY <1>1, <1>3 DEF Elems
<1>8. Elems(t) = Elems(s) \cup {x}
  BY <1>3, <1>4, <1>5, <1>6, <1>7
<1>9. ASSUME Inj(s), x \notin Elems(s) PROVE Inj(t)
  <2> SUFFICES ASSUME NEW i \in 1..(n + 1), NEW j \in 1..(n + 1), t[i] = t[j] PROVE i = j
    BY <1>3 DEF Inj
  <2>1. \A m \in 1..n : s[m] # x
    BY <1>7, <1>9
  <2>2. \A a, b \in 1..n : s[a] = s[b] => a = b
    BY <1>1, <1>9 DEF Inj
  <2> QED BY <1>3, <1>4, <2>1, <2>2
<1> QED BY <1>2, <1>8, <1>9

(* The path that is popped leaves it. *)
LEMMA PopElems ==
  ASSUME NEW s \in Seq(Paths \ Links), s # <<>>, NEW t, t = SubSeq(s, 1, Len(s) - 1),
         NEW x, x = s[Len(s)]
  PROVE  /\ t \in Seq(Paths \ Links) /\ x \in Paths \ Links /\ x \in Elems(s)
         /\ Inj(s) => Inj(t) /\ Elems(t) = Elems(s) \ {x}
<1> PICK P : P = Paths \ Links
  OBVIOUS
<1>1. PICK n \in Nat : n + 1 = Len(s)
  <2>1. Len(s) \in Nat /\ Len(s) # 0
    OBVIOUS
  <2> QED BY <2>1
<1>2. x = s[n + 1] /\ t = SubSeq(s, 1, n)
  BY <1>1
<1>3. t \in Seq(P) /\ Len(t) = n /\ \A i \in 1..n : t[i] = s[i]
  BY <1>1, <1>2
<1>4. \A i \in 1..(n + 1) : i \in 1..n \/ i = n + 1
  OBVIOUS
<1>5. \A i \in 1..n : i \in 1..(n + 1) /\ i # n + 1
  OBVIOUS
<1>6. n + 1 \in 1..(n + 1)
  OBVIOUS
<1>7. Elems(t) = {t[i] : i \in 1..n} /\ Elems(s) = {s[i] : i \in 1..(n + 1)}
  BY <1>1, <1>3 DEF Elems
<1>8. x \in P /\ x \in Elems(s)
  BY <1>1, <1>2, <1>3, <1>5, <1>6, <1>7
<1>9. ASSUME Inj(s) PROVE Inj(t) /\ Elems(t) = Elems(s) \ {x}
  <2>1. \A a, b \in 1..(n + 1) : s[a] = s[b] => a = b
    BY <1>1, <1>9 DEF Inj
  <2>2. Inj(t)
    BY <1>3, <1>5, <2>1 DEF Inj
  <2>3. \A i \in 1..n : s[i] # x
    BY <1>2, <1>5, <1>6, <2>1
  <2> QED BY <1>2, <1>3, <1>4, <1>5, <1>7, <2>2, <2>3
<1> QED BY <1>3, <1>8, <1>9

(* An entry that is dropped leaves the frontier as it should be. *)
LEMMA ShapeDrop ==
  ASSUME NEW s, NEW E, Shape(s, E), NEW e \in E
  PROVE  /\ Shape(s, E \ {e}) /\ Frontier(s, E \ {e}) = Frontier(s, E) \ {e[1]}
<1>1. Named(E \ {e}) = Named(E) \ {e[1]} /\ e[1] \in Named(E)
  BY DEF Shape, Named
<1>2. Frontier(s, E \ {e}) = Frontier(s, E) \ {e[1]}
  BY <1>1 DEF Shape, Frontier
<1>3. Frontier(s, E \ {e}) \subseteq Frontier(s, E)
  BY <1>2
<1> QED BY <1>1, <1>2, <1>3 DEF Shape

(* Nor does an entry that is pushed disturb it. *)
LEMMA ShapePush ==
  ASSUME NEW s, NEW E, Shape(s, E), NEW e \in E, e[2] = "dir"
  PROVE  /\ Shape(Append(s, e[1]), E \ {e})
         /\ Frontier(Append(s, e[1]), E \ {e}) = Frontier(s, E)
         /\ Elems(Append(s, e[1])) = Elems(s) \cup {e[1]}
<1>1. PICK x \in Paths \ Links : x = e[1]
  BY DEF Shape
<1>2. s \in Seq(Paths \ Links) /\ Inj(s)
  BY DEF Shape
<1>3. Named(E \ {e}) = Named(E) \ {x} /\ x \in Named(E) /\ x \notin Elems(s)
  BY <1>1 DEF Shape, Named
<1>4. PICK t : t = Append(s, x)
  OBVIOUS
<1>5. t \in Seq(Paths \ Links) /\ Elems(t) = Elems(s) \cup {x} /\ Inj(t)
  BY <1>2, <1>3, <1>4, PushElems
<1>6. Frontier(t, E \ {e}) = Frontier(s, E)
  BY <1>3, <1>5 DEF Frontier
<1>7. Elems(t) \cap Named(E \ {e}) = {}
  BY <1>3, <1>5 DEF Shape
<1>8. Shape(t, E \ {e})
  BY <1>5, <1>6, <1>7 DEF Shape
<1> QED BY <1>1, <1>4, <1>5, <1>6, <1>8

(* A directory that cannot be listed leaves the frontier. *)
LEMMA ShapePop ==
  ASSUME NEW s, Shape(s, {}), s # <<>>, NEW t, t = SubSeq(s, 1, Len(s) - 1),
         NEW x, x = s[Len(s)]
  PROVE  /\ Shape(t, {}) /\ x \in Paths \ Links /\ x \in Elems(s)
         /\ Elems(t) = Elems(s) \ {x}
         /\ Frontier(t, {}) = Frontier(s, {}) \ {x}
<1>1. s \in Seq(Paths \ Links) /\ Inj(s)
  BY DEF Shape
<1>2. /\ t \in Seq(Paths \ Links) /\ x \in Paths \ Links /\ x \in Elems(s)
      /\ Inj(t) /\ Elems(t) = Elems(s) \ {x}
  BY <1>1, PopElems
<1>3. Named({}) = {}
  BY DEF Named
<1>4. Frontier(t, {}) = Frontier(s, {}) \ {x}
  BY <1>2, <1>3 DEF Frontier
<1> QED BY <1>2, <1>3, <1>4 DEF Shape

(* One that is listed is replaced by what is in it. *)
LEMMA ShapeOpen ==
  ASSUME NEW s, NEW t, Shape(s, {}), Shape(t, {}),
         NEW x \in Paths \ Links, x \in Elems(s), Elems(t) = Elems(s) \ {x},
         NEW k \in [Paths -> Kinds], \A p \in Links : k[p] \in {"none", "link"},
         NEW C, C = {c \in Children(x) : k[c] # "none"},
         NEW E, E = {<<p, k[p]>> : p \in C}
  PROVE  /\ Shape(t, E) /\ Named(E) = C
         /\ Frontier(t, E) = (Frontier(s, {}) \ {x}) \cup Named(E)
<1>1. Shape(t, {}) /\ x \in Paths \ Links /\ x \in Elems(s) /\ Elems(t) = Elems(s) \ {x}
  OBVIOUS
<1>2. t \in Seq(Paths \ Links) /\ Inj(t)
  BY <1>1 DEF Shape
<1>3. Named({}) = {}
  BY DEF Named
<1>4. Frontier(s, {}) = Elems(s) /\ Frontier(t, E) = Elems(t) \cup Named(E)
  BY <1>3 DEF Frontier
<1>5. Named(E) = C
  <2>2. E = {<<p, k[p]>> : p \in C}
    OBVIOUS
  <2>3. {e[1] : e \in E} = C
    <3>1. ASSUME NEW c \in C PROVE c \in {e[1] : e \in E}
      <4>1. PICK e \in E : e = <<c, k[c]>>
        BY <2>2, Zenon
      <4> QED BY <4>1
    <3>2. ASSUME NEW e \in E PROVE e[1] \in C
      BY <2>2
    <3> QED BY <3>1, <3>2
  <2> QED BY <2>3 DEF Named
<1>6. /\ E \in SUBSET ((Paths \ {Root}) \X (Kinds \ {"none"}))
      /\ \A e \in E : e[2] = "dir" => e[1] \notin Links
      /\ \A e, f \in E : e[1] = f[1] => e = f
  BY DEF Children
<1>7. ASSUME NEW c \in Named(E)
      PROVE  /\ c \in Paths /\ c # Root /\ Parent[c] = x
             /\ x \in above[c] /\ above[c] = {c} \cup above[x] /\ c \notin above[x]
  <2>1. c \in Paths /\ c # Root /\ Parent[c] = x
    BY <1>5 DEF Children
  <2> QED BY <1>1, <2>1, AboveParts, AboveAcyclic
<1>8. \A y, z \in Elems(s) : y \in above[z] => y = z
  BY <1>4 DEF Shape
<1>9. Elems(s) \subseteq Paths
  BY DEF Shape, Elems
<1>10. ASSUME NEW c \in Named(E), NEW y \in Elems(t) PROVE c \notin above[y] /\ y \notin above[c]
  <2>1. y \in Paths /\ y \in Elems(s) /\ y # x
    BY <1>1, <1>9
  <2>2. c \notin above[y]
    <3>1. c \in above[y] => x \in above[y]
      BY <1>7, <2>1, AboveTransitive
    <3> QED BY <1>1, <1>8, <2>1, <3>1
  <2>3. y # c
    BY <2>1, <2>2, AboveParts
  <2>4. y \notin above[x]
    BY <1>1, <1>8, <2>1
  <2> QED BY <1>7, <2>2, <2>3, <2>4
<1>11. Elems(t) \cap Named(E) = {}
  BY <1>1, <1>7, <1>10, AboveParts
<1>12. ASSUME NEW y \in Frontier(t, E), NEW z \in Frontier(t, E), y \in above[z] PROVE y = z
  <2>1. CASE y \in Elems(t) /\ z \in Elems(t)
    BY <1>1, <1>8, <1>12, <2>1
  <2>2. CASE y \in Named(E) /\ z \in Named(E)
    BY <1>7, <1>12, <2>2
  <2> QED BY <1>4, <1>10, <1>12, <2>1, <2>2
<1> QED BY <1>1, <1>2, <1>4, <1>5, <1>6, <1>11, <1>12 DEF Shape

-----------------------------------------------------------------------------
(* The invariants of the walk. *)

Results == Records \cup {Unstamped, Error}

Typed ==
  /\ kind \in [Paths -> Kinds] /\ IsTree(kind)
  /\ \A p \in Links : kind[p] \in {"none", "link"}
  /\ \A p \in Paths \ Links : kind[p] # "link"
  /\ rec \in [Paths -> Records \cup {Unstamped}]
  /\ denied \in SUBSET Paths /\ query \in Queries /\ touched \in SUBSET Paths
  /\ out \in [Paths -> Seq(Results)]
  /\ matches \in [Paths -> Nat]
  /\ pc \in {"parse", "walk", "done"} /\ exit \in {None, "SUCCESS", "FAILURE"}

Sound ==
  /\ Shape(stack, entries)
  /\ Truth(stack, entries, kind, touched)
  /\ pc = "parse" => stack = <<>> /\ entries = {} /\ \A p \in Paths : out[p] = <<>>

(* A file that nobody touches or locks, nor a directory above it. *)
Clean(p) ==
  /\ p # Root /\ kind[p] = "file"
  /\ above[p] \cap (touched \cup denied) = {}

(* It has been read once when the walk has passed it, and not before. *)
Exact ==
  pc = "walk" => \A p \in Paths : Clean(p) =>
    out[p] = IF Frontier(stack, entries) \cap above[p] = {} THEN <<rec[p]>> ELSE <<>>

HadError == \E p \in Paths : \E i \in DOMAIN out[p] : out[p][i] = Error

(* Every error has a cause. *)
Blamed == HadError => denied # {} \/ touched # {} \/ kind[Root] # "dir"

(* A root that is no directory, or may not be read, is all the walk sees. *)
RootShut == Root \in denied \/ (kind[Root] # "dir" /\ touched = {})
Shut ==
  pc = "walk" /\ RootShut =>
    /\ entries = {}
    /\ \/ stack = <<Root>> /\ \A p \in Paths : out[p] = <<>>
       \/ stack = <<>> /\ \A p \in Paths : out[p] = IF p = Root THEN <<Error>> ELSE <<>>

-----------------------------------------------------------------------------
(* What the actions do to the frontier. *)

(* The stack of the walk at its start. *)
LEMMA ShapeStart == Shape(<<>>, {}) /\ Shape(<<Root>>, {}) /\ Elems(<<Root>>) = {Root}
<1>1. Root \in Paths \ Links
  BY FindAssumption
<1>2. <<>> \in Seq(Paths \ Links) /\ <<Root>> \in Seq(Paths \ Links)
  BY <1>1
<1>3. Elems(<<>>) = {} /\ Inj(<<>>)
  <2>1. \A i \in 1..Len(<<>>) : FALSE
    OBVIOUS
  <2> QED BY <2>1 DEF Elems, Inj
<1>4. Elems(<<Root>>) = {Root} /\ Inj(<<Root>>)
  <2>1. Len(<<Root>>) = 1 /\ <<Root>>[1] = Root
    OBVIOUS
  <2>2. \A i \in 1..Len(<<Root>>) : i = 1
    BY <2>1
  <2>3. 1 \in 1..Len(<<Root>>)
    BY <2>1
  <2> QED BY <2>1, <2>2, <2>3 DEF Elems, Inj
<1>5. Named({}) = {}
  BY DEF Named
<1>6. Frontier(<<>>, {}) = {} /\ Frontier(<<Root>>, {}) = {Root}
  BY <1>3, <1>4, <1>5 DEF Frontier
<1>7. Shape(<<>>, {})
  BY <1>2, <1>3, <1>5, <1>6, Zenon DEF Shape
<1>8. Shape(<<Root>>, {})
  BY <1>2, <1>4, <1>5, <1>6 DEF Shape
<1> QED BY <1>4, <1>7, <1>8

(* What belongs to a directory that was listed. *)
Listing(x) == {<<p, kind[p]>> : p \in {c \in Children(x) : kind[c] # "none"}}

(* A directory is taken from the stack: its entries take its place, or an  *)
(* error is noted.                                                         *)
LEMMA OpenDirEffect ==
  ASSUME Typed, Sound, OpenDir
  PROVE  /\ pc = "walk" /\ entries = {}
         /\ UNCHANGED <<kind, rec, changes, touched, denied, query, pc, matches, exit>>
         /\ Shape(stack', entries')
         /\ \E x \in Elems(stack) :
              /\ x \in Paths \ Links /\ Elems(stack') = Elems(stack) \ {x}
              /\ x = stack[Len(stack)] /\ stack' = SubSeq(stack, 1, Len(stack) - 1)
              /\ IF kind[x] = "dir" /\ x \notin denied
                   THEN /\ out' = out /\ entries' = Listing(x)
                        /\ Named(entries') = {c \in Children(x) : kind[c] # "none"}
                        /\ Frontier(stack', entries')
                             = (Frontier(stack, entries) \ {x}) \cup Named(entries')
                   ELSE /\ out' = [out EXCEPT ![x] = Append(@, Error)] /\ entries' = {}
                        /\ Frontier(stack', entries') = Frontier(stack, entries) \ {x}
<1>1. /\ pc = "walk" /\ entries = {} /\ stack # <<>>
      /\ UNCHANGED <<kind, rec, changes, touched, denied, query, pc, matches, exit>>
  BY DEF OpenDir, tree
<1>2. PICK x : x = stack[Len(stack)]
  OBVIOUS
<1>3. PICK t : t = SubSeq(stack, 1, Len(stack) - 1)
  OBVIOUS
<1>4. stack' = t
  BY <1>3 DEF OpenDir, Popped
<1>5. Shape(stack, {})
  BY <1>1 DEF Sound
<1>6. /\ Shape(t, {}) /\ x \in Paths \ Links /\ x \in Elems(stack)
      /\ Elems(t) = Elems(stack) \ {x}
      /\ Frontier(t, {}) = Frontier(stack, {}) \ {x}
  BY <1>1, <1>2, <1>3, <1>5, ShapePop
<1>7. DirOf(x) = x
  BY <1>6 DEF DirOf, Typed
<1>8. CASE kind[x] = "dir" /\ x \notin denied
  <2>1. out' = out /\ entries' = Listing(x)
    BY <1>2, <1>7, <1>8 DEF OpenDir, CanList, Top, Listing
  <2>2. kind \in [Paths -> Kinds] /\ \A p \in Links : kind[p] \in {"none", "link"}
    BY DEF Typed
  <2>3. PICK E, C : /\ E = Listing(x) /\ C = {c \in Children(x) : kind[c] # "none"}
                    /\ E = {<<p, kind[p]>> : p \in C}
    BY DEF Listing
  <2>4. /\ Shape(t, E) /\ Named(E) = C
        /\ Frontier(t, E) = (Frontier(stack, {}) \ {x}) \cup Named(E)
    <3>1. PICK s : s = stack /\ Shape(s, {}) /\ x \in Elems(s) /\ Elems(t) = Elems(s) \ {x}
      BY <1>5, <1>6
    <3>2. PICK k \in [Paths -> Kinds] : k = kind /\ \A p \in Links : k[p] \in {"none", "link"}
      BY <2>2
    <3>3. C = {c \in Children(x) : k[c] # "none"} /\ E = {<<p, k[p]>> : p \in C}
      BY <2>3, <3>2
    <3>4. /\ Shape(t, E) /\ Named(E) = C
          /\ Frontier(t, E) = (Frontier(s, {}) \ {x}) \cup Named(E)
      BY <1>6, <3>1, <3>2, <3>3, ShapeOpen
    <3> QED BY <3>1, <3>4
  <2> QED BY <1>1, <1>2, <1>3, <1>4, <1>6, <1>8, <2>1, <2>3, <2>4
<1>9. CASE ~(kind[x] = "dir" /\ x \notin denied)
  <2>1. out' = [out EXCEPT ![x] = Append(@, Error)] /\ entries' = {}
    BY <1>1, <1>2, <1>7, <1>9 DEF OpenDir, CanList, Top, Result
  <2> QED BY <1>1, <1>2, <1>3, <1>4, <1>6, <1>9, <2>1
<1> QED BY <1>8, <1>9

(* An entry is visited: a directory moves to the stack, a file is read. *)
LEMMA VisitEffect ==
  ASSUME Typed, Sound, NEW e \in entries, VisitEntry(e)
  PROVE  /\ pc = "walk" /\ entries' = entries \ {e}
         /\ UNCHANGED <<kind, rec, changes, touched, denied, query, pc, matches, exit>>
         /\ Shape(stack', entries')
         /\ e[1] \in Paths /\ e[1] # Root /\ e[2] \in Kinds
         /\ IF e[2] = "dir"
              THEN /\ Elems(stack') = Elems(stack) \cup {e[1]}
                   /\ Frontier(stack', entries') = Frontier(stack, entries)
              ELSE /\ stack' = stack
                   /\ Frontier(stack', entries') = Frontier(stack, entries) \ {e[1]}
         /\ IF e[2] = "file" THEN out' = [out EXCEPT ![e[1]] = Append(@, ReadRecord(e[1]))]
                             ELSE out' = out
<1>1. /\ pc = "walk" /\ entries' = entries \ {e}
      /\ UNCHANGED <<kind, rec, changes, touched, denied, query, pc, matches, exit>>
      /\ stack' = IF e[2] = "dir" THEN Append(stack, e[1]) ELSE stack
      /\ IF e[2] = "file" THEN out' = [out EXCEPT ![e[1]] = Append(@, ReadRecord(e[1]))]
                          ELSE out' = out
  BY DEF VisitEntry, tree, Result, Pushes
<1>2. Shape(stack, entries)
  BY DEF Sound
<1>3. e[1] \in Paths /\ e[1] # Root /\ e[2] \in Kinds
  BY <1>2 DEF Shape
<1>4. CASE e[2] = "dir"
  <2>1. /\ Shape(Append(stack, e[1]), entries \ {e})
        /\ Frontier(Append(stack, e[1]), entries \ {e}) = Frontier(stack, entries)
        /\ Elems(Append(stack, e[1])) = Elems(stack) \cup {e[1]}
    BY <1>2, <1>4, ShapePush
  <2>2. stack' = Append(stack, e[1])
    BY <1>1, <1>4
  <2> QED BY <1>1, <1>3, <1>4, <2>1, <2>2
<1>5. CASE e[2] # "dir"
  <2>1. /\ Shape(stack, entries \ {e})
        /\ Frontier(stack, entries \ {e}) = Frontier(stack, entries) \ {e[1]}
    BY <1>2, ShapeDrop
  <2>2. stack' = stack
    BY <1>1, <1>5
  <2> QED BY <1>1, <1>3, <1>5, <2>1, <2>2
<1> QED BY <1>4, <1>5

(* An entry that cannot be read is dropped, and counts as touched. *)
LEMMA EntryFailsEffect ==
  ASSUME Typed, Sound, NEW e \in entries, EntryFails(e)
  PROVE  /\ pc = "walk" /\ entries' = entries \ {e} /\ touched' = touched \cup {e[1]}
         /\ UNCHANGED <<kind, rec, denied, query, pc, stack, matches, exit>>
         /\ Shape(stack', entries') /\ e[1] \in Paths /\ e[1] # Root
         /\ Frontier(stack', entries') = Frontier(stack, entries) \ {e[1]}
         /\ \E p \in {e[1], Parent[e[1]]} : p \in Paths /\ out' = [out EXCEPT ![p] = Append(@, Error)]
<1>1. Shape(stack, entries)
  BY DEF Sound
<1>2. e[1] \in Paths /\ e[1] # Root
  BY <1>1 DEF Shape
<1>3. Parent[e[1]] \in Paths
  BY <1>2, FindAssumption
<1>4. /\ Shape(stack, entries \ {e})
      /\ Frontier(stack, entries \ {e}) = Frontier(stack, entries) \ {e[1]}
  BY <1>1, ShapeDrop
<1>5. /\ pc = "walk" /\ entries' = entries \ {e} /\ touched' = touched \cup {e[1]}
      /\ UNCHANGED <<kind, rec, denied, query, pc, stack, matches, exit>>
      /\ \E p \in {e[1], Parent[e[1]]} : out' = [out EXCEPT ![p] = Append(@, Error)]
  BY DEF EntryFails, Result
<1>6. PICK p \in {e[1], Parent[e[1]]} : out' = [out EXCEPT ![p] = Append(@, Error)]
  BY <1>5
<1>7. p \in Paths
  BY <1>2, <1>3
<1> QED BY <1>2, <1>4, <1>5, <1>6, <1>7

(* Somebody else changes what is at a path. *)
LEMMA ChangeEffect ==
  ASSUME Typed, NEW p \in Paths, Change(p)
  PROVE  /\ pc = "walk" /\ p \notin Links /\ touched' = touched \cup {p}
         /\ kind' \in [Paths -> Kinds] /\ IsTree(kind') /\ kind'[p] # "link"
         /\ rec' \in [Paths -> Records \cup {Unstamped}]
         /\ \A q \in Paths : q # p => kind'[q] = kind[q] /\ rec'[q] = rec[q]
         /\ UNCHANGED <<denied, query, pc, stack, entries, out, matches, exit>>
<1>1. PICK k \in Kinds \ {"link"}, r \in Records \cup {Unstamped} :
        /\ kind' = [kind EXCEPT ![p] = k] /\ IsTree(kind')
        /\ rec' = [rec EXCEPT ![p] = r]
  BY DEF Change
<1>2. kind \in [Paths -> Kinds] /\ rec \in [Paths -> Records \cup {Unstamped}]
  BY DEF Typed
<1>3. kind' \in [Paths -> Kinds] /\ kind'[p] = k
  BY <1>1, <1>2
<1>4. rec' \in [Paths -> Records \cup {Unstamped}]
  BY <1>1, <1>2
<1>5. \A q \in Paths : q # p => kind'[q] = kind[q] /\ rec'[q] = rec[q]
  BY <1>1, <1>2
<1> QED BY <1>1, <1>3, <1>4, <1>5 DEF Change

(* One more result of a path. *)
LEMMA ResultTyped ==
  ASSUME Typed, NEW p \in Paths, NEW r \in Results, NEW o,
         o = [out EXCEPT ![p] = Append(@, r)]
  PROVE  /\ o \in [Paths -> Seq(Results)]
         /\ o[p] = Append(out[p], r) /\ \A q \in Paths : q # p => o[q] = out[q]
<1>1. out \in [Paths -> Seq(Results)] /\ out[p] \in Seq(Results)
  BY DEF Typed
<1>2. PICK s \in Seq(Results) : s = Append(out[p], r)
  <2>1. Append(out[p], r) \in Seq(Results)
    BY <1>1
  <2> QED BY <2>1, Zenon
<1>3. o = [out EXCEPT ![p] = s]
  BY <1>2
<1> QED BY <1>1, <1>2, <1>3

(* What read_record() returns. *)
LEMMA ReadRecordTyped ==
  ASSUME Typed, NEW p \in Paths
  PROVE  ReadRecord(p) \in Results
BY DEF Typed, ReadRecord, Results

(* The hits of a path are counted. *)
LEMMA HitsTyped ==
  ASSUME Typed, NEW p \in Paths, NEW S \in SUBSET (DOMAIN out[p])
  PROVE  IsFiniteSet(S) /\ Cardinality(S) \in Nat
<1>1. PICK s \in Seq(Results) : s = out[p]
  BY DEF Typed
<1>2. DOMAIN s = 1..Len(s) /\ Len(s) \in Nat
  OBVIOUS
<1>3. IsFiniteSet(1..Len(s))
  BY <1>2, FS_Interval
<1>4. IsFiniteSet(S)
  BY <1>1, <1>2, <1>3, FS_Subset
<1> QED BY <1>4, FS_CardinalityType

(* What Report does with the results. *)
Good(r) == r # Error /\ Passes(r)
Hits(p) == {i \in DOMAIN out[p] : Good(out[p][i])}

(* The report counts the good results of every path, and fails when there  *)
(* was an error and nothing was found.                                     *)
LEMMA ReportEffect ==
  ASSUME Typed, Report
  PROVE  /\ pc = "walk" /\ entries = {} /\ stack = <<>> /\ pc' = "done"
         /\ \A p \in Paths : Cardinality(Hits(p)) \in Nat /\ IsFiniteSet(Hits(p))
         /\ matches' \in [Paths -> Nat]
         /\ \A p \in Paths : matches'[p] = Cardinality(Hits(p))
         /\ IF HadError /\ \A p \in Paths : matches'[p] = 0
              THEN exit' = "FAILURE" ELSE exit' = "SUCCESS"
         /\ UNCHANGED <<kind, rec, changes, touched, denied, query, stack, entries, out>>
<1>1. /\ pc = "walk" /\ entries = {} /\ stack = <<>> /\ pc' = "done"
      /\ matches' = [p \in Paths |-> Cardinality(Hits(p))]
      /\ exit' = ExitCode(HadError, \E p \in Paths : matches'[p] > 0)
      /\ UNCHANGED <<kind, rec, changes, touched, denied, query, stack, entries, out>>
  <2>1. PICK h : h = [p \in Paths |-> Cardinality(Hits(p))]
    OBVIOUS
  <2>2. /\ pc = "walk" /\ entries = {} /\ stack = <<>> /\ pc' = "done"
        /\ matches' = h /\ exit' = ExitCode(HadError, \E p \in Paths : h[p] > 0)
        /\ UNCHANGED <<kind, rec, changes, touched, denied, query, stack, entries, out>>
    BY <2>1 DEF Report, tree, Hits, Good, HadError
  <2> QED BY <2>1, <2>2
<1>2. ASSUME NEW p \in Paths PROVE Cardinality(Hits(p)) \in Nat /\ IsFiniteSet(Hits(p))
  BY HitsTyped DEF Hits
<1>3. matches' \in [Paths -> Nat] /\ \A p \in Paths : matches'[p] = Cardinality(Hits(p))
  BY <1>1, <1>2
<1>4. (\E p \in Paths : matches'[p] > 0) <=> ~\A p \in Paths : matches'[p] = 0
  BY <1>3
<1>5. IF HadError /\ \A p \in Paths : matches'[p] = 0
        THEN exit' = "FAILURE" ELSE exit' = "SUCCESS"
  BY <1>1, <1>4 DEF ExitCode
<1> QED BY <1>1, <1>2, <1>3, <1>5

-----------------------------------------------------------------------------
(* The variables stay in their ranges. *)

(* The walk begins with nothing read. *)
LEMMA FindInit == Init => Typed /\ Sound
<1> SUFFICES ASSUME Init PROVE Typed /\ Sound
  OBVIOUS
<1>1. out \in [Paths -> Seq(Results)] /\ \A p \in Paths : out[p] = <<>>
  BY DEF Init
<1>2. Links \subseteq Paths /\ denied \in SUBSET Paths
  BY FindAssumption DEF Init
<1>3. \A p \in Paths : IF p \in Links THEN kind[p] \in {"none", "link"} ELSE kind[p] # "link"
  BY DEF Init
<1>4. matches \in [Paths -> Nat]
  BY DEF Init
<1>5. Typed
  BY <1>1, <1>2, <1>3, <1>4 DEF Init, Typed
<1>6. stack = <<>> /\ entries = {}
  BY DEF Init
<1>7. Elems(<<>>) = {}
  <2>1. \A i \in 1..Len(<<>>) : FALSE
    OBVIOUS
  <2> QED BY <2>1 DEF Elems
<1>8. Truth(<<>>, {}, kind, touched)
  BY <1>7, Zenon DEF Truth
<1> QED BY <1>1, <1>5, <1>6, <1>8, ShapeStart, Zenon DEF Sound

(* Every step leaves the variables in their ranges. *)
LEMMA TypedStep == Typed /\ Sound /\ [Next]_vars => Typed'
<1> SUFFICES ASSUME Typed, Sound, [Next]_vars PROVE Typed'
  OBVIOUS
<1>1. CASE ParseSince
  BY <1>1 DEF ParseSince, tree, Typed
<1>2. CASE OpenDir
  <2>1. PICK x \in Paths : out' = out \/ out' = [out EXCEPT ![x] = Append(@, Error)]
    BY <1>2, OpenDirEffect
  <2>2. Error \in Results
    BY DEF Results
  <2>3. out' \in [Paths -> Seq(Results)]
    BY <2>1, <2>2, ResultTyped DEF Typed
  <2>4. UNCHANGED <<kind, rec, changes, touched, denied, query, pc, matches, exit>>
    BY <1>2, OpenDirEffect
  <2> QED BY <2>3, <2>4 DEF Typed
<1>3. ASSUME NEW e \in entries, VisitEntry(e) PROVE Typed'
  <2>1. PICK x \in Paths : out' = out \/ out' = [out EXCEPT ![x] = Append(@, ReadRecord(x))]
    BY <1>3, VisitEffect
  <2>2. ReadRecord(x) \in Results
    BY ReadRecordTyped
  <2>3. out' \in [Paths -> Seq(Results)]
    BY <2>1, <2>2, ResultTyped DEF Typed
  <2>4. UNCHANGED <<kind, rec, changes, touched, denied, query, pc, matches, exit>>
    BY <1>3, VisitEffect
  <2> QED BY <2>3, <2>4 DEF Typed
<1>4. ASSUME NEW e \in entries, EntryFails(e) PROVE Typed'
  <2>1. PICK x \in Paths : out' = [out EXCEPT ![x] = Append(@, Error)]
    BY <1>4, EntryFailsEffect
  <2>2. Error \in Results
    BY DEF Results
  <2>3. out' \in [Paths -> Seq(Results)]
    BY <2>1, <2>2, ResultTyped
  <2>4. /\ UNCHANGED <<kind, rec, denied, query, pc, matches, exit>>
        /\ touched' = touched \cup {e[1]} /\ e[1] \in Paths
    BY <1>4, EntryFailsEffect
  <2>5. touched' \in SUBSET Paths
    BY <2>4 DEF Typed
  <2> QED BY <2>3, <2>4, <2>5 DEF Typed
<1>5. CASE Report
  <2>1. /\ pc' = "done" /\ matches' \in [Paths -> Nat]
        /\ exit' \in {"FAILURE", "SUCCESS"}
        /\ UNCHANGED <<kind, rec, changes, touched, denied, query, out>>
    BY <1>5, ReportEffect
  <2> QED BY <2>1 DEF Typed
<1>6. ASSUME NEW p \in Paths, Change(p) PROVE Typed'
  <2>1. /\ pc = "walk" /\ p \notin Links /\ touched' = touched \cup {p}
        /\ kind' \in [Paths -> Kinds] /\ IsTree(kind') /\ kind'[p] # "link"
        /\ rec' \in [Paths -> Records \cup {Unstamped}]
        /\ \A q \in Paths : q # p => kind'[q] = kind[q]
        /\ UNCHANGED <<denied, query, pc, out, matches, exit>>
    BY <1>6, ChangeEffect
  <2>2. \A q \in Links : kind'[q] \in {"none", "link"}
    BY <2>1, FindAssumption DEF Typed
  <2>3. \A q \in Paths \ Links : kind'[q] # "link"
    BY <2>1 DEF Typed
  <2>4. touched' \in SUBSET Paths
    BY <2>1 DEF Typed
  <2>5. /\ kind' \in [Paths -> Kinds] /\ IsTree(kind)'
        /\ rec' \in [Paths -> Records \cup {Unstamped}]
    BY <2>1 DEF IsTree
  <2> QED BY <2>1, <2>2, <2>3, <2>4, <2>5 DEF Typed
<1>7. CASE UNCHANGED vars
  BY <1>7 DEF vars, Typed
<1> QED BY <1>1, <1>2, <1>3, <1>4, <1>5, <1>6, <1>7 DEF Next, ProvStep

(* Every step leaves the frontier in shape and the beliefs of the walk so. *)
LEMMA SoundStep == Typed /\ Sound /\ [Next]_vars => Sound'
<1> SUFFICES ASSUME Typed, Sound, [Next]_vars PROVE Sound'
  OBVIOUS
<1>1. Shape(stack, entries) /\ Truth(stack, entries, kind, touched)
  BY DEF Sound
<1>2. \A e \in entries : e[1] \in Paths /\ e[1] # Root /\ Parent[e[1]] \in Paths
  BY <1>1, FindAssumption DEF Shape
<1>3. Elems(stack) \subseteq Paths
  BY <1>1 DEF Shape, Elems
<1>4. ASSUME Shape(stack', entries'), Truth(stack', entries', kind', touched'), pc' # "parse"
      PROVE  Sound'
  BY <1>4 DEF Sound, Shape, Truth, Frontier, Elems, Inj, Named
<1>5. CASE ParseSince
  <2>1. pc = "parse" /\ pc' # "parse" /\ UNCHANGED <<kind, touched, entries>>
    BY <1>5 DEF ParseSince, tree
  <2>2. stack' = stack \/ stack' = <<Root>>
    BY <1>5 DEF ParseSince
  <2>3. entries = {}
    BY <2>1 DEF Sound
  <2>4. CASE stack' = stack
    BY <1>1, <1>4, <2>1, <2>4
  <2>5. CASE stack' = <<Root>>
    <3>1. Truth(<<Root>>, {}, kind, touched)
      BY ShapeStart, Zenon DEF Truth
    <3> QED BY <1>4, <2>1, <2>3, <2>5, <3>1, ShapeStart
  <2> QED BY <2>2, <2>4, <2>5
<1>6. CASE OpenDir
  <2>1. /\ pc = "walk" /\ entries = {} /\ UNCHANGED <<kind, touched, pc>>
        /\ Shape(stack', entries')
    BY <1>6, OpenDirEffect
  <2>2. PICK x \in Elems(stack) :
          /\ Elems(stack') = Elems(stack) \ {x}
          /\ entries' = {} \/ (kind[x] = "dir" /\ entries' = Listing(x))
    BY <1>6, OpenDirEffect
  <2>3. \A p \in Elems(stack') : p \notin touched /\ p # Root => kind[p] = "dir"
    BY <1>1, <2>2 DEF Truth
  <2>4. ASSUME NEW e \in entries'
        PROVE  kind[e[1]] = e[2] /\ kind[Parent[e[1]]] = "dir"
    <3>1. PICK c \in Children(x) : e = <<c, kind[c]>> /\ kind[x] = "dir"
      BY <2>2, <2>4 DEF Listing
    <3> QED BY <3>1 DEF Children
  <2>5. Truth(stack', entries', kind, touched)
    BY <2>3, <2>4, Zenon DEF Truth
  <2> QED BY <1>4, <2>1, <2>5
<1>7. ASSUME NEW e \in entries, VisitEntry(e) PROVE Sound'
  <2>1. /\ pc = "walk" /\ entries' = entries \ {e} /\ UNCHANGED <<kind, touched, pc>>
        /\ Shape(stack', entries')
        /\ IF e[2] = "dir" THEN Elems(stack') = Elems(stack) \cup {e[1]} ELSE stack' = stack
    BY <1>7, VisitEffect
  <2>2. \A p \in Elems(stack') : p \notin touched /\ p # Root => kind[p] = "dir"
    BY <1>1, <2>1 DEF Truth
  <2>3. Truth(stack', entries', kind, touched)
    BY <1>1, <2>1, <2>2, Zenon DEF Truth
  <2> QED BY <1>4, <2>1, <2>3
<1>8. ASSUME NEW e \in entries, EntryFails(e) PROVE Sound'
  <2>1. /\ pc = "walk" /\ entries' = entries \ {e} /\ touched' = touched \cup {e[1]}
        /\ UNCHANGED <<kind, pc, stack>> /\ Shape(stack', entries')
    BY <1>8, EntryFailsEffect
  <2>2. Truth(stack, entries', kind, touched')
    BY <1>1, <2>1, Zenon DEF Truth
  <2> QED BY <1>4, <2>1, <2>2
<1>9. CASE Report
  <2>1. pc' = "done" /\ UNCHANGED <<kind, touched, stack, entries>>
    BY <1>9, ReportEffect
  <2> QED BY <1>1, <1>4, <2>1
<1>10. ASSUME NEW p \in Paths, Change(p) PROVE Sound'
  <2>1. /\ pc = "walk" /\ touched' = touched \cup {p}
        /\ \A q \in Paths : q # p => kind'[q] = kind[q]
        /\ UNCHANGED <<pc, stack, entries>>
    BY <1>10, ChangeEffect
  <2>2. Truth(stack, entries, kind', touched')
    <3>1. \A q \in Paths : q \notin touched' => q \notin touched /\ kind'[q] = kind[q]
      BY <2>1
    <3> QED BY <1>1, <1>2, <1>3, <3>1 DEF Truth
  <2> QED BY <1>1, <1>4, <2>1, <2>2
<1>11. CASE UNCHANGED vars
  BY <1>11 DEF vars, Sound, Shape, Truth, Frontier, Elems, Inj, Named
<1> QED BY <1>5, <1>6, <1>7, <1>8, <1>9, <1>10, <1>11 DEF Next, ProvStep

(* Both invariants together. *)
LEMMA FindInvariant == FairSpec => [](Typed /\ Sound)
<1>1. Typed /\ Sound /\ [Next]_vars => (Typed /\ Sound)'
  BY TypedStep, SoundStep
<1> QED BY <1>1, FindInit, PTL DEF FairSpec

(* Every variable keeps its range; no link and no path twice is ever on    *)
(* the stack, whatever links there are and however the tree changes.       *)
THEOREM FindTypeCorrect == FairSpec => []TypeOK
<1>1. Typed /\ Sound => TypeOK
  <2> SUFFICES ASSUME Typed, Sound PROVE TypeOK
    OBVIOUS
  <2>1. stack \in Seq(Paths \ Links) /\ Inj(stack)
    BY DEF Sound, Shape
  <2>2. DOMAIN stack = 1..Len(stack)
    BY <2>1
  <2>3. entries \subseteq Paths \X (Kinds \ {"none"})
    BY DEF Sound, Shape
  <2> QED BY <2>1, <2>2, <2>3 DEF TypeOK, Typed, Inj
<1> QED BY <1>1, FindInvariant, PTL

-----------------------------------------------------------------------------
(* The exit status. *)

(* A result that is an error is one of those there were, or the new one. *)
LEMMA ErrorAdded ==
  ASSUME Typed, NEW p \in Paths, NEW r \in Results,
         out' = [out EXCEPT ![p] = Append(@, r)], HadError'
  PROVE  HadError \/ r = Error
<1>1. out'[p] = Append(out[p], r) /\ \A q \in Paths : q # p => out'[q] = out[q]
  BY ResultTyped
<1>2. PICK q \in Paths : \E i \in DOMAIN out'[q] : out'[q][i] = Error
  BY DEF HadError
<1>3. CASE q # p
  BY <1>1, <1>2, <1>3 DEF HadError
<1>4. CASE q = p
  <2>1. PICK s \in Seq(Results) : s = out[p]
    BY DEF Typed
  <2>2. PICK t : t = Append(s, r)
    OBVIOUS
  <2>3. PICK i \in DOMAIN t : t[i] = Error
    BY <1>1, <1>2, <1>4, <2>1, <2>2
  <2>4. i \in 1..Len(s) \/ i = Len(s) + 1
    BY <2>2, <2>3
  <2>5. CASE i \in 1..Len(s)
    <3>1. s[i] = Error /\ i \in DOMAIN s
      BY <2>2, <2>3, <2>5
    <3> QED BY <2>1, <3>1 DEF HadError
  <2>6. CASE i = Len(s) + 1
    BY <2>2, <2>3, <2>6
  <2> QED BY <2>4, <2>5, <2>6
<1> QED BY <1>3, <1>4

(* Every error has its cause when it is noted, and keeps it. *)
LEMMA BlamedStep == Typed /\ Sound /\ Blamed /\ [Next]_vars => Blamed'
<1> SUFFICES ASSUME Typed, Sound, Blamed, [Next]_vars, HadError'
             PROVE  denied' # {} \/ touched' # {} \/ kind'[Root] # "dir"
  BY DEF Blamed
<1>1. Truth(stack, entries, kind, touched)
  BY DEF Sound
<1>2. ASSUME HadError, UNCHANGED <<kind, touched, denied>>
      PROVE  denied' # {} \/ touched' # {} \/ kind'[Root] # "dir"
  BY <1>2 DEF Blamed
<1>3. CASE ParseSince
  <2>1. UNCHANGED <<kind, touched, denied, out>>
    BY <1>3 DEF ParseSince, tree
  <2> QED BY <1>2, <2>1 DEF HadError
<1>4. CASE OpenDir
  <2>1. UNCHANGED <<kind, touched, denied>>
    BY <1>4, OpenDirEffect
  <2>2. PICK x \in Elems(stack) :
          /\ x \in Paths
          /\ \/ out' = out
             \/ /\ out' = [out EXCEPT ![x] = Append(@, Error)]
                /\ ~(kind[x] = "dir" /\ x \notin denied)
    BY <1>4, OpenDirEffect
  <2>3. CASE out' = out
    BY <1>2, <2>1, <2>3 DEF HadError
  <2>4. CASE ~(kind[x] = "dir" /\ x \notin denied)
    BY <1>1, <2>1, <2>4 DEF Truth
  <2> QED BY <2>2, <2>3, <2>4
<1>5. ASSUME NEW e \in entries, VisitEntry(e)
      PROVE  denied' # {} \/ touched' # {} \/ kind'[Root] # "dir"
  <2>1. UNCHANGED <<kind, touched, denied>> /\ e[1] \in Paths
    BY <1>5, VisitEffect
  <2>2. PICK r : r = ReadRecord(e[1])
    OBVIOUS
  <2>3. \/ out' = out
        \/ e[2] = "file" /\ out' = [out EXCEPT ![e[1]] = Append(@, r)]
    BY <1>5, <2>2, VisitEffect
  <2>4. CASE out' = out
    BY <1>2, <2>1, <2>4 DEF HadError
  <2>5. CASE e[2] = "file" /\ out' = [out EXCEPT ![e[1]] = Append(@, r)]
    <3>1. r \in Results
      BY <2>1, <2>2, ReadRecordTyped
    <3>2. HadError \/ r = Error
      BY <2>1, <2>5, <3>1, ErrorAdded
    <3>3. CASE r = Error
      <4>1. rec[e[1]] # Error
        BY <2>1, FindAssumption DEF Typed
      <4>2. kind[e[1]] = "none" \/ e[1] \in denied
        BY <2>2, <3>3, <4>1 DEF ReadRecord
      <4> QED BY <1>1, <2>1, <2>5, <4>2 DEF Truth
    <3> QED BY <1>2, <2>1, <3>2, <3>3
  <2> QED BY <2>3, <2>4, <2>5
<1>6. ASSUME NEW e \in entries, EntryFails(e) PROVE touched' # {}
  BY <1>6, EntryFailsEffect
<1>7. CASE Report
  <2>1. UNCHANGED <<kind, touched, denied, out>>
    BY <1>7, ReportEffect
  <2> QED BY <1>2, <2>1 DEF HadError
<1>8. ASSUME NEW p \in Paths, Change(p) PROVE touched' # {}
  BY <1>8, ChangeEffect
<1>9. CASE UNCHANGED vars
  BY <1>2, <1>9 DEF vars, HadError
<1> QED BY <1>3, <1>4, <1>5, <1>6, <1>7, <1>8, <1>9 DEF Next, ProvStep

(* A root that is shut stays all there is to see. *)
LEMMA ShutStep == Typed /\ Sound /\ Shut /\ [Next]_vars => Shut'
<1> SUFFICES ASSUME Typed, Sound, Shut, [Next]_vars, pc' = "walk", RootShut'
             PROVE  /\ entries' = {}
                    /\ \/ stack' = <<Root>> /\ \A p \in Paths : out'[p] = <<>>
                       \/ /\ stack' = <<>>
                          /\ \A p \in Paths : out'[p] = IF p = Root THEN <<Error>> ELSE <<>>
  BY DEF Shut
<1>1. CASE ParseSince
  <2>1. pc = "parse" /\ stack' = <<Root>> /\ UNCHANGED <<entries, out>>
    BY <1>1 DEF ParseSince
  <2> QED BY <2>1 DEF Sound
<1>2. CASE OpenDir
  <2>1. pc = "walk" /\ entries = {} /\ UNCHANGED <<kind, touched, denied>>
    BY <1>2, OpenDirEffect
  <2>2. RootShut
    BY <2>1 DEF RootShut
  <2>3. PICK x \in Elems(stack) :
          /\ x = stack[Len(stack)] /\ stack' = SubSeq(stack, 1, Len(stack) - 1)
          /\ IF kind[x] = "dir" /\ x \notin denied THEN TRUE
             ELSE out' = [out EXCEPT ![x] = Append(@, Error)] /\ entries' = {}
    BY <1>2, OpenDirEffect
  <2>4. stack # <<>>
    BY <1>2 DEF OpenDir
  <2>5. stack = <<Root>> /\ \A p \in Paths : out[p] = <<>>
    BY <2>1, <2>2, <2>4 DEF Shut
  <2>6. x = Root /\ stack' = <<>>
    BY <2>3, <2>5
  <2>7. out' = [out EXCEPT ![Root] = Append(@, Error)] /\ entries' = {}
    BY <2>2, <2>3, <2>6 DEF RootShut
  <2>8. Root \in Paths /\ Error \in Results
    BY FindAssumption DEF Results
  <2>9. out'[Root] = Append(out[Root], Error) /\ \A q \in Paths : q # Root => out'[q] = out[q]
    BY <2>7, <2>8, ResultTyped
  <2>10. out'[Root] = <<Error>>
    <3>1. Append(<<>>, Error) = <<Error>>
      OBVIOUS
    <3>2. out[Root] = <<>>
      BY <2>5, <2>8
    <3> QED BY <2>9, <3>1, <3>2
  <2> QED BY <2>5, <2>6, <2>7, <2>9, <2>10
<1>3. ASSUME NEW e \in entries, VisitEntry(e) PROVE FALSE
  <2>1. pc = "walk" /\ UNCHANGED <<kind, touched, denied>>
    BY <1>3, VisitEffect
  <2> QED BY <1>3, <2>1 DEF Shut, RootShut
<1>4. ASSUME NEW e \in entries, EntryFails(e) PROVE FALSE
  <2>1. pc = "walk" /\ touched' # {} /\ UNCHANGED denied
    BY <1>4, EntryFailsEffect
  <2> QED BY <1>4, <2>1 DEF Shut, RootShut
<1>5. CASE Report
  BY <1>5 DEF Report
<1>6. ASSUME NEW p \in Paths, Change(p)
      PROVE  pc = "walk" /\ RootShut /\ UNCHANGED <<stack, entries, out>>
  <2>1. pc = "walk" /\ touched' # {} /\ UNCHANGED <<denied, stack, entries, out>>
    BY <1>6, ChangeEffect
  <2> QED BY <2>1 DEF RootShut
<1>7. CASE UNCHANGED vars
  BY <1>7 DEF vars, Shut, RootShut
<1> QED BY <1>1, <1>2, <1>3, <1>4, <1>5, <1>6, <1>7 DEF Next, ProvStep, Shut

(* Nothing happens after find has exited. *)
LEMMA DoneStays ==
  ASSUME pc = "done", [Next]_vars
  PROVE  UNCHANGED vars
BY DEF Next, ProvStep, ParseSince, OpenDir, VisitEntry, EntryFails, Report, Change

(* find fails for a reason and not otherwise: of a walk that met an error  *)
(* and found nothing, the root, a lock or a change is the cause; a root    *)
(* that is no directory or may not be read is always reported.             *)
THEOREM FindExitIsHonest == FairSpec => []FindExitHonest
<1>1. Init => Blamed /\ Shut /\ FindExitHonest
  <2> SUFFICES ASSUME Init PROVE ~HadError /\ pc = "parse"
    BY DEF Blamed, Shut, FindExitHonest
  <2>1. \A p \in Paths : DOMAIN out[p] = {}
    BY DEF Init
  <2> QED BY <2>1 DEF HadError, Init
<1>2. Typed /\ Sound /\ Blamed /\ Shut /\ FindExitHonest /\ [Next]_vars => FindExitHonest'
  <2> SUFFICES ASSUME Typed, Sound, Blamed, Shut, FindExitHonest, [Next]_vars, pc' = "done"
               PROVE  FindExitHonest'
    BY DEF FindExitHonest
  <2>1. CASE pc = "done"
    BY <2>1, DoneStays DEF vars, FindExitHonest, Malformed
  <2>2. CASE ParseSince
    <3>1. Malformed /\ exit' = "FAILURE" /\ query' = query
      BY <2>2 DEF ParseSince
    <3> QED BY <3>1 DEF FindExitHonest, Malformed
  <2>3. CASE Report
    <3>1. /\ pc = "walk" /\ entries = {} /\ stack = <<>>
          /\ \A p \in Paths : matches'[p] = Cardinality(Hits(p))
          /\ IF HadError /\ \A p \in Paths : matches'[p] = 0
               THEN exit' = "FAILURE" ELSE exit' = "SUCCESS"
          /\ UNCHANGED <<kind, touched, denied, query>>
      BY <2>3, ReportEffect
    <3>2. ASSUME exit' = "FAILURE"
          PROVE  /\ denied # {} \/ touched # {} \/ kind[Root] # "dir"
                 /\ \A p \in Paths : matches'[p] = 0
      BY <3>1, <3>2 DEF Blamed
    <3>3. ASSUME RootShut PROVE exit' = "FAILURE"
      <4>1. \A p \in Paths : out[p] = IF p = Root THEN <<Error>> ELSE <<>>
        <5>1. <<>> # <<Root>>
          OBVIOUS
        <5> QED BY <3>1, <3>3, <5>1 DEF Shut
      <4>2. Root \in Paths
        BY FindAssumption
      <4>3. HadError
        <5>1. 1 \in DOMAIN out[Root] /\ out[Root][1] = Error
          BY <4>1, <4>2
        <5> QED BY <4>2, <5>1 DEF HadError
      <4>4. ASSUME NEW p \in Paths PROVE Hits(p) = {}
        <5>1. CASE p = Root
          <6>1. \A i \in DOMAIN out[p] : out[p][i] = Error
            BY <4>1, <5>1
          <6> QED BY <6>1 DEF Hits, Good
        <5>2. CASE p # Root
          <6>1. DOMAIN out[p] = {}
            BY <4>1, <5>2
          <6> QED BY <6>1 DEF Hits
        <5> QED BY <5>1, <5>2
      <4>5. \A p \in Paths : matches'[p] = 0
        BY <3>1, <4>4, FS_EmptySet
      <4> QED BY <3>1, <4>3, <4>5
    <3>4. RootShut' <=> RootShut
      BY <3>1 DEF RootShut
    <3>5. FindExitHonest' <=>
            /\ exit' = "FAILURE" =>
                 \/ Malformed'
                 \/ (denied' # {} \/ touched' # {} \/ kind'[Root] # "dir")
                    /\ \A p \in Paths : matches'[p] = 0
            /\ RootShut' => exit' = "FAILURE"
      BY DEF FindExitHonest, RootShut
    <3> QED BY <3>1, <3>2, <3>3, <3>4, <3>5
  <2>4. CASE UNCHANGED vars
    BY <2>1, <2>4 DEF vars
  <2>5. CASE Next /\ pc # "done"
    BY <2>2, <2>3, <2>5 DEF Next, ProvStep, OpenDir, VisitEntry, EntryFails, Change
  <2> QED BY <2>1, <2>4, <2>5
<1>3. Typed /\ Sound /\ Blamed /\ [Next]_vars => Blamed'
  BY BlamedStep
<1>4. Typed /\ Sound /\ Shut /\ [Next]_vars => Shut'
  BY ShutStep
<1> QED BY <1>1, <1>2, <1>3, <1>4, FindInvariant, PTL DEF FairSpec

-----------------------------------------------------------------------------
(* find is exact where nobody interferes. *)

(* What is above a clean file, other than it, is a directory that nobody   *)
(* touches or locks.                                                       *)
LEMMA CleanAbove ==
  ASSUME Typed, NEW p \in Paths, Clean(p), NEW a \in above[p]
  PROVE  /\ a \in Paths /\ a \notin touched /\ a \notin denied
         /\ a # p => kind[a] = "dir"
<1>1. IsTree(kind) /\ kind[p] # "none"
  BY DEF Typed, Clean
<1>2. a # p => kind[a] = "dir"
  BY <1>1, AboveIsDir
<1> QED BY <1>2, AbovePaths DEF Clean

(* One result of a record. *)
LEMMA AppendOne == \A r : Append(<<>>, r) = <<r>>
OBVIOUS

(* Every step keeps the account of what has been read. *)
LEMMA ExactStep == Typed /\ Sound /\ Exact /\ [Next]_vars => Exact'
<1> SUFFICES ASSUME Typed, Sound, Exact, [Next]_vars, pc' = "walk",
                    NEW p \in Paths, Clean(p)'
             PROVE  out'[p] = IF Frontier(stack', entries') \cap above[p] = {}
                                THEN <<rec'[p]>> ELSE <<>>
  BY DEF Exact, Frontier, Elems, Named
<1>1. Shape(stack, entries) /\ Truth(stack, entries, kind, touched)
  BY DEF Sound
<1>2. ASSUME UNCHANGED <<kind, denied>>, touched \subseteq touched' PROVE Clean(p)
  BY <1>2 DEF Clean
<1>3. ASSUME pc = "walk", Clean(p)
      PROVE  out[p] = IF Frontier(stack, entries) \cap above[p] = {} THEN <<rec[p]>> ELSE <<>>
  BY <1>3 DEF Exact
<1>4. \A x, y \in Frontier(stack, entries) : x \in above[y] => x = y
  BY <1>1 DEF Shape
<1>5. CASE ParseSince
  <2>1. pc = "parse" /\ stack' = <<Root>> /\ UNCHANGED <<entries, out>>
    BY <1>5 DEF ParseSince
  <2>2. out'[p] = <<>> /\ entries' = {}
    BY <2>1 DEF Sound
  <2>3. Root \in Frontier(stack', entries')
    BY <2>1, ShapeStart DEF Frontier
  <2> QED BY <2>2, <2>3, AboveRoot
<1>6. CASE OpenDir
  <2>1. /\ pc = "walk" /\ entries = {}
        /\ UNCHANGED <<kind, rec, touched, denied>>
    BY <1>6, OpenDirEffect
  <2>2. Clean(p)
    BY <1>2, <2>1
  <2>3. PICK x \in Elems(stack) :
          /\ x \in Paths \ Links
          /\ IF kind[x] = "dir" /\ x \notin denied
               THEN /\ out' = out
                    /\ Named(entries') = {c \in Children(x) : kind[c] # "none"}
                    /\ Frontier(stack', entries')
                         = (Frontier(stack, entries) \ {x}) \cup Named(entries')
               ELSE /\ out' = [out EXCEPT ![x] = Append(@, Error)]
                    /\ Frontier(stack', entries') = Frontier(stack, entries) \ {x}
    BY <1>6, OpenDirEffect
  <2>4. x \in Frontier(stack, entries)
    BY <2>3 DEF Frontier
  <2>5. x # p
    <3>1. x = p => x \notin touched /\ x # Root /\ kind[x] = "file"
      BY <2>2, AboveParts DEF Clean
    <3>2. x \notin touched /\ x # Root => kind[x] = "dir"
      BY <1>1, <2>3 DEF Truth
    <3> QED BY <3>1, <3>2
  <2>6. CASE x \in above[p]
    <3>1. kind[x] = "dir" /\ x \notin denied
      BY <2>2, <2>5, <2>6, CleanAbove
    <3>2. PICK c \in above[p] : c # Root /\ Parent[c] = x
      BY <2>5, <2>6, AboveChild
    <3>3. c \in Paths /\ kind[c] # "none"
      BY <2>2, CleanAbove DEF Clean
    <3>4. c \in Named(entries')
      BY <2>3, <3>1, <3>2, <3>3 DEF Children
    <3>5. c \in Frontier(stack', entries') /\ out' = out
      BY <2>3, <3>1, <3>4
    <3> QED BY <1>3, <2>1, <2>2, <2>4, <2>6, <3>2, <3>5
  <2>7. CASE x \notin above[p]
    <3>1. out'[p] = out[p]
      <4>1. out' = out \/ out' = [out EXCEPT ![x] = Append(@, Error)]
        BY <2>3
      <4>2. Error \in Results
        BY DEF Results
      <4> QED BY <2>3, <2>5, <4>1, <4>2, ResultTyped
    <3>2. ASSUME NEW c \in Paths, c # Root, Parent[c] = x PROVE c \notin above[p]
      <4>1. x \in above[c]
        BY <3>2, AboveParts
      <4> QED BY <2>7, <4>1, AboveTransitive
    <3>3. Frontier(stack', entries') \cap above[p] = Frontier(stack, entries) \cap above[p]
      <4>1. CASE kind[x] = "dir" /\ x \notin denied
        <5>1. Named(entries') \cap above[p] = {}
          BY <2>3, <3>2, <4>1 DEF Children
        <5> QED BY <2>3, <2>7, <4>1, <5>1
      <4>2. CASE ~(kind[x] = "dir" /\ x \notin denied)
        BY <2>3, <2>7, <4>2
      <4> QED BY <4>1, <4>2
    <3> QED BY <1>3, <2>1, <2>2, <3>1, <3>3
  <2> QED BY <2>6, <2>7
<1>7. ASSUME NEW e \in entries, VisitEntry(e)
      PROVE  out'[p] = IF Frontier(stack', entries') \cap above[p] = {}
                         THEN <<rec'[p]>> ELSE <<>>
  <2>1. /\ pc = "walk" /\ UNCHANGED <<kind, rec, touched, denied>>
        /\ e[1] \in Paths /\ e[1] # Root
        /\ Frontier(stack', entries')
             = IF e[2] = "dir" THEN Frontier(stack, entries) ELSE Frontier(stack, entries) \ {e[1]}
        /\ IF e[2] = "file" THEN out' = [out EXCEPT ![e[1]] = Append(@, ReadRecord(e[1]))]
                            ELSE out' = out
    BY <1>7, VisitEffect
  <2>2. Clean(p)
    BY <1>2, <2>1
  <2>3. e[1] \in Frontier(stack, entries)
    BY DEF Frontier, Named
  <2>4. CASE e[1] = p
    <3>1. p \in above[p] /\ kind[p] = "file" /\ p \notin touched /\ p \notin denied
      BY <2>2, AboveParts, CleanAbove DEF Clean
    <3>2. e[2] = "file"
      BY <1>1, <2>4, <3>1 DEF Truth
    <3>3. out[p] = <<>>
      BY <1>3, <2>1, <2>2, <2>3, <2>4, <3>1
    <3>4. ReadRecord(p) = rec[p] /\ rec[p] \in Results
      BY <3>1 DEF ReadRecord, Typed, Results
    <3>5. out' = [out EXCEPT ![p] = Append(@, rec[p])]
      BY <2>1, <2>4, <3>2, <3>4
    <3>6. out'[p] = Append(out[p], rec[p])
      BY <3>4, <3>5, ResultTyped
    <3>7. out'[p] = <<rec[p]>>
      BY <3>3, <3>6, AppendOne
    <3>8. ASSUME NEW y \in Frontier(stack, entries), y \in above[p] PROVE y = p
      BY <1>4, <2>3, <2>4, <3>8
    <3>9. Frontier(stack', entries') \cap above[p] = {}
      BY <2>1, <2>4, <3>2, <3>8
    <3> QED BY <2>1, <3>7, <3>9
  <2>5. CASE e[1] # p
    <3>1. out'[p] = out[p]
      <4>1. out' = out \/ out' = [out EXCEPT ![e[1]] = Append(@, ReadRecord(e[1]))]
        BY <2>1
      <4>2. ReadRecord(e[1]) \in Results
        BY <2>1, ReadRecordTyped
      <4> QED BY <2>1, <2>5, <4>1, <4>2, ResultTyped
    <3>2. e[1] \in above[p] => e[2] = "dir"
      <4>1. e[1] \in above[p] => kind[e[1]] = "dir" /\ e[1] \notin touched
        BY <2>2, <2>5, CleanAbove
      <4> QED BY <1>1, <4>1 DEF Truth
    <3>3. Frontier(stack', entries') \cap above[p] = Frontier(stack, entries) \cap above[p]
      BY <2>1, <3>2
    <3> QED BY <1>3, <2>1, <2>2, <3>1, <3>3
  <2> QED BY <2>4, <2>5
<1>8. ASSUME NEW e \in entries, EntryFails(e)
      PROVE  out'[p] = IF Frontier(stack', entries') \cap above[p] = {}
                         THEN <<rec'[p]>> ELSE <<>>
  <2>1. /\ pc = "walk" /\ touched' = touched \cup {e[1]}
        /\ UNCHANGED <<kind, rec, denied>> /\ e[1] \in Paths /\ e[1] # Root
        /\ Frontier(stack', entries') = Frontier(stack, entries) \ {e[1]}
    BY <1>8, EntryFailsEffect
  <2>2. PICK q \in {e[1], Parent[e[1]]} : q \in Paths /\ out' = [out EXCEPT ![q] = Append(@, Error)]
    BY <1>8, EntryFailsEffect
  <2>3. Clean(p)
    BY <1>2, <2>1
  <2>4. e[1] \notin above[p]
    BY <2>1 DEF Clean
  <2>5. q # p
    <3>1. e[1] # p
      BY <2>4, AboveParts
    <3>2. Parent[e[1]] # p
      <4>1. p \in above[p] /\ p \notin touched /\ kind[p] = "file"
        BY <2>3, AboveParts, CleanAbove DEF Clean
      <4>2. Parent[e[1]] \notin touched => kind[Parent[e[1]]] = "dir"
        BY <1>1 DEF Truth
      <4> QED BY <4>1, <4>2
    <3> QED BY <3>1, <3>2
  <2>6. out'[p] = out[p]
    <3>1. Error \in Results
      BY DEF Results
    <3> QED BY <2>2, <2>5, <3>1, ResultTyped
  <2>7. Frontier(stack', entries') \cap above[p] = Frontier(stack, entries) \cap above[p]
    BY <2>1, <2>4
  <2> QED BY <1>3, <2>1, <2>3, <2>6, <2>7
<1>9. CASE Report
  BY <1>9 DEF Report
<1>10. ASSUME NEW q \in Paths, Change(q)
       PROVE  out'[p] = IF Frontier(stack', entries') \cap above[p] = {}
                          THEN <<rec'[p]>> ELSE <<>>
  <2>1. /\ pc = "walk" /\ touched' = touched \cup {q}
        /\ \A x \in Paths : x # q => kind'[x] = kind[x] /\ rec'[x] = rec[x]
        /\ UNCHANGED <<denied, stack, entries, out>>
    BY <1>10, ChangeEffect
  <2>2. q # p
    BY <2>1, AboveParts DEF Clean
  <2>3. Clean(p)
    BY <2>1, <2>2 DEF Clean
  <2> QED BY <1>3, <2>1, <2>2, <2>3
<1>11. CASE UNCHANGED vars
  <2>1. Clean(p) /\ UNCHANGED <<pc, out, rec, stack, entries>>
    BY <1>2, <1>11 DEF vars
  <2> QED BY <1>3, <2>1
<1> QED BY <1>5, <1>6, <1>7, <1>8, <1>9, <1>10, <1>11 DEF Next, ProvStep

(* A record that was read passes the filters of cmd_find() just when it is *)
(* what the command line asks for: neither the saturated product of        *)
(* parse_duration() nor the clamps of the cutoff change the answer.        *)
LEMMA FilterCorrect ==
  ASSUME query \in Queries, ~Malformed, NEW r \in Records \cup {Unstamped}
  PROVE  Good(r) <=> Wanted(r)
<1>1. r # Error
  BY FindAssumption
<1>2. ~IsEmpty(r) <=> \E k \in Keys : r[k] # None
  BY DEF IsEmpty
<1>3. ASSUME query.since # None, r \in Records, r["ts"] # None
      PROVE  RecentEnough(r) <=>
               /\ r["ts"].form # "garbage"
               /\ r["ts"].secs >= Now - query.since.mag * UnitSecs[query.since.unit]
  <2>1. query \in QueryType
    BY FindAssumption
  <2>2. query.since \in [mag : Nat \cup {None}, unit : DOMAIN UnitSecs \cup {"?", "none"}]
    BY <1>3, <2>1 DEF QueryType
  <2>3. PICK d : d = query.since
    OBVIOUS
  <2>4. /\ d.unit \in DOMAIN UnitSecs /\ d.mag \in Nat /\ d.mag <= MaxU
        /\ ParseDuration(d) = SaturatingMul(d.mag, UnitSecs[d.unit])
    BY <1>3, <2>2, <2>3, FindAssumption DEF Malformed, ParseDuration
  <2>5. PICK u \in Nat : u = UnitSecs[d.unit]
    BY <2>4, FindAssumption
  <2>6. PICK m \in Nat : m = d.mag * u
    BY <2>4
  <2>7. MaxI \in Nat /\ MaxU \in Nat /\ MaxI < MaxU /\ Now \in Nat /\ Now <= MaxI
    BY FindAssumption
  <2>8. ParseDuration(d) = IF m < MaxU THEN m ELSE MaxU
    BY <2>4, <2>5, <2>6 DEF SaturatingMul, LeastOf
  <2>9. Cutoff(d) = IF m < MaxI THEN Now - m ELSE Now - MaxI
    BY <2>7, <2>8 DEF Cutoff, LeastOf
  <2>10. PICK ts : ts = r["ts"]
    OBVIOUS
  <2>11. /\ ts.form \in {"unix", "rfc3339", "garbage"} /\ ts.secs \in Int
         /\ ts.form # "garbage" => ts.secs >= Now - MaxI
         /\ ts.form = "unix" => ts.secs <= MaxI
    BY <1>3, <2>10, FindAssumption
  <2>12. PICK z \in Int : z = ts.secs
    BY <2>11
  <2>13. z # None
    BY FindAssumption
  <2>14. CASE ts.form = "garbage"
    <3>1. ParseTs(ts) = None
      BY <2>14 DEF ParseTs
    <3> QED BY <2>10, <2>14, <3>1 DEF RecentEnough
  <2>15. CASE ts.form # "garbage"
    <3>1. z >= Now - MaxI /\ (ts.form = "unix" => z <= MaxI)
      BY <2>11, <2>12, <2>15
    <3>2. ts.form = "unix" => z \in (-MaxI - 1)..MaxI
      BY <2>7, <3>1
    <3>3. ParseTs(ts) = z
      BY <2>11, <2>12, <2>15, <3>2 DEF ParseTs
    <3>4. z >= Cutoff(d) <=> z >= Now - m
      BY <2>7, <2>9, <3>1
    <3>5. RecentEnough(r) <=> z >= Cutoff(d)
      BY <1>3, <2>3, <2>10, <2>13, <3>3 DEF RecentEnough
    <3>6. query.since.mag * UnitSecs[query.since.unit] = m
      BY <2>3, <2>5, <2>6
    <3> QED BY <2>10, <2>12, <2>15, <3>4, <3>5, <3>6
  <2> QED BY <2>14, <2>15
<1>4. ASSUME r \in Records
      PROVE  (query.since # None => RecentEnough(r)) <=>
             (query.since # None =>
                /\ r["ts"] # None /\ r["ts"].form # "garbage"
                /\ r["ts"].secs >= Now - query.since.mag * UnitSecs[query.since.unit])
  <2>1. CASE r["ts"] = None
    BY <2>1 DEF RecentEnough
  <2>2. CASE r["ts"] # None
    BY <1>3, <1>4, <2>2
  <2> QED BY <2>1, <2>2
<1>5. CASE r \in Records
  <2>1. PICK A \in BOOLEAN : A = (query.since # None => RecentEnough(r))
    OBVIOUS
  <2>2. A <=> (query.since # None =>
                /\ r["ts"] # None /\ r["ts"].form # "garbage"
                /\ r["ts"].secs >= Now - query.since.mag * UnitSecs[query.since.unit])
    BY <1>4, <1>5, <2>1
  <2>3. Passes(r) <=>
          /\ \E k \in Keys : r[k] # None
          /\ query.tool # None => r["tool"] = query.tool
          /\ query.session # None => r["session"] \in query.session \ {None}
          /\ query.intent # None => r["intent"] = query.intent
          /\ A
    BY <1>2, <2>1, Zenon DEF Passes
  <2>4. Wanted(r) <=>
          /\ \E k \in Keys : r[k] # None
          /\ query.tool \in {None, r["tool"]} /\ query.intent \in {None, r["intent"]}
          /\ query.session = None \/ r["session"] \in query.session \ {None}
          /\ A
    BY <2>2, Zenon DEF Wanted
  <2> QED BY <1>1, <2>3, <2>4, Zenon DEF Good
<1>6. CASE r = Unstamped
  <2>1. \A k \in Keys : r[k] = None
    BY <1>6 DEF Unstamped
  <2> QED BY <1>2, <2>1 DEF Good, Passes, Wanted
<1> QED BY <1>5, <1>6

(* find reports every file that stayed as it was, with the directories     *)
(* above it, and may be read, once if the command line asks for it and not *)
(* at all otherwise: for every tree, however many links lead back into it, *)
(* whatever changes elsewhere, and however far --since reaches back.       *)
THEOREM FindIsExact == FairSpec => []FindExact
<1>1. Init => Exact /\ FindExact
  BY DEF Init, Exact, FindExact
<1>2. Typed /\ Sound /\ Exact /\ FindExact /\ [Next]_vars => FindExact'
  <2> SUFFICES ASSUME Typed, Sound, Exact, FindExact, [Next]_vars, pc' = "done", ~Malformed'
               PROVE  FindExact'
    BY DEF FindExact
  <2>1. CASE pc = "done"
    BY <2>1, DoneStays DEF vars, FindExact, Malformed, Wanted
  <2>2. CASE ParseSince
    BY <2>2 DEF ParseSince, Malformed
  <2>3. CASE Report
    <3>1. /\ pc = "walk" /\ entries = {} /\ stack = <<>>
          /\ \A p \in Paths : matches'[p] = Cardinality(Hits(p))
          /\ UNCHANGED <<kind, rec, touched, denied, query>>
      BY <2>3, ReportEffect
    <3>2. Frontier(stack, entries) = {}
      <4>1. \A i \in 1..Len(<<>>) : FALSE
        OBVIOUS
      <4>2. Elems(<<>>) = {} /\ Named({}) = {}
        BY <4>1 DEF Elems, Named
      <4> QED BY <3>1, <4>2 DEF Frontier
    <3>3. ~Malformed
      BY <3>1 DEF Malformed
    <3>4. ASSUME NEW p \in Paths, Clean(p)
          PROVE  matches'[p] = IF Wanted(rec[p]) THEN 1 ELSE 0
      <4>1. out[p] = <<rec[p]>>
        BY <3>1, <3>2, <3>4 DEF Exact
      <4>2. rec[p] \in Records \cup {Unstamped} /\ query \in Queries
        BY DEF Typed
      <4>3. Good(rec[p]) <=> Wanted(rec[p])
        BY <3>3, <4>2, FilterCorrect
      <4>4. DOMAIN out[p] = {1} /\ out[p][1] = rec[p]
        BY <4>1
      <4>5. Hits(p) = IF Wanted(rec[p]) THEN {1} ELSE {}
        BY <4>3, <4>4 DEF Hits
      <4> QED BY <3>1, <4>5, FS_EmptySet, FS_Singleton
    <3>5. ASSUME NEW p \in Paths \ {Root}, kind'[p] = "file",
                 above[p] \cap (touched' \cup denied') = {}
          PROVE  matches'[p] = IF Wanted(rec[p]) THEN 1 ELSE 0
      BY <3>1, <3>4, <3>5 DEF Clean
    <3>6. \A p \in Paths : Wanted(rec[p])' <=> Wanted(rec[p])
      BY <3>1 DEF Wanted
    <3> QED BY <3>5, <3>6 DEF FindExact
  <2>4. CASE UNCHANGED vars
    BY <2>1, <2>4 DEF vars
  <2>5. CASE Next /\ pc # "done"
    BY <2>2, <2>3, <2>5 DEF Next, ProvStep, OpenDir, VisitEntry, EntryFails, Change
  <2> QED BY <2>1, <2>4, <2>5
<1>3. Typed /\ Sound /\ Exact /\ [Next]_vars => Exact'
  BY ExactStep
<1> QED BY <1>1, <1>2, <1>3, FindInvariant, PTL DEF FairSpec
=============================================================================
