---------------------------- MODULE RmsWalkProofs ----------------------------
(***************************************************************************)
(* The line walk of the RMS parser, for every vocabulary and every length  *)
(* of file.  LineEffect reduces the actions to what a line may do to the   *)
(* nodes, to the XS region and to the two commands that take attributes;   *)
(* the theorems need nothing else of the actions.                          *)
(*                                                                         *)
(* No property is inductive.  That every line is kept once needs that no   *)
(* node and no block reaches into the open region or beyond the lines read *)
(* (Dated, Regional); that attributes follow their command needs that the  *)
(* owner of the block and the last command are the latest of the file      *)
(* (Latest), whatever scope they stand in.  What signature help finds at a *)
(* position needs the order of the tree (TreeInv): the steps are reduced a *)
(* second time, to what they do to parents and scopes (TreeEffect).        *)
(* That the ranges around a position grow needs where the nodes and the    *)
(* sections end (EndsInv, SectsInv): a scope that closes covers its        *)
(* children, and those that close with it.                                 *)
(* That a report and a nesting error are the same needs the files the      *)
(* lines read may still become (NestInv): the open scopes are levels of    *)
(* the grammar (Levels), and with a report no such file is well nested.    *)
(***************************************************************************)
EXTENDS RmsLookup, FiniteSetTheorems, SequenceTheorems, TLAPS

\* A bounded set of numbers has a greatest one.
LEMMA MaxExists ==
    ASSUME NEW n \in Nat, NEW T \in SUBSET (0 .. n), T # {}
    PROVE  Max(T) \in T /\ \A q \in T : q <= Max(T)
<1> DEFINE F == {x .. n : x \in T}
<1>1. F \subseteq FiniteSubsetsOf(0 .. n) /\ F # {}
  <2>1. ASSUME NEW x \in T PROVE x .. n \in SUBSET (0 .. n) /\ IsFiniteSet(x .. n)
    BY FS_Interval
  <2> QED BY <2>1 DEF FiniteSubsetsOf
<1>2. IsFiniteSet(0 .. n)
  BY FS_Interval
<1>3. PICK f \in F : \A g \in F : ~(<<g, f>> \in StrictSubsetOrdering(0 .. n))
  BY <1>1, <1>2, FS_StrictSubsetOrderingWellFounded, WFMin
<1>4. PICK x \in T : f = x .. n
  BY <1>3
<1>5. ASSUME NEW y \in T PROVE y <= x
  <2>1. SUFFICES ASSUME x < y PROVE FALSE
    OBVIOUS
  <2>2. y .. n \subseteq x .. n /\ y .. n # x .. n
    BY <2>1
  <2>3. <<y .. n, f>> \in StrictSubsetOrdering(0 .. n)
    BY <1>4, <2>2 DEF StrictSubsetOrdering
  <2> QED BY <1>3, <2>3
<1> HIDE DEF F
<1> QED BY <1>5 DEF Max

------------------------------------------------------------------------------
(* What a line may do to the nodes *)

Said == Statements \cup {"#const"}

NodeRecords == [name : Words, start : Nat, end : Nat, parent : Nat,
                sect : Nat, attrs : Seq(Nat)]

\* No range reaches beyond the lines read.
Ends == \A n \in DOMAIN nodes : nodes[n].end <= Len(lines)

\* An open region begins at a line already read, or at the next one.
Region == inXs => xsStart \in 1 .. here

Typed == TypeOK /\ Ends /\ Region

Alike(a, b) == a.name = b.name /\ a.start = b.start /\ a.attrs = b.attrs

SameNodes(ns) ==
    /\ ns \in Seq(NodeRecords) /\ Len(ns) = Len(nodes)
    /\ \A n \in 1 .. Len(nodes) : Alike(ns[n], nodes[n]) /\ ns[n].end <= here

AddsNode(ns, w) ==
    /\ ns \in Seq(NodeRecords) /\ Len(ns) = Len(nodes) + 1
    /\ \A n \in 1 .. Len(nodes) : Alike(ns[n], nodes[n]) /\ ns[n].end <= here
    /\ LET new == ns[Len(nodes) + 1]
       IN  /\ new.name = w /\ new.start = here /\ new.end <= here
           /\ ToSet(new.attrs) \subseteq {here}

AddsAttribute(ns, t) ==
    /\ ns \in Seq(NodeRecords) /\ Len(ns) = Len(nodes)
    /\ \A n \in 1 .. Len(nodes) :
         /\ ns[n].name = nodes[n].name /\ ns[n].start = nodes[n].start
         /\ ns[n].end <= here
         /\ n # t => ns[n].attrs = nodes[n].attrs
    /\ t \in 1 .. Len(nodes)
    /\ ToSet(ns[t].attrs) = ToSet(nodes[t].attrs) \cup {here}

LEMMA TypedFacts ==
    ASSUME Typed
    PROVE  /\ Len(lines) \in Nat /\ here = Len(lines) + 1 /\ here \in Nat
           /\ nodes \in Seq(NodeRecords) /\ Len(nodes) \in Nat
           /\ DOMAIN nodes = 1 .. Len(nodes)
           /\ \A n \in 1 .. Len(nodes) :
                nodes[n] \in NodeRecords /\ nodes[n].end \in 0 .. Len(lines)
           /\ \A n \in 1 .. Len(nodes) : Alike(nodes[n], nodes[n]) /\ nodes[n].end <= here
           /\ Len(scopes) \in Nat /\ DOMAIN scopes = 1 .. Len(scopes)
           /\ \A i \in 1 .. Len(scopes) : scopes[i] \in 1 .. Len(nodes)
           /\ owner \in 0 .. Len(nodes) /\ lastCmd \in 0 .. Len(nodes)
<1>1. lines \in Seq(Words)
  BY DEF Typed, TypeOK
<1>2. nodes \in Seq(NodeRecords)
  BY DEF Typed, TypeOK, NodeRecords
<1>3. DOMAIN nodes = 1 .. Len(nodes) /\ Len(nodes) \in Nat
  BY <1>2
<1>4. \A n \in 1 .. Len(nodes) :
        nodes[n] \in NodeRecords /\ nodes[n].end \in 0 .. Len(lines)
  <2>1. \A n \in 1 .. Len(nodes) : nodes[n] \in NodeRecords
    BY <1>2, <1>3
  <2>2. \A n \in 1 .. Len(nodes) : nodes[n].end \in Nat
    BY <2>1 DEF NodeRecords
  <2>3. \A n \in 1 .. Len(nodes) : nodes[n].end <= Len(lines)
    BY <1>3 DEF Typed, Ends
  <2> QED BY <1>1, <2>1, <2>2, <2>3
<1>7. Len(lines) \in Nat /\ here = Len(lines) + 1 /\ here \in Nat
  BY <1>1 DEF here
<1>8. \A n \in 1 .. Len(nodes) : Alike(nodes[n], nodes[n]) /\ nodes[n].end <= here
  BY <1>4, <1>7 DEF Alike
<1>5. scopes \in Seq(1 .. Len(nodes))
  BY <1>3 DEF Typed, TypeOK
<1>6. owner \in 0 .. Len(nodes) /\ lastCmd \in 0 .. Len(nodes)
  BY <1>3 DEF Typed, TypeOK
<1>9. Len(scopes) \in Nat /\ DOMAIN scopes = 1 .. Len(scopes)
      /\ \A i \in 1 .. Len(scopes) : scopes[i] \in 1 .. Len(nodes)
  BY <1>5
<1> QED BY <1>2, <1>3, <1>4, <1>6, <1>7, <1>8, <1>9

\* A block's range settled over any nodes with it stays within the file.
LEMMA ScopeSettled ==
    ASSUME Typed, NEW n \in 1 .. Len(nodes),
           NEW family \in SUBSET (1 .. Len(nodes)), n \in family
    PROVE  /\ finalizeScope(n, family) \in NodeRecords
           /\ Alike(finalizeScope(n, family), nodes[n])
           /\ finalizeScope(n, family).end <= here
           /\ finalizeScope(n, family).end <= Len(lines)
<1> DEFINE T == {nodes[c].end : c \in family}
<1>1. T \in SUBSET (0 .. Len(lines)) /\ T # {}
  BY TypedFacts
<1>2. Max(T) \in T
  BY <1>1, TypedFacts, MaxExists
<1>3. Max(T) \in Nat /\ Max(T) <= here /\ Max(T) <= Len(lines)
  <2>1. Max(T) \in 0 .. Len(lines)
    BY <1>1, <1>2
  <2>2. Len(lines) \in Nat /\ here = Len(lines) + 1
    BY TypedFacts
  <2> QED BY <2>1, <2>2
<1> HIDE DEF T
<1>4. nodes[n] \in NodeRecords
  BY TypedFacts
<1>5. finalizeScope(n, family) = [nodes[n] EXCEPT !.end = Max(T)]
  BY DEF finalizeScope, T
<1> QED BY <1>3, <1>4, <1>5 DEF NodeRecords, Alike

LEMMA FamilyFacts ==
    ASSUME Typed, NEW n \in 1 .. Len(nodes)
    PROVE  /\ Family(n) \in SUBSET (1 .. Len(nodes)) /\ n \in Family(n)
           /\ Households(n) \in SUBSET (1 .. Len(nodes))
           /\ (\E i \in 1 .. Len(scopes) : scopes[i] = n) => n \in Households(n)
<1>1. \A m \in 1 .. Len(nodes) : Family(m) \in SUBSET (1 .. Len(nodes)) /\ m \in Family(m)
  BY TypedFacts DEF Family, Children
<1>2. Households(n) \in SUBSET (1 .. Len(nodes))
  BY <1>1, TypedFacts DEF Households
<1>3. ASSUME NEW i \in 1 .. Len(scopes), scopes[i] = n PROVE n \in Households(n)
  BY <1>1, <1>3, TypedFacts DEF Households
<1> QED BY <1>1, <1>2, <1>3

LEMMA SettledKeeps == ASSUME Typed, NEW kept PROVE SameNodes(Settled(kept))
<1> DEFINE ns == Settled(kept)
<1>1. ASSUME NEW n \in 1 .. Len(nodes)
      PROVE  ns[n] \in NodeRecords /\ Alike(ns[n], nodes[n]) /\ ns[n].end <= here
  <2>1. CASE \E i \in DOMAIN scopes : i > kept /\ scopes[i] = n
    <3>1. ns[n] = finalizeScope(n, Households(n))
      BY <2>1, TypedFacts DEF Settled
    <3> QED BY <2>1, <3>1, ScopeSettled, FamilyFacts, TypedFacts
  <2>2. CASE ~\E i \in DOMAIN scopes : i > kept /\ scopes[i] = n
    <3>1. ns[n] = nodes[n]
      BY <2>2, TypedFacts DEF Settled
    <3> QED BY <3>1, TypedFacts
  <2> QED BY <2>1, <2>2
<1>2. ns = [n \in 1 .. Len(nodes) |-> ns[n]]
  BY TypedFacts DEF Settled
<1> HIDE DEF ns
<1>3. ns \in Seq(NodeRecords) /\ Len(ns) = Len(nodes)
  BY <1>1, <1>2, TypedFacts
<1> QED BY <1>1, <1>3 DEF SameNodes, ns

\* What the end of the file makes of the nodes.
ClosedNodes == [n \in DOMAIN nodes |-> IF Contains(scopes, n)
                                       THEN finalizeScope(n, Family(n)) ELSE nodes[n]]

LEMMA ClosedKeeps ==
    ASSUME Typed
    PROVE  /\ SameNodes(ClosedNodes)
           /\ \A n \in 1 .. Len(nodes) : ClosedNodes[n].end <= Len(lines)
<1> DEFINE ns == ClosedNodes
<1>1. ASSUME NEW n \in 1 .. Len(nodes)
      PROVE  /\ ns[n] \in NodeRecords /\ Alike(ns[n], nodes[n])
             /\ ns[n].end <= here /\ ns[n].end <= Len(lines)
  <2>1. CASE Contains(scopes, n)
    <3>1. ns[n] = finalizeScope(n, Family(n))
      BY <2>1, TypedFacts DEF ClosedNodes
    <3> QED BY <3>1, ScopeSettled, FamilyFacts
  <2>2. CASE ~Contains(scopes, n)
    <3>1. ns[n] = nodes[n]
      BY <2>2, TypedFacts DEF ClosedNodes
    <3> QED BY <3>1, TypedFacts
  <2> QED BY <2>1, <2>2
<1>2. ns = [n \in 1 .. Len(nodes) |-> ns[n]]
  BY TypedFacts DEF ClosedNodes
<1> HIDE DEF ns
<1>3. ns \in Seq(NodeRecords) /\ Len(ns) = Len(nodes)
  BY <1>1, <1>2, TypedFacts
<1>4. SameNodes(ns)
  BY <1>1, <1>3 DEF SameNodes
<1> QED BY <1>1, <1>4 DEF ns

LEMMA EndKeeps ==
    ASSUME Typed, NEW n \in 1 .. Len(nodes)
    PROVE  SameNodes([nodes EXCEPT ![n].end = here]) /\ SameNodes(nodes)
<1> DEFINE ns == [nodes EXCEPT ![n].end = here]
<1>1. [nodes[n] EXCEPT !.end = here] \in NodeRecords
  <2>1. nodes[n] \in NodeRecords /\ here \in Nat
    BY TypedFacts
  <2> QED BY <2>1 DEF NodeRecords
<1>2. ns = [nodes EXCEPT ![n] = [nodes[n] EXCEPT !.end = here]]
  OBVIOUS
<1>3. ns \in Seq(NodeRecords) /\ Len(ns) = Len(nodes)
  BY <1>1, <1>2, TypedFacts
<1>4. \A m \in 1 .. Len(nodes) :
        ns[m] = IF m = n THEN [nodes[n] EXCEPT !.end = here] ELSE nodes[m]
  BY <1>2, TypedFacts
<1>5. Alike([nodes[n] EXCEPT !.end = here], nodes[n])
      /\ [nodes[n] EXCEPT !.end = here].end = here
  BY TypedFacts DEF NodeRecords, Alike
<1> HIDE DEF ns
<1>6. \A m \in 1 .. Len(nodes) : Alike(ns[m], nodes[m]) /\ ns[m].end <= here
  <2>1. here <= here /\ \A m \in 1 .. Len(nodes) :
          Alike(nodes[m], nodes[m]) /\ nodes[m].end <= here
    BY TypedFacts
  <2> QED BY <1>4, <1>5, <2>1
<1>7. SameNodes(ns)
  BY <1>3, <1>6 DEF SameNodes
<1>8. SameNodes(nodes)
  BY TypedFacts DEF SameNodes
<1> QED BY <1>7, <1>8 DEF ns

LEMMA NodeTyped ==
    ASSUME Typed, NEW w \in Words, NEW parent \in Nat
    PROVE  LET new == [Node(w) EXCEPT !.parent = parent]
           IN  /\ new \in NodeRecords
               /\ new.name = w /\ new.start = here /\ new.end <= here
               /\ ToSet(new.attrs) \subseteq {here}
<1>1. here \in Nat /\ here <= here
  BY TypedFacts
<1>2. cur \in Nat
  BY DEF Typed, TypeOK, cur
<1> DEFINE attrs == IF w = "create_x { a }" THEN <<here>> ELSE <<>>
<1>3. attrs \in Seq(Nat) /\ ToSet(attrs) \subseteq {here}
  <2>1. <<here>> \in Seq(Nat) /\ ToSet(<<here>>) \subseteq {here}
    BY <1>1 DEF ToSet
  <2>2. <<>> \in Seq(Nat) /\ ToSet(<<>>) \subseteq {here}
    BY DEF ToSet
  <2> QED BY <2>1, <2>2
<1> HIDE DEF attrs
<1>4. [Node(w) EXCEPT !.parent = parent]
        = [name |-> w, start |-> here, end |-> here, parent |-> parent,
           sect |-> cur, attrs |-> attrs]
  <2>1. Node(w) = [name |-> w, start |-> here, end |-> here, parent |-> Parent,
                   sect |-> cur, attrs |-> attrs]
    BY Zenon DEF Node, attrs
  <2> QED BY <2>1
<1> QED BY <1>1, <1>2, <1>3, <1>4 DEF NodeRecords

LEMMA ParentTyped == ASSUME Typed PROVE Parent \in Nat
<1>1. CASE scopes = <<>>
  BY <1>1 DEF Parent
<1>2. CASE scopes # <<>>
  <2>1. Len(scopes) \in 1 .. Len(scopes)
    BY <1>2 DEF Typed, TypeOK
  <2>2. scopes[Len(scopes)] \in Nat
    BY <2>1, TypedFacts
  <2> QED BY <1>2, <2>2 DEF Parent, Last
<1> QED BY <1>1, <1>2

\* Appending one node to nodes that keep theirs.
LEMMA AppendAdds ==
    ASSUME Typed, NEW ns, SameNodes(ns), NEW w \in Words, NEW parent \in Nat
    PROVE  AddsNode(Append(ns, [Node(w) EXCEPT !.parent = parent]), w)
<1>n. PICK new : new = [Node(w) EXCEPT !.parent = parent]
  OBVIOUS
<1>1. /\ new \in NodeRecords
      /\ new.name = w /\ new.start = here /\ new.end <= here
      /\ ToSet(new.attrs) \subseteq {here}
  BY <1>n, NodeTyped
<1>2. ns \in Seq(NodeRecords) /\ Len(ns) = Len(nodes) /\ Len(nodes) \in Nat
  BY TypedFacts DEF SameNodes
<1>3. /\ Append(ns, new) \in Seq(NodeRecords)
      /\ Len(Append(ns, new)) = Len(nodes) + 1
      /\ \A n \in 1 .. Len(nodes) : Append(ns, new)[n] = ns[n]
      /\ Append(ns, new)[Len(nodes) + 1] = new
  BY <1>1, <1>2
<1>4. AddsNode(Append(ns, new), w)
  BY <1>1, <1>3 DEF AddsNode, SameNodes
<1> QED BY <1>4, <1>n

LEMMA CommandAdds ==
    ASSUME Typed, NEW w \in Words, commandLine(w)
    PROVE  AddsNode(nodes', w)
<1>1. SameNodes(nodes)
  BY TypedFacts DEF SameNodes
<1>2. Node(w) = [Node(w) EXCEPT !.parent = Parent]
  <2> DEFINE attrs == IF w = "create_x { a }" THEN <<here>> ELSE <<>>
  <2>1. Node(w) = [name |-> w, start |-> here, end |-> here, parent |-> Parent,
                   sect |-> cur, attrs |-> attrs]
    BY Zenon DEF Node
  <2> HIDE DEF attrs
  <2> QED BY <2>1
<1>3. nodes' = Append(nodes, [Node(w) EXCEPT !.parent = Parent])
  BY <1>2 DEF commandLine
<1> QED BY <1>1, <1>3, ParentTyped, AppendAdds

LEMMA OpenAdds ==
    ASSUME Typed, NEW w \in Words, NEW kept \in 0 .. Len(scopes), OpenAfter(kept, w)
    PROVE  AddsNode(nodes', w) /\ scopes' \in Seq(1 .. Len(nodes'))
<1> DEFINE outer == SubSeq(scopes, 1, kept)
           parent == IF kept = 0 THEN 0 ELSE outer[kept]
<1>1. /\ scopes \in Seq(1 .. Len(nodes)) /\ Len(nodes) \in Nat /\ Len(scopes) \in Nat
      /\ kept \in Nat
  <2>1. Len(nodes) \in Nat /\ Len(scopes) \in Nat /\ DOMAIN nodes = 1 .. Len(nodes)
    BY TypedFacts
  <2>2. scopes \in Seq(DOMAIN nodes)
    BY DEF Typed, TypeOK
  <2> QED BY <2>1, <2>2
<1>2. /\ outer \in Seq(1 .. Len(nodes)) /\ Len(outer) = kept
      /\ \A i \in 1 .. kept : outer[i] \in 1 .. Len(nodes)
  BY <1>1
<1> HIDE DEF outer
<1>3. parent \in Nat
  BY <1>1, <1>2
<1>4. /\ nodes' = Append(Settled(kept), [Node(w) EXCEPT !.parent = parent])
      /\ scopes' = Append(outer, Len(nodes) + 1)
  BY DEF OpenAfter, outer
<1>5. AddsNode(nodes', w)
  BY <1>3, <1>4, SettledKeeps, AppendAdds
<1>6. Len(nodes') = Len(nodes) + 1
  BY <1>5 DEF AddsNode
<1>7. outer \in Seq(1 .. Len(nodes) + 1)
  BY <1>1, <1>2
<1> QED BY <1>1, <1>4, <1>5, <1>6, <1>7

LEMMA AttributeAdds ==
    ASSUME Typed, NEW t \in 1 .. Len(nodes), AttributeTo(t)
    PROVE  AddsAttribute(nodes', t)
<1>a. PICK attrs : attrs = Append(nodes[t].attrs, here)
  OBVIOUS
<1>r. PICK rec : rec = [nodes[t] EXCEPT !.attrs = attrs, !.end = here]
  OBVIOUS
<1>1. nodes' = [nodes EXCEPT ![t] = rec]
  BY <1>a, <1>r DEF AttributeTo
<1>2. nodes[t] \in NodeRecords /\ here \in Nat /\ here <= here
  BY TypedFacts
<1>3. attrs \in Seq(Nat) /\ ToSet(attrs) = ToSet(nodes[t].attrs) \cup {here}
  <2>1. PICK s \in Seq(Nat) : s = nodes[t].attrs
    BY <1>2 DEF NodeRecords
  <2>2. /\ attrs \in Seq(Nat) /\ Len(attrs) = Len(s) + 1 /\ Len(s) \in Nat
        /\ \A i \in 1 .. Len(s) : attrs[i] = s[i]
        /\ attrs[Len(s) + 1] = here
        /\ DOMAIN attrs = 1 .. Len(s) + 1 /\ DOMAIN s = 1 .. Len(s)
    BY <1>2, <1>a, <2>1
  <2>3. ToSet(attrs) = ToSet(s) \cup {here}
    <3>1. ASSUME NEW x \in ToSet(attrs) PROVE x \in ToSet(s) \cup {here}
      <4>1. PICK i \in 1 .. Len(s) + 1 : attrs[i] = x
        BY <2>2, <3>1 DEF ToSet
      <4>2. CASE i = Len(s) + 1
        BY <2>2, <4>1, <4>2
      <4>3. CASE i \in 1 .. Len(s)
        BY <2>2, <4>1, <4>3 DEF ToSet
      <4> QED BY <2>2, <4>1, <4>2, <4>3
    <3>2. ASSUME NEW x \in ToSet(s) PROVE x \in ToSet(attrs)
      <4>1. PICK i \in 1 .. Len(s) : s[i] = x
        BY <2>2, <3>2 DEF ToSet
      <4>2. i \in DOMAIN attrs /\ attrs[i] = x
        BY <2>2, <4>1
      <4> QED BY <4>2 DEF ToSet
    <3>3. here \in ToSet(attrs)
      <4>1. Len(s) + 1 \in DOMAIN attrs
        BY <2>2
      <4> QED BY <2>2, <4>1 DEF ToSet
    <3> QED BY <3>1, <3>2, <3>3
  <2> QED BY <2>1, <2>2, <2>3
<1>4. /\ rec \in NodeRecords /\ rec.name = nodes[t].name /\ rec.start = nodes[t].start
      /\ rec.end = here /\ rec.attrs = attrs
  BY <1>2, <1>3, <1>r DEF NodeRecords
<1>5. /\ nodes' \in Seq(NodeRecords) /\ Len(nodes') = Len(nodes)
      /\ \A n \in 1 .. Len(nodes) : nodes'[n] = IF n = t THEN rec ELSE nodes[n]
  BY <1>1, <1>4, TypedFacts
<1>6. \A n \in 1 .. Len(nodes) : nodes[n].end <= here
  BY TypedFacts
<1> QED BY <1>2, <1>3, <1>4, <1>5, <1>6 DEF AddsAttribute

------------------------------------------------------------------------------
(* What a line may do, whatever its class *)

\* A command or directive makes a node and becomes the last command; an
\* attribute goes to the owner or the last command; every other line leaves the
\* nodes' places alone, as a command does inside a region.
NodesEffect(w) ==
    \/ SameNodes(nodes') /\ (w \in Said => inXs /\ w # "#const")
    \/ /\ AddsNode(nodes', w)
       /\ inXs => w = "#const"
       /\ w \in Said => lastCmd' = Len(nodes) + 1
       /\ w \in Statements => owner' \in {0, Len(nodes) + 1}
    \/ /\ \E t \in {owner, lastCmd} \ {0} : AddsAttribute(nodes', t)
       /\ ~inXs /\ w \in Statements

\* Headers and directives end the region, and may begin the next one.
RegionEffect(w) ==
    \/ UNCHANGED xs /\ w \notin Headers \cup Directives
    \/ /\ w \in Headers \cup Directives
       /\ xsBlocks' = endXsBlock(here)
       /\ inXs' => xsStart' = here + 1 /\ w \notin Said

CommandEffect(w) ==
    /\ lastCmd' \in {0, lastCmd} \/ (AddsNode(nodes', w) /\ lastCmd' = Len(nodes) + 1)
    /\ owner' \in {0, owner, lastCmd} \/ (lastCmd' # 0 /\ owner' = lastCmd')
    /\ w \in Headers => owner' = 0 /\ lastCmd' = 0

Effect(w) ==
    /\ w \in Words /\ lines' = Append(lines, w) /\ script' = script /\ ~done /\ done' = done
    /\ scopes' \in Seq(1 .. Len(nodes'))
    /\ NodesEffect(w) /\ RegionEffect(w) /\ CommandEffect(w)

LEMMA ReadFacts ==
    ASSUME Typed, NEW w, Read(w)
    PROVE  w \in Words /\ lines' = Append(lines, w) /\ script' = script /\ ~done /\ done' = done
BY ScriptsAssumption DEF Typed, TypeOK, Read

LEMMA KeptTyped ==
    ASSUME Typed, NEW names
    PROVE  Kept(names) \in 0 .. Len(scopes)
<1> DEFINE hits == {i \in DOMAIN scopes : nodes[scopes[i]].name \in names}
<1>1. hits \in SUBSET (1 .. Len(scopes)) /\ Len(scopes) \in Nat
  BY TypedFacts
<1>2. Kept(names) = IF hits = {} THEN 0 ELSE Max(hits) - 1
  BY DEF Kept
<1> HIDE DEF hits
<1>3. hits \in SUBSET (0 .. Len(scopes))
  BY <1>1
<1>4. hits # {} => Max(hits) \in 1 .. Len(scopes)
  BY <1>1, <1>3, MaxExists
<1> QED BY <1>1, <1>2, <1>4

LEMMA SameTree ==
    ASSUME Typed, nodes' = nodes, scopes' = scopes
    PROVE  SameNodes(nodes') /\ scopes' \in Seq(1 .. Len(nodes'))
<1>1. SameNodes(nodes)
  BY TypedFacts DEF SameNodes
<1>2. scopes \in Seq(1 .. Len(nodes))
  BY TypedFacts DEF Typed, TypeOK
<1> QED BY <1>1, <1>2

LEMMA SameScopes ==
    ASSUME Typed, NEW m \in Nat, m >= Len(nodes)
    PROVE  scopes \in Seq(1 .. m)
<1>1. scopes \in Seq(1 .. Len(nodes)) /\ Len(nodes) \in Nat
  BY TypedFacts DEF Typed, TypeOK
<1> QED BY <1>1

LEMMA ScopesStay ==
    ASSUME Typed, scopes' = scopes,
           Len(nodes') = Len(nodes) \/ Len(nodes') = Len(nodes) + 1
    PROVE  scopes' \in Seq(1 .. Len(nodes'))
<1>1. PICK m \in Nat : m = Len(nodes') /\ m >= Len(nodes)
  BY TypedFacts
<1>2. scopes \in Seq(1 .. m)
  BY <1>1, SameScopes
<1> QED BY <1>1, <1>2

LEMMA TargetFacts ==
    ASSUME Typed
    PROVE  implicitAttrTarget \in {0, lastCmd}
BY DEF implicitAttrTarget

LEMMA RegionKept ==
    ASSUME NEW w, UNCHANGED xs, w \notin Headers \cup Directives
    PROVE  RegionEffect(w)
BY Zenon DEF RegionEffect

LEMMA RegionClosed ==
    ASSUME NEW w \in Headers \cup Directives, xsBlocks' = endXsBlock(here),
           inXs' => xsStart' = here + 1 /\ w \notin Said
    PROVE  RegionEffect(w)
BY Zenon DEF RegionEffect

\* A line that says nothing, or one of a region, leaves the nodes' places alone.
LEMMA NodesKept ==
    ASSUME NEW w, SameNodes(nodes'), w \in Said => inXs /\ w # "#const"
    PROVE  NodesEffect(w)
BY Zenon DEF NodesEffect

LEMMA CommandKept ==
    ASSUME NEW w, lastCmd' \in {0, lastCmd}, owner' \in {0, owner, lastCmd},
           w \in Headers => owner' = 0 /\ lastCmd' = 0
    PROVE  CommandEffect(w)
BY Zenon DEF CommandEffect

LEMMA LineEffect ==
    ASSUME Typed, NEW w, Line(w)
    PROVE  Effect(w)
<1>w. w \in Words /\ lines' = Append(lines, w) /\ script' = script /\ ~done /\ done' = done
  BY ReadFacts DEF Line, Skip, closeSection, includeDirective, constDirective, openBrace,
     closeBrace, junkLine, structuralInBrace, structural, attributeLine, commandStatement,
     StatementLine
<1>1. CASE Skip(w)
  <2>1. /\ nodes' = nodes /\ scopes' = scopes /\ owner' = owner /\ lastCmd' = lastCmd
        /\ UNCHANGED xs
        /\ (inXs /\ ~xsTerminator(w)) \/ w \in {"blank", "#hash"}
    BY <1>1 DEF Skip, tree
  <2>a. w \in Said => inXs /\ w # "#const"
    BY <2>1 DEF xsTerminator, Headers, Directives, Statements, structuralWords, Said
  <2>b. w \notin Headers \cup Directives
    BY <2>1 DEF xsTerminator, Headers, Directives, Statements, structuralWords, Said
  <2>c. w \in Headers => owner' = 0 /\ lastCmd' = 0
    BY <2>b DEF Headers, Directives, Statements, structuralWords, Said
  <2>2. NodesEffect(w)
    BY <2>1, <2>a, SameTree, NodesKept
  <2>3. RegionEffect(w) /\ CommandEffect(w)
    BY <2>1, <2>b, <2>c, RegionKept, CommandKept
  <2> QED BY <1>w, <2>1, <2>2, <2>3, SameTree DEF Effect
<1>2. CASE closeSection(w)
  <2>1. /\ nodes' = nodes /\ scopes' = scopes /\ owner' = 0 /\ lastCmd' = 0
        /\ xsBlocks' = endXsBlock(here) /\ ~inXs' /\ w \in Headers
    BY <1>2 DEF closeSection
  <2>a. w \notin Said /\ w \in Headers \cup Directives
    BY <2>1 DEF Headers, Directives, Statements, structuralWords, Said
  <2>2. NodesEffect(w)
    BY <2>1, <2>a, SameTree, NodesKept
  <2>3. RegionEffect(w) /\ CommandEffect(w)
    BY <2>1, <2>a, RegionClosed, CommandKept
  <2> QED BY <1>w, <2>1, <2>2, <2>3, SameTree DEF Effect
<1>3. CASE includeDirective(w)
  <2>1. /\ nodes' = nodes /\ scopes' = scopes /\ owner' = owner /\ lastCmd' = lastCmd
        /\ xsBlocks' = endXsBlock(here) /\ w \in Directives \ {"#const"}
        /\ inXs' = (w # "#include")
        /\ w # "#include" => xsStart' = here + 1
    BY <1>3 DEF includeDirective, tree
  <2>a. w \notin Said /\ w \notin Headers /\ w \in Headers \cup Directives
    BY <2>1 DEF Headers, Directives, Statements, structuralWords, Said
  <2>b. inXs' => xsStart' = here + 1
    BY <2>1
  <2>2. NodesEffect(w)
    BY <2>1, <2>a, SameTree, NodesKept
  <2>3. RegionEffect(w) /\ CommandEffect(w)
    BY <2>1, <2>a, <2>b, RegionClosed, CommandKept
  <2> QED BY <1>w, <2>1, <2>2, <2>3, SameTree DEF Effect
<1>4. CASE constDirective(w)
  <2>1. /\ w = "#const" /\ commandLine(w) /\ scopes' = scopes
        /\ xsBlocks' = endXsBlock(here) /\ ~inXs'
    BY <1>4 DEF constDirective
  <2>2. /\ AddsNode(nodes', w) /\ Len(nodes') = Len(nodes) + 1
        /\ lastCmd' = Len(nodes) + 1 /\ owner' = owner /\ Len(nodes) \in Nat
    BY <1>w, <2>1, CommandAdds, TypedFacts DEF commandLine, AddsNode
  <2>a. w \notin Statements /\ w \notin Headers /\ w \in Headers \cup Directives
    BY <2>1 DEF Headers, Directives, Statements, structuralWords, Said
  <2>3. NodesEffect(w)
    BY <2>1, <2>2, <2>a DEF NodesEffect
  <2>4. RegionEffect(w) /\ CommandEffect(w)
    <3>1. RegionEffect(w)
      BY <2>1, <2>a, RegionClosed
    <3>2. CommandEffect(w)
      BY <2>2, <2>a DEF CommandEffect
    <3> QED BY <3>1, <3>2
  <2>5. scopes' \in Seq(1 .. Len(nodes'))
    BY <2>1, <2>2, ScopesStay
  <2> QED BY <1>w, <2>3, <2>4, <2>5 DEF Effect
<1>5. ASSUME StatementLine(w), nodes' = nodes, scopes' = scopes,
             lastCmd' = lastCmd, owner' \in {owner, lastCmd}, w \in Words \ (Said \cup Headers \cup Directives)
      PROVE  Effect(w)
  <2>1. UNCHANGED xs
    BY <1>5 DEF StatementLine
  <2>a. w \notin Said /\ w \notin Headers /\ w \notin Headers \cup Directives
    BY <1>5 DEF Headers, Directives, Statements, structuralWords, Said
  <2>b. SameNodes(nodes')
    BY <1>5, SameTree
  <2>c. NodesEffect(w)
    BY <2>a, <2>b, NodesKept
  <2>d. RegionEffect(w)
    BY <2>1, <2>a, RegionKept
  <2>e. CommandEffect(w)
    BY <1>5, <2>a, CommandKept
  <2>2. NodesEffect(w) /\ RegionEffect(w) /\ CommandEffect(w)
    BY <2>c, <2>d, <2>e
  <2> QED BY <1>w, <1>5, <2>2, SameTree DEF Effect
<1>6. CASE openBrace(w)
  <2>1. /\ StatementLine(w) /\ w = "{" /\ owner' \in {owner, lastCmd}
        /\ nodes' = nodes /\ scopes' = scopes /\ lastCmd' = lastCmd
    BY <1>6 DEF openBrace
  <2>2. w \in Words \ (Said \cup Headers \cup Directives)
    BY <1>w, <2>1 DEF Headers, Directives, Statements, structuralWords, Said
  <2> QED BY <1>5, <2>1, <2>2
<1>7. CASE junkLine(w) \/ structuralInBrace(w)
  <2>1. /\ StatementLine(w) /\ w \in {"junk"} \cup structuralWords /\ owner' = owner
        /\ nodes' = nodes /\ scopes' = scopes /\ lastCmd' = lastCmd
    BY <1>7 DEF junkLine, structuralInBrace, tree
  <2>2. w \in Words \ (Said \cup Headers \cup Directives)
    BY <1>w, <2>1 DEF Headers, Directives, Statements, structuralWords, Said
  <2> QED BY <1>5, <2>1, <2>2
<1>8. CASE closeBrace(w)
  <2>1. /\ ~inXs /\ UNCHANGED xs /\ w = "}" /\ scopes' = scopes
        /\ lastCmd' \in {0, lastCmd} /\ owner' \in {0, owner}
    BY <1>8 DEF closeBrace, StatementLine
  <2>2. \/ nodes' = nodes
        \/ \E n \in {owner, implicitAttrTarget} \ {0} : nodes' = [nodes EXCEPT ![n].end = here]
    BY <1>8 DEF closeBrace
  <2>3. {owner, implicitAttrTarget} \ {0} \subseteq 1 .. Len(nodes)
    BY TypedFacts, TargetFacts
  <2>4. SameNodes(nodes')
    <3>1. SameNodes(nodes)
      BY TypedFacts DEF SameNodes
    <3> QED BY <2>2, <2>3, <3>1, EndKeeps
  <2>5. Len(nodes') = Len(nodes) /\ Len(nodes) \in Nat
    BY <2>4, TypedFacts DEF SameNodes
  <2>6. scopes' \in Seq(1 .. Len(nodes'))
    BY <2>1, <2>5, ScopesStay
  <2>a. w \notin Said /\ w \notin Headers /\ w \notin Headers \cup Directives
    BY <2>1 DEF Headers, Directives, Statements, structuralWords, Said
  <2>b. NodesEffect(w)
    BY <2>4, <2>a, NodesKept
  <2>c. RegionEffect(w)
    BY <2>1, <2>a, RegionKept
  <2>d. CommandEffect(w)
    <3>1. owner' \in {0, owner, lastCmd} /\ lastCmd' \in {0, lastCmd}
      BY <2>1
    <3> QED BY <2>a, <3>1, CommandKept
  <2>7. NodesEffect(w) /\ RegionEffect(w) /\ CommandEffect(w)
    BY <2>b, <2>c, <2>d
  <2> QED BY <1>w, <2>6, <2>7 DEF Effect
<1>9. CASE structural(w)
  <2>1. /\ ~inXs /\ UNCHANGED xs /\ w \in structuralWords
        /\ lastCmd' = lastCmd /\ owner' = owner
    BY <1>9 DEF structural, StatementLine
  <2>2. ASSUME NEW names, closeScopes(names)
        PROVE  SameNodes(nodes') /\ scopes' \in Seq(1 .. Len(nodes'))
    <3>1. nodes' = Settled(Kept(names)) /\ scopes' = SubSeq(scopes, 1, Kept(names))
      BY <2>2 DEF closeScopes
    <3>2. SameNodes(nodes')
      BY <3>1, SettledKeeps
    <3>3. Len(nodes') = Len(nodes) /\ Kept(names) \in 0 .. Len(scopes)
      BY <3>2, KeptTyped DEF SameNodes
    <3>k. PICK k \in 0 .. Len(scopes) : k = Kept(names)
      BY <3>3
    <3>4. scopes \in Seq(1 .. Len(nodes)) /\ Len(scopes) \in Nat
      <4>1. Len(nodes) \in Nat /\ Len(scopes) \in Nat
        BY TypedFacts
      <4>2. Len(nodes) >= Len(nodes)
        BY <4>1
      <4> QED BY <4>1, <4>2, SameScopes
    <3>5. SubSeq(scopes, 1, k) \in Seq(1 .. Len(nodes))
      BY <3>4
    <3>6. scopes' \in Seq(1 .. Len(nodes))
      BY <3>1, <3>k, <3>5
    <3> QED BY <3>2, <3>3, <3>6
  <2>3. ASSUME NEW kept \in 0 .. Len(scopes), OpenAfter(kept, w)
        PROVE  AddsNode(nodes', w) /\ scopes' \in Seq(1 .. Len(nodes'))
    BY <1>w, <2>3, OpenAdds
  <2>4. /\ Len(scopes) \in 0 .. Len(scopes)
        /\ scopes # <<>> => Len(scopes) - 1 \in 0 .. Len(scopes)
    <3>1. Len(scopes) \in Nat
      BY TypedFacts
    <3>2. scopes # <<>> => Len(scopes) # 0
      BY DEF Typed, TypeOK
    <3> QED BY <3>1, <3>2
  <2>5. \/ \E names : closeScopes(names)
        \/ \E kept \in 0 .. Len(scopes) : OpenAfter(kept, w)
    <3>1. CASE w = "endif" \/ w = "end_random"
      BY <1>9, <3>1 DEF structural
    <3>2. CASE w = "else"
      BY <1>9, <3>2, KeptTyped DEF structural
    <3>3. CASE w = "percent_chance"
      BY <1>9, <2>4, <3>3 DEF structural
    <3>4. CASE w \in {"if", "start_random"}
      BY <1>9, <2>4, <3>4 DEF structural
    <3> QED BY <2>1, <3>1, <3>2, <3>3, <3>4 DEF structuralWords
  <2>6. (SameNodes(nodes') \/ AddsNode(nodes', w)) /\ scopes' \in Seq(1 .. Len(nodes'))
    BY <2>2, <2>3, <2>5
  <2>a. /\ w \notin Said /\ w \notin Statements /\ w \notin Headers
        /\ w \notin Headers \cup Directives
    BY <2>1 DEF Headers, Directives, Statements, structuralWords, Said
  <2>b. NodesEffect(w)
    BY <2>1, <2>6, <2>a DEF NodesEffect
  <2>c. RegionEffect(w)
    BY <2>1, <2>a, RegionKept
  <2>d. CommandEffect(w)
    BY <2>1, <2>a, CommandKept
  <2>7. NodesEffect(w) /\ RegionEffect(w) /\ CommandEffect(w)
    BY <2>b, <2>c, <2>d
  <2> QED BY <1>w, <2>6, <2>7 DEF Effect
<1>10. CASE attributeLine(w)
  <2>1. /\ ~inXs /\ UNCHANGED xs /\ w \in Statements /\ scopes' = scopes
        /\ lastCmd' = lastCmd /\ owner' = owner
        /\ \E t \in {owner, implicitAttrTarget} \ {0} : AttributeTo(t)
    BY <1>10 DEF attributeLine, StatementLine
  <2>2. PICK t \in {owner, lastCmd} \ {0} : AttributeTo(t)
    BY <2>1, TargetFacts
  <2>3. t \in 1 .. Len(nodes)
    BY <2>2, TypedFacts
  <2>4. AddsAttribute(nodes', t)
    BY <2>2, <2>3, AttributeAdds
  <2>5. scopes' \in Seq(1 .. Len(nodes'))
    <3>1. Len(nodes') = Len(nodes) /\ Len(nodes) \in Nat
      BY <2>4, TypedFacts DEF AddsAttribute
    <3> QED BY <2>1, <3>1, ScopesStay
  <2>a. w \notin Headers /\ w \notin Headers \cup Directives
    BY <2>1 DEF Headers, Directives, Statements, structuralWords, Said
  <2>b. NodesEffect(w)
    BY <2>1, <2>2, <2>4 DEF NodesEffect
  <2>c. RegionEffect(w)
    BY <2>1, <2>a, RegionKept
  <2>d. CommandEffect(w)
    BY <2>1, <2>a, CommandKept
  <2>6. NodesEffect(w) /\ RegionEffect(w) /\ CommandEffect(w)
    BY <2>b, <2>c, <2>d
  <2> QED BY <1>w, <2>5, <2>6 DEF Effect
<1>11. CASE commandStatement(w)
  <2>1. /\ ~inXs /\ UNCHANGED xs /\ w \in Statements /\ commandLine(w)
        /\ owner = 0 /\ scopes' = scopes
    BY <1>11 DEF commandStatement, StatementLine
  <2>2. /\ AddsNode(nodes', w) /\ Len(nodes') = Len(nodes) + 1
        /\ lastCmd' = Len(nodes) + 1 /\ owner' \in {0, Len(nodes) + 1} /\ Len(nodes) \in Nat
    BY <1>w, <2>1, CommandAdds, TypedFacts DEF commandLine, AddsNode
  <2>3. scopes' \in Seq(1 .. Len(nodes'))
    BY <2>1, <2>2, ScopesStay
  <2>a. w \notin Headers /\ w \notin Headers \cup Directives
    BY <2>1 DEF Headers, Directives, Statements, structuralWords, Said
  <2>b. NodesEffect(w)
    BY <2>1, <2>2 DEF NodesEffect
  <2>c. RegionEffect(w)
    BY <2>1, <2>a, RegionKept
  <2>d. CommandEffect(w)
    BY <2>2, <2>a DEF CommandEffect
  <2>4. NodesEffect(w) /\ RegionEffect(w) /\ CommandEffect(w)
    BY <2>b, <2>c, <2>d
  <2> QED BY <1>w, <2>3, <2>4 DEF Effect
<1> QED BY <1>1, <1>2, <1>3, <1>4, <1>6, <1>7, <1>8, <1>9, <1>10, <1>11 DEF Line
------------------------------------------------------------------------------
(* Type correctness *)

Blocks == [start : Nat, end : Nat]
Sections == [name : {"global", "name"}, start : Nat, end : Nat]

\* Closing a region that says something keeps all its lines that do in one block.
LEMMA BlockFacts ==
    ASSUME Typed
    PROVE  \/ /\ endXsBlock(here) = xsBlocks
              /\ inXs => \A i \in xsStart .. Len(lines) : lines[i] = "blank"
           \/ /\ inXs
              /\ \E e \in Nat :
                   /\ endXsBlock(here) = Append(xsBlocks, [start |-> xsStart, end |-> e])
                   /\ e <= here
                   /\ \A i \in xsStart .. Len(lines) : lines[i] # "blank" => i < e
<1> DEFINE ink  == {i \in xsStart .. here - 1 : lines[i] # "blank"}
           stop == IF ink = {} THEN xsStart ELSE Max(ink) + 1
<1>1. /\ Len(lines) \in Nat /\ here = Len(lines) + 1 /\ xsStart \in Nat
      /\ here - 1 = Len(lines)
  <2>1. xsStart \in Nat
    BY DEF Typed, TypeOK
  <2>2. Len(lines) \in Nat /\ here = Len(lines) + 1
    BY TypedFacts
  <2> QED BY <2>1, <2>2
<1>2. endXsBlock(here) = IF ~inXs \/ (xsArg /\ stop = xsStart) THEN xsBlocks
                         ELSE Append(xsBlocks, [start |-> xsStart, end |-> stop])
  BY Zenon DEF endXsBlock
<1>3. ink \in SUBSET (xsStart .. Len(lines)) /\ ink \in SUBSET (0 .. Len(lines))
  BY <1>1
<1>4. \A i \in xsStart .. Len(lines) : i \in ink <=> lines[i] # "blank"
  BY <1>1
<1> HIDE DEF ink
<1>5. ink # {} => Max(ink) \in ink /\ \A i \in ink : i <= Max(ink)
  BY <1>1, <1>3, MaxExists
<1>6. ink # {} => stop \in Nat /\ stop > xsStart /\ stop <= here /\ \A i \in ink : i < stop
  <2>1. ASSUME ink # {} PROVE Max(ink) \in xsStart .. Len(lines)
    BY <1>3, <1>5, <2>1
  <2>2. ASSUME NEW i \in ink PROVE i \in Nat
    BY <1>3
  <2> QED BY <1>1, <1>5, <2>1, <2>2
<1>7. ink = {} => stop = xsStart
  OBVIOUS
<1> HIDE DEF stop
<1>8. CASE ~inXs
  BY <1>2, <1>8
<1>9. CASE inXs /\ ink = {}
  <2>1. xsStart <= here
    BY <1>9, <1>1 DEF Typed, Region
  <2>2. \A i \in xsStart .. Len(lines) : lines[i] = "blank"
    BY <1>4, <1>9
  <2>3. CASE xsArg
    BY <1>2, <1>7, <1>9, <2>2, <2>3
  <2>4. CASE ~xsArg
    BY <1>1, <1>2, <1>7, <1>9, <2>1, <2>2, <2>4
  <2> QED BY <2>3, <2>4
<1>10. CASE inXs /\ ink # {}
  <2>1. endXsBlock(here) = Append(xsBlocks, [start |-> xsStart, end |-> stop])
    <3>1. stop # xsStart
      BY <1>1, <1>6, <1>10
    <3> QED BY Zenon, <1>2, <1>10, <3>1
  <2> QED BY <1>4, <1>6, <1>10, <2>1
<1> QED BY <1>8, <1>9, <1>10

LEMMA BlocksTyped == ASSUME Typed PROVE endXsBlock(here) \in Seq(Blocks)
<1>1. xsBlocks \in Seq(Blocks) /\ xsStart \in Nat
  BY DEF Typed, TypeOK, Blocks
<1>2. \A e \in Nat : [start |-> xsStart, end |-> e] \in Blocks
  BY <1>1 DEF Blocks
<1>3. \A e \in Nat : Append(xsBlocks, [start |-> xsStart, end |-> e]) \in Seq(Blocks)
  BY <1>1, <1>2
<1> QED BY <1>1, <1>3, BlockFacts

\* Sections stay sections when one ends and another begins.
LEMMA SectionsTyped ==
    ASSUME Typed, NEW name \in {"global", "name"}
    PROVE  /\ [sects EXCEPT ![cur].end = here] \in Seq(Sections)
           /\ [sects EXCEPT ![cur].end = here] # <<>>
           /\ Append([sects EXCEPT ![cur].end = here], Section(name)) \in Seq(Sections)
           /\ Append([sects EXCEPT ![cur].end = here], Section(name)) # <<>>
<1>1. sects \in Seq(Sections) /\ sects # <<>> /\ here \in Nat
  BY TypedFacts DEF Typed, TypeOK, Sections
<1>2. cur \in 1 .. Len(sects) /\ Len(sects) \in Nat
  BY <1>1 DEF cur
<1>3. PICK rec : rec = [sects[cur] EXCEPT !.end = here]
  OBVIOUS
<1>4. rec \in Sections
  <2>1. sects[cur] \in Sections
    BY <1>1, <1>2
  <2> QED BY <1>1, <1>3, <2>1 DEF Sections
<1>5. PICK ss : ss = [sects EXCEPT ![cur].end = here]
  OBVIOUS
<1>6. ss = [sects EXCEPT ![cur] = rec]
  BY <1>3, <1>5
<1>7. ss \in Seq(Sections) /\ Len(ss) = Len(sects)
  BY <1>1, <1>2, <1>4, <1>6
<1>8. Section(name) \in Sections
  BY <1>1 DEF Section, Sections
<1>9. ss # <<>> /\ Append(ss, Section(name)) \in Seq(Sections)
      /\ Append(ss, Section(name)) # <<>>
  BY <1>2, <1>7, <1>8
<1> QED BY <1>5, <1>7, <1>9

\* What a line leaves well typed beside the nodes and the commands.
Others ==
    /\ sects' \in Seq(Sections) /\ sects' # <<>>
    /\ braceScopes' \in Seq(structuralWords)
    /\ diags' \subseteq [at : Nat, what : Problems]
    /\ inXs' \in BOOLEAN /\ xsArg' \in BOOLEAN /\ xsStart' \in Nat
    /\ xsBlocks' \in Seq(Blocks)

LEMMA ReportTyped ==
    ASSUME Typed, NEW what \in Problems
    PROVE  diags \cup {[at |-> here, what |-> what]} \subseteq [at : Nat, what : Problems]
BY TypedFacts DEF Typed, TypeOK

LEMMA SameOthers ==
    ASSUME Typed
    PROVE  /\ UNCHANGED sects => sects' \in Seq(Sections) /\ sects' # <<>>
           /\ UNCHANGED braceScopes => braceScopes' \in Seq(structuralWords)
           /\ UNCHANGED diags => diags' \subseteq [at : Nat, what : Problems]
           /\ UNCHANGED xsBlocks => xsBlocks' \in Seq(Blocks)
           /\ UNCHANGED xsStart => xsStart' \in Nat
           /\ braceScopes' = <<>> => braceScopes' \in Seq(structuralWords)
           /\ xsBlocks' = endXsBlock(here) => xsBlocks' \in Seq(Blocks)
<1>1. /\ sects \in Seq(Sections) /\ sects # <<>> /\ braceScopes \in Seq(structuralWords)
      /\ diags \subseteq [at : Nat, what : Problems] /\ xsBlocks \in Seq(Blocks)
      /\ xsStart \in Nat
  BY DEF Typed, TypeOK, Sections, Blocks
<1>2. endXsBlock(here) \in Seq(Blocks)
  BY BlocksTyped
<1>3. <<>> \in Seq(structuralWords)
  OBVIOUS
<1> QED BY Zenon, <1>1, <1>2, <1>3

LEMMA SameFlags ==
    ASSUME Typed
    PROVE  /\ UNCHANGED inXs => inXs' \in BOOLEAN
           /\ UNCHANGED xsArg => xsArg' \in BOOLEAN
<1>1. inXs \in BOOLEAN /\ xsArg \in BOOLEAN
  BY Zenon DEF Typed, TypeOK
<1> QED BY Zenon, <1>1

LEMMA ClosersTyped ==
    ASSUME Typed, NEW names
    PROVE  diags \cup closeScopesReports(names) \subseteq [at : Nat, what : Problems]
<1>1. here \in Nat /\ diags \subseteq [at : Nat, what : Problems]
  BY TypedFacts DEF Typed, TypeOK
<1>2. ASSUME NEW d \in closeScopesReports(names) PROVE d \in [at : Nat, what : Problems]
  <2>1. PICK what \in {"unterminated", "unmatched"} : d = [at |-> here, what |-> what]
    BY <1>2 DEF closeScopesReports
  <2>2. what \in Problems
    BY <2>1 DEF Problems
  <2> QED BY <1>1, <2>1, <2>2
<1> QED BY <1>1, <1>2

\* The nesting inside a block is that of structural words.
LEMMA NestingTyped ==
    ASSUME Typed, NEW w \in structuralWords,
           NEW outer, outer = IF braceScopes = <<>> THEN <<>> ELSE Front(braceScopes)
    PROVE  /\ outer \in Seq(structuralWords)
           /\ Append(outer, w) \in Seq(structuralWords)
           /\ Append(braceScopes, w) \in Seq(structuralWords)
<1> USE DEF structuralWords
<1>1. PICK S : S = structuralWords
  OBVIOUS
<1>2. braceScopes \in Seq(S) /\ w \in S
  BY <1>1 DEF Typed, TypeOK
<1>3. outer \in Seq(S)
  <2>1. CASE braceScopes = <<>>
    BY <2>1
  <2>2. CASE braceScopes # <<>>
    <3>1. PICK n \in Nat : n = Len(braceScopes) - 1
      BY <1>2, <2>2
    <3>2. outer = SubSeq(braceScopes, 1, n)
      BY <2>2, <3>1 DEF Front
    <3> QED BY <1>2, <3>1, <3>2
  <2> QED BY <2>1, <2>2
<1>4. Append(outer, w) \in Seq(S) /\ Append(braceScopes, w) \in Seq(S)
  BY <1>2, <1>3
<1> QED BY <1>1, <1>3, <1>4

LEMMA LineOthers ==
    ASSUME Typed, NEW w, Line(w)
    PROVE  Others
<1>w. here \in Nat /\ here + 1 \in Nat
  BY TypedFacts
<1>n. Section(IF w = "</name>" THEN "global" ELSE "name")
        \in {Section("global"), Section("name")}
  OBVIOUS
<1>1. CASE Skip(w)
  <2>1. /\ UNCHANGED sects /\ UNCHANGED braceScopes /\ UNCHANGED diags
        /\ UNCHANGED xsBlocks /\ UNCHANGED xsStart /\ UNCHANGED inXs /\ UNCHANGED xsArg
    BY Zenon, <1>1 DEF Skip, tree, xs
  <2> QED BY Zenon, <2>1, SameOthers, SameFlags DEF Others
<1>2. CASE closeSection(w)
  <2>1. /\ UNCHANGED xsStart /\ UNCHANGED xsArg /\ inXs' = FALSE
        /\ braceScopes' = <<>> /\ xsBlocks' = endXsBlock(here)
        /\ sects' = Append([sects EXCEPT ![cur].end = here],
                           Section(IF w = "</name>" THEN "global" ELSE "name"))
        /\ \/ diags' = diags
           \/ diags' = diags \cup {[at |-> here, what |-> "unclosed block"]}
    BY Zenon, <1>2 DEF closeSection
  <2>2. sects' \in Seq(Sections) /\ sects' # <<>>
    <3>1. PICK name \in {"global", "name"} :
            name = IF w = "</name>" THEN "global" ELSE "name"
      OBVIOUS
    <3>2. sects' = Append([sects EXCEPT ![cur].end = here], Section(name))
      BY Zenon, <2>1, <3>1
    <3> QED BY <3>2, SectionsTyped
  <2>3. diags' \subseteq [at : Nat, what : Problems]
    <3>1. "unclosed block" \in Problems
      BY DEF Problems
    <3> QED BY Zenon, <2>1, <3>1, ReportTyped, SameOthers
  <2>4. inXs' \in BOOLEAN
    BY Zenon, <2>1
  <2> QED BY Zenon, <2>1, <2>2, <2>3, <2>4, SameOthers, SameFlags DEF Others
<1>3. CASE includeDirective(w)
  <2>1. /\ UNCHANGED sects /\ UNCHANGED braceScopes /\ UNCHANGED diags
        /\ xsBlocks' = endXsBlock(here) /\ inXs' = (w # "#include")
        /\ \/ UNCHANGED xsStart /\ UNCHANGED xsArg
           \/ xsStart' = here + 1 /\ xsArg' = (w = "#includeXS f")
    BY Zenon, <1>3 DEF includeDirective, tree
  <2>2. inXs' \in BOOLEAN /\ xsArg' \in BOOLEAN
    <3>1. (w # "#include") \in BOOLEAN /\ (w = "#includeXS f") \in BOOLEAN
      BY Zenon
    <3> QED BY Zenon, <2>1, <3>1, SameFlags
  <2>3. xsStart' \in Nat
    BY Zenon, <1>w, <2>1, SameOthers
  <2> QED BY Zenon, <2>1, <2>2, <2>3, SameOthers DEF Others
<1>4. CASE constDirective(w)
  <2>1. /\ UNCHANGED sects /\ UNCHANGED braceScopes /\ UNCHANGED diags
        /\ xsBlocks' = endXsBlock(here) /\ inXs' = FALSE
        /\ UNCHANGED xsStart /\ UNCHANGED xsArg
    BY Zenon, <1>4 DEF constDirective
  <2>2. inXs' \in BOOLEAN
    BY Zenon, <2>1
  <2> QED BY Zenon, <2>1, <2>2, SameOthers, SameFlags DEF Others
<1>5. ASSUME StatementLine(w), braceScopes' \in Seq(structuralWords),
             diags' \subseteq [at : Nat, what : Problems]
      PROVE  Others
  <2>1. /\ UNCHANGED sects /\ UNCHANGED xsBlocks /\ UNCHANGED xsStart
        /\ UNCHANGED inXs /\ UNCHANGED xsArg
    BY Zenon, <1>5 DEF StatementLine, xs
  <2> QED BY Zenon, <1>5, <2>1, SameOthers, SameFlags DEF Others
<1>6. CASE openBrace(w) \/ closeBrace(w) \/ junkLine(w)
  <2>1. /\ StatementLine(w)
        /\ UNCHANGED braceScopes \/ braceScopes' = <<>>
        /\ UNCHANGED diags \/ \E what \in {"unexpected {", "unexpected }", "unexpected"} :
                                Report(what)
    BY <1>6 DEF openBrace, closeBrace, junkLine, tree
  <2>2. {"unexpected {", "unexpected }", "unexpected"} \subseteq Problems
    BY DEF Problems
  <2>3. braceScopes' \in Seq(structuralWords)
    BY Zenon, <2>1, SameOthers
  <2>4. diags' \subseteq [at : Nat, what : Problems]
    <3>1. CASE UNCHANGED diags
      BY Zenon, <3>1, SameOthers
    <3>2. ASSUME NEW what \in Problems, Report(what)
          PROVE  diags' \subseteq [at : Nat, what : Problems]
      BY <3>2, ReportTyped DEF Report
    <3> QED BY <2>1, <2>2, <3>1, <3>2
  <2> QED BY <1>5, <2>1, <2>3, <2>4
<1>7. CASE structuralInBrace(w)
  <2> DEFINE outer == IF braceScopes = <<>> THEN <<>> ELSE Front(braceScopes)
  <2>1. /\ StatementLine(w) /\ w \in structuralWords
        /\ \/ braceScopes' = outer
           \/ braceScopes' = Append(outer, w)
           \/ braceScopes' = Append(braceScopes, w)
    BY <1>7 DEF structuralInBrace
  <2>2. Report("unmatched") \/ UNCHANGED diags
    BY <1>7 DEF structuralInBrace
  <2>3. braceScopes' \in Seq(structuralWords)
    BY Zenon, <2>1, NestingTyped
  <2>4. diags' \subseteq [at : Nat, what : Problems]
    <3>1. "unmatched" \in Problems
      BY DEF Problems
    <3> QED BY Zenon, <2>2, <3>1, ReportTyped, SameOthers DEF Report
  <2> QED BY <1>5, <2>1, <2>3, <2>4
<1>8. CASE structural(w)
  <2>1. /\ StatementLine(w) /\ UNCHANGED braceScopes
        /\ \/ \E names : closeScopes(names)
           \/ \E names : diags' = diags \cup closeScopesReports(names)
           \/ UNCHANGED diags
    BY <1>8 DEF structural
  <2>2. braceScopes' \in Seq(structuralWords)
    BY Zenon, <2>1, SameOthers
  <2>3. diags' \subseteq [at : Nat, what : Problems]
    BY Zenon, <2>1, ClosersTyped, SameOthers DEF closeScopes
  <2> QED BY <1>5, <2>1, <2>2, <2>3
<1>9. CASE attributeLine(w) \/ commandStatement(w)
  <2>1. StatementLine(w) /\ UNCHANGED braceScopes /\ UNCHANGED diags
    BY <1>9 DEF attributeLine, commandStatement
  <2>2. braceScopes' \in Seq(structuralWords) /\ diags' \subseteq [at : Nat, what : Problems]
    BY Zenon, <2>1, SameOthers
  <2> QED BY <1>5, <2>1, <2>2
<1> QED BY <1>1, <1>2, <1>3, <1>4, <1>6, <1>7, <1>8, <1>9 DEF Line

LEMMA EffectTyped ==
    ASSUME Typed, NEW w, Effect(w), Others
    PROVE  Typed'
<1>1. /\ w \in Words /\ lines' = Append(lines, w) /\ script' = script /\ done' = done
      /\ scopes' \in Seq(1 .. Len(nodes')) /\ NodesEffect(w) /\ RegionEffect(w)
      /\ CommandEffect(w)
  BY DEF Effect
<1>2. lines' \in Seq(Words) /\ Len(lines') = Len(lines) + 1 /\ here' = here + 1
      /\ Len(lines) \in Nat /\ here = Len(lines) + 1 /\ Len(lines') = here
      /\ Len(nodes) \in Nat
  <2>1. lines \in Seq(Words) /\ Len(lines) \in Nat /\ here = Len(lines) + 1
    BY TypedFacts DEF Typed, TypeOK
  <2>2. lines' \in Seq(Words) /\ Len(lines') = Len(lines) + 1
    BY <1>1, <2>1
  <2> QED BY <2>1, <2>2, TypedFacts DEF here
<1>3. SameNodes(nodes') \/ AddsNode(nodes', w) \/ \E t : AddsAttribute(nodes', t)
  BY <1>1 DEF NodesEffect
<1>4. /\ nodes' \in Seq(NodeRecords)
      /\ Len(nodes') = Len(nodes) \/ Len(nodes') = Len(nodes) + 1
      /\ AddsNode(nodes', w) => Len(nodes') = Len(nodes) + 1
      /\ \A n \in 1 .. Len(nodes') : nodes'[n].end <= here
  <2>1. CASE SameNodes(nodes')
    BY <1>2, <2>1 DEF SameNodes, AddsNode
  <2>2. CASE AddsNode(nodes', w)
    BY <1>2, <2>2 DEF AddsNode
  <2>3. CASE \E t : AddsAttribute(nodes', t)
    BY <1>2, <2>3 DEF AddsAttribute, AddsNode
  <2> QED BY <1>3, <2>1, <2>2, <2>3
<1>5. DOMAIN nodes' = 1 .. Len(nodes')
  BY <1>4
<1>6. Ends'
  BY <1>2, <1>4, <1>5 DEF Ends
<1>7. owner' \in {0} \cup DOMAIN nodes' /\ lastCmd' \in {0} \cup DOMAIN nodes'
  <2>1. owner \in 0 .. Len(nodes) /\ lastCmd \in 0 .. Len(nodes)
    BY TypedFacts
  <2>2. lastCmd' \in 0 .. Len(nodes')
    BY <1>1, <1>2, <1>4, <2>1 DEF CommandEffect
  <2>3. owner' \in 0 .. Len(nodes')
    BY <1>1, <1>2, <1>4, <2>1, <2>2 DEF CommandEffect
  <2>4. PICK m \in Nat : m = Len(nodes')
    BY <1>2, <1>4
  <2>5. owner' \in {0} \cup 1 .. m /\ lastCmd' \in {0} \cup 1 .. m
    BY <2>2, <2>3, <2>4
  <2> QED BY <1>5, <2>4, <2>5
<1>8. Region'
  <2>1. SUFFICES ASSUME inXs' PROVE xsStart' \in 1 .. here'
    BY DEF Region
  <2>2. CASE UNCHANGED xs
    <3>1. inXs /\ xsStart' = xsStart
      BY Zenon, <2>1, <2>2 DEF xs
    <3>2. xsStart \in 1 .. here
      BY <3>1 DEF Typed, Region
    <3> QED BY <1>2, <3>1, <3>2
  <2>3. CASE xsStart' = here + 1
    BY <1>2, <2>3
  <2> QED BY Zenon, <1>1, <2>1, <2>2, <2>3 DEF RegionEffect
<1>9. script' \in Scripts
  BY <1>1 DEF Typed, TypeOK
<1>10. done' \in BOOLEAN
  BY Zenon, <1>1 DEF Typed, TypeOK
<1>11. TypeOK'
  <2>1. nodes' \in Seq([name : Words, start : Nat, end : Nat, parent : Nat,
                        sect : Nat, attrs : Seq(Nat)])
    BY <1>4 DEF NodeRecords
  <2>2. scopes' \in Seq(DOMAIN nodes')
    BY <1>1, <1>5
  <2>3. Others
    OBVIOUS
  <2> QED BY Zenon, <1>2, <1>7, <1>9, <1>10, <2>1, <2>2, <2>3
       DEF TypeOK, Others, Sections, Blocks
<1> QED BY <1>6, <1>8, <1>11 DEF Typed

LEMMA CloseTyped ==
    ASSUME Typed, closeAll
    PROVE  /\ Typed' /\ SameNodes(nodes') /\ UNCHANGED lines /\ ~done /\ ~inXs'
           /\ xsBlocks' = endXsBlock(here) /\ owner' = 0 /\ lastCmd' = lastCmd
<1>1. /\ ~done /\ done' = TRUE /\ xsBlocks' = endXsBlock(here) /\ inXs' = FALSE
      /\ nodes' = ClosedNodes
      /\ owner' = 0 /\ braceScopes' = <<>> /\ scopes' = <<>>
      /\ sects' = [sects EXCEPT ![cur].end = here]
      /\ UNCHANGED script /\ UNCHANGED lines /\ UNCHANGED lastCmd
      /\ UNCHANGED xsStart /\ UNCHANGED xsArg
  BY Zenon DEF closeAll, ClosedNodes
<1>2. SameNodes(nodes') /\ \A n \in 1 .. Len(nodes) : nodes'[n].end <= Len(lines)
  BY <1>1, ClosedKeeps
<1>3. nodes' \in Seq(NodeRecords) /\ Len(nodes') = Len(nodes) /\ DOMAIN nodes' = DOMAIN nodes
  BY <1>2, TypedFacts DEF SameNodes
<1>4. Ends'
  BY <1>1, <1>2, <1>3, TypedFacts DEF Ends
<1>5. Region'
  BY Zenon, <1>1 DEF Region
<1>6. diags' \subseteq [at : Nat, what : Problems]
  <2>1. diags' = diags
         \cup (IF owner = 0 THEN {} ELSE {[at |-> here, what |-> "unclosed block"]})
         \cup (IF scopes = <<>> THEN {} ELSE {[at |-> here, what |-> "unterminated"]})
    BY DEF closeAll
  <2>2. "unclosed block" \in Problems /\ "unterminated" \in Problems
    BY DEF Problems
  <2>3. /\ diags \subseteq [at : Nat, what : Problems]
        /\ [at |-> here, what |-> "unclosed block"] \in [at : Nat, what : Problems]
        /\ [at |-> here, what |-> "unterminated"] \in [at : Nat, what : Problems]
    BY <2>2, TypedFacts DEF Typed, TypeOK
  <2> QED BY <2>1, <2>3
<1>7. sects' \in Seq(Sections) /\ sects' # <<>>
  BY <1>1, SectionsTyped
<1>8. TypeOK'
  <2>1. nodes' \in Seq([name : Words, start : Nat, end : Nat, parent : Nat,
                        sect : Nat, attrs : Seq(Nat)])
    BY <1>3 DEF NodeRecords
  <2>2. scopes' \in Seq(DOMAIN nodes') /\ braceScopes' \in Seq(structuralWords)
    BY <1>1
  <2>3. owner' \in {0} \cup DOMAIN nodes' /\ lastCmd' \in {0} \cup DOMAIN nodes'
    BY <1>1, <1>3 DEF Typed, TypeOK
  <2>4. script' \in Scripts /\ lines' \in Seq(Words)
    BY <1>1 DEF Typed, TypeOK
  <2>5. done' \in BOOLEAN /\ inXs' \in BOOLEAN
    BY Zenon, <1>1
  <2>6. xsBlocks' \in Seq(Blocks) /\ xsStart' \in Nat /\ xsArg' \in BOOLEAN
    BY Zenon, <1>1, SameOthers, SameFlags
  <2> QED BY Zenon, <1>6, <1>7, <2>1, <2>2, <2>3, <2>4, <2>5, <2>6
       DEF TypeOK, Sections, Blocks
<1>9. ~inXs'
  BY Zenon, <1>1
<1> QED BY Zenon, <1>1, <1>2, <1>4, <1>5, <1>8, <1>9 DEF Typed

LEMMA InitTyped == Init => Typed
<1> SUFFICES ASSUME Init PROVE Typed
  OBVIOUS
<1>1. /\ script \in Scripts /\ lines = <<>> /\ nodes = <<>> /\ scopes = <<>>
      /\ braceScopes = <<>> /\ owner = 0 /\ lastCmd = 0 /\ xsStart = 0
      /\ xsBlocks = <<>> /\ diags = {}
      /\ sects = <<[name |-> "global", start |-> 1, end |-> 1]>>
  BY DEF Init
<1>2. inXs = FALSE /\ xsArg = FALSE /\ done = FALSE
  BY Zenon DEF Init
<1>3. inXs \in BOOLEAN /\ xsArg \in BOOLEAN /\ done \in BOOLEAN
  BY Zenon, <1>2
<1>4. sects \in Seq(Sections) /\ sects # <<>>
  BY <1>1 DEF Sections
<1>5. /\ lines \in Seq(Words) /\ scopes \in Seq(DOMAIN nodes)
      /\ braceScopes \in Seq(structuralWords)
      /\ nodes \in Seq([name : Words, start : Nat, end : Nat, parent : Nat,
                        sect : Nat, attrs : Seq(Nat)])
      /\ xsBlocks \in Seq(Blocks) /\ diags \subseteq [at : Nat, what : Problems]
      /\ xsStart \in Nat /\ owner \in {0} \cup DOMAIN nodes
      /\ lastCmd \in {0} \cup DOMAIN nodes
  BY <1>1
<1>6. TypeOK
  BY Zenon, <1>1, <1>3, <1>4, <1>5 DEF TypeOK, Sections, Blocks
<1>7. Ends
  BY <1>1 DEF Ends
<1>8. Region
  BY Zenon, <1>2 DEF Region
<1> QED BY <1>6, <1>7, <1>8 DEF Typed

LEMMA StepTyped == Typed /\ [Next]_vars => Typed'
<1> SUFFICES ASSUME Typed, [Next]_vars PROVE Typed'
  OBVIOUS
<1>1. ASSUME NEW w, Line(w) PROVE Typed'
  BY <1>1, LineEffect, LineOthers, EffectTyped
<1>2. CASE closeAll
  BY <1>2, CloseTyped
<1>3. CASE UNCHANGED vars
  BY Zenon, <1>3 DEF vars, tree, xs, Typed, TypeOK, Ends, Region, here
<1> QED BY <1>1, <1>2, <1>3 DEF Next

\* Whatever the lines of a file and their order, every variable of the walk has
\* its type: sections, open scopes, the block's owner and the last command are
\* always there, and no range ends beyond the line being read (run and
\* statementLine, parse.go:93-144, 216-264).
THEOREM TypeCorrect == Spec => []TypeOK
<1>1. Spec => []Typed
  BY InitTyped, StepTyped, PTL DEF Spec
<1>2. Typed => TypeOK
  BY DEF Typed
<1> QED BY <1>1, <1>2, PTL
------------------------------------------------------------------------------
(* Each line in one place *)

\* The nodes and the XS blocks that hold line i.
NodesAt(ns, i) == {n \in DOMAIN ns : ns[n].start = i \/ i \in ToSet(ns[n].attrs)}
Over(bs, i) == {b \in DOMAIN bs : bs[b].start <= i /\ i < bs[b].end}

\* A node says where it was found, among the lines read.
Dated == \A n \in DOMAIN nodes :
    /\ nodes[n].start <= Len(lines)
    /\ \A l \in ToSet(nodes[n].attrs) : l <= Len(lines)

\* The open region lies after every block and every node.
Regional ==
    /\ \A b \in DOMAIN xsBlocks : xsBlocks[b].end <= IF inXs THEN xsStart ELSE here
    /\ inXs => \A n \in DOMAIN nodes :
                 /\ nodes[n].start < xsStart
                 /\ \A l \in ToSet(nodes[n].attrs) : l < xsStart

InOpenRegion(i) == inXs /\ xsStart <= i

Once(N, B) == \/ \E n : N = {n} /\ B = {}
              \/ \E b : N = {} /\ B = {b}

Placed == \A i \in 1 .. Len(lines) :
    lines[i] \in Said /\ ~InOpenRegion(i) => Once(NodesAt(nodes, i), Over(xsBlocks, i))

Closed == done => ~inXs

LinesInv == Typed /\ Dated /\ Regional /\ Placed /\ Closed

LEMMA DatedFacts ==
    ASSUME Typed, Dated
    PROVE  /\ Len(lines) \in Nat /\ here = Len(lines) + 1 /\ Len(nodes) \in Nat
           /\ DOMAIN nodes = 1 .. Len(nodes)
           /\ \A n \in 1 .. Len(nodes) : nodes[n].start \in 0 .. Len(lines)
           /\ \A n \in 1 .. Len(nodes) : \A l \in ToSet(nodes[n].attrs) :
                l \in 0 .. Len(lines)
<1>1. \A n \in 1 .. Len(nodes) : nodes[n].start \in Nat /\ nodes[n].attrs \in Seq(Nat)
  <2>1. \A n \in 1 .. Len(nodes) : nodes[n] \in NodeRecords
    BY TypedFacts
  <2> QED BY <2>1 DEF NodeRecords
<1>2. \A s \in Seq(Nat) : ToSet(s) \subseteq Nat
  BY DEF ToSet
<1>3. /\ Len(lines) \in Nat /\ here = Len(lines) + 1 /\ Len(nodes) \in Nat
      /\ DOMAIN nodes = 1 .. Len(nodes)
  BY TypedFacts
<1>4. \A n \in 1 .. Len(nodes) : nodes[n].start \in 0 .. Len(lines)
  BY <1>1, <1>3 DEF Dated
<1>5. ASSUME NEW n \in 1 .. Len(nodes), NEW l \in ToSet(nodes[n].attrs)
      PROVE  l \in 0 .. Len(lines)
  <2>1. l \in Nat
    BY <1>1, <1>2
  <2>2. l <= Len(lines)
    BY <1>3 DEF Dated
  <2> QED BY <1>3, <2>1, <2>2
<1> QED BY <1>3, <1>4, <1>5

\* The next line is nowhere yet, and each node keeps what it has.
LEMMA NodesPlaced ==
    ASSUME Typed, Dated, NEW w, NodesEffect(w)
    PROVE  /\ \A i \in 1 .. Len(lines) : NodesAt(nodes', i) = NodesAt(nodes, i)
           /\ \A n \in DOMAIN nodes' :
                /\ nodes'[n].start <= here
                /\ \A l \in ToSet(nodes'[n].attrs) : l <= here
           /\ w \in Said /\ ~(inXs /\ w # "#const") =>
                \E n : NodesAt(nodes', here) = {n}
           /\ inXs /\ w \notin Directives => SameNodes(nodes')
<1>1. /\ Len(lines) \in Nat /\ here = Len(lines) + 1 /\ Len(nodes) \in Nat
      /\ DOMAIN nodes = 1 .. Len(nodes)
      /\ \A n \in 1 .. Len(nodes) : nodes[n].start \in 0 .. Len(lines)
      /\ \A n \in 1 .. Len(nodes) : \A l \in ToSet(nodes[n].attrs) : l \in 0 .. Len(lines)
  BY DatedFacts
<1>2. CASE SameNodes(nodes') /\ (w \in Said => inXs /\ w # "#const")
  <2>1. /\ DOMAIN nodes' = 1 .. Len(nodes)
        /\ \A n \in 1 .. Len(nodes) :
             nodes'[n].start = nodes[n].start /\ nodes'[n].attrs = nodes[n].attrs
    BY <1>1, <1>2 DEF SameNodes, Alike
  <2>2. \A i \in 1 .. Len(lines) : NodesAt(nodes', i) = NodesAt(nodes, i)
    BY <1>1, <2>1 DEF NodesAt
  <2>3. \A n \in DOMAIN nodes' :
          /\ nodes'[n].start <= here
          /\ \A l \in ToSet(nodes'[n].attrs) : l <= here
    BY <1>1, <2>1
  <2> QED BY <1>2, <2>2, <2>3
<1>3. CASE AddsNode(nodes', w) /\ (inXs => w = "#const")
  <2>n. PICK m : m = Len(nodes) + 1
    OBVIOUS
  <2>1. /\ DOMAIN nodes' = 1 .. m
        /\ \A n \in 1 .. Len(nodes) :
             nodes'[n].start = nodes[n].start /\ nodes'[n].attrs = nodes[n].attrs
        /\ nodes'[m].start = here /\ ToSet(nodes'[m].attrs) \subseteq {here}
    BY <1>1, <1>3, <2>n DEF AddsNode, Alike
  <2>a. 1 .. m = 1 .. Len(nodes) \cup {m} /\ m \in Nat /\ m \notin 1 .. Len(nodes)
    BY <1>1, <2>n
  <2>2. ASSUME NEW i \in 1 .. Len(lines) PROVE NodesAt(nodes', i) = NodesAt(nodes, i)
    <3>1. i # here
      BY <1>1
    <3> QED BY <1>1, <2>1, <2>a, <3>1 DEF NodesAt
  <2>3. \A n \in DOMAIN nodes' :
          /\ nodes'[n].start <= here
          /\ \A l \in ToSet(nodes'[n].attrs) : l <= here
    <3>1. ASSUME NEW n \in 1 .. Len(nodes)
          PROVE  nodes'[n].start <= here /\ \A l \in ToSet(nodes'[n].attrs) : l <= here
      <4>1. nodes'[n].start = nodes[n].start /\ nodes'[n].attrs = nodes[n].attrs
        BY <2>1
      <4>2. nodes[n].start <= here
        BY <1>1
      <4>3. \A l \in ToSet(nodes[n].attrs) : l <= here
        BY <1>1
      <4> QED BY <4>1, <4>2, <4>3
    <3>2. here <= here
      BY <1>1
    <3>3. nodes'[m].start <= here /\ \A l \in ToSet(nodes'[m].attrs) : l <= here
      BY <2>1, <3>2
    <3> QED BY <2>1, <2>a, <3>1, <3>3
  <2>4. NodesAt(nodes', here) = {m}
    <3>1. ASSUME NEW n \in 1 .. Len(nodes)
          PROVE  nodes'[n].start # here /\ here \notin ToSet(nodes'[n].attrs)
      <4>1. here \notin 0 .. Len(lines)
        BY <1>1
      <4> QED BY <1>1, <2>1, <4>1
    <3> QED BY <2>1, <2>a, <3>1 DEF NodesAt
  <2>5. inXs => w \in Directives
    BY <1>3 DEF Directives
  <2> QED BY <2>2, <2>3, <2>4, <2>5
<1>4. CASE (\E t \in {owner, lastCmd} \ {0} : AddsAttribute(nodes', t)) /\ ~inXs
  <2>1. PICK t : AddsAttribute(nodes', t)
    BY <1>4
  <2>2. /\ DOMAIN nodes' = 1 .. Len(nodes) /\ t \in 1 .. Len(nodes)
        /\ \A n \in 1 .. Len(nodes) :
             /\ nodes'[n].start = nodes[n].start
             /\ n # t => nodes'[n].attrs = nodes[n].attrs
        /\ ToSet(nodes'[t].attrs) = ToSet(nodes[t].attrs) \cup {here}
    BY <1>1, <2>1 DEF AddsAttribute
  <2>3. ASSUME NEW i \in 1 .. Len(lines) PROVE NodesAt(nodes', i) = NodesAt(nodes, i)
    <3>1. i # here
      BY <1>1
    <3> QED BY <1>1, <2>2, <3>1 DEF NodesAt
  <2>4. \A n \in DOMAIN nodes' :
          /\ nodes'[n].start <= here
          /\ \A l \in ToSet(nodes'[n].attrs) : l <= here
    <3>1. ASSUME NEW n \in 1 .. Len(nodes), NEW l \in ToSet(nodes'[n].attrs)
          PROVE  l <= here
      <4>1. l \in ToSet(nodes[n].attrs) \/ l = here
        BY <2>2, <3>1
      <4>2. CASE l \in ToSet(nodes[n].attrs)
        BY <1>1, <4>2
      <4>3. CASE l = here
        BY <1>1, <4>3
      <4> QED BY <4>1, <4>2, <4>3
    <3>2. \A n \in 1 .. Len(nodes) : nodes'[n].start <= here
      BY <1>1, <2>2
    <3> QED BY <2>2, <3>1, <3>2
  <2>5. NodesAt(nodes', here) = {t}
    <3>1. \A n \in 1 .. Len(nodes) :
            nodes'[n].start # here /\ (here \in ToSet(nodes'[n].attrs) <=> n = t)
      <4>1. \A n \in 1 .. Len(nodes) :
              nodes[n].start # here /\ here \notin ToSet(nodes[n].attrs)
        BY <1>1
      <4> QED BY <2>2, <4>1
    <3> QED BY <2>2, <3>1 DEF NodesAt
  <2> QED BY <1>4, <2>3, <2>4, <2>5
<1> QED BY <1>2, <1>3, <1>4 DEF NodesEffect

\* A closed region keeps what it says in one block, and no block goes further.
LEMMA RegionPlaced ==
    ASSUME Typed, Regional, xsBlocks' = endXsBlock(here)
    PROVE  /\ \A b \in DOMAIN xsBlocks' : xsBlocks'[b].end <= here
           /\ \A i \in 1 .. Len(lines) :
                ~InOpenRegion(i) => Over(xsBlocks', i) = Over(xsBlocks, i)
           /\ \A i \in 1 .. Len(lines) :
                InOpenRegion(i) /\ lines[i] # "blank" => \E b : Over(xsBlocks', i) = {b}
<1>1. /\ Len(lines) \in Nat /\ here = Len(lines) + 1 /\ xsStart \in Nat
      /\ xsBlocks \in Seq(Blocks)
  BY TypedFacts DEF Typed, TypeOK, Blocks
<1>2. /\ DOMAIN xsBlocks = 1 .. Len(xsBlocks) /\ Len(xsBlocks) \in Nat
      /\ \A b \in 1 .. Len(xsBlocks) : xsBlocks[b].start \in Nat /\ xsBlocks[b].end \in Nat
  <2>1. DOMAIN xsBlocks = 1 .. Len(xsBlocks) /\ Len(xsBlocks) \in Nat
    BY <1>1
  <2>2. \A b \in 1 .. Len(xsBlocks) : xsBlocks[b] \in Blocks
    BY <1>1, <2>1
  <2> QED BY <2>1, <2>2 DEF Blocks
<1>3. \A b \in DOMAIN xsBlocks : xsBlocks[b].end <= here
  <2>1. CASE inXs
    <3>1. xsStart <= here
      BY <2>1 DEF Typed, Region
    <3>2. \A b \in DOMAIN xsBlocks : xsBlocks[b].end <= xsStart
      BY <2>1 DEF Regional
    <3> QED BY <1>1, <1>2, <3>1, <3>2
  <2>2. CASE ~inXs
    BY <2>2 DEF Regional
  <2> QED BY <2>1, <2>2
<1>4. CASE /\ xsBlocks' = xsBlocks
           /\ inXs => \A i \in xsStart .. Len(lines) : lines[i] = "blank"
  <2>1. ASSUME NEW i \in 1 .. Len(lines), InOpenRegion(i) PROVE lines[i] = "blank"
    <3>1. inXs /\ i \in xsStart .. Len(lines)
      BY <1>1, <2>1 DEF InOpenRegion
    <3> QED BY <1>4, <3>1
  <2> QED BY <1>3, <1>4, <2>1
<1>5. ASSUME inXs, NEW e \in Nat,
             xsBlocks' = Append(xsBlocks, [start |-> xsStart, end |-> e]),
             e <= here, \A i \in xsStart .. Len(lines) : lines[i] # "blank" => i < e
      PROVE  /\ \A b \in DOMAIN xsBlocks' : xsBlocks'[b].end <= here
             /\ \A i \in 1 .. Len(lines) :
                  ~InOpenRegion(i) => Over(xsBlocks', i) = Over(xsBlocks, i)
             /\ \A i \in 1 .. Len(lines) :
                  InOpenRegion(i) /\ lines[i] # "blank" => \E b : Over(xsBlocks', i) = {b}
  <2>m. PICK m : m = Len(xsBlocks) + 1
    OBVIOUS
  <2>n. PICK new : new = [start |-> xsStart, end |-> e]
    OBVIOUS
  <2>1. new \in Blocks /\ new.start = xsStart /\ new.end = e
    BY <1>1, <2>n DEF Blocks
  <2>2. /\ DOMAIN xsBlocks' = 1 .. m /\ m \in Nat /\ xsBlocks'[m] = new
        /\ 1 .. m = 1 .. Len(xsBlocks) \cup {m} /\ m \notin 1 .. Len(xsBlocks)
        /\ \A b \in 1 .. Len(xsBlocks) : xsBlocks'[b] = xsBlocks[b]
    BY <1>1, <1>2, <1>5, <2>m, <2>n, <2>1
  <2>3. \A b \in DOMAIN xsBlocks' : xsBlocks'[b].end <= here
    BY <1>2, <1>3, <1>5, <2>1, <2>2
  <2>4. ASSUME NEW i \in 1 .. Len(lines), ~InOpenRegion(i)
        PROVE  Over(xsBlocks', i) = Over(xsBlocks, i)
    <3>1. ~(xsStart <= i)
      BY <1>5, <2>4 DEF InOpenRegion
    <3> QED BY <1>2, <2>1, <2>2, <3>1 DEF Over
  <2>5. ASSUME NEW i \in 1 .. Len(lines), InOpenRegion(i), lines[i] # "blank"
        PROVE  Over(xsBlocks', i) = {m}
    <3>1. xsStart <= i /\ i < e
      BY <1>1, <1>5, <2>5 DEF InOpenRegion
    <3>2. \A b \in 1 .. Len(xsBlocks) : xsBlocks[b].end <= xsStart
      BY <1>2, <1>5 DEF Regional
    <3>3. \A b \in 1 .. Len(xsBlocks) : ~(i < xsBlocks[b].end)
      BY <1>1, <1>2, <3>1, <3>2
    <3> QED BY <1>2, <2>1, <2>2, <3>1, <3>3 DEF Over
  <2> QED BY <2>3, <2>4, <2>5
<1> QED BY <1>4, <1>5, BlockFacts

LEMMA BlocksBefore ==
    ASSUME Typed, Regional
    PROVE  /\ \A b \in DOMAIN xsBlocks : xsBlocks[b].end <= here
           /\ \A b \in DOMAIN xsBlocks : xsBlocks[b].end \in Nat
           /\ inXs => xsStart \in 1 .. here
<1>1. here \in Nat /\ xsBlocks \in Seq(Blocks)
  BY TypedFacts DEF Typed, TypeOK, Blocks
<1>2. \A b \in DOMAIN xsBlocks : xsBlocks[b] \in Blocks
  BY <1>1
<1>3. \A b \in DOMAIN xsBlocks : xsBlocks[b].end \in Nat
  BY <1>2 DEF Blocks
<1>4. inXs => xsStart \in 1 .. here
  BY DEF Typed, Region
<1>5. CASE inXs
  BY <1>1, <1>3, <1>4, <1>5 DEF Regional
<1>6. CASE ~inXs
  BY <1>3, <1>4, <1>6 DEF Regional
<1> QED BY <1>5, <1>6

\* A line of an open region is nowhere else.
LEMMA OpenNowhere ==
    ASSUME Typed, Regional, NEW i \in 1 .. Len(lines), InOpenRegion(i)
    PROVE  NodesAt(nodes, i) = {}
<1>1. inXs /\ xsStart <= i /\ Len(lines) \in Nat
  BY TypedFacts DEF InOpenRegion
<1>2. xsStart \in Nat
  BY DEF Typed, TypeOK
<1>3. ASSUME NEW n \in DOMAIN nodes PROVE nodes[n].start # i /\ i \notin ToSet(nodes[n].attrs)
  <2>1. nodes[n].start < xsStart /\ \A l \in ToSet(nodes[n].attrs) : l < xsStart
    BY <1>1 DEF Regional
  <2>2. nodes[n] \in NodeRecords
    BY TypedFacts
  <2>3. nodes[n].start \in Nat
    BY <2>2 DEF NodeRecords
  <2> QED BY <1>1, <1>2, <2>1, <2>3
<1> QED BY <1>3 DEF NodesAt

LEMMA LineKept ==
    ASSUME Typed, Dated, Regional, Placed, NEW w, Effect(w), Typed'
    PROVE  (Dated /\ Regional /\ Placed)'
<1>1. /\ lines' = Append(lines, w) /\ NodesEffect(w) /\ RegionEffect(w)
      /\ Len(lines) \in Nat /\ here = Len(lines) + 1
  BY TypedFacts DEF Effect
<1>2. /\ Len(lines') = here /\ here' = here + 1 /\ lines'[here] = w
      /\ \A i \in 1 .. Len(lines) : lines'[i] = lines[i]
      /\ 1 .. here = 1 .. Len(lines) \cup {here}
  <2>1. lines \in Seq(Words) /\ w \in Words
    BY DEF Typed, TypeOK, Effect
  <2>2. Len(lines') = Len(lines) + 1
    BY <1>1, <2>1
  <2> QED BY <1>1, <2>1, <2>2 DEF here
<1>3. Dated'
  BY <1>1, <1>2, NodesPlaced DEF Dated
<1>4. CASE UNCHANGED xs /\ w \notin Headers \cup Directives
  <2>1. inXs' = inXs /\ xsStart' = xsStart /\ xsBlocks' = xsBlocks
    BY Zenon, <1>4 DEF xs
  <2>2. Regional'
    <3>1. ASSUME inXs, NEW n \in DOMAIN nodes'
          PROVE  nodes'[n].start < xsStart' /\ \A l \in ToSet(nodes'[n].attrs) : l < xsStart'
      <4>1. SameNodes(nodes')
        BY <1>1, <1>4, <3>1, NodesPlaced
      <4>2. n \in DOMAIN nodes /\ Alike(nodes'[n], nodes[n])
        BY <4>1, TypedFacts DEF SameNodes
      <4> QED BY <2>1, <3>1, <4>2 DEF Regional, Alike
    <3>2. CASE inXs
      BY <2>1, <3>1, <3>2 DEF Regional
    <3>3. CASE ~inXs
      <4>1. \A b \in DOMAIN xsBlocks : xsBlocks[b].end <= here + 1
        BY <1>1, BlocksBefore
      <4> QED BY <1>2, <2>1, <3>3, <4>1 DEF Regional
    <3> QED BY <3>2, <3>3
  <2>3. ASSUME NEW i \in 1 .. Len(lines), lines[i] \in Said, ~(inXs /\ xsStart <= i)
        PROVE  Once(NodesAt(nodes', i), Over(xsBlocks', i))
    <3>1. Once(NodesAt(nodes, i), Over(xsBlocks, i))
      BY <2>3 DEF Placed, InOpenRegion
    <3> QED BY <1>1, <2>1, <3>1, NodesPlaced
  <2>4. ASSUME w \in Said, ~(inXs /\ xsStart <= here)
        PROVE  Once(NodesAt(nodes', here), Over(xsBlocks', here))
    <3>1. ~inXs
      BY <1>1, <2>4, BlocksBefore
    <3>2. \E n : NodesAt(nodes', here) = {n}
      BY <1>1, <2>4, <3>1, NodesPlaced
    <3>3. Over(xsBlocks', here) = {}
      BY <1>1, <2>1, BlocksBefore DEF Over
    <3> QED BY <3>2, <3>3 DEF Once
  <2>5. Placed'
    BY <1>2, <2>1, <2>3, <2>4 DEF Placed, InOpenRegion
  <2> QED BY <1>3, <2>2, <2>5
<1>5. CASE /\ w \in Headers \cup Directives /\ xsBlocks' = endXsBlock(here)
           /\ inXs' => xsStart' = here + 1 /\ w \notin Said
  <2>1. \A b \in DOMAIN xsBlocks' : xsBlocks'[b].end <= here
    BY <1>5, RegionPlaced
  <2>2. \A b \in DOMAIN xsBlocks' : xsBlocks'[b].end \in Nat
    <3>1. xsBlocks' \in Seq(Blocks)
      BY <1>5, BlocksTyped
    <3>2. \A b \in DOMAIN xsBlocks' : xsBlocks'[b] \in Blocks
      BY <3>1
    <3> QED BY <3>2 DEF Blocks
  <2>3. ~(inXs' /\ xsStart' <= here)
    BY <1>1, <1>5
  <2>4. Regional'
    <3>1. \A b \in DOMAIN xsBlocks' : xsBlocks'[b].end <= here + 1
      BY <1>1, <2>1, <2>2
    <3>2. ASSUME inXs', NEW n \in DOMAIN nodes'
          PROVE  nodes'[n].start < xsStart' /\ \A l \in ToSet(nodes'[n].attrs) : l < xsStart'
      <4>1. xsStart' = here + 1
        BY <1>5, <3>2
      <4>2. nodes'[n].start <= here /\ \A l \in ToSet(nodes'[n].attrs) : l <= here
        BY <1>1, NodesPlaced
      <4>3. nodes' \in Seq(NodeRecords)
        BY <1>1 DEF NodesEffect, SameNodes, AddsNode, AddsAttribute
      <4>4. nodes'[n] \in NodeRecords
        BY <4>3
      <4>5. nodes'[n].start \in Nat /\ nodes'[n].attrs \in Seq(Nat)
        BY <4>4 DEF NodeRecords
      <4>6. \A l \in ToSet(nodes'[n].attrs) : l \in Nat
        BY <4>5 DEF ToSet
      <4> QED BY <1>1, <4>1, <4>2, <4>5, <4>6
    <3> QED BY <1>2, <1>5, <3>1, <3>2 DEF Regional
  <2>5. ASSUME NEW i \in 1 .. Len(lines), lines[i] \in Said
        PROVE  Once(NodesAt(nodes', i), Over(xsBlocks', i))
    <3>1. NodesAt(nodes', i) = NodesAt(nodes, i)
      BY <1>1, NodesPlaced
    <3>2. CASE InOpenRegion(i)
      <4>1. lines[i] # "blank"
        BY <2>5 DEF Said, Statements
      <4>2. \E b : Over(xsBlocks', i) = {b}
        BY <1>5, <3>2, <4>1, RegionPlaced
      <4> QED BY <3>1, <3>2, <4>2, OpenNowhere DEF Once
    <3>3. CASE ~InOpenRegion(i)
      <4>1. Over(xsBlocks', i) = Over(xsBlocks, i)
        BY <1>5, <3>3, RegionPlaced
      <4> QED BY <2>5, <3>1, <3>3, <4>1 DEF Placed
    <3> QED BY <3>2, <3>3
  <2>6. ASSUME w \in Said PROVE Once(NodesAt(nodes', here), Over(xsBlocks', here))
    <3>1. w = "#const"
      BY <1>5, <2>6 DEF Said, Statements, Headers, Directives
    <3>2. \E n : NodesAt(nodes', here) = {n}
      BY <1>1, <2>6, <3>1, NodesPlaced
    <3>3. Over(xsBlocks', here) = {}
      BY <1>1, <2>1, <2>2 DEF Over
    <3> QED BY <3>2, <3>3 DEF Once
  <2>7. Placed'
    BY <1>2, <2>5, <2>6 DEF Placed
  <2> QED BY <1>3, <2>4, <2>7
<1> QED BY Zenon, <1>1, <1>4, <1>5 DEF RegionEffect

\* The end of the file closes the last region and moves nothing.
LEMMA CloseKept ==
    ASSUME Typed, Dated, Regional, Placed, closeAll
    PROVE  (Dated /\ Regional /\ Placed)'
<1>1. /\ SameNodes(nodes') /\ lines' = lines /\ ~inXs'
      /\ xsBlocks' = endXsBlock(here)
  BY CloseTyped
<1>2. here' = here
  BY <1>1 DEF here
<1>3. /\ DOMAIN nodes' = DOMAIN nodes
      /\ \A n \in DOMAIN nodes :
           nodes'[n].start = nodes[n].start /\ nodes'[n].attrs = nodes[n].attrs
  BY <1>1, TypedFacts DEF SameNodes, Alike
<1>4. Dated'
  BY <1>1, <1>3 DEF Dated
<1>5. Regional'
  BY <1>1, <1>2, RegionPlaced DEF Regional
<1>6. ASSUME NEW i \in 1 .. Len(lines), lines[i] \in Said
      PROVE  Once(NodesAt(nodes', i), Over(xsBlocks', i))
  <2>1. NodesAt(nodes', i) = NodesAt(nodes, i)
    BY <1>3 DEF NodesAt
  <2>2. CASE InOpenRegion(i)
    <3>1. lines[i] # "blank"
      BY <1>6 DEF Said, Statements
    <3>2. \E b : Over(xsBlocks', i) = {b}
      BY <1>1, <2>2, <3>1, RegionPlaced
    <3> QED BY <2>1, <2>2, <3>2, OpenNowhere DEF Once
  <2>3. CASE ~InOpenRegion(i)
    <3>1. Over(xsBlocks', i) = Over(xsBlocks, i)
      BY <1>1, <2>3, RegionPlaced
    <3> QED BY <1>6, <2>1, <2>3, <3>1 DEF Placed
  <2> QED BY <2>2, <2>3
<1>7. Placed'
  BY <1>1, <1>6 DEF Placed
<1> QED BY <1>4, <1>5, <1>7

LEMMA InitKept == Init => LinesInv
<1> SUFFICES ASSUME Init PROVE LinesInv
  OBVIOUS
<1>1. lines = <<>> /\ nodes = <<>> /\ xsBlocks = <<>>
  BY DEF Init
<1>2. ~inXs
  BY Zenon DEF Init
<1>3. Dated /\ Regional /\ Placed
  BY <1>1, <1>2 DEF Dated, Regional, Placed
<1>4. Closed
  BY Zenon, <1>2 DEF Closed
<1> QED BY <1>3, <1>4, InitTyped DEF LinesInv

LEMMA StepKept == LinesInv /\ [Next]_vars => LinesInv'
<1> SUFFICES ASSUME LinesInv, [Next]_vars PROVE LinesInv'
  OBVIOUS
<1>0. Typed /\ Dated /\ Regional /\ Placed /\ Closed
  BY DEF LinesInv
<1>1. ASSUME NEW w, Line(w) PROVE LinesInv'
  <2>1. Effect(w) /\ Typed'
    BY <1>0, <1>1, LineEffect, LineOthers, EffectTyped
  <2>2. Dated' /\ Regional' /\ Placed'
    BY <1>0, <2>1, LineKept
  <2>3. Closed'
    BY Zenon, <2>1 DEF Effect, Closed
  <2> QED BY <2>1, <2>2, <2>3 DEF LinesInv
<1>2. CASE closeAll
  <2>1. Typed' /\ ~inXs'
    BY <1>0, <1>2, CloseTyped
  <2>2. Dated' /\ Regional' /\ Placed'
    BY <1>0, <1>2, CloseKept
  <2>3. Closed'
    BY <2>1 DEF Closed
  <2> QED BY <2>1, <2>2, <2>3 DEF LinesInv
<1>3. CASE UNCHANGED vars
  <2>1. Typed'
    BY <1>0, <1>3, StepTyped
  <2>2. lines' = lines /\ nodes' = nodes /\ UNCHANGED xs /\ done' = done
    BY Zenon, <1>3 DEF vars, tree
  <2>3. Dated' /\ Regional' /\ Placed' /\ Closed'
    BY Zenon, <1>0, <2>2
       DEF Dated, Regional, Placed, Closed, InOpenRegion, xs, here
  <2> QED BY <2>1, <2>3 DEF LinesInv
<1> QED BY <1>1, <1>2, <1>3 DEF Next

\* Whatever the vocabulary and the order of the lines, at the end of the file
\* every line that says something is in exactly one place: the recovery from
\* unclosed blocks, stray closers and regions cut off by a header or a directive
\* loses no line and keeps none twice (run, statementLine and endXsBlock,
\* parse.go:93-144, 216-264, 834-846).
THEOREM LinesKeptHolds == Spec => []LinesKept
<1>1. LinesInv => LinesKept
  <2> SUFFICES ASSUME LinesInv, done, NEW i \in DOMAIN lines, lines[i] \in Said
               PROVE  Cardinality(Places(i).nodes) + Cardinality(Places(i).blocks) = 1
    BY DEF LinesKept, Said
  <2>1. DOMAIN lines = 1 .. Len(lines)
    BY DEF LinesInv, Typed, TypeOK
  <2>2. ~InOpenRegion(i)
    BY DEF LinesInv, Closed, InOpenRegion
  <2>3. Once(NodesAt(nodes, i), Over(xsBlocks, i))
    BY <2>1, <2>2 DEF LinesInv, Placed
  <2>4. Places(i).nodes = NodesAt(nodes, i) /\ Places(i).blocks = Over(xsBlocks, i)
    BY DEF Places, NodesAt, Over
  <2>5. Cardinality({}) = 0 /\ \A n : Cardinality({n}) = 1
    BY FS_EmptySet, FS_Singleton
  <2>6. CASE \E n : NodesAt(nodes, i) = {n} /\ Over(xsBlocks, i) = {}
    <3>1. Cardinality(NodesAt(nodes, i)) = 1 /\ Cardinality(Over(xsBlocks, i)) = 0
      BY <2>5, <2>6
    <3> QED BY <2>4, <3>1
  <2>7. CASE \E b : NodesAt(nodes, i) = {} /\ Over(xsBlocks, i) = {b}
    <3>1. Cardinality(NodesAt(nodes, i)) = 0 /\ Cardinality(Over(xsBlocks, i)) = 1
      BY <2>5, <2>7
    <3> QED BY <2>4, <3>1
  <2> QED BY <2>3, <2>6, <2>7 DEF Once
<1> QED BY <1>1, InitKept, StepKept, PTL DEF Spec

------------------------------------------------------------------------------
(* Attributes and their commands *)

\* No header and no command was read after node n, among these nodes and lines.
Latest(ns, ls, n) == n # 0 =>
    /\ \A i \in ns[n].start + 1 .. Len(ls) : ls[i] \notin Headers
    /\ \A m \in DOMAIN ns : ns[m].name \in Statements => ns[m].start <= ns[n].start

\* The attributes of node n are its own.
Follows(ns, ls, n) ==
    \A l \in ToSet(ns[n].attrs) :
        /\ \A i \in ns[n].start + 1 .. l : ls[i] \notin Headers
        /\ \A m \in DOMAIN ns :
              ns[m].name \in Statements => ~(ns[n].start < ns[m].start /\ ns[m].start < l)

FollowInv ==
    /\ Typed /\ Dated /\ Latest(nodes, lines, owner) /\ Latest(nodes, lines, lastCmd)
    /\ \A n \in DOMAIN nodes : Follows(nodes, lines, n)


\* A line that is no header and adds no command leaves the latest node latest.
LEMMA LatestStays ==
    ASSUME Typed, Dated, NEW w, w \in Words \ Headers, lines' = Append(lines, w),
           NEW n \in {0} \cup DOMAIN nodes, Latest(nodes, lines, n),
           \/ SameNodes(nodes') \/ \E t : AddsAttribute(nodes', t)
           \/ AddsNode(nodes', w) /\ w \notin Statements
    PROVE  Latest(nodes', lines', n)
<1> SUFFICES ASSUME n # 0
             PROVE  /\ \A i \in nodes'[n].start + 1 .. Len(lines') : lines'[i] \notin Headers
                    /\ \A m \in DOMAIN nodes' :
                         nodes'[m].name \in Statements => nodes'[m].start <= nodes'[n].start
  BY DEF Latest
<1>1. /\ n \in 1 .. Len(nodes) /\ DOMAIN nodes = 1 .. Len(nodes) /\ Len(nodes) \in Nat
      /\ Len(lines) \in Nat /\ nodes[n].start \in Nat
      /\ \A i \in nodes[n].start + 1 .. Len(lines) : lines[i] \notin Headers
      /\ \A m \in 1 .. Len(nodes) :
           nodes[m].name \in Statements => nodes[m].start <= nodes[n].start
  BY DatedFacts DEF Latest
<1>2. /\ Len(lines') = Len(lines) + 1 /\ lines'[Len(lines) + 1] = w
      /\ \A i \in 1 .. Len(lines) : lines'[i] = lines[i]
  <2>1. lines \in Seq(Words) /\ w \in Words
    BY DEF Typed, TypeOK
  <2> QED BY <2>1
<1>3. /\ \A m \in 1 .. Len(nodes) :
           nodes'[m].name = nodes[m].name /\ nodes'[m].start = nodes[m].start
      /\ \A m \in DOMAIN nodes' \ 1 .. Len(nodes) : nodes'[m].name \notin Statements
  <2>1. CASE SameNodes(nodes')
    BY <1>1, <2>1 DEF SameNodes, Alike
  <2>2. CASE \E t : AddsAttribute(nodes', t)
    BY <1>1, <2>2 DEF AddsAttribute
  <2>3. CASE AddsNode(nodes', w) /\ w \notin Statements
    <3>1. /\ DOMAIN nodes' = 1 .. Len(nodes) + 1
          /\ nodes'[Len(nodes) + 1].name = w
          /\ \A m \in 1 .. Len(nodes) : Alike(nodes'[m], nodes[m])
      BY <1>1, <2>3 DEF AddsNode
    <3>2. \A m \in DOMAIN nodes' \ 1 .. Len(nodes) : m = Len(nodes) + 1
      BY <1>1, <3>1
    <3> QED BY <2>3, <3>1, <3>2 DEF Alike
  <2> QED BY <2>1, <2>2, <2>3
<1>4. ASSUME NEW i \in nodes'[n].start + 1 .. Len(lines') PROVE lines'[i] \notin Headers
  <2>1. i \in nodes[n].start + 1 .. Len(lines) + 1
    BY <1>1, <1>2, <1>3
  <2>2. CASE i = Len(lines) + 1
    BY <1>2, <2>2
  <2>3. CASE i # Len(lines) + 1
    BY <1>1, <1>2, <2>1, <2>3
  <2> QED BY <2>2, <2>3
<1>5. ASSUME NEW m \in DOMAIN nodes', nodes'[m].name \in Statements
      PROVE  nodes'[m].start <= nodes'[n].start
  BY <1>1, <1>3, <1>5
<1> QED BY <1>4, <1>5

\* A new node is the latest.
LEMMA LatestNew ==
    ASSUME Typed, Dated, NEW w \in Words, lines' = Append(lines, w), AddsNode(nodes', w)
    PROVE  Latest(nodes', lines', Len(nodes) + 1)
<1>1. /\ DOMAIN nodes = 1 .. Len(nodes) /\ Len(nodes) \in Nat /\ Len(lines) \in Nat
      /\ here = Len(lines) + 1
      /\ \A m \in 1 .. Len(nodes) : nodes[m].start \in 0 .. Len(lines)
  BY DatedFacts
<1>2. Len(lines') = here
  <2>1. lines \in Seq(Words)
    BY DEF Typed, TypeOK
  <2> QED BY <1>1, <2>1
<1>3. /\ DOMAIN nodes' = 1 .. Len(nodes) + 1 /\ nodes'[Len(nodes) + 1].start = here
      /\ \A m \in 1 .. Len(nodes) : nodes'[m].start = nodes[m].start
  BY <1>1 DEF AddsNode, Alike
<1>4. \A m \in DOMAIN nodes' : nodes'[m].start <= here
  BY <1>1, <1>3
<1>5. here + 1 .. here = {}
  BY <1>1
<1> QED BY <1>2, <1>3, <1>4, <1>5 DEF Latest

\* What a line adds follows its command.
LEMMA FollowsStays ==
    ASSUME FollowInv, NEW w, Effect(w)
    PROVE  \A n \in DOMAIN nodes' : Follows(nodes', lines', n)
<1>1. /\ DOMAIN nodes = 1 .. Len(nodes) /\ Len(nodes) \in Nat /\ Len(lines) \in Nat
      /\ here = Len(lines) + 1
      /\ \A n \in 1 .. Len(nodes) : nodes[n].start \in 0 .. Len(lines)
      /\ \A n \in 1 .. Len(nodes) : \A l \in ToSet(nodes[n].attrs) : l \in 0 .. Len(lines)
  BY DatedFacts DEF FollowInv
<1>2. /\ lines'[here] = w
      /\ \A i \in 1 .. Len(lines) : lines'[i] = lines[i]
  <2>1. lines \in Seq(Words) /\ w \in Words /\ lines' = Append(lines, w)
    BY DEF FollowInv, Typed, TypeOK, Effect
  <2> QED BY <1>1, <2>1
<1>3. /\ \/ DOMAIN nodes' = 1 .. Len(nodes)
         \/ /\ DOMAIN nodes' = 1 .. Len(nodes) + 1
            /\ nodes'[Len(nodes) + 1].start = here
      /\ \A n \in 1 .. Len(nodes) :
           nodes'[n].name = nodes[n].name /\ nodes'[n].start = nodes[n].start
  <2>1. CASE SameNodes(nodes')
    BY <1>1, <2>1 DEF SameNodes, Alike
  <2>2. CASE AddsNode(nodes', w)
    BY <1>1, <2>2 DEF AddsNode, Alike
  <2>3. CASE \E t : AddsAttribute(nodes', t)
    BY <1>1, <2>3 DEF AddsAttribute
  <2> QED BY <2>1, <2>2, <2>3 DEF Effect, NodesEffect
<1>4. \A m \in DOMAIN nodes' \ 1 .. Len(nodes) : m = Len(nodes) + 1 /\ nodes'[m].start = here
  BY <1>1, <1>3
\* An attribute it had keeps its command: what is new comes after it.
<1>5. ASSUME NEW n \in 1 .. Len(nodes), NEW l \in ToSet(nodes[n].attrs)
      PROVE  /\ \A i \in nodes'[n].start + 1 .. l : lines'[i] \notin Headers
             /\ \A m \in DOMAIN nodes' : nodes'[m].name \in Statements =>
                  ~(nodes'[n].start < nodes'[m].start /\ nodes'[m].start < l)
  <2>1. /\ \A i \in nodes[n].start + 1 .. l : lines[i] \notin Headers
        /\ \A m \in 1 .. Len(nodes) : nodes[m].name \in Statements =>
             ~(nodes[n].start < nodes[m].start /\ nodes[m].start < l)
    BY <1>1 DEF FollowInv, Follows
  <2>2. l \in 0 .. Len(lines) /\ nodes[n].start \in 0 .. Len(lines)
    BY <1>1
  <2>3. \A i \in nodes'[n].start + 1 .. l : lines'[i] \notin Headers
    BY <1>1, <1>2, <1>3, <2>1, <2>2
  <2>4. ASSUME NEW m \in DOMAIN nodes', nodes'[m].name \in Statements
        PROVE  ~(nodes'[n].start < nodes'[m].start /\ nodes'[m].start < l)
    <3>1. CASE m \in 1 .. Len(nodes)
      BY <1>3, <2>1, <2>4, <3>1
    <3>2. CASE m \notin 1 .. Len(nodes)
      BY <1>1, <1>4, <2>2, <3>2
    <3> QED BY <3>1, <3>2
  <2> QED BY <2>3, <2>4
<1>6. ASSUME NEW n \in 1 .. Len(nodes), nodes'[n].attrs = nodes[n].attrs
      PROVE  Follows(nodes', lines', n)
  BY <1>5, <1>6 DEF Follows
<1>7. CASE SameNodes(nodes')
  <2>1. DOMAIN nodes' = 1 .. Len(nodes)
        /\ \A n \in 1 .. Len(nodes) : nodes'[n].attrs = nodes[n].attrs
    BY <1>1, <1>7 DEF SameNodes, Alike
  <2> QED BY <1>6, <2>1
<1>8. CASE AddsNode(nodes', w)
  <2>1. /\ DOMAIN nodes' = 1 .. Len(nodes) + 1
        /\ \A n \in 1 .. Len(nodes) : nodes'[n].attrs = nodes[n].attrs
        /\ nodes'[Len(nodes) + 1].start = here
        /\ ToSet(nodes'[Len(nodes) + 1].attrs) \subseteq {here}
        /\ \A n \in 1 .. Len(nodes) : nodes'[n].start = nodes[n].start
    BY <1>1, <1>8 DEF AddsNode, Alike
  <2>2. \A m \in DOMAIN nodes' : nodes'[m].start <= here
    BY <1>1, <2>1
  <2>3. here + 1 .. here = {} /\ \A m \in DOMAIN nodes' : ~(here < nodes'[m].start)
    BY <1>1, <2>1, <2>2
  <2>4. Follows(nodes', lines', Len(nodes) + 1)
    BY <2>1, <2>3 DEF Follows
  <2>5. \A n \in DOMAIN nodes' \ {Len(nodes) + 1} : n \in 1 .. Len(nodes)
    BY <1>1, <2>1
  <2> QED BY <1>6, <2>1, <2>4, <2>5
<1>9. CASE w \in Statements /\ \E t \in {owner, lastCmd} \ {0} : AddsAttribute(nodes', t)
  <2>1. PICK t \in {owner, lastCmd} \ {0} : AddsAttribute(nodes', t)
    BY <1>9
  <2>2. /\ DOMAIN nodes' = 1 .. Len(nodes) /\ t \in 1 .. Len(nodes)
        /\ \A n \in 1 .. Len(nodes) : n # t => nodes'[n].attrs = nodes[n].attrs
        /\ ToSet(nodes'[t].attrs) = ToSet(nodes[t].attrs) \cup {here}
    BY <1>1, <2>1 DEF AddsAttribute
  <2>3. /\ \A i \in nodes[t].start + 1 .. Len(lines) : lines[i] \notin Headers
        /\ \A m \in 1 .. Len(nodes) :
             nodes[m].name \in Statements => nodes[m].start <= nodes[t].start
    BY <1>1, <2>1 DEF FollowInv, Latest
  <2>4. w \notin Headers
    BY <1>9 DEF Statements, Headers
  <2>5. ASSUME NEW i \in nodes'[t].start + 1 .. here PROVE lines'[i] \notin Headers
    <3>1. i \in nodes[t].start + 1 .. here
      BY <1>3, <2>2
    <3>2. CASE i = here
      BY <1>2, <2>4, <3>2
    <3>3. CASE i # here
      BY <1>1, <1>2, <2>2, <2>3, <3>1, <3>3
    <3> QED BY <3>2, <3>3
  <2>6. ASSUME NEW m \in DOMAIN nodes', nodes'[m].name \in Statements
        PROVE  ~(nodes'[t].start < nodes'[m].start)
    <3>1. m \in 1 .. Len(nodes) /\ nodes[m].name \in Statements
      BY <1>3, <2>2, <2>6
    <3>2. nodes[m].start <= nodes[t].start
      BY <2>3, <3>1
    <3> QED BY <1>1, <1>3, <2>2, <3>1, <3>2
  <2>7. Follows(nodes', lines', t)
    <3>1. ASSUME NEW l \in ToSet(nodes'[t].attrs)
          PROVE  /\ \A i \in nodes'[t].start + 1 .. l : lines'[i] \notin Headers
                 /\ \A m \in DOMAIN nodes' : nodes'[m].name \in Statements =>
                      ~(nodes'[t].start < nodes'[m].start /\ nodes'[m].start < l)
      <4>1. CASE l \in ToSet(nodes[t].attrs)
        BY <1>5, <2>2, <4>1
      <4>2. CASE l = here
        BY <2>5, <2>6, <4>2
      <4> QED BY <2>2, <3>1, <4>1, <4>2
    <3> QED BY <3>1 DEF Follows
  <2> QED BY <1>6, <2>2, <2>7
<1> QED BY <1>7, <1>8, <1>9 DEF Effect, NodesEffect

LEMMA FollowStep ==
    ASSUME FollowInv, NEW w, Effect(w), Typed', Dated'
    PROVE  FollowInv'
<1>1. /\ w \in Words /\ lines' = Append(lines, w) /\ NodesEffect(w) /\ CommandEffect(w)
      /\ Typed /\ Dated
  BY DEF Effect, FollowInv
<1>2. /\ owner \in {0} \cup DOMAIN nodes /\ Latest(nodes, lines, owner)
      /\ lastCmd \in {0} \cup DOMAIN nodes /\ Latest(nodes, lines, lastCmd)
  BY DEF FollowInv, Typed, TypeOK
<1>3. Latest(nodes', lines', 0)
  BY DEF Latest
<1>4. AddsNode(nodes', w) => Latest(nodes', lines', Len(nodes) + 1)
  BY <1>1, LatestNew
<1>5. Latest(nodes', lines', lastCmd') /\ Latest(nodes', lines', owner')
  <2>1. CASE w \in Headers
    BY <1>1, <1>3, <2>1 DEF CommandEffect
  <2>2. CASE AddsNode(nodes', w) /\ w \in Statements
    <3>1. SameNodes(nodes') => FALSE
      BY <2>2, TypedFacts, <1>1 DEF AddsNode, SameNodes
    <3>2. \A t : AddsAttribute(nodes', t) => FALSE
      BY <2>2, TypedFacts, <1>1 DEF AddsNode, AddsAttribute
    <3>3. lastCmd' = Len(nodes) + 1 /\ owner' \in {0, Len(nodes) + 1}
      BY <1>1, <2>2, <3>1, <3>2 DEF NodesEffect, Said
    <3> QED BY <1>3, <1>4, <2>2, <3>3
  <2>3. CASE w \notin Headers /\ ~(AddsNode(nodes', w) /\ w \in Statements)
    <3>1. \/ SameNodes(nodes') \/ \E t : AddsAttribute(nodes', t)
          \/ AddsNode(nodes', w) /\ w \notin Statements
      BY <1>1, <2>3 DEF NodesEffect
    <3>2. Latest(nodes', lines', owner) /\ Latest(nodes', lines', lastCmd)
      BY <1>1, <1>2, <2>3, <3>1, LatestStays
    <3>3. Latest(nodes', lines', lastCmd')
      BY <1>1, <1>3, <1>4, <3>2 DEF CommandEffect
    <3> QED BY <1>1, <1>3, <3>2, <3>3 DEF CommandEffect
  <2> QED BY <2>1, <2>2, <2>3
<1>6. \A n \in DOMAIN nodes' : Follows(nodes', lines', n)
  BY FollowsStays
<1> QED BY <1>5, <1>6 DEF FollowInv

\* In every file, wherever braces, sections, conditions and regions cross, an
\* attribute is kept by the command it is written after: no other command and no
\* section header stands between them (implicitAttrTarget, openBrace and
\* closeSection, parse.go:263-290, 520-560, 784-794).
THEOREM AttributesFollowTheirCommandHolds == Spec => []AttributesFollowTheirCommand
<1>1. Init => FollowInv
  <2> SUFFICES ASSUME Init PROVE FollowInv
    OBVIOUS
  <2>1. Typed /\ Dated
    BY InitKept DEF LinesInv
  <2>2. nodes = <<>> /\ owner = 0 /\ lastCmd = 0
    BY DEF Init
  <2> QED BY <2>1, <2>2 DEF FollowInv, Latest
<1>2. FollowInv /\ LinesInv' /\ [Next]_vars => FollowInv'
  <2> SUFFICES ASSUME FollowInv, LinesInv', [Next]_vars PROVE FollowInv'
    OBVIOUS
  <2>0. Typed' /\ Dated' /\ Typed
    BY DEF LinesInv, FollowInv
  <2>1. ASSUME NEW w, Line(w) PROVE FollowInv'
    BY <2>0, <2>1, LineEffect, FollowStep
  <2>2. CASE closeAll
    <3>1. /\ SameNodes(nodes') /\ lines' = lines /\ owner' = 0 /\ lastCmd' = lastCmd
      BY <2>0, <2>2, CloseTyped
    <3>2. /\ DOMAIN nodes' = DOMAIN nodes
          /\ \A n \in DOMAIN nodes : Alike(nodes'[n], nodes[n])
      BY <2>0, <3>1, TypedFacts DEF SameNodes
    <3>3. lastCmd \in {0} \cup DOMAIN nodes
      BY <2>0 DEF Typed, TypeOK
    <3>4. Latest(nodes', lines', owner') /\ Latest(nodes', lines', lastCmd')
      BY <3>1, <3>2, <3>3 DEF FollowInv, Latest, Alike
    <3>5. \A n \in DOMAIN nodes' : Follows(nodes', lines', n)
      BY <3>1, <3>2 DEF FollowInv, Follows, Alike
    <3> QED BY <2>0, <3>4, <3>5 DEF FollowInv
  <2>3. CASE UNCHANGED vars
    <3>1. nodes' = nodes /\ lines' = lines /\ owner' = owner /\ lastCmd' = lastCmd
      BY Zenon, <2>3 DEF vars, tree
    <3> QED BY Zenon, <2>0, <3>1 DEF FollowInv
  <2> QED BY <2>1, <2>2, <2>3 DEF Next
<1>3. FollowInv => AttributesFollowTheirCommand
  BY DEF FollowInv, Follows, AttributesFollowTheirCommand
<1> QED BY <1>1, <1>2, <1>3, InitKept, StepKept, PTL DEF Spec

------------------------------------------------------------------------------
(* The shape of the tree *)

\* The nodes stay where they are in the tree.
InPlace(ns) ==
    \A n \in 1 .. Len(nodes) :
        /\ ns[n].parent = nodes[n].parent
        /\ ns[n].sect = nodes[n].sect /\ ns[n].start = nodes[n].start

\* A step closes scopes, and may add a node in the scope that is left.
TreeEffect ==
    /\ cur' \in {cur, cur + 1}
    /\ InPlace(nodes')
    /\ \E k \in 0 .. Len(scopes) :
         \/ Len(nodes') = Len(nodes) /\ scopes' = SubSeq(scopes, 1, k)
         \/ /\ Len(nodes') = Len(nodes) + 1 /\ cur' = cur
            /\ LET new == nodes'[Len(nodes) + 1]
               IN /\ new.parent = IF k = 0 THEN 0 ELSE scopes[k]
                  /\ new.sect = cur /\ new.start = here
            /\ \/ scopes' = SubSeq(scopes, 1, k)
               \/ scopes' = Append(SubSeq(scopes, 1, k), Len(nodes) + 1)

LEMMA ScopesWhole ==
    ASSUME Typed
    PROVE  Len(scopes) \in 0 .. Len(scopes) /\ SubSeq(scopes, 1, Len(scopes)) = scopes
<1>1. scopes \in Seq(1 .. Len(nodes)) /\ Len(scopes) \in Nat
  BY TypedFacts DEF Typed, TypeOK
<1> QED BY <1>1, SubSeqFull

\* A step that changes no place of the tree and no scope.
LEMMA InPlaceEffect ==
    ASSUME Typed, cur' \in {cur, cur + 1}, scopes' = scopes,
           Len(nodes') = Len(nodes), InPlace(nodes')
    PROVE  TreeEffect
BY ScopesWhole DEF TreeEffect

LEMMA ExceptInPlace ==
    ASSUME Typed, NEW n \in 1 .. Len(nodes)
    PROVE  /\ InPlace([nodes EXCEPT ![n].end = here])
           /\ Len([nodes EXCEPT ![n].end = here]) = Len(nodes)
           /\ InPlace([nodes EXCEPT ![n].attrs = Append(@, here), ![n].end = here])
           /\ Len([nodes EXCEPT ![n].attrs = Append(@, here), ![n].end = here]) = Len(nodes)
<1>1. nodes \in Seq(NodeRecords) /\ DOMAIN nodes = 1 .. Len(nodes) /\ Len(nodes) \in Nat
      /\ \A m \in 1 .. Len(nodes) : nodes[m] \in NodeRecords
  BY TypedFacts
<1>2. ASSUME NEW rec, rec.parent = nodes[n].parent, rec.sect = nodes[n].sect, rec.start = nodes[n].start
      PROVE  InPlace([nodes EXCEPT ![n] = rec]) /\ Len([nodes EXCEPT ![n] = rec]) = Len(nodes)
  <2>1. \A m \in 1 .. Len(nodes) : [nodes EXCEPT ![n] = rec][m] = IF m = n THEN rec ELSE nodes[m]
    BY <1>1
  <2>2. Len([nodes EXCEPT ![n] = rec]) = Len(nodes)
    <3>1. DOMAIN [nodes EXCEPT ![n] = rec] = 1 .. Len(nodes)
      BY <1>1
    <3> QED BY <1>1, <3>1
  <2> QED BY <1>2, <2>1, <2>2 DEF InPlace
<1>3. PICK r1, r2 : /\ r1 = [nodes[n] EXCEPT !.end = here]
                    /\ r2 = [nodes[n] EXCEPT !.attrs = Append(@, here), !.end = here]
  OBVIOUS
<1>4. /\ r1.parent = nodes[n].parent /\ r1.sect = nodes[n].sect /\ r1.start = nodes[n].start
      /\ r2.parent = nodes[n].parent /\ r2.sect = nodes[n].sect /\ r2.start = nodes[n].start
  BY <1>1, <1>3 DEF NodeRecords
<1>5. /\ [nodes EXCEPT ![n].end = here] = [nodes EXCEPT ![n] = r1]
      /\ [nodes EXCEPT ![n].attrs = Append(@, here), ![n].end = here] = [nodes EXCEPT ![n] = r2]
  BY <1>1, <1>3
<1>6. /\ InPlace([nodes EXCEPT ![n] = r1]) /\ Len([nodes EXCEPT ![n] = r1]) = Len(nodes)
      /\ InPlace([nodes EXCEPT ![n] = r2]) /\ Len([nodes EXCEPT ![n] = r2]) = Len(nodes)
  BY <1>2, <1>4
<1> QED BY <1>5, <1>6

\* The end of a scope moves and nothing else.
LEMMA SettledInPlace ==
    ASSUME Typed
    PROVE  /\ \A kept : InPlace(Settled(kept)) /\ Len(Settled(kept)) = Len(nodes)
           /\ InPlace(ClosedNodes) /\ Len(ClosedNodes) = Len(nodes)
<1>1. ASSUME NEW n \in 1 .. Len(nodes), NEW family, NEW rec, rec \in {nodes[n], finalizeScope(n, family)}
      PROVE  rec.parent = nodes[n].parent /\ rec.sect = nodes[n].sect /\ rec.start = nodes[n].start
  <2>1. nodes[n] \in NodeRecords
    BY TypedFacts
  <2>2. PICK e : finalizeScope(n, family) = [nodes[n] EXCEPT !.end = e]
    BY DEF finalizeScope
  <2> QED BY <1>1, <2>1, <2>2 DEF NodeRecords
<1>2. ASSUME NEW kept PROVE InPlace(Settled(kept)) /\ Len(Settled(kept)) = Len(nodes)
  <2>1. Len(Settled(kept)) = Len(nodes)
    BY SettledKeeps DEF SameNodes
  <2>2. \A n \in 1 .. Len(nodes) : Settled(kept)[n] \in {nodes[n], finalizeScope(n, Households(n))}
    BY TypedFacts DEF Settled
  <2> QED BY <1>1, <2>1, <2>2 DEF InPlace
<1>3. InPlace(ClosedNodes) /\ Len(ClosedNodes) = Len(nodes)
  <2>1. Len(ClosedNodes) = Len(nodes)
    BY ClosedKeeps DEF SameNodes
  <2>2. \A n \in 1 .. Len(nodes) : ClosedNodes[n] \in {nodes[n], finalizeScope(n, Family(n))}
    BY TypedFacts DEF ClosedNodes
  <2> QED BY <1>1, <2>1, <2>2 DEF InPlace
<1> QED BY <1>2, <1>3

LEMMA CommandEffectOnTree ==
    ASSUME Typed, NEW w, commandLine(w), scopes' = scopes, cur' = cur
    PROVE  TreeEffect
<1>1. nodes' = Append(nodes, Node(w)) /\ nodes \in Seq(NodeRecords) /\ Len(nodes) \in Nat
  BY TypedFacts DEF commandLine
<1>2. Len(nodes') = Len(nodes) + 1 /\ nodes'[Len(nodes) + 1] = Node(w)
      /\ \A n \in 1 .. Len(nodes) : nodes'[n] = nodes[n]
  BY <1>1
<1>3. InPlace(nodes')
  BY <1>2 DEF InPlace
<1>4. Node(w).sect = cur /\ Node(w).start = here
      /\ Node(w).parent = IF Len(scopes) = 0 THEN 0 ELSE scopes[Len(scopes)]
  <2>1. scopes = <<>> <=> Len(scopes) = 0
    BY DEF Typed, TypeOK
  <2> QED BY <2>1 DEF Node, Parent, Last
<1> QED BY <1>2, <1>3, <1>4, ScopesWhole DEF TreeEffect

LEMMA OpenEffectOnTree ==
    ASSUME Typed, NEW kept \in 0 .. Len(scopes), NEW w, OpenAfter(kept, w), cur' = cur
    PROVE  TreeEffect
<1> DEFINE outer == SubSeq(scopes, 1, kept)
           new == [Node(w) EXCEPT !.parent = IF kept = 0 THEN 0 ELSE outer[kept]]
<1>1. /\ nodes' = Append(Settled(kept), new) /\ scopes' = Append(outer, Len(nodes) + 1)
  BY DEF OpenAfter
<1>2. Settled(kept) \in Seq(NodeRecords) /\ Len(Settled(kept)) = Len(nodes) /\ InPlace(Settled(kept))
  BY SettledKeeps, SettledInPlace DEF SameNodes
<1> HIDE DEF new
<1>3. Len(nodes') = Len(nodes) + 1 /\ nodes'[Len(nodes) + 1] = new
      /\ \A n \in 1 .. Len(nodes) : nodes'[n] = Settled(kept)[n]
  BY <1>1, <1>2, TypedFacts
<1>4. InPlace(nodes')
  BY <1>2, <1>3 DEF InPlace
<1>5. kept # 0 => outer[kept] = scopes[kept]
  BY TypedFacts DEF Typed, TypeOK
<1>6. new.parent = (IF kept = 0 THEN 0 ELSE scopes[kept]) /\ new.sect = cur /\ new.start = here
  BY <1>5 DEF new, Node
<1> QED BY <1>1, <1>3, <1>4, <1>6 DEF TreeEffect

LEMMA LineOnTree ==
    ASSUME Typed, NEW w, Line(w)
    PROVE  TreeEffect
<1>0. InPlace(nodes)
  BY DEF InPlace
<1>1. CASE Skip(w) \/ includeDirective(w) \/ junkLine(w) \/ openBrace(w) \/ structuralInBrace(w)
  <2>1. nodes' = nodes /\ scopes' = scopes /\ sects' = sects
    BY <1>1 DEF Skip, includeDirective, junkLine, openBrace, structuralInBrace, StatementLine, tree
  <2> QED BY <1>0, <2>1, InPlaceEffect DEF cur
<1>2. CASE closeSection(w)
  <2>1. nodes' = nodes /\ scopes' = scopes
        /\ \E s : sects' = Append([sects EXCEPT ![cur].end = here], s)
    BY <1>2 DEF closeSection
  <2>2. Len(sects') = Len(sects) + 1
    <3>1. [sects EXCEPT ![cur].end = here] \in Seq(Sections) /\ sects \in Seq(Sections)
      BY SectionsTyped DEF Typed, TypeOK, Sections
    <3>2. Len([sects EXCEPT ![cur].end = here]) = Len(sects)
      BY <3>1
    <3> QED BY <2>1, <3>1, <3>2
  <2> QED BY <1>0, <2>1, <2>2, InPlaceEffect DEF cur
<1>3. CASE constDirective(w) \/ commandStatement(w)
  <2>1. commandLine(w) /\ scopes' = scopes /\ sects' = sects
    BY <1>3 DEF constDirective, commandStatement, StatementLine
  <2> QED BY <2>1, CommandEffectOnTree DEF cur
<1>4. CASE closeBrace(w)
  <2>1. /\ scopes' = scopes /\ sects' = sects
        /\ \/ nodes' = nodes
           \/ \E n \in {owner, implicitAttrTarget} \ {0} : nodes' = [nodes EXCEPT ![n].end = here]
    BY <1>4 DEF closeBrace, StatementLine
  <2>2. {owner, implicitAttrTarget} \ {0} \subseteq 1 .. Len(nodes)
    BY TypedFacts, TargetFacts
  <2>3. InPlace(nodes') /\ Len(nodes') = Len(nodes)
    <3>1. CASE nodes' = nodes
      BY <1>0, <3>1
    <3>2. ASSUME NEW n \in 1 .. Len(nodes), nodes' = [nodes EXCEPT ![n].end = here]
          PROVE  InPlace(nodes') /\ Len(nodes') = Len(nodes)
      <4>1. PICK ns : ns = [nodes EXCEPT ![n].end = here]
        OBVIOUS
      <4>2. InPlace(ns) /\ Len(ns) = Len(nodes)
        BY <4>1, ExceptInPlace
      <4> QED BY <3>2, <4>1, <4>2
    <3> QED BY <2>1, <2>2, <3>1, <3>2
  <2> QED BY <2>1, <2>3, InPlaceEffect DEF cur
<1>5. CASE attributeLine(w)
  <2>1. scopes' = scopes /\ sects' = sects /\ \E t \in {owner, implicitAttrTarget} \ {0} : AttributeTo(t)
    BY <1>5 DEF attributeLine, StatementLine
  <2>2. PICK t \in 1 .. Len(nodes) : AttributeTo(t)
    BY <2>1, TypedFacts, TargetFacts
  <2>3. InPlace(nodes') /\ Len(nodes') = Len(nodes)
    BY <2>2, ExceptInPlace DEF AttributeTo
  <2> QED BY <2>1, <2>3, InPlaceEffect DEF cur
<1>6. CASE structural(w)
  <2>0. sects' = sects /\ w \in structuralWords
    BY <1>6 DEF structural, StatementLine
  <2>1. ASSUME NEW names, closeScopes(names) PROVE TreeEffect
    <3>1. nodes' = Settled(Kept(names)) /\ scopes' = SubSeq(scopes, 1, Kept(names))
      BY <2>1 DEF closeScopes
    <3>2. Len(nodes') = Len(nodes) /\ InPlace(nodes') /\ Kept(names) \in 0 .. Len(scopes)
      BY <3>1, SettledInPlace, KeptTyped
    <3> QED BY <2>0, <3>1, <3>2 DEF TreeEffect, cur
  <2>2. /\ Len(scopes) \in 0 .. Len(scopes)
        /\ scopes # <<>> => Len(scopes) - 1 \in 0 .. Len(scopes)
    <3>1. Len(scopes) \in Nat
      BY TypedFacts
    <3>2. scopes # <<>> => Len(scopes) # 0
      BY DEF Typed, TypeOK
    <3> QED BY <3>1, <3>2
  <2>3. \/ \E names : closeScopes(names)
        \/ \E kept \in 0 .. Len(scopes) : OpenAfter(kept, w)
    <3>1. CASE w = "endif" \/ w = "end_random"
      BY <1>6, <3>1 DEF structural
    <3>2. CASE w = "else"
      BY <1>6, <3>2, KeptTyped DEF structural
    <3>3. CASE w = "percent_chance"
      BY <1>6, <2>2, <3>3 DEF structural
    <3>4. CASE w \in {"if", "start_random"}
      BY <1>6, <2>2, <3>4 DEF structural
    <3> QED BY <2>0, <3>1, <3>2, <3>3, <3>4 DEF structuralWords
  <2>4. cur' = cur
    BY <2>0 DEF cur
  <2> QED BY <2>1, <2>3, <2>4, OpenEffectOnTree
<1> QED BY <1>1, <1>2, <1>3, <1>4, <1>5, <1>6 DEF Line

LEMMA CloseOnTree ==
    ASSUME Typed, closeAll
    PROVE  TreeEffect
<1>1. nodes' = ClosedNodes /\ scopes' = <<>> /\ sects' = [sects EXCEPT ![cur].end = here]
  BY DEF closeAll, ClosedNodes
<1>2. Len(nodes') = Len(nodes) /\ InPlace(nodes')
  BY <1>1, SettledInPlace
<1>3. cur' = cur
  <2>1. [sects EXCEPT ![cur].end = here] \in Seq(Sections) /\ sects \in Seq(Sections)
    BY SectionsTyped DEF Typed, TypeOK, Sections
  <2> QED BY <1>1, <2>1 DEF cur
<1>4. 0 \in 0 .. Len(scopes) /\ SubSeq(scopes, 1, 0) = <<>>
  BY TypedFacts DEF Typed, TypeOK
<1> QED BY <1>1, <1>2, <1>3, <1>4 DEF TreeEffect
------------------------------------------------------------------------------
(* The tree in the order of the file *)

\* Nodes are numbered in the order of their lines, each after its parent.
Rooted == \A n \in 1 .. Len(nodes) :
    /\ nodes[n].parent \in 0 .. n - 1 /\ nodes[n].start >= 1
    /\ nodes[n].sect <= cur
    /\ \A m \in 1 .. n - 1 : nodes[m].start < nodes[n].start /\ nodes[m].sect <= nodes[n].sect

\* A node between another and its parent is under that parent too.
Preorder == \A n \in 1 .. Len(nodes) : \A c \in 1 .. n - 1 :
    nodes[n].parent < c => nodes[n].parent <= nodes[c].parent

\* The open scopes are nested, and everything after one is under it.
Nested == \A i \in 1 .. Len(scopes) :
    /\ \A j \in 1 .. i - 1 : scopes[j] < scopes[i]
    /\ \A n \in 1 .. Len(nodes) : scopes[i] < n => scopes[i] <= nodes[n].parent

\* No line is at two nodes, and no attribute stands before its node.
Unique ==
    /\ \A n \in 1 .. Len(nodes) : \A l \in ToSet(nodes[n].attrs) : nodes[n].start <= l
    /\ \A i \in 1 .. Len(lines) : \A n, m \in NodesAt(nodes, i) : n = m

TreeInv == Rooted /\ Preorder /\ Nested /\ Unique

LEMMA TreeTyped ==
    ASSUME Typed
    PROVE  /\ Len(nodes) \in Nat /\ Len(scopes) \in Nat /\ cur \in Nat /\ here \in Nat
           /\ \A n \in 1 .. Len(nodes) :
                /\ nodes[n].parent \in Nat /\ nodes[n].sect \in Nat /\ nodes[n].start \in Nat
           /\ \A i \in 1 .. Len(scopes) : scopes[i] \in 1 .. Len(nodes)
<1>1. \A n \in 1 .. Len(nodes) : nodes[n] \in NodeRecords
  BY TypedFacts
<1>2. \A r \in NodeRecords : r.parent \in Nat /\ r.sect \in Nat /\ r.start \in Nat
  BY DEF NodeRecords
<1>3. cur \in Nat
  BY DEF Typed, TypeOK, cur
<1> QED BY <1>1, <1>2, <1>3, TypedFacts

LEMMA RootedStays ==
    ASSUME Typed, Typed', Dated, Rooted, TreeEffect
    PROVE  Rooted'
<1>1. /\ Len(nodes) \in Nat /\ cur \in Nat /\ cur' \in {cur, cur + 1} /\ here \in Nat
      /\ here = Len(lines) + 1
      /\ \A n \in 1 .. Len(nodes) :
           /\ nodes[n].sect \in Nat /\ nodes[n].start \in 0 .. Len(lines)
           /\ nodes'[n].parent = nodes[n].parent /\ nodes'[n].sect = nodes[n].sect
           /\ nodes'[n].start = nodes[n].start
  BY TreeTyped, DatedFacts DEF TreeEffect, InPlace
<1>2. ASSUME NEW n \in 1 .. Len(nodes)
      PROVE  /\ nodes'[n].parent \in 0 .. n - 1 /\ nodes'[n].start >= 1 /\ nodes'[n].sect <= cur'
             /\ \A m \in 1 .. n - 1 :
                  nodes'[m].start < nodes'[n].start /\ nodes'[m].sect <= nodes'[n].sect
  <2>1. n \in Nat /\ \A m \in 1 .. n - 1 : m \in 1 .. Len(nodes)
    BY <1>1
  <2>2. /\ nodes[n].parent \in 0 .. n - 1 /\ nodes[n].start >= 1 /\ nodes[n].sect <= cur
        /\ \A m \in 1 .. n - 1 : nodes[m].start < nodes[n].start /\ nodes[m].sect <= nodes[n].sect
    BY DEF Rooted
  <2>3. nodes'[n].sect <= cur'
    BY <1>1, <2>2
  <2> QED BY <1>1, <2>1, <2>2, <2>3
<1>3. CASE Len(nodes') = Len(nodes)
  BY <1>2, <1>3 DEF Rooted
<1>4. CASE Len(nodes') = Len(nodes) + 1
  <2>1. PICK n : n = Len(nodes) + 1
    OBVIOUS
  <2>2. /\ cur' = cur /\ nodes'[n].sect = cur /\ nodes'[n].start = here
        /\ \E k \in 0 .. Len(scopes) : nodes'[n].parent = IF k = 0 THEN 0 ELSE scopes[k]
    BY <1>1, <1>4, <2>1 DEF TreeEffect
  <2>3. nodes'[n].parent \in 0 .. n - 1
    BY <1>1, <2>1, <2>2, TreeTyped
  <2>4. \A m \in 1 .. n - 1 : nodes'[m].start < here /\ nodes'[m].sect <= cur
    <3> SUFFICES ASSUME NEW m \in 1 .. n - 1
                 PROVE  nodes'[m].start < here /\ nodes'[m].sect <= cur
      OBVIOUS
    <3>1. m \in 1 .. Len(nodes)
      BY <1>1, <2>1
    <3>2. nodes[m].sect <= cur
      BY <3>1 DEF Rooted
    <3> QED BY <1>1, <3>1, <3>2
  <2>5. 1 .. Len(nodes') = 1 .. Len(nodes) \cup {n} /\ here >= 1 /\ cur <= cur
    BY <1>1, <1>4, <2>1
  <2>6. /\ nodes'[n].parent \in 0 .. n - 1 /\ nodes'[n].start >= 1 /\ nodes'[n].sect <= cur'
        /\ \A m \in 1 .. n - 1 :
             nodes'[m].start < nodes'[n].start /\ nodes'[m].sect <= nodes'[n].sect
    BY <2>2, <2>3, <2>4, <2>5
  <2> QED BY <1>2, <2>5, <2>6 DEF Rooted
<1> QED BY <1>3, <1>4 DEF TreeEffect

LEMMA PreorderStays ==
    ASSUME Typed, Typed', Rooted, Preorder, Nested, TreeEffect
    PROVE  Preorder'
<1>1. /\ Len(nodes) \in Nat
      /\ \A n \in 1 .. Len(nodes) : nodes'[n].parent = nodes[n].parent /\ nodes[n].parent \in Nat
  BY TreeTyped DEF TreeEffect, InPlace
<1>2. ASSUME NEW n \in 1 .. Len(nodes), NEW c \in 1 .. n - 1, nodes'[n].parent < c
      PROVE  nodes'[n].parent <= nodes'[c].parent
  <2>1. c \in 1 .. Len(nodes)
    BY <1>1
  <2> QED BY <1>1, <1>2, <2>1 DEF Preorder
<1>3. CASE Len(nodes') = Len(nodes)
  BY <1>2, <1>3 DEF Preorder
<1>4. CASE Len(nodes') = Len(nodes) + 1
  <2>1. PICK n : n = Len(nodes) + 1
    OBVIOUS
  <2>2. PICK k \in 0 .. Len(scopes) : nodes'[n].parent = IF k = 0 THEN 0 ELSE scopes[k]
    BY <1>1, <1>4, <2>1 DEF TreeEffect
  <2>3. ASSUME NEW c \in 1 .. n - 1, nodes'[n].parent < c
        PROVE  nodes'[n].parent <= nodes'[c].parent
    <3>1. c \in 1 .. Len(nodes)
      BY <1>1, <2>1
    <3>2. CASE k = 0
      BY <1>1, <2>2, <3>1, <3>2
    <3>3. CASE k # 0
      <4>1. k \in 1 .. Len(scopes) /\ nodes'[n].parent = scopes[k]
        BY <2>2, <3>3, TreeTyped
      <4> QED BY <1>1, <2>3, <3>1, <4>1 DEF Nested
    <3> QED BY <3>2, <3>3
  <2>4. 1 .. Len(nodes') = 1 .. Len(nodes) \cup {n}
    BY <1>1, <1>4, <2>1
  <2> QED BY <1>2, <2>3, <2>4 DEF Preorder
<1> QED BY <1>3, <1>4 DEF TreeEffect

LEMMA NestedStays ==
    ASSUME Typed, Typed', Nested, TreeEffect
    PROVE  Nested'
<1>1. /\ Len(nodes) \in Nat /\ Len(scopes) \in Nat
      /\ \A n \in 1 .. Len(nodes) : nodes'[n].parent = nodes[n].parent /\ nodes[n].parent \in Nat
      /\ \A i \in 1 .. Len(scopes) : scopes[i] \in 1 .. Len(nodes)
      /\ scopes \in Seq(1 .. Len(nodes))
  BY TreeTyped, TypedFacts DEF TreeEffect, InPlace, Typed, TypeOK
<1>2. PICK k \in 0 .. Len(scopes) :
        \/ Len(nodes') = Len(nodes) /\ scopes' = SubSeq(scopes, 1, k)
        \/ /\ Len(nodes') = Len(nodes) + 1
           /\ nodes'[Len(nodes) + 1].parent = IF k = 0 THEN 0 ELSE scopes[k]
           /\ \/ scopes' = SubSeq(scopes, 1, k)
              \/ scopes' = Append(SubSeq(scopes, 1, k), Len(nodes) + 1)
  BY DEF TreeEffect
<1> DEFINE outer == SubSeq(scopes, 1, k)
<1>3. /\ outer \in Seq(1 .. Len(nodes)) /\ Len(outer) = k /\ k \in Nat
      /\ \A i \in 1 .. k : outer[i] = scopes[i] /\ i \in 1 .. Len(scopes)
  BY <1>1
<1>4. ASSUME NEW i \in 1 .. k
      PROVE  /\ \A j \in 1 .. i - 1 : outer[j] < outer[i]
             /\ \A n \in 1 .. Len(nodes') : outer[i] < n => outer[i] <= nodes'[n].parent
  <2>1. \A j \in 1 .. i - 1 : j \in 1 .. k
    BY <1>3
  <2>2. \A j \in 1 .. i - 1 : outer[j] < outer[i]
    BY <1>3, <2>1 DEF Nested
  <2>3. ASSUME NEW n \in 1 .. Len(nodes), outer[i] < n PROVE outer[i] <= nodes'[n].parent
    BY <1>1, <1>3, <2>3 DEF Nested
  <2>4. ASSUME Len(nodes') = Len(nodes) + 1 PROVE outer[i] <= nodes'[Len(nodes) + 1].parent
    <3>1. nodes'[Len(nodes) + 1].parent = scopes[k] /\ k \in 1 .. Len(scopes)
      BY <1>1, <1>2, <1>3, <2>4
    <3>2. i = k \/ scopes[i] < scopes[k]
      BY <1>3, <3>1 DEF Nested
    <3> QED BY <1>1, <1>3, <3>1, <3>2
  <2>5. ASSUME NEW n \in 1 .. Len(nodes'), outer[i] < n PROVE outer[i] <= nodes'[n].parent
    <3>1. n \in 1 .. Len(nodes) \/ (Len(nodes') = Len(nodes) + 1 /\ n = Len(nodes) + 1)
      BY <1>1, <1>2
    <3> QED BY <2>3, <2>4, <2>5, <3>1
  <2> QED BY <2>2, <2>5
<1> HIDE DEF outer
<1>5. CASE scopes' = outer
  BY <1>3, <1>4, <1>5 DEF Nested
<1>6. CASE scopes' = Append(outer, Len(nodes) + 1) /\ Len(nodes') = Len(nodes) + 1
  <2>1. /\ Len(scopes') = k + 1 /\ scopes'[k + 1] = Len(nodes) + 1
        /\ \A i \in 1 .. k : scopes'[i] = outer[i]
    BY <1>3, <1>6
  <2>2. \A i \in 1 .. k : outer[i] < Len(nodes) + 1
    BY <1>1, <1>3
  <2>3. ASSUME NEW i \in 1 .. k
        PROVE  /\ \A j \in 1 .. i - 1 : scopes'[j] < scopes'[i]
               /\ \A n \in 1 .. Len(nodes') : scopes'[i] < n => scopes'[i] <= nodes'[n].parent
    <3>1. \A j \in 1 .. i - 1 : j \in 1 .. k
      BY <1>3
    <3> QED BY <1>4, <2>1, <3>1
  <2>4. /\ \A j \in 1 .. k + 1 - 1 : scopes'[j] < scopes'[k + 1]
        /\ \A n \in 1 .. Len(nodes') : ~(scopes'[k + 1] < n)
    BY <1>1, <1>3, <1>6, <2>1, <2>2
  <2>5. 1 .. Len(scopes') = 1 .. k \cup {k + 1}
    BY <1>3, <2>1
  <2> QED BY <2>3, <2>4, <2>5 DEF Nested
<1> QED BY <1>2, <1>5, <1>6 DEF outer

\* What a line does to the nodes leaves each line at one of them.
LEMMA UniqueStays ==
    ASSUME Typed, Dated, Unique, NEW w, NodesEffect(w), lines' = Append(lines, w), Len(lines') = here
    PROVE  Unique'
<1>1. /\ Len(lines) \in Nat /\ here = Len(lines) + 1 /\ Len(nodes) \in Nat
      /\ DOMAIN nodes = 1 .. Len(nodes)
      /\ \A n \in 1 .. Len(nodes) : nodes[n].start \in 0 .. Len(lines)
      /\ \A n \in 1 .. Len(nodes) : \A l \in ToSet(nodes[n].attrs) : l \in 0 .. Len(lines)
  BY DatedFacts
<1>2. \A i \in 1 .. Len(lines) : NodesAt(nodes', i) = NodesAt(nodes, i)
  BY NodesPlaced
<1>3. /\ \A n \in 1 .. Len(nodes') : \A l \in ToSet(nodes'[n].attrs) : nodes'[n].start <= l
      /\ \A n, m \in NodesAt(nodes', here) : n = m
  <2>1. CASE SameNodes(nodes')
    <3>1. /\ DOMAIN nodes' = 1 .. Len(nodes) /\ Len(nodes') = Len(nodes)
          /\ \A n \in 1 .. Len(nodes) :
               nodes'[n].start = nodes[n].start /\ nodes'[n].attrs = nodes[n].attrs
      BY <1>1, <2>1 DEF SameNodes, Alike
    <3>2. NodesAt(nodes', here) = {}
      BY <1>1, <3>1 DEF NodesAt
    <3> QED BY <3>1, <3>2 DEF Unique
  <2>2. CASE AddsNode(nodes', w)
    <3>1. PICK k : k = Len(nodes) + 1
      OBVIOUS
    <3>2. /\ DOMAIN nodes' = 1 .. k /\ Len(nodes') = k
          /\ \A n \in 1 .. Len(nodes) :
               nodes'[n].start = nodes[n].start /\ nodes'[n].attrs = nodes[n].attrs
          /\ nodes'[k].start = here /\ ToSet(nodes'[k].attrs) \subseteq {here}
      BY <1>1, <2>2, <3>1 DEF AddsNode, Alike
    <3>3. 1 .. k = 1 .. Len(nodes) \cup {k}
      BY <1>1, <3>1
    <3>4. NodesAt(nodes', here) \subseteq {k}
      BY <1>1, <3>2, <3>3 DEF NodesAt
    <3>5. \A l \in ToSet(nodes'[k].attrs) : nodes'[k].start <= l
      BY <1>1, <3>2
    <3> QED BY <3>2, <3>3, <3>4, <3>5 DEF Unique
  <2>3. ASSUME NEW t, AddsAttribute(nodes', t)
        PROVE  /\ \A n \in 1 .. Len(nodes') : \A l \in ToSet(nodes'[n].attrs) : nodes'[n].start <= l
               /\ \A n, m \in NodesAt(nodes', here) : n = m
    <3>1. /\ DOMAIN nodes' = 1 .. Len(nodes) /\ Len(nodes') = Len(nodes)
          /\ \A n \in 1 .. Len(nodes) : /\ nodes'[n].start = nodes[n].start
                                        /\ n # t => nodes'[n].attrs = nodes[n].attrs
          /\ t \in 1 .. Len(nodes)
          /\ ToSet(nodes'[t].attrs) = ToSet(nodes[t].attrs) \cup {here}
      BY <1>1, <2>3 DEF AddsAttribute
    <3>2. NodesAt(nodes', here) \subseteq {t}
      <4>1. ASSUME NEW n \in 1 .. Len(nodes), n # t
            PROVE  nodes'[n].start # here /\ here \notin ToSet(nodes'[n].attrs)
        <5>1. nodes'[n].start \in 0 .. Len(lines) /\ nodes'[n].attrs = nodes[n].attrs
          BY <1>1, <3>1, <4>1
        <5>2. here \notin 0 .. Len(lines)
          BY <1>1
        <5> QED BY <1>1, <5>1, <5>2
      <4>2. DOMAIN nodes' = 1 .. Len(nodes)
        BY <2>3, <3>1 DEF AddsAttribute
      <4> QED BY <4>1, <4>2 DEF NodesAt
    <3>3. \A l \in ToSet(nodes'[t].attrs) : nodes'[t].start <= l
      BY <1>1, <3>1 DEF Unique
    <3> QED BY <3>1, <3>2, <3>3 DEF Unique
  <2> QED BY <2>1, <2>2, <2>3 DEF NodesEffect
<1>4. 1 .. Len(lines') = 1 .. Len(lines) \cup {here}
  BY <1>1
<1>5. \A i \in 1 .. Len(lines') : \A n, m \in NodesAt(nodes', i) : n = m
  BY <1>2, <1>3, <1>4 DEF Unique
<1> QED BY <1>3, <1>5 DEF Unique

LEMMA TreeInit == Init => TreeInv
<1> SUFFICES ASSUME Init PROVE TreeInv
  OBVIOUS
<1>1. nodes = <<>> /\ scopes = <<>> /\ lines = <<>>
  BY DEF Init
<1>2. Len(nodes) = 0 /\ Len(scopes) = 0 /\ Len(lines) = 0 /\ DOMAIN nodes = {}
  BY <1>1
<1> QED BY <1>2 DEF TreeInv, Rooted, Preorder, Nested, Unique, NodesAt

LEMMA TreeStep == LinesInv /\ LinesInv' /\ TreeInv /\ [Next]_vars => TreeInv'
<1> SUFFICES ASSUME LinesInv, LinesInv', TreeInv, [Next]_vars PROVE TreeInv'
  OBVIOUS
<1>0. Typed /\ Typed' /\ Dated /\ Rooted /\ Preorder /\ Nested /\ Unique
  BY DEF LinesInv, TreeInv
<1>1. ASSUME TreeEffect PROVE Rooted' /\ Preorder' /\ Nested'
  BY <1>0, <1>1, RootedStays, PreorderStays, NestedStays
<1>2. ASSUME NEW w, Line(w) PROVE TreeInv'
  <2>1. Effect(w) /\ TreeEffect
    BY <1>0, <1>2, LineEffect, LineOnTree
  <2>2. NodesEffect(w) /\ lines' = Append(lines, w) /\ w \in Words
    BY <2>1 DEF Effect
  <2>3. Len(lines') = here
    BY <1>0, <2>2 DEF Typed, TypeOK, here
  <2>4. Unique'
    BY <1>0, <2>2, <2>3, UniqueStays
  <2> QED BY <1>1, <2>1, <2>4 DEF TreeInv
<1>3. CASE closeAll
  <2>1. TreeEffect /\ SameNodes(nodes') /\ lines' = lines
    BY <1>0, <1>3, CloseOnTree, CloseTyped
  <2>2. /\ DOMAIN nodes' = DOMAIN nodes /\ Len(nodes') = Len(nodes)
        /\ \A n \in 1 .. Len(nodes) :
             nodes'[n].start = nodes[n].start /\ nodes'[n].attrs = nodes[n].attrs
    BY <1>0, <2>1, TypedFacts DEF SameNodes, Alike
  <2>3. \A i : NodesAt(nodes', i) = NodesAt(nodes, i)
    BY <1>0, <2>2, TypedFacts DEF NodesAt
  <2>4. Unique'
    BY <1>0, <2>1, <2>2, <2>3 DEF Unique
  <2> QED BY <1>1, <2>1, <2>4 DEF TreeInv
<1>4. CASE UNCHANGED vars
  <2>1. nodes' = nodes /\ scopes' = scopes /\ lines' = lines /\ sects' = sects
    BY Zenon, <1>4 DEF vars, tree
  <2> QED BY <1>0, <2>1 DEF TreeInv, Rooted, Preorder, Nested, Unique, NodesAt, cur
<1> QED BY <1>2, <1>3, <1>4 DEF Next

------------------------------------------------------------------------------
(* The owner of a line *)

\* The last node that starts at a line or above it.
LastUpTo(n, p) ==
    /\ n \in 1 .. Len(nodes) /\ nodes[n].start <= p
    /\ \A m \in n + 1 .. Len(nodes) : p < nodes[m].start

\* The children a step of the descent chooses from.
Chosen(m, p) == {c \in Children(nodes, m) : nodes[c].start <= p}

\* The descent is a function: from the last node to the first.
LEMMA DescentExists ==
    ASSUME Typed, Rooted, NEW p
    PROVE  \E f : f = [m \in DOMAIN nodes |->
                         IF Chosen(m, p) = {} THEN m ELSE f[Max(Chosen(m, p))]]
<1> DEFINE N == Len(nodes)
           Solves(f, k) == f = [m \in k .. N |->
                                  IF Chosen(m, p) = {} THEN m ELSE f[Max(Chosen(m, p))]]
           Stuck == {k \in 1 .. N + 1 : ~\E f : Solves(f, k)}
<1>1. N \in Nat /\ DOMAIN nodes = 1 .. N
  BY TypedFacts
<1>2. ASSUME NEW m \in 1 .. N, Chosen(m, p) # {} PROVE Max(Chosen(m, p)) \in m + 1 .. N
  <2>1. Chosen(m, p) \subseteq m + 1 .. N
    <3>1. ASSUME NEW c \in Chosen(m, p) PROVE c \in 1 .. N /\ nodes[c].parent = m
      BY <1>1 DEF Chosen, Children
    <3>2. ASSUME NEW c \in Chosen(m, p) PROVE m < c
      <4>1. c \in 1 .. N /\ nodes[c].parent = m
        BY <3>1
      <4>2. m \in 0 .. c - 1
        BY <4>1 DEF Rooted
      <4> QED BY <1>1, <4>1, <4>2
    <3> QED BY <1>1, <3>1, <3>2
  <2>2. Chosen(m, p) \in SUBSET (0 .. N)
    BY <1>1, <2>1
  <2> QED BY <1>1, <1>2, <2>1, <2>2, MaxExists
<1>3. N + 1 \notin Stuck
  <2> DEFINE f == [m \in N + 1 .. N |-> m]
  <2>1. N + 1 .. N = {}
    BY <1>1
  <2>2. f = [m \in N + 1 .. N |-> IF Chosen(m, p) = {} THEN m ELSE f[Max(Chosen(m, p))]]
    BY <2>1
  <2> HIDE DEF f
  <2>3. Solves(f, N + 1)
    BY <2>2
  <2> QED BY <2>3
<1>4. ASSUME NEW k \in 1 .. N, k + 1 \notin Stuck PROVE k \notin Stuck
  <2>1. PICK f : Solves(f, k + 1)
    BY <1>1, <1>4
  <2> DEFINE next(m) == Max(Chosen(m, p))
             g == [m \in k .. N |-> IF m = k THEN (IF Chosen(k, p) = {} THEN k ELSE f[next(k)])
                                    ELSE f[m]]
  <2>2. \A m \in k + 1 .. N : f[m] = IF Chosen(m, p) = {} THEN m ELSE f[next(m)]
    BY <2>1
  <2>3. /\ \A m \in k + 1 .. N : g[m] = f[m]
        /\ g[k] = IF Chosen(k, p) = {} THEN k ELSE f[next(k)]
        /\ g = [m \in k .. N |-> g[m]]
    BY <1>1
  <2> HIDE DEF g
  <2>4. \A m \in k .. N : Chosen(m, p) # {} => next(m) \in k + 1 .. N
    <3>1. ASSUME NEW m \in k .. N, Chosen(m, p) # {} PROVE next(m) \in m + 1 .. N /\ m >= k
      BY <1>1, <1>2, <3>1
    <3> HIDE DEF next
    <3> QED BY <1>1, <3>1
  <2>5. \A m \in k .. N : g[m] = IF Chosen(m, p) = {} THEN m ELSE g[next(m)]
    <3> HIDE DEF next
    <3>1. \A m \in k .. N : m = k \/ m \in k + 1 .. N
      BY <1>1
    <3> QED BY <2>2, <2>3, <2>4, <3>1
  <2>6. Solves(g, k)
    BY <2>3, <2>5
  <2> QED BY <2>6
<1>5. Stuck = {}
  <2> SUFFICES ASSUME Stuck # {} PROVE FALSE
    OBVIOUS
  <2>1. Stuck \in SUBSET (0 .. N + 1) /\ N + 1 \in Nat
    BY <1>1
  <2> DEFINE k == Max(Stuck)
  <2> HIDE DEF Stuck
  <2>2. k \in Stuck /\ \A q \in Stuck : q <= k
    BY <2>1, MaxExists
  <2>3. k \in 1 .. N + 1
    BY <2>2 DEF Stuck
  <2> HIDE DEF k
  <2>4. k \in 1 .. N
    BY <1>1, <1>3, <2>2, <2>3
  <2>5. k + 1 \notin Stuck
    BY <2>2, <2>4
  <2> QED BY <1>4, <2>2, <2>4, <2>5
<1>6. \E f : Solves(f, 1)
  <2>1. 1 \in 1 .. N + 1
    BY <1>1
  <2> QED BY <1>5, <2>1
<1> QED BY <1>1, <1>6

\* The descent from a node, everything between which and the last node up to the
\* line is under it, ends at that last node.
LEMMA OwnerInLast ==
    ASSUME Typed, Rooted, Preorder, NEW pos, NEW n, LastUpTo(n, pos.line), NEW t \in 1 .. n,
           \A k \in t + 1 .. n : t <= nodes[k].parent, pos.line \in Nat
    PROVE  ownerIn(t, pos) = n
<1> DEFINE p == pos.line
           N == Len(nodes)
<1>1. /\ N \in Nat /\ DOMAIN nodes = 1 .. N /\ n \in 1 .. N
      /\ \A m \in 1 .. N : nodes[m].parent \in Nat /\ nodes[m].start \in Nat
  BY TreeTyped, TypedFacts DEF LastUpTo
<1>2. PICK f : /\ f = [m \in DOMAIN nodes |->
                         IF Chosen(m, p) = {} THEN m ELSE f[Max(Chosen(m, p))]]
               /\ ownerIn(t, pos) = f[t]
  <2> DEFINE F == CHOOSE f : f = [m \in DOMAIN nodes |->
                         IF Chosen(m, p) = {} THEN m ELSE f[Max(Chosen(m, p))]]
  <2>1. F = [m \in DOMAIN nodes |-> IF Chosen(m, p) = {} THEN m ELSE F[Max(Chosen(m, p))]]
    BY DescentExists
  <2>2. ownerIn(t, pos) = F[t]
    BY DEF ownerIn, Chosen
  <2> HIDE DEF F
  <2> QED BY <2>1, <2>2
<1>3. \A m \in 1 .. N : f[m] = IF Chosen(m, p) = {} THEN m ELSE f[Max(Chosen(m, p))]
  BY <1>1, <1>2
<1>4. ASSUME NEW m \in 1 .. n, NEW c PROVE c \in Chosen(m, p) <=> c \in m + 1 .. n /\ nodes[c].parent = m
  <2>1. c \in Chosen(m, p) <=> c \in 1 .. N /\ nodes[c].parent = m /\ nodes[c].start <= p
    BY <1>1 DEF Chosen, Children
  <2>2. ASSUME c \in 1 .. N PROVE nodes[c].start <= p <=> c <= n
    <3>1. CASE c \in n + 1 .. N
      BY <1>1, <3>1 DEF LastUpTo
    <3>2. CASE c \in 1 .. n - 1
      <4>1. nodes[c].start < nodes[n].start /\ nodes[n].start <= p
        BY <1>1, <3>2 DEF LastUpTo, Rooted
      <4> QED BY <1>1, <3>2, <4>1
    <3>3. CASE c = n
      BY <1>1, <3>3 DEF LastUpTo
    <3> QED BY <1>1, <2>2, <3>1, <3>2, <3>3
  <2>3. ASSUME c \in 1 .. N, nodes[c].parent = m PROVE m < c
    BY <1>1, <2>3 DEF Rooted
  <2>4. c \in m + 1 .. n <=> c \in 1 .. N /\ m < c /\ c <= n
    BY <1>1
  <2> QED BY <2>1, <2>2, <2>3, <2>4
<1> DEFINE Stray == {m \in 1 .. n : f[m] # n /\ \A k \in m + 1 .. n : m <= nodes[k].parent}
<1>5. Stray = {}
  <2> SUFFICES ASSUME Stray # {} PROVE FALSE
    OBVIOUS
  <2>1. Stray \in SUBSET (0 .. n) /\ n \in Nat
    BY <1>1
  <2> DEFINE m == Max(Stray)
  <2>2. m \in Stray /\ \A q \in Stray : q <= m
    <3> HIDE DEF Stray
    <3> QED BY <2>1, MaxExists
  <2> HIDE DEF m
  <2>3. m \in 1 .. n /\ f[m] # n /\ \A k \in m + 1 .. n : m <= nodes[k].parent
    BY <2>2
  <2>4. CASE m = n
    <3>1. Chosen(m, p) = {}
      BY <1>1, <1>4, <2>3, <2>4
    <3> QED BY <1>1, <1>3, <2>3, <2>4, <3>1
  <2>5. CASE m < n
    <3>1. m + 1 \in Chosen(m, p)
      <4>1. m + 1 \in m + 1 .. n /\ m + 1 \in 1 .. N
        BY <1>1, <2>3, <2>5
      <4>2. m <= nodes[m + 1].parent /\ nodes[m + 1].parent \in 0 .. m + 1 - 1
        BY <2>3, <4>1 DEF Rooted
      <4>3. nodes[m + 1].parent = m
        BY <1>1, <2>3, <4>2
      <4> QED BY <1>4, <2>3, <4>1, <4>3
    <3>2. PICK c : c = Max(Chosen(m, p))
      OBVIOUS
    <3>3. Chosen(m, p) \in SUBSET (0 .. n)
      BY <1>1, <1>4, <2>3
    <3>4. c \in Chosen(m, p) /\ \A k \in Chosen(m, p) : k <= c
      <4>1. PICK S : S = Chosen(m, p)
        OBVIOUS
      <4>2. Max(S) \in S /\ \A k \in S : k <= Max(S)
        BY <2>1, <3>1, <3>3, <4>1, MaxExists
      <4> QED BY <3>2, <4>1, <4>2
    <3>5. c \in m + 1 .. n /\ nodes[c].parent = m
      BY <1>4, <2>3, <3>4
    <3>6. ASSUME NEW k \in c + 1 .. n PROVE c <= nodes[k].parent
      <4>1. k \in 1 .. N /\ k \in m + 1 .. n /\ c \in 1 .. k - 1 /\ ~(k <= c)
        BY <1>1, <2>3, <3>5, <3>6
      <4>2. m <= nodes[k].parent /\ nodes[k].parent # m
        BY <1>4, <2>3, <3>4, <4>1
      <4>3. nodes[k].parent < c => nodes[k].parent <= nodes[c].parent
        BY <4>1 DEF Preorder
      <4> QED BY <1>1, <2>3, <3>5, <4>1, <4>2, <4>3
    <3>7. c \in 1 .. n /\ ~(c <= m)
      BY <1>1, <2>3, <3>5
    <3>8. f[c] = n
      BY <2>2, <3>6, <3>7
    <3>9. f[m] = f[c] /\ m \in 1 .. N
      BY <1>1, <1>3, <2>3, <3>1, <3>2
    <3> QED BY <2>3, <3>8, <3>9
  <2> QED BY <1>1, <2>3, <2>4, <2>5
<1> QED BY <1>2, <1>5

\* The owner of a line is the last node that starts at it or above it.
LEMMA OwnerAtLast ==
    ASSUME Typed, Rooted, Preorder, NEW pos, pos.line \in Nat, NEW n, LastUpTo(n, pos.line)
    PROVE  ownerAt(pos) = {n}
<1> DEFINE tops == {m \in DOMAIN nodes : nodes[m].parent = 0 /\ nodes[m].start <= pos.line}
           t    == Max(tops)
           last == Max({nodes[m].sect : m \in tops})
           mine == {m \in tops : nodes[m].sect = last}
<1>1. /\ Len(nodes) \in Nat /\ DOMAIN nodes = 1 .. Len(nodes) /\ n \in 1 .. Len(nodes) /\ cur \in Nat
      /\ \A m \in 1 .. Len(nodes) :
           nodes[m].parent \in Nat /\ nodes[m].start \in Nat /\ nodes[m].sect \in 0 .. cur
      /\ n \in Nat
  <2>1. \A m \in 1 .. Len(nodes) : nodes[m].sect \in Nat /\ nodes[m].sect <= cur
    BY TreeTyped DEF Rooted
  <2> QED BY <2>1, TreeTyped, TypedFacts DEF LastUpTo
<1>2. \A m \in 1 .. Len(nodes) : nodes[m].start <= pos.line <=> m <= n
  <2> SUFFICES ASSUME NEW c \in 1 .. Len(nodes) PROVE nodes[c].start <= pos.line <=> c <= n
    OBVIOUS
  <2>1. CASE c \in n + 1 .. Len(nodes)
    BY <1>1, <2>1 DEF LastUpTo
  <2>2. CASE c \in 1 .. n - 1
    <3>1. nodes[c].start < nodes[n].start /\ nodes[n].start <= pos.line
      BY <1>1, <2>2 DEF LastUpTo, Rooted
    <3> QED BY <1>1, <2>2, <3>1
  <2>3. CASE c = n
    BY <1>1, <2>3 DEF LastUpTo
  <2> QED BY <1>1, <2>1, <2>2, <2>3
<1>3. tops \in SUBSET (0 .. n) /\ tops \in SUBSET (1 .. Len(nodes)) /\ 1 \in tops
  <2>1. 1 \in 1 .. Len(nodes) /\ 1 <= n
    BY <1>1
  <2>2. nodes[1].parent = 0
    BY <1>1, <2>1 DEF Rooted
  <2> QED BY <1>1, <1>2, <2>1, <2>2
<1>4. t \in tops /\ \A m \in tops : m <= t
  <2>1. tops # {}
    BY <1>3
  <2> HIDE DEF tops
  <2> QED BY <1>1, <1>3, <2>1, MaxExists
<1>5. \A m \in tops : nodes[m].sect <= nodes[t].sect
  <2> SUFFICES ASSUME NEW m \in tops PROVE nodes[m].sect <= nodes[t].sect
    OBVIOUS
  <2>1. m \in 1 .. Len(nodes) /\ t \in 1 .. Len(nodes) /\ m <= t
    BY <1>3, <1>4
  <2> HIDE DEF t, tops
  <2>2. m = t \/ m \in 1 .. t - 1
    BY <1>1, <2>1
  <2> QED BY <1>1, <2>1, <2>2 DEF Rooted
<1>6. last = nodes[t].sect
  <2> DEFINE secs == {nodes[m].sect : m \in tops}
  <2>1. nodes[t].sect \in secs /\ \A q \in secs : q <= nodes[t].sect
    BY <1>4, <1>5
  <2>2. secs \in SUBSET (0 .. cur)
    BY <1>1, <1>3
  <2> HIDE DEF secs, t
  <2>3. Max(secs) \in secs /\ \A q \in secs : q <= Max(secs)
    BY <1>1, <2>1, <2>2, MaxExists
  <2>4. Max(secs) \in 0 .. cur /\ nodes[t].sect \in 0 .. cur
    BY <2>1, <2>2, <2>3
  <2>5. Max(secs) = nodes[t].sect
    BY <1>1, <2>1, <2>3, <2>4
  <2> QED BY <2>5 DEF secs
<1>7. Max(mine) = t
  <2>1. t \in mine /\ mine \subseteq tops
    BY <1>4, <1>6
  <2>2. mine \in SUBSET (0 .. n)
    BY <1>3, <2>1
  <2>3. \A m \in mine : m <= t
    BY <1>4, <2>1
  <2> HIDE DEF mine, t
  <2>4. Max(mine) \in mine /\ \A q \in mine : q <= Max(mine)
    <3>1. mine # {}
      BY <2>1
    <3> QED BY <1>1, <2>2, <3>1, MaxExists
  <2>5. Max(mine) <= t /\ t <= Max(mine)
    BY <2>1, <2>3, <2>4
  <2>6. t \in 0 .. n /\ Max(mine) \in 0 .. n
    BY <2>1, <2>2, <2>4
  <2> QED BY <2>5, <2>6
<1>8. ownerAt(pos) = {ownerIn(t, pos)}
  <2>1. ownerAt(pos) = IF tops = {} THEN {} ELSE {ownerIn(Max(mine), pos)}
    BY DEF ownerAt
  <2>2. tops # {}
    BY <1>3
  <2> HIDE DEF tops, t, mine
  <2> QED BY <1>7, <2>1, <2>2
<1>9. t \in 1 .. n /\ \A k \in t + 1 .. n : t <= nodes[k].parent
  <2>1. t \in 1 .. n /\ nodes[t].parent = 0
    BY <1>1, <1>2, <1>4
  <2>2. ASSUME NEW k \in t + 1 .. n PROVE t <= nodes[k].parent
    <3>0. \A m \in 1 .. Len(nodes) : m <= n /\ nodes[m].parent = 0 => m <= t
      BY <1>1, <1>2, <1>4
    <3> HIDE DEF t, tops
    <3>1. k \in 1 .. Len(nodes) /\ t \in 1 .. k - 1 /\ k <= n /\ ~(k <= t)
      BY <1>1, <2>1, <2>2
    <3>2. nodes[k].parent # 0
      BY <3>0, <3>1
    <3>3. nodes[k].parent < t => nodes[k].parent <= nodes[t].parent
      BY <3>1 DEF Preorder
    <3> QED BY <1>1, <2>1, <3>1, <3>2, <3>3
  <2> QED BY <2>1, <2>2
<1> HIDE DEF t, tops
<1>10. ownerIn(t, pos) = n
  BY <1>9, OwnerInLast
<1> QED BY <1>8, <1>10

TreeOfLines == LinesInv /\ TreeInv

\* Signature help and hover find the owner of a line by its start alone, over
\* every section and whatever scopes span them, and never name another command
\* than the one the parser gave the line to: the owner is the last node that
\* starts at the line or above it, and no line is at two nodes (ArgAt, ownerAt,
\* ownerIn, ast.go:176-268).
THEOREM ArgAtExactHolds == Spec => []ArgAtExact
<1>1. TreeOfLines => ArgAtExact
  <2> SUFFICES ASSUME TreeOfLines, NEW n \in DOMAIN nodes
               PROVE  /\ ownerAt(At(nodes[n].start, "word")) = {n}
                      /\ \A i \in ToSet(nodes[n].attrs) : \A site \in ArgAt(At(i, "value")) :
                           IF branched(n, i) THEN site.kind = "none" ELSE site = ArgSite(n, "attr")
    BY DEF ArgAtExact
  <2>0. Typed /\ Dated /\ Rooted /\ Preorder /\ Unique
    BY DEF TreeOfLines, LinesInv, TreeInv
  <2>1. /\ Len(nodes) \in Nat /\ DOMAIN nodes = 1 .. Len(nodes) /\ n \in 1 .. Len(nodes)
        /\ Len(lines) \in Nat
        /\ \A m \in 1 .. Len(nodes) : nodes[m].start \in 1 .. Len(lines)
        /\ \A m \in 1 .. Len(nodes) : \A l \in ToSet(nodes[m].attrs) :
             l \in 1 .. Len(lines) /\ nodes[m].start <= l
    <3>1. \A m \in 1 .. Len(nodes) : nodes[m].start >= 1 /\ nodes[m].start \in 0 .. Len(lines)
      BY <2>0, DatedFacts DEF Rooted
    <3>2. \A m \in 1 .. Len(nodes) : \A l \in ToSet(nodes[m].attrs) :
            l \in 0 .. Len(lines) /\ nodes[m].start <= l
      BY <2>0, DatedFacts DEF Unique
    <3>3. Len(nodes) \in Nat /\ DOMAIN nodes = 1 .. Len(nodes) /\ Len(lines) \in Nat
      BY <2>0, DatedFacts
    <3>4. \A m \in 1 .. Len(nodes) : nodes[m].start \in 1 .. Len(lines)
      BY <3>1, <3>3
    <3> QED BY <3>2, <3>3, <3>4
  <2>2. ASSUME NEW a \in 1 .. Len(nodes), NEW b \in 1 .. Len(nodes), a < b
        PROVE  nodes[a].start < nodes[b].start
    <3>1. a \in 1 .. b - 1
      BY <2>1, <2>2
    <3> QED BY <2>0, <3>1 DEF Rooted
  <2>3. ownerAt(At(nodes[n].start, "word")) = {n}
    <3> DEFINE pos == At(nodes[n].start, "word")
    <3>1. pos.line = nodes[n].start
      BY DEF At
    <3>2. \A m \in n + 1 .. Len(nodes) : nodes[n].start < nodes[m].start
      BY <2>1, <2>2
    <3>3. LastUpTo(n, pos.line) /\ pos.line \in Nat
      BY <2>1, <3>1, <3>2 DEF LastUpTo
    <3> HIDE DEF pos
    <3> QED BY <2>0, <3>3, OwnerAtLast DEF pos
  <2>4. ASSUME NEW i \in ToSet(nodes[n].attrs), NEW site \in ArgAt(At(i, "value"))
        PROVE  IF branched(n, i) THEN site.kind = "none" ELSE site = ArgSite(n, "attr")
    <3> DEFINE pos   == At(i, "value")
               above == {m \in 1 .. Len(nodes) : nodes[m].start <= i}
               o     == Max(above)
    <3>1. pos.line = i /\ pos.on = "value"
      BY DEF At
    <3>2. i \in 1 .. Len(lines) /\ nodes[n].start <= i /\ i \in Nat
      BY <2>1
    <3>3. n \in above /\ above \in SUBSET (0 .. Len(nodes))
      BY <2>1, <3>2
    <3>4. o \in above /\ \A m \in above : m <= o
      <4>1. above # {}
        BY <3>3
      <4> HIDE DEF above
      <4> QED BY <2>1, <3>3, <4>1, MaxExists
    <3>5. o \in 1 .. Len(nodes) /\ nodes[o].start <= i
      BY <3>4
    <3>6. \A m \in 1 .. Len(nodes) : nodes[m].start <= i => m <= o
      BY <3>4
    <3> HIDE DEF o, above
    <3>7. LastUpTo(o, i)
      <4>1. ASSUME NEW m \in o + 1 .. Len(nodes) PROVE i < nodes[m].start
        <5>1. m \in 1 .. Len(nodes) /\ ~(m <= o)
          BY <2>1, <3>5
        <5>2. nodes[m].start \in Nat
          BY <2>1, <5>1
        <5> QED BY <3>2, <3>6, <5>1, <5>2
      <4> QED BY <3>5, <4>1 DEF LastUpTo
    <3> HIDE DEF pos
    <3>8. ownerAt(pos) = {o}
      BY <2>0, <3>1, <3>2, <3>7, OwnerAtLast
    <3>9. site = siteIn(o, pos)
      BY <3>8 DEF ArgAt, pos
    <3>10. CASE branched(n, i)
      <4>1. PICK m \in 1 .. Len(nodes) : nodes[n].start < nodes[m].start /\ nodes[m].start <= i
        BY <2>1, <3>10 DEF branched
      <4>2. o # n
        <5>1. m <= o
          BY <3>6, <4>1
        <5>2. m # n /\ ~(m < n)
          BY <2>1, <2>2, <4>1
        <5> QED BY <2>1, <5>1, <5>2
      <4>3. n \in NodesAt(nodes, i) /\ o \notin NodesAt(nodes, i)
        <5>1. n \in NodesAt(nodes, i)
          BY DEF NodesAt
        <5> QED BY <2>0, <3>2, <4>2, <5>1 DEF Unique
      <4>4. i \notin ToSet(nodes[o].attrs) /\ nodes[o].start # i
        BY <2>1, <3>5, <4>3 DEF NodesAt
      <4>5. siteIn(o, pos) = ArgSite(o, "none")
        BY <3>1, <4>4 DEF siteIn
      <4> QED BY <3>9, <3>10, <4>5 DEF ArgSite
    <3>11. CASE ~branched(n, i)
      <4>1. o = n
        <5>1. n <= o
          BY <2>1, <3>2, <3>6
        <5>2. ~(n < o)
          BY <2>1, <2>2, <3>5, <3>11 DEF branched
        <5> QED BY <2>1, <3>5, <5>1, <5>2
      <4>2. siteIn(n, pos) = ArgSite(n, "attr")
        BY <3>1 DEF siteIn
      <4> QED BY <3>9, <3>11, <4>1, <4>2
    <3> QED BY <3>10, <3>11
  <2> QED BY <2>3, <2>4
<1>2. Init => TreeOfLines
  BY InitKept, TreeInit DEF TreeOfLines
<1>3. TreeOfLines /\ [Next]_vars => TreeOfLines'
  BY StepKept, TreeStep DEF TreeOfLines
<1> QED BY <1>1, <1>2, <1>3, PTL DEF Spec
------------------------------------------------------------------------------
(* Ends in a file without errors *)

Clean == diags = {} /\ ~adrift

\* The parent of a node is the file or an open scope.
InOpen(ns, sc, n) == ns[n].parent = 0 \/ \E i \in 1 .. Len(sc) : sc[i] = ns[n].parent

\* A block that is closed covers its children.
Covers(ns, sc) == \A c \in 1 .. Len(ns) :
    InOpen(ns, sc, c) \/ ns[c].end <= ns[ns[c].parent].end

\* Each open scope stands in the one before it.
Stacked(ns, sc) == \A i \in 1 .. Len(sc) :
    ns[sc[i]].parent = IF i = 1 THEN 0 ELSE sc[i - 1]

\* The command that owns a block, and the one that a "{" on the next line gives a
\* block to, stand in an open scope.
OwnerOpen == owner # 0 => InOpen(nodes, scopes, owner)
LatestOpen ==
    (/\ ~done /\ ~inXs /\ owner = 0 /\ lastCmd # 0
     /\ Len(lines) # 0 /\ lines[Len(lines)] \in Said)
        => InOpen(nodes, scopes, lastCmd)

EndsInv == /\ Stacked(nodes, scopes)
           /\ done => scopes = <<>>
           /\ Clean => Covers(nodes, scopes) /\ OwnerOpen /\ LatestOpen

LEMMA StackedStays ==
    ASSUME Typed, Typed', Stacked(nodes, scopes), TreeEffect
    PROVE  Stacked(nodes', scopes')
<1>1. /\ Len(nodes) \in Nat /\ Len(scopes) \in Nat
      /\ \A n \in 1 .. Len(nodes) : nodes'[n].parent = nodes[n].parent
      /\ \A i \in 1 .. Len(scopes) : scopes[i] \in 1 .. Len(nodes)
      /\ scopes \in Seq(1 .. Len(nodes))
  BY TreeTyped, TypedFacts DEF TreeEffect, InPlace, Typed, TypeOK
<1>2. PICK k \in 0 .. Len(scopes) :
        \/ Len(nodes') = Len(nodes) /\ scopes' = SubSeq(scopes, 1, k)
        \/ /\ Len(nodes') = Len(nodes) + 1
           /\ nodes'[Len(nodes) + 1].parent = IF k = 0 THEN 0 ELSE scopes[k]
           /\ \/ scopes' = SubSeq(scopes, 1, k)
              \/ scopes' = Append(SubSeq(scopes, 1, k), Len(nodes) + 1)
  BY DEF TreeEffect
<1> DEFINE outer == SubSeq(scopes, 1, k)
<1>3. /\ outer \in Seq(1 .. Len(nodes)) /\ Len(outer) = k /\ k \in Nat
      /\ \A i \in 1 .. k : outer[i] = scopes[i] /\ i \in 1 .. Len(scopes)
  BY <1>1
<1>4. ASSUME NEW i \in 1 .. k
      PROVE  nodes'[outer[i]].parent = IF i = 1 THEN 0 ELSE outer[i - 1]
  <2>1. i # 1 => i - 1 \in 1 .. k
    BY <1>3
  <2>2. nodes[scopes[i]].parent = IF i = 1 THEN 0 ELSE scopes[i - 1]
    BY <1>3 DEF Stacked
  <2> QED BY <1>1, <1>3, <2>1, <2>2
<1> HIDE DEF outer
<1>5. CASE scopes' = outer
  BY <1>3, <1>4, <1>5 DEF Stacked
<1>6. CASE scopes' = Append(outer, Len(nodes) + 1) /\ Len(nodes') = Len(nodes) + 1
  <2>1. /\ Len(scopes') = k + 1 /\ scopes'[k + 1] = Len(nodes) + 1
        /\ \A i \in 1 .. k : scopes'[i] = outer[i]
    BY <1>3, <1>6
  <2>2. ASSUME NEW i \in 1 .. k
        PROVE  nodes'[scopes'[i]].parent = IF i = 1 THEN 0 ELSE scopes'[i - 1]
    <3>1. i # 1 => i - 1 \in 1 .. k
      BY <1>3
    <3> QED BY <1>4, <2>1, <3>1
  <2>3. nodes'[Len(nodes) + 1].parent = IF k + 1 = 1 THEN 0 ELSE scopes'[k + 1 - 1]
    <3>1. nodes'[Len(nodes) + 1].parent = IF k = 0 THEN 0 ELSE scopes[k]
      BY <1>1, <1>2, <1>6
    <3>2. k # 0 => k \in 1 .. k
      BY <1>3
    <3> QED BY <1>3, <2>1, <3>1, <3>2
  <2>4. 1 .. Len(scopes') = 1 .. k \cup {k + 1}
    BY <1>3, <2>1
  <2> QED BY <2>1, <2>2, <2>3, <2>4 DEF Stacked
<1> QED BY <1>2, <1>5, <1>6 DEF outer

\* The places and the scopes decide what stands in an open scope.
LEMMA OpenSame ==
    ASSUME Typed, InPlace(nodes'), scopes' = scopes, NEW n \in 1 .. Len(nodes)
    PROVE  InOpen(nodes', scopes', n) <=> InOpen(nodes, scopes, n)
BY DEF InOpen, InPlace

\* Nothing ends later than before: ends move for nodes in open scopes alone.
LEMMA CoversStays ==
    ASSUME Typed, Rooted, Covers(nodes, scopes), InPlace(nodes'), Len(nodes') = Len(nodes), scopes' = scopes,
           \A n \in 1 .. Len(nodes) : \/ nodes'[n].end = nodes[n].end
                                      \/ nodes'[n].end = here /\ InOpen(nodes, scopes, n)
    PROVE  Covers(nodes', scopes')
<1>1. /\ Len(nodes) \in Nat /\ here \in Nat
      /\ \A n \in 1 .. Len(nodes) : nodes[n].end \in Nat /\ nodes[n].end <= here
      /\ \A n \in 1 .. Len(nodes) : nodes'[n].parent = nodes[n].parent
  BY TypedFacts DEF InPlace
<1> SUFFICES ASSUME NEW c \in 1 .. Len(nodes), ~InOpen(nodes, scopes, c)
             PROVE  nodes'[c].end <= nodes'[nodes[c].parent].end
  BY <1>1, OpenSame DEF Covers
<1>2. PICK p : p = nodes[c].parent
  OBVIOUS
<1>3. p \in 1 .. Len(nodes)
  <2>1. p \in 0 .. c - 1 /\ p # 0
    BY <1>2 DEF Rooted, InOpen
  <2> QED BY <1>1, <2>1
<1>4. nodes'[c].end = nodes[c].end /\ nodes[c].end <= nodes[p].end
  BY <1>2 DEF Covers
<1>5. nodes'[p].end \in {nodes[p].end, here}
  BY <1>3
<1> QED BY <1>1, <1>2, <1>3, <1>4, <1>5

\* A new node in an open scope changes nothing for the others.
LEMMA CoversAdded ==
    ASSUME Typed, Rooted, Covers(nodes, scopes), InPlace(nodes'), Len(nodes') = Len(nodes) + 1,
           \A n \in 1 .. Len(nodes) : nodes'[n].end = nodes[n].end,
           scopes' = scopes, InOpen(nodes', scopes', Len(nodes) + 1)
    PROVE  Covers(nodes', scopes')
<1>1. /\ Len(nodes) \in Nat /\ \A n \in 1 .. Len(nodes) : nodes'[n].parent = nodes[n].parent
      /\ 1 .. Len(nodes') = 1 .. Len(nodes) \cup {Len(nodes) + 1}
  BY TypedFacts DEF InPlace
<1>2. ASSUME NEW c \in 1 .. Len(nodes), ~InOpen(nodes, scopes, c)
      PROVE  nodes'[c].end <= nodes'[nodes'[c].parent].end
  <2>1. nodes[c].parent \in 0 .. c - 1 /\ nodes[c].parent # 0
    BY <1>2 DEF Rooted, InOpen
  <2>2. nodes[c].parent \in 1 .. Len(nodes)
    BY <1>1, <2>1
  <2>3. nodes[c].end <= nodes[nodes[c].parent].end
    BY <1>2 DEF Covers
  <2> QED BY <1>1, <2>2, <2>3
<1> QED BY <1>1, <1>2, OpenSame DEF Covers
\* A closing scope covers its children, those that close with it too.
LEMMA SettledCovers ==
    ASSUME Typed, Rooted, Stacked(nodes, scopes), Covers(nodes, scopes), NEW kept \in 0 .. Len(scopes)
    PROVE  Covers(Settled(kept), SubSeq(scopes, 1, kept))
<1> DEFINE ns == Settled(kept)
           outer == SubSeq(scopes, 1, kept)
           Shut(n) == \E i \in DOMAIN scopes : i > kept /\ scopes[i] = n
           Ends0(n) == {nodes[x].end : x \in Households(n)}
<1>1. /\ Len(nodes) \in Nat /\ DOMAIN nodes = 1 .. Len(nodes) /\ Len(scopes) \in Nat
      /\ DOMAIN scopes = 1 .. Len(scopes) /\ kept \in Nat /\ Len(lines) \in Nat
      /\ \A i \in 1 .. Len(scopes) : scopes[i] \in 1 .. Len(nodes)
      /\ \A n \in 1 .. Len(nodes) : nodes[n] \in NodeRecords /\ nodes[n].end \in 0 .. Len(lines)
      /\ scopes \in Seq(1 .. Len(nodes))
  <2>1. scopes \in Seq(1 .. Len(nodes))
    BY TypedFacts DEF Typed, TypeOK
  <2>2. kept \in Nat /\ Len(lines) \in Nat
    BY TypedFacts
  <2> QED BY <2>1, <2>2, TypedFacts
<1>2. Len(outer) = kept /\ \A i \in 1 .. kept : outer[i] = scopes[i]
  BY <1>1
<1>3. InPlace(ns) /\ Len(ns) = Len(nodes)
  BY SettledInPlace
<1>4. ASSUME NEW n \in 1 .. Len(nodes)
      PROVE  ns[n].end = IF Shut(n) THEN Max(Ends0(n)) ELSE nodes[n].end
  <2>1. ns[n] = IF Shut(n) THEN finalizeScope(n, Households(n)) ELSE nodes[n]
    BY <1>1 DEF Settled
  <2>2. finalizeScope(n, Households(n)).end = Max(Ends0(n))
    <3>1. PICK e : e = Max(Ends0(n))
      OBVIOUS
    <3>2. [nodes[n] EXCEPT !.end = e].end = e
      BY <1>1 DEF NodeRecords
    <3>3. finalizeScope(n, Households(n)) = [nodes[n] EXCEPT !.end = e]
      BY <3>1 DEF finalizeScope
    <3> QED BY <3>1, <3>2, <3>3
  <2> HIDE DEF ns, Shut, Ends0
  <2> QED BY <2>1, <2>2
<1> HIDE DEF ns, outer
<1>5. \A n : Households(n) \subseteq 1 .. Len(nodes)
  <2>1. ASSUME NEW j \in DOMAIN scopes PROVE Family(scopes[j]) \subseteq 1 .. Len(nodes)
    BY <1>1 DEF Family, Children
  <2> QED BY <2>1 DEF Households
<1>6. ASSUME NEW n, Households(n) # {}
      PROVE  Max(Ends0(n)) \in Ends0(n) /\ \A q \in Ends0(n) : q <= Max(Ends0(n))
  <2>1. Ends0(n) \in SUBSET (0 .. Len(lines)) /\ Ends0(n) # {}
    BY <1>1, <1>5, <1>6
  <2> HIDE DEF Ends0
  <2> QED BY <1>1, <2>1, MaxExists
<1> SUFFICES ASSUME NEW c \in 1 .. Len(nodes), ~InOpen(ns, outer, c)
             PROVE  ns[c].end <= ns[ns[c].parent].end
  BY <1>3 DEF Covers, ns, outer
<1>7. PICK p : p = nodes[c].parent
  OBVIOUS
<1>8. /\ ns[c].parent = p /\ p # 0 /\ p \in 1 .. Len(nodes)
      /\ \A i \in 1 .. kept : scopes[i] # p
  <2>1. ns[c].parent = p
    BY <1>3, <1>7 DEF InPlace
  <2>2. p # 0 /\ \A i \in 1 .. kept : scopes[i] # p
    BY <1>2, <2>1 DEF InOpen
  <2>3. p \in 0 .. c - 1
    BY <1>7 DEF Rooted
  <2> QED BY <1>1, <2>1, <2>2, <2>3
<1>9. ASSUME NEW i \in 1 .. Len(scopes), scopes[i] = c
      PROVE  i # 1 /\ i - 1 \in 1 .. Len(scopes) /\ scopes[i - 1] = p
  <2>1. nodes[scopes[i]].parent = IF i = 1 THEN 0 ELSE scopes[i - 1]
    BY DEF Stacked
  <2>2. i # 1
    BY <1>7, <1>8, <1>9, <2>1
  <2> QED BY <1>1, <1>7, <1>9, <2>1, <2>2
<1>10. CASE Shut(p)
  <2>1. PICK i \in 1 .. Len(scopes) : i > kept /\ scopes[i] = p
    BY <1>1, <1>10
  <2>2. Family(p) \subseteq Households(p)
    <3>1. i \in {j \in DOMAIN scopes : \E k \in DOMAIN scopes : scopes[k] = p /\ k <= j}
      <4>1. i \in DOMAIN scopes /\ scopes[i] = p /\ i <= i
        BY <1>1, <2>1
      <4> QED BY <4>1
    <3> QED BY <2>1, <3>1 DEF Households
  <2>3. c \in Households(p)
    BY <1>1, <1>7, <2>2 DEF Family, Children
  <2>4. ns[p].end = Max(Ends0(p)) /\ \A q \in Ends0(p) : q <= Max(Ends0(p))
    BY <1>4, <1>6, <1>8, <1>10, <2>3
  <2>5. CASE Shut(c)
    <3>1. Households(c) \subseteq Households(p)
      <4> SUFFICES ASSUME NEW x \in Households(c) PROVE x \in Households(p)
        OBVIOUS
      <4>1. PICK j \in DOMAIN scopes : /\ x \in Family(scopes[j])
                                       /\ \E k \in DOMAIN scopes : scopes[k] = c /\ k <= j
        BY DEF Households
      <4>2. PICK k \in DOMAIN scopes : scopes[k] = c /\ k <= j
        BY <4>1
      <4>3. k - 1 \in DOMAIN scopes /\ scopes[k - 1] = p /\ k - 1 <= j
        <5>0. DOMAIN scopes = 1 .. Len(scopes) /\ Len(scopes) \in Nat
          BY <1>1
        <5>1. k \in 1 .. Len(scopes) /\ j \in Nat /\ k \in Nat /\ k <= j
          BY <4>2, <5>0
        <5>2. k - 1 \in 1 .. Len(scopes) /\ scopes[k - 1] = p
          BY <1>9, <4>2, <5>1
        <5> QED BY <1>1, <5>1, <5>2
      <4>4. j \in {m \in DOMAIN scopes : \E h \in DOMAIN scopes : scopes[h] = p /\ h <= m}
        BY <4>3
      <4> QED BY <4>1, <4>4 DEF Households
    <3>2. c \in Households(c)
      <4>1. PICK k \in DOMAIN scopes : scopes[k] = c
        BY <2>5
      <4>2. k \in {m \in DOMAIN scopes : \E h \in DOMAIN scopes : scopes[h] = c /\ h <= m}
        BY <1>1, <4>1
      <4> QED BY <4>1, <4>2 DEF Households, Family
    <3>3. Max(Ends0(c)) \in Ends0(c)
      BY <1>6, <3>2
    <3>4. Max(Ends0(c)) \in Ends0(p)
      BY <3>1, <3>3
    <3>5. ns[c].end = Max(Ends0(c))
      BY <1>4, <2>5
    <3> QED BY <1>8, <2>4, <3>4, <3>5
  <2>6. CASE ~Shut(c)
    <3>1. ns[c].end = nodes[c].end /\ nodes[c].end \in Ends0(p)
      BY <1>4, <2>3, <2>6
    <3> QED BY <1>8, <2>4, <3>1
  <2> QED BY <2>5, <2>6
<1>11. CASE ~Shut(p)
  <2>1. \A i \in 1 .. Len(scopes) : scopes[i] # p
    <3>1. \A i \in 1 .. Len(scopes) : i > kept \/ i \in 1 .. kept
      BY <1>1
    <3> QED BY <1>1, <1>8, <1>11, <3>1
  <2>2. ~Shut(c)
    BY <1>1, <1>9, <2>1
  <2>3. nodes[c].end <= nodes[p].end
    BY <1>7, <1>8, <2>1 DEF Covers, InOpen
  <2> QED BY <1>4, <1>8, <1>11, <2>2, <2>3
<1> QED BY <1>10, <1>11

LEMMA OpenAfterCovers ==
    ASSUME Typed, Rooted, Stacked(nodes, scopes), Covers(nodes, scopes), NEW kept \in 0 .. Len(scopes),
           NEW w, OpenAfter(kept, w)
    PROVE  Covers(nodes', scopes')
<1> DEFINE outer == SubSeq(scopes, 1, kept)
           ns    == Settled(kept)
           N     == Len(nodes)
           new   == [Node(w) EXCEPT !.parent = IF kept = 0 THEN 0 ELSE outer[kept]]
<1>0. N \in Nat /\ scopes \in Seq(1 .. Len(nodes)) /\ kept \in Nat /\ Len(scopes) \in Nat
  BY TypedFacts DEF Typed, TypeOK
<1>1. nodes' = Append(ns, new) /\ scopes' = Append(outer, N + 1)
  BY DEF OpenAfter
<1>2. Covers(ns, outer)
  BY SettledCovers
<1>3. ns \in Seq(NodeRecords) /\ Len(ns) = N /\ InPlace(ns)
  BY SettledKeeps, SettledInPlace DEF SameNodes
<1>4. new.parent = IF kept = 0 THEN 0 ELSE outer[kept]
  BY DEF Node
<1>5. outer \in Seq(1 .. N) /\ Len(outer) = kept
  BY <1>0
<1> HIDE DEF new, ns, outer, N
<1>6. /\ Len(nodes') = N + 1 /\ nodes'[N + 1] = new /\ \A n \in 1 .. N : nodes'[n] = ns[n]
      /\ Len(scopes') = kept + 1 /\ \A i \in 1 .. kept : scopes'[i] = outer[i]
  BY <1>0, <1>1, <1>3, <1>5
<1>7. InOpen(nodes', scopes', N + 1)
  <2>1. kept # 0 => kept \in 1 .. kept + 1 /\ kept \in 1 .. kept
    BY <1>0
  <2> QED BY <1>4, <1>6, <2>1 DEF InOpen
<1>8. ASSUME NEW c \in 1 .. N, ~InOpen(nodes', scopes', c)
      PROVE  nodes'[c].end <= nodes'[nodes'[c].parent].end
  <2>1. ~InOpen(ns, outer, c)
    <3>1. \A i \in 1 .. kept : i \in 1 .. kept + 1
      BY <1>0
    <3> QED BY <1>5, <1>6, <1>8, <3>1 DEF InOpen
  <2>2. ns[c].end <= ns[ns[c].parent].end /\ ns[c].parent # 0
    BY <1>2, <1>3, <2>1 DEF Covers, InOpen
  <2>3. ns[c].parent = nodes[c].parent /\ nodes[c].parent \in 0 .. c - 1
    BY <1>3 DEF InPlace, Rooted, N
  <2>4. ns[c].parent \in 1 .. N
    BY <1>0, <2>2, <2>3
  <2> QED BY <1>6, <2>2, <2>4
<1>9. 1 .. N + 1 = 1 .. N \cup {N + 1}
  BY <1>0
<1> QED BY <1>6, <1>7, <1>8, <1>9 DEF Covers
LEMMA TargetOpen ==
    ASSUME Typed
    PROVE  implicitAttrTarget # 0 =>
             /\ implicitAttrTarget = lastCmd /\ lastCmd \in 1 .. Len(nodes)
             /\ InOpen(nodes, scopes, lastCmd)
<1>1. Len(scopes) \in Nat /\ DOMAIN scopes = 1 .. Len(scopes) /\ scopes \in Seq(1 .. Len(nodes))
  BY TypedFacts DEF Typed, TypeOK
<1>2. \A p : Contains(scopes, p) => \E i \in 1 .. Len(scopes) : scopes[i] = p
  BY <1>1 DEF Contains
<1> QED BY <1>2, TypedFacts DEF implicitAttrTarget, InOpen

Brace == "{"
Drifts(ls) == \E i \in DOMAIN ls : ls[i] = Brace /\ (i = 1 \/ ls[i - 1] \notin Said)

LEMMA AdriftDrifts == (adrift <=> Drifts(lines)) /\ (adrift' <=> Drifts(lines'))
BY Zenon DEF adrift, Drifts, Brace, Said

\* A line that leaves no problem finds none.
LEMMA CleanBefore ==
    ASSUME Typed, NEW w, Line(w), Clean'
    PROVE  /\ Clean /\ diags' = {}
           /\ Len(lines') = here /\ here = Len(lines) + 1 /\ lines'[here] = w
           /\ w = Brace => Len(lines) # 0 /\ lines[Len(lines)] \in Said
<1>1. diags \subseteq diags'
  <2>1. diags' = diags \/ \E more : diags' = diags \cup more
    BY DEF Line, Skip, closeSection, includeDirective, constDirective, openBrace,
       closeBrace, junkLine, structuralInBrace, structural, attributeLine, commandStatement,
       Report, closeScopes
  <2> QED BY <2>1
<1>2. w \in Words /\ lines' = Append(lines, w)
  BY LineEffect DEF Effect
<1>3. lines \in Seq(Words) /\ Len(lines) \in Nat
  BY DEF Typed, TypeOK
<1>4. /\ Len(lines') = here /\ here = Len(lines) + 1 /\ lines'[here] = w
      /\ DOMAIN lines' = 1 .. here /\ DOMAIN lines = 1 .. Len(lines)
      /\ \A i \in 1 .. Len(lines) : lines'[i] = lines[i]
  BY <1>2, <1>3 DEF here
<1>n. Len(lines) \in Nat
  BY <1>3
<1>5. ~Drifts(lines')
  BY Zenon, AdriftDrifts DEF Clean
<1>6. ~Drifts(lines)
  <2> SUFFICES ASSUME NEW i \in 1 .. Len(lines), lines[i] = Brace,
                      i = 1 \/ lines[i - 1] \notin Said
               PROVE  FALSE
    BY <1>4 DEF Drifts
  <2>1. i \in DOMAIN lines' /\ lines'[i] = Brace
    BY <1>n, <1>4
  <2>2. i = 1 \/ lines'[i - 1] \notin Said
    <3>1. i # 1 => i - 1 \in 1 .. Len(lines)
      BY <1>n
    <3> QED BY <1>4, <3>1
  <2> QED BY <1>5, <2>1, <2>2 DEF Drifts
<1>7. ASSUME w = Brace PROVE Len(lines) # 0 /\ lines[Len(lines)] \in Said
  <2>1. here \in DOMAIN lines' /\ lines'[here] = Brace
    BY <1>n, <1>4, <1>7
  <2>2. here # 1 /\ lines'[here - 1] \in Said
    BY <1>5, <2>1 DEF Drifts
  <2>3. Len(lines) # 0 /\ here - 1 = Len(lines) /\ Len(lines) \in 1 .. Len(lines)
    BY <1>n, <1>4, <2>2
  <2> QED BY <1>4, <2>2, <2>3
<1>8. diags' = {}
  BY DEF Clean
<1> QED BY <1>1, <1>4, <1>6, <1>7, <1>8, AdriftDrifts DEF Clean

\* The end of a node in an open scope moves to this line.
LEMMA EndMoves ==
    ASSUME Typed, Rooted, Covers(nodes, scopes), NEW t \in 1 .. Len(nodes), InOpen(nodes, scopes, t),
           \/ nodes' = [nodes EXCEPT ![t].end = here]
           \/ AttributeTo(t),
           scopes' = scopes
    PROVE  Covers(nodes', scopes') /\ InPlace(nodes')
<1>1. /\ \A n \in 1 .. Len(nodes) : nodes[n] \in NodeRecords
      /\ DOMAIN nodes = 1 .. Len(nodes)
  BY TypedFacts
<1>2. InPlace(nodes') /\ Len(nodes') = Len(nodes)
  <2>1. PICK a, b : /\ a = [nodes EXCEPT ![t].end = here]
                    /\ b = [nodes EXCEPT ![t].attrs = Append(@, here), ![t].end = here]
    OBVIOUS
  <2>2. InPlace(a) /\ Len(a) = Len(nodes) /\ InPlace(b) /\ Len(b) = Len(nodes)
    BY <2>1, ExceptInPlace
  <2>3. nodes' = a \/ nodes' = b
    BY <2>1 DEF AttributeTo
  <2> QED BY <2>2, <2>3
<1>3. \A n \in 1 .. Len(nodes) : n # t => nodes'[n].end = nodes[n].end
  BY <1>1 DEF AttributeTo
<1>4. nodes'[t].end = here
  <2>1. PICK r1, r2 : /\ r1 = [nodes[t] EXCEPT !.end = here]
                      /\ r2 = [nodes[t] EXCEPT !.attrs = Append(@, here), !.end = here]
    OBVIOUS
  <2>2. nodes[t] \in NodeRecords
    BY <1>1
  <2>3. r1.end = here /\ r2.end = here
    BY <2>1, <2>2 DEF NodeRecords
  <2>4. nodes'[t] = r1 \/ nodes'[t] = r2
    BY <1>1, <2>1 DEF AttributeTo
  <2> QED BY <2>3, <2>4
<1> QED BY <1>2, <1>3, <1>4, CoversStays

\* A new command stands in the scope that is open.
LEMMA CommandOpen ==
    ASSUME Typed, Rooted, Covers(nodes, scopes), NEW w, commandLine(w), scopes' = scopes
    PROVE  /\ Covers(nodes', scopes') /\ InPlace(nodes') /\ lastCmd' = Len(nodes) + 1
           /\ InOpen(nodes', scopes', Len(nodes) + 1)
           /\ owner' \in {owner, Len(nodes) + 1}
<1>1. /\ nodes' = Append(nodes, Node(w)) /\ lastCmd' = Len(nodes) + 1
      /\ owner' \in {owner, Len(nodes) + 1}
      /\ nodes \in Seq(NodeRecords) /\ Len(nodes) \in Nat /\ Len(scopes) \in Nat
  BY TypedFacts DEF commandLine
<1>2. /\ Len(nodes') = Len(nodes) + 1 /\ nodes'[Len(nodes) + 1] = Node(w)
      /\ \A n \in 1 .. Len(nodes) : nodes'[n] = nodes[n]
  BY <1>1
<1>3. InPlace(nodes')
  BY <1>2 DEF InPlace
<1>4. InOpen(nodes', scopes', Len(nodes) + 1)
  <2>1. Node(w).parent = Parent
    BY DEF Node
  <2>2. scopes = <<>> \/ (Len(scopes) \in 1 .. Len(scopes) /\ Last(scopes) = scopes[Len(scopes)])
    BY DEF Typed, TypeOK, Last
  <2> QED BY <1>2, <2>1, <2>2 DEF Parent, InOpen
<1>5. Covers(nodes', scopes')
  BY <1>2, <1>3, <1>4, CoversAdded
<1> QED BY <1>1, <1>3, <1>4, <1>5

LEMMA LineEnds ==
    ASSUME Typed, Rooted, EndsInv, NEW w, Line(w), Clean'
    PROVE  Covers(nodes', scopes') /\ OwnerOpen' /\ LatestOpen'
<1>1. /\ Clean /\ diags' = {}
      /\ Len(lines') = here /\ here = Len(lines) + 1 /\ lines'[here] = w
      /\ w = Brace => Len(lines) # 0 /\ lines[Len(lines)] \in Said
  BY CleanBefore
<1>2. Covers(nodes, scopes) /\ OwnerOpen /\ LatestOpen /\ Stacked(nodes, scopes)
  BY <1>1 DEF EndsInv
<1>3. w \notin Said => LatestOpen'
  BY <1>1 DEF LatestOpen
<1>4. owner \in 0 .. Len(nodes) /\ lastCmd \in 0 .. Len(nodes) /\ Len(nodes) \in Nat
  BY TypedFacts
<1>5. ASSUME nodes' = nodes, scopes' = scopes PROVE Covers(nodes', scopes')
             /\ (owner' = owner => OwnerOpen') /\ (owner' = 0 => OwnerOpen')
  BY <1>2, <1>5 DEF OwnerOpen
<1>6. CASE Skip(w)
  <2>1. nodes' = nodes /\ scopes' = scopes /\ owner' = owner /\ UNCHANGED xs
    BY <1>6 DEF Skip, tree
  <2>2. inXs \/ w \notin Said
    BY <1>6 DEF Skip, Said, Statements
  <2>3. inXs' = inXs
    BY <2>1 DEF xs
  <2>4. LatestOpen'
    BY <1>3, <2>2, <2>3 DEF LatestOpen
  <2> QED BY <1>5, <2>1, <2>4
<1>7. CASE closeSection(w) \/ includeDirective(w) \/ structuralInBrace(w)
  <2>1. nodes' = nodes /\ scopes' = scopes /\ owner' \in {0, owner}
    BY <1>7 DEF closeSection, includeDirective, structuralInBrace, tree, StatementLine
  <2>2. w \notin Said
    BY <1>7 DEF closeSection, includeDirective, structuralInBrace, Said, Statements, Headers,
       Directives, structuralWords
  <2> QED BY <1>3, <1>5, <2>1, <2>2
<1>8. CASE constDirective(w) \/ commandStatement(w)
  <2>1. commandLine(w) /\ scopes' = scopes
    BY <1>8 DEF constDirective, commandStatement
  <2>2. /\ Covers(nodes', scopes') /\ InPlace(nodes') /\ lastCmd' = Len(nodes) + 1
        /\ InOpen(nodes', scopes', Len(nodes) + 1)
        /\ owner' \in {owner, Len(nodes) + 1}
    BY <1>2, <2>1, CommandOpen
  <2>3. owner # 0 => InOpen(nodes', scopes', owner)
    BY <1>2, <1>4, <2>1, <2>2, OpenSame DEF OwnerOpen
  <2> QED BY <2>2, <2>3 DEF OwnerOpen, LatestOpen
<1>9. CASE openBrace(w)
  <2>1. /\ nodes' = nodes /\ scopes' = scopes /\ w = Brace /\ ~inXs /\ ~done
        /\ \/ owner = 0 /\ lastCmd # 0 /\ owner' = lastCmd
           \/ Report("unexpected {")
    BY Zenon, <1>9 DEF openBrace, StatementLine, Read, Brace
  <2>2. owner = 0 /\ lastCmd # 0 /\ owner' = lastCmd
    BY <1>1, <2>1 DEF Report
  <2>3. InOpen(nodes, scopes, lastCmd)
    BY <1>1, <1>2, <2>1, <2>2 DEF LatestOpen
  <2>4. w \notin Said
    BY <2>1 DEF Said, Statements, Brace
  <2> QED BY <1>3, <1>5, <2>1, <2>2, <2>3, <2>4 DEF OwnerOpen
<1>10. CASE closeBrace(w)
  <2>1. w \notin Said /\ scopes' = scopes
    BY <1>10 DEF closeBrace, Said, Statements
  <2>2. \/ owner # 0 /\ nodes' = [nodes EXCEPT ![owner].end = here] /\ owner' = 0
        \/ /\ implicitAttrTarget # 0 /\ owner = 0 /\ owner' = 0
           /\ nodes' = [nodes EXCEPT ![implicitAttrTarget].end = here]
        \/ Report("unexpected }")
    BY <1>10 DEF closeBrace
  <2>n. ~Report("unexpected }")
    BY <1>1 DEF Report
  <2>3. PICK t \in 1 .. Len(nodes) :
          InOpen(nodes, scopes, t) /\ nodes' = [nodes EXCEPT ![t].end = here]
    <3>1. owner # 0 => owner \in 1 .. Len(nodes) /\ InOpen(nodes, scopes, owner)
      BY <1>2, <1>4 DEF OwnerOpen
    <3>2. implicitAttrTarget # 0 => implicitAttrTarget \in 1 .. Len(nodes)
                                    /\ InOpen(nodes, scopes, implicitAttrTarget)
      BY TargetOpen
    <3> QED BY Zenon, <2>2, <2>n, <3>1, <3>2
  <2>4. owner' = 0
    BY Zenon, <2>2, <2>n
  <2>5. Covers(nodes', scopes')
    BY <1>2, <2>1, <2>3, EndMoves
  <2> QED BY <1>3, <2>1, <2>4, <2>5 DEF OwnerOpen
<1>11. CASE junkLine(w)
  BY <1>1, <1>11 DEF junkLine, Report
<1>12. CASE structural(w)
  <2>1. owner' = 0 /\ w \notin Said
    BY <1>12 DEF structural, Said, Statements, structuralWords
  <2>2. /\ Len(scopes) \in 0 .. Len(scopes)
        /\ scopes # <<>> => Len(scopes) - 1 \in 0 .. Len(scopes)
    <3>1. Len(scopes) \in Nat
      BY TypedFacts
    <3>2. scopes # <<>> => Len(scopes) # 0
      BY DEF Typed, TypeOK
    <3> QED BY <3>1, <3>2
  <2>3. \/ \E names : closeScopes(names)
        \/ \E kept \in 0 .. Len(scopes) : OpenAfter(kept, w)
    <3>0. w \in structuralWords
      BY <1>12 DEF structural
    <3>1. CASE w = "endif" \/ w = "end_random"
      BY <1>12, <3>1 DEF structural
    <3>2. CASE w = "else"
      BY <1>12, <3>2, KeptTyped DEF structural
    <3>3. CASE w = "percent_chance"
      BY <1>12, <2>2, <3>3 DEF structural
    <3>4. CASE w \in {"if", "start_random"}
      BY <1>12, <2>2, <3>4 DEF structural
    <3> QED BY <3>0, <3>1, <3>2, <3>3, <3>4 DEF structuralWords
  <2>4. ASSUME NEW names, closeScopes(names) PROVE Covers(nodes', scopes')
    BY <1>2, <2>4, KeptTyped, SettledCovers DEF closeScopes
  <2>5. Covers(nodes', scopes')
    BY <1>2, <2>3, <2>4, OpenAfterCovers
  <2> QED BY <1>3, <2>1, <2>5 DEF OwnerOpen
<1>13. CASE attributeLine(w)
  <2>1. /\ scopes' = scopes /\ owner' = owner /\ lastCmd' = lastCmd
        /\ \/ owner # 0 /\ AttributeTo(owner)
           \/ owner = 0 /\ implicitAttrTarget # 0 /\ AttributeTo(implicitAttrTarget)
    BY <1>13 DEF attributeLine
  <2>2. PICK t \in 1 .. Len(nodes) :
          /\ InOpen(nodes, scopes, t) /\ AttributeTo(t)
          /\ (owner # 0 /\ t = owner) \/ (owner = 0 /\ t = lastCmd)
    BY <1>2, <1>4, <2>1, TargetOpen DEF OwnerOpen
  <2>3. Covers(nodes', scopes') /\ InPlace(nodes')
    BY <1>2, <2>1, <2>2, EndMoves
  <2>4. InOpen(nodes', scopes', t)
    BY <2>1, <2>2, <2>3, OpenSame
  <2> QED BY <2>1, <2>2, <2>3, <2>4 DEF OwnerOpen, LatestOpen
<1> QED BY <1>6, <1>7, <1>8, <1>9, <1>10, <1>11, <1>12, <1>13 DEF Line

LEMMA CloseEnds ==
    ASSUME Typed, EndsInv, closeAll, Clean'
    PROVE  Covers(nodes', scopes') /\ OwnerOpen' /\ LatestOpen'
<1>1. /\ diags = {} /\ scopes = <<>> /\ lines' = lines /\ scopes' = <<>> /\ owner' = 0 /\ done'
      /\ nodes' = ClosedNodes
  BY DEF closeAll, Clean, ClosedNodes
<1>2. ~adrift
  BY <1>1 DEF Clean, adrift
<1>3. nodes' = nodes
  <2>1. \A n : ~Contains(scopes, n)
    BY <1>1 DEF Contains
  <2>2. nodes' = [n \in DOMAIN nodes |-> nodes[n]]
    BY <1>1, <2>1 DEF ClosedNodes
  <2> QED BY <2>2, TypedFacts
<1> QED BY <1>1, <1>2, <1>3 DEF EndsInv, Clean, OwnerOpen, LatestOpen

\* A line is read before the end of the file.
LEMMA LineOpen == ASSUME Typed, NEW w, Line(w) PROVE done' = FALSE
<1>1. ~done
  BY Zenon, LineEffect DEF Effect
<1>2. done' = done
  BY DEF Line, Skip, closeSection, includeDirective, constDirective, openBrace, closeBrace,
     junkLine, structuralInBrace, structural, attributeLine, commandStatement, StatementLine, Read
<1> QED BY <1>1, <1>2 DEF Typed, TypeOK

LEMMA EndsInit == Init => EndsInv
<1> SUFFICES ASSUME Init PROVE EndsInv
  OBVIOUS
<1>1. nodes = <<>> /\ scopes = <<>> /\ lines = <<>> /\ owner = 0
  BY DEF Init
<1>2. Len(nodes) = 0 /\ Len(scopes) = 0 /\ Len(lines) = 0
  BY <1>1
<1> QED BY <1>1, <1>2 DEF EndsInv, Stacked, Covers, OwnerOpen, LatestOpen

LEMMA EndsStep == LinesInv /\ LinesInv' /\ TreeInv /\ EndsInv /\ [Next]_vars => EndsInv'
<1> SUFFICES ASSUME LinesInv, LinesInv', TreeInv, EndsInv, [Next]_vars PROVE EndsInv'
  OBVIOUS
<1>0. Typed /\ Typed' /\ Rooted /\ Stacked(nodes, scopes)
  BY DEF LinesInv, TreeInv, EndsInv
<1>1. ASSUME NEW w, Line(w) PROVE EndsInv'
  <2>1. done' = FALSE
    BY Zenon, <1>0, <1>1, LineOpen
  <2> QED BY <1>0, <1>1, <2>1, LineOnTree, StackedStays, LineEnds DEF EndsInv
<1>2. CASE closeAll
  <2>1. scopes' = <<>>
    BY <1>2 DEF closeAll
  <2> QED BY <1>0, <1>2, <2>1, CloseOnTree, StackedStays, CloseEnds DEF EndsInv
<1>3. CASE UNCHANGED vars
  <2>1. /\ nodes' = nodes /\ scopes' = scopes /\ lines' = lines /\ owner' = owner
        /\ lastCmd' = lastCmd /\ diags' = diags /\ (inXs' <=> inXs) /\ (done' <=> done)
    BY Zenon, <1>3 DEF vars, tree, xs
  <2> QED BY <2>1 DEF EndsInv, Clean, adrift, OwnerOpen, LatestOpen
<1> QED BY <1>1, <1>2, <1>3 DEF Next
------------------------------------------------------------------------------
(* Sections *)

\* A section ends where the next one begins, and holds its statements' starts.
SectsInv ==
    /\ \A s \in 1 .. cur : sects[s].start <= here
    /\ \A s \in 1 .. cur - 1 : sects[s].end = sects[s + 1].start
    /\ \A n \in 1 .. Len(nodes) :
         /\ nodes[n].sect \in 1 .. cur /\ sects[nodes[n].sect].start <= nodes[n].start
         /\ nodes[n].sect # cur => nodes[n].start < sects[nodes[n].sect + 1].start
    /\ done => sects[cur].end = here

\* The section that is filled ends, and the next one may begin.
SectsEffect ==
    \/ sects' = sects
    \/ /\ nodes' = nodes
       /\ \E s \in Sections : s.start = here /\ sects' = Append([sects EXCEPT ![cur].end = here], s)

LEMMA SectsOfLine ==
    ASSUME Typed, NEW w, Line(w)
    PROVE  SectsEffect
<1>1. CASE closeSection(w)
  <2>1. /\ nodes' = nodes
        /\ sects' = Append([sects EXCEPT ![cur].end = here],
                           Section(IF w = "</name>" THEN "global" ELSE "name"))
    BY <1>1 DEF closeSection
  <2>2. \A name \in {"global", "name"} : Section(name) \in Sections /\ Section(name).start = here
    BY TypedFacts DEF Section, Sections
  <2> QED BY <2>1, <2>2 DEF SectsEffect
<1>2. CASE ~closeSection(w)
  <2>1. sects' = sects
    BY <1>2 DEF Line, Skip, includeDirective, constDirective, openBrace, closeBrace, junkLine,
       structuralInBrace, structural, attributeLine, commandStatement, StatementLine, tree
  <2> QED BY <2>1 DEF SectsEffect
<1> QED BY <1>1, <1>2

LEMMA SectEnded ==
    ASSUME Typed
    PROVE  LET ended == [sects EXCEPT ![cur].end = here]
           IN /\ ended \in Seq(Sections) /\ Len(ended) = cur /\ ended[cur].end = here
              /\ \A s \in 1 .. cur : ended[s].start = sects[s].start
              /\ \A s \in 1 .. cur : s # cur => ended[s] = sects[s]
<1>1. sects \in Seq(Sections) /\ cur \in Nat /\ cur # 0 /\ here \in Nat
  BY TypedFacts DEF Typed, TypeOK, Sections, cur
<1>2. PICK r : r = [sects[cur] EXCEPT !.end = here]
  OBVIOUS
<1>3. sects[cur] \in Sections
  BY <1>1 DEF cur
<1>4. r \in Sections /\ r.end = here /\ r.start = sects[cur].start
  BY <1>1, <1>2, <1>3 DEF Sections
<1>5. [sects EXCEPT ![cur].end = here] = [sects EXCEPT ![cur] = r]
  BY <1>2
<1>6. PICK ended : ended = [sects EXCEPT ![cur] = r]
  OBVIOUS
<1>7. /\ ended \in Seq(Sections) /\ Len(ended) = cur
      /\ \A s \in 1 .. cur : ended[s] = IF s = cur THEN r ELSE sects[s]
  BY <1>1, <1>4, <1>6 DEF cur
<1>8. cur \in 1 .. cur
  BY <1>1
<1> QED BY <1>4, <1>5, <1>6, <1>7, <1>8

LEMMA SectsStay ==
    ASSUME Typed, Typed', Dated, SectsInv, TreeEffect, SectsEffect, here' = here + 1, done' = FALSE
    PROVE  SectsInv'
<1>1. /\ Len(nodes) \in Nat /\ cur \in Nat /\ cur # 0 /\ here \in Nat /\ here = Len(lines) + 1
      /\ \A n \in 1 .. Len(nodes) :
           /\ nodes[n].start \in 0 .. Len(lines)
           /\ nodes'[n].sect = nodes[n].sect /\ nodes'[n].start = nodes[n].start
      /\ sects \in Seq(Sections) /\ \A s \in 1 .. cur : sects[s].start \in Nat /\ sects[s].end \in Nat
  <2>1. sects \in Seq(Sections) /\ cur = Len(sects) /\ cur # 0
    BY DEF Typed, TypeOK, Sections, cur
  <2>2. \A s \in 1 .. cur : sects[s].start \in Nat /\ sects[s].end \in Nat
    <3>1. \A s \in 1 .. cur : sects[s] \in Sections
      BY <2>1
    <3> QED BY <3>1 DEF Sections
  <2> QED BY <2>1, <2>2, TreeTyped, DatedFacts DEF TreeEffect, InPlace
<1>2. CASE sects' = sects
  <2>1. cur' = cur
    BY <1>2 DEF cur
  <2>2. ASSUME NEW n \in 1 .. Len(nodes')
        PROVE  /\ nodes'[n].sect \in 1 .. cur /\ sects[nodes'[n].sect].start <= nodes'[n].start
               /\ nodes'[n].sect # cur => nodes'[n].start < sects[nodes'[n].sect + 1].start
    <3>1. CASE n \in 1 .. Len(nodes)
      BY <1>1, <3>1 DEF SectsInv
    <3>2. CASE n = Len(nodes) + 1 /\ Len(nodes') = Len(nodes) + 1
      <4>1. nodes'[n].sect = cur /\ nodes'[n].start = here
        BY <1>1, <3>2 DEF TreeEffect
      <4>2. cur \in 1 .. cur /\ sects[cur].start <= here
        BY <1>1 DEF SectsInv
      <4> QED BY <4>1, <4>2
    <3> QED BY <1>1, <3>1, <3>2 DEF TreeEffect
  <2>3. \A s \in 1 .. cur : sects[s].start <= here'
    BY <1>1 DEF SectsInv
  <2> QED BY <1>2, <2>1, <2>2, <2>3 DEF SectsInv
<1>3. ASSUME NEW s \in Sections, s.start = here, nodes' = nodes,
             sects' = Append([sects EXCEPT ![cur].end = here], s)
      PROVE  SectsInv'
  <2>1. PICK ended : ended = [sects EXCEPT ![cur].end = here]
    OBVIOUS
  <2>2. /\ ended \in Seq(Sections) /\ Len(ended) = cur /\ ended[cur].end = here
        /\ \A i \in 1 .. cur : ended[i].start = sects[i].start
        /\ \A i \in 1 .. cur : i # cur => ended[i] = sects[i]
    BY <2>1, SectEnded
  <2>3. /\ Len(sects') = cur + 1 /\ sects'[cur + 1] = s
        /\ \A i \in 1 .. cur : sects'[i] = ended[i]
    BY <1>1, <1>3, <2>1, <2>2
  <2>4. cur' = cur + 1
    BY <2>3 DEF cur
  <2>5. \A i \in 1 .. cur + 1 : sects'[i].start <= here'
    <3>1. \A i \in 1 .. cur : sects'[i].start <= here'
      <4> SUFFICES ASSUME NEW i \in 1 .. cur PROVE sects'[i].start <= here'
        OBVIOUS
      <4>1. sects'[i].start = sects[i].start
        BY <2>2, <2>3
      <4>2. sects[i].start \in Nat /\ sects[i].start <= here
        BY <1>1 DEF SectsInv
      <4> QED BY <1>1, <4>1, <4>2
    <3>2. sects'[cur + 1].start <= here'
      BY <1>1, <1>3, <2>3
    <3>3. 1 .. cur + 1 = 1 .. cur \cup {cur + 1}
      BY <1>1
    <3> QED BY <3>1, <3>2, <3>3
  <2>6. ASSUME NEW i \in 1 .. cur PROVE sects'[i].end = sects'[i + 1].start
    <3>1. CASE i = cur
      BY <1>1, <1>3, <2>2, <2>3, <3>1
    <3>2. CASE i \in 1 .. cur - 1
      <4>1. i # cur /\ i + 1 \in 1 .. cur
        BY <1>1, <3>2
      <4> QED BY <2>2, <2>3, <3>2, <4>1 DEF SectsInv
    <3> QED BY <1>1, <3>1, <3>2
  <2>7. ASSUME NEW n \in 1 .. Len(nodes)
        PROVE  /\ nodes[n].sect \in 1 .. cur + 1 /\ sects'[nodes[n].sect].start <= nodes[n].start
               /\ nodes[n].start < sects'[nodes[n].sect + 1].start
    <3>1. /\ nodes[n].sect \in 1 .. cur /\ sects[nodes[n].sect].start <= nodes[n].start
          /\ nodes[n].sect # cur => nodes[n].start < sects[nodes[n].sect + 1].start
      BY DEF SectsInv
    <3>2. CASE nodes[n].sect = cur
      BY <1>1, <1>3, <2>2, <2>3, <3>1, <3>2
    <3>3. CASE nodes[n].sect # cur
      <4>1. nodes[n].sect + 1 \in 1 .. cur /\ nodes[n].sect \in 1 .. cur + 1
        <5>1. PICK t : t = nodes[n].sect
          OBVIOUS
        <5>2. cur \in Nat /\ t \in 1 .. cur /\ t # cur
          BY <1>1, <3>1, <3>3, <5>1
        <5>3. t + 1 \in 1 .. cur /\ t \in 1 .. cur + 1
          BY <5>2
        <5> QED BY <5>1, <5>3
      <4> QED BY <2>2, <2>3, <3>1, <3>3, <4>1
    <3> QED BY <3>2, <3>3
  <2>8. cur' - 1 = cur
    BY <1>1, <2>4
  <2>9. /\ \A i \in 1 .. cur' : sects'[i].start <= here'
        /\ \A i \in 1 .. cur' - 1 : sects'[i].end = sects'[i + 1].start
    <3>1. \A i \in 1 .. cur' : sects'[i].start <= here'
      BY <2>4, <2>5
    <3>2. \A i \in 1 .. cur' - 1 : sects'[i].end = sects'[i + 1].start
      BY <2>6, <2>8
    <3> QED BY <3>1, <3>2
  <2>10. \A n \in 1 .. Len(nodes') :
           /\ nodes'[n].sect \in 1 .. cur' /\ sects'[nodes'[n].sect].start <= nodes'[n].start
           /\ nodes'[n].sect # cur' => nodes'[n].start < sects'[nodes'[n].sect + 1].start
    BY <1>3, <2>4, <2>7
  <2> QED BY <2>9, <2>10 DEF SectsInv
<1> QED BY <1>2, <1>3 DEF SectsEffect

LEMMA SectsClose ==
    ASSUME Typed, SectsInv, closeAll
    PROVE  SectsInv'
<1>1. /\ nodes' = ClosedNodes /\ sects' = [sects EXCEPT ![cur].end = here] /\ lines' = lines
  BY DEF closeAll, ClosedNodes
<1>2. /\ InPlace(nodes') /\ Len(nodes') = Len(nodes) /\ here' = here
  BY <1>1, SettledInPlace DEF here
<1>3. /\ Len(sects') = cur /\ sects'[cur].end = here /\ cur \in Nat /\ cur # 0
      /\ \A s \in 1 .. cur : sects'[s].start = sects[s].start
      /\ \A s \in 1 .. cur : s # cur => sects'[s] = sects[s]
  BY <1>1, SectEnded DEF Typed, TypeOK, cur
<1>4. cur' = cur
  BY <1>3 DEF cur
<1>5. \A s \in 1 .. cur - 1 : s \in 1 .. cur /\ s # cur /\ s + 1 \in 1 .. cur
  BY <1>3
<1>6. \A s \in 1 .. cur - 1 : sects'[s].end = sects'[s + 1].start
  BY <1>3, <1>5 DEF SectsInv
<1>7. ASSUME NEW n \in 1 .. Len(nodes)
      PROVE  /\ nodes'[n].sect \in 1 .. cur /\ sects'[nodes'[n].sect].start <= nodes'[n].start
             /\ nodes'[n].sect # cur => nodes'[n].start < sects'[nodes'[n].sect + 1].start
  <2>1. nodes'[n].sect = nodes[n].sect /\ nodes'[n].start = nodes[n].start
    BY <1>2 DEF InPlace
  <2>2. /\ nodes[n].sect \in 1 .. cur /\ sects[nodes[n].sect].start <= nodes[n].start
        /\ nodes[n].sect # cur => nodes[n].start < sects[nodes[n].sect + 1].start
    BY DEF SectsInv
  <2>3. nodes[n].sect # cur => nodes[n].sect + 1 \in 1 .. cur
    BY <1>3, <2>2
  <2> QED BY <1>3, <2>1, <2>2, <2>3
<1> QED BY <1>2, <1>3, <1>4, <1>6, <1>7 DEF SectsInv

LEMMA SectsInit == Init => SectsInv
<1> SUFFICES ASSUME Init PROVE SectsInv
  OBVIOUS
<1>1. nodes = <<>> /\ lines = <<>> /\ sects = <<[name |-> "global", start |-> 1, end |-> 1]>>
  BY DEF Init
<1>2. ~done
  BY Zenon DEF Init
<1>3. Len(nodes) = 0 /\ here = 1 /\ cur = 1 /\ sects[1].start = 1
  BY <1>1 DEF here, cur
<1> QED BY <1>2, <1>3 DEF SectsInv

LEMMA SectsStep == LinesInv /\ LinesInv' /\ SectsInv /\ [Next]_vars => SectsInv'
<1> SUFFICES ASSUME LinesInv, LinesInv', SectsInv, [Next]_vars PROVE SectsInv'
  OBVIOUS
<1>0. Typed /\ Typed' /\ Dated
  BY DEF LinesInv
<1>1. ASSUME NEW w, Line(w) PROVE SectsInv'
  <2>1. ~done' /\ lines' = Append(lines, w) /\ w \in Words
    BY Zenon, <1>0, <1>1, LineEffect DEF Effect
  <2>2. here' = here + 1
    BY <1>0, <2>1 DEF Typed, TypeOK, here
  <2>3. done' = FALSE
    BY <1>0, <2>1 DEF Typed, TypeOK
  <2> QED BY <1>0, <1>1, <2>2, <2>3, LineOnTree, SectsOfLine, SectsStay
<1>2. CASE closeAll
  BY <1>0, <1>2, SectsClose
<1>3. CASE UNCHANGED vars
  <2>1. nodes' = nodes /\ lines' = lines /\ sects' = sects /\ (done' <=> done)
    BY Zenon, <1>3 DEF vars, tree
  <2> QED BY <2>1 DEF SectsInv, here, cur
<1> QED BY <1>1, <1>2, <1>3 DEF Next
------------------------------------------------------------------------------
(* The ranges around a position *)

LEMMA MinExists ==
    ASSUME NEW n \in Nat, NEW T \in SUBSET (0 .. n), T # {}
    PROVE  Min(T) \in T /\ \A q \in T : Min(T) <= q
<1> DEFINE F == {n - q : q \in T}
<1>1. F \in SUBSET (0 .. n) /\ F # {}
  <2>1. PICK x \in T : TRUE
    OBVIOUS
  <2>2. n - x \in F
    BY <2>1
  <2>3. \A q \in T : n - q \in 0 .. n
    OBVIOUS
  <2>4. \A y \in F : \E q \in T : y = n - q
    OBVIOUS
  <2> HIDE DEF F
  <2> QED BY <2>2, <2>3, <2>4
<1> HIDE DEF F
<1>2. Max(F) \in F /\ \A q \in F : q <= Max(F)
  BY <1>1, MaxExists
<1>3. PICK x \in T : Max(F) = n - x
  BY <1>2 DEF F
<1>4. ASSUME NEW q \in T PROVE x <= q
  <2>1. n - q \in F
    BY DEF F
  <2>2. n - q <= n - x
    BY <1>2, <1>3, <2>1
  <2> QED BY <2>2
<1> QED BY <1>4 DEF Min

LEMMA FirstFacts ==
    ASSUME Typed, NEW ns \in SUBSET (1 .. Len(nodes)), NEW pos, firstAt(ns, pos) # {}
    PROVE  \E n \in ns : inStatement(n, pos) /\ firstAt(ns, pos) = {n}
<1> DEFINE found == {n \in ns : inStatement(n, pos)}
<1>1. firstAt(ns, pos) = IF found = {} THEN {} ELSE {Min(found)}
  BY DEF firstAt
<1>2. found # {} /\ found \in SUBSET (0 .. Len(nodes)) /\ Len(nodes) \in Nat
  <2>1. found # {}
    BY <1>1
  <2>2. Len(nodes) \in Nat
    BY TypedFacts
  <2>3. 1 .. Len(nodes) \subseteq 0 .. Len(nodes)
    BY <2>2
  <2>4. found \subseteq ns
    OBVIOUS
  <2> QED BY <2>1, <2>2, <2>3, <2>4
<1>3. Min(found) \in found
  <2> HIDE DEF found
  <2> QED BY <1>2, MinExists
<1> QED BY <1>1, <1>2, <1>3

\* The next statement of the descent, 0 for none.
Inner(n, pos) == IF firstAt(Children(nodes, n), pos) = {} THEN 0
                 ELSE CHOOSE c \in firstAt(Children(nodes, n), pos) : TRUE

LEMMA InnerFacts ==
    ASSUME Typed, Rooted, NEW n \in 1 .. Len(nodes), NEW pos
    PROVE  /\ Inner(n, pos) = 0 <=> firstAt(Children(nodes, n), pos) = {}
           /\ Inner(n, pos) # 0 => /\ Inner(n, pos) \in n + 1 .. Len(nodes)
                                   /\ nodes[Inner(n, pos)].parent = n
                                   /\ inStatement(Inner(n, pos), pos)
<1> DEFINE found == firstAt(Children(nodes, n), pos)
<1>1. Len(nodes) \in Nat /\ DOMAIN nodes = 1 .. Len(nodes)
  BY TypedFacts
<1>2. ASSUME found # {}
      PROVE  /\ Inner(n, pos) \in n + 1 .. Len(nodes)
             /\ nodes[Inner(n, pos)].parent = n /\ inStatement(Inner(n, pos), pos)
  <2>1. Children(nodes, n) \in SUBSET (1 .. Len(nodes))
    BY <1>1 DEF Children
  <2>2. PICK c \in Children(nodes, n) : inStatement(c, pos) /\ found = {c}
    BY <1>2, <2>1, FirstFacts
  <2>3. Inner(n, pos) = c
    BY <2>2 DEF Inner
  <2>4. c \in 1 .. Len(nodes) /\ nodes[c].parent = n
    BY <1>1, <2>2 DEF Children
  <2>5. nodes[c].parent \in 0 .. c - 1
    BY <2>4 DEF Rooted
  <2>6. c \in n + 1 .. Len(nodes)
    BY <1>1, <2>4, <2>5
  <2> QED BY <2>2, <2>3, <2>4, <2>6
<1>3. found = {} => Inner(n, pos) = 0
  BY DEF Inner
<1> QED BY <1>1, <1>2, <1>3

\* The descent is a function here too.
LEMMA AroundExists ==
    ASSUME Typed, Rooted, NEW pos
    PROVE  \E f : f = [n \in DOMAIN nodes |->
                         IF Inner(n, pos) = 0 THEN <<n>> ELSE Append(f[Inner(n, pos)], n)]
<1> DEFINE N == Len(nodes)
           next(m) == Inner(m, pos)
           Solves(f, k) == f = [m \in k .. N |-> IF next(m) = 0 THEN <<m>> ELSE Append(f[next(m)], m)]
           Stuck == {k \in 1 .. N + 1 : ~\E f : Solves(f, k)}
<1>1. N \in Nat /\ DOMAIN nodes = 1 .. N
  BY TypedFacts
<1>2. \A m \in 1 .. N : next(m) # 0 => next(m) \in m + 1 .. N
  BY InnerFacts
<1> HIDE DEF next
<1>3. N + 1 \notin Stuck
  <2> DEFINE f == [m \in N + 1 .. N |-> m]
  <2>1. N + 1 .. N = {}
    BY <1>1
  <2>2. f = [m \in N + 1 .. N |-> IF next(m) = 0 THEN <<m>> ELSE Append(f[next(m)], m)]
    BY <2>1
  <2> HIDE DEF f
  <2>3. Solves(f, N + 1)
    BY <2>2
  <2> QED BY <2>3
<1>4. ASSUME NEW k \in 1 .. N, k + 1 \notin Stuck PROVE k \notin Stuck
  <2>1. PICK f : Solves(f, k + 1)
    BY <1>1, <1>4
  <2> DEFINE g == [m \in k .. N |->
                     IF m = k THEN (IF next(k) = 0 THEN <<k>> ELSE Append(f[next(k)], k)) ELSE f[m]]
  <2>2. \A m \in k + 1 .. N : f[m] = IF next(m) = 0 THEN <<m>> ELSE Append(f[next(m)], m)
    BY <2>1
  <2>3. /\ \A m \in k + 1 .. N : g[m] = f[m]
        /\ g[k] = IF next(k) = 0 THEN <<k>> ELSE Append(f[next(k)], k)
        /\ g = [m \in k .. N |-> g[m]]
    BY <1>1
  <2> HIDE DEF g
  <2>4. \A m \in k .. N : next(m) # 0 => next(m) \in k + 1 .. N
    <3>1. ASSUME NEW m \in k .. N, next(m) # 0 PROVE next(m) \in m + 1 .. N /\ m >= k
      BY <1>1, <1>2, <3>1
    <3> QED BY <1>1, <3>1
  <2>5. \A m \in k .. N : g[m] = IF next(m) = 0 THEN <<m>> ELSE Append(g[next(m)], m)
    <3>1. \A m \in k .. N : m = k \/ m \in k + 1 .. N
      BY <1>1
    <3> QED BY <2>2, <2>3, <2>4, <3>1
  <2>6. Solves(g, k)
    BY <2>3, <2>5
  <2> QED BY <2>6
<1>5. Stuck = {}
  <2> SUFFICES ASSUME Stuck # {} PROVE FALSE
    OBVIOUS
  <2>1. Stuck \in SUBSET (0 .. N + 1) /\ N + 1 \in Nat
    BY <1>1
  <2> DEFINE k == Max(Stuck)
  <2> HIDE DEF Stuck
  <2>2. k \in Stuck /\ \A q \in Stuck : q <= k
    BY <2>1, MaxExists
  <2>3. k \in 1 .. N + 1
    BY <2>2 DEF Stuck
  <2> HIDE DEF k
  <2>4. k \in 1 .. N
    BY <1>1, <1>3, <2>2, <2>3
  <2>5. k + 1 \notin Stuck
    BY <2>2, <2>4
  <2> QED BY <1>4, <2>2, <2>4, <2>5
<1>6. \E f : Solves(f, 1)
  <2>1. 1 \in 1 .. N + 1
    BY <1>1
  <2> QED BY <1>5, <2>1
<1> QED BY <1>1, <1>6 DEF next

\* Statements around a position, each the parent of the one before it.
Encloses(a, n, pos) ==
    /\ a \in Seq(1 .. Len(nodes)) /\ Len(a) # 0 /\ a[Len(a)] = n
    /\ \A i \in 1 .. Len(a) : inStatement(a[i], pos)
    /\ \A i \in 2 .. Len(a) : nodes[a[i - 1]].parent = a[i]

LEMMA EnclosingFacts ==
    ASSUME Typed, Rooted, NEW pos, NEW ns \in SUBSET (1 .. Len(nodes))
    PROVE  \/ enclosingStmts(ns, pos) = <<>>
           \/ \E n \in ns : Encloses(enclosingStmts(ns, pos), n, pos)
<1> DEFINE N == Len(nodes)
<1>1. N \in Nat /\ DOMAIN nodes = 1 .. N
  BY TypedFacts
<1>2. PICK f : /\ f = [n \in DOMAIN nodes |->
                         IF Inner(n, pos) = 0 THEN <<n>> ELSE Append(f[Inner(n, pos)], n)]
               /\ enclosingStmts(ns, pos) = IF firstAt(ns, pos) = {} THEN <<>>
                                            ELSE f[CHOOSE n \in firstAt(ns, pos) : TRUE]
  <2> DEFINE first(n) == firstAt(Children(nodes, n), pos)
             F == CHOOSE f : f = [n \in DOMAIN nodes |->
                    IF first(n) = {} THEN <<n>> ELSE Append(f[CHOOSE c \in first(n) : TRUE], n)]
  <2>1. \A n \in DOMAIN nodes : /\ Inner(n, pos) = 0 <=> first(n) = {}
                                /\ first(n) # {} => Inner(n, pos) = CHOOSE c \in first(n) : TRUE
    BY <1>1, InnerFacts DEF Inner
  <2>2. PICK f : f = [n \in DOMAIN nodes |->
                        IF Inner(n, pos) = 0 THEN <<n>> ELSE Append(f[Inner(n, pos)], n)]
    BY AroundExists
  <2>3. enclosingStmts(ns, pos) = IF firstAt(ns, pos) = {} THEN <<>>
                                  ELSE F[CHOOSE n \in firstAt(ns, pos) : TRUE]
    BY DEF enclosingStmts
  <2>4. f = [n \in DOMAIN nodes |->
               IF first(n) = {} THEN <<n>> ELSE Append(f[CHOOSE c \in first(n) : TRUE], n)]
    <3>1. \A n \in DOMAIN nodes :
            (IF Inner(n, pos) = 0 THEN <<n>> ELSE Append(f[Inner(n, pos)], n))
              = (IF first(n) = {} THEN <<n>> ELSE Append(f[CHOOSE c \in first(n) : TRUE], n))
      <4> HIDE DEF first
      <4> QED BY <2>1
    <3> HIDE DEF first
    <3> QED BY <2>2, <3>1
  <2>5. F = [n \in DOMAIN nodes |->
               IF first(n) = {} THEN <<n>> ELSE Append(F[CHOOSE c \in first(n) : TRUE], n)]
    <3> HIDE DEF first
    <3> QED BY <2>4
  <2>6. F = [n \in DOMAIN nodes |->
               IF Inner(n, pos) = 0 THEN <<n>> ELSE Append(F[Inner(n, pos)], n)]
    <3> HIDE DEF first, F
    <3>1. \A n \in DOMAIN nodes :
            (IF Inner(n, pos) = 0 THEN <<n>> ELSE Append(F[Inner(n, pos)], n))
              = (IF first(n) = {} THEN <<n>> ELSE Append(F[CHOOSE c \in first(n) : TRUE], n))
      BY <2>1
    <3> QED BY <2>5, <3>1
  <2> HIDE DEF F, first
  <2> QED BY <2>3, <2>6
<1>3. \A n \in 1 .. N : f[n] = IF Inner(n, pos) = 0 THEN <<n>> ELSE Append(f[Inner(n, pos)], n)
  BY <1>1, <1>2
<1> DEFINE Bad == {n \in 1 .. N : inStatement(n, pos) /\ ~Encloses(f[n], n, pos)}
<1>4. Bad = {}
  <2> SUFFICES ASSUME Bad # {} PROVE FALSE
    OBVIOUS
  <2>1. Bad \in SUBSET (0 .. N)
    OBVIOUS
  <2> DEFINE n == Max(Bad)
  <2> HIDE DEF Bad
  <2>2. n \in Bad /\ \A q \in Bad : q <= n
    BY <1>1, <2>1, MaxExists
  <2> HIDE DEF n
  <2>3. n \in 1 .. N /\ inStatement(n, pos) /\ ~Encloses(f[n], n, pos)
    BY <2>2 DEF Bad
  <2>4. CASE Inner(n, pos) = 0
    <3>1. f[n] = <<n>>
      BY <1>3, <2>3, <2>4
    <3>2. /\ <<n>> \in Seq(1 .. N) /\ Len(<<n>>) = 1 /\ <<n>>[1] = n
      BY <2>3
    <3> QED BY <2>3, <3>1, <3>2 DEF Encloses
  <2>5. CASE Inner(n, pos) # 0
    <3>1. PICK c : c = Inner(n, pos)
      OBVIOUS
    <3>2. /\ c \in n + 1 .. N /\ nodes[c].parent = n /\ inStatement(c, pos)
          /\ f[n] = Append(f[c], n)
      BY <1>3, <2>3, <2>5, <3>1, InnerFacts
    <3>3. Encloses(f[c], c, pos)
      <4>1. c \in 1 .. N /\ ~(c <= n)
        BY <1>1, <2>3, <3>2
      <4> QED BY <2>2, <3>2, <4>1 DEF Bad
    <3>4. PICK a : a = f[c]
      OBVIOUS
    <3>5. /\ a \in Seq(1 .. N) /\ Len(a) # 0 /\ Len(a) \in Nat /\ a[Len(a)] = c
          /\ \A i \in 1 .. Len(a) : inStatement(a[i], pos)
          /\ \A i \in 2 .. Len(a) : nodes[a[i - 1]].parent = a[i]
      BY <3>3, <3>4 DEF Encloses
    <3>6. PICK b : b = Append(a, n)
      OBVIOUS
    <3>7. /\ b \in Seq(1 .. N) /\ Len(b) = Len(a) + 1 /\ b[Len(a) + 1] = n
          /\ \A i \in 1 .. Len(a) : b[i] = a[i]
      BY <2>3, <3>5, <3>6
    <3>8. \A i \in 1 .. Len(b) : inStatement(b[i], pos)
      <4>1. \A i \in 1 .. Len(b) : i \in 1 .. Len(a) \/ i = Len(a) + 1
        BY <3>5, <3>7
      <4> QED BY <2>3, <3>5, <3>7, <4>1
    <3>9. ASSUME NEW i \in 2 .. Len(b) PROVE nodes[b[i - 1]].parent = b[i]
      <4>1. CASE i = Len(a) + 1
        <5>1. i - 1 = Len(a) /\ Len(a) \in 1 .. Len(a)
          BY <3>5, <4>1
        <5> QED BY <3>2, <3>5, <3>7, <4>1, <5>1
      <4>2. CASE i \in 2 .. Len(a)
        <5>1. i - 1 \in 1 .. Len(a) /\ i \in 1 .. Len(a)
          BY <3>5, <4>2
        <5> QED BY <3>5, <3>7, <4>2, <5>1
      <4> QED BY <3>5, <3>7, <4>1, <4>2
    <3>10. Encloses(b, n, pos)
      BY <3>5, <3>7, <3>8, <3>9 DEF Encloses
    <3> QED BY <2>3, <3>2, <3>4, <3>6, <3>10
  <2> QED BY <2>4, <2>5
<1>5. CASE firstAt(ns, pos) = {}
  BY <1>2, <1>5
<1>6. CASE firstAt(ns, pos) # {}
  <2>1. PICK n \in ns : inStatement(n, pos) /\ firstAt(ns, pos) = {n}
    BY <1>6, FirstFacts
  <2>2. enclosingStmts(ns, pos) = f[n]
    BY <1>2, <2>1
  <2>3. n \in 1 .. N /\ n \notin Bad
    BY <1>4, <2>1
  <2> QED BY <2>1, <2>2, <2>3
<1> QED BY <1>5, <1>6
------------------------------------------------------------------------------
(* The selection *)

Ranges0     == [kind : {"attr", "command", "section"}, start : Nat, end : Nat]
Grows(a, b) == b.start <= a.start /\ a.end <= b.end /\ a # b

\* A chain grows when its parts do.
LEMMA ChainGrows ==
    ASSUME NEW m \in Seq(Ranges0), NEW c \in Seq(Ranges0), NEW z \in Ranges0,
           Len(m) \in {0, 1}, Len(c) # 0,
           Len(m) = 1 => Grows(m[1], c[1]),
           \A i \in 2 .. Len(c) : Grows(c[i - 1], c[i]),
           Grows(c[Len(c)], z)
    PROVE  \A i \in DOMAIN (m \o c \o <<z>>) \ {1} :
             Grows((m \o c \o <<z>>)[i - 1], (m \o c \o <<z>>)[i])
<1> DEFINE ch == m \o c \o <<z>>
           M  == Len(m)
           C  == Len(c)
<1>1. M \in Nat /\ C \in Nat /\ C >= 1 /\ M \in {0, 1}
  OBVIOUS
<1>2. /\ ch \in Seq(Ranges0) /\ Len(ch) = M + C + 1
      /\ \A i \in 1 .. M : ch[i] = m[i]
      /\ \A i \in 1 .. C : ch[M + i] = c[i]
      /\ ch[M + C + 1] = z
  <2>1. PICK mc : mc = m \o c
    OBVIOUS
  <2>2. /\ mc \in Seq(Ranges0) /\ Len(mc) = M + C
        /\ \A i \in 1 .. M : mc[i] = m[i]
        /\ \A i \in 1 .. C : mc[M + i] = c[i]
    BY <2>1
  <2>3. ch = mc \o <<z>>
    BY <2>1
  <2> HIDE DEF ch, M, C
  <2>4. /\ ch \in Seq(Ranges0) /\ Len(ch) = M + C + 1 /\ ch[M + C + 1] = z
        /\ \A i \in 1 .. M + C : ch[i] = mc[i]
    <3>1. <<z>> \in Seq(Ranges0) /\ Len(<<z>>) = 1 /\ <<z>>[1] = z
      OBVIOUS
    <3>2. /\ ch \in Seq(Ranges0) /\ Len(ch) = Len(mc) + 1 /\ ch[Len(mc) + 1] = z
          /\ \A i \in 1 .. Len(mc) : ch[i] = mc[i]
      <4>1. PICK q : q = <<z>>
        OBVIOUS
      <4>2. q \in Seq(Ranges0) /\ Len(q) = 1 /\ q[1] = z
        BY <3>1, <4>1
      <4>3. ch = mc \o q
        BY <2>3, <4>1
      <4>4. mc \in Seq(Ranges0)
        BY <2>2
      <4>5. ch \in Seq(Ranges0) /\ Len(ch) = Len(mc) + 1 /\ Len(mc) \in Nat
        <5>1. mc \o q \in Seq(Ranges0) /\ Len(mc \o q) = Len(mc) + Len(q)
          BY <4>2, <4>4, ConcatProperties, Zenon
        <5>2. Len(mc) \in Nat
          BY <4>4
        <5> QED BY <4>2, <4>3, <5>1, <5>2
      <4>6. \A i \in 1 .. Len(mc) + 1 : ch[i] = IF i <= Len(mc) THEN mc[i] ELSE q[i - Len(mc)]
        <5>1. \A i \in 1 .. Len(mc) + Len(q) :
                (mc \o q)[i] = IF i <= Len(mc) THEN mc[i] ELSE q[i - Len(mc)]
          BY <4>2, <4>4, ConcatProperties, Zenon
        <5> QED BY <4>2, <4>3, <5>1
      <4>7. /\ Len(mc) + 1 \in 1 .. Len(mc) + 1 /\ ~(Len(mc) + 1 <= Len(mc))
            /\ Len(mc) + 1 - Len(mc) = 1
        BY <4>5
      <4>8. ch[Len(mc) + 1] = z
        BY <4>2, <4>6, <4>7
      <4>9. ASSUME NEW i \in 1 .. Len(mc) PROVE ch[i] = mc[i]
        <5>1. i \in 1 .. Len(mc) + 1 /\ i <= Len(mc)
          BY <4>5
        <5> QED BY <4>6, <5>1
      <4> QED BY <4>5, <4>8, <4>9
    <3> QED BY <2>2, <3>2
  <2>5. (\A i \in 1 .. M : i \in 1 .. M + C) /\ (\A i \in 1 .. C : M + i \in 1 .. M + C)
    BY <1>1
  <2> QED BY <2>2, <2>4, <2>5
<1>3. DOMAIN ch = 1 .. M + C + 1
  BY <1>2
<1> HIDE DEF ch, M, C
<1> SUFFICES ASSUME NEW i \in 2 .. M + C + 1 PROVE Grows(ch[i - 1], ch[i])
  <2>1. \A i \in DOMAIN ch \ {1} : i \in 2 .. M + C + 1
    BY <1>1, <1>3
  <2> QED BY <2>1 DEF ch
<1>4. CASE i = M + C + 1
  <2>1. i - 1 = M + C /\ C \in 1 .. C
    BY <1>1, <1>4
  <2> QED BY <1>2, <1>4, <2>1 DEF C
<1>5. CASE i = M + 1
  <2>1. M = 1 /\ i - 1 = 1 /\ 1 \in 1 .. M /\ 1 \in 1 .. C
    BY <1>1, <1>5
  <2>2. ch[i - 1] = m[1] /\ ch[i] = c[1]
    BY <1>2, <1>5, <2>1
  <2> QED BY <2>1, <2>2 DEF M
<1>6. CASE i - M \in 2 .. C
  <2>1. PICK j : j = i - M
    OBVIOUS
  <2>2. j \in 2 .. C /\ j \in 1 .. C /\ j - 1 \in 1 .. C /\ M + j = i /\ M + (j - 1) = i - 1
    BY <1>1, <1>6, <2>1
  <2>3. ch[i] = c[j] /\ ch[i - 1] = c[j - 1]
    BY <1>2, <2>2
  <2> QED BY <2>2, <2>3 DEF C
<1> QED BY <1>1, <1>4, <1>5, <1>6

\* At the end of the file a statement is inside its parent.
LEMMA InParent ==
    ASSUME Typed, Rooted, Covers(nodes, scopes), scopes = <<>>,
           NEW n \in 1 .. Len(nodes), NEW p, p = nodes[n].parent, p # 0
    PROVE  p \in 1 .. Len(nodes) /\ nodes[p].start < nodes[n].start /\ nodes[n].end <= nodes[p].end
<1>1. Len(nodes) \in Nat /\ Len(scopes) = 0
  BY TypedFacts
<1>2. p \in 0 .. n - 1
  BY DEF Rooted
<1>3. p \in 1 .. n - 1 /\ p \in 1 .. Len(nodes)
  BY <1>1, <1>2
<1>4. nodes[p].start < nodes[n].start
  BY <1>3 DEF Rooted
<1>5. ~InOpen(nodes, scopes, n)
  BY <1>1 DEF InOpen
<1> QED BY <1>3, <1>4, <1>5 DEF Covers

LEMMA SectsTyped ==
    ASSUME Typed
    PROVE  /\ cur \in Nat /\ DOMAIN sects = 1 .. cur
           /\ \A s \in 1 .. cur : sects[s].start \in Nat /\ sects[s].end \in Nat
<1>1. sects \in Seq(Sections)
  BY DEF Typed, TypeOK, Sections
<1>2. cur \in Nat /\ DOMAIN sects = 1 .. cur /\ \A s \in 1 .. cur : sects[s] \in Sections
  BY <1>1 DEF cur
<1> QED BY <1>2 DEF Sections

\* And inside its section, unless a scope is open across a header.
LEMMA InSection ==
    ASSUME Typed, SectsInv, done, ~acrossHeader, NEW n \in 1 .. Len(nodes), NEW s, s = nodes[n].sect
    PROVE  s \in 1 .. cur /\ sects[s].start <= nodes[n].start /\ nodes[n].end <= sects[s].end
<1>1. /\ cur \in Nat /\ DOMAIN sects = 1 .. cur
      /\ Len(lines) \in Nat /\ here = Len(lines) + 1 /\ DOMAIN nodes = 1 .. Len(nodes)
      /\ nodes[n].end \in 0 .. Len(lines)
  BY TypedFacts, SectsTyped
<1>2. /\ s \in 1 .. cur /\ sects[s].start <= nodes[n].start
      /\ s # cur => nodes[n].start < sects[s + 1].start
  BY DEF SectsInv
<1>3. CASE s = cur
  BY <1>1, <1>2, <1>3 DEF SectsInv
<1>4. CASE s # cur
  <2>1. s \in 1 .. cur - 1 /\ s + 1 \in 1 .. cur
    BY <1>1, <1>2, <1>4
  <2>2. sects[s].end = sects[s + 1].start
    BY <2>1 DEF SectsInv
  <2>3. ~(sects[s + 1].start <= nodes[n].end)
    BY <1>1, <1>2, <1>4, <2>1 DEF acrossHeader
  <2>4. sects[s + 1].start \in Nat
    BY <2>1, SectsTyped
  <2>5. nodes[n].end \in Nat
    BY <1>1
  <2> QED BY <1>2, <2>2, <2>3, <2>4, <2>5
<1> QED BY <1>3, <1>4

SelectionInv == LinesInv /\ TreeInv /\ EndsInv /\ SectsInv

LEMMA SelectionAt ==
    ASSUME SelectionInv, done, diags = {}, ~acrossHeader, ~adrift, NEW pos \in Positions,
           NEW i \in DOMAIN EnclosingRanges(pos) \ {1}
    PROVE  Grows(EnclosingRanges(pos)[i - 1], EnclosingRanges(pos)[i])
<1> DEFINE secs   == {s \in DOMAIN sects : inRange(sects[s], pos)}
           z      == Node0("section", sects[Min(secs)])
           around == enclosingStmts(Statements0(Min(secs)), pos)
           chain  == [j \in DOMAIN around |-> Node0("command", nodes[around[j]])]
           member == IF around = <<>> THEN <<>> ELSE stmtMembers(around[1], pos)
<1>1. /\ Typed /\ Rooted /\ SectsInv /\ Covers(nodes, scopes) /\ scopes = <<>>
      /\ Len(nodes) \in Nat /\ DOMAIN nodes = 1 .. Len(nodes) /\ cur \in Nat
      /\ DOMAIN sects = 1 .. cur
      /\ \A n \in 1 .. Len(nodes) : nodes[n].start \in Nat /\ nodes[n].end \in Nat
      /\ \A s \in 1 .. cur : sects[s].start \in Nat /\ sects[s].end \in Nat
      /\ pos.line \in Nat
  <2>1. Typed /\ Rooted /\ SectsInv /\ Covers(nodes, scopes) /\ scopes = <<>>
    BY DEF SelectionInv, LinesInv, TreeInv, EndsInv, Clean
  <2>2. Len(nodes) \in Nat /\ DOMAIN nodes = 1 .. Len(nodes) /\ cur \in Nat /\ DOMAIN sects = 1 .. cur
    BY <2>1, TypedFacts, SectsTyped
  <2>3. \A n \in 1 .. Len(nodes) : nodes[n].start \in Nat /\ nodes[n].end \in Nat
    <3>1. \A n \in 1 .. Len(nodes) : nodes[n] \in NodeRecords
      BY <2>1, TypedFacts
    <3> QED BY <3>1 DEF NodeRecords
  <2>4. \A s \in 1 .. cur : sects[s].start \in Nat /\ sects[s].end \in Nat
    BY <2>1, SectsTyped
  <2>5. pos.line \in Nat
    <3>1. pos.line \in DOMAIN lines
      BY DEF Positions
    <3>2. lines \in Seq(Words)
      BY <2>1 DEF Typed, TypeOK
    <3> QED BY <3>1, <3>2
  <2> QED BY <2>1, <2>2, <2>3, <2>4, <2>5
<1>2. EnclosingRanges(pos) = IF secs = {} THEN <<>> ELSE member \o chain \o <<z>>
  BY DEF EnclosingRanges
<1> HIDE DEF member, chain, around, z, secs
<1>3. secs # {}
  BY <1>2
<1>4. EnclosingRanges(pos) = member \o chain \o <<z>>
  BY <1>2, <1>3
<1>5. PICK s : s = Min(secs)
  OBVIOUS
<1>6. s \in secs /\ s \in 1 .. cur
  <2>1. secs \in SUBSET (0 .. cur)
    BY <1>1 DEF secs
  <2>2. Min(secs) \in secs
    BY <1>1, <1>3, <2>1, MinExists
  <2> QED BY <1>1, <1>5, <2>2 DEF secs
<1>7. z \in Ranges0 /\ z.kind = "section" /\ z.start = sects[s].start /\ z.end = sects[s].end
  <2>1. sects[s].start \in Nat /\ sects[s].end \in Nat
    BY <1>1, <1>6
  <2> QED BY <1>5, <2>1 DEF z, Node0, Ranges0
<1>8. CASE around = <<>>
  <2>1. member = <<>> /\ chain = <<>>
    BY <1>8 DEF member, chain
  <2>2. EnclosingRanges(pos) = <<z>>
    BY <1>4, <1>7, <2>1
  <2> QED BY <2>2
<1>9. ASSUME NEW n \in Statements0(s), Encloses(around, n, pos)
      PROVE  Grows(EnclosingRanges(pos)[i - 1], EnclosingRanges(pos)[i])
  <2> DEFINE C == Len(around)
             rec(j) == Node0("command", nodes[around[j]])
  <2>1. /\ around \in Seq(1 .. Len(nodes)) /\ C \in Nat /\ C # 0 /\ around[C] = n
        /\ DOMAIN around = 1 .. C /\ \A j \in 1 .. C : around[j] \in 1 .. Len(nodes)
        /\ \A j \in 1 .. C : inStatement(around[j], pos)
        /\ \A j \in 2 .. C : nodes[around[j - 1]].parent = around[j]
    BY <1>9 DEF Encloses
  <2>2. \A j \in 1 .. C : /\ rec(j) \in Ranges0 /\ rec(j).kind = "command"
                          /\ rec(j).start = nodes[around[j]].start
                          /\ rec(j).end = nodes[around[j]].end
    BY <1>1, <2>1 DEF Node0, Ranges0
  <2> HIDE DEF C, rec
  <2>3. /\ chain \in Seq(Ranges0) /\ Len(chain) = C
        /\ \A j \in 1 .. C : chain[j] = rec(j)
    <3>1. chain = [j \in 1 .. C |-> rec(j)]
      BY <2>1 DEF chain, rec
    <3>2. chain \in [1 .. C -> Ranges0]
      BY <2>2, <3>1
    <3>3. chain \in Seq(Ranges0) /\ Len(chain) = C
      BY <2>1, <3>2
    <3> QED BY <3>1, <3>3
  <2>4. ASSUME NEW j \in 2 .. C PROVE Grows(chain[j - 1], chain[j])
    <3>1. j - 1 \in 1 .. C /\ j \in 1 .. C
      BY <2>1
    <3>2. PICK c, p : c = around[j - 1] /\ p = around[j]
      OBVIOUS
    <3>3. c \in 1 .. Len(nodes) /\ p \in 1 .. Len(nodes) /\ p = nodes[c].parent /\ p # 0
      BY <2>1, <3>1, <3>2
    <3>4. nodes[p].start < nodes[c].start /\ nodes[c].end <= nodes[p].end
      BY <1>1, <3>3, InParent
    <3>5. nodes[p].start \in Nat /\ nodes[c].start \in Nat
      BY <1>1, <3>3
    <3>6. /\ chain[j - 1] = rec(j - 1) /\ chain[j] = rec(j)
          /\ rec(j - 1).start = nodes[c].start /\ rec(j - 1).end = nodes[c].end
          /\ rec(j).start = nodes[p].start /\ rec(j).end = nodes[p].end
      BY <2>2, <2>3, <3>1, <3>2
    <3>7. rec(j - 1) # rec(j)
      BY <3>4, <3>5, <3>6
    <3> QED BY <3>4, <3>5, <3>6, <3>7 DEF Grows
  <2>5. Grows(chain[Len(chain)], z)
    <3>1. C \in 1 .. C
      BY <2>1
    <3>2. n \in 1 .. Len(nodes) /\ nodes[n].sect = s
      BY <1>1, <1>9 DEF Statements0
    <3>3. sects[s].start <= nodes[n].start /\ nodes[n].end <= sects[s].end
      BY <1>1, <3>2, InSection
    <3>4. /\ chain[Len(chain)] = rec(C) /\ rec(C).kind = "command"
          /\ rec(C).start = nodes[n].start /\ rec(C).end = nodes[n].end
      BY <2>1, <2>2, <2>3, <3>1
    <3>5. rec(C) # z
      BY <1>7, <3>4
    <3> QED BY <1>7, <3>3, <3>4, <3>5 DEF Grows
  <2>6. PICK a : a = around[1]
    OBVIOUS
  <2>7. a \in 1 .. Len(nodes) /\ nodes[a].start <= pos.line /\ pos.line <= nodes[a].end
        /\ chain[1] = rec(1) /\ rec(1).kind = "command"
        /\ rec(1).start = nodes[a].start /\ rec(1).end = nodes[a].end
    <3>1. 1 \in 1 .. C
      BY <2>1
    <3> QED BY <2>1, <2>2, <2>3, <2>6, <3>1 DEF inStatement
  <2> DEFINE v == Node0("attr", [start |-> pos.line, end |-> pos.line])
  <2>8. v \in Ranges0 /\ v.kind = "attr" /\ v.start = pos.line /\ v.end = pos.line
    BY <1>1 DEF Node0, Ranges0
  <2>9. member \in {<<>>, <<v>>}
    <3>1. around # <<>>
      BY <2>1 DEF C
    <3> QED BY <3>1 DEF member, stmtMembers
  <2> HIDE DEF v
  <2>10. /\ member \in Seq(Ranges0) /\ Len(member) \in {0, 1}
         /\ (Len(member) = 1 => member[1] = v)
    <3>1. CASE member = <<>>
      BY <3>1
    <3>2. CASE member = <<v>>
      <4>1. <<v>> \in Seq(Ranges0) /\ Len(<<v>>) = 1 /\ <<v>>[1] = v
        BY <2>8
      <4> QED BY <3>2, <4>1
    <3> QED BY <2>9, <3>1, <3>2
  <2>11. Grows(v, rec(1))
    <3>1. v # rec(1)
      BY <2>7, <2>8
    <3> QED BY <2>7, <2>8, <3>1 DEF Grows
  <2> QED BY <1>4, <1>7, <2>1, <2>3, <2>4, <2>5, <2>7, <2>10, <2>11, ChainGrows
<1>10. Statements0(s) \in SUBSET (1 .. Len(nodes))
  BY <1>1 DEF Statements0
<1>11. \/ around = <<>>
       \/ \E n \in Statements0(s) : Encloses(around, n, pos)
  BY <1>1, <1>5, <1>10, EnclosingFacts DEF around
<1> QED BY <1>8, <1>9, <1>11

\* The ranges around a position grow, from the attribute over the statements to
\* the section: the scopes that are open nest, a closed one covers the children it
\* had, those that close with it included, and every section ends where the next
\* begins (EnclosingRanges, ast.go:278-372; closeScopes, parse.go).
THEOREM SelectionGrowsHolds == Spec => []SelectionGrows
<1>1. SelectionInv => SelectionGrows
  <2> SUFFICES ASSUME SelectionInv, done, diags = {}, ~acrossHeader, ~adrift, NEW pos \in Positions,
                      NEW i \in DOMAIN EnclosingRanges(pos) \ {1}
               PROVE  Grows(EnclosingRanges(pos)[i - 1], EnclosingRanges(pos)[i])
    BY DEF SelectionGrows, Grows
  <2> QED BY SelectionAt
<1>2. Init => SelectionInv
  BY InitKept, TreeInit, EndsInit, SectsInit DEF SelectionInv
<1>3. SelectionInv /\ [Next]_vars => SelectionInv'
  BY StepKept, TreeStep, EndsStep, SectsStep DEF SelectionInv
<1> QED BY <1>1, <1>2, <1>3, PTL DEF Spec
------------------------------------------------------------------------------
(* The nesting of the scope words *)

ScopeNames   == {"if", "else", "start_random", "percent_chance"}
Nonterminals == {"file", "random", "branches"}

\* What a scope is filled with, and the word that closes it.
Inside(name) == IF name = "start_random" THEN "random" ELSE "branches"
Closer(name) == IF name = "start_random" THEN "end_random" ELSE "endif"

\* What nt derives from line i of a file ls, when f is that for the lines after it.
Reach(ls, f, i, nt) ==
    {j \in i - 1 .. Len(ls) :
       \/ j = i - 1
       \/ nt = "branches" /\ ls[i] = "else" /\ j \in f[i + 1][nt]
       \/ nt # "file" /\ ls[i] = "percent_chance" /\ j \in f[i + 1][nt]
       \/ \E k \in i + 1 .. j :
             /\ \/ ls[i] = "if" /\ ls[k] = "endif" /\ k - 1 \in f[i + 1]["branches"]
                \/ ls[i] = "start_random" /\ ls[k] = "end_random" /\ k - 1 \in f[i + 1]["random"]
             /\ j \in f[k + 1][nt]}

Grammar(ls, f) == f = [i \in 1 .. Len(ls) + 1 |-> [nt \in Nonterminals |-> Reach(ls, f, i, nt)]]

LEMMA Unfold ==
    ASSUME NEW ls \in Seq(structuralWords), NEW f, Grammar(ls, f),
           NEW i \in 1 .. Len(ls) + 1, NEW nt \in Nonterminals
    PROVE  f[i][nt] = Reach(ls, f, i, nt) /\ DOMAIN f = 1 .. Len(ls) + 1
<1> DEFINE row(k) == [m \in Nonterminals |-> Reach(ls, f, k, m)]
<1> HIDE DEF row
<1>1. f = [k \in 1 .. Len(ls) + 1 |-> row(k)]
  BY DEF Grammar, row
<1>2. f[i] = row(i) /\ DOMAIN f = 1 .. Len(ls) + 1
  BY <1>1
<1>3. row(i)[nt] = Reach(ls, f, i, nt)
  BY DEF row
<1> QED BY <1>2, <1>3

\* The places from which nt derives a text up to one of some ends.
From(f, nt, X) == {i \in DOMAIN f : \E e \in X : e \in f[i][nt]}

\* The ends before a closer, after which a place of S follows.
BeforeCloser(ls, c, S) == {e \in 0 .. Len(ls) - 1 : ls[e + 1] = c /\ e + 2 \in S}

\* The ends a level may have.
EndsOf(ls, nt, X) ==
    /\ X \subseteq 0 .. Len(ls)
    /\ \A e \in X : e # Len(ls) => nt # "file" /\ ls[e + 1] = IF nt = "random" THEN "end_random" ELSE "endif"

LEMMA LevelOpen ==
    ASSUME NEW ls \in Seq(structuralWords), NEW f, Grammar(ls, f), NEW i \in 1 .. Len(ls),
           NEW nt \in Nonterminals, NEW X, EndsOf(ls, nt, X),
           ls[i] \in {"if", "start_random"}
    PROVE  i \in From(f, nt, X)
             <=> i + 1 \in From(f, Inside(ls[i]), BeforeCloser(ls, Closer(ls[i]), From(f, nt, X)))
<1> DEFINE n == Len(ls)
           g == ls[i]
           S == From(f, nt, X)
           Y == BeforeCloser(ls, Closer(g), S)
<1>1. /\ n \in Nat /\ i \in Nat /\ i \in 1 .. n + 1 /\ i + 1 \in 1 .. n + 1 /\ DOMAIN f = 1 .. n + 1
      /\ Inside(g) \in Nonterminals
  BY Unfold DEF Nonterminals, Inside
<1>2. \A m \in 1 .. n + 1 : \A t \in Nonterminals : f[m][t] = Reach(ls, f, m, t)
  BY Unfold
<1>3. g \in {"if", "start_random"}
  OBVIOUS
<1>4. ASSUME NEW e PROVE e \in f[i][nt] <=>
        /\ e \in i - 1 .. n
        /\ \/ e = i - 1
           \/ \E k \in i + 1 .. e : /\ ls[k] = Closer(g) /\ k - 1 \in f[i + 1][Inside(g)]
                                    /\ e \in f[k + 1][nt]
  <2>1. f[i][nt] = Reach(ls, f, i, nt)
    BY <1>1, <1>2
  <2>2. CASE g = "if"
    BY <1>1, <2>1, <2>2 DEF Reach, Closer, Inside
  <2>3. CASE g = "start_random"
    BY <1>1, <2>1, <2>3 DEF Reach, Closer, Inside
  <2> QED BY <1>3, <2>2, <2>3
<1> HIDE DEF g, n, S, Y
<1>5. i - 1 \notin X
  BY <1>1, <1>3 DEF EndsOf, n, g
<1>6. ASSUME i \in S PROVE i + 1 \in From(f, Inside(g), Y)
  <2>1. PICK e \in X : e \in f[i][nt]
    BY <1>6 DEF S, From
  <2>2. e \in i - 1 .. n /\ e # i - 1
    BY <1>4, <1>5, <2>1
  <2>3. PICK k \in i + 1 .. e : /\ ls[k] = Closer(g) /\ k - 1 \in f[i + 1][Inside(g)]
                                /\ e \in f[k + 1][nt]
    BY <1>4, <2>1, <2>2
  <2>4. k \in 1 .. n /\ k + 1 \in 1 .. n + 1 /\ k - 1 \in 0 .. n - 1 /\ k - 1 + 1 = k /\ k - 1 + 2 = k + 1
    BY <1>1, <2>2, <2>3
  <2>5. k + 1 \in S
    BY <1>1, <2>1, <2>3, <2>4 DEF S, From
  <2>6. k - 1 \in Y
    BY <2>3, <2>4, <2>5 DEF Y, BeforeCloser, n
  <2> QED BY <1>1, <2>3, <2>6 DEF From
<1>7. ASSUME i + 1 \in From(f, Inside(g), Y) PROVE i \in S
  <2>1. PICK d \in Y : d \in f[i + 1][Inside(g)]
    BY <1>7 DEF From
  <2>2. d \in 0 .. n - 1 /\ ls[d + 1] = Closer(g) /\ d + 2 \in S
    BY <2>1 DEF Y, BeforeCloser, n
  <2>3. d \in i .. n
    <3>1. d \in Reach(ls, f, i + 1, Inside(g))
      BY <1>1, <1>2, <2>1
    <3>2. d \in i + 1 - 1 .. n
      BY <3>1 DEF Reach, n
    <3> QED BY <1>1, <3>2
  <2>4. PICK e \in X : e \in f[d + 2][nt]
    BY <2>2 DEF S, From
  <2>5. PICK k : k = d + 1
    OBVIOUS
  <2>6. k - 1 = d /\ k + 1 = d + 2 /\ k + 1 \in 1 .. n + 1 /\ k \in Nat /\ k >= i + 1
    BY <1>1, <2>2, <2>3, <2>5
  <2>7. e \in k .. n
    <3>1. PICK m : m = k + 1
      OBVIOUS
    <3>2. e \in Reach(ls, f, m, nt)
      BY <1>2, <2>4, <2>6, <3>1
    <3>3. e \in m - 1 .. n
      BY <3>2 DEF Reach, n
    <3> QED BY <2>6, <3>1, <3>3
  <2>8. k \in i + 1 .. e /\ e \in i - 1 .. n
    BY <1>1, <2>6, <2>7
  <2>9. e \in f[i][nt]
    BY <1>4, <2>1, <2>2, <2>4, <2>5, <2>6, <2>8
  <2> QED BY <1>1, <2>9 DEF S, From
<1> QED BY <1>6, <1>7 DEF S, Y, g

\* A branch word continues its level.
Continues(nt, w) == nt = "branches" \/ (nt = "random" /\ w = "percent_chance")

LEMMA LevelBranch ==
    ASSUME NEW ls \in Seq(structuralWords), NEW f, Grammar(ls, f), NEW i \in 1 .. Len(ls),
           NEW nt \in Nonterminals, NEW X, EndsOf(ls, nt, X),
           ls[i] \in {"else", "percent_chance"}
    PROVE  i \in From(f, nt, X)
             <=> Continues(nt, ls[i]) /\ i + 1 \in From(f, nt, X)
<1> DEFINE n == Len(ls)
           Goes == Continues(nt, ls[i])
<1>1. n \in Nat /\ i \in 1 .. n + 1 /\ i + 1 \in 1 .. n + 1 /\ DOMAIN f = 1 .. n + 1
  BY Unfold
<1>2. \A m \in 1 .. n + 1 : \A t \in Nonterminals : f[m][t] = Reach(ls, f, m, t)
  BY Unfold
<1>3. ASSUME NEW e PROVE e \in f[i][nt] <=>
        e \in i - 1 .. n /\ (e = i - 1 \/ (Goes /\ e \in f[i + 1][nt]))
  <2>1. ls[i] = "else" => (Goes <=> nt = "branches")
    BY DEF Continues
  <2>2. ls[i] = "percent_chance" => (Goes <=> nt # "file")
    BY DEF Continues, Nonterminals
  <2>3. f[i][nt] = Reach(ls, f, i, nt)
    BY <1>1, <1>2
  <2> HIDE DEF Goes
  <2> QED BY <2>1, <2>2, <2>3 DEF Reach
<1>4. ASSUME NEW e, e \in f[i + 1][nt] PROVE e \in i - 1 .. n
  <2>1. e \in Reach(ls, f, i + 1, nt)
    BY <1>1, <1>2, <1>4
  <2> QED BY <1>1, <2>1 DEF Reach
<1>5. i - 1 \notin X
  BY <1>1 DEF EndsOf
<1> HIDE DEF Goes, n
<1>6. \A e \in X : e \in f[i][nt] <=> Goes /\ e \in f[i + 1][nt]
  BY <1>3, <1>4, <1>5
<1> QED BY <1>1, <1>6 DEF From, Goes

\* A closer ends its level, or none.
LEMMA LevelClose ==
    ASSUME NEW ls \in Seq(structuralWords), NEW f, Grammar(ls, f), NEW i \in 1 .. Len(ls),
           NEW nt \in Nonterminals, NEW X, EndsOf(ls, nt, X),
           ls[i] \in {"endif", "end_random"}
    PROVE  i \in From(f, nt, X) <=> i - 1 \in X
<1> DEFINE n == Len(ls)
<1>1. n \in Nat /\ i \in 1 .. n + 1 /\ i + 1 \in 1 .. n + 1 /\ DOMAIN f = 1 .. n + 1
  BY Unfold
<1>2. \A m \in 1 .. n + 1 : \A t \in Nonterminals : f[m][t] = Reach(ls, f, m, t)
  BY Unfold
<1>3. ASSUME NEW e PROVE e \in f[i][nt] <=> e = i - 1
  BY <1>1, <1>2 DEF Reach
<1> QED BY <1>1, <1>3 DEF From

LEMMA LevelEnd ==
    ASSUME NEW ls \in Seq(structuralWords), NEW f, Grammar(ls, f),
           NEW nt \in Nonterminals, NEW X, EndsOf(ls, nt, X)
    PROVE  Len(ls) + 1 \in From(f, nt, X) <=> Len(ls) \in X
<1> DEFINE n == Len(ls)
<1>1. n \in Nat /\ n + 1 \in 1 .. n + 1 /\ DOMAIN f = 1 .. n + 1 /\ n + 1 - 1 = n
  BY Unfold
<1>2. f[n + 1][nt] = Reach(ls, f, n + 1, nt)
  BY <1>1, Unfold
<1>3. ASSUME NEW e PROVE e \in f[n + 1][nt] <=> e = n
  BY <1>1, <1>2 DEF Reach
<1> QED BY <1>1, <1>3 DEF From
------------------------------------------------------------------------------
(* The scopes as levels of the grammar *)

\* The innermost scope that is not a percent_chance branch, 0 for none.
Holder(sc) == IF Len(sc) # 0 /\ sc[Len(sc)] = "percent_chance" THEN Len(sc) - 1 ELSE Len(sc)

Alternating(sc) ==
    \A j \in 2 .. Len(sc) : sc[j] = "percent_chance" => sc[j - 1] # "percent_chance"

\* From where each scope, with those around it, derives the rest of the file:
\* nothing does below a branch of no group.
LevelAt(ls, f, sc, G, j) ==
    G[j] = IF sc[j] = "percent_chance"
             THEN (IF j = 1 THEN {} ELSE G[j - 1])
             ELSE From(f, Inside(sc[j]), BeforeCloser(ls, Closer(sc[j]), G[j - 1]))

Levels(ls, f, sc, G) ==
    /\ G[0] = From(f, "file", {Len(ls)})
    /\ \A j \in 1 .. Len(sc) : LevelAt(ls, f, sc, G, j)

\* The groups that a word continues or closes.
Groups(w) == IF w = "end_random" THEN {"start_random"} ELSE {"if", "else"}

Fits(sc, w) ==
    w \in {"else", "endif", "end_random"} => Holder(sc) # 0 /\ sc[Holder(sc)] \in Groups(w)

After(sc, w) ==
    CASE w \in {"if", "start_random"} -> Append(sc, w)
      [] w = "percent_chance" -> Append(SubSeq(sc, 1, Holder(sc)), w)
      [] w = "else" -> Append(SubSeq(sc, 1, Holder(sc) - 1), w)
      [] OTHER -> SubSeq(sc, 1, Holder(sc) - 1)

LEMMA HolderFacts ==
    ASSUME NEW sc \in Seq(ScopeNames), Alternating(sc)
    PROVE  /\ Len(sc) \in Nat /\ Holder(sc) \in 0 .. Len(sc)
           /\ Holder(sc) # 0 => /\ Holder(sc) \in 1 .. Len(sc) /\ Holder(sc) - 1 \in 0 .. Len(sc)
                                /\ sc[Holder(sc)] # "percent_chance"
           /\ \A j \in 1 .. Len(sc) : sc[j] \in ScopeNames
<1>1. Len(sc) \in Nat /\ \A j \in 1 .. Len(sc) : sc[j] \in ScopeNames
  OBVIOUS
<1>2. CASE Len(sc) # 0 /\ sc[Len(sc)] = "percent_chance"
  <2>1. Holder(sc) = Len(sc) - 1
    BY <1>2 DEF Holder
  <2>2. PICK m : m = Len(sc)
    OBVIOUS
  <2>3. m \in Nat /\ m # 0 /\ Holder(sc) = m - 1
    BY <1>1, <1>2, <2>1, <2>2
  <2>4. m - 1 \in 0 .. m /\ (m - 1 # 0 => m \in 2 .. m /\ m - 1 \in 1 .. m /\ m - 1 - 1 \in 0 .. m)
    BY <2>3
  <2>5. m - 1 # 0 => sc[m - 1] # "percent_chance"
    BY <1>2, <2>2, <2>4 DEF Alternating
  <2> QED BY <1>1, <2>2, <2>3, <2>4, <2>5
<1>3. CASE ~(Len(sc) # 0 /\ sc[Len(sc)] = "percent_chance")
  <2>1. Holder(sc) = Len(sc)
    BY <1>3 DEF Holder
  <2> QED BY <1>1, <1>3, <2>1
<1> QED BY <1>2, <1>3

LEMMA GroupEnds ==
    ASSUME NEW ls \in Seq(structuralWords), NEW g, NEW S
    PROVE  Inside(g) \in Nonterminals /\ EndsOf(ls, Inside(g), BeforeCloser(ls, Closer(g), S))
<1>1. Len(ls) \in Nat
  OBVIOUS
<1>2. \A e \in BeforeCloser(ls, Closer(g), S) : e \in 0 .. Len(ls) - 1 /\ ls[e + 1] = Closer(g)
  BY DEF BeforeCloser
<1>3. \A e \in 0 .. Len(ls) - 1 : e \in 0 .. Len(ls) /\ e # Len(ls)
  BY <1>1
<1> QED BY <1>2, <1>3 DEF EndsOf, Inside, Closer, Nonterminals

\* The level that is open: that of the file, that of the holder, or none.
TopOf(ls, f, sc, G, h) ==
    \/ h = 0 /\ Len(sc) = 0 /\ G[Len(sc)] = From(f, "file", {Len(ls)})
    \/ h = 0 /\ Len(sc) # 0 /\ G[Len(sc)] = {}
    \/ /\ h # 0 /\ G[Len(sc)] = G[h]
       /\ G[h] = From(f, Inside(sc[h]), BeforeCloser(ls, Closer(sc[h]), G[h - 1]))

LEMMA TopLevel ==
    ASSUME NEW ls \in Seq(structuralWords), NEW f, NEW sc \in Seq(ScopeNames), Alternating(sc),
           NEW G, Levels(ls, f, sc, G)
    PROVE  TopOf(ls, f, sc, G, Holder(sc))
<1>0. PICK h : h = Holder(sc)
  OBVIOUS
<1>a. \A j \in 1 .. Len(sc) : LevelAt(ls, f, sc, G, j)
  BY DEF Levels
<1>1. Len(sc) \in Nat /\ h \in 0 .. Len(sc)
      /\ (h # 0 => h \in 1 .. Len(sc) /\ sc[h] # "percent_chance")
  BY <1>0, HolderFacts
<1>2. CASE Len(sc) = 0
  BY <1>0, <1>1, <1>2 DEF Levels, TopOf, Holder
<1>3. CASE Len(sc) # 0 /\ sc[Len(sc)] = "percent_chance"
  <2>1. h = Len(sc) - 1 /\ Len(sc) \in 1 .. Len(sc)
    BY <1>0, <1>1, <1>3 DEF Holder
  <2>2. G[Len(sc)] = IF Len(sc) = 1 THEN {} ELSE G[h]
    BY <1>a, <1>3, <2>1 DEF LevelAt
  <2>3. CASE h = 0
    BY <1>0, <1>1, <1>3, <2>1, <2>2, <2>3 DEF TopOf
  <2>4. CASE h # 0
    <3>1. Len(sc) # 1
      BY <1>1, <2>1, <2>4
    <3>2. LevelAt(ls, f, sc, G, h)
      BY <1>a, <1>1, <2>4
    <3> QED BY <1>0, <1>1, <2>2, <2>4, <3>1, <3>2 DEF TopOf, LevelAt
  <2> QED BY <2>3, <2>4
<1>4. CASE Len(sc) # 0 /\ sc[Len(sc)] # "percent_chance"
  <2>1. h = Len(sc) /\ Len(sc) \in 1 .. Len(sc)
    BY <1>0, <1>1, <1>4 DEF Holder
  <2>2. LevelAt(ls, f, sc, G, h)
    BY <1>a, <2>1
  <2> QED BY <1>0, <1>4, <2>1, <2>2 DEF TopOf, LevelAt
<1> QED BY <1>2, <1>3, <1>4

\* Levels of the scopes that are kept.
LEMMA LevelsKept ==
    ASSUME NEW ls, NEW f, NEW sc \in Seq(ScopeNames), Alternating(sc), NEW G, Levels(ls, f, sc, G),
           NEW k \in 0 .. Len(sc)
    PROVE  /\ SubSeq(sc, 1, k) \in Seq(ScopeNames) /\ Len(SubSeq(sc, 1, k)) = k
           /\ Alternating(SubSeq(sc, 1, k)) /\ Levels(ls, f, SubSeq(sc, 1, k), G)
<1>1. Len(sc) \in Nat /\ k \in Nat
  OBVIOUS
<1>2. PICK s : s = SubSeq(sc, 1, k)
  OBVIOUS
<1>3. s \in Seq(ScopeNames) /\ Len(s) = k /\ \A j \in 1 .. k : s[j] = sc[j] /\ j \in 1 .. Len(sc)
  BY <1>1, <1>2
<1>4. \A j \in 2 .. k : j \in 1 .. k /\ j - 1 \in 1 .. k /\ j \in 2 .. Len(sc)
  BY <1>1
<1>5. Alternating(s)
  BY <1>3, <1>4 DEF Alternating
<1>6. Levels(ls, f, s, G)
  <2>1. ASSUME NEW j \in 1 .. k PROVE LevelAt(ls, f, s, G, j)
    BY <1>3 DEF Levels, LevelAt
  <2> QED BY <1>3, <2>1 DEF Levels
<1> QED BY <1>2, <1>3, <1>5, <1>6

\* The level of a scope that opens.
Opened(ls, f, sc, G, w) ==
    IF w = "percent_chance" THEN (IF Len(sc) = 0 THEN {} ELSE G[Len(sc)])
                            ELSE From(f, Inside(w), BeforeCloser(ls, Closer(w), G[Len(sc)]))

Extends(ls, f, sc, G, w) ==
    /\ Append(sc, w) \in Seq(ScopeNames) /\ Len(Append(sc, w)) = Len(sc) + 1
    /\ Alternating(Append(sc, w))
    /\ \E H : Levels(ls, f, Append(sc, w), H) /\ H[Len(sc) + 1] = Opened(ls, f, sc, G, w)

LEMMA LevelsMore ==
    ASSUME NEW ls, NEW f, NEW sc \in Seq(ScopeNames), Alternating(sc), NEW G, Levels(ls, f, sc, G),
           NEW w \in ScopeNames, w = "percent_chance" => Holder(sc) = Len(sc)
    PROVE  Extends(ls, f, sc, G, w)
<1> DEFINE m == Len(sc)
           S == Opened(ls, f, sc, G, w)
           H == [j \in 0 .. m + 1 |-> IF j = m + 1 THEN S ELSE G[j]]
<1>1. m \in Nat
  OBVIOUS
<1>2. PICK s : s = Append(sc, w)
  OBVIOUS
<1>3. /\ s \in Seq(ScopeNames) /\ Len(s) = m + 1 /\ s[m + 1] = w
      /\ \A j \in 1 .. m : s[j] = sc[j]
  BY <1>2
<1>4. H[m + 1] = S /\ \A j \in 0 .. m : H[j] = G[j]
  BY <1>1
<1> HIDE DEF H, m, S
<1>5. Alternating(s)
  <2> SUFFICES ASSUME NEW j \in 2 .. m + 1, s[j] = "percent_chance"
               PROVE  s[j - 1] # "percent_chance"
    BY <1>3 DEF Alternating
  <2>1. CASE j = m + 1
    <3>1. j - 1 = m /\ m \in 1 .. m /\ m # 0 /\ m - 1 # m
      BY <1>1, <2>1
    <3>2. sc[m] # "percent_chance"
      BY <1>3, <2>1, <3>1 DEF m, Holder
    <3> QED BY <1>3, <2>1, <3>1, <3>2
  <2>2. CASE j \in 2 .. m
    <3>1. j \in 1 .. m /\ j - 1 \in 1 .. m
      BY <1>1, <2>2
    <3> QED BY <1>3, <2>2, <3>1 DEF m, Alternating
  <2> QED BY <1>1, <2>1, <2>2
<1>6. Levels(ls, f, s, H)
  <2>1. H[0] = From(f, "file", {Len(ls)})
    BY <1>1, <1>4 DEF Levels
  <2>2. ASSUME NEW j \in 1 .. m PROVE LevelAt(ls, f, s, H, j)
    <3>1. j \in 0 .. m /\ j - 1 \in 0 .. m
      BY <1>1
    <3>2. LevelAt(ls, f, sc, G, j)
      BY DEF Levels, m
    <3> QED BY <1>3, <1>4, <3>1, <3>2 DEF LevelAt
  <2>3. LevelAt(ls, f, s, H, m + 1)
    <3>1. m + 1 - 1 = m /\ m \in 0 .. m /\ (m + 1 = 1 <=> m = 0)
      BY <1>1
    <3>2. H[m + 1] = S /\ H[m] = G[m] /\ s[m + 1] = w
      BY <1>3, <1>4, <3>1
    <3> QED BY <3>1, <3>2 DEF m, S, Opened, LevelAt
  <2>4. 1 .. m + 1 = 1 .. m \cup {m + 1}
    BY <1>1
  <2> QED BY <1>3, <2>1, <2>2, <2>3, <2>4 DEF Levels
<1> QED BY <1>2, <1>3, <1>4, <1>5, <1>6 DEF m, S, Extends

\* A word that fits takes the level from before it to after it, and no level
\* goes on with another.
LEMMA LevelStep ==
    ASSUME NEW ls \in Seq(structuralWords), NEW f, Grammar(ls, f),
           NEW sc \in Seq(ScopeNames), Alternating(sc), NEW G, Levels(ls, f, sc, G),
           NEW i \in 1 .. Len(ls), NEW w, w = ls[i]
    PROVE  /\ Fits(sc, w) =>
                /\ After(sc, w) \in Seq(ScopeNames) /\ Alternating(After(sc, w))
                /\ \E H : /\ Levels(ls, f, After(sc, w), H)
                          /\ i \in G[Len(sc)] <=> i + 1 \in H[Len(After(sc, w))]
           /\ ~Fits(sc, w) => i \notin G[Len(sc)]
<1> DEFINE h == Holder(sc)
           n == Len(ls)
           m == Len(sc)
<1>1. /\ m \in Nat /\ h \in 0 .. m /\ n \in Nat /\ i \in Nat
      /\ \A j \in 1 .. m : sc[j] \in ScopeNames
      /\ h # 0 => h \in 1 .. m /\ h - 1 \in 0 .. m /\ sc[h] # "percent_chance"
  BY HolderFacts
<1>2. \/ h = 0 /\ m = 0 /\ G[m] = From(f, "file", {n})
      \/ h = 0 /\ m # 0 /\ G[m] = {}
      \/ /\ h # 0 /\ G[m] = G[h]
         /\ G[h] = From(f, Inside(sc[h]), BeforeCloser(ls, Closer(sc[h]), G[h - 1]))
  <2>1. TopOf(ls, f, sc, G, h)
    BY TopLevel
  <2> QED BY <2>1 DEF TopOf
<1>3. EndsOf(ls, "file", {n}) /\ EndsOf(ls, "file", {})
      /\ \A g, S : Inside(g) \in Nonterminals /\ EndsOf(ls, Inside(g), BeforeCloser(ls, Closer(g), S))
  <2>1. EndsOf(ls, "file", {n}) /\ EndsOf(ls, "file", {})
    BY <1>1 DEF EndsOf
  <2> QED BY <2>1, GroupEnds
<1>4. "file" \in Nonterminals /\ w \in structuralWords
  BY DEF Nonterminals
<1>5. PICK nt, X : nt \in Nonterminals /\ EndsOf(ls, nt, X) /\ G[m] = From(f, nt, X)
  <2>1. {} = From(f, "file", {})
    BY DEF From
  <2> QED BY <1>2, <1>3, <1>4, <2>1
<1> HIDE DEF h, n, m
<1>b. ASSUME w \in {"else", "percent_chance"}, NEW t \in Nonterminals, NEW Z, EndsOf(ls, t, Z)
      PROVE  i \in From(f, t, Z) <=> Continues(t, w) /\ i + 1 \in From(f, t, Z)
  BY <1>b, LevelBranch
<1>6. CASE w \in {"if", "start_random"}
  <2>1. i \in G[m] <=> i + 1 \in From(f, Inside(w), BeforeCloser(ls, Closer(w), G[m]))
    BY <1>5, <1>6, LevelOpen
  <2>2. Fits(sc, w) /\ After(sc, w) = Append(sc, w) /\ w \in ScopeNames /\ w # "percent_chance"
    BY <1>6 DEF Fits, After, ScopeNames
  <2>3. Opened(ls, f, sc, G, w) = From(f, Inside(w), BeforeCloser(ls, Closer(w), G[m]))
    BY <2>2 DEF Opened, m
  <2>4. /\ Append(sc, w) \in Seq(ScopeNames) /\ Len(Append(sc, w)) = m + 1
        /\ Alternating(Append(sc, w))
        /\ \E H : Levels(ls, f, Append(sc, w), H) /\ H[m + 1] = Opened(ls, f, sc, G, w)
    <3>1. Extends(ls, f, sc, G, w)
      BY <2>2, LevelsMore
    <3> QED BY Zenon, <3>1 DEF m, Extends
  <2> QED BY <2>1, <2>2, <2>3, <2>4 DEF m
<1>7. CASE w = "percent_chance"
  <2>1. PICK s : s = SubSeq(sc, 1, h)
    OBVIOUS
  <2>2. s \in Seq(ScopeNames) /\ Len(s) = h /\ Alternating(s) /\ Levels(ls, f, s, G)
    BY <1>1, <2>1, LevelsKept DEF m
  <2>3. Fits(sc, w) /\ After(sc, w) = Append(s, w) /\ w \in ScopeNames
    BY <1>7, <2>1 DEF Fits, After, ScopeNames, h
  <2>4. Holder(s) = Len(s) /\ Opened(ls, f, s, G, w) = IF h = 0 THEN {} ELSE G[h]
    <3>1. h = 0 \/ s[h] # "percent_chance"
      BY <1>1, <2>1 DEF m
    <3> QED BY <1>7, <2>2, <3>1 DEF Holder, Opened
  <2>5. /\ Append(s, w) \in Seq(ScopeNames) /\ Len(Append(s, w)) = h + 1
        /\ Alternating(Append(s, w))
        /\ \E H : Levels(ls, f, Append(s, w), H) /\ H[h + 1] = Opened(ls, f, s, G, w)
    <3>1. Extends(ls, f, s, G, w)
      BY <2>2, <2>3, <2>4, LevelsMore
    <3> QED BY <2>2, <3>1 DEF Extends
  <2>6. i \in G[m] <=> i + 1 \in IF h = 0 THEN {} ELSE G[h]
    <3>1. CASE h = 0
      <4>1. G[m] = From(f, "file", {n}) \/ G[m] = {}
        BY <1>2, <3>1
      <4>2. i \notin From(f, "file", {n})
        BY <1>3, <1>4, <1>7, <1>b DEF Continues
      <4> QED BY <3>1, <4>1, <4>2
    <3>2. CASE h # 0
      <4>1. PICK Y : Y = BeforeCloser(ls, Closer(sc[h]), G[h - 1])
        OBVIOUS
      <4>2. /\ G[m] = G[h] /\ G[h] = From(f, Inside(sc[h]), Y)
            /\ Inside(sc[h]) \in Nonterminals /\ EndsOf(ls, Inside(sc[h]), Y)
        BY <1>2, <1>3, <3>2, <4>1
      <4>3. Inside(sc[h]) \in {"branches", "random"}
        BY DEF Inside
      <4>4. Continues(Inside(sc[h]), w)
        BY <1>7, <4>3 DEF Continues
      <4> QED BY <1>7, <1>b, <3>2, <4>2, <4>4
    <3> QED BY <3>1, <3>2
  <2> QED BY <2>3, <2>4, <2>5, <2>6 DEF m
<1>8. CASE w \in {"else", "endif", "end_random"}
  <2>1. CASE h = 0
    <3>1. ~Fits(sc, w)
      BY <1>8, <2>1 DEF Fits, h
    <3>2. G[m] = From(f, "file", {n}) \/ G[m] = {}
      BY <1>2, <2>1
    <3>3. w = "else" => i \notin From(f, "file", {n})
      BY <1>3, <1>4, <1>b DEF Continues
    <3>4. i - 1 # n
      BY <1>1 DEF n
    <3>5. w # "else" => i \notin From(f, "file", {n})
      BY <1>3, <1>4, <1>8, <3>4, LevelClose
    <3> QED BY <3>1, <3>2, <3>3, <3>5 DEF m
  <2>2. CASE h # 0
    <3> DEFINE g == sc[h]
               Y == BeforeCloser(ls, Closer(g), G[h - 1])
    <3>1. /\ G[m] = G[h] /\ G[h] = From(f, Inside(g), Y)
          /\ Inside(g) \in Nonterminals /\ EndsOf(ls, Inside(g), Y)
          /\ g \in {"if", "else", "start_random"}
      BY <1>1, <1>2, <1>3, <2>2 DEF ScopeNames
    <3>2. Fits(sc, w) <=> g \in Groups(w)
      BY <1>8, <2>2 DEF Fits, h
    <3>3. PICK s : s = SubSeq(sc, 1, h - 1)
      OBVIOUS
    <3>4. s \in Seq(ScopeNames) /\ Len(s) = h - 1 /\ Alternating(s) /\ Levels(ls, f, s, G)
      BY <1>1, <2>2, <3>3, LevelsKept DEF m
    <3> HIDE DEF g
    <3>5. CASE w = "else"
      <4>1. i \in G[h] <=> Inside(g) = "branches" /\ i + 1 \in G[h]
        <5> HIDE DEF Y
        <5>1. Continues(Inside(g), w) <=> Inside(g) = "branches"
          BY <3>5 DEF Continues
        <5> QED BY <1>b, <3>1, <3>5, <5>1
      <4>2. Inside(g) = "branches" <=> g \in Groups(w)
        BY <3>1, <3>5 DEF Inside, Groups
      <4>3. ASSUME Fits(sc, w)
            PROVE  /\ After(sc, w) = Append(s, w) /\ Append(s, w) \in Seq(ScopeNames)
                   /\ Len(Append(s, w)) = h /\ Alternating(Append(s, w))
                   /\ \E H : Levels(ls, f, Append(s, w), H) /\ H[h] = G[h]
        <5>1. g \in {"if", "else"}
          BY <3>2, <3>5, <4>3 DEF Groups
        <5>2. Inside(g) = Inside(w) /\ Closer(g) = Closer(w)
          BY <3>5, <5>1 DEF Inside, Closer
        <5>3. After(sc, w) = Append(s, w) /\ w \in ScopeNames /\ w # "percent_chance"
          BY <3>3, <3>5 DEF After, ScopeNames, h
        <5>4. G[h] = Opened(ls, f, s, G, w)
          BY <3>1, <3>4, <5>2, <5>3 DEF Opened
        <5>5. h - 1 + 1 = h
          BY <1>1
        <5>6. Len(s) + 1 = h
          BY <3>4, <5>5
        <5>7. /\ Append(s, w) \in Seq(ScopeNames) /\ Len(Append(s, w)) = Len(s) + 1
              /\ Alternating(Append(s, w))
              /\ \E H : Levels(ls, f, Append(s, w), H) /\ H[Len(s) + 1] = Opened(ls, f, s, G, w)
          <6>1. Extends(ls, f, s, G, w)
            BY <3>4, <5>3, LevelsMore
          <6> QED BY Zenon, <6>1 DEF Extends
        <5> QED BY Zenon, <5>3, <5>4, <5>6, <5>7
      <4> QED BY <3>1, <3>2, <4>1, <4>2, <4>3 DEF m
    <3>6. CASE w # "else"
      <4>1. i \in G[h] <=> i - 1 \in Y
        BY <1>8, <3>1, <3>6, LevelClose
      <4>2. i - 1 \in Y <=> w = Closer(g) /\ i + 1 \in G[h - 1]
        <5>1. i - 1 \in 0 .. Len(ls) - 1 /\ i - 1 + 1 = i /\ i - 1 + 2 = i + 1
          BY <1>1 DEF n
        <5> QED BY <5>1 DEF BeforeCloser
      <4>3. w = Closer(g) <=> g \in Groups(w)
        BY <1>8, <3>1, <3>6 DEF Closer, Groups
      <4>4. After(sc, w) = s
        BY <1>8, <3>3, <3>6 DEF After, h
      <4> QED BY <3>1, <3>2, <3>4, <4>1, <4>2, <4>3, <4>4 DEF m
    <3> QED BY <3>5, <3>6
  <2> QED BY <2>1, <2>2
<1> QED BY <1>4, <1>6, <1>7, <1>8 DEF structuralWords
------------------------------------------------------------------------------
(* The grammar has a solution *)

\* What a line derives rests on the lines after it alone.
LEMMA ReachSame ==
    ASSUME NEW ls \in Seq(structuralWords), NEW f, NEW g, NEW i \in 1 .. Len(ls) + 1,
           \A k \in i + 1 .. Len(ls) + 1 : f[k] = g[k], NEW nt
    PROVE  Reach(ls, f, i, nt) = Reach(ls, g, i, nt)
<1>1. Len(ls) \in Nat
  OBVIOUS
<1>2. ASSUME NEW j \in i .. Len(ls), NEW k \in i + 1 .. j
      PROVE  f[i + 1] = g[i + 1] /\ f[k + 1] = g[k + 1]
  <2>1. i + 1 \in i + 1 .. Len(ls) + 1 /\ k + 1 \in i + 1 .. Len(ls) + 1
    BY <1>1
  <2> QED BY <2>1
<1>3. ASSUME NEW j \in i .. Len(ls) PROVE f[i + 1] = g[i + 1]
  <2>1. i + 1 \in i + 1 .. Len(ls) + 1
    BY <1>1
  <2> QED BY <2>1
<1>4. ASSUME NEW j \in i - 1 .. Len(ls) PROVE j \in Reach(ls, f, i, nt) <=> j \in Reach(ls, g, i, nt)
  <2>1. CASE j = i - 1
    BY <2>1 DEF Reach
  <2>2. CASE j \in i .. Len(ls)
    BY <1>2, <1>3, <2>2 DEF Reach
  <2> QED BY <1>1, <2>1, <2>2
<1>5. Reach(ls, f, i, nt) \subseteq i - 1 .. Len(ls) /\ Reach(ls, g, i, nt) \subseteq i - 1 .. Len(ls)
  BY DEF Reach
<1> QED BY <1>4, <1>5

LEMMA GrammarExists ==
    ASSUME NEW ls \in Seq(structuralWords)
    PROVE  \E f : Grammar(ls, f)
<1> DEFINE N == Len(ls) + 1
           row(f, i) == [nt \in Nonterminals |-> Reach(ls, f, i, nt)]
           Solves(f, k) == f = [i \in k .. N |-> row(f, i)]
           Stuck == {k \in 1 .. N + 1 : ~\E f : Solves(f, k)}
<1>1. N \in Nat
  OBVIOUS
<1>2. ASSUME NEW f, NEW g, NEW i \in 1 .. N, \A k \in i + 1 .. N : f[k] = g[k]
      PROVE  row(f, i) = row(g, i)
  <2>1. \A nt : Reach(ls, f, i, nt) = Reach(ls, g, i, nt)
    BY <1>2, ReachSame
  <2> QED BY <2>1
<1> HIDE DEF N, row
<1>3. N + 1 \notin Stuck
  <2> DEFINE f == [m \in N + 1 .. N |-> m]
  <2>1. N + 1 .. N = {}
    BY <1>1
  <2>2. f = [i \in N + 1 .. N |-> row(f, i)]
    BY <2>1
  <2> HIDE DEF f
  <2>3. Solves(f, N + 1)
    BY <2>2
  <2> QED BY <2>3
<1>4. ASSUME NEW k \in 1 .. N, k + 1 \notin Stuck PROVE k \notin Stuck
  <2>1. PICK f : Solves(f, k + 1)
    BY <1>1, <1>4
  <2> DEFINE g == [i \in k .. N |-> IF i = k THEN row(f, k) ELSE f[i]]
  <2>2. \A i \in k + 1 .. N : f[i] = row(f, i)
    BY <2>1
  <2>3. /\ \A i \in k + 1 .. N : g[i] = f[i]
        /\ g[k] = row(f, k)
        /\ g = [i \in k .. N |-> g[i]]
    BY <1>1
  <2> HIDE DEF g
  <2>4. ASSUME NEW i \in k .. N PROVE row(f, i) = row(g, i)
    <3>1. \A m \in i + 1 .. N : m \in k + 1 .. N
      BY <1>1
    <3>2. \A m \in i + 1 .. N : f[m] = g[m]
      BY <2>3, <3>1
    <3>3. i \in 1 .. N
      BY <1>1
    <3> QED BY <1>2, <3>2, <3>3
  <2>5. \A i \in k .. N : g[i] = row(g, i)
    <3>1. \A i \in k .. N : i = k \/ i \in k + 1 .. N
      BY <1>1
    <3> QED BY <2>2, <2>3, <2>4, <3>1
  <2>6. Solves(g, k)
    BY <2>3, <2>5
  <2> QED BY <2>6
<1>5. Stuck = {}
  <2> SUFFICES ASSUME Stuck # {} PROVE FALSE
    OBVIOUS
  <2>1. Stuck \in SUBSET (0 .. N + 1) /\ N + 1 \in Nat
    BY <1>1
  <2> DEFINE k == Max(Stuck)
  <2> HIDE DEF Stuck
  <2>2. k \in Stuck /\ \A q \in Stuck : q <= k
    BY <2>1, MaxExists
  <2>3. k \in 1 .. N + 1
    BY <2>2 DEF Stuck
  <2> HIDE DEF k
  <2>4. k \in 1 .. N
    BY <1>1, <1>3, <2>2, <2>3
  <2>5. k + 1 \notin Stuck
    BY <2>2, <2>4
  <2> QED BY <1>4, <2>2, <2>4, <2>5
<1>6. \E f : Solves(f, 1)
  <2>1. 1 \in 1 .. N + 1
    BY <1>1
  <2> QED BY <1>5, <2>1
<1> QED BY <1>6 DEF Grammar, row, N

InGrammar(ls, f) == Len(ls) \in f[1]["file"]

LEMMA DerivesIs ==
    ASSUME lines \in Seq(structuralWords)
    PROVE  \E f : Grammar(lines, f) /\ (Derives <=> InGrammar(lines, f))
<1> DEFINE F == CHOOSE f : Grammar(lines, f)
<1>1. Grammar(lines, F)
  BY GrammarExists
<1>2. Derives <=> InGrammar(lines, F)
  BY DEF Derives, InGrammar, Grammar, Reach, Nonterminals
<1> HIDE DEF F
<1> QED BY <1>1, <1>2
------------------------------------------------------------------------------
(* The walk over a file of scope words *)

\* The names of the open scopes.
Open == [j \in 1 .. Len(scopes) |-> nodes[scopes[j]].name]

LEMMA OpenFacts ==
    ASSUME Typed
    PROVE  /\ Open \in Seq(Words) /\ Len(Open) = Len(scopes) /\ Len(scopes) \in Nat
           /\ \A j \in 1 .. Len(scopes) : Open[j] = nodes[scopes[j]].name
           /\ DOMAIN scopes = 1 .. Len(scopes)
<1>1. /\ Len(scopes) \in Nat /\ DOMAIN scopes = 1 .. Len(scopes)
      /\ \A j \in 1 .. Len(scopes) : nodes[scopes[j]].name \in Words
  <2>1. \A n \in 1 .. Len(nodes) : nodes[n].name \in Words
    <3>1. \A n \in 1 .. Len(nodes) : nodes[n] \in NodeRecords
      BY TypedFacts
    <3> QED BY <3>1 DEF NodeRecords
  <2> QED BY <2>1, TypedFacts
<1>2. Open \in [1 .. Len(scopes) -> Words]
  BY <1>1 DEF Open
<1>3. Open \in Seq(Words) /\ Len(Open) = Len(scopes)
  BY <1>1, <1>2
<1> QED BY <1>1, <1>3 DEF Open

\* The scopes are named as before, up to those that close.
LEMMA OpenPrefix ==
    ASSUME Typed, NEW kept \in 0 .. Len(scopes), NEW ns, SameNodes(ns)
    PROVE  [j \in 1 .. kept |-> ns[SubSeq(scopes, 1, kept)[j]].name] = SubSeq(Open, 1, kept)
<1>1. /\ Open \in Seq(Words) /\ Len(Open) = Len(scopes) /\ Len(scopes) \in Nat /\ kept \in Nat
      /\ \A j \in 1 .. Len(scopes) : Open[j] = nodes[scopes[j]].name
  BY OpenFacts
<1>2. \A j \in 1 .. kept : j \in 1 .. Len(scopes) /\ SubSeq(scopes, 1, kept)[j] = scopes[j]
  BY <1>1, TypedFacts DEF Typed, TypeOK
<1>3. \A j \in 1 .. Len(scopes) : scopes[j] \in 1 .. Len(nodes)
  BY TypedFacts
<1>4. \A n \in 1 .. Len(nodes) : ns[n].name = nodes[n].name
  BY DEF SameNodes, Alike
<1>5. \A j \in 1 .. kept : ns[SubSeq(scopes, 1, kept)[j]].name = Open[j]
  BY <1>1, <1>2, <1>3, <1>4
<1>6. SubSeq(Open, 1, kept) = [j \in 1 .. kept |-> Open[j]]
  BY <1>1
<1> QED BY <1>5, <1>6

LEMMA OpenClosed ==
    ASSUME Typed, NEW names, closeScopes(names)
    PROVE  Open' = SubSeq(Open, 1, Kept(names))
<1> DEFINE k == Kept(names)
           outer == SubSeq(scopes, 1, k)
<1>1. k \in 0 .. Len(scopes) /\ Len(scopes) \in Nat
  BY KeptTyped, TypedFacts
<1>2. nodes' = Settled(k) /\ scopes' = outer
  BY DEF closeScopes
<1>3. Len(outer) = k
  BY <1>1 DEF Typed, TypeOK
<1>4. SameNodes(Settled(k))
  BY SettledKeeps
<1> HIDE DEF k
<1>5. [j \in 1 .. k |-> Settled(k)[outer[j]].name] = SubSeq(Open, 1, k)
  BY <1>1, <1>4, OpenPrefix
<1>6. Open' = [j \in 1 .. k |-> Settled(k)[outer[j]].name]
  <2> HIDE DEF outer
  <2> QED BY <1>2, <1>3 DEF Open
<1> QED BY <1>5, <1>6 DEF k

LEMMA OpenMore ==
    ASSUME Typed, NEW kept \in 0 .. Len(scopes), NEW w \in Words, OpenAfter(kept, w)
    PROVE  Open' = Append(SubSeq(Open, 1, kept), w)
<1> DEFINE N     == Len(nodes)
           outer == SubSeq(scopes, 1, kept)
           ns    == Settled(kept)
           new   == [Node(w) EXCEPT !.parent = IF kept = 0 THEN 0 ELSE outer[kept]]
<1>1. /\ kept \in Nat /\ Len(scopes) \in Nat /\ N \in Nat
      /\ scopes \in Seq(1 .. N) /\ Open \in Seq(Words) /\ Len(Open) = Len(scopes)
  BY TypedFacts, OpenFacts DEF Typed, TypeOK
<1>2. nodes' = Append(ns, new) /\ scopes' = Append(outer, N + 1)
  BY DEF OpenAfter
<1>3. SameNodes(ns) /\ ns \in Seq(NodeRecords) /\ Len(ns) = N
  BY SettledKeeps DEF SameNodes
<1>4. new.name = w
  BY DEF Node
<1>5. outer \in Seq(1 .. N) /\ Len(outer) = kept /\ \A j \in 1 .. kept : outer[j] \in 1 .. N
  BY <1>1
<1>6. [j \in 1 .. kept |-> ns[outer[j]].name] = SubSeq(Open, 1, kept)
  BY <1>3, OpenPrefix
<1> HIDE DEF new, ns, N, outer
<1>7. /\ nodes'[N + 1] = new /\ \A n \in 1 .. N : nodes'[n] = ns[n]
      /\ Len(scopes') = kept + 1 /\ scopes'[kept + 1] = N + 1
      /\ \A j \in 1 .. kept : scopes'[j] = outer[j]
  BY <1>1, <1>2, <1>3, <1>5
<1>8. Open' = [j \in 1 .. kept + 1 |-> nodes'[scopes'[j]].name]
  BY <1>7 DEF Open
<1>9. PICK s : s = SubSeq(Open, 1, kept)
  OBVIOUS
<1>10. s \in Seq(Words) /\ Len(s) = kept /\ \A j \in 1 .. kept : s[j] = ns[outer[j]].name
  <2>1. s \in Seq(Words) /\ Len(s) = kept
    BY <1>1, <1>9
  <2> QED BY <1>6, <1>9, <2>1
<1>11. Append(s, w) = [j \in 1 .. kept + 1 |-> IF j = kept + 1 THEN w ELSE s[j]]
  <2>1. PICK a : a = Append(s, w)
    OBVIOUS
  <2>2. a \in Seq(Words) /\ Len(a) = kept + 1 /\ a[kept + 1] = w /\ \A j \in 1 .. kept : a[j] = s[j]
    BY <1>10, <2>1
  <2>3. a = [j \in 1 .. kept + 1 |-> a[j]]
    BY <2>2
  <2>4. \A j \in 1 .. kept + 1 : a[j] = IF j = kept + 1 THEN w ELSE s[j]
    <3>1. \A j \in 1 .. kept + 1 : j = kept + 1 \/ j \in 1 .. kept
      BY <1>1
    <3>2. kept + 1 \notin 1 .. kept
      BY <1>1
    <3> QED BY <2>2, <3>1, <3>2
  <2> QED BY <2>1, <2>3, <2>4
<1>12. \A j \in 1 .. kept + 1 : nodes'[scopes'[j]].name = IF j = kept + 1 THEN w ELSE s[j]
  <2>1. \A j \in 1 .. kept + 1 : j = kept + 1 \/ j \in 1 .. kept
    BY <1>1
  <2>2. kept + 1 \notin 1 .. kept
    BY <1>1
  <2> QED BY <1>4, <1>5, <1>7, <1>10, <2>1, <2>2
<1> QED BY <1>8, <1>9, <1>11, <1>12

\* A closer finds its group where the grammar does, and reports otherwise.
LEMMA KeptHolder ==
    ASSUME Typed, Open \in Seq(ScopeNames), Alternating(Open),
           NEW names, names \in {conditionalNames, randomNames}
    PROVE  IF Holder(Open) # 0 /\ Open[Holder(Open)] \in names
             THEN Kept(names) = Holder(Open) - 1 /\ closeScopesReports(names) = {}
             ELSE closeScopesReports(names) # {}
<1> DEFINE h == Holder(Open)
           m == Len(scopes)
           hits == {j \in DOMAIN scopes : nodes[scopes[j]].name \in names}
           closed == {nodes[scopes[j]].name : j \in Kept(names) + 1 .. Len(scopes)}
<1>1. /\ m \in Nat /\ Len(Open) = m /\ DOMAIN scopes = 1 .. m /\ h \in 0 .. m
      /\ \A j \in 1 .. m : Open[j] = nodes[scopes[j]].name /\ Open[j] \in ScopeNames
      /\ h # 0 => h \in 1 .. m /\ Open[h] # "percent_chance"
  BY OpenFacts, HolderFacts
<1>2. \A j \in 1 .. m : h < j => Open[j] = "percent_chance"
  BY <1>1 DEF Holder
<1>3. "percent_chance" \notin names
  BY DEF conditionalNames, randomNames
<1>4. /\ Kept(names) = IF hits = {} THEN 0 ELSE Max(hits) - 1
      /\ closeScopesReports(names) = {[at |-> here, what |-> what] : what \in
            {what \in {"unterminated", "unmatched"} :
               IF what = "unmatched" THEN closed \cap names = {}
                                     ELSE closed \ (names \cup {"percent_chance"}) # {}}}
  BY DEF Kept, closeScopesReports
<1>5. closeScopesReports(names) = {}
        <=> closed \cap names # {} /\ closed \ (names \cup {"percent_chance"}) = {}
  <2> HIDE DEF closed
  <2> QED BY <1>4
<1>6. hits = {j \in 1 .. m : Open[j] \in names}
  BY <1>1
<1>7. Kept(names) \in 0 .. m /\ closed = {Open[j] : j \in Kept(names) + 1 .. m}
  <2>1. Kept(names) \in 0 .. m
    BY KeptTyped
  <2>2. \A j \in Kept(names) + 1 .. m : j \in 1 .. m
    BY <1>1, <2>1
  <2> QED BY <1>1, <2>1, <2>2
<1> HIDE DEF h, m, hits, closed
<1>8. hits # {} => Max(hits) \in hits /\ \A q \in hits : q <= Max(hits)
  <2>1. hits \in SUBSET (0 .. m)
    BY <1>1, <1>6
  <2> QED BY <1>1, <2>1, MaxExists
<1>9. CASE h # 0 /\ Open[h] \in names
  <2>1. h \in hits /\ h \in 1 .. m
    BY <1>1, <1>6, <1>9
  <2>2. PICK x : x = Max(hits)
    OBVIOUS
  <2>3. x \in 1 .. m /\ Open[x] \in names /\ h <= x
    BY <1>6, <1>8, <2>1, <2>2
  <2>4. ~(h < x)
    BY <1>2, <1>3, <2>3
  <2>5. x = h
    BY <1>1, <2>1, <2>3, <2>4
  <2>6. Kept(names) = h - 1
    BY <1>4, <2>1, <2>2, <2>5
  <2>7. closed = {Open[j] : j \in h .. m}
    <3>1. h - 1 + 1 = h
      BY <1>1
    <3> QED BY <1>7, <2>6, <3>1
  <2>8. h \in h .. m /\ \A j \in h .. m : j = h \/ (j \in 1 .. m /\ h < j)
    BY <1>1, <2>1
  <2>9. Open[h] \in closed
    BY <2>7, <2>8
  <2>10. \A c \in closed : c \in names \/ c = "percent_chance"
    BY <1>2, <1>9, <2>7, <2>8
  <2> QED BY <1>5, <1>9, <2>6, <2>9, <2>10 DEF h
<1>10. CASE ~(h # 0 /\ Open[h] \in names)
  <2>1. CASE hits = {}
    <3>1. Kept(names) + 1 .. m = 1 .. m
      BY <1>1, <1>4, <2>1
    <3>2. closed \cap names = {}
      BY <1>6, <1>7, <2>1, <3>1
    <3> QED BY <1>5, <1>10, <3>2 DEF h
  <2>2. CASE hits # {}
    <3>1. PICK x : x = Max(hits)
      OBVIOUS
    <3>2. x \in 1 .. m /\ Open[x] \in names
      BY <1>6, <1>8, <2>2, <3>1
    <3>3. ~(h < x)
      BY <1>2, <1>3, <3>2
    <3>4. h # 0 /\ h \in x .. m /\ h \in 1 .. m
      BY <1>1, <3>2, <3>3
    <3>5. Kept(names) + 1 = x
      BY <1>1, <1>4, <2>2, <3>1, <3>2
    <3>6. Open[h] \in closed /\ Open[h] \notin names /\ Open[h] # "percent_chance"
      BY <1>1, <1>7, <1>10, <3>4, <3>5
    <3> QED BY <1>5, <1>10, <3>6 DEF h
  <2> QED BY <2>1, <2>2
<1> QED BY <1>9, <1>10 DEF h

\* A line of a file of scope words: the word fits, or it is reported.
LEMMA WordStep ==
    ASSUME Typed, owner = 0, inXs = FALSE, NEW w \in structuralWords, Line(w)
    PROVE  /\ lines' = Append(lines, w) /\ script' = script /\ ~done /\ done' = FALSE
           /\ owner' = 0 /\ inXs' = FALSE /\ diags \subseteq diags'
           /\ Open \in Seq(ScopeNames) /\ Alternating(Open) =>
                IF Fits(Open, w) THEN Open' = After(Open, w) /\ diags' = diags ELSE diags' # {}
<1>1. structural(w)
  <2>1. w \notin Headers /\ w \notin Directives /\ w \notin Statements /\ w # "blank" /\ w # "#hash"
        /\ w # "junk" /\ w # "{" /\ w # "}"
    BY Zenon DEF structuralWords, Headers, Directives, Statements
  <2>2. ~Skip(w)
    BY Zenon, <2>1 DEF Skip
  <2>3. ~closeSection(w) /\ ~includeDirective(w) /\ ~constDirective(w)
    BY Zenon, <2>1 DEF closeSection, includeDirective, constDirective, Directives
  <2>4. ~openBrace(w) /\ ~closeBrace(w) /\ ~junkLine(w) /\ ~structuralInBrace(w)
        /\ ~attributeLine(w) /\ ~commandStatement(w)
    BY Zenon, <2>1 DEF openBrace, closeBrace, junkLine, structuralInBrace, attributeLine, commandStatement
  <2> QED BY Zenon, <2>2, <2>3, <2>4 DEF Line
<1>2. Read(w) /\ owner' = 0 /\ inXs' = FALSE
  BY <1>1 DEF structural, StatementLine, xs
<1>3. lines' = Append(lines, w) /\ script' = script /\ ~done /\ done' = FALSE
  <2>1. ~done /\ done' = done
    BY <1>2 DEF Read
  <2> QED BY <1>2, <2>1 DEF Read, Typed, TypeOK
<1>4. w \in Words
  BY DEF Words
<1>5. diags \subseteq diags'
  BY <1>1 DEF structural, structuralWords, closeScopes
<1>6. ASSUME Open \in Seq(ScopeNames), Alternating(Open)
      PROVE  IF Fits(Open, w) THEN Open' = After(Open, w) /\ diags' = diags ELSE diags' # {}
  <2> DEFINE h == Holder(Open)
             Found(names) == h # 0 /\ Open[h] \in names
  <2>1. /\ Len(Open) = Len(scopes) /\ Len(scopes) \in Nat /\ h \in 0 .. Len(scopes)
        /\ \A j \in 1 .. Len(scopes) : Open[j] = nodes[scopes[j]].name
    BY <1>6, OpenFacts, HolderFacts
  <2>2. \A names \in {conditionalNames, randomNames} :
          IF Found(names) THEN Kept(names) = h - 1 /\ closeScopesReports(names) = {}
                          ELSE closeScopesReports(names) # {}
    BY <1>6, KeptHolder
  <2>3. \A names : Kept(names) \in 0 .. Len(scopes)
    BY KeptTyped
  <2> HIDE DEF h, Found
  <2>4. CASE w = "if" \/ w = "start_random"
    <3>1. OpenAfter(Len(scopes), w) /\ diags' = diags
      BY <1>1, <2>4 DEF structural
    <3>2. Open' = Append(SubSeq(Open, 1, Len(scopes)), w)
      BY <1>4, <2>1, <3>1, OpenMore
    <3>3. SubSeq(Open, 1, Len(scopes)) = Open
      BY <1>6, <2>1
    <3>4. Fits(Open, w) /\ After(Open, w) = Append(Open, w)
      BY <2>4 DEF Fits, After
    <3> QED BY <3>1, <3>2, <3>3, <3>4
  <2>5. CASE w = "percent_chance"
    <3>1. OpenAfter(h, w) /\ diags' = diags
      <4>1. OpenAfter(IF scopes # <<>> /\ nodes[Last(scopes)].name = "percent_chance"
                        THEN Len(scopes) - 1 ELSE Len(scopes), w) /\ diags' = diags
        BY <1>1, <2>5 DEF structural
      <4>2. scopes # <<>> <=> Len(scopes) # 0
        BY DEF Typed, TypeOK
      <4>3. Len(scopes) # 0 => nodes[Last(scopes)].name = Open[Len(scopes)]
        BY <2>1 DEF Last
      <4> QED BY <2>1, <4>1, <4>2, <4>3 DEF Holder, h
    <3>2. Open' = Append(SubSeq(Open, 1, h), w)
      BY <1>4, <2>1, <3>1, OpenMore
    <3>3. Fits(Open, w) /\ After(Open, w) = Append(SubSeq(Open, 1, h), w)
      BY <2>5 DEF Fits, After, h
    <3> QED BY <3>1, <3>2, <3>3
  <2>6. CASE w = "else"
    <3>1. OpenAfter(Kept(conditionalNames), w) /\ diags' = diags \cup closeScopesReports(conditionalNames)
      BY <1>1, <2>6 DEF structural
    <3>2. Open' = Append(SubSeq(Open, 1, Kept(conditionalNames)), w)
      BY <1>4, <2>3, <3>1, OpenMore
    <3>3. /\ Fits(Open, w) <=> Found(conditionalNames)
          /\ After(Open, w) = Append(SubSeq(Open, 1, h - 1), w)
      BY <2>6 DEF Fits, After, h, Found, Groups, conditionalNames
    <3> QED BY <2>2, <3>1, <3>2, <3>3
  <2>7. CASE w = "endif"
    <3>1. closeScopes(conditionalNames)
      BY <1>1, <2>7 DEF structural
    <3>2. Open' = SubSeq(Open, 1, Kept(conditionalNames))
          /\ diags' = diags \cup closeScopesReports(conditionalNames)
      BY <3>1, OpenClosed DEF closeScopes
    <3>3. /\ Fits(Open, w) <=> Found(conditionalNames)
          /\ After(Open, w) = SubSeq(Open, 1, h - 1)
      BY <2>7 DEF Fits, After, h, Found, Groups, conditionalNames
    <3> QED BY <2>2, <3>2, <3>3
  <2>8. CASE w = "end_random"
    <3>1. closeScopes(randomNames)
      BY <1>1, <2>8 DEF structural
    <3>2. Open' = SubSeq(Open, 1, Kept(randomNames))
          /\ diags' = diags \cup closeScopesReports(randomNames)
      BY <3>1, OpenClosed DEF closeScopes
    <3>3. /\ Fits(Open, w) <=> Found(randomNames)
          /\ After(Open, w) = SubSeq(Open, 1, h - 1)
      BY <2>8 DEF Fits, After, h, Found, Groups, randomNames
    <3> QED BY <2>2, <3>2, <3>3
  <2> QED BY <2>4, <2>5, <2>6, <2>7, <2>8 DEF structuralWords
<1> QED BY <1>2, <1>3, <1>5, <1>6

\* The words read so far begin the file ls.
Ahead(ls) == Len(lines) <= Len(ls) /\ \A i \in 1 .. Len(lines) : ls[i] = lines[i]

\* What the walk knows of a file that begins with the lines read: with a report it
\* is in no way well nested; without one, it is if the open scopes derive the rest.
Foreseen(ls, f) ==
    IF diags = {}
      THEN \E G : Levels(ls, f, Open, G) /\ (InGrammar(ls, f) <=> here \in G[Len(Open)])
      ELSE ~InGrammar(ls, f)

NestInv == script.words \subseteq structuralWords =>
    /\ owner = 0 /\ inXs = FALSE /\ lines \in Seq(structuralWords)
    /\ ~done /\ diags = {} => Open \in Seq(ScopeNames) /\ Alternating(Open)
    /\ ~done => \A ls \in Seq(structuralWords) : \A f :
                  Grammar(ls, f) /\ Ahead(ls) => Foreseen(ls, f)
    /\ done => \A f : Grammar(lines, f) => (diags = {} <=> InGrammar(lines, f))

LEMMA NestInit == Init => NestInv
<1> SUFFICES ASSUME Init PROVE NestInv
  OBVIOUS
<1>1. owner = 0 /\ inXs = FALSE /\ lines = <<>> /\ scopes = <<>> /\ diags = {} /\ done = FALSE
  BY DEF Init
<1>2. Open = <<>>
  BY <1>1 DEF Open
<1>3. Open \in Seq(ScopeNames) /\ Len(Open) = 0 /\ lines \in Seq(structuralWords) /\ here = 1
  BY <1>1, <1>2 DEF here
<1>4. Alternating(Open)
  BY <1>3 DEF Alternating
<1>5. ASSUME NEW ls \in Seq(structuralWords), NEW f, Grammar(ls, f) PROVE Foreseen(ls, f)
  <2> DEFINE S == From(f, "file", {Len(ls)})
             G == [j \in 0 .. 0 |-> S]
  <2>1. G[0] = S
    OBVIOUS
  <2> HIDE DEF G
  <2>2. Levels(ls, f, Open, G)
    BY <1>3, <2>1 DEF Levels
  <2>3. 1 \in DOMAIN f
    <3>1. Len(ls) \in Nat
      OBVIOUS
    <3>2. 1 \in 1 .. Len(ls) + 1
      BY <3>1
    <3>3. "file" \in Nonterminals
      BY DEF Nonterminals
    <3>4. DOMAIN f = 1 .. Len(ls) + 1
      BY <1>5, <3>2, <3>3, Unfold
    <3> QED BY <3>2, <3>4
  <2>4. InGrammar(ls, f) <=> here \in G[Len(Open)]
    BY <1>3, <2>1, <2>3 DEF From, InGrammar
  <2> QED BY <1>1, <2>2, <2>4 DEF Foreseen
<1> QED BY <1>1, <1>3, <1>4, <1>5 DEF NestInv

LEMMA NestWord ==
    ASSUME Typed, NestInv, script.words \subseteq structuralWords,
           NEW w \in structuralWords, Line(w)
    PROVE  NestInv'
<1>1. /\ lines' = Append(lines, w) /\ script' = script /\ ~done /\ done' = FALSE
      /\ owner' = 0 /\ inXs' = FALSE /\ diags \subseteq diags'
      /\ Open \in Seq(ScopeNames) /\ Alternating(Open) =>
           IF Fits(Open, w) THEN Open' = After(Open, w) /\ diags' = diags ELSE diags' # {}
  BY WordStep DEF NestInv
<1>2. lines \in Seq(structuralWords) /\ lines' \in Seq(structuralWords)
  BY <1>1 DEF NestInv
<1>3. /\ Len(lines) \in Nat /\ Len(lines') = here /\ here = Len(lines) + 1 /\ lines'[here] = w
      /\ here' = here + 1 /\ \A i \in 1 .. Len(lines) : lines'[i] = lines[i]
  BY <1>1, <1>2 DEF here
<1>4. diags = {} => Open \in Seq(ScopeNames) /\ Alternating(Open)
  BY <1>1 DEF NestInv
<1>5. ASSUME NEW ls \in Seq(structuralWords), NEW f, Grammar(ls, f), Ahead(ls)'
      PROVE  Foreseen(ls, f)'
  <2>1. here \in 1 .. Len(ls) /\ ls[here] = w /\ Ahead(ls)
    <3>1. here <= Len(ls) /\ \A i \in 1 .. here : ls[i] = lines'[i]
      BY <1>3, <1>5 DEF Ahead
    <3>2. Len(ls) \in Nat /\ here \in 1 .. here /\ \A i \in 1 .. Len(lines) : i \in 1 .. here
      BY <1>3
    <3> QED BY <1>3, <3>1, <3>2 DEF Ahead
  <2>2. Foreseen(ls, f)
    BY <1>1, <1>5, <2>1 DEF NestInv
  <2>3. CASE diags # {}
    <3>1. ~InGrammar(ls, f) /\ diags' # {}
      BY <1>1, <2>2, <2>3 DEF Foreseen
    <3> QED BY <3>1 DEF Foreseen, InGrammar
  <2>4. CASE diags = {}
    <3>1. PICK G : Levels(ls, f, Open, G) /\ (InGrammar(ls, f) <=> here \in G[Len(Open)])
      BY <2>2, <2>4 DEF Foreseen
    <3>2. /\ Fits(Open, w) =>
                /\ After(Open, w) \in Seq(ScopeNames) /\ Alternating(After(Open, w))
                /\ \E H : /\ Levels(ls, f, After(Open, w), H)
                          /\ here \in G[Len(Open)] <=> here + 1 \in H[Len(After(Open, w))]
          /\ ~Fits(Open, w) => here \notin G[Len(Open)]
      BY <1>4, <1>5, <2>1, <2>4, <3>1, LevelStep
    <3>3. CASE Fits(Open, w)
      <4>1. Open' = After(Open, w) /\ diags' = {}
        BY <1>1, <1>4, <2>4, <3>3
      <4>2. \E H : Levels(ls, f, Open', H) /\ (InGrammar(ls, f) <=> here' \in H[Len(Open')])
        BY <1>3, <3>1, <3>2, <3>3, <4>1
      <4> QED BY <4>1, <4>2 DEF Foreseen, InGrammar, Levels, LevelAt, From
    <3>4. CASE ~Fits(Open, w)
      <4>1. diags' # {} /\ ~InGrammar(ls, f)
        BY <1>1, <1>4, <2>4, <3>1, <3>2, <3>4
      <4> QED BY <4>1 DEF Foreseen, InGrammar
    <3> QED BY <3>3, <3>4
  <2> QED BY <2>3, <2>4
<1>6. ASSUME diags' = {} PROVE Open' \in Seq(ScopeNames) /\ Alternating(Open')
  <2>1. diags = {}
    BY <1>1, <1>6
  <2>2. Fits(Open, w) /\ Open' = After(Open, w)
    BY <1>1, <1>4, <1>6, <2>1
  <2>3. After(Open, w) \in Seq(ScopeNames) /\ Alternating(After(Open, w))
    <3>1. PICK ls : ls = Append(lines, w)
      OBVIOUS
    <3>2. ls \in Seq(structuralWords) /\ here \in 1 .. Len(ls) /\ ls[here] = w /\ Ahead(ls)
      BY <1>1, <1>2, <1>3, <3>1 DEF Ahead
    <3>3. PICK f : Grammar(ls, f)
      BY <3>2, GrammarExists
    <3>4. PICK G : Levels(ls, f, Open, G)
      BY <1>1, <2>1, <3>2, <3>3 DEF NestInv, Foreseen
    <3> QED BY <1>4, <2>1, <2>2, <3>2, <3>3, <3>4, LevelStep
  <2> QED BY <2>2, <2>3
<1> QED BY <1>1, <1>2, <1>5, <1>6 DEF NestInv, Alternating

LEMMA NestClose ==
    ASSUME Typed, NestInv, script.words \subseteq structuralWords, closeAll
    PROVE  NestInv'
<1>1. /\ owner = 0 /\ inXs = FALSE /\ lines \in Seq(structuralWords) /\ ~done
      /\ owner' = 0 /\ inXs' = FALSE /\ lines' = lines /\ script' = script /\ done' = TRUE
  BY DEF NestInv, closeAll
<1>2. diags' = {} <=> diags = {} /\ scopes = <<>>
  BY <1>1 DEF closeAll
<1>3. ASSUME NEW f, Grammar(lines, f) PROVE diags' = {} <=> InGrammar(lines, f)
  <2>1. Len(lines) \in Nat /\ here = Len(lines) + 1 /\ Ahead(lines)
    BY <1>1 DEF Ahead, here
  <2>2. Foreseen(lines, f)
    BY <1>1, <1>3, <2>1 DEF NestInv
  <2>3. CASE diags # {}
    BY <1>2, <2>2, <2>3 DEF Foreseen
  <2>4. CASE diags = {}
    <3>1. PICK G : Levels(lines, f, Open, G) /\ (InGrammar(lines, f) <=> here \in G[Len(Open)])
      BY <2>2, <2>4 DEF Foreseen
    <3>2. Open \in Seq(ScopeNames) /\ Alternating(Open)
      BY <1>1, <2>4 DEF NestInv
    <3>3. TopOf(lines, f, Open, G, Holder(Open))
      BY <1>1, <3>1, <3>2, TopLevel
    <3>4. Len(Open) = 0 <=> scopes = <<>>
      BY OpenFacts DEF Typed, TypeOK
    <3>5. here \in From(f, "file", {Len(lines)})
      <4>1. "file" \in Nonterminals /\ EndsOf(lines, "file", {Len(lines)})
        BY <2>1 DEF Nonterminals, EndsOf
      <4> QED BY <1>1, <1>3, <2>1, <4>1, LevelEnd
    <3>6. \A g, S : here \notin From(f, Inside(g), BeforeCloser(lines, Closer(g), S))
      <4> SUFFICES ASSUME NEW g, NEW S PROVE here \notin From(f, Inside(g), BeforeCloser(lines, Closer(g), S))
        OBVIOUS
      <4>1. Inside(g) \in Nonterminals /\ EndsOf(lines, Inside(g), BeforeCloser(lines, Closer(g), S))
        BY <1>1, GroupEnds
      <4>2. Len(lines) \notin BeforeCloser(lines, Closer(g), S)
        BY <2>1 DEF BeforeCloser
      <4> QED BY <1>1, <1>3, <2>1, <4>1, <4>2, LevelEnd
    <3>7. Holder(Open) # 0 => Len(Open) # 0
      BY <3>2, HolderFacts
    <3>8. here \in G[Len(Open)] <=> Len(Open) = 0
      BY <3>3, <3>5, <3>6, <3>7 DEF TopOf
    <3> QED BY <1>2, <2>4, <3>1, <3>4, <3>8
  <2> QED BY <2>3, <2>4
<1>4. ASSUME NEW f PROVE (Grammar(lines, f)' <=> Grammar(lines, f))
                         /\ (InGrammar(lines, f)' <=> InGrammar(lines, f))
  BY <1>1 DEF InGrammar, Grammar, Reach
<1>5. \A f : Grammar(lines, f)' => (diags' = {} <=> InGrammar(lines, f)')
  BY <1>3, <1>4
<1> QED BY <1>1, <1>5, Zenon DEF NestInv

LEMMA NestStep == LinesInv /\ NestInv /\ [Next]_vars => NestInv'
<1> SUFFICES ASSUME LinesInv, NestInv, [Next]_vars PROVE NestInv'
  OBVIOUS
<1>0. Typed
  BY DEF LinesInv
<1>1. CASE Next
  <2>1. script' = script
    <3>1. ASSUME NEW w, Line(w) PROVE script' = script
      BY <3>1 DEF Line, Skip, closeSection, includeDirective, constDirective, openBrace, closeBrace,
         junkLine, structuralInBrace, structural, attributeLine, commandStatement, StatementLine, Read
    <3> QED BY <1>1, <3>1 DEF Next, closeAll
  <2>2. CASE ~(script.words \subseteq structuralWords)
    BY <2>1, <2>2 DEF NestInv
  <2>3. CASE script.words \subseteq structuralWords
    <3>1. ASSUME NEW w \in script.words, Line(w) PROVE NestInv'
      BY <1>0, <2>3, <3>1, NestWord
    <3> QED BY <1>0, <1>1, <2>3, <3>1, NestClose DEF Next
  <2> QED BY <2>2, <2>3
<1>2. CASE UNCHANGED vars
  <2>1. /\ script' = script /\ lines' = lines /\ scopes' = scopes /\ nodes' = nodes /\ owner' = owner
        /\ inXs' = inXs /\ diags' = diags /\ done' = done
    BY <1>2 DEF vars, tree, xs
  <2>2. Open' = Open
    BY <2>1 DEF Open
  <2>3. here' = here
    BY <2>1 DEF here
  <2>4. ASSUME NEW ls PROVE Ahead(ls)' <=> Ahead(ls)
    BY <2>1 DEF Ahead
  <2>5. ASSUME NEW ls, NEW f PROVE Foreseen(ls, f)' <=> Foreseen(ls, f)
    BY <2>1, <2>2, <2>3 DEF Foreseen
  <2>6. (done' <=> done) /\ (inXs' = FALSE <=> inXs = FALSE)
    BY <2>1, Zenon
  <2> QED BY <2>1, <2>2, <2>4, <2>5, <2>6, Zenon DEF NestInv
<1> QED BY <1>1, <1>2

\* A file of scope words is reported if and only if it is not well nested: without
\* a report the open scopes are levels of the grammar, and a word is reported
\* where no level goes on with it (structural, closeScopes and syncConstructs,
\* parse.go:432-512, 759-781).
THEOREM CleanIffWellNestedHolds == Spec => []CleanIffWellNested
<1>1. NestInv => CleanIffWellNested
  <2> SUFFICES ASSUME NestInv, done, script.words \subseteq structuralWords
               PROVE  diags = {} <=> Derives
    BY DEF CleanIffWellNested
  <2>1. PICK f : Grammar(lines, f) /\ (Derives <=> InGrammar(lines, f))
    BY DerivesIs DEF NestInv
  <2> QED BY <2>1 DEF NestInv
<1>2. Init => LinesInv /\ NestInv
  BY InitKept, NestInit
<1>3. LinesInv /\ NestInv /\ [Next]_vars => (LinesInv /\ NestInv)'
  BY StepKept, NestStep
<1> QED BY <1>1, <1>2, <1>3, PTL DEF Spec
==============================================================================
