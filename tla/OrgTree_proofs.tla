------------------------------ MODULE OrgTree_proofs ------------------------------
(* Theorems about OrgTree, for any departments, demo tree, files and       *)
(* handlers.                                                               *)
EXTENDS OrgTree, FiniteSetTheorems, SequenceTheorems, WellFoundedInduction, TLAPS

(***************************************************************************)
(* Following parents.  orderOrgRows and the demo tree compute the path of  *)
(* a department from its parent's.  When following parents never goes      *)
(* round in a circle such a computation has a result: the results on the   *)
(* sets that are closed under parents agree, and together cover all.       *)
(***************************************************************************)
Grounded(D, P) == \A S \in SUBSET D : S # {} => \E u \in S : P[u] \notin S

Computes(D, V, base, ext) == base \in [D -> V] /\ ext \in [V \X D -> V]

IsResult(D, P, base, ext, f) ==
    \A u \in D : f[u] = IF P[u] \in D THEN ext[<<f[P[u]], u>>] ELSE base[u]

(* A recursion along the parents has a result where the parents make no    *)
(* cycle, whatever a unit takes from its parent.                           *)
LEMMA AlongParents ==
    ASSUME NEW D, NEW P, NEW V, NEW base, NEW ext,
           Grounded(D, P), Computes(D, V, base, ext)
    PROVE  \E f \in [D -> V] : IsResult(D, P, base, ext, f)
<1> base \in [D -> V] /\ ext \in [V \X D -> V]
  BY DEF Computes
<1> DEFINE Good(S, g) ==
             \A u \in S : /\ P[u] \in D => P[u] \in S
                          /\ g[u] = IF P[u] \in D THEN ext[<<g[P[u]], u>>] ELSE base[u]
           U == {u \in D : \E S \in SUBSET D : u \in S /\ \E g \in [S -> V] : Good(S, g)}
           Is(u, v) == \E S \in SUBSET D : u \in S /\ \E g \in [S -> V] : Good(S, g) /\ v = g[u]
           G == [u \in U |-> CHOOSE v \in V : Is(u, v)]
<1>1. ASSUME NEW S \in SUBSET D, NEW g \in [S -> V], Good(S, g),
             NEW T \in SUBSET D, NEW k \in [T -> V], Good(T, k)
      PROVE  \A u \in S \cap T : g[u] = k[u]
  <2> DEFINE B == {x \in S \cap T : g[x] # k[x]}
  <2> SUFFICES ASSUME B # {} PROVE FALSE
    OBVIOUS
  <2>1. PICK x \in B : P[x] \notin B
    BY DEF Grounded
  <2>2. P[x] \in D => g[P[x]] = k[P[x]]
    BY <1>1, <2>1
  <2> QED BY <1>1, <2>1, <2>2
<1>2. ASSUME NEW S \in SUBSET D, NEW g \in [S -> V], Good(S, g), NEW u \in S
      PROVE  u \in U /\ G[u] = g[u]
  <2>1. u \in U
    BY <1>2
  <2>2. g[u] \in V /\ Is(u, g[u])
    BY <1>2
  <2>3. ASSUME NEW v \in V, Is(u, v) PROVE v = g[u]
    <3>1. PICK T \in SUBSET D : u \in T /\ \E k \in [T -> V] : Good(T, k) /\ v = k[u]
      BY <2>3
    <3>2. PICK k \in [T -> V] : Good(T, k) /\ v = k[u]
      BY <3>1
    <3> HIDE DEF Good
    <3>3. \A w \in S \cap T : g[w] = k[w]
      BY <1>1, <1>2, <3>1, <3>2
    <3> QED BY <1>2, <3>1, <3>2, <3>3
  <2>4. (CHOOSE v \in V : Is(u, v)) = g[u]
    <3> HIDE DEF Is
    <3> QED BY <2>2, <2>3
  <2> QED BY <2>1, <2>4
<1>3. G \in [U -> V]
  <2> SUFFICES ASSUME NEW u \in U PROVE G[u] \in V
    OBVIOUS
  <2>1. PICK S \in SUBSET D : u \in S /\ \E g \in [S -> V] : Good(S, g)
    OBVIOUS
  <2>2. PICK g \in [S -> V] : Good(S, g)
    BY <2>1
  <2> HIDE DEF G, U, Good
  <2> QED BY <1>2, <2>1, <2>2
<1>4. Good(U, G)
  <2> SUFFICES ASSUME NEW u \in U
               PROVE  /\ P[u] \in D => P[u] \in U
                      /\ G[u] = IF P[u] \in D THEN ext[<<G[P[u]], u>>] ELSE base[u]
    BY DEF Good
  <2>0. PICK S \in SUBSET D : u \in S /\ \E g \in [S -> V] : Good(S, g)
    BY DEF U
  <2>1. PICK g \in [S -> V] : Good(S, g)
    BY <2>0
  <2>2. /\ P[u] \in D => P[u] \in S
        /\ g[u] = IF P[u] \in D THEN ext[<<g[P[u]], u>>] ELSE base[u]
    BY <2>0, <2>1 DEF Good
  <2>3. G[u] = g[u] /\ (P[u] \in D => P[u] \in U /\ G[P[u]] = g[P[u]])
    <3> HIDE DEF G, U, Good
    <3> QED BY <1>2, <2>0, <2>1, <2>2
  <2> QED BY <2>2, <2>3
<1>5. U = D
  <2> SUFFICES ASSUME D \ U # {} PROVE FALSE
    BY DEF U
  <2>1. PICK x \in D \ U : P[x] \notin D \ U
    BY DEF Grounded
  <2> DEFINE S == U \cup {x}
             new == IF P[x] \in D THEN ext[<<G[P[x]], x>>] ELSE base[x]
             g == [u \in S |-> IF u = x THEN new ELSE G[u]]
  <2>2. U \subseteq D
    BY DEF U
  <2> HIDE DEF G, U
  <2>3. new \in V
    BY <1>3, <2>1
  <2>4. g \in [S -> V]
    BY <1>3, <2>3
  <2>5. S \in SUBSET D
    BY <2>1, <2>2
  <2>6. Good(S, g)
    <3> SUFFICES ASSUME NEW u \in S
                 PROVE  /\ P[u] \in D => P[u] \in S
                        /\ g[u] = IF P[u] \in D THEN ext[<<g[P[u]], u>>] ELSE base[u]
      BY DEF Good
    <3>1. CASE u = x
      BY <2>1, <3>1
    <3>2. CASE u # x
      <4>1. /\ P[u] \in D => P[u] \in U
            /\ G[u] = IF P[u] \in D THEN ext[<<G[P[u]], u>>] ELSE base[u]
        BY <1>4, <3>2 DEF Good
      <4> QED BY <2>1, <3>2, <4>1
    <3> QED BY <3>1, <3>2
  <2> HIDE DEF S, g, Good
  <2>7. x \in U
    BY <1>2, <2>4, <2>5, <2>6 DEF S
  <2> QED BY <2>1, <2>7
<1>6. G \in [D -> V] /\ Good(D, G)
  <2> HIDE DEF G, U, Good
  <2> QED BY <1>3, <1>4, <1>5
<1> HIDE DEF G
<1> QED BY <1>6 DEF Good, IsResult

-----------------------------------------------------------------------------
(* Paths. *)
Path == Seq(Codes \cup {Slash})

(* The shortest paths.                                                     *)
LEMMA PathsTyped ==
    /\ <<>> \in Path
    /\ \A u \in Codes : /\ <<u>> \in Path /\ <<u>> # <<>> /\ Last(<<u>>) = u
                        /\ <<Slash, u>> \in Path /\ <<Slash, u>> # <<>>
                        /\ Last(<<Slash, u>>) = u
BY DEF Path, Last

(* A prefix is as long at most and agrees that far.                        *)
LEMMA PrefixIs ==
    ASSUME NEW p \in Path, NEW q \in Path
    PROVE  IsPrefix(p, q) <=> Len(p) <= Len(q) /\ \A i \in 1..Len(p) : p[i] = q[i]
BY DEF Path, IsPrefix

(* Paths of one length that agree everywhere are one.                      *)
LEMMA PathEqual ==
    ASSUME NEW p \in Path, NEW q \in Path, Len(p) = Len(q),
           \A i \in 1..Len(p) : p[i] = q[i]
    PROVE  p = q
BY SeqEqual DEF Path

(* A path with a code at its end.                                          *)
LEMMA Appended ==
    ASSUME NEW p \in Path, NEW u \in Codes
    PROVE  /\ Append(p, u) \in Path /\ Append(p, u) # <<>>
           /\ Last(Append(p, u)) = u
           /\ Len(Append(p, u)) = Len(p) + 1
           /\ \A i \in 1..Len(p) : Append(p, u)[i] = p[i]
BY DEF Path, Last

(* joinOrgPath appends the code; a path that begins with it has a slash    *)
(* first.                                                                  *)
LEMMA Joined ==
    ASSUME NEW p \in Path, NEW u \in Codes
    PROVE  /\ joinOrgPath(p, u) \in Path /\ joinOrgPath(p, u) # <<>>
           /\ Last(joinOrgPath(p, u)) = u
           /\ p # <<>> => joinOrgPath(p, u) = Append(p, u)
BY Appended, PathsTyped DEF joinOrgPath, Last

(* What is above a child is the child, or above its parent.                *)
LEMMA PrefixOfChild ==
    ASSUME NEW p \in Path, NEW q \in Path, NEW u \in Codes
    PROVE  /\ IsPrefix(p, q) => IsPrefix(p, Append(q, u))
           /\ IsPrefix(p, Append(q, u)) /\ p # Append(q, u) => IsPrefix(p, q)
<1> DEFINE a == Append(q, u)
<1>1. /\ a \in Path /\ Len(a) = Len(q) + 1
      /\ \A i \in 1..Len(q) : a[i] = q[i]
  BY Appended
<1>2. Len(p) \in Nat /\ Len(q) \in Nat
  BY DEF Path
<1> HIDE DEF a
<1>3. IsPrefix(p, q) <=> Len(p) <= Len(q) /\ \A i \in 1..Len(p) : p[i] = q[i]
  BY PrefixIs
<1>4. IsPrefix(p, a) <=> Len(p) <= Len(a) /\ \A i \in 1..Len(p) : p[i] = a[i]
  BY <1>1, PrefixIs
<1>5. IsPrefix(p, q) => IsPrefix(p, a)
  BY <1>1, <1>2, <1>3, <1>4
<1>6. ASSUME IsPrefix(p, a), p # a PROVE IsPrefix(p, q)
  <2>1. Len(p) # Len(a)
    BY <1>1, <1>4, <1>6, PathEqual
  <2> QED BY <1>1, <1>2, <1>3, <1>4, <1>6, <2>1
<1> QED BY <1>5, <1>6 DEF a

(* A path is a prefix of itself.                                           *)
LEMMA PrefixOfItself == \A p \in Path : IsPrefix(p, p)
BY PrefixIs DEF Path

(* Moving the rows below a department cuts the old path off and puts the   *)
(* new one before what is left.                                            *)
LEMMA RebasedIs ==
    ASSUME NEW q \in Path, NEW old \in Path, NEW new \in Path, IsPrefix(old, q)
    PROVE  /\ Rebased(q, old, new) \in Path
           /\ Len(Rebased(q, old, new)) = Len(new) + (Len(q) - Len(old))
           /\ \A i \in 1..Len(new) : Rebased(q, old, new)[i] = new[i]
           /\ \A i \in (Len(new) + 1)..(Len(new) + (Len(q) - Len(old))) :
                 Rebased(q, old, new)[i] = q[(i - Len(new)) + Len(old)]
<1>0. Len(old) \in Nat /\ Len(q) \in Nat /\ Len(new) \in Nat /\ Len(old) <= Len(q)
  BY PrefixIs DEF Path
<1> DEFINE rest == SubSeq(q, Len(old) + 1, Len(q))
<1>1. /\ rest \in Path /\ Len(rest) = Len(q) - Len(old)
      /\ \A i \in 1..Len(rest) : rest[i] = q[i + Len(old)]
  BY <1>0 DEF Path
<1> HIDE DEF rest
<1> DEFINE r == new \o rest
<1>2. /\ r \in Path /\ Len(r) = Len(new) + Len(rest)
      /\ \A i \in 1..(Len(new) + Len(rest)) :
            r[i] = IF i <= Len(new) THEN new[i] ELSE rest[i - Len(new)]
  <2>1. new \in Seq(Codes \cup {Slash}) /\ rest \in Seq(Codes \cup {Slash})
    BY <1>1 DEF Path
  <2> QED BY <2>1, ConcatProperties DEF Path
<1>3. Rebased(q, old, new) = r
  BY DEF Rebased, rest
<1> HIDE DEF r
<1>4. \A i \in 1..Len(new) : r[i] = new[i]
  BY <1>0, <1>1, <1>2
<1>5. \A i \in (Len(new) + 1)..(Len(new) + (Len(q) - Len(old))) :
         r[i] = q[(i - Len(new)) + Len(old)]
  BY <1>0, <1>1, <1>2
<1> QED BY <1>0, <1>1, <1>2, <1>3, <1>4, <1>5

(* The unit that is moved gets the new path.                               *)
LEMMA RebasedRoot ==
    ASSUME NEW old \in Path, NEW new \in Path
    PROVE  Rebased(old, old, new) = new
<1> DEFINE r == Rebased(old, old, new)
<1>1. IsPrefix(old, old) /\ Len(old) \in Nat /\ Len(new) \in Nat
  BY PrefixOfItself DEF Path
<1>2. /\ r \in Path /\ Len(r) = Len(new) + (Len(old) - Len(old))
      /\ \A i \in 1..Len(new) : r[i] = new[i]
  BY <1>1, RebasedIs
<1> HIDE DEF r
<1>3. r = new
  BY <1>1, <1>2, PathEqual
<1> QED BY <1>3 DEF r

(* A child below it stays the child of its parent: rebasing and appending  *)
(* may be swapped.                                                         *)
LEMMA RebasedChild ==
    ASSUME NEW q \in Path, NEW old \in Path, NEW new \in Path, IsPrefix(old, q),
           NEW u \in Codes
    PROVE  Rebased(Append(q, u), old, new) = Append(Rebased(q, old, new), u)
<1> DEFINE a == Append(q, u)
           r == Rebased(q, old, new)
           s == Rebased(a, old, new)
           b == Append(r, u)
<1>0. /\ Len(old) \in Nat /\ Len(q) \in Nat /\ Len(new) \in Nat /\ Len(old) <= Len(q)
      /\ IsPrefix(old, a)
  BY PrefixIs, PrefixOfChild DEF Path
<1>1. /\ a \in Path /\ Len(a) = Len(q) + 1 /\ a[Len(a)] = u
      /\ \A i \in 1..Len(q) : a[i] = q[i]
  BY Appended DEF Last
<1>2. /\ r \in Path /\ Len(r) = Len(new) + (Len(q) - Len(old))
      /\ \A i \in 1..Len(new) : r[i] = new[i]
      /\ \A i \in (Len(new) + 1)..(Len(new) + (Len(q) - Len(old))) :
            r[i] = q[(i - Len(new)) + Len(old)]
  BY RebasedIs
<1> HIDE DEF a, r
<1>3. /\ s \in Path /\ Len(s) = Len(new) + (Len(a) - Len(old))
      /\ \A i \in 1..Len(new) : s[i] = new[i]
      /\ \A i \in (Len(new) + 1)..(Len(new) + (Len(a) - Len(old))) :
            s[i] = a[(i - Len(new)) + Len(old)]
  BY <1>0, <1>1, RebasedIs
<1>4. /\ b \in Path /\ Len(b) = Len(r) + 1 /\ b[Len(b)] = u
      /\ \A i \in 1..Len(r) : b[i] = r[i]
  BY <1>2, Appended DEF Last
<1> HIDE DEF s, b
<1>5. Len(s) = Len(b) /\ Len(s) = Len(r) + 1
  BY <1>0, <1>1, <1>2, <1>3, <1>4
<1>6. ASSUME NEW i \in 1..Len(s) PROVE s[i] = b[i]
  <2>0. i \in Nat /\ 1 <= i /\ i <= Len(r) + 1
    BY <1>0, <1>2, <1>5
  <2>1. CASE i <= Len(new)
    BY <1>0, <1>2, <1>3, <1>4, <2>0, <2>1
  <2>2. CASE Len(new) < i /\ i <= Len(r)
    <3> DEFINE j == (i - Len(new)) + Len(old)
    <3>1. s[i] = a[j] /\ r[i] = q[j] /\ j \in 1..Len(q)
      BY <1>0, <1>1, <1>2, <1>3, <2>0, <2>2
    <3> HIDE DEF j
    <3>2. a[j] = q[j]
      BY <1>1, <3>1
    <3>3. i \in 1..Len(r)
      BY <1>0, <1>2, <2>0, <2>2
    <3> QED BY <1>4, <3>1, <3>2, <3>3
  <2>3. CASE i = Len(r) + 1
    <3>1. s[i] = a[(i - Len(new)) + Len(old)] /\ (i - Len(new)) + Len(old) = Len(a)
      BY <1>0, <1>1, <1>2, <1>3, <2>0, <2>3
    <3>2. s[i] = u
      BY <1>1, <3>1
    <3> QED BY <1>4, <2>3, <3>2
  <2> QED BY <1>0, <1>2, <2>0, <2>1, <2>2, <2>3
<1>7. s = b
  BY <1>3, <1>4, <1>5, <1>6, PathEqual
<1> QED BY <1>7 DEF s, b, r, a

(* A path that is rebased ends in the code it ended in.                    *)
LEMMA RebasedLast ==
    ASSUME NEW q \in Path, NEW old \in Path, NEW new \in Path, IsPrefix(old, q),
           new # <<>>, old # <<>>, Last(new) = Last(old)
    PROVE  Rebased(q, old, new) # <<>> /\ Last(Rebased(q, old, new)) = Last(q)
<1> DEFINE r == Rebased(q, old, new)
<1>0. /\ Len(old) \in Nat \ {0} /\ Len(q) \in Nat /\ Len(new) \in Nat \ {0}
      /\ Len(old) <= Len(q) /\ \A i \in 1..Len(old) : old[i] = q[i]
  BY PrefixIs DEF Path
<1>1. /\ r \in Path /\ Len(r) = Len(new) + (Len(q) - Len(old))
      /\ \A i \in 1..Len(new) : r[i] = new[i]
      /\ \A i \in (Len(new) + 1)..(Len(new) + (Len(q) - Len(old))) :
            r[i] = q[(i - Len(new)) + Len(old)]
  BY RebasedIs
<1> HIDE DEF r
<1>2. r[Len(r)] = q[Len(q)]
  <2>1. CASE Len(q) = Len(old)
    BY <1>0, <1>1, <2>1 DEF Last
  <2>2. CASE Len(q) > Len(old)
    BY <1>0, <1>1, <2>2
  <2> QED BY <1>0, <2>1, <2>2
<1>3. r # <<>>
  BY <1>0, <1>1
<1> QED BY <1>2, <1>3 DEF Last, r

-----------------------------------------------------------------------------
(* The two computations: the demo tree, and the paths of a file. *)
LEMMA DemoPaths ==
    \A u \in DOMAIN DemoParent :
        /\ demoPath[u] \in Path /\ demoPath[u] # <<>> /\ Last(demoPath[u]) = u
        /\ demoPath[u] = IF DemoParent[u] = None THEN <<Slash, u>>
                         ELSE Append(demoPath[DemoParent[u]], u)
<1> DEFINE D == DOMAIN DemoParent
           V == Path \ {<<>>}
           base == [u \in D |-> <<Slash, u>>]
           ext == [x \in V \X D |-> Append(x[1], x[2])]
           step(g) == [u \in D |-> IF DemoParent[u] = None THEN joinOrgPath(<<>>, u)
                                   ELSE joinOrgPath(g[DemoParent[u]], u)]
<1>0. /\ D \subseteq Codes /\ None \notin D
      /\ \A u \in D : DemoParent[u] \in D \cup {None}
      /\ Grounded(D, DemoParent)
  BY OrgTreeAssumption DEF Grounded
<1>1. Computes(D, V, base, ext)
  <2>1. \A u \in D : <<Slash, u>> \in V
    BY <1>0, PathsTyped
  <2>2. \A p \in V, u \in D : Append(p, u) \in V
    BY <1>0, Appended
  <2> QED BY <2>1, <2>2 DEF Computes
<1>2. PICK f \in [D -> V] : IsResult(D, DemoParent, base, ext, f)
  <2> HIDE DEF D, V, base, ext
  <2> QED BY <1>0, <1>1, AlongParents
<1>3. \A u \in D : f[u] = IF DemoParent[u] = None THEN <<Slash, u>>
                          ELSE Append(f[DemoParent[u]], u)
  BY <1>0, <1>2 DEF IsResult
<1>4. f = step(f)
  <2>1. \A u \in D : DemoParent[u] # None =>
                     joinOrgPath(f[DemoParent[u]], u) = Append(f[DemoParent[u]], u)
    BY <1>0, <1>2, Joined
  <2>2. \A u \in D : joinOrgPath(<<>>, u) = <<Slash, u>>
    BY DEF joinOrgPath
  <2> QED BY <1>2, <1>3, <2>1, <2>2
<1>5. demoPath = step(demoPath)
  BY <1>4 DEF demoPath
<1>6. \A u \in D : demoPath[u] = f[u]
  <2> DEFINE B == {u \in D : demoPath[u] # f[u]}
  <2> SUFFICES ASSUME B # {} PROVE FALSE
    OBVIOUS
  <2>1. PICK u \in B : DemoParent[u] \notin B
    BY <1>0 DEF Grounded
  <2>2. /\ demoPath[u] = IF DemoParent[u] = None THEN joinOrgPath(<<>>, u)
                         ELSE joinOrgPath(demoPath[DemoParent[u]], u)
        /\ f[u] = IF DemoParent[u] = None THEN joinOrgPath(<<>>, u)
                  ELSE joinOrgPath(f[DemoParent[u]], u)
    BY <1>4, <1>5
  <2> QED BY <1>0, <2>1, <2>2
<1>7. \A u \in D : Last(f[u]) = u
  <2> SUFFICES ASSUME NEW u \in D PROVE Last(f[u]) = u
    OBVIOUS
  <2>1. CASE DemoParent[u] = None
    BY <1>0, <1>3, <2>1, PathsTyped
  <2>2. CASE DemoParent[u] # None
    <3>1. u \in Codes /\ f[DemoParent[u]] \in Path
      BY <1>0, <1>2, <2>2
    <3>2. Last(Append(f[DemoParent[u]], u)) = u
      BY <3>1, Appended
    <3> QED BY <1>3, <2>2, <3>2
  <2> QED BY <2>1, <2>2
<1> QED BY <1>0, <1>2, <1>3, <1>6, <1>7

(* A file of which every parent is known, and the paths it gives its rows. *)
FileFits(rows, seen) ==
    /\ validateOrgCycles(rows)
    /\ \A v \in DOMAIN seen : seen[v].path \in Path
    /\ \A u \in DOMAIN rows : rows[u].parent \in DOMAIN seen \cup DOMAIN rows \cup {None}

FilePaths(rows, seen, path) ==
    \A u \in DOMAIN rows :
        /\ path[u] \in Path /\ path[u] # <<>> /\ Last(path[u]) = u
        /\ path[u] = IF rows[u].parent = None THEN <<u>>
                     ELSE IF rows[u].parent \in DOMAIN rows THEN Append(path[rows[u].parent], u)
                     ELSE Append(seen[rows[u].parent].path, u)

(* The paths that an import computes lead along its own rows and the rows  *)
(* it has seen (orderOrgRows).                                             *)
LEMMA ImportPaths ==
    ASSUME NEW rows \in Files, NEW seen, FileFits(rows, seen)
    PROVE  FilePaths(rows, seen, orderOrgRows(rows, seen))
<1> DEFINE D == DOMAIN rows
           V == Path \ {<<>>}
           P == [u \in D |-> rows[u].parent]
           base == [u \in D |-> IF P[u] = None THEN <<u>> ELSE
                                IF P[u] \in D THEN <<u>> ELSE Append(seen[P[u]].path, u)]
           ext == [x \in V \X D |-> Append(x[1], x[2])]
           step(g) == [u \in D |-> LET p == rows[u].parent
                                   IN IF p = None THEN <<u>>
                                      ELSE IF p \in D THEN Append(g[p], u)
                                      ELSE Append(seen[p].path, u)]
<1>0. D \subseteq Codes /\ None \notin D /\ Grounded(D, P)
  <2>1. D \subseteq Codes /\ None \notin D
    BY OrgTreeAssumption
  <2>2. \A S \in SUBSET D : S # {} => \E u \in S : P[u] \notin S
    BY DEF validateOrgCycles, FileFits
  <2> QED BY <2>1, <2>2 DEF Grounded
<1>1. Computes(D, V, base, ext)
  <2>1. \A u \in D : <<u>> \in V
    BY <1>0, PathsTyped
  <2>2. \A p \in Path, u \in D : Append(p, u) \in V
    BY <1>0, Appended
  <2>3. \A u \in D : P[u] # None /\ P[u] \notin D => seen[P[u]].path \in Path
    BY DEF FileFits
  <2> QED BY <2>1, <2>2, <2>3 DEF Computes
<1>2. PICK f \in [D -> V] : IsResult(D, P, base, ext, f)
  <2> HIDE DEF D, V, P, base, ext
  <2> QED BY <1>0, <1>1, AlongParents
<1>3. \A u \in D : f[u] = IF P[u] = None THEN <<u>>
                          ELSE IF P[u] \in D THEN Append(f[P[u]], u)
                          ELSE Append(seen[P[u]].path, u)
  BY <1>0, <1>2 DEF IsResult
<1>4. f = step(f)
  BY <1>2, <1>3
<1> DEFINE path == orderOrgRows(rows, seen)
<1>5. path = step(path)
  BY <1>4 DEF orderOrgRows
<1> HIDE DEF path
<1>6. \A u \in D : path[u] = f[u]
  <2> DEFINE B == {u \in D : path[u] # f[u]}
  <2> SUFFICES ASSUME B # {} PROVE FALSE
    OBVIOUS
  <2>1. PICK u \in B : P[u] \notin B
    BY <1>0 DEF Grounded
  <2>2. /\ path[u] = IF P[u] = None THEN <<u>>
                     ELSE IF P[u] \in D THEN Append(path[P[u]], u)
                     ELSE Append(seen[P[u]].path, u)
        /\ f[u] = IF P[u] = None THEN <<u>>
                     ELSE IF P[u] \in D THEN Append(f[P[u]], u)
                     ELSE Append(seen[P[u]].path, u)
    BY <1>3, <1>5
  <2> QED BY <1>0, <2>1, <2>2
<1>7. \A u \in D : Last(f[u]) = u
  <2> SUFFICES ASSUME NEW u \in D PROVE Last(f[u]) = u
    OBVIOUS
  <2>0. u \in Codes /\ None \notin D
    BY <1>0
  <2>1. CASE P[u] = None
    BY <1>3, <2>0, <2>1, PathsTyped
  <2>2. CASE P[u] \in D
    <3>1. f[P[u]] \in Path
      BY <1>2, <2>2
    <3>2. Last(Append(f[P[u]], u)) = u
      BY <2>0, <3>1, Appended
    <3> QED BY <1>3, <2>0, <2>2, <3>2
  <2>3. CASE P[u] # None /\ P[u] \notin D
    <3>1. seen[P[u]].path \in Path
      BY <2>3 DEF FileFits
    <3>2. Last(Append(seen[P[u]].path, u)) = u
      BY <2>0, <3>1, Appended
    <3> QED BY <1>3, <2>0, <2>3, <3>2
  <2> QED BY <2>1, <2>2, <2>3
<1> QED BY <1>0, <1>2, <1>3, <1>6, <1>7 DEF path, FilePaths

-----------------------------------------------------------------------------
(* What the invariants rest on: rows carry their own code at the end of    *)
(* their path, every department has a value row, and what a move has read  *)
(* of the rows it holds is still true when it writes.                      *)
Row == [parent : Codes \cup {None}, path : Path, status : Statuses, live : BOOLEAN]
ValueRow == [path : Path, status : Statuses]

Named(u, row) == row \in Row /\ row.path # <<>> /\ Last(row.path) = u

RowsOK ==
    /\ DOMAIN units \subseteq Codes
    /\ \A u \in DOMAIN units : Named(u, units[u])

ValueKey == Codes \X {departmentValueCode, PlainValueCode}
OfUnit(k, u) == k[1] = u

ValuesOK ==
    /\ DOMAIN values \subseteq ValueKey
    /\ \A k \in DOMAIN values : k[1] \in DOMAIN units /\ values[k] \in ValueRow
    /\ \A u \in DOMAIN units : \E k \in DOMAIN values : OfUnit(k, u)

(* The value row is the only one of its department. *)
Only(k) == \A j \in DOMAIN values : OfUnit(j, k[1]) => j = k

(* What PathsFollowParents says of one row. *)
Placed(v, row, among, rows) ==
    IF row.parent = None THEN row.path \in {<<v>>, <<Slash, v>>}
    ELSE row.parent \in among /\ row.path = Append(rows[row.parent].path, v)

Mirrors ==
    \A k \in DOMAIN values : Only(k) /\ k[1] \in Live =>
        values[k] = Value(units[k[1]].path, units[k[1]].status)

MoveOK(m) ==
    /\ m.unit \in Live /\ m.target \in Codes \cup {None}
    /\ m.unit \in DOMAIN m.seen /\ m.seen[m.unit] = units[m.unit]
    /\ m.target # None => /\ m.target \in Live /\ m.target # m.unit
                          /\ ~IsPrefix(units[m.unit].path, units[m.target].path)
    /\ DOMAIN m.seen \subseteq DOMAIN units
    /\ \A v \in DOMAIN m.seen : /\ Named(v, m.seen[v])
                                /\ IsPrefix(m.seen[m.unit].path, m.seen[v].path)
    /\ \A k \in DOMAIN m.seenValues : /\ k \in DOMAIN values /\ k[1] \in DOMAIN m.seen
                                      /\ m.seenValues[k] \in ValueRow
    /\ \A k \in DOMAIN values : Only(k) /\ k[1] \in DOMAIN m.seen =>
          /\ k \in DOMAIN m.seenValues
          /\ m.seenValues[k] = Value(m.seen[k[1]].path, m.seen[k[1]].status)

CallOK(c) ==
    /\ c.op \in {"idle", "move", "import", "importing"}
    /\ c.op = "move" => MoveOK(c)
    /\ c.op = "import" =>
          /\ c = [op |-> "import", rows |-> c.rows, seen |-> c.seen]
          /\ c.rows \in Files /\ validateOrgCycles(c.rows)
    /\ c.op = "importing" =>
          /\ c.rows \in Files /\ validateOrgCycles(c.rows)
          /\ DOMAIN c.seen \subseteq DOMAIN units
          /\ \A v \in DOMAIN c.seen : Named(v, c.seen[v])

CallsOK == DOMAIN calls = Handlers /\ \A h \in Handlers : CallOK(calls[h])

OrgInv ==
    /\ RowsOK /\ ValuesOK /\ CallsOK
    /\ Mirrors
    /\ PathsFollowParents
    /\ torn \in BOOLEAN /\ changes \in 0..MaxChanges

-----------------------------------------------------------------------------
(* One table over another: the upper one's rows, and those of the lower    *)
(* that are not in it.                                                     *)
LEMMA Overlaid ==
    ASSUME NEW f, NEW g
    PROVE  /\ DOMAIN Overlay(f, g) = DOMAIN f \cup DOMAIN g
           /\ \A x \in DOMAIN g : Overlay(f, g)[x] = g[x]
           /\ \A x \in DOMAIN f \ DOMAIN g : Overlay(f, g)[x] = f[x]
BY DEF Overlay

(* No code is the absent parent or the slash.                              *)
LEMMA CodesApart == None \notin Codes /\ Slash \notin Codes
BY OrgTreeAssumption

(* The value rows of one department are the managed and the plain one. *)
LEMMA ValueRowsOf ==
    ASSUME NEW k \in ValueKey
    PROVE  k \in {<<k[1], departmentValueCode>>, <<k[1], PlainValueCode>>} /\ k[1] \in Codes
BY DEF ValueKey

(* An update finds the value row that is the only one. *)
LEMMA OnlyIsFound ==
    ASSUME ValuesOK, NEW k \in DOMAIN values, Only(k)
    PROVE  k \in FindTenantAttributeValueByOrgUnit(values, k[1])
<1>1. k \in {<<k[1], departmentValueCode>>, <<k[1], PlainValueCode>>}
  BY ValueRowsOf DEF ValuesOK
<1>2. <<k[1], departmentValueCode>>[1] = k[1]
  OBVIOUS
<1> QED BY <1>1, <1>2 DEF Only, OfUnit, FindTenantAttributeValueByOrgUnit

(* The value found for a unit is a row of that unit.                       *)
LEMMA FoundIsOne ==
    ASSUME NEW u
    PROVE  \A k \in FindTenantAttributeValueByOrgUnit(values, u) : k \in DOMAIN values /\ k[1] = u
BY DEF FindTenantAttributeValueByOrgUnit

(* Value rows are never deleted: a row that is the only one now was it. *)
LEMMA OnlyBefore ==
    ASSUME ValuesOK, DOMAIN values \subseteq DOMAIN values',
           NEW k \in DOMAIN values', Only(k)', k[1] \in DOMAIN units
    PROVE  k \in DOMAIN values /\ Only(k)
<1>1. PICK j \in DOMAIN values : OfUnit(j, k[1])
  BY DEF ValuesOK
<1>2. j = k
  BY <1>1 DEF Only, OfUnit
<1> QED BY <1>1, <1>2 DEF Only, OfUnit

(* What a handler does not do itself leaves its call in order, when the    *)
(* rows it locks are spared.                                               *)
LEMMA CallStays ==
    ASSUME OrgInv, NEW g \in Handlers, calls'[g] = calls[g],
           DOMAIN units \subseteq DOMAIN units', DOMAIN values \subseteq DOMAIN values',
           \A u \in Locks(g) : units'[u] = units[u]
    PROVE  CallOK(calls[g])'
<1> DEFINE c == calls[g]
<1>1. CallOK(c) /\ ValuesOK
  BY DEF OrgInv, CallsOK
<1>2. CASE c.op # "move"
  BY <1>1, <1>2 DEF CallOK
<1>3. CASE c.op = "move"
  <2>1. MoveOK(c)
    BY <1>1, <1>3 DEF CallOK
  <2>2. /\ units'[c.unit] = units[c.unit]
        /\ c.target # None => units'[c.target] = units[c.target]
    BY <1>3, <2>1, CodesApart DEF Locks, Busy, MoveOK, Live, OrgInv, RowsOK
  <2>3. \A k \in DOMAIN values' : Only(k)' /\ k[1] \in DOMAIN c.seen =>
           k \in DOMAIN values /\ Only(k)
    BY <1>1, <2>1, OnlyBefore DEF MoveOK
  <2>4. MoveOK(calls[g])'
    BY <2>1, <2>2, <2>3 DEF MoveOK, Live
  <2> QED BY <1>1, <1>3, <2>4 DEF CallOK
<1> QED BY <1>2, <1>3

(* Calls in flight stay sound while no row goes and the rows they have     *)
(* locked stay.                                                            *)
LEMMA CallsStay ==
    ASSUME OrgInv, calls' = calls,
           DOMAIN units \subseteq DOMAIN units', DOMAIN values \subseteq DOMAIN values',
           \A g \in Handlers : \A u \in Locks(g) : units'[u] = units[u]
    PROVE  CallsOK'
<1>1. \A g \in Handlers : CallOK(calls[g])'
  BY CallStays
<1> QED BY <1>1 DEF CallsOK, OrgInv

(* The same when one call goes on and is sound itself.                     *)
LEMMA OneCallChanges ==
    ASSUME OrgInv, NEW h \in Handlers, NEW c, calls' = [calls EXCEPT ![h] = c],
           CallOK(calls[h])',
           DOMAIN units \subseteq DOMAIN units', DOMAIN values \subseteq DOMAIN values',
           \A g \in Handlers \ {h} : \A u \in Locks(g) : units'[u] = units[u]
    PROVE  CallsOK'
<1>1. DOMAIN calls' = Handlers /\ \A g \in Handlers \ {h} : calls'[g] = calls[g]
  BY DEF CallsOK, OrgInv
<1>2. \A g \in Handlers \ {h} : CallOK(calls[g])'
  BY <1>1, CallStays
<1> QED BY <1>1, <1>2 DEF CallsOK

(* A call that has ended is sound.                                         *)
LEMMA IdleIsOK ==
    ASSUME NEW h \in Handlers, calls'[h] = Idle
    PROVE  CallOK(calls[h])'
BY DEF CallOK, Idle

(* The same when one call ends.                                            *)
LEMMA OneCallEnds ==
    ASSUME OrgInv, NEW h \in Handlers, Finish(h),
           DOMAIN units \subseteq DOMAIN units', DOMAIN values \subseteq DOMAIN values',
           \A g \in Handlers \ {h} : \A u \in Locks(g) : units'[u] = units[u]
    PROVE  CallsOK'
<1>1. calls' = [calls EXCEPT ![h] = Idle] /\ calls'[h] = Idle
  BY DEF Finish, OrgInv, CallsOK
<1>2. CallOK(calls[h])'
  BY <1>1, IdleIsOK
<1> QED BY <1>1, <1>2, OneCallChanges

(* Nothing but calls has changed. *)
LEMMA TablesStay ==
    ASSUME OrgInv, UNCHANGED <<units, values, torn>>
    PROVE  RowsOK' /\ ValuesOK' /\ Mirrors' /\ PathsFollowParents' /\ torn' \in BOOLEAN
BY DEF OrgInv, RowsOK, ValuesOK, Mirrors, Only, Live, PathsFollowParents

(* The changes are counted within the bound.                               *)
LEMMA CountsStay ==
    ASSUME OrgInv, Counts \/ UNCHANGED changes
    PROVE  changes' \in 0..MaxChanges
BY OrgTreeAssumption DEF OrgInv, Counts

-----------------------------------------------------------------------------
(* The demo tree of the first start satisfies the invariant.               *)
LEMMA OrgInitial == Init => OrgInv
<1> SUFFICES ASSUME Init PROVE OrgInv
  OBVIOUS
<1> DEFINE D == DOMAIN DemoParent
<1>0. /\ D \subseteq Codes /\ None \notin D
      /\ \A u \in D : DemoParent[u] \in D \cup {None}
  BY OrgTreeAssumption
<1>1. DOMAIN units = D /\ \A u \in D : units[u] = Unit(DemoParent[u], demoPath[u], "enabled")
  BY DEF Init, bootstrapOrgChildren
<1>2. /\ DOMAIN values = D \X {PlainValueCode}
      /\ \A u \in D : values[<<u, PlainValueCode>>] = Value(demoPath[u], "enabled")
  <2>1. {u \in DOMAIN units : units[u].live /\ units[u].status = "enabled"} = D
    BY <1>1 DEF Unit
  <2>2. values = [k \in D \X {PlainValueCode} |-> Value(units[k[1]].path, "enabled")]
    BY <2>1 DEF Init, bootstrapTenantAttributes
  <2> QED BY <1>1, <2>2 DEF Unit
<1>3. RowsOK
  <2> SUFFICES ASSUME NEW u \in D PROVE Named(u, units[u])
    BY <1>0, <1>1 DEF RowsOK
  <2>1. units[u] = Unit(DemoParent[u], demoPath[u], "enabled") /\ DemoParent[u] \in Codes \cup {None}
    BY <1>0, <1>1
  <2>2. demoPath[u] \in Path /\ demoPath[u] # <<>> /\ Last(demoPath[u]) = u
    BY DemoPaths
  <2>3. /\ units[u] \in Row /\ units[u].path = demoPath[u]
    BY <2>1, <2>2 DEF Unit, Row, Statuses
  <2> QED BY <2>2, <2>3 DEF Named
<1>4. ValuesOK
  <2>1. \A k \in DOMAIN values : k = <<k[1], PlainValueCode>> /\ k[1] \in D
    BY <1>2
  <2>2. \A u \in D : <<u, PlainValueCode>> \in DOMAIN values /\ <<u, PlainValueCode>>[1] = u
    BY <1>2
  <2>3. \A u \in D : Value(demoPath[u], "enabled") \in ValueRow
    BY DemoPaths DEF Value, ValueRow, Statuses
  <2>4. \A u \in D : <<u, PlainValueCode>> \in ValueKey
    BY <1>0 DEF ValueKey
  <2>5. \A k \in DOMAIN values : k \in ValueKey /\ k[1] \in D /\ values[k] \in ValueRow
    <3> SUFFICES ASSUME NEW k \in DOMAIN values
                 PROVE  k \in ValueKey /\ k[1] \in D /\ values[k] \in ValueRow
      OBVIOUS
    <3> DEFINE u == k[1]
    <3>1. u \in D /\ k = <<u, PlainValueCode>>
      BY <2>1
    <3> HIDE DEF u
    <3>2. values[k] = Value(demoPath[u], "enabled")
      BY <1>2, <3>1
    <3> QED BY <2>3, <2>4, <3>1, <3>2
  <2>6. \A u \in D : \E k \in DOMAIN values : OfUnit(k, u)
    BY <2>2 DEF OfUnit
  <2> QED BY <1>1, <2>5, <2>6 DEF ValuesOK
<1>5. CallsOK
  BY DEF Init, CallsOK, CallOK, Idle
<1>6. Mirrors
  <2>1. \A k \in DOMAIN values : k = <<k[1], PlainValueCode>> /\ k[1] \in D
    BY <1>2
  <2> QED BY <1>1, <1>2, <2>1 DEF Mirrors, Unit
<1>7. PathsFollowParents
  <2>1. Live = D
    BY <1>1 DEF Live, Unit
  <2>2. \A u \in D : /\ units[u].parent = DemoParent[u] /\ units[u].path = demoPath[u]
    BY <1>1 DEF Unit
  <2> QED BY <1>0, <2>1, <2>2, DemoPaths DEF PathsFollowParents
<1>8. torn \in BOOLEAN /\ changes \in 0..MaxChanges
  <2>1. torn = FALSE /\ changes = 0
    BY DEF Init
  <2>2. MaxChanges \in Nat
    BY OrgTreeAssumption
  <2>3. changes \in 0..MaxChanges
    BY <2>1, <2>2
  <2> QED BY <2>1, <2>3, Zenon
<1> QED BY <1>3, <1>4, <1>5, <1>6, <1>7, <1>8 DEF OrgInv

-----------------------------------------------------------------------------
(* One lemma for each operation. *)
LEMMA BootstrapStep == OrgInv /\ BootstrapDemoOrgAttributes => OrgInv'
<1> SUFFICES ASSUME OrgInv, BootstrapDemoOrgAttributes PROVE OrgInv'
  OBVIOUS
<1> DEFINE open == {u \in DOMAIN units : units[u].live /\ units[u].status = "enabled"}
           keys == open \X {PlainValueCode}
<1>0. UNCHANGED <<units, torn>> /\ calls' = [h \in Handlers |-> Idle] /\ RowsOK /\ ValuesOK
  BY DEF BootstrapDemoOrgAttributes, OrgInv
<1>1. CallsOK'
  BY <1>0, IdleIsOK DEF CallsOK
<1>2. \A k \in keys : /\ k[1] \in DOMAIN units /\ k \in ValueKey
                     /\ k = <<k[1], PlainValueCode>> /\ k[1] \in Live
  BY <1>0 DEF RowsOK, ValueKey, Live
<1>3. \/ values' = values
      \/ /\ DOMAIN values' = DOMAIN values \cup keys
         /\ \A k \in keys : values'[k] = Value(units[k[1]].path, units[k[1]].status)
         /\ \A k \in DOMAIN values \ keys : values'[k] = values[k]
  <2> DEFINE new == bootstrapTenantAttributes(units)
  <2>1. DOMAIN new = keys /\ \A k \in keys : new[k] = Value(units[k[1]].path, units[k[1]].status)
    BY <1>2 DEF bootstrapTenantAttributes
  <2>2. values' = values \/ values' = Overlay(values, new)
    BY DEF BootstrapDemoOrgAttributes
  <2> HIDE DEF new
  <2>3. /\ DOMAIN Overlay(values, new) = DOMAIN values \cup DOMAIN new
        /\ \A k \in DOMAIN new : Overlay(values, new)[k] = new[k]
        /\ \A k \in DOMAIN values \ DOMAIN new : Overlay(values, new)[k] = values[k]
    BY Overlaid
  <2> QED BY <2>1, <2>2, <2>3
<1>4. \A k \in keys : Value(units[k[1]].path, units[k[1]].status) \in ValueRow
  BY <1>0, <1>2 DEF RowsOK, Named, Row, Value, ValueRow
<1> HIDE DEF keys
<1>5. ValuesOK'
  <2>1. DOMAIN values \subseteq DOMAIN values'
    BY <1>3
  <2>2. \A u \in DOMAIN units : \E k \in DOMAIN values' : OfUnit(k, u)
    BY <1>0, <2>1 DEF ValuesOK
  <2>3. \A k \in DOMAIN values' : k \in ValueKey /\ k[1] \in DOMAIN units /\ values'[k] \in ValueRow
    BY <1>0, <1>2, <1>3, <1>4 DEF ValuesOK
  <2> QED BY <1>0, <2>2, <2>3 DEF ValuesOK
<1>6. Mirrors'
  <2> SUFFICES ASSUME NEW k \in DOMAIN values', Only(k)', k[1] \in Live
               PROVE  values'[k] = Value(units[k[1]].path, units[k[1]].status)
    BY <1>0 DEF Mirrors, Live
  <2>1. k \in DOMAIN values /\ Only(k)
    BY <1>0, <1>3, OnlyBefore DEF Live
  <2> QED BY <1>3, <2>1 DEF OrgInv, Mirrors
<1>7. RowsOK' /\ PathsFollowParents'
  BY <1>0 DEF OrgInv, RowsOK, PathsFollowParents, Live
<1> QED BY <1>0, <1>1, <1>5, <1>6, <1>7, CountsStay DEF OrgInv, BootstrapDemoOrgAttributes

(* A unit is created below its parent, with its value (CreateOrgUnit).     *)
LEMMA CreateStep ==
    ASSUME OrgInv, NEW u \in Codes, NEW parent \in Codes \cup {None}, CreateOrgUnit(u, parent)
    PROVE  OrgInv'
<1> DEFINE above == IF parent = None THEN <<>> ELSE units[parent].path
           path == joinOrgPath(above, u)
           key == <<u, departmentValueCode>>
           row == [x \in {u} |-> Unit(parent, path, "enabled")]
           value == [k \in {key} |-> Value(path, "enabled")]
<1>0. /\ RowsOK /\ ValuesOK /\ u \notin DOMAIN units
      /\ UNCHANGED <<calls, torn>>
      /\ parent # None => parent \in Live
      /\ units' = Overlay(units, row) /\ values' = Overlay(values, value)
  BY DEF CreateOrgUnit, OrgInv, FindOrgUnitForUpdate
<1>1. above \in Path /\ (parent # None => above # <<>>)
  BY <1>0, PathsTyped DEF RowsOK, Named, Row, Live
<1>2. /\ path \in Path /\ path # <<>> /\ Last(path) = u
      /\ parent # None => path = Append(units[parent].path, u)
      /\ parent = None => path = <<Slash, u>>
  BY <1>1, Joined DEF joinOrgPath
<1> HIDE DEF path
<1>3. /\ DOMAIN units' = DOMAIN units \cup {u}
      /\ units'[u] = Unit(parent, path, "enabled")
      /\ \A v \in DOMAIN units : units'[v] = units[v]
  <2>1. DOMAIN row = {u} /\ row[u] = Unit(parent, path, "enabled")
    OBVIOUS
  <2> HIDE DEF row
  <2>2. /\ DOMAIN Overlay(units, row) = DOMAIN units \cup DOMAIN row
        /\ \A x \in DOMAIN row : Overlay(units, row)[x] = row[x]
        /\ \A x \in DOMAIN units \ DOMAIN row : Overlay(units, row)[x] = units[x]
    BY Overlaid
  <2> QED BY <1>0, <2>1, <2>2
<1>4. /\ DOMAIN values' = DOMAIN values \cup {key}
      /\ values'[key] = Value(path, "enabled")
      /\ \A k \in DOMAIN values : k # key /\ values'[k] = values[k]
  <2>1. DOMAIN value = {key} /\ value[key] = Value(path, "enabled")
    OBVIOUS
  <2>2. key \notin DOMAIN values
    BY <1>0 DEF ValuesOK
  <2> HIDE DEF value, key
  <2>3. /\ DOMAIN Overlay(values, value) = DOMAIN values \cup DOMAIN value
        /\ \A x \in DOMAIN value : Overlay(values, value)[x] = value[x]
        /\ \A x \in DOMAIN values \ DOMAIN value : Overlay(values, value)[x] = values[x]
    BY Overlaid
  <2> QED BY <1>0, <2>1, <2>2, <2>3
<1>5. key[1] = u /\ key \in ValueKey
  BY DEF ValueKey
<1>6. Unit(parent, path, "enabled") \in Row /\ Value(path, "enabled") \in ValueRow
  BY <1>2 DEF Unit, Row, Value, ValueRow, Statuses
<1>7. RowsOK'
  <2>1. Named(u, units'[u])
    BY <1>2, <1>3, <1>6 DEF Named, Unit
  <2>2. \A v \in DOMAIN units : Named(v, units'[v])
    BY <1>0, <1>3 DEF RowsOK
  <2>3. DOMAIN units' \subseteq Codes
    BY <1>0, <1>3 DEF RowsOK
  <2> QED BY <1>3, <2>1, <2>2, <2>3 DEF RowsOK
<1> HIDE DEF key
<1>8. ValuesOK'
  BY <1>0, <1>3, <1>4, <1>5, <1>6 DEF ValuesOK, OfUnit
<1>9. Mirrors'
  <2> SUFFICES ASSUME NEW k \in DOMAIN values', Only(k)', k[1] \in Live'
               PROVE  values'[k] = Value(units'[k[1]].path, units'[k[1]].status)
    BY DEF Mirrors
  <2>1. CASE k = key
    BY <1>3, <1>4, <1>5, <2>1 DEF Unit
  <2>2. CASE k # key
    <3>1. k \in DOMAIN values /\ k[1] \in DOMAIN units
      BY <1>0, <1>4, <2>2 DEF ValuesOK
    <3>2. Only(k)
      BY <1>0, <1>4, <3>1, OnlyBefore
    <3>3. k[1] \in Live /\ units'[k[1]] = units[k[1]]
      BY <1>3, <3>1 DEF Live
    <3> QED BY <1>4, <3>1, <3>2, <3>3 DEF OrgInv, Mirrors
  <2> QED BY <2>1, <2>2
<1>10. PathsFollowParents'
  <2> SUFFICES ASSUME ~torn, NEW v \in Live'
               PROVE  Placed(v, units'[v], Live', units')
    BY <1>0 DEF PathsFollowParents, Placed
  <2>0. Live \subseteq Live' /\ Live \subseteq DOMAIN units
    BY <1>3 DEF Live
  <2>1. CASE v = u
    <3>1. units'[u].parent = parent /\ units'[u].path = path
      BY <1>3 DEF Unit
    <3>2. CASE parent = None
      BY <1>2, <2>1, <3>1, <3>2 DEF Placed
    <3>3. CASE parent # None
      <4>1. parent \in Live' /\ units'[parent] = units[parent]
        BY <1>0, <1>3, <2>0, <3>3
      <4>2. path = Append(units'[parent].path, u)
        BY <1>2, <3>3, <4>1
      <4> QED BY <2>1, <3>1, <3>3, <4>1, <4>2 DEF Placed
    <3> QED BY <3>2, <3>3
  <2>2. CASE v # u
    <3>1. v \in Live /\ units'[v] = units[v]
      BY <1>3, <2>2 DEF Live
    <3>2. Placed(v, units[v], Live, units)
      BY <3>1 DEF OrgInv, PathsFollowParents, Placed
    <3> QED BY <1>3, <2>0, <3>1, <3>2 DEF Placed
  <2> QED BY <2>1, <2>2
<1>11. CallsOK'
  <2>1. \A g \in Handlers : \A v \in Locks(g) : v \in DOMAIN units
    BY DEF OrgInv, CallsOK, CallOK, MoveOK, Locks, Busy, Live
  <2> QED BY <1>0, <1>3, <1>4, <2>1, CallsStay
<1> QED BY <1>0, <1>7, <1>8, <1>9, <1>10, <1>11, CountsStay DEF OrgInv, CreateOrgUnit

(* A unit and its value change their status: its place stays               *)
(* (UpdateOrgUnit).                                                        *)
LEMMA UpdateStep ==
    ASSUME OrgInv, NEW u \in Codes, NEW status \in Statuses, UpdateOrgUnit(u, status)
    PROVE  OrgInv'
<1>0. /\ RowsOK /\ ValuesOK /\ UNCHANGED <<calls, torn>> /\ u \in Live /\ Unlocked(u)
      /\ DOMAIN units' = DOMAIN units /\ DOMAIN values' = DOMAIN values
  BY DEF UpdateOrgUnit, OrgInv, FindOrgUnitForUpdate
<1>1. /\ units'[u] = [units[u] EXCEPT !.status = status]
      /\ \A v \in DOMAIN units \ {u} : units'[v] = units[v]
  BY <1>0 DEF UpdateOrgUnit, Live
<1>2. /\ units'[u] \in Row /\ units'[u].status = status
      /\ units'[u].path = units[u].path /\ units'[u].parent = units[u].parent
      /\ units'[u].live = units[u].live
  BY <1>0, <1>1 DEF RowsOK, Named, Row, Live
<1>3. /\ \A v \in DOMAIN units : units'[v].path = units[v].path /\ units'[v].parent = units[v].parent
      /\ Live' = Live
  <2>1. \A v \in DOMAIN units : /\ units'[v].path = units[v].path
                               /\ units'[v].parent = units[v].parent
                               /\ units'[v].live = units[v].live
    BY <1>1, <1>2
  <2> QED BY <1>0, <2>1 DEF Live
<1>4. RowsOK'
  BY <1>0, <1>1, <1>2 DEF RowsOK, Named
<1>5. \A k \in DOMAIN values :
         values'[k] = IF k \in FindTenantAttributeValueByOrgUnit(values, u)
                      THEN [values[k] EXCEPT !.status = status] ELSE values[k]
  BY DEF UpdateOrgUnit
<1>6. \A k \in DOMAIN values : [values[k] EXCEPT !.status = status] \in ValueRow
  BY <1>0 DEF ValuesOK, ValueRow
<1>7. ValuesOK'
  BY <1>0, <1>5, <1>6 DEF ValuesOK
<1>8. Mirrors'
  <2> SUFFICES ASSUME NEW k \in DOMAIN values, Only(k), k[1] \in Live
               PROVE  values'[k] = Value(units'[k[1]].path, units'[k[1]].status)
    BY <1>0, <1>3 DEF Mirrors, Only
  <2>0. values[k] = Value(units[k[1]].path, units[k[1]].status)
    BY DEF OrgInv, Mirrors
  <2>1. CASE k[1] = u
    <3>1. k \in FindTenantAttributeValueByOrgUnit(values, u)
      BY <1>0, <2>1, OnlyIsFound
    <3> QED BY <1>2, <1>5, <2>0, <2>1, <3>1 DEF Value
  <2>2. CASE k[1] # u
    <3>1. k \notin FindTenantAttributeValueByOrgUnit(values, u)
      BY <2>2, FoundIsOne
    <3>2. units'[k[1]] = units[k[1]]
      BY <1>1, <2>2 DEF Live
    <3> QED BY <1>5, <2>0, <3>1, <3>2
  <2> QED BY <2>1, <2>2
<1>9. PathsFollowParents'
  <2> SUFFICES ASSUME ~torn, NEW v \in Live
               PROVE  Placed(v, units'[v], Live, units')
    BY <1>0, <1>3 DEF PathsFollowParents, Placed
  <2>1. Placed(v, units[v], Live, units) /\ v \in DOMAIN units
    BY DEF OrgInv, PathsFollowParents, Placed, Live
  <2>2. units'[v].path = units[v].path /\ units'[v].parent = units[v].parent
    BY <1>3, <2>1
  <2>3. units[v].parent \in Live => units'[units[v].parent].path = units[units[v].parent].path
    BY <1>3 DEF Live
  <2> QED BY <2>1, <2>2, <2>3 DEF Placed
<1>10. CallsOK'
  <2>1. \A g \in Handlers : \A v \in Locks(g) : v \in DOMAIN units /\ v # u
    BY <1>0 DEF OrgInv, CallsOK, CallOK, MoveOK, Locks, Busy, Live, Unlocked
  <2> QED BY <1>0, <1>1, <2>1, CallsStay
<1> QED BY <1>0, <1>4, <1>7, <1>8, <1>9, <1>10, CountsStay DEF OrgInv, UpdateOrgUnit

(* A unit without children is marked deleted; its value stays              *)
(* (DeleteOrgUnit).                                                        *)
LEMMA DeleteStep ==
    ASSUME OrgInv, NEW u \in Codes, DeleteOrgUnit(u)
    PROVE  OrgInv'
<1>0. /\ RowsOK /\ ValuesOK /\ UNCHANGED <<values, calls, torn>> /\ u \in Live /\ Unlocked(u)
      /\ DOMAIN units' = DOMAIN units /\ Children(u) = {}
  BY DEF DeleteOrgUnit, OrgInv, FindOrgUnitForUpdate
<1>1. /\ units'[u] = [units[u] EXCEPT !.live = FALSE]
      /\ \A v \in DOMAIN units \ {u} : units'[v] = units[v]
  BY <1>0 DEF DeleteOrgUnit, Live
<1>2. units'[u] \in Row /\ units'[u].path = units[u].path /\ ~units'[u].live
  BY <1>0, <1>1 DEF RowsOK, Named, Row, Live
<1>3. Live' = Live \ {u}
  BY <1>0, <1>1, <1>2 DEF Live
<1>4. RowsOK'
  BY <1>0, <1>1, <1>2 DEF RowsOK, Named
<1>5. ValuesOK'
  BY <1>0 DEF ValuesOK
<1>6. \A v \in Live' : v \in Live /\ v # u /\ units'[v] = units[v]
  BY <1>1, <1>3 DEF Live
<1>7. Mirrors'
  BY <1>0, <1>6 DEF OrgInv, Mirrors, Only
<1>8. PathsFollowParents'
  <2>1. \A v \in Live : units[v].parent # u
    BY <1>0 DEF Children
  <2>2. Live \subseteq DOMAIN units
    BY DEF Live
  <2> QED BY <1>0, <1>1, <1>3, <1>6, <2>1, <2>2 DEF OrgInv, PathsFollowParents
<1>9. CallsOK'
  <2>1. \A g \in Handlers : \A v \in Locks(g) : v \in DOMAIN units /\ v # u
    BY <1>0 DEF OrgInv, CallsOK, CallOK, MoveOK, Locks, Busy, Live, Unlocked
  <2> QED BY <1>0, <1>1, <2>1, CallsStay
<1> QED BY <1>0, <1>4, <1>5, <1>7, <1>8, <1>9, CountsStay DEF OrgInv, DeleteOrgUnit

(* A move reads and locks its unit and the target and checks that it makes *)
(* no cycle (MoveOrgUnit).                                                 *)
LEMMA MoveReadsStep ==
    ASSUME OrgInv, NEW h \in Handlers, NEW u \in Codes, NEW target \in Codes \cup {None},
           MoveOrgUnitReads(h, u, target)
    PROVE  OrgInv'
<1> DEFINE subtree == ListOrgUnitsByPathPrefix(units[u].path)
           mirrors == UNION {FindTenantAttributeValueByOrgUnit(values, v) : v \in subtree}
           seen == [v \in subtree |-> units[v]]
           seenValues == [k \in mirrors |-> values[k]]
           m == [op |-> "move", unit |-> u, target |-> target,
                 seen |-> seen, seenValues |-> seenValues]
<1>1. /\ RowsOK /\ ValuesOK /\ Mirrors /\ DOMAIN calls = Handlers
      /\ UNCHANGED <<units, values, torn>> /\ Counts
      /\ u \in Live
      /\ target # None => target \in Live /\ ~MoveCycle(u, target)
      /\ calls' = [calls EXCEPT ![h] = m]
  BY DEF MoveOrgUnitReads, OrgInv, FindOrgUnitForUpdate, CallsOK
<1>2. subtree \subseteq Live /\ u \in subtree /\ Live \subseteq DOMAIN units
  BY <1>1, PrefixOfItself DEF ListOrgUnitsByPathPrefix, RowsOK, Named, Row, Live
<1>3. \A k \in mirrors : k \in DOMAIN values /\ k[1] \in subtree
  BY FoundIsOne
<1>4. \A k \in DOMAIN values : Only(k) /\ k[1] \in subtree => k \in mirrors
  BY <1>1, OnlyIsFound
<1>5. \A v \in subtree : Named(v, units[v]) /\ IsPrefix(units[u].path, units[v].path)
  BY <1>1, <1>2 DEF ListOrgUnitsByPathPrefix, RowsOK
<1> HIDE DEF subtree, mirrors
<1>6. /\ calls'[h].op = "move" /\ calls'[h].unit = u /\ calls'[h].target = target
      /\ calls'[h].seen = seen /\ calls'[h].seenValues = seenValues
  BY <1>1
<1>7. MoveOK(calls[h])'
  <2>1. /\ u \in Live' /\ u \in DOMAIN seen /\ seen[u] = units'[u]
        /\ DOMAIN seen \subseteq DOMAIN units'
        /\ \A v \in DOMAIN seen : Named(v, seen[v]) /\ IsPrefix(seen[u].path, seen[v].path)
    BY <1>1, <1>2, <1>5 DEF Live
  <2>2. target # None => /\ target \in Live' /\ target # u
                         /\ ~IsPrefix(units'[u].path, units'[target].path)
    BY <1>1 DEF Live, MoveCycle
  <2>3. \A k \in DOMAIN seenValues :
           k \in DOMAIN values' /\ k[1] \in DOMAIN seen /\ seenValues[k] \in ValueRow
    BY <1>1, <1>3 DEF ValuesOK
  <2>4. \A k \in DOMAIN values' : Only(k)' /\ k[1] \in DOMAIN seen =>
           /\ k \in DOMAIN seenValues
           /\ seenValues[k] = Value(seen[k[1]].path, seen[k[1]].status)
    BY <1>1, <1>2, <1>4 DEF Mirrors, Only
  <2> HIDE DEF seen, seenValues
  <2> QED BY <1>6, <2>1, <2>2, <2>3, <2>4 DEF MoveOK
<1>8. CallOK(calls[h])'
  BY <1>6, <1>7 DEF CallOK
<1>9. CallsOK'
  <2> HIDE DEF m
  <2> QED BY <1>1, <1>8, OneCallChanges
<1> QED BY <1>1, <1>9, TablesStay, CountsStay DEF OrgInv

(* A call that fails, or an import that validates or reads, writes no row. *)
LEMMA CallStepsStay ==
    ASSUME OrgInv, NEW h \in Handlers,
           CallFails(h) \/ importOrgUnitsReads(h) \/ \E rows \in Files : ImportValidates(h, rows)
    PROVE  OrgInv'
<1>1. /\ UNCHANGED <<units, values, torn>> /\ DOMAIN calls = Handlers
      /\ Counts \/ UNCHANGED changes
      /\ RowsOK /\ CallOK(calls[h])
  BY DEF CallFails, importOrgUnitsReads, ImportValidates, OrgInv, CallsOK
<1>2. CallsOK'
  <2>1. CASE CallFails(h)
    BY <1>1, <2>1, OneCallEnds DEF CallFails
  <2>2. CASE importOrgUnitsReads(h)
    <3> DEFINE c == [calls[h] EXCEPT !.op = "importing", !.seen = [v \in Live |-> units[v]]]
    <3>1. calls' = [calls EXCEPT ![h] = c] /\ calls'[h] = c
      BY <1>1, <2>2 DEF importOrgUnitsReads
    <3>2. /\ calls[h] = [op |-> "import", rows |-> calls[h].rows, seen |-> calls[h].seen]
          /\ calls[h].rows \in Files /\ validateOrgCycles(calls[h].rows)
      BY <1>1, <2>2 DEF importOrgUnitsReads, CallOK, Busy
    <3>3. /\ calls'[h].op = "importing" /\ calls'[h].rows = calls[h].rows
          /\ calls'[h].seen = [v \in Live |-> units[v]]
      BY <3>1, <3>2
    <3>4. /\ Live \subseteq DOMAIN units' /\ \A v \in Live : Named(v, units[v])
      BY <1>1 DEF RowsOK, Live
    <3>5. CallOK(calls[h])'
      BY <3>2, <3>3, <3>4 DEF CallOK
    <3> HIDE DEF c
    <3> QED BY <1>1, <3>1, <3>5, OneCallChanges
  <2>3. CASE \E rows \in Files : ImportValidates(h, rows)
    <3>1. PICK rows \in Files : ImportValidates(h, rows)
      BY <2>3
    <3> DEFINE c == [op |-> "import", rows |-> rows, seen |-> None]
    <3>2. calls' = [calls EXCEPT ![h] = c] /\ calls'[h] = c /\ validateOrgCycles(rows)
      BY <1>1, <3>1 DEF ImportValidates, validateOrgRows
    <3>3. CallOK(calls[h])'
      BY <3>2 DEF CallOK
    <3> HIDE DEF c
    <3> QED BY <1>1, <3>2, <3>3, OneCallChanges
  <2> QED BY <2>1, <2>2, <2>3
<1> QED BY <1>1, <1>2, TablesStay, CountsStay DEF OrgInv


(* Only a department's own path is that of a root of its code. *)
LEMMA PrefixOfRoot ==
    ASSUME NEW old \in Path, old # <<>>, Last(old) \in Codes, NEW v \in Codes,
           NEW q \in {<<v>>, <<Slash, v>>}, IsPrefix(old, q)
    PROVE  Last(old) = v
<1>1. /\ q \in Path /\ q[Len(q)] = v
      /\ Len(q) = 1 \/ (Len(q) = 2 /\ q[1] = Slash)
  <2>1. <<v>> \in Path /\ <<Slash, v>> \in Path
    BY PathsTyped
  <2>2. CASE q = <<v>>
    BY <2>1, <2>2
  <2>3. CASE q = <<Slash, v>>
    BY <2>1, <2>3
  <2> QED BY <2>2, <2>3
<1>2. Len(old) \in Nat \ {0} /\ Len(old) <= Len(q) /\ \A i \in 1..Len(old) : old[i] = q[i]
  BY PrefixIs, <1>1 DEF Path
<1>3. Last(old) = old[Len(old)]
  BY DEF Last
<1>4. CASE Len(old) = Len(q)
  BY <1>1, <1>2, <1>3, <1>4
<1>5. CASE Len(old) # Len(q)
  <2>1. Len(q) = 2 /\ Len(old) = 1 /\ q[1] = Slash
    <3> DEFINE n == Len(old)
               k == Len(q)
    <3>1. n \in Nat \ {0} /\ n <= k /\ n # k /\ (k = 1 \/ (k = 2 /\ q[1] = Slash))
      BY <1>1, <1>2, <1>5
    <3> HIDE DEF n, k
    <3>2. n = 1 /\ k = 2 /\ q[1] = Slash
      BY <3>1
    <3> QED BY <3>2 DEF n, k
  <2>2. old[1] = q[1]
    BY <1>2, <2>1
  <2> QED BY <1>3, <2>1, <2>2, CodesApart
<1> QED BY <1>4, <1>5

(* A move writes the rows it has read back, with their new paths           *)
(* (MoveOrgUnit).                                                          *)
LEMMA MoveWritesStep ==
    ASSUME OrgInv, NEW h \in Handlers, MoveOrgUnitWrites(h)
    PROVE  OrgInv'
<1> DEFINE m == calls[h]
           below == DOMAIN m.seen
           oldPath == m.seen[m.unit].path
           above == IF m.target = None THEN <<>> ELSE units[m.target].path
           newPath == joinOrgPath(above, m.unit)
           moved == [v \in below |->
                       [m.seen[v] EXCEPT
                          !.path = Rebased(m.seen[v].path, oldPath, newPath),
                          !.parent = IF v = m.unit THEN m.target ELSE @]]
           mirrored == [k \in DOMAIN m.seenValues |->
                          [m.seenValues[k] EXCEPT !.path = moved[k[1]].path]]
           asRead == m.seen = [v \in ListOrgUnitsByPathPrefix(oldPath) |-> units[v]]
<1>1. /\ FreeFor(h, below) /\ Finish(h) /\ UNCHANGED changes
      /\ units' = Overlay(units, moved) /\ values' = Overlay(values, mirrored)
      /\ torn' = (torn \/ ~asRead)
  BY DEF MoveOrgUnitWrites
<1>2. RowsOK /\ ValuesOK /\ Mirrors /\ PathsFollowParents /\ torn \in BOOLEAN /\ MoveOK(m)
  BY DEF OrgInv, CallsOK, CallOK, MoveOrgUnitWrites, Busy
<1>3. /\ m.unit \in below /\ m.unit \in Live /\ m.unit \in Codes
      /\ m.target \in Codes \cup {None} /\ below \subseteq DOMAIN units
      /\ Live \subseteq DOMAIN units /\ DOMAIN units \subseteq Codes
  BY <1>2 DEF MoveOK, Live, RowsOK
<1>4. /\ oldPath = units[m.unit].path /\ oldPath \in Path /\ oldPath # <<>>
      /\ Last(oldPath) = m.unit
  BY <1>2 DEF MoveOK, Named, Row
<1>5. above \in Path /\ (m.target # None => above # <<>>)
  BY <1>2, PathsTyped DEF MoveOK, RowsOK, Named, Row, Live
<1>6. newPath \in Path /\ newPath # <<>> /\ Last(newPath) = m.unit
  BY <1>3, <1>5, Joined
<1>7. /\ m.target = None => newPath = <<Slash, m.unit>>
      /\ m.target # None => newPath = Append(units[m.target].path, m.unit)
  BY <1>3, <1>5, Joined DEF joinOrgPath
<1> HIDE DEF oldPath, newPath
<1>8. ASSUME NEW v \in below
      PROVE  /\ Named(v, moved[v])
             /\ moved[v].path = Rebased(m.seen[v].path, oldPath, newPath)
             /\ moved[v].parent = IF v = m.unit THEN m.target ELSE m.seen[v].parent
             /\ moved[v].status = m.seen[v].status /\ moved[v].live = m.seen[v].live
  <2>1. /\ m.seen[v] \in Row /\ Last(m.seen[v].path) = v /\ m.seen[v].path \in Path
        /\ IsPrefix(oldPath, m.seen[v].path)
    BY <1>2 DEF MoveOK, Named, Row, oldPath
  <2> DEFINE to == Rebased(m.seen[v].path, oldPath, newPath)
  <2>2. to \in Path /\ to # <<>> /\ Last(to) = v
    <3> DEFINE q == m.seen[v].path
    <3>1. q \in Path /\ IsPrefix(oldPath, q) /\ Last(q) = v
      BY <2>1
    <3>2. Last(newPath) = Last(oldPath)
      BY <1>4, <1>6
    <3> HIDE DEF q
    <3>3. Rebased(q, oldPath, newPath) \in Path
      BY <1>4, <1>6, <3>1, RebasedIs
    <3>4. /\ Rebased(q, oldPath, newPath) # <<>>
          /\ Last(Rebased(q, oldPath, newPath)) = Last(q)
      BY <1>4, <1>6, <3>1, <3>2, RebasedLast
    <3> QED BY <3>1, <3>3, <3>4 DEF q
  <2> HIDE DEF to
  <2>3. moved[v] = [m.seen[v] EXCEPT !.path = to, !.parent = IF v = m.unit THEN m.target ELSE @]
    BY DEF to
  <2>4. /\ moved[v] \in Row /\ moved[v].path = to
        /\ moved[v].parent = IF v = m.unit THEN m.target ELSE m.seen[v].parent
        /\ moved[v].status = m.seen[v].status /\ moved[v].live = m.seen[v].live
    <3> HIDE DEF moved
    <3> QED BY <1>3, <2>1, <2>2, <2>3 DEF Row
  <2> HIDE DEF moved
  <2> QED BY <2>2, <2>4 DEF Named, to
<1>9. DOMAIN moved = below
  OBVIOUS
<1>10. /\ DOMAIN mirrored = DOMAIN m.seenValues
       /\ \A k \in DOMAIN m.seenValues :
             mirrored[k] = [m.seenValues[k] EXCEPT !.path = moved[k[1]].path]
  OBVIOUS
<1> HIDE DEF moved, mirrored
<1>11. /\ DOMAIN units' = DOMAIN units
       /\ \A v \in below : units'[v] = moved[v]
       /\ \A v \in DOMAIN units \ below : units'[v] = units[v]
  <2>1. /\ DOMAIN Overlay(units, moved) = DOMAIN units \cup DOMAIN moved
        /\ \A x \in DOMAIN moved : Overlay(units, moved)[x] = moved[x]
        /\ \A x \in DOMAIN units \ DOMAIN moved : Overlay(units, moved)[x] = units[x]
    BY Overlaid
  <2> HIDE DEF below
  <2> QED BY <1>1, <1>3, <1>9, <2>1
<1>12. /\ DOMAIN values' = DOMAIN values
       /\ \A k \in DOMAIN m.seenValues :
             /\ k[1] \in below /\ m.seenValues[k] \in ValueRow
             /\ values'[k] = [m.seenValues[k] EXCEPT !.path = moved[k[1]].path]
       /\ \A k \in DOMAIN values \ DOMAIN m.seenValues : values'[k] = values[k]
  <2>1. /\ DOMAIN Overlay(values, mirrored) = DOMAIN values \cup DOMAIN mirrored
        /\ \A x \in DOMAIN mirrored : Overlay(values, mirrored)[x] = mirrored[x]
        /\ \A x \in DOMAIN values \ DOMAIN mirrored : Overlay(values, mirrored)[x] = values[x]
    BY Overlaid
  <2>2. \A k \in DOMAIN m.seenValues :
           k \in DOMAIN values /\ k[1] \in below /\ m.seenValues[k] \in ValueRow
    BY <1>2 DEF MoveOK
  <2> HIDE DEF below, m
  <2> QED BY <1>1, <1>10, <2>1, <2>2
<1>13. RowsOK'
  <2>1. \A v \in DOMAIN units : Named(v, units'[v])
    BY <1>2, <1>8, <1>11 DEF RowsOK
  <2> QED BY <1>2, <1>11, <2>1 DEF RowsOK
<1>14. ValuesOK'
  <2>1. \A k \in DOMAIN values : values'[k] \in ValueRow
    <3> SUFFICES ASSUME NEW k \in DOMAIN values PROVE values'[k] \in ValueRow
      OBVIOUS
    <3>1. CASE k \in DOMAIN m.seenValues
      <4>1. moved[k[1]].path \in Path
        BY <1>8, <1>12, <3>1 DEF Named, Row
      <4> QED BY <1>12, <3>1, <4>1 DEF ValueRow
    <3>2. CASE k \notin DOMAIN m.seenValues
      BY <1>2, <1>12, <3>2 DEF ValuesOK
    <3> QED BY <3>1, <3>2
  <2> QED BY <1>2, <1>11, <1>12, <2>1 DEF ValuesOK
<1>15. Mirrors'
  <2> SUFFICES ASSUME NEW k \in DOMAIN values, Only(k), k[1] \in Live'
               PROVE  values'[k] = Value(units'[k[1]].path, units'[k[1]].status)
    BY <1>12 DEF Mirrors, Only
  <2>0. k[1] \in DOMAIN units
    BY <1>2 DEF ValuesOK
  <2>1. CASE k[1] \in below
    <3>1. /\ k \in DOMAIN m.seenValues
          /\ m.seenValues[k] = Value(m.seen[k[1]].path, m.seen[k[1]].status)
      BY <1>2, <2>1 DEF MoveOK
    <3>2. units'[k[1]].path = moved[k[1]].path /\ units'[k[1]].status = m.seen[k[1]].status
      BY <1>8, <1>11, <2>1
    <3>3. values'[k] = [Value(m.seen[k[1]].path, m.seen[k[1]].status)
                          EXCEPT !.path = moved[k[1]].path]
      BY <1>12, <3>1
    <3> HIDE DEF m
    <3> QED BY <3>2, <3>3 DEF Value
  <2>2. CASE k[1] \notin below
    <3>1. k \notin DOMAIN m.seenValues /\ units'[k[1]] = units[k[1]] /\ k[1] \in Live
      BY <1>11, <1>12, <2>0, <2>2 DEF Live
    <3> QED BY <1>2, <1>12, <3>1 DEF Mirrors
  <2> QED BY <2>1, <2>2
<1>16. PathsFollowParents'
  <2> SUFFICES ASSUME ~torn, asRead, NEW v \in Live'
               PROVE  Placed(v, units'[v], Live', units')
    BY <1>1, <1>2 DEF PathsFollowParents, Placed
  <2>1. /\ below = ListOrgUnitsByPathPrefix(oldPath)
        /\ \A w \in below : m.seen[w] = units[w]
    OBVIOUS
  <2> HIDE DEF asRead, below, m
  <2>2. \A w \in below : w \in Live /\ IsPrefix(oldPath, units[w].path)
    BY <2>1 DEF ListOrgUnitsByPathPrefix
  <2>3. \A w \in Live : IsPrefix(oldPath, units[w].path) => w \in below
    BY <2>1 DEF ListOrgUnitsByPathPrefix
  <2>4. \A w \in DOMAIN units : units'[w].live = units[w].live
    BY <1>8, <1>11, <2>1
  <2>5. Live' = Live
    BY <1>11, <2>4 DEF Live
  <2>6. \A w \in Live : /\ Placed(w, units[w], Live, units)
                        /\ units[w].path \in Path /\ Last(units[w].path) = w
    BY <1>2 DEF PathsFollowParents, Placed, RowsOK, Named, Row, Live
  <2>7. v \in Live /\ v \in Codes /\ v \in DOMAIN units
    BY <1>3, <2>5
  <2>8. CASE v = m.unit
    <3>1. units'[v].parent = m.target /\ units'[v].path = Rebased(oldPath, oldPath, newPath)
      BY <1>3, <1>4, <1>8, <1>11, <2>1, <2>8
    <3>2. units'[v].path = newPath
      BY <1>4, <1>6, <3>1, RebasedRoot
    <3>3. CASE m.target = None
      BY <1>7, <2>8, <3>1, <3>2, <3>3 DEF Placed
    <3>4. CASE m.target # None
      <4>1. m.target \in Live /\ ~IsPrefix(oldPath, units[m.target].path)
        BY <1>2, <1>4, <3>4 DEF MoveOK
      <4>2. m.target \notin below /\ m.target \in DOMAIN units
        BY <1>3, <2>2, <4>1
      <4>3. units'[m.target] = units[m.target]
        BY <1>11, <4>2
      <4>4. units'[v].path = Append(units'[m.target].path, v)
        BY <1>7, <2>8, <3>2, <3>4, <4>3
      <4> QED BY <2>5, <3>1, <3>4, <4>1, <4>4 DEF Placed
    <3> QED BY <3>3, <3>4
  <2>9. CASE v \in below /\ v # m.unit
    <3> DEFINE p == units[v].parent
    <3>1. /\ units'[v].parent = p /\ IsPrefix(oldPath, units[v].path)
          /\ units'[v].path = Rebased(units[v].path, oldPath, newPath)
      BY <1>8, <1>11, <2>1, <2>2, <2>9
    <3>2. p # None
      <4> SUFFICES ASSUME p = None PROVE FALSE
        OBVIOUS
      <4>1. units[v].path \in {<<v>>, <<Slash, v>>}
        BY <2>6, <2>7 DEF Placed
      <4>2. Last(oldPath) = v
        BY <1>3, <1>4, <2>7, <3>1, <4>1, PrefixOfRoot
      <4> QED BY <1>4, <2>9, <4>2
    <3>3. p \in Live /\ units[v].path = Append(units[p].path, v)
      BY <2>6, <2>7, <3>2 DEF Placed
    <3>4. oldPath # units[v].path
      BY <1>4, <2>6, <2>7, <2>9
    <3>5. units[p].path \in Path
      BY <2>6, <3>3
    <3>6. IsPrefix(oldPath, units[p].path)
      <4>1. IsPrefix(oldPath, Append(units[p].path, v)) /\ oldPath # Append(units[p].path, v)
        BY <3>1, <3>3, <3>4
      <4> QED BY <1>4, <2>7, <3>5, <4>1, PrefixOfChild
    <3>7. p \in below
      BY <2>3, <3>3, <3>6
    <3>8. units'[p].path = Rebased(units[p].path, oldPath, newPath)
      BY <1>8, <1>11, <2>1, <3>7
    <3>9. Rebased(Append(units[p].path, v), oldPath, newPath)
            = Append(Rebased(units[p].path, oldPath, newPath), v)
      BY <1>4, <1>6, <2>7, <3>5, <3>6, RebasedChild
    <3>10. units'[v].path = Append(units'[p].path, v)
      BY <3>1, <3>3, <3>8, <3>9
    <3> HIDE DEF p
    <3> QED BY <2>5, <3>1, <3>2, <3>3, <3>10 DEF Placed
  <2>10. CASE v \notin below
    <3> DEFINE p == units[v].parent
    <3>1. units'[v] = units[v] /\ Placed(v, units[v], Live, units)
      BY <1>11, <2>6, <2>7, <2>10
    <3>2. CASE p = None
      BY <3>1, <3>2 DEF Placed
    <3>3. CASE p # None
      <4>1. p \in Live /\ units[v].path = Append(units[p].path, v)
        BY <3>1, <3>3 DEF Placed
      <4>2. units[p].path \in Path
        BY <2>6, <4>1
      <4>3. p \notin below
        <5> SUFFICES ASSUME p \in below PROVE FALSE
          OBVIOUS
        <5>1. IsPrefix(oldPath, units[p].path)
          BY <2>2
        <5>2. IsPrefix(oldPath, Append(units[p].path, v))
          BY <1>4, <2>7, <4>2, <5>1, PrefixOfChild
        <5>3. IsPrefix(oldPath, units[v].path)
          BY <4>1, <5>2
        <5> QED BY <2>3, <2>7, <2>10, <5>3
      <4>4. units'[p] = units[p]
        BY <1>3, <1>11, <4>1, <4>3
      <4>5. units'[v].path = Append(units'[p].path, v)
        BY <3>1, <4>1, <4>4
      <4> HIDE DEF p
      <4>6. units'[v].parent = p
        BY <3>1 DEF p
      <4> QED BY <2>5, <3>3, <4>1, <4>5, <4>6 DEF Placed
    <3> QED BY <3>2, <3>3
  <2> QED BY <2>8, <2>9, <2>10
<1>17. CallsOK'
  <2>1. ASSUME NEW g \in Handlers \ {h}, NEW v \in Locks(g)
        PROVE  v \in DOMAIN units /\ v \notin below
    BY <1>1 DEF OrgInv, CallsOK, CallOK, MoveOK, Locks, Busy, Live, FreeFor
  <2> QED BY <1>1, <1>11, <1>12, <2>1, OneCallEnds
<1>18. torn' \in BOOLEAN
  BY <1>1
<1> HIDE DEF m
<1> QED BY <1>1, <1>13, <1>14, <1>15, <1>16, <1>17, <1>18, CountsStay DEF OrgInv


(* An import writes its rows over the tree, in one transaction.            *)
LEMMA ImportTxStep ==
    ASSUME OrgInv, NEW h \in Handlers, importOrgUnitsTx(h)
    PROVE  OrgInv'
<1> DEFINE rows == calls[h].rows
           seen == calls[h].seen
           path == orderOrgRows(rows, seen)
           written == {u \in DOMAIN rows : u \notin DOMAIN seen \/ units[u].live}
           new == [u \in written |-> Unit(rows[u].parent, path[u], rows[u].status)]
           keys == (DOMAIN rows) \X {PlainValueCode}
           mirrored == [k \in keys |-> Value(path[k[1]], rows[k[1]].status)]
           asRead == seen = [v \in Live |-> units[v]]
           leaves == \E u \in DOMAIN rows \cap Live :
                         /\ path[u] # units[u].path
                         /\ ~(Children(u) \subseteq DOMAIN rows)
<1>1. /\ FreeFor(h, written) /\ Finish(h) /\ UNCHANGED changes
      /\ units' = Overlay(units, new) /\ values' = Overlay(values, mirrored)
      /\ torn' = (torn \/ ~asRead \/ leaves)
      /\ \A u \in DOMAIN rows :
            /\ rows[u].parent \in DOMAIN seen \cup DOMAIN rows \cup {None}
            /\ u \notin DOMAIN seen => u \notin DOMAIN units
  BY DEF importOrgUnitsTx
<1>2. /\ RowsOK /\ ValuesOK /\ Mirrors /\ PathsFollowParents /\ torn \in BOOLEAN
      /\ rows \in Files /\ validateOrgCycles(rows)
      /\ DOMAIN seen \subseteq DOMAIN units /\ \A v \in DOMAIN seen : Named(v, seen[v])
  BY DEF OrgInv, CallsOK, CallOK, importOrgUnitsTx, Busy
<1>3. \A u \in DOMAIN rows :
         /\ u \in Codes /\ rows[u].parent \in Codes \cup {None} /\ rows[u].status \in Statuses
  BY <1>2, OrgTreeAssumption
<1>4. \A v \in DOMAIN seen : seen[v].path \in Path
  BY <1>2 DEF Named, Row
<1> HIDE DEF seen, rows
<1>5. \A u \in DOMAIN rows :
         /\ path[u] \in Path /\ path[u] # <<>> /\ Last(path[u]) = u
         /\ path[u] = IF rows[u].parent = None THEN <<u>>
                      ELSE IF rows[u].parent \in DOMAIN rows THEN Append(path[rows[u].parent], u)
                      ELSE Append(seen[rows[u].parent].path, u)
  <2>1. FileFits(rows, seen)
    BY <1>1, <1>2, <1>4 DEF FileFits
  <2> HIDE DEF path
  <2>2. FilePaths(rows, seen, path)
    BY <1>2, <2>1, ImportPaths DEF path
  <2> QED BY <2>2 DEF FilePaths
<1>6. DOMAIN new = written /\ \A u \in written : new[u] = Unit(rows[u].parent, path[u], rows[u].status)
  OBVIOUS
<1>7. DOMAIN mirrored = keys /\ \A k \in keys : mirrored[k] = Value(path[k[1]], rows[k[1]].status)
  OBVIOUS
<1>8. \A k \in keys : k[1] \in DOMAIN rows /\ k = <<k[1], PlainValueCode>>
  OBVIOUS
<1>9. \A u \in DOMAIN rows : <<u, PlainValueCode>> \in keys /\ OfUnit(<<u, PlainValueCode>>, u)
  BY DEF OfUnit
<1>10. keys \subseteq ValueKey
  BY <1>3 DEF ValueKey
<1>11. /\ written \subseteq DOMAIN rows /\ written \subseteq Codes
       /\ \A u \in DOMAIN rows \ written : u \in DOMAIN units /\ ~units[u].live
  BY <1>2, <1>3
<1> HIDE DEF path, new, mirrored, keys
<1>12. /\ DOMAIN units' = DOMAIN units \cup written
       /\ \A u \in written : units'[u] = Unit(rows[u].parent, path[u], rows[u].status)
       /\ \A u \in DOMAIN units \ written : units'[u] = units[u]
  <2>1. /\ DOMAIN Overlay(units, new) = DOMAIN units \cup DOMAIN new
        /\ \A x \in DOMAIN new : Overlay(units, new)[x] = new[x]
        /\ \A x \in DOMAIN units \ DOMAIN new : Overlay(units, new)[x] = units[x]
    BY Overlaid
  <2> HIDE DEF written
  <2> QED BY <1>1, <1>6, <2>1
<1>13. /\ DOMAIN values' = DOMAIN values \cup keys
       /\ \A k \in keys : values'[k] = Value(path[k[1]], rows[k[1]].status)
       /\ \A k \in DOMAIN values \ keys : values'[k] = values[k]
  <2>1. /\ DOMAIN Overlay(values, mirrored) = DOMAIN values \cup DOMAIN mirrored
        /\ \A x \in DOMAIN mirrored : Overlay(values, mirrored)[x] = mirrored[x]
        /\ \A x \in DOMAIN values \ DOMAIN mirrored : Overlay(values, mirrored)[x] = values[x]
    BY Overlaid
  <2> QED BY <1>1, <1>7, <2>1
<1>14. DOMAIN rows \subseteq DOMAIN units'
  BY <1>11, <1>12
<1>15. RowsOK'
  <2>1. ASSUME NEW u \in written PROVE Named(u, units'[u])
    <3>1. /\ path[u] \in Path /\ path[u] # <<>> /\ Last(path[u]) = u
          /\ rows[u].parent \in Codes \cup {None} /\ rows[u].status \in Statuses
      BY <1>3, <1>5, <1>11
    <3> HIDE DEF written
    <3>2. units'[u] \in Row /\ units'[u].path = path[u]
      <4>1. units'[u] = Unit(rows[u].parent, path[u], rows[u].status)
        BY <1>12
      <4> DEFINE p == rows[u].parent
                 q == path[u]
                 s == rows[u].status
      <4>2. p \in Codes \cup {None} /\ q \in Path /\ s \in Statuses
        BY <3>1
      <4> HIDE DEF p, q, s
      <4>3. Unit(p, q, s) \in Row /\ Unit(p, q, s).path = q
        BY <4>2 DEF Unit, Row
      <4> QED BY <4>1, <4>3 DEF p, q, s
    <3> QED BY <3>1, <3>2 DEF Named
  <2>2. \A u \in DOMAIN units \ written : Named(u, units'[u])
    BY <1>2, <1>12 DEF RowsOK
  <2>3. DOMAIN units' \subseteq Codes
    BY <1>2, <1>11, <1>12 DEF RowsOK
  <2> HIDE DEF written
  <2> QED BY <1>12, <2>1, <2>2, <2>3 DEF RowsOK
<1>16. ValuesOK'
  <2>1. ASSUME NEW k \in keys PROVE values'[k] \in ValueRow
    <3>1. path[k[1]] \in Path /\ rows[k[1]].status \in Statuses
      BY <1>3, <1>5, <1>8
    <3> QED BY <1>13, <3>1 DEF Value, ValueRow
  <2>2. \A k \in DOMAIN values' : k \in ValueKey /\ k[1] \in DOMAIN units' /\ values'[k] \in ValueRow
    BY <1>2, <1>8, <1>10, <1>12, <1>13, <1>14, <2>1 DEF ValuesOK
  <2>3. \A u \in written : \E k \in DOMAIN values' : OfUnit(k, u)
    BY <1>9, <1>11, <1>13
  <2>4. \A u \in DOMAIN units : \E k \in DOMAIN values' : OfUnit(k, u)
    BY <1>2, <1>13 DEF ValuesOK
  <2> HIDE DEF written
  <2> QED BY <1>12, <2>2, <2>3, <2>4 DEF ValuesOK
<1>17. Mirrors'
  <2> SUFFICES ASSUME NEW k \in DOMAIN values', Only(k)', k[1] \in Live'
               PROVE  values'[k] = Value(units'[k[1]].path, units'[k[1]].status)
    BY DEF Mirrors
  <2>1. CASE k \in keys
    <3>1. k[1] \in written
      <4> SUFFICES ASSUME k[1] \notin written PROVE FALSE
        OBVIOUS
      <4>1. k[1] \in DOMAIN rows \ written
        BY <1>8, <2>1
      <4> HIDE DEF written
      <4>2. k[1] \in DOMAIN units \ written /\ ~units[k[1]].live
        BY <1>11, <4>1
      <4> QED BY <1>12, <4>2 DEF Live
    <3> HIDE DEF written
    <3> QED BY <1>12, <1>13, <2>1, <3>1 DEF Unit
  <2>2. CASE k \notin keys
    <3>1. k \in DOMAIN values
      BY <1>13, <2>2
    <3>2. k[1] \in DOMAIN units
      BY <1>2, <3>1 DEF ValuesOK
    <3>3. k[1] \notin DOMAIN rows
      <4> SUFFICES ASSUME k[1] \in DOMAIN rows PROVE FALSE
        OBVIOUS
      <4> DEFINE j == <<k[1], PlainValueCode>>
      <4>1. j \in keys /\ OfUnit(j, k[1])
        BY <1>9
      <4> HIDE DEF j
      <4>2. j = k
        BY <1>13, <4>1 DEF Only
      <4> QED BY <2>2, <4>1, <4>2
    <3>4. units'[k[1]] = units[k[1]] /\ k[1] \in Live
      BY <1>11, <1>12, <3>2, <3>3 DEF Live
    <3>5. Only(k)
      BY <1>2, <1>13, <3>2, OnlyBefore
    <3> QED BY <1>2, <1>13, <2>2, <3>1, <3>4, <3>5 DEF Mirrors
  <2> QED BY <2>1, <2>2
<1>18. PathsFollowParents'
  <2> SUFFICES ASSUME ~torn, asRead, ~leaves, NEW v \in Live'
               PROVE  Placed(v, units'[v], Live', units')
    BY <1>1, <1>2 DEF PathsFollowParents, Placed
  <2>1. DOMAIN seen = Live /\ \A w \in Live : seen[w] = units[w]
    OBVIOUS
  <2>2. written = DOMAIN rows
    BY <2>1 DEF Live
  <2>3. \A u \in DOMAIN rows : \A w \in Children(u) \ DOMAIN rows :
           u \in Live => path[u] = units[u].path
    OBVIOUS
  <2> HIDE DEF asRead, leaves, written
  <2>4. /\ \A u \in DOMAIN rows : /\ units'[u].parent = rows[u].parent
                                  /\ units'[u].path = path[u] /\ units'[u].live
        /\ Live \subseteq DOMAIN units
    BY <1>12, <2>2 DEF Unit, Live
  <2>5. Live' = Live \cup DOMAIN rows
    BY <1>12, <2>2, <2>4 DEF Live
  <2>6. CASE v \in DOMAIN rows
    <3> DEFINE p == rows[v].parent
    <3>1. units'[v].parent = p /\ units'[v].path = path[v]
      BY <2>4, <2>6
    <3>2. CASE p = None
      <4>1. path[v] = <<v>>
        BY <1>5, <2>6, <3>2
      <4> QED BY <3>1, <3>2, <4>1 DEF Placed
    <3>3. CASE p # None /\ p \in DOMAIN rows
      <4>1. path[v] = Append(path[p], v)
        BY <1>5, <2>6, <3>3
      <4>2. units'[v].path = Append(units'[p].path, v) /\ p \in Live'
        BY <2>4, <2>5, <3>1, <3>3, <4>1
      <4> HIDE DEF p
      <4> QED BY <3>1, <3>3, <4>2 DEF Placed
    <3>4. CASE p # None /\ p \notin DOMAIN rows
      <4>1. path[v] = Append(seen[p].path, v)
        BY <1>5, <2>6, <3>4
      <4>2. p \in Live
        BY <1>1, <2>1, <2>6, <3>4
      <4>3. units'[p] = units[p] /\ seen[p] = units[p]
        BY <1>12, <2>1, <2>2, <2>4, <3>4, <4>2
      <4>4. units'[v].path = Append(units'[p].path, v) /\ p \in Live'
        BY <2>5, <3>1, <4>1, <4>2, <4>3
      <4> HIDE DEF p
      <4> QED BY <3>1, <3>4, <4>4 DEF Placed
    <3> QED BY <3>2, <3>3, <3>4
  <2>7. CASE v \notin DOMAIN rows
    <3> DEFINE p == units[v].parent
    <3>1. v \in Live /\ units'[v] = units[v]
      BY <1>12, <2>2, <2>4, <2>5, <2>7
    <3>2. Placed(v, units[v], Live, units)
      BY <1>2, <3>1 DEF PathsFollowParents, Placed
    <3>3. CASE p = None
      BY <3>1, <3>2, <3>3 DEF Placed
    <3>4. CASE p # None
      <4>1. p \in Live /\ units[v].path = Append(units[p].path, v)
        BY <3>2, <3>4 DEF Placed
      <4>2. units'[p].path = units[p].path
        <5>1. CASE p \in DOMAIN rows
          <6>1. v \in Children(p) \ DOMAIN rows
            BY <2>7, <3>1 DEF Children
          <6> HIDE DEF p
          <6> QED BY <2>3, <2>4, <4>1, <5>1, <6>1
        <5>2. CASE p \notin DOMAIN rows
          BY <1>12, <2>2, <2>4, <4>1, <5>2
        <5> QED BY <5>1, <5>2
      <4>3. units'[v].path = Append(units'[p].path, v) /\ p \in Live' /\ units'[v].parent = p
        BY <2>5, <3>1, <4>1, <4>2
      <4> HIDE DEF p
      <4> QED BY <3>4, <4>3 DEF Placed
    <3> QED BY <3>3, <3>4
  <2> QED BY <2>6, <2>7
<1>19. CallsOK'
  <2>1. ASSUME NEW g \in Handlers \ {h}, NEW v \in Locks(g)
        PROVE  v \in DOMAIN units /\ v \notin written
    <3> HIDE DEF written
    <3> QED BY <1>1 DEF OrgInv, CallsOK, CallOK, MoveOK, Locks, Busy, Live, FreeFor
  <2> HIDE DEF written
  <2> QED BY <1>1, <1>12, <1>13, <2>1, OneCallEnds
<1>20. torn' \in BOOLEAN
  BY <1>1
<1> QED BY <1>1, <1>15, <1>16, <1>17, <1>18, <1>19, <1>20, CountsStay DEF OrgInv

-----------------------------------------------------------------------------
(* Every step keeps the invariant.                                         *)
LEMMA OrgStep == OrgInv /\ [Next]_vars => OrgInv'
<1> SUFFICES ASSUME OrgInv, [Next]_vars PROVE OrgInv'
  OBVIOUS
<1>1. CASE UNCHANGED vars
  <2>1. UNCHANGED <<units, values, torn>> /\ UNCHANGED calls /\ UNCHANGED changes
    BY <1>1 DEF vars
  <2>2. CallsOK'
    BY <2>1, CallsStay
  <2> QED BY <2>1, <2>2, TablesStay, CountsStay DEF OrgInv
<1>2. CASE BootstrapDemoOrgAttributes
  BY <1>2, BootstrapStep
<1>3. CASE \E u \in Codes, p \in Codes \cup {None} : CreateOrgUnit(u, p)
  BY <1>3, CreateStep
<1>4. CASE \E u \in Codes, s \in Statuses : UpdateOrgUnit(u, s)
  BY <1>4, UpdateStep
<1>5. CASE \E u \in Codes : DeleteOrgUnit(u)
  BY <1>5, DeleteStep
<1>6. CASE \E h \in Handlers : \E u \in Codes, t \in Codes \cup {None} : MoveOrgUnitReads(h, u, t)
  BY <1>6, MoveReadsStep
<1>7. CASE \E h \in Handlers : MoveOrgUnitWrites(h)
  BY <1>7, MoveWritesStep
<1>8. CASE \E h \in Handlers : \/ CallFails(h) \/ importOrgUnitsReads(h)
                               \/ \E rows \in Files : ImportValidates(h, rows)
  BY <1>8, CallStepsStay
<1>9. CASE \E h \in Handlers : importOrgUnitsTx(h)
  BY <1>9, ImportTxStep
<1> QED BY <1>1, <1>2, <1>3, <1>4, <1>5, <1>6, <1>7, <1>8, <1>9 DEF Next

(* The invariant holds in every reachable state.                           *)
LEMMA OrgInvariant == Spec => []OrgInv
BY OrgInitial, OrgStep, PTL DEF Spec

(* Rows, mirrors and calls stay the ones the schema and the handlers       *)
(* allow: a path is never empty and ends in the code of its department.    *)
THEOREM OrgRowsAreWellFormed == Spec => []OrgTypeOK
<1>1. OrgInv => OrgTypeOK
  BY DEF OrgInv, RowsOK, Named, Row, ValuesOK, ValueKey, CallsOK, CallOK, OrgTypeOK
<1> QED BY <1>1, OrgInvariant, PTL

(* The parent of a live department is live and its path is the parent's    *)
(* followed by its own code, through creates, moves of whole subtrees and  *)
(* imports, as long as no write rested on rows that had changed meanwhile. *)
THEOREM PathsKeepFollowingParents == Spec => []PathsFollowParents
<1>1. OrgInv => PathsFollowParents
  BY DEF OrgInv
<1> QED BY <1>1, OrgInvariant, PTL

(* The only value row of a live department agrees with it in path and      *)
(* status, whatever overlapped: also after writes from stale rows.         *)
THEOREM ValuesKeepMirroring == Spec => []ValueMirrorsUnit
<1>1. OrgInv => ValueMirrorsUnit
  <2> SUFFICES ASSUME OrgInv, NEW u \in Live, NEW k \in DOMAIN values, k[1] = u,
                      Cardinality({j \in DOMAIN values : j[1] = u}) = 1
               PROVE  values[k] = Value(units[u].path, units[u].status)
    BY DEF ValueMirrorsUnit
  <2> DEFINE R == {j \in DOMAIN values : j[1] = u}
             two == {<<u, departmentValueCode>>, <<u, PlainValueCode>>}
  <2>1. R \subseteq two
    BY ValueRowsOf DEF OrgInv, ValuesOK
  <2>2. IsFiniteSet(two)
    <3> DEFINE a == <<u, departmentValueCode>>
               b == <<u, PlainValueCode>>
    <3>1. two = {a} \cup {b}
      OBVIOUS
    <3> HIDE DEF a, b, two
    <3>2. IsFiniteSet({a}) /\ IsFiniteSet({b})
      BY FS_Singleton
    <3>3. IsFiniteSet({a} \cup {b})
      BY <3>2, FS_Union
    <3> QED BY <3>1, <3>3
  <2>3. IsFiniteSet(R)
    BY <2>1, <2>2, FS_Subset
  <2>4. PICK x : R = {x}
    <3> HIDE DEF R
    <3> QED BY <2>3, FS_Singleton DEF R
  <2>5. Only(k)
    BY <2>4 DEF Only, OfUnit
  <2> QED BY <2>5 DEF OrgInv, Mirrors
<1> QED BY <1>1, OrgInvariant, PTL


-----------------------------------------------------------------------------
(***************************************************************************)
(* What the page shows.  shown is computed along the natural numbers; the  *)
(* least number at which two such computations differ does not exist.      *)
(***************************************************************************)
LEMMA LeastOf ==
    ASSUME NEW T \in SUBSET Nat, T # {}
    PROVE  \E x \in T : \A y \in T : x <= y
<1> DEFINE R == OpToRel(<, Nat)
<1>1. IsWellFoundedOn(R, Nat)
  BY NatLessThanWellFounded
<1>2. \A x, y \in Nat : x < y => <<x, y>> \in R
  BY DEF OpToRel
<1> HIDE DEF R
<1>3. PICK x \in T : \A y \in T : <<y, x>> \notin R
  BY <1>1, WFMin
<1>4. \A y \in T : ~(y < x)
  BY <1>2, <1>3
<1>5. \A y \in T : x \in Nat /\ y \in Nat
  OBVIOUS
<1> QED BY <1>4, <1>5

(* A child is one level below its parent.                                  *)
LEMMA LevelOfChild ==
    ASSUME NEW p \in Path, NEW u \in Codes
    PROVE  Level(p) \in Nat /\ Level(Append(p, u)) = Level(p) + 1
<1> DEFINE a == Append(p, u)
           n == Len(p)
           I == {i \in DOMAIN p : p[i] # Slash}
           J == {i \in DOMAIN a : a[i] # Slash}
<1>1. n \in Nat /\ DOMAIN p = 1..n
  BY DEF Path
<1>2. a \in Path /\ Len(a) = n + 1 /\ a[Len(a)] = u /\ \A i \in 1..n : a[i] = p[i]
  BY Appended DEF Last
<1>3. DOMAIN a = 1..(n + 1)
  <2> HIDE DEF a, n
  <2> QED BY <1>2 DEF Path
<1> HIDE DEF a, n
<1>4. u # Slash
  BY CodesApart
<1>5. J = I \cup {n + 1} /\ n + 1 \notin I
  BY <1>1, <1>2, <1>3, <1>4
<1>6. IsFiniteSet(I)
  <2>1. IsFiniteSet(1..n)
    BY <1>1, FS_Interval
  <2> QED BY <1>1, <2>1, FS_Subset
<1> HIDE DEF I, J
<1>7. Cardinality(I) \in Nat /\ Cardinality(J) = Cardinality(I) + 1
  BY <1>5, <1>6, FS_AddElement, FS_CardinalityType
<1> QED BY <1>7 DEF Level, I, J, a

(* Unless a write rested on rows that no longer stood, the management tree *)
(* shows exactly the live roots and their children.                        *)
LEMMA TwoLevelsShown ==
    ASSUME IsFiniteSet(Codes), OrgInv, ~torn
    PROVE  buildManagementOrgTree =
             {u \in Live : units[u].parent = None \/ units[units[u].parent].parent = None}
<1> DEFINE two == {u \in Live : units[u].parent = None \/ units[units[u].parent].parent = None}
           Copied(u) == IF u \in TreeRoots THEN Children(u)
                        ELSE {v \in Children(u) : Level(units[v].path) < Level(units[u].path)}
           step(g) == [n \in Nat |-> IF n = 0 THEN TreeRoots
                                     ELSE g[n-1] \cup UNION {Copied(u) : u \in g[n-1]}]
           w == [n \in Nat |-> IF n = 0 THEN TreeRoots ELSE two]
           shown == CHOOSE g : g = step(g)
<1>1. \A u \in Live : /\ Placed(u, units[u], Live, units)
                      /\ units[u].path \in Path /\ u \in Codes
  BY DEF OrgInv, PathsFollowParents, Placed, RowsOK, Named, Row, Live
<1>2. TreeRoots = {u \in Live : units[u].parent = None}
  BY <1>1 DEF TreeRoots, Placed
<1>3. \A u \in Live \ TreeRoots : Copied(u) = {}
  <2> SUFFICES ASSUME NEW u \in Live, NEW v \in Children(u)
               PROVE  ~(Level(units[v].path) < Level(units[u].path))
    OBVIOUS
  <2>1. v \in Live /\ units[v].parent = u /\ u # None
    BY <1>1, CodesApart DEF Children
  <2>2. units[v].path = Append(units[u].path, v)
    BY <1>1, <2>1 DEF Placed
  <2>3. /\ Level(units[u].path) \in Nat
        /\ Level(Append(units[u].path, v)) = Level(units[u].path) + 1
    BY <1>1, <2>1, LevelOfChild
  <2> QED BY <2>2, <2>3
<1>4. TreeRoots \subseteq two /\ \A u \in TreeRoots : Copied(u) \subseteq two
  BY <1>2 DEF Children
<1>5. \A v \in two \ TreeRoots : \E u \in TreeRoots : v \in Copied(u)
  <2> SUFFICES ASSUME NEW v \in two \ TreeRoots PROVE \E u \in TreeRoots : v \in Copied(u)
    OBVIOUS
  <2>1. v \in Live /\ units[v].parent # None /\ units[units[v].parent].parent = None
    BY <1>2
  <2>2. units[v].parent \in TreeRoots
    BY <1>1, <1>2, <2>1 DEF Placed
  <2>3. v \in Copied(units[v].parent)
    BY <2>1, <2>2 DEF Children
  <2> QED BY <2>2, <2>3
<1>6. two \subseteq Live
  OBVIOUS
<1> HIDE DEF Copied, two
<1>7. TreeRoots \cup UNION {Copied(u) : u \in TreeRoots} = two
  BY <1>4, <1>5
<1>8. two \cup UNION {Copied(u) : u \in two} = two
  BY <1>3, <1>4, <1>6
<1>9. w = step(w)
  <2>1. \A n \in Nat : w[n] = step(w)[n]
    <3> SUFFICES ASSUME NEW n \in Nat, n # 0
                 PROVE  w[n] = w[n-1] \cup UNION {Copied(u) : u \in w[n-1]}
      OBVIOUS
    <3>1. CASE n = 1
      BY <1>7, <3>1
    <3>2. CASE n # 1
      BY <1>8, <3>2
    <3> QED BY <3>1, <3>2
  <2> QED BY <2>1
<1>10. shown = step(shown)
  BY <1>9
<1>11. buildManagementOrgTree = shown[Cardinality(Codes)]
  BY DEF buildManagementOrgTree, Copied
<1> HIDE DEF shown
<1>12. \A n \in Nat : shown[n] = w[n]
  <2> DEFINE B == {n \in Nat : shown[n] # w[n]}
  <2> SUFFICES ASSUME B # {} PROVE FALSE
    OBVIOUS
  <2>1. PICK n \in B : \A k \in B : n <= k
    BY LeastOf
  <2>2. /\ shown[n] = IF n = 0 THEN TreeRoots
                      ELSE shown[n-1] \cup UNION {Copied(u) : u \in shown[n-1]}
        /\ w[n] = IF n = 0 THEN TreeRoots
                  ELSE w[n-1] \cup UNION {Copied(u) : u \in w[n-1]}
    BY <1>9, <1>10
  <2>3. n # 0 => n - 1 \in Nat /\ n - 1 \notin B
    BY <2>1
  <2> HIDE DEF w
  <2>4. n # 0 => shown[n-1] = w[n-1]
    BY <2>3
  <2> QED BY <2>1, <2>2, <2>4
<1>13. Cardinality(Codes) \in Nat /\ (Cardinality(Codes) = 0 => Codes = {})
  BY FS_CardinalityType, FS_EmptySet
<1>14. w[Cardinality(Codes)] = two
  <2>1. Codes = {} => TreeRoots = {} /\ two = {}
    BY <1>1, <1>2, <1>6
  <2> QED BY <1>13, <2>1
<1> QED BY <1>11, <1>12, <1>13, <1>14 DEF two

(* What the page shows in place of the complete tree that its comment      *)
(* promises: unless torn, the departments of the first two levels and only *)
(* these, however deep the tree grows (buildManagementOrgTree).            *)
THEOREM PageShowsTwoLevels ==
    ASSUME IsFiniteSet(Codes)
    PROVE  Spec => []TreeShowsTwoLevels
<1>1. OrgInv => TreeShowsTwoLevels
  BY TwoLevelsShown DEF TreeShowsTwoLevels
<1> QED BY <1>1, OrgInvariant, PTL

=============================================================================
