------------------------------ MODULE FileKeys_proofs ------------------------------
(* Theorems about FileKeys, for any members, keys, runs, file, edits of it *)
(* and chunk size.                                                         *)
EXTENDS FileKeys, FiniteSetTheorems, SequenceTheorems, WellFoundedInduction, TLAPS

(***************************************************************************)
(* Induction over the natural numbers, in first-order form.                *)
(***************************************************************************)
LEMMA LeastOf ==
    ASSUME NEW T \in SUBSET Nat, T # {}
    PROVE  \E x \in T : \A y \in T : x <= y
<1> DEFINE R == OpToRel(<, Nat)
<1>1. IsWellFoundedOn(R, Nat)
  BY NatLessThanWellFounded
<1>2. \A x, y \in Nat : x < y => <<x, y>> \in R
  BY DEF OpToRel
<1> HIDE DEF R
<1>3. PICK x \in T : \A y \in T : <<y, x>> \notin R
  BY <1>1, WFMin
<1>4. \A y \in T : ~(y < x)
  BY <1>2, <1>3
<1>5. \A y \in T : x \in Nat /\ y \in Nat
  OBVIOUS
<1> QED BY <1>4, <1>5

(* A set of numbers with 0 or 1 that goes on up to n has n. *)
LEMMA Upwards ==
    ASSUME NEW n \in Nat, NEW a \in 0..n, NEW S, a \in S,
           \A i \in a..n : i + 1 <= n /\ i \in S => i + 1 \in S
    PROVE  \A i \in a..n : i \in S
<1> DEFINE B == {i \in a..n : i \notin S}
<1> SUFFICES ASSUME B # {} PROVE FALSE
  OBVIOUS
<1>1. B \in SUBSET Nat
  OBVIOUS
<1>2. PICK i \in B : \A j \in B : i <= j
  BY <1>1, LeastOf
<1>3. i # a /\ i - 1 \in a..n /\ i - 1 \notin B
  BY <1>2
<1>4. i - 1 \in S /\ (i - 1) + 1 = i
  BY <1>3
<1> QED BY <1>2, <1>3, <1>4

-----------------------------------------------------------------------------
(***************************************************************************)
(* Chunks.  Upto(size, n) bytes of a file are in its first n chunks.       *)
(***************************************************************************)
Upto(size, n) == IF n * ChunkSize < size THEN n * ChunkSize ELSE size

(* So many chunks cover the content, and one less does not.                *)
LEMMA ChunkCountIs ==
    ASSUME NEW size \in Nat
    PROVE  /\ ChunkCount(size) \in Nat
           /\ size > 0 => ChunkCount(size) > 0 /\ (ChunkCount(size) - 1) * ChunkSize < size
           /\ size <= ChunkCount(size) * ChunkSize
<1> DEFINE c == ChunkSize
           x == size + c - 1
           q == x \div c
<1>1. c \in Nat \ {0} /\ x \in Nat
  BY ChunkSizeAssumption
<1>2. q \in Nat /\ q * c <= x /\ x < (q + 1) * c
  <2> HIDE DEF x, c
  <2> QED BY <1>1
<1> HIDE DEF q
<1>3. (q + 1) * c = q * c + c /\ (q - 1) * c = q * c - c
  <2> HIDE DEF c
  <2> QED BY <1>1, <1>2
<1>4. q * c <= size + c - 1 /\ size + c - 1 < q * c + c /\ size \in Nat
  BY <1>2, <1>3
<1>5. q = 0 => q * c = 0
  BY <1>1
<1> DEFINE m == q * c
<1>6. m \in Int /\ c \in Nat \ {0}
  BY <1>1, <1>2
<1> HIDE DEF m, c
<1>7. size <= m /\ m - c < size /\ (size > 0 => q # 0)
  BY <1>4, <1>5, <1>6 DEF m
<1> QED BY <1>2, <1>3, <1>7 DEF ChunkCount, m, c, q, x

(* Every chunk starts where the one before ends, is not empty, and is at   *)
(* most ChunkSize bytes long.                                              *)
LEMMA UptoIs ==
    ASSUME NEW size \in Nat, NEW i \in Nat, i < ChunkCount(size)
    PROVE  /\ Upto(size, i) = i * ChunkSize
           /\ Upto(size, i) \in Nat /\ Upto(size, i + 1) \in Nat
           /\ Upto(size, i) < Upto(size, i + 1)
           /\ Upto(size, i + 1) <= size
           /\ Upto(size, i + 1) <= Upto(size, i) + ChunkSize
           /\ Upto(size, i + 1) = IF i * ChunkSize + ChunkSize < size
                                  THEN i * ChunkSize + ChunkSize ELSE size
<1> DEFINE c == ChunkSize
           n == ChunkCount(size)
           m == i * c
           l == (n - 1) * c
<1>1. c \in Nat \ {0} /\ n \in Nat /\ i <= n - 1 /\ size \in Nat
  BY ChunkSizeAssumption, ChunkCountIs
<1>2. l < size
  <2>1. n > 0
    BY <1>1
  <2>2. size # 0
    <3> SUFFICES ASSUME size = 0 PROVE FALSE
      OBVIOUS
    <3>1. c - 1 < c /\ c - 1 \in Nat /\ (0 + c) - 1 = c - 1
      BY <1>1
    <3>2. (c - 1) \div c = 0
      <4> HIDE DEF c
      <4> QED BY <1>1
    <3>3. n = 0
      BY <3>1, <3>2 DEF ChunkCount
    <3> QED BY <2>1, <3>3
  <2> QED BY <2>2, ChunkCountIs
<1>3. m <= l /\ m \in Nat /\ (i + 1) * c = m + c
  <2> HIDE DEF n, c
  <2> QED BY <1>1
<1> HIDE DEF m, l, c, n
<1>4. l \in Int
  BY <1>1 DEF l
<1> DEFINE a == Upto(size, i)
           b == Upto(size, i + 1)
<1>5. /\ a = IF m < size THEN m ELSE size
      /\ b = IF m + c < size THEN m + c ELSE size
  BY <1>3 DEF Upto, m, c
<1> HIDE DEF a, b
<1>6. a = m /\ a \in Nat /\ b \in Nat /\ a < b /\ b <= size /\ b <= a + c
  BY <1>1, <1>2, <1>3, <1>4, <1>5
<1> QED BY <1>5, <1>6 DEF a, b, m, c

(* The chunks start at the first byte and end at the last.                 *)
LEMMA UptoEnds ==
    ASSUME NEW size \in Nat
    PROVE  Upto(size, 0) = 0 /\ Upto(size, ChunkCount(size)) = size
<1>1. 0 * ChunkSize = 0
  BY ChunkSizeAssumption
<1>2. ~(ChunkCount(size) * ChunkSize < size)
  <2> DEFINE m == ChunkCount(size) * ChunkSize
  <2>1. size <= m /\ m \in Nat
    BY ChunkCountIs, ChunkSizeAssumption
  <2> HIDE DEF m
  <2> QED BY <2>1 DEF m
<1> QED BY <1>1, <1>2 DEF Upto

(* A chunk is a run of the bytes, not empty and no longer than ChunkSize.  *)
LEMMA ChunkIs ==
    ASSUME NEW B, NEW bytes \in Seq(B), NEW i \in Nat, i < ChunkCount(Len(bytes))
    PROVE  /\ ChunkOf(bytes, i) = SubSeq(bytes, Upto(Len(bytes), i) + 1, Upto(Len(bytes), i + 1))
           /\ ChunkOf(bytes, i) \in Seq(B)
           /\ Len(ChunkOf(bytes, i)) = Upto(Len(bytes), i + 1) - Upto(Len(bytes), i)
           /\ Len(ChunkOf(bytes, i)) \in 1..ChunkSize
<1> DEFINE size == Len(bytes)
           a == Upto(size, i)
           b == Upto(size, i + 1)
<1>1. /\ a = i * ChunkSize /\ a \in Nat /\ b \in Nat /\ a < b /\ b <= size
      /\ b <= a + ChunkSize
      /\ b = IF i * ChunkSize + ChunkSize < size THEN i * ChunkSize + ChunkSize ELSE size
  BY UptoIs
<1> HIDE DEF a, b
<1>2. ChunkOf(bytes, i) = SubSeq(bytes, a + 1, b)
  BY <1>1 DEF ChunkOf
<1>3. SubSeq(bytes, a + 1, b) \in Seq(B) /\ Len(SubSeq(bytes, a + 1, b)) = b - a
  BY <1>1
<1>4. b - a \in 1..ChunkSize
  BY <1>1, ChunkSizeAssumption
<1> QED BY <1>2, <1>3, <1>4 DEF a, b

(* A beginning and what follows it are one beginning.                      *)
LEMMA PartsJoin ==
    ASSUME NEW B, NEW s \in Seq(B), NEW m \in Nat, NEW k \in Nat, m <= k, k <= Len(s)
    PROVE  SubSeq(s, 1, m) \o SubSeq(s, m + 1, k) = SubSeq(s, 1, k)
<1> DEFINE x == SubSeq(s, 1, m)
           y == SubSeq(s, m + 1, k)
           z == SubSeq(s, 1, k)
<1>1. /\ x \in Seq(B) /\ Len(x) = m /\ \A i \in 1..m : x[i] = s[i]
      /\ y \in Seq(B) /\ Len(y) = k - m /\ \A i \in 1..(k - m) : y[i] = s[i + m]
      /\ z \in Seq(B) /\ Len(z) = k /\ \A i \in 1..k : z[i] = s[i]
  OBVIOUS
<1> HIDE DEF x, y, z
<1> DEFINE w == x \o y
<1>2. /\ w \in Seq(B) /\ Len(w) = Len(x) + Len(y)
      /\ \A i \in 1..(Len(x) + Len(y)) : w[i] = IF i <= Len(x) THEN x[i] ELSE y[i - Len(x)]
  <2>1. x \in Seq(B) /\ y \in Seq(B)
    BY <1>1
  <2> QED BY <2>1, ConcatProperties
<1> HIDE DEF w
<1>3. Len(w) = k
  BY <1>1, <1>2
<1>4. ASSUME NEW i \in 1..k PROVE w[i] = z[i]
  <2>1. CASE i <= m
    BY <1>1, <1>2, <2>1
  <2>2. CASE i > m
    <3>1. w[i] = y[i - m] /\ i - m \in 1..(k - m) /\ (i - m) + m = i
      BY <1>1, <1>2, <2>2
    <3> QED BY <1>1, <3>1
  <2> QED BY <2>1, <2>2
<1>5. w = z
  BY <1>1, <1>2, <1>3, <1>4, SeqEqual
<1> QED BY <1>5 DEF w, x, y, z

(* The chunks of a file, one after the other, are the file. *)
LEMMA FlattenIs ==
    ASSUME NEW B, NEW bytes \in Seq(B), Len(bytes) > 0,
           NEW parts, parts = [i \in 1..ChunkCount(Len(bytes)) |-> ChunkOf(bytes, i - 1)]
    PROVE  FlattenSeq(parts) = bytes
<1> DEFINE size == Len(bytes)
           n == ChunkCount(size)
           step(g) == [i \in 1..n |-> IF i = 1 THEN parts[i] ELSE g[i-1] \o parts[i]]
           w == [i \in 1..n |-> SubSeq(bytes, 1, Upto(size, i))]
           flatten == CHOOSE g : g = step(g)
<1>0. size \in Nat /\ n \in Nat /\ n > 0
  BY ChunkCountIs
<1>1. Len(parts) = n
  BY <1>0
<1>2. ASSUME NEW i \in 1..n
      PROVE  parts[i] = SubSeq(bytes, Upto(size, i - 1) + 1, Upto(size, i))
  <2>1. i - 1 \in Nat /\ i - 1 < n /\ (i - 1) + 1 = i
    BY <1>0
  <2>2. ChunkOf(bytes, i - 1) = SubSeq(bytes, Upto(size, i - 1) + 1, Upto(size, (i - 1) + 1))
    BY <2>1, ChunkIs
  <2> QED BY <2>1, <2>2
<1>3. \A i \in 1..n : w[i] = IF i = 1 THEN parts[i] ELSE w[i-1] \o parts[i]
  <2> SUFFICES ASSUME NEW i \in 1..n
               PROVE  w[i] = IF i = 1 THEN parts[i] ELSE w[i-1] \o parts[i]
    OBVIOUS
  <2>1. i - 1 \in Nat /\ i - 1 < n /\ (i - 1) + 1 = i
    BY <1>0
  <2>2. /\ Upto(size, i - 1) \in Nat /\ Upto(size, i) \in Nat
        /\ Upto(size, i - 1) <= Upto(size, i) /\ Upto(size, i) <= size
    <3>1. /\ Upto(size, i - 1) \in Nat /\ Upto(size, (i - 1) + 1) \in Nat
          /\ Upto(size, i - 1) < Upto(size, (i - 1) + 1) /\ Upto(size, (i - 1) + 1) <= size
      BY <1>0, <2>1, UptoIs
    <3> QED BY <2>1, <3>1
  <2>3. CASE i = 1
    <3>1. Upto(size, i - 1) = 0
      BY <1>0, <2>3, UptoEnds
    <3>2. parts[i] = SubSeq(bytes, 0 + 1, Upto(size, i))
      BY <1>2, <3>1
    <3>3. w[i] = SubSeq(bytes, 1, Upto(size, i))
      OBVIOUS
    <3>4. 0 + 1 = 1
      OBVIOUS
    <3> HIDE DEF size, n, w
    <3> DEFINE u == Upto(size, i)
    <3> HIDE DEF u
    <3>5. w[i] = parts[i]
      BY <3>2, <3>3, <3>4 DEF u
    <3> QED BY <2>3, <3>5
  <2>4. CASE i # 1
    <3> DEFINE a == Upto(size, i - 1)
               b == Upto(size, i)
    <3>1. w[i] = SubSeq(bytes, 1, b) /\ w[i-1] = SubSeq(bytes, 1, a)
      <4>1. i \in 1..n /\ i - 1 \in 1..n
        BY <1>0, <2>1, <2>4
      <4>2. w[i] = SubSeq(bytes, 1, Upto(size, i))
        BY <4>1, Zenon
      <4>3. w[i-1] = SubSeq(bytes, 1, Upto(size, i - 1))
        BY <4>1, Zenon
      <4> QED BY <4>2, <4>3
    <3>2. parts[i] = SubSeq(bytes, a + 1, b)
      BY <1>2
    <3> HIDE DEF a, b, w
    <3>3. a \in Nat /\ b \in Nat /\ a <= b /\ b <= Len(bytes)
      BY <2>2 DEF a, b
    <3>4. SubSeq(bytes, 1, a) \o SubSeq(bytes, a + 1, b) = SubSeq(bytes, 1, b)
      BY <3>3, PartsJoin
    <3> DEFINE joined == w[i-1] \o parts[i]
    <3>5. w[i] = joined
      BY <3>1, <3>2, <3>4, Zenon
    <3> HIDE DEF joined
    <3>6. w[i] = IF i = 1 THEN parts[i] ELSE joined
      BY <2>4, <3>5
    <3> QED BY <3>6 DEF joined
  <2> QED BY <2>3, <2>4
<1> HIDE DEF n
<1>4. w = step(w)
  BY <1>3
<1>5. flatten = step(flatten)
  BY <1>4
<1>6. FlattenSeq(parts) = flatten[n]
  <2>1. n # 0
    BY <1>0
  <2>2. FlattenSeq(parts) = (CHOOSE g : g = [i \in 1..Len(parts) |->
                               IF i = 1 THEN parts[i] ELSE g[i-1] \o parts[i]])[Len(parts)]
    BY <1>1, <2>1, Zenon DEF FlattenSeq
  <2> QED BY <1>1, <2>2
<1> HIDE DEF flatten
<1>7. \A i \in 1..n : flatten[i] = IF i = 1 THEN parts[i] ELSE flatten[i-1] \o parts[i]
  BY <1>5
<1> DEFINE S == {i \in 1..n : flatten[i] = w[i]}
<1>8. \A i \in 1..n : i \in S
  <2>1. 1 \in S
    <3>1. 1 \in 1..n
      BY <1>0
    <3> HIDE DEF w
    <3>2. flatten[1] = parts[1] /\ w[1] = parts[1]
      BY <1>3, <1>7, <3>1
    <3> QED BY <3>1, <3>2
  <2>2. ASSUME NEW i \in 1..n, i + 1 <= n, i \in S PROVE i + 1 \in S
    <3>1. i + 1 \in 1..n /\ i + 1 # 1 /\ (i + 1) - 1 = i
      BY <1>0, <2>2
    <3> HIDE DEF w
    <3>2. flatten[i+1] = flatten[i] \o parts[i+1] /\ w[i+1] = w[i] \o parts[i+1]
      BY <1>3, <1>7, <3>1
    <3> QED BY <2>2, <3>1, <3>2
  <2> HIDE DEF S
  <2>3. 1 \in 0..n
    BY <1>0
  <2> QED BY <1>0, <2>1, <2>2, <2>3, Upwards
<1>9. flatten[n] = SubSeq(bytes, 1, Upto(size, n))
  BY <1>0, <1>8
<1>10. Upto(size, n) = size
  BY <1>0, UptoEnds DEF n
<1>11. SubSeq(bytes, 1, Len(bytes)) = bytes
  BY SeqEqual
<1> QED BY <1>6, <1>9, <1>10, <1>11

(* The lengths of the chunks add up. *)
LEMMA ProcessedIs ==
    ASSUME NEW size \in Nat, NEW container,
           DOMAIN container.chunks = 1..ChunkCount(size),
           Len(container.chunks) = ChunkCount(size),
           \A i \in 1..ChunkCount(size) :
              container.chunks[i].length = Upto(size, i) - Upto(size, i - 1)
    PROVE  \A i \in 0..ChunkCount(size) : Processed(container, i) = Upto(size, i)
<1> DEFINE n == ChunkCount(size)
           cs == container.chunks
           step(g) == [i \in 0..n |-> IF i = 0 THEN 0 ELSE g[i-1] + cs[i].length]
           w == [i \in 0..n |-> Upto(size, i)]
           processed == CHOOSE g : g = step(g)
<1>0. n \in Nat
  BY ChunkCountIs
<1>1. \A i \in 0..n : Upto(size, i) \in Nat
  BY <1>0, ChunkSizeAssumption DEF Upto
<1>2. Upto(size, 0) = 0
  BY UptoEnds
<1> HIDE DEF n, cs
<1>3. \A i \in 0..n : w[i] = IF i = 0 THEN 0 ELSE w[i-1] + cs[i].length
  <2> SUFFICES ASSUME NEW i \in 0..n
               PROVE  w[i] = IF i = 0 THEN 0 ELSE w[i-1] + cs[i].length
    OBVIOUS
  <2>1. CASE i = 0
    BY <1>2, <2>1
  <2>2. CASE i # 0
    <3>1. i \in 1..n /\ i - 1 \in 0..n
      BY <1>0, <2>2
    <3>2. cs[i].length = Upto(size, i) - Upto(size, i - 1)
      BY <3>1 DEF n, cs
    <3>3. Upto(size, i) \in Nat /\ Upto(size, i - 1) \in Nat
      BY <1>1, <3>1
    <3> QED BY <2>2, <3>1, <3>2, <3>3
  <2> QED BY <2>1, <2>2
<1>4. w = step(w)
  BY <1>3
<1>5. processed = step(processed)
  BY <1>4
<1>6. \A i : Processed(container, i) = processed[i]
  BY Zenon DEF Processed, n, cs
<1> HIDE DEF processed
<1>7. \A i \in 0..n : processed[i] = IF i = 0 THEN 0 ELSE processed[i-1] + cs[i].length
  BY <1>5
<1> DEFINE S == {i \in 0..n : processed[i] = w[i]}
<1>8. \A i \in 0..n : i \in S
  <2>1. 0 \in S
    <3>1. 0 \in 0..n
      BY <1>0
    <3> HIDE DEF w
    <3>2. processed[0] = 0 /\ w[0] = 0
      BY <1>3, <1>7, <3>1
    <3> QED BY <3>1, <3>2
  <2>2. ASSUME NEW i \in 0..n, i + 1 <= n, i \in S PROVE i + 1 \in S
    <3>1. i + 1 \in 0..n /\ i + 1 # 0 /\ (i + 1) - 1 = i
      BY <1>0, <2>2
    <3> HIDE DEF w
    <3>2. /\ processed[i+1] = processed[i] + cs[i+1].length
          /\ w[i+1] = w[i] + cs[i+1].length
      BY <1>3, <1>7, <3>1
    <3> QED BY <2>2, <3>1, <3>2
  <2> HIDE DEF S
  <2>3. 0 \in 0..n
    BY <1>0
  <2> QED BY <1>0, <2>1, <2>2, <2>3, Upwards
<1> QED BY <1>6, <1>8 DEF n

-----------------------------------------------------------------------------
(***************************************************************************)
(* The inductive invariant.                                                *)
(***************************************************************************)
IsSeq(s) == s \in Seq(Range(s))

(* The rows of keys: a row stays its member's, and versions go up.         *)
KeyRowsOK ==
  /\ DOMAIN rsaKeys = Keys
  /\ IsFiniteSet(Registered)
  /\ \A k \in Registered :
       /\ rsaKeys[k] = [user |-> rsaKeys[k].user, status |-> rsaKeys[k].status,
                        version |-> rsaKeys[k].version]
       /\ rsaKeys[k].user \in Members /\ rsaKeys[k].status \in KeyStatuses
  /\ active \subseteq Members
  /\ directory \subseteq Recipients

KeysOf(user) == {k \in Registered : rsaKeys[k].user = user}

VersionsOK ==
  /\ \A k \in Registered : rsaKeys[k].version \in 1 .. Cardinality(KeysOf(rsaKeys[k].user))
  /\ \A k, q \in Registered :
       rsaKeys[k].user = rsaKeys[q].user /\ rsaKeys[k].version = rsaKeys[q].version => k = q

SourceOK ==
  source.bytes \in Seq(Bytes) /\ source.mtime \in Nat

(* The task, once created, has an owner among its recipients; what it froze *)
(* of them is what the rows of their keys say.                              *)
TaskOK ==
  task # NoTask =>
    /\ task = [status |-> task.status, attempt |-> task.attempt, size |-> task.size,
               type |-> task.type, recipients |-> task.recipients]
    /\ task.status \in {"OPEN", "FAILED", "COMPLETED"}
    /\ task.attempt \in 1 .. MaxAttempts
    /\ task.size \in Nat \ {0}
    /\ IsFiniteSet(task.recipients)
    /\ task.type # "RSA_RECIPIENTS" => \E q \in task.recipients : task.recipients = {q}
    /\ \E q \in task.recipients : q.user = Owner

FrozenOK ==
  \A q \in task.recipients :
    /\ q.key \in Registered
    /\ q.user = rsaKeys[q.key].user /\ q.version = rsaKeys[q.key].version

(* The container of a run that read plain to the end.                      *)
Exact(r, attempt, plain) ==
  [header |-> Header(r, attempt, Len(plain)),
   chunks |-> [i \in 1 .. ChunkCount(Len(plain)) |->
                 SealedChunk(r, Header(r, attempt, Len(plain)), i - 1, ChunkOf(plain, i - 1))]]

PlainOK(r) ==
  runs[r].plain \in Seq(Bytes) /\ Len(runs[r].plain) = task.size

Whole(r) ==
  /\ PlainOK(r)
  /\ ContainerOf(r) = Exact(r, runs[r].attempt, runs[r].plain)

(* A run that still reads: its data key is its own, and as long as nobody  *)
(* wrote to the source its chunks are those of the file it opened.         *)
Reading(r) ==
  /\ PlainOK(r)
  /\ runs[r].header = Header(r, runs[r].attempt, task.size)
  /\ IsSeq(runs[r].chunks)
  /\ Len(runs[r].chunks) <= ChunkCount(task.size)
  /\ \A i \in DOMAIN runs[r].chunks : runs[r].chunks[i].sealed.dek = r
  /\ runs[r].mtime \in Nat /\ runs[r].mtime <= source.mtime
  /\ runs[r].mtime = source.mtime =>
       /\ source.bytes = runs[r].plain
       /\ \A i \in DOMAIN runs[r].chunks :
            runs[r].chunks[i] = Exact(r, runs[r].attempt, runs[r].plain).chunks[i]

Uploaded(r) ==
  \E i \in DOMAIN objects :
    objects[i].attempt = runs[r].attempt /\ objects[i].uploaded = ContainerOf(r)

RunOK(r) ==
  /\ runs[r] = [pc |-> runs[r].pc, recipients |-> runs[r].recipients,
                attempt |-> runs[r].attempt, plain |-> runs[r].plain,
                mtime |-> runs[r].mtime, header |-> runs[r].header,
                chunks |-> runs[r].chunks]
  /\ runs[r].pc \in {"idle", "open", "seal", "upload", "complete", "ended"}
  /\ task = NoTask => runs[r] = NoRun
  /\ runs[r].pc \in {"idle", "open"} => runs[r].chunks = <<>>
  /\ runs[r].pc = "seal" => Reading(r)
  /\ runs[r].pc \in {"upload", "complete"} => Whole(r)
  /\ runs[r].pc = "ended" => runs[r].chunks = <<>> \/ Whole(r)
  /\ runs[r].pc \notin {"idle", "ended"} => runs[r].attempt \in 1 .. task.attempt
  /\ runs[r].pc = "complete" => Uploaded(r)

RunsOK == DOMAIN runs = Runs /\ \A r \in Runs : RunOK(r)

(* An attempt has one object, and its bytes are the uploaded ones until    *)
(* there is a file.                                                        *)
ObjectsOK ==
  /\ IsSeq(objects)
  /\ \A i \in DOMAIN objects :
       /\ objects[i] = [attempt |-> objects[i].attempt, status |-> objects[i].status,
                        uploaded |-> objects[i].uploaded, stored |-> objects[i].stored]
       /\ objects[i].attempt \in 1 .. task.attempt
       /\ file.status # "AVAILABLE" => objects[i].stored = objects[i].uploaded
  /\ \A i, j \in DOMAIN objects : objects[i].attempt = objects[j].attempt => i = j

(* Whatever a disk makes of the container of r: what is left of the chunks *)
(* with the key of r is some of its chunks.                                *)
Pieces(r, container) ==
  /\ IsSeq(container.chunks)
  /\ \A i \in DOMAIN container.chunks :
       LET sealed == container.chunks[i].sealed
       IN sealed.dek = r /\ sealed.aad # <<>> =>
            \E j \in DOMAIN runs[r].chunks : sealed = runs[r].chunks[j].sealed

EnvelopesOK(r) ==
  /\ \A e \in file.envelopes :
       /\ e.context = runs[r].header
       /\ e.protected = Protect(r, e.recipient.key, runs[r].header)
       /\ \E q \in task.recipients : q.user = e.recipient.user /\ q.key = e.recipient.key
  /\ \A q \in task.recipients : \E e \in file.envelopes :
       q.user = e.recipient.user /\ q.key = e.recipient.key

CompletedBy(r) ==
  /\ runs[r].pc = "ended" /\ Whole(r)
  /\ file.object \in DOMAIN objects
  /\ objects[file.object].status = "AVAILABLE"
  /\ objects[file.object].uploaded = ContainerOf(r)
  /\ Pieces(r, objects[file.object].stored)
  /\ EnvelopesOK(r)
  /\ \A k \in Keys : opened[k] \in {<<>>, runs[r].plain}

FileOK ==
  /\ DOMAIN opened = Keys
  /\ file.status # "AVAILABLE" => \A k \in Keys : opened[k] = <<>>
  /\ file.status = "AVAILABLE" => task.status = "COMPLETED" /\ \E r \in Runs : CompletedBy(r)

FInv ==
  /\ KeyRowsOK /\ VersionsOK /\ SourceOK
  /\ TaskOK /\ FrozenOK
  /\ RunsOK /\ ObjectsOK /\ FileOK

(***************************************************************************)
(* Sequences of any elements.                                              *)
(***************************************************************************)
LEMMA SeqIs ==
    ASSUME NEW s, IsSeq(s)
    PROVE  /\ Len(s) \in Nat /\ DOMAIN s = 1..Len(s)
           /\ \A i \in 1..Len(s) : s[i] \in Range(s)
<1>1. s \in Seq(Range(s))
  BY DEF IsSeq
<1> QED BY <1>1

(* A function on 1..n is a list of n.                                      *)
LEMMA SeqMade ==
    ASSUME NEW n \in Nat, NEW s, s = [i \in 1..n |-> s[i]]
    PROVE  IsSeq(s) /\ Len(s) = n
<1>1. \A i \in 1..n : s[i] \in Range(s)
  BY DEF Range
<1> DEFINE B == Range(s)
<1> HIDE DEF B
<1>2. s \in [1..n -> B]
  BY <1>1 DEF B
<1>3. s \in Seq(B)
  BY <1>2
<1>4. Len(s) = n
  BY <1>2, <1>3
<1> QED BY <1>3, <1>4 DEF IsSeq, B

(* A list over a set is a list over what it holds.                         *)
LEMMA SeqTyped ==
    ASSUME NEW B, NEW s \in Seq(B)
    PROVE  IsSeq(s)
<1>1. Len(s) \in Nat /\ s = [i \in 1..Len(s) |-> s[i]]
  OBVIOUS
<1> QED BY <1>1, SeqMade

(* A list with one element more.                                           *)
LEMMA SeqAppended ==
    ASSUME NEW s, IsSeq(s), NEW e
    PROVE  /\ IsSeq(Append(s, e)) /\ Len(Append(s, e)) = Len(s) + 1
           /\ Append(s, e)[Len(s) + 1] = e
           /\ \A i \in 1..Len(s) : Append(s, e)[i] = s[i]
<1> DEFINE B == Range(s) \cup {e}
           t == Append(s, e)
<1>1. s \in Seq(Range(s))
  BY DEF IsSeq
<1>2. s \in Seq(B) /\ e \in B
  BY <1>1, SeqIs
<1> HIDE DEF B
<1>3. /\ t \in Seq(B) /\ Len(t) = Len(s) + 1 /\ t[Len(t)] = e
      /\ \A i \in 1..Len(s) : t[i] = s[i]
  BY <1>2, AppendProperties
<1>4. IsSeq(t)
  BY <1>3, SeqTyped
<1> QED BY <1>3, <1>4

(* A list without its last element.                                        *)
LEMMA FrontIs ==
    ASSUME NEW s, IsSeq(s), Len(s) > 0, NEW t, t = Front(s)
    PROVE  /\ IsSeq(t) /\ Len(t) = Len(s) - 1
           /\ \A i \in 1..Len(t) : t[i] = s[i]
<1>1. s \in Seq(Range(s)) /\ Len(s) \in Nat
  BY SeqIs DEF IsSeq
<1> DEFINE n == Len(s) - 1
<1>2. t = SubSeq(s, 1, n)
  BY DEF Front
<1>3. n \in Nat /\ n <= Len(s)
  BY <1>1
<1> HIDE DEF n
<1>4. Len(t) = n /\ \A i \in 1..n : t[i] = s[i]
  BY <1>1, <1>2, <1>3
<1>5. t = [i \in 1..n |-> t[i]]
  BY <1>1, <1>2, <1>3
<1>6. IsSeq(t)
  BY <1>3, <1>5, SeqMade
<1> QED BY <1>4, <1>6 DEF n

(***************************************************************************)
(* The container of a whole file.                                          *)
(***************************************************************************)
LEMMA ExactIs ==
    ASSUME NEW plain \in Seq(Bytes), Len(plain) > 0, NEW r, NEW attempt,
           NEW c, c = Exact(r, attempt, plain)
    PROVE  /\ c.header = Header(r, attempt, Len(plain))
           /\ c.header.chunkCount = ChunkCount(Len(plain)) /\ c.header.size = Len(plain)
           /\ c.header.noncePrefix = r
           /\ IsSeq(c.chunks) /\ Len(c.chunks) = ChunkCount(Len(plain))
           /\ Len(c.chunks) > 0
           /\ \A i \in 1..ChunkCount(Len(plain)) :
                /\ c.chunks[i] = SealedChunk(r, c.header, i - 1, ChunkOf(plain, i - 1))
                /\ c.chunks[i].index = i - 1
                /\ c.chunks[i].length = Len(ChunkOf(plain, i - 1))
                /\ c.chunks[i].sealed.dek = r
                /\ c.chunks[i].sealed.nonce = <<r, i - 1>>
                /\ c.chunks[i].sealed.plain = ChunkOf(plain, i - 1)
                /\ c.chunks[i].sealed.aad =
                     ChunkAAD(c.header, i - 1, Len(ChunkOf(plain, i - 1)))
                /\ c.chunks[i].sealed.aad # <<>>
<1> DEFINE size == Len(plain)
           n == ChunkCount(size)
           h == Header(r, attempt, size)
<1>1. size \in Nat /\ n \in Nat /\ n > 0
  BY ChunkCountIs
<1>2. h.chunkCount = n /\ h.size = size /\ h.noncePrefix = r
  BY DEF Header
<1>3. c.header = h /\ c.chunks = [i \in 1..n |-> SealedChunk(r, h, i - 1, ChunkOf(plain, i - 1))]
  BY DEF Exact
<1> HIDE DEF h, n
<1>4. IsSeq(c.chunks) /\ Len(c.chunks) = n
  <2> DEFINE s == c.chunks
  <2>1. s = [i \in 1..n |-> s[i]]
    BY <1>3
  <2> HIDE DEF s
  <2>2. IsSeq(s) /\ Len(s) = n
    BY <1>1, <2>1, SeqMade
  <2> QED BY <2>2 DEF s
<1>5. ASSUME NEW i \in 1..n
      PROVE  /\ c.chunks[i] = SealedChunk(r, c.header, i - 1, ChunkOf(plain, i - 1))
             /\ c.chunks[i].index = i - 1
             /\ c.chunks[i].length = Len(ChunkOf(plain, i - 1))
             /\ c.chunks[i].sealed.dek = r
             /\ c.chunks[i].sealed.nonce = <<r, i - 1>>
             /\ c.chunks[i].sealed.plain = ChunkOf(plain, i - 1)
             /\ c.chunks[i].sealed.aad = ChunkAAD(c.header, i - 1, Len(ChunkOf(plain, i - 1)))
             /\ c.chunks[i].sealed.aad # <<>>
  <2> DEFINE p == ChunkOf(plain, i - 1)
             l == Len(p)
             d == ChunkAAD(h, i - 1, l)
             s == Seal(r, ChunkNonce(h.noncePrefix, i - 1), p, d)
  <2>1. c.chunks[i] = SealedChunk(r, h, i - 1, p)
    BY <1>3
  <2>2. SealedChunk(r, h, i - 1, p) = [index |-> i - 1, length |-> l, sealed |-> s]
    BY DEF SealedChunk
  <2>3. d # <<>>
    <3>1. d = <<h, i - 1, h.chunkCount, l>>
      BY DEF ChunkAAD
    <3> HIDE DEF d, p, l
    <3> QED BY <3>1
  <2>4. ChunkNonce(h.noncePrefix, i - 1) = <<r, i - 1>>
    BY <1>2 DEF ChunkNonce
  <2> HIDE DEF p, l, d
  <2>5. s.dek = r /\ s.nonce = <<r, i - 1>> /\ s.plain = p /\ s.aad = d
    BY <2>4 DEF Seal
  <2> HIDE DEF s
  <2>6. /\ c.chunks[i] = SealedChunk(r, h, i - 1, p)
        /\ c.chunks[i].index = i - 1 /\ c.chunks[i].length = l /\ c.chunks[i].sealed = s
    BY <2>1, <2>2
  <2> QED BY <1>3, <2>3, <2>5, <2>6 DEF p, l, d
<1> QED BY <1>1, <1>2, <1>3, <1>4, <1>5 DEF h, n

(* It opens with an envelope of its run that is made for its header.       *)
LEMMA ExactOpens ==
    ASSUME NEW plain \in Seq(Bytes), Len(plain) > 0, NEW r, NEW attempt,
           NEW c, c = Exact(r, attempt, plain), NEW e, NEW k,
           e.context = c.header, e.protected = Protect(r, k, c.header)
    PROVE  Decrypts(c, e, k)
<1> DEFINE size == Len(plain)
           n == ChunkCount(size)
<1>1. /\ c.header.chunkCount = n /\ c.header.size = size /\ c.header.noncePrefix = r
      /\ IsSeq(c.chunks) /\ Len(c.chunks) = n
      /\ \A i \in 1..n :
           /\ c.chunks[i].index = i - 1
           /\ c.chunks[i].length = Len(ChunkOf(plain, i - 1))
           /\ c.chunks[i].sealed.dek = r
           /\ c.chunks[i].sealed.nonce = <<r, i - 1>>
           /\ c.chunks[i].sealed.plain = ChunkOf(plain, i - 1)
           /\ c.chunks[i].sealed.aad = ChunkAAD(c.header, i - 1, Len(ChunkOf(plain, i - 1)))
  BY ExactIs
<1>2. size \in Nat /\ n \in Nat
  BY ChunkCountIs
<1>3. \A i \in 1..n : /\ c.chunks[i].length = Upto(size, i) - Upto(size, i - 1)
                      /\ c.chunks[i].length \in 1..ChunkSize
                      /\ Upto(size, i) <= size
  <2> SUFFICES ASSUME NEW i \in 1..n
               PROVE  /\ c.chunks[i].length = Upto(size, i) - Upto(size, i - 1)
                      /\ c.chunks[i].length \in 1..ChunkSize
                      /\ Upto(size, i) <= size
    OBVIOUS
  <2>1. i - 1 \in Nat /\ i - 1 < n /\ (i - 1) + 1 = i
    BY <1>2
  <2>2. /\ Len(ChunkOf(plain, i - 1)) = Upto(size, (i - 1) + 1) - Upto(size, i - 1)
        /\ Len(ChunkOf(plain, i - 1)) \in 1..ChunkSize
    BY <2>1, ChunkIs
  <2>3. Upto(size, (i - 1) + 1) <= size
    BY <1>2, <2>1, UptoIs
  <2> QED BY <1>1, <2>1, <2>2, <2>3
<1>4. DOMAIN c.chunks = 1..n
  BY <1>1, SeqIs
<1>5. \A i \in 0..n : Processed(c, i) = Upto(size, i)
  BY <1>1, <1>2, <1>3, <1>4, ProcessedIs
<1>6. Upto(size, n) = size
  BY <1>2, UptoEnds
<1> HIDE DEF n, size
<1>7. e.protected.dek = r /\ Unwraps(e.protected, k, c.header)
  BY DEF Protect, Unwraps
<1>8. ASSUME NEW index \in 0..n-1 PROVE ChunkAccepted(c, r, index)
  <2> DEFINE i == index + 1
             chunk == c.chunks[i]
  <2>1. i \in 1..n /\ i - 1 = index
    BY <1>2
  <2> HIDE DEF i
  <2>2. Processed(c, i) <= c.header.size
    <3>1. Processed(c, i) = Upto(size, i)
      BY <1>2, <1>5, <2>1
    <3> QED BY <1>1, <1>3, <2>1, <3>1
  <2>3. /\ chunk.index = index /\ chunk.length \in 1..ChunkSize
        /\ Len(chunk.sealed.plain) = chunk.length
    BY <1>1, <1>3, <2>1
  <2>4. Opens(chunk.sealed, r, ChunkNonce(c.header.noncePrefix, index),
              ChunkAAD(c.header, index, chunk.length))
    BY <1>1, <2>1 DEF Opens, ChunkNonce
  <2> HIDE DEF chunk
  <2> QED BY <2>2, <2>3, <2>4, Zenon DEF ChunkAccepted, chunk, i
<1>9. n \in 0..n /\ Processed(c, n) = c.header.size
  BY <1>1, <1>2, <1>5, <1>6
<1> QED BY <1>1, <1>7, <1>8, <1>9, Zenon DEF Decrypts

PieceOf(chunks, r, chunk) ==
  chunk.sealed.dek = r /\ chunk.sealed.aad # <<>> =>
    \E j \in DOMAIN chunks : chunk.sealed = chunks[j].sealed

PiecesOf(chunks, r, cs) ==
  IsSeq(cs) /\ \A i \in DOMAIN cs : PieceOf(chunks, r, cs[i])

ExactOf(c, r, plain) ==
  /\ plain \in Seq(Bytes) /\ Len(plain) > 0
  /\ \E attempt : c = Exact(r, attempt, plain)

EnvelopeOf(e, r, header) ==
  e.context = header /\ e.protected.dek = r

(* What opens and has no chunk but those of the run is the file.           *)
LEMMA PiecesOpen ==
    ASSUME NEW c, NEW r, NEW plain, ExactOf(c, r, plain),
           NEW e, EnvelopeOf(e, r, c.header),
           NEW d, PiecesOf(c.chunks, r, d.chunks),
           NEW key, Decrypts(d, e, key)
    PROVE  Plaintext(d) = plain
<1> DEFINE size == Len(plain)
           n == ChunkCount(size)
           parts == [i \in DOMAIN d.chunks |-> d.chunks[i].sealed.plain]
<1>0. /\ plain \in Seq(Bytes) /\ Len(plain) > 0
      /\ \E attempt : c = Exact(r, attempt, plain)
  BY DEF ExactOf
<1>1. /\ c.header.chunkCount = n /\ c.header.noncePrefix = r
      /\ IsSeq(c.chunks) /\ Len(c.chunks) = n
      /\ \A i \in 1..n :
           /\ c.chunks[i].sealed.nonce = <<r, i - 1>>
           /\ c.chunks[i].sealed.plain = ChunkOf(plain, i - 1)
  BY <1>0, ExactIs
<1>2. size \in Nat /\ n \in Nat
  BY <1>0, ChunkCountIs
<1>3. DOMAIN c.chunks = 1..n
  BY <1>1, SeqIs
<1>4. /\ e.protected.dek = r /\ e.context = c.header /\ IsSeq(d.chunks)
      /\ \A i \in DOMAIN d.chunks :
           d.chunks[i].sealed.dek = r /\ d.chunks[i].sealed.aad # <<>> =>
             \E j \in DOMAIN c.chunks : d.chunks[i].sealed = c.chunks[j].sealed
  BY DEF EnvelopeOf, PiecesOf, PieceOf
<1> HIDE DEF n, size
<1>5. /\ d.header = c.header /\ Len(d.chunks) = n
      /\ \A index \in 0..n-1 : ChunkAccepted(d, r, index)
  BY <1>1, <1>4, Zenon DEF Decrypts
<1>6. DOMAIN d.chunks = 1..n
  BY <1>4, <1>5, SeqIs
<1>7. ASSUME NEW i \in 1..n PROVE d.chunks[i].sealed.plain = ChunkOf(plain, i - 1)
  <2> DEFINE index == i - 1
  <2>1. index \in 0..n-1 /\ index + 1 = i
    BY <1>2
  <2> HIDE DEF index
  <2>2. ChunkAccepted(d, r, index)
    BY <1>5, <2>1
  <2>3. Opens(d.chunks[index + 1].sealed, r, ChunkNonce(d.header.noncePrefix, index),
              ChunkAAD(d.header, index, d.chunks[index + 1].length))
    BY <2>2, Zenon DEF ChunkAccepted
  <2> DEFINE sealed == d.chunks[i].sealed
  <2>4. /\ sealed.dek = r /\ sealed.nonce = <<r, index>>
        /\ sealed.aad = <<d.header, index, d.header.chunkCount, d.chunks[i].length>>
    BY <1>1, <1>5, <2>1, <2>3 DEF Opens, ChunkNonce, ChunkAAD
  <2>5. sealed.aad # <<>>
    <3> HIDE DEF sealed
    <3> QED BY <2>4
  <2>6. PICK j \in 1..n : sealed = c.chunks[j].sealed
    BY <1>3, <1>4, <1>6, <2>4, <2>5
  <2>7. <<r, index>> = <<r, j - 1>>
    <3>1. c.chunks[j].sealed.nonce = <<r, j - 1>>
      BY <1>1
    <3>2. sealed.nonce = <<r, index>>
      BY <2>4
    <3> HIDE DEF sealed
    <3> QED BY <2>6, <3>1, <3>2
  <2>8. index = j - 1
    BY <2>7
  <2>9. j = i
    BY <1>2, <2>8 DEF index
  <2> QED BY <1>1, <2>6, <2>9
<1>8. parts = [i \in 1..n |-> ChunkOf(plain, i - 1)]
  BY <1>6, <1>7
<1> HIDE DEF parts
<1>9. FlattenSeq(parts) = plain
  BY <1>0, <1>8, FlattenIs DEF n, size
<1> QED BY <1>9, Zenon DEF Plaintext, parts

(***************************************************************************)
(* Damage: whatever becomes of the container of a run, its pieces are the  *)
(* run's.                                                                  *)
(***************************************************************************)
LEMMA SwappedPieces ==
    ASSUME NEW chunks, IsSeq(chunks), NEW r,
           NEW i \in DOMAIN chunks, NEW j \in DOMAIN chunks
    PROVE  /\ PiecesOf(chunks, r, Swapped(chunks, i, j))
           /\ DOMAIN Swapped(chunks, i, j) = DOMAIN chunks
           /\ \A m \in DOMAIN chunks :
                \E l \in DOMAIN chunks : Swapped(chunks, i, j)[m] = chunks[l]
<1> DEFINE s == Swapped(chunks, i, j)
           n == Len(chunks)
<1>1. n \in Nat /\ DOMAIN chunks = 1..n
  BY SeqIs
<1>2. s = [m \in 1..n |-> IF m = j THEN chunks[i] ELSE IF m = i THEN chunks[j] ELSE chunks[m]]
  BY <1>1 DEF Swapped
<1> HIDE DEF s, n
<1>3. IsSeq(s) /\ Len(s) = n
  <2>1. s = [m \in 1..n |-> s[m]]
    BY <1>2
  <2> QED BY <1>1, <2>1, SeqMade
<1>4. DOMAIN s = 1..n
  BY <1>2
<1>5. \A m \in 1..n : \E l \in 1..n : s[m] = chunks[l]
  BY <1>1, <1>2
<1>6. \A m \in 1..n : PieceOf(chunks, r, s[m])
  BY <1>1, <1>5 DEF PieceOf
<1> QED BY <1>1, <1>3, <1>4, <1>5, <1>6 DEF PiecesOf, s

(* Changes that leave what is sealed. *)
LEMMA SameSealedPieces ==
    ASSUME NEW chunks, NEW r, NEW s, PiecesOf(chunks, r, s),
           NEW t, t = [m \in DOMAIN s |-> t[m]],
           \A m \in DOMAIN s : t[m].sealed = s[m].sealed
    PROVE  PiecesOf(chunks, r, t)
<1>1. IsSeq(s) /\ \A m \in DOMAIN s : PieceOf(chunks, r, s[m])
  BY DEF PiecesOf
<1>2. Len(s) \in Nat /\ DOMAIN s = 1..Len(s)
  BY <1>1, SeqIs
<1>3. IsSeq(t) /\ DOMAIN t = DOMAIN s
  BY <1>2, SeqMade
<1>4. \A m \in DOMAIN t : PieceOf(chunks, r, t[m])
  BY <1>1, <1>3 DEF PieceOf
<1> QED BY <1>3, <1>4 DEF PiecesOf

IsChunk(x) ==
  /\ x = [index |-> x.index, length |-> x.length, sealed |-> x.sealed]
  /\ x.sealed = [dek |-> x.sealed.dek, nonce |-> x.sealed.nonce,
                 plain |-> x.sealed.plain, aad |-> x.sealed.aad]

(* Renumbering a chunk leaves what is sealed in it.                        *)
LEMMA IndexChanges ==
    ASSUME NEW s, NEW i \in DOMAIN s, \A m \in DOMAIN s : IsChunk(s[m]), NEW x,
           NEW t, t = [s EXCEPT ![i].index = x]
    PROVE  /\ t = [m \in DOMAIN s |-> t[m]]
           /\ \A m \in DOMAIN s : t[m].sealed = s[m].sealed /\ IsChunk(t[m])
<1> DEFINE a == s[i]
           b == [a EXCEPT !.index = x]
<1>1. t = [m \in DOMAIN s |-> IF m = i THEN b ELSE s[m]]
  OBVIOUS
<1>2. IsChunk(a)
  OBVIOUS
<1> HIDE DEF a
<1>3. b = [index |-> x, length |-> a.length, sealed |-> a.sealed]
  BY <1>2 DEF IsChunk
<1> HIDE DEF b
<1>4. b.sealed = a.sealed /\ IsChunk(b)
  BY <1>2, <1>3 DEF IsChunk
<1>5. \A m \in DOMAIN s : t[m] = IF m = i THEN b ELSE s[m]
  BY <1>1
<1>6. \A m \in DOMAIN s : t[m].sealed = s[m].sealed /\ IsChunk(t[m])
  BY <1>4, <1>5 DEF a
<1> QED BY <1>1, <1>6

(* Damage swaps, drops, repeats and renumbers chunks, or puts those of     *)
(* another container: whatever is sealed with the key of r was sealed by   *)
(* r.                                                                      *)
LEMMA DamagedPieces ==
    ASSUME NEW c, c = [header |-> c.header, chunks |-> c.chunks],
           IsSeq(c.chunks), Len(c.chunks) > 0,
           \A i \in DOMAIN c.chunks : IsChunk(c.chunks[i]),
           NEW r, NEW others,
           \A other \in others : \A i \in DOMAIN other.chunks :
             PieceOf(c.chunks, r, other.chunks[i]),
           NEW d \in Damaged(c, others)
    PROVE  PiecesOf(c.chunks, r, d.chunks)
<1> DEFINE chunks == c.chunks
           n == Len(chunks)
           with(cs) == With(c, cs)
<1>1. n \in Nat /\ n > 0 /\ DOMAIN chunks = 1..n
  BY SeqIs
<1>2. \A m \in 1..n : PieceOf(chunks, r, chunks[m])
  BY <1>1 DEF PieceOf
<1>3. PiecesOf(chunks, r, chunks)
  BY <1>1, <1>2 DEF PiecesOf
<1>4. \A cs : with(cs).chunks = cs
  BY DEF With
<1>5. PiecesOf(chunks, r, Front(chunks))
  <2> DEFINE t == Front(chunks)
  <2> HIDE DEF t
  <2>1. IsSeq(t) /\ Len(t) = n - 1 /\ \A i \in 1..Len(t) : t[i] = chunks[i]
    BY <1>1, FrontIs DEF t
  <2>2. DOMAIN t = 1..(n - 1)
    BY <2>1, SeqIs
  <2>3. \A i \in DOMAIN t : PieceOf(chunks, r, t[i])
    <3> SUFFICES ASSUME NEW i \in DOMAIN t PROVE PieceOf(chunks, r, t[i])
      OBVIOUS
    <3>1. i \in 1..n /\ t[i] = chunks[i]
      BY <1>1, <2>1, <2>2
    <3> QED BY <1>2, <3>1
  <2> QED BY <2>1, <2>3 DEF PiecesOf, t
<1>6. PiecesOf(chunks, r, Append(chunks, Last(chunks)))
  <2> DEFINE t == Append(chunks, Last(chunks))
             l == Last(chunks)
  <2>1. l = chunks[n]
    BY DEF Last
  <2>2. t = Append(chunks, l)
    OBVIOUS
  <2> HIDE DEF t, l
  <2>3. IsSeq(t) /\ Len(t) = n + 1 /\ t[Len(t)] = l /\ \A i \in 1..n : t[i] = chunks[i]
    <3>1. IsSeq(chunks)
      OBVIOUS
    <3>2. Len(chunks) = n
      OBVIOUS
    <3> HIDE DEF chunks, n
    <3>3. IsSeq(t) /\ Len(t) = Len(chunks) + 1 /\ t[Len(t)] = l
      <4>1. /\ IsSeq(Append(chunks, l)) /\ Len(Append(chunks, l)) = Len(chunks) + 1
            /\ Append(chunks, l)[Len(chunks) + 1] = l
        BY <3>1, SeqAppended, Zenon
      <4> QED BY <2>2, <4>1, Zenon
    <3>4. \A i \in 1..Len(chunks) : t[i] = chunks[i]
      <4>1. \A i \in 1..Len(chunks) : Append(chunks, l)[i] = chunks[i]
        BY <3>1, SeqAppended, Zenon
      <4> QED BY <2>2, <4>1, Zenon
    <3> QED BY <3>2, <3>3, <3>4
  <2>4. DOMAIN t = 1..(n + 1)
    BY <2>3, SeqIs
  <2>5. \A i \in DOMAIN t : PieceOf(chunks, r, t[i])
    <3> SUFFICES ASSUME NEW i \in DOMAIN t PROVE PieceOf(chunks, r, t[i])
      OBVIOUS
    <3>1. CASE i = n + 1
      <4>1. t[i] = chunks[n] /\ n \in 1..n
        BY <1>1, <2>1, <2>3, <3>1
      <4> QED BY <1>2, <4>1
    <3>2. CASE i # n + 1
      <4>1. i \in 1..n /\ t[i] = chunks[i]
        BY <1>1, <2>3, <2>4, <3>2
      <4> QED BY <1>2, <4>1
    <3> QED BY <3>1, <3>2
  <2> QED BY <2>3, <2>5 DEF PiecesOf, t
<1>7. ASSUME NEW i \in DOMAIN chunks, NEW j \in DOMAIN chunks
      PROVE  PiecesOf(chunks, r, [Swapped(chunks, i, j) EXCEPT ![i].index = chunks[i].index,
                                                               ![j].index = chunks[j].index])
  <2> DEFINE s == Swapped(chunks, i, j)
             u == [s EXCEPT ![i].index = chunks[i].index]
             t == [u EXCEPT ![j].index = chunks[j].index]
  <2>1. /\ PiecesOf(chunks, r, s) /\ DOMAIN s = DOMAIN chunks
        /\ \A m \in DOMAIN chunks : \E l \in DOMAIN chunks : s[m] = chunks[l]
    BY SwappedPieces
  <2> HIDE DEF s
  <2>2. \A m \in DOMAIN chunks : IsChunk(s[m])
    BY <2>1
  <2>3. /\ DOMAIN u = DOMAIN chunks
        /\ \A m \in DOMAIN chunks : u[m].sealed = s[m].sealed /\ IsChunk(u[m])
    <3>1. u = [m \in DOMAIN s |-> u[m]]
      BY <2>1, <2>2, IndexChanges
    <3> HIDE DEF u
    <3>2. DOMAIN u = DOMAIN s
      BY <3>1
    <3>3. \A m \in DOMAIN s : u[m].sealed = s[m].sealed /\ IsChunk(u[m])
      BY <2>1, <2>2, IndexChanges DEF u
    <3> QED BY <2>1, <3>2, <3>3
  <2> HIDE DEF u
  <2>4. /\ DOMAIN t = DOMAIN chunks /\ t = [m \in DOMAIN chunks |-> t[m]]
        /\ \A m \in DOMAIN chunks : t[m].sealed = u[m].sealed
    <3>1. j \in DOMAIN u /\ \A m \in DOMAIN u : IsChunk(u[m])
      BY <2>3
    <3>2. t = [m \in DOMAIN u |-> t[m]]
      BY <3>1, IndexChanges
    <3> HIDE DEF t
    <3>3. \A m \in DOMAIN u : t[m].sealed = u[m].sealed
      BY <3>1, IndexChanges DEF t
    <3>4. DOMAIN t = DOMAIN chunks
      BY <2>3, <3>2
    <3> QED BY <2>3, <3>2, <3>3, <3>4
  <2> HIDE DEF t
  <2>5. PiecesOf(chunks, r, t)
    <3>1. /\ t = [m \in DOMAIN s |-> t[m]]
          /\ \A m \in DOMAIN s : t[m].sealed = s[m].sealed
      BY <2>1, <2>3, <2>4
    <3> HIDE DEF chunks
    <3> QED BY <2>1, <3>1, SameSealedPieces
  <2> QED BY <2>5 DEF t, u, s
<1>8. ASSUME NEW i \in DOMAIN chunks
      PROVE  PiecesOf(chunks, r, [chunks EXCEPT ![i].length = @ - 1])
  <2> DEFINE t == [chunks EXCEPT ![i].length = @ - 1]
  <2>1. /\ t = [m \in DOMAIN chunks |-> t[m]]
        /\ \A m \in DOMAIN chunks : t[m].sealed = chunks[m].sealed
    BY DEF IsChunk
  <2> HIDE DEF t
  <2> HIDE DEF chunks
  <2>2. PiecesOf(chunks, r, t)
    BY <1>3, <2>1, SameSealedPieces
  <2> QED BY <2>2 DEF t
<1>9. ASSUME NEW i \in DOMAIN chunks
      PROVE  PiecesOf(chunks, r, [chunks EXCEPT ![i].sealed.plain = Reverse(@),
                                                ![i].sealed.aad = <<>>])
  <2> DEFINE v == Reverse(chunks[i].sealed.plain)
             t == [chunks EXCEPT ![i].sealed.plain = v, ![i].sealed.aad = <<>>]
  <2> HIDE DEF v
  <2>1. /\ t = [m \in DOMAIN chunks |-> t[m]]
        /\ \A m \in DOMAIN chunks \ {i} : t[m] = chunks[m]
        /\ t[i].sealed.aad = <<>>
    BY DEF IsChunk
  <2>2. t = [chunks EXCEPT ![i].sealed.plain = Reverse(@), ![i].sealed.aad = <<>>]
    BY DEF v
  <2> HIDE DEF t
  <2>3. IsSeq(t) /\ DOMAIN t = DOMAIN chunks
    BY <1>1, <2>1, SeqMade
  <2>4. \A m \in DOMAIN t : PieceOf(chunks, r, t[m])
    <3> SUFFICES ASSUME NEW m \in DOMAIN t PROVE PieceOf(chunks, r, t[m])
      OBVIOUS
    <3>1. CASE m = i
      BY <2>1, <3>1 DEF PieceOf
    <3>2. CASE m # i
      BY <1>1, <1>2, <2>1, <2>3, <3>2
    <3> QED BY <3>1, <3>2
  <2>5. PiecesOf(chunks, r, t)
    BY <2>3, <2>4 DEF PiecesOf
  <2> QED BY <2>2, <2>5
<1>10. ASSUME NEW other \in others, NEW i \in DOMAIN chunks \cap DOMAIN other.chunks
       PROVE  PiecesOf(chunks, r, [chunks EXCEPT ![i] = other.chunks[i]])
  <2> DEFINE t == [chunks EXCEPT ![i] = other.chunks[i]]
  <2>1. /\ t = [m \in DOMAIN chunks |-> t[m]]
        /\ \A m \in DOMAIN chunks \ {i} : t[m] = chunks[m]
        /\ t[i] = other.chunks[i]
    OBVIOUS
  <2> HIDE DEF t
  <2>2. IsSeq(t) /\ DOMAIN t = DOMAIN chunks
    BY <1>1, <2>1, SeqMade
  <2>3. \A m \in DOMAIN t : PieceOf(chunks, r, t[m])
    <3> SUFFICES ASSUME NEW m \in DOMAIN t PROVE PieceOf(chunks, r, t[m])
      OBVIOUS
    <3>1. CASE m = i
      BY <2>1, <3>1
    <3>2. CASE m # i
      BY <1>1, <1>2, <2>1, <2>2, <3>2
    <3> QED BY <3>1, <3>2
  <2>4. PiecesOf(chunks, r, t)
    BY <2>2, <2>3 DEF PiecesOf
  <2> QED BY <2>4 DEF t
<1>11. \E cs : d.chunks = cs /\ PiecesOf(chunks, r, cs)
  <2>0. \/ d \in Resized(c) \/ d \in Rearranged(c) \/ d \in Renumbered(c)
        \/ d \in Shortened(c) \/ d \in Altered(c)
        \/ \E other \in others : d \in Mixed(c, other)
    BY DEF Damaged
  <2>1. CASE d \in Resized(c)
    <3>1. d.chunks = Front(chunks) \/ d.chunks = Append(chunks, Last(chunks))
      <4> DEFINE f == Front(chunks)
                 a == Append(chunks, Last(chunks))
      <4> HIDE DEF f, a
      <4>1. d = with(f) \/ d = with(a) \/ d = [header |-> [c.header EXCEPT !.chunkCount = @ - 1], chunks |-> f]
        BY <2>1 DEF f, a, Resized
      <4>2. d.chunks = f \/ d.chunks = a
        BY <1>4, <4>1
      <4> QED BY <4>2 DEF f, a
    <3> QED BY <1>5, <1>6, <3>1, Zenon
  <2>2. CASE d \in Rearranged(c)
    <3>1. PICK i, j \in DOMAIN chunks : d = with(Swapped(chunks, i, j))
      BY <2>2 DEF Rearranged
    <3>2. PiecesOf(chunks, r, Swapped(chunks, i, j))
      BY SwappedPieces
    <3> QED BY <1>4, <3>1, <3>2, Zenon
  <2>3. CASE d \in Renumbered(c)
    <3> DEFINE moved(i, j) == [Swapped(chunks, i, j) EXCEPT ![i].index = chunks[i].index,
                                                            ![j].index = chunks[j].index]
    <3>1. Renumbered(c) = {With(c, moved(i, j)) : i, j \in DOMAIN chunks}
      BY DEF Renumbered
    <3>2. \A i, j \in DOMAIN chunks : PiecesOf(chunks, r, moved(i, j))
      BY <1>7, Zenon
    <3> HIDE DEF moved
    <3>3. PICK i, j \in DOMAIN chunks : d = With(c, moved(i, j))
      BY <2>3, <3>1
    <3> QED BY <1>4, <3>2, <3>3, Zenon
  <2>4. CASE d \in Shortened(c)
    <3>1. PICK i \in DOMAIN chunks : d = with([chunks EXCEPT ![i].length = @ - 1])
      BY <2>4 DEF Shortened
    <3> QED BY <1>4, <1>8, <3>1, Zenon
  <2>5. CASE d \in Altered(c)
    <3> DEFINE altered(i) == [chunks EXCEPT ![i].sealed.plain = Reverse(@),
                                            ![i].sealed.aad = <<>>]
    <3>1. Altered(c) = {With(c, altered(i)) : i \in DOMAIN chunks}
      BY DEF Altered
    <3>2. \A i \in DOMAIN chunks : PiecesOf(chunks, r, altered(i))
      BY <1>9, Zenon
    <3> HIDE DEF altered
    <3>3. PICK i \in DOMAIN chunks : d = With(c, altered(i))
      BY <2>5, <3>1
    <3> QED BY <1>4, <3>2, <3>3, Zenon
  <2>6. CASE \E other \in others : d \in Mixed(c, other)
    <3>1. PICK other \in others : d \in Mixed(c, other)
      BY <2>6
    <3>2. PICK i \in DOMAIN chunks \cap DOMAIN other.chunks :
            d = with([chunks EXCEPT ![i] = other.chunks[i]])
      BY <3>1 DEF Mixed
    <3>3. PiecesOf(chunks, r, [chunks EXCEPT ![i] = other.chunks[i]])
      BY <1>10, <3>2
    <3> QED BY <1>4, <3>2, <3>3
  <2> QED BY <2>0, <2>1, <2>2, <2>3, <2>4, <2>5, <2>6
<1> QED BY <1>11

-----------------------------------------------------------------------------
(***************************************************************************)
(* What a step leaves.                                                     *)
(***************************************************************************)
TaskGoesOn ==
  \/ task' = task
  \/ task = NoTask
  \/ /\ task # NoTask /\ task' # NoTask
     /\ task'.size = task.size
     /\ task.attempt \in Nat /\ task'.attempt \in Nat /\ task.attempt <= task'.attempt

SourceGoesOn ==
  \/ source' = source
  \/ source.mtime \in Nat /\ source'.mtime = source.mtime + 1

ObjectsGoOn ==
  \A i \in DOMAIN objects :
    /\ i \in DOMAIN objects'
    /\ objects'[i].attempt = objects[i].attempt
    /\ objects'[i].uploaded = objects[i].uploaded

(* A run that is not started, has only its task, or has ended early has    *)
(* nothing to show.                                                        *)
LEMMA ShortRun ==
    ASSUME NEW r \in Runs, NEW pc \in {"idle", "open", "ended"}, NEW recipients, NEW attempt,
           runs'[r] = [pc |-> pc, recipients |-> recipients, attempt |-> attempt, plain |-> <<>>,
                       mtime |-> 0, header |-> Nil, chunks |-> <<>>],
           pc = "open" => attempt \in 1..task'.attempt,
           task' = NoTask => runs'[r] = NoRun
    PROVE  RunOK(r)'
<1>1. runs'[r] = [pc |-> runs'[r].pc, recipients |-> runs'[r].recipients,
                  attempt |-> runs'[r].attempt, plain |-> runs'[r].plain,
                  mtime |-> runs'[r].mtime, header |-> runs'[r].header,
                  chunks |-> runs'[r].chunks]
  OBVIOUS
<1>2. runs'[r].pc = pc /\ runs'[r].attempt = attempt /\ runs'[r].chunks = <<>>
  OBVIOUS
<1> QED BY <1>1, <1>2 DEF RunOK

(* A run that does not step stays sound while the task, the source and the *)
(* objects only go on.                                                     *)
LEMMA RunStays ==
    ASSUME NEW r \in Runs, RunOK(r), runs'[r] = runs[r],
           TaskGoesOn, SourceGoesOn, ObjectsGoOn
    PROVE  RunOK(r)'
<1>1. CASE task = NoTask
  <2>1. runs'[r] = NoRun
    BY <1>1 DEF RunOK
  <2>2. runs'[r] = [pc |-> "idle", recipients |-> {}, attempt |-> 0, plain |-> <<>>,
                    mtime |-> 0, header |-> Nil, chunks |-> <<>>]
    BY <2>1 DEF NoRun
  <2> QED BY <2>1, <2>2, ShortRun
<1>2. CASE task # NoTask
  <2>1. task' # NoTask /\ task'.size = task.size
    BY <1>2 DEF TaskGoesOn
  <2>2. ContainerOf(r)' = ContainerOf(r)
    BY DEF ContainerOf
  <2>3. PlainOK(r) => PlainOK(r)'
    BY <2>1 DEF PlainOK
  <2>4. Whole(r) => Whole(r)'
    BY <2>2, <2>3 DEF Whole
  <2>5. Reading(r) => Reading(r)'
    <3> SUFFICES ASSUME Reading(r) PROVE Reading(r)'
      OBVIOUS
    <3>1. PlainOK(r)'
      BY <2>3 DEF Reading
    <3>2. /\ (runs[r].header = Header(r, runs[r].attempt, task.size))'
          /\ IsSeq(runs[r].chunks)'
          /\ (Len(runs[r].chunks) <= ChunkCount(task.size))'
          /\ (\A i \in DOMAIN runs[r].chunks : runs[r].chunks[i].sealed.dek = r)'
          /\ (runs[r].mtime \in Nat)'
      BY <2>1 DEF Reading
    <3>3. (runs[r].mtime <= source.mtime)'
      BY DEF Reading, SourceGoesOn
    <3>4. source' = source \/ runs'[r].mtime # source'.mtime
      BY DEF Reading, SourceGoesOn
    <3>5. (runs[r].mtime = source.mtime =>
             /\ source.bytes = runs[r].plain
             /\ \A i \in DOMAIN runs[r].chunks :
                  runs[r].chunks[i] = Exact(r, runs[r].attempt, runs[r].plain).chunks[i])'
      <4>1. CASE source' = source
        BY <4>1 DEF Reading
      <4>2. CASE runs'[r].mtime # source'.mtime
        BY <4>2
      <4> QED BY <3>4, <4>1, <4>2
    <3> QED BY <3>1, <3>2, <3>3, <3>5, Zenon DEF Reading
  <2>6. Uploaded(r) => Uploaded(r)'
    BY <2>2 DEF Uploaded, ObjectsGoOn
  <2>7. runs[r].attempt \in 1..task.attempt => runs[r].attempt \in 1..task'.attempt
    BY <1>2 DEF TaskGoesOn
  <2> HIDE DEF NoTask
  <2>8. task # NoTask => task' # NoTask
    BY <2>1
  <2> QED BY <1>2, <2>1, <2>4, <2>5, <2>6, <2>7 DEF RunOK
<1> QED BY <1>1, <1>2

(* The run that completed the task stays so while its task, file, object   *)
(* and downloads stay.                                                     *)
LEMMA CompletedStays ==
    ASSUME NEW r \in Runs, CompletedBy(r), runs'[r] = runs[r], task' = task, file' = file,
           file.object \in DOMAIN objects', objects'[file.object] = objects[file.object],
           opened' = opened
    PROVE  CompletedBy(r)'
<1>1. ContainerOf(r)' = ContainerOf(r)
  BY DEF ContainerOf
<1>2. Whole(r)'
  BY <1>1 DEF Whole, PlainOK, CompletedBy
<1>3. Pieces(r, objects[file.object].stored)'
  BY DEF Pieces, CompletedBy
<1>4. EnvelopesOK(r)'
  BY DEF EnvelopesOK, CompletedBy
<1> QED BY <1>1, <1>2, <1>3, <1>4 DEF CompletedBy

(* A step that leaves the file and what a completed task rests on leaves   *)
(* the file sound.                                                         *)
LEMMA FileStays ==
    ASSUME FileOK, file' = file, opened' = opened,
           file.status = "AVAILABLE" /\ task.status = "COMPLETED" =>
             /\ task' = task
             /\ \A r \in Runs : runs[r].pc = "ended" => runs'[r] = runs[r]
             /\ \A i \in DOMAIN objects : i \in DOMAIN objects' /\ objects'[i] = objects[i]
    PROVE  FileOK'
<1>1. ASSUME file.status = "AVAILABLE"
      PROVE  task'.status = "COMPLETED" /\ \E r \in Runs : CompletedBy(r)'
  <2>1. task.status = "COMPLETED"
    BY <1>1 DEF FileOK
  <2>2. PICK r \in Runs : CompletedBy(r)
    BY <1>1 DEF FileOK
  <2>3. runs'[r] = runs[r] /\ task' = task
    BY <1>1, <2>1, <2>2 DEF CompletedBy
  <2>4. file.object \in DOMAIN objects' /\ objects'[file.object] = objects[file.object]
    BY <1>1, <2>1, <2>2 DEF CompletedBy
  <2>5. CompletedBy(r)'
    BY <2>2, <2>3, <2>4, CompletedStays
  <2> QED BY <2>1, <2>3, <2>5
<1>2. DOMAIN opened' = Keys /\ (file'.status # "AVAILABLE" => \A k \in Keys : opened'[k] = <<>>)
  BY DEF FileOK
<1>3. file'.status = "AVAILABLE" => task'.status = "COMPLETED" /\ \E r \in Runs : CompletedBy(r)'
  BY <1>1
<1> QED BY <1>2, <1>3, Zenon DEF FileOK

(* A step that touches no key and no member leaves the key rows sound, and *)
(* the frozen recipients unless the task takes others.                     *)
LEMMA KeysStay ==
    ASSUME KeyRowsOK, VersionsOK, FrozenOK, UNCHANGED <<rsaKeys, active, directory>>
    PROVE  /\ KeyRowsOK' /\ VersionsOK' /\ Registered' = Registered
           /\ task'.recipients = task.recipients => FrozenOK'
<1>1. rsaKeys' = rsaKeys /\ active' = active /\ directory' = directory
  OBVIOUS
<1>2. Registered' = Registered
  BY <1>1 DEF Registered
<1>3. KeyRowsOK'
  BY <1>1, <1>2 DEF KeyRowsOK
<1>4. VersionsOK'
  BY <1>1, <1>2 DEF VersionsOK, KeysOf
<1>5. task'.recipients = task.recipients => FrozenOK'
  BY <1>1, <1>2 DEF FrozenOK
<1> QED BY <1>2, <1>3, <1>4, <1>5

(* A step of keys and members alone leaves the task, its runs, objects and *)
(* file sound.                                                             *)
LEMMA OthersStay ==
    ASSUME SourceOK, TaskOK, RunsOK, ObjectsOK, FileOK,
           UNCHANGED <<source, task, objects, file, runs, opened>>
    PROVE  SourceOK' /\ TaskOK' /\ RunsOK' /\ ObjectsOK' /\ FileOK'
<1>1. /\ source' = source /\ task' = task /\ objects' = objects /\ file' = file
      /\ runs' = runs /\ opened' = opened
  OBVIOUS
<1>2. SourceOK' /\ TaskOK' /\ ObjectsOK'
  BY <1>1 DEF SourceOK, TaskOK, ObjectsOK
<1>3. TaskGoesOn /\ SourceGoesOn /\ ObjectsGoOn
  BY <1>1 DEF TaskGoesOn, SourceGoesOn, ObjectsGoOn
<1>4. RunsOK'
  <2>1. ASSUME NEW r \in Runs PROVE RunOK(r)'
    <3>1. RunOK(r) /\ runs'[r] = runs[r]
      BY <1>1 DEF RunsOK
    <3> QED BY <1>3, <3>1, RunStays
  <2> QED BY <1>1, <2>1 DEF RunsOK
<1>5. FileOK'
  BY <1>1, FileStays
<1> QED BY <1>2, <1>4, <1>5

(***************************************************************************)
(* Keys                                                                    *)
(***************************************************************************)
LEMMA RegisterStep ==
    ASSUME FInv, NEW u \in Members, NEW k \in Keys, RegisterMyKey(u, k)
    PROVE  FInv'
<1> DEFINE row == [user |-> u, status |-> "ACTIVE", version |-> NextVersion(u)]
<1>1. /\ KeyRowsOK /\ VersionsOK /\ SourceOK /\ TaskOK /\ FrozenOK /\ RunsOK /\ ObjectsOK /\ FileOK
      /\ k \notin Registered /\ rsaKeys' = [rsaKeys EXCEPT ![k] = row]
      /\ UNCHANGED <<active, directory, source, task, objects, file, runs, opened>>
  BY DEF FInv, RegisterMyKey, CreateVersion
<1>2. SourceOK' /\ TaskOK' /\ RunsOK' /\ ObjectsOK' /\ FileOK'
  BY <1>1, OthersStay
<1>3. Registered \subseteq Keys /\ DOMAIN rsaKeys = Keys /\ IsFiniteSet(Registered)
  BY <1>1 DEF Registered, KeyRowsOK
<1>4. row # NoKey
  <2>1. u # Nil
    BY FileKeysAssumption
  <2> HIDE DEF row
  <2>2. row = [user |-> u, status |-> "ACTIVE", version |-> NextVersion(u)]
    BY DEF row
  <2>3. row.user = u /\ NoKey.user = Nil
    BY <2>2 DEF NoKey
  <2> QED BY <2>1, <2>3
<1>5. \A q \in Keys : rsaKeys'[q] = IF q = k THEN row ELSE rsaKeys[q]
  BY <1>1, <1>3
<1>6. row.user = u /\ row.status = "ACTIVE" /\ row.version = NextVersion(u)
  OBVIOUS
<1>7. row = [user |-> row.user, status |-> row.status, version |-> row.version]
  OBVIOUS
<1> HIDE DEF row
<1>8. Registered' = Registered \cup {k}
  BY <1>3, <1>4, <1>5 DEF Registered
<1>9. IsFiniteSet(Registered')
  BY <1>3, <1>8, FS_AddElement
<1>10. KeyRowsOK'
  <2>1. DOMAIN rsaKeys' = Keys /\ active' \subseteq Members /\ directory' \subseteq Recipients
    BY <1>1, <1>3 DEF KeyRowsOK
  <2>2. ASSUME NEW q \in Registered'
        PROVE  /\ rsaKeys'[q] = [user |-> rsaKeys'[q].user, status |-> rsaKeys'[q].status,
                                 version |-> rsaKeys'[q].version]
               /\ rsaKeys'[q].user \in Members /\ rsaKeys'[q].status \in KeyStatuses
    <3>1. CASE q = k
      <4>1. rsaKeys'[q] = row
        BY <1>5, <3>1
      <4> QED BY <1>6, <1>7, <4>1 DEF KeyStatuses
    <3>2. CASE q # k
      <4>1. q \in Registered /\ rsaKeys'[q] = rsaKeys[q]
        BY <1>3, <1>5, <1>8, <3>2
      <4> QED BY <1>1, <4>1 DEF KeyRowsOK
    <3> QED BY <3>1, <3>2
  <2> QED BY <1>9, <2>1, <2>2 DEF KeyRowsOK
<1> DEFINE n == Cardinality(KeysOf(u))
<1>11. IsFiniteSet(KeysOf(u)) /\ k \notin KeysOf(u) /\ n \in Nat /\ NextVersion(u) = 1 + n
  <2>1. KeysOf(u) \subseteq Registered
    BY DEF KeysOf
  <2>2. IsFiniteSet(KeysOf(u))
    BY <1>3, <2>1, FS_Subset
  <2>3. NextVersion(u) = 1 + n
    BY Zenon DEF NextVersion, KeysOf
  <2> QED BY <1>1, <2>1, <2>2, <2>3, FS_CardinalityType
<1>12. KeysOf(u)' = KeysOf(u) \cup {k}
  BY <1>3, <1>5, <1>6, <1>8 DEF KeysOf
<1>13. \A x : x # u => KeysOf(x)' = KeysOf(x)
  BY <1>1, <1>3, <1>5, <1>6, <1>8 DEF KeysOf
<1>14. Cardinality(KeysOf(u)') = n + 1
  BY <1>11, <1>12, FS_AddElement
<1>15. ASSUME NEW q \in Registered
       PROVE  /\ rsaKeys'[q] = rsaKeys[q]
              /\ rsaKeys[q].version \in Nat
              /\ (rsaKeys[q].version \in 1 .. Cardinality(KeysOf(rsaKeys[q].user)))'
              /\ rsaKeys[q].user = u => rsaKeys[q].version <= n
  <2>1. rsaKeys'[q] = rsaKeys[q] /\ rsaKeys[q].version \in 1..Cardinality(KeysOf(rsaKeys[q].user))
    BY <1>1, <1>3, <1>5 DEF VersionsOK
  <2>2. ASSUME NEW x, rsaKeys[q].user = x
        PROVE  (KeysOf(rsaKeys[q].user))' = KeysOf(x)'
    BY <2>1, <2>2 DEF KeysOf
  <2>3. CASE rsaKeys[q].user = u
    BY <1>11, <1>14, <2>1, <2>2, <2>3
  <2>4. CASE rsaKeys[q].user # u
    <3>1. PICK x : x = rsaKeys[q].user
      OBVIOUS
    <3>2. (KeysOf(rsaKeys[q].user))' = KeysOf(x)' /\ KeysOf(x)' = KeysOf(x)
      BY <1>13, <2>2, <2>4, <3>1
    <3> QED BY <2>1, <2>4, <3>1, <3>2
  <2> QED BY <2>1, <2>3, <2>4
<1>16. rsaKeys'[k].user = u /\ rsaKeys'[k].version = n + 1
  BY <1>5, <1>6, <1>11
<1> HIDE DEF n
<1>17. VersionsOK'
  <2>1. ASSUME NEW q \in Registered'
        PROVE  (rsaKeys[q].version \in 1 .. Cardinality(KeysOf(rsaKeys[q].user)))'
    <3>1. CASE q = k
      <4>1. rsaKeys'[q].user = u /\ rsaKeys'[q].version = n + 1
        BY <1>16, <3>1
      <4>2. (KeysOf(rsaKeys[q].user))' = KeysOf(u)'
        BY <4>1 DEF KeysOf
      <4> QED BY <1>11, <1>14, <4>1, <4>2
    <3>2. CASE q # k
      <4>1. q \in Registered
        BY <1>8, <3>2
      <4> QED BY <1>15, <4>1
    <3> QED BY <3>1, <3>2
  <2>2. ASSUME NEW p \in Registered', NEW q \in Registered',
               rsaKeys'[p].user = rsaKeys'[q].user, rsaKeys'[p].version = rsaKeys'[q].version
        PROVE  p = q
    <3>1. CASE p \in Registered /\ q \in Registered
      BY <1>1, <1>15, <2>2, <3>1 DEF VersionsOK
    <3>2. CASE p = k \/ q = k
      BY <1>8, <1>11, <1>15, <1>16, <2>2, <3>2
    <3> QED BY <1>8, <3>1, <3>2
  <2>3. (\A q \in Registered : rsaKeys[q].version \in 1 .. Cardinality(KeysOf(rsaKeys[q].user)))'
    BY <2>1
  <2> QED BY <2>2, <2>3 DEF VersionsOK
<1>18. FrozenOK'
  <2>1. task' = task /\ \A q \in Registered : q \in Registered' /\ rsaKeys'[q] = rsaKeys[q]
    BY <1>1, <1>8, <1>15
  <2> QED BY <1>1, <2>1 DEF FrozenOK
<1> QED BY <1>2, <1>10, <1>17, <1>18 DEF FInv

(* A key changes its status (UpdateStatus).                                *)
LEMMA StatusStep ==
    ASSUME FInv, NEW k \in Keys, NEW s \in KeyStatuses, UpdateStatus(k, s)
    PROVE  FInv'
<1>1. /\ KeyRowsOK /\ VersionsOK /\ SourceOK /\ TaskOK /\ FrozenOK /\ RunsOK /\ ObjectsOK /\ FileOK
      /\ k \in Registered /\ rsaKeys' = [rsaKeys EXCEPT ![k].status = s]
      /\ UNCHANGED <<active, directory, source, task, objects, file, runs, opened>>
  BY DEF FInv, UpdateStatus
<1>2. SourceOK' /\ TaskOK' /\ RunsOK' /\ ObjectsOK' /\ FileOK'
  BY <1>1, OthersStay
<1> DEFINE old == rsaKeys[k]
           row == [user |-> old.user, status |-> s, version |-> old.version]
<1>3. /\ Registered \subseteq Keys /\ DOMAIN rsaKeys = Keys
      /\ old = [user |-> old.user, status |-> old.status, version |-> old.version]
      /\ old.user \in Members
  BY <1>1 DEF Registered, KeyRowsOK
<1>4. rsaKeys' = [rsaKeys EXCEPT ![k] = row]
  <2>1. [old EXCEPT !.status = s] = row
    <3> HIDE DEF old
    <3> QED BY <1>3
  <2>2. rsaKeys' = [rsaKeys EXCEPT ![k] = [old EXCEPT !.status = s]]
    BY <1>1
  <2> QED BY <2>1, <2>2
<1>5. \A q \in Keys : rsaKeys'[q] = IF q = k THEN row ELSE rsaKeys[q]
  BY <1>3, <1>4
<1>6. row.user = old.user /\ row.status = s /\ row.version = old.version
  OBVIOUS
<1>7. row = [user |-> row.user, status |-> row.status, version |-> row.version]
  OBVIOUS
<1> HIDE DEF row
<1>8. row # NoKey
  <2>1. old.user # Nil
    BY <1>3, FileKeysAssumption
  <2>2. NoKey.user = Nil
    BY DEF NoKey
  <2> QED BY <1>6, <2>1, <2>2
<1>9. Registered' = Registered
  BY <1>1, <1>3, <1>5, <1>8 DEF Registered
<1>10. \A q \in Registered : /\ rsaKeys'[q].user = rsaKeys[q].user
                             /\ rsaKeys'[q].version = rsaKeys[q].version
  BY <1>3, <1>5, <1>6
<1>11. KeyRowsOK'
  <2>1. ASSUME NEW q \in Registered
        PROVE  /\ rsaKeys'[q] = [user |-> rsaKeys'[q].user, status |-> rsaKeys'[q].status,
                                 version |-> rsaKeys'[q].version]
               /\ rsaKeys'[q].user \in Members /\ rsaKeys'[q].status \in KeyStatuses
    <3>1. CASE q = k
      <4>1. rsaKeys'[q] = row
        BY <1>3, <1>5, <3>1
      <4> QED BY <1>3, <1>6, <1>7, <4>1
    <3>2. CASE q # k
      BY <1>1, <1>3, <1>5, <3>2 DEF KeyRowsOK
    <3> QED BY <3>1, <3>2
  <2> QED BY <1>1, <1>3, <1>5, <1>9, <2>1 DEF KeyRowsOK
<1>12. \A x : KeysOf(x)' = KeysOf(x)
  BY <1>9, <1>10 DEF KeysOf
<1>13. VersionsOK'
  BY <1>1, <1>9, <1>10, <1>12 DEF VersionsOK
<1>14. FrozenOK'
  BY <1>1, <1>9, <1>10 DEF FrozenOK
<1> QED BY <1>2, <1>11, <1>13, <1>14 DEF FInv

(* A member leaves the tenant: the frozen recipients stay.                 *)
LEMMA MemberLeavesStep ==
    ASSUME FInv, NEW u \in Members, MemberLeaves(u)
    PROVE  FInv'
<1>1. /\ KeyRowsOK /\ VersionsOK /\ SourceOK /\ TaskOK /\ FrozenOK /\ RunsOK /\ ObjectsOK /\ FileOK
      /\ active' \subseteq active
      /\ UNCHANGED <<rsaKeys, directory, source, task, objects, file, runs, opened>>
  BY DEF FInv, MemberLeaves
<1>2. SourceOK' /\ TaskOK' /\ RunsOK' /\ ObjectsOK' /\ FileOK'
  BY <1>1, OthersStay
<1>3. Registered' = Registered
  BY <1>1 DEF Registered
<1>4. KeyRowsOK' /\ VersionsOK' /\ FrozenOK'
  BY <1>1, <1>3 DEF KeyRowsOK, VersionsOK, FrozenOK, KeysOf
<1> QED BY <1>2, <1>4 DEF FInv

(* The recipients are listed for selection (SelectRecipients).             *)
LEMMA SelectStep ==
    ASSUME FInv, SelectRecipients
    PROVE  FInv'
<1>1. /\ KeyRowsOK /\ VersionsOK /\ SourceOK /\ TaskOK /\ FrozenOK /\ RunsOK /\ ObjectsOK /\ FileOK
      /\ directory' = ListRecipients
      /\ UNCHANGED <<rsaKeys, active, source, task, objects, file, runs, opened>>
  BY DEF FInv, SelectRecipients
<1>2. SourceOK' /\ TaskOK' /\ RunsOK' /\ ObjectsOK' /\ FileOK'
  BY <1>1, OthersStay
<1>3. ListRecipients \subseteq Recipients
  <2>1. \A k \in ActiveKeys : k \in Keys /\ k \in Registered
    BY DEF ActiveKeys, Registered
  <2>2. ASSUME NEW k \in ActiveKeys PROVE [user |-> rsaKeys[k].user, key |-> k] \in Recipients
    <3>1. rsaKeys[k].user \in Members /\ k \in Keys
      BY <1>1, <2>1 DEF KeyRowsOK
    <3> QED BY <3>1 DEF Recipients
  <2> QED BY <2>2 DEF ListRecipients
<1>4. Registered' = Registered
  BY <1>1 DEF Registered
<1>5. KeyRowsOK' /\ VersionsOK' /\ FrozenOK'
  <2>1. directory' \subseteq Recipients
    BY <1>1, <1>3
  <2>2. KeyRowsOK'
    BY <1>1, <1>4, <2>1 DEF KeyRowsOK
  <2> QED BY <1>1, <1>4, <2>2 DEF VersionsOK, FrozenOK, KeysOf
<1> QED BY <1>2, <1>5 DEF FInv

(***************************************************************************)
(* Runs                                                                    *)
(***************************************************************************)
LEMMA OneRunMoves ==
    ASSUME RunsOK, NEW r \in Runs, NEW x, runs' = [runs EXCEPT ![r] = x], RunOK(r)',
           TaskGoesOn, SourceGoesOn, ObjectsGoOn
    PROVE  RunsOK'
<1>1. DOMAIN runs' = Runs
  BY DEF RunsOK
<1>2. ASSUME NEW q \in Runs PROVE RunOK(q)'
  <2>1. CASE q = r
    BY <2>1
  <2>2. CASE q # r
    <3>1. RunOK(q) /\ runs'[q] = runs[q]
      BY <2>2 DEF RunsOK
    <3> QED BY <3>1, RunStays
  <2> QED BY <2>1, <2>2
<1> QED BY <1>1, <1>2 DEF RunsOK

(* The attempts are counted within the bound.                              *)
LEMMA AttemptIs ==
    ASSUME TaskOK
    PROVE  task.attempt \in 0..MaxAttempts
<1> QED BY FileKeysAssumption DEF TaskOK, NoTask

(* A step that touches neither objects nor file leaves them sound, as      *)
(* attempts only go up.                                                    *)
LEMMA ObjectsStay ==
    ASSUME ObjectsOK, task.attempt \in Nat, task'.attempt \in Nat, task.attempt <= task'.attempt,
           objects' = objects, file' = file
    PROVE  ObjectsOK' /\ ObjectsGoOn
<1>1. ObjectsGoOn
  BY DEF ObjectsGoOn
<1> QED BY <1>1 DEF ObjectsOK

(* The source file is edited while it may be read: its mtime goes up.      *)
LEMMA SourceStep ==
    ASSUME FInv, NEW bytes \in Edits, SourceEdited(bytes)
    PROVE  FInv'
<1>1. /\ KeyRowsOK /\ VersionsOK /\ SourceOK /\ TaskOK /\ FrozenOK /\ RunsOK /\ ObjectsOK /\ FileOK
      /\ source' = [bytes |-> bytes, mtime |-> source.mtime + 1]
      /\ UNCHANGED <<rsaKeys, active, directory, task, objects, file, runs, opened>>
  BY DEF FInv, SourceEdited
<1>2. KeyRowsOK' /\ VersionsOK' /\ FrozenOK'
  BY <1>1, KeysStay
<1>3. TaskGoesOn /\ SourceGoesOn /\ ObjectsGoOn
  BY <1>1 DEF TaskGoesOn, SourceGoesOn, ObjectsGoOn, SourceOK
<1>4. RunsOK'
  <2>1. ASSUME NEW r \in Runs PROVE RunOK(r)'
    <3>1. RunOK(r) /\ runs'[r] = runs[r]
      BY <1>1 DEF RunsOK
    <3> QED BY <1>3, <3>1, RunStays
  <2> QED BY <1>1, <2>1 DEF RunsOK
<1>5. SourceOK'
  <2>1. bytes \in Seq(Bytes)
    BY FileKeysAssumption
  <2> QED BY <1>1, <2>1 DEF SourceOK
<1>6. TaskOK' /\ ObjectsOK'
  BY <1>1 DEF TaskOK, ObjectsOK
<1>7. FileOK'
  BY <1>1, FileStays
<1> QED BY <1>2, <1>4, <1>5, <1>6, <1>7 DEF FInv

(* A run ends with an error.                                               *)
LEMMA FailStep ==
    ASSUME FInv, NEW r \in Runs, RunFails(r)
    PROVE  FInv'
<1>1. /\ KeyRowsOK /\ VersionsOK /\ SourceOK /\ TaskOK /\ FrozenOK /\ RunsOK /\ ObjectsOK /\ FileOK
      /\ runs[r].pc \notin {"idle", "ended"}
      /\ runs' = [runs EXCEPT ![r] = [NoRun EXCEPT !.pc = "ended"]]
      /\ task' = task \/ (task.status = "OPEN" /\ task' = [task EXCEPT !.status = "FAILED"])
      /\ UNCHANGED <<rsaKeys, active, directory, source, objects, file, opened>>
  BY DEF FInv, RunFails, MarkTerminal
<1>2. task # NoTask
  BY <1>1 DEF RunsOK, RunOK, NoRun
<1>3. /\ task' # NoTask
      /\ task'.size = task.size /\ task'.attempt = task.attempt
      /\ task'.recipients = task.recipients
      /\ TaskOK'
  <2>1. CASE task' = task
    BY <1>1, <1>2, <2>1 DEF TaskOK
  <2>2. CASE task.status = "OPEN" /\ task' = [task EXCEPT !.status = "FAILED"]
    <3>1. task = [status |-> task.status, attempt |-> task.attempt, size |-> task.size,
                  type |-> task.type, recipients |-> task.recipients]
      BY <1>1, <1>2 DEF TaskOK
    <3>2. task' = [status |-> "FAILED", attempt |-> task.attempt, size |-> task.size,
                   type |-> task.type, recipients |-> task.recipients]
      BY <2>2, <3>1
    <3>3. /\ task' = [status |-> task'.status, attempt |-> task'.attempt, size |-> task'.size,
                      type |-> task'.type, recipients |-> task'.recipients]
          /\ task'.status = "FAILED" /\ task'.attempt = task.attempt /\ task'.size = task.size
          /\ task'.type = task.type /\ task'.recipients = task.recipients
      BY <3>2
    <3>4. task' # NoTask
      BY <3>3 DEF NoTask
    <3> QED BY <1>1, <1>2, <3>3, <3>4 DEF TaskOK
  <2> QED BY <1>1, <2>1, <2>2
<1>4. KeyRowsOK' /\ VersionsOK' /\ FrozenOK'
  BY <1>1, <1>3, KeysStay
<1>5. SourceOK' /\ SourceGoesOn
  BY <1>1 DEF SourceOK, SourceGoesOn
<1>6. task.attempt \in Nat
  BY <1>1, <1>2, FileKeysAssumption DEF TaskOK
<1>7. TaskGoesOn
  BY <1>2, <1>3, <1>6 DEF TaskGoesOn
<1>8. ObjectsOK' /\ ObjectsGoOn
  BY <1>1, <1>3, <1>6, ObjectsStay
<1>9. RunOK(r)'
  <2>1. runs'[r] = [pc |-> "ended", recipients |-> {}, attempt |-> 0, plain |-> <<>>,
                    mtime |-> 0, header |-> Nil, chunks |-> <<>>]
    BY <1>1 DEF RunsOK, NoRun
  <2> QED BY <1>3, <2>1, ShortRun
<1>10. RunsOK'
  BY <1>1, <1>5, <1>7, <1>8, <1>9, OneRunMoves
<1>11. FileOK'
  <2>1. task.status = "COMPLETED" => task' = task
    BY <1>1
  <2>2. \A q \in Runs : runs[q].pc = "ended" => runs'[q] = runs[q]
    BY <1>1 DEF RunsOK
  <2> QED BY <1>1, <2>1, <2>2, FileStays
<1> QED BY <1>3, <1>4, <1>5, <1>8, <1>10, <1>11 DEF FInv

(* A failed task takes its next attempt.                                   *)
LEMMA RetryStep ==
    ASSUME FInv, Retry
    PROVE  FInv'
<1>1. /\ KeyRowsOK /\ VersionsOK /\ SourceOK /\ TaskOK /\ FrozenOK /\ RunsOK /\ ObjectsOK /\ FileOK
      /\ task.status = "FAILED" /\ task.attempt < MaxAttempts
      /\ task' = [task EXCEPT !.status = "OPEN", !.attempt = @ + 1]
      /\ UNCHANGED <<rsaKeys, active, directory, source, objects, file, runs, opened>>
  BY DEF FInv, Retry
<1>2. task # NoTask
  BY <1>1 DEF NoTask
<1>3. /\ task = [status |-> task.status, attempt |-> task.attempt, size |-> task.size,
                 type |-> task.type, recipients |-> task.recipients]
      /\ task.attempt \in 1..MaxAttempts
  BY <1>1, <1>2 DEF TaskOK
<1>4. task' = [status |-> "OPEN", attempt |-> task.attempt + 1, size |-> task.size,
               type |-> task.type, recipients |-> task.recipients]
  BY <1>1, <1>3
<1>5. /\ task' = [status |-> task'.status, attempt |-> task'.attempt, size |-> task'.size,
                  type |-> task'.type, recipients |-> task'.recipients]
      /\ task'.status = "OPEN" /\ task'.attempt = task.attempt + 1 /\ task'.size = task.size
      /\ task'.type = task.type /\ task'.recipients = task.recipients
  BY <1>4
<1>6. task' # NoTask
  BY <1>5 DEF NoTask
<1>7. task'.attempt \in 1..MaxAttempts
  BY <1>1, <1>3, <1>5, FileKeysAssumption
<1>8. TaskOK'
  BY <1>1, <1>2, <1>5, <1>6, <1>7 DEF TaskOK
<1>9. KeyRowsOK' /\ VersionsOK' /\ FrozenOK'
  BY <1>1, <1>5, KeysStay
<1>10. SourceOK' /\ SourceGoesOn
  BY <1>1 DEF SourceOK, SourceGoesOn
<1>11. task.attempt \in Nat /\ task'.attempt \in Nat /\ task.attempt <= task'.attempt
  BY <1>3, <1>5, FileKeysAssumption
<1>12. TaskGoesOn
  BY <1>2, <1>5, <1>6, <1>11 DEF TaskGoesOn
<1>13. ObjectsOK' /\ ObjectsGoOn
  BY <1>1, <1>11, ObjectsStay
<1>14. RunsOK'
  <2>1. ASSUME NEW r \in Runs PROVE RunOK(r)'
    <3>1. RunOK(r) /\ runs'[r] = runs[r]
      BY <1>1 DEF RunsOK
    <3> QED BY <1>10, <1>12, <1>13, <3>1, RunStays
  <2> QED BY <1>1, <2>1 DEF RunsOK
<1>15. FileOK'
  BY <1>1, FileStays
<1> QED BY <1>8, <1>9, <1>10, <1>13, <1>14, <1>15 DEF FInv

(* A task is created with the recipients that are resolved and frozen then *)
(* (CreateTask).                                                           *)
LEMMA CreateStep ==
    ASSUME FInv, NEW r \in Runs, NEW type \in {"RSA_RECIPIENT", "RSA_RECIPIENTS"},
           NEW s \in Selections, CreateTask(r, type, s)
    PROVE  FInv'
<1> DEFINE snapshot == {Frozen(q) : q \in s}
           size == Len(source.bytes)
<1>1. /\ KeyRowsOK /\ VersionsOK /\ SourceOK /\ TaskOK /\ FrozenOK /\ RunsOK /\ ObjectsOK /\ FileOK
      /\ runs[r].pc = "idle" /\ size > 0
      /\ ValidateAuthorization(type, s) /\ authorizationIncludesOwner(s)
      /\ \/ task = NoTask /\ task' = [status |-> "OPEN", attempt |-> 1, size |-> size,
                                      type |-> type, recipients |-> snapshot]
         \/ task.size = size /\ task' = task
      /\ runs' = [runs EXCEPT ![r] = [NoRun EXCEPT !.pc = "open", !.recipients = s,
                                                   !.attempt = task'.attempt]]
      /\ UNCHANGED <<rsaKeys, active, directory, source, objects, file, opened>>
  BY Zenon DEF FInv, CreateTask
<1>2. size \in Nat
  BY <1>1 DEF SourceOK
<1>3. /\ \A q \in s : ActiveKey(q)
      /\ type # "RSA_RECIPIENTS" => Cardinality(s) = 1
  BY <1>1 DEF ValidateAuthorization, ValidateRecipientSet
<1>4. IsFiniteSet(s) /\ IsFiniteSet(snapshot)
  <2>1. \/ s = {}
        \/ \E q : s = {q}
        \/ \E p, q : s = {p, q}
    <3> DEFINE ones == {{q} : q \in directory}
               pairs == {{p, q} : p, q \in directory}
    <3>1. Selections = {{}} \cup ones \cup pairs
      BY DEF Selections
    <3>2. s \in ones => \E q : s = {q}
      OBVIOUS
    <3>3. s \in pairs => \E p, q : s = {p, q}
      OBVIOUS
    <3> HIDE DEF ones, pairs
    <3> QED BY <3>1, <3>2, <3>3
  <2>2. CASE s = {}
    <3>1. snapshot = {}
      BY <2>2
    <3> QED BY <2>2, <3>1, FS_EmptySet
  <2>3. CASE \E q : s = {q}
    <3>1. PICK q : s = {q}
      BY <2>3
    <3>2. snapshot = {Frozen(q)}
      BY <3>1
    <3> QED BY <3>1, <3>2, FS_Singleton
  <2>4. CASE \E p, q : s = {p, q}
    <3>1. PICK p, q : s = {p, q}
      BY <2>4
    <3>2. s = {p} \cup {q} /\ snapshot = {Frozen(p)} \cup {Frozen(q)}
      BY <3>1
    <3>3. IsFiniteSet({p}) /\ IsFiniteSet({Frozen(p)})
      BY FS_Singleton
    <3> QED BY <3>2, <3>3, FS_AddElement
  <2> QED BY <2>1, <2>2, <2>3, <2>4
<1>5. \A q \in s : q.key \in Registered /\ rsaKeys[q.key].user = q.user
  BY <1>3 DEF ActiveKey, ActiveKeys
<1>6. type # "RSA_RECIPIENTS" => \E q \in snapshot : snapshot = {q}
  <2> SUFFICES ASSUME type # "RSA_RECIPIENTS" PROVE \E q \in snapshot : snapshot = {q}
    OBVIOUS
  <2>1. PICK q : s = {q}
    BY <1>3, <1>4, FS_Singleton
  <2> QED BY <2>1
<1>7. \E q \in snapshot : q.user = Owner
  <2>1. PICK q \in s : q.user = Owner
    BY <1>1 DEF authorizationIncludesOwner
  <2>2. Frozen(q).user = Owner
    BY <2>1 DEF Frozen
  <2> QED BY <2>2
<1>8. \A q \in snapshot : /\ q.key \in Registered
                          /\ q.user = rsaKeys[q.key].user /\ q.version = rsaKeys[q.key].version
  <2> SUFFICES ASSUME NEW p \in s
               PROVE  /\ Frozen(p).key \in Registered
                      /\ Frozen(p).user = rsaKeys[Frozen(p).key].user
                      /\ Frozen(p).version = rsaKeys[Frozen(p).key].version
    OBVIOUS
  <2>1. /\ Frozen(p).key = p.key /\ Frozen(p).user = p.user
        /\ Frozen(p).version = rsaKeys[p.key].version
    BY DEF Frozen
  <2> QED BY <1>5, <2>1
<1> HIDE DEF snapshot, size
<1>9. /\ TaskOK' /\ FrozenOK' /\ TaskGoesOn /\ task' # NoTask
      /\ task.attempt \in Nat /\ task'.attempt \in Nat \ {0} /\ task.attempt <= task'.attempt
  <2>1. CASE task = NoTask /\ task' = [status |-> "OPEN", attempt |-> 1, size |-> size,
                                       type |-> type, recipients |-> snapshot]
    <3>1. /\ task' = [status |-> task'.status, attempt |-> task'.attempt, size |-> task'.size,
                      type |-> task'.type, recipients |-> task'.recipients]
          /\ task'.status = "OPEN" /\ task'.attempt = 1 /\ task'.size = size
          /\ task'.type = type /\ task'.recipients = snapshot
      BY <2>1
    <3>2. task' # NoTask /\ task.attempt = 0
      BY <2>1, <3>1 DEF NoTask
    <3>3. task'.attempt \in 1..MaxAttempts /\ task'.size \in Nat \ {0}
      BY <1>1, <1>2, <3>1, FileKeysAssumption
    <3>4. TaskOK'
      BY <1>4, <1>6, <1>7, <3>1, <3>3 DEF TaskOK
    <3>5. FrozenOK'
      <4>1. rsaKeys' = rsaKeys /\ Registered' = Registered
        BY <1>1 DEF Registered
      <4> QED BY <1>8, <3>1, <4>1 DEF FrozenOK
    <3> QED BY <2>1, <3>1, <3>2, <3>4, <3>5 DEF TaskGoesOn
  <2>2. CASE task.size = size /\ task' = task
    <3>1. task # NoTask
      BY <1>1, <1>2, <2>2 DEF NoTask
    <3>2. task.attempt \in Nat \ {0}
      BY <1>1, <3>1, FileKeysAssumption DEF TaskOK
    <3>3. TaskOK' /\ TaskGoesOn
      BY <1>1, <2>2 DEF TaskOK, TaskGoesOn
    <3>4. FrozenOK'
      BY <1>1, <2>2, KeysStay
    <3> QED BY <2>2, <3>1, <3>2, <3>3, <3>4
  <2> QED BY <1>1, <2>1, <2>2
<1>10. KeyRowsOK' /\ VersionsOK'
  BY <1>1, KeysStay
<1>11. SourceOK' /\ SourceGoesOn
  BY <1>1 DEF SourceOK, SourceGoesOn
<1>12. ObjectsOK' /\ ObjectsGoOn
  BY <1>1, <1>9, ObjectsStay
<1>13. RunOK(r)'
  <2>1. runs'[r] = [pc |-> "open", recipients |-> s, attempt |-> task'.attempt, plain |-> <<>>,
                    mtime |-> 0, header |-> Nil, chunks |-> <<>>]
    BY <1>1 DEF RunsOK, NoRun
  <2>2. task'.attempt \in 1..task'.attempt
    BY <1>9
  <2> QED BY <1>9, <2>1, <2>2, ShortRun
<1>14. RunsOK'
  BY <1>1, <1>9, <1>11, <1>12, <1>13, OneRunMoves
<1>15. FileOK'
  <2>1. task.status = "COMPLETED" => task' = task
    BY <1>1 DEF NoTask
  <2>2. \A q \in Runs : runs[q].pc = "ended" => runs'[q] = runs[q]
    BY <1>1 DEF RunsOK
  <2> QED BY <1>1, <2>1, <2>2, FileStays
<1> QED BY <1>9, <1>10, <1>11, <1>12, <1>14, <1>15 DEF FInv

(* A step of run r that leaves the rest as it is. *)
LEMMA ReadingStep ==
    ASSUME FInv, NEW r \in Runs, runs[r].pc \in {"open", "seal"},
           NEW x, runs' = [runs EXCEPT ![r] = x],
           x = [pc |-> x.pc, recipients |-> runs[r].recipients,
                attempt |-> runs[r].attempt, plain |-> x.plain,
                mtime |-> x.mtime, header |-> x.header, chunks |-> x.chunks],
           \/ x.pc = "seal" /\ Reading(r)'
           \/ x.pc = "upload" /\ Whole(r)',
           UNCHANGED <<rsaKeys, active, directory, source, task, objects, file, opened>>
    PROVE  FInv'
<1>1. /\ KeyRowsOK /\ VersionsOK /\ SourceOK /\ TaskOK /\ FrozenOK /\ RunsOK /\ ObjectsOK /\ FileOK
      /\ task' = task
  BY DEF FInv
<1>2. KeyRowsOK' /\ VersionsOK' /\ FrozenOK'
  BY <1>1, KeysStay
<1>3. SourceOK' /\ TaskOK' /\ ObjectsOK' /\ TaskGoesOn /\ SourceGoesOn /\ ObjectsGoOn
  BY <1>1 DEF SourceOK, TaskOK, ObjectsOK, TaskGoesOn, SourceGoesOn, ObjectsGoOn
<1>4. runs'[r] = x
  BY <1>1 DEF RunsOK
<1>5. task # NoTask /\ runs[r].attempt \in 1..task.attempt
  BY <1>1 DEF RunsOK, RunOK, NoRun
<1>6. x.attempt = runs[r].attempt /\ x.recipients = runs[r].recipients
  OBVIOUS
<1>7. RunOK(r)'
  <2>1. runs'[r] = [pc |-> runs'[r].pc, recipients |-> runs'[r].recipients,
                    attempt |-> runs'[r].attempt, plain |-> runs'[r].plain,
                    mtime |-> runs'[r].mtime, header |-> runs'[r].header,
                    chunks |-> runs'[r].chunks]
    BY <1>4, <1>6
  <2>2. runs'[r].pc = x.pc /\ runs'[r].attempt \in 1..task'.attempt /\ task' # NoTask
    BY <1>1, <1>4, <1>5, <1>6
  <2> QED BY <2>1, <2>2 DEF RunOK
<1>8. RunsOK'
  BY <1>1, <1>3, <1>7, OneRunMoves
<1>9. FileOK'
  <2>1. \A q \in Runs : runs[q].pc = "ended" => runs'[q] = runs[q]
    BY <1>1 DEF RunsOK
  <2> QED BY <1>1, <2>1, FileStays
<1> QED BY <1>2, <1>3, <1>8, <1>9 DEF FInv

(* What the invariant says of a single run.                                *)
LEMMA RunIs ==
    ASSUME FInv, NEW r \in Runs
    PROVE  /\ DOMAIN runs = Runs /\ RunOK(r)
           /\ runs[r] = [pc |-> runs[r].pc, recipients |-> runs[r].recipients,
                         attempt |-> runs[r].attempt, plain |-> runs[r].plain,
                         mtime |-> runs[r].mtime, header |-> runs[r].header,
                         chunks |-> runs[r].chunks]
<1> QED BY DEF FInv, RunsOK, RunOK

(* A run that only goes on to its next step keeps all the rest.            *)
LEMMA PcMoves ==
    ASSUME NEW run, NEW pc,
           run = [pc |-> run.pc, recipients |-> run.recipients, attempt |-> run.attempt,
                  plain |-> run.plain, mtime |-> run.mtime, header |-> run.header,
                  chunks |-> run.chunks]
    PROVE  [run EXCEPT !.pc = pc] =
             [pc |-> pc, recipients |-> run.recipients, attempt |-> run.attempt,
              plain |-> run.plain, mtime |-> run.mtime, header |-> run.header,
              chunks |-> run.chunks]
<1> DEFINE new == [run EXCEPT !.pc = pc]
<1>1. DOMAIN new = {"pc", "recipients", "attempt", "plain", "mtime", "header", "chunks"}
  OBVIOUS
<1>2. /\ new = [i \in DOMAIN new |-> new[i]]
      /\ new.pc = pc /\ new.recipients = run.recipients /\ new.attempt = run.attempt
      /\ new.plain = run.plain /\ new.mtime = run.mtime /\ new.header = run.header
      /\ new.chunks = run.chunks
  OBVIOUS
<1> HIDE DEF new
<1>3. new = [pc |-> pc, recipients |-> run.recipients, attempt |-> run.attempt,
             plain |-> run.plain, mtime |-> run.mtime, header |-> run.header,
             chunks |-> run.chunks]
  BY <1>1, <1>2
<1> QED BY <1>3 DEF new

(* The worker opens a source that still has the size of the task           *)
(* (OpenSource).                                                           *)
LEMMA OpenStep ==
    ASSUME FInv, NEW r \in Runs, OpenSource(r)
    PROVE  FInv'
<1> DEFINE run == runs[r]
           h == Header(r, run.attempt, task.size)
           x == [pc |-> "seal", recipients |-> run.recipients, attempt |-> run.attempt,
                 plain |-> source.bytes, mtime |-> source.mtime, header |-> h,
                 chunks |-> run.chunks]
<1>1. /\ SourceOK /\ TaskOK /\ DOMAIN runs = Runs /\ RunOK(r)
      /\ run = [pc |-> run.pc, recipients |-> run.recipients, attempt |-> run.attempt,
                plain |-> run.plain, mtime |-> run.mtime, header |-> run.header,
                chunks |-> run.chunks]
  BY RunIs DEF FInv
<1>2. /\ run.pc = "open" /\ Len(source.bytes) = task.size
      /\ UNCHANGED <<rsaKeys, active, directory, source, task, objects, file, opened>>
  BY DEF OpenSource
<1>3. runs' = [runs EXCEPT ![r] = x]
  <2>1. runs' = [runs EXCEPT ![r].pc = "seal", ![r].plain = source.bytes,
                             ![r].mtime = source.mtime, ![r].header = h]
    BY DEF OpenSource
  <2> DEFINE new == [run EXCEPT !.pc = "seal", !.plain = source.bytes, !.mtime = source.mtime,
                                !.header = h]
  <2>2. new = x
    <3> HIDE DEF run, h
    <3>1. DOMAIN new = {"pc", "recipients", "attempt", "plain", "mtime", "header", "chunks"}
      BY <1>1
    <3>2. /\ new = [i \in DOMAIN new |-> new[i]]
          /\ new.pc = "seal" /\ new.recipients = run.recipients /\ new.attempt = run.attempt
          /\ new.plain = source.bytes /\ new.mtime = source.mtime /\ new.header = h
          /\ new.chunks = run.chunks
      BY <1>1
    <3> HIDE DEF new
    <3> QED BY <3>1, <3>2
  <2>3. runs' = [runs EXCEPT ![r] = [run EXCEPT !.pc = "seal", !.plain = source.bytes,
                                                !.mtime = source.mtime, !.header = h]]
    <3> HIDE DEF h
    <3> QED BY <1>1, <2>1
  <2> HIDE DEF x
  <2> QED BY <2>2, <2>3
<1>4. runs'[r] = x
  BY <1>1, <1>3
<1>5. run.chunks = <<>>
  BY <1>1, <1>2 DEF RunOK
<1>6. ChunkCount(task.size) \in Nat
  BY <1>1, <1>2, ChunkCountIs DEF SourceOK
<1>7. Reading(r)'
  <2>1. /\ runs'[r].plain = source.bytes /\ runs'[r].mtime = source.mtime
        /\ runs'[r].header = h /\ runs'[r].chunks = <<>> /\ runs'[r].attempt = run.attempt
    BY <1>4, <1>5
  <2>2. IsSeq(<<>>) /\ Len(<<>>) = 0 /\ DOMAIN <<>> = {}
    <3>1. <<>> \in Seq({})
      OBVIOUS
    <3>2. IsSeq(<<>>)
      BY <3>1, SeqTyped
    <3> QED BY <3>2
  <2>3. task' = task /\ source' = source
    BY <1>2
  <2>4. PlainOK(r)'
    BY <1>1, <1>2, <2>1, <2>3 DEF PlainOK, SourceOK
  <2>5. (source.mtime \in Nat)' /\ source'.mtime <= source'.mtime
    BY <1>1, <2>3 DEF SourceOK
  <2> QED BY <1>6, <2>1, <2>2, <2>3, <2>4, <2>5 DEF Reading
<1>8. /\ x.pc = "seal"
      /\ x = [pc |-> x.pc, recipients |-> run.recipients, attempt |-> run.attempt,
              plain |-> x.plain, mtime |-> x.mtime, header |-> x.header, chunks |-> x.chunks]
  OBVIOUS
<1> HIDE DEF x
<1> QED BY <1>2, <1>3, <1>7, <1>8, ReadingStep

(* The worker seals one chunk more: the chunks so far are those of the     *)
(* bytes so far (EncryptChunk).                                            *)
LEMMA ChunkStep ==
    ASSUME FInv, NEW r \in Runs, EncryptChunk(r)
    PROVE  FInv'
<1> DEFINE run == runs[r]
           index == Len(run.chunks)
           wanted == Len(ChunkOf(run.plain, index))
           chunk == ChunkOf(source.bytes, index)
           sealed == SealedChunk(r, run.header, index, SubSeq(chunk, 1, wanted))
           cs == Append(run.chunks, sealed)
           x == [pc |-> run.pc, recipients |-> run.recipients, attempt |-> run.attempt,
                 plain |-> run.plain, mtime |-> run.mtime, header |-> run.header,
                 chunks |-> cs]
<1>1. /\ SourceOK /\ TaskOK /\ DOMAIN runs = Runs /\ RunOK(r)
      /\ run = [pc |-> run.pc, recipients |-> run.recipients, attempt |-> run.attempt,
                plain |-> run.plain, mtime |-> run.mtime, header |-> run.header,
                chunks |-> run.chunks]
  BY RunIs DEF FInv
<1>2. /\ run.pc = "seal" /\ index < run.header.chunkCount
      /\ UNCHANGED <<rsaKeys, active, directory, source, task, objects, file, opened>>
  BY DEF EncryptChunk
<1>3. runs' = [runs EXCEPT ![r] = x]
  <2>1. runs' = [runs EXCEPT ![r].chunks = cs]
    BY Zenon DEF EncryptChunk
  <2>2. [run EXCEPT !.chunks = cs] = x
    <3> HIDE DEF run, cs
    <3> QED BY <1>1
  <2>3. runs' = [runs EXCEPT ![r] = [run EXCEPT !.chunks = cs]]
    <3> HIDE DEF cs
    <3> QED BY <1>1, <2>1
  <2> HIDE DEF x
  <2> QED BY <2>2, <2>3
<1>4. Reading(r)
  BY <1>1, <1>2 DEF RunOK
<1>5. /\ run.plain \in Seq(Bytes) /\ Len(run.plain) = task.size
      /\ run.header = Header(r, run.attempt, task.size)
      /\ run.header.chunkCount = ChunkCount(task.size)
      /\ IsSeq(run.chunks) /\ index \in Nat /\ task.size \in Nat
  BY <1>4, SeqIs DEF Reading, PlainOK, Header
<1>6. ChunkCount(task.size) \in Nat /\ index < ChunkCount(task.size)
  BY <1>2, <1>5, ChunkCountIs
<1> DEFINE exact == Exact(r, run.attempt, run.plain).chunks
<1>7. source.bytes = run.plain => sealed = exact[index + 1]
  <2> SUFFICES ASSUME source.bytes = run.plain PROVE sealed = exact[index + 1]
    OBVIOUS
  <2>1. chunk \in Seq(Bytes) /\ wanted = Len(chunk)
    <3>1. chunk = ChunkOf(run.plain, index)
      OBVIOUS
    <3> QED BY <1>5, <1>6, <3>1, ChunkIs
  <2>2. SubSeq(chunk, 1, wanted) = chunk
    <3> HIDE DEF chunk, wanted
    <3> QED BY <2>1, SeqEqual
  <2>3. index + 1 \in 1..ChunkCount(task.size) /\ (index + 1) - 1 = index
    BY <1>5, <1>6
  <2>4. exact[index + 1] = SealedChunk(r, Header(r, run.attempt, task.size), (index + 1) - 1,
                                       ChunkOf(run.plain, (index + 1) - 1))
    BY <1>5, <2>3 DEF Exact
  <2> QED BY <1>5, <2>2, <2>3, <2>4
<1>8. sealed.sealed.dek = r
  BY DEF SealedChunk, Seal
<1>9. runs'[r] = x
  BY <1>1, <1>3
<1>10. /\ runs'[r].plain = run.plain /\ runs'[r].mtime = run.mtime
       /\ runs'[r].header = run.header /\ runs'[r].chunks = cs /\ runs'[r].attempt = run.attempt
  <2> HIDE DEF run, cs
  <2> QED BY <1>9
<1>11. /\ x.pc = "seal"
       /\ x = [pc |-> x.pc, recipients |-> run.recipients, attempt |-> run.attempt,
               plain |-> x.plain, mtime |-> x.mtime, header |-> x.header, chunks |-> x.chunks]
  <2> HIDE DEF run, cs
  <2> QED BY <1>2
<1> HIDE DEF x
<1>12. /\ IsSeq(cs) /\ Len(cs) = index + 1 /\ cs[index + 1] = sealed
       /\ \A i \in 1..index : cs[i] = run.chunks[i]
  <2>1. IsSeq(run.chunks)
    BY <1>5
  <2> DEFINE old == run.chunks
  <2>2. index = Len(old)
    OBVIOUS
  <2> HIDE DEF sealed, old
  <2>3. /\ IsSeq(Append(old, sealed)) /\ Len(Append(old, sealed)) = Len(old) + 1
        /\ Append(old, sealed)[Len(old) + 1] = sealed
    BY <2>1, SeqAppended, Zenon DEF old
  <2>4. \A i \in 1..Len(old) : Append(old, sealed)[i] = old[i]
    BY <2>1, SeqAppended, Zenon DEF old
  <2> QED BY <2>2, <2>3, <2>4, Zenon DEF old
<1> HIDE DEF cs, sealed
<1>13. DOMAIN cs = 1..(index + 1) /\ DOMAIN run.chunks = 1..index
  BY <1>5, <1>12, SeqIs
<1>14. Reading(r)'
  <2>1. PlainOK(r)'
    BY <1>2, <1>4, <1>10 DEF Reading, PlainOK
  <2>2. task' = task /\ source' = source
    BY <1>2
  <2>3. /\ (runs[r].header = Header(r, runs[r].attempt, task.size))'
        /\ (runs[r].mtime \in Nat /\ runs[r].mtime <= source.mtime)'
    BY <1>4, <1>5, <1>10, <2>2 DEF Reading
  <2>4. (IsSeq(runs[r].chunks))' /\ (Len(runs[r].chunks) <= ChunkCount(task.size))'
    BY <1>5, <1>6, <1>10, <1>12, <2>2
  <2>5. \A i \in 1..(index + 1) : i = index + 1 \/ i \in 1..index
    BY <1>5
  <2>6. \A i \in 1..(index + 1) : cs[i].sealed.dek = r
    <3>1. \A i \in 1..index : cs[i].sealed.dek = r
      BY <1>4, <1>12, <1>13 DEF Reading
    <3> QED BY <1>8, <1>12, <2>5, <3>1
  <2>7. ASSUME run.mtime = source.mtime
        PROVE  source.bytes = run.plain /\ \A i \in 1..(index + 1) : cs[i] = exact[i]
    <3>1. source.bytes = run.plain /\ \A i \in 1..index : run.chunks[i] = exact[i]
      BY <1>4, <1>13, <2>7 DEF Reading
    <3>2. cs[index + 1] = exact[index + 1]
      BY <1>7, <1>12, <3>1
    <3> HIDE DEF exact
    <3> QED BY <1>12, <2>5, <3>1, <3>2
  <2>8. (\A i \in DOMAIN runs[r].chunks : runs[r].chunks[i].sealed.dek = r)'
    BY <1>10, <1>13, <2>6
  <2>9. (runs[r].mtime = source.mtime =>
           /\ source.bytes = runs[r].plain
           /\ \A i \in DOMAIN runs[r].chunks :
                runs[r].chunks[i] = Exact(r, runs[r].attempt, runs[r].plain).chunks[i])'
    BY <1>10, <1>13, <2>2, <2>7
  <2> QED BY <2>1, <2>3, <2>4, <2>8, <2>9, Zenon DEF Reading
<1> QED BY <1>2, <1>3, <1>11, <1>14, ReadingStep

(* The worker ends only if the source is as it was opened: the container   *)
(* is whole (EncryptFile).                                                 *)
LEMMA SealedStep ==
    ASSUME FInv, NEW r \in Runs, EncryptFile(r)
    PROVE  FInv'
<1> DEFINE run == runs[r]
           x == [pc |-> "upload", recipients |-> run.recipients, attempt |-> run.attempt,
                 plain |-> run.plain, mtime |-> run.mtime, header |-> run.header,
                 chunks |-> run.chunks]
<1>1. /\ SourceOK /\ TaskOK /\ DOMAIN runs = Runs /\ RunOK(r)
      /\ run = [pc |-> run.pc, recipients |-> run.recipients, attempt |-> run.attempt,
                plain |-> run.plain, mtime |-> run.mtime, header |-> run.header,
                chunks |-> run.chunks]
  BY RunIs DEF FInv
<1>2. /\ run.pc = "seal" /\ Len(run.chunks) = run.header.chunkCount
      /\ source.mtime = run.mtime
      /\ UNCHANGED <<rsaKeys, active, directory, source, task, objects, file, opened>>
  BY DEF EncryptFile, SourceUnchanged
<1>3. runs' = [runs EXCEPT ![r] = x]
  <2>1. runs' = [runs EXCEPT ![r].pc = "upload"]
    BY DEF EncryptFile
  <2>2. [run EXCEPT !.pc = "upload"] = x
    <3> HIDE DEF run
    <3> QED BY <1>1, PcMoves, Zenon
  <2>3. runs' = [runs EXCEPT ![r] = [run EXCEPT !.pc = "upload"]]
    BY <1>1, <2>1
  <2> HIDE DEF x
  <2> QED BY <2>2, <2>3
<1>4. Reading(r)
  BY <1>1, <1>2 DEF RunOK
<1> DEFINE exact == Exact(r, run.attempt, run.plain)
           n == ChunkCount(task.size)
<1>5. /\ PlainOK(r) /\ Len(run.plain) = task.size
      /\ run.header = Header(r, run.attempt, task.size)
      /\ IsSeq(run.chunks) /\ Len(run.chunks) = n
      /\ \A i \in DOMAIN run.chunks : run.chunks[i] = exact.chunks[i]
  BY <1>2, <1>4 DEF Reading, PlainOK, Header
<1>6. run.chunks = exact.chunks
  <2>1. DOMAIN run.chunks = 1..n /\ run.chunks = [i \in 1..n |-> run.chunks[i]]
    BY <1>5 DEF IsSeq
  <2>2. exact.chunks = [i \in 1..n |-> exact.chunks[i]]
    BY <1>5 DEF Exact
  <2> HIDE DEF exact, n
  <2> QED BY <1>5, <2>1, <2>2
<1>7. exact = [header |-> run.header, chunks |-> exact.chunks]
  BY <1>5 DEF Exact
<1>8. ContainerOf(r) = exact
  BY <1>6, <1>7 DEF ContainerOf
<1>9. runs'[r] = x
  BY <1>1, <1>3
<1>10. /\ runs'[r].plain = run.plain /\ runs'[r].attempt = run.attempt
       /\ runs'[r].header = run.header /\ runs'[r].chunks = run.chunks
  <2> HIDE DEF run
  <2> QED BY <1>9
<1>11. Whole(r)'
  <2>1. PlainOK(r)'
    BY <1>2, <1>5, <1>10 DEF PlainOK
  <2>2. ContainerOf(r)' = ContainerOf(r)
    BY <1>10 DEF ContainerOf
  <2> QED BY <1>8, <1>10, <2>1, <2>2 DEF Whole
<1>12. /\ x.pc = "upload"
       /\ x = [pc |-> x.pc, recipients |-> run.recipients, attempt |-> run.attempt,
               plain |-> x.plain, mtime |-> x.mtime, header |-> x.header, chunks |-> x.chunks]
  <2> HIDE DEF run
  <2> QED OBVIOUS
<1> HIDE DEF x
<1> QED BY <1>2, <1>3, <1>11, <1>12, ReadingStep

(***************************************************************************)
(* Objects and the file                                                    *)
(***************************************************************************)
LEMMA WholeStays ==
    ASSUME NEW r \in Runs, Whole(r), DOMAIN runs = Runs, NEW pc,
           runs[r] = [pc |-> runs[r].pc, recipients |-> runs[r].recipients,
                      attempt |-> runs[r].attempt, plain |-> runs[r].plain,
                      mtime |-> runs[r].mtime, header |-> runs[r].header,
                      chunks |-> runs[r].chunks],
           runs' = [runs EXCEPT ![r].pc = pc], task'.size = task.size
    PROVE  /\ Whole(r)' /\ ContainerOf(r)' = ContainerOf(r)
           /\ runs' = [runs EXCEPT ![r] = runs'[r]]
           /\ runs'[r] = [pc |-> runs'[r].pc, recipients |-> runs'[r].recipients,
                          attempt |-> runs'[r].attempt, plain |-> runs'[r].plain,
                          mtime |-> runs'[r].mtime, header |-> runs'[r].header,
                          chunks |-> runs'[r].chunks]
           /\ runs'[r].pc = pc /\ runs'[r].attempt = runs[r].attempt
           /\ runs'[r].plain = runs[r].plain /\ runs'[r].header = runs[r].header
           /\ runs'[r].chunks = runs[r].chunks
<1> DEFINE run == runs[r]
           x == [pc |-> pc, recipients |-> run.recipients, attempt |-> run.attempt,
                 plain |-> run.plain, mtime |-> run.mtime, header |-> run.header,
                 chunks |-> run.chunks]
           new == [run EXCEPT !.pc = pc]
<1>1. new = x
  <2>1. run = [pc |-> run.pc, recipients |-> run.recipients, attempt |-> run.attempt,
               plain |-> run.plain, mtime |-> run.mtime, header |-> run.header,
               chunks |-> run.chunks]
    OBVIOUS
  <2> HIDE DEF run
  <2>2. DOMAIN new = {"pc", "recipients", "attempt", "plain", "mtime", "header", "chunks"}
    BY <2>1
  <2>3. /\ new = [i \in DOMAIN new |-> new[i]]
        /\ new.pc = pc /\ new.recipients = run.recipients /\ new.attempt = run.attempt
        /\ new.plain = run.plain /\ new.mtime = run.mtime /\ new.header = run.header
        /\ new.chunks = run.chunks
    BY <2>1
  <2> HIDE DEF new
  <2> QED BY <2>2, <2>3
<1>2. runs' = [runs EXCEPT ![r] = new] /\ runs'[r] = new
  OBVIOUS
<1> HIDE DEF new
<1>3. runs' = [runs EXCEPT ![r] = x] /\ runs'[r] = x
  BY <1>1, <1>2
<1>4. /\ x.pc = pc /\ x.attempt = run.attempt /\ x.plain = run.plain
      /\ x.header = run.header /\ x.chunks = run.chunks
      /\ x = [pc |-> x.pc, recipients |-> x.recipients, attempt |-> x.attempt,
              plain |-> x.plain, mtime |-> x.mtime, header |-> x.header, chunks |-> x.chunks]
  <2> HIDE DEF run
  <2> QED OBVIOUS
<1> HIDE DEF x
<1>5. /\ runs'[r].pc = pc /\ runs'[r].attempt = runs[r].attempt
      /\ runs'[r].plain = runs[r].plain /\ runs'[r].header = runs[r].header
      /\ runs'[r].chunks = runs[r].chunks
  BY <1>3, <1>4
<1>6. ContainerOf(r)' = ContainerOf(r)
  BY <1>5 DEF ContainerOf
<1>7. Whole(r)'
  BY <1>5, <1>6 DEF Whole, PlainOK
<1> QED BY <1>3, <1>4, <1>5, <1>6, <1>7

(* The container is stored under a new object of its attempt               *)
(* (UploadCiphertext).                                                     *)
LEMMA UploadStep ==
    ASSUME FInv, NEW r \in Runs, UploadCiphertext(r)
    PROVE  FInv'
<1> DEFINE attempt == runs[r].attempt
           container == ContainerOf(r)
           object == [attempt |-> attempt, status |-> "STAGING",
                      uploaded |-> container, stored |-> container]
<1>1. /\ KeyRowsOK /\ VersionsOK /\ SourceOK /\ TaskOK /\ FrozenOK /\ RunsOK /\ ObjectsOK /\ FileOK
      /\ runs[r].pc = "upload"
      /\ \/ /\ \E i \in DOMAIN objects : objects[i].attempt = attempt /\ objects[i].uploaded = container
            /\ objects' = objects
            /\ runs' = [runs EXCEPT ![r].pc = "complete"]
         \/ /\ \A i \in DOMAIN objects : objects[i].attempt # attempt
            /\ objects' = Append(objects, object)
            /\ runs' = [runs EXCEPT ![r].pc = "complete"] \/ runs' = runs
      /\ UNCHANGED <<rsaKeys, active, directory, source, task, file, opened>>
  BY DEF FInv, UploadCiphertext, Staged, sameStagingUpload
<1>2. /\ DOMAIN runs = Runs /\ RunOK(r) /\ Whole(r) /\ attempt \in 1..task.attempt
      /\ runs[r] = [pc |-> runs[r].pc, recipients |-> runs[r].recipients,
                    attempt |-> runs[r].attempt, plain |-> runs[r].plain,
                    mtime |-> runs[r].mtime, header |-> runs[r].header,
                    chunks |-> runs[r].chunks]
  BY <1>1 DEF RunsOK, RunOK
<1>3. KeyRowsOK' /\ VersionsOK' /\ FrozenOK'
  BY <1>1, KeysStay
<1>4. SourceOK' /\ TaskOK' /\ TaskGoesOn /\ SourceGoesOn
  BY <1>1 DEF SourceOK, TaskOK, TaskGoesOn, SourceGoesOn
<1>5. /\ ObjectsOK' /\ ObjectsGoOn
      /\ \A i \in DOMAIN objects : i \in DOMAIN objects' /\ objects'[i] = objects[i]
      /\ \E i \in DOMAIN objects' : objects'[i].attempt = attempt /\ objects'[i].uploaded = container
  <2>1. CASE objects' = objects /\ \E i \in DOMAIN objects :
                                     objects[i].attempt = attempt /\ objects[i].uploaded = container
    BY <1>1, <2>1 DEF ObjectsOK, ObjectsGoOn
  <2>2. CASE /\ \A i \in DOMAIN objects : objects[i].attempt # attempt
             /\ objects' = Append(objects, object)
    <3> DEFINE n == Len(objects)
    <3>1. IsSeq(objects)
      BY <1>1 DEF ObjectsOK
    <3>2. n \in Nat /\ DOMAIN objects = 1..n
      BY <3>1, SeqIs
    <3>3. /\ object.attempt = attempt /\ object.uploaded = container
          /\ object.stored = container
          /\ object = [attempt |-> object.attempt, status |-> object.status,
                       uploaded |-> object.uploaded, stored |-> object.stored]
      <4> HIDE DEF attempt, container
      <4> QED OBVIOUS
    <3> HIDE DEF object, attempt, container, n
    <3>4. /\ IsSeq(Append(objects, object)) /\ Len(Append(objects, object)) = n + 1
          /\ Append(objects, object)[n + 1] = object
      BY <3>1, SeqAppended, Zenon DEF n
    <3>5. \A i \in 1..n : Append(objects, object)[i] = objects[i]
      BY <3>1, SeqAppended, Zenon DEF n
    <3> DEFINE new == objects'
    <3>6. /\ IsSeq(new) /\ Len(new) = n + 1 /\ new[n + 1] = object
          /\ \A i \in 1..n : new[i] = objects[i]
      BY <2>2, <3>4, <3>5, Zenon
    <3> HIDE DEF new
    <3>7. DOMAIN new = 1..(n + 1)
      BY <3>6, SeqIs
    <3>8. \A i \in 1..(n + 1) : i = n + 1 \/ i \in 1..n
      BY <3>2
    <3>9. \A i \in DOMAIN objects : i \in DOMAIN new /\ new[i] = objects[i]
      BY <3>2, <3>6, <3>7
    <3>10. ASSUME NEW i \in DOMAIN new
           PROVE  /\ new[i] = [attempt |-> new[i].attempt, status |-> new[i].status,
                               uploaded |-> new[i].uploaded, stored |-> new[i].stored]
                  /\ new[i].attempt \in 1..task.attempt
                  /\ file.status # "AVAILABLE" => new[i].stored = new[i].uploaded
      <4>1. CASE i = n + 1
        BY <1>2, <3>3, <3>6, <4>1 DEF attempt
      <4>2. CASE i \in 1..n
        <5>1. i \in DOMAIN objects /\ new[i] = objects[i]
          BY <3>2, <3>6, <4>2
        <5> QED BY <1>1, <5>1 DEF ObjectsOK
      <4> QED BY <3>7, <3>8, <4>1, <4>2
    <3>11. ASSUME NEW i \in DOMAIN new, NEW j \in DOMAIN new, new[i].attempt = new[j].attempt
           PROVE  i = j
      <4>1. CASE i \in 1..n /\ j \in 1..n
        <5>1. objects[i].attempt = objects[j].attempt /\ i \in DOMAIN objects /\ j \in DOMAIN objects
          BY <3>2, <3>6, <3>11, <4>1
        <5> QED BY <1>1, <5>1 DEF ObjectsOK
      <4>2. CASE i = n + 1 /\ j \in 1..n
        <5>1. objects[j].attempt = attempt /\ j \in DOMAIN objects
          BY <3>2, <3>3, <3>6, <3>11, <4>2
        <5> QED BY <2>2, <5>1
      <4>3. CASE i \in 1..n /\ j = n + 1
        <5>1. objects[i].attempt = attempt /\ i \in DOMAIN objects
          BY <3>2, <3>3, <3>6, <3>11, <4>3
        <5> QED BY <2>2, <5>1
      <4> QED BY <3>7, <3>8, <4>1, <4>2, <4>3
    <3>12. n + 1 \in DOMAIN new
      BY <3>2, <3>7
    <3>13. task' = task /\ file' = file
      BY <1>1
    <3>14. ObjectsOK'
      BY <3>6, <3>10, <3>11, <3>13 DEF ObjectsOK, new
    <3>15. ObjectsGoOn
      BY <3>9 DEF ObjectsGoOn, new
    <3>16. \E i \in DOMAIN new : new[i].attempt = attempt /\ new[i].uploaded = container
      BY <3>3, <3>6, <3>12
    <3> QED BY <3>9, <3>14, <3>15, <3>16 DEF new
  <2> QED BY <1>1, <2>1, <2>2
<1> HIDE DEF object
<1>6. CASE runs' = [runs EXCEPT ![r].pc = "complete"]
  <2>1. /\ Whole(r)' /\ ContainerOf(r)' = ContainerOf(r)
        /\ runs' = [runs EXCEPT ![r] = runs'[r]]
        /\ runs'[r] = [pc |-> runs'[r].pc, recipients |-> runs'[r].recipients,
                       attempt |-> runs'[r].attempt, plain |-> runs'[r].plain,
                       mtime |-> runs'[r].mtime, header |-> runs'[r].header,
                       chunks |-> runs'[r].chunks]
        /\ runs'[r].pc = "complete" /\ runs'[r].attempt = attempt
    BY <1>1, <1>2, <1>6, WholeStays
  <2>2. Uploaded(r)'
    BY <1>5, <2>1 DEF Uploaded
  <2>3. task # NoTask /\ task' = task
    BY <1>1, <1>2 DEF RunOK, NoRun
  <2>4. RunOK(r)'
    BY <1>2, <2>1, <2>2, <2>3 DEF RunOK
  <2>5. RunsOK'
    BY <1>1, <1>4, <1>5, <2>1, <2>4, OneRunMoves
  <2>6. \A q \in Runs : runs[q].pc = "ended" => runs'[q] = runs[q]
    BY <1>1, <1>2, <1>6
  <2>7. FileOK'
    BY <1>1, <1>5, <2>6, FileStays
  <2> QED BY <1>3, <1>4, <1>5, <2>5, <2>7 DEF FInv
<1>7. CASE runs' = runs
  <2>1. RunsOK'
    <3>1. ASSUME NEW q \in Runs PROVE RunOK(q)'
      <4>1. RunOK(q) /\ runs'[q] = runs[q]
        BY <1>1, <1>7 DEF RunsOK
      <4> QED BY <1>4, <1>5, <4>1, RunStays
    <3> QED BY <1>2, <1>7, <3>1 DEF RunsOK
  <2>2. FileOK'
    BY <1>1, <1>5, <1>7, FileStays
  <2> QED BY <1>3, <1>4, <1>5, <2>1, <2>2 DEF FInv
<1> QED BY <1>1, <1>6, <1>7

(* The bindings of finitely many recipients are finitely many.             *)
LEMMA BindingsFinite ==
    ASSUME NEW S, IsFiniteSet(S)
    PROVE  IsFiniteSet({[user |-> q.user, key |-> q.key] : q \in S})
<1> DEFINE T == {[user |-> q.user, key |-> q.key] : q \in S}
           f == [q \in S |-> [user |-> q.user, key |-> q.key]]
<1>1. f \in [S -> T] /\ \A t \in T : \E q \in S : f[q] = t
  OBVIOUS
<1> HIDE DEF f, T
<1>2. f \in Surjection(S, T)
  BY <1>1 DEF Surjection
<1>3. IsFiniteSet(T)
  BY <1>2, FS_Surjection
<1> QED BY <1>3 DEF T

(* The payload names the frozen recipients, each of them. *)
LEMMA AcceptedIs ==
    ASSUME TaskOK, task # NoTask, NEW n \in Nat \ {0}, NEW payload,
           IsSeq(payload), Len(payload) = n, NEW context,
           ProtectedKeysAccepted(payload, context)
    PROVE  /\ \A i \in 1..n : \E q \in task.recipients :
                q.user = payload[i].recipient.user /\ q.key = payload[i].recipient.key
           /\ \A q \in task.recipients : \E i \in 1..n :
                q.user = payload[i].recipient.user /\ q.key = payload[i].recipient.key
<1> DEFINE expected == frozenRecipientBindings
           identities == {payload[i].recipient : i \in 1..n}
<1>1. DOMAIN payload = 1..n /\ Len(payload) = n
  BY SeqIs
<1>2. \A i \in 1..n : ValidateCompletion(payload[i])
  BY <1>1 DEF ProtectedKeysAccepted
<1>3. \A i \in 1..n : \E q \in task.recipients :
        q.user = payload[i].recipient.user /\ q.key = payload[i].recipient.key
  BY <1>2 DEF ValidateCompletion, findFrozenRSARecipient
<1>4. CASE task.type = "RSA_RECIPIENTS"
  <2>1. expected = {[user |-> q.user, key |-> q.key] : q \in task.recipients}
    BY <1>4 DEF frozenRecipientBindings
  <2>2. IsFiniteSet(expected)
    BY <2>1, BindingsFinite DEF TaskOK
  <2>3. expected # {}
    <3>1. PICK q \in task.recipients : q.user = Owner
      BY DEF TaskOK
    <3> QED BY <2>1, <3>1
  <2>4. identities = {payload[i].recipient : i \in DOMAIN payload}
    BY <1>1
  <2>5. n = Cardinality(expected) /\ identities \subseteq expected /\ Cardinality(identities) = n
    <3> HIDE DEF expected, identities
    <3> QED BY <1>1, <2>3, <2>4 DEF ProtectedKeysAccepted, expected
  <2>6. expected = identities
    <3> HIDE DEF expected, identities
    <3> QED BY <2>2, <2>5, FS_Subset
  <2>7. ASSUME NEW q \in task.recipients
        PROVE  \E i \in 1..n : q.user = payload[i].recipient.user /\ q.key = payload[i].recipient.key
    <3>1. [user |-> q.user, key |-> q.key] \in identities
      BY <2>1, <2>6
    <3>2. PICK i \in 1..n : [user |-> q.user, key |-> q.key] = payload[i].recipient
      BY <3>1
    <3> QED BY <3>2
  <2> QED BY <1>3, <2>7
<1>5. CASE task.type # "RSA_RECIPIENTS"
  <2>1. PICK q \in task.recipients : task.recipients = {q}
    BY <1>5 DEF TaskOK
  <2>2. 1 \in 1..n
    OBVIOUS
  <2>3. q.user = payload[1].recipient.user /\ q.key = payload[1].recipient.key
    BY <1>3, <2>1, <2>2
  <2> QED BY <1>3, <2>1, <2>2, <2>3
<1> QED BY <1>4, <1>5

(* The attempt that is completed is the task's, its object is its          *)
(* container, and its envelopes are those of the frozen recipients         *)
(* (Complete).                                                             *)
LEMMA CompleteStep ==
    ASSUME FInv, NEW r \in Runs, NEW s \in Submissions(r), Complete(r, s)
    PROVE  FInv'
<1> DEFINE latest == Len(objects)
           context == runs[r].header
           payload == [i \in DOMAIN s |-> ProtectedKey(r, s[i])]
           envelopes == PersistProtectedKeys(payload, context)
<1>1. /\ KeyRowsOK /\ VersionsOK /\ SourceOK /\ TaskOK /\ FrozenOK /\ RunsOK /\ ObjectsOK /\ FileOK
      /\ runs[r].pc = "complete" /\ task.status = "OPEN"
      /\ objects[latest].attempt = runs[r].attempt
      /\ ProtectedKeysAccepted(payload, context)
      /\ objects' = [objects EXCEPT ![latest].status = "AVAILABLE"]
      /\ file' = [status |-> "AVAILABLE", object |-> latest, envelopes |-> envelopes]
      /\ task' = [task EXCEPT !.status = "COMPLETED"]
      /\ runs' = [runs EXCEPT ![r].pc = "ended"]
      /\ UNCHANGED <<rsaKeys, active, directory, source, opened>>
  BY Zenon DEF FInv, Complete, FindOwnedFile
<1>2. /\ DOMAIN runs = Runs /\ RunOK(r) /\ Whole(r) /\ Uploaded(r) /\ task # NoTask
      /\ runs[r] = [pc |-> runs[r].pc, recipients |-> runs[r].recipients,
                    attempt |-> runs[r].attempt, plain |-> runs[r].plain,
                    mtime |-> runs[r].mtime, header |-> runs[r].header,
                    chunks |-> runs[r].chunks]
  BY <1>1 DEF RunsOK, RunOK, NoRun
<1>3. /\ task = [status |-> task.status, attempt |-> task.attempt, size |-> task.size,
                 type |-> task.type, recipients |-> task.recipients]
      /\ task.attempt \in 1..MaxAttempts /\ task.size \in Nat \ {0}
  BY <1>1, <1>2 DEF TaskOK
<1>4. /\ task' = [status |-> task'.status, attempt |-> task'.attempt, size |-> task'.size,
                  type |-> task'.type, recipients |-> task'.recipients]
      /\ task'.status = "COMPLETED" /\ task'.attempt = task.attempt /\ task'.size = task.size
      /\ task'.type = task.type /\ task'.recipients = task.recipients
  <2>1. task' = [status |-> "COMPLETED", attempt |-> task.attempt, size |-> task.size,
                 type |-> task.type, recipients |-> task.recipients]
    BY <1>1, <1>3
  <2> QED BY <2>1
<1>5. task' # NoTask
  BY <1>4 DEF NoTask
<1>6. TaskOK' /\ TaskGoesOn
  BY <1>1, <1>2, <1>3, <1>4, <1>5, FileKeysAssumption DEF TaskOK, TaskGoesOn
<1>7. KeyRowsOK' /\ VersionsOK' /\ FrozenOK'
  BY <1>1, <1>4, KeysStay
<1>8. SourceOK' /\ SourceGoesOn
  BY <1>1 DEF SourceOK, SourceGoesOn
<1>9. IsSeq(objects) /\ latest \in Nat /\ DOMAIN objects = 1..latest
  BY <1>1, SeqIs DEF ObjectsOK
<1>10. /\ latest \in DOMAIN objects
       /\ objects[latest].uploaded = ContainerOf(r)
  <2>1. PICK i \in DOMAIN objects :
               objects[i].attempt = runs[r].attempt /\ objects[i].uploaded = ContainerOf(r)
    BY <1>2 DEF Uploaded
  <2>2. latest \in DOMAIN objects
    BY <1>9, <2>1
  <2>3. i = latest
    BY <1>1, <2>1, <2>2 DEF ObjectsOK
  <2> QED BY <2>1, <2>2, <2>3
<1>11. file.status # "AVAILABLE"
  BY <1>1 DEF FileOK
<1> DEFINE old == objects[latest]
           new == [attempt |-> old.attempt, status |-> "AVAILABLE",
                   uploaded |-> old.uploaded, stored |-> old.stored]
<1>12. /\ objects' = [objects EXCEPT ![latest] = new]
       /\ old.stored = old.uploaded
  <2>1. /\ old = [attempt |-> old.attempt, status |-> old.status,
                  uploaded |-> old.uploaded, stored |-> old.stored]
        /\ old.stored = old.uploaded
    BY <1>1, <1>10, <1>11 DEF ObjectsOK
  <2> DEFINE set == [old EXCEPT !.status = "AVAILABLE"]
  <2>2. objects' = [objects EXCEPT ![latest] = set]
    BY <1>1
  <2>3. set = new
    <3> HIDE DEF old
    <3>1. DOMAIN set = {"attempt", "status", "uploaded", "stored"}
      BY <2>1
    <3>2. /\ set = [i \in DOMAIN set |-> set[i]]
          /\ set.attempt = old.attempt /\ set.status = "AVAILABLE"
          /\ set.uploaded = old.uploaded /\ set.stored = old.stored
      BY <2>1
    <3> HIDE DEF set
    <3> QED BY <3>1, <3>2
  <2> HIDE DEF set, new
  <2> QED BY <2>1, <2>2, <2>3
<1>13. /\ new.attempt = old.attempt /\ new.status = "AVAILABLE"
       /\ new.uploaded = old.uploaded /\ new.stored = old.stored
       /\ new = [attempt |-> new.attempt, status |-> new.status,
                 uploaded |-> new.uploaded, stored |-> new.stored]
  <2> HIDE DEF old
  <2> QED OBVIOUS
<1> HIDE DEF new, latest
<1>14. /\ DOMAIN objects' = DOMAIN objects /\ objects'[latest] = new
       /\ \A i \in DOMAIN objects : i # latest => objects'[i] = objects[i]
       /\ objects' = [i \in DOMAIN objects |-> objects'[i]]
  BY <1>10, <1>12
<1>15. ObjectsGoOn
  <2>1. ASSUME NEW i \in DOMAIN objects
        PROVE  /\ objects'[i].attempt = objects[i].attempt
               /\ objects'[i].uploaded = objects[i].uploaded
    BY <1>13, <1>14
  <2> QED BY <1>14, <2>1 DEF ObjectsGoOn
<1>16. ObjectsOK'
  <2>1. IsSeq(objects')
    <3> DEFINE t == objects'
    <3>1. t = [i \in 1..latest |-> t[i]]
      BY <1>9, <1>14
    <3> HIDE DEF t
    <3>2. IsSeq(t)
      BY <1>9, <3>1, SeqMade
    <3> QED BY <3>2 DEF t
  <2>2. (IsSeq(objects))'
    BY <2>1
  <2>3. ASSUME NEW i \in DOMAIN objects
        PROVE  /\ objects'[i] = [attempt |-> objects'[i].attempt, status |-> objects'[i].status,
                                 uploaded |-> objects'[i].uploaded, stored |-> objects'[i].stored]
               /\ objects'[i].attempt \in 1..task'.attempt
    <3>1. objects[i].attempt \in 1..task'.attempt
      BY <1>1, <1>4 DEF ObjectsOK
    <3>2. CASE i = latest
      BY <1>13, <1>14, <3>1, <3>2
    <3>3. CASE i # latest
      BY <1>1, <1>14, <3>1, <3>3 DEF ObjectsOK
    <3> QED BY <3>2, <3>3
  <2>4. \A i, j \in DOMAIN objects : objects'[i].attempt = objects'[j].attempt => i = j
    BY <1>1, <1>15 DEF ObjectsOK, ObjectsGoOn
  <2>5. file'.status = "AVAILABLE"
    BY <1>1
  <2> QED BY <1>14, <2>2, <2>3, <2>4, <2>5 DEF ObjectsOK
<1>17. /\ Whole(r)' /\ ContainerOf(r)' = ContainerOf(r)
       /\ runs' = [runs EXCEPT ![r] = runs'[r]]
       /\ runs'[r] = [pc |-> runs'[r].pc, recipients |-> runs'[r].recipients,
                      attempt |-> runs'[r].attempt, plain |-> runs'[r].plain,
                      mtime |-> runs'[r].mtime, header |-> runs'[r].header,
                      chunks |-> runs'[r].chunks]
       /\ runs'[r].pc = "ended" /\ runs'[r].header = runs[r].header
       /\ runs'[r].chunks = runs[r].chunks
  BY <1>1, <1>2, <1>4, WholeStays
<1>18. RunOK(r)'
  BY <1>5, <1>17 DEF RunOK
<1>19. RunsOK'
  BY <1>1, <1>6, <1>8, <1>15, <1>17, <1>18, OneRunMoves
<1>20. IsSeq(runs[r].chunks) /\ DOMAIN runs[r].chunks = 1..Len(runs[r].chunks)
  <2>1. /\ runs[r].plain \in Seq(Bytes) /\ Len(runs[r].plain) > 0
        /\ ContainerOf(r) = Exact(r, runs[r].attempt, runs[r].plain)
    BY <1>2, <1>3 DEF Whole, PlainOK
  <2>2. IsSeq(ContainerOf(r).chunks)
    BY <2>1, ExactIs
  <2> QED BY <2>2, SeqIs DEF ContainerOf
<1>21. Pieces(r, objects[file.object].stored)'
  <2>1. file'.object = latest
    BY <1>1
  <2>2. objects'[file'.object].stored = ContainerOf(r)
    BY <1>10, <1>12, <1>13, <1>14, <2>1
  <2>3. ContainerOf(r).chunks = runs[r].chunks
    BY DEF ContainerOf
  <2>4. objects'[file'.object].stored.chunks = runs[r].chunks
    BY <2>2, <2>3
  <2> QED BY <1>17, <1>20, <2>4 DEF Pieces
<1>22. EnvelopesOK(r)'
  <2>1. PICK n \in 1..2 : s \in [1..n -> runs[r].recipients]
    BY DEF Submissions
  <2>2. n \in Nat \ {0} /\ DOMAIN s = 1..n
    BY <2>1
  <2>3. payload = [i \in 1..n |-> payload[i]]
    BY <2>2
  <2>4. ASSUME NEW i \in 1..n
        PROVE  /\ payload[i].protected = Protect(r, payload[i].recipient.key, context)
               /\ payload[i].recipient = s[i]
    <3>1. payload[i] = [recipient |-> s[i], protected |-> Protect(r, s[i].key, context)]
      BY <2>2 DEF ProtectedKey
    <3> HIDE DEF payload
    <3> QED BY <3>1
  <2>5. envelopes = {[recipient |-> payload[i].recipient, protected |-> payload[i].protected,
                      context |-> context] : i \in 1..n}
    BY <2>2 DEF PersistProtectedKeys
  <2> HIDE DEF payload
  <2>6. /\ \A i \in 1..n : \E q \in task.recipients :
             q.user = payload[i].recipient.user /\ q.key = payload[i].recipient.key
        /\ \A q \in task.recipients : \E i \in 1..n :
             q.user = payload[i].recipient.user /\ q.key = payload[i].recipient.key
    <3>1. ProtectedKeysAccepted(payload, context) /\ TaskOK /\ task # NoTask
      BY <1>1, <1>2
    <3>2. IsSeq(payload) /\ Len(payload) = n
      BY <2>2, <2>3, SeqMade
    <3> HIDE DEF context
    <3> QED BY <2>2, <3>1, <3>2, AcceptedIs
  <2>7. file'.envelopes = envelopes
    BY <1>1
  <2> HIDE DEF envelopes
  <2>8. ASSUME NEW e \in envelopes
        PROVE  /\ e.context = context
               /\ e.protected = Protect(r, e.recipient.key, context)
               /\ \E q \in task.recipients : q.user = e.recipient.user /\ q.key = e.recipient.key
    <3>1. PICK i \in 1..n : e = [recipient |-> payload[i].recipient,
                                 protected |-> payload[i].protected, context |-> context]
      BY <2>5
    <3>2. e.context = context /\ e.recipient = payload[i].recipient
          /\ e.protected = payload[i].protected
      BY <3>1
    <3> QED BY <2>4, <2>6, <3>2
  <2>9. ASSUME NEW q \in task.recipients
        PROVE  \E e \in envelopes : q.user = e.recipient.user /\ q.key = e.recipient.key
    <3>1. PICK i \in 1..n : q.user = payload[i].recipient.user /\ q.key = payload[i].recipient.key
      BY <2>6
    <3> DEFINE e == [recipient |-> payload[i].recipient,
                     protected |-> payload[i].protected, context |-> context]
    <3>2. e \in envelopes /\ e.recipient = payload[i].recipient
      BY <2>5
    <3> QED BY <3>1, <3>2
  <2> QED BY <1>4, <1>17, <2>7, <2>8, <2>9 DEF EnvelopesOK
<1>23. CompletedBy(r)'
  <2>1. file'.object = latest
    BY <1>1
  <2>2. file'.object \in DOMAIN objects' /\ objects'[file'.object] = new
    BY <1>10, <1>14, <2>1
  <2>3. objects'[file'.object].uploaded = ContainerOf(r)'
    BY <1>10, <1>13, <1>17, <2>2
  <2>5. \A k \in Keys : opened'[k] = <<>>
    BY <1>1, <1>11 DEF FileOK
  <2> QED BY <1>13, <1>17, <1>21, <1>22, <2>2, <2>3, <2>5 DEF CompletedBy
<1>24. FileOK'
  <2>1. file'.status = "AVAILABLE" /\ DOMAIN opened' = Keys
    BY <1>1 DEF FileOK
  <2> QED BY <1>4, <1>23, <2>1 DEF FileOK
<1> QED BY <1>6, <1>7, <1>8, <1>16, <1>19, <1>24 DEF FInv

(* What the invariant says of the run that completed: its container is     *)
(* exactly that of its plaintext.                                          *)
LEMMA CompletedIs ==
    ASSUME FInv, NEW r \in Runs, CompletedBy(r)
    PROVE  /\ runs[r].plain \in Seq(Bytes) /\ Len(runs[r].plain) > 0
           /\ ContainerOf(r) = Exact(r, runs[r].attempt, runs[r].plain)
           /\ ContainerOf(r) = [header |-> ContainerOf(r).header, chunks |-> ContainerOf(r).chunks]
           /\ ContainerOf(r).header = runs[r].header /\ ContainerOf(r).chunks = runs[r].chunks
           /\ task # NoTask
<1>1. TaskOK /\ RunsOK
  BY DEF FInv
<1>2. task # NoTask
  BY <1>1 DEF RunsOK, RunOK, NoRun, CompletedBy
<1>3. task.size \in Nat \ {0}
  BY <1>1, <1>2 DEF TaskOK
<1> QED BY <1>2, <1>3 DEF CompletedBy, Whole, PlainOK, ContainerOf

(* What a run seals, it seals with its own data key. *)
LEMMA OwnDataKey ==
    ASSUME FInv, NEW q \in Runs, NEW i \in DOMAIN runs[q].chunks
    PROVE  runs[q].chunks[i].sealed.dek = q
<1>1. RunOK(q) /\ TaskOK
  BY DEF FInv, RunsOK
<1>2. runs[q].chunks # <<>>
  <2> SUFFICES ASSUME runs[q].chunks = <<>> PROVE FALSE
    OBVIOUS
  <2>1. DOMAIN <<>> = {}
    OBVIOUS
  <2> QED BY <2>1
<1>3. Reading(q) \/ Whole(q)
  BY <1>1, <1>2 DEF RunOK
<1>4. CASE Reading(q)
  BY <1>4 DEF Reading
<1>5. CASE Whole(q)
  <2>1. task # NoTask
    BY <1>1, <1>2 DEF RunOK, NoRun
  <2>2. /\ runs[q].plain \in Seq(Bytes) /\ Len(runs[q].plain) > 0
        /\ ContainerOf(q) = Exact(q, runs[q].attempt, runs[q].plain)
        /\ ContainerOf(q).chunks = runs[q].chunks
    BY <1>1, <1>5, <2>1 DEF TaskOK, Whole, PlainOK, ContainerOf
  <2> DEFINE n == ChunkCount(Len(runs[q].plain))
  <2>3. /\ IsSeq(ContainerOf(q).chunks) /\ Len(ContainerOf(q).chunks) = n
        /\ \A j \in 1..n : ContainerOf(q).chunks[j].sealed.dek = q
    BY <2>2, ExactIs
  <2> HIDE DEF n
  <2>4. DOMAIN runs[q].chunks = 1..n
    BY <2>2, <2>3, SeqIs
  <2> QED BY <2>2, <2>3, <2>4
<1> QED BY <1>3, <1>4, <1>5

(* The stored bytes change: they remain pieces of what was sealed.         *)
LEMMA DamageStep ==
    ASSUME FInv, NEW i \in DOMAIN objects,
           NEW bytes \in Damaged(objects[i].uploaded, {ContainerOf(q) : q \in Runs}),
           StoredBytesChange(i, bytes)
    PROVE  FInv'
<1>1. /\ KeyRowsOK /\ VersionsOK /\ SourceOK /\ TaskOK /\ FrozenOK /\ RunsOK /\ ObjectsOK /\ FileOK
      /\ file.status = "AVAILABLE" /\ i = file.object
      /\ objects' = [objects EXCEPT ![i].stored = bytes]
      /\ UNCHANGED <<rsaKeys, active, directory, source, task, file, runs, opened>>
  BY DEF FInv, StoredBytesChange, FindTenantFile, ListTenantFiles
<1>2. KeyRowsOK' /\ VersionsOK' /\ FrozenOK'
  BY <1>1, KeysStay
<1>3. SourceOK' /\ TaskOK' /\ TaskGoesOn /\ SourceGoesOn
  BY <1>1 DEF SourceOK, TaskOK, TaskGoesOn, SourceGoesOn
<1> DEFINE old == objects[i]
           new == [attempt |-> old.attempt, status |-> old.status,
                   uploaded |-> old.uploaded, stored |-> bytes]
<1>4. objects' = [objects EXCEPT ![i] = new]
  <2>1. old = [attempt |-> old.attempt, status |-> old.status,
               uploaded |-> old.uploaded, stored |-> old.stored]
    BY <1>1 DEF ObjectsOK
  <2> DEFINE set == [old EXCEPT !.stored = bytes]
  <2>2. objects' = [objects EXCEPT ![i] = set]
    BY <1>1
  <2>3. set = new
    <3> HIDE DEF old
    <3>1. DOMAIN set = {"attempt", "status", "uploaded", "stored"}
      BY <2>1
    <3>2. /\ set = [j \in DOMAIN set |-> set[j]]
          /\ set.attempt = old.attempt /\ set.status = old.status
          /\ set.uploaded = old.uploaded /\ set.stored = bytes
      BY <2>1
    <3> HIDE DEF set
    <3> QED BY <3>1, <3>2
  <2> HIDE DEF set, new
  <2> QED BY <2>2, <2>3
<1>5. /\ new.attempt = old.attempt /\ new.status = old.status
      /\ new.uploaded = old.uploaded /\ new.stored = bytes
      /\ new = [attempt |-> new.attempt, status |-> new.status,
                uploaded |-> new.uploaded, stored |-> new.stored]
  <2> HIDE DEF old
  <2> QED OBVIOUS
<1> HIDE DEF new
<1>6. /\ DOMAIN objects' = DOMAIN objects /\ objects'[i] = new
      /\ \A j \in DOMAIN objects : j # i => objects'[j] = objects[j]
      /\ objects' = [j \in DOMAIN objects |-> objects'[j]]
  BY <1>4
<1>7. \A j \in DOMAIN objects : /\ objects'[j].attempt = objects[j].attempt
                                /\ objects'[j].uploaded = objects[j].uploaded
  BY <1>5, <1>6
<1>8. ObjectsGoOn
  BY <1>6, <1>7 DEF ObjectsGoOn
<1>9. ObjectsOK'
  <2>1. (IsSeq(objects))'
    <3> DEFINE t == objects'
    <3>1. IsSeq(objects)
      BY <1>1 DEF ObjectsOK
    <3>2. Len(objects) \in Nat /\ DOMAIN objects = 1..Len(objects)
      BY <3>1, SeqIs
    <3>3. t = [j \in 1..Len(objects) |-> t[j]]
      BY <1>6, <3>2
    <3> HIDE DEF t
    <3>4. IsSeq(t)
      BY <3>2, <3>3, SeqMade
    <3> QED BY <3>4 DEF t
  <2>2. ASSUME NEW j \in DOMAIN objects
        PROVE  /\ objects'[j] = [attempt |-> objects'[j].attempt, status |-> objects'[j].status,
                                 uploaded |-> objects'[j].uploaded, stored |-> objects'[j].stored]
               /\ objects'[j].attempt \in 1..task'.attempt
    <3>1. objects[j].attempt \in 1..task'.attempt
      BY <1>1 DEF ObjectsOK
    <3>2. CASE j = i
      BY <1>5, <1>6, <3>1, <3>2
    <3>3. CASE j # i
      BY <1>1, <1>6, <3>1, <3>3 DEF ObjectsOK
    <3> QED BY <3>2, <3>3
  <2>3. \A j, l \in DOMAIN objects : objects'[j].attempt = objects'[l].attempt => j = l
    BY <1>1, <1>7 DEF ObjectsOK
  <2>4. file'.status = "AVAILABLE"
    BY <1>1
  <2> QED BY <1>6, <2>1, <2>2, <2>3, <2>4 DEF ObjectsOK
<1>10. RunsOK'
  <2>1. ASSUME NEW q \in Runs PROVE RunOK(q)'
    <3>1. RunOK(q) /\ runs'[q] = runs[q]
      BY <1>1 DEF RunsOK
    <3> QED BY <1>3, <1>8, <3>1, RunStays
  <2> QED BY <1>1, <2>1 DEF RunsOK
<1>11. PICK r \in Runs : CompletedBy(r)
  BY <1>1 DEF FileOK
<1> DEFINE c == ContainerOf(r)
           others == {ContainerOf(q) : q \in Runs}
<1>12. /\ runs[r].plain \in Seq(Bytes) /\ Len(runs[r].plain) > 0
       /\ c = Exact(r, runs[r].attempt, runs[r].plain)
       /\ c = [header |-> c.header, chunks |-> c.chunks] /\ c.chunks = runs[r].chunks
  BY <1>11, CompletedIs
<1>13. objects[i].uploaded = c
  BY <1>1, <1>11 DEF CompletedBy
<1>14. /\ IsSeq(c.chunks) /\ Len(c.chunks) > 0
       /\ \A j \in DOMAIN c.chunks : IsChunk(c.chunks[j])
  <2> DEFINE n == ChunkCount(Len(runs[r].plain))
             e == c
  <2>1. e = Exact(r, runs[r].attempt, runs[r].plain)
    BY <1>12
  <2> HIDE DEF e
  <2>2. /\ IsSeq(e.chunks) /\ Len(e.chunks) = n /\ Len(e.chunks) > 0
        /\ \A j \in 1..n :
             e.chunks[j] = SealedChunk(r, e.header, j - 1, ChunkOf(runs[r].plain, j - 1))
    BY <1>12, <2>1, ExactIs
  <2> HIDE DEF n
  <2>3. DOMAIN e.chunks = 1..n
    BY <2>2, SeqIs
  <2>4. \A h, index, plain : IsChunk(SealedChunk(r, h, index, plain))
    BY DEF IsChunk, SealedChunk, Seal
  <2>5. \A j \in DOMAIN e.chunks : IsChunk(e.chunks[j])
    BY <2>2, <2>3, <2>4
  <2> QED BY <2>2, <2>5 DEF e
<1>15. ASSUME NEW other \in others, NEW j \in DOMAIN other.chunks
       PROVE  PieceOf(c.chunks, r, other.chunks[j])
  <2>1. PICK q \in Runs : other = ContainerOf(q)
    OBVIOUS
  <2>2. other.chunks = runs[q].chunks
    BY <2>1 DEF ContainerOf
  <2>3. runs[q].chunks[j].sealed.dek = q
    BY <2>2, OwnDataKey
  <2>4. CASE q = r
    BY <1>12, <2>2, <2>4 DEF PieceOf
  <2>5. CASE q # r
    BY <2>2, <2>3, <2>5 DEF PieceOf
  <2> QED BY <2>4, <2>5
<1>16. bytes \in Damaged(c, others)
  BY <1>13
<1> HIDE DEF c, others
<1>17. PiecesOf(c.chunks, r, bytes.chunks)
  BY <1>12, <1>14, <1>15, <1>16, DamagedPieces
<1>18. Pieces(r, objects[file.object].stored)'
  <2>1. /\ IsSeq(bytes.chunks)
        /\ \A j \in DOMAIN bytes.chunks : PieceOf(runs[r].chunks, r, bytes.chunks[j])
    BY <1>12, <1>17 DEF PiecesOf
  <2>2. file'.object = i /\ objects'[i].stored = bytes /\ runs'[r] = runs[r]
    BY <1>1, <1>5, <1>6
  <2>3. objects'[file'.object].stored = bytes
    BY <2>2
  <2> QED BY <2>1, <2>2, <2>3 DEF Pieces, PieceOf
<1>19. CompletedBy(r)'
  <2>1. ContainerOf(r)' = ContainerOf(r)
    BY <1>1 DEF ContainerOf
  <2>2. Whole(r)' /\ EnvelopesOK(r)'
    BY <1>1, <1>11, <2>1 DEF Whole, PlainOK, EnvelopesOK, CompletedBy
  <2>3. file'.object = i /\ objects'[i].status = objects[i].status
        /\ objects'[i].uploaded = ContainerOf(r)
    BY <1>1, <1>5, <1>6, <1>13 DEF c
  <2>4. objects'[file'.object].status = "AVAILABLE" /\ objects'[file'.object].uploaded = ContainerOf(r)'
    BY <1>1, <1>11, <2>1, <2>3 DEF CompletedBy
  <2>5. /\ runs'[r].pc = "ended" /\ file'.object \in DOMAIN objects'
        /\ \A k \in Keys : opened'[k] \in {<<>>, runs'[r].plain}
    BY <1>1, <1>6, <1>11, <2>3 DEF CompletedBy
  <2> QED BY <1>18, <2>2, <2>4, <2>5 DEF CompletedBy
<1>20. FileOK'
  <2>1. file' = file /\ opened' = opened /\ task' = task
    BY <1>1
  <2> QED BY <1>1, <1>19, <2>1 DEF FileOK
<1> QED BY <1>2, <1>3, <1>9, <1>10, <1>20 DEF FInv

(* A download is opened with a key: it gives nothing or the plaintext of   *)
(* the run (DecryptFile).                                                  *)
LEMMA DecryptStep ==
    ASSUME FInv, NEW key \in Keys, DecryptFile(key)
    PROVE  FInv'
<1> DEFINE container == objects[file.object].stored
           result == IF \E e \in ReceivedMaterial(key) : Decrypts(container, e, key)
                     THEN Plaintext(container) ELSE <<>>
<1>1. /\ KeyRowsOK /\ VersionsOK /\ SourceOK /\ TaskOK /\ FrozenOK /\ RunsOK /\ ObjectsOK /\ FileOK
      /\ file.status = "AVAILABLE"
      /\ opened' = [opened EXCEPT ![key] = result]
      /\ UNCHANGED <<rsaKeys, active, directory, source, task, objects, file, runs>>
  BY DEF FInv, DecryptFile, FindTenantFile, ListTenantFiles
<1>2. KeyRowsOK' /\ VersionsOK' /\ FrozenOK'
  BY <1>1, KeysStay
<1>3. SourceOK' /\ TaskOK' /\ ObjectsOK' /\ TaskGoesOn /\ SourceGoesOn /\ ObjectsGoOn
  BY <1>1 DEF SourceOK, TaskOK, ObjectsOK, TaskGoesOn, SourceGoesOn, ObjectsGoOn
<1>4. RunsOK'
  <2>1. ASSUME NEW q \in Runs PROVE RunOK(q)'
    <3>1. RunOK(q) /\ runs'[q] = runs[q]
      BY <1>1 DEF RunsOK
    <3> QED BY <1>3, <3>1, RunStays
  <2> QED BY <1>1, <2>1 DEF RunsOK
<1>5. PICK r \in Runs : CompletedBy(r)
  BY <1>1 DEF FileOK
<1> DEFINE c == ContainerOf(r)
<1>6. /\ runs[r].plain \in Seq(Bytes) /\ Len(runs[r].plain) > 0
      /\ c = Exact(r, runs[r].attempt, runs[r].plain)
      /\ c.header = runs[r].header /\ c.chunks = runs[r].chunks
  BY <1>5, CompletedIs
<1>7. result \in {<<>>, runs[r].plain}
  <2>1. CASE \E e \in ReceivedMaterial(key) : Decrypts(container, e, key)
    <3>1. PICK e \in ReceivedMaterial(key) : Decrypts(container, e, key)
      BY <2>1
    <3>2. e \in file.envelopes
      BY DEF ReceivedMaterial, loadFileKeyEnvelopes
    <3>3. e.context = c.header /\ e.protected = Protect(r, e.recipient.key, c.header)
      BY <1>5, <1>6, <3>2 DEF CompletedBy, EnvelopesOK
    <3>4. /\ IsSeq(container.chunks)
          /\ \A i \in DOMAIN container.chunks :
               container.chunks[i].sealed.dek = r /\ container.chunks[i].sealed.aad # <<>> =>
                 \E j \in DOMAIN c.chunks : container.chunks[i].sealed = c.chunks[j].sealed
      BY <1>5, <1>6 DEF CompletedBy, Pieces
    <3>5. ExactOf(c, r, runs[r].plain)
      BY <1>6 DEF ExactOf
    <3>6. EnvelopeOf(e, r, c.header)
      BY <3>3 DEF EnvelopeOf, Protect
    <3>7. PiecesOf(c.chunks, r, container.chunks)
      BY <3>4 DEF PiecesOf, PieceOf
    <3> HIDE DEF c, container
    <3>8. Plaintext(container) = runs[r].plain
      BY <3>1, <3>5, <3>6, <3>7, PiecesOpen
    <3> QED BY <2>1, <3>8
  <2>2. CASE ~ \E e \in ReceivedMaterial(key) : Decrypts(container, e, key)
    BY <2>2
  <2> QED BY <2>1, <2>2
<1> HIDE DEF result
<1>8. CompletedBy(r)'
  <2>1. ContainerOf(r)' = ContainerOf(r)
    BY <1>1 DEF ContainerOf
  <2>2. Whole(r)' /\ EnvelopesOK(r)' /\ Pieces(r, objects[file.object].stored)'
    BY <1>1, <1>5, <2>1 DEF Whole, PlainOK, EnvelopesOK, Pieces, CompletedBy
  <2>3. \A k \in Keys : opened'[k] \in {<<>>, runs'[r].plain}
    BY <1>1, <1>5, <1>7 DEF CompletedBy, FileOK
  <2> QED BY <1>1, <1>5, <2>1, <2>2, <2>3 DEF CompletedBy
<1>9. FileOK'
  <2>1. DOMAIN opened' = Keys /\ file' = file /\ task' = task
    BY <1>1 DEF FileOK
  <2> QED BY <1>1, <1>8, <2>1 DEF FileOK
<1> QED BY <1>2, <1>3, <1>4, <1>9 DEF FInv

-----------------------------------------------------------------------------
(***************************************************************************)
(* The theorems.                                                           *)
(***************************************************************************)
LEMMA FInvInit == Init => FInv
<1> SUFFICES ASSUME Init PROVE FInv
  OBVIOUS
<1>1. Registered = {}
  BY DEF Init, Registered
<1>2. KeyRowsOK /\ VersionsOK /\ FrozenOK
  <2>1. IsFiniteSet(Registered)
    BY <1>1, FS_EmptySet
  <2> QED BY <1>1, <2>1 DEF Init, KeyRowsOK, VersionsOK, FrozenOK, NoTask
<1>3. SourceOK
  <2>1. Original \in Seq(Bytes)
    BY FileKeysAssumption
  <2> QED BY <2>1 DEF Init, SourceOK
<1>4. TaskOK
  BY DEF Init, TaskOK
<1>5. RunsOK
  <2>1. ASSUME NEW r \in Runs PROVE RunOK(r)
    <3>1. runs[r] = NoRun
      BY DEF Init
    <3>2. /\ NoRun = [pc |-> NoRun.pc, recipients |-> NoRun.recipients,
                      attempt |-> NoRun.attempt, plain |-> NoRun.plain,
                      mtime |-> NoRun.mtime, header |-> NoRun.header, chunks |-> NoRun.chunks]
          /\ NoRun.pc = "idle" /\ NoRun.chunks = <<>>
      BY DEF NoRun
    <3> QED BY <3>1, <3>2 DEF RunOK
  <2> QED BY <2>1 DEF Init, RunsOK
<1>6. ObjectsOK
  <2>1. <<>> \in Seq({}) /\ DOMAIN <<>> = {}
    OBVIOUS
  <2>2. IsSeq(<<>>)
    BY <2>1, SeqTyped
  <2>3. IsSeq(objects) /\ DOMAIN objects = {}
    BY <2>1, <2>2 DEF Init
  <2> QED BY <2>3 DEF ObjectsOK
<1>7. FileOK
  BY DEF Init, FileOK, NoFile
<1> QED BY <1>2, <1>3, <1>4, <1>5, <1>6, <1>7 DEF FInv

(* Every step keeps the invariant.                                         *)
LEMMA FInvNext == FInv /\ [Next]_vars => FInv'
<1> SUFFICES ASSUME FInv, [Next]_vars PROVE FInv'
  OBVIOUS
<1>1. CASE KeyStep
  BY <1>1, RegisterStep, StatusStep, MemberLeavesStep DEF KeyStep
<1>2. CASE SelectRecipients
  BY <1>2, SelectStep
<1>3. CASE \E r \in Runs : RunStep(r)
  <2>1. PICK r \in Runs : RunStep(r)
    BY <1>3
  <2>2. CASE \E t \in {"RSA_RECIPIENT", "RSA_RECIPIENTS"}, s \in Selections : CreateTask(r, t, s)
    BY <2>2, CreateStep
  <2>3. CASE \E s \in Submissions(r) : Complete(r, s)
    BY <2>3, CompleteStep
  <2>4. CASE OpenSource(r) \/ EncryptChunk(r) \/ EncryptFile(r) \/ UploadCiphertext(r) \/ RunFails(r)
    BY <2>4, OpenStep, ChunkStep, SealedStep, UploadStep, FailStep
  <2> QED BY <2>1, <2>2, <2>3, <2>4 DEF RunStep
<1>4. CASE \E bytes \in Edits : SourceEdited(bytes)
  BY <1>4, SourceStep
<1>5. CASE Retry
  BY <1>5, RetryStep
<1>6. CASE FileStep
  BY <1>6, DamageStep, DecryptStep DEF FileStep
<1>7. CASE UNCHANGED vars
  <2>1. UNCHANGED <<rsaKeys, active, directory, source, task, objects, file, runs, opened>>
    BY <1>7 DEF vars
  <2>2. SourceOK' /\ TaskOK' /\ RunsOK' /\ ObjectsOK' /\ FileOK'
    BY <2>1, OthersStay DEF FInv
  <2>3. KeyRowsOK' /\ VersionsOK' /\ FrozenOK'
    BY <2>1, KeysStay DEF FInv
  <2> QED BY <2>2, <2>3 DEF FInv
<1> QED BY <1>1, <1>2, <1>3, <1>4, <1>5, <1>6, <1>7 DEF Next

(* The invariant holds in every reachable state.                           *)
LEMMA FInvHolds == Spec => []FInv
<1> QED BY FInvInit, FInvNext, PTL DEF Spec

(* The keys of a member are numbered from 1 without gaps and without       *)
(* repetition, whatever their status; objects belong to attempts the task  *)
(* has had; a run never has more chunks than its file (CreateVersion,      *)
(* UploadCiphertext, EncryptFile).                                         *)
THEOREM KeysAreNumbered == Spec => []FileKeysTypeOK
<1>1. FInv => FileKeysTypeOK
  <2> SUFFICES ASSUME FInv PROVE FileKeysTypeOK
    OBVIOUS
  <2>1. KeyRowsOK /\ VersionsOK /\ TaskOK /\ RunsOK /\ ObjectsOK
    BY DEF FInv
  <2>2. \A k \in Registered :
          /\ rsaKeys[k].user \in Members /\ rsaKeys[k].status \in KeyStatuses
          /\ rsaKeys[k].version \in 1 .. Cardinality({q \in Registered : rsaKeys[q].user = rsaKeys[k].user})
    BY <2>1 DEF KeyRowsOK, VersionsOK, KeysOf
  <2>3. \A k, q \in Registered :
          rsaKeys[k].user = rsaKeys[q].user /\ rsaKeys[k].version = rsaKeys[q].version => k = q
    BY <2>1 DEF VersionsOK
  <2>4. directory \subseteq Recipients
    BY <2>1 DEF KeyRowsOK
  <2>5. task.status \in {"NONE", "OPEN", "FAILED", "COMPLETED"} /\ task.attempt \in 0 .. MaxAttempts
    BY <2>1, AttemptIs DEF TaskOK, NoTask
  <2>6. \A i \in DOMAIN objects : objects[i].attempt \in 1 .. task.attempt
    BY <2>1 DEF ObjectsOK
  <2>7. ASSUME NEW r \in Runs PROVE Len(runs[r].chunks) <= ChunkCount(task.size)
    <3>1. RunOK(r)
      BY <2>1 DEF RunsOK
    <3>2. task.size \in Nat
      BY <2>1 DEF TaskOK, NoTask
    <3>3. ChunkCount(task.size) \in Nat
      BY <3>2, ChunkCountIs
    <3>4. CASE runs[r].chunks = <<>>
      <4>1. Len(<<>>) = 0
        OBVIOUS
      <4> QED BY <3>3, <3>4, <4>1
    <3>5. CASE Reading(r)
      BY <3>5 DEF Reading
    <3>6. CASE Whole(r) /\ runs[r].chunks # <<>>
      <4>1. task # NoTask
        BY <3>1, <3>6 DEF RunOK, NoRun
      <4>2. /\ runs[r].plain \in Seq(Bytes) /\ Len(runs[r].plain) > 0
            /\ Len(runs[r].plain) = task.size
            /\ ContainerOf(r) = Exact(r, runs[r].attempt, runs[r].plain)
            /\ ContainerOf(r).chunks = runs[r].chunks
        BY <2>1, <3>6, <4>1 DEF TaskOK, Whole, PlainOK, ContainerOf
      <4>3. Len(ContainerOf(r).chunks) = ChunkCount(Len(runs[r].plain))
        BY <4>2, ExactIs
      <4> QED BY <3>3, <4>2, <4>3
    <3> QED BY <3>1, <3>4, <3>5, <3>6 DEF RunOK
  <2> QED BY <2>2, <2>3, <2>4, <2>5, <2>6, <2>7, Zenon DEF FileKeysTypeOK
<1> QED BY <1>1, FInvHolds, PTL

(* A file that is listed can be downloaded, shows the recipients frozen    *)
(* with its task, and has an envelope for each that opens the bytes it was *)
(* completed with: for any number of members, keys, runs and attempts, and *)
(* whatever becomes of keys and members afterwards (Complete).             *)
THEOREM RecipientsKeepTheirKeys == Spec => []RecipientsCanDecrypt
<1>1. FInv => RecipientsCanDecrypt
  <2> SUFFICES ASSUME FInv, file.status = "AVAILABLE"
               PROVE  /\ FindTenantFile
                      /\ loadFileCenterRecipients =
                           {[user |-> q.user, version |-> q.version] : q \in task.recipients}
                      /\ \E q \in task.recipients : q.user = Owner
                      /\ \A q \in task.recipients : \E e \in ReceivedMaterial(q.key) :
                           Decrypts(objects[file.object].uploaded, e, q.key)
    BY DEF RecipientsCanDecrypt, ListTenantFiles
  <2>1. KeyRowsOK /\ TaskOK /\ FrozenOK /\ FileOK
    BY DEF FInv
  <2>2. PICK r \in Runs : CompletedBy(r)
    BY <2>1 DEF FileOK
  <2> DEFINE c == ContainerOf(r)
  <2>3. /\ runs[r].plain \in Seq(Bytes) /\ Len(runs[r].plain) > 0
        /\ c = Exact(r, runs[r].attempt, runs[r].plain)
        /\ c.header = runs[r].header /\ task # NoTask
    BY <2>2, CompletedIs
  <2>4. /\ \A e \in file.envelopes :
             /\ e.context = runs[r].header
             /\ e.protected = Protect(r, e.recipient.key, runs[r].header)
             /\ \E q \in task.recipients : q.user = e.recipient.user /\ q.key = e.recipient.key
        /\ \A q \in task.recipients : \E e \in file.envelopes :
             q.user = e.recipient.user /\ q.key = e.recipient.key
    BY <2>2 DEF CompletedBy, EnvelopesOK
  <2>5. \E q \in task.recipients : q.user = Owner
    BY <2>1, <2>3 DEF TaskOK
  <2>6. loadFileKeyEnvelopes = file.envelopes
    <3>1. \A e \in file.envelopes : e.recipient.key \in Registered
      BY <2>1, <2>4 DEF FrozenOK
    <3> QED BY <3>1 DEF loadFileKeyEnvelopes
  <2>7. FindTenantFile
    <3>1. file.envelopes # {}
      BY <2>4, <2>5
    <3>2. objects[file.object].status = "AVAILABLE"
      BY <2>2 DEF CompletedBy
    <3> QED BY <2>6, <3>1, <3>2 DEF FindTenantFile, ListTenantFiles
  <2>8. loadFileCenterRecipients = {[user |-> q.user, version |-> q.version] : q \in task.recipients}
    <3> DEFINE shown(e) == [user |-> e.recipient.user, version |-> rsaKeys[e.recipient.key].version]
               row(q) == [user |-> q.user, version |-> q.version]
    <3>1. \A e \in file.envelopes, q \in task.recipients :
            q.user = e.recipient.user /\ q.key = e.recipient.key => shown(e) = row(q)
      BY <2>1 DEF FrozenOK
    <3>2. loadFileCenterRecipients = {shown(e) : e \in file.envelopes}
      BY DEF loadFileCenterRecipients
    <3> HIDE DEF shown, row
    <3>3. {shown(e) : e \in file.envelopes} = {row(q) : q \in task.recipients}
      BY <2>4, <3>1
    <3> QED BY <3>2, <3>3, Zenon DEF row
  <2>9. ASSUME NEW q \in task.recipients
        PROVE  \E e \in ReceivedMaterial(q.key) : Decrypts(objects[file.object].uploaded, e, q.key)
    <3>1. PICK e \in file.envelopes : q.user = e.recipient.user /\ q.key = e.recipient.key
      BY <2>4
    <3>2. e \in ReceivedMaterial(q.key)
      BY <2>6, <3>1 DEF ReceivedMaterial
    <3>3. e.context = c.header /\ e.protected = Protect(r, q.key, c.header)
      BY <2>3, <2>4, <3>1
    <3>4. objects[file.object].uploaded = c
      BY <2>2 DEF CompletedBy
    <3> HIDE DEF c
    <3>5. Decrypts(c, e, q.key)
      BY <2>3, <3>3, ExactOpens
    <3> QED BY <3>2, <3>4, <3>5
  <2> QED BY <2>5, <2>7, <2>8, <2>9
<1> QED BY <1>1, FInvHolds, PTL

(* A decryption recovers the file that the sealing run opened, or nothing: *)
(* for files and chunks of any size, any writes to the source while it is  *)
(* read, and any of the damages to the stored bytes (EncryptFile,          *)
(* DecryptFile).                                                           *)
THEOREM DecryptionRecoversTheSource == Spec => []DecryptedIsSource
<1>1. FInv => DecryptedIsSource
  <2> SUFFICES ASSUME FInv, NEW k \in Keys, opened[k] # <<>>
               PROVE  opened[k] = runs[SealedBy].plain
    BY DEF DecryptedIsSource
  <2>1. FileOK
    BY DEF FInv
  <2>2. PICK r \in Runs : CompletedBy(r)
    BY <2>1 DEF FileOK
  <2>3. opened[k] = runs[r].plain
    BY <2>2 DEF CompletedBy
  <2>4. SealedBy = r
    <3> DEFINE c == ContainerOf(r)
    <3>1. /\ runs[r].plain \in Seq(Bytes) /\ Len(runs[r].plain) > 0
          /\ c = Exact(r, runs[r].attempt, runs[r].plain)
      BY <2>2, CompletedIs
    <3>2. objects[file.object].uploaded = c
      BY <2>2 DEF CompletedBy
    <3> HIDE DEF c
    <3>3. c.header.noncePrefix = r
      BY <3>1, ExactIs
    <3> QED BY <3>2, <3>3 DEF SealedBy
  <2> QED BY <2>3, <2>4
<1> QED BY <1>1, FInvHolds, PTL
=============================================================================
