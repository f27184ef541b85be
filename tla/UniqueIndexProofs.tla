--------------------------- MODULE UniqueIndexProofs ---------------------------
(***************************************************************************)
(* Proofs about UniqueIndex, for every set of transactions, every table    *)
(* and every set of indexes and statements: the trees stay search trees    *)
(* whatever is attached and removed, an INSERT that is rejected takes back *)
(* exactly its entries, and every version of a row keeps its entry.        *)
(***************************************************************************)
EXTENDS UniqueIndex, SequenceTheorems, FiniteSetTheorems, WellFoundedInduction, TLAPS

-----------------------------------------------------------------------------
(* The inductive invariant. *)

Values == [Column -> Nat]
Key(i) == [DOMAIN Keys[i] -> Nat]

\* A tree in memory: entries at addresses, none of them at the null pointer.
Tree(tree) ==
    /\ tree = [root |-> tree.root, node |-> tree.node]
    /\ IsFiniteSet(DOMAIN tree.node) /\ DOMAIN tree.node \subseteq Nat \ {Null}
    /\ tree.node \in [DOMAIN tree.node -> NodeType]
    /\ tree.root \in DOMAIN tree.node \cup {Null}

\* Every entry is linked once, the root by none.
Linked(tree) ==
    LET node == tree.node
    IN /\ \A n \in DOMAIN node : /\ node[n].left \in DOMAIN node \cup {Null}
                                 /\ node[n].right \in DOMAIN node \cup {Null}
                                 /\ node[n].left = node[n].right => node[n].left = Null
       /\ tree.root # Null => \A n \in DOMAIN node : tree.root \notin {node[n].left, node[n].right}
       /\ \A n, m \in DOMAIN node :
             /\ n # m /\ node[n].left # Null => node[n].left # node[m].left
             /\ n # m /\ node[n].right # Null => node[n].right # node[m].right
             /\ node[n].left # Null => node[n].left # node[m].right

\* The search for its key comes past every entry.
Placed(tree) == \A n \in DOMAIN tree.node : n \in Search(tree, tree.node[n].key)

Keyed(tree, i) == \A n \in DOMAIN tree.node : tree.node[n].key \in Key(i)

SearchTree(tree, i) == Tree(tree) /\ Linked(tree) /\ Placed(tree) /\ Keyed(tree, i)

TreesOK ==
    /\ DOMAIN index = Index
    /\ \A i \in Index : SearchTree(index[i], i)

Version == [by : Tx, saved : Values]
Statement == [kind : {"none", "insert", "update", "delete"}, rows : Seq(Row),
              keys : Seq([Column -> Nat \cup {Keep}])]

TypeInv ==
    /\ clock \in Nat \ {0} /\ start_time \in [Tx -> Nat] /\ commit_id \in [Tx -> Nat]
    /\ phase \in [Tx -> {"idle", "ready", "locking", "indexing", "reverting",
                         "writing", "failed", "undoing", "done"}]
    /\ issued \in 0..MaxStatements
    /\ statement \in [Tx -> Statement]
    /\ current_index \in [Tx -> 1..Len(AllowNulls) + 1]
    /\ added_nodes \in [Tx -> [Index -> Seq(Nat)]]
    /\ count \in 0..MaxRows
    /\ data \in [Row -> Values] /\ deleted \in [Row -> BOOLEAN]
    /\ chain \in [Row -> Seq(Version)]
    /\ exclusive_lock \in [Chunk -> Tx \cup {NoTx}] /\ read_count \in [Chunk -> Int]
    /\ fault \in {Alive, "chunk_of_no_row", "no_entry", "inner_entry", "freed_parent", "wrong_parent"}
    /\ unlocked \subseteq Row /\ dirty \subseteq Row /\ torn \subseteq Row /\ clobbered \subseteq Row
    /\ earlier \in [Tx -> [Row -> SUBSET Reading]]

\* What a statement holds at each of its steps: its rows are counted and of one
\* chunk, those of an INSERT follow the counted ones, and the chunk is locked.
FoundRows(t) ==
    LET s == statement[t]
    IN /\ s.rows # << >>
       /\ \A j \in DOMAIN s.rows : s.rows[j] <= count /\ ChunkOf(s.rows[j]) = ChunkOf(s.rows[1])
       /\ \A j, k \in DOMAIN s.rows : j # k => s.rows[j] # s.rows[k]

NewRows(t) ==
    LET s == statement[t]
    IN /\ DOMAIN s.rows = DOMAIN s.keys /\ \A j \in DOMAIN s.keys : s.rows[j] = count + j
       /\ count + Len(s.keys) <= MaxRows

StatementOK(t) ==
    LET s == statement[t]
    IN /\ phase[t] \in {"locking", "indexing", "reverting", "writing", "failed"} =>
             /\ s.kind # "none"
             /\ s.kind = "insert" => s.keys \in Seq(Values)
             /\ s.kind \in {"update", "delete"} => FoundRows(t)
             /\ s.kind = "update" => /\ DOMAIN s.keys = DOMAIN s.rows
                                     /\ \A j \in DOMAIN s.keys : s.keys[j] = s.keys[1]
       /\ phase[t] \in {"indexing", "reverting", "writing"} /\ s.kind = "insert" => NewRows(t)
       /\ phase[t] \in {"indexing", "reverting", "writing", "failed"} =>
             exclusive_lock[ChunkFor(t)] = t
       /\ phase[t] = "indexing" => s.kind # "delete" /\ current_index[t] \in Index
       /\ phase[t] = "reverting" => s.kind = "insert"
       /\ phase[t] = "failed" => s.kind # "insert"
       /\ phase[t] = "writing" /\ s.kind # "delete" => current_index[t] = Len(Keys) + 1
       /\ phase[t] \in {"idle", "ready", "locking"} => current_index[t] = 1
       /\ phase[t] # "done" => commit_id[t] = 0

StatementsOK == \A t \in Tx : StatementOK(t)

Inserting(t) == statement[t].kind = "insert" /\ phase[t] \in {"indexing", "reverting", "writing"}
Updating(t) == statement[t].kind = "update" /\ phase[t] \in {"indexing", "writing"}

\* The entries es of the keys ks and the rows: linked from the entries they were
\* hung below, which are older.
Entered(tree, es, ks, rows) ==
    LET node == tree.node
    IN \A j \in DOMAIN es :
          IF ks[j] = NoKey THEN es[j] = Null
          ELSE /\ es[j] \in DOMAIN node
               /\ node[es[j]].row = rows[j] /\ node[es[j]].key = ks[j]
               /\ \/ /\ node[es[j]].parent = Null /\ tree.root = es[j]
                     /\ \A k \in 1..j - 1 : es[k] = Null
                  \/ /\ node[es[j]].parent \in DOMAIN node
                     /\ es[j] \in {node[node[es[j]].parent].left, node[node[es[j]].parent].right}
                     /\ \A k \in DOMAIN es : k >= j => node[es[j]].parent # es[k]
               /\ \A m \in {node[es[j]].left, node[es[j]].right} \ {Null} :
                     node[m].parent = es[j]

\* The keys of the rows that t inserts.
NewKeys(t, i) == [j \in DOMAIN statement[t].rows |-> KeyOf(i, statement[t].keys[j])]

\* While the process runs, the entries past the counted rows are those of the
\* INSERT on its way, in the indexes it has come past.
EntriesOfInserts ==
    fault = Alive =>
        /\ \A t \in Tx : Inserting(t) =>
              \A i \in Index : i < current_index[t] =>
                  /\ DOMAIN added_nodes[t][i] = DOMAIN statement[t].keys
                  /\ Entered(index[i], added_nodes[t][i], NewKeys(t, i), statement[t].rows)
        /\ \A i \in Index : \A n \in DOMAIN index[i].node : index[i].node[n].row > count =>
              \E t \in Tx : /\ Inserting(t) /\ i < current_index[t]
                            /\ n \in Range(added_nodes[t][i])

HasEntry(i, r, row) ==
    KeyOf(i, row) # NoKey =>
        \E n \in DOMAIN index[i].node : index[i].node[n].row = r /\ index[i].node[n].key = KeyOf(i, row)

\* The values of row r, the newest first, deletions aside.
ValuesOf(r) == {data[r]} \cup {v.saved : v \in Range(chain[r])}

VersionsHaveEntries ==
    \A i \in Index : \A r \in 1..count \ dirty : \A row \in ValuesOf(r) : HasEntry(i, r, row)

\* An UPDATE has entered the keys that it will write, where nobody can roll back
\* the columns it keeps.
UpdateEntered(t, i) ==
    \A j \in DOMAIN statement[t].rows : statement[t].rows[j] \notin dirty =>
        /\ HasEntry(i, statement[t].rows[j], Written(t, j))
        /\ ~InConflict(t, statement[t].rows[j])

UpdatesHaveEntries ==
    fault = Alive => \A t \in Tx : Updating(t) =>
        \A i \in Index : i < current_index[t] /\ Affected(t, i) => UpdateEntered(t, i)

IInv == TypeInv /\ TreesOK /\ StatementsOK /\ EntriesOfInserts
        /\ VersionsHaveEntries /\ UpdatesHaveEntries /\ RevertsRemoveLeaves

-----------------------------------------------------------------------------
(* Walks. *)

\* Every nonempty set of numbers has a smallest one.
LEMMA LeastNumber ==
  ASSUME NEW S \in SUBSET Nat, S # {}
  PROVE  \E n \in S : \A m \in S : n <= m
<1>1. PICK n \in S : \A m \in S : ~(<<m, n>> \in OpToRel(<, Nat))
  <2> DEFINE R == OpToRel(<, Nat)
  <2>1. IsWellFoundedOn(R, Nat)
    BY NatLessThanWellFounded
  <2> HIDE DEF R
  <2>2. \E x \in S : \A y \in S : ~(<<y, x>> \in R)
    BY <2>1, WFMin
  <2> QED
    BY <2>2 DEF R
<1>2. ASSUME NEW m \in S
      PROVE  n <= m
  <2>1. <<m, n>> \notin OpToRel(<, Nat)
    BY <1>1
  <2> QED
    BY <2>1 DEF OpToRel
<1> QED
  BY <1>2

\* The function that Walk defines, for its first steps.
Walks(g, next, n, steps) ==
    g = [k \in 1..steps |-> IF k = 1 THEN n
                            ELSE IF g[k - 1] = Null THEN Null ELSE next[g[k - 1]]]

LEMMA WalksExists ==
  ASSUME NEW next, NEW n, NEW steps \in Nat
  PROVE  \E g : Walks(g, next, n, steps)
<1> DEFINE S == {k \in Nat : ~\E g : Walks(g, next, n, k)}
<1>1. CASE S = {}
  BY <1>1
<1>2. CASE S # {}
  <2>1. PICK k \in S : \A m \in S : k <= m
    <3> S \in SUBSET Nat
      OBVIOUS
    <3> HIDE DEF S
    <3> QED
      BY <1>2, LeastNumber
  <2>2. CASE k = 0
    <3> DEFINE g == [i \in 1..0 |-> n]
    <3>1. g = [i \in 1..0 |-> IF i = 1 THEN n
                              ELSE IF g[i - 1] = Null THEN Null ELSE next[g[i - 1]]]
      OBVIOUS
    <3> HIDE DEF g
    <3>2. Walks(g, next, n, 0)
      BY <3>1, Zenon DEF Walks
    <3> QED
      BY <3>2, <2>1, <2>2
  <2>3. CASE k # 0
    <3>1. k - 1 \in Nat /\ k - 1 \notin S
      BY <2>1, <2>3
    <3>2. PICK f : Walks(f, next, n, k - 1)
      BY <3>1
    <3> DEFINE last == IF k = 1 THEN n ELSE IF f[k - 1] = Null THEN Null ELSE next[f[k - 1]]
               g == [i \in 1..k |-> IF i <= k - 1 THEN f[i] ELSE last]
    <3> HIDE DEF last
    <3>3. \A i \in 1..k - 1 : g[i] = f[i]
      BY <3>1
    <3>4. \A i \in 1..k - 1 :
            f[i] = IF i = 1 THEN n ELSE IF f[i - 1] = Null THEN Null ELSE next[f[i - 1]]
      BY <3>1, <3>2 DEF Walks
    <3>5. ASSUME NEW i \in 1..k
          PROVE  g[i] = IF i = 1 THEN n ELSE IF g[i - 1] = Null THEN Null ELSE next[g[i - 1]]
      <4>1. CASE i <= k - 1
        <5>1. g[i] = f[i] /\ (i # 1 => g[i - 1] = f[i - 1])
          BY <4>1, <3>1, <3>3
        <5>2. f[i] = IF i = 1 THEN n ELSE IF f[i - 1] = Null THEN Null ELSE next[f[i - 1]]
          BY <4>1, <3>1, <3>4
        <5> HIDE DEF g
        <5> QED
          BY <5>1, <5>2
      <4>2. CASE i = k
        <5>1. g[i] = last /\ (i # 1 => g[i - 1] = f[i - 1])
          BY <4>2, <3>1, <3>3
        <5> HIDE DEF g
        <5> QED
          BY <5>1, <4>2 DEF last
      <4> QED
        BY <4>1, <4>2, <3>1
    <3>6. DOMAIN g = 1..k /\ g = [i \in 1..k |-> g[i]]
      OBVIOUS
    <3> HIDE DEF g
    <3>7. g = [i \in 1..k |-> IF i = 1 THEN n
                              ELSE IF g[i - 1] = Null THEN Null ELSE next[g[i - 1]]]
      BY <3>5, <3>6
    <3>8. Walks(g, next, n, k)
      BY <3>7, Zenon DEF Walks
    <3> QED
      BY <3>8, <2>1
  <2> QED
    BY <2>2, <2>3
<1> QED
  BY <1>1, <1>2

Steps(next) == Cardinality(DOMAIN next) + 1

LEMMA WalkUnfolds ==
  ASSUME NEW next, NEW n, IsFiniteSet(DOMAIN next)
  PROVE  /\ Steps(next) \in Nat \ {0}
         /\ Walk(next, n) = [k \in 1..Steps(next) |-> Walk(next, n)[k]]
         /\ Walk(next, n)[1] = n
         /\ \A k \in 2..Steps(next) :
               Walk(next, n)[k] = IF Walk(next, n)[k - 1] = Null THEN Null
                                  ELSE next[Walk(next, n)[k - 1]]
<1> DEFINE steps == Cardinality(DOMAIN next) + 1
           g == CHOOSE f : f = [k \in 1..Cardinality(DOMAIN next) + 1 |-> IF k = 1 THEN n
                     ELSE IF f[k - 1] = Null THEN Null ELSE next[f[k - 1]]]
<1>1. Cardinality(DOMAIN next) \in Nat
  BY FS_CardinalityType
<1>2. \E f : f = [k \in 1..steps |-> IF k = 1 THEN n
                     ELSE IF f[k - 1] = Null THEN Null ELSE next[f[k - 1]]]
  <2>1. \E f : Walks(f, next, n, steps)
    BY <1>1, WalksExists
  <2> QED
    BY <2>1, Zenon DEF Walks
<1>3. g = [k \in 1..steps |-> IF k = 1 THEN n
                     ELSE IF g[k - 1] = Null THEN Null ELSE next[g[k - 1]]]
  BY <1>2, Zenon
<1>4. Walk(next, n) = g
  BY Zenon DEF Walk
<1> HIDE DEF g
<1>5. g = [k \in 1..steps |-> g[k]] /\ g[1] = n
      /\ \A k \in 2..steps : g[k] = IF g[k - 1] = Null THEN Null ELSE next[g[k - 1]]
  <2>1. g = [k \in 1..steps |-> g[k]]
    BY <1>3
  <2>2. 1 \in 1..steps /\ \A k \in 2..steps : k \in 1..steps /\ k # 1
    BY <1>1
  <2>3. \A k \in 1..steps : g[k] = IF k = 1 THEN n
                     ELSE IF g[k - 1] = Null THEN Null ELSE next[g[k - 1]]
    BY <1>3
  <2> QED
    BY <2>1, <2>2, <2>3
<1>6. Steps(next) = steps /\ Steps(next) \in Nat \ {0}
  BY <1>1 DEF Steps
<1> HIDE DEF steps
<1> QED
  BY <1>4, <1>5, <1>6

\* A walk stays in every set that its steps do not leave.
LEMMA MetWithin ==
  ASSUME NEW next, NEW n, IsFiniteSet(DOMAIN next), NEW S,
         n # Null => n \in S,
         \A m \in S : next[m] # Null => next[m] \in S
  PROVE  Met(next, n) \subseteq S
<1> DEFINE w == Walk(next, n)
           N == Steps(next)
<1>1. N \in Nat \ {0} /\ DOMAIN w = 1..N /\ w[1] = n
      /\ \A k \in 2..N : w[k] = IF w[k - 1] = Null THEN Null ELSE next[w[k - 1]]
  BY WalkUnfolds
<1> HIDE DEF w, N
<1> DEFINE B == {k \in 1..N : w[k] # Null /\ w[k] \notin S}
<1>2. B \in SUBSET Nat
  BY <1>1
<1>3. CASE B # {}
  <2>1. PICK k \in B : \A m \in B : k <= m
    <3> HIDE DEF B
    <3> QED
      BY <1>2, <1>3, LeastNumber
  <2>2. k \in 2..N
    BY <2>1, <1>1
  <2>3. k - 1 \in 1..N /\ k - 1 \notin B
    BY <2>1, <2>2, <1>1
  <2>4. w[k] = IF w[k - 1] = Null THEN Null ELSE next[w[k - 1]]
    BY <2>2, <1>1
  <2> QED
    BY <2>1, <2>3, <2>4
<1>4. CASE B = {}
  <2>1. Met(next, n) = {w[k] : k \in 1..N} \ {Null}
    BY <1>1 DEF Met, Range, w
  <2> QED
    BY <2>1, <1>4
<1> QED
  BY <1>3, <1>4

\* Steps from entry to entry, at most one to each and none to the first.
Chain(next, n) ==
    /\ IsFiniteSet(DOMAIN next) /\ Null \notin DOMAIN next
    /\ next \in [DOMAIN next -> DOMAIN next \cup {Null}]
    /\ n \in DOMAIN next \cup {Null}
    /\ \A p, q \in DOMAIN next : next[p] = next[q] /\ next[p] # Null => p = q
    /\ n # Null => \A p \in DOMAIN next : next[p] # n

\* Such a walk comes past no entry twice, so it ends.
LEMMA WalkEnds ==
  ASSUME NEW next, NEW n, Chain(next, n)
  PROVE  LET w == Walk(next, n)
             N == Steps(next)
         IN w \in [1..N -> DOMAIN next \cup {Null}] /\ w[N] = Null
<1> DEFINE w == Walk(next, n)
           N == Steps(next)
           D == DOMAIN next
<1>0. IsFiniteSet(D) /\ Null \notin D
  BY DEF Chain
<1>c. Cardinality(D) \in Nat /\ N = Cardinality(D) + 1
  BY <1>0, FS_CardinalityType DEF Steps
<1>1. N \in Nat \ {0} /\ DOMAIN w = 1..N /\ w[1] = n
      /\ \A k \in 2..N : w[k] = IF w[k - 1] = Null THEN Null ELSE next[w[k - 1]]
  BY <1>0, WalkUnfolds
<1>w. w = [k \in 1..N |-> w[k]]
  BY <1>0, WalkUnfolds
<1>f. (n \in D \cup {Null}) /\ (next \in [D -> D \cup {Null}])
      /\ (\A p, q \in D : next[p] = next[q] /\ next[p] # Null => p = q)
      /\ (n # Null => \A p \in D : next[p] # n)
  BY DEF Chain
<1> HIDE DEF w, N, D
<1>2. \A k \in 1..N : w[k] \in D \cup {Null}
  <2> DEFINE B == {k \in 1..N : w[k] \notin D \cup {Null}}
  <2>1. B \in SUBSET Nat
    BY <1>1
  <2>2. CASE B # {}
    <3>1. PICK k \in B : \A m \in B : k <= m
      <4> HIDE DEF B
      <4> QED
        BY <2>1, <2>2, LeastNumber
    <3>2. k \in 2..N
      BY <3>1, <1>1, <1>f
    <3>3. w[k - 1] \in D \cup {Null}
      BY <3>1, <3>2, <1>1
    <3>4. w[k] = IF w[k - 1] = Null THEN Null ELSE next[w[k - 1]]
      BY <3>2, <1>1
    <3> QED
      BY <3>1, <3>3, <3>4, <1>f
  <2> QED
    BY <2>2
<1>3. w \in [1..N -> D \cup {Null}]
  BY <1>2, <1>w
<1>4. ASSUME w[N] # Null
      PROVE  FALSE
  <2>1. \A k \in 1..N : w[k] # Null
    <3> DEFINE B == {m \in 0..N - 1 : w[N - m] = Null}
    <3>1. B \in SUBSET Nat
      BY <1>1
    <3>2. CASE B # {}
      <4>1. PICK m \in B : \A o \in B : m <= o
        <5> HIDE DEF B
        <5> QED
          BY <3>1, <3>2, LeastNumber
      <4>2. m # 0
        BY <4>1, <1>4, <1>1
      <4>3. m - 1 \in 0..N - 1 /\ m - 1 \notin B
        BY <4>1, <4>2, <1>1
      <4>4. w[N - (m - 1)] # Null
        BY <4>3
      <4>5. N - (m - 1) \in 2..N /\ N - (m - 1) - 1 = N - m
        BY <4>1, <4>2, <1>1
      <4> HIDE DEF B
      <4>6. w[N - (m - 1)] = IF w[N - m] = Null THEN Null ELSE next[w[N - m]]
        BY <4>5, <1>1
      <4>7. w[N - m] = Null
        BY <4>1 DEF B
      <4> QED
        BY <4>4, <4>6, <4>7
    <3>3. CASE B = {}
      <4> SUFFICES ASSUME NEW k \in 1..N PROVE w[k] # Null
        OBVIOUS
      <4>1. N - k \in 0..N - 1 /\ N - (N - k) = k
        BY <1>1
      <4> QED
        BY <4>1, <3>3
    <3> QED
      BY <3>2, <3>3
  <2>2. w \in [1..N -> D]
    BY <2>1, <1>2, <1>w
  <2>3. IsFiniteSet(1..N) /\ Cardinality(1..N) = N
    BY <1>1, FS_Interval
  <2>4. Cardinality(D) < Cardinality(1..N)
    BY <2>3, <1>c
  <2>5. \E x, y \in 1..N : x # y /\ w[x] = w[y]
    BY <2>2, <2>3, <2>4, <1>0, FS_PigeonHole
  <2> DEFINE B == {x \in 1..N : \E y \in 1..N : x < y /\ w[x] = w[y]}
  <2>6. B \in SUBSET Nat /\ B # {}
    BY <2>5, <1>1, SMTT(30)
  <2>7. PICK x \in B : \A o \in B : x <= o
    <3> HIDE DEF B
    <3> QED
      BY <2>6, LeastNumber
  <2>8. PICK y \in 1..N : x < y /\ w[x] = w[y]
    BY <2>7
  <2>9. x \in 1..N /\ y \in 2..N /\ y - 1 \in 1..N
    BY <2>7, <2>8, <1>1
  <2>10. w[y] = next[w[y - 1]] /\ w[y - 1] \in D
    BY <2>9, <2>1, <1>1, <1>2
  <2>11. x # 1
    BY <2>10, <2>8, <1>1, <1>f, <2>1, <2>9
  <2>12. w[x] = next[w[x - 1]] /\ w[x - 1] \in D /\ x - 1 \in 1..N
    BY <2>9, <2>11, <2>1, <1>1, <1>2
  <2>13. w[x - 1] = w[y - 1]
    BY <2>8, <2>10, <2>12, <1>f, <2>1, <2>9
  <2>14. x - 1 \in B
    BY <2>12, <2>9, <2>8, <2>13
  <2> QED
    BY <2>14, <2>7, <2>9
<1> QED
  BY <1>3, <1>4 DEF w, N, D

\* What such a walk meets: its first entry and with an entry the next one.
LEMMA MetClosed ==
  ASSUME NEW next, NEW n, Chain(next, n)
  PROVE  /\ Met(next, n) \subseteq DOMAIN next
         /\ n # Null => n \in Met(next, n)
         /\ \A m \in Met(next, n) : next[m] # Null => next[m] \in Met(next, n)
         /\ n # Null => \E m \in Met(next, n) : next[m] = Null
<1> DEFINE w == Walk(next, n)
           N == Steps(next)
<1>0. IsFiniteSet(DOMAIN next)
  BY DEF Chain
<1>1. N \in Nat \ {0} /\ DOMAIN w = 1..N /\ w[1] = n
      /\ \A k \in 2..N : w[k] = IF w[k - 1] = Null THEN Null ELSE next[w[k - 1]]
  BY <1>0, WalkUnfolds
<1>2. w \in [1..N -> DOMAIN next \cup {Null}] /\ w[N] = Null
  BY WalkEnds
<1>3. Met(next, n) = {w[k] : k \in 1..N} \ {Null}
  BY <1>1 DEF Met, Range
<1> HIDE DEF w, N
<1>4. Met(next, n) \subseteq DOMAIN next
  BY <1>2, <1>3
<1>5. n # Null => n \in Met(next, n)
  BY <1>1, <1>3
<1>6. ASSUME NEW m \in Met(next, n), next[m] # Null
      PROVE  next[m] \in Met(next, n)
  <2>1. PICK k \in 1..N : w[k] = m /\ m # Null
    BY <1>3
  <2>2. k # N
    BY <2>1, <1>2
  <2>3. k + 1 \in 2..N /\ k + 1 \in 1..N /\ (k + 1) - 1 = k
    BY <2>1, <2>2, <1>1
  <2>4. w[k + 1] = next[m]
    BY <2>3, <2>1, <1>1
  <2> QED
    BY <2>3, <2>4, <1>6, <1>3
<1>7. ASSUME n # Null
      PROVE  \E m \in Met(next, n) : next[m] = Null
  <2> DEFINE B == {k \in 1..N : w[k] = Null}
  <2>1. B \in SUBSET Nat /\ B # {}
    BY <1>1, <1>2
  <2>2. PICK k \in B : \A o \in B : k <= o
    <3> HIDE DEF B
    <3> QED
      BY <2>1, LeastNumber
  <2>3. k \in 2..N
    BY <2>2, <1>7, <1>1
  <2>4. k - 1 \in 1..N /\ k - 1 \notin B
    BY <2>2, <2>3, <1>1
  <2>5. w[k - 1] # Null /\ w[k] = next[w[k - 1]] /\ w[k] = Null
    BY <2>2, <2>3, <2>4, <1>1
  <2> QED
    BY <2>4, <2>5, <1>3
<1> QED
  BY <1>4, <1>5, <1>6, <1>7

LEMMA EndMet ==
  ASSUME NEW next, NEW n, Chain(next, n), n # Null
  PROVE  EndOf(next, n) \in Met(next, n) /\ next[EndOf(next, n)] = Null
<1>1. \E m \in Met(next, n) : next[m] = Null
  BY MetClosed
<1> QED
  BY <1>1 DEF EndOf

-----------------------------------------------------------------------------
(* Keys. *)

LEMMA IndexFacts ==
  /\ Index = DOMAIN Keys /\ Index = 1..Len(Keys) /\ Len(Keys) \in Nat \ {0}
  /\ Len(AllowNulls) = Len(Keys)
  /\ \A i \in Index : /\ Keys[i] \in Seq(Nat) /\ Keys[i] # << >>
                      /\ DOMAIN Keys[i] = 1..Len(Keys[i]) /\ Len(Keys[i]) \in Nat \ {0}
                      /\ Range(Keys[i]) \subseteq Column
                      /\ AllowNulls[i] \in BOOLEAN
<1>1. Index = 1..Len(Keys) /\ Len(Keys) \in Nat \ {0} /\ DOMAIN Keys = 1..Len(Keys)
  BY KeysAssumption DEF Index
<1>2. ASSUME NEW i \in Index
      PROVE  /\ Keys[i] \in Seq(Nat) /\ Keys[i] # << >>
             /\ DOMAIN Keys[i] = 1..Len(Keys[i]) /\ Len(Keys[i]) \in Nat \ {0}
             /\ Range(Keys[i]) \subseteq Column
             /\ AllowNulls[i] \in BOOLEAN
  <2>1. Keys[i] \in Seq(Nat) /\ Keys[i] # << >>
    BY <1>1, KeysAssumption
  <2>2. Range(Keys[i]) \subseteq Column
    BY <1>1 DEF Column
  <2>3. AllowNulls[i] \in BOOLEAN
    BY KeysAssumption DEF Index
  <2> QED
    BY <2>1, <2>2, <2>3
<1> QED
  BY <1>1, <1>2, KeysAssumption

LEMMA KeyOfType ==
  ASSUME NEW i \in Index, NEW row \in Values
  PROVE  KeyOf(i, row) \in Key(i) \cup {NoKey}
<1>1. \A k \in DOMAIN Keys[i] : Keys[i][k] \in Column
  BY IndexFacts DEF Range
<1> QED
  BY <1>1 DEF KeyOf, Key, Values

LEMMA NoKeyIsNoKey ==
  ASSUME NEW i \in Index
  PROVE  NoKey \notin Key(i)
<1>1. 1 \in DOMAIN Keys[i]
  BY IndexFacts
<1> QED
  BY <1>1 DEF NoKey, Key

LEMMA KeyIsSeq ==
  ASSUME NEW i \in Index, NEW k \in Key(i)
  PROVE  k \in Seq(Nat)
<1>1. k \in [1..Len(Keys[i]) -> Nat] /\ Len(Keys[i]) \in Nat
  BY IndexFacts DEF Key
<1> QED
  BY <1>1

\* Rows with the same columns have the same key.
LEMMA KeyOfColumns ==
  ASSUME NEW i \in Index, NEW a, NEW b,
         \A c \in Range(Keys[i]) : a[c] = b[c]
  PROVE  KeyOf(i, a) = KeyOf(i, b)
<1>1. \A k \in DOMAIN Keys[i] : Keys[i][k] \in Range(Keys[i])
  BY DEF Range
<1> QED
  BY <1>1 DEF KeyOf

\* Equal keys have equal columns.
LEMMA KeyOfEqual ==
  ASSUME NEW i \in Index, NEW a, NEW b, KeyOf(i, a) = KeyOf(i, b), KeyOf(i, a) # NoKey
  PROVE  \A c \in Range(Keys[i]) : a[c] = b[c]
<1>1. KeyOf(i, a) = [k \in DOMAIN Keys[i] |-> a[Keys[i][k]]]
  BY Zenon DEF KeyOf
<1>2. KeyOf(i, b) = [k \in DOMAIN Keys[i] |-> b[Keys[i][k]]]
  BY Zenon DEF KeyOf
<1>3. \A k \in DOMAIN Keys[i] : KeyOf(i, a)[k] = a[Keys[i][k]]
  BY <1>1
<1>4. \A k \in DOMAIN Keys[i] : KeyOf(i, a)[k] = b[Keys[i][k]]
  BY <1>2
<1>5. \A k \in DOMAIN Keys[i] : a[Keys[i][k]] = b[Keys[i][k]]
  BY <1>3, <1>4
<1> QED
  BY <1>5 DEF Range

LEMMA NowhereHasNoKey ==
  ASSUME NEW i \in Index
  PROVE  Nowhere \in Values /\ KeyOf(i, Nowhere) = NoKey
<1>1. Nowhere \in Values
  BY DEF Nowhere, Values, Null
<1>2. 1 \in DOMAIN Keys[i] /\ Keys[i][1] \in Range(Keys[i]) /\ Keys[i][1] \in Column
  BY IndexFacts DEF Range
<1> QED
  BY <1>1, <1>2 DEF KeyOf, Nowhere

\* The order of keys is total.
LEMMA SmallerOrder ==
  ASSUME NEW i \in Index, NEW a \in Key(i), NEW b \in Key(i), NEW c \in Key(i)
  PROVE  /\ Smaller(a, b) /\ Smaller(b, c) => Smaller(a, c)
         /\ ~Smaller(a, a)
         /\ Smaller(a, b) \/ a = b \/ Smaller(b, a)
<1>1. DOMAIN a = 1..Len(Keys[i]) /\ DOMAIN b = 1..Len(Keys[i]) /\ Len(Keys[i]) \in Nat
      /\ DOMAIN Keys[i] = 1..Len(Keys[i])
      /\ \A k \in 1..Len(Keys[i]) : a[k] \in Nat /\ b[k] \in Nat /\ c[k] \in Nat
  BY IndexFacts DEF Key
<1> DEFINE n == Len(Keys[i])
<1> HIDE DEF n
<1>2. DOMAIN a = 1..n /\ DOMAIN b = 1..n /\ n \in Nat
      /\ \A k \in 1..n : a[k] \in Nat /\ b[k] \in Nat /\ c[k] \in Nat
  BY <1>1 DEF n
<1>3. ASSUME Smaller(a, b), Smaller(b, c)
      PROVE  Smaller(a, c)
  <2>1. PICK k \in 1..n : a[k] < b[k] /\ \A j \in 1..k - 1 : a[j] = b[j]
    BY <1>2, <1>3 DEF Smaller
  <2>2. PICK m \in 1..n : b[m] < c[m] /\ \A j \in 1..m - 1 : b[j] = c[j]
    BY <1>2, <1>3 DEF Smaller
  <2> DEFINE o == IF k <= m THEN k ELSE m
  <2>3. o \in 1..n /\ o <= k /\ o <= m
    BY <2>1, <2>2, <1>2
  <2>4. a[o] < c[o]
    <3>1. CASE k = m
      BY <3>1, <2>1, <2>2, <1>2
    <3>2. CASE k < m
      <4>1. b[k] = c[k]
        BY <3>2, <2>1, <2>2, <1>2
      <4> QED
        BY <3>2, <4>1, <2>1, <1>2
    <3>3. CASE m < k
      <4>1. a[m] = b[m]
        BY <3>3, <2>1, <2>2, <1>2
      <4> QED
        BY <3>3, <4>1, <2>2, <1>2
    <3> QED
      BY <3>1, <3>2, <3>3, <2>1, <2>2, <1>2
  <2>5. \A j \in 1..o - 1 : a[j] = c[j]
    BY <2>1, <2>2, <2>3, <1>2
  <2> HIDE DEF o
  <2>6. o \in DOMAIN a
    BY <2>3, <1>2
  <2> QED
    BY <2>6, <2>4, <2>5 DEF Smaller
<1>4. ~Smaller(a, a)
  BY <1>2 DEF Smaller
<1>5. ASSUME a # b
      PROVE  Smaller(a, b) \/ Smaller(b, a)
  <2> DEFINE B == {k \in 1..n : a[k] # b[k]}
  <2>1. B \in SUBSET Nat /\ B # {}
    <3>1. a = [k \in 1..n |-> a[k]] /\ b = [k \in 1..n |-> b[k]]
      BY <1>2, IndexFacts DEF Key
    <3> QED
      BY <1>5, <3>1
  <2>2. PICK k \in B : \A m \in B : k <= m
    <3> HIDE DEF B
    <3> QED
      BY <2>1, LeastNumber
  <2>3. k \in 1..n /\ a[k] # b[k]
    BY <2>2
  <2>4. \A j \in 1..k - 1 : j \in 1..n /\ j \notin B
    BY <2>2, <2>3, <1>2
  <2>5. \A j \in 1..k - 1 : a[j] = b[j]
    BY <2>4
  <2>6. k \in DOMAIN a /\ k \in DOMAIN b
    BY <2>3, <1>2
  <2>7. CASE a[k] < b[k]
    BY <2>5, <2>6, <2>7 DEF Smaller
  <2>8. CASE b[k] < a[k]
    BY <2>5, <2>6, <2>8 DEF Smaller
  <2> QED
    BY <2>3, <2>7, <2>8, <1>2
<1> QED
  BY <1>3, <1>4, <1>5

-----------------------------------------------------------------------------
(* Searches in a tree. *)

LEMMA NodeFields ==
  ASSUME NEW tree, Tree(tree), NEW n \in DOMAIN tree.node
  PROVE  LET e == tree.node[n]
         IN /\ e = [key |-> e.key, row |-> e.row, parent |-> e.parent, left |-> e.left, right |-> e.right]
            /\ e.key \in Seq(Nat) /\ e.row \in Row /\ e.parent \in Nat \cup {Freed}
            /\ e.left \in Nat /\ e.right \in Nat /\ n \in Nat /\ n # Null
<1>1. tree.node[n] \in NodeType /\ n \in Nat \ {Null}
  BY DEF Tree
<1> QED
  BY <1>1 DEF NodeType

\* An entry with one of its links cut.
LEMMA UnlinkedNode ==
  ASSUME NEW a \in NodeType, NEW b
  PROVE  /\ b = [a EXCEPT !.left = Null] =>
               /\ b \in NodeType /\ b.key = a.key /\ b.row = a.row /\ b.parent = a.parent
               /\ b.left = Null /\ b.right = a.right
         /\ b = [a EXCEPT !.right = Null] =>
               /\ b \in NodeType /\ b.key = a.key /\ b.row = a.row /\ b.parent = a.parent
               /\ b.left = a.left /\ b.right = Null
BY DEF NodeType, Null

LEMMA SameNode ==
  ASSUME NEW a \in NodeType, NEW b \in NodeType,
         a.key = b.key, a.row = b.row, a.parent = b.parent, a.left = b.left, a.right = b.right
  PROVE  a = b
<1>1. a = [key |-> a.key, row |-> a.row, parent |-> a.parent, left |-> a.left, right |-> a.right]
  BY DEF NodeType
<1>2. b = [key |-> b.key, row |-> b.row, parent |-> b.parent, left |-> b.left, right |-> b.right]
  BY DEF NodeType
<1> QED
  BY <1>1, <1>2

LEMMA TowardsChain ==
  ASSUME NEW tree, Tree(tree), Linked(tree), NEW key
  PROVE  /\ Chain(Towards(tree.node, key), tree.root)
         /\ DOMAIN Towards(tree.node, key) = DOMAIN tree.node
<1> DEFINE next == Towards(tree.node, key)
           D == DOMAIN tree.node
<1>1. DOMAIN next = D /\ \A n \in D :
         next[n] = IF Smaller(tree.node[n].key, key) THEN tree.node[n].left ELSE tree.node[n].right
  BY DEF Towards
<1>2. next \in [D -> D \cup {Null}]
  BY DEF Towards, Linked
<1> HIDE DEF next
<1>3. \A p, q \in D : next[p] = next[q] /\ next[p] # Null => p = q
  BY <1>1 DEF Linked
<1>4. tree.root # Null => \A p \in D : next[p] # tree.root
  BY <1>1 DEF Linked
<1>5. IsFiniteSet(D) /\ Null \notin D /\ tree.root \in D \cup {Null}
  BY DEF Tree
<1> QED
  BY <1>1, <1>2, <1>3, <1>4, <1>5 DEF Chain, next

\* What a search comes past, entry by entry.
LEMMA SearchClosed ==
  ASSUME NEW tree, Tree(tree), Linked(tree), NEW key
  PROVE  LET next(n) == IF Smaller(tree.node[n].key, key) THEN tree.node[n].left
                        ELSE tree.node[n].right
             prev == EndOf(Towards(tree.node, key), tree.root)
         IN /\ Search(tree, key) \subseteq DOMAIN tree.node
            /\ tree.root # Null => tree.root \in Search(tree, key)
            /\ \A n \in Search(tree, key) : next(n) # Null => next(n) \in Search(tree, key)
            /\ tree.root # Null => prev \in Search(tree, key) /\ next(prev) = Null
            /\ tree.root = Null => prev = Null
<1> DEFINE to == Towards(tree.node, key)
           prev == EndOf(to, tree.root)
<1>1. Chain(to, tree.root) /\ DOMAIN to = DOMAIN tree.node
  BY TowardsChain
<1>2. Search(tree, key) = Met(to, tree.root)
  BY DEF Search
<1>3. \A n \in DOMAIN tree.node :
         to[n] = IF Smaller(tree.node[n].key, key) THEN tree.node[n].left ELSE tree.node[n].right
  BY DEF Towards
<1>4. tree.root = Null => prev = Null
  BY DEF EndOf
<1> HIDE DEF to
<1>5. tree.root # Null => prev \in Met(to, tree.root) /\ to[prev] = Null
  BY <1>1, EndMet
<1>6. /\ Met(to, tree.root) \subseteq DOMAIN to
      /\ tree.root # Null => tree.root \in Met(to, tree.root)
      /\ \A m \in Met(to, tree.root) : to[m] # Null => to[m] \in Met(to, tree.root)
  BY <1>1, MetClosed
<1> HIDE DEF prev
<1>7. tree.root # Null => prev \in DOMAIN tree.node
  BY <1>5, <1>6, <1>1
<1> USE DEF prev, to
<1> QED
  BY <1>1, <1>2, <1>3, <1>4, <1>5, <1>6, <1>7

\* A search stays in every set that its steps do not leave.
LEMMA SearchWithin ==
  ASSUME NEW tree, Tree(tree), NEW key, NEW S, S \subseteq DOMAIN tree.node,
         tree.root # Null => tree.root \in S,
         \A n \in S : LET next == IF Smaller(tree.node[n].key, key) THEN tree.node[n].left
                                  ELSE tree.node[n].right
                      IN next # Null => next \in S
  PROVE  Search(tree, key) \subseteq S
<1> DEFINE to == Towards(tree.node, key)
<1>1. IsFiniteSet(DOMAIN to)
  BY DEF Towards, Tree
<1>2. \A n \in S : to[n] # Null => to[n] \in S
  BY DEF Towards
<1>3. Met(to, tree.root) \subseteq S
  <2> HIDE DEF to
  <2> QED
    BY <1>1, <1>2, MetWithin
<1> QED
  BY <1>3 DEF Search

-----------------------------------------------------------------------------
(* Attaching an entry. *)

LEMMA FreshIsFresh ==
  ASSUME NEW tree, Tree(tree)
  PROVE  FreshNode(tree) \in Nat \ {Null} /\ FreshNode(tree) \notin DOMAIN tree.node
<1> DEFINE D == DOMAIN tree.node
           c == Cardinality(D)
<1>1. IsFiniteSet(D)
  BY DEF Tree
<1>2. c \in Nat
  BY <1>1, FS_CardinalityType
<1>3. IsFiniteSet(1..c + 1) /\ Cardinality(1..c + 1) = c + 1
  <2> HIDE DEF c
  <2> QED
    BY <1>2, FS_Interval
<1>4. ~(1..c + 1 \subseteq D)
  <2>1. SUFFICES ASSUME 1..c + 1 \subseteq D
                 PROVE  FALSE
    OBVIOUS
  <2>2. Cardinality(1..c + 1) <= Cardinality(D)
    BY <2>1, <1>1, FS_Subset
  <2> QED
    BY <2>2, <1>2, <1>3
<1>5. \E n \in 1..c + 1 : n \notin D
  BY <1>4
<1>6. FreshNode(tree) \in 1..c + 1 /\ FreshNode(tree) \notin D
  BY <1>5 DEF FreshNode
<1> HIDE DEF c
<1> QED
  BY <1>6, <1>2 DEF Null

\* Where the search for a key ends.
Below(tree, key) == EndOf(Towards(tree.node, key), tree.root)

LEMMA BelowFacts ==
  ASSUME NEW tree, Tree(tree), Linked(tree), NEW key
  PROVE  /\ tree.root = Null => Below(tree, key) = Null
         /\ tree.root # Null => /\ Below(tree, key) \in DOMAIN tree.node
                                /\ Below(tree, key) \in Search(tree, key)
                                /\ Below(tree, key) # Null
                                /\ IF Smaller(tree.node[Below(tree, key)].key, key)
                                   THEN tree.node[Below(tree, key)].left = Null
                                   ELSE tree.node[Below(tree, key)].right = Null
<1>1. DOMAIN tree.node \subseteq Nat \ {Null}
  BY DEF Tree
<1> QED
  BY <1>1, SearchClosed DEF Below

LEMMA AttachFields ==
  ASSUME NEW tree, Tree(tree), Linked(tree), NEW key \in Seq(Nat), NEW row \in Row
  PROVE  LET new  == FreshNode(tree)
             p    == Below(tree, key)
             next == Attach(tree, key, row)
         IN /\ next = [root |-> next.root, node |-> next.node]
            /\ next.root = IF tree.root = Null THEN new ELSE tree.root
            /\ DOMAIN next.node = DOMAIN tree.node \cup {new}
            /\ next.node \in [DOMAIN next.node -> NodeType]
            /\ next.node[new] = [key |-> key, row |-> row, parent |-> p, left |-> Null, right |-> Null]
            /\ \A n \in DOMAIN tree.node :
                  /\ next.node[n].key = tree.node[n].key
                  /\ next.node[n].row = tree.node[n].row
                  /\ next.node[n].parent = tree.node[n].parent
                  /\ next.node[n].left = IF n = p /\ Smaller(tree.node[n].key, key) THEN new
                                         ELSE tree.node[n].left
                  /\ next.node[n].right = IF n = p /\ ~Smaller(tree.node[n].key, key) THEN new
                                          ELSE tree.node[n].right
<1> DEFINE new  == FreshNode(tree)
           p    == Below(tree, key)
           D    == DOMAIN tree.node
           linked == IF p = Null THEN tree.node
                     ELSE [tree.node EXCEPT ![p][Side(tree.node[p], key)] = new]
           node == [n \in DOMAIN linked \cup {new} |->
                       IF n = new THEN Leaf(key, row, p) ELSE linked[n]]
<1>1. Attach(tree, key, row) = [root |-> IF p = Null THEN new ELSE tree.root, node |-> node]
  BY Zenon DEF Attach, Below
<1>2. new \in Nat \ {Null} /\ new \notin D
  BY FreshIsFresh
<1>3. (p = Null <=> tree.root = Null) /\ (p # Null => p \in D) /\ p \in Nat
  <2>1. D \subseteq Nat \ {Null} /\ Null \in Nat
    BY DEF Tree, Null
  <2> QED
    BY <2>1, BelowFacts
<1>4. tree.node \in [D -> NodeType]
  BY DEF Tree
<1> HIDE DEF new, p, D
<1>5. linked \in [D -> NodeType]
  BY <1>2, <1>3, <1>4 DEF Side, NodeType
<1>6. \A n \in D : /\ linked[n].key = tree.node[n].key
                   /\ linked[n].row = tree.node[n].row
                   /\ linked[n].parent = tree.node[n].parent
                   /\ linked[n].left = IF n = p /\ Smaller(tree.node[n].key, key) THEN new
                                       ELSE tree.node[n].left
                   /\ linked[n].right = IF n = p /\ ~Smaller(tree.node[n].key, key) THEN new
                                        ELSE tree.node[n].right
  <2>1. CASE p = Null
    <3>1. \A n \in D : n # p
      BY <2>1 DEF Tree, D
    <3> QED
      BY <2>1, <3>1
  <2>2. CASE p # Null
    BY <2>2, <1>2, <1>3, <1>4 DEF Side, NodeType
  <2> QED
    BY <2>1, <2>2
<1> HIDE DEF linked
<1>7. Leaf(key, row, p) = [key |-> key, row |-> row, parent |-> p, left |-> Null, right |-> Null]
      /\ Leaf(key, row, p) \in NodeType
  BY <1>3 DEF Leaf, NodeType, Null
<1>8. node \in [D \cup {new} -> NodeType] /\ node[new] = Leaf(key, row, p)
      /\ \A n \in D : node[n] = linked[n]
  BY <1>5, <1>7, <1>2
<1> HIDE DEF node
<1>9. Attach(tree, key, row).root = (IF p = Null THEN new ELSE tree.root)
      /\ Attach(tree, key, row).node = node
      /\ Attach(tree, key, row) = [root |-> Attach(tree, key, row).root,
                                   node |-> Attach(tree, key, row).node]
  BY <1>1
<1>10. DOMAIN node = D \cup {new}
  BY <1>8
<1> QED
  BY <1>3, <1>6, <1>7, <1>8, <1>9, <1>10 DEF new, p, D

\* The entries stay as they are but for their links.
LEMMA AttachKeeps ==
  ASSUME NEW tree, Tree(tree), Linked(tree), NEW key \in Seq(Nat), NEW row \in Row
  PROVE  /\ DOMAIN Attach(tree, key, row).node = DOMAIN tree.node \cup {FreshNode(tree)}
         /\ \A n \in DOMAIN tree.node :
               /\ Attach(tree, key, row).node[n].key = tree.node[n].key
               /\ Attach(tree, key, row).node[n].row = tree.node[n].row
         /\ Attach(tree, key, row).node[FreshNode(tree)].key = key
         /\ Attach(tree, key, row).node[FreshNode(tree)].row = row
<1> DEFINE next == Attach(tree, key, row)
           new == FreshNode(tree)
           p == Below(tree, key)
<1>1. /\ DOMAIN next.node = DOMAIN tree.node \cup {new}
      /\ next.node[new] = [key |-> key, row |-> row, parent |-> p, left |-> Null, right |-> Null]
      /\ \A n \in DOMAIN tree.node : /\ next.node[n].key = tree.node[n].key
                                     /\ next.node[n].row = tree.node[n].row
  BY AttachFields
<1> HIDE DEF next, new, p
<1>2. next.node[new].key = key /\ next.node[new].row = row
  BY <1>1
<1> QED
  BY <1>1, <1>2 DEF next, new

LEMMA AttachTree ==
  ASSUME NEW tree, Tree(tree), Linked(tree), NEW key \in Seq(Nat), NEW row \in Row
  PROVE  Tree(Attach(tree, key, row)) /\ Linked(Attach(tree, key, row))
<1> DEFINE new  == FreshNode(tree)
           p    == Below(tree, key)
           next == Attach(tree, key, row)
           D    == DOMAIN tree.node
           left(n) == tree.node[n].left
           right(n) == tree.node[n].right
           small(n) == Smaller(tree.node[n].key, key)
<1>1. new \in Nat \ {Null} /\ new \notin D
  BY FreshIsFresh
<1>2. /\ tree.root = Null => p = Null
      /\ tree.root # Null => p \in D /\ p # Null /\ IF small(p) THEN left(p) = Null ELSE right(p) = Null
  BY BelowFacts
<1>3. /\ next = [root |-> next.root, node |-> next.node]
      /\ next.root = IF tree.root = Null THEN new ELSE tree.root
      /\ DOMAIN next.node = D \cup {new}
      /\ next.node \in [DOMAIN next.node -> NodeType]
      /\ next.node[new] = [key |-> key, row |-> row, parent |-> p, left |-> Null, right |-> Null]
      /\ \A n \in D :
            /\ next.node[n].left = IF n = p /\ small(n) THEN new ELSE left(n)
            /\ next.node[n].right = IF n = p /\ ~small(n) THEN new ELSE right(n)
  BY AttachFields
<1>4. IsFiniteSet(D) /\ D \subseteq Nat \ {Null} /\ tree.root \in D \cup {Null}
  BY DEF Tree
<1>5. /\ \A n \in D : /\ left(n) \in D \cup {Null} /\ right(n) \in D \cup {Null}
                      /\ left(n) = right(n) => left(n) = Null
      /\ tree.root # Null => \A n \in D : tree.root \notin {left(n), right(n)}
      /\ \A n, m \in D : /\ n # m /\ left(n) # Null => left(n) # left(m)
                         /\ n # m /\ right(n) # Null => right(n) # right(m)
                         /\ left(n) # Null => left(n) # right(m)
  BY DEF Linked
<1>6. \A n \in D : n # Null
  BY <1>4
<1> DEFINE left1(n) == next.node[n].left
           right1(n) == next.node[n].right
           root1 == next.root
<1>7. left1(new) = Null /\ right1(new) = Null /\ root1 = IF tree.root = Null THEN new ELSE tree.root
  BY <1>3
<1>8. \A n \in D : /\ left1(n) = IF n = p /\ small(n) THEN new ELSE left(n)
                   /\ right1(n) = IF n = p /\ ~small(n) THEN new ELSE right(n)
  BY <1>3
<1>9. DOMAIN next.node = D \cup {new} /\ IsFiniteSet(D \cup {new})
  BY <1>3, <1>4, FS_AddElement
<1>10. Tree(next)
  BY <1>1, <1>3, <1>4, <1>9 DEF Tree
<1> HIDE DEF new, p, next, left1, right1, root1, left, right, small, D
<1>11. \A n \in D \cup {new} : /\ left1(n) \in D \cup {new, Null} /\ right1(n) \in D \cup {new, Null}
                               /\ left1(n) = right1(n) => left1(n) = Null
  BY <1>1, <1>5, <1>7, <1>8
<1>12. \A n \in D \cup {new} : root1 # left1(n) /\ root1 # right1(n)
  BY <1>1, <1>2, <1>5, <1>6, <1>7, <1>8, <1>4
<1>13. \A n, m \in D \cup {new} : /\ n # m /\ left1(n) # Null => left1(n) # left1(m)
                                  /\ n # m /\ right1(n) # Null => right1(n) # right1(m)
                                  /\ left1(n) # Null => left1(n) # right1(m)
  BY <1>1, <1>5, <1>7, <1>8
<1>14. Linked(next)
  BY <1>9, <1>11, <1>12, <1>13 DEF Linked, left1, right1, root1
<1> QED
  BY <1>10, <1>14 DEF next

\* What a search met before it still meets, and the new entry has its place.
LEMMA AttachSearch ==
  ASSUME NEW tree, Tree(tree), Linked(tree), NEW key \in Seq(Nat), NEW row \in Row, NEW k
  PROVE  /\ Search(tree, k) \subseteq Search(Attach(tree, key, row), k)
         /\ FreshNode(tree) \in Search(Attach(tree, key, row), key)
<1> DEFINE new  == FreshNode(tree)
           p    == Below(tree, key)
           next == Attach(tree, key, row)
           D    == DOMAIN tree.node
           step(n, x) == IF Smaller(tree.node[n].key, x) THEN tree.node[n].left ELSE tree.node[n].right
           step1(n, x) == IF Smaller(next.node[n].key, x) THEN next.node[n].left ELSE next.node[n].right
<1>1. new \in Nat \ {Null} /\ new \notin D
  BY FreshIsFresh
<1>2. /\ tree.root = Null => p = Null
      /\ tree.root # Null => p \in D /\ p # Null /\ step(p, key) = Null /\ p \in Search(tree, key)
  BY BelowFacts
<1>3. /\ next.root = IF tree.root = Null THEN new ELSE tree.root
      /\ \A n \in D :
            /\ next.node[n].key = tree.node[n].key
            /\ next.node[n].left = IF n = p /\ Smaller(tree.node[n].key, key) THEN new
                                   ELSE tree.node[n].left
            /\ next.node[n].right = IF n = p /\ ~Smaller(tree.node[n].key, key) THEN new
                                    ELSE tree.node[n].right
  BY AttachFields, ZenonT(60)
<1>4. Tree(next) /\ Linked(next)
  BY AttachTree
<1>5. \A x : \A n \in D : step(n, x) # Null => step1(n, x) = step(n, x)
  <2>1. \A n \in D : n # Null
    BY DEF Tree
  <2> SUFFICES ASSUME NEW x, NEW n \in D, step(n, x) # Null
               PROVE  step1(n, x) = step(n, x)
    OBVIOUS
  <2>2. CASE n # p
    BY <1>3, <2>2
  <2>3. CASE n = p
    <3>1. tree.root # Null
      BY <2>1, <2>3, <1>2
    <3>2. step(n, key) = Null
      BY <3>1, <2>3, <1>2
    <3>3. /\ next.node[n].key = tree.node[n].key
          /\ next.node[n].left = IF Smaller(tree.node[n].key, key) THEN new
                                 ELSE tree.node[n].left
          /\ next.node[n].right = IF ~Smaller(tree.node[n].key, key) THEN new
                                  ELSE tree.node[n].right
      BY <1>3, <2>3
    <3> QED
      BY <3>2, <3>3
  <2> QED
    BY <2>2, <2>3
<1>6. \A n \in D : n = p => step1(n, key) = new
  BY <1>3
<1>7. \A x : /\ next.root # Null => next.root \in Search(next, x)
             /\ \A n \in Search(next, x) : step1(n, x) # Null => step1(n, x) \in Search(next, x)
  BY <1>4, SearchClosed
<1>8. \A x : \A n \in D : step(n, x) \in D \cup {Null}
  BY DEF Linked
<1>9. tree.root \in D \cup {Null}
  BY DEF Tree
<1>10. ASSUME NEW x
       PROVE  Search(tree, x) \subseteq Search(next, x)
  <2> DEFINE S == Search(next, x) \cap D
  <2>1. tree.root # Null => tree.root \in S
    BY <1>3, <1>7, <1>9
  <2>2. \A n \in S : step(n, x) # Null => step(n, x) \in S
    <3> SUFFICES ASSUME NEW n \in S, step(n, x) # Null
                 PROVE  step(n, x) \in S
      OBVIOUS
    <3>1. step1(n, x) = step(n, x)
      BY <1>5
    <3>2. step1(n, x) \in Search(next, x)
      BY <3>1, <1>7
    <3> QED
      BY <3>1, <3>2, <1>8
  <2>3. Search(tree, x) \subseteq S
    <3> HIDE DEF S
    <3>1. S \subseteq D
      BY DEF S
    <3> QED
      BY <3>1, <2>1, <2>2, SearchWithin
  <2> QED
    BY <2>3
<1>11. new \in Search(next, key)
  <2>1. CASE tree.root = Null
    <3>1. next.root = new
      BY <1>3, <2>1
    <3> QED
      BY <3>1, <1>7, <1>1
  <2>2. CASE tree.root # Null
    <3>1. p \in Search(next, key)
      BY <2>2, <1>2, <1>10
    <3>2. step1(p, key) = new
      BY <2>2, <1>2, <1>6
    <3> QED
      BY <3>1, <3>2, <1>7, <1>1
  <2> QED
    BY <2>1, <2>2
<1> QED
  BY <1>10, <1>11

LEMMA AttachSearchTree ==
  ASSUME NEW i \in Index, NEW tree, SearchTree(tree, i), NEW key \in Key(i), NEW row \in Row
  PROVE  SearchTree(Attach(tree, key, row), i)
<1> DEFINE next == Attach(tree, key, row)
           new  == FreshNode(tree)
<1>1. Tree(tree) /\ Linked(tree) /\ Placed(tree) /\ Keyed(tree, i)
  BY DEF SearchTree
<1>2. key \in Seq(Nat)
  BY KeyIsSeq
<1>3. Tree(next) /\ Linked(next)
  BY <1>1, <1>2, AttachTree
<1>4. /\ DOMAIN next.node = DOMAIN tree.node \cup {new}
      /\ next.node[new].key = key
      /\ \A n \in DOMAIN tree.node : next.node[n].key = tree.node[n].key
  <2>1. next.node[new] = [key |-> key, row |-> row, parent |-> Below(tree, key),
                          left |-> Null, right |-> Null]
    BY <1>1, <1>2, AttachFields
  <2>2. next.node[new].key = key
    BY <2>1
  <2> QED
    BY <1>1, <1>2, <2>2, AttachFields, ZenonT(60)
<1>5. \A k : Search(tree, k) \subseteq Search(next, k)
  BY <1>1, <1>2, AttachSearch
<1>6. new \in Search(next, key)
  BY <1>1, <1>2, AttachSearch
<1>7. Placed(next)
  BY <1>1, <1>4, <1>5, <1>6 DEF Placed
<1>8. Keyed(next, i)
  BY <1>1, <1>4 DEF Keyed
<1> QED
  BY <1>3, <1>7, <1>8 DEF SearchTree

\* Without a root there is no entry.
LEMMA RootOfEntries ==
  ASSUME NEW tree, Tree(tree), Linked(tree), Placed(tree), tree.root = Null
  PROVE  DOMAIN tree.node = {}
<1>1. ASSUME NEW k
      PROVE  Search(tree, k) \subseteq {}
  <2> DEFINE S == {}
  <2>1. /\ S \subseteq DOMAIN tree.node
        /\ tree.root # Null => tree.root \in S
        /\ \A n \in S : LET next == IF Smaller(tree.node[n].key, k) THEN tree.node[n].left
                                  ELSE tree.node[n].right
                        IN next # Null => next \in S
    OBVIOUS
  <2> HIDE DEF S
  <2>2. Search(tree, k) \subseteq S
    BY <2>1, SearchWithin
  <2> QED
    BY <2>2 DEF S
<1> QED
  BY <1>1 DEF Placed

\* RemoveEntry undoes Attach.
LEMMA RemoveAttached ==
  ASSUME NEW tree, Tree(tree), Linked(tree), Placed(tree), NEW key \in Seq(Nat), NEW row \in Row
  PROVE  /\ Removal(Attach(tree, key, row), FreshNode(tree)) = Alive
         /\ RemoveEntry(Attach(tree, key, row), FreshNode(tree)) = tree
<1> DEFINE new  == FreshNode(tree)
           p    == Below(tree, key)
           next == Attach(tree, key, row)
           D    == DOMAIN tree.node
<1>1. new \in Nat \ {Null} /\ new \notin D
  BY FreshIsFresh
<1>2. /\ tree.root = Null => p = Null
      /\ tree.root # Null => /\ p \in D /\ p # Null
                             /\ IF Smaller(tree.node[p].key, key) THEN tree.node[p].left = Null
                                ELSE tree.node[p].right = Null
  BY BelowFacts
<1>3. /\ next = [root |-> next.root, node |-> next.node]
      /\ next.root = IF tree.root = Null THEN new ELSE tree.root
      /\ DOMAIN next.node = D \cup {new}
      /\ next.node \in [DOMAIN next.node -> NodeType]
      /\ next.node[new] = [key |-> key, row |-> row, parent |-> p, left |-> Null, right |-> Null]
      /\ \A n \in D :
            /\ next.node[n].key = tree.node[n].key
            /\ next.node[n].row = tree.node[n].row
            /\ next.node[n].parent = tree.node[n].parent
            /\ next.node[n].left = IF n = p /\ Smaller(tree.node[n].key, key) THEN new
                                   ELSE tree.node[n].left
            /\ next.node[n].right = IF n = p /\ ~Smaller(tree.node[n].key, key) THEN new
                                    ELSE tree.node[n].right
  BY AttachFields
<1>4. /\ tree = [root |-> tree.root, node |-> tree.node] /\ tree.node \in [D -> NodeType]
      /\ D \subseteq Nat \ {Null} /\ tree.root \in D \cup {Null}
  BY DEF Tree
<1>5. \A n \in D : /\ tree.node[n].left \in D \cup {Null} /\ tree.node[n].right \in D \cup {Null}
  BY DEF Linked
<1>6. CASE tree.root = Null
  <2>1. D = {}
    BY <1>6, RootOfEntries
  <2> HIDE DEF next, new, p
  <2>2. next.root = new /\ next.node[new].parent = Null
        /\ next.node[new].left = Null /\ next.node[new].right = Null
    BY <1>6, <1>2, <1>3
  <2>3. Removal(next, new) = Alive
    BY <2>2, <1>1 DEF Removal
  <2>4. RemoveEntry(next, new) = RemoveRoot(next)
    BY <2>2 DEF RemoveEntry
  <2>5. RemoveRoot(next) = [root |-> Null, node |-> Orphan(Drop(next.node, new), new)]
    BY <2>2 DEF RemoveRoot
  <2>6. Drop(next.node, new) = [n \in {} |-> next.node[n]]
    <3>1. DOMAIN next.node \ {new} = {}
      BY <2>1, <1>3
    <3> QED
      BY <3>1 DEF Drop
  <2>7. DOMAIN Drop(next.node, new) = {}
    BY <2>6
  <2>8. DOMAIN Orphan(Drop(next.node, new), new) = {}
    BY <2>7 DEF Orphan
  <2>9. Orphan(Drop(next.node, new), new) = tree.node
    <3> DEFINE o == Orphan(Drop(next.node, new), new)
    <3>1. o = [n \in DOMAIN o |-> o[n]]
      BY Zenon DEF Orphan
    <3>2. tree.node = [n \in D |-> tree.node[n]]
      BY <1>4
    <3> HIDE DEF o
    <3>3. DOMAIN o = {}
      BY <2>8 DEF o
    <3>4. o = tree.node
      BY <3>1, <3>2, <3>3, <2>1
    <3> QED
      BY <3>4 DEF o
  <2>10. RemoveEntry(next, new) = tree
    BY <2>4, <2>5, <2>9, <1>4, <1>6
  <2> QED
    BY <2>3, <2>10 DEF next, new
<1>7. CASE tree.root # Null
  <2> DEFINE small == Smaller(tree.node[p].key, key)
  <2>1. p \in D /\ p # Null /\ p # new /\ p # Freed
        /\ IF small THEN tree.node[p].left = Null ELSE tree.node[p].right = Null
    BY <1>7, <1>1, <1>2, <1>4 DEF Freed
  <2> HIDE DEF next, new, p
  <2>2. /\ next.node[new].parent = p /\ next.node[new].left = Null /\ next.node[new].right = Null
        /\ next.node[p].left = IF small THEN new ELSE tree.node[p].left
        /\ next.node[p].right = IF small THEN tree.node[p].right ELSE new
    BY <2>1, <1>3
  <2>3. new \in {next.node[p].left, next.node[p].right}
    BY <2>2
  <2>4. Removal(next, new) = Alive
    BY <2>1, <2>2, <2>3, <1>1 DEF Removal
  <2> DEFINE side == IF next.node[p].left = new THEN "left" ELSE "right"
             cut == [next.node EXCEPT ![p][side] = Null]
  <2>5. RemoveEntry(next, new) = [root |-> next.root, node |-> Drop(cut, new)]
    BY <2>1, <2>2 DEF RemoveEntry, RemoveLeaf
  <2>6. next.node[p].left = new <=> small
    BY <2>1, <2>2, <1>1, <1>5
  <2>7. /\ DOMAIN cut = D \cup {new}
        /\ \A n \in D : n # p => cut[n] = next.node[n]
        /\ cut[p] = IF small THEN [next.node[p] EXCEPT !.left = Null]
                    ELSE [next.node[p] EXCEPT !.right = Null]
    <3> HIDE DEF small
    <3>1. side = IF small THEN "left" ELSE "right"
      BY <2>6
    <3> HIDE DEF side
    <3>2. p \in DOMAIN next.node
      BY <2>1, <1>3
    <3>3. cut[p] = [next.node[p] EXCEPT ![side] = Null]
      BY <3>2
    <3> QED
      BY <3>1, <3>2, <3>3, <1>3
  <2> HIDE DEF cut, side, small
  <2>8. Drop(cut, new) = [n \in D |-> cut[n]]
    <3>1. DOMAIN cut \ {new} = D
      BY <2>7, <1>1
    <3> QED
      BY <3>1 DEF Drop
  <2>9. \A n \in D : n # p => cut[n] = tree.node[n]
    <3> SUFFICES ASSUME NEW n \in D, n # p
                 PROVE  cut[n] = tree.node[n]
      OBVIOUS
    <3>1. cut[n] = next.node[n]
      BY <2>7
    <3>2. next.node[n] \in NodeType /\ tree.node[n] \in NodeType
      BY <1>3, <1>4
    <3>3. /\ next.node[n].key = tree.node[n].key /\ next.node[n].row = tree.node[n].row
          /\ next.node[n].parent = tree.node[n].parent
          /\ next.node[n].left = tree.node[n].left /\ next.node[n].right = tree.node[n].right
      BY <1>3
    <3> QED
      BY <3>1, <3>2, <3>3, SameNode
  <2>10. cut[p] = tree.node[p]
    <3>1. next.node[p] \in NodeType /\ tree.node[p] \in NodeType
      BY <1>3, <1>4, <2>1
    <3>2. /\ next.node[p].key = tree.node[p].key /\ next.node[p].row = tree.node[p].row
          /\ next.node[p].parent = tree.node[p].parent
      BY <1>3, <2>1
    <3> HIDE DEF D
    <3>8. CASE small
      <4>1. /\ tree.node[p].left = Null /\ next.node[p].right = tree.node[p].right
            /\ cut[p] = [next.node[p] EXCEPT !.left = Null]
        BY <3>8, <2>1, <2>2, <2>7 DEF small
      <4>2. /\ cut[p] \in NodeType /\ cut[p].key = next.node[p].key /\ cut[p].row = next.node[p].row
            /\ cut[p].parent = next.node[p].parent
            /\ cut[p].left = Null /\ cut[p].right = next.node[p].right
        BY <3>1, <4>1, UnlinkedNode
      <4> QED
        BY <3>1, <3>2, <4>1, <4>2, SameNode, Zenon
    <3>9. CASE ~small
      <4>1. /\ tree.node[p].right = Null /\ next.node[p].left = tree.node[p].left
            /\ cut[p] = [next.node[p] EXCEPT !.right = Null]
        BY <3>9, <2>1, <2>2, <2>7 DEF small
      <4>2. /\ cut[p] \in NodeType /\ cut[p].key = next.node[p].key /\ cut[p].row = next.node[p].row
            /\ cut[p].parent = next.node[p].parent
            /\ cut[p].right = Null /\ cut[p].left = next.node[p].left
        BY <3>1, <4>1, UnlinkedNode
      <4> QED
        BY <3>1, <3>2, <4>1, <4>2, SameNode, Zenon
    <3> QED
      BY <3>8, <3>9
  <2>11. [n \in D |-> cut[n]] = tree.node
    BY <2>9, <2>10, <1>4
  <2>12. RemoveEntry(next, new) = tree
    BY <2>5, <2>8, <2>11, <1>3, <1>4, <1>7
  <2> QED
    BY <2>4, <2>12 DEF next, new
<1> QED
  BY <1>6, <1>7

-----------------------------------------------------------------------------
(* Removing an entry. *)

LEMMA RemoveLeafFields ==
  ASSUME NEW tree, Tree(tree), Linked(tree), NEW e \in DOMAIN tree.node,
         tree.node[e].left = Null, tree.node[e].right = Null,
         tree.node[e].parent \in DOMAIN tree.node,
         e \in {tree.node[tree.node[e].parent].left, tree.node[tree.node[e].parent].right}
  PROVE  LET next == RemoveLeaf(tree, e)
         IN /\ next = [root |-> tree.root, node |-> next.node]
            /\ tree.root # e
            /\ DOMAIN next.node = DOMAIN tree.node \ {e}
            /\ next.node \in [DOMAIN next.node -> NodeType]
            /\ \A n \in DOMAIN next.node :
                  /\ next.node[n].key = tree.node[n].key
                  /\ next.node[n].row = tree.node[n].row
                  /\ next.node[n].parent = tree.node[n].parent
                  /\ next.node[n].left = IF tree.node[n].left = e THEN Null ELSE tree.node[n].left
                  /\ next.node[n].right = IF tree.node[n].right = e THEN Null ELSE tree.node[n].right
<1> DEFINE D == DOMAIN tree.node
           p == tree.node[e].parent
           side == IF tree.node[p].left = e THEN "left" ELSE "right"
           cut == [tree.node EXCEPT ![p][side] = Null]
           next == RemoveLeaf(tree, e)
<1>1. tree.node \in [D -> NodeType] /\ D \subseteq Nat \ {Null} /\ p \in D /\ e \in D
  BY DEF Tree
<1>2. next = [root |-> tree.root, node |-> Drop(cut, e)]
  BY DEF RemoveLeaf
<1>3. next.node = [n \in DOMAIN cut \ {e} |-> cut[n]] /\ next.root = tree.root
  BY <1>2 DEF Drop
<1>4. e # Null /\ tree.root # e /\ p # e
  <2>1. e # Null
    BY <1>1
  <2>2. tree.root # e
    BY <1>1, <2>1 DEF Linked
  <2> QED
    BY <2>1, <2>2, <1>1
<1>5. tree.node[p].left # tree.node[p].right
      /\ \A n \in D : n # p => tree.node[n].left # e /\ tree.node[n].right # e
  BY <1>1, <1>4 DEF Linked
<1> HIDE DEF next, p, D
<1>6. cut \in [D -> NodeType]
  <2>1. \A n \in D : cut[n] = IF n = p THEN [tree.node[n] EXCEPT ![side] = Null] ELSE tree.node[n]
    BY <1>1
  <2>2. DOMAIN cut = D /\ cut = [n \in DOMAIN cut |-> cut[n]]
    BY <1>1
  <2>3. side \in {"left", "right"}
    OBVIOUS
  <2> HIDE DEF cut, side
  <2>4. \A n \in D : cut[n] \in NodeType
    <3> SUFFICES ASSUME NEW n \in D
                 PROVE  cut[n] \in NodeType
      OBVIOUS
    <3>1. tree.node[n] \in NodeType
      BY <1>1
    <3>2. [tree.node[n] EXCEPT !.left = Null] \in NodeType
      BY <3>1 DEF NodeType, Null
    <3>3. [tree.node[n] EXCEPT !.right = Null] \in NodeType
      BY <3>1 DEF NodeType, Null
    <3>4. side = "left" \/ side = "right"
      BY <2>3
    <3> QED
      BY <2>1, <3>1, <3>2, <3>3, <3>4
  <2> QED
    BY <2>2, <2>4
<1>7. \A n \in D : /\ cut[n].key = tree.node[n].key
                   /\ cut[n].row = tree.node[n].row
                   /\ cut[n].parent = tree.node[n].parent
                   /\ cut[n].left = IF tree.node[n].left = e THEN Null ELSE tree.node[n].left
                   /\ cut[n].right = IF tree.node[n].right = e THEN Null ELSE tree.node[n].right
  <2>1. CASE tree.node[p].left = e
    BY <2>1, <1>1, <1>4, <1>5 DEF NodeType
  <2>2. CASE tree.node[p].left # e
    <3>1. tree.node[p].right = e
      BY <2>2 DEF p
    <3> QED
      BY <2>2, <3>1, <1>1, <1>4, <1>5 DEF NodeType
  <2> QED
    BY <2>1, <2>2
<1> HIDE DEF cut
<1>8. DOMAIN next.node = D \ {e} /\ next.node \in [D \ {e} -> NodeType]
      /\ \A n \in D \ {e} : next.node[n] = cut[n]
  BY <1>3, <1>6
<1>9. next = [root |-> tree.root, node |-> next.node]
  BY <1>2
<1> QED
  BY <1>4, <1>7, <1>8, <1>9 DEF next, D, p

LEMMA RemoveLeafTree ==
  ASSUME NEW i \in Index, NEW tree, SearchTree(tree, i), NEW e \in DOMAIN tree.node,
         tree.node[e].left = Null, tree.node[e].right = Null,
         tree.node[e].parent \in DOMAIN tree.node,
         e \in {tree.node[tree.node[e].parent].left, tree.node[tree.node[e].parent].right}
  PROVE  SearchTree(RemoveLeaf(tree, e), i)
<1> DEFINE D == DOMAIN tree.node
           next == RemoveLeaf(tree, e)
           step(n, x) == IF Smaller(tree.node[n].key, x) THEN tree.node[n].left ELSE tree.node[n].right
           step1(n, x) == IF Smaller(next.node[n].key, x) THEN next.node[n].left ELSE next.node[n].right
<1>0. Tree(tree) /\ Linked(tree) /\ Placed(tree) /\ Keyed(tree, i)
  BY DEF SearchTree
<1>1. /\ next = [root |-> tree.root, node |-> next.node] /\ next.root = tree.root
      /\ tree.root # e
      /\ DOMAIN next.node = D \ {e}
      /\ next.node \in [DOMAIN next.node -> NodeType]
      /\ \A n \in D \ {e} :
            /\ next.node[n].key = tree.node[n].key
            /\ next.node[n].left = IF tree.node[n].left = e THEN Null ELSE tree.node[n].left
            /\ next.node[n].right = IF tree.node[n].right = e THEN Null ELSE tree.node[n].right
  BY <1>0, RemoveLeafFields
<1>2. IsFiniteSet(D \ {e})
  BY <1>0, FS_RemoveElement DEF Tree
<1>3. Tree(next)
  BY <1>0, <1>1, <1>2 DEF Tree
<1>4. Linked(next)
  <2>1. /\ \A n \in D : /\ tree.node[n].left \in D \cup {Null} /\ tree.node[n].right \in D \cup {Null}
                        /\ tree.node[n].left = tree.node[n].right => tree.node[n].left = Null
        /\ tree.root # Null => \A n \in D : tree.root \notin {tree.node[n].left, tree.node[n].right}
        /\ \A n, m \in D :
             /\ n # m /\ tree.node[n].left # Null => tree.node[n].left # tree.node[m].left
             /\ n # m /\ tree.node[n].right # Null => tree.node[n].right # tree.node[m].right
             /\ tree.node[n].left # Null => tree.node[n].left # tree.node[m].right
    BY <1>0 DEF Linked
  <2>2. \A n \in D \ {e} : /\ next.node[n].left \in (D \ {e}) \cup {Null}
                           /\ next.node[n].right \in (D \ {e}) \cup {Null}
                           /\ next.node[n].left = next.node[n].right => next.node[n].left = Null
    BY <1>1, <2>1
  <2>3. next.root # Null => \A n \in D \ {e} : next.root \notin {next.node[n].left, next.node[n].right}
    BY <1>1, <2>1
  <2>4. \A n, m \in D \ {e} :
             /\ n # m /\ next.node[n].left # Null => next.node[n].left # next.node[m].left
             /\ n # m /\ next.node[n].right # Null => next.node[n].right # next.node[m].right
             /\ next.node[n].left # Null => next.node[n].left # next.node[m].right
    <3> HIDE DEF next
    <3> QED
      BY <1>1, <2>1
  <2> QED
    BY <1>1, <2>2, <2>3, <2>4 DEF Linked
<1>5. Placed(next)
  <2> SUFFICES ASSUME NEW n \in D \ {e}
               PROVE  n \in Search(next, next.node[n].key)
    BY <1>1 DEF Placed
  <2> DEFINE x == tree.node[n].key
             S == (Search(next, x) \cap (D \ {e})) \cup {e}
  <2>1. next.node[n].key = x /\ n \in Search(tree, x)
    BY <1>0, <1>1 DEF Placed
  <2>2. /\ next.root # Null => next.root \in Search(next, x)
        /\ \A m \in Search(next, x) : step1(m, x) # Null => step1(m, x) \in Search(next, x)
    BY <1>3, <1>4, SearchClosed
  <2>3. tree.root # Null => tree.root \in S
    BY <1>0, <1>1, <2>2 DEF Tree
  <2>4. \A m \in S : step(m, x) # Null => step(m, x) \in S
    <3> SUFFICES ASSUME NEW m \in S, step(m, x) # Null
                 PROVE  step(m, x) \in S
      OBVIOUS
    <3>1. m # e /\ m \in Search(next, x) /\ m \in D \ {e}
      OBVIOUS
    <3>2. step(m, x) \in D
      BY <1>0, <3>1 DEF Linked
    <3>3. step(m, x) = e \/ step1(m, x) = step(m, x)
      BY <1>1, <3>1
    <3> QED
      BY <3>1, <3>2, <3>3, <2>2
  <2>5. Search(tree, x) \subseteq S
    <3> HIDE DEF S, x
    <3>1. S \subseteq D
      BY DEF S
    <3> QED
      BY <1>0, <3>1, <2>3, <2>4, SearchWithin
  <2> QED
    BY <2>1, <2>5
<1>6. Keyed(next, i)
  BY <1>0, <1>1 DEF Keyed
<1> QED
  BY <1>3, <1>4, <1>5, <1>6 DEF SearchTree

\* The entries that are met going left from the right child of the root.
LeftSpine(tree) == Met(Leftwards(tree.node), tree.node[tree.root].right)

LEMMA LeftSpineFacts ==
  ASSUME NEW tree, Tree(tree), Linked(tree), tree.root # Null,
         tree.node[tree.root].right # Null
  PROVE  LET e == tree.root
             A == LeftSpine(tree)
             m == EndOf(Leftwards(tree.node), tree.node[e].right)
         IN /\ A \subseteq DOMAIN tree.node \ {e}
            /\ tree.node[e].right \in A /\ m \in A /\ tree.node[m].left = Null
            /\ \A y \in A : y = tree.node[e].right \/ \E z \in A : y = tree.node[z].left
            /\ \A S : /\ tree.node[e].right \in S
                      /\ \A y \in S \cap A : tree.node[y].left # Null => tree.node[y].left \in S
                      => A \subseteq S
<1> DEFINE e == tree.root
           D == DOMAIN tree.node
           r == tree.node[e].right
           to == Leftwards(tree.node)
           A == LeftSpine(tree)
<1>1. IsFiniteSet(D) /\ D \subseteq Nat \ {Null} /\ e \in D
  BY DEF Tree
<1>2. /\ \A n \in D : tree.node[n].left \in D \cup {Null} /\ tree.node[n].right \in D \cup {Null}
      /\ \A n \in D : e \notin {tree.node[n].left, tree.node[n].right}
      /\ \A n, q \in D : /\ n # q /\ tree.node[n].left # Null => tree.node[n].left # tree.node[q].left
                         /\ tree.node[n].left # Null => tree.node[n].left # tree.node[q].right
  BY DEF Linked
<1>3. DOMAIN to = D /\ \A n \in D : to[n] = tree.node[n].left
  BY DEF Leftwards
<1>4. to \in [D -> D \cup {Null}]
  BY <1>2 DEF Leftwards
<1> HIDE DEF to
<1>5. Chain(to, r)
  BY <1>1, <1>2, <1>3, <1>4 DEF Chain
<1>6. A = Met(to, r)
  BY DEF LeftSpine, to
<1>7. /\ Met(to, r) \subseteq D /\ r \in Met(to, r)
      /\ \A m \in Met(to, r) : to[m] # Null => to[m] \in Met(to, r)
  BY <1>5, <1>3, MetClosed
<1>8. EndOf(to, r) \in Met(to, r) /\ to[EndOf(to, r)] = Null
  BY <1>5, EndMet
<1> HIDE DEF A
<1>9. \A S : r \in S /\ (\A y \in S \cap A : to[y] # Null => to[y] \in S) => A \subseteq S
  <2> SUFFICES ASSUME NEW S, r \in S, \A y \in S \cap A : to[y] # Null => to[y] \in S
               PROVE  A \subseteq S
    OBVIOUS
  <2> DEFINE T == S \cap A
  <2>1. r \in T
    BY <1>6, <1>7
  <2>2. \A y \in T : to[y] # Null => to[y] \in T
    BY <1>6, <1>7
  <2>3. Met(to, r) \subseteq T
    <3> HIDE DEF T
    <3> QED
      BY <2>1, <2>2, <1>1, <1>3, MetWithin
  <2> QED
    BY <2>3, <1>6
<1>10. \A y \in A : y = r \/ \E z \in A : y = tree.node[z].left
  <2> DEFINE S == {y \in A : y = r \/ \E z \in A : y = tree.node[z].left}
  <2>1. r \in S
    BY <1>6, <1>7
  <2>2. \A y \in S \cap A : to[y] # Null => to[y] \in S
    BY <1>3, <1>6, <1>7
  <2>3. A \subseteq S
    <3> HIDE DEF S
    <3> QED
      BY <2>1, <2>2, <1>9
  <2> QED
    BY <2>3
<1>11. e \notin A
  <2>1. A \subseteq D
    BY <1>6, <1>7
  <2>2. e # r
    BY <1>1, <1>2
  <2>3. \A z \in A : e # tree.node[z].left
    BY <2>1, <1>2
  <2> QED
    BY <2>2, <2>3, <1>10
<1>12. A \subseteq D
  BY <1>6, <1>7
<1>13. \A S : r \in S /\ (\A y \in S \cap A : tree.node[y].left # Null => tree.node[y].left \in S)
              => A \subseteq S
  BY <1>3, <1>9, <1>12
<1> QED
  BY <1>6, <1>7, <1>8, <1>3, <1>10, <1>11, <1>12, <1>13 DEF A, to

\* The left child of the root is not among them.
LEMMA LeftChildApart ==
  ASSUME NEW tree, Tree(tree), Linked(tree), tree.root # Null,
         tree.node[tree.root].left # Null, tree.node[tree.root].right # Null
  PROVE  tree.node[tree.root].left \notin LeftSpine(tree)
<1> DEFINE e == tree.root
           D == DOMAIN tree.node
           A == LeftSpine(tree)
<1>1. e \in D /\ tree.node[e].left # tree.node[e].right
      /\ \A n \in D : n # e => tree.node[n].left # tree.node[e].left
  BY DEF Tree, Linked
<1>2. /\ A \subseteq D \ {e}
      /\ \A y \in A : y = tree.node[e].right \/ \E z \in A : y = tree.node[z].left
  BY LeftSpineFacts
<1> QED
  BY <1>1, <1>2

LEMMA RemoveRootFields ==
  ASSUME NEW tree, Tree(tree), Linked(tree), tree.root # Null
  PROVE  LET next == RemoveRoot(tree)
             e == tree.root
             l == tree.node[e].left
             r == tree.node[e].right
             both == l # Null /\ r # Null
             m == EndOf(Leftwards(tree.node), r)
         IN /\ next = [root |-> next.root, node |-> next.node]
            /\ next.root = IF l # Null THEN l ELSE r
            /\ DOMAIN next.node = DOMAIN tree.node \ {e}
            /\ next.node \in [DOMAIN next.node -> NodeType]
            /\ \A n \in DOMAIN next.node :
                  /\ next.node[n].key = tree.node[n].key
                  /\ next.node[n].row = tree.node[n].row
                  /\ next.node[n].parent = IF tree.node[n].parent = e THEN Freed ELSE tree.node[n].parent
                  /\ next.node[n].left = IF both /\ n = m THEN tree.node[l].right ELSE tree.node[n].left
                  /\ next.node[n].right = IF both /\ n = l THEN r ELSE tree.node[n].right
<1> DEFINE next == RemoveRoot(tree)
           e == tree.root
           l == tree.node[e].left
           r == tree.node[e].right
           m == EndOf(Leftwards(tree.node), r)
           D == DOMAIN tree.node
           kept == Orphan(Drop(tree.node, e), e)
           joined == IF kept[l].right = Null THEN [kept EXCEPT ![l].right = r]
                     ELSE [kept EXCEPT ![m].left = kept[l].right, ![l].right = r]
<1>1. tree.node \in [D -> NodeType] /\ D \subseteq Nat \ {Null} /\ e \in D
  BY DEF Tree
<1>2. /\ l \in D \cup {Null} /\ r \in D \cup {Null} /\ l # e /\ r # e
      /\ \A n \in D : tree.node[n].right \in D \cup {Null}
  BY <1>1 DEF Linked
<1>3. l # Null /\ r # Null => m \in D \ {e} /\ m # l /\ tree.node[m].left = Null
  <2> SUFFICES ASSUME l # Null, r # Null
               PROVE  m \in D \ {e} /\ m # l /\ tree.node[m].left = Null
    OBVIOUS
  <2>1. /\ LeftSpine(tree) \subseteq D \ {e} /\ m \in LeftSpine(tree)
        /\ tree.node[m].left = Null
    BY LeftSpineFacts
  <2>2. l \notin LeftSpine(tree)
    BY LeftChildApart
  <2> QED
    BY <2>1, <2>2
<1>4. /\ next = [root |-> IF l # Null THEN l ELSE r,
                 node |-> IF l # Null /\ r # Null THEN joined ELSE kept]
  <2> HIDE DEF joined, kept
  <2>1. RemoveRoot(tree) = CASE l # Null /\ r # Null -> [root |-> l, node |-> joined]
                             [] l # Null /\ r = Null -> [root |-> l, node |-> kept]
                             [] OTHER -> [root |-> r, node |-> kept]
    BY DEF RemoveRoot, joined, kept
  <2> HIDE DEF l, r
  <2>2. CASE l # Null /\ r # Null
    BY <2>1, <2>2
  <2>3. CASE l # Null /\ r = Null
    BY <2>1, <2>3
  <2>4. CASE l = Null
    BY <2>1, <2>4
  <2> QED
    BY <2>2, <2>3, <2>4
<1>5. /\ DOMAIN kept = D \ {e} /\ kept \in [D \ {e} -> NodeType]
      /\ \A n \in D \ {e} :
            /\ kept[n].key = tree.node[n].key
            /\ kept[n].row = tree.node[n].row
            /\ kept[n].parent = IF tree.node[n].parent = e THEN Freed ELSE tree.node[n].parent
            /\ kept[n].left = tree.node[n].left
            /\ kept[n].right = tree.node[n].right
  <2>1. Drop(tree.node, e) = [n \in D \ {e} |-> tree.node[n]]
    BY DEF Drop
  <2>2. kept = [n \in D \ {e} |-> IF tree.node[n].parent = e
                                  THEN [tree.node[n] EXCEPT !.parent = Freed] ELSE tree.node[n]]
    BY <2>1 DEF Orphan
  <2>3. \A n \in D \ {e} : /\ tree.node[n] \in NodeType
                           /\ [tree.node[n] EXCEPT !.parent = Freed] \in NodeType
    BY <1>1 DEF NodeType
  <2> HIDE DEF kept, e, D
  <2>4. DOMAIN kept = D \ {e} /\ kept \in [D \ {e} -> NodeType]
    BY <2>2, <2>3
  <2>5. \A n \in D \ {e} : kept[n] = IF tree.node[n].parent = e
                                  THEN [tree.node[n] EXCEPT !.parent = Freed] ELSE tree.node[n]
    BY <2>2
  <2>6. \A n \in D \ {e} :
            /\ kept[n].key = tree.node[n].key
            /\ kept[n].row = tree.node[n].row
            /\ kept[n].parent = IF tree.node[n].parent = e THEN Freed ELSE tree.node[n].parent
            /\ kept[n].left = tree.node[n].left
            /\ kept[n].right = tree.node[n].right
    BY <2>3, <2>5 DEF NodeType
  <2> QED
    BY <2>4, <2>6
<1> HIDE DEF kept, m
<1>6. CASE l # Null /\ r # Null
  <2> DEFINE x == tree.node[l].right
  <2>0. l \in D \ {e} /\ r \in D \ {e} /\ m \in D \ {e} /\ m # l /\ kept[l].right = x /\ kept[m].left = Null
        /\ x \in Nat /\ l \in Nat /\ r \in Nat
    <3> HIDE DEF l, r, e, D
    <3>1. l \in D \ {e} /\ r \in D \ {e} /\ m \in D \ {e} /\ m # l
      BY <1>2, <1>3, <1>6
    <3>2. kept[l].right = x /\ kept[m].left = Null
      BY <1>3, <1>5, <1>6, <3>1
    <3>3. x \in Nat /\ l \in Nat /\ r \in Nat
      <4>1. x \in D \cup {Null}
        BY <1>2, <3>1
      <4>2. D \subseteq Nat /\ Null \in Nat
        BY <1>1 DEF Null
      <4> HIDE DEF x
      <4> QED
        BY <3>1, <4>1, <4>2
    <3> QED
      BY <3>1, <3>2, <3>3
  <2> HIDE DEF l, r, e, D, x
  <2>1. joined = [n \in D \ {e} |-> CASE n = l -> [kept[n] EXCEPT !.right = r]
                                      [] n = m /\ x # Null -> [kept[n] EXCEPT !.left = x]
                                      [] OTHER -> kept[n]]
    <3>1. CASE x = Null
      BY <3>1, <2>0, <1>5
    <3>2. CASE x # Null
      BY <3>2, <2>0, <1>5
    <3> QED
      BY <3>1, <3>2
  <2> HIDE DEF joined
  <2>2. \A n \in D \ {e} : /\ kept[n] \in NodeType
                           /\ [kept[n] EXCEPT !.right = r] \in NodeType
                           /\ [kept[n] EXCEPT !.left = x] \in NodeType
    <3> SUFFICES ASSUME NEW n \in D \ {e}
                 PROVE  /\ kept[n] \in NodeType
                        /\ [kept[n] EXCEPT !.right = r] \in NodeType
                        /\ [kept[n] EXCEPT !.left = x] \in NodeType
      OBVIOUS
    <3>1. kept[n] \in NodeType
      BY <1>5
    <3> QED
      BY <3>1, <2>0 DEF NodeType
  <2>3. DOMAIN joined = D \ {e} /\ joined \in [D \ {e} -> NodeType]
    BY <2>1, <2>2
  <2>4. \A n \in D \ {e} : joined[n] = CASE n = l -> [kept[n] EXCEPT !.right = r]
                                      [] n = m /\ x # Null -> [kept[n] EXCEPT !.left = x]
                                      [] OTHER -> kept[n]
    BY <2>1
  <2>5. \A n \in D \ {e} :
            /\ joined[n].key = kept[n].key
            /\ joined[n].row = kept[n].row
            /\ joined[n].parent = kept[n].parent
            /\ joined[n].left = IF n = m THEN x ELSE kept[n].left
            /\ joined[n].right = IF n = l THEN r ELSE kept[n].right
    <3> SUFFICES ASSUME NEW n \in D \ {e}
                 PROVE  /\ joined[n].key = kept[n].key
                        /\ joined[n].row = kept[n].row
                        /\ joined[n].parent = kept[n].parent
                        /\ joined[n].left = IF n = m THEN x ELSE kept[n].left
                        /\ joined[n].right = IF n = l THEN r ELSE kept[n].right
      OBVIOUS
    <3>1. kept[n] \in NodeType
      BY <2>2
    <3>2. CASE n = l
      BY <3>1, <3>2, <2>0, <2>4 DEF NodeType
    <3>3. CASE n = m /\ x # Null
      BY <3>1, <3>3, <2>0, <2>4 DEF NodeType
    <3>4. CASE n # l /\ ~(n = m /\ x # Null)
      BY <3>1, <3>4, <2>0, <2>4 DEF NodeType
    <3> QED
      BY <3>2, <3>3, <3>4, <2>0
  <2>6. next.root = l /\ next.node = joined /\ next = [root |-> next.root, node |-> next.node]
    BY <1>4, <1>6 DEF l, r
  <2> HIDE DEF next
  <2>7. \A n \in D \ {e} :
            /\ next.node[n].key = tree.node[n].key
            /\ next.node[n].row = tree.node[n].row
            /\ next.node[n].parent = IF tree.node[n].parent = e THEN Freed ELSE tree.node[n].parent
            /\ next.node[n].left = IF n = m THEN x ELSE tree.node[n].left
            /\ next.node[n].right = IF n = l THEN r ELSE tree.node[n].right
    BY <1>5, <2>5, <2>6
  <2>8. DOMAIN next.node = D \ {e} /\ next.node \in [DOMAIN next.node -> NodeType]
    BY <2>3, <2>6
  <2> QED
    BY <1>6, <2>6, <2>7, <2>8 DEF l, r, e, D, x, m, next
<1>7. CASE ~(l # Null /\ r # Null)
  <2> HIDE DEF l, r, e, D, joined
  <2>1. next.root = IF l # Null THEN l ELSE r
    BY <1>4
  <2>2. next.node = kept /\ next = [root |-> next.root, node |-> next.node]
    BY <1>4, <1>7
  <2> HIDE DEF next
  <2>3. \A n \in D \ {e} :
            /\ next.node[n].key = tree.node[n].key
            /\ next.node[n].row = tree.node[n].row
            /\ next.node[n].parent = IF tree.node[n].parent = e THEN Freed ELSE tree.node[n].parent
            /\ next.node[n].left = tree.node[n].left
            /\ next.node[n].right = tree.node[n].right
    BY <1>5, <2>2
  <2>4. DOMAIN next.node = D \ {e} /\ next.node \in [DOMAIN next.node -> NodeType]
    BY <1>5, <2>2
  <2> QED
    BY <1>7, <2>1, <2>2, <2>3, <2>4 DEF l, r, e, D, m, next
<1> QED
  BY <1>6, <1>7

\* The entries below the right child of the root are not greater than the root,
\* the left child is.
LEMMA ChildrenOfRoot ==
  ASSUME NEW tree, Tree(tree), Linked(tree), Placed(tree), tree.root # Null
  PROVE  LET e == tree.root
             l == tree.node[e].left
             r == tree.node[e].right
         IN /\ l # Null => Smaller(tree.node[e].key, tree.node[l].key)
            /\ l # Null /\ r # Null =>
                  \A y \in LeftSpine(tree) : ~Smaller(tree.node[e].key, tree.node[y].key)
<1> DEFINE e == tree.root
           l == tree.node[e].left
           r == tree.node[e].right
           D == DOMAIN tree.node
           A == LeftSpine(tree)
           step(n, x) == IF Smaller(tree.node[n].key, x) THEN tree.node[n].left ELSE tree.node[n].right
<1>1. e \in D /\ D \subseteq Nat \ {Null}
  BY DEF Tree
<1>2. /\ \A n \in D : tree.node[n].left \in D \cup {Null} /\ tree.node[n].right \in D \cup {Null}
      /\ \A n \in D : e \notin {tree.node[n].left, tree.node[n].right}
      /\ l # Null => l # r
      /\ \A n, q \in D : /\ n # q /\ tree.node[n].left # Null => tree.node[n].left # tree.node[q].left
                         /\ n # q /\ tree.node[n].right # Null => tree.node[n].right # tree.node[q].right
                         /\ tree.node[n].left # Null => tree.node[n].left # tree.node[q].right
  BY <1>1 DEF Linked
<1>3. \A n \in D : n \in Search(tree, tree.node[n].key)
  BY DEF Placed
<1>4. ASSUME l # Null, ~Smaller(tree.node[e].key, tree.node[l].key)
      PROVE  FALSE
  <2> DEFINE S == D \ {l}
             x == tree.node[l].key
  <2>1. l \in D /\ l # e
    BY <1>1, <1>2, <1>4
  <2>2. tree.root # Null => tree.root \in S
    BY <2>1, <1>1
  <2>3. \A n \in S : step(n, x) # Null => step(n, x) \in S
    BY <1>1, <1>2, <1>4
  <2>4. Search(tree, x) \subseteq S
    <3> HIDE DEF x, S
    <3>1. S \subseteq D
      BY DEF S
    <3> QED
      BY <2>2, <2>3, <3>1, SearchWithin
  <2> QED
    BY <2>1, <2>4, <1>3
<1>5. ASSUME l # Null, r # Null, NEW y \in A, Smaller(tree.node[e].key, tree.node[y].key)
      PROVE  FALSE
  <2>1. /\ A \subseteq D \ {e} /\ r \in A
        /\ \A z \in A : z = r \/ \E q \in A : z = tree.node[q].left
    BY <1>5, LeftSpineFacts
  <2>2. l \notin A
    BY <1>5, LeftChildApart
  <2> DEFINE S == (D \ A) \cup {e}
             x == tree.node[y].key
  <2> HIDE DEF A
  <2>3. \A n \in S : step(n, x) # Null => step(n, x) \in S
    <3> SUFFICES ASSUME NEW n \in S, step(n, x) # Null, step(n, x) \in A
                 PROVE  FALSE
      BY <1>1, <1>2
    <3>1. CASE n = e
      BY <3>1, <1>5, <2>2
    <3>2. CASE n # e
      <4>1. n \in D /\ n \notin A
        BY <3>2
      <4> HIDE DEF S, l, e
      <4>2. step(n, x) # r
        BY <4>1, <3>2, <1>1, <1>2, <1>5 DEF e
      <4>3. PICK q \in A : step(n, x) = tree.node[q].left
        BY <2>1, <4>2
      <4>4. q \in D /\ q # n
        BY <2>1, <4>1
      <4> QED
        BY <4>1, <4>3, <4>4, <1>2
    <3> QED
      BY <3>1, <3>2
  <2>4. Search(tree, x) \subseteq S
    <3>1. S \subseteq D /\ tree.root \in S
      BY <1>1
    <3> HIDE DEF x, S
    <3> QED
      BY <2>3, <3>1, SearchWithin
  <2> QED
    BY <2>1, <2>4, <1>3, <1>5
<1> QED
  BY <1>4, <1>5

LEMMA RemoveRootTree ==
  ASSUME NEW i \in Index, NEW tree, SearchTree(tree, i), tree.root # Null
  PROVE  SearchTree(RemoveRoot(tree), i)
<1> DEFINE D == DOMAIN tree.node
           e == tree.root
           l == tree.node[e].left
           r == tree.node[e].right
           m == EndOf(Leftwards(tree.node), r)
           A == LeftSpine(tree)
           both == l # Null /\ r # Null
           next == RemoveRoot(tree)
           step(n, x) == IF Smaller(tree.node[n].key, x) THEN tree.node[n].left ELSE tree.node[n].right
           step1(n, x) == IF Smaller(next.node[n].key, x) THEN next.node[n].left ELSE next.node[n].right
<1>0. Tree(tree) /\ Linked(tree) /\ Placed(tree) /\ Keyed(tree, i)
  BY DEF SearchTree
<1>1. e \in D /\ IsFiniteSet(D) /\ D \subseteq Nat \ {Null}
  BY <1>0 DEF Tree
<1>2. /\ \A n \in D : /\ tree.node[n].left \in D \cup {Null} /\ tree.node[n].right \in D \cup {Null}
                      /\ tree.node[n].left = tree.node[n].right => tree.node[n].left = Null
      /\ \A n \in D : tree.node[n].left # e /\ tree.node[n].right # e
      /\ \A n, q \in D : /\ n # q /\ tree.node[n].left # Null => tree.node[n].left # tree.node[q].left
                         /\ n # q /\ tree.node[n].right # Null => tree.node[n].right # tree.node[q].right
                         /\ tree.node[n].left # Null => tree.node[n].left # tree.node[q].right
  BY <1>0, <1>1 DEF Linked
<1>3. /\ next = [root |-> next.root, node |-> next.node]
      /\ next.root = IF l # Null THEN l ELSE r
      /\ DOMAIN next.node = D \ {e}
      /\ next.node \in [DOMAIN next.node -> NodeType]
      /\ \A n \in D \ {e} :
            /\ next.node[n].key = tree.node[n].key
            /\ next.node[n].left = IF both /\ n = m THEN tree.node[l].right ELSE tree.node[n].left
            /\ next.node[n].right = IF both /\ n = l THEN r ELSE tree.node[n].right
  BY <1>0, RemoveRootFields
<1>4. both => /\ A \subseteq D \ {e} /\ r \in A /\ m \in A /\ tree.node[m].left = Null
              /\ l \notin A
              /\ \A S : /\ r \in S
                        /\ \A y \in S \cap A : tree.node[y].left # Null => tree.node[y].left \in S
                        => A \subseteq S
  BY <1>0, LeftSpineFacts, LeftChildApart
<1>5. /\ l # Null => Smaller(tree.node[e].key, tree.node[l].key)
      /\ both => \A y \in A : ~Smaller(tree.node[e].key, tree.node[y].key)
  BY <1>0, ChildrenOfRoot
<1>6. l \in (D \ {e}) \cup {Null} /\ r \in (D \ {e}) \cup {Null} /\ (l = r => l = Null)
  BY <1>1, <1>2
<1> HIDE DEF next, A, m
<1>7. Tree(next)
  <2>1. IsFiniteSet(D \ {e})
    BY <1>1, FS_RemoveElement
  <2>2. DOMAIN next.node \subseteq Nat \ {Null}
    BY <1>1, <1>3
  <2>3. next.root \in DOMAIN next.node \cup {Null}
    BY <1>3, <1>6
  <2> QED
    BY <1>3, <2>1, <2>2, <2>3 DEF Tree
<1>8. Linked(next)
  <2> DEFINE left(n) == tree.node[n].left
             right(n) == tree.node[n].right
             left1(n) == next.node[n].left
             right1(n) == next.node[n].right
  <2>1. l = left(e) /\ r = right(e) /\ e \in D
    BY <1>1
  <2>2. /\ \A n \in D : /\ left(n) \in (D \ {e}) \cup {Null} /\ right(n) \in (D \ {e}) \cup {Null}
                        /\ left(n) = right(n) => left(n) = Null
        /\ \A n, q \in D : /\ n # q /\ left(n) # Null => left(n) # left(q)
                           /\ n # q /\ right(n) # Null => right(n) # right(q)
                           /\ left(n) # Null => left(n) # right(q)
    BY <1>2
  <2>3. \A n \in D \ {e} : /\ left1(n) = IF both /\ n = m THEN right(l) ELSE left(n)
                           /\ right1(n) = IF both /\ n = l THEN right(e) ELSE right(n)
    BY <1>3
  <2>4. both => l \in D \ {e} /\ m \in D \ {e} /\ l # m /\ l # Null /\ r # Null
    BY <1>4, <1>6
  <2> HIDE DEF left, right, left1, right1, l, r, e
  <2>5. \A n \in D \ {e} : /\ left1(n) \in (D \ {e}) \cup {Null}
                           /\ right1(n) \in (D \ {e}) \cup {Null}
                           /\ left1(n) = right1(n) => left1(n) = Null
    BY <2>1, <2>2, <2>3, <2>4
  <2>6. next.root # Null => \A n \in D \ {e} : next.root # left1(n) /\ next.root # right1(n)
    <3>1. next.root = IF l # Null THEN l ELSE r
      BY <1>3 DEF l, r, e
    <3> SUFFICES ASSUME next.root # Null, NEW n \in D \ {e}
                 PROVE  next.root # left1(n) /\ next.root # right1(n)
      OBVIOUS
    <3>2. CASE both
      BY <3>1, <3>2, <2>1, <2>2, <2>3, <2>4
    <3>3. CASE ~both
      BY <3>1, <3>3, <2>1, <2>2, <2>3
    <3> QED
      BY <3>2, <3>3
  <2>7. \A n, q \in D \ {e} : /\ n # q /\ left1(n) # Null => left1(n) # left1(q)
                              /\ n # q /\ right1(n) # Null => right1(n) # right1(q)
                              /\ left1(n) # Null => left1(n) # right1(q)
    <3> SUFFICES ASSUME NEW n \in D \ {e}, NEW q \in D \ {e}
                 PROVE  /\ n # q /\ left1(n) # Null => left1(n) # left1(q)
                        /\ n # q /\ right1(n) # Null => right1(n) # right1(q)
                        /\ left1(n) # Null => left1(n) # right1(q)
      OBVIOUS
    <3>1. CASE both
      BY <3>1, <2>1, <2>2, <2>3, <2>4
    <3>2. CASE ~both
      BY <3>2, <2>1, <2>2, <2>3
    <3> QED
      BY <3>1, <3>2
  <2> QED
    BY <1>3, <2>5, <2>6, <2>7 DEF Linked, left1, right1, e
<1>9. Placed(next)
  <2> SUFFICES ASSUME NEW n \in D \ {e}
               PROVE  n \in Search(next, next.node[n].key)
    BY <1>3 DEF Placed
  <2> DEFINE k == tree.node[n].key
             F == Search(next, k)
             small(p) == Smaller(tree.node[p].key, k)
  <2>1. next.node[n].key = k /\ n \in Search(tree, k)
    BY <1>0, <1>3 DEF Placed
  <2>2. F \subseteq D \ {e}
        /\ (next.root # Null => next.root \in F)
        /\ \A p \in F : step1(p, k) # Null => step1(p, k) \in F
    BY <1>3, <1>7, <1>8, SearchClosed
  <2>3. \A p \in D \ {e} : step1(p, k) =
           IF small(p) THEN IF both /\ p = m THEN tree.node[l].right ELSE tree.node[p].left
           ELSE IF both /\ p = l THEN r ELSE tree.node[p].right
    BY <1>3
  <2>4. \A p \in D : k \in Key(i) /\ tree.node[p].key \in Key(i)
    BY <1>0 DEF Keyed
  <2> HIDE DEF F
  <2>w. ASSUME NEW S, S \subseteq D, e \in S, \A p \in S : step(p, k) # Null => step(p, k) \in S
        PROVE  n \in S
    <3> HIDE DEF k
    <3>1. Search(tree, k) \subseteq S
      BY <2>w, <1>0, SearchWithin
    <3> QED
      BY <3>1, <2>1
  <2> HIDE DEF k
  <2>5. CASE small(e) /\ both
    <3>1. l \in F
      BY <2>2, <1>3, <2>5
    <3>2. ASSUME ~small(l)
          PROVE  A \subseteq F /\ tree.node[l].right \in F \cup {Null}
      <4>1. r \in F
        BY <3>1, <3>2, <2>2, <2>3, <2>5, <1>6
      <4>2. \A y \in A : small(y)
        <5> SUFFICES ASSUME NEW y \in A PROVE small(y)
          OBVIOUS
        <5>1. y \in D /\ ~Smaller(tree.node[e].key, tree.node[y].key)
          BY <1>4, <1>5, <2>5
        <5>2. tree.node[e].key \in Key(i) /\ tree.node[y].key \in Key(i) /\ k \in Key(i)
          BY <5>1, <1>1, <2>4
        <5>3. Smaller(tree.node[e].key, k)
          BY <2>5
        <5>4. Smaller(tree.node[y].key, tree.node[e].key) /\ Smaller(tree.node[e].key, k)
                 => Smaller(tree.node[y].key, k)
          BY <5>2, SmallerOrder
        <5>5. Smaller(tree.node[y].key, tree.node[e].key) \/ tree.node[y].key = tree.node[e].key
          BY <5>1, <5>2, SmallerOrder
        <5> QED
          BY <5>3, <5>4, <5>5
      <4>3. \A y \in F \cap A : tree.node[y].left # Null => tree.node[y].left \in F
        <5> SUFFICES ASSUME NEW y \in F \cap A, tree.node[y].left # Null
                     PROVE  tree.node[y].left \in F
          OBVIOUS
        <5>1. y # m /\ y \in D \ {e} /\ small(y)
          BY <4>2, <1>4, <2>5
        <5>2. step1(y, k) = tree.node[y].left
          BY <5>1, <2>3
        <5> QED
          BY <5>2, <2>2
      <4>4. A \subseteq F
        BY <4>1, <4>3, <1>4, <2>5
      <4>5. m \in F /\ small(m) /\ m \in D \ {e}
        BY <4>2, <4>4, <1>4, <2>5
      <4>6. step1(m, k) = tree.node[l].right
        BY <4>5, <2>3, <2>5
      <4> QED
        BY <4>4, <4>5, <4>6, <2>2
    <3> DEFINE S == F \cup {e}
    <3>3. \A p \in S : step(p, k) # Null => step(p, k) \in S
      <4> SUFFICES ASSUME NEW p \in S, step(p, k) # Null
                   PROVE  step(p, k) \in S
        OBVIOUS
      <4>1. CASE p = e
        BY <4>1, <3>1, <2>5
      <4>2. CASE p = l /\ ~small(l)
        BY <4>2, <3>2
      <4>3. CASE p \in F /\ ~(p = l /\ ~small(l))
        <5>1. p \in D \ {e}
          BY <4>3, <2>2
        <5>2. p = m /\ both => ~small(p)
          BY <1>4
        <5>3. step1(p, k) = step(p, k)
          BY <5>1, <5>2, <4>3, <2>3
        <5> QED
          BY <5>3, <4>3, <2>2
      <4> QED
        BY <4>1, <4>2, <4>3
    <3>4. S \subseteq D /\ e \in S
      BY <1>1, <2>2
    <3> HIDE DEF S
    <3>5. n \in S
      BY <3>3, <3>4, <2>w
    <3> QED
      BY <3>5, <2>1 DEF S, F
  <2>6. CASE ~small(e) /\ both
    <3>1. ~small(l)
      <4>1. l \in D
        BY <1>6, <2>6
      <4>2. tree.node[e].key \in Key(i) /\ tree.node[l].key \in Key(i) /\ k \in Key(i)
        BY <4>1, <1>1, <2>4
      <4>3. Smaller(tree.node[e].key, tree.node[l].key)
        BY <1>5, <2>6
      <4>4. Smaller(tree.node[e].key, tree.node[l].key) /\ Smaller(tree.node[l].key, k)
              => Smaller(tree.node[e].key, k)
        BY <4>2, SmallerOrder
      <4> QED
        BY <4>3, <4>4, <2>6
    <3>2. l \in F /\ l \in D \ {e}
      BY <2>2, <1>3, <1>6, <2>6
    <3>3. step1(l, k) = r
      BY <3>1, <3>2, <2>3, <2>6
    <3>4. r \in F /\ r # l
      BY <3>2, <3>3, <2>2, <1>6, <2>6
    <3> DEFINE S == (F \ {l}) \cup {e}
    <3>5. \A p \in S : step(p, k) # Null => step(p, k) \in S
      <4> SUFFICES ASSUME NEW p \in S, step(p, k) # Null
                   PROVE  step(p, k) \in S
        OBVIOUS
      <4>1. CASE p = e
        BY <4>1, <3>4, <2>6
      <4>2. CASE p # e
        <5>1. p \in F /\ p # l /\ p \in D \ {e}
          BY <4>2, <2>2
        <5>2. p = m /\ both => ~small(p)
          BY <1>4
        <5>3. step1(p, k) = step(p, k)
          BY <5>1, <5>2, <2>3
        <5>4. step(p, k) # l
          BY <5>1, <1>1, <1>2, <2>6
        <5> QED
          BY <5>1, <5>3, <5>4, <2>2
      <4> QED
        BY <4>1, <4>2
    <3>6. S \subseteq D /\ e \in S
      BY <1>1, <2>2
    <3> HIDE DEF S
    <3>7. n \in S
      BY <3>5, <3>6, <2>w
    <3> QED
      BY <3>7, <2>1 DEF S, F
  <2>7. CASE ~both
    <3> DEFINE S == F \cup {e}
    <3>1. step(e, k) # Null => step(e, k) = next.root
      BY <1>3, <2>7
    <3>2. step(e, k) # Null => step(e, k) \in S
      BY <3>1, <2>2
    <3>3. \A p \in S : step(p, k) # Null => step(p, k) \in S
      <4> SUFFICES ASSUME NEW p \in S, step(p, k) # Null
                   PROVE  step(p, k) \in S
        OBVIOUS
      <4>1. CASE p = e
        BY <4>1, <3>2
      <4>2. CASE p # e
        <5>1. p \in F /\ p \in D \ {e}
          BY <4>2, <2>2
        <5>2. step1(p, k) = step(p, k)
          BY <5>1, <2>3, <2>7
        <5> QED
          BY <5>1, <5>2, <2>2
      <4> QED
        BY <4>1, <4>2
    <3>4. S \subseteq D /\ e \in S
      BY <1>1, <2>2
    <3> HIDE DEF S
    <3>5. n \in S
      BY <3>3, <3>4, <2>w
    <3> QED
      BY <3>5, <2>1 DEF S, F
  <2> QED
    BY <2>5, <2>6, <2>7
<1>10. Keyed(next, i)
  BY <1>0, <1>3 DEF Keyed
<1> QED
  BY <1>7, <1>8, <1>9, <1>10 DEF SearchTree, next

\* RemoveEntry, where it comes to its end, leaves a search tree.
LEMMA RemoveEntryTree ==
  ASSUME NEW i \in Index, NEW tree, SearchTree(tree, i), NEW e \in DOMAIN tree.node,
         \/ tree.node[e].parent = Null /\ tree.root = e
         \/ /\ tree.node[e].parent \in DOMAIN tree.node
            /\ e \in {tree.node[tree.node[e].parent].left, tree.node[tree.node[e].parent].right},
         Removal(tree, e) = Alive
  PROVE  LET next == RemoveEntry(tree, e)
         IN /\ SearchTree(next, i)
            /\ DOMAIN next.node = DOMAIN tree.node \ {e}
            /\ \A n \in DOMAIN next.node : /\ next.node[n].key = tree.node[n].key
                                           /\ next.node[n].row = tree.node[n].row
<1>0. Tree(tree) /\ Linked(tree) /\ e \in Nat /\ e # Null
  BY DEF SearchTree, Tree
<1>1. CASE tree.node[e].parent = Null /\ tree.root = e
  <2>1. RemoveEntry(tree, e) = RemoveRoot(tree) /\ tree.root # Null
    BY <1>0, <1>1 DEF RemoveEntry
  <2>2. SearchTree(RemoveRoot(tree), i)
    BY <2>1, RemoveRootTree
  <2> QED
    BY <1>0, <1>1, <2>1, <2>2, RemoveRootFields
<1>2. CASE /\ tree.node[e].parent \in DOMAIN tree.node
           /\ e \in {tree.node[tree.node[e].parent].left, tree.node[tree.node[e].parent].right}
  <2>1. tree.node[e].parent # Null
    BY <1>0, <1>2 DEF Tree
  <2>2. tree.node[e].left = Null /\ tree.node[e].right = Null
    BY <1>0, <2>1 DEF Removal, Alive
  <2>3. RemoveEntry(tree, e) = RemoveLeaf(tree, e)
    BY <2>1 DEF RemoveEntry
  <2>4. SearchTree(RemoveLeaf(tree, e), i)
    BY <1>2, <2>2, RemoveLeafTree
  <2> QED
    BY <1>0, <1>2, <2>2, <2>3, <2>4, RemoveLeafFields
<1> QED
  BY <1>1, <1>2

-----------------------------------------------------------------------------
(* Loops over entries. *)

\* The function that RemoveAll defines, for its first steps.
Removals(g, tree, es, tested, steps) ==
    g = [k \in 0..steps |-> IF k = 0 THEN [tree |-> tree, fault |-> Alive]
                            ELSE Removed(g[k - 1], es[Len(es) + 1 - k], tested)]

LEMMA RemovalsExist ==
  ASSUME NEW tree, NEW es, NEW tested, NEW steps \in Nat
  PROVE  \E g : Removals(g, tree, es, tested, steps)
<1> DEFINE S == {k \in Nat : ~\E g : Removals(g, tree, es, tested, k)}
<1>1. CASE S = {}
  BY <1>1
<1>2. CASE S # {}
  <2>1. PICK k \in S : \A m \in S : k <= m
    <3> S \in SUBSET Nat
      OBVIOUS
    <3> HIDE DEF S
    <3> QED
      BY <1>2, LeastNumber
  <2>2. CASE k = 0
    <3> DEFINE base == [tree |-> tree, fault |-> Alive]
               g == [o \in 0..0 |-> base]
    <3>1. g = [o \in 0..0 |-> IF o = 0 THEN base ELSE Removed(g[o - 1], es[Len(es) + 1 - o], tested)]
      <4> HIDE DEF base
      <4> QED
        OBVIOUS
    <3> HIDE DEF g
    <3>2. Removals(g, tree, es, tested, 0)
      BY <3>1, Zenon DEF Removals
    <3> QED
      BY <3>2, <2>1, <2>2
  <2>3. CASE k # 0
    <3>1. k - 1 \in Nat /\ k - 1 \notin S /\ k \in Nat
      BY <2>1, <2>3
    <3>2. PICK f : Removals(f, tree, es, tested, k - 1)
      BY <3>1
    <3> DEFINE base == [tree |-> tree, fault |-> Alive]
               then(d, o) == Removed(d, es[Len(es) + 1 - o], tested)
               last == then(f[k - 1], k)
               g == [o \in 0..k |-> IF o <= k - 1 THEN f[o] ELSE last]
    <3>3. \A o \in 0..k - 1 : f[o] = IF o = 0 THEN base ELSE then(f[o - 1], o)
      BY <3>2 DEF Removals
    <3> HIDE DEF base, then, last
    <3>4. \A o \in 0..k - 1 : g[o] = f[o]
      BY <3>1
    <3>5. g[k] = last
      BY <3>1
    <3>6. DOMAIN g = 0..k /\ g = [o \in 0..k |-> g[o]]
      OBVIOUS
    <3> HIDE DEF g
    <3>7. \A o \in 0..k : g[o] = IF o = 0 THEN base ELSE then(g[o - 1], o)
      <4> SUFFICES ASSUME NEW o \in 0..k
                   PROVE  g[o] = IF o = 0 THEN base ELSE then(g[o - 1], o)
        OBVIOUS
      <4>1. CASE o = k
        <5>1. g[o - 1] = f[k - 1]
          BY <4>1, <3>1, <3>4
        <5> QED
          BY <4>1, <5>1, <3>5, <2>3 DEF last
      <4>2. CASE o = 0
        BY <4>2, <3>1, <3>3, <3>4
      <4>3. CASE o # k /\ o # 0
        <5>1. o \in 0..k - 1 /\ o - 1 \in 0..k - 1
          BY <4>3, <3>1
        <5>2. g[o] = f[o] /\ g[o - 1] = f[o - 1]
          BY <5>1, <3>4
        <5> QED
          BY <4>3, <5>1, <5>2, <3>3
      <4> QED
        BY <4>1, <4>2, <4>3
    <3>8. g = [o \in 0..k |-> IF o = 0 THEN base ELSE then(g[o - 1], o)]
      BY <3>6, <3>7
    <3>9. Removals(g, tree, es, tested, k)
      BY <3>8, Zenon DEF Removals, base, then
    <3> QED
      BY <3>9, <2>1
  <2> QED
    BY <2>2, <2>3
<1> QED
  BY <1>1, <1>2

RemovalSteps(g, tree, es, tested) ==
    /\ RemoveAll(tree, es, tested) = g[Len(es)]
    /\ g[0] = [tree |-> tree, fault |-> Alive]
    /\ \A k \in 1..Len(es) : g[k] = Removed(g[k - 1], es[Len(es) + 1 - k], tested)

LEMMA RemoveAllUnfolds ==
  ASSUME NEW tree, NEW es, NEW tested, Len(es) \in Nat
  PROVE  \E g : RemovalSteps(g, tree, es, tested)
<1> DEFINE g == CHOOSE f : f = [k \in 0..Len(es) |->
                     IF k = 0 THEN [tree |-> tree, fault |-> Alive]
                     ELSE Removed(f[k - 1], es[Len(es) + 1 - k], tested)]
<1>1. \E f : f = [k \in 0..Len(es) |->
                     IF k = 0 THEN [tree |-> tree, fault |-> Alive]
                     ELSE Removed(f[k - 1], es[Len(es) + 1 - k], tested)]
  <2>1. \E f : Removals(f, tree, es, tested, Len(es))
    BY RemovalsExist
  <2> QED
    BY <2>1, Zenon DEF Removals
<1>2. g = [k \in 0..Len(es) |-> IF k = 0 THEN [tree |-> tree, fault |-> Alive]
                                ELSE Removed(g[k - 1], es[Len(es) + 1 - k], tested)]
  BY <1>1, Zenon
<1>3. RemoveAll(tree, es, tested) = g[Len(es)]
  BY Zenon DEF RemoveAll
<1> HIDE DEF g
<1>5. g[0] = [tree |-> tree, fault |-> Alive]
  BY <1>2
<1>6. \A k \in 1..Len(es) : g[k] = Removed(g[k - 1], es[Len(es) + 1 - k], tested)
  <2>1. \A k \in 1..Len(es) : k \in 0..Len(es) /\ k # 0
    OBVIOUS
  <2> QED
    BY <1>2, <2>1
<1> QED
  BY <1>3, <1>5, <1>6 DEF RemovalSteps

Intact(tree) == [tree |-> tree, fault |-> Alive]

\* Taking back a sequence of entries is taking back its last one, then the others.
LEMMA RemoveAllAppend ==
  ASSUME NEW tree, NEW next, NEW es \in Seq(Nat), NEW e \in Nat, NEW tested,
         Removed(Intact(tree), e, tested) = Intact(next)
  PROVE  RemoveAll(tree, Append(es, e), tested) = RemoveAll(next, es, tested)
<1> DEFINE N == Len(es)
           all == Append(es, e)
<1>1. N \in Nat /\ Len(all) = N + 1 /\ all[N + 1] = e /\ \A k \in 1..N : all[k] = es[k]
  OBVIOUS
<1>2. PICK g : /\ RemoveAll(tree, all, tested) = g[Len(all)]
               /\ g[0] = [tree |-> tree, fault |-> Alive]
               /\ \A k \in 1..Len(all) : g[k] = Removed(g[k - 1], all[Len(all) + 1 - k], tested)
  <2>1. Len(all) \in Nat
    BY <1>1
  <2> HIDE DEF all
  <2>2. \E g : RemovalSteps(g, tree, all, tested)
    BY <2>1, RemoveAllUnfolds
  <2> QED
    BY <2>2 DEF RemovalSteps
<1>3. PICK h : /\ RemoveAll(next, es, tested) = h[N]
               /\ h[0] = [tree |-> next, fault |-> Alive]
               /\ \A k \in 1..N : h[k] = Removed(h[k - 1], es[N + 1 - k], tested)
  <2>1. \E f : RemovalSteps(f, next, es, tested)
    BY <1>1, RemoveAllUnfolds
  <2> QED
    BY <2>1 DEF RemovalSteps
<1> HIDE DEF N, all
<1>4. g[1] = h[0]
  <2>1. 1 \in 1..Len(all) /\ Len(all) + 1 - 1 = N + 1
    BY <1>1
  <2>2. g[1] = Removed(g[0], all[N + 1], tested)
    BY <1>2, <2>1
  <2> QED
    BY <2>2, <1>1, <1>2, <1>3 DEF Intact
<1> DEFINE B == {k \in 0..N : g[k + 1] # h[k]}
<1>5. CASE B # {}
  <2>0. B \in SUBSET Nat
    BY <1>1
  <2>1. PICK k \in B : \A m \in B : k <= m
    <3> HIDE DEF B
    <3> QED
      BY <2>0, <1>5, LeastNumber
  <2>2. k # 0 /\ k \in 1..N /\ k - 1 \in 0..N /\ k - 1 \notin B /\ (k - 1) + 1 = k /\ (k + 1) - 1 = k
    BY <2>1, <1>1, <1>4
  <2>3. g[k] = h[k - 1]
    BY <2>2
  <2>4. k + 1 \in 1..Len(all) /\ Len(all) + 1 - (k + 1) = N + 1 - k /\ N + 1 - k \in 1..N
    BY <2>2, <1>1
  <2>5. g[k + 1] = Removed(g[k], all[N + 1 - k], tested)
    BY <1>2, <2>2, <2>4
  <2>6. h[k] = Removed(h[k - 1], es[N + 1 - k], tested)
    BY <1>3, <2>2
  <2>7. all[N + 1 - k] = es[N + 1 - k]
    BY <1>1, <2>4
  <2>8. g[k + 1] = h[k]
    BY <2>3, <2>5, <2>6, <2>7
  <2> QED
    BY <2>1, <2>8
<1>6. CASE B = {}
  <2>1. N \in 0..N
    BY <1>1
  <2>2. g[N + 1] = h[N]
    BY <2>1, <1>6
  <2>3. RemoveAll(tree, all, tested) = RemoveAll(next, es, tested)
    BY <2>2, <1>1, <1>2, <1>3 DEF Intact
  <2> QED
    BY <2>3 DEF all, N
<1> QED
  BY <1>5, <1>6

\* The function that AddEntries defines, for its first steps.
Additions(g, t, i, ks, rows, reads, ignored, steps) ==
    g = [k \in 0..steps |-> IF k = 0 THEN Start(index[i])
                            ELSE AddRow(t, i, g[k - 1], ks[k], rows[k], reads[k], ignored)]

LEMMA AdditionsExist ==
  ASSUME NEW t, NEW i, NEW ks, NEW rows, NEW reads, NEW ignored, NEW steps \in Nat
  PROVE  \E g : Additions(g, t, i, ks, rows, reads, ignored, steps)
<1> DEFINE S == {k \in Nat : ~\E g : Additions(g, t, i, ks, rows, reads, ignored, k)}
<1>1. CASE S = {}
  BY <1>1
<1>2. CASE S # {}
  <2>1. PICK k \in S : \A m \in S : k <= m
    <3> S \in SUBSET Nat
      OBVIOUS
    <3> HIDE DEF S
    <3> QED
      BY <1>2, LeastNumber
  <2>2. CASE k = 0
    <3> DEFINE base == Start(index[i])
               then(d, o) == AddRow(t, i, d, ks[o], rows[o], reads[o], ignored)
               g == [o \in 0..0 |-> base]
    <3>1. g = [o \in 0..0 |-> IF o = 0 THEN base ELSE then(g[o - 1], o)]
      <4> HIDE DEF base, then
      <4> QED
        OBVIOUS
    <3> HIDE DEF g
    <3>2. Additions(g, t, i, ks, rows, reads, ignored, 0)
      BY <3>1, Zenon DEF Additions
    <3> QED
      BY <3>2, <2>1, <2>2
  <2>3. CASE k # 0
    <3>1. k - 1 \in Nat /\ k - 1 \notin S /\ k \in Nat
      BY <2>1, <2>3
    <3>2. PICK f : Additions(f, t, i, ks, rows, reads, ignored, k - 1)
      BY <3>1
    <3> DEFINE base == Start(index[i])
               then(d, o) == AddRow(t, i, d, ks[o], rows[o], reads[o], ignored)
               last == then(f[k - 1], k)
               g == [o \in 0..k |-> IF o <= k - 1 THEN f[o] ELSE last]
    <3>3. \A o \in 0..k - 1 : f[o] = IF o = 0 THEN base ELSE then(f[o - 1], o)
      <4>1. f = [o \in 0..k - 1 |-> IF o = 0 THEN base ELSE then(f[o - 1], o)]
        BY <3>2, Zenon DEF Additions
      <4> HIDE DEF base, then
      <4> QED
        BY <4>1
    <3> HIDE DEF base, then, last
    <3>4. \A o \in 0..k - 1 : g[o] = f[o]
      BY <3>1
    <3>5. g[k] = last
      BY <3>1
    <3>6. DOMAIN g = 0..k /\ g = [o \in 0..k |-> g[o]]
      OBVIOUS
    <3> HIDE DEF g
    <3>7. \A o \in 0..k : g[o] = IF o = 0 THEN base ELSE then(g[o - 1], o)
      <4> SUFFICES ASSUME NEW o \in 0..k
                   PROVE  g[o] = IF o = 0 THEN base ELSE then(g[o - 1], o)
        OBVIOUS
      <4>1. CASE o = k
        <5>1. g[o - 1] = f[k - 1]
          BY <4>1, <3>1, <3>4
        <5> QED
          BY <4>1, <5>1, <3>5, <2>3 DEF last
      <4>2. CASE o = 0
        BY <4>2, <3>1, <3>3, <3>4
      <4>3. CASE o # k /\ o # 0
        <5>1. o \in 0..k - 1 /\ o - 1 \in 0..k - 1
          BY <4>3, <3>1
        <5>2. g[o] = f[o] /\ g[o - 1] = f[o - 1]
          BY <5>1, <3>4
        <5> QED
          BY <4>3, <5>1, <5>2, <3>3
      <4> QED
        BY <4>1, <4>2, <4>3
    <3>8. g = [o \in 0..k |-> IF o = 0 THEN base ELSE then(g[o - 1], o)]
      BY <3>6, <3>7
    <3>9. Additions(g, t, i, ks, rows, reads, ignored, k)
      BY <3>8, Zenon DEF Additions, base, then
    <3> QED
      BY <3>9, <2>1
  <2> QED
    BY <2>2, <2>3
<1> QED
  BY <1>1, <1>2

AdditionSteps(g, t, i, ks, rows, reads, ignored) ==
    /\ AddEntries(t, i, ks, rows, reads, ignored) = TakeBack(g[Len(ks)])
    /\ g[0] = Start(index[i])
    /\ \A k \in 1..Len(ks) : g[k] = AddRow(t, i, g[k - 1], ks[k], rows[k], reads[k], ignored)

LEMMA AddEntriesUnfolds ==
  ASSUME NEW t, NEW i, NEW ks, NEW rows, NEW reads, NEW ignored, Len(ks) \in Nat
  PROVE  \E g : AdditionSteps(g, t, i, ks, rows, reads, ignored)
<1> DEFINE base == Start(index[i])
           then(d, o) == AddRow(t, i, d, ks[o], rows[o], reads[o], ignored)
           g == CHOOSE f : f = [k \in 0..Len(ks) |-> IF k = 0 THEN base ELSE then(f[k - 1], k)]
<1>1. \E f : f = [k \in 0..Len(ks) |-> IF k = 0 THEN base ELSE then(f[k - 1], k)]
  <2>1. \E f : Additions(f, t, i, ks, rows, reads, ignored, Len(ks))
    BY AdditionsExist
  <2> QED
    BY <2>1, Zenon DEF Additions
<1>2. g = [k \in 0..Len(ks) |-> IF k = 0 THEN base ELSE then(g[k - 1], k)]
  BY <1>1, Zenon
<1>3. AddEntries(t, i, ks, rows, reads, ignored) = TakeBack(g[Len(ks)])
  BY Zenon DEF AddEntries
<1> HIDE DEF g, base, then
<1>4. g[0] = base
  BY <1>2
<1>5. \A k \in 1..Len(ks) : g[k] = then(g[k - 1], k)
  <2>1. \A k \in 1..Len(ks) : k \in 0..Len(ks) /\ k # 0
    OBVIOUS
  <2> QED
    BY <1>2, <2>1
<1> QED
  BY <1>3, <1>4, <1>5, Zenon DEF base, then, AdditionSteps

\* What LoadedTree does for one row.
Loading(i, tree, r) ==
    IF KeyOf(i, Loaded[r]) = NoKey THEN tree ELSE Attach(tree, KeyOf(i, Loaded[r]), r)

\* The function that LoadedTree defines, for its first steps.
Loadings(g, i, steps) ==
    g = [k \in 0..steps |-> IF k = 0 THEN EmptyTree
                            ELSE Loading(i, g[k - 1], k)]

LEMMA LoadingsExist ==
  ASSUME NEW i, NEW steps \in Nat
  PROVE  \E g : Loadings(g, i, steps)
<1> DEFINE S == {k \in Nat : ~\E g : Loadings(g, i, k)}
<1>1. CASE S = {}
  BY <1>1
<1>2. CASE S # {}
  <2>1. PICK k \in S : \A m \in S : k <= m
    <3> S \in SUBSET Nat
      OBVIOUS
    <3> HIDE DEF S
    <3> QED
      BY <1>2, LeastNumber
  <2>2. CASE k = 0
    <3> DEFINE base == EmptyTree
               then(d, o) == Loading(i, d, o)
               g == [o \in 0..0 |-> base]
    <3>1. g = [o \in 0..0 |-> IF o = 0 THEN base ELSE then(g[o - 1], o)]
      <4> HIDE DEF base, then
      <4> QED
        OBVIOUS
    <3> HIDE DEF g
    <3>2. Loadings(g, i, 0)
      BY <3>1, Zenon DEF Loadings
    <3> QED
      BY <3>2, <2>1, <2>2
  <2>3. CASE k # 0
    <3>1. k - 1 \in Nat /\ k - 1 \notin S /\ k \in Nat
      BY <2>1, <2>3
    <3>2. PICK f : Loadings(f, i, k - 1)
      BY <3>1
    <3> DEFINE base == EmptyTree
               then(d, o) == Loading(i, d, o)
               last == then(f[k - 1], k)
               g == [o \in 0..k |-> IF o <= k - 1 THEN f[o] ELSE last]
    <3>3. \A o \in 0..k - 1 : f[o] = IF o = 0 THEN base ELSE then(f[o - 1], o)
      <4>1. f = [o \in 0..k - 1 |-> IF o = 0 THEN base ELSE then(f[o - 1], o)]
        BY <3>2, Zenon DEF Loadings
      <4> HIDE DEF base, then
      <4> QED
        BY <4>1
    <3> HIDE DEF base, then, last
    <3>4. \A o \in 0..k - 1 : g[o] = f[o]
      BY <3>1
    <3>5. g[k] = last
      BY <3>1
    <3>6. DOMAIN g = 0..k /\ g = [o \in 0..k |-> g[o]]
      OBVIOUS
    <3> HIDE DEF g
    <3>7. \A o \in 0..k : g[o] = IF o = 0 THEN base ELSE then(g[o - 1], o)
      <4> SUFFICES ASSUME NEW o \in 0..k
                   PROVE  g[o] = IF o = 0 THEN base ELSE then(g[o - 1], o)
        OBVIOUS
      <4>1. CASE o = k
        <5>1. g[o - 1] = f[k - 1]
          BY <4>1, <3>1, <3>4
        <5> QED
          BY <4>1, <5>1, <3>5, <2>3 DEF last
      <4>2. CASE o = 0
        BY <4>2, <3>1, <3>3, <3>4
      <4>3. CASE o # k /\ o # 0
        <5>1. o \in 0..k - 1 /\ o - 1 \in 0..k - 1
          BY <4>3, <3>1
        <5>2. g[o] = f[o] /\ g[o - 1] = f[o - 1]
          BY <5>1, <3>4
        <5> QED
          BY <4>3, <5>1, <5>2, <3>3
      <4> QED
        BY <4>1, <4>2, <4>3
    <3>8. g = [o \in 0..k |-> IF o = 0 THEN base ELSE then(g[o - 1], o)]
      BY <3>6, <3>7
    <3>9. Loadings(g, i, k)
      BY <3>8, Zenon DEF Loadings, base, then
    <3> QED
      BY <3>9, <2>1
  <2> QED
    BY <2>2, <2>3
<1> QED
  BY <1>1, <1>2

LoadingSteps(g, i) ==
    /\ LoadedTree(i) = g[Len(Loaded)]
    /\ g[0] = EmptyTree
    /\ \A k \in 1..Len(Loaded) : g[k] = Loading(i, g[k - 1], k)

LEMMA LoadedTreeUnfolds ==
  ASSUME NEW i, Len(Loaded) \in Nat
  PROVE  \E g : LoadingSteps(g, i)
<1> DEFINE base == EmptyTree
           then(d, o) == Loading(i, d, o)
           g == CHOOSE f : f = [k \in 0..Len(Loaded) |-> IF k = 0 THEN base ELSE then(f[k - 1], k)]
<1>1. \E f : f = [k \in 0..Len(Loaded) |-> IF k = 0 THEN base ELSE then(f[k - 1], k)]
  <2>1. \E f : Loadings(f, i, Len(Loaded))
    BY LoadingsExist
  <2> QED
    BY <2>1, Zenon DEF Loadings
<1>2. g = [k \in 0..Len(Loaded) |-> IF k = 0 THEN base ELSE then(g[k - 1], k)]
  BY <1>1, Zenon
<1>3. LoadedTree(i) = g[Len(Loaded)]
  BY Zenon DEF LoadedTree, Loading
<1> HIDE DEF g, base, then
<1>4. g[0] = base
  BY <1>2
<1>5. \A k \in 1..Len(Loaded) : g[k] = then(g[k - 1], k)
  <2>1. \A k \in 1..Len(Loaded) : k \in 0..Len(Loaded) /\ k # 0
    OBVIOUS
  <2> QED
    BY <1>2, <2>1
<1> QED
  BY <1>3, <1>4, <1>5, Zenon DEF base, then, LoadingSteps

-----------------------------------------------------------------------------
(* The entries of a statement. *)

\* What is true of entries stays true when more are attached.
LEMMA EnteredAttach ==
  ASSUME NEW tree, Tree(tree), Linked(tree), Placed(tree), NEW key \in Seq(Nat), NEW row \in Row,
         NEW es \in Seq(Nat), NEW ks, NEW rows, Entered(tree, es, ks, rows)
  PROVE  Entered(Attach(tree, key, row), es, ks, rows)
<1> DEFINE next == Attach(tree, key, row)
           new == FreshNode(tree)
           p == Below(tree, key)
           D == DOMAIN tree.node
<1>1. new \notin D /\ new # Null
  BY FreshIsFresh
<1>2. /\ next.root = IF tree.root = Null THEN new ELSE tree.root
      /\ DOMAIN next.node = D \cup {new}
      /\ next.node[new] = [key |-> key, row |-> row, parent |-> p, left |-> Null, right |-> Null]
      /\ \A n \in D :
            /\ next.node[n].key = tree.node[n].key /\ next.node[n].row = tree.node[n].row
            /\ next.node[n].parent = tree.node[n].parent
            /\ next.node[n].left = IF n = p /\ Smaller(tree.node[n].key, key) THEN new
                                   ELSE tree.node[n].left
            /\ next.node[n].right = IF n = p /\ ~Smaller(tree.node[n].key, key) THEN new
                                    ELSE tree.node[n].right
  BY AttachFields
<1>n. next.node[new].parent = p
  <2> HIDE DEF next, new, p, D
  <2> QED
    BY <1>2
<1>3. tree.root # Null => IF Smaller(tree.node[p].key, key) THEN tree.node[p].left = Null
                          ELSE tree.node[p].right = Null
  BY BelowFacts
<1>4. tree.root = Null => D = {}
  BY RootOfEntries
<1>5. D \subseteq Nat \ {Null} /\ \A n \in D : tree.node[n].left \in D \cup {Null} /\ tree.node[n].right \in D \cup {Null}
  BY DEF Tree, Linked
<1> HIDE DEF next, new, p, D
<1>6. ASSUME NEW j \in DOMAIN es, ks[j] # NoKey
      PROVE  /\ es[j] \in DOMAIN next.node
             /\ next.node[es[j]].row = rows[j] /\ next.node[es[j]].key = ks[j]
             /\ \/ /\ next.node[es[j]].parent = Null /\ next.root = es[j]
                   /\ \A k \in 1..j - 1 : es[k] = Null
                \/ /\ next.node[es[j]].parent \in DOMAIN next.node
                   /\ es[j] \in {next.node[next.node[es[j]].parent].left, next.node[next.node[es[j]].parent].right}
                   /\ \A k \in DOMAIN es : k >= j => next.node[es[j]].parent # es[k]
             /\ \A m \in {next.node[es[j]].left, next.node[es[j]].right} \ {Null} :
                   next.node[m].parent = es[j]
  <2> DEFINE e == es[j]
             q == tree.node[e].parent
  <2>1. /\ e \in D
        /\ tree.node[e].row = rows[j] /\ tree.node[e].key = ks[j]
        /\ \/ /\ q = Null /\ tree.root = e
              /\ \A k \in 1..j - 1 : es[k] = Null
           \/ /\ q \in D
              /\ e \in {tree.node[q].left, tree.node[q].right}
              /\ \A k \in DOMAIN es : k >= j => q # es[k]
        /\ \A m \in {tree.node[e].left, tree.node[e].right} \ {Null} : tree.node[m].parent = e
    BY <1>6 DEF Entered, D
  <2> HIDE DEF e
  <2>2. e \in DOMAIN next.node /\ next.node[e].row = rows[j] /\ next.node[e].key = ks[j]
        /\ next.node[e].parent = q
    BY <2>1, <1>2
  <2>3. tree.root # Null /\ e # Null /\ e # new
    BY <2>1, <1>1, <1>4, <1>5
  <2> HIDE DEF q
  <2>4. q \in D /\ e \in {tree.node[q].left, tree.node[q].right}
           => e \in {next.node[q].left, next.node[q].right}
    BY <2>3, <1>2, <1>3
  <2>5. \A m \in {next.node[e].left, next.node[e].right} \ {Null} : next.node[m].parent = e
    <3> SUFFICES ASSUME NEW m \in {next.node[e].left, next.node[e].right}, m # Null
                 PROVE  next.node[m].parent = e
      OBVIOUS
    <3>1. CASE m = new
      <4>1. tree.node[e].left # new /\ tree.node[e].right # new
        BY <2>1, <1>1, <1>5
      <4>2. e = p
        BY <3>1, <4>1, <2>1, <1>2
      <4> QED
        BY <3>1, <4>2, <1>n
    <3>2. CASE m # new
      <4>1. m \in {tree.node[e].left, tree.node[e].right} /\ m \in D
        BY <3>2, <2>1, <1>2, <1>5
      <4> QED
        BY <4>1, <2>1, <1>2
    <3> QED
      BY <3>1, <3>2
  <2>6. /\ e \in DOMAIN next.node
        /\ next.node[e].row = rows[j] /\ next.node[e].key = ks[j]
        /\ \/ /\ next.node[e].parent = Null /\ next.root = e
              /\ \A k \in 1..j - 1 : es[k] = Null
           \/ /\ next.node[e].parent \in DOMAIN next.node
              /\ e \in {next.node[next.node[e].parent].left, next.node[next.node[e].parent].right}
              /\ \A k \in DOMAIN es : k >= j => next.node[e].parent # es[k]
        /\ \A m \in {next.node[e].left, next.node[e].right} \ {Null} : next.node[m].parent = e
    <3>1. next.root = tree.root /\ (q \in D => q \in DOMAIN next.node)
      BY <2>3, <1>2
    <3> QED
      BY <3>1, <2>1, <2>2, <2>4, <2>5
  <2> QED
    BY <2>6 DEF e
<1>7. \A j \in DOMAIN es : ks[j] = NoKey => es[j] = Null
  BY DEF Entered
<1>8. Entered(next, es, ks, rows)
  BY <1>6, <1>7 DEF Entered
<1> QED
  BY <1>8 DEF next

\* The entry that is attached for the next row is one of them.
LEMMA EnteredNext ==
  ASSUME NEW tree, Tree(tree), Linked(tree), Placed(tree),
         NEW es \in Seq(Nat), NEW ks, NEW rows, Entered(tree, es, ks, rows),
         ks[Len(es) + 1] # NoKey, ks[Len(es) + 1] \in Seq(Nat), rows[Len(es) + 1] \in Row
  PROVE  Entered(Attach(tree, ks[Len(es) + 1], rows[Len(es) + 1]),
                 Append(es, FreshNode(tree)), ks, rows)
<1> DEFINE j == Len(es) + 1
           key == ks[j]
           row == rows[j]
           next == Attach(tree, key, row)
           new == FreshNode(tree)
           p == Below(tree, key)
           D == DOMAIN tree.node
           all == Append(es, new)
<1>1. new \notin D /\ new # Null /\ new \in Nat
  BY FreshIsFresh
<1>2. /\ next.root = IF tree.root = Null THEN new ELSE tree.root
      /\ DOMAIN next.node = D \cup {new}
      /\ next.node[new] = [key |-> key, row |-> row, parent |-> p, left |-> Null, right |-> Null]
      /\ \A n \in D :
            /\ next.node[n].parent = tree.node[n].parent
            /\ next.node[n].left = IF n = p /\ Smaller(tree.node[n].key, key) THEN new
                                   ELSE tree.node[n].left
            /\ next.node[n].right = IF n = p /\ ~Smaller(tree.node[n].key, key) THEN new
                                    ELSE tree.node[n].right
  BY AttachFields
<1>3. /\ next.node[new].key = key /\ next.node[new].row = row /\ next.node[new].parent = p
      /\ next.node[new].left = Null /\ next.node[new].right = Null
  <2> HIDE DEF next, key, row, p, new
  <2> QED
    BY <1>2
<1>4. (tree.root = Null => p = Null) /\ (tree.root # Null => p \in D)
  BY BelowFacts
<1>5. tree.root = Null => D = {}
  BY RootOfEntries
<1>6. Entered(next, es, ks, rows)
  BY EnteredAttach
<1>7. j \in Nat \ {0} /\ DOMAIN es = 1..j - 1 /\ DOMAIN all = 1..j /\ all[j] = new
      /\ \A k \in 1..j - 1 : all[k] = es[k]
  BY <1>1
<1>8. \A k \in 1..j - 1 : ks[k] # NoKey => es[k] \in D
  BY <1>7 DEF Entered
<1>9. \A k \in 1..j - 1 : ks[k] = NoKey => es[k] = Null
  BY <1>7 DEF Entered
<1>o. \A k \in 1..j - 1 : ks[k] # NoKey => tree.node[es[k]].parent \in D \cup {Null}
  BY <1>7, <1>1 DEF Entered
<1> HIDE DEF next, new, p, D, all, key, row, j
<1>10. ASSUME NEW k \in DOMAIN all
       PROVE  IF ks[k] = NoKey THEN all[k] = Null
              ELSE /\ all[k] \in DOMAIN next.node
                   /\ next.node[all[k]].row = rows[k] /\ next.node[all[k]].key = ks[k]
                   /\ \/ /\ next.node[all[k]].parent = Null /\ next.root = all[k]
                         /\ \A o \in 1..k - 1 : all[o] = Null
                      \/ /\ next.node[all[k]].parent \in DOMAIN next.node
                         /\ all[k] \in {next.node[next.node[all[k]].parent].left, next.node[next.node[all[k]].parent].right}
                         /\ \A o \in DOMAIN all : o >= k => next.node[all[k]].parent # all[o]
                   /\ \A m \in {next.node[all[k]].left, next.node[all[k]].right} \ {Null} :
                         next.node[m].parent = all[k]
  <2>1. CASE k = j
    <3>1. all[k] = new /\ ks[k] = key /\ rows[k] = row /\ key # NoKey
      BY <2>1, <1>7 DEF key, row, j
    <3>2. \A o \in DOMAIN all : o >= k => o = k
      BY <2>1, <1>7
    <3>3. CASE tree.root = Null
      <4>1. \A o \in 1..k - 1 : all[o] = Null
        BY <3>3, <2>1, <1>5, <1>7, <1>8, <1>9
      <4> QED
        BY <3>1, <3>3, <4>1, <1>2, <1>3, <1>4
    <3>4. CASE tree.root # Null
      <4>1. p \in D /\ p # new
        BY <3>4, <1>1, <1>4
      <4>2. new \in {next.node[p].left, next.node[p].right}
        BY <4>1, <1>2
      <4> QED
        BY <3>1, <3>2, <4>1, <4>2, <1>2, <1>3
    <3> QED
      BY <3>3, <3>4
  <2>2. CASE k # j
    <3>1. k \in 1..j - 1 /\ all[k] = es[k] /\ k \in DOMAIN es
      BY <2>2, <1>7
    <3>2. ks[k] = NoKey => all[k] = Null
      BY <3>1, <1>9
    <3>3. ASSUME ks[k] # NoKey
          PROVE  /\ all[k] \in DOMAIN next.node
                 /\ next.node[all[k]].row = rows[k] /\ next.node[all[k]].key = ks[k]
                 /\ \/ /\ next.node[all[k]].parent = Null /\ next.root = all[k]
                       /\ \A o \in 1..k - 1 : all[o] = Null
                    \/ /\ next.node[all[k]].parent \in DOMAIN next.node
                       /\ all[k] \in {next.node[next.node[all[k]].parent].left, next.node[next.node[all[k]].parent].right}
                       /\ \A o \in DOMAIN all : o >= k => next.node[all[k]].parent # all[o]
                 /\ \A m \in {next.node[all[k]].left, next.node[all[k]].right} \ {Null} :
                       next.node[m].parent = all[k]
      <4>1. /\ es[k] \in DOMAIN next.node
            /\ next.node[es[k]].row = rows[k] /\ next.node[es[k]].key = ks[k]
            /\ \/ /\ next.node[es[k]].parent = Null /\ next.root = es[k]
                  /\ \A o \in 1..k - 1 : es[o] = Null
               \/ /\ next.node[es[k]].parent \in DOMAIN next.node
                  /\ es[k] \in {next.node[next.node[es[k]].parent].left, next.node[next.node[es[k]].parent].right}
                  /\ \A o \in DOMAIN es : o >= k => next.node[es[k]].parent # es[o]
            /\ \A m \in {next.node[es[k]].left, next.node[es[k]].right} \ {Null} :
                  next.node[m].parent = es[k]
        BY <3>1, <3>3, <1>6 DEF Entered
      <4>2. next.node[es[k]].parent # new
        <5>1. es[k] \in D /\ tree.node[es[k]].parent \in D \cup {Null}
          BY <3>1, <3>3, <1>8, <1>o
        <5> QED
          BY <5>1, <1>1, <1>2
      <4>3. \A o \in 1..k - 1 : all[o] = es[o]
        BY <3>1, <1>7
      <4>4. \A o \in DOMAIN all : (o = j /\ all[o] = new) \/ (o \in DOMAIN es /\ all[o] = es[o])
        BY <1>7
      <4>5. (\A o \in DOMAIN es : o >= k => next.node[es[k]].parent # es[o])
              => \A o \in DOMAIN all : o >= k => next.node[es[k]].parent # all[o]
        BY <4>2, <4>4
      <4> QED
        BY <4>1, <4>3, <4>5, <3>1
    <3> QED
      BY <3>2, <3>3
  <2> QED
    BY <2>1, <2>2
<1>11. Entered(next, all, ks, rows)
  BY <1>10 DEF Entered
<1> QED
  BY <1>11 DEF next, all, new, key, row, j

\* A null pointer for a row that is skipped.
LEMMA EnteredNull ==
  ASSUME NEW tree, Tree(tree), NEW es \in Seq(Nat), NEW ks, NEW rows, Entered(tree, es, ks, rows),
         ks[Len(es) + 1] = NoKey
  PROVE  Entered(tree, Append(es, Null), ks, rows)
<1> DEFINE j == Len(es) + 1
           all == Append(es, Null)
           node == tree.node
<1>1. j \in Nat \ {0} /\ DOMAIN es = 1..j - 1 /\ DOMAIN all = 1..j /\ all[j] = Null
      /\ \A k \in 1..j - 1 : all[k] = es[k]
  BY DEF Null
<1>2. Null \notin DOMAIN node
  BY DEF Tree
<1> HIDE DEF all, j
<1>3. ASSUME NEW k \in DOMAIN all
      PROVE  IF ks[k] = NoKey THEN all[k] = Null
             ELSE /\ all[k] \in DOMAIN node
                  /\ node[all[k]].row = rows[k] /\ node[all[k]].key = ks[k]
                  /\ \/ /\ node[all[k]].parent = Null /\ tree.root = all[k]
                        /\ \A o \in 1..k - 1 : all[o] = Null
                     \/ /\ node[all[k]].parent \in DOMAIN node
                        /\ all[k] \in {node[node[all[k]].parent].left, node[node[all[k]].parent].right}
                        /\ \A o \in DOMAIN all : o >= k => node[all[k]].parent # all[o]
                  /\ \A m \in {node[all[k]].left, node[all[k]].right} \ {Null} :
                        node[m].parent = all[k]
  <2>1. CASE k = j
    BY <2>1, <1>1 DEF j
  <2>2. CASE k # j
    <3>1. k \in 1..j - 1 /\ all[k] = es[k] /\ k \in DOMAIN es
      BY <2>2, <1>1
    <3>2. IF ks[k] = NoKey THEN es[k] = Null
          ELSE /\ es[k] \in DOMAIN node
               /\ node[es[k]].row = rows[k] /\ node[es[k]].key = ks[k]
               /\ \/ /\ node[es[k]].parent = Null /\ tree.root = es[k]
                     /\ \A o \in 1..k - 1 : es[o] = Null
                  \/ /\ node[es[k]].parent \in DOMAIN node
                     /\ es[k] \in {node[node[es[k]].parent].left, node[node[es[k]].parent].right}
                     /\ \A o \in DOMAIN es : o >= k => node[es[k]].parent # es[o]
               /\ \A m \in {node[es[k]].left, node[es[k]].right} \ {Null} :
                     node[m].parent = es[k]
      BY <3>1 DEF Entered
    <3>3. \A o \in 1..k - 1 : all[o] = es[o]
      BY <3>1, <1>1
    <3>4. \A o \in DOMAIN all : (o = j /\ all[o] = Null) \/ (o \in DOMAIN es /\ all[o] = es[o])
      BY <1>1
    <3>5. node[es[k]].parent \in DOMAIN node /\ (\A o \in DOMAIN es : o >= k => node[es[k]].parent # es[o])
              => \A o \in DOMAIN all : o >= k => node[es[k]].parent # all[o]
      BY <3>4, <1>2
    <3> HIDE DEF node
    <3> QED
      BY <3>1, <3>2, <3>3, <3>5
  <2> QED
    BY <2>1, <2>2
<1> HIDE DEF node
<1>4. Entered(tree, all, ks, rows)
  BY <1>3 DEF Entered, node
<1> QED
  BY <1>4 DEF all

\* The entries AddEntry compares have the key; without a conflict among them they
\* are all of its entries.
LEMMA ComparedFacts ==
  ASSUME NEW t, NEW i, NEW tree, Tree(tree), Linked(tree), Placed(tree), NEW key, NEW read, NEW ignored,
         count \in Nat
  PROVE  LET cs == Compared(t, i, tree, key, read, ignored)
             fits(n) == /\ tree.node[n].row <= count
                        /\ ~Conflicts(t, i, key, read[tree.node[n].row], tree.node[n].row, ignored)
         IN /\ cs \subseteq {n \in DOMAIN tree.node : tree.node[n].key = key}
            /\ (\A n \in cs : fits(n)) =>
                  \A n \in DOMAIN tree.node : tree.node[n].key = key => n \in cs
<1> DEFINE at == Walk(Towards(tree.node, key), tree.root)
           D == DOMAIN tree.node
           N == Steps(Towards(tree.node, key))
           fits(n) == /\ tree.node[n].row <= count
                      /\ ~Conflicts(t, i, key, read[tree.node[n].row], tree.node[n].row, ignored)
           same == {k \in DOMAIN at : at[k] # Null /\ tree.node[at[k]].key = key}
           stops == {k \in same : \/ tree.node[at[k]].row > count
                                  \/ Conflicts(t, i, key, read[tree.node[at[k]].row], tree.node[at[k]].row, ignored)}
           cs == Compared(t, i, tree, key, read, ignored)
<1>1. cs = {at[k] : k \in {k \in same : \A j \in stops : k <= j}}
  BY DEF Compared
<1>2. at \in [1..N -> D \cup {Null}] /\ DOMAIN at \subseteq Nat
  <2>1. Chain(Towards(tree.node, key), tree.root) /\ DOMAIN Towards(tree.node, key) = D
    BY TowardsChain
  <2>2. at \in [1..N -> D \cup {Null}]
    BY <2>1, WalkEnds
  <2> HIDE DEF at
  <2> QED
    BY <2>2
<1>3. Search(tree, key) = {at[k] : k \in DOMAIN at} \ {Null}
  BY DEF Search, Met, Range
<1>4. \A n \in D : tree.node[n].key = key => n \in Search(tree, key)
  BY DEF Placed
<1>5. ASSUME NEW n \in D
      PROVE  tree.node[n].row \in Nat
  <2>1. tree.node[n].row \in Row
    BY NodeFields
  <2> QED
    BY <2>1 DEF Row
<1> HIDE DEF at, N, cs
<1>6. cs \subseteq {n \in D : tree.node[n].key = key}
  BY <1>1, <1>2
<1>7. ASSUME \A n \in cs : fits(n), stops # {}
      PROVE  FALSE
  <2>1. stops \in SUBSET Nat
    BY <1>2
  <2>2. PICK k \in stops : \A j \in stops : k <= j
    <3> HIDE DEF stops
    <3> QED
      BY <1>7, <2>1, LeastNumber
  <2>3. at[k] \in cs /\ at[k] \in D
    BY <2>2, <1>1, <1>2
  <2>4. fits(at[k])
    BY <2>3, <1>7
  <2> QED
    BY <2>2, <2>3, <2>4, <1>5 DEF stops
<1>8. ASSUME stops = {}, NEW n \in D, tree.node[n].key = key
      PROVE  n \in cs
  <2>1. PICK k \in DOMAIN at : at[k] = n /\ n # Null
    BY <1>3, <1>4, <1>8
  <2>2. k \in same
    BY <2>1, <1>8
  <2> HIDE DEF stops, same
  <2> QED
    BY <2>1, <2>2, <1>1, <1>8
<1>9. (\A n \in cs : fits(n)) => \A n \in D : tree.node[n].key = key => n \in cs
  BY <1>7, <1>8
<1> QED
  BY <1>6, <1>9 DEF cs

\* What AddEntries holds after k of its rows: a search tree with the entries the
\* index had and those of the rows, which can be taken back; it has compared the
\* rows of all entries with their keys.
Fits(t, i, key, n, read, ignored) ==
    index[i].node[n].row <= count /\ ~Conflicts(t, i, key, read[index[i].node[n].row], index[i].node[n].row, ignored)

EntriesAdded(t, i, ks, rows, reads, ignored, tree, added, compared, passed) ==
    /\ SearchTree(tree, i)
    /\ added \in Seq(Nat)
    /\ DOMAIN tree.node = DOMAIN index[i].node \cup (Range(added) \ {Null})
    /\ \A n \in DOMAIN index[i].node : /\ tree.node[n].key = index[i].node[n].key
                                       /\ tree.node[n].row = index[i].node[n].row
    /\ Entered(tree, added, ks, rows)
    /\ \A es \in Seq(Nat) : \A keys, rs :
          Entered(index[i], es, keys, rs) => Entered(tree, es, keys, rs)
    /\ RemoveAll(tree, added, TRUE) = [tree |-> index[i], fault |-> Alive]
    /\ compared \subseteq DOMAIN index[i].node /\ passed \subseteq compared
    /\ \A j \in DOMAIN added : ks[j] # NoKey =>
          /\ added[j] \notin DOMAIN index[i].node
          /\ \A n \in DOMAIN index[i].node : index[i].node[n].key = ks[j] =>
                n \in compared /\ Fits(t, i, ks[j], n, reads[j], ignored)
          /\ \A o \in 1..j - 1 : ks[o] # ks[j]

\* It goes on while no row was refused and no comparison died.
Adding(t, i, ks, rows, reads, ignored, k, tree, added, outcome, compared, passed) ==
    /\ EntriesAdded(t, i, ks, rows, reads, ignored, tree, added, compared, passed)
    /\ outcome \in {"going", "refused", "died"}
    /\ Len(added) <= k
    /\ outcome = "going" => Len(added) = k

\* The rows of a statement: what AddEntries is called with.
Batch(i, ks, rows) ==
    /\ ks \in Seq(Key(i) \cup {NoKey}) /\ rows \in Seq(Row) /\ DOMAIN rows = DOMAIN ks
    /\ \A j \in DOMAIN ks : \A o \in 1..j - 1 : ks[j] # NoKey /\ ks[o] = ks[j] => rows[o] > count

LEMMA AppendFacts ==
  ASSUME NEW es \in Seq(Nat), NEW e \in Nat
  PROVE  /\ Append(es, e) \in Seq(Nat) /\ Len(Append(es, e)) = Len(es) + 1
         /\ Len(es) \in Nat /\ DOMAIN es = 1..Len(es) /\ DOMAIN Append(es, e) = 1..Len(es) + 1
         /\ Append(es, e)[Len(es) + 1] = e
         /\ \A k \in 1..Len(es) : Append(es, e)[k] = es[k]
         /\ Range(Append(es, e)) = Range(es) \cup {e}
<1>1. /\ Append(es, e) \in Seq(Nat) /\ Len(Append(es, e)) = Len(es) + 1
      /\ Len(es) \in Nat /\ DOMAIN es = 1..Len(es) /\ DOMAIN Append(es, e) = 1..Len(es) + 1
      /\ Append(es, e)[Len(es) + 1] = e
      /\ \A k \in 1..Len(es) : Append(es, e)[k] = es[k]
  OBVIOUS
<1> DEFINE all == Append(es, e)
<1>2. Range(all) = {all[k] : k \in 1..Len(es) + 1} /\ Range(es) = {es[k] : k \in 1..Len(es)}
  BY <1>1 DEF Range
<1> HIDE DEF all
<1>3. Range(all) = Range(es) \cup {e}
  <2>0. /\ all[Len(es) + 1] = e /\ \A k \in 1..Len(es) : all[k] = es[k]
    BY <1>1 DEF all
  <2>1. ASSUME NEW x \in Range(all)
        PROVE  x \in Range(es) \cup {e}
    <3>1. PICK k \in 1..Len(es) + 1 : x = all[k]
      BY <1>2
    <3>2. k \in 1..Len(es) \/ k = Len(es) + 1
      BY <1>1
    <3> QED
      BY <3>1, <3>2, <2>0, <1>2
  <2>2. ASSUME NEW x \in Range(es) \cup {e}
        PROVE  x \in Range(all)
    <3>1. CASE x = e
      <4>1. Len(es) + 1 \in 1..Len(es) + 1
        BY <1>1
      <4> QED
        BY <3>1, <4>1, <2>0, <1>2
    <3>2. CASE x \in Range(es)
      <4>1. PICK k \in 1..Len(es) : x = es[k]
        BY <3>2, <1>2
      <4>2. k \in 1..Len(es) + 1
        BY <1>1
      <4> QED
        BY <4>1, <4>2, <2>0, <1>2
    <3> QED
      BY <3>1, <3>2
  <2> QED
    BY <2>1, <2>2
<1> QED
  BY <1>1, <1>3 DEF all

Refusal(outcome) == IF outcome = "refused" THEN TRUE ELSE FALSE

\* What AddEntries goes through its rows with.
Account(tree, added, outcome, compared, passed) ==
    [tree |-> tree, added |-> added, error |-> Refusal(outcome),
     fault |-> IF outcome = "died" THEN "chunk_of_no_row" ELSE Alive,
     compared |-> compared, passed |-> passed]

LEMMA AddingStart ==
  ASSUME NEW t, NEW i \in Index, NEW ks, NEW rows, NEW reads, NEW ignored, SearchTree(index[i], i)
  PROVE  /\ Start(index[i]) = Account(index[i], << >>, "going", {}, {})
         /\ Adding(t, i, ks, rows, reads, ignored, 0, index[i], << >>, "going", {}, {})
<1>1. Start(index[i]) = Account(index[i], << >>, "going", {}, {})
  BY DEF Start, Account, Refusal
<1>2. RemoveAll(index[i], << >>, TRUE) = [tree |-> index[i], fault |-> Alive]
  <2>1. Len(<< >>) = 0
    OBVIOUS
  <2>2. \E g : RemovalSteps(g, index[i], << >>, TRUE)
    BY <2>1, RemoveAllUnfolds
  <2> QED
    BY <2>1, <2>2 DEF RemovalSteps
<1>3. DOMAIN << >> = {} /\ Range(<< >>) = {} /\ << >> \in Seq(Nat) /\ Len(<< >>) = 0
  BY DEF Range
<1>4. Entered(index[i], << >>, ks, rows)
  BY <1>3 DEF Entered
<1>5. EntriesAdded(t, i, ks, rows, reads, ignored, index[i], << >>, {}, {})
  BY <1>2, <1>3, <1>4 DEF EntriesAdded
<1>6. Adding(t, i, ks, rows, reads, ignored, 0, index[i], << >>, "going", {}, {})
  BY <1>3, <1>5 DEF Adding
<1> QED
  BY <1>1, <1>6

\* A row that is refused, or is not looked at any more, adds nothing.
LEMMA AddingStops ==
  ASSUME NEW t, NEW i \in Index, NEW ks, NEW rows, NEW reads, NEW ignored, NEW k \in Nat,
         NEW tree, NEW added, NEW outcome, NEW compared, NEW passed,
         Adding(t, i, ks, rows, reads, ignored, k, tree, added, outcome, compared, passed),
         NEW outcome1 \in {"refused", "died"}, NEW compared1, NEW passed1,
         compared \subseteq compared1, compared1 \subseteq DOMAIN index[i].node,
         passed1 \subseteq compared1
  PROVE  Adding(t, i, ks, rows, reads, ignored, k + 1, tree, added, outcome1, compared1, passed1)
<1>1. EntriesAdded(t, i, ks, rows, reads, ignored, tree, added, compared, passed) /\ Len(added) <= k
  BY DEF Adding
<1>2. EntriesAdded(t, i, ks, rows, reads, ignored, tree, added, compared1, passed1)
  BY <1>1, Zenon DEF EntriesAdded
<1>3. Len(added) <= k + 1
  <2>1. Len(added) \in Nat
    BY <1>1 DEF EntriesAdded
  <2> QED
    BY <1>1, <2>1
<1> QED
  BY <1>2, <1>3 DEF Adding

\* A row without a key has a null pointer for its entry.
LEMMA AddingSkips ==
  ASSUME NEW t, NEW i \in Index, NEW ks, NEW rows, NEW reads, NEW ignored, NEW k \in Nat,
         NEW tree, NEW added, NEW compared, NEW passed,
         Adding(t, i, ks, rows, reads, ignored, k, tree, added, "going", compared, passed),
         ks[k + 1] = NoKey
  PROVE  Adding(t, i, ks, rows, reads, ignored, k + 1, tree, Append(added, Null), "going", compared, passed)
<1>1. EntriesAdded(t, i, ks, rows, reads, ignored, tree, added, compared, passed) /\ Len(added) = k
  BY DEF Adding
<1>2. added \in Seq(Nat) /\ Null \in Nat
  BY <1>1 DEF EntriesAdded, Null
<1> DEFINE all == Append(added, Null)
<1>3. /\ all \in Seq(Nat) /\ Len(all) = k + 1 /\ DOMAIN added = 1..k /\ DOMAIN all = 1..k + 1
      /\ all[k + 1] = Null /\ \A j \in 1..k : all[j] = added[j]
      /\ Range(all) = Range(added) \cup {Null}
  BY <1>1, <1>2, AppendFacts
<1>4. Tree(tree)
  BY <1>1 DEF EntriesAdded, SearchTree
<1>5. Entered(tree, all, ks, rows)
  <2>1. Entered(tree, added, ks, rows)
    BY <1>1 DEF EntriesAdded
  <2> QED
    BY <1>1, <1>2, <1>4, <2>1, EnteredNull
<1>6. RemoveAll(tree, all, TRUE) = [tree |-> index[i], fault |-> Alive]
  <2> DEFINE tested == TRUE
  <2>1. Removed(Intact(tree), Null, tested) = Intact(tree)
    BY DEF Removed, Intact
  <2>2. RemoveAll(tree, Append(added, Null), tested) = RemoveAll(tree, added, tested)
    <3> HIDE DEF tested
    <3> QED
      BY <1>2, <2>1, RemoveAllAppend
  <2> QED
    BY <1>1, <2>2 DEF EntriesAdded
<1> HIDE DEF all
<1>7. DOMAIN tree.node = DOMAIN index[i].node \cup (Range(all) \ {Null})
  <2>1. DOMAIN tree.node = DOMAIN index[i].node \cup (Range(added) \ {Null})
    BY <1>1 DEF EntriesAdded
  <2> QED
    BY <2>1, <1>3
<1>8. \A j \in DOMAIN all : ks[j] # NoKey =>
          /\ all[j] \notin DOMAIN index[i].node
          /\ \A n \in DOMAIN index[i].node : index[i].node[n].key = ks[j] =>
                n \in compared /\ Fits(t, i, ks[j], n, reads[j], ignored)
          /\ \A o \in 1..j - 1 : ks[o] # ks[j]
  <2> SUFFICES ASSUME NEW j \in DOMAIN all, ks[j] # NoKey
               PROVE  /\ all[j] \notin DOMAIN index[i].node
                      /\ \A n \in DOMAIN index[i].node : index[i].node[n].key = ks[j] =>
                            n \in compared /\ Fits(t, i, ks[j], n, reads[j], ignored)
                      /\ \A o \in 1..j - 1 : ks[o] # ks[j]
    OBVIOUS
  <2>1. j \in DOMAIN added /\ all[j] = added[j]
    BY <1>3
  <2> QED
    BY <2>1, <1>1 DEF EntriesAdded
<1>9. EntriesAdded(t, i, ks, rows, reads, ignored, tree, all, compared, passed)
  BY <1>1, <1>3, <1>5, <1>6, <1>7, <1>8 DEF EntriesAdded
<1>10. Len(all) <= k + 1
  BY <1>3
<1>11. Adding(t, i, ks, rows, reads, ignored, k + 1, tree, all, "going", compared, passed)
  BY <1>3, <1>9, <1>10 DEF Adding
<1> QED
  BY <1>11 DEF all

\* A row whose key no entry has, but those that lead to no such row, gets an entry.
LEMMA AddingAttaches ==
  ASSUME NEW t, NEW i \in Index, NEW ks, NEW rows, NEW reads, NEW ignored, NEW k \in Nat,
         NEW tree, NEW added, NEW compared, NEW passed,
         Adding(t, i, ks, rows, reads, ignored, k, tree, added, "going", compared, passed),
         ks[k + 1] \in Key(i), rows[k + 1] \in Row,
         NEW compared1, NEW passed1, compared \subseteq compared1,
         compared1 \subseteq DOMAIN index[i].node, passed1 \subseteq compared1,
         \A n \in DOMAIN index[i].node : index[i].node[n].key = ks[k + 1] =>
                n \in compared1 /\ Fits(t, i, ks[k + 1], n, reads[k + 1], ignored),
         \A o \in 1..k : ks[o] # ks[k + 1]
  PROVE  Adding(t, i, ks, rows, reads, ignored, k + 1, Attach(tree, ks[k + 1], rows[k + 1]),
                Append(added, FreshNode(tree)), "going", compared1, passed1)
<1> DEFINE key == ks[k + 1]
           row == rows[k + 1]
           new == FreshNode(tree)
           next == Attach(tree, key, row)
           all == Append(added, new)
           D == DOMAIN index[i].node
<1>1. EntriesAdded(t, i, ks, rows, reads, ignored, tree, added, compared, passed) /\ Len(added) = k
  BY DEF Adding
<1>2. /\ SearchTree(tree, i) /\ added \in Seq(Nat)
      /\ DOMAIN tree.node = D \cup (Range(added) \ {Null})
      /\ \A n \in D : tree.node[n].key = index[i].node[n].key /\ tree.node[n].row = index[i].node[n].row
      /\ Entered(tree, added, ks, rows)
      /\ RemoveAll(tree, added, TRUE) = [tree |-> index[i], fault |-> Alive]
  BY <1>1 DEF EntriesAdded
<1>3. Tree(tree) /\ Linked(tree) /\ Placed(tree) /\ key \in Seq(Nat) /\ key # NoKey
  BY <1>2, KeyIsSeq, NoKeyIsNoKey DEF SearchTree
<1>4. new \in Nat /\ new # Null /\ new \notin DOMAIN tree.node
  BY <1>3, FreshIsFresh
<1>5. /\ all \in Seq(Nat) /\ Len(all) = k + 1 /\ DOMAIN added = 1..k /\ DOMAIN all = 1..k + 1
      /\ all[k + 1] = new /\ \A j \in 1..k : all[j] = added[j]
      /\ Range(all) = Range(added) \cup {new}
  <2> HIDE DEF new
  <2> QED
    BY <1>1, <1>2, <1>4, AppendFacts
<1>6. SearchTree(next, i)
  BY <1>2, AttachSearchTree
<1>7. /\ DOMAIN next.node = DOMAIN tree.node \cup {new}
      /\ \A n \in DOMAIN tree.node : /\ next.node[n].key = tree.node[n].key
                                     /\ next.node[n].row = tree.node[n].row
  BY <1>3, AttachKeeps
<1>8. Entered(next, all, ks, rows)
  BY <1>1, <1>2, <1>3, EnteredNext
<1>9. \A es \in Seq(Nat) : \A keys, rs : Entered(index[i], es, keys, rs) => Entered(next, es, keys, rs)
  <2> SUFFICES ASSUME NEW es \in Seq(Nat), NEW keys, NEW rs, Entered(index[i], es, keys, rs)
               PROVE  Entered(next, es, keys, rs)
    OBVIOUS
  <2>1. Entered(tree, es, keys, rs)
    BY <1>1 DEF EntriesAdded
  <2> QED
    BY <1>3, <2>1, EnteredAttach
<1>10. RemoveAll(next, all, TRUE) = [tree |-> index[i], fault |-> Alive]
  <2>1. Removal(next, new) = Alive /\ RemoveEntry(next, new) = tree
    BY <1>3, RemoveAttached
  <2> DEFINE tested == TRUE
  <2>2. Removed(Intact(next), new, tested) = Intact(tree)
    BY <2>1, <1>4 DEF Removed, Intact
  <2> HIDE DEF next, new
  <2>3. RemoveAll(next, Append(added, new), tested) = RemoveAll(tree, added, tested)
    <3> HIDE DEF tested
    <3> QED
      BY <1>2, <1>4, <2>2, RemoveAllAppend
  <2> QED
    BY <1>2, <2>3
<1> HIDE DEF next, all, new
<1>11. DOMAIN next.node = D \cup (Range(all) \ {Null})
  BY <1>2, <1>4, <1>5, <1>7
<1>12. \A n \in D : /\ next.node[n].key = index[i].node[n].key
                    /\ next.node[n].row = index[i].node[n].row
  BY <1>2, <1>7
<1>13. \A j \in DOMAIN all : ks[j] # NoKey =>
          /\ all[j] \notin D
          /\ \A n \in D : index[i].node[n].key = ks[j] =>
                n \in compared1 /\ Fits(t, i, ks[j], n, reads[j], ignored)
          /\ \A o \in 1..j - 1 : ks[o] # ks[j]
  <2> SUFFICES ASSUME NEW j \in DOMAIN all, ks[j] # NoKey
               PROVE  /\ all[j] \notin D
                      /\ \A n \in D : index[i].node[n].key = ks[j] =>
                            n \in compared1 /\ Fits(t, i, ks[j], n, reads[j], ignored)
                      /\ \A o \in 1..j - 1 : ks[o] # ks[j]
    OBVIOUS
  <2>1. CASE j = k + 1
    <3>1. (k + 1) - 1 = k
      OBVIOUS
    <3> QED
      BY <2>1, <3>1, <1>2, <1>4, <1>5
  <2>2. CASE j # k + 1
    <3>1. j \in DOMAIN added /\ all[j] = added[j]
      BY <2>2, <1>5
    <3>2. /\ added[j] \notin D
          /\ \A n \in D : index[i].node[n].key = ks[j] =>
                n \in compared /\ Fits(t, i, ks[j], n, reads[j], ignored)
          /\ \A o \in 1..j - 1 : ks[o] # ks[j]
      BY <3>1, <1>1 DEF EntriesAdded
    <3> QED
      BY <3>1, <3>2
  <2> QED
    BY <2>1, <2>2
<1>14. EntriesAdded(t, i, ks, rows, reads, ignored, next, all, compared1, passed1)
  BY <1>5, <1>6, <1>8, <1>9, <1>10, <1>11, <1>12, <1>13 DEF EntriesAdded
<1>15. Len(all) <= k + 1
  BY <1>5
<1>16. Adding(t, i, ks, rows, reads, ignored, k + 1, next, all, "going", compared1, passed1)
  BY <1>5, <1>14, <1>15 DEF Adding
<1> QED
  BY <1>16 DEF next, all, new

LEMMA AccountFields ==
  ASSUME NEW tree, NEW added, NEW outcome, NEW compared, NEW passed
  PROVE  LET acc == Account(tree, added, outcome, compared, passed)
         IN /\ acc.tree = tree /\ acc.added = added /\ acc.compared = compared /\ acc.passed = passed
            /\ acc.error <=> outcome = "refused"
            /\ acc.fault = IF outcome = "died" THEN "chunk_of_no_row" ELSE Alive
BY DEF Account, Refusal

\* What AddEntry does, by its outcome.
EntryOutcome(t, i, tree, added, compared, passed, key, row, read, ignored) ==
    LET cs == Compared(t, i, tree, key, read, ignored)
        known == {n \in cs : tree.node[n].row <= count}
        fit == {n \in known : ~Conflicts(t, i, key, read[tree.node[n].row], tree.node[n].row, ignored)}
        result == AddEntry(t, i, Account(tree, added, "going", compared, passed), key, row, read, ignored)
    IN /\ cs # known => result = Account(tree, added, "died", compared \cup known, passed \cup fit)
       /\ cs = known /\ known # fit =>
             result = Account(tree, added, "refused", compared \cup known, passed \cup fit)
       /\ cs = known /\ known = fit =>
             result = Account(Attach(tree, key, row), Append(added, FreshNode(tree)), "going",
                              compared \cup known, passed \cup fit)

LEMMA AddEntryAccount ==
  ASSUME NEW t, NEW i, NEW tree, NEW added, NEW compared, NEW passed, NEW key, NEW row, NEW read, NEW ignored
  PROVE  EntryOutcome(t, i, tree, added, compared, passed, key, row, read, ignored)
<1> DEFINE acc == Account(tree, added, "going", compared, passed)
           cs == Compared(t, i, tree, key, read, ignored)
           known == {n \in cs : tree.node[n].row <= count}
           fit == {n \in known : ~Conflicts(t, i, key, read[tree.node[n].row], tree.node[n].row, ignored)}
           seen == [acc EXCEPT !.compared = @ \cup known, !.passed = @ \cup fit]
           died == [seen EXCEPT !.fault = "chunk_of_no_row"]
           refused == [seen EXCEPT !.error = Refusal("refused")]
           going == [seen EXCEPT !.tree = Attach(tree, key, row), !.added = Append(@, FreshNode(tree))]
           result == AddEntry(t, i, acc, key, row, read, ignored)
<1>0. Refusal("refused") = TRUE /\ Refusal("died") = Refusal("going")
  BY DEF Refusal
<1>1. acc.tree = tree /\ acc.added = added
  BY DEF Account
<1>2. result = CASE cs # known -> died [] cs = known /\ known # fit -> refused [] OTHER -> going
  <2> HIDE DEF acc
  <2> QED
    BY <1>0, <1>1 DEF AddEntry
<1>3. acc = [tree |-> tree, added |-> added, error |-> Refusal("going"), fault |-> Alive,
             compared |-> compared, passed |-> passed]
  BY DEF Account
<1> HIDE DEF cs, known, fit, result, acc
<1> DEFINE a == compared \cup known
           b == passed \cup fit
           error == Refusal("going")
<1>4. seen = [tree |-> tree, added |-> added, error |-> error, fault |-> Alive,
              compared |-> a, passed |-> b]
  <2>1. acc.compared = compared /\ acc.passed = passed
    BY <1>3
  <2>2. seen = [acc EXCEPT !.compared = a, !.passed = b]
    BY <2>1
  <2>3. acc = [tree |-> tree, added |-> added, error |-> error, fault |-> Alive,
               compared |-> compared, passed |-> passed]
    BY <1>3
  <2> HIDE DEF seen, a, b, error
  <2> QED
    BY <2>2, <2>3
<1>5. died = Account(tree, added, "died", a, b)
  <2> HIDE DEF seen, a, b, error
  <2>1. died = [tree |-> tree, added |-> added, error |-> error, fault |-> "chunk_of_no_row",
                compared |-> a, passed |-> b]
    BY <1>4
  <2>2. error = Refusal("died")
    BY <1>0 DEF error
  <2> HIDE DEF died
  <2> QED
    BY <2>1, <2>2 DEF Account
<1>6. refused = Account(tree, added, "refused", a, b)
  <2> HIDE DEF seen, a, b, error
  <2> DEFINE refusal == Refusal("refused")
  <2>1. refused = [seen EXCEPT !.error = refusal]
    OBVIOUS
  <2> HIDE DEF refused, refusal
  <2>2. refused = [tree |-> tree, added |-> added, error |-> refusal, fault |-> Alive,
                   compared |-> a, passed |-> b]
    BY <1>4, <2>1
  <2> QED
    BY <2>2 DEF Account, refusal
<1>7. going = Account(Attach(tree, key, row), Append(added, FreshNode(tree)), "going", a, b)
  <2> DEFINE next == Attach(tree, key, row)
             new == FreshNode(tree)
             longer == Append(added, new)
  <2>1. seen.added = added
    <3> HIDE DEF seen, a, b, error
    <3> QED
      BY <1>4
  <2>2. going = [seen EXCEPT !.tree = next, !.added = longer]
    <3> HIDE DEF seen
    <3> QED
      BY <2>1
  <2> HIDE DEF seen, a, b, error, going, next, longer
  <2>3. going = [tree |-> next, added |-> longer, error |-> error, fault |-> Alive,
                 compared |-> a, passed |-> b]
    BY <1>4, <2>2
  <2>4. going = Account(next, longer, "going", a, b)
    BY <2>3 DEF Account, error
  <2> QED
    BY <2>4 DEF next, longer
<1> HIDE DEF seen
<1> HIDE DEF died, refused, going
<1>8. cs # known => result = died
  BY <1>2
<1>9. cs = known /\ known # fit => result = refused
  BY <1>2
<1>10. cs = known /\ known = fit => result = going
  BY <1>2
<1> QED
  BY <1>5, <1>6, <1>7, <1>8, <1>9, <1>10 DEF EntryOutcome, result, cs, known, fit, acc

\* One row more.
LEMMA AddRowStep ==
  ASSUME NEW t, NEW i \in Index, NEW ks, NEW rows, NEW reads, NEW ignored, count \in Nat,
         Batch(i, ks, rows), NEW k \in Nat, k + 1 \in DOMAIN ks,
         NEW tree, NEW added, NEW outcome, NEW compared, NEW passed,
         Adding(t, i, ks, rows, reads, ignored, k, tree, added, outcome, compared, passed)
  PROVE  \E tree1, added1, outcome1, compared1, passed1 :
            /\ AddRow(t, i, Account(tree, added, outcome, compared, passed), ks[k + 1], rows[k + 1], reads[k + 1], ignored)
                  = Account(tree1, added1, outcome1, compared1, passed1)
            /\ Adding(t, i, ks, rows, reads, ignored, k + 1, tree1, added1, outcome1, compared1, passed1)
<1> DEFINE acc == Account(tree, added, outcome, compared, passed)
           key == ks[k + 1]
           row == rows[k + 1]
           read == reads[k + 1]
           D == DOMAIN index[i].node
           result == AddRow(t, i, acc, key, row, read, ignored)
<1>1. /\ EntriesAdded(t, i, ks, rows, reads, ignored, tree, added, compared, passed)
      /\ outcome \in {"going", "refused", "died"} /\ Len(added) <= k
      /\ outcome = "going" => Len(added) = k
  BY DEF Adding
<1>2. /\ SearchTree(tree, i) /\ added \in Seq(Nat)
      /\ DOMAIN tree.node = D \cup (Range(added) \ {Null})
      /\ \A n \in D : tree.node[n].key = index[i].node[n].key /\ tree.node[n].row = index[i].node[n].row
      /\ Entered(tree, added, ks, rows)
      /\ compared \subseteq D /\ passed \subseteq compared
  BY <1>1 DEF EntriesAdded
<1>3. Tree(tree) /\ Linked(tree) /\ Placed(tree)
  BY <1>2 DEF SearchTree
<1>4. /\ key \in Key(i) \cup {NoKey} /\ row \in Row
      /\ \A o \in 1..k : key # NoKey /\ ks[o] = key => rows[o] > count
  <2>1. k + 1 \in DOMAIN rows /\ (k + 1) - 1 = k
    BY DEF Batch
  <2> QED
    BY <2>1 DEF Batch
<1>5. /\ acc.error <=> outcome = "refused"
      /\ acc.fault # Alive <=> outcome = "died"
      /\ acc.added = added
  BY DEF Account, Refusal, Alive
<1>6. CASE outcome # "going"
  <2>1. outcome \in {"refused", "died"}
    BY <1>1, <1>6
  <2>2. acc.error \/ acc.fault # Alive
    BY <2>1, <1>5
  <2>3. result = acc
    <3> HIDE DEF acc
    <3> QED
      BY <2>2 DEF AddRow
  <2>4. Adding(t, i, ks, rows, reads, ignored, k + 1, tree, added, outcome, compared, passed)
    BY <1>2, <2>1, AddingStops
  <2> QED
    BY <2>3, <2>4
<1>7. CASE outcome = "going" /\ key = NoKey
  <2>1. ~acc.error /\ acc.fault = Alive
    BY <1>5, <1>7
  <2>2. result = IF AllowNulls[i] THEN [acc EXCEPT !.added = Append(@, Null)]
                 ELSE [acc EXCEPT !.error = TRUE]
    <3> HIDE DEF acc
    <3> QED
      BY <2>1, <1>7 DEF AddRow
  <2> HIDE DEF result
  <2>3. CASE AllowNulls[i]
    <3> DEFINE all == Append(added, Null)
    <3>1. result = [acc EXCEPT !.added = all]
      <4> HIDE DEF acc
      <4> QED
        BY <2>2, <2>3, <1>5
    <3> HIDE DEF all
    <3>2. result = Account(tree, all, "going", compared, passed)
      BY <3>1, <1>7 DEF Account
    <3>3. Adding(t, i, ks, rows, reads, ignored, k + 1, tree, all, "going", compared, passed)
      BY <1>7, AddingSkips DEF all
    <3> QED
      BY <3>2, <3>3 DEF result
  <2>4. CASE ~AllowNulls[i]
    <3>0. Refusal("refused") = TRUE
      BY DEF Refusal
    <3>1. result = [acc EXCEPT !.error = Refusal("refused")]
      <4> HIDE DEF acc
      <4> QED
        BY <3>0, <2>2, <2>4
    <3>2. result = Account(tree, added, "refused", compared, passed)
      BY <3>1, <1>7 DEF Account
    <3>3. Adding(t, i, ks, rows, reads, ignored, k + 1, tree, added, "refused", compared, passed)
      BY <1>2, AddingStops
    <3> QED
      BY <3>2, <3>3 DEF result
  <2> QED
    BY <2>3, <2>4
<1>8. CASE outcome = "going" /\ key # NoKey
  <2> DEFINE cs == Compared(t, i, tree, key, read, ignored)
             known == {n \in cs : tree.node[n].row <= count}
             fit == {n \in known : ~Conflicts(t, i, key, read[tree.node[n].row], tree.node[n].row, ignored)}
             compared1 == compared \cup known
             passed1 == passed \cup fit
  <2>0. ~acc.error /\ acc.fault = Alive
    BY <1>5, <1>8
  <2>1. result = AddEntry(t, i, acc, key, row, read, ignored)
    <3> HIDE DEF acc
    <3> QED
      BY <2>0, <1>8 DEF AddRow
  <2>2. /\ cs # known => result = Account(tree, added, "died", compared1, passed1)
        /\ cs = known /\ known # fit => result = Account(tree, added, "refused", compared1, passed1)
        /\ cs = known /\ known = fit =>
              result = Account(Attach(tree, key, row), Append(added, FreshNode(tree)), "going",
                               compared1, passed1)
    <3>1. result = AddEntry(t, i, Account(tree, added, "going", compared, passed), key, row, read, ignored)
      BY <2>1, <1>8
    <3> HIDE DEF result, key, row, read, acc
    <3>2. EntryOutcome(t, i, tree, added, compared, passed, key, row, read, ignored)
      BY AddEntryAccount
    <3> QED
      BY <3>1, <3>2 DEF EntryOutcome
  <2>3. /\ cs \subseteq {n \in DOMAIN tree.node : tree.node[n].key = key}
        /\ (\A n \in cs : tree.node[n].row <= count /\ ~Conflicts(t, i, key, read[tree.node[n].row], tree.node[n].row, ignored)) =>
              \A n \in DOMAIN tree.node : tree.node[n].key = key => n \in cs
    BY <1>3, ComparedFacts
  <2>4. \A o \in 1..k : /\ Len(added) = k /\ added[o] # Null => ks[o] # NoKey
                        /\ ks[o] # NoKey => /\ added[o] \in DOMAIN tree.node
                                            /\ tree.node[added[o]].key = ks[o]
                                            /\ tree.node[added[o]].row = rows[o]
    <3>1. DOMAIN added = 1..k
      BY <1>1, <1>2, <1>8
    <3> QED
      BY <3>1, <1>2 DEF Entered
  <2>5. \A n \in DOMAIN tree.node : tree.node[n].row \in Nat
    <3> SUFFICES ASSUME NEW n \in DOMAIN tree.node
                 PROVE  tree.node[n].row \in Nat
      OBVIOUS
    <3>1. tree.node[n].row \in Row
      BY <1>3, NodeFields
    <3> QED
      BY <3>1 DEF Row
  <2>6. \A o \in 1..k : ks[o] = key => added[o] \in DOMAIN tree.node /\ ~(tree.node[added[o]].row <= count)
    <3> SUFFICES ASSUME NEW o \in 1..k, ks[o] = key
                 PROVE  added[o] \in DOMAIN tree.node /\ ~(tree.node[added[o]].row <= count)
      OBVIOUS
    <3>1. added[o] \in DOMAIN tree.node /\ tree.node[added[o]].row = rows[o] /\ rows[o] > count
      BY <2>4, <1>4, <1>8
    <3>2. tree.node[added[o]].row \in Nat
      BY <3>1, <2>5
    <3> QED
      BY <3>1, <3>2
  <2> HIDE DEF cs, acc, result
  <2>7. known \subseteq D
    <3> SUFFICES ASSUME NEW n \in known, n \notin D
                 PROVE  FALSE
      OBVIOUS
    <3>1. n \in DOMAIN tree.node /\ tree.node[n].key = key /\ tree.node[n].row <= count
      BY <2>3
    <3>2. n \in Range(added) /\ n # Null
      BY <3>1, <1>2
    <3>3. PICK o \in 1..k : n = added[o]
      <4>1. DOMAIN added = 1..k
        BY <1>1, <1>2, <1>8
      <4> QED
        BY <3>2, <4>1 DEF Range
    <3>4. ks[o] = key
      BY <3>1, <3>2, <3>3, <2>4, <1>1, <1>8
    <3> QED
      BY <3>1, <3>3, <3>4, <2>6
  <2>8. compared \subseteq compared1 /\ compared1 \subseteq D /\ passed1 \subseteq compared1
    BY <2>7, <1>2
  <2> HIDE DEF known, fit, compared1, passed1
  <2>9. CASE cs # known
    <3>1. Adding(t, i, ks, rows, reads, ignored, k + 1, tree, added, "died", compared1, passed1)
      BY <2>8, AddingStops
    <3> QED
      BY <2>2, <2>9, <3>1 DEF result, acc
  <2>10. CASE cs = known /\ known # fit
    <3>1. Adding(t, i, ks, rows, reads, ignored, k + 1, tree, added, "refused", compared1, passed1)
      BY <2>8, AddingStops
    <3> QED
      BY <2>2, <2>10, <3>1 DEF result, acc
  <2>11. CASE cs = known /\ known = fit
    <3>1. \A n \in cs : tree.node[n].row <= count /\ ~Conflicts(t, i, key, read[tree.node[n].row], tree.node[n].row, ignored)
      BY <2>11 DEF known, fit
    <3>2. \A n \in DOMAIN tree.node : tree.node[n].key = key => n \in cs
      BY <3>1, <2>3
    <3>3. \A n \in D : index[i].node[n].key = key => n \in compared1 /\ Fits(t, i, key, n, read, ignored)
      <4> SUFFICES ASSUME NEW n \in D, index[i].node[n].key = key
                   PROVE  n \in compared1 /\ Fits(t, i, key, n, read, ignored)
        OBVIOUS
      <4>1. n \in cs /\ tree.node[n].row = index[i].node[n].row
        BY <3>2, <1>2
      <4>2. n \in compared1
        BY <4>1, <2>11 DEF compared1
      <4> QED
        BY <4>1, <4>2, <3>1 DEF Fits
    <3>4. \A o \in 1..k : ks[o] # key
      BY <2>6, <3>1, <3>2, <2>4, <1>8
    <3>5. key \in Key(i)
      BY <1>4, <1>8
    <3>6. Adding(t, i, ks, rows, reads, ignored, k + 1, Attach(tree, key, row), Append(added, FreshNode(tree)),
                 "going", compared1, passed1)
      <4>1. Adding(t, i, ks, rows, reads, ignored, k, tree, added, "going", compared, passed)
        BY <1>8
      <4>2. ks[k + 1] \in Key(i) /\ rows[k + 1] \in Row
        BY <1>4, <3>5
      <4> HIDE DEF D
      <4> QED
        BY <4>1, <4>2, <2>8, <3>3, <3>4, AddingAttaches DEF D
    <3> QED
      BY <2>2, <2>11, <3>6 DEF result, acc
  <2> QED
    BY <2>9, <2>10, <2>11
<1> QED
  BY <1>1, <1>6, <1>7, <1>8

\* AddEntries comes to one of its outcomes; refused, the index is what it was.
AddResult(t, i, ks, rows, reads, ignored, tree, added, outcome, compared, passed) ==
    /\ Adding(t, i, ks, rows, reads, ignored, Len(ks), tree, added, outcome, compared, passed)
    /\ AddEntries(t, i, ks, rows, reads, ignored) =
          Account(IF outcome = "refused" THEN index[i] ELSE tree, added, outcome, compared, passed)

LEMMA AddEntriesOutcome ==
  ASSUME NEW t, NEW i \in Index, NEW ks, NEW rows, NEW reads, NEW ignored,
         SearchTree(index[i], i), count \in Nat, Batch(i, ks, rows)
  PROVE  \E tree, added, outcome, compared, passed :
            AddResult(t, i, ks, rows, reads, ignored, tree, added, outcome, compared, passed)
<1> DEFINE N == Len(ks)
           Good(k, acc) == \E tree, added, outcome, compared, passed :
               /\ acc = Account(tree, added, outcome, compared, passed)
               /\ Adding(t, i, ks, rows, reads, ignored, k, tree, added, outcome, compared, passed)
<1>1. N \in Nat /\ DOMAIN ks = 1..N
  BY DEF Batch
<1>2. PICK g : /\ AddEntries(t, i, ks, rows, reads, ignored) = TakeBack(g[N])
               /\ g[0] = Start(index[i])
               /\ \A k \in 1..N : g[k] = AddRow(t, i, g[k - 1], ks[k], rows[k], reads[k], ignored)
  <2>1. \E g : AdditionSteps(g, t, i, ks, rows, reads, ignored)
    BY <1>1, AddEntriesUnfolds
  <2> QED
    BY <2>1 DEF AdditionSteps
<1> HIDE DEF N
<1>3. Good(0, g[0])
  BY <1>2, AddingStart
<1>4. ASSUME NEW k \in 0..N - 1, Good(k, g[k])
      PROVE  Good(k + 1, g[k + 1])
  <2>1. PICK tree, added, outcome, compared, passed :
           /\ g[k] = Account(tree, added, outcome, compared, passed)
           /\ Adding(t, i, ks, rows, reads, ignored, k, tree, added, outcome, compared, passed)
    BY <1>4
  <2>2. k \in Nat /\ k + 1 \in 1..N /\ (k + 1) - 1 = k /\ k + 1 \in DOMAIN ks
    BY <1>1
  <2>3. g[k + 1] = AddRow(t, i, g[k], ks[k + 1], rows[k + 1], reads[k + 1], ignored)
    BY <1>2, <2>2
  <2>4. \E tree1, added1, outcome1, compared1, passed1 :
            /\ AddRow(t, i, Account(tree, added, outcome, compared, passed), ks[k + 1], rows[k + 1], reads[k + 1], ignored)
                  = Account(tree1, added1, outcome1, compared1, passed1)
            /\ Adding(t, i, ks, rows, reads, ignored, k + 1, tree1, added1, outcome1, compared1, passed1)
    BY <2>1, <2>2, AddRowStep
  <2> QED
    BY <2>1, <2>3, <2>4
<1> HIDE DEF Good
<1>5. Good(N, g[N])
  <2> DEFINE B == {k \in 0..N : ~Good(k, g[k])}
  <2>1. CASE B # {}
    <3>0. B \in SUBSET Nat
      BY <1>1
    <3>1. PICK k \in B : \A m \in B : k <= m
      <4> HIDE DEF B
      <4> QED
        BY <3>0, <2>1, LeastNumber
    <3>2. k # 0 /\ k - 1 \in 0..N - 1 /\ k - 1 \notin B /\ k - 1 \in 0..N /\ (k - 1) + 1 = k
      BY <3>1, <1>1, <1>3
    <3>3. Good(k - 1, g[k - 1])
      BY <3>2
    <3>4. Good((k - 1) + 1, g[(k - 1) + 1])
      BY <3>2, <3>3, <1>4
    <3> QED
      BY <3>1, <3>2, <3>4
  <2>2. CASE B = {}
    BY <2>2, <1>1
  <2> QED
    BY <2>1, <2>2
<1>6. PICK tree, added, outcome, compared, passed :
         /\ g[N] = Account(tree, added, outcome, compared, passed)
         /\ Adding(t, i, ks, rows, reads, ignored, N, tree, added, outcome, compared, passed)
  BY <1>5 DEF Good
<1>7. TakeBack(g[N]) =
         Account(IF outcome = "refused" THEN index[i] ELSE tree, added, outcome, compared, passed)
  <2> DEFINE acc == g[N]
             tested == TRUE
             removed == RemoveAll(acc.tree, acc.added, tested)
             base == index[i]
  <2>1. /\ acc.tree = tree /\ acc.added = added
        /\ acc.error <=> outcome = "refused"
    BY <1>6, AccountFields
  <2>2. RemoveAll(tree, added, tested) = [tree |-> base, fault |-> Alive]
    BY <1>6 DEF Adding, EntriesAdded
  <2>3. TakeBack(acc) = IF acc.error THEN [acc EXCEPT !.tree = removed.tree, !.fault = removed.fault] ELSE acc
    BY DEF TakeBack
  <2> HIDE DEF tested, base, acc
  <2>4. removed.tree = base /\ removed.fault = Alive
    <3>1. removed = [tree |-> base, fault |-> Alive]
      BY <2>1, <2>2
    <3> HIDE DEF removed
    <3> QED
      BY <3>1
  <2> HIDE DEF removed
  <2>5. CASE outcome = "refused"
    <3> DEFINE restored == [acc EXCEPT !.tree = base, !.fault = Alive]
    <3>1. TakeBack(acc) = restored
      BY <2>1, <2>3, <2>4, <2>5
    <3>2. acc = [tree |-> tree, added |-> added, error |-> Refusal("refused"), fault |-> Alive,
                 compared |-> compared, passed |-> passed]
      BY <1>6, <2>5 DEF Account, acc
    <3>0. restored = [acc EXCEPT !.tree = base, !.fault = Alive]
      OBVIOUS
    <3> HIDE DEF restored
    <3>3. restored = [tree |-> base, added |-> added, error |-> Refusal("refused"), fault |-> Alive,
                      compared |-> compared, passed |-> passed]
      BY <3>0, <3>2
    <3>4. TakeBack(acc) = Account(base, added, "refused", compared, passed)
      BY <3>1, <3>3 DEF Account
    <3> QED
      BY <2>5, <3>4 DEF acc, base
  <2>6. CASE outcome # "refused"
    <3>1. TakeBack(acc) = acc
      BY <2>1, <2>3, <2>6
    <3> QED
      BY <1>6, <2>6, <3>1 DEF acc
  <2> QED
    BY <2>5, <2>6
<1>8. AddResult(t, i, ks, rows, reads, ignored, tree, added, outcome, compared, passed)
  BY <1>2, <1>6, <1>7 DEF AddResult, N
<1> QED
  BY <1>8

-----------------------------------------------------------------------------
(* The table at the start. *)

\* The index of the first k rows: an entry for each row with a key, and no other.
LoadedIndex(i, tree, k) ==
    /\ SearchTree(tree, i)
    /\ \A n \in DOMAIN tree.node : tree.node[n].row <= k
    /\ \A r \in 1..k : KeyOf(i, Loaded[r]) # NoKey =>
          \E n \in DOMAIN tree.node : tree.node[n].row = r /\ tree.node[n].key = KeyOf(i, Loaded[r])

LEMMA LoadedFacts ==
  /\ Len(Loaded) \in Nat /\ Len(Loaded) <= MaxRows /\ MaxRows \in Nat \ {0}
  /\ \A r \in 1..Len(Loaded) : Loaded[r] \in Values
BY LoadedAssumption, SizeAssumption DEF Values

LEMMA EmptyTreeIsSearchTree ==
  ASSUME NEW i \in Index
  PROVE  SearchTree(EmptyTree, i)
<1>1. EmptyTree = [root |-> Null, node |-> << >>] /\ DOMAIN << >> = {}
  BY DEF EmptyTree
<1>2. EmptyTree.root = Null /\ EmptyTree.node = << >> /\ DOMAIN EmptyTree.node = {}
  BY <1>1
<1>3. EmptyTree.node \in [DOMAIN EmptyTree.node -> NodeType]
  BY <1>2
<1>4. IsFiniteSet(DOMAIN EmptyTree.node)
  BY <1>2, FS_EmptySet
<1> QED
  BY <1>1, <1>2, <1>3, <1>4 DEF SearchTree, Tree, Linked, Placed, Keyed

LEMMA LoadedIndexNext ==
  ASSUME NEW i \in Index, NEW k \in 0..Len(Loaded) - 1, NEW tree, LoadedIndex(i, tree, k)
  PROVE  LoadedIndex(i, Loading(i, tree, k + 1), k + 1)
<1> DEFINE key == KeyOf(i, Loaded[k + 1])
           next == Loading(i, tree, k + 1)
<1>1. k \in Nat /\ k + 1 \in 1..Len(Loaded) /\ k + 1 \in Row /\ Loaded[k + 1] \in Values
  BY LoadedFacts DEF Row
<1>2. key \in Key(i) \cup {NoKey}
  BY <1>1, KeyOfType
<1>3. SearchTree(tree, i) /\ Tree(tree) /\ Linked(tree)
  BY DEF LoadedIndex, SearchTree
<1>4. \A n \in DOMAIN tree.node : tree.node[n].row <= k /\ tree.node[n].row \in Nat
  <2> SUFFICES ASSUME NEW n \in DOMAIN tree.node
               PROVE  tree.node[n].row <= k /\ tree.node[n].row \in Nat
    OBVIOUS
  <2>1. tree.node[n].row \in Row
    BY <1>3, NodeFields
  <2> QED
    BY <2>1 DEF LoadedIndex, Row
<1>5. CASE key = NoKey
  <2>1. next = tree
    BY <1>5 DEF Loading
  <2> HIDE DEF next
  <2>2. \A n \in DOMAIN tree.node : tree.node[n].row <= k + 1
    BY <1>1, <1>4
  <2>3. \A r \in 1..k + 1 : r # k + 1 => r \in 1..k
    BY <1>1
  <2> QED
    BY <1>3, <1>5, <2>1, <2>2, <2>3 DEF LoadedIndex, next
<1>6. CASE key # NoKey
  <2>1. next = Attach(tree, key, k + 1)
    BY <1>6 DEF Loading
  <2>2. key \in Key(i) /\ key \in Seq(Nat)
    BY <1>2, <1>6, KeyIsSeq
  <2> HIDE DEF next, key
  <2>3. SearchTree(next, i)
    BY <1>1, <1>3, <2>1, <2>2, AttachSearchTree
  <2>4. /\ DOMAIN next.node = DOMAIN tree.node \cup {FreshNode(tree)}
        /\ \A n \in DOMAIN tree.node : /\ next.node[n].key = tree.node[n].key
                                       /\ next.node[n].row = tree.node[n].row
        /\ next.node[FreshNode(tree)].key = key /\ next.node[FreshNode(tree)].row = k + 1
    BY <1>1, <1>3, <2>1, <2>2, AttachKeeps
  <2>5. \A n \in DOMAIN next.node : next.node[n].row <= k + 1
    BY <1>1, <1>4, <2>4
  <2>6. ASSUME NEW r \in 1..k + 1, KeyOf(i, Loaded[r]) # NoKey
        PROVE  \E n \in DOMAIN next.node : next.node[n].row = r /\ next.node[n].key = KeyOf(i, Loaded[r])
    <3>1. CASE r = k + 1
      BY <2>4, <3>1 DEF key
    <3>2. CASE r # k + 1
      <4>1. r \in 1..k
        BY <1>1, <3>2
      <4>2. PICK n \in DOMAIN tree.node : tree.node[n].row = r /\ tree.node[n].key = KeyOf(i, Loaded[r])
        BY <2>6, <4>1 DEF LoadedIndex
      <4> QED
        BY <2>4, <4>2
    <3> QED
      BY <3>1, <3>2
  <2> QED
    BY <2>3, <2>5, <2>6 DEF LoadedIndex, next
<1> QED
  BY <1>5, <1>6

LEMMA LoadedTreeIndex ==
  ASSUME NEW i \in Index
  PROVE  LoadedIndex(i, LoadedTree(i), Len(Loaded))
<1> DEFINE N == Len(Loaded)
<1>1. N \in Nat
  BY LoadedFacts
<1>2. PICK g : LoadingSteps(g, i)
  BY <1>1, LoadedTreeUnfolds
<1>3. /\ LoadedTree(i) = g[N] /\ g[0] = EmptyTree
      /\ \A k \in 1..N : g[k] = Loading(i, g[k - 1], k)
  BY <1>2 DEF LoadingSteps
<1>4. LoadedIndex(i, g[0], 0)
  <2>1. SearchTree(EmptyTree, i)
    BY EmptyTreeIsSearchTree
  <2>2. DOMAIN EmptyTree.node = {} /\ 1..0 = {}
    BY DEF EmptyTree
  <2> QED
    BY <1>3, <2>1, <2>2 DEF LoadedIndex
<1>5. ASSUME NEW k \in 0..N - 1, LoadedIndex(i, g[k], k)
      PROVE  LoadedIndex(i, g[k + 1], k + 1)
  <2>1. k + 1 \in 1..N /\ (k + 1) - 1 = k
    BY <1>1
  <2>2. g[k + 1] = Loading(i, g[k], k + 1)
    BY <1>3, <2>1
  <2> QED
    BY <1>5, <2>2, LoadedIndexNext
<1> HIDE DEF N
<1> DEFINE B == {k \in 0..N : ~LoadedIndex(i, g[k], k)}
<1>6. CASE B # {}
  <2>0. B \in SUBSET Nat
    BY <1>1
  <2>1. PICK k \in B : \A m \in B : k <= m
    <3> HIDE DEF B
    <3> QED
      BY <2>0, <1>6, LeastNumber
  <2>2. k # 0 /\ k - 1 \in 0..N - 1 /\ k - 1 \notin B /\ k - 1 \in 0..N /\ (k - 1) + 1 = k
    BY <2>1, <1>1, <1>4
  <2>3. LoadedIndex(i, g[k - 1], k - 1)
    BY <2>2
  <2>4. LoadedIndex(i, g[(k - 1) + 1], (k - 1) + 1)
    BY <2>2, <2>3, <1>5
  <2> QED
    BY <2>1, <2>2, <2>4
<1>7. CASE B = {}
  BY <1>1, <1>3, <1>7 DEF N
<1> QED
  BY <1>6, <1>7

-----------------------------------------------------------------------------
(* Taking back an INSERT. *)

\* The tree base without the entries of all rows but the first j.
Taken(i, base, es, ks, rows, j, tree) ==
    /\ SearchTree(tree, i)
    /\ DOMAIN tree.node = DOMAIN base.node \ {es[q] : q \in j + 1..Len(es)}
    /\ \A n \in DOMAIN tree.node : /\ tree.node[n].key = base.node[n].key
                                   /\ tree.node[n].row = base.node[n].row
    /\ Entered(tree, [q \in 1..j |-> es[q]], ks, rows)

\* RemoveEntry stops at a null pointer, or at an entry that another statement
\* has attached an entry to.
Stuck(es, tree, reason) ==
    \/ reason = "no_entry"
    \/ /\ reason = "inner_entry"
       /\ \E n \in Range(es) \cap DOMAIN tree.node, m \in DOMAIN tree.node \ Range(es) :
             tree.node[m].parent = n

LEMMA RemoveLastEntry ==
  ASSUME NEW i \in Index, NEW base, NEW es \in Seq(Nat), NEW ks, NEW rows, NEW j \in 1..Len(es),
         NEW tree, Taken(i, base, es, ks, rows, j, tree),
         \A p, q \in DOMAIN es : p # q => rows[p] # rows[q],
         es[j] # Null, Removal(tree, es[j]) = Alive
  PROVE  Taken(i, base, es, ks, rows, j - 1, RemoveEntry(tree, es[j]))
<1> DEFINE node == tree.node
           e == es[j]
           next == RemoveEntry(tree, e)
           now == [q \in 1..j |-> es[q]]
           left == [q \in 1..j - 1 |-> es[q]]
<1>1. Len(es) \in Nat /\ DOMAIN es = 1..Len(es) /\ j \in Nat /\ 1..j \subseteq DOMAIN es /\ j \in DOMAIN es
  OBVIOUS
<1>2. Tree(tree) /\ Linked(tree) /\ SearchTree(tree, i) /\ Null \notin DOMAIN node
  BY SMTT(30) DEF Taken, SearchTree, Tree
<1>3. Entered(tree, now, ks, rows)
  BY DEF Taken
<1>4. \A q \in 1..j :
          IF ks[q] = NoKey THEN es[q] = Null
          ELSE /\ es[q] \in DOMAIN node
               /\ node[es[q]].row = rows[q] /\ node[es[q]].key = ks[q]
               /\ \/ /\ node[es[q]].parent = Null /\ tree.root = es[q]
                     /\ \A k \in 1..q - 1 : es[k] = Null
                  \/ /\ node[es[q]].parent \in DOMAIN node
                     /\ es[q] \in {node[node[es[q]].parent].left, node[node[es[q]].parent].right}
                     /\ \A k \in 1..j : k >= q => node[es[q]].parent # es[k]
               /\ \A m \in {node[es[q]].left, node[es[q]].right} \ {Null} :
                     node[m].parent = es[q]
  <2> SUFFICES ASSUME NEW q \in 1..j, ks[q] # NoKey
               PROVE  /\ es[q] \in DOMAIN node
                      /\ node[es[q]].row = rows[q] /\ node[es[q]].key = ks[q]
                      /\ \/ /\ node[es[q]].parent = Null /\ tree.root = es[q]
                            /\ \A k \in 1..q - 1 : es[k] = Null
                         \/ /\ node[es[q]].parent \in DOMAIN node
                            /\ es[q] \in {node[node[es[q]].parent].left, node[node[es[q]].parent].right}
                            /\ \A k \in 1..j : k >= q => node[es[q]].parent # es[k]
                      /\ \A m \in {node[es[q]].left, node[es[q]].right} \ {Null} :
                            node[m].parent = es[q]
    <3>1. ASSUME NEW q \in 1..j, ks[q] = NoKey PROVE es[q] = Null
      BY <1>3, <3>1 DEF Entered
    <3> QED
      BY <3>1
  <2>1. DOMAIN now = 1..j /\ now[q] = es[q] /\ \A k \in 1..j : now[k] = es[k]
    OBVIOUS
  <2>2. 1..q - 1 \subseteq 1..j
    BY <1>1
  <2> HIDE DEF now
  <2>3. /\ now[q] \in DOMAIN node
        /\ node[now[q]].row = rows[q] /\ node[now[q]].key = ks[q]
        /\ \/ /\ node[now[q]].parent = Null /\ tree.root = now[q]
              /\ \A k \in 1..q - 1 : now[k] = Null
           \/ /\ node[now[q]].parent \in DOMAIN node
              /\ now[q] \in {node[node[now[q]].parent].left, node[node[now[q]].parent].right}
              /\ \A k \in DOMAIN now : k >= q => node[now[q]].parent # now[k]
        /\ \A m \in {node[now[q]].left, node[now[q]].right} \ {Null} :
              node[m].parent = now[q]
    BY <1>3, <2>1 DEF Entered
  <2> QED
    BY <2>1, <2>2, <2>3
<1>5. ks[j] # NoKey /\ e \in DOMAIN node
  BY <1>1, <1>4
<1>6. \A q \in 1..j - 1 : q \in 1..j /\ (ks[q] # NoKey => es[q] # e)
  <2> SUFFICES ASSUME NEW q \in 1..j - 1
               PROVE  q \in 1..j /\ (ks[q] # NoKey => es[q] # e)
    OBVIOUS
  <2>1. q \in 1..j /\ q # j /\ j \in 1..j
    BY <1>1
  <2>2. ks[q] # NoKey => node[es[q]].row = rows[q]
    BY <1>4, <2>1
  <2>3. node[e].row = rows[j]
    BY <1>4, <1>5, <2>1, SMTT(30)
  <2> QED
    BY <1>1, <2>1, <2>2, <2>3
<1>7. /\ SearchTree(next, i)
      /\ DOMAIN next.node = DOMAIN node \ {e}
      /\ \A n \in DOMAIN next.node : next.node[n].key = node[n].key /\ next.node[n].row = node[n].row
  <2>1. \/ node[e].parent = Null /\ tree.root = e
        \/ /\ node[e].parent \in DOMAIN node
           /\ e \in {node[node[e].parent].left, node[node[e].parent].right}
    BY <1>1, <1>4, <1>5
  <2> QED
    BY <1>2, <1>5, <2>1, RemoveEntryTree
<1>8. DOMAIN next.node = DOMAIN base.node \ {es[q] : q \in j..Len(es)}
  <2>1. j..Len(es) = {j} \cup j + 1..Len(es)
    BY <1>1
  <2>2. DOMAIN node = DOMAIN base.node \ {es[q] : q \in j + 1..Len(es)}
    BY DEF Taken
  <2> HIDE DEF next, node
  <2> QED
    BY <1>7, <2>1, <2>2
<1>9. \A n \in DOMAIN next.node : next.node[n].key = base.node[n].key /\ next.node[n].row = base.node[n].row
  BY <1>7 DEF Taken
<1>10. Entered(next, left, ks, rows)
  <2>1. CASE node[e].parent = Null
    <3>1. \A k \in 1..j - 1 : es[k] = Null
      BY <1>1, <1>2, <1>4, <1>5, <2>1
    <3>2. \A k \in 1..j - 1 : ks[k] = NoKey
      BY <1>2, <1>4, <1>6, <3>1
    <3> QED
      BY <3>1, <3>2 DEF Entered
  <2>2. CASE node[e].parent # Null
    <3>1. /\ node[e].parent \in DOMAIN node
          /\ e \in {node[node[e].parent].left, node[node[e].parent].right}
      BY <1>1, <1>4, <1>5, <2>2
    <3>2. next = RemoveLeaf(tree, e)
      BY <2>2 DEF RemoveEntry
    <3>3. node[e].left = Null /\ node[e].right = Null
      <4> HIDE DEF node, e
      <4> QED
        BY <2>2 DEF Removal, Alive, node, e
    <3> HIDE DEF next
    <3>4. /\ next.root = tree.root
          /\ \A n \in DOMAIN next.node :
                /\ next.node[n].key = node[n].key
                /\ next.node[n].row = node[n].row
                /\ next.node[n].parent = node[n].parent
                /\ next.node[n].left = IF node[n].left = e THEN Null ELSE node[n].left
                /\ next.node[n].right = IF node[n].right = e THEN Null ELSE node[n].right
      BY <1>2, <1>5, <3>1, <3>2, <3>3, RemoveLeafFields
    <3>5. ASSUME NEW q \in 1..j - 1, ks[q] # NoKey
          PROVE  /\ es[q] \in DOMAIN next.node
                 /\ next.node[es[q]].row = rows[q] /\ next.node[es[q]].key = ks[q]
                 /\ \/ /\ next.node[es[q]].parent = Null /\ next.root = es[q]
                       /\ \A k \in 1..q - 1 : es[k] = Null
                    \/ /\ next.node[es[q]].parent \in DOMAIN next.node
                       /\ es[q] \in {next.node[next.node[es[q]].parent].left,
                                     next.node[next.node[es[q]].parent].right}
                       /\ \A k \in 1..j - 1 : k >= q => next.node[es[q]].parent # es[k]
                 /\ \A m \in {next.node[es[q]].left, next.node[es[q]].right} \ {Null} :
                       next.node[m].parent = es[q]
      <4> DEFINE x == es[q]
                 p == node[x].parent
      <4>1. q \in 1..j /\ x # e /\ j >= q /\ j \in 1..j /\ 1..j - 1 \subseteq 1..j
        BY <1>1, <1>6, <3>5
      <4>2. /\ x \in DOMAIN node
            /\ node[x].row = rows[q] /\ node[x].key = ks[q]
            /\ \/ /\ p = Null /\ tree.root = x /\ \A k \in 1..q - 1 : es[k] = Null
               \/ /\ p \in DOMAIN node /\ x \in {node[p].left, node[p].right}
                  /\ \A k \in 1..j : k >= q => p # es[k]
            /\ \A m \in {node[x].left, node[x].right} \ {Null} : node[m].parent = x
        BY <1>4, <3>5, <4>1
      <4>3. x \in DOMAIN next.node /\ next.node[x].parent = p /\ x # Null
        BY <1>2, <1>7, <3>4, <4>1, <4>2
      <4>4. node[x].left \in DOMAIN node \cup {Null} /\ node[x].right \in DOMAIN node \cup {Null}
        BY <1>2, <4>2 DEF Linked
      <4>5. \A m \in {next.node[x].left, next.node[x].right} \ {Null} : next.node[m].parent = x
        BY <1>7, <3>4, <4>2, <4>3, <4>4
      <4>6. CASE p = Null
        BY <3>4, <4>1, <4>2, <4>3, <4>5, <1>2, <4>6
      <4>7. CASE p # Null
        <5>1. p \in DOMAIN node /\ x \in {node[p].left, node[p].right}
              /\ \A k \in 1..j : k >= q => p # es[k]
          BY <4>2, <4>7
        <5>2. p \in DOMAIN next.node
          BY <1>7, <4>1, <5>1
        <5>3. x \in {next.node[p].left, next.node[p].right}
          BY <3>4, <4>1, <5>1, <5>2
        <5>4. \A k \in 1..j - 1 : k >= q => p # es[k]
          BY <4>1, <5>1
        <5>5. next.node[x].row = rows[q] /\ next.node[x].key = ks[q]
          BY <3>4, <4>2, <4>3
        <5> HIDE DEF p, x, node
        <5> QED
          BY <4>3, <4>5, <5>2, <5>3, <5>4, <5>5 DEF x
      <4> QED
        BY <4>6, <4>7
    <3>6. \A q \in 1..j - 1 : left[q] = es[q]
      OBVIOUS
    <3>7. DOMAIN left = 1..j - 1
      OBVIOUS
    <3>8. \A q \in 1..j - 1 : 1..q - 1 \subseteq 1..j - 1
      BY <1>1
    <3>9. \A q \in 1..j - 1 : ks[q] = NoKey => es[q] = Null
      BY <1>4, <1>6
    <3> HIDE DEF left, node
    <3> SUFFICES ASSUME NEW q \in 1..j - 1
                 PROVE  IF ks[q] = NoKey THEN left[q] = Null
                        ELSE /\ left[q] \in DOMAIN next.node
                             /\ next.node[left[q]].row = rows[q] /\ next.node[left[q]].key = ks[q]
                             /\ \/ /\ next.node[left[q]].parent = Null /\ next.root = left[q]
                                   /\ \A k \in 1..q - 1 : left[k] = Null
                                \/ /\ next.node[left[q]].parent \in DOMAIN next.node
                                   /\ left[q] \in {next.node[next.node[left[q]].parent].left,
                                                   next.node[next.node[left[q]].parent].right}
                                   /\ \A k \in DOMAIN left : k >= q => next.node[left[q]].parent # left[k]
                             /\ \A m \in {next.node[left[q]].left, next.node[left[q]].right} \ {Null} :
                                   next.node[m].parent = left[q]
      BY <3>7 DEF Entered
    <3>10. CASE ks[q] = NoKey
      BY <3>6, <3>9, <3>10
    <3>11. CASE ks[q] # NoKey
      <4>1. left[q] = es[q]
        BY <3>6
      <4>2. (\A k \in 1..q - 1 : es[k] = Null) => \A k \in 1..q - 1 : left[k] = Null
        BY <3>6, <3>8
      <4>3. ASSUME NEW p, \A k \in 1..j - 1 : k >= q => p # es[k]
            PROVE  \A k \in DOMAIN left : k >= q => p # left[k]
        BY <3>6, <3>7, <4>3
      <4> DEFINE x == left[q]
                 p == next.node[x].parent
      <4>4. /\ x \in DOMAIN next.node
            /\ next.node[x].row = rows[q] /\ next.node[x].key = ks[q]
            /\ \A m \in {next.node[x].left, next.node[x].right} \ {Null} : next.node[m].parent = x
        BY <3>5, <3>11, <4>1
      <4>5. \/ p = Null /\ next.root = x /\ \A k \in 1..q - 1 : es[k] = Null
            \/ /\ p \in DOMAIN next.node /\ x \in {next.node[p].left, next.node[p].right}
               /\ \A k \in 1..j - 1 : k >= q => p # es[k]
        BY <3>5, <3>11, <4>1
      <4> HIDE DEF x, p
      <4>6. \/ p = Null /\ next.root = x /\ \A k \in 1..q - 1 : left[k] = Null
            \/ /\ p \in DOMAIN next.node /\ x \in {next.node[p].left, next.node[p].right}
               /\ \A k \in DOMAIN left : k >= q => p # left[k]
        <5>1. CASE \A k \in 1..j - 1 : k >= q => p # es[k]
          BY <4>2, <4>3, <4>5, <5>1
        <5>2. CASE ~ \A k \in 1..j - 1 : k >= q => p # es[k]
          BY <4>2, <4>5, <5>2
        <5> QED
          BY <5>1, <5>2
      <4> QED
        BY <3>11, <4>4, <4>6 DEF x, p
    <3> QED
      BY <3>10, <3>11
  <2> QED
    BY <2>1, <2>2
<1>11. (j - 1) + 1 = j
  BY <1>1
<1> QED
  BY <1>7, <1>8, <1>9, <1>10, <1>11 DEF Taken

\* Where the last entry cannot be removed.
LEMMA RemovalStuck ==
  ASSUME NEW i \in Index, NEW base, NEW es \in Seq(Nat), NEW ks, NEW rows, NEW j \in 1..Len(es),
         NEW tree, Taken(i, base, es, ks, rows, j, tree), Removal(tree, es[j]) # Alive
  PROVE  Stuck(es, tree, Removal(tree, es[j]))
<1> DEFINE node == tree.node
           e == es[j]
           now == [q \in 1..j |-> es[q]]
<1>1. Len(es) \in Nat /\ DOMAIN es = 1..Len(es) /\ j \in Nat /\ 1..j \subseteq DOMAIN es /\ j \in 1..j
      /\ j \in DOMAIN es
  OBVIOUS
<1>2. Tree(tree) /\ Linked(tree) /\ Null \notin DOMAIN node /\ Freed \notin DOMAIN node
  <2>1. Tree(tree) /\ Linked(tree)
    BY DEF Taken, SearchTree
  <2> QED
    BY <2>1 DEF Tree, Freed
<1>3. ASSUME NEW q \in 1..j, ks[q] # NoKey
      PROVE  /\ es[q] \in DOMAIN node
             /\ \/ /\ node[es[q]].parent = Null /\ tree.root = es[q]
                \/ /\ node[es[q]].parent \in DOMAIN node
                   /\ es[q] \in {node[node[es[q]].parent].left, node[node[es[q]].parent].right}
                   /\ node[es[q]].parent # e
             /\ \A m \in {node[es[q]].left, node[es[q]].right} \ {Null} : node[m].parent = es[q]
  <2>1. DOMAIN now = 1..j /\ now[q] = es[q] /\ now[j] = es[j] /\ j >= q /\ j \in DOMAIN now
    BY <1>1
  <2>2. Entered(tree, now, ks, rows)
    BY DEF Taken
  <2> HIDE DEF now
  <2> QED
    BY <1>3, <2>1, <2>2 DEF Entered
<1>4. \A q \in 1..j : ks[q] = NoKey => es[q] = Null
  <2>1. DOMAIN now = 1..j /\ \A q \in 1..j : now[q] = es[q]
    OBVIOUS
  <2>2. Entered(tree, now, ks, rows)
    BY DEF Taken
  <2> HIDE DEF now
  <2> QED
    BY <2>1, <2>2 DEF Entered
<1>5. CASE e = Null
  BY <1>5 DEF Removal, Stuck
<1>6. CASE e # Null
  <2>1. ks[j] # NoKey
    BY <1>1, <1>4, <1>6
  <2>2. /\ e \in DOMAIN node
        /\ \/ node[e].parent = Null
           \/ /\ node[e].parent \in DOMAIN node
              /\ e \in {node[node[e].parent].left, node[node[e].parent].right}
        /\ \A m \in {node[e].left, node[e].right} \ {Null} : node[m].parent = e
    BY <1>1, <1>3, <2>1
  <2>3. node[e].parent # Null /\ node[e].parent # Freed
    BY <1>2, <1>6, <2>2 DEF Removal
  <2>4. node[e].left # Null \/ node[e].right # Null
    BY <1>6, <2>2, <2>3 DEF Removal
  <2>5. Removal(tree, e) = "inner_entry"
    <3> HIDE DEF e
    <3> QED
      BY <1>6, <2>3, <2>4 DEF Removal
  <2>6. PICK m \in {node[e].left, node[e].right} : m # Null
    BY <2>4
  <2>7. m \in DOMAIN node /\ node[m].parent = e
    BY <2>2, <2>6, <1>2 DEF Linked
  <2>8. m \notin Range(es)
    <3> SUFFICES ASSUME NEW q \in DOMAIN es, m = es[q]
                 PROVE  FALSE
      BY DEF Range
    <3>1. DOMAIN node = DOMAIN base.node \ {es[k] : k \in j + 1..Len(es)}
      BY DEF Taken
    <3>2. q \in 1..j
      <4>1. q \notin j + 1..Len(es)
        BY <2>7, <3>1
      <4> QED
        BY <1>1, <4>1
    <3>3. ks[q] # NoKey
      BY <1>4, <2>6, <3>2
    <3> QED
      BY <1>3, <1>6, <2>7, <3>2, <3>3
  <2>9. e \in Range(es)
    BY <1>1 DEF Range
  <2> HIDE DEF e
  <2> QED
    BY <2>2, <2>5, <2>7, <2>8, <2>9 DEF Stuck, e
<1> QED
  BY <1>5, <1>6

\* What the loop over the entries comes to.
Reverting(i, base, es, ks, rows, j, tree, reason) ==
    /\ \E k \in j..Len(es) : Taken(i, base, es, ks, rows, k, tree)
    /\ reason = Alive => Taken(i, base, es, ks, rows, j, tree)
    /\ reason # Alive => Stuck(es, tree, reason)

LEMMA RevertingNext ==
  ASSUME NEW i \in Index, NEW base, NEW es \in Seq(Nat), NEW ks, NEW rows, NEW j \in 1..Len(es),
         NEW done, Reverting(i, base, es, ks, rows, j, done.tree, done.fault),
         \A p, q \in DOMAIN es : p # q => rows[p] # rows[q]
  PROVE  LET next == Removed(done, es[j], FALSE)
         IN Reverting(i, base, es, ks, rows, j - 1, next.tree, next.fault)
<1> DEFINE e == es[j]
           tested == FALSE
           next == Removed(done, e, tested)
           tree == done.tree
<1>0. next = CASE done.fault # Alive \/ (e = Null /\ tested) -> done
               [] done.fault = Alive /\ ~(e = Null /\ tested) /\ Removal(done.tree, e) # Alive ->
                     [tree |-> done.tree, fault |-> Removal(done.tree, e)]
               [] OTHER -> [tree |-> RemoveEntry(done.tree, e), fault |-> Alive]
  BY DEF Removed
<1>1. next = IF done.fault # Alive THEN done
             ELSE IF Removal(tree, e) # Alive THEN [tree |-> tree, fault |-> Removal(tree, e)]
             ELSE [tree |-> RemoveEntry(tree, e), fault |-> Alive]
  <2> HIDE DEF next
  <2> QED
    BY <1>0
<1>2. j \in Nat /\ Len(es) \in Nat /\ j..Len(es) \subseteq j - 1..Len(es) /\ j - 1 \in j - 1..Len(es)
      /\ j \in j..Len(es)
  OBVIOUS
<1>3. CASE done.fault # Alive
  <2>1. next = done
    BY <1>1, <1>3
  <2> HIDE DEF next
  <2>2. next.tree = tree /\ next.fault = done.fault
    BY <2>1
  <2> HIDE DEF tree
  <2> QED
    BY <1>2, <1>3, <2>2 DEF Reverting, next, tree
<1>4. CASE done.fault = Alive
  <2>1. Taken(i, base, es, ks, rows, j, tree)
    BY <1>4 DEF Reverting
  <2>2. CASE Removal(tree, e) # Alive
    <3>1. next = [tree |-> tree, fault |-> Removal(tree, e)]
      BY <1>1, <1>4, <2>2
    <3>2. next.tree = tree /\ next.fault = Removal(tree, e)
      <4> HIDE DEF next
      <4> QED
        BY <3>1
    <3>3. Stuck(es, tree, Removal(tree, e))
      BY <2>1, <2>2, RemovalStuck
    <3> HIDE DEF next, tree, e
    <3> QED
      BY <1>2, <2>1, <2>2, <3>2, <3>3 DEF Reverting, next, e
  <2>3. CASE Removal(tree, e) = Alive
    <3>0. e # Null
      BY <2>3 DEF Removal, Alive
    <3>1. next = [tree |-> RemoveEntry(tree, e), fault |-> Alive]
      BY <1>1, <1>4, <2>3
    <3>2. next.tree = RemoveEntry(tree, e) /\ next.fault = Alive
      <4> HIDE DEF next
      <4> QED
        BY <3>1
    <3>3. Taken(i, base, es, ks, rows, j - 1, RemoveEntry(tree, e))
      BY <2>1, <2>3, <3>0, RemoveLastEntry
    <3> HIDE DEF next, tree, e
    <3> QED
      BY <1>2, <3>2, <3>3 DEF Reverting, next, e
  <2> QED
    BY <2>2, <2>3
<1> QED
  BY <1>3, <1>4

LEMMA RevertOutcome ==
  ASSUME NEW i \in Index, SearchTree(index[i], i), NEW es \in Seq(Nat), NEW ks, NEW rows,
         Entered(index[i], es, ks, rows),
         \A p, q \in DOMAIN es : p # q => rows[p] # rows[q]
  PROVE  LET r == RemoveAll(index[i], es, FALSE)
         IN Reverting(i, index[i], es, ks, rows, 0, r.tree, r.fault)
<1> DEFINE N == Len(es)
           base == index[i]
           tested == FALSE
           Good(k, done) == Reverting(i, base, es, ks, rows, N - k, done.tree, done.fault)
<1>1. N \in Nat /\ DOMAIN es = 1..N
  OBVIOUS
<1>2. PICK g : RemovalSteps(g, base, es, tested)
  BY <1>1, RemoveAllUnfolds
<1>3. /\ RemoveAll(base, es, tested) = g[N]
      /\ g[0] = [tree |-> base, fault |-> Alive]
      /\ \A k \in 1..N : g[k] = Removed(g[k - 1], es[N + 1 - k], tested)
  BY <1>2 DEF RemovalSteps
<1>4. Good(0, g[0])
  <2>1. g[0].tree = base /\ g[0].fault = Alive
    BY <1>3
  <2>2. [q \in 1..N |-> es[q]] = es
    BY <1>1
  <2>3. {es[q] : q \in N + 1..N} = {}
    BY <1>1
  <2>4. Taken(i, base, es, ks, rows, N, base)
    BY <2>2, <2>3 DEF Taken
  <2>5. N - 0 = N /\ N \in N..N
    BY <1>1
  <2> HIDE DEF N, base
  <2> QED
    BY <2>1, <2>4, <2>5 DEF Reverting, N
<1>5. ASSUME NEW k \in 0..N - 1, Good(k, g[k])
      PROVE  Good(k + 1, g[k + 1])
  <2> DEFINE j == N - k
  <2>1. k + 1 \in 1..N /\ (k + 1) - 1 = k /\ N + 1 - (k + 1) = j /\ j \in 1..N /\ N - (k + 1) = j - 1
    <3> HIDE DEF N
    <3> QED
      BY <1>1
  <2>2. g[k + 1] = Removed(g[k], es[j], tested)
    BY <1>3, <2>1
  <2>3. Reverting(i, base, es, ks, rows, j, g[k].tree, g[k].fault)
    BY <1>5
  <2> HIDE DEF j, base
  <2>4. Reverting(i, base, es, ks, rows, j - 1, Removed(g[k], es[j], tested).tree,
                  Removed(g[k], es[j], tested).fault)
    BY <2>1, <2>3, RevertingNext
  <2> HIDE DEF tested
  <2> QED
    BY <2>1, <2>2, <2>4
<1> HIDE DEF N, base, tested, Good
<1>6. Good(N, g[N])
  <2> DEFINE B == {k \in 0..N : ~Good(k, g[k])}
  <2>1. CASE B # {}
    <3>0. B \in SUBSET Nat
      BY <1>1
    <3>1. PICK k \in B : \A m \in B : k <= m
      <4> HIDE DEF B
      <4> QED
        BY <3>0, <2>1, LeastNumber
    <3>2. k # 0 /\ k - 1 \in 0..N - 1 /\ k - 1 \notin B /\ k - 1 \in 0..N /\ (k - 1) + 1 = k
      BY <3>1, <1>1, <1>4
    <3>3. Good(k - 1, g[k - 1])
      BY <3>2
    <3>4. Good((k - 1) + 1, g[(k - 1) + 1])
      BY <3>2, <3>3, <1>5
    <3> QED
      BY <3>1, <3>2, <3>4
  <2>2. CASE B = {}
    BY <2>2, <1>1
  <2> QED
    BY <2>1, <2>2
<1>7. N - N = 0
  BY <1>1
<1>8. Reverting(i, base, es, ks, rows, 0, RemoveAll(base, es, tested).tree, RemoveAll(base, es, tested).fault)
  BY <1>3, <1>6, <1>7 DEF Good
<1> QED
  BY <1>8 DEF base, tested

-----------------------------------------------------------------------------
(* Steps that leave the rows and the indexes alone. *)

LEMMA ChainFacts ==
  ASSUME TypeInv, NEW r \in Row
  PROVE  /\ chain[r] \in Seq(Version) /\ Len(chain[r]) \in Nat /\ DOMAIN chain[r] = 1..Len(chain[r])
         /\ chain[r] # << >> => 1 \in DOMAIN chain[r]
         /\ \A k \in DOMAIN chain[r] : chain[r][k] \in Version /\ chain[r][k].by \in Tx
                                       /\ chain[r][k].saved \in Values
<1>1. chain[r] \in Seq(Version)
  BY DEF TypeInv
<1>2. \A v \in Version : v.by \in Tx /\ v.saved \in Values
  BY DEF Version
<1> HIDE DEF Version
<1>3. Len(chain[r]) \in Nat /\ DOMAIN chain[r] = 1..Len(chain[r])
      /\ \A k \in DOMAIN chain[r] : chain[r][k] \in Version
  BY <1>1
<1>4. chain[r] # << >> => 1 \in DOMAIN chain[r]
  BY <1>1
<1> QED
  BY <1>1, <1>2, <1>3, <1>4

LEMMA StatementKept ==
  ASSUME NEW u \in Tx, StatementOK(u), count' = count,
         phase'[u] = phase[u], statement'[u] = statement[u],
         current_index'[u] = current_index[u], commit_id'[u] = commit_id[u],
         phase[u] \in {"indexing", "reverting", "writing", "failed"} /\ exclusive_lock[ChunkFor(u)] = u
            => exclusive_lock'[ChunkFor(u)] = u
  PROVE  StatementOK(u)'
<1>1. ChunkFor(u)' = ChunkFor(u)
  BY DEF ChunkFor, tail_chunk
<1>2. (FoundRows(u) => FoundRows(u)') /\ (NewRows(u) => NewRows(u)')
  BY DEF FoundRows, NewRows
<1> QED
  BY <1>1, <1>2 DEF StatementOK

LEMMA QuietKeeps ==
  ASSUME IInv, UNCHANGED <<rowState, index, fault, history, added_nodes, current_index>>,
         \A u \in Tx : Inserting(u) => Inserting(u)' /\ statement'[u] = statement[u],
         \A u \in Tx : Inserting(u)' => Inserting(u) \/ current_index[u] = 1,
         \A u \in Tx : Updating(u)' =>
                          \/ Updating(u) /\ statement'[u] = statement[u]
                          \/ current_index[u] = 1,
         \A v \in Tx : commit_id[v] # 0 => commit_id'[v] # 0
  PROVE  /\ TreesOK' /\ EntriesOfInserts' /\ VersionsHaveEntries' /\ UpdatesHaveEntries'
         /\ RevertsRemoveLeaves'
<1>0. /\ data' = data /\ deleted' = deleted /\ count' = count /\ chain' = chain /\ index' = index
      /\ fault' = fault /\ dirty' = dirty /\ added_nodes' = added_nodes /\ current_index' = current_index
  BY DEF rowState, history
<1>1. TreesOK' /\ RevertsRemoveLeaves'
  BY <1>0 DEF IInv, TreesOK, RevertsRemoveLeaves
<1>4. VersionsHaveEntries'
  BY <1>0 DEF IInv, VersionsHaveEntries, HasEntry, ValuesOf
<1>5. \A i \in Index : i >= 1 /\ i \in Nat
  BY IndexFacts
<1>6. EntriesOfInserts'
  <2> SUFFICES ASSUME fault = Alive
               PROVE  EntriesOfInserts'
    BY <1>0 DEF EntriesOfInserts
  <2>1. ASSUME NEW u \in Tx, Inserting(u)', NEW i \in Index, i < current_index[u]
        PROVE  /\ DOMAIN added_nodes[u][i] = DOMAIN statement'[u].keys
               /\ Entered(index[i], added_nodes[u][i], NewKeys(u, i)', statement'[u].rows)
    <3>1. Inserting(u) /\ statement'[u] = statement[u]
      BY <1>5, <2>1
    <3>2. NewKeys(u, i)' = NewKeys(u, i)
      BY <3>1 DEF NewKeys
    <3> QED
      BY <2>1, <3>1, <3>2 DEF IInv, EntriesOfInserts
  <2>2. ASSUME NEW i \in Index, NEW n \in DOMAIN index[i].node, index[i].node[n].row > count
        PROVE  \E u \in Tx : Inserting(u)' /\ i < current_index[u] /\ n \in Range(added_nodes[u][i])
    BY <2>2 DEF IInv, EntriesOfInserts
  <2> QED
    BY <1>0, <2>1, <2>2 DEF EntriesOfInserts
<1>7. UpdatesHaveEntries'
  <2> SUFFICES ASSUME fault = Alive, NEW u \in Tx, Updating(u)',
                      NEW i \in Index, i < current_index[u], Affected(u, i)',
                      NEW j \in DOMAIN statement'[u].rows, statement'[u].rows[j] \notin dirty
               PROVE  /\ HasEntry(i, statement[u].rows[j], Written(u, j))'
                      /\ ~InConflict(u, statement[u].rows[j])'
    BY <1>0 DEF UpdatesHaveEntries, UpdateEntered
  <2>1. Updating(u) /\ statement'[u] = statement[u]
    BY <1>5
  <2>2. Affected(u, i) /\ Written(u, j)' = Written(u, j)
    BY <1>0, <2>1 DEF Affected, Written, Filled
  <2>3. HasEntry(i, statement[u].rows[j], Written(u, j)) /\ ~InConflict(u, statement[u].rows[j])
    BY <2>1, <2>2 DEF IInv, UpdatesHaveEntries, UpdateEntered
  <2>4. ~InConflict(u, statement[u].rows[j])'
    <3> DEFINE r == statement[u].rows[j]
    <3>1. TypeInv
      BY DEF IInv
    <3>2. r \in Row
      <4>1. statement[u].rows \in Seq(Row)
        BY <3>1 DEF TypeInv, Statement
      <4> QED
        BY <2>1, <4>1
    <3>3. chain[r] # << >> => chain[r][1].by \in Tx
      BY <3>1, <3>2, ChainFacts
    <3> QED
      BY <1>0, <2>1, <2>3, <3>3 DEF InConflict, Uncommitted, Number
  <2> QED
    BY <1>0, <2>1, <2>2, <2>3, <2>4 DEF HasEntry
<1> QED
  BY <1>1, <1>4, <1>6, <1>7

LEMMA BeginKeeps ==
  ASSUME IInv, NEW t \in Tx, Begin(t)
  PROVE  IInv'
<1> USE DEF IInv
<1>1. TypeInv'
  BY DEF Begin, Goto, TypeInv, rowState, locks, history
<1>2. StatementsOK'
  <2> SUFFICES ASSUME NEW u \in Tx
               PROVE  StatementOK(u)'
    BY DEF StatementsOK
  <2>1. CASE u = t
    <3>1. phase'[t] = "ready" /\ phase[t] = "idle" /\ current_index' = current_index /\ commit_id' = commit_id
      BY DEF Begin, Goto, TypeInv
    <3> QED
      BY <2>1, <3>1 DEF StatementsOK, StatementOK
  <2>2. CASE u # t
    BY <2>2, StatementKept DEF StatementsOK, Begin, Goto, TypeInv, rowState, locks
  <2> QED
    BY <2>1, <2>2
<1>3. UNCHANGED <<rowState, index, fault, history, added_nodes, current_index, commit_id, statement>>
  BY DEF Begin
<1>4. \A u \in Tx : (Inserting(u)' <=> Inserting(u)) /\ (Updating(u)' <=> Updating(u))
  BY DEF Begin, Goto, Inserting, Updating, TypeInv
<1> QED
  BY <1>1, <1>2, <1>3, <1>4, QuietKeeps

LEMMA IssueKeeps ==
  ASSUME IInv, NEW t \in Tx, NEW s \in Statement, Issue(t, s),
         s.kind # "none",
         s.kind = "insert" => s.keys \in Seq(Values),
         s.kind \in {"update", "delete"} =>
            /\ s.rows # << >>
            /\ \A j \in DOMAIN s.rows : s.rows[j] <= count /\ ChunkOf(s.rows[j]) = ChunkOf(s.rows[1])
            /\ \A j, k \in DOMAIN s.rows : j # k => s.rows[j] # s.rows[k],
         s.kind = "update" => DOMAIN s.keys = DOMAIN s.rows /\ \A j \in DOMAIN s.keys : s.keys[j] = s.keys[1]
  PROVE  IInv'
<1> USE DEF IInv
<1>1. phase[t] = "ready" /\ phase' = [phase EXCEPT ![t] = "locking"]
      /\ statement' = [statement EXCEPT ![t] = s] /\ issued' = issued + 1 /\ issued < MaxStatements
  BY DEF Issue, Goto
<1>2. UNCHANGED <<clock, start_time, commit_id, current_index, added_nodes, rowState,
                  index, locks, fault, history>>
  BY DEF Issue
<1>3. /\ phase'[t] = "locking" /\ statement'[t] = s
      /\ \A u \in Tx : u # t => phase'[u] = phase[u] /\ statement'[u] = statement[u]
  BY <1>1 DEF TypeInv
<1>4. TypeInv'
  <2>1. issued' \in 0..MaxStatements
    BY <1>1, SizeAssumption DEF TypeInv
  <2>2. statement' \in [Tx -> Statement]
    <3> HIDE DEF IInv
    <3>1. statement \in [Tx -> Statement]
      BY DEF IInv, TypeInv
    <3> QED
      BY <1>1, <3>1
  <2>3. phase' \in [Tx -> {"idle", "ready", "locking", "indexing", "reverting", "writing", "failed", "undoing", "done"}]
    BY <1>1 DEF TypeInv
  <2> QED
    BY <1>2, <2>1, <2>2, <2>3 DEF TypeInv, rowState, locks, history
<1>5. StatementsOK'
  <2> SUFFICES ASSUME NEW u \in Tx
               PROVE  StatementOK(u)'
    BY DEF StatementsOK
  <2>1. CASE u = t
    <3>1. current_index'[t] = 1 /\ commit_id'[t] = 0 /\ count' = count
      BY <1>1, <1>2 DEF StatementsOK, StatementOK, rowState
    <3> QED
      BY <1>3, <2>1, <3>1 DEF StatementOK, FoundRows
  <2>2. CASE u # t
    BY <1>2, <1>3, <2>2, StatementKept DEF StatementsOK, rowState, locks
  <2> QED
    BY <2>1, <2>2
<1>6. current_index[t] = 1
  BY <1>1 DEF StatementsOK, StatementOK
<1>7. \A u \in Tx : Inserting(u) => Inserting(u)' /\ statement'[u] = statement[u]
  BY <1>1, <1>3 DEF Inserting
<1>8. \A u \in Tx : Inserting(u)' => Inserting(u) \/ current_index[u] = 1
  BY <1>3, <1>6 DEF Inserting
<1>9. \A u \in Tx : Updating(u)' => \/ Updating(u) /\ statement'[u] = statement[u]
                                    \/ current_index[u] = 1
  BY <1>3, <1>6 DEF Updating
<1> QED
  BY <1>2, <1>4, <1>5, <1>7, <1>8, <1>9, QuietKeeps

LEMMA InsertKeeps ==
  ASSUME IInv, NEW t \in Tx, Insert(t)
  PROVE  IInv'
<1>1. PICK b \in InsertBatches : Issue(t, [kind |-> "insert", rows |-> << >>, keys |-> b])
  BY DEF Insert
<1> DEFINE s == [kind |-> "insert", rows |-> << >>, keys |-> b]
<1>2. b \in Seq(Values)
  BY StatementAssumption DEF Values
<1>3. b \in Seq([Column -> Nat \cup {Keep}])
  <2>1. Values \subseteq [Column -> Nat \cup {Keep}]
    BY DEF Values
  <2>2. Len(b) \in Nat /\ b \in [1..Len(b) -> Values]
    BY <1>2
  <2>3. b \in [1..Len(b) -> [Column -> Nat \cup {Keep}]]
    BY <2>1, <2>2
  <2> QED
    BY <2>2, <2>3
<1>4. s \in Statement /\ s.kind = "insert" /\ s.keys = b
  BY <1>3 DEF Statement
<1> HIDE DEF s
<1>5. Issue(t, s)
  BY <1>1 DEF s
<1> QED
  BY <1>2, <1>4, <1>5, IssueKeeps

\* The rows that a statement has found are counted.
LEMMA FoundFacts ==
  ASSUME NEW t \in Tx, NEW rs \in Found(t), count \in Nat
  PROVE  /\ rs \in Seq(Row) /\ rs # << >>
         /\ \A j \in DOMAIN rs : rs[j] <= count /\ ChunkOf(rs[j]) = ChunkOf(rs[1])
         /\ \A j, k \in DOMAIN rs : j # k => rs[j] # rs[k]
<1>0. Row \subseteq Nat
  BY SizeAssumption DEF Row
<1>1. \A r \in Row : Read(t, r) # Nowhere => r <= count
  BY <1>0 DEF Read, ReadAlong
<1> DEFINE seen == {r \in Row : Read(t, r) # Nowhere}
<1>2. \/ rs \in {<<r>> : r \in seen}
      \/ rs \in {p \in seen \X seen : p[1] < p[2] /\ ChunkOf(p[1]) = ChunkOf(p[2])}
  BY DEF Found
<1>3. \A r \in seen : r \in Row /\ r \in Nat /\ r <= count
  BY <1>0, <1>1
<1> HIDE DEF seen
<1>4. CASE rs \in {<<r>> : r \in seen}
  <2>1. PICK r \in seen : rs = <<r>>
    BY <1>4
  <2>2. r \in Row /\ r <= count
    BY <1>3
  <2>3. DOMAIN rs = {1} /\ rs[1] = r /\ rs \in Seq(Row) /\ rs # << >>
    BY <2>1, <2>2
  <2> QED
    BY <2>2, <2>3
<1>5. CASE rs \in {p \in seen \X seen : p[1] < p[2] /\ ChunkOf(p[1]) = ChunkOf(p[2])}
  <2>1. PICK r, s \in seen : rs = <<r, s>>
    BY <1>5
  <2>2. DOMAIN rs = {1, 2} /\ rs[1] = r /\ rs[2] = s /\ rs \in Seq(Row) /\ rs # << >>
    BY <1>3, <2>1
  <2>3. r < s /\ ChunkOf(r) = ChunkOf(s)
    BY <1>5, <2>1
  <2> QED
    BY <1>3, <2>2, <2>3
<1> QED
  BY <1>2, <1>4, <1>5

LEMMA UpdateKeeps ==
  ASSUME IInv, NEW t \in Tx, Update(t)
  PROVE  IInv'
<1>1. PICK rs \in Found(t), k \in UpdateKeys :
         Issue(t, [kind |-> "update", rows |-> rs, keys |-> [j \in DOMAIN rs |-> k]])
  BY DEF Update
<1> DEFINE keys == [j \in DOMAIN rs |-> k]
           s == [kind |-> "update", rows |-> rs, keys |-> keys]
<1>2. count \in Nat
  BY SizeAssumption DEF IInv, TypeInv
<1>3. /\ rs \in Seq(Row) /\ rs # << >>
      /\ \A j \in DOMAIN rs : rs[j] <= count /\ ChunkOf(rs[j]) = ChunkOf(rs[1])
      /\ \A i, j \in DOMAIN rs : i # j => rs[i] # rs[j]
  BY <1>2, FoundFacts
<1>4. k \in [Column -> Nat \cup {Keep}]
  BY StatementAssumption
<1>5. /\ DOMAIN keys = DOMAIN rs /\ \A j \in DOMAIN keys : keys[j] = keys[1]
      /\ keys \in Seq([Column -> Nat \cup {Keep}])
  <2>1. Len(rs) \in Nat \ {0} /\ DOMAIN rs = 1..Len(rs)
    BY <1>3
  <2>2. keys \in [1..Len(rs) -> [Column -> Nat \cup {Keep}]]
    BY <1>4, <2>1
  <2>3. \A j \in DOMAIN rs : keys[j] = k /\ 1 \in DOMAIN rs
    BY <2>1
  <2> QED
    BY <2>1, <2>2, <2>3
<1> HIDE DEF keys
<1>6. s \in Statement /\ s.kind = "update" /\ s.keys = keys /\ s.rows = rs
  BY <1>3, <1>5 DEF Statement
<1> HIDE DEF s
<1>7. Issue(t, s)
  BY <1>1 DEF s, keys
<1> QED
  BY <1>3, <1>5, <1>6, <1>7, IssueKeeps

LEMMA DeleteKeeps ==
  ASSUME IInv, NEW t \in Tx, Delete(t)
  PROVE  IInv'
<1>1. PICK rs \in Found(t) : Issue(t, [kind |-> "delete", rows |-> rs, keys |-> << >>])
  BY DEF Delete
<1> DEFINE s == [kind |-> "delete", rows |-> rs, keys |-> << >>]
<1>2. count \in Nat
  BY SizeAssumption DEF IInv, TypeInv
<1>3. /\ rs \in Seq(Row) /\ rs # << >>
      /\ \A j \in DOMAIN rs : rs[j] <= count /\ ChunkOf(rs[j]) = ChunkOf(rs[1])
      /\ \A i, j \in DOMAIN rs : i # j => rs[i] # rs[j]
  BY <1>2, FoundFacts
<1>4. s \in Statement /\ s.kind = "delete" /\ s.rows = rs
  BY <1>3 DEF Statement
<1> HIDE DEF s
<1>5. Issue(t, s)
  BY <1>1 DEF s
<1> QED
  BY <1>3, <1>4, <1>5, IssueKeeps

LEMMA DivMonotone ==
  ASSUME NEW a \in Nat, NEW b \in Nat, NEW d \in Nat \ {0}, a <= b
  PROVE  a \div d \in 0..(b \div d)
<1>1. /\ a \div d \in Int /\ b \div d \in Int
      /\ d * (a \div d) <= a /\ b < d * (b \div d) + d
  OBVIOUS
<1> DEFINE p == a \div d
           q == b \div d
<1>2. d * p <= a /\ b < d * q + d /\ p \in Int /\ q \in Int
  BY <1>1
<1>3. p >= 0
  OBVIOUS
<1> HIDE DEF p, q
<1>4. d * p < d * (q + 1)
  BY <1>2
<1>5. p < q + 1
  BY <1>2, <1>4
<1> QED
  BY <1>2, <1>3, <1>5 DEF p, q

LEMMA ChunkTypes ==
  ASSUME TypeInv
  PROVE  tail_chunk \in Chunk /\ \A r \in Row : ChunkOf(r) \in Chunk
<1>1. MaxRows \in Nat \ {0} /\ ChunkSize \in Nat \ {0} /\ MaxRows - 1 \in Nat /\ count \in 0..MaxRows
  BY SizeAssumption DEF TypeInv
<1>2. ASSUME NEW r \in 1..MaxRows PROVE ChunkOf(r) \in Chunk
  <2>1. r - 1 \in Nat /\ r - 1 <= MaxRows - 1
    BY <1>1
  <2> QED
    BY <1>1, <2>1, DivMonotone DEF ChunkOf, Chunk
<1>3. 0 \in Chunk
  <2>1. (MaxRows - 1) \div ChunkSize \in Nat
    BY <1>1
  <2> QED
    BY <2>1 DEF Chunk
<1>4. count # 0 => count \in 1..MaxRows
  BY <1>1
<1> QED
  BY <1>2, <1>3, <1>4 DEF tail_chunk, Row

\* The chunk of a statement.
LEMMA ChunkForType ==
  ASSUME TypeInv, NEW t \in Tx, StatementOK(t),
         phase[t] \in {"locking", "indexing", "reverting", "writing", "failed"}
  PROVE  ChunkFor(t) \in Chunk
<1>1. CASE statement[t].kind = "insert"
  BY <1>1, ChunkTypes DEF ChunkFor
<1>2. CASE statement[t].kind # "insert"
  <2>1. statement[t].rows \in Seq(Row) /\ statement[t].kind \in {"update", "delete"}
    BY <1>2 DEF TypeInv, Statement, StatementOK
  <2>2. statement[t].rows # << >>
    BY <2>1 DEF StatementOK, FoundRows
  <2>3. statement[t].rows[1] \in Row
    BY <2>1, <2>2
  <2> QED
    BY <1>2, <2>3, ChunkTypes DEF ChunkFor
<1> QED
  BY <1>1, <1>2

LEMMA LockChunkKeeps ==
  ASSUME IInv, NEW t \in Tx, LockChunk(t)
  PROVE  IInv'
<1> USE DEF IInv
<1> DEFINE c == ChunkFor(t)
           s == statement[t]
           rows == IF s.kind = "insert" THEN [j \in DOMAIN s.keys |-> count + j] ELSE s.rows
<1>1. /\ phase[t] = "locking" /\ exclusive_lock[c] = NoTx
      /\ s.kind = "insert" => count + Len(s.keys) <= MaxRows
      /\ exclusive_lock' = [exclusive_lock EXCEPT ![c] = t]
      /\ statement' = [statement EXCEPT ![t].rows = rows]
      /\ phase' = [phase EXCEPT ![t] = IF s.kind = "delete" THEN "writing" ELSE "indexing"]
  BY DEF LockChunk, Goto
<1>2. UNCHANGED <<clock, start_time, commit_id, issued, current_index, added_nodes,
                  rowState, index, read_count, fault, history>>
  BY DEF LockChunk
<1>3. StatementOK(t) /\ c \in Chunk /\ t # NoTx
  BY <1>1, ChunkForType, TxAssumption DEF StatementsOK
<1>4. /\ s \in Statement /\ s = [kind |-> s.kind, rows |-> s.rows, keys |-> s.keys]
      /\ s.rows \in Seq(Row) /\ s.kind \in {"insert", "update", "delete"}
      /\ s.kind = "insert" => s.keys \in Seq(Values)
  BY <1>1, <1>3 DEF TypeInv, Statement, StatementOK
<1>5. rows \in Seq(Row)
  <2>1. CASE s.kind = "insert"
    <3>1. Len(s.keys) \in Nat /\ DOMAIN s.keys = 1..Len(s.keys)
      BY <1>4, <2>1
    <3>2. count \in Nat /\ MaxRows \in Nat
      BY SizeAssumption DEF TypeInv
    <3>3. rows \in [1..Len(s.keys) -> Row]
      BY <1>1, <2>1, <3>1, <3>2 DEF Row
    <3> HIDE DEF rows
    <3> QED
      BY <3>1, <3>3
  <2> QED
    BY <1>4, <2>1
<1>6. /\ statement'[t].kind = s.kind /\ statement'[t].keys = s.keys /\ statement'[t].rows = rows
      /\ statement' \in [Tx -> Statement]
      /\ \A u \in Tx : u # t => statement'[u] = statement[u]
  <2> HIDE DEF rows
  <2>1. statement'[t] = [s EXCEPT !.rows = rows]
    BY <1>1 DEF TypeInv
  <2>2. \A u \in Tx : u # t => statement'[u] = statement[u]
    BY <1>1 DEF TypeInv
  <2>3. [s EXCEPT !.rows = rows] \in Statement
    BY <1>4, <1>5 DEF Statement
  <2>4. statement' = [u \in Tx |-> statement'[u]]
    BY <1>1 DEF TypeInv
  <2>5. \A u \in Tx : statement[u] \in Statement
    BY DEF TypeInv
  <2>6. \A u \in Tx : statement'[u] \in Statement
    BY <2>1, <2>2, <2>3, <2>5
  <2>7. statement'[t].kind = s.kind /\ statement'[t].keys = s.keys /\ statement'[t].rows = rows
    BY <1>4, <2>1
  <2> QED
    BY <2>2, <2>4, <2>6, <2>7
<1>7. /\ phase'[t] = IF s.kind = "delete" THEN "writing" ELSE "indexing"
      /\ \A u \in Tx : u # t => phase'[u] = phase[u]
      /\ phase' \in [Tx -> {"idle", "ready", "locking", "indexing", "reverting",
                            "writing", "failed", "undoing", "done"}]
  BY <1>1 DEF TypeInv
<1>8. exclusive_lock'[c] = t /\ \A d \in Chunk : d # c => exclusive_lock'[d] = exclusive_lock[d]
  BY <1>1, <1>3 DEF TypeInv
<1>9. TypeInv'
  <2>1. exclusive_lock' \in [Chunk -> Tx \cup {NoTx}]
    BY <1>1 DEF TypeInv
  <2> QED
    BY <1>2, <1>6, <1>7, <2>1 DEF TypeInv, rowState, history
<1>10. count' = count /\ current_index' = current_index /\ commit_id' = commit_id /\ current_index[t] = 1
  BY <1>1, <1>2, <1>3 DEF rowState, StatementOK
<1>11. StatementsOK'
  <2> SUFFICES ASSUME NEW u \in Tx
               PROVE  StatementOK(u)'
    BY DEF StatementsOK
  <2>1. CASE u = t
    <3>1. ChunkFor(t)' = c
      <4>1. s.kind # "insert" => rows[1] = s.rows[1]
        OBVIOUS
      <4> HIDE DEF rows
      <4> QED
        BY <1>6, <1>10, <4>1 DEF ChunkFor, tail_chunk
    <3>2. s.kind \in {"update", "delete"} => FoundRows(t)'
      <4>1. s.kind \in {"update", "delete"} => FoundRows(t) /\ rows = s.rows
        BY <1>1, <1>3 DEF StatementOK
      <4> HIDE DEF rows
      <4> QED
        BY <1>6, <1>10, <4>1 DEF FoundRows
    <3>3. s.kind = "insert" => NewRows(t)'
      <4>1. s.kind = "insert" => DOMAIN rows = DOMAIN s.keys /\ \A j \in DOMAIN s.keys : rows[j] = count + j
        OBVIOUS
      <4> HIDE DEF rows
      <4> QED
        BY <1>1, <1>6, <1>10, <4>1 DEF NewRows
    <3>4. s.kind = "update" => /\ DOMAIN s.keys = DOMAIN rows
                               /\ \A j \in DOMAIN s.keys : s.keys[j] = s.keys[1]
      BY <1>1, <1>3 DEF StatementOK
    <3>5. 1 \in Index /\ commit_id'[t] = 0
      BY <1>1, <1>2, <1>3, IndexFacts DEF StatementOK
    <3> HIDE DEF s, rows, c
    <3> QED
      BY <1>4, <1>6, <1>7, <1>8, <1>10, <2>1, <3>1, <3>2, <3>3, <3>4, <3>5 DEF StatementOK
  <2>2. CASE u # t
    <3>1. StatementOK(u)
      BY DEF StatementsOK
    <3>2. ASSUME phase[u] \in {"indexing", "reverting", "writing", "failed"},
                 exclusive_lock[ChunkFor(u)] = u
          PROVE  exclusive_lock'[ChunkFor(u)] = u
      <4>1. ChunkFor(u) \in Chunk
        BY <3>1, <3>2, ChunkForType
      <4>2. ChunkFor(u) # c
        BY <1>1, <3>2, TxAssumption
      <4> QED
        BY <1>8, <3>2, <4>1, <4>2
    <3> QED
      BY <1>6, <1>7, <1>10, <2>2, <3>1, <3>2, StatementKept
  <2> QED
    BY <2>1, <2>2
<1>12. \A u \in Tx : Inserting(u) => Inserting(u)' /\ statement'[u] = statement[u]
  BY <1>1, <1>6, <1>7 DEF Inserting
<1>13. \A u \in Tx : Inserting(u)' => Inserting(u) \/ current_index[u] = 1
  BY <1>6, <1>7, <1>10 DEF Inserting
<1>14. \A u \in Tx : Updating(u)' => \/ Updating(u) /\ statement'[u] = statement[u]
                                     \/ current_index[u] = 1
  BY <1>6, <1>7, <1>10 DEF Updating
<1> QED
  BY <1>2, <1>9, <1>11, <1>12, <1>13, <1>14, QuietKeeps

LEMMA CommitKeeps ==
  ASSUME IInv, NEW t \in Tx, Commit(t)
  PROVE  IInv'
<1> USE DEF IInv
<1>1. /\ phase[t] = "ready" /\ phase' = [phase EXCEPT ![t] = "done"]
      /\ commit_id' = [commit_id EXCEPT ![t] = clock] /\ clock' = clock + 1
  BY DEF Commit, Goto
<1>2. UNCHANGED <<start_time, issued, statement, current_index, added_nodes, rowState,
                  index, locks, fault, history>>
  BY DEF Commit
<1>3. TypeInv'
  BY <1>1, <1>2 DEF TypeInv, rowState, locks, history
<1>4. /\ phase'[t] = "done" /\ commit_id'[t] = clock /\ clock # 0
      /\ \A u \in Tx : u # t => phase'[u] = phase[u] /\ commit_id'[u] = commit_id[u]
  BY <1>1 DEF TypeInv
<1>5. StatementsOK'
  <2> SUFFICES ASSUME NEW u \in Tx
               PROVE  StatementOK(u)'
    BY DEF StatementsOK
  <2>1. CASE u = t
    BY <1>4, <2>1 DEF StatementOK
  <2>2. CASE u # t
    BY <1>2, <1>4, <2>2, StatementKept DEF StatementsOK, rowState, locks
  <2> QED
    BY <2>1, <2>2
<1>6. \A u \in Tx : (Inserting(u)' <=> Inserting(u)) /\ (Updating(u)' <=> Updating(u))
  BY <1>1, <1>2, <1>4 DEF Inserting, Updating
<1>7. \A v \in Tx : commit_id[v] # 0 => commit_id'[v] # 0
  BY <1>4
<1> QED
  BY <1>2, <1>3, <1>5, <1>6, <1>7, QuietKeeps

-----------------------------------------------------------------------------
(* Steps that change the indexes. *)

\* An INSERT locks the last chunk, so there is one at most.
LEMMA OneInsert ==
  ASSUME StatementsOK, NEW t \in Tx, NEW u \in Tx, Inserting(t), Inserting(u)
  PROVE  t = u
BY DEF StatementsOK, StatementOK, Inserting, ChunkFor

\* Chunks are locked by one statement.
LEMMA LockedApart ==
  ASSUME StatementsOK, NEW t \in Tx, NEW u \in Tx, t # u,
         phase[t] \in {"indexing", "reverting", "writing", "failed"},
         phase[u] \in {"indexing", "reverting", "writing", "failed"}
  PROVE  ChunkFor(t) # ChunkFor(u)
BY DEF StatementsOK, StatementOK

\* The end of a statement.
LEMMA ReadyKeeps ==
  ASSUME TypeInv, StatementsOK, NEW t \in Tx,
         phase[t] \in {"indexing", "reverting", "writing"},
         ToReady(t), Release(ChunkFor(t)), UNCHANGED commit_id, count' \in Nat,
         count' = count \/ (statement[t].kind = "insert" /\ count' >= count)
  PROVE  /\ StatementsOK'
         /\ statement' \in [Tx -> Statement] /\ current_index' \in [Tx -> 1..Len(AllowNulls) + 1]
         /\ added_nodes' \in [Tx -> [Index -> Seq(Nat)]]
         /\ phase' \in [Tx -> {"idle", "ready", "locking", "indexing", "reverting",
                               "writing", "failed", "undoing", "done"}]
         /\ exclusive_lock' \in [Chunk -> Tx \cup {NoTx}]
         /\ phase'[t] = "ready"
         /\ \A u \in Tx : u # t => /\ phase'[u] = phase[u] /\ statement'[u] = statement[u]
                                   /\ current_index'[u] = current_index[u]
                                   /\ added_nodes'[u] = added_nodes[u]
<1> DEFINE c == ChunkFor(t)
<1>1. /\ phase' = [phase EXCEPT ![t] = "ready"]
      /\ statement' = [statement EXCEPT ![t] = NoStatement]
      /\ current_index' = [current_index EXCEPT ![t] = 1]
      /\ added_nodes' = [added_nodes EXCEPT ![t] = [i \in Index |-> << >>]]
      /\ exclusive_lock' = [exclusive_lock EXCEPT ![c] = NoTx]
  BY DEF ToReady, Release, Goto
<1>2. /\ phase'[t] = "ready" /\ current_index'[t] = 1
      /\ \A u \in Tx : u # t => /\ phase'[u] = phase[u] /\ statement'[u] = statement[u]
                                /\ current_index'[u] = current_index[u]
                                /\ added_nodes'[u] = added_nodes[u]
  BY <1>1 DEF TypeInv
<1>3. NoStatement \in Statement /\ 1 \in 1..Len(AllowNulls) + 1 /\ [i \in Index |-> << >>] \in [Index -> Seq(Nat)]
  <2>1. NoStatement \in Statement
    BY DEF NoStatement, Statement
  <2>2. Len(AllowNulls) \in Nat
    BY IndexFacts
  <2> QED
    BY <2>1, <2>2
<1>4. /\ statement' \in [Tx -> Statement] /\ current_index' \in [Tx -> 1..Len(AllowNulls) + 1]
      /\ added_nodes' \in [Tx -> [Index -> Seq(Nat)]]
      /\ phase' \in [Tx -> {"idle", "ready", "locking", "indexing", "reverting",
                            "writing", "failed", "undoing", "done"}]
      /\ exclusive_lock' \in [Chunk -> Tx \cup {NoTx}]
  <2>1. statement' \in [Tx -> Statement]
    <3> HIDE DEF NoStatement, Statement
    <3> QED
      BY <1>1, <1>3 DEF TypeInv
  <2>2. current_index' \in [Tx -> 1..Len(AllowNulls) + 1]
    BY <1>1, <1>3 DEF TypeInv
  <2>3. added_nodes' \in [Tx -> [Index -> Seq(Nat)]]
    <3> DEFINE none == [i \in Index |-> << >>]
               nodes == [Index -> Seq(Nat)]
    <3>1. none \in nodes /\ added_nodes \in [Tx -> nodes]
      BY <1>3 DEF TypeInv
    <3> HIDE DEF none, nodes
    <3>2. added_nodes' \in [Tx -> nodes]
      BY <1>1, <3>1 DEF none
    <3> QED
      BY <3>2 DEF nodes
  <2> QED
    BY <1>1, <2>1, <2>2, <2>3 DEF TypeInv
<1>5. StatementsOK'
  <2> SUFFICES ASSUME NEW u \in Tx
               PROVE  StatementOK(u)'
    BY DEF StatementsOK
  <2>1. CASE u = t
    BY <1>2, <2>1 DEF StatementsOK, StatementOK
  <2>2. CASE u # t
    <3>1. StatementOK(u) /\ count \in Nat
      BY SizeAssumption DEF StatementsOK, TypeInv
    <3>2. ASSUME phase[u] \in {"indexing", "reverting", "writing", "failed"}
          PROVE  exclusive_lock'[ChunkFor(u)] = u
      <4>1. ChunkFor(u) \in Chunk
        BY <3>1, <3>2, ChunkForType
      <4>2. ChunkFor(u) # c
        BY <2>2, <3>2, LockedApart
      <4> QED
        BY <1>1, <3>1, <3>2, <4>1, <4>2 DEF TypeInv, StatementOK
    <3>3. CASE count' = count
      BY <1>2, <2>2, <3>1, <3>2, <3>3, StatementKept
    <3>4. CASE statement[t].kind = "insert" /\ count' >= count
      <4>1. phase[u] \in {"indexing", "reverting", "writing", "failed"} => statement[u].kind # "insert"
        BY <2>2, <3>1, <3>4, OneInsert DEF Inserting, StatementOK
      <4>2. statement[u].kind # "insert" => ChunkFor(u)' = ChunkFor(u)
        BY <1>2, <2>2 DEF ChunkFor
      <4>3. FoundRows(u) => FoundRows(u)'
        <5> SUFFICES ASSUME FoundRows(u)
                     PROVE  FoundRows(u)'
          OBVIOUS
        <5>1. statement[u].rows \in Seq(Row) /\ Row \subseteq Nat
          BY SizeAssumption DEF TypeInv, Statement, Row
        <5>0. \A j \in DOMAIN statement[u].rows : statement[u].rows[j] \in Row
          BY <5>1
        <5>2. \A j \in DOMAIN statement[u].rows : statement[u].rows[j] \in Nat
          BY <5>0, <5>1
        <5>3. \A j \in DOMAIN statement[u].rows : statement[u].rows[j] <= count'
          BY <3>1, <3>4, <5>2 DEF FoundRows
        <5> QED
          BY <1>2, <2>2, <5>3 DEF FoundRows
      <4> QED
        BY <1>2, <2>2, <3>1, <3>2, <4>1, <4>2, <4>3 DEF StatementOK
    <3> QED
      BY <3>3, <3>4
  <2> QED
    BY <2>1, <2>2
<1> QED
  BY <1>2, <1>4, <1>5

\* Entries of counted rows that are kept lead to what they led to.
LEMMA EntriesKeep ==
  ASSUME IInv, UNCHANGED rowState, dirty \subseteq dirty',
         \A i \in Index : \A n \in DOMAIN index[i].node : index[i].node[n].row <= count =>
            /\ n \in DOMAIN index'[i].node
            /\ index'[i].node[n].key = index[i].node[n].key
            /\ index'[i].node[n].row = index[i].node[n].row
  PROVE  /\ \A i \in Index : \A r \in 1..count : \A row : HasEntry(i, r, row) => HasEntry(i, r, row)'
         /\ VersionsHaveEntries'
<1>1. ASSUME NEW i \in Index, NEW r \in 1..count, NEW row, HasEntry(i, r, row)
      PROVE  HasEntry(i, r, row)'
  <2>1. r <= count
    BY SizeAssumption DEF IInv, TypeInv
  <2> QED
    BY <1>1, <2>1 DEF HasEntry
<1>2. /\ data' = data /\ count' = count /\ chain' = chain
  BY DEF rowState
<1>3. ASSUME NEW i \in Index, NEW r \in 1..count, r \notin dirty', NEW row \in ValuesOf(r)
      PROVE  HasEntry(i, r, row)'
  <2>1. HasEntry(i, r, row)
    BY <1>3 DEF IInv, VersionsHaveEntries
  <2> QED
    BY <1>1, <2>1
<1>4. \A r : ValuesOf(r)' = ValuesOf(r)
  BY <1>2 DEF ValuesOf
<1> QED
  BY <1>1, <1>2, <1>3, <1>4 DEF VersionsHaveEntries

LEMMA UpdateKept ==
  ASSUME IInv, UNCHANGED <<rowState, commit_id>>, dirty \subseteq dirty',
         \A i \in Index : \A r \in 1..count : \A row : HasEntry(i, r, row) => HasEntry(i, r, row)',
         NEW u \in Tx, Updating(u), statement'[u] = statement[u],
         NEW i \in Index, UpdateEntered(u, i)
  PROVE  UpdateEntered(u, i)'
<1>1. data' = data /\ chain' = chain /\ count' = count
  BY DEF rowState
<1> SUFFICES ASSUME NEW j \in DOMAIN statement[u].rows, statement[u].rows[j] \notin dirty'
             PROVE  HasEntry(i, statement[u].rows[j], Written(u, j))' /\ ~InConflict(u, statement[u].rows[j])'
  BY DEF UpdateEntered
<1>2. HasEntry(i, statement[u].rows[j], Written(u, j)) /\ ~InConflict(u, statement[u].rows[j])
  BY DEF UpdateEntered
<1>3. Written(u, j)' = Written(u, j)
  BY <1>1 DEF Written, Filled
<1>4. statement[u].rows[j] \in 1..count
  <2>1. statement[u].rows \in Seq(Row) /\ count \in Nat
    BY SizeAssumption DEF IInv, TypeInv, Statement
  <2>2. statement[u].rows[j] \in Row /\ statement[u].rows[j] <= count
    BY <2>1 DEF IInv, StatementsOK, StatementOK, Updating, FoundRows
  <2> QED
    BY <2>1, <2>2, SizeAssumption DEF Row
<1>5. ~InConflict(u, statement[u].rows[j])'
  BY <1>1, <1>2 DEF InConflict, Uncommitted, Number
<1> QED
  BY <1>2, <1>3, <1>4, <1>5 DEF HasEntry

LEMMA EnteredLeads ==
  ASSUME NEW tree, NEW es, NEW ks, NEW rows, Entered(tree, es, ks, rows)
  PROVE  \A q \in DOMAIN es :
            IF ks[q] = NoKey THEN es[q] = Null
            ELSE /\ es[q] \in DOMAIN tree.node /\ tree.node[es[q]].row = rows[q]
                 /\ tree.node[es[q]].key = ks[q]
BY DEF Entered

LEMMA RowsOfEntries ==
  ASSUME TypeInv, TreesOK
  PROVE  count \in Nat /\ \A j \in Index : \A n \in DOMAIN index[j].node :
                              index[j].node[n].row \in Row /\ index[j].node[n].row \in Nat
<1>1. count \in Nat /\ Row \subseteq Nat
  BY SizeAssumption DEF TypeInv, Row
<1>2. ASSUME NEW j \in Index, NEW n \in DOMAIN index[j].node
      PROVE  index[j].node[n].row \in Row
  BY NodeFields DEF TreesOK, SearchTree
<1> QED
  BY <1>1, <1>2

\* The entries of an INSERT lead past the counted rows, to different ones.
LEMMA InsertedRows ==
  ASSUME TypeInv, NEW t \in Tx, NewRows(t), NEW i \in Index,
         DOMAIN added_nodes[t][i] = DOMAIN statement[t].keys,
         Entered(index[i], added_nodes[t][i], NewKeys(t, i), statement[t].rows),
         SearchTree(index[i], i)
  PROVE  LET es == added_nodes[t][i]
         IN /\ es \in Seq(Nat)
            /\ \A p, q \in DOMAIN es : p # q => statement[t].rows[p] # statement[t].rows[q]
            /\ \A q \in DOMAIN es : es[q] \in DOMAIN index[i].node => index[i].node[es[q]].row > count
<1> DEFINE es == added_nodes[t][i]
           rows == statement[t].rows
<1>1. es \in Seq(Nat) /\ count \in Nat
  BY SizeAssumption DEF TypeInv
<1>2. \A q \in DOMAIN es : q \in Nat \ {0} /\ rows[q] = count + q
  BY <1>1 DEF NewRows
<1>3. \A q \in DOMAIN es : es[q] \in DOMAIN index[i].node => index[i].node[es[q]].row = rows[q]
  <2>1. Null \notin DOMAIN index[i].node
    BY DEF SearchTree, Tree
  <2> DEFINE node == index[i].node
             ks == NewKeys(t, i)
  <2>2. \A q \in DOMAIN es : IF ks[q] = NoKey THEN es[q] = Null
                             ELSE /\ es[q] \in DOMAIN node /\ node[es[q]].row = rows[q]
                                  /\ node[es[q]].key = ks[q]
    BY EnteredLeads
  <2> HIDE DEF es, rows, ks
  <2> QED
    BY <2>1, <2>2
<1> HIDE DEF es, rows
<1>4. \A p, q \in DOMAIN es : p # q => rows[p] # rows[q]
  BY <1>1, <1>2
<1>5. \A q \in DOMAIN es : es[q] \in DOMAIN index[i].node => index[i].node[es[q]].row > count
  BY <1>1, <1>2, <1>3
<1> QED
  BY <1>1, <1>4, <1>5 DEF es, rows

LEMMA RevertIndexKeeps ==
  ASSUME IInv, fault = Alive, NEW t \in Tx, RevertIndex(t)
  PROVE  IInv'
<1> USE DEF IInv
<1> DEFINE i == current_index[t] - 1
           es == added_nodes[t][i]
           ks == NewKeys(t, i)
           rows == statement[t].rows
           r == RemoveAll(index[i], Reverted(t, i), FALSE)
<1>1. /\ phase[t] = "reverting" /\ UNCHANGED <<clock, start_time, commit_id, issued, rowState,
                                               read_count, history>>
      /\ i = 0 => ToReady(t) /\ Release(tail_chunk) /\ UNCHANGED <<index, fault>>
      /\ i # 0 => /\ index' = [index EXCEPT ![i] = r.tree]
                  /\ fault' = r.fault
                  /\ current_index' = [current_index EXCEPT ![t] = i]
                  /\ UNCHANGED <<phase, statement, added_nodes, exclusive_lock>>
  BY DEF RevertIndex
<1>2. data' = data /\ deleted' = deleted /\ count' = count /\ chain' = chain
      /\ unlocked' = unlocked /\ dirty' = dirty /\ clobbered' = clobbered
      /\ torn' = torn /\ earlier' = earlier
  BY <1>1 DEF rowState, history
<1>3. StatementOK(t) /\ statement[t].kind = "insert" /\ Inserting(t) /\ NewRows(t)
  BY <1>1 DEF StatementsOK, StatementOK, Inserting
<1>4. ChunkFor(t) = tail_chunk
  BY <1>3 DEF ChunkFor
<1>5. CASE i = 0
  <2>1. /\ StatementsOK'
        /\ statement' \in [Tx -> Statement] /\ current_index' \in [Tx -> 1..Len(AllowNulls) + 1]
        /\ added_nodes' \in [Tx -> [Index -> Seq(Nat)]]
        /\ phase' \in [Tx -> {"idle", "ready", "locking", "indexing", "reverting",
                              "writing", "failed", "undoing", "done"}]
        /\ exclusive_lock' \in [Chunk -> Tx \cup {NoTx}]
        /\ phase'[t] = "ready"
        /\ \A u \in Tx : u # t => /\ phase'[u] = phase[u] /\ statement'[u] = statement[u]
                                  /\ current_index'[u] = current_index[u]
                                  /\ added_nodes'[u] = added_nodes[u]
    <3>1. ToReady(t) /\ Release(ChunkFor(t)) /\ count' \in Nat
      BY <1>1, <1>2, <1>4, <1>5, SizeAssumption DEF TypeInv
    <3>2. phase[t] \in {"indexing", "reverting", "writing"} /\ UNCHANGED commit_id
      BY <1>1
    <3> HIDE DEF IInv
    <3>3. TypeInv /\ StatementsOK
      BY DEF IInv
    <3> QED
      BY <1>2, <3>1, <3>2, <3>3, ReadyKeeps
  <2>2. UNCHANGED <<index, fault>>
    BY <1>1, <1>5
  <2>3. TypeInv'
    BY <1>1, <1>2, <2>1, <2>2 DEF TypeInv
  <2>4. \A u \in Tx : Inserting(u) => u = t
    BY <1>3, OneInsert
  <2>5. \A u \in Tx : ~Inserting(u)'
    BY <2>1, <2>4 DEF Inserting
  <2>6. \A j \in Index : \A n \in DOMAIN index[j].node : ~(index[j].node[n].row > count)
    <3> SUFFICES ASSUME NEW j \in Index, NEW n \in DOMAIN index[j].node, index[j].node[n].row > count
                 PROVE  FALSE
      OBVIOUS
    <3>1. PICK u \in Tx : Inserting(u) /\ j < current_index[u]
      BY DEF EntriesOfInserts
    <3>2. current_index[t] = 1
      BY <1>5 DEF TypeInv
    <3> QED
      BY <2>4, <3>1, <3>2, IndexFacts
  <2>7. EntriesOfInserts'
    BY <1>2, <2>2, <2>5, <2>6 DEF EntriesOfInserts
  <2>8. /\ \A j \in Index : \A x \in 1..count : \A row : HasEntry(j, x, row) => HasEntry(j, x, row)'
        /\ VersionsHaveEntries'
    <3> HIDE DEF IInv
    <3> QED
      BY <1>1, <1>2, <2>2, EntriesKeep
  <2>9. UpdatesHaveEntries'
    <3> SUFFICES ASSUME NEW u \in Tx, Updating(u)', NEW j \in Index, (j < current_index[u] /\ Affected(u, j))'
                 PROVE  UpdateEntered(u, j)'
      BY DEF UpdatesHaveEntries
    <3>1. u # t
      BY <2>1 DEF Updating
    <3>2. Updating(u) /\ statement'[u] = statement[u] /\ j < current_index[u] /\ Affected(u, j)
      BY <2>1, <3>1 DEF Updating, Affected
    <3>3. UpdateEntered(u, j)
      BY <3>2 DEF UpdatesHaveEntries
    <3> HIDE DEF IInv
    <3> QED
      BY <1>1, <1>2, <2>8, <3>2, <3>3, UpdateKept
  <2>10. TreesOK' /\ RevertsRemoveLeaves'
    BY <1>2, <2>2 DEF TreesOK, RevertsRemoveLeaves
  <2> QED
    BY <2>1, <2>3, <2>7, <2>8, <2>9, <2>10
<1>6. CASE i # 0
  <2>1. i \in Index /\ i < current_index[t] /\ i + 1 = current_index[t]
    BY <1>6, IndexFacts DEF TypeInv
  <2>2. SearchTree(index[i], i) /\ DOMAIN es = DOMAIN statement[t].keys /\ Entered(index[i], es, ks, rows)
    BY <1>3, <2>1 DEF EntriesOfInserts, TreesOK
  <2>3. /\ es \in Seq(Nat)
        /\ \A p, q \in DOMAIN es : p # q => rows[p] # rows[q]
        /\ \A q \in DOMAIN es : es[q] \in DOMAIN index[i].node => index[i].node[es[q]].row > count
    BY <1>3, <2>1, <2>2, InsertedRows
  <2>4. Reverting(i, index[i], es, ks, rows, 0, r.tree, r.fault)
    <3>1. Reverted(t, i) = es
      BY DEF Reverted
    <3> HIDE DEF i, es, ks, rows
    <3> QED
      BY <2>1, <2>2, <2>3, <3>1, RevertOutcome
  <2>5. /\ index' = [index EXCEPT ![i] = r.tree] /\ fault' = r.fault
        /\ current_index' = [current_index EXCEPT ![t] = i]
        /\ UNCHANGED <<phase, statement, added_nodes, exclusive_lock>>
    BY <1>1, <1>6
  <2>6. /\ DOMAIN index' = Index /\ index'[i] = r.tree /\ \A j \in Index : j # i => index'[j] = index[j]
    BY <2>1, <2>5 DEF TreesOK
  <2> HIDE DEF i, es, ks, rows, r, IInv
  <2>0. TypeInv /\ TreesOK /\ StatementsOK /\ EntriesOfInserts /\ VersionsHaveEntries /\ UpdatesHaveEntries
    BY DEF IInv
  <2>7. PICK k \in 0..Len(es) : Taken(i, index[i], es, ks, rows, k, r.tree)
    BY <2>4 DEF Reverting
  <2>8. /\ SearchTree(r.tree, i)
        /\ DOMAIN r.tree.node = DOMAIN index[i].node \ {es[q] : q \in k + 1..Len(es)}
        /\ \A n \in DOMAIN r.tree.node : /\ r.tree.node[n].key = index[i].node[n].key
                                         /\ r.tree.node[n].row = index[i].node[n].row
    BY <2>7 DEF Taken
  <2>9. TreesOK'
    BY <2>0, <2>6, <2>8 DEF TreesOK
  <2>10. count \in Nat /\ \A j \in Index : \A n \in DOMAIN index[j].node : index[j].node[n].row \in Nat
    BY <2>0, RowsOfEntries
  <2>11. ASSUME NEW j \in Index, NEW n \in DOMAIN index[j].node, index[j].node[n].row <= count
         PROVE  /\ n \in DOMAIN index'[j].node
                /\ index'[j].node[n].key = index[j].node[n].key
                /\ index'[j].node[n].row = index[j].node[n].row
    <3>1. CASE j # i
      BY <2>6, <3>1
    <3>2. CASE j = i
      <4>1. k + 1..Len(es) \subseteq DOMAIN es
        BY <2>3, <2>7
      <4>2. n \notin {es[q] : q \in k + 1..Len(es)}
        BY <2>3, <2>10, <2>11, <3>2, <4>1
      <4> QED
        BY <2>6, <2>8, <3>2, <4>2
    <3> QED
      BY <3>1, <3>2
  <2>12. /\ \A j \in Index : \A x \in 1..count : \A row : HasEntry(j, x, row) => HasEntry(j, x, row)'
         /\ VersionsHaveEntries'
    BY <1>1, <1>2, <2>11, EntriesKeep
  <2>13. current_index'[t] = i /\ \A u \in Tx : u # t => current_index'[u] = current_index[u]
    BY <2>0, <2>5 DEF TypeInv
  <2>14. \A u \in Tx : (Inserting(u)' <=> Inserting(u)) /\ (Inserting(u) => u = t)
    <3>1. \A u \in Tx : Inserting(u) => u = t
      BY <1>3, <2>0, OneInsert
    <3> QED
      BY <2>5, <3>1 DEF Inserting
  <2>15. UpdatesHaveEntries'
    <3> SUFFICES ASSUME NEW u \in Tx, Updating(u)', NEW j \in Index, (j < current_index[u] /\ Affected(u, j))'
                 PROVE  UpdateEntered(u, j)'
      BY DEF UpdatesHaveEntries
    <3>1. Updating(u) /\ statement'[u] = statement[u] /\ Affected(u, j) /\ u # t
      BY <1>3, <2>5 DEF Updating, Affected
    <3>2. UpdateEntered(u, j)
      BY <2>0, <2>13, <3>1 DEF UpdatesHaveEntries
    <3> QED
      BY <1>1, <1>2, <2>12, <3>1, <3>2, UpdateKept
  <2>16. EntriesOfInserts'
    <3> SUFFICES ASSUME fault' = Alive
                 PROVE  EntriesOfInserts'
      BY DEF EntriesOfInserts
    <3>1. DOMAIN r.tree.node = DOMAIN index[i].node \ Range(es)
      <4>1. Taken(i, index[i], es, ks, rows, 0, r.tree)
        BY <2>4, <2>5 DEF Reverting
      <4>2. {es[q] : q \in 0 + 1..Len(es)} = Range(es)
        BY <2>3 DEF Range
      <4> QED
        BY <4>1, <4>2 DEF Taken
    <3>2. ASSUME NEW u \in Tx, Inserting(u)', NEW j \in Index, j < current_index'[u]
          PROVE  /\ DOMAIN added_nodes'[u][j] = DOMAIN statement'[u].keys
                 /\ Entered(index'[j], added_nodes'[u][j], NewKeys(u, j)', statement'[u].rows)
      <4>1. u = t /\ Inserting(t)
        BY <2>14, <3>2
      <4>2. j < current_index[t] /\ j # i
        BY <2>1, <2>13, <3>2, <4>1, IndexFacts
      <4>3. /\ DOMAIN added_nodes[t][j] = DOMAIN statement[t].keys
            /\ Entered(index[j], added_nodes[t][j], NewKeys(t, j), statement[t].rows)
        BY <2>0, <4>1, <4>2 DEF EntriesOfInserts
      <4>4. NewKeys(t, j)' = NewKeys(t, j)
        BY <2>5 DEF NewKeys
      <4> QED
        BY <2>5, <2>6, <4>1, <4>2, <4>3, <4>4
    <3>3. ASSUME NEW j \in Index, NEW n \in DOMAIN index'[j].node, index'[j].node[n].row > count
          PROVE  \E u \in Tx : Inserting(u)' /\ j < current_index'[u] /\ n \in Range(added_nodes'[u][j])
      <4>1. n \in DOMAIN index[j].node /\ index[j].node[n].row > count
        BY <2>6, <2>8, <3>3
      <4>2. PICK u \in Tx : Inserting(u) /\ j < current_index[u] /\ n \in Range(added_nodes[u][j])
        BY <2>0, <4>1 DEF EntriesOfInserts
      <4>3. u = t
        BY <2>14, <4>2
      <4>4. j # i
        BY <2>6, <3>1, <4>2, <4>3 DEF es
      <4>5. j < i
        BY <2>1, <4>2, <4>3, <4>4, IndexFacts
      <4> QED
        BY <2>5, <2>13, <2>14, <4>2, <4>3, <4>5
    <3> QED
      BY <1>2, <3>2, <3>3 DEF EntriesOfInserts
  <2>17. RevertsRemoveLeaves'
    <3> SUFFICES ASSUME fault' \in {"inner_entry", "freed_parent", "wrong_parent"}
                 PROVE  \E j \in Index : \E n, m \in DOMAIN index'[j].node :
                           /\ index'[j].node[n].row > count' /\ index'[j].node[m].row <= count'
                           /\ index'[j].node[m].parent = n
      BY DEF RevertsRemoveLeaves
    <3>1. Stuck(es, r.tree, r.fault)
      BY <2>4, <2>5 DEF Reverting, Alive
    <3>2. PICK n \in Range(es) \cap DOMAIN r.tree.node, m \in DOMAIN r.tree.node \ Range(es) :
             r.tree.node[m].parent = n
      BY <2>5, <3>1 DEF Stuck
    <3>3. r.tree.node[n].row > count
      <4>1. PICK q \in DOMAIN es : n = es[q]
        BY <3>2 DEF Range
      <4>2. n \in DOMAIN index[i].node /\ r.tree.node[n].row = index[i].node[n].row
        BY <2>8, <3>2
      <4> QED
        BY <2>3, <4>1, <4>2
    <3>4. r.tree.node[m].row <= count
      <4>1. m \in DOMAIN index[i].node /\ r.tree.node[m].row = index[i].node[m].row
        BY <2>8, <3>2
      <4>2. ~(index[i].node[m].row > count)
        BY <2>0, <2>1, <2>14, <3>2, <4>1 DEF EntriesOfInserts, es
      <4> QED
        BY <2>1, <2>10, <4>1, <4>2
    <3> QED
      BY <1>2, <2>1, <2>6, <3>2, <3>3, <3>4
  <2>18. StatementsOK'
    <3> SUFFICES ASSUME NEW u \in Tx
                 PROVE  StatementOK(u)'
      BY DEF StatementsOK
    <3>1. StatementOK(u)
      BY <2>0 DEF StatementsOK
    <3>2. CASE u = t
      <4>1. ChunkFor(u)' = ChunkFor(u) /\ (NewRows(u) => NewRows(u)') /\ (FoundRows(u) => FoundRows(u)')
        BY <1>2, <2>5 DEF ChunkFor, tail_chunk, NewRows, FoundRows
      <4> QED
        BY <1>1, <1>3, <2>5, <3>1, <3>2, <4>1 DEF StatementOK
    <3>3. CASE u # t
      BY <1>1, <1>2, <2>5, <2>13, <3>1, <3>3, StatementKept
    <3> QED
      BY <3>2, <3>3
  <2>19. TypeInv'
    <3>1. fault' \in {Alive, "chunk_of_no_row", "no_entry", "inner_entry", "freed_parent", "wrong_parent"}
      BY <2>4, <2>5 DEF Reverting, Stuck
    <3>2. current_index' \in [Tx -> 1..Len(AllowNulls) + 1]
      BY <2>0, <2>1, <2>5, IndexFacts DEF TypeInv
    <3> QED
      BY <1>1, <1>2, <2>0, <2>5, <3>1, <3>2 DEF TypeInv
  <2> QED
    BY <2>9, <2>12, <2>15, <2>16, <2>17, <2>18, <2>19 DEF IInv
<1> QED
  BY <1>5, <1>6

LEMMA FilledType ==
  ASSUME TypeInv, NEW t \in Tx, StatementOK(t), phase[t] \in {"indexing", "writing"},
         statement[t].kind \in {"insert", "update"}, NEW j \in DOMAIN statement[t].rows,
         NEW old \in Values
  PROVE  /\ Filled(t, j, old) \in Values
         /\ statement[t].kind = "insert" => Filled(t, j, old) = statement[t].keys[j]
         /\ statement[t].rows[j] \in Row /\ j \in DOMAIN statement[t].keys
<1> DEFINE s == statement[t]
<1>1. s.rows \in Seq(Row) /\ s.keys \in Seq([Column -> Nat \cup {Keep}])
  BY DEF TypeInv, Statement
<1>2. s.rows[j] \in Row
  BY <1>1
<1>3. CASE s.kind = "insert"
  <2>1. s.keys \in Seq(Values) /\ NewRows(t)
    BY <1>3 DEF StatementOK
  <2>2. j \in DOMAIN s.keys
    BY <2>1 DEF NewRows
  <2>3. s.keys[j] \in Values
    BY <2>1, <2>2
  <2> QED
    BY <1>2, <1>3, <2>2, <2>3 DEF Filled
<1>4. CASE s.kind = "update"
  <2>1. j \in DOMAIN s.keys
    BY <1>4 DEF StatementOK
  <2>2. s.keys[j] \in [Column -> Nat \cup {Keep}]
    BY <1>1, <2>1
  <2>3. old \in [Column -> Nat]
    BY DEF Values
  <2>4. Filled(t, j, old) = [c \in Column |-> IF s.keys[j][c] = Keep THEN old[c] ELSE s.keys[j][c]]
    BY <1>4 DEF Filled
  <2> HIDE DEF s
  <2>5. [c \in Column |-> IF s.keys[j][c] = Keep THEN old[c] ELSE s.keys[j][c]] \in [Column -> Nat]
    BY <2>2, <2>3
  <2> QED
    BY <1>2, <1>4, <2>1, <2>4, <2>5 DEF s, Values
<1> QED
  BY <1>3, <1>4

LEMMA WrittenType ==
  ASSUME TypeInv, NEW t \in Tx, StatementOK(t), phase[t] \in {"indexing", "writing"},
         statement[t].kind \in {"insert", "update"}, NEW j \in DOMAIN statement[t].rows
  PROVE  /\ Written(t, j) \in Values
         /\ statement[t].kind = "insert" => Written(t, j) = statement[t].keys[j]
         /\ statement[t].rows[j] \in Row /\ j \in DOMAIN statement[t].keys
<1>1. statement[t].rows \in Seq(Row)
  BY DEF TypeInv, Statement
<1>2. data[statement[t].rows[j]] \in Values
  BY <1>1 DEF TypeInv
<1> QED
  BY <1>2, FilledType DEF Written

\* What EnterKeys calls AddEntries with.
EnteredKeys(t, i, reads) == [j \in DOMAIN statement[t].rows |-> KeyOf(i, Tuples(t, reads)[j])]

\* What a call reads of the rows of its statement.
OwnRead(t, reads) ==
    \A j \in DOMAIN statement[t].rows : reads[j][statement[t].rows[j]].data \in Values

LEMMA EnteredBatch ==
  ASSUME TypeInv, NEW t \in Tx, StatementOK(t), phase[t] = "indexing",
         NEW i \in Index, NEW reads, OwnRead(t, reads),
         ~DuplicateTuples(t, i, Tuples(t, reads))
  PROVE  /\ Batch(i, EnteredKeys(t, i, reads), statement[t].rows)
         /\ statement[t].kind = "insert" => EnteredKeys(t, i, reads) = NewKeys(t, i)
<1> DEFINE s == statement[t]
           ks == EnteredKeys(t, i, reads)
           tuples == Tuples(t, reads)
<1>1. s.kind \in {"insert", "update"} /\ s.rows \in Seq(Row)
  BY DEF TypeInv, Statement, StatementOK
<1>2. ASSUME NEW j \in DOMAIN s.rows
      PROVE  tuples[j] \in Values /\ ks[j] = KeyOf(i, tuples[j]) /\ ks[j] \in Key(i) \cup {NoKey}
  <2>1. tuples[j] \in Values
    BY <1>1, FilledType DEF OwnRead, Tuples
  <2> QED
    BY <2>1, KeyOfType DEF EnteredKeys
<1>3. Len(s.rows) \in Nat /\ DOMAIN s.rows = 1..Len(s.rows) /\ DOMAIN ks = DOMAIN s.rows
  BY <1>1 DEF EnteredKeys
<1>4. ks \in Seq(Key(i) \cup {NoKey})
  <2>1. ks = [j \in 1..Len(s.rows) |-> ks[j]]
    BY <1>3 DEF EnteredKeys
  <2> HIDE DEF ks
  <2>2. ks \in [1..Len(s.rows) -> Key(i) \cup {NoKey}]
    BY <1>2, <1>3, <2>1
  <2> QED
    BY <1>3, <2>2
<1>5. ASSUME NEW j \in DOMAIN ks, NEW o \in 1..j - 1, ks[j] # NoKey, ks[o] = ks[j]
      PROVE  s.rows[o] > count
  <2>1. o \in DOMAIN s.rows /\ j \in DOMAIN s.rows /\ o < j
    BY <1>3
  <2>2. CASE s.kind = "insert"
    <3>1. NewRows(t)
      BY <2>2 DEF StatementOK
    <3>2. s.rows[o] = count + o /\ o \in Nat \ {0} /\ count \in Nat
      BY <1>3, <2>1, <3>1, SizeAssumption DEF NewRows, TypeInv
    <3> QED
      BY <3>2
  <2>3. CASE s.kind = "update"
    <3>1. \A c \in Range(Keys[i]) : tuples[o][c] = tuples[j][c]
      BY <1>2, <1>5, <2>1, KeyOfEqual
    <3>2. DuplicateTuples(t, i, tuples)
      BY <2>1, <2>3, <3>1 DEF DuplicateTuples
    <3> QED
      BY <3>2
  <2> QED
    BY <1>1, <2>2, <2>3
<1>6. s.kind = "insert" => ks = NewKeys(t, i)
  <2> SUFFICES ASSUME s.kind = "insert"
               PROVE  ks = NewKeys(t, i)
    OBVIOUS
  <2>1. \A j \in DOMAIN s.rows : tuples[j] = s.keys[j]
    BY <1>1, FilledType DEF OwnRead, Tuples
  <2> QED
    BY <2>1 DEF EnteredKeys, NewKeys
<1> QED
  BY <1>1, <1>3, <1>4, <1>5, <1>6 DEF Batch

\* One index further.
LEMMA AdvanceKeeps ==
  ASSUME TypeInv, StatementsOK, NEW t \in Tx, phase[t] = "indexing", NEW added \in Seq(Nat),
         Advance(t, added), UNCHANGED <<commit_id, count>>
  PROVE  LET i == current_index[t]
         IN /\ StatementsOK'
            /\ UNCHANGED <<statement, exclusive_lock>>
            /\ current_index' \in [Tx -> 1..Len(AllowNulls) + 1]
            /\ added_nodes' \in [Tx -> [Index -> Seq(Nat)]]
            /\ phase' \in [Tx -> {"idle", "ready", "locking", "indexing", "reverting",
                                  "writing", "failed", "undoing", "done"}]
            /\ phase'[t] \in {"indexing", "writing"}
            /\ current_index'[t] = i + 1 /\ added_nodes'[t][i] = added
            /\ \A j \in Index : j # i => added_nodes'[t][j] = added_nodes[t][j]
            /\ \A u \in Tx : u # t => /\ phase'[u] = phase[u] /\ current_index'[u] = current_index[u]
                                      /\ added_nodes'[u] = added_nodes[u]
<1> DEFINE i == current_index[t]
<1>1. /\ current_index' = [current_index EXCEPT ![t] = @ + 1]
      /\ added_nodes' = [added_nodes EXCEPT ![t][i] = added]
      /\ phase' = [phase EXCEPT ![t] = IF i = Len(Keys) THEN "writing" ELSE "indexing"]
      /\ UNCHANGED <<statement, exclusive_lock>>
  BY DEF Advance, Goto
<1>2. StatementOK(t) /\ i \in Index /\ statement[t].kind # "delete"
  BY DEF StatementsOK, StatementOK
<1>3. /\ phase'[t] = IF i = Len(Keys) THEN "writing" ELSE "indexing"
      /\ current_index'[t] = i + 1
      /\ \A u \in Tx : u # t => phase'[u] = phase[u] /\ current_index'[u] = current_index[u]
  BY <1>1 DEF TypeInv
<1>4. /\ added_nodes'[t][i] = added
      /\ \A j \in Index : j # i => added_nodes'[t][j] = added_nodes[t][j]
      /\ \A u \in Tx : u # t => added_nodes'[u] = added_nodes[u]
      /\ added_nodes' \in [Tx -> [Index -> Seq(Nat)]]
  <2> DEFINE nodes == Seq(Nat)
  <2>1. added_nodes \in [Tx -> [Index -> nodes]] /\ added \in nodes
    BY DEF TypeInv
  <2> HIDE DEF nodes, i
  <2>2. added_nodes' \in [Tx -> [Index -> nodes]]
    BY <1>1, <1>2, <2>1
  <2>3. /\ added_nodes'[t][i] = added
        /\ \A j \in Index : j # i => added_nodes'[t][j] = added_nodes[t][j]
        /\ \A u \in Tx : u # t => added_nodes'[u] = added_nodes[u]
    BY <1>1, <1>2, <2>1
  <2> QED
    BY <2>2, <2>3 DEF nodes
<1>5. /\ current_index' \in [Tx -> 1..Len(AllowNulls) + 1]
      /\ phase' \in [Tx -> {"idle", "ready", "locking", "indexing", "reverting",
                            "writing", "failed", "undoing", "done"}]
  BY <1>1, <1>2, IndexFacts DEF TypeInv
<1>6. StatementsOK'
  <2> SUFFICES ASSUME NEW u \in Tx
               PROVE  StatementOK(u)'
    BY DEF StatementsOK
  <2>1. CASE u = t
    <3>1. ChunkFor(t)' = ChunkFor(t) /\ (NewRows(t) => NewRows(t)') /\ (FoundRows(t) => FoundRows(t)')
      BY <1>1 DEF ChunkFor, tail_chunk, NewRows, FoundRows
    <3>2. i # Len(Keys) => i + 1 \in Index
      BY <1>2, IndexFacts
    <3>3. i = Len(Keys) => i + 1 = Len(Keys) + 1
      OBVIOUS
    <3> HIDE DEF i
    <3> QED
      BY <1>1, <1>2, <1>3, <2>1, <3>1, <3>2, <3>3 DEF StatementOK
  <2>2. CASE u # t
    BY <1>1, <1>3, <2>2, StatementKept DEF StatementsOK
  <2> QED
    BY <2>1, <2>2
<1> QED
  BY <1>1, <1>3, <1>4, <1>5, <1>6

\* What EnterKeys makes of the tree of index i.
Indexed(t, i, reads, next, added, outcome) ==
    /\ SearchTree(next, i)
    /\ \A n \in DOMAIN index[i].node : /\ n \in DOMAIN next.node
                                       /\ next.node[n].key = index[i].node[n].key
                                       /\ next.node[n].row = index[i].node[n].row
    /\ \A es \in Seq(Nat) : \A keys, rs : Entered(index[i], es, keys, rs) => Entered(next, es, keys, rs)
    /\ added \in Seq(Nat)
    /\ outcome \in {"going", "refused", "died"}
    /\ outcome = "refused" => next = index[i]
    /\ outcome = "going" => /\ DOMAIN added = DOMAIN statement[t].rows
                            /\ Entered(next, added, EnteredKeys(t, i, reads), statement[t].rows)
                            /\ DOMAIN next.node = DOMAIN index[i].node \cup (Range(added) \ {Null})

LEMMA AddEntriesIndexed ==
  ASSUME NEW t, NEW i \in Index, NEW reads, NEW ignored,
         NEW tree, NEW added, NEW outcome, NEW compared, NEW passed,
         SearchTree(index[i], i), Batch(i, EnteredKeys(t, i, reads), statement[t].rows),
         AddResult(t, i, EnteredKeys(t, i, reads), statement[t].rows, reads, ignored, tree, added, outcome, compared, passed)
  PROVE  /\ Indexed(t, i, reads, IF outcome = "refused" THEN index[i] ELSE tree, added, outcome)
         /\ compared \subseteq DOMAIN index[i].node /\ passed \subseteq compared
<1> DEFINE ks == EnteredKeys(t, i, reads)
           rows == statement[t].rows
<1>1. /\ EntriesAdded(t, i, ks, rows, reads, ignored, tree, added, compared, passed)
      /\ outcome \in {"going", "refused", "died"}
      /\ outcome = "going" => Len(added) = Len(ks)
  BY DEF AddResult, Adding
<1>2. DOMAIN rows = DOMAIN ks /\ Len(ks) \in Nat /\ DOMAIN ks = 1..Len(ks)
  BY DEF Batch
<1> HIDE DEF ks, rows
<1>3. /\ SearchTree(tree, i) /\ added \in Seq(Nat)
      /\ DOMAIN tree.node = DOMAIN index[i].node \cup (Range(added) \ {Null})
      /\ \A n \in DOMAIN index[i].node : /\ tree.node[n].key = index[i].node[n].key
                                         /\ tree.node[n].row = index[i].node[n].row
      /\ Entered(tree, added, ks, rows)
      /\ \A es \in Seq(Nat) : \A keys, rs :
            Entered(index[i], es, keys, rs) => Entered(tree, es, keys, rs)
      /\ compared \subseteq DOMAIN index[i].node /\ passed \subseteq compared
  BY <1>1 DEF EntriesAdded
<1>4. DOMAIN added = 1..Len(added)
  BY <1>3
<1>5. CASE outcome = "refused"
  BY <1>1, <1>3, <1>5 DEF Indexed
<1>6. CASE outcome # "refused"
  <2>1. Indexed(t, i, reads, tree, added, outcome)
    <3>1. outcome = "going" => /\ DOMAIN added = DOMAIN rows /\ Entered(tree, added, ks, rows)
                               /\ DOMAIN tree.node = DOMAIN index[i].node \cup (Range(added) \ {Null})
      BY <1>1, <1>2, <1>3, <1>4
    <3>2. \A n \in DOMAIN index[i].node : /\ n \in DOMAIN tree.node
                                          /\ tree.node[n].key = index[i].node[n].key
                                          /\ tree.node[n].row = index[i].node[n].row
      BY <1>3
    <3>3. \A es \in Seq(Nat) : \A keys, rs :
             Entered(index[i], es, keys, rs) => Entered(tree, es, keys, rs)
      BY <1>3
    <3>4. SearchTree(tree, i) /\ added \in Seq(Nat) /\ outcome \in {"going", "refused", "died"}
          /\ (outcome = "refused" => tree = index[i])
      BY <1>1, <1>3, <1>6
    <3> QED
      BY <3>1, <3>2, <3>3, <3>4, Zenon DEF Indexed, ks, rows
  <2> QED
    BY <1>3, <1>6, <2>1
<1> QED
  BY <1>5, <1>6

\* The entries stay what the invariant says, whatever the outcome.
LEMMA IndexedKeeps ==
  ASSUME IInv, fault = Alive, NEW t \in Tx, phase[t] = "indexing",
         NEW i \in Index, i = current_index[t],
         NEW reads, NEW next, NEW added, NEW outcome, Indexed(t, i, reads, next, added, outcome),
         index' = [index EXCEPT ![i] = next],
         UNCHANGED <<rowState, commit_id>>, dirty \subseteq dirty',
         \A x \in IgnoredIdentifiers(t) : InConflict(t, x) => x \in dirty',
         statement[t].kind = "update" =>
            \A j \in DOMAIN statement[t].rows : statement[t].rows[j] \notin dirty' =>
               Tuples(t, reads)[j] = Written(t, j),
         statement[t].kind = "insert" => EnteredKeys(t, i, reads) = NewKeys(t, i),
         fault' = IF outcome = "died" THEN "chunk_of_no_row" ELSE Alive,
         outcome # "refused" => /\ statement'[t] = statement[t]
                                /\ current_index'[t] = i + 1
                                /\ added_nodes'[t][i] = added
                                /\ phase'[t] \in {"indexing", "writing"}
                                /\ \A j \in Index : j # i => added_nodes'[t][j] = added_nodes[t][j],
         outcome = "refused" /\ statement[t].kind = "insert" =>
                                /\ statement'[t] = statement[t]
                                /\ current_index'[t] = i
                                /\ added_nodes'[t] = added_nodes[t]
                                /\ phase'[t] = "reverting",
         outcome = "refused" /\ statement[t].kind # "insert" => phase'[t] = "ready",
         \A u \in Tx : u # t => /\ phase'[u] = phase[u] /\ statement'[u] = statement[u]
                                /\ current_index'[u] = current_index[u]
                                /\ added_nodes'[u] = added_nodes[u]
  PROVE  /\ TreesOK' /\ EntriesOfInserts' /\ VersionsHaveEntries' /\ UpdatesHaveEntries'
         /\ RevertsRemoveLeaves'
<1> DEFINE ks == EnteredKeys(t, i, reads)
           rows == statement[t].rows
<1>0. TypeInv /\ TreesOK /\ StatementsOK /\ EntriesOfInserts /\ VersionsHaveEntries /\ UpdatesHaveEntries
  BY DEF IInv
<1>1. data' = data /\ deleted' = deleted /\ count' = count /\ chain' = chain
  BY DEF rowState
<1>2. DOMAIN index' = Index /\ index'[i] = next /\ \A j \in Index : j # i => index'[j] = index[j]
  BY <1>0 DEF TreesOK
<1>3. /\ SearchTree(next, i)
      /\ \A n \in DOMAIN index[i].node : /\ n \in DOMAIN next.node
                                         /\ next.node[n].key = index[i].node[n].key
                                         /\ next.node[n].row = index[i].node[n].row
      /\ outcome \in {"going", "refused", "died"}
      /\ outcome = "refused" => next = index[i]
  BY DEF Indexed
<1>4. outcome = "going" => /\ DOMAIN added = DOMAIN rows /\ Entered(next, added, ks, rows)
                           /\ DOMAIN next.node = DOMAIN index[i].node \cup (Range(added) \ {Null})
  BY DEF Indexed
<1>5. TreesOK'
  BY <1>0, <1>2, <1>3 DEF TreesOK
<1>6. \A j \in Index : \A n \in DOMAIN index[j].node : /\ n \in DOMAIN index'[j].node
                                                        /\ index'[j].node[n].key = index[j].node[n].key
                                                        /\ index'[j].node[n].row = index[j].node[n].row
  BY <1>2, <1>3
<1>7. /\ \A j \in Index : \A r \in 1..count : \A row : HasEntry(j, r, row) => HasEntry(j, r, row)'
      /\ VersionsHaveEntries'
  BY <1>6, EntriesKeep
<1>8. RevertsRemoveLeaves'
  BY DEF RevertsRemoveLeaves, Alive
<1>9. StatementOK(t) /\ statement[t].kind \in {"insert", "update"} /\ i + 1 > i
  BY <1>0, IndexFacts DEF StatementsOK, StatementOK, TypeInv, Statement
<1>10. \A u \in Tx : Inserting(u) => Inserting(u)' /\ statement'[u] = statement[u]
  BY <1>3 DEF Inserting
<1>11. \A u \in Tx : Inserting(u)' => Inserting(u)
  <2> SUFFICES ASSUME NEW u \in Tx, Inserting(u)'
               PROVE  Inserting(u)
    OBVIOUS
  <2>1. CASE u = t
    BY <1>3, <2>1 DEF Inserting
  <2>2. CASE u # t
    BY <2>2 DEF Inserting
  <2> QED
    BY <2>1, <2>2
<1>12. ASSUME fault' = Alive, NEW u \in Tx, Inserting(u)', NEW j \in Index, j < current_index'[u]
       PROVE  /\ DOMAIN added_nodes'[u][j] = DOMAIN statement'[u].keys
              /\ Entered(index'[j], added_nodes'[u][j], NewKeys(u, j)', statement'[u].rows)
  <2>1. Inserting(u) /\ statement'[u] = statement[u]
    BY <1>10, <1>11, <1>12
  <2>2. NewKeys(u, j)' = NewKeys(u, j)
    BY <2>1 DEF NewKeys
  <2>3. CASE u = t /\ j = i
    <3>1. outcome = "going"
      BY <1>3, <1>9, <1>12, <2>1, <2>3, IndexFacts DEF Alive, Inserting
    <3>2. NewRows(t) /\ statement[t].kind = "insert"
      BY <1>9, <2>1, <2>3 DEF StatementOK, Inserting
    <3>3. DOMAIN added = DOMAIN statement[t].keys
      BY <1>4, <3>1, <3>2 DEF NewRows
    <3>4. added_nodes'[t][i] = added /\ ks = NewKeys(t, i)
      BY <3>1, <3>2
    <3> QED
      BY <1>2, <1>4, <2>1, <2>2, <2>3, <3>1, <3>3, <3>4
  <2>4. CASE ~(u = t /\ j = i)
    <3>1. added_nodes'[u][j] = added_nodes[u][j] /\ j < current_index[u]
      <4>1. CASE u # t
        BY <1>12, <4>1
      <4>2. CASE u = t /\ outcome = "refused"
        BY <1>12, <2>1, <4>2 DEF Inserting
      <4>3. CASE u = t /\ outcome # "refused"
        <5>1. j < i + 1 /\ j # i
          BY <1>12, <2>4, <4>3
        <5>2. j < i
          BY <5>1, IndexFacts
        <5> QED
          BY <2>4, <4>3, <5>2
      <4> QED
        BY <4>1, <4>2, <4>3
    <3>2. /\ DOMAIN added_nodes[u][j] = DOMAIN statement[u].keys
          /\ Entered(index[j], added_nodes[u][j], NewKeys(u, j), statement[u].rows)
      BY <1>0, <2>1, <3>1 DEF EntriesOfInserts
    <3>3. added_nodes[u][j] \in Seq(Nat)
      BY <1>0 DEF TypeInv
    <3>4. Entered(index'[j], added_nodes[u][j], NewKeys(u, j), statement[u].rows)
      BY <1>2, <3>2, <3>3 DEF Indexed
    <3> QED
      BY <2>1, <2>2, <3>1, <3>2, <3>4
  <2> QED
    BY <2>3, <2>4
<1>13. ASSUME fault' = Alive, NEW j \in Index, NEW n \in DOMAIN index'[j].node, index'[j].node[n].row > count
       PROVE  \E u \in Tx : Inserting(u)' /\ j < current_index'[u] /\ n \in Range(added_nodes'[u][j])
  <2>1. CASE n \in DOMAIN index[j].node
    <3>1. index[j].node[n].row > count
      BY <1>6, <1>13, <2>1
    <3>2. PICK u \in Tx : Inserting(u) /\ j < current_index[u] /\ n \in Range(added_nodes[u][j])
      BY <1>0, <2>1, <3>1 DEF EntriesOfInserts
    <3>3. CASE u # t
      BY <1>10, <3>2, <3>3
    <3>4. CASE u = t
      <4>1. j < i /\ j # i /\ j < i + 1
        BY <3>2, <3>4, IndexFacts
      <4>2. j < current_index'[t] /\ added_nodes'[t][j] = added_nodes[t][j]
        BY <1>9, <3>2, <3>4, <4>1 DEF Inserting
      <4> QED
        BY <1>10, <3>2, <3>4, <4>2
    <3> QED
      BY <3>3, <3>4
  <2>2. CASE n \notin DOMAIN index[j].node
    <3>1. j = i /\ outcome = "going"
      BY <1>2, <1>3, <1>13, <2>2 DEF Alive
    <3>2. n \in Range(added) /\ n # Null
      BY <1>2, <1>4, <1>13, <2>2, <3>1
    <3>3. PICK q \in DOMAIN added : n = added[q]
      BY <3>2 DEF Range
    <3>4. next.node[n].row = rows[q] /\ q \in DOMAIN rows
      <4>1. \A p \in DOMAIN added :
               IF ks[p] = NoKey THEN added[p] = Null
               ELSE /\ added[p] \in DOMAIN next.node /\ next.node[added[p]].row = rows[p]
                    /\ next.node[added[p]].key = ks[p]
        <5> HIDE DEF ks, rows
        <5> QED
          BY <1>4, <3>1, EnteredLeads
      <4> QED
        BY <1>4, <3>1, <3>2, <3>3, <4>1
    <3>5. statement[t].kind = "insert"
      <4> SUFFICES ASSUME statement[t].kind = "update"
                   PROVE  FALSE
        BY <1>9
      <4>1. rows[q] <= count /\ rows \in Seq(Row)
        BY <1>0, <1>9, <3>4 DEF StatementOK, FoundRows, TypeInv, Statement
      <4>2. rows[q] \in Row
        BY <3>4, <4>1
      <4>3. rows[q] \in Nat /\ count \in Nat
        BY <1>0, <4>2, SizeAssumption DEF TypeInv, Row
      <4> QED
        BY <1>2, <1>13, <3>1, <3>4, <4>1, <4>3
    <3>6. Inserting(t)
      BY <3>5 DEF Inserting
    <3>7. i < current_index'[t] /\ added_nodes'[t][i] = added
      BY <1>9, <3>1
    <3> QED
      BY <1>10, <3>1, <3>2, <3>6, <3>7
  <2> QED
    BY <2>1, <2>2
<1>14. EntriesOfInserts'
  BY <1>1, <1>12, <1>13 DEF EntriesOfInserts
<1>15. UpdatesHaveEntries'
  <2> SUFFICES ASSUME fault' = Alive, NEW u \in Tx, Updating(u)', NEW j \in Index,
                      (j < current_index[u] /\ Affected(u, j))'
               PROVE  UpdateEntered(u, j)'
    BY DEF UpdatesHaveEntries
  <2>1. Updating(u) /\ statement'[u] = statement[u]
    <3>1. CASE u # t
      BY <3>1 DEF Updating
    <3>2. CASE u = t
      <4>1. phase'[t] \in {"indexing", "writing"}
        BY <3>2 DEF Updating
      <4>2. outcome # "refused"
        BY <1>9, <4>1
      <4> QED
        BY <3>2, <4>2 DEF Updating
    <3> QED
      BY <3>1, <3>2
  <2>2. Affected(u, j)
    BY <2>1 DEF Affected
  <2>3. CASE u = t /\ j = i
    <3>1. statement[t].kind = "update"
      BY <2>1, <2>3 DEF Updating
    <3>2. outcome = "going"
      <4>1. outcome # "refused"
        BY <2>3, <3>1 DEF Updating
      <4> QED
        BY <1>3, <4>1 DEF Alive
    <3> SUFFICES ASSUME NEW q \in DOMAIN rows, rows[q] \notin dirty'
                 PROVE  HasEntry(i, rows[q], Written(t, q))' /\ ~InConflict(t, rows[q])'
      BY <2>1, <2>3 DEF UpdateEntered
    <3>3. Written(t, q)' = Written(t, q) /\ statement'[t] = statement[t]
      BY <1>1, <2>1, <2>3 DEF Written, Filled
    <3>4. ks[q] = KeyOf(i, Written(t, q)) /\ q \in DOMAIN added
      BY <1>4, <3>1, <3>2 DEF EnteredKeys
    <3>5. KeyOf(i, Written(t, q)) # NoKey =>
             added[q] \in DOMAIN next.node /\ next.node[added[q]].row = rows[q] /\ next.node[added[q]].key = ks[q]
      <4>1. \A p \in DOMAIN added :
               IF ks[p] = NoKey THEN added[p] = Null
               ELSE /\ added[p] \in DOMAIN next.node /\ next.node[added[p]].row = rows[p]
                    /\ next.node[added[p]].key = ks[p]
        <5> HIDE DEF ks, rows
        <5> QED
          BY <1>4, <3>2, EnteredLeads
      <4> QED
        BY <3>4, <4>1
    <3>6. HasEntry(i, rows[q], Written(t, q))'
      BY <1>2, <3>3, <3>4, <3>5 DEF HasEntry
    <3>7. ~InConflict(t, rows[q])
      BY <3>1 DEF IgnoredIdentifiers, Range
    <3>8. ~InConflict(t, rows[q])'
      BY <1>1, <3>3, <3>7 DEF InConflict, Uncommitted, Number
    <3> QED
      BY <3>6, <3>8
  <2>4. CASE ~(u = t /\ j = i)
    <3>1. j < current_index[u]
      <4>1. CASE u # t
        BY <4>1
      <4>2. CASE u = t
        <5>1. outcome # "refused"
          BY <1>9, <2>1, <4>2 DEF Updating
        <5>2. j < i + 1 /\ j # i
          BY <2>4, <4>2, <5>1
        <5> QED
          BY <4>2, <5>2, IndexFacts
      <4> QED
        BY <4>1, <4>2
    <3>2. UpdateEntered(u, j)
      BY <1>0, <2>1, <2>2, <3>1 DEF UpdatesHaveEntries
    <3> QED
      BY <1>7, <2>1, <3>2, UpdateKept
  <2> QED
    BY <2>3, <2>4
<1> QED
  BY <1>5, <1>7, <1>8, <1>14, <1>15

\* What a call may still read, and what it reads, are readings of rows.
LEMMA ReadableTypes ==
  ASSUME TypeInv, NEW t \in Tx
  PROVE  /\ [earlier EXCEPT ![t] = NoneEarlier] \in [Tx -> [Row -> SUBSET Reading]]
         /\ \A i : StillReadable(t, i) \in [Tx -> [Row -> SUBSET Reading]]
         /\ \A read \in Readings(t) : \A r \in Row : read[r] \in Reading
<1> DEFINE Held == SUBSET Reading
<1>1. earlier \in [Tx -> [Row -> Held]] /\ {} \in Held
  BY DEF TypeInv
<1>2. \A r \in Row : Now(r) \in Reading
  BY DEF TypeInv, Now, Reading, Values
<1>3. \A r \in Row : earlier[t][r] \subseteq Reading
  BY <1>1
<1> HIDE DEF Held
<1>4. NoneEarlier \in [Row -> Held]
  BY <1>1 DEF NoneEarlier
<1>5. [earlier EXCEPT ![t] = NoneEarlier] \in [Tx -> [Row -> Held]]
  BY <1>1, <1>4
<1>6. ASSUME NEW i
      PROVE  StillReadable(t, i) \in [Tx -> [Row -> Held]]
  <2> DEFINE others(u) == [r \in Row |-> IF r \in IgnoredIdentifiers(u) THEN earlier[u][r] ELSE {}]
             of(u) == CASE u = t -> NoneEarlier
                        [] u # t /\ current_index[u] = i -> others(u)
                        [] OTHER -> earlier[u]
  <2>1. \A u \in Tx : others(u) \in [Row -> Held]
    BY <1>1
  <2> HIDE DEF others
  <2>2. \A u \in Tx : of(u) \in [Row -> Held]
    BY <1>1, <1>4, <2>1
  <2>3. StillReadable(t, i) = [u \in Tx |-> of(u)]
    BY DEF StillReadable, others
  <2> HIDE DEF of
  <2> QED
    BY <2>2, <2>3
<1>7. ASSUME NEW r \in Row, NEW x \in Readable(t, r)
      PROVE  x \in Reading
  <2> DEFINE held == earlier[t][r] \cup {Now(r)}
  <2>1. held \subseteq Reading
    BY <1>2, <1>3
  <2> HIDE DEF held
  <2>2. PICK h \in held, from \in [Column -> held] :
           x = [deleted |-> h.deleted, data |-> [c \in Column |-> from[c].data[c]]]
    BY DEF Readable, held
  <2>3. h.deleted \in BOOLEAN /\ \A c \in Column : from[c].data \in [Column -> Nat]
    BY <2>1 DEF Reading
  <2>4. [c \in Column |-> from[c].data[c]] \in [Column -> Nat]
    BY <2>3
  <2> QED
    BY <2>2, <2>3, <2>4 DEF Reading
<1>8. ASSUME NEW read \in Readings(t), NEW r \in Row
      PROVE  read[r] \in Reading
  <2> DEFINE undone == {x \in Row : earlier[t][x] # {}}
  <2>1. PICK f : /\ \A x \in undone : f[x] \in Readable(t, x)
                 /\ read = [x \in Row |-> IF x \in undone THEN f[x] ELSE Now(x)]
    BY DEF Readings
  <2>2. read[r] = IF r \in undone THEN f[r] ELSE Now(r)
    BY <2>1
  <2> QED
    BY <1>2, <1>7, <2>1, <2>2
<1> QED
  BY <1>5, <1>6, <1>8 DEF Held

LEMMA EnterNothingKeeps ==
  ASSUME IInv, fault = Alive, NEW t \in Tx, phase[t] = "indexing",
         UNCHANGED <<clock, start_time, commit_id, issued, rowState, clobbered,
                     index, read_count, fault, unlocked, dirty, torn>>,
         earlier' = [earlier EXCEPT ![t] = NoneEarlier],
         statement[t].kind # "insert",
         \/ ~Affected(t, current_index[t]) /\ Advance(t, << >>)
         \/ ToReady(t) /\ Release(ChunkFor(t))
  PROVE  IInv'
<1> DEFINE i == current_index[t]
<1>0. TypeInv /\ TreesOK /\ StatementsOK /\ EntriesOfInserts /\ VersionsHaveEntries /\ UpdatesHaveEntries
      /\ RevertsRemoveLeaves
  BY DEF IInv
<1>1. data' = data /\ deleted' = deleted /\ count' = count /\ chain' = chain /\ count' \in Nat
  BY <1>0, SizeAssumption DEF rowState, TypeInv
<1>2. /\ StatementsOK'
      /\ statement' \in [Tx -> Statement] /\ current_index' \in [Tx -> 1..Len(AllowNulls) + 1]
      /\ added_nodes' \in [Tx -> [Index -> Seq(Nat)]]
      /\ phase' \in [Tx -> {"idle", "ready", "locking", "indexing", "reverting",
                            "writing", "failed", "undoing", "done"}]
      /\ exclusive_lock' \in [Chunk -> Tx \cup {NoTx}]
      /\ \/ phase'[t] = "ready"
         \/ /\ statement'[t] = statement[t] /\ current_index'[t] = i + 1 /\ ~Affected(t, i)
            /\ phase'[t] \in {"indexing", "writing"}
      /\ \A u \in Tx : u # t => /\ phase'[u] = phase[u] /\ statement'[u] = statement[u]
                                /\ current_index'[u] = current_index[u]
                                /\ added_nodes'[u] = added_nodes[u]
  <2>1. CASE ToReady(t) /\ Release(ChunkFor(t))
    BY <1>0, <1>1, <2>1, ReadyKeeps
  <2>2. CASE ~Affected(t, i) /\ Advance(t, << >>)
    <3>1. << >> \in Seq(Nat)
      OBVIOUS
    <3>2. /\ StatementsOK'
          /\ UNCHANGED <<statement, exclusive_lock>>
          /\ current_index' \in [Tx -> 1..Len(AllowNulls) + 1]
          /\ added_nodes' \in [Tx -> [Index -> Seq(Nat)]]
          /\ phase' \in [Tx -> {"idle", "ready", "locking", "indexing", "reverting",
                                "writing", "failed", "undoing", "done"}]
          /\ phase'[t] \in {"indexing", "writing"}
          /\ current_index'[t] = i + 1
          /\ \A u \in Tx : u # t => /\ phase'[u] = phase[u] /\ current_index'[u] = current_index[u]
                                    /\ added_nodes'[u] = added_nodes[u]
      BY <1>0, <1>1, <2>2, <3>1, AdvanceKeeps
    <3>3. statement' \in [Tx -> Statement] /\ exclusive_lock' \in [Chunk -> Tx \cup {NoTx}]
      BY <1>0, <3>2 DEF TypeInv
    <3> QED
      BY <2>2, <3>2, <3>3
  <2> QED
    BY <2>1, <2>2
<1>3. TypeInv'
  <2>1. earlier' \in [Tx -> [Row -> SUBSET Reading]]
    BY <1>0, ReadableTypes
  <2> QED
    BY <1>0, <1>1, <1>2, <2>1 DEF TypeInv
<1>4. TreesOK' /\ RevertsRemoveLeaves'
  BY <1>0, <1>1 DEF TreesOK, RevertsRemoveLeaves
<1>5. /\ \A j \in Index : \A r \in 1..count : \A row : HasEntry(j, r, row) => HasEntry(j, r, row)'
      /\ VersionsHaveEntries'
  BY EntriesKeep
<1>6. \A u \in Tx : (Inserting(u)' <=> Inserting(u)) /\ (Inserting(u) => u # t)
  <2> SUFFICES ASSUME NEW u \in Tx
               PROVE  (Inserting(u)' <=> Inserting(u)) /\ (Inserting(u) => u # t)
    OBVIOUS
  <2>1. CASE u = t
    BY <1>2, <2>1 DEF Inserting
  <2>2. CASE u # t
    BY <1>2, <2>2 DEF Inserting
  <2> QED
    BY <2>1, <2>2
<1>7. EntriesOfInserts'
  <2>1. ASSUME NEW u \in Tx, Inserting(u)', NEW j \in Index, j < current_index'[u]
        PROVE  /\ DOMAIN added_nodes'[u][j] = DOMAIN statement'[u].keys
               /\ Entered(index'[j], added_nodes'[u][j], NewKeys(u, j)', statement'[u].rows)
    <3>1. u # t /\ Inserting(u) /\ statement'[u] = statement[u] /\ j < current_index[u]
          /\ added_nodes'[u] = added_nodes[u]
      BY <1>2, <1>6, <2>1
    <3>2. NewKeys(u, j)' = NewKeys(u, j)
      BY <3>1 DEF NewKeys
    <3> QED
      BY <1>0, <3>1, <3>2 DEF EntriesOfInserts
  <2>2. ASSUME NEW j \in Index, NEW n \in DOMAIN index[j].node, index[j].node[n].row > count
        PROVE  \E u \in Tx : Inserting(u)' /\ j < current_index'[u] /\ n \in Range(added_nodes'[u][j])
    <3>1. PICK u \in Tx : Inserting(u) /\ j < current_index[u] /\ n \in Range(added_nodes[u][j])
      BY <1>0, <2>2 DEF EntriesOfInserts
    <3> QED
      BY <1>2, <1>6, <3>1
  <2> QED
    BY <1>1, <2>1, <2>2 DEF EntriesOfInserts
<1>8. UpdatesHaveEntries'
  <2> SUFFICES ASSUME NEW u \in Tx, Updating(u)', NEW j \in Index, (j < current_index[u] /\ Affected(u, j))'
               PROVE  UpdateEntered(u, j)'
    BY DEF UpdatesHaveEntries
  <2>1. Updating(u) /\ statement'[u] = statement[u] /\ Affected(u, j) /\ j < current_index[u]
    <3>1. CASE u # t
      BY <1>2, <3>1 DEF Updating, Affected
    <3>2. CASE u = t
      <4>1. /\ statement'[t] = statement[t] /\ current_index'[t] = i + 1 /\ ~Affected(t, i)
        BY <1>2, <3>2 DEF Updating
      <4>2. Updating(t) /\ Affected(t, j)
        BY <3>2, <4>1 DEF Updating, Affected
      <4>3. j # i /\ j < i + 1 /\ i \in Nat
        BY <1>0, <3>2, <4>1, <4>2, IndexFacts DEF TypeInv
      <4>4. j < i
        BY <4>3, IndexFacts
      <4> QED
        BY <3>2, <4>1, <4>2, <4>4
    <3> QED
      BY <3>1, <3>2
  <2>2. UpdateEntered(u, j)
    BY <1>0, <2>1 DEF UpdatesHaveEntries
  <2> QED
    BY <1>5, <2>1, <2>2, UpdateKept
<1> QED
  BY <1>2, <1>3, <1>4, <1>5, <1>7, <1>8 DEF IInv

\* A rejected INSERT goes on to take back the other indexes.
LEMMA RejectedInsert ==
  ASSUME TypeInv, StatementsOK, NEW t \in Tx, phase[t] = "indexing", statement[t].kind = "insert",
         Goto(t, "reverting"), UNCHANGED <<statement, current_index, exclusive_lock, commit_id, count>>
  PROVE  /\ StatementsOK'
         /\ phase' \in [Tx -> {"idle", "ready", "locking", "indexing", "reverting",
                               "writing", "failed", "undoing", "done"}]
         /\ phase'[t] = "reverting" /\ \A u \in Tx : u # t => phase'[u] = phase[u]
<1>1. phase' = [phase EXCEPT ![t] = "reverting"]
  BY DEF Goto
<1>2. /\ phase' \in [Tx -> {"idle", "ready", "locking", "indexing", "reverting",
                            "writing", "failed", "undoing", "done"}]
      /\ phase'[t] = "reverting" /\ \A u \in Tx : u # t => phase'[u] = phase[u]
  BY <1>1 DEF TypeInv
<1>3. StatementsOK'
  <2> SUFFICES ASSUME NEW u \in Tx
               PROVE  StatementOK(u)'
    BY DEF StatementsOK
  <2>0. StatementOK(u)
    BY DEF StatementsOK
  <2>1. CASE u = t
    <3>1. ChunkFor(t)' = ChunkFor(t) /\ (NewRows(t) => NewRows(t)')
      BY DEF ChunkFor, tail_chunk, NewRows
    <3> QED
      BY <1>2, <2>0, <2>1, <3>1 DEF StatementOK
  <2>2. CASE u # t
    BY <1>2, <2>0, <2>2, StatementKept
  <2> QED
    BY <2>1, <2>2
<1> QED
  BY <1>2, <1>3

\* The counts of shared locks and the histories of what EnterKeys compared.
ComparedTypesOK(t, next, compared, passed) ==
    /\ \A c : Cardinality({n \in passed : ChunkOf(next.node[n].row) = c}) \in Nat
    /\ {next.node[n].row : n \in compared} \subseteq Row
    /\ IgnoredIdentifiers(t) \subseteq Row

LEMMA ComparedTypes ==
  ASSUME TypeInv, TreesOK, NEW t \in Tx, StatementOK(t), NEW i \in Index, NEW next,
         SearchTree(next, i), DOMAIN index[i].node \subseteq DOMAIN next.node,
         NEW compared, NEW passed, compared \subseteq DOMAIN index[i].node, passed \subseteq compared
  PROVE  ComparedTypesOK(t, next, compared, passed)
<1> DEFINE at(n) == next.node[n].row
<1>1. IsFiniteSet(DOMAIN index[i].node)
  BY DEF TreesOK, SearchTree, Tree
<1>2. \A c : Cardinality({n \in passed : ChunkOf(at(n)) = c}) \in Nat
  <2> SUFFICES ASSUME NEW c
               PROVE  Cardinality({n \in passed : ChunkOf(at(n)) = c}) \in Nat
    OBVIOUS
  <2> DEFINE S == {n \in passed : ChunkOf(at(n)) = c}
  <2>1. S \subseteq DOMAIN index[i].node
    OBVIOUS
  <2> HIDE DEF S
  <2>2. IsFiniteSet(S)
    BY <1>1, <2>1, FS_Subset
  <2>3. Cardinality(S) \in Nat
    BY <2>2, FS_CardinalityType
  <2> QED
    BY <2>3 DEF S
<1>3. {at(n) : n \in compared} \subseteq Row
  <2> SUFFICES ASSUME NEW n \in compared
               PROVE  at(n) \in Row
    OBVIOUS
  <2>1. n \in DOMAIN next.node /\ Tree(next)
    BY DEF SearchTree
  <2> QED
    BY <2>1, NodeFields
<1>4. IgnoredIdentifiers(t) \subseteq Row
  <2>1. statement[t].rows \in Seq(Row)
    BY DEF TypeInv, Statement
  <2>2. Range(statement[t].rows) \subseteq Row
    BY <2>1 DEF Range
  <2> QED
    BY <2>2 DEF IgnoredIdentifiers
<1> QED
  BY <1>2, <1>3, <1>4 DEF ComparedTypesOK

LEMMA EnterKeysKeeps ==
  ASSUME IInv, fault = Alive, NEW t \in Tx, EnterKeys(t)
  PROVE  IInv'
<1> PICK reads \in [DOMAIN statement[t].rows -> Readings(t)] :
       /\ EnterKeysReading(t, reads)
       /\ phase[t] = "indexing"
       /\ UNCHANGED <<clock, start_time, commit_id, issued, rowState, clobbered>>
  BY DEF EnterKeys
<1> DEFINE i == current_index[t]
           rows == statement[t].rows
           ignored == IgnoredIdentifiers(t)
           r == AddEntries(t, i, EnteredKeys(t, i, reads), rows, reads, ignored)
           at(n) == r.tree.node[n].row
           compared == {at(n) : n \in r.compared}
           tuples == Tuples(t, reads)
           stale == {x \in Row : \E j \in DOMAIN rows : reads[j][x] # Now(x)}
<1>0. /\ TypeInv /\ TreesOK /\ StatementsOK /\ EntriesOfInserts /\ VersionsHaveEntries
      /\ UpdatesHaveEntries /\ RevertsRemoveLeaves
  BY SMTT(30) DEF IInv
<1>1. /\ phase[t] = "indexing"
      /\ UNCHANGED <<clock, start_time, commit_id, issued, rowState, clobbered>>
      /\ ~Affected(t, i) => /\ Advance(t, << >>)
                            /\ earlier' = [earlier EXCEPT ![t] = NoneEarlier]
                            /\ UNCHANGED <<index, read_count, fault, unlocked, dirty, torn>>
      /\ Affected(t, i) /\ DuplicateTuples(t, i, tuples) =>
            /\ Reject(t)
            /\ earlier' = [earlier EXCEPT ![t] = NoneEarlier]
            /\ UNCHANGED <<index, read_count, fault, unlocked, dirty, torn>>
      /\ Affected(t, i) /\ ~DuplicateTuples(t, i, tuples) =>
            /\ index' = [index EXCEPT ![i] = r.tree]
            /\ read_count' = [c \in Chunk |->
                  IF c = tail_chunk THEN read_count[c]
                  ELSE read_count[c] + Cardinality({n \in r.passed : ChunkOf(at(n)) = c})]
            /\ fault' = r.fault
            /\ unlocked' = unlocked \cup
                  IF exclusive_lock[tail_chunk] = t THEN {}
                  ELSE {x \in compared : ChunkOf(x) = tail_chunk}
            /\ dirty' = dirty \cup {x \in ignored : InConflict(t, x) \/ x \in stale}
            /\ torn' = torn \cup ((compared \cap stale) \ ignored)
            /\ earlier' = StillReadable(t, i)
            /\ IF r.error THEN Reject(t) ELSE Advance(t, r.added)
  BY DEF EnterKeysReading, EnteredKeys
<1>2. StatementOK(t) /\ i \in Index /\ statement[t].kind \in {"insert", "update"}
  BY <1>0, <1>1 DEF StatementsOK, StatementOK, TypeInv, Statement
<1>3. data' = data /\ deleted' = deleted /\ count' = count /\ chain' = chain /\ count' \in Nat
  BY <1>0, <1>1, SizeAssumption DEF rowState, TypeInv
<1>4. CASE ~Affected(t, i)
  <2>1. statement[t].kind # "insert"
    BY <1>4 DEF Affected
  <2> HIDE DEF r, tuples
  <2> QED
    BY <1>1, <1>4, <2>1, EnterNothingKeeps
<1>5. CASE Affected(t, i) /\ DuplicateTuples(t, i, tuples)
  <2>1. statement[t].kind = "update"
    BY <1>5 DEF DuplicateTuples
  <2>2. ToReady(t) /\ Release(ChunkFor(t))
    BY <1>1, <1>5, <2>1 DEF Reject
  <2> HIDE DEF r, tuples
  <2> QED
    BY <1>1, <1>5, <2>1, <2>2, EnterNothingKeeps
<1>6. CASE Affected(t, i) /\ ~DuplicateTuples(t, i, tuples)
  <2>1. SearchTree(index[i], i) /\ count \in Nat
    BY <1>0, <1>2, <1>3 DEF TreesOK
  <2>2. Batch(i, EnteredKeys(t, i, reads), rows) /\ (statement[t].kind = "insert" => EnteredKeys(t, i, reads) = NewKeys(t, i))
    <3>1. OwnRead(t, reads)
      <4>1. statement[t].rows \in Seq(Row)
        BY <1>0 DEF TypeInv, Statement
      <4>2. \A j \in DOMAIN rows : rows[j] \in Row /\ reads[j] \in Readings(t)
        BY <4>1
      <4>3. \A x \in Reading : x.data \in Values
        BY DEF Reading, Values
      <4> QED
        BY <1>0, <4>2, <4>3, ReadableTypes DEF OwnRead
    <3> QED
      BY <1>0, <1>1, <1>2, <1>6, <3>1, EnteredBatch
  <2>3. PICK tree, added, outcome, looked, passed :
           AddResult(t, i, EnteredKeys(t, i, reads), rows, reads, ignored, tree, added, outcome, looked, passed)
    BY <1>2, <2>1, <2>2, AddEntriesOutcome
  <2> DEFINE next == IF outcome = "refused" THEN index[i] ELSE tree
  <2>4. Indexed(t, i, reads, next, added, outcome) /\ looked \subseteq DOMAIN index[i].node /\ passed \subseteq looked
    BY <1>2, <2>1, <2>2, <2>3, AddEntriesIndexed
  <2>5. r = Account(next, added, outcome, looked, passed)
    BY <2>3 DEF AddResult
  <2> HIDE DEF next
  <2>6. /\ r.tree = next /\ r.added = added /\ r.compared = looked /\ r.passed = passed
        /\ r.error <=> outcome = "refused"
        /\ r.fault = IF outcome = "died" THEN "chunk_of_no_row" ELSE Alive
    BY <2>5, AccountFields
  <2>7. /\ SearchTree(next, i) /\ DOMAIN index[i].node \subseteq DOMAIN next.node
        /\ added \in Seq(Nat) /\ outcome \in {"going", "refused", "died"}
    BY <2>4 DEF Indexed
  <2>8. /\ \A c : Cardinality({n \in r.passed : ChunkOf(at(n)) = c}) \in Nat
        /\ compared \subseteq Row
        /\ ignored \subseteq Row
    <3> HIDE DEF r, i
    <3>1. ComparedTypesOK(t, next, looked, passed)
      BY <1>0, <1>2, <2>4, <2>7, ComparedTypes
    <3> QED
      BY <2>6, <3>1 DEF ComparedTypesOK
  <2> HIDE DEF r
  <2>9. /\ index' = [index EXCEPT ![i] = next]
        /\ fault' = IF outcome = "died" THEN "chunk_of_no_row" ELSE Alive
        /\ unlocked' \subseteq Row /\ dirty' \subseteq Row /\ torn' \subseteq Row
        /\ dirty' = dirty \cup {x \in ignored : InConflict(t, x) \/ x \in stale}
        /\ outcome = "refused" => Reject(t)
        /\ outcome # "refused" => Advance(t, added)
    BY <1>0, <1>1, <1>6, <2>6, <2>8 DEF TypeInv
  <2>10. read_count' \in [Chunk -> Int]
    <3> DEFINE more(c) == Cardinality({n \in r.passed : ChunkOf(at(n)) = c})
    <3>1. read_count' = [c \in Chunk |-> IF c = tail_chunk THEN read_count[c] ELSE read_count[c] + more(c)]
      BY <1>1, <1>6
    <3>2. \A c \in Chunk : more(c) \in Nat /\ read_count[c] \in Int
      BY <1>0, <2>8 DEF TypeInv
    <3> HIDE DEF more
    <3> QED
      BY <3>1, <3>2
  <2>16. \A j \in DOMAIN rows : rows[j] \in ignored /\ rows[j] \notin stale =>
            reads[j][rows[j]] = Now(rows[j])
    BY <2>8
  <2>17. statement[t].kind = "update" =>
            \A j \in DOMAIN statement[t].rows : statement[t].rows[j] \notin dirty' =>
               Tuples(t, reads)[j] = Written(t, j)
    <3> SUFFICES ASSUME statement[t].kind = "update", NEW j \in DOMAIN rows, rows[j] \notin dirty'
                 PROVE  tuples[j] = Written(t, j)
      OBVIOUS
    <3>1. rows[j] \in ignored
      BY DEF IgnoredIdentifiers, Range
    <3>2. reads[j][rows[j]] = Now(rows[j])
      BY <2>9, <2>16, <3>1
    <3> QED
      BY <3>2 DEF Tuples, Written, Now
  <2> HIDE DEF at, compared, rows, stale
  <2>11. /\ StatementsOK'
         /\ statement' \in [Tx -> Statement] /\ current_index' \in [Tx -> 1..Len(AllowNulls) + 1]
         /\ added_nodes' \in [Tx -> [Index -> Seq(Nat)]]
         /\ phase' \in [Tx -> {"idle", "ready", "locking", "indexing", "reverting",
                               "writing", "failed", "undoing", "done"}]
         /\ exclusive_lock' \in [Chunk -> Tx \cup {NoTx}]
         /\ outcome # "refused" => /\ statement'[t] = statement[t]
                                   /\ current_index'[t] = i + 1
                                   /\ added_nodes'[t][i] = added
                                   /\ phase'[t] \in {"indexing", "writing"}
                                   /\ \A j \in Index : j # i => added_nodes'[t][j] = added_nodes[t][j]
         /\ outcome = "refused" /\ statement[t].kind = "insert" =>
                                   /\ statement'[t] = statement[t]
                                   /\ current_index'[t] = i
                                   /\ added_nodes'[t] = added_nodes[t]
                                   /\ phase'[t] = "reverting"
         /\ outcome = "refused" /\ statement[t].kind # "insert" => phase'[t] = "ready"
         /\ \A u \in Tx : u # t => /\ phase'[u] = phase[u] /\ statement'[u] = statement[u]
                                   /\ current_index'[u] = current_index[u]
                                   /\ added_nodes'[u] = added_nodes[u]
    <3>1. CASE outcome # "refused"
      <4>1. Advance(t, added) /\ UNCHANGED <<commit_id, count>>
        BY <1>1, <1>3, <2>9, <3>1
      <4>2. /\ StatementsOK'
            /\ UNCHANGED <<statement, exclusive_lock>>
            /\ current_index' \in [Tx -> 1..Len(AllowNulls) + 1]
            /\ added_nodes' \in [Tx -> [Index -> Seq(Nat)]]
            /\ phase' \in [Tx -> {"idle", "ready", "locking", "indexing", "reverting",
                                  "writing", "failed", "undoing", "done"}]
            /\ phase'[t] \in {"indexing", "writing"}
            /\ current_index'[t] = i + 1 /\ added_nodes'[t][i] = added
            /\ \A j \in Index : j # i => added_nodes'[t][j] = added_nodes[t][j]
            /\ \A u \in Tx : u # t => /\ phase'[u] = phase[u] /\ current_index'[u] = current_index[u]
                                      /\ added_nodes'[u] = added_nodes[u]
        BY <1>0, <1>1, <2>7, <4>1, AdvanceKeeps
      <4>3. statement' \in [Tx -> Statement] /\ exclusive_lock' \in [Chunk -> Tx \cup {NoTx}]
        BY <1>0, <4>2 DEF TypeInv
      <4> QED
        BY <3>1, <4>2, <4>3
    <3>2. CASE outcome = "refused" /\ statement[t].kind = "insert"
      <4>1. Goto(t, "reverting") /\ UNCHANGED <<statement, current_index, added_nodes, exclusive_lock>>
        BY <2>9, <3>2 DEF Reject
      <4>2. UNCHANGED <<statement, current_index, exclusive_lock, commit_id, count>>
        BY <1>1, <1>3, <4>1
      <4>3. /\ StatementsOK'
            /\ phase' \in [Tx -> {"idle", "ready", "locking", "indexing", "reverting",
                                  "writing", "failed", "undoing", "done"}]
            /\ phase'[t] = "reverting" /\ \A u \in Tx : u # t => phase'[u] = phase[u]
        BY <1>0, <1>1, <3>2, <4>1, <4>2, RejectedInsert
      <4> QED
        BY <1>0, <3>2, <4>1, <4>3 DEF TypeInv
    <3>3. CASE outcome = "refused" /\ statement[t].kind # "insert"
      <4>1. ToReady(t) /\ Release(ChunkFor(t))
        BY <2>9, <3>3 DEF Reject
      <4> QED
        BY <1>0, <1>1, <1>3, <3>3, <4>1, ReadyKeeps
    <3> QED
      BY <3>1, <3>2, <3>3
  <2>12. TypeInv'
    <3>1. earlier' \in [Tx -> [Row -> SUBSET Reading]]
      BY <1>0, <1>1, <1>6, ReadableTypes
    <3> QED
      BY <1>0, <1>1, <1>3, <2>9, <2>10, <2>11, <3>1 DEF TypeInv
  <2>13. \A x \in ignored : InConflict(t, x) => x \in dirty'
    BY <2>9
  <2>14. UNCHANGED <<rowState, commit_id>> /\ dirty \subseteq dirty'
    BY <1>1, <2>9
  <2>15. /\ TreesOK' /\ EntriesOfInserts' /\ VersionsHaveEntries' /\ UpdatesHaveEntries'
         /\ RevertsRemoveLeaves'
    <3> HIDE DEF i, ignored
    <3>1. i = current_index[t] /\ IgnoredIdentifiers(t) = ignored
      BY DEF i, ignored
    <3> QED
      BY <1>1, <1>2, <2>2, <2>4, <2>9, <2>11, <2>13, <2>14, <2>17, <3>1, IndexedKeeps, ZenonT(60)
  <2> QED
    BY <2>11, <2>12, <2>15 DEF IInv
<1> QED
  BY <1>4, <1>5, <1>6

-----------------------------------------------------------------------------
(* Steps that write rows. *)

LEMMA PushedFacts ==
  ASSUME NEW v \in Version, NEW vs \in Seq(Version)
  PROVE  /\ <<v>> \o vs \in Seq(Version) /\ <<v>> \o vs # << >> /\ (<<v>> \o vs)[1] = v
         /\ \A w \in Range(<<v>> \o vs) : w = v \/ w \in Range(vs)
<1> DEFINE all == <<v>> \o vs
<1>1. /\ all \in Seq(Version) /\ Len(all) = Len(vs) + 1 /\ Len(vs) \in Nat
      /\ \A k \in 1..Len(all) : all[k] = IF k = 1 THEN v ELSE vs[k - 1]
  <2> HIDE DEF Version
  <2> QED
    OBVIOUS
<1>2. DOMAIN all = 1..Len(vs) + 1 /\ DOMAIN vs = 1..Len(vs)
  BY <1>1
<1> HIDE DEF all
<1>3. \A w \in Range(all) : w = v \/ w \in Range(vs)
  <2> SUFFICES ASSUME NEW k \in DOMAIN all, k # 1
               PROVE  all[k] \in Range(vs)
    BY <1>1, <1>2 DEF Range
  <2>1. k - 1 \in DOMAIN vs /\ all[k] = vs[k - 1]
    BY <1>1, <1>2
  <2> QED
    BY <2>1 DEF Range
<1>4. all # << >> /\ all[1] = v
  BY <1>1, <1>2
<1> QED
  BY <1>1, <1>3, <1>4 DEF all

LEMMA WriteInsertedKeeps ==
  ASSUME IInv, fault = Alive, NEW t \in Tx, phase[t] = "writing", WriteInserted(t),
         UNCHANGED <<clock, start_time, commit_id, issued, index, read_count, fault, unlocked, dirty,
                     torn, earlier>>
  PROVE  IInv'
<1> DEFINE s == statement[t]
           new == Range(s.rows)
           N == Len(s.keys)
<1>0. /\ TypeInv /\ TreesOK /\ StatementsOK /\ EntriesOfInserts /\ VersionsHaveEntries
      /\ UpdatesHaveEntries /\ RevertsRemoveLeaves
  BY DEF IInv
<1>1. /\ s.kind = "insert"
      /\ count' = count + Len(s.rows)
      /\ data' = [r \in Row |-> IF r \in new THEN Written(t, r - count) ELSE data[r]]
      /\ chain' = [r \in Row |-> IF r \in new THEN <<[by |-> t, saved |-> Nowhere]>> ELSE chain[r]]
      /\ ToReady(t) /\ Release(tail_chunk)
      /\ UNCHANGED <<deleted, clobbered>>
  BY DEF WriteInserted
<1>2. /\ StatementOK(t) /\ NewRows(t) /\ s.keys \in Seq(Values) /\ Inserting(t)
      /\ current_index[t] = Len(Keys) + 1
  BY <1>0, <1>1 DEF StatementsOK, StatementOK, Inserting
<1>3. /\ count \in Nat /\ N \in Nat /\ count + N <= MaxRows /\ MaxRows \in Nat
      /\ DOMAIN s.rows = 1..N /\ Len(s.rows) = N /\ DOMAIN s.keys = 1..N
      /\ \A j \in 1..N : s.rows[j] = count + j
  <2>1. s.rows \in Seq(Row)
    BY <1>0 DEF TypeInv, Statement
  <2>2. N \in Nat /\ DOMAIN s.keys = 1..N
    BY <1>2
  <2>3. DOMAIN s.rows = 1..Len(s.rows) /\ Len(s.rows) \in Nat /\ DOMAIN s.rows = DOMAIN s.keys
    BY <1>2, <2>1 DEF NewRows
  <2>4. Len(s.rows) = N
    <3> DEFINE M == Len(s.rows)
    <3>1. 1..M = 1..N /\ M \in Nat /\ N \in Nat
      BY <2>2, <2>3
    <3> HIDE DEF M, N
    <3> QED
      BY <3>1 DEF M
  <2> QED
    <3>1. \A j \in DOMAIN s.keys : s.rows[j] = count + j
      BY <1>2 DEF NewRows
    <3>2. count + N <= MaxRows
      BY <1>2 DEF NewRows
    <3>3. count \in Nat /\ MaxRows \in Nat
      BY <1>0, SizeAssumption DEF TypeInv
    <3> HIDE DEF N
    <3> QED
      BY <2>2, <2>3, <2>4, <3>1, <3>2, <3>3
<1> HIDE DEF N
<1>4. \A r \in Row : r \in new <=> r \in count + 1..count + N
  <2>1. ASSUME NEW r \in Row, r \in count + 1..count + N PROVE r \in new
    <3>1. r - count \in 1..N /\ s.rows[r - count] = r
      BY <1>3, <2>1
    <3> QED
      BY <1>3, <3>1 DEF Range
  <2>2. ASSUME NEW r \in Row, r \in new PROVE r \in count + 1..count + N
    <3>1. PICK j \in 1..N : r = s.rows[j]
      BY <1>3, <2>2 DEF Range
    <3> QED
      BY <1>3, <3>1
  <2> QED
    BY <2>1, <2>2
<1> HIDE DEF new
<1>5. count' = count + N /\ count' \in Nat /\ count' \in 0..MaxRows /\ count' >= count
  BY <1>1, <1>3
<1>6. ASSUME NEW r \in Row
      PROVE  /\ r \notin new => data'[r] = data[r] /\ chain'[r] = chain[r]
             /\ r \in new => /\ r - count \in 1..N /\ r = s.rows[r - count]
                             /\ data'[r] = s.keys[r - count] /\ s.keys[r - count] \in Values
                             /\ chain'[r] = <<[by |-> t, saved |-> Nowhere]>>
  <2>1. r \notin new => data'[r] = data[r] /\ chain'[r] = chain[r]
    BY <1>1
  <2>2. CASE r \in new
    <3>0. r \in count + 1..count + N
      BY <1>4, <2>2
    <3>1. r - count \in 1..N /\ s.rows[r - count] = r
      <4>1. r - count \in 1..N /\ count + (r - count) = r
        BY <1>3, <3>0
      <4> QED
        BY <1>3, <4>1
    <3>2. Written(t, r - count) = s.keys[r - count] /\ Written(t, r - count) \in Values
      BY <1>0, <1>1, <1>2, <1>3, <3>1, WrittenType
    <3> QED
      BY <1>1, <2>2, <3>1, <3>2
  <2> QED
    BY <2>1, <2>2
<1>7. [by |-> t, saved |-> Nowhere] \in Version /\ Nowhere \in Values
  <2>1. Nowhere \in Values
    <3>1. 1 \in Index
      BY IndexFacts
    <3> QED
      BY <3>1, NowhereHasNoKey
  <2> QED
    BY <2>1 DEF Version
<1>8. data' \in [Row -> Values] /\ chain' \in [Row -> Seq(Version)]
  <2>1. \A r \in Row : data'[r] \in Values
    BY <1>0, <1>6 DEF TypeInv
  <2>2. \A r \in Row : chain'[r] \in Seq(Version)
    <3> SUFFICES ASSUME NEW r \in Row PROVE chain'[r] \in Seq(Version)
      OBVIOUS
    <3> DEFINE v == [by |-> t, saved |-> Nowhere]
    <3>1. v \in Version
      BY <1>7
    <3> HIDE DEF v, Version
    <3>2. <<v>> \in Seq(Version)
      BY <3>1
    <3>3. chain[r] \in Seq(Version)
      BY <1>0 DEF TypeInv
    <3> QED
      BY <1>6, <3>2, <3>3 DEF v
  <2>3. DOMAIN data' = Row /\ DOMAIN chain' = Row
    BY <1>1
  <2>4. data' = [r \in Row |-> data'[r]] /\ chain' = [r \in Row |-> chain'[r]]
    BY <1>1
  <2> HIDE DEF Version
  <2> QED
    BY <2>1, <2>2, <2>4
<1>9. /\ StatementsOK'
      /\ statement' \in [Tx -> Statement] /\ current_index' \in [Tx -> 1..Len(AllowNulls) + 1]
      /\ added_nodes' \in [Tx -> [Index -> Seq(Nat)]]
      /\ phase' \in [Tx -> {"idle", "ready", "locking", "indexing", "reverting",
                            "writing", "failed", "undoing", "done"}]
      /\ exclusive_lock' \in [Chunk -> Tx \cup {NoTx}]
      /\ phase'[t] = "ready"
      /\ \A u \in Tx : u # t => /\ phase'[u] = phase[u] /\ statement'[u] = statement[u]
                                /\ current_index'[u] = current_index[u]
                                /\ added_nodes'[u] = added_nodes[u]
  <2>1. Release(ChunkFor(t)) /\ ToReady(t)
    BY <1>1 DEF ChunkFor
  <2> QED
    BY <1>0, <1>1, <1>5, <2>1, ReadyKeeps
<1>10. TypeInv'
  BY <1>0, <1>1, <1>5, <1>8, <1>9 DEF TypeInv
<1>11. TreesOK'
  BY <1>0 DEF TreesOK
<1>12. RevertsRemoveLeaves'
  BY DEF RevertsRemoveLeaves, Alive
<1>13. \A u \in Tx : ~Inserting(u)' /\ (Inserting(u) => u = t)
  <2>1. \A u \in Tx : Inserting(u) => u = t
    BY <1>0, <1>2, OneInsert
  <2> QED
    BY <1>9, <2>1 DEF Inserting
<1>14. ASSUME NEW i \in Index
       PROVE  /\ i < current_index[t] /\ DOMAIN added_nodes[t][i] = DOMAIN s.keys
              /\ \A q \in DOMAIN s.keys : LET e == added_nodes[t][i][q]
                    IN IF KeyOf(i, s.keys[q]) = NoKey THEN e = Null
                       ELSE /\ e \in DOMAIN index[i].node /\ index[i].node[e].row = s.rows[q]
                            /\ index[i].node[e].key = KeyOf(i, s.keys[q])
  <2> DEFINE es == added_nodes[t][i]
             ks == NewKeys(t, i)
  <2>1. i < current_index[t]
    BY <1>2, IndexFacts
  <2>2. DOMAIN es = DOMAIN s.keys /\ Entered(index[i], es, ks, s.rows)
    BY <1>0, <1>2, <2>1 DEF EntriesOfInserts
  <2>3. \A q \in DOMAIN es : IF ks[q] = NoKey THEN es[q] = Null
                             ELSE /\ es[q] \in DOMAIN index[i].node
                                  /\ index[i].node[es[q]].row = s.rows[q]
                                  /\ index[i].node[es[q]].key = ks[q]
    BY <2>2, EnteredLeads
  <2>4. \A q \in DOMAIN s.keys : ks[q] = KeyOf(i, s.keys[q])
    BY <1>3 DEF NewKeys
  <2> QED
    BY <2>1, <2>2, <2>3, <2>4
<1>15. EntriesOfInserts'
  <2>1. ASSUME NEW i \in Index, NEW n \in DOMAIN index[i].node
        PROVE  ~(index[i].node[n].row > count')
    <3>1. CASE index[i].node[n].row > count
      <4>1. n \in Range(added_nodes[t][i])
        BY <1>0, <1>13, <3>1 DEF EntriesOfInserts
      <4>2. PICK q \in DOMAIN s.keys : n = added_nodes[t][i][q]
        BY <1>14, <4>1 DEF Range
      <4>3. n # Null
        BY <1>0 DEF TreesOK, SearchTree, Tree
      <4>4. index[i].node[n].row = s.rows[q] /\ s.rows[q] = count + q /\ q \in 1..N
        BY <1>3, <1>14, <4>2, <4>3
      <4> QED
        BY <1>3, <1>5, <4>4
    <3>2. CASE ~(index[i].node[n].row > count)
      <4>1. index[i].node[n].row \in Nat /\ count \in Nat
        BY <1>0, RowsOfEntries
      <4> QED
        BY <1>5, <3>2, <4>1
    <3> QED
      BY <3>1, <3>2
  <2> QED
    BY <1>13, <2>1 DEF EntriesOfInserts
<1>16. VersionsHaveEntries'
  <2> SUFFICES ASSUME NEW i \in Index, NEW r \in 1..count', r \notin dirty, NEW row \in ValuesOf(r)'
               PROVE  HasEntry(i, r, row)'
    BY DEF VersionsHaveEntries
  <2>1. r \in Row
    BY <1>3, <1>5 DEF Row
  <2>2. HasEntry(i, r, row)' <=> HasEntry(i, r, row)
    BY DEF HasEntry
  <2>3. CASE r \in new
    <3>1. /\ r - count \in 1..N /\ r = s.rows[r - count] /\ data'[r] = s.keys[r - count]
          /\ chain'[r] = <<[by |-> t, saved |-> Nowhere]>>
      BY <1>6, <2>1, <2>3
    <3>2. row = s.keys[r - count] \/ row = Nowhere
      <4>1. Range(<<[by |-> t, saved |-> Nowhere]>>) = {[by |-> t, saved |-> Nowhere]}
        BY DEF Range
      <4> QED
        BY <3>1, <4>1 DEF ValuesOf
    <3>3. KeyOf(i, Nowhere) = NoKey
      BY NowhereHasNoKey
    <3>4. HasEntry(i, r, s.keys[r - count])
      <4> DEFINE q == r - count
                 e == added_nodes[t][i][q]
      <4>1. q \in DOMAIN s.keys /\ s.rows[q] = r
        BY <1>3, <3>1
      <4> HIDE DEF q
      <4>2. KeyOf(i, s.keys[q]) # NoKey =>
               /\ e \in DOMAIN index[i].node /\ index[i].node[e].row = r
               /\ index[i].node[e].key = KeyOf(i, s.keys[q])
        BY <1>14, <4>1
      <4>3. HasEntry(i, r, s.keys[q])
        BY <4>2 DEF HasEntry
      <4> QED
        BY <4>3 DEF q
    <3>5. HasEntry(i, r, Nowhere)
      BY <3>3 DEF HasEntry
    <3> QED
      BY <2>2, <3>2, <3>4, <3>5
  <2>4. CASE r \notin new
    <3>1. data'[r] = data[r] /\ chain'[r] = chain[r] /\ r \in 1..count
      BY <1>3, <1>4, <1>5, <1>6, <2>1, <2>4
    <3>2. row \in ValuesOf(r)
      BY <3>1 DEF ValuesOf
    <3> QED
      BY <1>0, <2>2, <3>1, <3>2 DEF VersionsHaveEntries
  <2> QED
    BY <2>3, <2>4
<1>17. UpdatesHaveEntries'
  <2> SUFFICES ASSUME NEW u \in Tx, Updating(u)', NEW i \in Index, (i < current_index[u] /\ Affected(u, i))',
                      NEW j \in DOMAIN statement'[u].rows, statement'[u].rows[j] \notin dirty
               PROVE  HasEntry(i, statement[u].rows[j], Written(u, j))' /\ ~InConflict(u, statement[u].rows[j])'
    BY DEF UpdatesHaveEntries, UpdateEntered
  <2>1. u # t
    BY <1>9 DEF Updating
  <2>2. statement'[u] = statement[u] /\ Updating(u) /\ Affected(u, i) /\ i < current_index[u]
    BY <1>9, <2>1 DEF Updating, Affected
  <2>3. HasEntry(i, statement[u].rows[j], Written(u, j)) /\ ~InConflict(u, statement[u].rows[j])
    BY <1>0, <2>2 DEF UpdatesHaveEntries, UpdateEntered
  <2>4. statement[u].rows[j] \in Row /\ statement[u].rows[j] <= count
    <3>1. statement[u].rows \in Seq(Row) /\ FoundRows(u)
      BY <1>0, <2>2 DEF TypeInv, Statement, StatementsOK, StatementOK, Updating
    <3> QED
      BY <2>2, <3>1 DEF FoundRows
  <2>5. statement[u].rows[j] \notin new
    BY <1>3, <1>4, <2>4, SizeAssumption DEF Row
  <2>6. data'[statement[u].rows[j]] = data[statement[u].rows[j]]
        /\ chain'[statement[u].rows[j]] = chain[statement[u].rows[j]]
    BY <1>6, <2>4, <2>5
  <2>7. Written(u, j)' = Written(u, j)
    BY <2>2, <2>6 DEF Written, Filled
  <2> QED
    BY <2>2, <2>3, <2>6, <2>7 DEF HasEntry, InConflict, Uncommitted, Number
<1> QED
  BY <1>9, <1>10, <1>11, <1>12, <1>15, <1>16, <1>17 DEF IInv

\* An update or delete that meets a conflict leaves its chunk locked.
LEMMA FailedStatement ==
  ASSUME TypeInv, StatementsOK, NEW t \in Tx, phase[t] = "writing", statement[t].kind # "insert",
         Goto(t, "failed"), UNCHANGED <<statement, current_index, exclusive_lock, commit_id, count>>
  PROVE  /\ StatementsOK'
         /\ phase' \in [Tx -> {"idle", "ready", "locking", "indexing", "reverting",
                               "writing", "failed", "undoing", "done"}]
         /\ phase'[t] = "failed" /\ \A u \in Tx : u # t => phase'[u] = phase[u]
<1>1. phase' = [phase EXCEPT ![t] = "failed"]
  BY DEF Goto
<1>2. /\ phase' \in [Tx -> {"idle", "ready", "locking", "indexing", "reverting",
                            "writing", "failed", "undoing", "done"}]
      /\ phase'[t] = "failed" /\ \A u \in Tx : u # t => phase'[u] = phase[u]
  BY <1>1 DEF TypeInv
<1>3. StatementsOK'
  <2> SUFFICES ASSUME NEW u \in Tx
               PROVE  StatementOK(u)'
    BY DEF StatementsOK
  <2>0. StatementOK(u)
    BY DEF StatementsOK
  <2>1. CASE u = t
    <3>1. ChunkFor(t)' = ChunkFor(t) /\ (FoundRows(t) => FoundRows(t)')
      BY DEF ChunkFor, tail_chunk, FoundRows
    <3> QED
      BY <1>2, <2>0, <2>1, <3>1 DEF StatementOK
  <2>2. CASE u # t
    BY <1>2, <2>0, <2>2, StatementKept
  <2> QED
    BY <2>1, <2>2
<1> QED
  BY <1>2, <1>3

LEMMA WriteFoundKeeps ==
  ASSUME IInv, fault = Alive, NEW t \in Tx, phase[t] = "writing", WriteFound(t),
         UNCHANGED <<clock, start_time, commit_id, issued, index, read_count, fault, unlocked, dirty,
                     torn, earlier>>
  PROVE  IInv'
<1> DEFINE s == statement[t]
           bad == {j \in DOMAIN s.rows : InConflict(t, s.rows[j])}
           done == {s.rows[j] : j \in {j \in DOMAIN s.rows : \A b \in bad : j < b}}
           at(r) == CHOOSE j \in DOMAIN s.rows : s.rows[j] = r
           version(r) == [by |-> t, saved |-> data[r]]
<1>0. /\ TypeInv /\ TreesOK /\ StatementsOK /\ EntriesOfInserts /\ VersionsHaveEntries
      /\ UpdatesHaveEntries /\ RevertsRemoveLeaves
  BY DEF IInv
<1>1. /\ s.kind \in {"update", "delete"}
      /\ chain' = [r \in Row |-> IF r \in done THEN <<version(r)>> \o chain[r] ELSE chain[r]]
      /\ deleted' = [r \in Row |-> deleted[r] \/ (s.kind = "delete" /\ r \in done)]
      /\ data' = [r \in Row |-> IF s.kind = "update" /\ bad = {} /\ r \in done
                                THEN Written(t, at(r)) ELSE data[r]]
      /\ clobbered' = clobbered \cup {r \in done : deleted[r]}
      /\ bad = {} => ToReady(t) /\ Release(ChunkFor(t))
      /\ bad # {} => /\ Goto(t, "failed")
                     /\ UNCHANGED <<statement, current_index, added_nodes, exclusive_lock>>
      /\ UNCHANGED count
  BY DEF WriteFound, Push
<1>2. /\ StatementOK(t) /\ FoundRows(t) /\ s.rows \in Seq(Row) /\ count \in Nat
      /\ ~Inserting(t)
  BY <1>0, <1>1, SizeAssumption DEF StatementsOK, StatementOK, TypeInv, Statement, Inserting
<1>3. ASSUME NEW r \in done
      PROVE  r \in Row /\ r \in 1..count /\ ChunkOf(r) = ChunkFor(t)
             /\ at(r) \in DOMAIN s.rows /\ s.rows[at(r)] = r
  <2>1. PICK j \in DOMAIN s.rows : r = s.rows[j]
    OBVIOUS
  <2>2. r \in Row /\ r <= count /\ ChunkOf(r) = ChunkOf(s.rows[1])
    BY <1>2, <2>1 DEF FoundRows
  <2>3. at(r) \in DOMAIN s.rows /\ s.rows[at(r)] = r
    BY <2>1
  <2> QED
    BY <1>1, <1>2, <2>2, <2>3, SizeAssumption, SMTT(30) DEF ChunkFor, Row
<1> HIDE DEF done, at, bad
<1>4. ASSUME NEW r \in Row
      PROVE  /\ chain'[r] \in Seq(Version) /\ data'[r] \in Values
             /\ r \notin done => data'[r] = data[r] /\ chain'[r] = chain[r]
             /\ \A v \in Range(chain'[r]) : v \in Range(chain[r]) \/ (r \in done /\ v.saved = data[r])
             /\ data'[r] # data[r] => /\ r \in done /\ s.kind = "update" /\ data'[r] = Written(t, at(r))
  <2>1. version(r) \in Version /\ version(r).saved = data[r] /\ chain[r] \in Seq(Version) /\ data[r] \in Values
    BY <1>0 DEF Version, TypeInv
  <2>2. CASE r \in done
    <3>1. chain'[r] = <<version(r)>> \o chain[r]
      BY <1>1, <2>2
    <3>2. chain'[r] \in Seq(Version) /\ \A v \in Range(chain'[r]) : v = version(r) \/ v \in Range(chain[r])
      <4> HIDE DEF version
      <4> QED
        BY <2>1, <3>1, PushedFacts
    <3>3. data'[r] = data[r] \/ (s.kind = "update" /\ data'[r] = Written(t, at(r)))
      BY <1>1
    <3>4. s.kind = "update" => Written(t, at(r)) \in Values
      BY <1>0, <1>2, <1>3, <2>2, WrittenType
    <3> HIDE DEF version
    <3> QED
      BY <2>1, <2>2, <3>2, <3>3, <3>4
  <2>3. CASE r \notin done
    <3>1. data'[r] = data[r] /\ chain'[r] = chain[r]
      BY <1>1, <2>3
    <3> QED
      BY <2>1, <2>3, <3>1
  <2> QED
    BY <2>2, <2>3
<1>5. data' \in [Row -> Values] /\ chain' \in [Row -> Seq(Version)]
  <2>1. data' = [r \in Row |-> data'[r]] /\ chain' = [r \in Row |-> chain'[r]]
    BY <1>1
  <2> HIDE DEF Version
  <2> QED
    BY <1>4, <2>1
<1>6. /\ StatementsOK'
      /\ statement' \in [Tx -> Statement] /\ current_index' \in [Tx -> 1..Len(AllowNulls) + 1]
      /\ added_nodes' \in [Tx -> [Index -> Seq(Nat)]]
      /\ phase' \in [Tx -> {"idle", "ready", "locking", "indexing", "reverting",
                            "writing", "failed", "undoing", "done"}]
      /\ exclusive_lock' \in [Chunk -> Tx \cup {NoTx}]
      /\ phase'[t] \in {"ready", "failed"}
      /\ \A u \in Tx : u # t => /\ phase'[u] = phase[u] /\ statement'[u] = statement[u]
                                /\ current_index'[u] = current_index[u]
                                /\ added_nodes'[u] = added_nodes[u]
  <2>1. CASE bad = {}
    <3>1. ToReady(t) /\ Release(ChunkFor(t)) /\ count' = count
      BY <1>1, <2>1
    <3> QED
      BY <1>0, <1>2, <3>1, ReadyKeeps
  <2>2. CASE bad # {}
    <3>1. Goto(t, "failed") /\ UNCHANGED <<statement, current_index, added_nodes, exclusive_lock, commit_id, count>>
      BY <1>1, <2>2
    <3>2. /\ StatementsOK'
          /\ phase' \in [Tx -> {"idle", "ready", "locking", "indexing", "reverting",
                                "writing", "failed", "undoing", "done"}]
          /\ phase'[t] = "failed" /\ \A u \in Tx : u # t => phase'[u] = phase[u]
      BY <1>0, <1>1, <3>1, FailedStatement
    <3> QED
      BY <1>0, <3>1, <3>2 DEF TypeInv
  <2> QED
    BY <2>1, <2>2
<1>7. TypeInv'
  <2>1. deleted' \in [Row -> BOOLEAN]
    BY <1>1
  <2>2. clobbered' \subseteq Row
    BY <1>0, <1>1, <1>3 DEF TypeInv
  <2> QED
    BY <1>0, <1>1, <1>5, <1>6, <2>1, <2>2 DEF TypeInv
<1>8. TreesOK'
  BY <1>0 DEF TreesOK
<1>9. RevertsRemoveLeaves'
  BY DEF RevertsRemoveLeaves, Alive
<1>10. \A u \in Tx : (Inserting(u)' <=> Inserting(u)) /\ (Inserting(u) => u # t)
  <2> SUFFICES ASSUME NEW u \in Tx
               PROVE  (Inserting(u)' <=> Inserting(u)) /\ (Inserting(u) => u # t)
    OBVIOUS
  <2>1. CASE u = t
    BY <1>2, <1>6, <2>1 DEF Inserting
  <2>2. CASE u # t
    BY <1>6, <2>2 DEF Inserting
  <2> QED
    BY <1>2, <2>1, <2>2
<1>11. EntriesOfInserts'
  <2>1. ASSUME NEW u \in Tx, Inserting(u)', NEW j \in Index, j < current_index'[u]
        PROVE  /\ DOMAIN added_nodes'[u][j] = DOMAIN statement'[u].keys
               /\ Entered(index'[j], added_nodes'[u][j], NewKeys(u, j)', statement'[u].rows)
    <3>1. u # t /\ Inserting(u) /\ statement'[u] = statement[u] /\ j < current_index[u]
          /\ added_nodes'[u] = added_nodes[u]
      BY <1>6, <1>10, <2>1
    <3>2. NewKeys(u, j)' = NewKeys(u, j)
      BY <3>1 DEF NewKeys
    <3> QED
      BY <1>0, <3>1, <3>2 DEF EntriesOfInserts
  <2>2. ASSUME NEW j \in Index, NEW n \in DOMAIN index[j].node, index[j].node[n].row > count
        PROVE  \E u \in Tx : Inserting(u)' /\ j < current_index'[u] /\ n \in Range(added_nodes'[u][j])
    <3>1. PICK u \in Tx : Inserting(u) /\ j < current_index[u] /\ n \in Range(added_nodes[u][j])
      BY <1>0, <2>2 DEF EntriesOfInserts
    <3> QED
      BY <1>6, <1>10, <3>1
  <2> QED
    BY <1>1, <2>1, <2>2 DEF EntriesOfInserts
<1>12. VersionsHaveEntries'
  <2> SUFFICES ASSUME NEW i \in Index, NEW r \in 1..count, r \notin dirty, NEW row \in ValuesOf(r)'
               PROVE  HasEntry(i, r, row)'
    BY <1>1 DEF VersionsHaveEntries
  <2>0. r \in Row
    BY <1>0, <1>2, SizeAssumption DEF Row, TypeInv
  <2>1. HasEntry(i, r, row)' <=> HasEntry(i, r, row)
    BY DEF HasEntry
  <2>2. \A old \in ValuesOf(r) : HasEntry(i, r, old)
    BY <1>0 DEF VersionsHaveEntries
  <2>3. data[r] \in ValuesOf(r) /\ \A v \in Range(chain[r]) : v.saved \in ValuesOf(r)
    BY DEF ValuesOf
  <2>4. row \in ValuesOf(r) \/ (row = data'[r] /\ data'[r] # data[r])
    <3>1. row = data'[r] \/ \E v \in Range(chain'[r]) : row = v.saved
      BY DEF ValuesOf
    <3> QED
      BY <1>4, <2>0, <2>3, <3>1
  <2>5. ASSUME row = data'[r], data'[r] # data[r]
        PROVE  HasEntry(i, r, row)
    <3>1. r \in done /\ s.kind = "update" /\ row = Written(t, at(r))
      BY <1>4, <2>0, <2>5
    <3>2. at(r) \in DOMAIN s.rows /\ s.rows[at(r)] = r
      BY <1>3, <3>1
    <3>3. CASE Affected(t, i)
      <4>1. Updating(t) /\ i < current_index[t]
        BY <1>2, <3>1, IndexFacts DEF Updating, StatementOK
      <4>2. UpdateEntered(t, i)
        BY <1>0, <3>3, <4>1 DEF UpdatesHaveEntries
      <4> QED
        BY <3>1, <3>2, <4>2 DEF UpdateEntered
    <3>4. CASE ~Affected(t, i)
      <4> DEFINE j == at(r)
      <4>1. \A c \in Range(Keys[i]) : s.keys[1][c] = Keep
        BY <3>1, <3>4 DEF Affected
      <4>2. s.keys[j] = s.keys[1]
        BY <1>2, <3>1, <3>2 DEF StatementOK
      <4>3. \A c \in Range(Keys[i]) : Written(t, j)[c] = data[r][c]
        <5>1. Range(Keys[i]) \subseteq Column
          BY IndexFacts
        <5> HIDE DEF j
        <5>2. Written(t, j) = [c \in Column |-> IF s.keys[j][c] = Keep THEN data[s.rows[j]][c] ELSE s.keys[j][c]]
          BY <3>1 DEF Written, Filled
        <5>3. s.rows[j] = r
          BY <3>2 DEF j
        <5> QED
          BY <4>1, <4>2, <5>1, <5>2, <5>3
      <4>4. KeyOf(i, row) = KeyOf(i, data[r])
        BY <3>1, <4>3, KeyOfColumns
      <4> QED
        BY <2>2, <2>3, <4>4 DEF HasEntry
    <3> QED
      BY <3>3, <3>4
  <2> QED
    BY <2>1, <2>2, <2>4, <2>5
<1>13. UpdatesHaveEntries'
  <2> SUFFICES ASSUME NEW u \in Tx, Updating(u)', NEW i \in Index, (i < current_index[u] /\ Affected(u, i))',
                      NEW j \in DOMAIN statement'[u].rows, statement'[u].rows[j] \notin dirty
               PROVE  HasEntry(i, statement[u].rows[j], Written(u, j))' /\ ~InConflict(u, statement[u].rows[j])'
    BY DEF UpdatesHaveEntries, UpdateEntered
  <2>1. u # t
    BY <1>6 DEF Updating
  <2>2. statement'[u] = statement[u] /\ Updating(u) /\ Affected(u, i) /\ i < current_index[u]
    BY <1>6, <2>1 DEF Updating, Affected
  <2>3. HasEntry(i, statement[u].rows[j], Written(u, j)) /\ ~InConflict(u, statement[u].rows[j])
    BY <1>0, <2>2 DEF UpdatesHaveEntries, UpdateEntered
  <2>4. statement[u].rows[j] \in Row /\ ChunkOf(statement[u].rows[j]) = ChunkFor(u)
    <3>1. statement[u].rows \in Seq(Row) /\ FoundRows(u) /\ statement[u].kind = "update"
      BY <1>0, <2>2 DEF TypeInv, Statement, StatementsOK, StatementOK, Updating
    <3> QED
      BY <2>2, <3>1 DEF FoundRows, ChunkFor
  <2>5. statement[u].rows[j] \notin done
    <3>1. ChunkFor(u) # ChunkFor(t)
      BY <1>0, <2>1, <2>2, LockedApart DEF Updating
    <3> QED
      BY <1>3, <2>4, <3>1
  <2>6. data'[statement[u].rows[j]] = data[statement[u].rows[j]]
        /\ chain'[statement[u].rows[j]] = chain[statement[u].rows[j]]
    BY <1>4, <2>4, <2>5
  <2>7. Written(u, j)' = Written(u, j)
    BY <2>2, <2>6 DEF Written, Filled
  <2> QED
    BY <2>2, <2>3, <2>6, <2>7 DEF HasEntry, InConflict, Uncommitted, Number
<1> QED
  BY <1>6, <1>7, <1>8, <1>9, <1>11, <1>12, <1>13 DEF IInv

LEMMA WriteRowsKeeps ==
  ASSUME IInv, fault = Alive, NEW t \in Tx, WriteRows(t)
  PROVE  IInv'
BY WriteInsertedKeeps, WriteFoundKeeps DEF WriteRows

\* What a rollback leaves of a chain, and the version that it restores.
\* The newest version of a row is undone, if there is one of t.
LEMMA UndoneRow ==
  ASSUME IInv, NEW t \in Tx, Rollback(t)
  PROVE  /\ phase'[t] \in {"undoing", "done"} /\ \A u \in Tx : u # t => phase'[u] = phase[u]
         /\ phase' \in [Tx -> {"idle", "ready", "locking", "indexing", "reverting",
                               "writing", "failed", "undoing", "done"}]
         /\ earlier' \in [Tx -> [Row -> SUBSET Reading]]
         /\ deleted' \in [Row -> BOOLEAN]
         /\ data' = [r \in Row |-> data'[r]] /\ chain' = [r \in Row |-> chain'[r]]
         /\ \A r \in Row : \/ data'[r] = data[r] /\ chain'[r] = chain[r]
                           \/ /\ chain[r] # << >> /\ chain[r][1].by = t
                              /\ chain'[r] = Tail(chain[r])
                              /\ data'[r] \in {data[r], chain[r][1].saved}
<1> DEFINE mine == {r \in Row : chain[r] # << >> /\ chain[r][1].by = t}
<1>0. TypeInv
  BY DEF IInv
<1>1. /\ phase \in [Tx -> {"idle", "ready", "locking", "indexing", "reverting",
                           "writing", "failed", "undoing", "done"}]
      /\ chain = [r \in Row |-> chain[r]] /\ data = [r \in Row |-> data[r]]
      /\ deleted \in [Row -> BOOLEAN]
      /\ earlier \in [Tx -> [Row -> SUBSET Reading]]
  BY <1>0 DEF TypeInv
<1>2. CASE mine = {}
  <2>1. phase' = [phase EXCEPT ![t] = "done"] /\ UNCHANGED <<chain, deleted, data, earlier>>
    BY <1>2 DEF Rollback, Goto
  <2> QED
    BY <1>1, <2>1
<1>3. CASE mine # {}
  <2>1. phase' = [phase EXCEPT ![t] = "undoing"] /\ \E r \in mine : Undo(t, r)
    BY <1>3 DEF Rollback, Goto
  <2>2. PICK r \in mine : Undo(t, r)
    BY <2>1
  <2>3. r \in Row /\ chain[r] # << >> /\ chain[r][1].by = t
    BY <2>2
  <2> HIDE DEF mine
  <2> DEFINE saved == chain[r][1].saved
  <2>4. /\ chain' = [chain EXCEPT ![r] = Tail(@)]
        /\ deleted' = [deleted EXCEPT ![r] = (saved = Nowhere)]
        /\ data' = [data EXCEPT ![r] = IF saved = Nowhere THEN @ ELSE saved]
        /\ earlier' = [u \in Tx |-> IF phase[u] # "indexing" THEN earlier[u]
                                    ELSE [earlier[u] EXCEPT ![r] = @ \cup {Now(r)}]]
    BY <2>2 DEF Undo
  <2>5. Now(r) \in Reading
    BY <1>0, <2>3 DEF Now, Reading, TypeInv, Values
  <2> HIDE DEF saved
  <2>6. earlier' \in [Tx -> [Row -> SUBSET Reading]]
    <3> HIDE DEF Reading
    <3>1. ASSUME NEW u \in Tx
          PROVE  [earlier[u] EXCEPT ![r] = @ \cup {Now(r)}] \in [Row -> SUBSET Reading]
      BY <1>1, <2>3, <2>5
    <3> QED
      BY <1>1, <2>4, <3>1
  <2>7. deleted' \in [Row -> BOOLEAN]
    <3>1. (saved = Nowhere) \in BOOLEAN
      OBVIOUS
    <3> QED
      BY <1>1, <2>4, <3>1
  <2>8. data' = [x \in Row |-> data'[x]] /\ chain' = [x \in Row |-> chain'[x]]
    BY <1>1, <2>4
  <2>9. /\ \A x \in Row : x # r => data'[x] = data[x] /\ chain'[x] = chain[x]
        /\ chain'[r] = Tail(chain[r]) /\ data'[r] \in {data[r], saved}
    BY <1>1, <2>3, <2>4
  <2> QED
    BY <1>1, <2>1, <2>3, <2>6, <2>7, <2>8, <2>9 DEF saved
<1> QED
  BY <1>2, <1>3

LEMMA RollbackKeeps ==
  ASSUME IInv, fault = Alive, NEW t \in Tx, Rollback(t)
  PROVE  IInv'
<1> DEFINE mine == {r \in Row : chain[r] # << >> /\ chain[r][1].by = t}
<1>0. /\ TypeInv /\ TreesOK /\ StatementsOK /\ EntriesOfInserts /\ VersionsHaveEntries
      /\ UpdatesHaveEntries /\ RevertsRemoveLeaves
  BY DEF IInv
<1>1. phase[t] \in {"ready", "failed", "undoing"} /\ commit_id[t] = 0
  BY <1>0 DEF Rollback, StatementsOK, StatementOK
<1>2. UNCHANGED <<clock, start_time, commit_id, issued, statement, current_index,
                  added_nodes, count, index, exclusive_lock, read_count, fault,
                  unlocked, dirty, torn, clobbered>>
  BY DEF Rollback, locks
<1>3. /\ \A r \in Row : r \notin mine => data'[r] = data[r] /\ chain'[r] = chain[r]
      /\ \A r \in mine : \/ data'[r] = data[r] /\ chain'[r] = chain[r]
                         \/ /\ chain'[r] = Tail(chain[r])
                            /\ data'[r] \in {data[r], chain[r][1].saved}
  BY UndoneRow
<1>4. phase'[t] \in {"undoing", "done"} /\ \A u \in Tx : u # t => phase'[u] = phase[u]
  BY UndoneRow
<1>5. ASSUME NEW r \in Row
      PROVE  /\ chain'[r] \in Seq(Version) /\ data'[r] \in Values
             /\ Range(chain'[r]) \subseteq Range(chain[r])
             /\ data'[r] = data[r] \/ \E v \in Range(chain[r]) : data'[r] = v.saved
  <2>1. chain[r] \in Seq(Version) /\ data[r] \in Values
    BY <1>0 DEF TypeInv
  <2>2. CASE data'[r] = data[r] /\ chain'[r] = chain[r]
    BY <2>1, <2>2
  <2>3. CASE /\ r \in mine /\ chain'[r] = Tail(chain[r])
             /\ data'[r] \in {data[r], chain[r][1].saved}
    <3>1. chain[r] # << >>
      BY <2>3 DEF mine
    <3>2. /\ Tail(chain[r]) \in Seq(Version) /\ Range(Tail(chain[r])) \subseteq Range(chain[r])
          /\ chain[r][1] \in Version /\ chain[r][1] \in Range(chain[r])
      <4> HIDE DEF Version
      <4>1. Len(chain[r]) \in Nat \ {0} /\ 1 \in DOMAIN chain[r]
        BY <2>1, <3>1
      <4> QED
        BY <2>1, <3>1, <4>1 DEF Range
    <3>3. chain[r][1].saved \in Values
      BY <3>2 DEF Version
    <3> QED
      BY <2>1, <2>3, <3>2, <3>3
  <2> QED
    BY <1>3, <2>2, <2>3
<1>6. data' \in [Row -> Values] /\ chain' \in [Row -> Seq(Version)]
  <2>1. data' = [r \in Row |-> data'[r]] /\ chain' = [r \in Row |-> chain'[r]]
    BY UndoneRow
  <2> HIDE DEF Version
  <2> QED
    BY <1>5, <2>1
<1>7. TypeInv'
  <2>1. /\ deleted' \in [Row -> BOOLEAN] /\ earlier' \in [Tx -> [Row -> SUBSET Reading]]
        /\ phase' \in [Tx -> {"idle", "ready", "locking", "indexing", "reverting",
                              "writing", "failed", "undoing", "done"}]
    BY UndoneRow
  <2> QED
    BY <1>0, <1>2, <1>6, <2>1 DEF TypeInv
<1>8. TreesOK'
  BY <1>0, <1>2 DEF TreesOK
<1>9. StatementsOK'
  <2> SUFFICES ASSUME NEW u \in Tx
               PROVE  StatementOK(u)'
    BY DEF StatementsOK
  <2>1. CASE u = t
    BY <1>1, <1>2, <1>4, <2>1 DEF StatementOK
  <2>2. CASE u # t
    BY <1>0, <1>2, <1>4, <2>2, StatementKept DEF StatementsOK
  <2> QED
    BY <2>1, <2>2
<1>10. RevertsRemoveLeaves'
  BY <1>0, <1>2 DEF RevertsRemoveLeaves
<1>11. \A u \in Tx : /\ Inserting(u)' <=> Inserting(u)
                     /\ Updating(u)' <=> Updating(u)
                     /\ Updating(u) => u # t
  BY <1>1, <1>2, <1>4 DEF Inserting, Updating
<1>12. EntriesOfInserts'
  <2>1. \A u, j : NewKeys(u, j)' = NewKeys(u, j)
    BY <1>2 DEF NewKeys
  <2>2. ASSUME NEW u \in Tx, Inserting(u), NEW j \in Index, j < current_index[u]
        PROVE  /\ DOMAIN added_nodes[u][j] = DOMAIN statement[u].keys
               /\ Entered(index[j], added_nodes[u][j], NewKeys(u, j), statement[u].rows)
    BY <1>0, <2>2 DEF EntriesOfInserts
  <2>3. ASSUME NEW j \in Index, NEW n \in DOMAIN index[j].node, index[j].node[n].row > count
        PROVE  \E u \in Tx : Inserting(u) /\ j < current_index[u] /\ n \in Range(added_nodes[u][j])
    BY <1>0, <2>3 DEF EntriesOfInserts
  <2> QED
    BY <1>2, <1>11, <2>1, <2>2, <2>3 DEF EntriesOfInserts
<1>13. VersionsHaveEntries'
  <2> SUFFICES ASSUME NEW i \in Index, NEW r \in 1..count, r \notin dirty, NEW row \in ValuesOf(r)'
               PROVE  HasEntry(i, r, row)'
    BY <1>2 DEF VersionsHaveEntries
  <2>0. r \in Row
    BY <1>0, SizeAssumption DEF Row, TypeInv
  <2>1. HasEntry(i, r, row)' <=> HasEntry(i, r, row)
    BY <1>2 DEF HasEntry
  <2>2. row \in ValuesOf(r)
    <3>1. row = data'[r] \/ \E v \in Range(chain'[r]) : row = v.saved
      BY DEF ValuesOf
    <3> QED
      BY <1>5, <2>0, <3>1 DEF ValuesOf
  <2> QED
    BY <1>0, <2>1, <2>2 DEF VersionsHaveEntries
<1>14. UpdatesHaveEntries'
  <2> SUFFICES ASSUME NEW u \in Tx, Updating(u)', NEW i \in Index, (i < current_index[u] /\ Affected(u, i))',
                      NEW j \in DOMAIN statement'[u].rows, statement'[u].rows[j] \notin dirty
               PROVE  HasEntry(i, statement[u].rows[j], Written(u, j))' /\ ~InConflict(u, statement[u].rows[j])'
    BY <1>2 DEF UpdatesHaveEntries, UpdateEntered
  <2>1. u # t /\ Updating(u) /\ Affected(u, i) /\ i < current_index[u]
    BY <1>2, <1>11 DEF Affected
  <2>2. HasEntry(i, statement[u].rows[j], Written(u, j)) /\ ~InConflict(u, statement[u].rows[j])
    BY <1>0, <1>2, <2>1 DEF UpdatesHaveEntries, UpdateEntered
  <2>3. statement[u].rows[j] \in Row
    BY <1>0, <1>2 DEF TypeInv, Statement
  <2>4. statement[u].rows[j] \notin mine
    <3> QED
      BY <1>1, <2>1, <2>2 DEF mine, InConflict, Uncommitted, Number
  <2>5. data'[statement[u].rows[j]] = data[statement[u].rows[j]]
        /\ chain'[statement[u].rows[j]] = chain[statement[u].rows[j]]
    BY <1>3, <2>3, <2>4
  <2>6. Written(u, j)' = Written(u, j)
    BY <1>2, <2>5 DEF Written, Filled
  <2> QED
    BY <1>2, <2>2, <2>5, <2>6 DEF HasEntry, InConflict, Uncommitted, Number
<1> QED
  BY <1>7, <1>8, <1>9, <1>10, <1>12, <1>13, <1>14 DEF IInv

-----------------------------------------------------------------------------
(* The invariant holds. *)

LEMMA InitInvariant == Init => IInv
<1> SUFFICES ASSUME Init
             PROVE  IInv
  OBVIOUS
<1>1. /\ clock = 1
      /\ start_time = [t \in Tx |-> 0] /\ commit_id = [t \in Tx |-> 0]
      /\ phase = [t \in Tx |-> "idle"]
      /\ issued = 0
      /\ statement = [t \in Tx |-> NoStatement]
      /\ current_index = [t \in Tx |-> 1]
      /\ added_nodes = [t \in Tx |-> [i \in Index |-> << >>]]
      /\ count = Len(Loaded)
      /\ data = [r \in Row |-> IF r <= count THEN Loaded[r] ELSE Nowhere]
      /\ deleted = [r \in Row |-> FALSE]
      /\ chain = [r \in Row |-> << >>]
      /\ index = [i \in Index |-> LoadedTree(i)]
      /\ exclusive_lock = [c \in Chunk |-> NoTx]
      /\ read_count = [c \in Chunk |-> 0]
      /\ fault = Alive /\ unlocked = {} /\ dirty = {} /\ torn = {} /\ clobbered = {}
      /\ earlier = [t \in Tx |-> NoneEarlier]
  BY DEF Init
<1>2. /\ Len(Loaded) \in Nat /\ Len(Loaded) <= MaxRows /\ MaxRows \in Nat
      /\ Nowhere \in Values
      /\ \A r \in 1..Len(Loaded) : Loaded[r] \in Values
  BY LoadedFacts DEF Nowhere, Null, Values
<1>3. \A r \in Row : data[r] \in Values
  BY <1>1, <1>2 DEF Row
<1>4. NoStatement \in Statement /\ NoStatement.kind = "none"
  BY DEF NoStatement, Statement
<1>5. TypeInv
  <2>1. current_index \in [Tx -> 1..Len(AllowNulls) + 1]
    BY <1>1, IndexFacts
  <2>2. added_nodes \in [Tx -> [Index -> Seq(Nat)]]
    BY <1>1
  <2>3. issued \in 0..MaxStatements
    BY <1>1, SizeAssumption
  <2>4. chain \in [Row -> Seq(Version)]
    <3> HIDE DEF Version
    <3> QED
      BY <1>1
  <2>5. data \in [Row -> Values] /\ statement \in [Tx -> Statement]
    <3> HIDE DEF Values, Statement
    <3> QED
      BY <1>1, <1>3, <1>4
  <2>6. count \in 0..MaxRows
    BY <1>1, <1>2
  <2>7. earlier \in [Tx -> [Row -> SUBSET Reading]]
    <3> HIDE DEF Reading
    <3> QED
      BY <1>1 DEF NoneEarlier
  <2> QED
    BY <1>1, <2>1, <2>2, <2>3, <2>4, <2>5, <2>6, <2>7 DEF TypeInv
<1>6. \A i \in Index : LoadedIndex(i, index[i], count)
  BY <1>1, LoadedTreeIndex
<1>7. TreesOK
  BY <1>1, <1>6 DEF TreesOK, LoadedIndex
<1>8. StatementsOK
  BY <1>1, <1>4 DEF StatementsOK, StatementOK
<1>9. \A t \in Tx : ~Inserting(t) /\ ~Updating(t)
  BY <1>1 DEF Inserting, Updating
<1>10. EntriesOfInserts
  <2>1. ASSUME NEW i \in Index, NEW n \in DOMAIN index[i].node, index[i].node[n].row > count
        PROVE  FALSE
    <3>1. index[i].node[n].row <= count
      BY <1>6 DEF LoadedIndex
    <3>2. index[i].node[n].row \in Nat /\ count \in Nat
      BY <1>5, <1>7, RowsOfEntries
    <3> QED
      BY <2>1, <3>1, <3>2
  <2> QED
    BY <1>9, <2>1 DEF EntriesOfInserts
<1>11. VersionsHaveEntries
  <2> SUFFICES ASSUME NEW i \in Index, NEW r \in 1..count, NEW row \in ValuesOf(r)
               PROVE  HasEntry(i, r, row)
    BY DEF VersionsHaveEntries
  <2>1. r \in Row /\ r <= count
    BY <1>1, <1>2 DEF Row
  <2>2. chain[r] = << >> /\ data[r] = Loaded[r]
    BY <1>1, <2>1
  <2>3. row = Loaded[r]
    BY <2>2 DEF ValuesOf, Range
  <2> QED
    BY <1>6, <2>3 DEF LoadedIndex, HasEntry
<1>12. UpdatesHaveEntries
  BY <1>9 DEF UpdatesHaveEntries
<1>13. RevertsRemoveLeaves
  BY <1>1 DEF RevertsRemoveLeaves, Alive
<1> QED
  BY <1>5, <1>7, <1>8, <1>10, <1>11, <1>12, <1>13 DEF IInv

LEMMA StutteringKeeps ==
  ASSUME IInv, UNCHANGED vars
  PROVE  IInv'
<1>0. TypeInv /\ StatementsOK
  BY DEF IInv
<1>1. /\ UNCHANGED <<clock, start_time, commit_id, phase, issued, statement, current_index,
                     added_nodes, data, deleted, count, chain, index, exclusive_lock,
                     read_count, fault, unlocked, dirty, torn, clobbered, earlier>>
      /\ UNCHANGED <<rowState, index, fault, history, added_nodes, current_index>>
  BY DEF vars, control, rowState, locks, history
<1>2. TypeInv'
  BY <1>0, <1>1 DEF TypeInv
<1>3. StatementsOK'
  BY <1>0, <1>1, StatementKept DEF StatementsOK
<1>4. \A u \in Tx : (Inserting(u)' <=> Inserting(u)) /\ (Updating(u)' <=> Updating(u))
  BY <1>1 DEF Inserting, Updating
<1>5. /\ TreesOK' /\ EntriesOfInserts' /\ VersionsHaveEntries' /\ UpdatesHaveEntries'
      /\ RevertsRemoveLeaves'
  BY <1>1, <1>4, QuietKeeps
<1> QED
  BY <1>2, <1>3, <1>5 DEF IInv

\* The trees are search trees, and the entries, the rows and the statements on
\* their way agree, whatever the connections do.
THEOREM SpecInvariant == Spec => []IInv
<1>1. IInv /\ [Next]_vars => IInv'
  <2> SUFFICES ASSUME IInv, [Next]_vars
               PROVE  IInv'
    OBVIOUS
  <2>1. CASE UNCHANGED vars
    BY <2>1, StutteringKeeps
  <2>2. CASE Next
    <3>1. PICK t \in Tx : \/ Begin(t) \/ Insert(t) \/ Update(t) \/ Delete(t)
                          \/ LockChunk(t) \/ EnterKeys(t) \/ RevertIndex(t) \/ WriteRows(t)
                          \/ Commit(t) \/ Rollback(t)
      BY <2>2 DEF Next
    <3>2. fault = Alive
      BY <2>2 DEF Next
    <3>3. CASE Begin(t) \/ Insert(t) \/ Update(t) \/ Delete(t)
      BY <3>3, BeginKeeps, InsertKeeps, UpdateKeeps, DeleteKeeps
    <3>4. CASE LockChunk(t) \/ EnterKeys(t) \/ RevertIndex(t)
      BY <3>2, <3>4, LockChunkKeeps, EnterKeysKeeps, RevertIndexKeeps
    <3>5. CASE WriteRows(t) \/ Commit(t) \/ Rollback(t)
      BY <3>2, <3>5, WriteRowsKeeps, CommitKeeps, RollbackKeeps
    <3> QED
      BY <3>1, <3>3, <3>4, <3>5
  <2> QED
    BY <2>1, <2>2
<1> QED
  BY InitInvariant, <1>1, PTL DEF Spec

LEMMA InvariantTypes == IInv => TypeOK
<1> SUFFICES ASSUME IInv
             PROVE  TypeOK
  OBVIOUS
<1>1. TypeInv /\ TreesOK
  BY DEF IInv
<1>2. \A r \in Row : \A v \in Range(chain[r]) : v.by \in Tx
  <2> SUFFICES ASSUME NEW r \in Row, NEW v \in Range(chain[r])
               PROVE  v.by \in Tx
    OBVIOUS
  <2>1. chain[r] \in Seq(Version)
    BY <1>1 DEF TypeInv
  <2>2. v \in Version
    <3> HIDE DEF Version
    <3> QED
      BY <2>1 DEF Range
  <2> QED
    BY <2>2 DEF Version
<1>3. data \in [Row -> [Column -> Nat]]
  BY <1>1 DEF TypeInv, Values
<1>4. \A i \in Index : \A n \in DOMAIN index[i].node : index[i].node[n] \in NodeType
  BY <1>1 DEF TreesOK, SearchTree, Tree
<1> QED
  BY <1>1, <1>2, <1>3, <1>4 DEF TypeInv, TypeOK

\* Every entry of every index is a record with a key, a row of the table and
\* pointers, and no row number, chunk lock or program counter leaves its type,
\* whatever is entered, removed and rolled back (the invariant TypeOK).
THEOREM TypeCorrect == Spec => []TypeOK
BY SpecInvariant, InvariantTypes, PTL

\* A search for a key comes past the entry of every row and of every version
\* that has the key, however the trees were attached to, cut and joined before:
\* no second row with the key is let in because its entry is not found
\* (UniqueIndex::AddEntry, RemoveEntry).
THEOREM KeysAreFound == Spec => []EveryKeyIsFound
<1>1. IInv => EveryKeyIsFound
  <2> SUFFICES ASSUME IInv, NEW i \in Index, NEW r \in 1..count \ dirty, NEW row \in ValuesOf(r),
                      KeyOf(i, row) # NoKey
               PROVE  r \in {index[i].node[n].row : n \in Search(index[i], KeyOf(i, row))}
    BY DEF EveryKeyIsFound, ValuesOf
  <2>1. PICK n \in DOMAIN index[i].node : index[i].node[n].row = r /\ index[i].node[n].key = KeyOf(i, row)
    BY DEF IInv, VersionsHaveEntries, HasEntry
  <2>2. n \in Search(index[i], KeyOf(i, row))
    BY <2>1 DEF IInv, TreesOK, SearchTree, Placed
  <2> QED
    BY <2>1, <2>2
<1> QED
  BY SpecInvariant, <1>1, PTL

\* When no INSERT is on its way, every entry of every index leads to a row that
\* is counted, so that the next AddEntry finds the chunk of the row it compares:
\* an INSERT that one of the indexes rejected has taken back its entries in all
\* of them (UniqueIndex::Append).
THEOREM RejectedInsertsAreTakenBack == Spec => []RejectedInsertsLeaveNoEntry
<1>1. IInv => RejectedInsertsLeaveNoEntry
  <2> SUFFICES ASSUME IInv, fault = Alive,
                      \A t \in Tx : phase[t] \notin {"indexing", "reverting", "writing"},
                      NEW i \in Index, NEW n \in DOMAIN index[i].node
               PROVE  index[i].node[n].row <= count
    BY DEF RejectedInsertsLeaveNoEntry
  <2>1. ~(index[i].node[n].row > count)
    BY DEF IInv, EntriesOfInserts, Inserting
  <2>2. index[i].node[n].row \in Nat /\ count \in Nat
    BY RowsOfEntries DEF IInv
  <2> QED
    BY <2>1, <2>2
<1> QED
  BY SpecInvariant, <1>1, PTL

\* Append, which takes back the indexes it has come past without index_lock,
\* runs into an entry it cannot remove only if an UPDATE of an earlier chunk has
\* hung an entry of a counted row below one of its own in between.
THEOREM RevertsMeetLeaves == Spec => []RevertsRemoveLeaves
<1>1. IInv => RevertsRemoveLeaves
  BY DEF IInv
<1> QED
  BY SpecInvariant, <1>1, PTL

===============================================================================
