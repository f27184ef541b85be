--------------------------- MODULE UniqueKeysProofs ---------------------------
(***************************************************************************)
(* Proof that the constraints of UniqueIndex hold: neither the committed   *)
(* rows nor any snapshot hold two rows with equal keys, for every set of   *)
(* transactions, every table and every set of indexes and statements.      *)
(***************************************************************************)
EXTENDS UniqueIndexProofs

-----------------------------------------------------------------------------
(* What readers find. *)

\* A reader who sees the versions of the transactions S stops behind the k
\* newest versions vs of a row, and finds what the last of them has saved.
Stops(vs, S, k) ==
    /\ k \in 0..Len(vs)
    /\ \A j \in 1..k : vs[j].by \notin S
    /\ k < Len(vs) => vs[k + 1].by \in S

At(vs, base, k) == IF k = 0 THEN base ELSE vs[k].saved

Along(vs, base, S) == At(vs, base, CHOOSE k \in 0..Len(vs) : Stops(vs, S, k))

Base(r) == IF deleted[r] THEN Nowhere ELSE data[r]
View(r, S) == Along(chain[r], Base(r), S)

-----------------------------------------------------------------------------
(* The inductive invariant. *)

Settled == {u \in Tx : commit_id[u] # 0}
SeenBy(t) == {u \in Tx : u = t \/ (commit_id[u] # 0 /\ commit_id[u] < start_time[t])}

\* The transactions that may still commit.
Running == {u \in Tx : phase[u] \notin {"undoing", "done"}}

\* The readers that t's writes are new to: t itself, and whoever sees all that
\* is committed and what t and any others that run have written.
Readers(t) == {SeenBy(t)} \cup {Settled \cup T : T \in {T \in SUBSET Running : t \in T}}

\* The rows that UniqueKeys excepts for everybody.
Excepted == unlocked \cup dirty \cup torn \cup clobbered

Apart(rows, S) ==
    \A i \in Index : \A r, s \in rows :
        r # s /\ KeyOf(i, View(r, S)) # NoKey => KeyOf(i, View(r, S)) # KeyOf(i, View(s, S))

\* The keys stay apart whichever running transactions commit next.
CommitsApart == \A T \in SUBSET Running : Apart(1..count \ Excepted, Settled \cup T)

SnapshotsApart == \A t \in Active : Apart(1..count \ (Excepted \cup Overtaken(t)), SeenBy(t))

\* A statement of t has entered the keys of index i and not written its rows.
Entering(t, i) ==
    /\ statement[t].kind \in {"insert", "update"} /\ phase[t] \in {"indexing", "writing"}
    /\ i < current_index[t] /\ Affected(t, i)

NewKey(t, i, j) == KeyOf(i, Written(t, j))

\* No other row has a key that a statement has entered.
KeyFree(t, i, j) ==
    \A s \in 1..count \ (Excepted \cup Range(statement[t].rows)) :
        \A S \in Readers(t) : KeyOf(i, View(s, S)) # NewKey(t, i, j)

KeysFree ==
    fault = Alive => \A t \in Tx, i \in Index : Entering(t, i) =>
        \A j \in DOMAIN statement[t].rows :
            statement[t].rows[j] \notin Excepted /\ NewKey(t, i, j) # NoKey => KeyFree(t, i, j)

\* No two rows have been given the same key, by one statement or by two.
KeyDiffers(t, u, i, j, k) ==
    NewKey(t, i, j) = NewKey(u, i, k) =>
        \/ NewKey(t, i, j) = NoKey
        \/ statement[t].rows[j] \in Excepted \/ statement[u].rows[k] \in Excepted

KeysDiffer ==
    fault = Alive => \A t, u \in Tx, i \in Index : Entering(t, i) /\ Entering(u, i) =>
        \A j \in DOMAIN statement[t].rows : \A k \in DOMAIN statement[u].rows :
            t # u \/ j # k => KeyDiffers(t, u, i, j, k)

\* Uncommitted versions are of one transaction and before all others.
ChainsOrdered ==
    \A r \in Row : \A a, b \in DOMAIN chain[r] :
        a < b => chain[r][a].by = chain[r][b].by \/ chain[r][b].by \in Settled

ClockAhead == \A t \in Tx : commit_id[t] < clock /\ start_time[t] <= clock

KeysInv == CommitsApart /\ SnapshotsApart /\ KeysFree /\ KeysDiffer /\ ChainsOrdered /\ ClockAhead
KInv == IInv /\ KeysInv

-----------------------------------------------------------------------------
(* Reading along a chain. *)

LEMMA AlongStops ==
  ASSUME NEW vs \in Seq(Version), NEW base, NEW S
  PROVE  /\ \E k \in 0..Len(vs) : Stops(vs, S, k)
         /\ \A k : Stops(vs, S, k) => Along(vs, base, S) = At(vs, base, k)
<1> DEFINE N == Len(vs)
<1>1. N \in Nat
  OBVIOUS
<1> HIDE DEF N
<1>2. \A a, b : Stops(vs, S, a) /\ Stops(vs, S, b) => a = b
  <2> SUFFICES ASSUME NEW a, NEW b, Stops(vs, S, a), Stops(vs, S, b), a # b
               PROVE  FALSE
    OBVIOUS
  <2>1. a \in 0..N /\ b \in 0..N
    BY DEF Stops, N
  <2>2. ASSUME NEW c \in 0..N, NEW d \in 0..N, c < d, Stops(vs, S, c), Stops(vs, S, d)
        PROVE  FALSE
    <3>1. c + 1 \in 1..d /\ c < N
      BY <1>1, <2>2
    <3> QED
      BY <2>2, <3>1 DEF Stops, N
  <2>3. a < b \/ b < a
    BY <1>1, <2>1
  <2> QED
    BY <2>1, <2>2, <2>3
<1>3. \E k \in 0..N : Stops(vs, S, k)
  <2> DEFINE K == {k \in 0..N : k < N => vs[k + 1].by \in S}
  <2>1. K \in SUBSET Nat /\ N \in K
    BY <1>1
  <2> HIDE DEF K
  <2>2. PICK k \in K : \A m \in K : k <= m
    BY <2>1, LeastNumber
  <2>3. k \in 0..N /\ (k < N => vs[k + 1].by \in S)
    BY DEF K
  <2>4. ASSUME NEW j \in 1..k
        PROVE  vs[j].by \notin S
    <3>1. j - 1 \in 0..N /\ (j - 1) + 1 = j /\ ~(k <= j - 1)
      BY <1>1, <2>3
    <3>2. j - 1 \notin K
      BY <2>2, <3>1
    <3> QED
      BY <3>1, <3>2 DEF K
  <2> QED
    BY <2>3, <2>4 DEF Stops, N
<1>4. ASSUME NEW k, Stops(vs, S, k)
      PROVE  Along(vs, base, S) = At(vs, base, k)
  <2>1. k \in 0..N
    BY <1>4 DEF Stops, N
  <2>2. (CHOOSE m \in 0..N : Stops(vs, S, m)) = k
    BY <1>2, <1>4, <2>1
  <2> QED
    BY <2>2 DEF Along, N
<1> QED
  BY <1>3, <1>4 DEF N

\* Readers who see the newest version find the row itself.
LEMMA AlongFront ==
  ASSUME NEW vs \in Seq(Version), NEW base, NEW S, vs = << >> \/ vs[1].by \in S
  PROVE  Along(vs, base, S) = base
<1>1. Len(vs) \in Nat /\ (vs = << >> => Len(vs) = 0)
  OBVIOUS
<1>2. Stops(vs, S, 0)
  BY <1>1 DEF Stops
<1> QED
  BY <1>2, AlongStops DEF At

LEMMA EmptyChain ==
  ASSUME NEW base, NEW S
  PROVE  Along(<< >>, base, S) = base
<1> DEFINE vs == << >>
<1>1. vs \in Seq(Version) /\ vs = << >>
  OBVIOUS
<1> HIDE DEF vs, Version
<1>2. Along(vs, base, S) = base
  BY <1>1, AlongFront
<1> QED
  BY <1>1, <1>2

\* A version in front changes nothing for those who do not see it.
LEMMA AlongPushed ==
  ASSUME NEW vs \in Seq(Version), NEW v \in Version, NEW base, NEW new, NEW S, v.by \notin S, v.saved = base
  PROVE  Along(<<v>> \o vs, new, S) = Along(vs, base, S)
<1> DEFINE ws == <<v>> \o vs
<1> HIDE DEF Version
<1>1. /\ ws \in Seq(Version) /\ Len(ws) = Len(vs) + 1 /\ Len(vs) \in Nat /\ ws[1] = v
      /\ \A k \in 1..Len(vs) : ws[k + 1] = vs[k]
  OBVIOUS
<1>2. PICK k \in 0..Len(vs) : Stops(vs, S, k)
  BY AlongStops
<1> HIDE DEF ws
<1>3. Stops(ws, S, k + 1)
  <2>1. k + 1 \in 0..Len(ws)
    BY <1>1
  <2>2. ASSUME NEW j \in 1..k + 1
        PROVE  ws[j].by \notin S
    <3>1. j = 1 \/ (j - 1 \in 1..k /\ j - 1 \in 1..Len(vs) /\ (j - 1) + 1 = j)
      BY <1>1
    <3> QED
      BY <1>1, <1>2, <3>1 DEF Stops
  <2>3. k + 1 < Len(ws) => ws[k + 1 + 1].by \in S
    <3> SUFFICES ASSUME k + 1 < Len(ws)
                 PROVE  ws[k + 1 + 1].by \in S
      OBVIOUS
    <3>1. k < Len(vs) /\ k + 1 \in 1..Len(vs)
      BY <1>1
    <3> QED
      BY <1>1, <1>2, <3>1 DEF Stops
  <2> QED
    BY <2>1, <2>2, <2>3 DEF Stops
<1>4. At(ws, new, k + 1) = At(vs, base, k)
  <2>1. CASE k = 0
    BY <1>1, <2>1 DEF At
  <2>2. CASE k # 0
    <3>1. k \in 1..Len(vs) /\ k + 1 # 0
      BY <1>1, <2>2
    <3> QED
      BY <1>1, <2>2, <3>1 DEF At
  <2> QED
    BY <2>1, <2>2
<1>5. Along(ws, new, S) = At(ws, new, k + 1) /\ Along(vs, base, S) = At(vs, base, k)
  BY <1>1, <1>2, <1>3, AlongStops
<1> QED
  BY <1>4, <1>5 DEF ws

\* Nor does it change anything for those who did not see the m newest versions
\* that these go and the last of them is restored.
LEMMA AlongTail ==
  ASSUME NEW vs \in Seq(Version), NEW base, NEW S, NEW m \in 1..Len(vs),
         \A k \in 1..m : vs[k].by \notin S
  PROVE  Along(SubSeq(vs, m + 1, Len(vs)), vs[m].saved, S) = Along(vs, base, S)
<1> DEFINE ws == SubSeq(vs, m + 1, Len(vs))
<1> HIDE DEF Version
<1>1. Len(vs) \in Nat /\ m \in Nat /\ m >= 1
  OBVIOUS
<1>2. ws = [k \in 1..Len(vs) - m |-> vs[m + k]]
  BY <1>1
<1>3. \A k \in 1..Len(vs) - m : m + k \in 1..Len(vs) /\ vs[m + k] \in Version
  BY <1>1
<1> HIDE DEF ws
<1>4. Len(ws) = Len(vs) - m /\ ws \in Seq(Version) /\ \A k \in 1..Len(vs) - m : ws[k] = vs[m + k]
  BY <1>1, <1>2, <1>3
<1>5. PICK k \in 0..Len(vs) : Stops(vs, S, k)
  BY AlongStops
<1>6. k >= m
  <2> SUFFICES ASSUME k < m
               PROVE  FALSE
    BY <1>1
  <2>1. k + 1 \in 1..m /\ k < Len(vs)
    BY <1>1
  <2> QED
    BY <1>5, <2>1 DEF Stops
<1>7. Stops(ws, S, k - m)
  <2>1. k - m \in 0..Len(ws)
    BY <1>1, <1>4, <1>6
  <2>2. ASSUME NEW j \in 1..k - m
        PROVE  ws[j].by \notin S
    <3>1. j \in 1..Len(vs) - m /\ m + j \in 1..k
      BY <1>1, <1>6
    <3> QED
      BY <1>4, <1>5, <3>1 DEF Stops
  <2>3. k - m < Len(ws) => ws[(k - m) + 1].by \in S
    <3> SUFFICES ASSUME k - m < Len(ws)
                 PROVE  ws[(k - m) + 1].by \in S
      OBVIOUS
    <3>1. (k - m) + 1 \in 1..Len(vs) - m /\ m + ((k - m) + 1) = k + 1 /\ k < Len(vs)
      BY <1>1, <1>4, <1>6
    <3> QED
      BY <1>4, <1>5, <3>1 DEF Stops
  <2> QED
    BY <2>1, <2>2, <2>3 DEF Stops
<1>8. At(ws, vs[m].saved, k - m) = At(vs, base, k)
  <2>1. CASE k = m
    BY <1>1, <2>1 DEF At
  <2>2. CASE k # m
    <3>1. k - m # 0 /\ k # 0 /\ k - m \in 1..Len(vs) - m /\ m + (k - m) = k
      BY <1>1, <1>6, <2>2
    <3> QED
      BY <1>4, <3>1 DEF At
  <2> QED
    BY <2>1, <2>2
<1>9. Along(ws, vs[m].saved, S) = At(ws, vs[m].saved, k - m) /\ Along(vs, base, S) = At(vs, base, k)
  BY <1>4, <1>5, <1>7, AlongStops
<1> QED
  BY <1>8, <1>9 DEF ws

-----------------------------------------------------------------------------
(* What the invariant says of rows, readers and keys. *)

LEMMA RowFacts ==
  ASSUME TypeInv, NEW r \in Row
  PROVE  /\ chain[r] \in Seq(Version) /\ data[r] \in Values /\ Base(r) \in Values
         /\ Len(chain[r]) \in Nat /\ DOMAIN chain[r] = 1..Len(chain[r])
         /\ \A k \in DOMAIN chain[r] : chain[r][k] \in Version /\ chain[r][k].by \in Tx
<1>1. chain[r] \in Seq(Version) /\ data[r] \in Values
  BY DEF TypeInv
<1>2. Base(r) \in Values
  BY <1>1 DEF Base, Nowhere, Null, Values
<1>3. \A v \in Version : v.by \in Tx
  BY DEF Version
<1> HIDE DEF Version
<1> QED
  BY <1>1, <1>2, <1>3

LEMMA CountedRows ==
  ASSUME TypeInv
  PROVE  count \in Nat /\ 1..count \subseteq Row
BY SizeAssumption DEF TypeInv, Row

LEMMA SeenVersions ==
  ASSUME NEW t \in Tx, NEW v, v.by \in Tx
  PROVE  /\ Sees(t, v) <=> v.by \in SeenBy(t)
         /\ ~Uncommitted(v) <=> v.by \in Settled
BY DEF Sees, SeenBy, Settled, Uncommitted, Number

\* A view that does not stop at a key of a row leaves it to be a conflict.
LEMMA ConflictInView ==
  ASSUME TypeInv, NEW t \in Tx, NEW i \in Index, NEW key, key # NoKey, NEW r \in 1..count, NEW ignored,
         NEW S \in Readers(t), r \notin ignored, KeyOf(i, View(r, S)) = key
  PROVE  Conflicts(t, i, key, Now(r), r, ignored)
<1> DEFINE vs == chain[r]
<1>1. r \in Row
  BY CountedRows
<1>2. /\ vs \in Seq(Version) /\ Len(vs) \in Nat /\ DOMAIN vs = 1..Len(vs)
      /\ \A k \in DOMAIN vs : vs[k].by \in Tx
  BY <1>1, RowFacts
<1>3. PICK k \in 0..Len(vs) : Stops(vs, S, k) /\ View(r, S) = At(vs, Base(r), k)
  BY <1>2, AlongStops DEF View
<1>4. SeenBy(t) \subseteq S
  BY DEF Readers, SeenBy, Settled
<1>5. CASE k = 0
  <2>1. KeyOf(i, Base(r)) = key
    BY <1>3, <1>5 DEF At
  <2>2. ~deleted[r] /\ Base(r) = data[r]
    BY <2>1, NowhereHasNoKey DEF Base
  <2> QED
    BY <2>1, <2>2 DEF Conflicts, Now
<1>6. CASE k # 0
  <2>1. k \in 1..Len(vs) /\ KeyOf(i, vs[k].saved) = key
    BY <1>2, <1>3, <1>6 DEF At
  <2>2. \A j \in 1..k : j \in 1..Len(vs) /\ ~Sees(t, vs[j])
    BY <1>2, <1>3, <1>4, <2>1, SeenVersions DEF Stops
  <2>3. 1 \in 1..k /\ vs # << >> /\ \A j \in 2..k : j \in 1..k
    BY <1>2, <2>1
  <2>4. k \in Chased(t, r)
    BY <2>1, <2>2, <2>3 DEF Chased
  <2> QED
    BY <2>1, <2>4 DEF Conflicts
<1> QED
  BY <1>5, <1>6

LEMMA OvertakenFacts ==
  ASSUME TypeInv, NEW t \in Tx
  PROVE  /\ \A r \in 1..count : r \in Overtaken(t) <=>
               /\ chain[r] # << >> /\ chain[r][1].by = t
               /\ \E k \in DOMAIN chain[r] : chain[r][k].by \notin SeenBy(t)
         /\ Overtaken(t) \subseteq 1..count
<1> SUFFICES ASSUME NEW r \in 1..count
             PROVE  (\E v \in Range(chain[r]) : ~Sees(t, v))
                       <=> \E k \in DOMAIN chain[r] : chain[r][k].by \notin SeenBy(t)
  BY DEF Overtaken
<1>1. \A k \in DOMAIN chain[r] : chain[r][k].by \in Tx
  BY CountedRows, RowFacts
<1> QED
  BY <1>1, SeenVersions DEF Range

LEMMA ReadIsView ==
  ASSUME TypeInv, NEW r \in 1..count
  PROVE  /\ Committed(r) = View(r, Settled)
         /\ \A t \in Tx : Read(t, r) = View(r, SeenBy(t))
<1> DEFINE vs == chain[r]
<1>1. r \in Row /\ count \in Nat /\ ~(r > count) /\ r <= count
  BY CountedRows
<1>2. /\ vs \in Seq(Version) /\ Len(vs) \in Nat /\ DOMAIN vs = 1..Len(vs)
      /\ \A k \in DOMAIN vs : vs[k].by \in Tx
  BY <1>1, RowFacts
<1>3. ASSUME NEW S, NEW seen, \A k \in 1..Len(vs) : vs[k] \in seen <=> vs[k].by \in S
      PROVE  ReadAlong(r, seen) = View(r, S)
  <2> DEFINE P(k) == /\ \A j \in 1..k : vs[j] \notin seen
                     /\ k < Len(vs) => vs[k + 1] \in seen
  <2>1. ASSUME NEW k \in 0..Len(vs)
        PROVE  P(k) <=> Stops(vs, S, k)
    <3>1. \A j \in 1..k : j \in 1..Len(vs)
      BY <1>2
    <3>2. k < Len(vs) => k + 1 \in 1..Len(vs)
      BY <1>2
    <3> QED
      BY <1>3, <3>1, <3>2 DEF Stops
  <2>2. PICK k \in 0..Len(vs) : Stops(vs, S, k)
    BY <1>2, AlongStops
  <2> DEFINE stop == CHOOSE m \in 0..Len(vs) : P(m)
             where == CHOOSE m \in 0..Len(vs) : Stops(vs, S, m)
  <2>3. stop = where
    <3> HIDE DEF P
    <3> QED
      BY <2>1
  <2>4. View(r, S) = At(vs, Base(r), where)
    BY DEF View, Along
  <2>5. ReadAlong(r, seen) = IF stop = 0 THEN IF deleted[r] THEN Nowhere ELSE data[r]
                             ELSE vs[stop].saved
    BY <1>1 DEF ReadAlong
  <2> HIDE DEF stop, where
  <2>6. At(vs, Base(r), where) = IF where = 0 THEN Base(r) ELSE vs[where].saved
    BY DEF At
  <2> QED
    BY <2>3, <2>4, <2>5, <2>6 DEF Base
<1>4. Committed(r) = View(r, Settled)
  <2> DEFINE seen == {v \in Range(vs) : ~Uncommitted(v)}
  <2>1. \A k \in 1..Len(vs) : vs[k] \in seen <=> vs[k].by \in Settled
    BY <1>2 DEF Range, Settled, Uncommitted, Number
  <2>2. ReadAlong(r, seen) = View(r, Settled)
    BY <1>3, <2>1
  <2> QED
    BY <2>2 DEF Committed
<1>5. ASSUME NEW t \in Tx
      PROVE  Read(t, r) = View(r, SeenBy(t))
  <2> DEFINE seen == {v \in Range(vs) : Sees(t, v)}
  <2>1. \A k \in 1..Len(vs) : vs[k] \in seen <=> vs[k].by \in SeenBy(t)
    BY <1>2, SeenVersions DEF Range
  <2>2. ReadAlong(r, seen) = View(r, SeenBy(t))
    BY <1>3, <2>1
  <2> QED
    BY <2>2 DEF Read
<1> QED
  BY <1>4, <1>5

-----------------------------------------------------------------------------
(* Steps that leave the rows alone. *)

\* What a reader finds after a step.
NewView(r, S) == Along(chain'[r], IF deleted'[r] THEN Nowhere ELSE data'[r], S)

LEMMA ViewNext ==
  ASSUME NEW r, NEW S
  PROVE  View(r, S)' = NewView(r, S)
BY DEF View, Base, NewView

NewApart(rows, S) ==
    \A i \in Index : \A r, s \in rows :
        r # s /\ KeyOf(i, NewView(r, S)) # NoKey => KeyOf(i, NewView(r, S)) # KeyOf(i, NewView(s, S))

LEMMA ApartNext ==
  ASSUME TRUE
  PROVE  /\ (\A T \in SUBSET Running' : NewApart(1..count' \ Excepted', Settled' \cup T)) => CommitsApart'
         /\ (\A u \in Active' : NewApart(1..count' \ (Excepted' \cup Overtaken(u)'), SeenBy(u)'))
               => SnapshotsApart'
<1>1. ASSUME \A T \in SUBSET Running' : NewApart(1..count' \ Excepted', Settled' \cup T)
      PROVE  CommitsApart'
  BY <1>1 DEF CommitsApart, Apart, NewApart, NewView, View, Base
<1>2. ASSUME \A u \in Active' : NewApart(1..count' \ (Excepted' \cup Overtaken(u)'), SeenBy(u)')
      PROVE  SnapshotsApart'
  BY <1>2 DEF SnapshotsApart, Apart, NewApart, NewView, View, Base
<1> QED
  BY <1>1, <1>2

LEMMA QuietViews ==
  ASSUME UNCHANGED rowState, NEW r, NEW S
  PROVE  NewView(r, S) = View(r, S)
BY DEF rowState, NewView, View, Base

LEMMA QuietSets ==
  ASSUME UNCHANGED <<rowState, commit_id, start_time>>, Running' \subseteq Running
  PROVE  /\ Settled' = Settled
         /\ \A u \in Tx : SeenBy(u)' = SeenBy(u) /\ Readers(u)' \subseteq Readers(u)
         /\ \A u \in Tx : Overtaken(u)' = Overtaken(u)
<1>1. Settled' = Settled
  BY DEF Settled
<1>2. \A u \in Tx : SeenBy(u)' = SeenBy(u)
  BY DEF SeenBy
<1>3. \A u \in Tx : Readers(u)' \subseteq Readers(u)
  BY <1>1, <1>2 DEF Readers
<1>4. \A u \in Tx : Overtaken(u)' = Overtaken(u)
  BY DEF Overtaken, Sees, Uncommitted, Number, rowState
<1> QED
  BY <1>1, <1>2, <1>3, <1>4

LEMMA WrittenKept ==
  ASSUME UNCHANGED rowState, NEW u \in Tx, statement'[u] = statement[u]
  PROVE  \A i, j : NewKey(u, i, j)' = NewKey(u, i, j)
<1> SUFFICES ASSUME NEW i, NEW j
             PROVE  NewKey(u, i, j)' = NewKey(u, i, j)
  OBVIOUS
<1> QED
  BY DEF NewKey, Written, Filled, rowState

\* What the keys that were entered exclude, they go on to exclude.
LEMMA KeysKept ==
  ASSUME UNCHANGED <<rowState, commit_id, start_time>>, Excepted \subseteq Excepted',
         Running' \subseteq Running, NEW u \in Tx, statement'[u] = statement[u], NEW i, NEW j
  PROVE  /\ KeyFree(u, i, j) => KeyFree(u, i, j)'
         /\ \A w \in Tx : \A k : statement'[w] = statement[w] /\ KeyDiffers(u, w, i, j, k)
                                  => KeyDiffers(u, w, i, j, k)'
<1>1. count' = count /\ NewKey(u, i, j)' = NewKey(u, i, j) /\ Readers(u)' \subseteq Readers(u)
  BY WrittenKept, QuietSets DEF rowState
<1>2. ASSUME KeyFree(u, i, j)
      PROVE  KeyFree(u, i, j)'
  <2> SUFFICES ASSUME NEW s \in 1..count \ (Excepted' \cup Range(statement[u].rows)), NEW S \in Readers(u)'
               PROVE  KeyOf(i, NewView(s, S)) # NewKey(u, i, j)
    BY <1>1, ViewNext DEF KeyFree
  <2> QED
    BY <1>1, <1>2, QuietViews DEF KeyFree
<1>3. ASSUME NEW w \in Tx, NEW k, statement'[w] = statement[w], KeyDiffers(u, w, i, j, k)
      PROVE  KeyDiffers(u, w, i, j, k)'
  <2>1. NewKey(w, i, k)' = NewKey(w, i, k)
    BY <1>3, WrittenKept
  <2> QED
    BY <1>1, <1>3, <2>1 DEF KeyDiffers
<1> QED
  BY <1>2, <1>3

LEMMA QuietKeys ==
  ASSUME KInv, UNCHANGED <<rowState, commit_id, start_time, clock>>, Excepted \subseteq Excepted',
         Active' \subseteq Active, Running' \subseteq Running
  PROVE  CommitsApart' /\ SnapshotsApart' /\ ChainsOrdered' /\ ClockAhead'
<1>0. CommitsApart /\ SnapshotsApart /\ ChainsOrdered /\ ClockAhead
  BY DEF KInv, KeysInv
<1>1. count' = count /\ chain' = chain /\ Settled' = Settled
  BY QuietSets DEF rowState
<1>2. ASSUME NEW rows, NEW more, more \subseteq rows, NEW S, Apart(rows, S)
      PROVE  NewApart(more, S)
  BY <1>2, QuietViews DEF Apart, NewApart
<1>3. CommitsApart'
  <2>1. ASSUME NEW T \in SUBSET Running'
        PROVE  NewApart(1..count' \ Excepted', Settled' \cup T)
    <3>1. Apart(1..count \ Excepted, Settled \cup T)
      BY <1>0 DEF CommitsApart
    <3>2. 1..count' \ Excepted' \subseteq 1..count \ Excepted
      BY <1>1
    <3> QED
      BY <1>1, <1>2, <3>1, <3>2
  <2> QED
    BY <2>1, ApartNext
<1>4. SnapshotsApart'
  <2>1. ASSUME NEW u \in Active'
        PROVE  NewApart(1..count' \ (Excepted' \cup Overtaken(u)'), SeenBy(u)')
    <3>0. u \in Active /\ u \in Tx
      BY DEF Active
    <3>1. Apart(1..count \ (Excepted \cup Overtaken(u)), SeenBy(u))
      BY <1>0, <3>0 DEF SnapshotsApart
    <3>2. SeenBy(u)' = SeenBy(u) /\ Overtaken(u)' = Overtaken(u)
      BY <3>0, QuietSets
    <3>3. 1..count' \ (Excepted' \cup Overtaken(u)') \subseteq 1..count \ (Excepted \cup Overtaken(u))
      BY <1>1, <3>2
    <3> QED
      BY <1>2, <3>1, <3>2, <3>3
  <2> QED
    BY <2>1, ApartNext
<1>5. ChainsOrdered'
  BY <1>0, <1>1 DEF ChainsOrdered
<1>6. ClockAhead'
  BY <1>0 DEF ClockAhead
<1> QED
  BY <1>3, <1>4, <1>5, <1>6

\* A step by which no statement enters keys.
LEMMA QuietStatements ==
  ASSUME KInv, UNCHANGED <<rowState, commit_id, start_time>>, Excepted \subseteq Excepted',
         Running' \subseteq Running, fault' = Alive => fault = Alive,
         \A u \in Tx, i \in Index : Entering(u, i)' => Entering(u, i) /\ statement'[u] = statement[u]
  PROVE  KeysFree' /\ KeysDiffer'
<1>0. KeysFree /\ KeysDiffer
  BY DEF KInv, KeysInv
<1>1. KeysFree'
  <2> SUFFICES ASSUME fault' = Alive, NEW u \in Tx, NEW i \in Index, Entering(u, i)',
                      NEW j \in DOMAIN statement'[u].rows, statement'[u].rows[j] \notin Excepted',
                      NewKey(u, i, j)' # NoKey
               PROVE  KeyFree(u, i, j)'
    BY DEF KeysFree
  <2>1. Entering(u, i) /\ statement'[u] = statement[u] /\ NewKey(u, i, j) # NoKey
    BY WrittenKept
  <2>2. KeyFree(u, i, j)
    BY <1>0, <2>1 DEF KeysFree
  <2> QED
    BY <2>1, <2>2, KeysKept
<1>2. KeysDiffer'
  <2> SUFFICES ASSUME fault' = Alive, NEW u \in Tx, NEW w \in Tx, NEW i \in Index,
                      Entering(u, i)', Entering(w, i)',
                      NEW j \in DOMAIN statement'[u].rows, NEW k \in DOMAIN statement'[w].rows,
                      u # w \/ j # k
               PROVE  KeyDiffers(u, w, i, j, k)'
    BY DEF KeysDiffer
  <2>1. Entering(u, i) /\ statement'[u] = statement[u] /\ Entering(w, i) /\ statement'[w] = statement[w]
    OBVIOUS
  <2>2. KeyDiffers(u, w, i, j, k)
    BY <1>0, <2>1 DEF KeysDiffer
  <2> QED
    BY <2>1, <2>2, KeysKept
<1> QED
  BY <1>1, <1>2

LEMMA EnteringKept ==
  ASSUME NEW u, phase'[u] = phase[u], statement'[u] = statement[u], current_index'[u] = current_index[u]
  PROVE  \A i : Entering(u, i)' <=> Entering(u, i)
BY DEF Entering, Affected

LEMMA QuietStep ==
  ASSUME KInv, fault = Alive, UNCHANGED <<rowState, commit_id, start_time, clock>>,
         Excepted \subseteq Excepted', NEW t \in Tx, phase[t] \notin {"idle", "undoing", "done"},
         \A u \in Tx : u # t => /\ phase'[u] = phase[u] /\ statement'[u] = statement[u]
                                /\ current_index'[u] = current_index[u],
         \A i \in Index : Entering(t, i)' => Entering(t, i) /\ statement'[t] = statement[t]
  PROVE  KeysInv'
<1>1. Active' \subseteq Active /\ Running' \subseteq Running
  BY DEF Active, Running
<1>2. \A u \in Tx, i \in Index : Entering(u, i)' => Entering(u, i) /\ statement'[u] = statement[u]
  <2> SUFFICES ASSUME NEW u \in Tx, NEW i \in Index, Entering(u, i)'
               PROVE  Entering(u, i) /\ statement'[u] = statement[u]
    OBVIOUS
  <2>1. CASE u = t
    BY <2>1
  <2>2. CASE u # t
    BY <2>2, EnteringKept
  <2> QED
    BY <2>1, <2>2
<1> QED
  BY <1>1, <1>2, QuietKeys, QuietStatements DEF KeysInv

LEMMA IssueKeys ==
  ASSUME KInv, fault = Alive, NEW t \in Tx, NEW s, Issue(t, s)
  PROVE  KeysInv'
<1>1. TypeInv
  BY DEF KInv, IInv
<1>2. /\ phase[t] = "ready" /\ phase' = [phase EXCEPT ![t] = "locking"]
      /\ statement' = [statement EXCEPT ![t] = s]
      /\ UNCHANGED <<clock, start_time, commit_id, current_index, rowState, history>>
  BY DEF Issue, Goto
<1>3. phase'[t] = "locking" /\ \A u \in Tx : u # t => phase'[u] = phase[u] /\ statement'[u] = statement[u]
  BY <1>1, <1>2 DEF TypeInv
<1>4. \A i \in Index : ~Entering(t, i)'
  BY <1>3 DEF Entering
<1>5. Excepted' = Excepted
  BY <1>2 DEF Excepted, history
<1> QED
  BY <1>2, <1>3, <1>4, <1>5, QuietStep

LEMMA LockChunkKeys ==
  ASSUME KInv, fault = Alive, NEW t \in Tx, LockChunk(t)
  PROVE  KeysInv'
<1>1. TypeInv /\ StatementsOK
  BY DEF KInv, IInv
<1>2. /\ phase[t] = "locking" /\ UNCHANGED <<clock, start_time, commit_id, current_index, rowState, history>>
      /\ \A u \in Tx : u # t => phase'[u] = phase[u] /\ statement'[u] = statement[u]
  BY <1>1 DEF LockChunk, Goto, TypeInv
<1>3. current_index'[t] = 1
  BY <1>1, <1>2 DEF StatementsOK, StatementOK
<1>4. \A i \in Index : ~Entering(t, i)'
  BY <1>3, IndexFacts DEF Entering
<1>5. Excepted' = Excepted
  BY <1>2 DEF Excepted, history
<1> QED
  BY <1>2, <1>4, <1>5, QuietStep

LEMMA RevertIndexKeys ==
  ASSUME KInv, fault = Alive, NEW t \in Tx, RevertIndex(t)
  PROVE  KeysInv'
<1>1. TypeInv
  BY DEF KInv, IInv
<1>2. /\ phase[t] = "reverting" /\ UNCHANGED <<clock, start_time, commit_id, rowState, history>>
      /\ \/ ToReady(t)
         \/ /\ UNCHANGED <<phase, statement>>
            /\ \E i : current_index' = [current_index EXCEPT ![t] = i]
  BY DEF RevertIndex
<1>3. /\ phase'[t] \in {"ready", "reverting"}
      /\ \A u \in Tx : u # t => /\ phase'[u] = phase[u] /\ statement'[u] = statement[u]
                                /\ current_index'[u] = current_index[u]
  BY <1>1, <1>2 DEF ToReady, Goto, TypeInv
<1>4. \A i \in Index : ~Entering(t, i)'
  BY <1>3 DEF Entering
<1>5. Excepted' = Excepted
  BY <1>2 DEF Excepted, history
<1> QED
  BY <1>2, <1>3, <1>4, <1>5, QuietStep

LEMMA StutteringKeys ==
  ASSUME KInv, UNCHANGED vars
  PROVE  KeysInv'
<1>1. /\ UNCHANGED <<rowState, commit_id, start_time, clock, statement, phase, current_index, fault>>
      /\ Excepted' = Excepted
  BY DEF vars, control, history, Excepted
<1>2. Active' = Active /\ Running' = Running
  BY <1>1 DEF Active, Running
<1>3. \A u \in Tx, i \in Index : Entering(u, i)' => Entering(u, i) /\ statement'[u] = statement[u]
  BY <1>1, EnteringKept
<1> QED
  BY <1>1, <1>2, <1>3, QuietKeys, QuietStatements DEF KeysInv

\* A new snapshot is what is committed.
LEMMA BeginKeys ==
  ASSUME KInv, fault = Alive, NEW t \in Tx, Begin(t)
  PROVE  KeysInv'
<1>0. /\ TypeInv /\ StatementsOK /\ CommitsApart /\ SnapshotsApart /\ KeysFree /\ KeysDiffer
      /\ ChainsOrdered /\ ClockAhead
  BY DEF KInv, KeysInv, IInv
<1>1. /\ phase[t] = "idle" /\ start_time' = [start_time EXCEPT ![t] = clock] /\ clock' = clock + 1
      /\ phase' = [phase EXCEPT ![t] = "ready"]
      /\ UNCHANGED <<commit_id, statement, current_index, rowState, fault, history>>
  BY DEF Begin, Goto
<1>2. /\ phase'[t] = "ready" /\ start_time'[t] = clock
      /\ \A u \in Tx : u # t => phase'[u] = phase[u] /\ start_time'[u] = start_time[u]
  BY <1>0, <1>1 DEF TypeInv
<1>3. /\ count' = count /\ chain' = chain /\ Settled' = Settled /\ Excepted' = Excepted
      /\ Running' = Running /\ t \in Running
  BY <1>1, <1>2 DEF rowState, history, Settled, Excepted, Running
<1>4. ASSUME NEW rows, NEW more, more \subseteq rows, NEW S, Apart(rows, S)
      PROVE  NewApart(more, S)
  BY <1>1, <1>4, QuietViews DEF Apart, NewApart
<1>5. SeenBy(t)' = Settled \cup {t}
  <2>1. \A u \in Tx : commit_id[u] < clock
    BY <1>0 DEF ClockAhead
  <2> QED
    BY <1>1, <1>2, <2>1 DEF SeenBy, Settled
<1>6. \A u \in Tx : u # t => SeenBy(u)' = SeenBy(u) /\ Readers(u)' = Readers(u) /\ Overtaken(u)' = Overtaken(u)
  <2> SUFFICES ASSUME NEW u \in Tx, u # t
               PROVE  SeenBy(u)' = SeenBy(u) /\ Readers(u)' = Readers(u) /\ Overtaken(u)' = Overtaken(u)
    OBVIOUS
  <2>1. SeenBy(u)' = SeenBy(u)
    BY <1>1, <1>2 DEF SeenBy
  <2>2. Overtaken(u)' = Overtaken(u)
    BY <1>1, <1>2, <1>3 DEF Overtaken, Sees, Uncommitted, Number
  <2> QED
    BY <1>3, <2>1, <2>2 DEF Readers
<1>7. CommitsApart'
  <2>1. ASSUME NEW T \in SUBSET Running'
        PROVE  NewApart(1..count' \ Excepted', Settled' \cup T)
    <3>1. T \in SUBSET Running
      BY <1>3
    <3>2. Apart(1..count \ Excepted, Settled \cup T)
      BY <1>0, <3>1 DEF CommitsApart
    <3> QED
      BY <1>3, <1>4, <3>2
  <2> QED
    BY <2>1, ApartNext
<1>8. SnapshotsApart'
  <2>1. ASSUME NEW u \in Active'
        PROVE  NewApart(1..count' \ (Excepted' \cup Overtaken(u)'), SeenBy(u)')
    <3>1. CASE u = t
      <4>0. {t} \in SUBSET Running
        BY <1>3
      <4>1. Apart(1..count \ Excepted, Settled \cup {t})
        BY <1>0, <4>0 DEF CommitsApart
      <4>2. 1..count' \ (Excepted' \cup Overtaken(u)') \subseteq 1..count \ Excepted
        BY <1>3
      <4> QED
        BY <1>4, <1>5, <3>1, <4>1, <4>2
    <3>2. CASE u # t
      <4>1. u \in Tx /\ u \in Active
        BY <1>2, <3>2 DEF Active
      <4>2. Apart(1..count \ (Excepted \cup Overtaken(u)), SeenBy(u))
        BY <1>0, <4>1 DEF SnapshotsApart
      <4> QED
        BY <1>3, <1>4, <1>6, <3>2, <4>1, <4>2
    <3> QED
      BY <3>1, <3>2
  <2> QED
    BY <2>1, ApartNext
<1>9. \A u \in Tx, i \in Index : Entering(u, i)' => u # t /\ Entering(u, i) /\ statement'[u] = statement[u]
  <2> SUFFICES ASSUME NEW u \in Tx, NEW i \in Index, Entering(u, i)'
               PROVE  u # t /\ Entering(u, i) /\ statement'[u] = statement[u]
    OBVIOUS
  <2>1. u # t
    BY <1>2 DEF Entering
  <2> QED
    BY <1>1, <1>2, <2>1, EnteringKept
<1>10. KeysFree'
  <2> SUFFICES ASSUME fault' = Alive, NEW u \in Tx, NEW i \in Index, Entering(u, i)',
                      NEW j \in DOMAIN statement'[u].rows, statement'[u].rows[j] \notin Excepted',
                      NewKey(u, i, j)' # NoKey
               PROVE  KeyFree(u, i, j)'
    BY DEF KeysFree
  <2>1. u # t /\ Entering(u, i) /\ statement'[u] = statement[u] /\ NewKey(u, i, j)' = NewKey(u, i, j)
    BY <1>1, <1>9, WrittenKept
  <2>2. KeyFree(u, i, j)
    BY <1>0, <1>1, <1>3, <2>1 DEF KeysFree
  <2> SUFFICES ASSUME NEW s \in 1..count \ (Excepted \cup Range(statement[u].rows)), NEW S \in Readers(u)
               PROVE  KeyOf(i, NewView(s, S)) # NewKey(u, i, j)
    BY <1>3, <1>6, <2>1, ViewNext DEF KeyFree
  <2> QED
    BY <1>1, <2>2, QuietViews DEF KeyFree
<1>11. KeysDiffer'
  <2> SUFFICES ASSUME fault' = Alive, NEW u \in Tx, NEW w \in Tx, NEW i \in Index,
                      Entering(u, i)', Entering(w, i)',
                      NEW j \in DOMAIN statement'[u].rows, NEW k \in DOMAIN statement'[w].rows,
                      u # w \/ j # k
               PROVE  KeyDiffers(u, w, i, j, k)'
    BY DEF KeysDiffer
  <2>1. /\ Entering(u, i) /\ statement'[u] = statement[u] /\ NewKey(u, i, j)' = NewKey(u, i, j)
        /\ Entering(w, i) /\ statement'[w] = statement[w] /\ NewKey(w, i, k)' = NewKey(w, i, k)
    BY <1>1, <1>9, WrittenKept
  <2>2. KeyDiffers(u, w, i, j, k)
    BY <1>0, <1>1, <2>1 DEF KeysDiffer
  <2> QED
    BY <1>3, <2>1, <2>2 DEF KeyDiffers
<1>12. ChainsOrdered'
  BY <1>0, <1>3 DEF ChainsOrdered
<1>13. ClockAhead'
  <2> SUFFICES ASSUME NEW u \in Tx
               PROVE  commit_id[u] < clock + 1 /\ start_time'[u] <= clock + 1
    BY <1>1 DEF ClockAhead
  <2>1. commit_id[u] \in Nat /\ start_time[u] \in Nat /\ clock \in Nat
    BY <1>0 DEF TypeInv
  <2>2. commit_id[u] < clock /\ start_time[u] <= clock
    BY <1>0 DEF ClockAhead
  <2>3. start_time'[u] = clock \/ start_time'[u] = start_time[u]
    BY <1>2
  <2> QED
    BY <2>1, <2>2, <2>3
<1> QED
  BY <1>7, <1>8, <1>10, <1>11, <1>12, <1>13 DEF KeysInv

-----------------------------------------------------------------------------
(* The end of a transaction. *)

\* Whoever commits next, the rows were kept apart for it.
LEMMA CommitKeys ==
  ASSUME KInv, fault = Alive, NEW t \in Tx, Commit(t)
  PROVE  KeysInv'
<1>0. /\ TypeInv /\ StatementsOK /\ CommitsApart /\ SnapshotsApart /\ KeysFree /\ KeysDiffer
      /\ ChainsOrdered /\ ClockAhead
  BY DEF KInv, KeysInv, IInv
<1>1. /\ phase[t] = "ready" /\ commit_id' = [commit_id EXCEPT ![t] = clock] /\ clock' = clock + 1
      /\ phase' = [phase EXCEPT ![t] = "done"]
      /\ UNCHANGED <<start_time, statement, current_index, rowState, fault, history>>
  BY DEF Commit, Goto
<1>2. /\ phase'[t] = "done" /\ commit_id'[t] = clock /\ clock \in Nat /\ clock # 0 /\ commit_id[t] = 0
      /\ \A u \in Tx : u # t => phase'[u] = phase[u] /\ commit_id'[u] = commit_id[u]
  BY <1>0, <1>1 DEF TypeInv, StatementsOK, StatementOK
<1>3. /\ count' = count /\ chain' = chain /\ Settled' = Settled \cup {t} /\ Excepted' = Excepted
      /\ Running' \subseteq Running /\ t \in Running
  <2>1. Settled' = Settled \cup {t}
    BY <1>2 DEF Settled
  <2>2. Running' \subseteq Running /\ t \in Running
    BY <1>1, <1>2 DEF Running
  <2> QED
    BY <1>1, <2>1, <2>2 DEF rowState, history, Excepted
<1>4. ASSUME NEW rows, NEW S, Apart(rows, S)
      PROVE  NewApart(rows, S)
  BY <1>1, <1>4, QuietViews DEF Apart, NewApart
<1>5. ASSUME NEW u \in Tx, u # t
      PROVE  SeenBy(u)' = SeenBy(u) /\ Readers(u)' \subseteq Readers(u) /\ Overtaken(u)' = Overtaken(u)
  <2>1. start_time[u] <= clock /\ start_time[u] \in Nat
    BY <1>0 DEF ClockAhead, TypeInv
  <2>2. SeenBy(u)' = SeenBy(u)
    BY <1>1, <1>2, <1>5, <2>1 DEF SeenBy
  <2>3. \A T : Settled' \cup T = Settled \cup (T \cup {t})
    BY <1>3
  <2>4. Readers(u)' \subseteq Readers(u)
    <3> SUFFICES ASSUME NEW T \in SUBSET Running', u \in T
                 PROVE  Settled' \cup T \in Readers(u)
      BY <2>2 DEF Readers
    <3>1. T \cup {t} \in SUBSET Running /\ u \in T \cup {t}
      BY <1>3
    <3> QED
      BY <2>3, <3>1 DEF Readers
  <2>5. \A r \in 1..count : \A v \in Range(chain[r]) : Sees(u, v)' <=> Sees(u, v)
    <3> SUFFICES ASSUME NEW r \in 1..count, NEW v \in Range(chain[r])
                 PROVE  Sees(u, v)' <=> Sees(u, v)
      OBVIOUS
    <3>1. v.by \in Tx
      BY <1>0, CountedRows, RowFacts DEF Range
    <3>2. (v.by \in SeenBy(u))' <=> v.by \in SeenBy(u)
      BY <2>2
    <3> QED
      BY <1>1, <3>1, <3>2 DEF Sees, SeenBy, Uncommitted, Number
  <2>6. Overtaken(u)' = Overtaken(u)
    BY <1>3, <2>5 DEF Overtaken
  <2> QED
    BY <2>2, <2>4, <2>6
<1>6. CommitsApart'
  <2>1. ASSUME NEW T \in SUBSET Running'
        PROVE  NewApart(1..count' \ Excepted', Settled' \cup T)
    <3>1. Settled' \cup T = Settled \cup (T \cup {t}) /\ T \cup {t} \in SUBSET Running
      BY <1>3
    <3>2. Apart(1..count \ Excepted, Settled \cup (T \cup {t}))
      BY <1>0, <3>1 DEF CommitsApart
    <3> QED
      BY <1>3, <1>4, <3>1, <3>2
  <2> QED
    BY <2>1, ApartNext
<1>7. SnapshotsApart'
  <2>1. ASSUME NEW u \in Active'
        PROVE  NewApart(1..count' \ (Excepted' \cup Overtaken(u)'), SeenBy(u)')
    <3>1. u \in Tx /\ u # t /\ u \in Active
      BY <1>2 DEF Active
    <3>2. Apart(1..count \ (Excepted \cup Overtaken(u)), SeenBy(u))
      BY <1>0, <3>1 DEF SnapshotsApart
    <3> QED
      BY <1>3, <1>4, <1>5, <3>1, <3>2
  <2> QED
    BY <2>1, ApartNext
<1>8. \A u \in Tx, i \in Index : Entering(u, i)' => u # t /\ Entering(u, i) /\ statement'[u] = statement[u]
  <2> SUFFICES ASSUME NEW u \in Tx, NEW i \in Index, Entering(u, i)'
               PROVE  u # t /\ Entering(u, i) /\ statement'[u] = statement[u]
    OBVIOUS
  <2>1. u # t
    BY <1>2 DEF Entering
  <2> QED
    BY <1>1, <1>2, <2>1, EnteringKept
<1>9. KeysFree'
  <2> SUFFICES ASSUME fault' = Alive, NEW u \in Tx, NEW i \in Index, Entering(u, i)',
                      NEW j \in DOMAIN statement'[u].rows, statement'[u].rows[j] \notin Excepted',
                      NewKey(u, i, j)' # NoKey
               PROVE  KeyFree(u, i, j)'
    BY DEF KeysFree
  <2>1. u # t /\ Entering(u, i) /\ statement'[u] = statement[u] /\ NewKey(u, i, j)' = NewKey(u, i, j)
    BY <1>1, <1>8, WrittenKept
  <2>2. KeyFree(u, i, j)
    BY <1>0, <1>1, <1>3, <2>1 DEF KeysFree
  <2> SUFFICES ASSUME NEW s \in 1..count \ (Excepted \cup Range(statement[u].rows)), NEW S \in Readers(u)'
               PROVE  KeyOf(i, NewView(s, S)) # NewKey(u, i, j)
    BY <1>3, <2>1, ViewNext DEF KeyFree
  <2>3. S \in Readers(u)
    BY <1>5, <2>1
  <2> QED
    BY <1>1, <2>2, <2>3, QuietViews DEF KeyFree
<1>10. KeysDiffer'
  <2> SUFFICES ASSUME fault' = Alive, NEW u \in Tx, NEW w \in Tx, NEW i \in Index,
                      Entering(u, i)', Entering(w, i)',
                      NEW j \in DOMAIN statement'[u].rows, NEW k \in DOMAIN statement'[w].rows,
                      u # w \/ j # k
               PROVE  KeyDiffers(u, w, i, j, k)'
    BY DEF KeysDiffer
  <2>1. /\ Entering(u, i) /\ statement'[u] = statement[u] /\ NewKey(u, i, j)' = NewKey(u, i, j)
        /\ Entering(w, i) /\ statement'[w] = statement[w] /\ NewKey(w, i, k)' = NewKey(w, i, k)
    BY <1>1, <1>8, WrittenKept
  <2>2. KeyDiffers(u, w, i, j, k)
    BY <1>0, <1>1, <2>1 DEF KeysDiffer
  <2> QED
    BY <1>3, <2>1, <2>2 DEF KeyDiffers
<1>11. ChainsOrdered'
  BY <1>0, <1>3 DEF ChainsOrdered
<1>12. ClockAhead'
  <2> SUFFICES ASSUME NEW u \in Tx
               PROVE  commit_id'[u] < clock + 1 /\ start_time[u] <= clock + 1
    BY <1>1 DEF ClockAhead
  <2>1. commit_id[u] \in Nat /\ start_time[u] \in Nat
    BY <1>0 DEF TypeInv
  <2>2. commit_id[u] < clock /\ start_time[u] <= clock
    BY <1>0 DEF ClockAhead
  <2>3. commit_id'[u] = clock \/ commit_id'[u] = commit_id[u]
    BY <1>2
  <2> QED
    BY <1>2, <2>1, <2>2, <2>3
<1> QED
  BY <1>6, <1>7, <1>9, <1>10, <1>11, <1>12 DEF KeysInv

\* An undo leaves what is found without the versions of the transaction.
LEMMA UndoneView ==
  ASSUME IInv, ChainsOrdered, NEW t \in Tx, commit_id[t] = 0, Rollback(t), NEW r \in Row
  PROVE  /\ \A S : t \notin S => NewView(r, S) = View(r, S)
         /\ chain[r] = << >> \/ chain[r][1].by # t => chain'[r] = chain[r] /\ data'[r] = data[r]
         /\ \A a, b \in DOMAIN chain'[r] :
               a < b => chain'[r][a].by = chain'[r][b].by \/ chain'[r][b].by \in Settled
<1> DEFINE vs == chain[r]
           newbase == IF deleted'[r] THEN Nowhere ELSE data'[r]
<1>0. TypeInv
  BY DEF IInv
<1>1. /\ vs \in Seq(Version) /\ Len(vs) \in Nat /\ DOMAIN vs = 1..Len(vs)
      /\ \A k \in DOMAIN vs : vs[k].by \in Tx
  BY <1>0, RowFacts
<1>2. \A a, b \in DOMAIN vs : a < b => vs[a].by = vs[b].by \/ vs[b].by \in Settled
  BY DEF ChainsOrdered
<1>3. \/ chain'[r] = vs /\ deleted'[r] = deleted[r] /\ data'[r] = data[r]
      \/ /\ vs # << >> /\ vs[1].by = t /\ chain'[r] = Tail(vs) /\ newbase = vs[1].saved
  <2> DEFINE mine == {x \in Row : chain[x] # << >> /\ chain[x][1].by = t}
  <2>1. CASE mine = {}
    BY <2>1 DEF Rollback
  <2>2. CASE mine # {}
    <3>1. \E x \in mine : Undo(t, x)
      BY <2>2 DEF Rollback
    <3>2. PICK x \in mine : Undo(t, x)
      BY <3>1
    <3>3. /\ chain \in [Row -> Seq(Version)] /\ deleted \in [Row -> BOOLEAN] /\ data \in [Row -> Values]
          /\ x \in Row /\ chain[x] # << >> /\ chain[x][1].by = t
      BY <1>0 DEF TypeInv
    <3> HIDE DEF mine
    <3> DEFINE saved == chain[x][1].saved
    <3>4. /\ chain' = [chain EXCEPT ![x] = Tail(@)]
          /\ deleted' = [deleted EXCEPT ![x] = (saved = Nowhere)]
          /\ data' = [data EXCEPT ![x] = IF saved = Nowhere THEN @ ELSE saved]
      BY <3>2 DEF Undo
    <3>5. CASE x = r
      <4>1. chain'[r] = Tail(vs) /\ deleted'[r] = (saved = Nowhere)
            /\ data'[r] = IF saved = Nowhere THEN data[r] ELSE saved
        <5> HIDE DEF saved, Version, Values
        <5> QED
          BY <3>3, <3>4, <3>5
      <4> HIDE DEF saved
      <4>2. newbase = saved
        BY <4>1
      <4> QED
        BY <3>3, <3>5, <4>1, <4>2 DEF saved
    <3>6. CASE x # r
      <4> HIDE DEF saved, Version, Values
      <4> QED
        BY <3>3, <3>4, <3>6
    <3> QED
      BY <3>5, <3>6
  <2> QED
    BY <2>1, <2>2
<1> HIDE DEF Version
<1>4. CASE chain'[r] = vs /\ deleted'[r] = deleted[r] /\ data'[r] = data[r]
  BY <1>2, <1>4 DEF NewView, View, Base
<1>5. CASE vs # << >> /\ vs[1].by = t /\ chain'[r] = Tail(vs) /\ newbase = vs[1].saved
  <2> HIDE DEF vs, newbase
  <2>1. 1 \in 1..Len(vs) /\ Tail(vs) = SubSeq(vs, 2, Len(vs))
    BY <1>1, <1>5
  <2>2. ASSUME NEW S, t \notin S
        PROVE  NewView(r, S) = View(r, S)
    <3>1. \A k \in 1..1 : vs[k].by \notin S
      BY <1>5, <2>2
    <3>2. Along(SubSeq(vs, 1 + 1, Len(vs)), vs[1].saved, S) = Along(vs, Base(r), S)
      BY <1>1, <2>1, <3>1, AlongTail
    <3>3. 1 + 1 = 2
      OBVIOUS
    <3>4. NewView(r, S) = Along(Tail(vs), vs[1].saved, S) /\ View(r, S) = Along(vs, Base(r), S)
      BY <1>5 DEF NewView, View, vs, newbase
    <3> QED
      BY <2>1, <3>2, <3>3, <3>4
  <2>3. /\ DOMAIN Tail(vs) = 1..Len(vs) - 1
        /\ \A a \in 1..Len(vs) - 1 : Tail(vs)[a] = vs[a + 1] /\ a + 1 \in DOMAIN vs
    BY <1>1, <1>5
  <2>4. ASSUME NEW a \in DOMAIN Tail(vs), NEW b \in DOMAIN Tail(vs), a < b
        PROVE  Tail(vs)[a].by = Tail(vs)[b].by \/ Tail(vs)[b].by \in Settled
    <3>1. a + 1 \in DOMAIN vs /\ b + 1 \in DOMAIN vs /\ a + 1 < b + 1
          /\ Tail(vs)[a] = vs[a + 1] /\ Tail(vs)[b] = vs[b + 1]
      BY <1>1, <2>3, <2>4
    <3> QED
      BY <1>2, <3>1
  <2> QED
    BY <1>5, <2>2, <2>4 DEF vs
<1> QED
  BY <1>3, <1>4, <1>5

LEMMA RollbackKeys ==
  ASSUME KInv, fault = Alive, NEW t \in Tx, Rollback(t)
  PROVE  KeysInv'
<1>0. /\ TypeInv /\ StatementsOK /\ UpdatesHaveEntries /\ IInv
      /\ CommitsApart /\ SnapshotsApart /\ KeysFree /\ KeysDiffer /\ ChainsOrdered /\ ClockAhead
  BY DEF KInv, KeysInv, IInv
<1>1. /\ phase[t] \in {"ready", "failed", "undoing"}
      /\ UNCHANGED <<clock, start_time, commit_id, statement, current_index, count, fault,
                     unlocked, dirty, torn, clobbered>>
  BY DEF Rollback
<1>2. /\ phase'[t] \in {"undoing", "done"} /\ commit_id[t] = 0 /\ count' = count
      /\ \A u \in Tx : u # t => phase'[u] = phase[u]
  <2>1. phase'[t] \in {"undoing", "done"} /\ \A u \in Tx : u # t => phase'[u] = phase[u]
    BY <1>0, UndoneRow
  <2> QED
    BY <1>0, <1>1, <2>1 DEF TypeInv, StatementsOK, StatementOK
<1>3. /\ Settled' = Settled /\ t \notin Settled /\ Excepted' = Excepted
      /\ Running' \subseteq Running \ {t}
      /\ \A u \in Tx : SeenBy(u)' = SeenBy(u) /\ (u # t => t \notin SeenBy(u))
      /\ \A u \in Tx : u # t => \A S \in Readers(u)' : S \in Readers(u) /\ t \notin S
  <2>1. /\ Settled' = Settled /\ t \notin Settled /\ Excepted' = Excepted
        /\ Running' \subseteq Running \ {t}
    BY <1>1, <1>2 DEF Settled, Excepted, Running
  <2>2. \A u \in Tx : SeenBy(u)' = SeenBy(u) /\ (u # t => t \notin SeenBy(u))
    BY <1>1, <1>2 DEF SeenBy
  <2>3. ASSUME NEW u \in Tx, u # t, NEW S \in Readers(u)'
        PROVE  S \in Readers(u) /\ t \notin S
    <3>1. S = SeenBy(u) \/ \E T \in SUBSET Running' : u \in T /\ S = Settled \cup T
      BY <2>1, <2>2 DEF Readers
    <3>2. CASE S = SeenBy(u)
      BY <2>2, <2>3, <3>2 DEF Readers
    <3>3. CASE S # SeenBy(u)
      <4>1. PICK T \in SUBSET Running' : u \in T /\ S = Settled \cup T
        BY <3>1, <3>3
      <4> QED
        BY <2>1, <4>1 DEF Readers
    <3> QED
      BY <3>2, <3>3
  <2> QED
    BY <2>1, <2>2, <2>3
<1>4. ASSUME NEW r \in Row
      PROVE  /\ \A S : t \notin S => NewView(r, S) = View(r, S)
             /\ chain[r] = << >> \/ chain[r][1].by # t => chain'[r] = chain[r] /\ data'[r] = data[r]
             /\ \A a, b \in DOMAIN chain'[r] :
                   a < b => chain'[r][a].by = chain'[r][b].by \/ chain'[r][b].by \in Settled
  BY <1>0, <1>2, UndoneView
<1>5. count \in Nat /\ 1..count \subseteq Row
  BY <1>0, CountedRows
<1>6. ASSUME NEW rows, NEW more, rows \subseteq 1..count, more \subseteq rows, NEW S, t \notin S, Apart(rows, S)
      PROVE  NewApart(more, S)
  <2>1. \A r \in rows : NewView(r, S) = View(r, S)
    BY <1>4, <1>5, <1>6
  <2> QED
    BY <1>6, <2>1 DEF Apart, NewApart
<1>7. CommitsApart'
  <2>1. ASSUME NEW T \in SUBSET Running'
        PROVE  NewApart(1..count' \ Excepted', Settled' \cup T)
    <3>1. T \in SUBSET Running /\ t \notin Settled \cup T
      BY <1>3
    <3>2. Apart(1..count \ Excepted, Settled \cup T)
      BY <1>0, <3>1 DEF CommitsApart
    <3> QED
      BY <1>2, <1>3, <1>6, <3>1, <3>2
  <2> QED
    BY <2>1, ApartNext
<1>8. SnapshotsApart'
  <2>1. ASSUME NEW u \in Active'
        PROVE  NewApart(1..count' \ (Excepted' \cup Overtaken(u)'), SeenBy(u)')
    <3>1. u \in Tx /\ u # t /\ u \in Active
      BY <1>2 DEF Active
    <3>2. Apart(1..count \ (Excepted \cup Overtaken(u)), SeenBy(u))
      BY <1>0, <3>1 DEF SnapshotsApart
    <3>3. t \notin SeenBy(u) /\ SeenBy(u)' = SeenBy(u)
      BY <1>3, <3>1
    <3>4. ASSUME NEW r \in Overtaken(u)
          PROVE  r \in Overtaken(u)'
      <4>1. r \in 1..count /\ chain[r] # << >> /\ chain[r][1].by = u
        BY DEF Overtaken
      <4>2. chain'[r] = chain[r]
        BY <1>4, <1>5, <3>1, <4>1
      <4> QED
        BY <1>1, <1>2, <4>1, <4>2 DEF Overtaken, Sees, Uncommitted, Number
    <3>5. 1..count' \ (Excepted' \cup Overtaken(u)') \subseteq 1..count \ (Excepted \cup Overtaken(u))
      BY <1>2, <1>3, <3>4
    <3> QED
      BY <1>6, <3>2, <3>3, <3>5
  <2> QED
    BY <2>1, ApartNext
<1>9. \A u \in Tx, i \in Index : Entering(u, i)' => u # t /\ Entering(u, i)
  <2> SUFFICES ASSUME NEW u \in Tx, NEW i \in Index, Entering(u, i)'
               PROVE  u # t /\ Entering(u, i)
    OBVIOUS
  <2>1. u # t
    BY <1>2 DEF Entering
  <2> QED
    BY <1>1, <1>2, <2>1, EnteringKept
<1>10. ASSUME NEW u \in Tx, NEW i \in Index, Entering(u, i), u # t,
              NEW j \in DOMAIN statement[u].rows, statement[u].rows[j] \notin Excepted
       PROVE  NewKey(u, i, j)' = NewKey(u, i, j)
  <2>1. CASE statement[u].kind = "insert"
    BY <1>1, <2>1 DEF NewKey, Written, Filled
  <2>2. CASE statement[u].kind # "insert"
    <3>1. Updating(u) /\ i < current_index[u] /\ Affected(u, i) /\ statement[u].rows[j] \notin dirty
      BY <1>10, <2>2 DEF Entering, Updating, Excepted
    <3>2. ~InConflict(u, statement[u].rows[j])
      BY <1>0, <3>1 DEF UpdatesHaveEntries, UpdateEntered
    <3>3. statement[u].rows[j] \in Row
      BY <1>0 DEF TypeInv, Statement
    <3>4. data'[statement[u].rows[j]] = data[statement[u].rows[j]]
      <4>1. chain[statement[u].rows[j]] = << >> \/ chain[statement[u].rows[j]][1].by # t
        BY <1>2, <1>10, <3>2 DEF InConflict, Uncommitted, Number
      <4> QED
        BY <1>4, <3>3, <4>1
    <3> QED
      BY <1>1, <3>4 DEF NewKey, Written, Filled
  <2> QED
    BY <2>1, <2>2
<1>11. KeysFree'
  <2> SUFFICES ASSUME fault' = Alive, NEW u \in Tx, NEW i \in Index, Entering(u, i)',
                      NEW j \in DOMAIN statement'[u].rows, statement'[u].rows[j] \notin Excepted',
                      NewKey(u, i, j)' # NoKey
               PROVE  KeyFree(u, i, j)'
    BY DEF KeysFree
  <2>1. u # t /\ Entering(u, i) /\ statement'[u] = statement[u] /\ NewKey(u, i, j)' = NewKey(u, i, j)
    BY <1>1, <1>3, <1>9, <1>10
  <2>2. KeyFree(u, i, j)
    BY <1>0, <1>1, <1>3, <2>1 DEF KeysFree
  <2> SUFFICES ASSUME NEW s \in 1..count \ (Excepted \cup Range(statement[u].rows)), NEW S \in Readers(u)'
               PROVE  KeyOf(i, NewView(s, S)) # NewKey(u, i, j)
    BY <1>2, <1>3, <2>1, ViewNext DEF KeyFree
  <2>3. S \in Readers(u) /\ t \notin S
    BY <1>3, <2>1
  <2>4. NewView(s, S) = View(s, S)
    BY <1>4, <1>5, <2>3
  <2> QED
    BY <2>2, <2>3, <2>4 DEF KeyFree
<1>12. KeysDiffer'
  <2> SUFFICES ASSUME fault' = Alive, NEW u \in Tx, NEW w \in Tx, NEW i \in Index,
                      Entering(u, i)', Entering(w, i)',
                      NEW j \in DOMAIN statement'[u].rows, NEW k \in DOMAIN statement'[w].rows,
                      u # w \/ j # k
               PROVE  KeyDiffers(u, w, i, j, k)'
    BY DEF KeysDiffer
  <2>1. /\ Entering(u, i) /\ statement'[u] = statement[u] /\ u # t
        /\ Entering(w, i) /\ statement'[w] = statement[w] /\ w # t
    BY <1>1, <1>9
  <2>2. KeyDiffers(u, w, i, j, k)
    BY <1>0, <1>1, <2>1 DEF KeysDiffer
  <2>3. /\ statement[u].rows[j] \notin Excepted => NewKey(u, i, j)' = NewKey(u, i, j)
        /\ statement[w].rows[k] \notin Excepted => NewKey(w, i, k)' = NewKey(w, i, k)
    BY <1>1, <1>10, <2>1
  <2> QED
    BY <1>3, <2>1, <2>2, <2>3 DEF KeyDiffers
<1>13. ChainsOrdered'
  BY <1>3, <1>4 DEF ChainsOrdered
<1>14. ClockAhead'
  BY <1>0, <1>1 DEF ClockAhead
<1> QED
  BY <1>7, <1>8, <1>11, <1>12, <1>13, <1>14 DEF KeysInv

-----------------------------------------------------------------------------
(* Entering keys. *)

LEMMA ViewValue ==
  ASSUME TypeInv, NEW r \in Row, NEW S
  PROVE  View(r, S) \in ValuesOf(r) \cup {Nowhere}
<1> DEFINE vs == chain[r]
<1>1. vs \in Seq(Version) /\ Len(vs) \in Nat /\ DOMAIN vs = 1..Len(vs)
  BY RowFacts
<1>2. PICK k \in 0..Len(vs) : View(r, S) = At(vs, Base(r), k)
  BY <1>1, AlongStops DEF View
<1>3. CASE k = 0
  BY <1>2, <1>3 DEF At, Base, ValuesOf
<1>4. CASE k # 0
  <2>1. k \in DOMAIN vs /\ View(r, S) = vs[k].saved
    BY <1>1, <1>2, <1>4 DEF At
  <2> QED
    BY <2>1 DEF ValuesOf, Range
<1> QED
  BY <1>3, <1>4

\* AddEntries compared the rows of all entries with the keys, which are different.
EntriesFit(t, i, reads, looked) ==
    \A j \in DOMAIN statement[t].rows :
        NewKey(t, i, j) # NoKey /\ statement[t].rows[j] \notin Excepted' =>
            /\ \A n \in DOMAIN index[i].node : index[i].node[n].key = NewKey(t, i, j) =>
                  n \in looked /\ Fits(t, i, NewKey(t, i, j), n, reads[j], IgnoredIdentifiers(t))
            /\ \A o \in DOMAIN statement[t].rows : o < j /\ statement[t].rows[o] \notin Excepted' =>
                  NewKey(t, i, o) # NewKey(t, i, j)

\* What it read of the rows is what they hold, but for those that are torn.
ReadOrTorn(t, i, reads, looked) ==
    \A n \in looked :
        LET x == index[i].node[n].row
        IN \/ x \in IgnoredIdentifiers(t) \/ x \in torn'
           \/ \A j \in DOMAIN statement[t].rows : reads[j][x] = Now(x)

\* It took the shared locks of their chunks, but not that of the last one.
LockedOrNoted(t, i, looked) ==
    \A n \in looked :
        LET x == index[i].node[n].row
        IN IF ChunkOf(x) # tail_chunk THEN exclusive_lock[ChunkOf(x)] = NoTx
           ELSE exclusive_lock[tail_chunk] = t \/ x \in unlocked'

LEMMA EnteredKeyFree ==
  ASSUME IInv, NEW t \in Tx, NEW i \in Index, NEW reads, NEW looked, EntriesFit(t, i, reads, looked),
         ReadOrTorn(t, i, reads, looked), Excepted \subseteq Excepted',
         NEW j \in DOMAIN statement[t].rows, statement[t].rows[j] \notin Excepted', NewKey(t, i, j) # NoKey,
         NEW s \in 1..count \ (Excepted' \cup Range(statement[t].rows)), NEW S \in Readers(t)
  PROVE  KeyOf(i, View(s, S)) # NewKey(t, i, j)
<1>0. TypeInv /\ TreesOK /\ VersionsHaveEntries
  BY DEF IInv
<1> SUFFICES ASSUME KeyOf(i, View(s, S)) = NewKey(t, i, j)
             PROVE  FALSE
  OBVIOUS
<1>1. s \in Row /\ s \in 1..count /\ s \notin dirty /\ s \notin torn'
  BY <1>0, CountedRows DEF Excepted
<1>2. HasEntry(i, s, View(s, S))
  <2>1. CASE View(s, S) = Nowhere
    BY <2>1, NowhereHasNoKey
  <2>2. CASE View(s, S) # Nowhere
    BY <1>0, <1>1, <2>2, ViewValue DEF VersionsHaveEntries
  <2> QED
    BY <2>1, <2>2
<1>3. PICK n \in DOMAIN index[i].node : index[i].node[n].row = s /\ index[i].node[n].key = NewKey(t, i, j)
  BY <1>2 DEF HasEntry
<1>4. n \in looked /\ ~Conflicts(t, i, NewKey(t, i, j), reads[j][s], s, IgnoredIdentifiers(t))
  BY <1>3 DEF EntriesFit, Fits
<1>5. s \notin IgnoredIdentifiers(t)
  BY DEF IgnoredIdentifiers
<1>6. reads[j][s] = Now(s)
  BY <1>1, <1>3, <1>4, <1>5 DEF ReadOrTorn
<1> QED
  BY <1>0, <1>1, <1>4, <1>5, <1>6, ConflictInView

\* A key that another statement has entered was found, and its row not to fit.
LEMMA EnteredKeyDiffers ==
  ASSUME IInv, fault = Alive, NEW t \in Tx, NEW i \in Index, NEW reads, NEW looked,
         EntriesFit(t, i, reads, looked), LockedOrNoted(t, i, looked), Excepted \subseteq Excepted',
         NEW u \in Tx, u # t, Entering(u, i),
         NEW j \in DOMAIN statement[t].rows, statement[t].rows[j] \notin Excepted', NEW k \in DOMAIN statement[u].rows,
         NewKey(t, i, j) = NewKey(u, i, k), NewKey(t, i, j) # NoKey
  PROVE  statement[u].rows[k] \in Excepted'
<1>0. TypeInv /\ TreesOK /\ StatementsOK /\ EntriesOfInserts /\ UpdatesHaveEntries
  BY DEF IInv
<1> DEFINE x == statement[u].rows[k]
           key == NewKey(t, i, j)
<1>1. StatementOK(u) /\ x \in Row /\ count \in Nat
  BY <1>0, CountedRows DEF StatementsOK, TypeInv, Statement
<1>2. \A n \in DOMAIN index[i].node : index[i].node[n].key = key =>
         n \in looked /\ index[i].node[n].row <= count
  BY DEF EntriesFit, Fits
<1>3. CASE statement[u].kind = "insert"
  <2> DEFINE es == added_nodes[u][i]
  <2>1. Inserting(u) /\ NewRows(u)
    BY <1>1, <1>3 DEF Entering, Inserting, StatementOK
  <2>2. DOMAIN es = DOMAIN statement[u].keys /\ Entered(index[i], es, NewKeys(u, i), statement[u].rows)
    BY <1>0, <2>1 DEF EntriesOfInserts, Entering
  <2>3. k \in DOMAIN es /\ x = count + k /\ k \in Nat \ {0}
    <3>1. statement[u].rows \in Seq(Row)
      BY <1>0 DEF TypeInv, Statement
    <3>2. k \in Nat \ {0}
      BY <3>1
    <3> HIDE DEF es
    <3> QED
      BY <2>1, <2>2, <3>2 DEF NewRows
  <2>4. NewKeys(u, i)[k] = key
    BY <1>3 DEF NewKeys, NewKey, Written, Filled
  <2> HIDE DEF key, es
  <2>5. /\ es[k] \in DOMAIN index[i].node /\ index[i].node[es[k]].row = x
        /\ index[i].node[es[k]].key = key
    <3>1. key # NoKey
      BY DEF key
    <3> QED
      BY <2>2, <2>3, <2>4, <3>1, EnteredLeads
  <2>6. x <= count
    BY <1>2, <2>5
  <2> QED
    BY <1>1, <2>3, <2>6
<1>4. CASE statement[u].kind # "insert"
  <2>1. statement[u].kind = "update" /\ Updating(u) /\ phase[u] \in {"indexing", "writing"}
    BY <1>4 DEF Entering, Updating
  <2>2. ASSUME x \notin Excepted
        PROVE  x \in unlocked'
    <3>1. HasEntry(i, x, Written(u, k))
      BY <1>0, <2>1, <2>2 DEF UpdatesHaveEntries, UpdateEntered, Entering, Excepted
    <3>2. PICK n \in DOMAIN index[i].node : index[i].node[n].row = x /\ index[i].node[n].key = key
      BY <3>1 DEF HasEntry, NewKey
    <3>3. n \in looked
      BY <1>2, <3>2
    <3>4. ChunkFor(u) = ChunkOf(x) /\ exclusive_lock[ChunkFor(u)] = u
      <4>1. ChunkOf(x) = ChunkOf(statement[u].rows[1])
        BY <1>1, <2>1 DEF StatementOK, FoundRows
      <4> QED
        BY <1>1, <2>1, <4>1 DEF StatementOK, ChunkFor
    <3> HIDE DEF x
    <3>5. IF ChunkOf(x) # tail_chunk THEN exclusive_lock[ChunkOf(x)] = NoTx
          ELSE exclusive_lock[tail_chunk] = t \/ x \in unlocked'
      BY <3>2, <3>3 DEF LockedOrNoted
    <3> QED
      BY <3>4, <3>5, TxAssumption
  <2> QED
    BY <2>2 DEF Excepted
<1> QED
  BY <1>3, <1>4

\* AddEntries went through all rows, so their entries fit.
LEMMA AddedFit ==
  ASSUME NEW t, NEW i \in Index, NEW reads, NEW tree, NEW added, NEW looked, NEW passed,
         Batch(i, EnteredKeys(t, i, reads), statement[t].rows),
         AddResult(t, i, EnteredKeys(t, i, reads), statement[t].rows, reads, IgnoredIdentifiers(t),
                   tree, added, "going", looked, passed),
         \A j \in DOMAIN statement[t].rows : statement[t].rows[j] \notin Excepted' =>
            EnteredKeys(t, i, reads)[j] = NewKey(t, i, j)
  PROVE  EntriesFit(t, i, reads, looked)
<1> DEFINE ks == EnteredKeys(t, i, reads)
           rows == statement[t].rows
           ignored == IgnoredIdentifiers(t)
<1>1. /\ DOMAIN rows = DOMAIN ks /\ Len(ks) \in Nat /\ DOMAIN ks = 1..Len(ks)
      /\ \A j \in DOMAIN rows : rows[j] \notin Excepted' => ks[j] = NewKey(t, i, j)
  BY DEF Batch
<1> HIDE DEF ks, rows, ignored
<1>2. EntriesAdded(t, i, ks, rows, reads, ignored, tree, added, looked, passed) /\ Len(added) = Len(ks)
  BY DEF AddResult, Adding, ks, rows, ignored
<1>3. /\ added \in Seq(Nat)
      /\ \A j \in DOMAIN added : ks[j] # NoKey =>
            /\ \A n \in DOMAIN index[i].node : index[i].node[n].key = ks[j] =>
                  n \in looked /\ Fits(t, i, ks[j], n, reads[j], ignored)
            /\ \A o \in 1..j - 1 : ks[o] # ks[j]
  BY <1>2 DEF EntriesAdded
<1>4. DOMAIN added = 1..Len(ks)
  BY <1>2, <1>3
<1> SUFFICES ASSUME NEW j \in DOMAIN rows, NewKey(t, i, j) # NoKey, rows[j] \notin Excepted'
             PROVE  /\ \A n \in DOMAIN index[i].node : index[i].node[n].key = NewKey(t, i, j) =>
                          n \in looked /\ Fits(t, i, NewKey(t, i, j), n, reads[j], ignored)
                    /\ \A o \in DOMAIN rows : o < j /\ rows[o] \notin Excepted' =>
                          NewKey(t, i, o) # NewKey(t, i, j)
  BY DEF EntriesFit, rows, ignored
<1>5. ks[j] = NewKey(t, i, j) /\ j \in DOMAIN added
  BY <1>1, <1>4
<1>6. \A o \in DOMAIN rows : o < j /\ rows[o] \notin Excepted' => o \in 1..j - 1 /\ ks[o] = NewKey(t, i, o)
  BY <1>1
<1> QED
  BY <1>3, <1>5, <1>6

\* A step of EnterKeys: nothing is entered, or the keys of one more index.
LEMMA EnteredIndex ==
  ASSUME KInv, fault = Alive, NEW t \in Tx, phase[t] = "indexing", NEW i \in Index, i = current_index[t],
         NEW reads, NEW looked, EntriesFit(t, i, reads, looked), ReadOrTorn(t, i, reads, looked),
         LockedOrNoted(t, i, looked), Affected(t, i), Running' \subseteq Running,
         UNCHANGED <<rowState, commit_id, start_time>>, Excepted \subseteq Excepted',
         \A u \in Tx : statement'[u] = statement[u],
         \A u \in Tx : u # t => phase'[u] = phase[u] /\ current_index'[u] = current_index[u],
         current_index'[t] = i + 1
  PROVE  KeysFree' /\ KeysDiffer'
<1>0. IInv /\ KeysFree /\ KeysDiffer /\ TypeInv
  BY DEF KInv, KeysInv, IInv
<1>1. ASSUME NEW u \in Tx, NEW o \in Index, Entering(u, o)'
      PROVE  (u = t /\ o = i) \/ Entering(u, o)
  <2>1. CASE u # t
    BY <1>1, <2>1, EnteringKept
  <2>2. CASE u = t /\ o # i
    <3>1. statement[t].kind \in {"insert", "update"} /\ Affected(t, o) /\ o < i + 1
      BY <1>1, <2>2 DEF Entering, Affected
    <3>2. o < i
      BY <2>2, <3>1, IndexFacts
    <3> QED
      BY <2>2, <3>1, <3>2 DEF Entering
  <2> QED
    BY <2>1, <2>2
<1>2. KeysFree'
  <2> SUFFICES ASSUME fault' = Alive, NEW u \in Tx, NEW o \in Index, Entering(u, o)',
                      NEW j \in DOMAIN statement'[u].rows, statement'[u].rows[j] \notin Excepted',
                      NewKey(u, o, j)' # NoKey
               PROVE  KeyFree(u, o, j)'
    BY DEF KeysFree
  <2>1. statement'[u] = statement[u] /\ NewKey(u, o, j) # NoKey /\ NewKey(u, o, j)' = NewKey(u, o, j)
    BY WrittenKept
  <2>2. CASE u = t /\ o = i
    <3> SUFFICES ASSUME NEW s \in 1..count \ (Excepted' \cup Range(statement[t].rows)), NEW S \in Readers(t)'
                 PROVE  KeyOf(i, NewView(s, S)) # NewKey(t, i, j)
      BY <2>1, <2>2, ViewNext DEF KeyFree, rowState
    <3>1. S \in Readers(t)
      BY QuietSets
    <3>2. KeyOf(i, View(s, S)) # NewKey(t, i, j)
      BY <1>0, <2>1, <2>2, <3>1, EnteredKeyFree
    <3> QED
      BY <3>2, QuietViews
  <2>3. CASE Entering(u, o)
    <3>1. KeyFree(u, o, j)
      BY <1>0, <2>1, <2>3 DEF KeysFree
    <3> QED
      BY <2>1, <3>1, KeysKept
  <2> QED
    BY <1>1, <2>2, <2>3
<1>3. ASSUME NEW u \in Tx, u # t, Entering(u, i), NEW j \in DOMAIN statement[t].rows,
             statement[t].rows[j] \notin Excepted', NEW k \in DOMAIN statement[u].rows,
             NewKey(t, i, j) = NewKey(u, i, k), NewKey(t, i, j) # NoKey
      PROVE  statement[u].rows[k] \in Excepted'
  BY <1>0, <1>3, EnteredKeyDiffers
<1>4. ASSUME NEW j \in DOMAIN statement[t].rows, NEW k \in DOMAIN statement[t].rows, j # k,
             statement[t].rows[j] \notin Excepted', statement[t].rows[k] \notin Excepted',
             NewKey(t, i, j) = NewKey(t, i, k)
      PROVE  NewKey(t, i, j) = NoKey
  <2>1. statement[t].rows \in Seq(Row)
    BY <1>0 DEF TypeInv, Statement
  <2>2. j < k \/ k < j
    BY <1>4, <2>1
  <2> QED
    BY <1>4, <2>2 DEF EntriesFit
<1>5. KeysDiffer'
  <2> SUFFICES ASSUME fault' = Alive, NEW u \in Tx, NEW w \in Tx, NEW o \in Index,
                      Entering(u, o)', Entering(w, o)',
                      NEW j \in DOMAIN statement'[u].rows, NEW k \in DOMAIN statement'[w].rows,
                      u # w \/ j # k
               PROVE  KeyDiffers(u, w, o, j, k)'
    BY DEF KeysDiffer
  <2>1. statement'[u] = statement[u] /\ statement'[w] = statement[w]
    OBVIOUS
  <2>2. NewKey(u, o, j)' = NewKey(u, o, j) /\ NewKey(w, o, k)' = NewKey(w, o, k)
    BY <2>1, WrittenKept
  <2>3. CASE Entering(u, o) /\ Entering(w, o)
    <3>1. KeyDiffers(u, w, o, j, k)
      BY <1>0, <2>1, <2>3 DEF KeysDiffer
    <3> QED
      BY <2>1, <3>1, KeysKept
  <2>4. CASE u = t /\ w = t /\ o = i
    BY <1>4, <2>1, <2>2, <2>4 DEF KeyDiffers
  <2>5. CASE u = t /\ w # t /\ o = i
    <3>1. Entering(w, i)
      BY <1>1, <2>5
    <3> QED
      BY <1>3, <2>1, <2>2, <2>5, <3>1 DEF KeyDiffers
  <2>6. CASE u # t /\ w = t /\ o = i
    <3>1. Entering(u, i)
      BY <1>1, <2>6
    <3> QED
      BY <1>3, <2>1, <2>2, <2>6, <3>1 DEF KeyDiffers
  <2> QED
    BY <1>1, <2>3, <2>4, <2>5, <2>6
<1> QED
  BY <1>2, <1>5

\* Where a row was not undone since, an update has filled in what it holds now.
LEMMA ReadTuples ==
  ASSUME TypeInv, NEW t \in Tx, NEW reads \in [DOMAIN statement[t].rows -> Readings(t)]
  PROVE  /\ OwnRead(t, reads)
         /\ \A j \in DOMAIN statement[t].rows, i \in Index :
               statement[t].kind = "insert" \/ reads[j][statement[t].rows[j]] = Now(statement[t].rows[j])
                  => EnteredKeys(t, i, reads)[j] = NewKey(t, i, j)
<1> DEFINE rows == statement[t].rows
<1>1. rows \in Seq(Row)
  BY DEF TypeInv, Statement
<1>2. \A j \in DOMAIN rows : rows[j] \in Row /\ reads[j] \in Readings(t)
  BY <1>1
<1>3. \A x \in Reading : x.data \in Values
  BY DEF Reading, Values
<1>4. OwnRead(t, reads)
  BY <1>2, <1>3, ReadableTypes DEF OwnRead
<1>5. ASSUME NEW j \in DOMAIN rows,
             statement[t].kind = "insert" \/ reads[j][rows[j]] = Now(rows[j])
      PROVE  Tuples(t, reads)[j] = Written(t, j)
  <2>1. CASE statement[t].kind = "insert"
    BY <2>1 DEF Tuples, Written, Filled
  <2>2. CASE reads[j][rows[j]] = Now(rows[j])
    BY <2>2 DEF Tuples, Written, Now
  <2> QED
    BY <1>5, <2>1, <2>2
<1> QED
  BY <1>4, <1>5 DEF EnteredKeys, NewKey

LEMMA EnterKeysKeys ==
  ASSUME KInv, fault = Alive, NEW t \in Tx, EnterKeys(t)
  PROVE  KeysInv'
<1> PICK reads \in [DOMAIN statement[t].rows -> Readings(t)] :
       /\ EnterKeysReading(t, reads)
       /\ phase[t] = "indexing"
       /\ UNCHANGED <<clock, start_time, commit_id, issued, rowState, clobbered>>
  BY DEF EnterKeys
<1> DEFINE i == current_index[t]
           rows == statement[t].rows
           ignored == IgnoredIdentifiers(t)
           r == AddEntries(t, i, EnteredKeys(t, i, reads), rows, reads, ignored)
           at(n) == r.tree.node[n].row
           compared == {at(n) : n \in r.compared}
           tuples == Tuples(t, reads)
           stale == {x \in Row : \E j \in DOMAIN rows : reads[j][x] # Now(x)}
<1>0. TypeInv /\ TreesOK /\ StatementsOK
  BY SMTT(30) DEF KInv, IInv
<1>1. /\ phase[t] = "indexing"
      /\ UNCHANGED <<clock, start_time, commit_id, issued, rowState, clobbered>>
      /\ ~Affected(t, i) => /\ Advance(t, << >>)
                            /\ UNCHANGED <<index, read_count, fault, unlocked, dirty, torn>>
      /\ Affected(t, i) /\ DuplicateTuples(t, i, tuples) =>
            Reject(t) /\ UNCHANGED <<index, read_count, fault, unlocked, dirty, torn>>
      /\ Affected(t, i) /\ ~DuplicateTuples(t, i, tuples) =>
            /\ \A x \in compared : ChunkOf(x) # tail_chunk => exclusive_lock[ChunkOf(x)] = NoTx
            /\ fault' = r.fault
            /\ unlocked' = unlocked \cup
                  IF exclusive_lock[tail_chunk] = t THEN {}
                  ELSE {x \in compared : ChunkOf(x) = tail_chunk}
            /\ dirty' = dirty \cup {x \in ignored : InConflict(t, x) \/ x \in stale}
            /\ torn' = torn \cup ((compared \cap stale) \ ignored)
            /\ IF r.error THEN Reject(t) ELSE Advance(t, r.added)
  <2>1. /\ ~Affected(t, i) => /\ Advance(t, << >>)
                              /\ UNCHANGED <<index, read_count, fault, unlocked, dirty, torn>>
        /\ Affected(t, i) /\ DuplicateTuples(t, i, tuples) =>
              Reject(t) /\ UNCHANGED <<index, read_count, fault, unlocked, dirty, torn>>
        /\ Affected(t, i) /\ ~DuplicateTuples(t, i, tuples) =>
              /\ \A x \in compared : ChunkOf(x) # tail_chunk => exclusive_lock[ChunkOf(x)] = NoTx
              /\ fault' = r.fault
              /\ unlocked' = unlocked \cup
                    IF exclusive_lock[tail_chunk] = t THEN {}
                    ELSE {x \in compared : ChunkOf(x) = tail_chunk}
              /\ dirty' = dirty \cup {x \in ignored : InConflict(t, x) \/ x \in stale}
              /\ torn' = torn \cup ((compared \cap stale) \ ignored)
              /\ IF r.error THEN Reject(t) ELSE Advance(t, r.added)
    BY Zenon DEF EnterKeysReading, EnteredKeys
  <2> QED
    BY <2>1
<1> HIDE DEF r, at, compared, tuples, stale
<1>2. StatementOK(t) /\ i \in Index /\ statement[t].kind \in {"insert", "update"}
  BY <1>0, <1>1 DEF StatementsOK, StatementOK, TypeInv, Statement
<1>3. Excepted \subseteq Excepted'
  <2>1. unlocked \subseteq unlocked' /\ dirty \subseteq dirty' /\ torn \subseteq torn'
    BY <1>1
  <2> QED
    BY <1>1, <2>1 DEF Excepted
<1>4. ASSUME Reject(t)
      PROVE  KeysInv'
  <2>1. \/ Goto(t, "reverting") /\ UNCHANGED <<statement, current_index>>
        \/ ToReady(t)
    BY <1>4 DEF Reject
  <2>2. /\ phase'[t] \in {"reverting", "ready"}
        /\ \A u \in Tx : u # t => /\ phase'[u] = phase[u] /\ statement'[u] = statement[u]
                                  /\ current_index'[u] = current_index[u]
    BY <1>0, <2>1 DEF Goto, ToReady, TypeInv
  <2>3. \A o \in Index : ~Entering(t, o)'
    BY <2>2 DEF Entering
  <2> QED
    BY <1>1, <1>3, <2>2, <2>3, QuietStep
<1>5. ASSUME NEW added, Advance(t, added)
      PROVE  /\ \A u \in Tx : statement'[u] = statement[u]
             /\ \A u \in Tx : u # t => phase'[u] = phase[u] /\ current_index'[u] = current_index[u]
             /\ current_index'[t] = i + 1
             /\ Active' \subseteq Active /\ Running' \subseteq Running
  <2>1. /\ \A u \in Tx : statement'[u] = statement[u]
        /\ \A u \in Tx : u # t => phase'[u] = phase[u] /\ current_index'[u] = current_index[u]
        /\ current_index'[t] = i + 1
    BY <1>0, <1>5 DEF Advance, Goto, TypeInv
  <2>2. Active' \subseteq Active /\ Running' \subseteq Running
    BY <1>1, <2>1 DEF Active, Running
  <2> QED
    BY <2>1, <2>2
<1>6. CASE ~Affected(t, i)
  <2>1. Advance(t, << >>)
    BY <1>1, <1>6
  <2>2. \A o \in Index : Entering(t, o)' => Entering(t, o) /\ statement'[t] = statement[t]
    <3> SUFFICES ASSUME NEW o \in Index, Entering(t, o)'
                 PROVE  Entering(t, o)
      BY <1>5, <2>1
    <3>1. statement'[t] = statement[t] /\ Affected(t, o) /\ o < i + 1
      BY <1>5, <2>1 DEF Entering, Affected
    <3>2. o < i
      BY <1>2, <1>6, <3>1, IndexFacts
    <3> QED
      BY <1>1, <1>2, <3>1, <3>2 DEF Entering
  <2>3. \A u \in Tx : u # t => /\ phase'[u] = phase[u] /\ statement'[u] = statement[u]
                               /\ current_index'[u] = current_index[u]
    BY <1>5, <2>1
  <2> QED
    BY <1>1, <1>3, <2>2, <2>3, QuietStep
<1>7. CASE Affected(t, i) /\ DuplicateTuples(t, i, tuples)
  BY <1>1, <1>4, <1>7
<1>8. CASE Affected(t, i) /\ ~DuplicateTuples(t, i, tuples)
  <2>1. SearchTree(index[i], i) /\ count \in Nat
    BY <1>0, <1>2, CountedRows DEF TreesOK
  <2>2. Batch(i, EnteredKeys(t, i, reads), rows)
    <3>1. OwnRead(t, reads)
      BY <1>0, ReadTuples
    <3> QED
      BY <1>0, <1>1, <1>2, <1>8, <3>1, EnteredBatch DEF tuples
  <2>3. PICK tree, added, outcome, looked, passed :
           AddResult(t, i, EnteredKeys(t, i, reads), rows, reads, ignored, tree, added, outcome, looked, passed)
    BY <1>2, <2>1, <2>2, AddEntriesOutcome
  <2> DEFINE next == IF outcome = "refused" THEN index[i] ELSE tree
  <2>4. Indexed(t, i, reads, next, added, outcome) /\ looked \subseteq DOMAIN index[i].node
    BY <1>2, <2>1, <2>2, <2>3, AddEntriesIndexed
  <2>5. r = Account(next, added, outcome, looked, passed)
    BY <2>3 DEF AddResult, r
  <2> HIDE DEF next
  <2>6. /\ r.tree = next /\ r.added = added /\ r.compared = looked
        /\ r.error <=> outcome = "refused"
        /\ r.fault = IF outcome = "died" THEN "chunk_of_no_row" ELSE Alive
    BY <2>5, AccountFields
  <2>7. CASE outcome = "refused"
    BY <1>1, <1>4, <1>8, <2>6, <2>7
  <2>8. CASE outcome # "refused"
    <3>1. Advance(t, added)
      BY <1>1, <1>8, <2>6, <2>8
    <3>2. CommitsApart' /\ SnapshotsApart' /\ ChainsOrdered' /\ ClockAhead'
      BY <1>1, <1>3, <1>5, <3>1, QuietKeys
    <3>3. CASE outcome = "going"
      <4>0. \A j \in DOMAIN statement[t].rows : statement[t].rows[j] \notin Excepted' =>
               EnteredKeys(t, i, reads)[j] = NewKey(t, i, j)
        <5> SUFFICES ASSUME NEW j \in DOMAIN rows, rows[j] \notin Excepted', statement[t].kind # "insert"
                     PROVE  reads[j][rows[j]] = Now(rows[j])
          BY <1>0, <1>2, ReadTuples
        <5>1. rows[j] \in ignored /\ rows[j] \notin dirty'
          BY <1>2 DEF IgnoredIdentifiers, Range, Excepted
        <5>2. rows[j] \in Row
          <6>1. rows \in Seq(Row)
            BY <1>0 DEF TypeInv, Statement
          <6> QED
            BY <6>1
        <5>3. rows[j] \notin stale
          BY <1>1, <1>8, <5>1
        <5> QED
          BY <5>2, <5>3 DEF stale
      <4>1. EntriesFit(t, i, reads, looked)
        <5>1. AddResult(t, i, EnteredKeys(t, i, reads), rows, reads, IgnoredIdentifiers(t), tree, added,
                        "going", looked, passed)
          BY <2>3, <3>3
        <5> HIDE DEF i
        <5> QED
          BY <1>2, <2>2, <4>0, <5>1, AddedFit
      <4>4. ReadOrTorn(t, i, reads, looked)
        <5> SUFFICES ASSUME NEW n \in looked, index[i].node[n].row \notin ignored,
                            index[i].node[n].row \notin torn',
                            NEW j \in DOMAIN rows
                     PROVE  reads[j][index[i].node[n].row] = Now(index[i].node[n].row)
          BY DEF ReadOrTorn
        <5> DEFINE x == index[i].node[n].row
        <5>1. n \in DOMAIN index[i].node
          BY <2>4
        <5>2. x \in compared
          BY <2>4, <2>6, <5>1 DEF Indexed, compared, at
        <5>3. x \in Row
          BY <1>0, <1>2, <5>1, RowsOfEntries
        <5> HIDE DEF x
        <5>4. x \notin ignored /\ x \notin torn'
          BY DEF x
        <5>5. x \notin stale
          BY <1>1, <1>8, <5>2, <5>4
        <5>6. reads[j][x] = Now(x)
          BY <5>3, <5>5 DEF stale
        <5> QED
          BY <5>6 DEF x
      <4>2. LockedOrNoted(t, i, looked)
        <5> SUFFICES ASSUME NEW n \in looked
                     PROVE  IF ChunkOf(index[i].node[n].row) # tail_chunk
                            THEN exclusive_lock[ChunkOf(index[i].node[n].row)] = NoTx
                            ELSE exclusive_lock[tail_chunk] = t \/ index[i].node[n].row \in unlocked'
          BY DEF LockedOrNoted
        <5>1. index[i].node[n].row \in compared
          BY <2>4, <2>6 DEF Indexed, compared, at
        <5> HIDE DEF i
        <5> QED
          BY <1>1, <1>8, <5>1
      <4>3. KeysFree' /\ KeysDiffer'
        <5> HIDE DEF i
        <5>1. i = current_index[t]
          BY DEF i
        <5> QED
          BY <1>1, <1>2, <1>3, <1>5, <1>8, <3>1, <4>1, <4>2, <4>4, <5>1, EnteredIndex
      <4> QED
        BY <3>2, <4>3 DEF KeysInv
    <3>4. CASE outcome = "died"
      <4>1. fault' # Alive
        BY <1>1, <1>8, <2>6, <3>4 DEF Alive
      <4> QED
        BY <3>2, <4>1 DEF KeysInv, KeysFree, KeysDiffer
    <3> QED
      BY <2>4, <2>8, <3>3, <3>4 DEF Indexed
  <2> QED
    BY <2>7, <2>8
<1> QED
  BY <1>6, <1>7, <1>8

-----------------------------------------------------------------------------
(* Writing rows. *)

NewBase(r) == IF deleted'[r] THEN Nowhere ELSE data'[r]

\* The statement has entered the keys that the rows D get, or they keep theirs.
GetsKeys(t, i, D) ==
    /\ Entering(t, i) /\ D = Range(statement[t].rows)
    /\ \A r \in D : KeyOf(i, NewBase(r)) # NoKey =>
          \E j \in DOMAIN statement[t].rows :
              statement[t].rows[j] = r /\ KeyOf(i, NewBase(r)) = NewKey(t, i, j)
KeepsKeys(i, D) ==
    \A r \in D : KeyOf(i, NewBase(r)) # NoKey => r <= count /\ KeyOf(i, NewBase(r)) = KeyOf(i, Base(r))

\* What t's writing of the rows D changes for readers who see t's versions, and
\* for those who do not.
WritesRows(t, D) ==
    /\ D \subseteq 1..count' /\ count' \in Nat /\ \A s \in 1..count' \ D : s <= count
    /\ 1..count \subseteq 1..count' /\ 1..count' \subseteq Row
    /\ \A s \in Row \ D : chain'[s] = chain[s] /\ data'[s] = data[s] /\ deleted'[s] = deleted[s]
    /\ \A r \in D : \A S :
          /\ t \in S => NewView(r, S) = NewBase(r)
          /\ t \notin S /\ r \notin Excepted' =>
                NewView(r, S) = IF r <= count THEN View(r, S) ELSE Nowhere
    /\ \A r \in D : /\ chain'[r] # << >> /\ chain'[r][1].by = t
                    /\ r <= count => /\ ~InConflict(t, r)
                                     /\ \A k \in DOMAIN chain[r] :
                                           \E m \in DOMAIN chain'[r] : chain'[r][m].by = chain[r][k].by
    /\ \A r \in D : \A a, b \in DOMAIN chain'[r] :
          a < b => chain'[r][a].by = chain'[r][b].by \/ chain'[r][b].by \in Settled
    /\ \A i \in Index : GetsKeys(t, i, D) \/ KeepsKeys(i, D)

LEMMA RowKept ==
  ASSUME NEW t, NEW D, WritesRows(t, D), NEW s \in Row \ D, NEW S
  PROVE  NewView(s, S) = View(s, S)
<1>1. chain'[s] = chain[s] /\ data'[s] = data[s] /\ deleted'[s] = deleted[s]
  BY DEF WritesRows
<1> QED
  BY <1>1 DEF NewView, View, Base

\* Whoever sees all that is committed and t's versions sees a row that t may write.
LEMMA FrontSeen ==
  ASSUME TypeInv, NEW t \in Tx, NEW r \in Row, ~InConflict(t, r), NEW S, t \in S, Settled \subseteq S
  PROVE  View(r, S) = Base(r)
<1>1. chain[r] \in Seq(Version) /\ (chain[r] # << >> => chain[r][1].by \in Tx)
  BY ChainFacts
<1>2. chain[r] = << >> \/ chain[r][1].by \in S
  BY <1>1 DEF InConflict, Uncommitted, Number, Settled
<1> QED
  BY <1>1, <1>2, AlongFront DEF View

\* For a reader who sees t's versions.
LEMMA WrittenApart ==
  ASSUME TypeInv, KeysFree, KeysDiffer, fault = Alive, NEW t \in Tx, NEW D, WritesRows(t, D),
         Excepted \subseteq Excepted', NEW S \in Readers(t), NEW rows, NEW old,
         rows \subseteq 1..count' \ Excepted', \A r \in rows : r <= count => r \in old,
         Apart(old, S), \A r \in rows \cap D : r <= count => View(r, S) = Base(r)
  PROVE  NewApart(rows, S)
<1>1. t \in S
  BY DEF Readers, SeenBy
<1>2. /\ 1..count' \subseteq Row
      /\ \A s \in rows \ D : s <= count
      /\ \A r \in D : NewView(r, S) = NewBase(r)
  BY <1>1 DEF WritesRows
<1>3. \A s \in rows \ D : NewView(s, S) = View(s, S)
  BY <1>2, RowKept
<1>4. ASSUME NEW i \in Index, KeepsKeys(i, D), NEW r \in rows, NEW s \in rows, r # s,
             KeyOf(i, NewView(r, S)) # NoKey, KeyOf(i, NewView(r, S)) = KeyOf(i, NewView(s, S))
      PROVE  FALSE
  <2>1. \A x \in {r, s} : x <= count /\ KeyOf(i, NewView(x, S)) = KeyOf(i, View(x, S))
    <3> SUFFICES ASSUME NEW x \in {r, s}
                 PROVE  x <= count /\ KeyOf(i, NewView(x, S)) = KeyOf(i, View(x, S))
      OBVIOUS
    <3>1. CASE x \in D
      <4>1. x <= count /\ KeyOf(i, NewBase(x)) = KeyOf(i, Base(x))
        BY <1>2, <1>4, <3>1 DEF KeepsKeys
      <4> QED
        BY <1>2, <1>4, <3>1, <4>1
    <3>2. CASE x \notin D
      BY <1>2, <1>3, <1>4, <3>2
    <3> QED
      BY <3>1, <3>2
  <2>2. r \in old /\ s \in old
    BY <1>4, <2>1
  <2> QED
    BY <1>4, <2>1, <2>2 DEF Apart
<1>5. ASSUME NEW i \in Index, GetsKeys(t, i, D), NEW r \in rows \cap D, NEW s \in rows, r # s,
             KeyOf(i, NewView(r, S)) # NoKey, KeyOf(i, NewView(r, S)) = KeyOf(i, NewView(s, S))
      PROVE  FALSE
  <2>1. PICK j \in DOMAIN statement[t].rows :
           statement[t].rows[j] = r /\ KeyOf(i, NewBase(r)) = NewKey(t, i, j)
    BY <1>2, <1>5 DEF GetsKeys
  <2>2. r \notin Excepted /\ s \notin Excepted /\ Entering(t, i) /\ NewKey(t, i, j) # NoKey
        /\ KeyOf(i, NewView(s, S)) = NewKey(t, i, j)
    BY <1>2, <1>5, <2>1 DEF GetsKeys
  <2>3. CASE s \in D
    <3>1. PICK k \in DOMAIN statement[t].rows :
             statement[t].rows[k] = s /\ KeyOf(i, NewBase(s)) = NewKey(t, i, k)
      BY <1>2, <1>5, <2>2, <2>3 DEF GetsKeys
    <3>2. j # k /\ NewKey(t, i, j) = NewKey(t, i, k)
      BY <1>2, <1>5, <2>1, <2>2, <2>3, <3>1
    <3>3. KeyDiffers(t, t, i, j, k)
      BY <2>2, <3>2 DEF KeysDiffer
    <3> QED
      BY <2>1, <2>2, <3>1, <3>2, <3>3 DEF KeyDiffers
  <2>4. CASE s \notin D
    <3>1. KeyFree(t, i, j)
      BY <2>1, <2>2 DEF KeysFree
    <3>2. s \in 1..count /\ s \notin Range(statement[t].rows)
      <4>1. s \in 1..count' /\ s <= count /\ count \in Nat /\ count' \in Nat
        BY <1>2, <2>4, CountedRows DEF WritesRows
      <4>2. s \in 1..count
        BY <4>1
      <4> QED
        BY <1>5, <2>4, <4>2 DEF GetsKeys
    <3>3. KeyOf(i, View(s, S)) = NewKey(t, i, j)
      BY <1>3, <2>2, <2>4
    <3> QED
      BY <2>2, <3>1, <3>2, <3>3 DEF KeyFree
  <2> QED
    BY <2>3, <2>4
<1> SUFFICES ASSUME NEW i \in Index, NEW r \in rows, NEW s \in rows, r # s,
                    KeyOf(i, NewView(r, S)) # NoKey, KeyOf(i, NewView(r, S)) = KeyOf(i, NewView(s, S))
             PROVE  FALSE
  BY DEF NewApart
<1>6. GetsKeys(t, i, D) \/ KeepsKeys(i, D)
  BY DEF WritesRows
<1>7. CASE r \notin D /\ s \notin D
  <2>1. r \in old /\ s \in old
    BY <1>2, <1>7
  <2> QED
    BY <1>3, <1>7, <2>1 DEF Apart
<1>8. CASE r \in D
  BY <1>4, <1>5, <1>6, <1>8
<1>9. CASE s \in D
  BY <1>4, <1>5, <1>6, <1>9
<1> QED
  BY <1>7, <1>8, <1>9

\* For a reader who does not.
LEMMA UnseenApart ==
  ASSUME TypeInv, NEW t \in Tx, NEW D, WritesRows(t, D), NEW S, t \notin S, NEW rows, NEW old,
         rows \subseteq 1..count' \ Excepted', \A r \in rows : r <= count => r \in old, Apart(old, S)
  PROVE  NewApart(rows, S)
<1>1. \A r \in rows : NewView(r, S) = IF r <= count THEN View(r, S) ELSE Nowhere
  <2> SUFFICES ASSUME NEW r \in rows
               PROVE  NewView(r, S) = IF r <= count THEN View(r, S) ELSE Nowhere
    OBVIOUS
  <2>1. CASE r \in D
    BY <2>1 DEF WritesRows
  <2>2. CASE r \notin D
    <3>1. r \in Row /\ r <= count
      BY <2>2 DEF WritesRows
    <3> QED
      BY <2>2, <3>1, RowKept
  <2> QED
    BY <2>1, <2>2
<1> SUFFICES ASSUME NEW i \in Index, NEW r \in rows, NEW s \in rows, r # s,
                    KeyOf(i, NewView(r, S)) # NoKey, KeyOf(i, NewView(r, S)) = KeyOf(i, NewView(s, S))
             PROVE  FALSE
  BY DEF NewApart
<1>2. KeyOf(i, Nowhere) = NoKey
  BY NowhereHasNoKey
<1>3. r \in old /\ s \in old /\ NewView(r, S) = View(r, S) /\ NewView(s, S) = View(s, S)
  BY <1>1, <1>2
<1> QED
  BY <1>3 DEF Apart

LEMMA WritesKeys ==
  ASSUME KInv, fault = Alive, NEW t \in Tx, phase[t] = "writing", NEW D, WritesRows(t, D),
         Excepted \subseteq Excepted', UNCHANGED <<clock, start_time, commit_id>>,
         phase'[t] \in {"ready", "failed"},
         \A u \in Tx : u # t => /\ phase'[u] = phase[u] /\ statement'[u] = statement[u]
                                /\ current_index'[u] = current_index[u],
         \A u \in Tx : u # t /\ Updating(u) => \A j \in DOMAIN statement[u].rows : statement[u].rows[j] \notin D
  PROVE  KeysInv'
<1>0. /\ TypeInv /\ StatementsOK
      /\ CommitsApart /\ SnapshotsApart /\ KeysFree /\ KeysDiffer /\ ChainsOrdered /\ ClockAhead
  BY DEF KInv, KeysInv, IInv
<1>1. /\ count \in Nat /\ count' \in Nat /\ 1..count \subseteq 1..count' /\ 1..count' \subseteq Row
      /\ D \subseteq 1..count' /\ \A s \in 1..count' \ D : s <= count
  BY <1>0, CountedRows DEF WritesRows
<1>2. /\ Settled' = Settled /\ t \notin Settled /\ Running' = Running
      /\ \A u \in Tx : SeenBy(u)' = SeenBy(u) /\ Readers(u)' = Readers(u) /\ (u # t => t \notin SeenBy(u))
  <2>1. commit_id[t] = 0
    BY <1>0 DEF StatementsOK, StatementOK
  <2>2. Settled' = Settled /\ t \notin Settled
    BY <2>1 DEF Settled
  <2>3. \A u \in Tx : SeenBy(u)' = SeenBy(u) /\ (u # t => t \notin SeenBy(u))
    BY <2>1 DEF SeenBy
  <2>4. Running' = Running
    BY DEF Running
  <2> QED
    BY <2>2, <2>3, <2>4 DEF Readers
<1>3. \A r \in D : r <= count => r \in Row /\ ~InConflict(t, r)
  BY <1>1 DEF WritesRows
<1>4. \A T : t \in T => \A r \in D : r <= count => View(r, Settled \cup T) = Base(r)
  <2> SUFFICES ASSUME NEW T, t \in T, NEW r \in D, r <= count
               PROVE  View(r, Settled \cup T) = Base(r)
    OBVIOUS
  <2> DEFINE S == Settled \cup T
  <2>1. t \in S /\ Settled \subseteq S
    OBVIOUS
  <2> HIDE DEF S
  <2>2. View(r, S) = Base(r)
    BY <1>0, <1>3, <2>1, FrontSeen
  <2> QED
    BY <2>2 DEF S
<1>5. CommitsApart'
  <2>1. ASSUME NEW T \in SUBSET Running'
        PROVE  NewApart(1..count' \ Excepted', Settled' \cup T)
    <3> DEFINE S == Settled \cup T
               rows == 1..count' \ Excepted'
               old == 1..count \ Excepted
    <3>0. T \in SUBSET Running
      BY <1>2
    <3>1. Apart(old, S)
      BY <1>0, <3>0 DEF CommitsApart
    <3>2. rows \subseteq 1..count' \ Excepted' /\ \A r \in rows : r <= count => r \in old
      BY <1>1
    <3>3. CASE t \in T
      <4>1. S \in Readers(t)
        BY <3>0, <3>3 DEF Readers
      <4>2. \A r \in rows \cap D : r <= count => View(r, S) = Base(r)
        BY <1>4, <3>3
      <4> HIDE DEF S, rows, old
      <4>3. NewApart(rows, S)
        BY <1>0, <3>1, <3>2, <4>1, <4>2, WrittenApart
      <4> QED
        BY <1>2, <4>3 DEF rows, S
    <3>4. CASE t \notin T
      <4>1. t \notin S
        BY <1>2, <3>4
      <4> HIDE DEF S, rows, old
      <4>2. NewApart(rows, S)
        BY <1>0, <3>1, <3>2, <4>1, UnseenApart
      <4> QED
        BY <1>2, <4>2 DEF rows, S
    <3> QED
      BY <3>3, <3>4
  <2> QED
    BY <2>1, ApartNext
<1>6. SnapshotsApart'
  <2>1. ASSUME NEW u \in Active'
        PROVE  NewApart(1..count' \ (Excepted' \cup Overtaken(u)'), SeenBy(u)')
    <3> DEFINE S == SeenBy(u)
               rows == 1..count' \ (Excepted' \cup Overtaken(u)')
               old == 1..count \ (Excepted \cup Overtaken(u))
    <3>1. u \in Tx /\ u \in Active /\ SeenBy(u)' = S
      BY <1>2 DEF Active
    <3>2. Apart(old, S)
      BY <1>0, <3>1 DEF SnapshotsApart
    <3>3. \A r \in 1..count' : r \in Overtaken(u)' <=>
             /\ chain'[r] # << >> /\ chain'[r][1].by = u
             /\ \E v \in Range(chain'[r]) : ~Sees(u, v)
      BY DEF Overtaken, Sees, Uncommitted, Number
    <3>4. ASSUME NEW r \in Overtaken(u), r \notin D
          PROVE  r \in Overtaken(u)'
      <4>1. r \in 1..count /\ r \in 1..count' /\ r \in Row
        BY <1>0, <1>1, OvertakenFacts, <3>1
      <4>2. chain'[r] = chain[r]
        BY <3>4, <4>1 DEF WritesRows
      <4> QED
        BY <3>3, <4>1, <4>2 DEF Overtaken
    <3>5. CASE u = t
      <4>1. S \in Readers(t)
        BY <3>5 DEF Readers
      <4>2. ASSUME NEW r \in rows \cap D, r <= count
            PROVE  (\A k \in DOMAIN chain[r] : chain[r][k].by \in S) /\ r \notin Overtaken(u)
        <5>1. r \in Row /\ r \in 1..count /\ r \in 1..count' /\ r \notin Overtaken(u)'
          BY <1>1, <4>2
        <5>2. /\ chain'[r] # << >> /\ chain'[r][1].by = t
              /\ \A k \in DOMAIN chain[r] : \E m \in DOMAIN chain'[r] : chain'[r][m].by = chain[r][k].by
          BY <4>2 DEF WritesRows
        <5>3. \A v \in Range(chain'[r]) : Sees(u, v)
          BY <3>3, <3>5, <5>1, <5>2
        <5>4. \A k \in DOMAIN chain[r] : chain[r][k].by \in S
          <6> SUFFICES ASSUME NEW k \in DOMAIN chain[r]
                       PROVE  chain[r][k].by \in S
            OBVIOUS
          <6>1. PICK m \in DOMAIN chain'[r] : chain'[r][m].by = chain[r][k].by
            BY <5>2
          <6>2. Sees(u, chain'[r][m]) /\ chain'[r][m].by \in Tx
            BY <1>0, <5>1, <5>3, <6>1, RowFacts DEF Range
          <6> QED
            BY <3>1, <6>1, <6>2, SeenVersions
        <5>5. r \notin Overtaken(u)
          BY <1>0, <3>1, <5>1, <5>4, OvertakenFacts
        <5> QED
          BY <5>4, <5>5
      <4>3. \A r \in rows \cap D : r <= count => View(r, S) = Base(r)
        <5> SUFFICES ASSUME NEW r \in rows \cap D, r <= count
                     PROVE  View(r, S) = Base(r)
          OBVIOUS
        <5>1. chain[r] \in Seq(Version) /\ (chain[r] # << >> => 1 \in DOMAIN chain[r])
          BY <1>0, <1>3, ChainFacts
        <5>2. chain[r] = << >> \/ chain[r][1].by \in S
          BY <4>2, <5>1
        <5> HIDE DEF S, rows
        <5> QED
          BY <5>1, <5>2, AlongFront DEF View
      <4>4. rows \subseteq 1..count' \ Excepted' /\ \A r \in rows : r <= count => r \in old
        <5>1. \A r \in rows : r <= count => r \notin Overtaken(u)
          BY <3>4, <4>2
        <5> QED
          BY <1>1, <5>1
      <4> HIDE DEF S, rows, old
      <4>5. NewApart(rows, S)
        BY <1>0, <3>2, <4>1, <4>3, <4>4, WrittenApart
      <4> QED
        BY <3>1, <4>5 DEF rows
    <3>6. CASE u # t
      <4>1. t \notin S
        BY <1>2, <3>1, <3>6
      <4>2. ASSUME NEW r \in D, r \in Overtaken(u)
            PROVE  FALSE
        <5>1. r \in 1..count /\ r <= count /\ chain[r] # << >> /\ chain[r][1].by = u
          BY <1>0, <1>1, <3>1, <4>2, OvertakenFacts
        <5>2. commit_id[u] = 0
          BY <1>0, <3>1 DEF Active, StatementsOK, StatementOK
        <5> QED
          BY <1>3, <3>6, <5>1, <5>2 DEF InConflict, Uncommitted, Number
      <4>3. rows \subseteq 1..count' \ Excepted' /\ \A r \in rows : r <= count => r \in old
        <5>1. \A r \in rows : r <= count => r \notin Overtaken(u)
          BY <3>4, <4>2
        <5> QED
          BY <1>1, <5>1
      <4> HIDE DEF S, rows, old
      <4>4. NewApart(rows, S)
        BY <1>0, <3>2, <4>1, <4>3, UnseenApart
      <4> QED
        BY <3>1, <4>4 DEF rows
    <3> QED
      BY <3>5, <3>6
  <2> QED
    BY <2>1, ApartNext
<1>7. \A u \in Tx, i \in Index : Entering(u, i)' => u # t /\ Entering(u, i) /\ statement'[u] = statement[u]
  <2> SUFFICES ASSUME NEW u \in Tx, NEW i \in Index, Entering(u, i)'
               PROVE  u # t /\ Entering(u, i) /\ statement'[u] = statement[u]
    OBVIOUS
  <2>1. u # t
    BY DEF Entering
  <2> QED
    BY <2>1, EnteringKept
<1>8. ASSUME NEW u \in Tx, NEW i \in Index, Entering(u, i), u # t, NEW j \in DOMAIN statement[u].rows
      PROVE  NewKey(u, i, j)' = NewKey(u, i, j)
  <2>1. CASE statement[u].kind = "insert"
    BY <1>8, <2>1 DEF NewKey, Written, Filled
  <2>2. CASE statement[u].kind # "insert"
    <3>1. statement[u].rows[j] \notin D
      BY <1>8, <2>2 DEF Entering, Updating
    <3>2. statement[u].rows[j] \in Row
      BY <1>0 DEF TypeInv, Statement
    <3>3. data'[statement[u].rows[j]] = data[statement[u].rows[j]]
      BY <3>1, <3>2 DEF WritesRows
    <3> QED
      BY <1>8, <3>3 DEF NewKey, Written, Filled
  <2> QED
    BY <2>1, <2>2
<1>9. ASSUME NEW u \in Tx, u # t, NEW i \in Index, Entering(u, i),
             NEW j \in DOMAIN statement[u].rows, statement[u].rows[j] \notin Excepted, NewKey(u, i, j) # NoKey,
             NEW S \in Readers(u), NEW s \in 1..count' \ (Excepted' \cup Range(statement[u].rows))
      PROVE  KeyOf(i, NewView(s, S)) # NewKey(u, i, j)
  <2>1. KeyFree(u, i, j)
    BY <1>0, <1>9 DEF KeysFree
  <2>2. ASSUME s <= count
        PROVE  KeyOf(i, View(s, S)) # NewKey(u, i, j)
    <3>1. s \in 1..count \ (Excepted \cup Range(statement[u].rows))
      BY <1>1, <1>9, <2>2
    <3> QED
      BY <2>1, <3>1 DEF KeyFree
  <2>3. CASE s \notin D
    <3>1. s <= count /\ NewView(s, S) = View(s, S)
      BY <1>1, <2>3, RowKept
    <3> QED
      BY <2>2, <3>1
  <2>4. CASE s \in D /\ t \notin S
    <3>1. NewView(s, S) = IF s <= count THEN View(s, S) ELSE Nowhere
      BY <2>4 DEF WritesRows
    <3>2. KeyOf(i, Nowhere) = NoKey
      BY NowhereHasNoKey
    <3> QED
      BY <1>9, <2>2, <3>1, <3>2
  <2>5. CASE s \in D /\ t \in S
    <3>1. NewView(s, S) = NewBase(s) /\ (GetsKeys(t, i, D) \/ KeepsKeys(i, D))
      BY <2>5 DEF WritesRows
    <3>2. PICK T \in SUBSET Running : S = Settled \cup T /\ t \in T
      BY <1>2, <1>9, <2>5 DEF Readers
    <3>3. CASE KeepsKeys(i, D)
      <4>1. KeyOf(i, NewBase(s)) # NoKey => s <= count /\ KeyOf(i, NewBase(s)) = KeyOf(i, Base(s))
        BY <2>5, <3>3 DEF KeepsKeys
      <4>2. s <= count => View(s, S) = Base(s)
        BY <1>4, <2>5, <3>2
      <4> QED
        BY <1>9, <2>2, <3>1, <4>1, <4>2
    <3>4. CASE GetsKeys(t, i, D)
      <4>1. Entering(t, i)
        BY <3>4 DEF GetsKeys
      <4>2. KeyOf(i, NewBase(s)) # NoKey =>
               \E k \in DOMAIN statement[t].rows :
                  statement[t].rows[k] = s /\ KeyOf(i, NewBase(s)) = NewKey(t, i, k)
        BY <2>5, <3>4 DEF GetsKeys
      <4>3. \A k \in DOMAIN statement[t].rows : KeyDiffers(t, u, i, k, j)
        BY <1>0, <1>9, <4>1 DEF KeysDiffer
      <4> QED
        BY <1>9, <3>1, <4>2, <4>3 DEF KeyDiffers
    <3> QED
      BY <3>1, <3>3, <3>4
  <2> QED
    BY <2>3, <2>4, <2>5
<1>10. KeysFree'
  <2> SUFFICES ASSUME fault' = Alive, NEW u \in Tx, NEW i \in Index, Entering(u, i)',
                      NEW j \in DOMAIN statement'[u].rows, statement'[u].rows[j] \notin Excepted',
                      NewKey(u, i, j)' # NoKey
               PROVE  KeyFree(u, i, j)'
    BY DEF KeysFree
  <2>1. u # t /\ Entering(u, i) /\ statement'[u] = statement[u] /\ NewKey(u, i, j)' = NewKey(u, i, j)
    BY <1>7, <1>8
  <2> SUFFICES ASSUME NEW s \in 1..count' \ (Excepted' \cup Range(statement[u].rows)), NEW S \in Readers(u)
               PROVE  KeyOf(i, NewView(s, S)) # NewKey(u, i, j)
    BY <1>2, <2>1, ViewNext DEF KeyFree
  <2> QED
    BY <1>9, <2>1
<1>11. KeysDiffer'
  <2> SUFFICES ASSUME fault' = Alive, NEW u \in Tx, NEW w \in Tx, NEW i \in Index,
                      Entering(u, i)', Entering(w, i)',
                      NEW j \in DOMAIN statement'[u].rows, NEW k \in DOMAIN statement'[w].rows,
                      u # w \/ j # k
               PROVE  KeyDiffers(u, w, i, j, k)'
    BY DEF KeysDiffer
  <2>1. /\ Entering(u, i) /\ statement'[u] = statement[u] /\ NewKey(u, i, j)' = NewKey(u, i, j)
        /\ Entering(w, i) /\ statement'[w] = statement[w] /\ NewKey(w, i, k)' = NewKey(w, i, k)
    BY <1>7, <1>8
  <2>2. KeyDiffers(u, w, i, j, k)
    BY <1>0, <2>1 DEF KeysDiffer
  <2> QED
    BY <2>1, <2>2 DEF KeyDiffers
<1>12. ChainsOrdered'
  <2> SUFFICES ASSUME NEW r \in Row
               PROVE  \A a, b \in DOMAIN chain'[r] :
                         a < b => chain'[r][a].by = chain'[r][b].by \/ chain'[r][b].by \in Settled
    BY <1>2 DEF ChainsOrdered
  <2>1. CASE r \in D
    BY <2>1 DEF WritesRows
  <2>2. CASE r \notin D
    <3>1. chain'[r] = chain[r]
      BY <2>2 DEF WritesRows
    <3> QED
      BY <1>0, <3>1 DEF ChainsOrdered
  <2> QED
    BY <2>1, <2>2
<1>13. ClockAhead'
  BY <1>0 DEF ClockAhead
<1> QED
  BY <1>5, <1>6, <1>10, <1>11, <1>12, <1>13 DEF KeysInv

\* A chain with one version more.
PushedChain(ws, vs, base, new, t, settled) ==
    /\ ws # << >> /\ ws[1].by = t
    /\ \A S : t \in S => Along(ws, new, S) = new
    /\ \A S : t \notin S => Along(ws, new, S) = Along(vs, base, S)
    /\ \A k \in DOMAIN vs : \E m \in DOMAIN ws : ws[m].by = vs[k].by
    /\ \A a, b \in DOMAIN ws : a < b => ws[a].by = ws[b].by \/ ws[b].by \in settled

LEMMA PushedOnChain ==
  ASSUME NEW vs \in Seq(Version), NEW v \in Version, NEW base, NEW new, v.saved = base, NEW settled,
         vs # << >> => vs[1].by = v.by \/ vs[1].by \in settled,
         \A a, b \in DOMAIN vs : a < b => vs[a].by = vs[b].by \/ vs[b].by \in settled
  PROVE  PushedChain(<<v>> \o vs, vs, base, new, v.by, settled)
<1> DEFINE ws == <<v>> \o vs
<1> HIDE DEF Version
<1>1. /\ ws \in Seq(Version) /\ Len(ws) = Len(vs) + 1 /\ Len(vs) \in Nat /\ ws[1] = v /\ ws # << >>
      /\ DOMAIN vs = 1..Len(vs) /\ DOMAIN ws = 1..Len(vs) + 1
      /\ \A k \in 1..Len(vs) : ws[k + 1] = vs[k]
  OBVIOUS
<1>2. \A S : v.by \notin S => Along(ws, new, S) = Along(vs, base, S)
  BY AlongPushed
<1> HIDE DEF ws
<1>3. ASSUME NEW S, v.by \in S
      PROVE  Along(ws, new, S) = new
  BY <1>1, <1>3, AlongFront
<1>4. \A k \in DOMAIN vs : \E m \in DOMAIN ws : ws[m].by = vs[k].by
  <2> SUFFICES ASSUME NEW k \in DOMAIN vs
               PROVE  k + 1 \in DOMAIN ws /\ ws[k + 1].by = vs[k].by
    OBVIOUS
  <2> QED
    BY <1>1
<1>5. ASSUME NEW a \in DOMAIN ws, NEW b \in DOMAIN ws, a < b
      PROVE  ws[a].by = ws[b].by \/ ws[b].by \in settled
  <2>1. b - 1 \in DOMAIN vs /\ ws[b] = vs[b - 1] /\ vs # << >> /\ 1 \in DOMAIN vs
    <3>1. b - 1 \in 1..Len(vs) /\ (b - 1) + 1 = b /\ 1 \in 1..Len(vs)
      BY <1>1, <1>5
    <3>2. vs # << >>
      BY <1>1, <3>1
    <3> QED
      BY <1>1, <3>1, <3>2
  <2>2. CASE a = 1
    <3>1. b - 1 = 1 \/ 1 < b - 1
      BY <1>1, <2>1
    <3> QED
      BY <1>1, <2>1, <2>2, <3>1
  <2>3. CASE a # 1
    <3>1. a - 1 \in 1..Len(vs) /\ (a - 1) + 1 = a /\ a - 1 < b - 1
      BY <1>1, <1>5, <2>3
    <3> QED
      BY <1>1, <2>1, <3>1
  <2> QED
    BY <2>2, <2>3
<1> QED
  BY <1>1, <1>2, <1>3, <1>4, <1>5 DEF PushedChain, ws

LEMMA PushedRow ==
  ASSUME NEW t \in Tx, NEW r, NEW vs, NEW base, PushedChain(chain'[r], vs, base, NewBase(r), t, Settled)
  PROVE  /\ \A S : t \in S => NewView(r, S) = NewBase(r)
         /\ \A S : t \notin S => NewView(r, S) = Along(vs, base, S)
         /\ chain'[r] # << >> /\ chain'[r][1].by = t
         /\ \A k \in DOMAIN vs : \E m \in DOMAIN chain'[r] : chain'[r][m].by = vs[k].by
         /\ \A a, b \in DOMAIN chain'[r] :
               a < b => chain'[r][a].by = chain'[r][b].by \/ chain'[r][b].by \in Settled
BY DEF PushedChain, NewView, NewBase

LEMMA WriteFoundKeys ==
  ASSUME KInv, fault = Alive, NEW t \in Tx, phase[t] = "writing", WriteFound(t),
         UNCHANGED <<clock, start_time, commit_id, issued, index, read_count, fault, unlocked, dirty,
                     torn, earlier>>
  PROVE  KeysInv'
<1> DEFINE s == statement[t]
           bad == {j \in DOMAIN s.rows : InConflict(t, s.rows[j])}
           done == {s.rows[j] : j \in {j \in DOMAIN s.rows : \A b \in bad : j < b}}
           at(r) == CHOOSE j \in DOMAIN s.rows : s.rows[j] = r
           version(r) == [by |-> t, saved |-> data[r]]
<1>0. TypeInv /\ StatementsOK /\ ChainsOrdered
  BY DEF KInv, KeysInv, IInv
<1>1. /\ s.kind \in {"update", "delete"}
      /\ chain' = [r \in Row |-> IF r \in done THEN <<version(r)>> \o chain[r] ELSE chain[r]]
      /\ deleted' = [r \in Row |-> deleted[r] \/ (s.kind = "delete" /\ r \in done)]
      /\ data' = [r \in Row |-> IF s.kind = "update" /\ bad = {} /\ r \in done
                                THEN Written(t, at(r)) ELSE data[r]]
      /\ clobbered' = clobbered \cup {r \in done : deleted[r]}
      /\ bad = {} => ToReady(t)
      /\ bad # {} => Goto(t, "failed") /\ UNCHANGED <<statement, current_index>>
      /\ UNCHANGED count
  BY DEF WriteFound, Push
<1>2. /\ StatementOK(t) /\ FoundRows(t) /\ s.rows \in Seq(Row) /\ count \in Nat /\ 1..count \subseteq Row
  BY <1>0, <1>1, CountedRows DEF StatementsOK, StatementOK, TypeInv, Statement
<1>3. ASSUME NEW r \in done
      PROVE  /\ r \in Row /\ r \in 1..count /\ ChunkOf(r) = ChunkFor(t) /\ ~InConflict(t, r)
             /\ at(r) \in DOMAIN s.rows /\ s.rows[at(r)] = r
  <2>1. PICK j \in DOMAIN s.rows : r = s.rows[j] /\ \A b \in bad : j < b
    OBVIOUS
  <2>2. r \in Row /\ r <= count /\ ChunkOf(r) = ChunkOf(s.rows[1])
    BY <1>2, <2>1 DEF FoundRows
  <2>3. r \in 1..count
    BY <1>2, <2>2, SizeAssumption DEF Row
  <2>4. at(r) \in DOMAIN s.rows /\ s.rows[at(r)] = r
    BY <2>1
  <2>5. ~InConflict(t, r)
    <3>1. j \notin bad
      <4>1. j \in Int /\ ~(j < j)
        BY <1>2
      <4> HIDE DEF bad
      <4> QED
        BY <2>1, <4>1
    <3> QED
      BY <2>1, <3>1
  <2>6. ChunkFor(t) = ChunkOf(s.rows[1])
    BY <1>1 DEF ChunkFor
  <2> QED
    BY <2>2, <2>3, <2>4, <2>5, <2>6
<1>4. bad = {} => done = Range(s.rows)
  BY DEF Range
<1> HIDE DEF done, at, bad
<1>5. Excepted \subseteq Excepted' /\ \A r \in done : r \notin Excepted' => deleted[r] = FALSE
  <2>1. \A r \in done : deleted[r] \in BOOLEAN
    BY <1>0, <1>3 DEF TypeInv
  <2> QED
    BY <1>1, <2>1 DEF Excepted
<1>6. ASSUME NEW r \in done
      PROVE  PushedChain(chain'[r], chain[r], data[r], NewBase(r), t, Settled)
  <2>1. r \in Row /\ chain'[r] = <<version(r)>> \o chain[r]
    BY <1>1, <1>3, <1>6
  <2>2. chain[r] \in Seq(Version) /\ (chain[r] # << >> => chain[r][1].by \in Tx)
    BY <1>0, <2>1, ChainFacts
  <2>3. version(r) \in Version /\ version(r).saved = data[r] /\ version(r).by = t
    BY <1>0, <2>1 DEF TypeInv, Version
  <2>4. chain[r] # << >> => chain[r][1].by = t \/ chain[r][1].by \in Settled
    BY <1>3, <1>6, <2>2 DEF InConflict, Uncommitted, Number, Settled
  <2>5. \A a, b \in DOMAIN chain[r] : a < b => chain[r][a].by = chain[r][b].by \/ chain[r][b].by \in Settled
    BY <1>0, <2>1 DEF ChainsOrdered
  <2> DEFINE v == version(r)
             vs == chain[r]
  <2>6. /\ v \in Version /\ v.saved = data[r] /\ v.by = t /\ vs \in Seq(Version)
        /\ vs # << >> => vs[1].by = v.by \/ vs[1].by \in Settled
        /\ \A a, b \in DOMAIN vs : a < b => vs[a].by = vs[b].by \/ vs[b].by \in Settled
    BY <2>2, <2>3, <2>4, <2>5
  <2>7. chain'[r] = <<v>> \o vs
    BY <2>1
  <2> HIDE DEF v, vs
  <2>8. PushedChain(<<v>> \o vs, vs, data[r], NewBase(r), t, Settled)
    BY <2>6, PushedOnChain
  <2> QED
    BY <2>7, <2>8 DEF vs
<1>7. ASSUME NEW r \in Row \ done
      PROVE  chain'[r] = chain[r] /\ data'[r] = data[r] /\ deleted'[r] = deleted[r]
  <2>1. deleted[r] \in BOOLEAN
    BY <1>0 DEF TypeInv
  <2> QED
    BY <1>1, <1>7, <2>1
<1>8. ASSUME NEW i \in Index
      PROVE  GetsKeys(t, i, done) \/ KeepsKeys(i, done)
  <2>1. KeyOf(i, Nowhere) = NoKey
    BY NowhereHasNoKey
  <2>2. CASE s.kind = "delete"
    <3>1. \A r \in done : deleted'[r]
      BY <1>1, <1>3, <2>2
    <3> QED
      BY <2>1, <3>1 DEF KeepsKeys, NewBase
  <2>3. ASSUME s.kind = "update", NEW r \in done
        PROVE  deleted'[r] = deleted[r] /\ r \in Row /\ deleted[r] \in BOOLEAN
    BY <1>0, <1>1, <1>3, <2>3 DEF TypeInv
  <2>4. CASE s.kind = "update" /\ bad # {}
    <3>1. \A r \in done : data'[r] = data[r]
      BY <1>1, <2>3, <2>4
    <3>2. \A r \in done : NewBase(r) = Base(r) /\ r <= count
      BY <1>3, <2>3, <2>4, <3>1 DEF NewBase, Base
    <3> QED
      BY <3>2 DEF KeepsKeys
  <2>5. CASE s.kind = "update" /\ bad = {} /\ Affected(t, i)
    <3>1. Entering(t, i)
      <4>1. current_index[t] = Len(Keys) + 1
        BY <1>2, <2>5 DEF StatementOK
      <4>2. i < current_index[t]
        BY <4>1, IndexFacts
      <4> QED
        BY <2>5, <4>2 DEF Entering
    <3>2. \A r \in done : data'[r] = Written(t, at(r))
      BY <1>1, <2>3, <2>5
    <3>3. ASSUME NEW r \in done, KeyOf(i, NewBase(r)) # NoKey
          PROVE  s.rows[at(r)] = r /\ at(r) \in DOMAIN s.rows /\ KeyOf(i, NewBase(r)) = NewKey(t, i, at(r))
      <4>1. NewBase(r) = Written(t, at(r))
        BY <2>1, <3>2, <3>3 DEF NewBase
      <4> QED
        BY <1>3, <4>1 DEF NewKey
    <3> QED
      BY <1>4, <2>5, <3>1, <3>3 DEF GetsKeys
  <2>6. CASE s.kind = "update" /\ bad = {} /\ ~Affected(t, i)
    <3> SUFFICES ASSUME NEW r \in done, KeyOf(i, NewBase(r)) # NoKey
                 PROVE  r <= count /\ KeyOf(i, NewBase(r)) = KeyOf(i, Base(r))
      BY DEF KeepsKeys
    <3>1. data'[r] = Written(t, at(r)) /\ deleted'[r] = deleted[r] /\ r <= count /\ r \in Row
      <4>1. r \in 1..count
        BY <1>3
      <4>2. r \in Row /\ r <= count
        BY <1>2, <4>1
      <4>3. deleted'[r] = deleted[r]
        BY <2>3, <2>6
      <4>4. data'[r] = Written(t, at(r))
        BY <1>1, <2>6, <4>2
      <4> QED
        BY <4>2, <4>3, <4>4
    <3>2. ~deleted[r] /\ NewBase(r) = Written(t, at(r)) /\ Base(r) = data[r]
      BY <2>1, <2>3, <2>6, <3>1 DEF NewBase, Base
    <3>3. at(r) \in DOMAIN s.rows /\ s.rows[at(r)] = r
      BY <1>3
    <3>4. Written(t, at(r)) \in Values /\ at(r) \in DOMAIN s.keys
      BY <1>0, <1>2, <2>6, <3>3, WrittenType
    <3>5. \A c \in Range(Keys[i]) : s.keys[at(r)][c] = Keep
      <4>1. s.keys[at(r)] = s.keys[1]
        BY <1>2, <2>6, <3>4 DEF StatementOK
      <4> QED
        BY <2>6, <4>1 DEF Affected
    <3>6. ASSUME NEW c \in Range(Keys[i])
          PROVE  Written(t, at(r))[c] = data[r][c]
      <4>1. c \in Column
        BY IndexFacts DEF Column
      <4> QED
        BY <2>6, <3>3, <3>5, <4>1 DEF Written, Filled
    <3>7. KeyOf(i, Written(t, at(r))) = KeyOf(i, data[r])
      BY <3>6, KeyOfColumns
    <3> QED
      BY <3>1, <3>2, <3>7
  <2> QED
    BY <1>1, <2>2, <2>4, <2>5, <2>6
<1>9. WritesRows(t, done)
  <2>1. /\ done \subseteq 1..count' /\ count' \in Nat /\ \A r \in 1..count' \ done : r <= count
        /\ 1..count \subseteq 1..count' /\ 1..count' \subseteq Row
    BY <1>1, <1>2, <1>3
  <2>2. ASSUME NEW r \in done
        PROVE  /\ \A S : /\ t \in S => NewView(r, S) = NewBase(r)
                         /\ t \notin S /\ r \notin Excepted' =>
                               NewView(r, S) = IF r <= count THEN View(r, S) ELSE Nowhere
               /\ chain'[r] # << >> /\ chain'[r][1].by = t
               /\ r <= count => /\ ~InConflict(t, r)
                                /\ \A k \in DOMAIN chain[r] :
                                      \E m \in DOMAIN chain'[r] : chain'[r][m].by = chain[r][k].by
               /\ \A a, b \in DOMAIN chain'[r] :
                     a < b => chain'[r][a].by = chain'[r][b].by \/ chain'[r][b].by \in Settled
    <3>1. PushedChain(chain'[r], chain[r], data[r], NewBase(r), t, Settled)
      BY <1>6
    <3>2. /\ \A S : t \in S => NewView(r, S) = NewBase(r)
          /\ \A S : t \notin S => NewView(r, S) = Along(chain[r], data[r], S)
          /\ chain'[r] # << >> /\ chain'[r][1].by = t
          /\ \A k \in DOMAIN chain[r] : \E m \in DOMAIN chain'[r] : chain'[r][m].by = chain[r][k].by
          /\ \A a, b \in DOMAIN chain'[r] :
               a < b => chain'[r][a].by = chain'[r][b].by \/ chain'[r][b].by \in Settled
      BY <3>1, PushedRow
    <3>3. r \notin Excepted' => \A S : View(r, S) = Along(chain[r], data[r], S)
      BY <1>5, <2>2 DEF View, Base
    <3>4. r <= count /\ ~InConflict(t, r)
      BY <1>2, <1>3, <2>2
    <3> QED
      BY <3>2, <3>3, <3>4
  <2> QED
    BY <1>7, <1>8, <2>1, <2>2 DEF WritesRows
<1>10. /\ phase'[t] \in {"ready", "failed"}
       /\ \A u \in Tx : u # t => /\ phase'[u] = phase[u] /\ statement'[u] = statement[u]
                                 /\ current_index'[u] = current_index[u]
  BY <1>0, <1>1 DEF ToReady, Goto, TypeInv
<1>11. ASSUME NEW u \in Tx, u # t, Updating(u), NEW j \in DOMAIN statement[u].rows
       PROVE  statement[u].rows[j] \notin done
  <2>1. StatementOK(u) /\ statement[u].kind = "update" /\ phase[u] \in {"indexing", "writing"}
    BY <1>0, <1>11 DEF StatementsOK, Updating
  <2>2. ChunkOf(statement[u].rows[j]) = ChunkFor(u)
    BY <2>1 DEF StatementOK, FoundRows, ChunkFor
  <2>3. ChunkFor(t) # ChunkFor(u)
    BY <1>0, <1>11, <2>1, LockedApart
  <2> QED
    BY <1>3, <2>2, <2>3
<1> HIDE DEF version
<1> QED
  BY <1>5, <1>9, <1>10, <1>11, WritesKeys

LEMMA WriteInsertedKeys ==
  ASSUME KInv, fault = Alive, NEW t \in Tx, phase[t] = "writing", WriteInserted(t),
         UNCHANGED <<clock, start_time, commit_id, issued, index, read_count, fault, unlocked, dirty,
                     torn, earlier>>
  PROVE  KeysInv'
<1> DEFINE s == statement[t]
           new == Range(s.rows)
           N == Len(s.keys)
           v == [by |-> t, saved |-> Nowhere]
<1>0. TypeInv /\ StatementsOK
  BY DEF KInv, IInv
<1>1. /\ s.kind = "insert"
      /\ count' = count + Len(s.rows)
      /\ data' = [r \in Row |-> IF r \in new THEN Written(t, r - count) ELSE data[r]]
      /\ chain' = [r \in Row |-> IF r \in new THEN <<v>> ELSE chain[r]]
      /\ ToReady(t)
      /\ UNCHANGED <<deleted, clobbered>>
  BY DEF WriteInserted
<1>2. /\ StatementOK(t) /\ NewRows(t) /\ s.keys \in Seq(Values)
      /\ current_index[t] = Len(Keys) + 1
  BY <1>0, <1>1 DEF StatementsOK, StatementOK
<1>3. /\ count \in Nat /\ N \in Nat /\ count + N <= MaxRows /\ MaxRows \in Nat
      /\ DOMAIN s.rows = 1..N /\ Len(s.rows) = N
      /\ \A j \in 1..N : s.rows[j] = count + j
  <2>1. s.rows \in Seq(Row)
    BY <1>0 DEF TypeInv, Statement
  <2>2. N \in Nat /\ DOMAIN s.keys = 1..N
    BY <1>2
  <2>3. DOMAIN s.rows = 1..Len(s.rows) /\ Len(s.rows) \in Nat /\ DOMAIN s.rows = DOMAIN s.keys
    BY <1>2, <2>1 DEF NewRows
  <2>4. Len(s.rows) = N
    <3> DEFINE M == Len(s.rows)
    <3>1. 1..M = 1..N /\ M \in Nat /\ N \in Nat
      BY <2>2, <2>3
    <3> HIDE DEF M, N
    <3> QED
      BY <3>1 DEF M
  <2>5. \A j \in DOMAIN s.keys : s.rows[j] = count + j
    BY <1>2 DEF NewRows
  <2>6. count + N <= MaxRows /\ count \in Nat /\ MaxRows \in Nat
    BY <1>0, <1>2, SizeAssumption DEF NewRows, TypeInv
  <2> HIDE DEF N
  <2> QED
    BY <2>2, <2>3, <2>4, <2>5, <2>6
<1>4. v \in Version /\ v.by = t /\ v.saved = Nowhere
  <2>1. 1 \in Index
    BY IndexFacts
  <2>2. Nowhere \in Values
    BY <2>1, NowhereHasNoKey
  <2> QED
    BY <2>2 DEF Version
<1> HIDE DEF N, v
<1>5. ASSUME NEW r \in new
      PROVE  /\ r \in count + 1..count + N /\ r \in Row /\ ~(r <= count)
             /\ r - count \in DOMAIN s.rows /\ s.rows[r - count] = r
             /\ data'[r] = Written(t, r - count) /\ chain'[r] = <<v>>
  <2>1. PICK j \in 1..N : r = s.rows[j]
    BY <1>3 DEF Range
  <2>2. r = count + j /\ r - count = j
    BY <1>3, <2>1
  <2>3. r \in count + 1..count + N /\ r \in Row /\ ~(r <= count)
    BY <1>3, <2>2 DEF Row
  <2> QED
    BY <1>1, <1>3, <2>1, <2>2, <2>3
<1>6. ASSUME NEW r \in Row \ new
      PROVE  chain'[r] = chain[r] /\ data'[r] = data[r] /\ deleted'[r] = deleted[r]
  BY <1>1, <1>6
<1>7. /\ new \subseteq 1..count' /\ count' \in Nat /\ \A r \in 1..count' \ new : r <= count
      /\ 1..count \subseteq 1..count' /\ 1..count' \subseteq Row
  <2>1. count' = count + N
    BY <1>1, <1>3
  <2>2. ASSUME NEW r \in 1..count', ~(r <= count)
        PROVE  r \in new
    <3>1. r - count \in 1..N /\ count + (r - count) = r
      BY <1>3, <2>1, <2>2
    <3> QED
      BY <1>3, <3>1 DEF Range
  <2>3. new \subseteq 1..count'
    BY <1>3, <1>5, <2>1
  <2> QED
    BY <1>3, <2>1, <2>2, <2>3 DEF Row
<1>8. ASSUME NEW r \in new
      PROVE  PushedChain(chain'[r], << >>, Nowhere, NewBase(r), t, Settled)
  <2>1. << >> \in Seq(Version)
    OBVIOUS
  <2>2. \A a, b \in DOMAIN << >> : a < b => FALSE
    OBVIOUS
  <2>3. PushedChain(<<v>> \o << >>, << >>, Nowhere, NewBase(r), v.by, Settled)
    <3> HIDE DEF Version
    <3> QED
      BY <1>4, <2>1, <2>2, PushedOnChain
  <2>4. <<v>> \o << >> = <<v>>
    <3> HIDE DEF Version
    <3> QED
      BY <1>4
  <2> QED
    BY <1>4, <1>5, <2>3, <2>4
<1>9. \A S : Along(<< >>, Nowhere, S) = Nowhere
  BY EmptyChain
<1>10. ASSUME NEW i \in Index
       PROVE  GetsKeys(t, i, new)
  <2>1. Entering(t, i)
    <3>1. i < current_index[t]
      BY <1>2, IndexFacts
    <3> QED
      BY <1>1, <3>1 DEF Entering, Affected
  <2>2. ASSUME NEW r \in new, KeyOf(i, NewBase(r)) # NoKey
        PROVE  \E j \in DOMAIN s.rows : s.rows[j] = r /\ KeyOf(i, NewBase(r)) = NewKey(t, i, j)
    <3>1. NewBase(r) = Written(t, r - count)
      BY <1>5, <2>2, NowhereHasNoKey DEF NewBase
    <3> QED
      BY <1>5, <3>1 DEF NewKey
  <2> QED
    BY <2>1, <2>2 DEF GetsKeys
<1> HIDE DEF new
<1>11. WritesRows(t, new)
  <2>1. ASSUME NEW r \in new
        PROVE  /\ \A S : /\ t \in S => NewView(r, S) = NewBase(r)
                         /\ t \notin S /\ r \notin Excepted' =>
                               NewView(r, S) = IF r <= count THEN View(r, S) ELSE Nowhere
               /\ chain'[r] # << >> /\ chain'[r][1].by = t
               /\ r <= count => /\ ~InConflict(t, r)
                                /\ \A k \in DOMAIN chain[r] :
                                      \E m \in DOMAIN chain'[r] : chain'[r][m].by = chain[r][k].by
               /\ \A a, b \in DOMAIN chain'[r] :
                     a < b => chain'[r][a].by = chain'[r][b].by \/ chain'[r][b].by \in Settled
    <3>1. PushedChain(chain'[r], << >>, Nowhere, NewBase(r), t, Settled)
      BY <1>8
    <3>2. /\ \A S : t \in S => NewView(r, S) = NewBase(r)
          /\ \A S : t \notin S => NewView(r, S) = Along(<< >>, Nowhere, S)
          /\ chain'[r] # << >> /\ chain'[r][1].by = t
          /\ \A a, b \in DOMAIN chain'[r] :
               a < b => chain'[r][a].by = chain'[r][b].by \/ chain'[r][b].by \in Settled
      <4> DEFINE vs == << >>
      <4>1. PushedChain(chain'[r], vs, Nowhere, NewBase(r), t, Settled)
        BY <3>1
      <4> HIDE DEF vs
      <4>2. /\ \A S : t \in S => NewView(r, S) = NewBase(r)
            /\ \A S : t \notin S => NewView(r, S) = Along(vs, Nowhere, S)
            /\ chain'[r] # << >> /\ chain'[r][1].by = t
            /\ \A a, b \in DOMAIN chain'[r] :
                 a < b => chain'[r][a].by = chain'[r][b].by \/ chain'[r][b].by \in Settled
        BY <4>1 DEF PushedChain, NewView, NewBase
      <4> QED
        BY <4>2 DEF vs
    <3>3. ~(r <= count)
      BY <1>5
    <3> QED
      BY <1>9, <3>2, <3>3
  <2> QED
    BY <1>6, <1>7, <1>10, <2>1 DEF WritesRows
<1>12. Excepted' = Excepted
  BY <1>1 DEF Excepted
<1>13. /\ phase'[t] \in {"ready", "failed"}
       /\ \A u \in Tx : u # t => /\ phase'[u] = phase[u] /\ statement'[u] = statement[u]
                                 /\ current_index'[u] = current_index[u]
  BY <1>0, <1>1 DEF ToReady, Goto, TypeInv
<1>14. ASSUME NEW u \in Tx, u # t, Updating(u), NEW j \in DOMAIN statement[u].rows
       PROVE  statement[u].rows[j] \notin new
  <2>1. StatementOK(u) /\ statement[u].kind = "update" /\ phase[u] \in {"indexing", "writing"}
    BY <1>0, <1>14 DEF StatementsOK, Updating
  <2>2. statement[u].rows[j] <= count
    BY <2>1 DEF StatementOK, FoundRows
  <2> QED
    BY <1>5, <2>2
<1> QED
  BY <1>11, <1>12, <1>13, <1>14, WritesKeys

LEMMA WriteRowsKeys ==
  ASSUME KInv, fault = Alive, NEW t \in Tx, WriteRows(t)
  PROVE  KeysInv'
BY WriteInsertedKeys, WriteFoundKeys DEF WriteRows

-----------------------------------------------------------------------------
(* The invariant holds. *)

LEMMA InitKeys == Init => KInv
<1> SUFFICES ASSUME Init
             PROVE  KeysInv
  BY InitInvariant DEF KInv
<1>1. /\ clock = 1 /\ start_time = [t \in Tx |-> 0] /\ commit_id = [t \in Tx |-> 0]
      /\ phase = [t \in Tx |-> "idle"] /\ count = Len(Loaded)
      /\ data = [r \in Row |-> IF r <= count THEN Loaded[r] ELSE Nowhere]
      /\ deleted = [r \in Row |-> FALSE] /\ chain = [r \in Row |-> << >>]
  BY DEF Init
<1>2. TypeInv
  BY InitInvariant DEF IInv
<1>3. \A r \in 1..count : \A S : View(r, S) = Loaded[r]
  <2> SUFFICES ASSUME NEW r \in 1..count, NEW S
               PROVE  View(r, S) = Loaded[r]
    OBVIOUS
  <2>1. r \in Row /\ r <= count
    BY <1>2, CountedRows
  <2>2. chain[r] = << >> /\ Base(r) = Loaded[r]
    BY <1>1, <2>1 DEF Base
  <2>3. Along(<< >>, Loaded[r], S) = Loaded[r]
    BY EmptyChain
  <2> QED
    BY <2>2, <2>3 DEF View
<1>4. ASSUME NEW rows \in SUBSET (1..count), NEW S
      PROVE  Apart(rows, S)
  <2> SUFFICES ASSUME NEW i \in Index, NEW r \in rows, NEW s \in rows, r # s,
                      KeyOf(i, Loaded[r]) # NoKey, KeyOf(i, Loaded[r]) = KeyOf(i, Loaded[s])
               PROVE  FALSE
    BY <1>3 DEF Apart
  <2>1. r \in DOMAIN Loaded /\ s \in DOMAIN Loaded /\ (r < s \/ s < r)
    BY <1>1, LoadedFacts, LoadedAssumption
  <2> QED
    BY <2>1, LoadedAssumption
<1>5. CommitsApart /\ SnapshotsApart
  BY <1>4 DEF CommitsApart, SnapshotsApart
<1>6. \A t \in Tx, i \in Index : ~Entering(t, i)
  BY <1>1 DEF Entering
<1>7. KeysFree /\ KeysDiffer
  BY <1>6 DEF KeysFree, KeysDiffer
<1>8. ChainsOrdered /\ ClockAhead
  BY <1>1 DEF ChainsOrdered, ClockAhead
<1> QED
  BY <1>5, <1>7, <1>8 DEF KeysInv

\* The keys of all rows, in every snapshot and in what is committed whichever
\* transactions commit next, and the keys that statements have entered stay
\* apart, whatever the connections do.
THEOREM KeysInvariant == Spec => []KInv
<1>1. KInv /\ [Next]_vars => KInv'
  <2> SUFFICES ASSUME KInv, [Next]_vars
               PROVE  KInv'
    OBVIOUS
  <2>0. IInv
    BY DEF KInv
  <2>1. CASE UNCHANGED vars
    BY <2>0, <2>1, StutteringKeeps, StutteringKeys DEF KInv
  <2>2. CASE Next
    <3>1. PICK t \in Tx : \/ Begin(t) \/ Insert(t) \/ Update(t) \/ Delete(t)
                          \/ LockChunk(t) \/ EnterKeys(t) \/ RevertIndex(t) \/ WriteRows(t)
                          \/ Commit(t) \/ Rollback(t)
      BY <2>2 DEF Next
    <3>2. fault = Alive
      BY <2>2 DEF Next
    <3>3. CASE Begin(t)
      BY <2>0, <3>2, <3>3, BeginKeeps, BeginKeys DEF KInv
    <3>4. CASE Insert(t) \/ Update(t) \/ Delete(t)
      <4>1. IInv'
        BY <2>0, <3>4, InsertKeeps, UpdateKeeps, DeleteKeeps
      <4>2. PICK s : Issue(t, s)
        BY <3>4 DEF Insert, Update, Delete
      <4> QED
        BY <3>2, <4>1, <4>2, IssueKeys DEF KInv
    <3>5. CASE LockChunk(t)
      BY <2>0, <3>2, <3>5, LockChunkKeeps, LockChunkKeys DEF KInv
    <3>6. CASE EnterKeys(t)
      BY <2>0, <3>2, <3>6, EnterKeysKeeps, EnterKeysKeys DEF KInv
    <3>7. CASE RevertIndex(t)
      BY <2>0, <3>2, <3>7, RevertIndexKeeps, RevertIndexKeys DEF KInv
    <3>8. CASE WriteRows(t)
      BY <2>0, <3>2, <3>8, WriteRowsKeeps, WriteRowsKeys DEF KInv
    <3>9. CASE Commit(t)
      BY <2>0, <3>2, <3>9, CommitKeeps, CommitKeys DEF KInv
    <3>10. CASE Rollback(t)
      BY <2>0, <3>2, <3>10, RollbackKeeps, RollbackKeys DEF KInv
    <3> QED
      BY <3>1, <3>3, <3>4, <3>5, <3>6, <3>7, <3>8, <3>9, <3>10
  <2> QED
    BY <2>1, <2>2
<1> QED
  BY InitKeys, <1>1, PTL DEF Spec

LEMMA InvariantKeys == KInv => UniqueKeys
<1> SUFFICES ASSUME KInv
             PROVE  UniqueKeys
  OBVIOUS
<1>0. TypeInv /\ CommitsApart /\ SnapshotsApart
  BY DEF KInv, KeysInv, IInv
<1>1. ASSUME NEW S, NEW rows, rows \cap Excepted = {}, Apart(rows, S),
             NEW r \in rows, NEW s \in rows, r < s, r # s
      PROVE  ~Clash(View(r, S), View(s, S))
  BY <1>1 DEF Apart, Clash
<1>2. ASSUME NEW r \in 1..count, NEW s \in 1..count, r < s
      PROVE  r # s
  BY <1>0, <1>2, CountedRows
<1>3. ASSUME NEW r \in (1..count \ clobbered) \ (unlocked \cup dirty \cup torn),
             NEW s \in (1..count \ clobbered) \ (unlocked \cup dirty \cup torn), r < s
      PROVE  ~Clash(Committed(r), Committed(s))
  <2> DEFINE rows == 1..count \ Excepted
  <2>1. Apart(rows, Settled)
    <3>1. Settled \cup {} = Settled /\ {} \in SUBSET Tx
      OBVIOUS
    <3> QED
      BY <1>0, <3>1 DEF CommitsApart
  <2>2. r \in rows /\ s \in rows /\ rows \cap Excepted = {} /\ r # s
    BY <1>2, <1>3 DEF Excepted
  <2>3. Committed(r) = View(r, Settled) /\ Committed(s) = View(s, Settled)
    BY <1>0, ReadIsView
  <2> HIDE DEF rows
  <2>4. ~Clash(View(r, Settled), View(s, Settled))
    BY <1>1, <1>3, <2>1, <2>2
  <2> QED
    BY <2>3, <2>4
<1>4. ASSUME NEW t \in Active,
             NEW r \in (1..count \ (clobbered \cup Overtaken(t))) \ (unlocked \cup dirty \cup torn),
             NEW s \in (1..count \ (clobbered \cup Overtaken(t))) \ (unlocked \cup dirty \cup torn), r < s
      PROVE  ~Clash(Read(t, r), Read(t, s))
  <2> DEFINE rows == 1..count \ (Excepted \cup Overtaken(t))
  <2>0. t \in Tx
    BY DEF Active
  <2>1. Apart(rows, SeenBy(t))
    BY <1>0 DEF SnapshotsApart
  <2>2. r \in rows /\ s \in rows /\ rows \cap Excepted = {} /\ r # s
    BY <1>2, <1>4 DEF Excepted
  <2>3. Read(t, r) = View(r, SeenBy(t)) /\ Read(t, s) = View(s, SeenBy(t))
    BY <1>0, <2>0, ReadIsView
  <2> HIDE DEF rows
  <2>4. ~Clash(View(r, SeenBy(t)), View(s, SeenBy(t)))
    BY <1>1, <1>4, <2>1, <2>2
  <2> QED
    BY <2>3, <2>4
<1> QED
  BY <1>3, <1>4 DEF UniqueKeys

\* PRIMARY KEY and UNIQUE constraints hold: neither the committed rows nor what
\* any transaction reads hold two rows with equal keys, however the statements
\* of any number of connections interleave, are rejected and fail, and whenever
\* between their steps an entry of an undo buffer is taken back.  The rows that
\* UniqueKeys excepts are those that AddEntry and Update compare without the
\* lock or the conflict check that the constraint would need, or as they were
\* before a rollback that AddEntry does not notice (UniqueIndex::Append, Update
\* and AddEntry, DataTable, StorageChunk::Undo).
THEOREM KeysAreUnique == Spec => []UniqueKeys
BY KeysInvariant, InvariantKeys, PTL

===============================================================================
