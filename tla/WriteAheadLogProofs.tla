-------------------------- MODULE WriteAheadLogProofs --------------------------
(***************************************************************************)
(* Proofs about WriteAheadLog, for every set of transactions and rows,     *)
(* every size of a chunk and any number of crashes.  The main idea: the    *)
(* entries of a log lead from one table to another, and what has been      *)
(* synced leads from no table to the committed one.                        *)
(***************************************************************************)
EXTENDS WriteAheadLog, SequenceTheorems, FiniteSetTheorems, WellFoundedInduction, TLAPS

-----------------------------------------------------------------------------
(* Entries that lead from table to table. *)

\* Entry e brings replay from table a to table b; a flush mark changes nothing.
Step(a, e, b) ==
    IF e.type = "WAL_FLUSH" THEN b = a ELSE b \in Replayed(a, e)

\* The entries of s behind m, up to n, lead from a to b.
Leads(s, m, n, a, b) ==
    \E f \in [m..n -> Table] :
        /\ f[m] = a
        /\ f[n] = b
        /\ \A i \in m + 1..n : Step(f[i - 1], s[i], f[i])

-----------------------------------------------------------------------------
(* Lemmas about them. *)

\* Every nonempty set of numbers has a smallest one.
LEMMA LeastElement ==
  ASSUME NEW S \in SUBSET Nat, S # {}
  PROVE  \E n \in S : \A m \in S : n <= m
<1>1. PICK n \in S : \A m \in S : ~(<<m, n>> \in OpToRel(<, Nat))
  <2> DEFINE R == OpToRel(<, Nat)
  <2>1. IsWellFoundedOn(R, Nat)
    BY NatLessThanWellFounded
  <2> HIDE DEF R
  <2>2. \E x \in S : \A y \in S : ~(<<y, x>> \in R)
    BY <2>1, WFMin
  <2> QED
    BY <2>2 DEF R
<1>2. ASSUME NEW m \in S
      PROVE  n <= m
  <2>1. <<m, n>> \notin OpToRel(<, Nat)
    BY <1>1
  <2> QED
    BY <2>1 DEF OpToRel
<1> QED
  BY <1>2

LEMMA NoTableIsNoSet == NoTable \notin SUBSET Row
  BY WALAssumption

\* What an entry does to a table, by its type.
LEMMA ReplayedCreate ==
  ASSUME NEW a, NEW e, e.type = "CREATE_TABLE"
  PROVE  Replayed(a, e) = IF a = NoTable THEN {{}} ELSE {}
  BY DEF Replayed

LEMMA ReplayedDrop ==
  ASSUME NEW a, NEW e, e.type = "DROP_TABLE"
  PROVE  Replayed(a, e) = IF a = NoTable THEN {} ELSE {NoTable}
  BY DEF Replayed

LEMMA ReplayedInsert ==
  ASSUME NEW a, NEW e, e.type = "INSERT_TUPLE"
  PROVE  Replayed(a, e) = IF a = NoTable THEN {} ELSE {a \cup e.rows}
  BY DEF Replayed

LEMMA ReplayedQuery ==
  ASSUME NEW a, NEW e, e.type = "QUERY"
  PROVE  Replayed(a, e) = IF a = NoTable THEN {} ELSE {{}}
  BY DEF Replayed

\* Types of entries that change a table.
Doing == {"INSERT_TUPLE", "CREATE_TABLE", "DROP_TABLE", "QUERY"}

\* Replay of an entry is deterministic and stays within its rows.
LEMMA ReplayedOnce ==
  ASSUME NEW a, NEW e, e.type \in Doing, NEW b \in Replayed(a, e)
  PROVE  Replayed(a, e) = {b}
<1>1. CASE e.type = "INSERT_TUPLE"
  <2>1. a # NoTable
    BY <1>1, ReplayedInsert
  <2>2. Replayed(a, e) = {a \cup e.rows}
    BY <1>1, <2>1, ReplayedInsert
  <2>3. b = a \cup e.rows
    BY <2>2
  <2> QED
    BY <2>2, <2>3, Zenon
<1>2. CASE e.type = "CREATE_TABLE"
  BY <1>2, ReplayedCreate
<1>3. CASE e.type = "DROP_TABLE"
  BY <1>3, ReplayedDrop
<1>4. CASE e.type = "QUERY"
  BY <1>4, ReplayedQuery
<1> QED
  BY <1>1, <1>2, <1>3, <1>4 DEF Doing

\* The tables with no rows other than these.
TablesOf(rows) == {NoTable} \cup SUBSET rows

LEMMA ReplayedWithin ==
  ASSUME NEW rows, NEW a \in TablesOf(rows), NEW e, e.type \in Doing, e.rows \subseteq rows
  PROVE  Replayed(a, e) \subseteq TablesOf(rows)
<1>1. CASE e.type = "INSERT_TUPLE"
  BY <1>1, ReplayedInsert DEF TablesOf
<1>2. CASE e.type = "CREATE_TABLE"
  BY <1>2, ReplayedCreate DEF TablesOf
<1>3. CASE e.type = "DROP_TABLE"
  BY <1>3, ReplayedDrop DEF TablesOf
<1>4. CASE e.type = "QUERY"
  BY <1>4, ReplayedQuery DEF TablesOf
<1> QED
  BY <1>1, <1>2, <1>3, <1>4 DEF Doing

\* No entries lead from a table to itself.
LEMMA LeadsNowhere ==
  ASSUME NEW s, NEW m \in Nat, NEW a \in Table
  PROVE  Leads(s, m, m, a, a)
<1> DEFINE f == [i \in m..m |-> a]
<1>1. f \in [m..m -> Table] /\ f[m] = a
  OBVIOUS
<1>2. \A i \in m + 1..m : Step(f[i - 1], s[i], f[i])
  OBVIOUS
<1> QED
  BY <1>1, <1>2 DEF Leads

LEMMA LeadsNowhereElse ==
  ASSUME NEW s, NEW m \in Nat, NEW a, NEW b, Leads(s, m, m, a, b)
  PROVE  a = b
  BY DEF Leads

LEMMA LeadsTyped ==
  ASSUME NEW s, NEW m \in Nat, NEW n \in Nat, m <= n, NEW a, NEW b, Leads(s, m, n, a, b)
  PROVE  a \in Table /\ b \in Table
  BY DEF Leads

\* One more entry.
LEMMA LeadsOn ==
  ASSUME NEW s, NEW m \in Nat, NEW n \in Nat, m <= n, NEW a, NEW b, NEW c \in Table,
         Leads(s, m, n, a, b), Step(b, s[n + 1], c)
  PROVE  Leads(s, m, n + 1, a, c)
<1>1. PICK f \in [m..n -> Table] : /\ f[m] = a
                                   /\ f[n] = b
                                   /\ \A i \in m + 1..n : Step(f[i - 1], s[i], f[i])
  BY DEF Leads
<1> DEFINE g == [i \in m..n + 1 |-> IF i <= n THEN f[i] ELSE c]
<1>2. g \in [m..n + 1 -> Table] /\ g[m] = a /\ g[n + 1] = c
  BY <1>1
<1>3. ASSUME NEW i \in m + 1..n + 1
      PROVE  Step(g[i - 1], s[i], g[i])
  <2>1. CASE i <= n
    <3>1. g[i - 1] = f[i - 1] /\ g[i] = f[i] /\ i \in m + 1..n
      BY <2>1
    <3> QED
      BY <3>1, <1>1
  <2>2. CASE i = n + 1
    <3>1. g[i - 1] = b /\ g[i] = c
      BY <2>2, <1>1
    <3> QED
      BY <3>1, <2>2
  <2> QED
    BY <2>1, <2>2
<1> QED
  BY <1>2, <1>3 DEF Leads

\* The same entries elsewhere lead to the same table.
LEMMA LeadsMoved ==
  ASSUME NEW s, NEW m \in Nat, NEW n \in Nat, m <= n, NEW a, NEW b, Leads(s, m, n, a, b),
         NEW u, NEW d \in Nat, d <= m,
         \A i \in m + 1..n : u[i - d] = s[i]
  PROVE  Leads(u, m - d, n - d, a, b)
<1>1. PICK f \in [m..n -> Table] : /\ f[m] = a
                                   /\ f[n] = b
                                   /\ \A i \in m + 1..n : Step(f[i - 1], s[i], f[i])
  BY DEF Leads
<1> DEFINE g == [i \in m - d..n - d |-> f[i + d]]
<1>2. g \in [m - d..n - d -> Table] /\ g[m - d] = a /\ g[n - d] = b
  BY <1>1
<1>3. ASSUME NEW i \in (m - d) + 1..n - d
      PROVE  Step(g[i - 1], u[i], g[i])
  <2>1. i + d \in m + 1..n /\ g[i - 1] = f[(i + d) - 1] /\ g[i] = f[i + d]
    OBVIOUS
  <2>2. u[i] = s[i + d]
    <3>1. u[(i + d) - d] = s[i + d]
      BY <2>1
    <3> QED
      BY <3>1
  <2> QED
    BY <1>1, <2>1, <2>2
<1> QED
  BY <1>2, <1>3 DEF Leads

LEMMA LeadsSame ==
  ASSUME NEW s, NEW m \in Nat, NEW n \in Nat, m <= n, NEW a, NEW b, Leads(s, m, n, a, b),
         NEW u, \A i \in m + 1..n : u[i] = s[i]
  PROVE  Leads(u, m, n, a, b)
  BY DEF Leads

LEMMA LeadsJoined ==
  ASSUME NEW s, NEW m \in Nat, NEW n \in Nat, NEW p \in Nat, m <= n, n <= p,
         NEW a, NEW b, NEW c, Leads(s, m, n, a, b), Leads(s, n, p, b, c)
  PROVE  Leads(s, m, p, a, c)
<1>1. PICK f \in [m..n -> Table] : /\ f[m] = a
                                   /\ f[n] = b
                                   /\ \A i \in m + 1..n : Step(f[i - 1], s[i], f[i])
  BY DEF Leads
<1>2. PICK g \in [n..p -> Table] : /\ g[n] = b
                                   /\ g[p] = c
                                   /\ \A i \in n + 1..p : Step(g[i - 1], s[i], g[i])
  BY DEF Leads
<1> DEFINE h == [i \in m..p |-> IF i <= n THEN f[i] ELSE g[i]]
<1>3. h \in [m..p -> Table] /\ h[m] = a /\ h[p] = c
  BY <1>1, <1>2
<1>4. ASSUME NEW i \in m + 1..p
      PROVE  Step(h[i - 1], s[i], h[i])
  <2>1. CASE i <= n
    <3>1. h[i - 1] = f[i - 1] /\ h[i] = f[i] /\ i \in m + 1..n
      BY <2>1
    <3> QED
      BY <3>1, <1>1
  <2>2. CASE i = n + 1
    <3>1. h[i - 1] = g[i - 1] /\ h[i] = g[i] /\ i \in n + 1..p
      BY <2>2, <1>1, <1>2
    <3> QED
      BY <3>1, <1>2
  <2>3. CASE i > n + 1
    <3>1. h[i - 1] = g[i - 1] /\ h[i] = g[i] /\ i \in n + 1..p
      BY <2>3
    <3> QED
      BY <3>1, <1>2
  <2> QED
    BY <2>1, <2>2, <2>3
<1> QED
  BY <1>3, <1>4 DEF Leads

LEMMA LeadsSplit ==
  ASSUME NEW s, NEW m \in Nat, NEW n \in Nat, NEW p \in Nat, m <= n, n <= p,
         NEW a, NEW c, Leads(s, m, p, a, c)
  PROVE  \E b \in Table : Leads(s, m, n, a, b) /\ Leads(s, n, p, b, c)
<1>1. PICK f \in [m..p -> Table] : /\ f[m] = a
                                   /\ f[p] = c
                                   /\ \A i \in m + 1..p : Step(f[i - 1], s[i], f[i])
  BY DEF Leads
<1> DEFINE g == [i \in m..n |-> f[i]]
           h == [i \in n..p |-> f[i]]
<1>2. Leads(s, m, n, a, f[n])
  <2>1. g \in [m..n -> Table] /\ g[m] = a /\ g[n] = f[n]
    BY <1>1
  <2>2. ASSUME NEW i \in m + 1..n
        PROVE  Step(g[i - 1], s[i], g[i])
    <3>1. g[i - 1] = f[i - 1] /\ g[i] = f[i] /\ i \in m + 1..p
      OBVIOUS
    <3> QED
      BY <3>1, <1>1
  <2> QED
    BY <2>1, <2>2 DEF Leads
<1>3. Leads(s, n, p, f[n], c)
  <2>1. h \in [n..p -> Table] /\ h[n] = f[n] /\ h[p] = c
    BY <1>1
  <2>2. ASSUME NEW i \in n + 1..p
        PROVE  Step(h[i - 1], s[i], h[i])
    <3>1. h[i - 1] = f[i - 1] /\ h[i] = f[i] /\ i \in m + 1..p
      OBVIOUS
    <3> QED
      BY <3>1, <1>1
  <2> QED
    BY <2>1, <2>2 DEF Leads
<1> QED
  BY <1>1, <1>2, <1>3

-----------------------------------------------------------------------------
(* What Replay computes at a flush mark. *)

\* The function that ReplayedAll defines: the tables after the first i entries.
Unfolds(g, s, n, a) ==
    g = [i \in 0..n |-> IF i = 0 THEN {a}
                        ELSE UNION {Replayed(table, s[i]) : table \in g[i - 1]}]

LEMMA UnfoldsExists ==
  ASSUME NEW s, NEW a, NEW n \in Nat
  PROVE  \E g : Unfolds(g, s, n, a)
<1> DEFINE S == {k \in Nat : ~\E g : Unfolds(g, s, k, a)}
<1>1. CASE S = {}
  BY <1>1
<1>2. CASE S # {}
  <2>1. PICK k \in S : \A m \in S : k <= m
    BY <1>2, LeastElement
  <2>2. CASE k = 0
    <3> DEFINE g == [i \in 0..0 |-> {a}]
    <3>1. g = [i \in 0..0 |-> IF i = 0 THEN {a}
                              ELSE UNION {Replayed(table, s[i]) : table \in g[i - 1]}]
      OBVIOUS
    <3>2. Unfolds(g, s, 0, a)
      BY <3>1, Zenon DEF Unfolds
    <3> QED
      BY <3>2, <2>1, <2>2
  <2>3. CASE k # 0
    <3>1. k - 1 \in Nat /\ k - 1 \notin S
      BY <2>1, <2>3
    <3>2. PICK f : Unfolds(f, s, k - 1, a)
      BY <3>1
    <3> DEFINE last == UNION {Replayed(table, s[k]) : table \in f[k - 1]}
               g == [i \in 0..k |-> IF i <= k - 1 THEN f[i] ELSE last]
    <3> HIDE DEF last
    <3>3. \A i \in 0..k - 1 : g[i] = f[i]
      BY <3>1
    <3>4. \A i \in 0..k - 1 :
            f[i] = IF i = 0 THEN {a} ELSE UNION {Replayed(table, s[i]) : table \in f[i - 1]}
      BY <3>1, <3>2 DEF Unfolds
    <3>5. ASSUME NEW i \in 0..k
          PROVE  g[i] = IF i = 0 THEN {a}
                        ELSE UNION {Replayed(table, s[i]) : table \in g[i - 1]}
      <4>1. CASE i = 0
        <5>1. g[i] = f[0] /\ 0 \in 0..k - 1
          BY <4>1, <3>1
        <5>2. f[0] = {a}
          BY <5>1, <3>4
        <5> QED
          BY <4>1, <5>1, <5>2
      <4>2. CASE i # 0 /\ i <= k - 1
        <5>1. i - 1 \in 0..k - 1 /\ i \in 0..k - 1
          BY <4>2, <3>1
        <5>2. g[i] = f[i] /\ g[i - 1] = f[i - 1]
          BY <5>1, <3>3
        <5>3. f[i] = UNION {Replayed(table, s[i]) : table \in f[i - 1]}
          BY <5>1, <3>4, <4>2
        <5> HIDE DEF g
        <5> QED
          BY <5>2, <5>3, <4>2
      <4>3. CASE i = k
        <5>1. g[i] = last /\ i # 0
          BY <4>3, <2>3, <3>1
        <5>2. g[i - 1] = f[i - 1]
          BY <3>3, <3>1, <4>3
        <5> HIDE DEF g
        <5>3. last = UNION {Replayed(table, s[i]) : table \in g[i - 1]}
          BY <5>2, <4>3 DEF last
        <5> QED
          BY <5>1, <5>3
      <4> QED
        BY <4>1, <4>2, <4>3, <3>1
    <3>6. DOMAIN g = 0..k /\ g = [i \in 0..k |-> g[i]]
      OBVIOUS
    <3> HIDE DEF g
    <3>7. g = [i \in 0..k |-> IF i = 0 THEN {a}
                               ELSE UNION {Replayed(table, s[i]) : table \in g[i - 1]}]
      BY <3>5, <3>6
    <3>8. Unfolds(g, s, k, a)
      BY <3>7, Zenon DEF Unfolds
    <3> QED
      BY <3>8, <2>1
  <2> QED
    BY <2>2, <2>3
<1> QED
  BY <1>1, <1>2

LEMMA ReplayedAllUnfolds ==
  ASSUME stored_entries \in Seq(LogEntry)
  PROVE  \E g : Unfolds(g, stored_entries, Len(stored_entries), store)
                /\ ReplayedAll = g[Len(stored_entries)]
<1> DEFINE n == Len(stored_entries)
           g == CHOOSE f : f = [i \in 0..n |-> IF i = 0 THEN {store}
                     ELSE UNION {Replayed(table, stored_entries[i]) : table \in f[i - 1]}]
<1>1. n \in Nat
  OBVIOUS
<1>2. \E f : f = [i \in 0..n |-> IF i = 0 THEN {store}
                     ELSE UNION {Replayed(table, stored_entries[i]) : table \in f[i - 1]}]
  <2>1. \E f : Unfolds(f, stored_entries, n, store)
    BY <1>1, UnfoldsExists
  <2> QED
    BY <2>1, Zenon DEF Unfolds
<1>3. g = [i \in 0..n |-> IF i = 0 THEN {store}
                     ELSE UNION {Replayed(table, stored_entries[i]) : table \in g[i - 1]}]
  BY <1>2, Zenon
<1>4. ReplayedAll = g[n]
  BY Zenon DEF ReplayedAll
<1>5. Unfolds(g, stored_entries, n, store)
  BY <1>3, Zenon DEF Unfolds
<1> QED
  BY <1>4, <1>5, Zenon

\* Replay comes up with no rows that are not in the log.
LEMMA ReplayedAllWithin ==
  ASSUME NEW rows, store \in TablesOf(rows), stored_entries \in Seq(LogEntry),
         \A i \in 1..Len(stored_entries) :
             stored_entries[i].type \in Doing /\ stored_entries[i].rows \subseteq rows
  PROVE  ReplayedAll \subseteq TablesOf(rows)
<1> DEFINE n == Len(stored_entries)
<1>1. PICK g : Unfolds(g, stored_entries, n, store) /\ ReplayedAll = g[n]
  BY ReplayedAllUnfolds
<1>2. \A i \in 0..n :
        g[i] = IF i = 0 THEN {store}
               ELSE UNION {Replayed(table, stored_entries[i]) : table \in g[i - 1]}
  BY <1>1 DEF Unfolds
<1>n. n \in Nat
  OBVIOUS
<1> DEFINE S == {i \in 0..n : ~(g[i] \subseteq TablesOf(rows))}
<1>3. CASE S = {}
  BY <1>3, <1>1, <1>n
<1>4. CASE S # {}
  <2>0. S \in SUBSET Nat
    BY <1>n
  <2>1. PICK k \in S : \A m \in S : k <= m
    <3> HIDE DEF S
    <3> QED
      BY <1>4, <2>0, LeastElement
  <2>2. k # 0
    BY <2>1, <1>2, <1>n
  <2>3. k - 1 \in 0..n /\ k - 1 \notin S /\ k \in 1..n
    BY <2>1, <2>2, <1>n
  <2>4. ASSUME NEW table \in g[k - 1]
        PROVE  Replayed(table, stored_entries[k]) \subseteq TablesOf(rows)
    <3>1. table \in TablesOf(rows)
      BY <2>3
    <3>2. stored_entries[k].type \in Doing /\ stored_entries[k].rows \subseteq rows
      BY <2>3
    <3> QED
      BY <3>1, <3>2, ReplayedWithin
  <2>5. g[k] = UNION {Replayed(table, stored_entries[k]) : table \in g[k - 1]}
    BY <2>2, <2>3, <1>2
  <2>6. g[k] \subseteq TablesOf(rows)
    BY <2>4, <2>5
  <2> QED
    BY <2>1, <2>6
<1> QED
  BY <1>3, <1>4

\* Where the stored entries lead to a table, replay comes up with that table.
LEMMA ReplayedAllLeads ==
  ASSUME stored_entries \in Seq(LogEntry),
         \A i \in 1..Len(stored_entries) : stored_entries[i].type \in Doing,
         NEW b, Leads(stored_entries, 0, Len(stored_entries), store, b)
  PROVE  ReplayedAll = {b}
<1> DEFINE n == Len(stored_entries)
<1>1. PICK g : Unfolds(g, stored_entries, n, store) /\ ReplayedAll = g[n]
  BY ReplayedAllUnfolds
<1>2. \A i \in 0..n :
        g[i] = IF i = 0 THEN {store}
               ELSE UNION {Replayed(table, stored_entries[i]) : table \in g[i - 1]}
  BY <1>1 DEF Unfolds
<1>n. n \in Nat
  OBVIOUS
<1>f. PICK f \in [0..n -> Table] :
        /\ f[0] = store
        /\ f[n] = b
        /\ \A i \in 0 + 1..n : Step(f[i - 1], stored_entries[i], f[i])
  BY DEF Leads
<1> DEFINE S == {i \in 0..n : g[i] # {f[i]}}
<1>3. CASE S = {}
  BY <1>3, <1>1, <1>n, <1>f
<1>4. CASE S # {}
  <2>0. S \in SUBSET Nat
    BY <1>n
  <2>1. PICK k \in S : \A m \in S : k <= m
    <3> HIDE DEF S
    <3> QED
      BY <1>4, <2>0, LeastElement
  <2>2. k # 0
    BY <2>1, <1>2, <1>n, <1>f
  <2>3. k - 1 \in 0..n /\ k - 1 \notin S /\ k \in 1..n
    BY <2>1, <2>2, <1>n
  <2>4. g[k - 1] = {f[k - 1]}
    BY <2>3
  <2>5. stored_entries[k].type \in Doing
    BY <2>3
  <2>6. f[k] \in Replayed(f[k - 1], stored_entries[k])
    BY <2>3, <2>5, <1>f DEF Step, Doing
  <2>7. Replayed(f[k - 1], stored_entries[k]) = {f[k]}
    BY <2>5, <2>6, ReplayedOnce
  <2>8. g[k] = UNION {Replayed(table, stored_entries[k]) : table \in g[k - 1]}
    BY <2>2, <2>3, <1>2
  <2>9. g[k] = {f[k]}
    <3> DEFINE R(table) == Replayed(table, stored_entries[k])
    <3>1. R(f[k - 1]) = {f[k]} /\ g[k] = UNION {R(table) : table \in g[k - 1]}
      BY <2>7, <2>8
    <3> HIDE DEF R
    <3> QED
      BY <3>1, <2>4
  <2> QED
    BY <2>1, <2>9
<1> QED
  BY <1>3, <1>4

-----------------------------------------------------------------------------
(* The inductive invariant. *)

Ending == {"logging", "syncing"}    \* holds transaction_lock

\* Who holds the lock; who runs while the database is up, and what the others
\* have left behind, which is nothing.
LockInv ==
    /\ \A t \in Tx : phase[t] \in Ending <=> transaction_lock = t
    /\ mode # "running" => \A t \in Tx : phase[t] \notin Live
    /\ \A t \in Tx : phase[t] \notin Live =>
         start[t] = NoTable /\ view[t] = NoTable /\ removed[t] = {} /\ undo[t] = << >>
    /\ \A t \in refused : phase[t] # "idle"

\* The locals of a commit and of a replay, and what has been synced.
WriterInv ==
    /\ IsFiniteSet(appends)
    /\ (\A t \in Tx : phase[t] # "logging") => visited = 0 /\ appends = {}
    /\ \A t \in Tx : phase[t] = "logging" => visited <= Len(undo[t])
    /\ (\A t \in Tx : phase[t] \notin Ending) => synced = Len(file)
    /\ mode # "replaying" => position = 0 /\ stored_entries = << >>
    /\ \A i \in 1..Len(stored_entries) : stored_entries[i].type \in Doing

\* All of a sequence of entries speaks of these rows.
Within(s, rows) == \A i \in 1..Len(s) : s[i].rows \subseteq rows

\* Nothing knows a row that nobody has inserted.
RowsInv ==
    /\ store \in TablesOf(inserted)
    /\ \A t \in Tx :
        /\ start[t] \in TablesOf(inserted)
        /\ view[t] \in TablesOf(inserted)
        /\ Within(undo[t], inserted)
    /\ appends \subseteq inserted
    /\ Within(file, inserted)
    /\ Within(stored_entries, inserted)

-----------------------------------------------------------------------------
(* Type correctness. *)

LEMMA TablesTyped ==
  ASSUME NEW rows \in SUBSET Row
  PROVE  TablesOf(rows) \subseteq Table
  BY DEF TablesOf, Table

LEMMA EntryTypes ==
  /\ UndoEntry \subseteq LogEntry
  /\ \A e \in LogEntry : e.rows \in SUBSET Row /\ e.type \in Doing \cup {"WAL_FLUSH", "TORN"}
  /\ \A e \in UndoEntry : e.type \in Doing
  /\ \A rows \in SUBSET Row : InsertTuple(rows) \in LogEntry
  /\ \A type \in {"CREATE_TABLE", "DROP_TABLE", "QUERY", "WAL_FLUSH", "TORN"} :
         Plain(type) \in LogEntry
  /\ Torn \in LogEntry /\ Torn.type = "TORN" /\ Torn.rows = {}
  /\ \A rows : InsertTuple(rows).type = "INSERT_TUPLE" /\ InsertTuple(rows).rows = rows
  /\ \A type : Plain(type).type = type /\ Plain(type).rows = {}
<1>1. \A rows : InsertTuple(rows).type = "INSERT_TUPLE" /\ InsertTuple(rows).rows = rows
  BY DEF InsertTuple
<1>2. \A type : Plain(type).type = type /\ Plain(type).rows = {}
  BY DEF Plain
<1>3. \A e \in LogEntry : e.rows \in SUBSET Row /\ e.type \in Doing \cup {"WAL_FLUSH", "TORN"}
  BY <1>1, <1>2 DEF LogEntry, Doing
<1>4. ASSUME NEW e \in UndoEntry
      PROVE  e.type \in Doing
  <2>1. CASE e \in {InsertTuple({r}) : r \in Row}
    BY <1>1, <2>1 DEF Doing
  <2>2. CASE e \in {Plain(type) : type \in {"CREATE_TABLE", "DROP_TABLE", "QUERY"}}
    BY <1>2, <2>2 DEF Doing
  <2> QED
    BY <2>1, <2>2 DEF UndoEntry
<1>5. UndoEntry \subseteq LogEntry
  BY DEF UndoEntry, LogEntry
<1>6. \A rows \in SUBSET Row : InsertTuple(rows) \in LogEntry
  BY DEF LogEntry
<1>7. \A type \in {"CREATE_TABLE", "DROP_TABLE", "QUERY", "WAL_FLUSH", "TORN"} :
         Plain(type) \in LogEntry
  BY DEF LogEntry
<1>8. Torn \in LogEntry /\ Torn.type = "TORN" /\ Torn.rows = {}
  BY <1>2, <1>7 DEF Torn
<1> QED
  BY <1>1, <1>2, <1>3, <1>4, <1>5, <1>6, <1>7, <1>8

\* An entry that is a tuple has one row.
LEMMA OneTuple ==
  ASSUME NEW e \in UndoEntry, e.type = "INSERT_TUPLE"
  PROVE  \E r \in Row : e = InsertTuple({r}) /\ e.rows = {r}
<1>1. \A type \in {"CREATE_TABLE", "DROP_TABLE", "QUERY"} : e # Plain(type)
  BY EntryTypes
<1>2. PICK r \in Row : e = InsertTuple({r})
  BY <1>1 DEF UndoEntry
<1> QED
  BY <1>2, EntryTypes

\* What UndoBuffer::Commit writes, case by case.
LEMMA LoggedCases ==
  ASSUME NEW e
  PROVE  /\ e.type = "INSERT_TUPLE" /\ Cardinality(appends) = VectorSize =>
              Logged(e) = [entries |-> Flushed(appends), appends |-> e.rows]
         /\ e.type = "INSERT_TUPLE" /\ Cardinality(appends) # VectorSize =>
              Logged(e) = [entries |-> << >>, appends |-> appends \cup e.rows]
         /\ e.type = "QUERY" =>
              Logged(e) = [entries |-> Append(Flushed(appends), e), appends |-> {}]
         /\ e.type \notin {"INSERT_TUPLE", "QUERY"} =>
              Logged(e) = [entries |-> <<e>>, appends |-> appends]
  BY DEF Logged

LEMMA FlushedTyped ==
  ASSUME NEW rows \in SUBSET Row
  PROVE  Flushed(rows) \in Seq(LogEntry)
  BY EntryTypes DEF Flushed

LEMMA AfterTyped ==
  ASSUME MemoryTypeOK, NEW t \in Tx
  PROVE  After(t) \in Table
<1>1. store \in Table /\ view[t] \in Table
  BY DEF MemoryTypeOK
<1>2. CASE NoTable \notin {store, view[t]}
  <2>1. store \in SUBSET Row /\ view[t] \in SUBSET Row
    BY <1>1, <1>2 DEF Table
  <2>2. (store \ removed[t]) \cup (view[t] \ start[t]) \in SUBSET Row
    BY <2>1
  <2> QED
    BY <1>1, <2>2 DEF After, Table
<1>3. CASE NoTable \in {store, view[t]}
  BY <1>1, <1>3 DEF After
<1> QED
  BY <1>2, <1>3

\* Where a statement is done, memory keeps its types.
LEMMA StatementTyped ==
  ASSUME MemoryTypeOK, NEW t \in Tx, NEW table \in Table, NEW e \in UndoEntry,
         Statement(t, table, e), removed' \in [Tx -> SUBSET Row], inserted' \subseteq Row
  PROVE  MemoryTypeOK'
<1>1. undo' = [undo EXCEPT ![t] = Append(@, e)] /\ view' = [view EXCEPT ![t] = table]
  BY DEF Statement
<1>2. undo' \in [Tx -> Seq(UndoEntry)]
  BY <1>1 DEF MemoryTypeOK
<1>3. view' \in [Tx -> Table]
  BY <1>1 DEF MemoryTypeOK
<1> QED
  BY <1>2, <1>3 DEF Statement, MemoryTypeOK

LEMMA LeaveTyped ==
  ASSUME MemoryTypeOK, NEW t \in Tx, Leave(t), UNCHANGED <<mode, crashes>>,
         store' \in Table, transaction_lock' \in Tx \cup {NoTx}
  PROVE  MemoryTypeOK'
<1>1. /\ phase' \in [Tx -> Live \cup {"idle", "ended"}]
      /\ start' \in [Tx -> Table]
      /\ view' \in [Tx -> Table]
      /\ removed' \in [Tx -> SUBSET Row]
      /\ undo' \in [Tx -> Seq(UndoEntry)]
  BY DEF Leave, MemoryTypeOK, Table
<1> QED
  BY <1>1 DEF Leave, MemoryTypeOK

\* What waits to be written stays a chunk of tuples that is not over full.
LEMMA LoggedTyped ==
  ASSUME LogTypeOK, IsFiniteSet(appends), NEW e \in UndoEntry
  PROVE  /\ Logged(e).entries \in Seq(LogEntry)
         /\ Logged(e).appends \in SUBSET Row
         /\ IsFiniteSet(Logged(e).appends)
         /\ Cardinality(Logged(e).appends) <= VectorSize
<1>1. appends \in SUBSET Row /\ Cardinality(appends) <= VectorSize
  BY DEF LogTypeOK
<1>2. VectorSize \in Nat /\ VectorSize >= 1 /\ Cardinality(appends) \in Nat
  BY FS_CardinalityType, WALAssumption
<1>3. Flushed(appends) \in Seq(LogEntry)
  BY <1>1, FlushedTyped
<1>4. e \in LogEntry
  BY EntryTypes
<1>5. CASE e.type = "INSERT_TUPLE"
  <2>1. PICK r \in Row : e.rows = {r}
    BY <1>5, OneTuple
  <2>2. IsFiniteSet({r}) /\ Cardinality({r}) = 1
    BY FS_Singleton
  <2>3. IsFiniteSet(appends \cup {r}) /\ Cardinality(appends \cup {r}) <= Cardinality(appends) + 1
    <3>1. /\ IsFiniteSet(appends \cup {r})
          /\ Cardinality(appends \cup {r}) =
               IF r \in appends THEN Cardinality(appends) ELSE Cardinality(appends) + 1
      BY FS_AddElement, Zenon
    <3> QED
      BY <3>1, <1>2
  <2>4. CASE Cardinality(appends) = VectorSize
    <3>1. Logged(e) = [entries |-> Flushed(appends), appends |-> {r}]
      BY <1>5, <2>1, <2>4, LoggedCases
    <3> QED
      BY <3>1, <2>2, <1>2, <1>3
  <2>5. CASE Cardinality(appends) # VectorSize
    <3>1. Logged(e) = [entries |-> << >>, appends |-> appends \cup {r}]
      BY <1>5, <2>1, <2>5, LoggedCases
    <3>2. Cardinality(appends \cup {r}) <= VectorSize
      <4>1. Cardinality(appends \cup {r}) \in Nat
        BY <2>3, FS_CardinalityType
      <4> QED
        BY <4>1, <2>3, <2>5, <1>1, <1>2
    <3> QED
      BY <3>1, <3>2, <2>3, <1>1
  <2> QED
    BY <2>4, <2>5
<1>6. CASE e.type = "QUERY"
  <2>1. Logged(e) = [entries |-> Append(Flushed(appends), e), appends |-> {}]
    BY <1>6, LoggedCases
  <2>2. Append(Flushed(appends), e) \in Seq(LogEntry)
    BY <1>3, <1>4
  <2>3. IsFiniteSet({}) /\ Cardinality({}) = 0
    BY FS_EmptySet
  <2> QED
    BY <2>1, <2>2, <2>3, <1>2
<1>7. CASE e.type \notin {"INSERT_TUPLE", "QUERY"}
  <2>1. Logged(e) = [entries |-> <<e>>, appends |-> appends]
    BY <1>7, LoggedCases
  <2>2. <<e>> \in Seq(LogEntry)
    BY <1>4
  <2> QED
    BY <2>1, <2>2, <1>1
<1> QED
  BY <1>5, <1>6, <1>7

LEMMA MemoryTypeStep ==
  ASSUME TypeOK, WriterInv, Next
  PROVE  MemoryTypeOK'
<1> USE DEF TypeOK
<1>m. MemoryTypeOK
  OBVIOUS
<1>1. ASSUME NEW t \in Tx, BeginTransaction(t)
      PROVE  MemoryTypeOK'
  BY <1>1, <1>m DEF BeginTransaction, MemoryTypeOK, Live
<1>2. ASSUME NEW t \in Tx, CreateTable(t)
      PROVE  MemoryTypeOK'
  <2>1. Plain("CREATE_TABLE") \in UndoEntry /\ {} \in Table
    BY DEF UndoEntry, Table
  <2>2. removed' \in [Tx -> SUBSET Row] /\ inserted' \subseteq Row
    BY <1>2 DEF CreateTable, MemoryTypeOK
  <2> QED
    BY <1>2, <1>m, <2>1, <2>2, StatementTyped DEF CreateTable
<1>3. ASSUME NEW t \in Tx, DropTable(t)
      PROVE  MemoryTypeOK'
  <2>1. Plain("DROP_TABLE") \in UndoEntry /\ NoTable \in Table
    BY DEF UndoEntry, Table
  <2>2. removed' \in [Tx -> SUBSET Row] /\ inserted' \subseteq Row
    BY <1>3 DEF DropTable, MemoryTypeOK
  <2> QED
    BY <1>3, <1>m, <2>1, <2>2, StatementTyped DEF DropTable
<1>4. ASSUME NEW t \in Tx, NEW r \in Row, Insert(t, r)
      PROVE  MemoryTypeOK'
  <2>1. InsertTuple({r}) \in UndoEntry /\ view[t] \cup {r} \in Table
    BY <1>4 DEF UndoEntry, Table, Insert, MemoryTypeOK
  <2>2. removed' \in [Tx -> SUBSET Row] /\ inserted' \subseteq Row
    BY <1>4 DEF Insert, MemoryTypeOK
  <2> QED
    BY <1>4, <1>m, <2>1, <2>2, StatementTyped DEF Insert
<1>5. ASSUME NEW t \in Tx, Query(t)
      PROVE  MemoryTypeOK'
  <2>1. Plain("QUERY") \in UndoEntry /\ {} \in Table
    BY DEF UndoEntry, Table
  <2>2. removed' \in [Tx -> SUBSET Row] /\ inserted' \subseteq Row
    <3>1. view[t] \in SUBSET Row
      BY <1>5 DEF Query, MemoryTypeOK, Table
    <3> QED
      BY <1>5, <3>1 DEF Query, MemoryTypeOK
  <2> QED
    BY <1>5, <1>m, <2>1, <2>2, StatementTyped DEF Query
<1>6. ASSUME NEW t \in Tx, FailedQuery(t)
      PROVE  MemoryTypeOK'
  <2>1. Plain("QUERY") \in UndoEntry /\ NoTable \in Table
    BY DEF UndoEntry, Table
  <2>2. removed' \in [Tx -> SUBSET Row] /\ inserted' \subseteq Row
    BY <1>6 DEF FailedQuery, MemoryTypeOK
  <2> QED
    BY <1>6, <1>m, <2>1, <2>2, StatementTyped DEF FailedQuery
<1>7. ASSUME NEW t \in Tx, RollbackTransaction(t)
      PROVE  MemoryTypeOK'
  <2>1. store' \in Table /\ transaction_lock' \in Tx \cup {NoTx}
    BY <1>7 DEF RollbackTransaction, MemoryTypeOK
  <2> QED
    BY <1>7, <1>m, <2>1, LeaveTyped DEF RollbackTransaction
<1>8. ASSUME NEW t \in Tx, CommitTransaction(t)
      PROVE  MemoryTypeOK'
  BY <1>8 DEF CommitTransaction, MemoryTypeOK, Live
<1>9. ASSUME NEW t \in Tx, WriteEntry(t)
      PROVE  MemoryTypeOK'
  BY <1>9 DEF WriteEntry, memory, MemoryTypeOK
<1>10. ASSUME NEW t \in Tx, WriteFlush(t)
       PROVE  MemoryTypeOK'
  BY <1>10 DEF WriteFlush, MemoryTypeOK, Live
<1>11. ASSUME NEW t \in Tx, Flush(t)
       PROVE  MemoryTypeOK'
  <2>1. store' \in Table /\ transaction_lock' \in Tx \cup {NoTx}
    BY <1>11, <1>m, AfterTyped DEF Flush
  <2> QED
    BY <1>11, <1>m, <2>1, LeaveTyped DEF Flush
<1>12. CASE Crash
  <2>1. /\ phase' \in [Tx -> Live \cup {"idle", "ended"}]
        /\ start' \in [Tx -> Table]
        /\ view' \in [Tx -> Table]
        /\ removed' \in [Tx -> SUBSET Row]
    BY <1>12 DEF Crash, MemoryTypeOK, Table
  <2>2. undo' \in [Tx -> Seq(UndoEntry)]
    BY <1>12 DEF Crash
  <2>3. crashes' \in 0..MaxCrashes
    BY <1>12, WALAssumption DEF Crash, MemoryTypeOK
  <2> QED
    BY <1>12, <2>1, <2>2, <2>3 DEF Crash, MemoryTypeOK, Table
<1>13. CASE Replay
  <2>1. \/ store' = store
        \/ store' \in ReplayedAll
    BY <1>13 DEF Replay, ReplayEnd, ReplayTorn, ReplayFlush, StoreEntry, StopReplay
  <2>2. ReplayedAll \subseteq Table
    <3>1. store \in TablesOf(Row) /\ TablesOf(Row) = Table
      BY DEF MemoryTypeOK, TablesOf, Table
    <3>2. stored_entries \in Seq(LogEntry)
      BY DEF LogTypeOK
    <3>3. \A i \in 1..Len(stored_entries) :
            stored_entries[i].type \in Doing /\ stored_entries[i].rows \subseteq Row
      BY <3>2, EntryTypes DEF WriterInv
    <3> QED
      BY <3>1, <3>2, <3>3, ReplayedAllWithin
  <2>3. mode' \in {"running", "replaying", "recovered"}
    BY <1>13 DEF Replay, ReplayEnd, ReplayTorn, ReplayFlush, StoreEntry, StopReplay, MemoryTypeOK
  <2>4. store' \in Table
    BY <2>1, <2>2 DEF MemoryTypeOK
  <2> QED
    BY <1>13, <2>3, <2>4 DEF Replay, MemoryTypeOK
<1>14. CASE Initialize
  BY <1>14 DEF Initialize, memory, MemoryTypeOK
<1> QED
  BY <1>1, <1>2, <1>3, <1>4, <1>5, <1>6, <1>7, <1>8, <1>9, <1>10, <1>11, <1>12, <1>13, <1>14
     DEF Next

\* What a crash leaves of a file: a beginning of it, and perhaps a torn entry.
LEMMA KeptFile ==
  ASSUME LogTypeOK, Crash
  PROVE  /\ file' \in Seq(LogEntry)
         /\ synced' = Len(file')
         /\ \E kept \in synced..Len(file) :
             /\ Len(file') = kept \/ (Len(file') = kept + 1 /\ file'[kept + 1] = Torn
                                      /\ kept < Len(file))
             /\ \A i \in 1..kept : file'[i] = file[i]
<1>1. PICK kept \in synced..Len(file) :
        file' \in {SubSeq(file, 1, kept)}
                  \cup (IF kept < Len(file) THEN {Append(SubSeq(file, 1, kept), Torn)}
                        ELSE {})
  BY DEF Crash
<1>2. file \in Seq(LogEntry) /\ synced \in Nat /\ Len(file) \in Nat /\ kept \in Nat
  BY DEF LogTypeOK
<1> DEFINE s == SubSeq(file, 1, kept)
<1>3. s \in Seq(LogEntry) /\ Len(s) = kept /\ \A i \in 1..kept : s[i] = file[i]
  BY <1>2
<1>4. synced' = Len(file')
  BY DEF Crash
<1> HIDE DEF s
<1>5. CASE file' = s
  BY <1>5, <1>3, <1>4
<1>6. CASE file' = Append(s, Torn) /\ kept < Len(file)
  <2>1. file' \in Seq(LogEntry) /\ Len(file') = kept + 1
    BY <1>6, <1>3, <1>2, EntryTypes
  <2>2. file'[kept + 1] = Torn /\ \A i \in 1..kept : file'[i] = s[i]
    BY <1>6, <1>3, <1>2, EntryTypes
  <2> QED
    BY <2>1, <2>2, <1>3, <1>4, <1>6
<1>7. file' = s \/ (file' = Append(s, Torn) /\ kept < Len(file))
  BY <1>1 DEF s
<1> QED
  BY <1>5, <1>6, <1>7

LEMMA LogTypeStep ==
  ASSUME TypeOK, WriterInv, Next
  PROVE  LogTypeOK' /\ IsFiniteSet(appends)'
<1> USE DEF TypeOK
<1>m. LogTypeOK /\ IsFiniteSet(appends)
  BY DEF WriterInv
<1>n. file \in Seq(LogEntry) /\ Len(file) \in Nat /\ synced \in 0..Len(file)
  BY DEF LogTypeOK
<1> DEFINE Same == UNCHANGED <<writer, log, replay>>
<1>0. CASE Same
  BY <1>0, <1>m DEF LogTypeOK, writer, log, replay
<1>1. ASSUME NEW t \in Tx, \/ BeginTransaction(t) \/ RollbackTransaction(t)
                           \/ CommitTransaction(t) \/ \E table, e : Statement(t, table, e)
      PROVE  Same
  BY <1>1 DEF BeginTransaction, RollbackTransaction, CommitTransaction, Statement
<1>2. ASSUME NEW t \in Tx, \/ CreateTable(t) \/ DropTable(t) \/ Query(t) \/ FailedQuery(t)
                           \/ \E r \in Row : Insert(t, r)
      PROVE  \E table, e : Statement(t, table, e)
  BY <1>2 DEF CreateTable, DropTable, Query, FailedQuery, Insert
<1>3. ASSUME NEW t \in Tx, WriteEntry(t)
      PROVE  LogTypeOK' /\ IsFiniteSet(appends)'
  <2>1. undo[t] \in Seq(UndoEntry) /\ visited \in Nat /\ visited < Len(undo[t])
    BY <1>3 DEF WriteEntry, MemoryTypeOK, LogTypeOK
  <2>2. PICK e \in UndoEntry : file' = file \o Logged(e).entries /\ appends' = Logged(e).appends
    BY <1>3, <2>1 DEF WriteEntry
  <2>3. /\ Logged(e).entries \in Seq(LogEntry)
        /\ Logged(e).appends \in SUBSET Row
        /\ IsFiniteSet(Logged(e).appends)
        /\ Cardinality(Logged(e).appends) <= VectorSize
    BY <1>m, LoggedTyped
  <2> DEFINE new == Logged(e).entries
  <2> HIDE DEF new
  <2>4. file \o new \in Seq(LogEntry) /\ Len(file \o new) = Len(file) + Len(new) /\ Len(new) \in Nat
    BY <1>n, <2>3 DEF new
  <2>5. file' = file \o new
    BY <2>2 DEF new
  <2>6. file' \in Seq(LogEntry) /\ Len(file') \in Nat /\ Len(file) <= Len(file')
    BY <2>4, <2>5, <1>n
  <2>7. visited' \in Nat /\ UNCHANGED <<synced, position, stored_entries>>
    BY <1>3, <2>1 DEF WriteEntry, replay
  <2>8. /\ IsFiniteSet(appends')
        /\ appends' \in SUBSET Row /\ Cardinality(appends') <= VectorSize
    BY <2>2, <2>3
  <2> QED
    BY <2>6, <2>7, <2>8, <1>n DEF LogTypeOK
<1>4. ASSUME NEW t \in Tx, WriteFlush(t)
      PROVE  LogTypeOK' /\ IsFiniteSet(appends)'
  <2> DEFINE new == Flushed(appends)
             mark == <<Plain("WAL_FLUSH")>>
  <2>1. new \in Seq(LogEntry) /\ mark \in Seq(LogEntry)
    BY FlushedTyped, EntryTypes DEF LogTypeOK
  <2>2. file' = file \o new \o mark
    BY <1>4 DEF WriteFlush
  <2> HIDE DEF new, mark
  <2>3. file \o new \in Seq(LogEntry) /\ Len(file \o new) = Len(file) + Len(new) /\ Len(new) \in Nat
    BY <1>n, <2>1
  <2>4. file' \in Seq(LogEntry) /\ Len(file') \in Nat /\ Len(file) <= Len(file')
    BY <2>1, <2>2, <2>3, <1>n
  <2>5. IsFiniteSet({}) /\ Cardinality({}) = 0
    BY FS_EmptySet
  <2>6. visited' = 0 /\ appends' = {} /\ UNCHANGED <<synced, position, stored_entries>>
    BY <1>4 DEF WriteFlush, replay
  <2> QED
    BY <2>4, <2>5, <2>6, <1>n, WALAssumption DEF LogTypeOK
<1>5. ASSUME NEW t \in Tx, Flush(t)
      PROVE  LogTypeOK' /\ IsFiniteSet(appends)'
  BY <1>5, <1>m DEF Flush, writer, replay, LogTypeOK
<1>6. CASE Crash
  <2>1. file' \in Seq(LogEntry) /\ synced' = Len(file')
    BY <1>6, KeptFile
  <2>2. visited' = 0 /\ appends' = {} /\ position' = 0 /\ stored_entries' = << >>
    BY <1>6 DEF Crash
  <2>3. IsFiniteSet({}) /\ Cardinality({}) = 0
    BY FS_EmptySet
  <2>4. Len(file') \in Nat
    BY <2>1
  <2> QED
    BY <2>1, <2>2, <2>3, <2>4, WALAssumption DEF LogTypeOK
<1>7. CASE Replay
  <2>1. UNCHANGED <<writer, log>>
    BY <1>7 DEF Replay
  <2>2. position' \in 0..Len(file) /\ stored_entries' \in Seq(LogEntry)
    <3>0. position \in 0..Len(file) /\ 0 \in 0..Len(file) /\ << >> \in Seq(LogEntry)
      BY <1>n DEF LogTypeOK
    <3>1. CASE ReplayFlush
      <4>1. stored_entries' = << >>
        BY <3>1 DEF ReplayFlush, StopReplay, CloseFile
      <4>2. position' = 0 \/ (position' = position + 1 /\ position < Len(file))
        BY <3>1 DEF ReplayFlush, StopReplay, CloseFile
      <4> QED
        BY <4>1, <4>2, <3>0, <1>n
    <3>2. CASE StoreEntry
      BY <3>2, <1>n DEF StoreEntry, LogTypeOK
    <3>3. CASE ReplayEnd \/ ReplayTorn
      BY <3>3, <3>0 DEF ReplayEnd, ReplayTorn, StopReplay, CloseFile
    <3> QED
      BY <3>1, <3>2, <3>3, <1>7 DEF Replay
  <2> QED
    BY <2>1, <2>2, <1>m DEF LogTypeOK, writer, log
<1>8. ASSUME Initialize
      PROVE  Same
  BY <1>8 DEF Initialize
<1> HIDE DEF Same
<1> QED
  BY <1>0, <1>1, <1>2, <1>3, <1>4, <1>5, <1>6, <1>7, <1>8 DEF Next

LEMMA HistoryTypeStep ==
  ASSUME TypeOK, Next
  PROVE  HistoryTypeOK'
<1> USE DEF TypeOK
<1>m. HistoryTypeOK
  OBVIOUS
<1>1. ASSUME NEW t \in Tx, \/ BeginTransaction(t) \/ CommitTransaction(t) \/ Flush(t)
      PROVE  HistoryTypeOK'
  BY <1>1 DEF BeginTransaction, CommitTransaction, Flush, history, HistoryTypeOK
<1>2. ASSUME NEW t \in Tx, \/ CreateTable(t) \/ DropTable(t) \/ Query(t) \/ FailedQuery(t)
                           \/ (\E r \in Row : Insert(t, r)) \/ RollbackTransaction(t)
      PROVE  HistoryTypeOK'
  <2>1. refused' \subseteq Tx
    BY <1>2 DEF CreateTable, DropTable, Query, FailedQuery, Insert, RollbackTransaction,
                HistoryTypeOK
  <2>2. UNCHANGED <<promised, absorbed, overlapped, reordered>>
    BY <1>2 DEF CreateTable, DropTable, Query, FailedQuery, Insert, RollbackTransaction,
                Statement
  <2> QED
    BY <2>1, <2>2 DEF HistoryTypeOK
<1>3. ASSUME NEW t \in Tx, WriteEntry(t) \/ WriteFlush(t)
      PROVE  HistoryTypeOK'
  <2>1. UNCHANGED <<promised, absorbed, refused>>
    BY <1>3 DEF WriteEntry, WriteFlush
  <2>2. reordered' \in BOOLEAN /\ overlapped' \in BOOLEAN
    <3>1. CASE WriteEntry(t)
      <4>1. overlapped' = overlapped /\ \E b \in BOOLEAN : reordered' = (reordered \/ b)
        BY <3>1, Zenon DEF WriteEntry
      <4> QED
        BY <4>1 DEF HistoryTypeOK
    <3>2. CASE WriteFlush(t)
      <4>1. reordered' = reordered /\ \E b \in BOOLEAN : overlapped' = (overlapped \/ b)
        BY <3>2, Zenon DEF WriteFlush
      <4> QED
        BY <4>1 DEF HistoryTypeOK
    <3> QED
      BY <3>1, <3>2, <1>3
  <2> QED
    BY <2>1, <2>2 DEF HistoryTypeOK
<1>4. CASE Crash
  <2>1. promised' \in SUBSET Table
    <3>1. {store} \cup {After(t) : t \in {u \in Tx : phase[u] = "syncing"}} \in SUBSET Table
      BY AfterTyped DEF MemoryTypeOK
    <3> QED
      BY <1>4, <3>1 DEF Crash, HistoryTypeOK
  <2> QED
    BY <1>4, <2>1 DEF Crash, HistoryTypeOK
<1>5. CASE Replay
  BY <1>5 DEF Replay, history, HistoryTypeOK
<1>6. CASE Initialize
  <2>1. absorbed' \in BOOLEAN
    <3>1. \E b \in BOOLEAN : absorbed' = (absorbed \/ b)
      BY <1>6, Zenon DEF Initialize
    <3> QED
      BY <3>1 DEF HistoryTypeOK
  <2> QED
    BY <1>6, <2>1 DEF Initialize, HistoryTypeOK
<1> QED
  BY <1>1, <1>2, <1>3, <1>4, <1>5, <1>6 DEF Next

-----------------------------------------------------------------------------
(* The lock, the locals of commit and replay, and the rows. *)

\* The steps of a client's statements.
Stating(t) ==
    \/ CreateTable(t) \/ DropTable(t) \/ Query(t) \/ FailedQuery(t)
    \/ \E r \in Row : Insert(t, r)

LEMMA StatingDoes ==
  ASSUME TypeOK, NEW t \in Tx, Stating(t)
  PROVE  /\ phase[t] = "running"
         /\ UNCHANGED <<mode, crashes, store, phase, start, transaction_lock, writer, log, replay>>
         /\ UNCHANGED <<promised, absorbed, overlapped, reordered>>
         /\ \A u \in Tx \ {t} : /\ view'[u] = view[u]
                                /\ undo'[u] = undo[u]
                                /\ removed'[u] = removed[u]
         /\ \E e \in UndoEntry :
               /\ undo'[t] = Append(undo[t], e)
               /\ e.rows \subseteq inserted'
         /\ inserted \subseteq inserted'
<1>t. /\ view \in [Tx -> Table] /\ undo \in [Tx -> Seq(UndoEntry)]
      /\ removed \in [Tx -> SUBSET Row]
  BY DEF TypeOK, MemoryTypeOK
<1>1. ASSUME NEW table, NEW e \in UndoEntry, Statement(t, table, e)
      PROVE  /\ phase[t] = "running"
             /\ UNCHANGED <<mode, crashes, store, phase, start, transaction_lock, writer, log, replay>>
             /\ UNCHANGED <<promised, absorbed, overlapped, reordered>>
             /\ \A u \in Tx \ {t} : view'[u] = view[u] /\ undo'[u] = undo[u]
             /\ undo'[t] = Append(undo[t], e)
  BY <1>1, <1>t DEF Statement
<1>2. Plain("CREATE_TABLE") \in UndoEntry /\ Plain("DROP_TABLE") \in UndoEntry
      /\ Plain("QUERY") \in UndoEntry /\ \A r \in Row : InsertTuple({r}) \in UndoEntry
  BY DEF UndoEntry
<1>3. /\ Plain("CREATE_TABLE").rows = {} /\ Plain("DROP_TABLE").rows = {}
      /\ Plain("QUERY").rows = {} /\ \A r \in Row : InsertTuple({r}).rows = {r}
  BY EntryTypes
<1>4. CASE CreateTable(t)
  BY <1>1, <1>2, <1>3, <1>4 DEF CreateTable
<1>5. CASE DropTable(t)
  BY <1>1, <1>2, <1>3, <1>5 DEF DropTable
<1>6. CASE Query(t)
  <2>1. \A u \in Tx \ {t} : removed'[u] = removed[u]
    BY <1>6, <1>t DEF Query
  <2> QED
    BY <1>1, <1>2, <1>3, <1>6, <2>1 DEF Query
<1>7. CASE FailedQuery(t)
  BY <1>1, <1>2, <1>3, <1>7 DEF FailedQuery
<1>8. ASSUME NEW r \in Row, Insert(t, r)
      PROVE  /\ phase[t] = "running"
             /\ UNCHANGED <<mode, crashes, store, phase, start, transaction_lock, writer, log, replay>>
             /\ UNCHANGED <<promised, absorbed, overlapped, reordered>>
             /\ \A u \in Tx \ {t} : /\ view'[u] = view[u]
                                    /\ undo'[u] = undo[u]
                                    /\ removed'[u] = removed[u]
             /\ \E e \in UndoEntry :
                   /\ undo'[t] = Append(undo[t], e)
                   /\ e.rows \subseteq inserted'
             /\ inserted \subseteq inserted'
  BY <1>1, <1>2, <1>3, <1>8 DEF Insert
<1> QED
  BY <1>4, <1>5, <1>6, <1>7, <1>8 DEF Stating

LEMMA LeaveDoes ==
  ASSUME TypeOK, NEW t \in Tx, Leave(t)
  PROVE  /\ phase'[t] = "ended" /\ start'[t] = NoTable /\ view'[t] = NoTable
         /\ removed'[t] = {} /\ undo'[t] = << >>
         /\ \A u \in Tx \ {t} : /\ phase'[u] = phase[u]
                                /\ start'[u] = start[u]
                                /\ view'[u] = view[u]
                                /\ removed'[u] = removed[u]
                                /\ undo'[u] = undo[u]
  BY DEF Leave, TypeOK, MemoryTypeOK

LEMMA CrashDoes ==
  ASSUME TypeOK, Crash, NEW t \in Tx
  PROVE  /\ phase'[t] = IF phase[t] \in Live THEN "ended" ELSE phase[t]
         /\ start'[t] = NoTable /\ view'[t] = NoTable
         /\ removed'[t] = {} /\ undo'[t] = << >>
  BY DEF Crash

LEMMA LockStep ==
  ASSUME TypeOK, LockInv, Next
  PROVE  LockInv'
<1>t. /\ phase \in [Tx -> Live \cup {"idle", "ended"}] /\ start \in [Tx -> Table]
      /\ view \in [Tx -> Table] /\ NoTx \notin Tx
  BY WALAssumption DEF TypeOK, MemoryTypeOK
<1>1. ASSUME NEW t \in Tx, BeginTransaction(t)
      PROVE  LockInv'
  BY <1>1, <1>t DEF BeginTransaction, LockInv, Live, Ending, history
<1>2. ASSUME NEW t \in Tx, Stating(t)
      PROVE  LockInv'
  <2>1. /\ phase[t] = "running"
        /\ UNCHANGED <<mode, phase, start, transaction_lock>>
        /\ \A u \in Tx \ {t} : /\ view'[u] = view[u]
                               /\ undo'[u] = undo[u]
                               /\ removed'[u] = removed[u]
    BY <1>2, StatingDoes
  <2>2. refused' \subseteq refused \cup {t}
    BY <1>2 DEF Stating, CreateTable, DropTable, Query, FailedQuery, Insert
  <2> QED
    BY <2>1, <2>2 DEF LockInv, Live
<1>3. ASSUME NEW t \in Tx, RollbackTransaction(t)
      PROVE  LockInv'
  <2>1. phase[t] = "running" /\ Leave(t) /\ UNCHANGED <<mode, transaction_lock>>
        /\ refused' \subseteq refused
    BY <1>3 DEF RollbackTransaction
  <2> QED
    BY <2>1, LeaveDoes DEF LockInv, Live, Ending, TypeOK, HistoryTypeOK
<1>4. ASSUME NEW t \in Tx, CommitTransaction(t)
      PROVE  LockInv'
  BY <1>4, <1>t DEF CommitTransaction, LockInv, Live, Ending, history
<1>5. ASSUME NEW t \in Tx, WriteEntry(t)
      PROVE  LockInv'
  BY <1>5 DEF WriteEntry, memory, LockInv
<1>6. ASSUME NEW t \in Tx, WriteFlush(t)
      PROVE  LockInv'
  BY <1>6, <1>t DEF WriteFlush, LockInv, Live, Ending
<1>7. ASSUME NEW t \in Tx, Flush(t)
      PROVE  LockInv'
  <2>1. phase[t] = "syncing" /\ Leave(t) /\ mode' = mode /\ transaction_lock' = NoTx
        /\ refused' = refused
    BY <1>7 DEF Flush, history
  <2>2. transaction_lock = t
    BY <2>1 DEF LockInv, Ending
  <2> QED
    BY <1>t, <2>1, <2>2, LeaveDoes DEF LockInv, Live, Ending, TypeOK, HistoryTypeOK
<1>8. CASE Crash
  <2>1. transaction_lock' = NoTx
    BY <1>8 DEF Crash
  <2>2. \A t \in Tx : phase'[t] \notin Live
    BY <1>8, CrashDoes DEF Live
  <2>3. \A t \in Tx : start'[t] = NoTable /\ view'[t] = NoTable /\ removed'[t] = {}
                      /\ undo'[t] = << >>
    BY <1>8, CrashDoes
  <2>4. \A t \in refused' : phase'[t] # "idle"
    BY <1>8, CrashDoes DEF Crash, LockInv, TypeOK, HistoryTypeOK
  <2> QED
    BY <1>t, <2>1, <2>2, <2>3, <2>4 DEF LockInv, Live, Ending
<1>9. CASE Replay
  <2>1. mode = "replaying" /\ mode' \in {"replaying", "recovered"}
        /\ UNCHANGED <<phase, start, view, removed, undo, transaction_lock, refused>>
    BY <1>9 DEF Replay, history, ReplayEnd, ReplayTorn, ReplayFlush, StoreEntry, StopReplay
  <2> QED
    BY <2>1 DEF LockInv
<1>10. CASE Initialize
  BY <1>10 DEF Initialize, memory, LockInv
<1> QED
  BY <1>1, <1>2, <1>3, <1>4, <1>5, <1>6, <1>7, <1>8, <1>9, <1>10 DEF Next, Stating

LEMMA WriterStep ==
  ASSUME TypeOK, LockInv, WriterInv, Next
  PROVE  WriterInv'
<1>f. IsFiniteSet(appends)'
  BY LogTypeStep
<1>t. /\ phase \in [Tx -> Live \cup {"idle", "ended"}]
      /\ undo \in [Tx -> Seq(UndoEntry)] /\ NoTx \notin Tx
      /\ visited \in Nat /\ stored_entries \in Seq(LogEntry) /\ file \in Seq(LogEntry)
  BY WALAssumption DEF TypeOK, MemoryTypeOK, LogTypeOK
<1>1. ASSUME NEW t \in Tx, BeginTransaction(t)
      PROVE  WriterInv'
  BY <1>f, <1>1, <1>t DEF BeginTransaction, WriterInv, Ending, writer, log, replay
<1>2. ASSUME NEW t \in Tx, Stating(t)
      PROVE  WriterInv'
  <2>1. /\ phase[t] = "running"
        /\ UNCHANGED <<mode, phase, writer, log, replay>>
        /\ \A u \in Tx \ {t} : undo'[u] = undo[u]
    BY <1>2, StatingDoes
  <2> QED
    BY <1>f, <2>1 DEF WriterInv, writer, log, replay
<1>3. ASSUME NEW t \in Tx, RollbackTransaction(t)
      PROVE  WriterInv'
  <2>1. phase[t] = "running" /\ Leave(t) /\ UNCHANGED <<mode, writer, log, replay>>
    BY <1>3 DEF RollbackTransaction
  <2> QED
    BY <1>f, <2>1, LeaveDoes DEF WriterInv, Ending, writer, log, replay
<1>4. ASSUME NEW t \in Tx, CommitTransaction(t)
      PROVE  WriterInv'
  <2>1. \A u \in Tx : phase[u] \notin Ending
    BY <1>4, <1>t DEF CommitTransaction, LockInv
  <2>2. visited = 0 /\ appends = {} /\ synced = Len(file)
    BY <2>1 DEF WriterInv, Ending
  <2>3. Len(undo[t]) \in Nat
    BY <1>t
  <2> QED
    BY <1>f, <1>4, <1>t, <2>1, <2>2, <2>3
       DEF CommitTransaction, WriterInv, Ending, writer, log, replay
<1>5. ASSUME NEW t \in Tx, WriteEntry(t)
      PROVE  WriterInv'
  <2>1. /\ phase[t] = "logging" /\ visited < Len(undo[t]) /\ visited' = visited + 1
        /\ UNCHANGED <<mode, phase, undo, replay>>
    BY <1>5 DEF WriteEntry, memory
  <2>2. \A u \in Tx : phase[u] = "logging" => u = t
    BY <2>1 DEF LockInv, Ending
  <2>3. Len(undo[t]) \in Nat
    BY <1>t
  <2> QED
    BY <1>f, <1>t, <2>1, <2>2, <2>3 DEF WriterInv, Ending, replay
<1>6. ASSUME NEW t \in Tx, WriteFlush(t)
      PROVE  WriterInv'
  <2>1. /\ phase[t] = "logging" /\ phase' = [phase EXCEPT ![t] = "syncing"]
        /\ visited' = 0 /\ appends' = {} /\ UNCHANGED <<mode, undo, replay>>
    BY <1>6 DEF WriteFlush
  <2>2. \A u \in Tx : phase[u] = "logging" => u = t
    BY <2>1 DEF LockInv, Ending
  <2>3. \A u \in Tx : phase'[u] # "logging"
    BY <1>t, <2>1, <2>2
  <2>4. phase'[t] \in Ending
    BY <1>t, <2>1 DEF Ending
  <2> QED
    BY <1>f, <2>1, <2>3, <2>4 DEF WriterInv, replay
<1>7. ASSUME NEW t \in Tx, Flush(t)
      PROVE  WriterInv'
  <2>1. phase[t] = "syncing" /\ Leave(t) /\ UNCHANGED <<mode, writer, file, replay>>
        /\ synced' = Len(file)
    BY <1>7 DEF Flush
  <2>2. \A u \in Tx : phase[u] # "logging"
    BY <2>1 DEF LockInv, Ending
  <2>3. \A u \in Tx : phase'[u] # "logging"
    BY <2>1, <2>2, LeaveDoes
  <2> QED
    BY <1>f, <2>1, <2>2, <2>3 DEF WriterInv, writer, replay
<1>8. CASE Crash
  <2>1. /\ visited' = 0 /\ appends' = {} /\ stored_entries' = << >> /\ mode' = "replaying"
        /\ synced' = Len(file')
    BY <1>8, KeptFile DEF Crash, TypeOK
  <2>2. \A t \in Tx : phase'[t] # "logging"
    BY <1>8, CrashDoes DEF Live
  <2> QED
    BY <1>f, <2>1, <2>2 DEF WriterInv
<1>9. CASE Replay
  <2>1. UNCHANGED <<phase, undo, writer, log>>
    BY <1>9 DEF Replay
  <2>2. mode' # "replaying" => position' = 0 /\ stored_entries' = << >>
    BY <1>9 DEF Replay, ReplayEnd, ReplayTorn, ReplayFlush, StoreEntry, StopReplay, CloseFile
  <2>3. ASSUME NEW i \in 1..Len(stored_entries')
        PROVE  stored_entries'[i].type \in Doing
    <3>1. CASE StoreEntry
      <4>1. PICK e \in LogEntry : stored_entries' = Append(stored_entries, e)
                                  /\ e.type \notin {"WAL_FLUSH", "TORN"}
        BY <3>1, <1>t DEF StoreEntry, TypeOK, LogTypeOK
      <4>2. e.type \in Doing
        BY <4>1, EntryTypes
      <4> QED
        BY <4>1, <4>2, <1>t DEF WriterInv
    <3>2. CASE ReplayEnd \/ ReplayTorn \/ ReplayFlush
      BY <3>2 DEF ReplayEnd, ReplayTorn, ReplayFlush, StopReplay, CloseFile
    <3> QED
      BY <3>1, <3>2, <1>9 DEF Replay
  <2> QED
    BY <1>f, <2>1, <2>2, <2>3 DEF WriterInv, writer, log
<1>10. CASE Initialize
  BY <1>f, <1>10 DEF Initialize, memory, writer, log, replay, WriterInv
<1> QED
  BY <1>1, <1>2, <1>3, <1>4, <1>5, <1>6, <1>7, <1>8, <1>9, <1>10 DEF Next, Stating

\* The log with the waiting tuples behind it, if there are any.
Behind(mid) ==
    \/ appends = {} /\ mid = file
    \/ appends # {} /\ mid = Append(file, InsertTuple(appends))

LEMMA FlushedBehind ==
  ASSUME LogTypeOK, NEW s \in Seq(LogEntry)
  PROVE  /\ Behind(file \o Flushed(appends))
         /\ file \o Flushed(appends) \in Seq(LogEntry)
         /\ file \o << >> = file
         /\ \A e \in LogEntry : file \o <<e>> = Append(file, e)
         /\ \A e \in LogEntry :
               /\ file \o Append(Flushed(appends), e) = Append(file \o Flushed(appends), e)
               /\ file \o Flushed(appends) \o <<e>> = Append(file \o Flushed(appends), e)
<1>1. file \in Seq(LogEntry) /\ appends \in SUBSET Row
  BY DEF LogTypeOK
<1>2. \A x \in Seq(LogEntry), e \in LogEntry : x \o <<e>> = Append(x, e)
  OBVIOUS
<1>3. file \o << >> = file
  BY <1>1
<1>4. InsertTuple(appends) \in LogEntry
  BY <1>1, EntryTypes
<1>5. Flushed(appends) \in Seq(LogEntry)
  BY <1>1, FlushedTyped
<1>6. Behind(file \o Flushed(appends))
  <2>1. CASE appends = {}
    <3>1. Flushed(appends) = << >>
      BY <2>1 DEF Flushed
    <3> QED
      BY <2>1, <3>1, <1>3 DEF Behind
  <2>2. CASE appends # {}
    <3>1. Flushed(appends) = <<InsertTuple(appends)>>
      BY <2>2 DEF Flushed
    <3>2. file \o <<InsertTuple(appends)>> = Append(file, InsertTuple(appends))
      BY <1>1, <1>2, <1>4
    <3> QED
      BY <2>2, <3>1, <3>2 DEF Behind
  <2> QED
    BY <2>1, <2>2
<1>7. file \o Flushed(appends) \in Seq(LogEntry)
  BY <1>1, <1>5
<1>8. ASSUME NEW e \in LogEntry
      PROVE  file \o Append(Flushed(appends), e) = Append(file \o Flushed(appends), e)
  <2> DEFINE x == Flushed(appends)
  <2> HIDE DEF x
  <2>1. x \in Seq(LogEntry)
    BY <1>5 DEF x
  <2>2. file \o Append(x, e) = Append(file \o x, e)
    BY <1>1, <2>1
  <2> QED
    BY <2>2 DEF x
<1> QED
  BY <1>1, <1>2, <1>3, <1>6, <1>7, <1>8

\* What is written for the next entry of a commit, and what waits then.
LEMMA WriteEntryDoes ==
  ASSUME TypeOK, NEW t \in Tx, WriteEntry(t)
  PROVE  \E e \in UndoEntry, mid \in Seq(LogEntry) :
            /\ visited + 1 \in 1..Len(undo[t]) /\ e = undo[t][visited + 1]
            /\ Behind(mid)
            /\ \/ /\ e.type = "INSERT_TUPLE" /\ file' = file
                  /\ appends' = appends \cup e.rows
               \/ /\ e.type = "INSERT_TUPLE" /\ file' = mid /\ Cardinality(appends) = VectorSize
                  /\ appends' = e.rows
               \/ /\ e.type = "QUERY" /\ file' = Append(mid, e)
                  /\ appends' = {}
               \/ /\ e.type \notin {"INSERT_TUPLE", "QUERY"} /\ file' = Append(file, e)
                  /\ appends' = appends
            /\ reordered' = (reordered \/ (e.type = "DROP_TABLE" /\ appends' # {}))
<1>1. /\ undo[t] \in Seq(UndoEntry) /\ visited \in Nat /\ visited < Len(undo[t])
      /\ file \in Seq(LogEntry) /\ appends \in SUBSET Row
  BY DEF WriteEntry, TypeOK, MemoryTypeOK, LogTypeOK
<1>2. visited + 1 \in 1..Len(undo[t]) /\ undo[t][visited + 1] \in UndoEntry
  BY <1>1
<1>3. PICK e \in UndoEntry : /\ e = undo[t][visited + 1]
                             /\ file' = file \o Logged(e).entries /\ appends' = Logged(e).appends
                             /\ reordered' = (reordered \/ (e.type = "DROP_TABLE" /\ appends' # {}))
  BY <1>2 DEF WriteEntry
<1> DEFINE mid == file \o Flushed(appends)
<1>4. /\ Behind(mid)
      /\ mid \in Seq(LogEntry)
      /\ file \o << >> = file
      /\ file \o <<e>> = Append(file, e)
      /\ file \o Append(Flushed(appends), e) = Append(mid, e)
  BY FlushedBehind, EntryTypes, <1>1 DEF TypeOK
<1>5. CASE e.type = "INSERT_TUPLE" /\ Cardinality(appends) = VectorSize
  <2>1. file' = mid /\ appends' = e.rows
    BY <1>3, <1>5, LoggedCases
  <2> HIDE DEF mid
  <2> QED
    BY <1>2, <1>3, <1>4, <1>5, <2>1
<1>6. CASE e.type = "INSERT_TUPLE" /\ Cardinality(appends) # VectorSize
  <2>1. file' = file /\ appends' = appends \cup e.rows
    BY <1>3, <1>4, <1>6, LoggedCases
  <2> HIDE DEF mid
  <2> QED
    BY <1>2, <1>3, <1>4, <1>6, <2>1
<1>7. CASE e.type = "QUERY"
  <2>1. file' = Append(mid, e) /\ appends' = {}
    BY <1>3, <1>4, <1>7, LoggedCases
  <2> HIDE DEF mid
  <2> QED
    BY <1>2, <1>3, <1>4, <1>7, <2>1
<1>8. CASE e.type \notin {"INSERT_TUPLE", "QUERY"}
  <2>1. Logged(e) = [entries |-> <<e>>, appends |-> appends]
    BY <1>8, LoggedCases
  <2>2. file' = Append(file, e) /\ appends' = appends
    BY <1>3, <1>4, <2>1
  <2> HIDE DEF mid
  <2> QED
    BY <1>2, <1>3, <1>4, <1>8, <2>2
<1> QED
  BY <1>5, <1>6, <1>7, <1>8

LEMMA WriteFlushDoes ==
  ASSUME TypeOK, NEW t \in Tx, WriteFlush(t)
  PROVE  \E mid \in Seq(LogEntry) : Behind(mid) /\ file' = Append(mid, Plain("WAL_FLUSH"))
<1>1. file \in Seq(LogEntry) /\ Plain("WAL_FLUSH") \in LogEntry
  BY EntryTypes DEF TypeOK, LogTypeOK
<1> QED
  BY <1>1, FlushedBehind DEF TypeOK, WriteFlush

LEMMA WithinAppended ==
  ASSUME NEW S, NEW s \in Seq(S), NEW e \in S, NEW rows, Within(s, rows), e.rows \subseteq rows
  PROVE  Within(Append(s, e), rows)
  BY DEF Within

LEMMA WithinMore ==
  ASSUME NEW s, NEW rows, NEW more, Within(s, rows), rows \subseteq more
  PROVE  Within(s, more)
  BY DEF Within

LEMMA AfterWithin ==
  ASSUME RowsInv, NEW t \in Tx
  PROVE  After(t) \in TablesOf(inserted)
<1>1. store \in TablesOf(inserted) /\ view[t] \in TablesOf(inserted)
  BY DEF RowsInv
<1>2. CASE NoTable \notin {store, view[t]}
  <2>1. store \in SUBSET inserted /\ view[t] \in SUBSET inserted
    BY <1>1, <1>2 DEF TablesOf
  <2>2. (store \ removed[t]) \cup (view[t] \ start[t]) \in SUBSET inserted
    BY <2>1
  <2> QED
    BY <1>1, <2>2 DEF After, TablesOf
<1>3. CASE NoTable \in {store, view[t]}
  BY <1>1, <1>3 DEF After
<1> QED
  BY <1>2, <1>3

LEMMA BehindWithin ==
  ASSUME TypeOK, RowsInv, NEW mid \in Seq(LogEntry), Behind(mid)
  PROVE  Within(mid, inserted)
<1>1. file \in Seq(LogEntry) /\ Within(file, inserted) /\ appends \subseteq inserted
      /\ InsertTuple(appends) \in LogEntry /\ InsertTuple(appends).rows = appends
  BY EntryTypes DEF TypeOK, LogTypeOK, RowsInv
<1> QED
  BY <1>1, WithinAppended DEF Behind

\* What a statement makes of the tables that are seen.
LEMMA StatingRows ==
  ASSUME TypeOK, RowsInv, NEW t \in Tx, Stating(t)
  PROVE  view'[t] \in TablesOf(inserted')
<1>1. view \in [Tx -> Table] /\ view[t] \in TablesOf(inserted)
  BY DEF TypeOK, MemoryTypeOK, RowsInv
<1>2. CASE CreateTable(t) \/ DropTable(t) \/ Query(t) \/ FailedQuery(t)
  BY <1>1, <1>2 DEF CreateTable, DropTable, Query, FailedQuery, Statement, TablesOf
<1>3. ASSUME NEW r \in Row, Insert(t, r)
      PROVE  view'[t] \in TablesOf(inserted')
  BY <1>1, <1>3 DEF Insert, Statement, TablesOf
<1> QED
  BY <1>2, <1>3 DEF Stating

LEMMA RowsStep ==
  ASSUME TypeOK, WriterInv, RowsInv, Next
  PROVE  RowsInv'
<1>t. /\ start \in [Tx -> Table] /\ view \in [Tx -> Table] /\ undo \in [Tx -> Seq(UndoEntry)]
      /\ file \in Seq(LogEntry) /\ stored_entries \in Seq(LogEntry)
  BY DEF TypeOK, MemoryTypeOK, LogTypeOK
<1>1. ASSUME NEW t \in Tx, BeginTransaction(t)
      PROVE  RowsInv'
  BY <1>1, <1>t DEF BeginTransaction, RowsInv, writer, log, replay
<1>2. ASSUME NEW t \in Tx, Stating(t)
      PROVE  RowsInv'
  <2>1. /\ UNCHANGED <<store, start, writer, log, replay>>
        /\ \A u \in Tx \ {t} : view'[u] = view[u] /\ undo'[u] = undo[u]
        /\ inserted \subseteq inserted'
    BY <1>2, StatingDoes
  <2>2. PICK e \in UndoEntry : undo'[t] = Append(undo[t], e) /\ e.rows \subseteq inserted'
    BY <1>2, StatingDoes
  <2>3. TablesOf(inserted) \subseteq TablesOf(inserted')
    BY <2>1 DEF TablesOf
  <2>4. \A u \in Tx : Within(undo[u], inserted')
    BY <2>1, WithinMore DEF RowsInv
  <2>5. \A u \in Tx : Within(undo'[u], inserted')
    <3>1. undo[t] \in Seq(UndoEntry)
      BY <1>t
    <3>2. Within(undo'[t], inserted')
      BY <3>1, <2>2, <2>4, WithinAppended
    <3> QED
      BY <3>2, <2>1, <2>4
  <2>6. Within(file, inserted') /\ Within(stored_entries, inserted')
    BY <2>1, WithinMore DEF RowsInv
  <2>7. view'[t] \in TablesOf(inserted')
    BY <1>2, StatingRows
  <2>8. \A u \in Tx : start'[u] \in TablesOf(inserted') /\ view'[u] \in TablesOf(inserted')
    BY <2>1, <2>3, <2>7 DEF RowsInv
  <2>9. store' \in TablesOf(inserted') /\ appends' \subseteq inserted'
    BY <2>1, <2>3 DEF RowsInv, writer
  <2> QED
    BY <2>1, <2>5, <2>6, <2>8, <2>9 DEF RowsInv, log, replay
<1>3. ASSUME NEW t \in Tx, RollbackTransaction(t)
      PROVE  RowsInv'
  <2>1. Leave(t) /\ UNCHANGED <<store, inserted, writer, log, replay>>
    BY <1>3 DEF RollbackTransaction, Leave
  <2> QED
    BY <2>1, LeaveDoes DEF RowsInv, TablesOf, Within, writer, log, replay
<1>4. ASSUME NEW t \in Tx, CommitTransaction(t)
      PROVE  RowsInv'
  BY <1>4 DEF CommitTransaction, RowsInv, writer, log, replay
<1>5. ASSUME NEW t \in Tx, WriteEntry(t)
      PROVE  RowsInv'
  <2>1. PICK e \in UndoEntry, mid \in Seq(LogEntry) :
            /\ visited + 1 \in 1..Len(undo[t]) /\ e = undo[t][visited + 1]
            /\ Behind(mid)
            /\ file' \in {file, mid, Append(mid, e), Append(file, e)}
            /\ appends' \in {appends \cup e.rows, e.rows, {}, appends}
    BY <1>5, WriteEntryDoes
  <2>2. e.rows \subseteq inserted
    BY <2>1 DEF RowsInv, Within
  <2>3. Within(mid, inserted) /\ e \in LogEntry
    BY <2>1, BehindWithin, EntryTypes
  <2>4. Within(file, inserted)
    BY DEF RowsInv
  <2>5. Within(Append(mid, e), inserted) /\ Within(Append(file, e), inserted)
    BY <1>t, <2>2, <2>3, <2>4, WithinAppended
  <2>6. Within(file', inserted)
    BY <2>1, <2>3, <2>4, <2>5
  <2>7. appends' \subseteq inserted
    BY <2>1, <2>2 DEF RowsInv
  <2>8. UNCHANGED <<store, start, view, undo, inserted, stored_entries>>
    BY <1>5 DEF WriteEntry, memory, replay
  <2> QED
    BY <2>6, <2>7, <2>8 DEF RowsInv
<1>6. ASSUME NEW t \in Tx, WriteFlush(t)
      PROVE  RowsInv'
  <2>1. PICK mid \in Seq(LogEntry) : Behind(mid) /\ file' = Append(mid, Plain("WAL_FLUSH"))
    BY <1>6, WriteFlushDoes
  <2>2. Within(mid, inserted)
    BY <2>1, BehindWithin
  <2>3. Plain("WAL_FLUSH") \in LogEntry /\ Plain("WAL_FLUSH").rows = {}
    BY EntryTypes
  <2>4. Within(file', inserted)
    BY <2>1, <2>2, <2>3, WithinAppended
  <2>5. appends' = {} /\ UNCHANGED <<store, start, view, undo, inserted, stored_entries>>
    BY <1>6 DEF WriteFlush, replay
  <2> QED
    BY <2>4, <2>5 DEF RowsInv
<1>7. ASSUME NEW t \in Tx, Flush(t)
      PROVE  RowsInv'
  <2>1. Leave(t) /\ store' = After(t) /\ UNCHANGED <<inserted, writer, file, replay>>
    BY <1>7 DEF Flush, Leave
  <2>2. store' \in TablesOf(inserted)
    BY <2>1, AfterWithin
  <2> QED
    BY <2>1, <2>2, LeaveDoes DEF RowsInv, TablesOf, Within, writer, replay
<1>8. CASE Crash
  <2>1. PICK kept \in synced..Len(file) :
          /\ Len(file') = kept \/ (Len(file') = kept + 1 /\ file'[kept + 1] = Torn
                                   /\ kept < Len(file))
          /\ \A i \in 1..kept : file'[i] = file[i]
    BY <1>8, KeptFile DEF TypeOK
  <2>2. Torn.rows = {} /\ synced \in Nat /\ Len(file) \in Nat /\ kept \in Nat
    BY <1>t, EntryTypes DEF TypeOK, LogTypeOK
  <2>3. Within(file', inserted)
    BY <2>1, <2>2 DEF Within, RowsInv
  <2>4. store' = NoTable /\ appends' = {} /\ stored_entries' = << >> /\ inserted' = inserted
    BY <1>8 DEF Crash
  <2> QED
    BY <1>8, <2>3, <2>4, CrashDoes DEF RowsInv, TablesOf, Within
<1>9. CASE Replay
  <2>1. UNCHANGED <<start, view, undo, inserted, writer, log>>
    BY <1>9 DEF Replay
  <2>2. \/ store' = store
        \/ store' \in ReplayedAll
    BY <1>9 DEF Replay, ReplayEnd, ReplayTorn, ReplayFlush, StoreEntry, StopReplay
  <2>3. ReplayedAll \subseteq TablesOf(inserted)
    BY <1>t, ReplayedAllWithin DEF RowsInv, WriterInv, Within
  <2>4. Within(stored_entries', inserted)
    <3>1. CASE StoreEntry
      <4>1. position + 1 \in 1..Len(file) /\ stored_entries' = Append(stored_entries, file[position + 1])
        BY <3>1, <1>t DEF StoreEntry, TypeOK, LogTypeOK
      <4>2. file[position + 1] \in LogEntry /\ file[position + 1].rows \subseteq inserted
        BY <4>1, <1>t DEF RowsInv, Within
      <4> QED
        BY <4>1, <4>2, <1>t, WithinAppended DEF RowsInv
    <3>2. CASE ReplayEnd \/ ReplayTorn \/ ReplayFlush
      BY <3>2 DEF ReplayEnd, ReplayTorn, ReplayFlush, StopReplay, CloseFile, Within
    <3> QED
      BY <3>1, <3>2, <1>9 DEF Replay
  <2>5. store' \in TablesOf(inserted)
    BY <2>2, <2>3 DEF RowsInv
  <2> QED
    BY <2>1, <2>4, <2>5 DEF RowsInv, writer, log
<1>10. CASE Initialize
  BY <1>10 DEF Initialize, memory, writer, log, replay, RowsInv
<1> QED
  BY <1>1, <1>2, <1>3, <1>4, <1>5, <1>6, <1>7, <1>8, <1>9, <1>10 DEF Next, Stating

-----------------------------------------------------------------------------
(* What the statements of a transaction have done so far. *)

\* t has removed only what queries removed, and the rows it has inserted are new
\* to it; what it sees follows from the kinds of its statements, and its undo
\* buffer leads there, unless one of its queries failed.
Stated(t) ==
    /\ start[t] # NoTable => \A i \in 1..Len(undo[t]) : undo[t][i].rows \cap start[t] = {}
    /\ ~Changes(t, "QUERY") => removed[t] = {}
    /\ ~Changes(t, "CREATE_TABLE") /\ ~Changes(t, "DROP_TABLE") /\ start[t] # NoTable =>
         view[t] # NoTable /\ view[t] \cap start[t] = start[t] \ removed[t]
    /\ ~Changes(t, "CREATE_TABLE") /\ Changes(t, "DROP_TABLE") => view[t] = NoTable
    /\ ~Changes(t, "CREATE_TABLE") /\ start[t] = NoTable /\ t \notin refused =>
         undo[t] = << >> /\ view[t] = NoTable
    /\ t \notin refused => Leads(undo[t], 0, Len(undo[t]), start[t], view[t])

StatedInv == \A t \in Tx : phase[t] \in Live => Stated(t)

\* A table that a running transaction has created is the only one there is.
CreatedInv ==
    \A t \in Tx :
        phase[t] \in Live /\ Changes(t, "CREATE_TABLE") =>
            /\ store = NoTable
            /\ view[t] # NoTable
            /\ \A u \in Others(t) : view[u] = NoTable

LEMMA StatedSame ==
  ASSUME NEW t \in Tx, Stated(t), start'[t] = start[t], view'[t] = view[t],
         removed'[t] = removed[t], undo'[t] = undo[t], t \in refused => t \in refused'
  PROVE  Stated(t)'
<1>1. \A type : Changes(t, type)' <=> Changes(t, type)
  BY DEF Changes
<1> QED
  BY <1>1 DEF Stated

LEMMA ChangesAppended ==
  ASSUME TypeOK, NEW t \in Tx, NEW e \in UndoEntry, undo'[t] = Append(undo[t], e)
  PROVE  \A type : Changes(t, type)' <=> Changes(t, type) \/ e.type = type
<1>1. undo[t] \in Seq(UndoEntry)
  BY DEF TypeOK, MemoryTypeOK
<1>2. Len(undo'[t]) = Len(undo[t]) + 1 /\ undo'[t][Len(undo[t]) + 1] = e /\ Len(undo[t]) \in Nat
      /\ \A i \in 1..Len(undo[t]) : undo'[t][i] = undo[t][i]
  BY <1>1
<1> QED
  BY <1>2 DEF Changes

\* A longer sequence leads one step further.
LEMMA LeadsAppended ==
  ASSUME NEW S, NEW s \in Seq(S), NEW e \in S, NEW m \in Nat, m <= Len(s),
         NEW a, NEW b, NEW c \in Table, Leads(s, m, Len(s), a, b), Step(b, e, c)
  PROVE  Leads(Append(s, e), m, Len(s) + 1, a, c)
<1> DEFINE u == Append(s, e)
<1>1. Len(s) \in Nat /\ u[Len(s) + 1] = e /\ \A i \in 1..Len(s) : u[i] = s[i]
  OBVIOUS
<1> HIDE DEF u
<1>2. \A i \in m + 1..Len(s) : u[i] = s[i]
  BY <1>1
<1>3. Leads(u, m, Len(s), a, b)
  BY <1>1, <1>2, LeadsSame
<1>4. Leads(u, m, Len(s) + 1, a, c)
  BY <1>1, <1>3, LeadsOn
<1> QED
  BY <1>4 DEF u

\* The undo buffer of a statement leads to what its transaction sees then.
LEMMA UndoLeads ==
  ASSUME TypeOK, NEW t \in Tx, NEW e \in UndoEntry, undo'[t] = Append(undo[t], e),
         start'[t] = start[t], view'[t] \in Table, view'[t] \in Replayed(view[t], e),
         Leads(undo[t], 0, Len(undo[t]), start[t], view[t])
  PROVE  Leads(undo'[t], 0, Len(undo'[t]), start'[t], view'[t])
<1>1. undo[t] \in Seq(UndoEntry)
  BY DEF TypeOK, MemoryTypeOK
<1>2. Step(view[t], e, view'[t])
  BY EntryTypes DEF Step, Doing
<1>3. 0 \in Nat /\ 0 <= Len(undo[t]) /\ Len(undo'[t]) = Len(undo[t]) + 1
  BY <1>1
<1>4. \A a, b, c : c \in Table /\ Leads(undo[t], 0, Len(undo[t]), a, b) /\ Step(b, e, c) =>
        Leads(Append(undo[t], e), 0, Len(undo[t]) + 1, a, c)
  BY <1>1, <1>3, LeadsAppended
<1>5. Leads(Append(undo[t], e), 0, Len(undo[t]) + 1, start[t], view'[t])
  BY <1>2, <1>4
<1> QED
  BY <1>3, <1>5

LEMMA StatingStated ==
  ASSUME TypeOK, RowsInv, NEW t \in Tx, Stated(t), Stating(t)
  PROVE  Stated(t)'
<1>t. /\ undo[t] \in Seq(UndoEntry) /\ view \in [Tx -> Table] /\ undo \in [Tx -> Seq(UndoEntry)]
      /\ removed \in [Tx -> SUBSET Row] /\ view[t] \in Table /\ start[t] \in Table
      /\ {} \in Table /\ NoTable \in Table /\ {} # NoTable
  BY NoTableIsNoSet DEF TypeOK, MemoryTypeOK, Table
<1> DEFINE Does(e, table) == /\ undo'[t] = Append(undo[t], e)
                             /\ start'[t] = start[t]
                             /\ view'[t] = table
<1>1. ASSUME NEW e \in UndoEntry, NEW table, Statement(t, table, e)
      PROVE  Does(e, table)
  BY <1>1, <1>t DEF Statement
<1> HIDE DEF Does
\* What is the same for every statement, and what is left to show for each.
<1>2. ASSUME NEW e \in UndoEntry, NEW table \in Table, Does(e, table),
             start[t] # NoTable => e.rows \cap start[t] = {},
             ~Changes(t, "QUERY") /\ e.type # "QUERY" => removed'[t] = {},
             (/\ ~Changes(t, "CREATE_TABLE") /\ ~Changes(t, "DROP_TABLE")
              /\ e.type \notin {"CREATE_TABLE", "DROP_TABLE"} /\ start[t] # NoTable) =>
                 table # NoTable /\ table \cap start[t] = start[t] \ removed'[t],
             (/\ ~Changes(t, "CREATE_TABLE") /\ e.type # "CREATE_TABLE"
              /\ Changes(t, "DROP_TABLE") \/ e.type = "DROP_TABLE") =>
                 table = NoTable,
             (/\ ~Changes(t, "CREATE_TABLE") /\ e.type # "CREATE_TABLE"
              /\ start[t] = NoTable) => t \in refused',
             t \notin refused' => t \notin refused /\ table \in Replayed(view[t], e)
      PROVE  Stated(t)'
  <2>1. \A type : Changes(t, type)' <=> Changes(t, type) \/ e.type = type
    BY <1>2, ChangesAppended DEF Does
  <2>2. start'[t] # NoTable => \A i \in 1..Len(undo'[t]) : undo'[t][i].rows \cap start'[t] = {}
    <3>1. Len(undo'[t]) = Len(undo[t]) + 1 /\ undo'[t][Len(undo[t]) + 1] = e
          /\ Len(undo[t]) \in Nat /\ \A i \in 1..Len(undo[t]) : undo'[t][i] = undo[t][i]
      BY <1>2, <1>t DEF Does
    <3> QED
      BY <3>1, <1>2 DEF Stated, Does
  <2>3. t \notin refused' => Leads(undo'[t], 0, Len(undo'[t]), start'[t], view'[t])
    BY <1>2, UndoLeads DEF Stated, Does
  <2>4. /\ start'[t] = start[t] /\ view'[t] = table
    BY <1>2 DEF Does
  <2> QED
    BY <2>1, <2>2, <2>3, <2>4, <1>2 DEF Stated
<1>s. /\ ~Changes(t, "QUERY") => removed[t] = {}
      /\ ~Changes(t, "CREATE_TABLE") /\ ~Changes(t, "DROP_TABLE") /\ start[t] # NoTable =>
           view[t] # NoTable /\ view[t] \cap start[t] = start[t] \ removed[t]
      /\ ~Changes(t, "CREATE_TABLE") /\ Changes(t, "DROP_TABLE") => view[t] = NoTable
      /\ ~Changes(t, "CREATE_TABLE") /\ start[t] = NoTable /\ t \notin refused =>
           view[t] = NoTable
  BY DEF Stated
<1> HIDE DEF Stated
<1>3. CASE CreateTable(t)
  <2>1. Plain("CREATE_TABLE") \in UndoEntry /\ Plain("CREATE_TABLE").type = "CREATE_TABLE" /\ Plain("CREATE_TABLE").rows = {}
    BY EntryTypes DEF UndoEntry
  <2>2. PICK e \in UndoEntry : e = Plain("CREATE_TABLE") /\ e.type = "CREATE_TABLE" /\ e.rows = {}
    BY <2>1
  <2>3. Does(e, {}) /\ view[t] = NoTable /\ UNCHANGED <<removed, refused>>
    BY <1>1, <1>3, <2>2, <1>t DEF CreateTable
  <2>4. {} \in Replayed(view[t], e)
    BY <2>2, <2>3, ReplayedCreate
  <2> QED
    BY <2>2, <2>3, <2>4, <1>2, <1>s, <1>t
<1>4. CASE DropTable(t)
  <2>1. Plain("DROP_TABLE") \in UndoEntry /\ Plain("DROP_TABLE").type = "DROP_TABLE" /\ Plain("DROP_TABLE").rows = {}
    BY EntryTypes DEF UndoEntry
  <2>2. PICK e \in UndoEntry : e = Plain("DROP_TABLE") /\ e.type = "DROP_TABLE" /\ e.rows = {}
    BY <2>1
  <2>3. Does(e, NoTable) /\ view[t] # NoTable /\ UNCHANGED <<removed, refused>>
    BY <1>1, <1>4, <2>2, <1>t DEF DropTable
  <2>4. NoTable \in Replayed(view[t], e)
    BY <2>2, <2>3, ReplayedDrop
  <2> QED
    BY <2>2, <2>3, <2>4, <1>2, <1>s, <1>t
<1>5. ASSUME NEW r \in Row, Insert(t, r)
      PROVE  Stated(t)'
  <2>1. InsertTuple({r}) \in UndoEntry /\ InsertTuple({r}).type = "INSERT_TUPLE"
        /\ InsertTuple({r}).rows = {r}
    BY EntryTypes DEF UndoEntry
  <2>2. PICK e \in UndoEntry : e = InsertTuple({r}) /\ e.type = "INSERT_TUPLE" /\ e.rows = {r}
    BY <2>1
  <2>3. Does(e, view[t] \cup {r}) /\ view[t] # NoTable /\ r \notin inserted
        /\ UNCHANGED <<removed, refused>>
    BY <1>1, <1>5, <2>2 DEF Insert
  <2>4. PICK table \in Table : table = view[t] \cup {r} /\ table # NoTable
    <3>1. view[t] \cup {r} \in SUBSET Row
      BY <2>3, <1>t DEF Table
    <3> QED
      BY <3>1, NoTableIsNoSet DEF Table
  <2>5. table \in Replayed(view[t], e)
    <3>1. Replayed(view[t], e) = {view[t] \cup e.rows}
      BY <2>2, <2>3, ReplayedInsert
    <3> QED
      BY <3>1, <2>2, <2>4
  <2>6. start[t] # NoTable => e.rows \cap start[t] = {} /\ table \cap start[t] = view[t] \cap start[t]
    BY <2>2, <2>3, <2>4 DEF RowsInv, TablesOf
  <2>7. Does(e, table)
    BY <2>3, <2>4
  <2> QED
    BY <2>2, <2>3, <2>4, <2>5, <2>6, <2>7, <1>2, <1>s
<1>6. CASE Query(t)
  <2>1. Plain("QUERY") \in UndoEntry /\ Plain("QUERY").type = "QUERY" /\ Plain("QUERY").rows = {}
    BY EntryTypes DEF UndoEntry
  <2>2. PICK e \in UndoEntry : e = Plain("QUERY") /\ e.type = "QUERY" /\ e.rows = {}
    BY <2>1
  <2>3. Does(e, {}) /\ view[t] # NoTable /\ UNCHANGED refused
              /\ removed'[t] = removed[t] \cup view[t]
    BY <1>1, <1>6, <2>2, <1>t DEF Query
  <2>4. {} \in Replayed(view[t], e)
    BY <2>2, <2>3, ReplayedQuery
  <2>5. view[t] \cap start[t] = start[t] \ removed[t] =>
          {} \cap start[t] = start[t] \ removed'[t]
    BY <2>3
  <2> QED
    BY <2>2, <2>3, <2>4, <2>5, <1>2, <1>s, <1>t
<1>7. CASE FailedQuery(t)
  <2>1. Plain("QUERY") \in UndoEntry /\ Plain("QUERY").type = "QUERY"
        /\ Plain("QUERY").rows = {}
    BY EntryTypes DEF UndoEntry
  <2>2. Does(Plain("QUERY"), NoTable) /\ view[t] = NoTable /\ undo[t] = << >>
        /\ t \in refused'
    BY <1>1, <1>7, <2>1 DEF FailedQuery
  <2>3. \A type : ~Changes(t, type)
    BY <2>2 DEF Changes
  <2> QED
    BY <2>1, <2>2, <2>3, <1>2, <1>s, <1>t
<1> QED
  BY <1>3, <1>4, <1>5, <1>6, <1>7 DEF Stating

LEMMA StatedStep ==
  ASSUME TypeOK, LockInv, RowsInv, StatedInv, Next
  PROVE  StatedInv'
<1>t. /\ phase \in [Tx -> Live \cup {"idle", "ended"}] /\ start \in [Tx -> Table]
      /\ view \in [Tx -> Table]
  BY DEF TypeOK, MemoryTypeOK
\* A transaction that a step leaves alone.
<1> DEFINE Same(u) == /\ phase'[u] \in Live => phase[u] \in Live
                      /\ start'[u] = start[u] /\ view'[u] = view[u]
                      /\ removed'[u] = removed[u] /\ undo'[u] = undo[u]
                      /\ u \in refused => u \in refused'
<1>s. ASSUME NEW u \in Tx, Same(u)
      PROVE  phase'[u] \in Live => Stated(u)'
  BY <1>s, StatedSame DEF StatedInv
<1>1. ASSUME NEW t \in Tx, BeginTransaction(t)
      PROVE  StatedInv'
  <2>1. /\ phase[t] = "idle" /\ start'[t] = store /\ view'[t] = store
        /\ UNCHANGED <<removed, undo, refused>>
        /\ \A u \in Tx \ {t} : phase'[u] = phase[u] /\ start'[u] = start[u] /\ view'[u] = view[u]
    BY <1>1, <1>t DEF BeginTransaction, history
  <2>2. undo'[t] = << >> /\ removed'[t] = {} /\ store \in Table
    BY <2>1 DEF LockInv, Live, TypeOK, MemoryTypeOK
  <2>3. Stated(t)'
    <3>1. Leads(<< >>, 0, 0, store, store)
      BY <2>2, LeadsNowhere
    <3>2. Leads(undo'[t], 0, Len(undo'[t]), start'[t], view'[t])
      BY <2>1, <2>2, <3>1
    <3>3. \A type : ~Changes(t, type)'
      BY <2>2 DEF Changes
    <3> QED
      BY <2>1, <2>2, <3>2, <3>3 DEF Stated
  <2>4. \A u \in Tx \ {t} : Same(u)
    BY <2>1
  <2> HIDE DEF Same
  <2> QED
    BY <2>3, <2>4, <1>s DEF StatedInv
<1>2. ASSUME NEW t \in Tx, Stating(t)
      PROVE  StatedInv'
  <2>1. phase[t] = "running" /\ UNCHANGED <<phase, start>>
        /\ \A u \in Tx \ {t} : /\ view'[u] = view[u]
                               /\ undo'[u] = undo[u]
                               /\ removed'[u] = removed[u]
    BY <1>2, StatingDoes
  <2>2. refused \subseteq refused'
    BY <1>2 DEF Stating, CreateTable, DropTable, Query, FailedQuery, Insert
  <2>3. Stated(t)'
    BY <1>2, <2>1, StatingStated DEF StatedInv, Live
  <2>4. \A u \in Tx \ {t} : Same(u)
    BY <2>1, <2>2
  <2> HIDE DEF Same
  <2> QED
    BY <2>3, <2>4, <1>s DEF StatedInv
<1>3. ASSUME NEW t \in Tx, RollbackTransaction(t) \/ Flush(t)
      PROVE  StatedInv'
  <2>1. Leave(t) /\ refused \ {t} \subseteq refused'
    BY <1>3 DEF RollbackTransaction, Flush, history
  <2>2. phase'[t] \notin Live
    BY <2>1, LeaveDoes DEF Live
  <2>3. \A u \in Tx \ {t} : Same(u)
    BY <2>1, LeaveDoes
  <2> HIDE DEF Same
  <2> QED
    BY <2>2, <2>3, <1>s DEF StatedInv
<1>4. ASSUME NEW t \in Tx, CommitTransaction(t) \/ WriteEntry(t) \/ WriteFlush(t)
      PROVE  StatedInv'
  <2>1. UNCHANGED <<start, view, removed, undo, refused>>
    BY <1>4 DEF CommitTransaction, WriteEntry, WriteFlush, memory, history
  <2>2. \A u \in Tx : phase'[u] \in Live => phase[u] \in Live
    BY <1>4, <1>t DEF CommitTransaction, WriteEntry, WriteFlush, memory, Live
  <2>3. \A u \in Tx : Same(u)
    BY <2>1, <2>2
  <2> HIDE DEF Same
  <2> QED
    BY <2>3, <1>s DEF StatedInv
<1>5. CASE Crash
  BY <1>5, CrashDoes DEF StatedInv, Live
<1>6. CASE Replay \/ Initialize
  <2>1. mode # "running" /\ phase' = phase
    BY <1>6 DEF Replay, Initialize, memory
  <2> QED
    BY <2>1 DEF LockInv, StatedInv
<1> QED
  BY <1>1, <1>2, <1>3, <1>4, <1>5, <1>6 DEF Next, Stating

LEMMA CreatedStep ==
  ASSUME TypeOK, LockInv, RowsInv, CreatedInv, Next
  PROVE  CreatedInv'
<1>t. /\ phase \in [Tx -> Live \cup {"idle", "ended"}] /\ start \in [Tx -> Table]
      /\ view \in [Tx -> Table] /\ undo \in [Tx -> Seq(UndoEntry)] /\ {} # NoTable
  BY NoTableIsNoSet DEF TypeOK, MemoryTypeOK
\* t is a transaction that has created a table.
<1> SUFFICES ASSUME NEW t \in Tx, phase'[t] \in Live, Changes(t, "CREATE_TABLE")'
             PROVE  /\ store' = NoTable
                    /\ view'[t] # NoTable
                    /\ \A u \in Tx \ {t} : phase'[u] \in Live => view'[u] = NoTable
  BY DEF CreatedInv, Others
<1> DEFINE Had == phase[t] \in Live /\ Changes(t, "CREATE_TABLE")
<1>c. Had => /\ store = NoTable
             /\ view[t] # NoTable
             /\ \A u \in Tx \ {t} : phase[u] \in Live => view[u] = NoTable
  BY DEF CreatedInv, Others
<1>h. ASSUME phase[t] \in Live, undo'[t] = undo[t]
      PROVE  Had
  BY <1>h DEF Changes
<1> HIDE DEF Had
<1>1. ASSUME NEW w \in Tx, BeginTransaction(w)
      PROVE  /\ store' = NoTable
             /\ view'[t] # NoTable
             /\ \A u \in Tx \ {t} : phase'[u] \in Live => view'[u] = NoTable
  <2>1. /\ phase[w] = "idle" /\ view'[w] = store /\ UNCHANGED <<store, undo>>
        /\ \A u \in Tx \ {w} : phase'[u] = phase[u] /\ view'[u] = view[u]
    BY <1>1, <1>t DEF BeginTransaction
  <2>2. w # t
    <3>1. undo'[w] = << >>
      BY <2>1 DEF LockInv, Live
    <3> QED
      BY <3>1 DEF Changes
  <2>3. Had
    BY <2>1, <2>2, <1>h
  <2> QED
    BY <2>1, <2>2, <2>3, <1>c
<1>2. ASSUME NEW w \in Tx, Stating(w)
      PROVE  /\ store' = NoTable
             /\ view'[t] # NoTable
             /\ \A u \in Tx \ {t} : phase'[u] \in Live => view'[u] = NoTable
  <2>1. /\ phase[w] = "running" /\ UNCHANGED <<store, phase>>
        /\ \A u \in Tx \ {w} : view'[u] = view[u] /\ undo'[u] = undo[u]
    BY <1>2, StatingDoes
  <2>2. CASE w # t
    <3>1. Had
      BY <2>1, <2>2, <1>h
    <3>2. view[w] = NoTable /\ view[t] # NoTable /\ t \in Others(w)
      BY <2>1, <2>2, <3>1, <1>c DEF Others, Live
    <3>3. view'[w] = NoTable
      BY <1>2, <3>2, <1>t DEF Stating, CreateTable, DropTable, Query, FailedQuery, Insert, Statement
    <3> QED
      BY <2>1, <2>2, <3>1, <3>3, <1>c
  <2>3. CASE w = t /\ CreateTable(t)
    <3>1. store = NoTable /\ \A u \in Others(t) : view[u] = NoTable
      BY <2>3 DEF CreateTable
    <3>2. view'[t] = {}
      BY <2>3, <1>t DEF CreateTable, Statement
    <3> QED
      BY <2>1, <2>3, <3>1, <3>2, <1>t DEF Others
  <2>4. CASE w = t /\ ~CreateTable(t)
    <3>1. PICK e \in UndoEntry : undo'[t] = Append(undo[t], e) /\ e.type # "CREATE_TABLE"
      <4>1. \A type : Plain(type).type = type
        BY EntryTypes
      <4>2. \A r : InsertTuple({r}).type = "INSERT_TUPLE"
        BY EntryTypes
      <4>3. Plain("DROP_TABLE") \in UndoEntry /\ Plain("QUERY") \in UndoEntry
            /\ \A r \in Row : InsertTuple({r}) \in UndoEntry
        BY DEF UndoEntry
      <4> QED
        BY <1>2, <2>4, <4>1, <4>2, <4>3, <1>t
           DEF Stating, DropTable, Query, FailedQuery, Insert, Statement
    <3>2. Changes(t, "CREATE_TABLE")
      BY <3>1, ChangesAppended
    <3>3. Had
      BY <2>1, <2>4, <3>2 DEF Had, Live
    <3>4. store = NoTable /\ view[t] # NoTable
      BY <3>3, <1>c
    <3>5. view'[t] # NoTable
      <4>1. CASE \E r \in Row : Insert(t, r)
        <5>1. PICK r \in Row : view'[t] = view[t] \cup {r}
          BY <4>1, <1>t DEF Insert, Statement
        <5>2. view[t] \cup {r} \in SUBSET Row
          BY <3>4, <1>t DEF Table
        <5> QED
          BY <5>1, <5>2, NoTableIsNoSet
      <4>2. CASE DropTable(t) \/ FailedQuery(t)
        BY <4>2, <3>4 DEF DropTable, FailedQuery
      <4>3. CASE Query(t)
        BY <4>3, <1>t DEF Query, Statement
      <4> QED
        BY <4>1, <4>2, <4>3, <1>2, <2>4 DEF Stating
    <3> QED
      BY <2>1, <2>4, <3>3, <3>4, <3>5, <1>c
  <2> QED
    BY <2>2, <2>3, <2>4
<1>3. ASSUME NEW w \in Tx, RollbackTransaction(w) \/ Flush(w)
      PROVE  /\ store' = NoTable
             /\ view'[t] # NoTable
             /\ \A u \in Tx \ {t} : phase'[u] \in Live => view'[u] = NoTable
  <2>1. Leave(w) /\ store' \in {store, After(w)} /\ phase[w] \in Live
    BY <1>3 DEF RollbackTransaction, Flush, Live
  <2>2. w # t
    BY <2>1, LeaveDoes DEF Live
  <2>3. Had
    BY <2>1, <2>2, <1>h, LeaveDoes
  <2>4. store = NoTable /\ view[w] = NoTable
    BY <2>1, <2>2, <2>3, <1>c
  <2>5. After(w) = NoTable
    BY <2>4 DEF After
  <2> QED
    BY <2>1, <2>2, <2>3, <2>4, <2>5, <1>c, LeaveDoes
<1>4. ASSUME NEW w \in Tx, CommitTransaction(w) \/ WriteEntry(w) \/ WriteFlush(w)
      PROVE  /\ store' = NoTable
             /\ view'[t] # NoTable
             /\ \A u \in Tx \ {t} : phase'[u] \in Live => view'[u] = NoTable
  <2>1. UNCHANGED <<store, view, undo>>
    BY <1>4 DEF CommitTransaction, WriteEntry, WriteFlush, memory
  <2>2. \A u \in Tx : phase'[u] \in Live => phase[u] \in Live
    BY <1>4, <1>t DEF CommitTransaction, WriteEntry, WriteFlush, memory, Live
  <2> QED
    BY <2>1, <2>2, <1>h, <1>c
<1>5. CASE Crash
  BY <1>5, CrashDoes DEF Live
<1>6. CASE Replay \/ Initialize
  <2>1. mode # "running" /\ phase' = phase
    BY <1>6 DEF Replay, Initialize, memory
  <2> QED
    BY <2>1 DEF LockInv
<1> QED
  BY <1>1, <1>2, <1>3, <1>4, <1>5, <1>6 DEF Next, Stating

-----------------------------------------------------------------------------
(* What a commit logs leads from the committed table to the one it leaves. *)

\* A commit that does not overlap another: its snapshot is still the table, or
\* none of its statements depends on the rows of the table.
Clean(t) == store = start[t] \/ (store # NoTable /\ ~Changes(t, "QUERY"))

LEMMA UndoLeadsToAfter ==
  ASSUME TypeOK, CreatedInv, NEW t \in Tx, phase[t] \in Live, Stated(t), t \notin refused,
         Clean(t)
  PROVE  Leads(undo[t], 0, Len(undo[t]), store, After(t))
<1>t. /\ undo[t] \in Seq(UndoEntry) /\ Len(undo[t]) \in Nat /\ store \in Table
      /\ view[t] \in Table /\ start[t] \in Table
  BY DEF TypeOK, MemoryTypeOK
<1>1. CASE store = start[t]
  <2>1. CASE Changes(t, "CREATE_TABLE") \/ Changes(t, "DROP_TABLE")
    BY <1>1, <2>1 DEF After, Stated
  <2>2. CASE ~(Changes(t, "CREATE_TABLE") \/ Changes(t, "DROP_TABLE")) /\ store = NoTable
    <3>1. view[t] = NoTable
      BY <1>1, <2>2 DEF Stated
    <3> QED
      BY <1>1, <2>2, <3>1 DEF After, Stated
  <2>3. CASE ~(Changes(t, "CREATE_TABLE") \/ Changes(t, "DROP_TABLE")) /\ store # NoTable
    <3>1. view[t] # NoTable /\ view[t] \cap store = store \ removed[t]
      BY <1>1, <2>3 DEF Stated
    <3>2. After(t) = (store \ removed[t]) \cup (view[t] \ store)
      BY <1>1, <2>3, <3>1 DEF After
    <3>3. After(t) = view[t]
      BY <3>1, <3>2
    <3> QED
      BY <1>1, <3>3 DEF Stated
  <2> QED
    BY <2>1, <2>2, <2>3
<1>2. CASE store # start[t] /\ store # NoTable /\ ~Changes(t, "QUERY")
  <2>1. ~Changes(t, "CREATE_TABLE")
    BY <1>2 DEF CreatedInv
  <2>2. CASE start[t] = NoTable
    <3>1. undo[t] = << >> /\ view[t] = NoTable
      BY <2>1, <2>2 DEF Stated
    <3>2. After(t) = store
      BY <2>1, <3>1 DEF After, Changes
    <3> QED
      BY <1>t, <3>1, <3>2, LeadsNowhere
  <2>3. CASE start[t] # NoTable
    <3> DEFINE n == Len(undo[t])
               seen == start[t]
               u == undo[t]
    <3>1. PICK f \in [0..n -> Table] :
            /\ f[0] = seen
            /\ f[n] = view[t]
            /\ \A i \in 0 + 1..n : Step(f[i - 1], u[i], f[i])
      BY DEF Stated, Leads
    <3>2. store \in SUBSET Row /\ seen \in SUBSET Row /\ n \in Nat
      BY <1>t, <1>2, <2>3 DEF Table
    <3>3. \A i \in 1..n : u[i] \in UndoEntry /\ u[i].type \in {"INSERT_TUPLE", "DROP_TABLE"}
                          /\ u[i].rows \cap seen = {} /\ u[i].rows \in SUBSET Row
      <4>1. \A i \in 1..n : u[i] \in UndoEntry /\ u[i].type \notin {"QUERY", "CREATE_TABLE"}
        BY <1>t, <1>2, <2>1 DEF Changes
      <4> QED
        BY <4>1, <2>3, EntryTypes DEF Stated, Doing
    <3>4. Changes(t, "DROP_TABLE") => After(t) = NoTable /\ view[t] = NoTable
      BY <2>1 DEF Stated, After
    <3>5. ~Changes(t, "DROP_TABLE") => After(t) = store \cup (view[t] \ seen) /\ view[t] # NoTable
      <4>1. ASSUME ~Changes(t, "DROP_TABLE")
            PROVE  view[t] # NoTable /\ removed[t] = {}
        BY <1>2, <2>1, <2>3, <4>1 DEF Stated
      <4>2. ASSUME ~Changes(t, "DROP_TABLE")
            PROVE  After(t) = (store \ removed[t]) \cup (view[t] \ seen)
        BY <1>2, <2>1, <4>1, <4>2 DEF After
      <4>3. ASSUME ~Changes(t, "DROP_TABLE")
            PROVE  After(t) = store \cup (view[t] \ seen)
        BY <4>1, <4>2, <4>3
      <4> QED
        BY <4>1, <4>3
    <3> DEFINE g == [i \in 0..n |-> IF f[i] = NoTable THEN NoTable ELSE store \cup (f[i] \ seen)]
    <3> HIDE DEF n, seen, u
    <3>g. \A i \in 0..n : /\ f[i] = NoTable => g[i] = NoTable
                          /\ f[i] # NoTable => g[i] = store \cup (f[i] \ seen)
      OBVIOUS
    <3>6. g \in [0..n -> Table]
      BY <3>1, <3>2 DEF Table
    <3>7. g[0] = store
      BY <2>3, <3>1, <3>2 DEF seen
    <3>8. g[n] = After(t)
      <4> HIDE DEF g
      <4>1. n \in 0..n /\ f[n] = view[t]
        BY <3>1, <3>2
      <4>2. CASE Changes(t, "DROP_TABLE")
        BY <4>1, <4>2, <3>4, <3>g
      <4>3. CASE ~Changes(t, "DROP_TABLE")
        BY <4>1, <4>3, <3>5, <3>g
      <4> QED
        BY <4>2, <4>3
    <3>9. ASSUME NEW i \in 0 + 1..n
          PROVE  Step(g[i - 1], u[i], g[i])
      <4>1. PICK e \in UndoEntry : e = u[i]
        BY <3>2, <3>3
      <4>2. e.type \in {"INSERT_TUPLE", "DROP_TABLE"} /\ e.rows \cap seen = {} /\ e.rows \in SUBSET Row
        BY <3>2, <3>3, <4>1
      <4>3. PICK a \in Table, b \in Table : a = f[i - 1] /\ b = f[i] /\ b \in Replayed(a, e)
        <5>1. f[i - 1] \in Table /\ f[i] \in Table
          BY <3>1, <3>2
        <5>2. f[i] \in Replayed(f[i - 1], e)
          BY <3>1, <4>1, <4>2 DEF Step
        <5> QED
          BY <5>1, <5>2
      <4> HIDE DEF g
      <4>i. i \in 0..n /\ i - 1 \in 0..n
        BY <3>2
      <4>4. /\ a # NoTable => g[i - 1] = store \cup (a \ seen)
            /\ b = NoTable => g[i] = NoTable
            /\ b # NoTable => g[i] = store \cup (b \ seen)
        BY <4>i, <4>3, <3>g
      <4>5. CASE e.type = "INSERT_TUPLE"
        <5>1. a # NoTable
          BY <4>3, <4>5, ReplayedInsert
        <5>2. Replayed(a, e) = {a \cup e.rows}
          BY <4>5, <5>1, ReplayedInsert
        <5>3. a \in SUBSET Row /\ b = a \cup e.rows
          BY <4>3, <5>1, <5>2 DEF Table
        <5>4. b # NoTable
          BY <4>2, <5>3, NoTableIsNoSet
        <5>5. store \cup (b \ seen) = (store \cup (a \ seen)) \cup e.rows
          BY <4>2, <5>3
        <5>6. PICK c \in SUBSET Row : c = store \cup (a \ seen)
          BY <3>2, <5>3
        <5>7. g[i - 1] = c /\ g[i] = c \cup e.rows /\ c # NoTable
          BY <4>4, <5>1, <5>4, <5>5, <5>6, NoTableIsNoSet
        <5>8. Replayed(c, e) = {c \cup e.rows}
          BY <4>5, <5>7, ReplayedInsert
        <5> QED
          BY <4>1, <4>5, <5>7, <5>8 DEF Step
      <4>6. CASE e.type = "DROP_TABLE"
        <5>1. a # NoTable /\ b = NoTable
          BY <4>3, <4>6, ReplayedDrop
        <5>2. a \in SUBSET Row
          BY <5>1 DEF Table
        <5>3. PICK c \in SUBSET Row : c = store \cup (a \ seen)
          BY <3>2, <5>2
        <5>4. g[i - 1] = c /\ g[i] = NoTable /\ c # NoTable
          BY <4>4, <5>1, <5>3, NoTableIsNoSet
        <5>5. Replayed(c, e) = {NoTable}
          BY <4>6, <5>4, ReplayedDrop
        <5> QED
          BY <4>1, <4>6, <5>4, <5>5 DEF Step
      <4> QED
        BY <4>2, <4>5, <4>6
    <3> HIDE DEF g
    <3>10. Leads(u, 0, n, store, After(t))
      BY <3>6, <3>7, <3>8, <3>9 DEF Leads
    <3> QED
      BY <3>10 DEF u, n
  <2> QED
    BY <2>2, <2>3
<1> QED
  BY <1>1, <1>2 DEF Clean

-----------------------------------------------------------------------------
(* The file of a running database. *)

\* So far no log is of a kind that the code gets wrong.
Good ==
    /\ ~absorbed /\ ~overlapped /\ ~reordered
    /\ \A t \in refused : phase[t] = "running"

Marked(s, n) == n # 0 => s[n].type = "WAL_FLUSH"
Unmarked(s, m, n) == \A i \in m + 1..n : s[i].type # "WAL_FLUSH"

\* Replay of the file so far, and the tuples that wait, make of a what the undo
\* buffer has made of the table so far, which is b.
Waiting(a, b) ==
    \/ b = NoTable /\ a = NoTable /\ appends = {}
    \/ b # NoTable /\ a # NoTable /\ b = a \cup appends

\* The entries that a commit has logged lead as far as the part of its undo
\* buffer that it has visited.
Logs(t) ==
    \E f \in [0..Len(undo[t]) -> Table], a \in Table :
        /\ f[0] = store
        /\ f[Len(undo[t])] = After(t)
        /\ \A i \in 0 + 1..Len(undo[t]) : Step(f[i - 1], undo[t][i], f[i])
        /\ Leads(file, synced, Len(file), store, a)
        /\ Waiting(a, f[visited])

\* What is synced ends with a flush mark and leads to the committed table.
SyncedInv ==
    Good /\ mode = "running" =>
        Marked(file, synced) /\ Leads(file, 0, synced, NoTable, store)

\* Behind it is, without a mark, what a commit has logged so far.
LoggingInv ==
    Good => \A t \in Tx : phase[t] = "logging" =>
        Unmarked(file, synced, Len(file)) /\ (Clean(t) => Logs(t))

\* With its mark it leads to the table after the commit.
SyncingInv ==
    Good => \A t \in Tx : phase[t] = "syncing" =>
        /\ synced < Len(file)
        /\ Unmarked(file, synced, Len(file) - 1)
        /\ Marked(file, Len(file))
        /\ Leads(file, synced, Len(file), store, After(t))

\* A torn entry is the last one and no database runs on it.
TornInv ==
    ~absorbed => \A i \in 1..Len(file) :
        file[i].type = "TORN" => i = Len(file) /\ mode # "running"

FileInv == SyncedInv /\ LoggingInv /\ SyncingInv

\* A log of a kind that the code gets wrong stays one.
LEMMA GoodBefore ==
  ASSUME TypeOK, LockInv, Next, Good'
  PROVE  Good
<1>t. /\ phase \in [Tx -> Live \cup {"idle", "ended"}] /\ refused \subseteq Tx
      /\ ~absorbed' /\ ~overlapped' /\ ~reordered' /\ \A t \in refused' : phase'[t] = "running"
      /\ \A t \in refused : phase[t] # "idle"
  BY DEF TypeOK, MemoryTypeOK, HistoryTypeOK, Good, LockInv
<1>1. ASSUME NEW t \in Tx, BeginTransaction(t)
      PROVE  Good
  BY <1>1, <1>t DEF BeginTransaction, history, Good
<1>2. ASSUME NEW t \in Tx, Stating(t)
      PROVE  Good
  <2>1. phase[t] = "running" /\ UNCHANGED <<phase, absorbed, overlapped, reordered>>
    BY <1>2, StatingDoes
  <2>2. refused \subseteq refused'
    BY <1>2 DEF Stating, CreateTable, DropTable, Query, FailedQuery, Insert
  <2> QED
    BY <2>1, <2>2, <1>t DEF Good
<1>3. ASSUME NEW t \in Tx, RollbackTransaction(t)
      PROVE  Good
  <2>1. phase[t] = "running" /\ Leave(t) /\ UNCHANGED <<absorbed, overlapped, reordered>>
        /\ refused' = refused \ {t}
    BY <1>3 DEF RollbackTransaction
  <2> QED
    BY <2>1, <1>t, LeaveDoes DEF Good
<1>4. ASSUME NEW t \in Tx, CommitTransaction(t)
      PROVE  Good
  BY <1>4, <1>t DEF CommitTransaction, history, Good
<1>5. ASSUME NEW t \in Tx, WriteEntry(t)
      PROVE  Good
  <2>1. UNCHANGED <<phase, refused, absorbed, overlapped>>
    BY <1>5 DEF WriteEntry, memory
  <2>2. ~reordered
    BY <1>5, <1>t, WriteEntryDoes
  <2> QED
    BY <2>1, <2>2, <1>t DEF Good
<1>6. ASSUME NEW t \in Tx, WriteFlush(t)
      PROVE  Good
  <2>1. UNCHANGED <<refused, absorbed, reordered>> /\ phase' = [phase EXCEPT ![t] = "syncing"]
    BY <1>6 DEF WriteFlush
  <2>2. ~overlapped
    BY <1>6, <1>t DEF WriteFlush
  <2> QED
    BY <2>1, <2>2, <1>t DEF Good
<1>7. ASSUME NEW t \in Tx, Flush(t)
      PROVE  Good
  <2>1. Leave(t) /\ UNCHANGED <<refused, absorbed, overlapped, reordered>>
    BY <1>7 DEF Flush, history
  <2> QED
    BY <2>1, <1>t, LeaveDoes DEF Good
<1>8. CASE Crash
  <2>1. UNCHANGED <<absorbed, overlapped, reordered>>
        /\ refused' = refused \ {t \in Tx : phase[t] = "running"}
    BY <1>8 DEF Crash
  <2>2. \A t \in Tx : phase'[t] # "running"
    BY <1>8, CrashDoes DEF Live
  <2> QED
    BY <2>1, <2>2, <1>t DEF Good
<1>9. CASE Replay
  BY <1>9, <1>t DEF Replay, history, Good
<1>10. CASE Initialize
  <2>1. UNCHANGED <<refused, overlapped, reordered, phase>>
    BY <1>10 DEF Initialize, memory
  <2>2. ~absorbed
    BY <1>10, <1>t DEF Initialize
  <2> QED
    BY <2>1, <2>2, <1>t DEF Good
<1> QED
  BY <1>1, <1>2, <1>3, <1>4, <1>5, <1>6, <1>7, <1>8, <1>9, <1>10 DEF Next, Stating

\* The log with what waits behind it leads to the table of the undo buffer.
LEMMA BehindLeads ==
  ASSUME TypeOK, NEW mid \in Seq(LogEntry), Behind(mid), NEW a \in Table, NEW b \in Table,
         Leads(file, synced, Len(file), store, a), Waiting(a, b)
  PROVE  /\ Leads(mid, synced, Len(mid), store, b)
         /\ synced <= Len(mid)
         /\ \A i \in 1..synced : mid[i] = file[i]
         /\ Unmarked(file, synced, Len(file)) => Unmarked(mid, synced, Len(mid))
<1>t. file \in Seq(LogEntry) /\ synced \in 0..Len(file) /\ appends \in SUBSET Row
      /\ Len(file) \in Nat
  BY DEF TypeOK, LogTypeOK
<1>1. CASE appends = {} /\ mid = file
  <2>1. b = a
    BY <1>1, <1>t DEF Waiting, Table
  <2> QED
    BY <1>1, <1>t, <2>1
<1>2. CASE appends # {} /\ mid = Append(file, InsertTuple(appends))
  <2>1. a # NoTable /\ b = a \cup appends
    BY <1>2 DEF Waiting
  <2>2. PICK e \in LogEntry : e = InsertTuple(appends) /\ e.type = "INSERT_TUPLE" /\ e.rows = appends
    BY <1>t, EntryTypes
  <2>3. b \in Replayed(a, e)
    <3>1. Replayed(a, e) = {a \cup e.rows}
      BY <2>1, <2>2, ReplayedInsert
    <3> QED
      BY <3>1, <2>1, <2>2
  <2>4. Step(a, e, b)
    BY <2>2, <2>3 DEF Step
  <2>5. Leads(Append(file, e), synced, Len(file) + 1, store, b)
    BY <1>t, <2>4, LeadsAppended
  <2>6. mid = Append(file, e) /\ Len(mid) = Len(file) + 1 /\ mid[Len(file) + 1] = e
        /\ \A i \in 1..Len(file) : mid[i] = file[i]
    BY <1>t, <1>2, <2>2
  <2>7. Unmarked(file, synced, Len(file)) => Unmarked(mid, synced, Len(mid))
    BY <1>t, <2>2, <2>6 DEF Unmarked
  <2> QED
    BY <1>t, <2>5, <2>6, <2>7
<1> QED
  BY <1>1, <1>2 DEF Behind

\* An entry that a commit logs: what has been replayed and what waits keep up
\* with the undo buffer.
LEMMA WriteEntryLogs ==
  ASSUME TypeOK, NEW t \in Tx, WriteEntry(t), ~reordered', Logs(t),
         Unmarked(file, synced, Len(file))
  PROVE  Logs(t)' /\ Unmarked(file, synced, Len(file))'
<1>t. /\ file \in Seq(LogEntry) /\ synced \in 0..Len(file) /\ Len(file) \in Nat
      /\ visited \in Nat /\ appends \in SUBSET Row /\ undo[t] \in Seq(UndoEntry)
      /\ Len(undo[t]) \in Nat /\ VectorSize \in Nat
  BY WALAssumption DEF TypeOK, MemoryTypeOK, LogTypeOK
<1>1. PICK f \in [0..Len(undo[t]) -> Table], a \in Table :
        /\ f[0] = store
        /\ f[Len(undo[t])] = After(t)
        /\ \A i \in 0 + 1..Len(undo[t]) : Step(f[i - 1], undo[t][i], f[i])
        /\ Leads(file, synced, Len(file), store, a)
        /\ Waiting(a, f[visited])
  BY DEF Logs
<1>2. PICK e \in UndoEntry, mid \in Seq(LogEntry) :
        /\ visited + 1 \in 1..Len(undo[t]) /\ e = undo[t][visited + 1]
        /\ Behind(mid)
        /\ \/ /\ e.type = "INSERT_TUPLE" /\ file' = file
              /\ appends' = appends \cup e.rows
           \/ /\ e.type = "INSERT_TUPLE" /\ file' = mid /\ Cardinality(appends) = VectorSize
              /\ appends' = e.rows
           \/ /\ e.type = "QUERY" /\ file' = Append(mid, e)
              /\ appends' = {}
           \/ /\ e.type \notin {"INSERT_TUPLE", "QUERY"} /\ file' = Append(file, e)
              /\ appends' = appends
        /\ reordered' = (reordered \/ (e.type = "DROP_TABLE" /\ appends' # {}))
  BY WriteEntryDoes
<1>3. PICK b \in Table, c \in Table : b = f[visited] /\ c = f[visited + 1]
  BY <1>t, <1>2
<1>4. c \in Replayed(b, e)
  <2>1. Step(f[(visited + 1) - 1], undo[t][visited + 1], f[visited + 1])
    BY <1>1, <1>2
  <2>2. (visited + 1) - 1 = visited
    BY <1>t
  <2>3. Step(b, e, c)
    BY <2>1, <2>2, <1>2, <1>3
  <2> QED
    BY <2>3, EntryTypes DEF Step, Doing
<1>5. Leads(file, synced, Len(file), store, a) /\ Waiting(a, b)
  BY <1>1, <1>3
<1>6. /\ Leads(mid, synced, Len(mid), store, b)
      /\ synced <= Len(mid)
      /\ Unmarked(mid, synced, Len(mid))
  BY <1>2, <1>5, BehindLeads
<1>7. e \in LogEntry /\ e.type \in Doing /\ e.rows \subseteq Row
  BY EntryTypes
\* It is enough to find what the new file leads to.
<1>8. ASSUME NEW a2 \in Table, Leads(file', synced, Len(file'), store, a2),
             (c # NoTable /\ a2 # NoTable /\ c = a2 \cup appends') \/ (c = a2 /\ appends' = {}),
             Unmarked(file', synced, Len(file'))
      PROVE  Logs(t)' /\ Unmarked(file, synced, Len(file))'
  <2>1. UNCHANGED <<store, undo, view, start, removed, synced>> /\ visited' = visited + 1
    BY DEF WriteEntry, memory
  <2>2. After(t)' = After(t)
    BY <2>1 DEF After, Changes
  <2>3. \/ c = NoTable /\ a2 = NoTable /\ appends' = {}
        \/ c # NoTable /\ a2 # NoTable /\ c = a2 \cup appends'
    <3>1. c # NoTable => c \in SUBSET Row
      BY DEF Table
    <3>2. (appends' = {} /\ c = a2 /\ c # NoTable) => c = a2 \cup appends'
      BY <3>1
    <3> QED
      BY <1>8, <3>2
  <2>4. \/ f[visited'] = NoTable /\ a2 = NoTable /\ appends' = {}
        \/ f[visited'] # NoTable /\ a2 # NoTable /\ f[visited'] = a2 \cup appends'
    BY <2>1, <2>3, <1>3
  <2>5. f \in [0..Len(undo'[t]) -> Table] /\ f[0] = store' /\ f[Len(undo'[t])] = After(t)'
        /\ (\A i \in 0 + 1..Len(undo'[t]) : Step(f[i - 1], undo'[t][i], f[i]))
    BY <2>1, <2>2, <1>1
  <2>6. Leads(file', synced', Len(file'), store', a2)
    BY <2>1, <1>8
  <2>7. Logs(t)'
    BY <2>4, <2>5, <2>6 DEF Logs, Waiting
  <2> QED
    BY <2>1, <2>7, <1>8
<1>9. CASE e.type = "INSERT_TUPLE"
  <2>1. b # NoTable
    BY <1>4, <1>9, ReplayedInsert
  <2>2. c = b \cup e.rows
    <3>1. Replayed(b, e) = {b \cup e.rows}
      BY <1>9, <2>1, ReplayedInsert
    <3> QED
      BY <3>1, <1>4
  <2>3. c # NoTable
    <3>1. b \cup e.rows \in SUBSET Row
      BY <1>7, <2>1 DEF Table
    <3> QED
      BY <3>1, <2>2, NoTableIsNoSet
  <2>4. CASE file' = file /\ appends' = appends \cup e.rows
    <3>1. a # NoTable /\ b = a \cup appends
      BY <1>5, <2>1 DEF Waiting
    <3>2. c = a \cup appends'
      BY <2>2, <2>4, <3>1
    <3>3. Leads(file', synced, Len(file'), store, a) /\ Unmarked(file', synced, Len(file'))
      BY <2>4, <1>5
    <3> QED
      BY <3>1, <3>2, <3>3, <2>1, <2>3, <1>8
  <2>5. CASE file' = mid /\ appends' = e.rows
    <3>1. c = b \cup appends'
      BY <2>2, <2>5
    <3>2. Leads(file', synced, Len(file'), store, b) /\ Unmarked(file', synced, Len(file'))
      BY <2>5, <1>6
    <3> QED
      BY <3>1, <3>2, <2>1, <2>3, <1>8
  <2> QED
    BY <2>4, <2>5, <1>2, <1>9
<1>10. ASSUME NEW s \in Seq(LogEntry), file' = Append(s, e), synced <= Len(s),
              Leads(s, synced, Len(s), store, b), Unmarked(s, synced, Len(s)), appends' = {}
       PROVE  Logs(t)' /\ Unmarked(file, synced, Len(file))'
  <2>1. Step(b, e, c)
    BY <1>4, <1>7 DEF Step, Doing
  <2>2. synced \in Nat
    BY <1>t
  <2>3. Leads(Append(s, e), synced, Len(s) + 1, store, c)
    BY <1>7, <1>10, <2>1, <2>2, LeadsAppended
  <2>4. Len(file') = Len(s) + 1 /\ file'[Len(s) + 1] = e /\ Len(s) \in Nat
        /\ \A i \in 1..Len(s) : file'[i] = s[i]
    BY <1>7, <1>10
  <2>5. Leads(file', synced, Len(file'), store, c)
    BY <1>10, <2>3, <2>4
  <2>6. Unmarked(file', synced, Len(file'))
    BY <1>7, <1>10, <2>2, <2>4 DEF Unmarked, Doing
  <2> QED
    BY <2>5, <2>6, <1>8, <1>10
<1>11. CASE e.type = "QUERY"
  BY <1>2, <1>6, <1>10, <1>11
<1>12. CASE e.type \notin {"INSERT_TUPLE", "QUERY"}
  <2>1. file' = Append(file, e) /\ appends' = appends
    BY <1>2, <1>12
  <2>2. appends = {}
    <3>1. CASE e.type = "CREATE_TABLE"
      <4>1. b = NoTable
        BY <3>1, <1>4, ReplayedCreate
      <4> QED
        BY <4>1, <1>5 DEF Waiting
    <3>2. CASE e.type = "DROP_TABLE"
      BY <3>2, <2>1, <1>2
    <3> QED
      BY <3>1, <3>2, <1>7, <1>12 DEF Doing
  <2>3. a = b
    <3>1. b # NoTable => b \in SUBSET Row /\ a \in SUBSET Row
      BY <1>5 DEF Waiting, Table
    <3> QED
      BY <3>1, <2>2, <1>5 DEF Waiting
  <2> QED
    BY <2>1, <2>2, <2>3, <1>t, <1>5, <1>10
<1> QED
  BY <1>9, <1>11, <1>12

-----------------------------------------------------------------------------
(* The file keeps its promise while the database runs. *)

LEMMA BehindPrefix ==
  ASSUME TypeOK, NEW mid \in Seq(LogEntry), Behind(mid)
  PROVE  /\ synced <= Len(mid)
         /\ \A i \in 1..synced : mid[i] = file[i]
         /\ Unmarked(file, synced, Len(file)) => Unmarked(mid, synced, Len(mid))
<1>t. file \in Seq(LogEntry) /\ synced \in 0..Len(file) /\ appends \in SUBSET Row
      /\ Len(file) \in Nat
  BY DEF TypeOK, LogTypeOK
<1>1. CASE mid = file
  BY <1>1, <1>t
<1>2. CASE mid = Append(file, InsertTuple(appends))
  <2>1. PICK e \in LogEntry : e = InsertTuple(appends) /\ e.type = "INSERT_TUPLE"
    BY <1>t, EntryTypes
  <2>2. Len(mid) = Len(file) + 1 /\ mid[Len(file) + 1] = e
        /\ \A i \in 1..Len(file) : mid[i] = file[i]
    BY <1>t, <1>2, <2>1
  <2> QED
    BY <1>t, <2>1, <2>2 DEF Unmarked
<1> QED
  BY <1>1, <1>2 DEF Behind

LEMMA WriteEntryFile ==
  ASSUME TypeOK, NEW t \in Tx, WriteEntry(t), Unmarked(file, synced, Len(file))
  PROVE  /\ synced <= Len(file')
         /\ \A i \in 1..synced : file'[i] = file[i]
         /\ Unmarked(file', synced, Len(file'))
<1>t. file \in Seq(LogEntry) /\ synced \in 0..Len(file) /\ Len(file) \in Nat
  BY DEF TypeOK, LogTypeOK
<1>1. PICK e \in UndoEntry, mid \in Seq(LogEntry) :
        /\ Behind(mid)
        /\ \/ file' = file
           \/ file' = mid
           \/ file' = Append(mid, e)
           \/ file' = Append(file, e)
  BY WriteEntryDoes
<1>2. e \in LogEntry /\ e.type # "WAL_FLUSH"
  BY EntryTypes DEF Doing
<1>3. /\ synced <= Len(mid) /\ Unmarked(mid, synced, Len(mid))
      /\ \A i \in 1..synced : mid[i] = file[i]
  BY <1>1, BehindPrefix
<1>4. ASSUME NEW s \in Seq(LogEntry), file' = Append(s, e), synced <= Len(s),
             Unmarked(s, synced, Len(s)), \A i \in 1..synced : s[i] = file[i]
      PROVE  /\ synced <= Len(file')
             /\ \A i \in 1..synced : file'[i] = file[i]
             /\ Unmarked(file', synced, Len(file'))
  <2>1. Len(file') = Len(s) + 1 /\ file'[Len(s) + 1] = e /\ Len(s) \in Nat
        /\ \A i \in 1..Len(s) : file'[i] = s[i]
    BY <1>2, <1>4
  <2> QED
    BY <1>t, <1>2, <1>4, <2>1 DEF Unmarked
<1>5. CASE file' = file \/ file' = mid
  BY <1>5, <1>t, <1>3
<1>6. CASE file' = Append(mid, e)
  BY <1>3, <1>4, <1>6
<1>7. CASE file' = Append(file, e)
  BY <1>t, <1>4, <1>7
<1> QED
  BY <1>1, <1>5, <1>6, <1>7

\* Who does not touch the log, nor the transaction that commits, disturbs nothing.
LEMMA FileQuiet ==
  ASSUME FileInv, Good' => Good,
         UNCHANGED <<mode, store, file, synced, visited, appends>>,
         \A u \in Tx : phase'[u] \in Ending =>
             /\ phase'[u] = phase[u] /\ start'[u] = start[u] /\ view'[u] = view[u]
             /\ removed'[u] = removed[u] /\ undo'[u] = undo[u]
  PROVE  FileInv'
<1>1. SyncedInv'
  BY DEF FileInv, SyncedInv, Marked
<1>2. ASSUME NEW u \in Tx, phase'[u] \in Ending
      PROVE  (After(u)' = After(u)) /\ (Clean(u)' <=> Clean(u)) /\ (Logs(u) => Logs(u)')
  <2>1. /\ UNCHANGED <<store, file, synced, visited, appends>>
        /\ phase'[u] = phase[u] /\ start'[u] = start[u] /\ view'[u] = view[u]
        /\ removed'[u] = removed[u] /\ undo'[u] = undo[u]
    BY <1>2
  <2>2. After(u)' = After(u)
    BY <2>1 DEF After, Changes
  <2>3. Clean(u)' <=> Clean(u)
    BY <2>1 DEF Clean, Changes
  <2>4. Logs(u) => Logs(u)'
    BY <2>1, <2>2 DEF Logs, Waiting
  <2> QED
    BY <2>2, <2>3, <2>4
<1>3. LoggingInv'
  BY <1>2 DEF FileInv, LoggingInv, Ending, Unmarked
<1>4. SyncingInv'
  BY <1>2 DEF FileInv, SyncingInv, Ending, Unmarked, Marked
<1> QED
  BY <1>1, <1>3, <1>4 DEF FileInv

LEMMA OneCommits ==
  ASSUME TypeOK, LockInv, NEW t \in Tx, phase[t] \in Ending
  PROVE  mode = "running" /\ \A u \in Tx \ {t} : phase[u] \notin Ending
  BY DEF LockInv, Live, Ending, TypeOK, MemoryTypeOK

LEMMA CommitFile ==
  ASSUME TypeOK, LockInv, WriterInv, StatedInv, CreatedInv, FileInv, Good, Good',
         NEW t \in Tx, CommitTransaction(t)
  PROVE  FileInv'
<1>t. /\ file \in Seq(LogEntry) /\ synced \in 0..Len(file) /\ Len(file) \in Nat
      /\ store \in Table /\ phase \in [Tx -> Live \cup {"idle", "ended"}]
      /\ undo[t] \in Seq(UndoEntry) /\ Len(undo[t]) \in Nat
  BY DEF TypeOK, MemoryTypeOK, LogTypeOK
<1>1. /\ phase[t] = "running" /\ transaction_lock = NoTx
      /\ phase'[t] = "logging" /\ \A u \in Tx \ {t} : phase'[u] = phase[u]
      /\ UNCHANGED <<mode, store, start, view, removed, undo, file, synced, visited, appends, refused>>
  BY <1>t DEF CommitTransaction, writer, log, history
<1>2. \A u \in Tx : phase[u] \notin Ending
  BY <1>1, WALAssumption DEF LockInv
<1>3. synced = Len(file) /\ visited = 0 /\ appends = {}
  BY <1>2 DEF WriterInv, Ending
<1>4. SyncedInv'
  BY <1>1 DEF FileInv, SyncedInv, Marked
<1>5. t \notin refused
  BY <1>1 DEF Good
<1>6. Unmarked(file', synced', Len(file'))
  BY <1>1, <1>3, <1>t DEF Unmarked
<1>7. ASSUME Clean(t)
      PROVE  Logs(t)'
  <2>1. Leads(undo[t], 0, Len(undo[t]), store, After(t))
    BY <1>1, <1>5, <1>7, UndoLeadsToAfter DEF StatedInv, Live
  <2>2. PICK f \in [0..Len(undo[t]) -> Table] :
          /\ f[0] = store
          /\ f[Len(undo[t])] = After(t)
          /\ \A i \in 0 + 1..Len(undo[t]) : Step(f[i - 1], undo[t][i], f[i])
    BY <2>1 DEF Leads
  <2>3. Leads(file, synced, Len(file), store, store)
    BY <1>t, <1>3, LeadsNowhere
  <2>4. Waiting(store, f[visited])
    BY <1>3, <2>2 DEF Waiting
  <2>5. Logs(t)
    BY <1>t, <2>2, <2>3, <2>4 DEF Logs
  <2>6. After(t)' = After(t)
    BY <1>1 DEF After, Changes
  <2> QED
    BY <1>1, <2>5, <2>6 DEF Logs, Waiting
<1>8. Clean(t)' <=> Clean(t)
  BY <1>1 DEF Clean, Changes
<1>9. LoggingInv'
  BY <1>1, <1>2, <1>6, <1>7, <1>8 DEF LoggingInv, Ending
<1>10. SyncingInv'
  BY <1>1, <1>2 DEF SyncingInv, Ending
<1> QED
  BY <1>4, <1>9, <1>10 DEF FileInv

LEMMA WriteEntryKeepsFile ==
  ASSUME TypeOK, LockInv, FileInv, Good, Good', NEW t \in Tx, WriteEntry(t)
  PROVE  FileInv'
<1>t. /\ file \in Seq(LogEntry) /\ synced \in 0..Len(file) /\ Len(file) \in Nat
  BY DEF TypeOK, LogTypeOK
<1>1. phase[t] = "logging"
      /\ UNCHANGED <<mode, store, phase, start, view, removed, undo, synced>>
  BY DEF WriteEntry, memory
<1>2. mode = "running" /\ \A u \in Tx \ {t} : phase[u] \notin Ending
  BY <1>1, OneCommits DEF Ending
<1>3. Unmarked(file, synced, Len(file)) /\ (Clean(t) => Logs(t))
  BY <1>1 DEF FileInv, LoggingInv
<1>4. /\ synced <= Len(file')
      /\ \A i \in 1..synced : file'[i] = file[i]
      /\ Unmarked(file', synced, Len(file'))
  BY <1>3, WriteEntryFile
<1>5. SyncedInv'
  <2>1. Marked(file, synced) /\ Leads(file, 0, synced, NoTable, store)
    BY <1>2 DEF FileInv, SyncedInv
  <2>2. Leads(file', 0, synced, NoTable, store)
    BY <1>t, <1>4, <2>1, LeadsSame
  <2>3. Marked(file', synced)
    BY <1>t, <1>4, <2>1 DEF Marked
  <2> QED
    BY <1>1, <2>2, <2>3 DEF SyncedInv
<1>6. Clean(t)' <=> Clean(t)
  BY <1>1 DEF Clean, Changes
<1>7. Clean(t) => Logs(t)'
  BY <1>3, WriteEntryLogs DEF Good
<1>8. LoggingInv'
  BY <1>1, <1>2, <1>4, <1>6, <1>7 DEF LoggingInv, Ending
<1>9. SyncingInv'
  BY <1>1, <1>2 DEF SyncingInv, Ending
<1> QED
  BY <1>5, <1>8, <1>9 DEF FileInv

LEMMA WriteFlushKeepsFile ==
  ASSUME TypeOK, LockInv, FileInv, Good, Good', NEW t \in Tx, WriteFlush(t)
  PROVE  FileInv'
<1>t. /\ file \in Seq(LogEntry) /\ synced \in 0..Len(file) /\ Len(file) \in Nat
      /\ synced \in Nat /\ phase \in [Tx -> Live \cup {"idle", "ended"}] /\ MemoryTypeOK
      /\ undo[t] \in Seq(UndoEntry) /\ Len(undo[t]) \in Nat
  BY DEF TypeOK, MemoryTypeOK, LogTypeOK
<1>1. /\ phase[t] = "logging" /\ visited = Len(undo[t])
      /\ phase'[t] = "syncing" /\ \A u \in Tx \ {t} : phase'[u] = phase[u]
      /\ UNCHANGED <<mode, store, start, view, removed, undo, synced>>
      /\ ~(store # start[t] /\ (store = NoTable \/ Changes(t, "QUERY")))
  BY <1>t DEF WriteFlush, Good
<1>2. mode = "running" /\ \A u \in Tx \ {t} : phase[u] \notin Ending
  BY <1>1, OneCommits DEF Ending
<1>3. Unmarked(file, synced, Len(file)) /\ Clean(t) /\ Logs(t)
  BY <1>1 DEF FileInv, LoggingInv, Clean
<1>4. PICK mid \in Seq(LogEntry), mark \in LogEntry :
        Behind(mid) /\ file' = Append(mid, mark) /\ mark.type = "WAL_FLUSH"
  BY WriteFlushDoes, EntryTypes
<1>5. /\ synced <= Len(mid) /\ Unmarked(mid, synced, Len(mid))
      /\ \A i \in 1..synced : mid[i] = file[i]
  BY <1>3, <1>4, BehindPrefix
<1>6. /\ Len(file') = Len(mid) + 1 /\ file'[Len(mid) + 1] = mark /\ Len(mid) \in Nat
      /\ \A i \in 1..Len(mid) : file'[i] = mid[i]
  BY <1>4
<1>7. Leads(file', synced, Len(file'), store, After(t))
  <2>1. After(t) \in Table
    BY <1>t, AfterTyped
  <2>2. PICK a \in Table : Leads(file, synced, Len(file), store, a) /\ Waiting(a, After(t))
    <3>1. PICK f \in [0..Len(undo[t]) -> Table], a \in Table :
            /\ f[Len(undo[t])] = After(t)
            /\ Leads(file, synced, Len(file), store, a)
            /\ Waiting(a, f[visited])
      BY <1>3 DEF Logs
    <3> QED
      BY <3>1, <1>1
  <2>3. Leads(mid, synced, Len(mid), store, After(t))
    BY <1>4, <2>1, <2>2, BehindLeads
  <2>4. Step(After(t), mark, After(t))
    BY <1>4 DEF Step
  <2>5. Leads(Append(mid, mark), synced, Len(mid) + 1, store, After(t))
    BY <1>t, <1>5, <2>1, <2>3, <2>4, LeadsAppended
  <2> QED
    BY <2>5, <1>4, <1>6
<1>8. SyncedInv'
  <2>1. Marked(file, synced) /\ Leads(file, 0, synced, NoTable, store)
    BY <1>2 DEF FileInv, SyncedInv
  <2>2. \A i \in 1..synced : file'[i] = file[i]
    BY <1>t, <1>5, <1>6
  <2>3. Leads(file', 0, synced, NoTable, store)
    BY <1>t, <2>1, <2>2, LeadsSame
  <2>4. Marked(file', synced)
    BY <1>t, <2>1, <2>2 DEF Marked
  <2> QED
    BY <1>1, <2>3, <2>4 DEF SyncedInv
<1>9. LoggingInv'
  BY <1>1, <1>2 DEF LoggingInv, Ending
<1>10. SyncingInv'
  <2>1. After(t)' = After(t)
    BY <1>1 DEF After, Changes
  <2>2. synced < Len(file') /\ Len(file') - 1 = Len(mid)
    BY <1>t, <1>5, <1>6
  <2>3. Unmarked(file', synced, Len(file') - 1)
    BY <1>t, <1>5, <1>6, <2>2 DEF Unmarked
  <2>4. Marked(file', Len(file'))
    BY <1>4, <1>6 DEF Marked
  <2> QED
    BY <1>1, <1>2, <1>7, <2>1, <2>2, <2>3, <2>4 DEF SyncingInv, Ending
<1> QED
  BY <1>8, <1>9, <1>10 DEF FileInv

LEMMA FlushKeepsFile ==
  ASSUME TypeOK, LockInv, FileInv, Good, Good', NEW t \in Tx, Flush(t)
  PROVE  FileInv'
<1>t. /\ file \in Seq(LogEntry) /\ synced \in Nat /\ Len(file) \in Nat
  BY DEF TypeOK, LogTypeOK
<1>1. /\ phase[t] = "syncing" /\ phase'[t] = "ended" /\ \A u \in Tx \ {t} : phase'[u] = phase[u]
      /\ UNCHANGED <<mode, file>> /\ store' = After(t) /\ synced' = Len(file)
  BY LeaveDoes DEF Flush
<1>2. mode = "running" /\ \A u \in Tx \ {t} : phase[u] \notin Ending
  BY <1>1, OneCommits DEF Ending
<1>3. Leads(file, 0, synced, NoTable, store)
  BY <1>2 DEF FileInv, SyncedInv
<1>4. /\ synced < Len(file) /\ Marked(file, Len(file))
      /\ Leads(file, synced, Len(file), store, After(t))
  BY <1>1 DEF FileInv, SyncingInv
<1>5. Leads(file, 0, Len(file), NoTable, After(t))
  BY <1>t, <1>3, <1>4, LeadsJoined
<1>6. SyncedInv'
  BY <1>1, <1>4, <1>5 DEF SyncedInv, Marked
<1>7. LoggingInv' /\ SyncingInv'
  BY <1>1, <1>2 DEF LoggingInv, SyncingInv, Ending
<1> QED
  BY <1>6, <1>7 DEF FileInv

-----------------------------------------------------------------------------
(* What a recovery reads. *)

\* Entry n of s is its last flush mark, or there is none and n is zero.
LastMark(s, n) == n \in 0..Len(s) /\ Marked(s, n) /\ Unmarked(s, n, Len(s))

\* Replay has run k of the entries and holds those behind them; what it has not
\* run yet, up to the last flush mark, leads from where it is to one of the
\* tables that the recovery may come up with.
ReplayingInv ==
    Good /\ mode = "replaying" =>
        \E n \in Nat, k \in 0..position, T \in promised :
            /\ LastMark(file, n)
            /\ k <= n
            /\ Unmarked(file, k, position)
            /\ Len(stored_entries) = position - k
            /\ \A i \in 1..position - k : stored_entries[i] = file[k + i]
            /\ Leads(file, 0, n, NoTable, T)
            /\ Leads(file, k, n, store, T)

\* It has come up with one, the one that the log leads to.
RecoveredInv ==
    Good /\ mode = "recovered" =>
        /\ store \in promised
        /\ \E n \in Nat : LastMark(file, n) /\ Leads(file, 0, n, NoTable, store)

LEMMA InitializeKeepsFile ==
  ASSUME TypeOK, LockInv, WriterInv, RecoveredInv, Good, Good', Initialize
  PROVE  FileInv'
<1>t. /\ file \in Seq(LogEntry) /\ synced \in 0..Len(file) /\ Len(file) \in Nat
  BY DEF TypeOK, LogTypeOK
<1>1. mode = "recovered" /\ UNCHANGED <<store, phase, file, synced>>
      /\ (file = << >> \/ file[Len(file)].type = "WAL_FLUSH")
  BY DEF Initialize, memory, log, Good
<1>2. \A t \in Tx : phase[t] \notin Live
  BY <1>1 DEF LockInv
<1>3. synced = Len(file)
  BY <1>2 DEF WriterInv, Live, Ending
<1>4. PICK n \in Nat : LastMark(file, n) /\ Leads(file, 0, n, NoTable, store)
  BY <1>1 DEF RecoveredInv
<1>5. n = Len(file)
  <2>1. ASSUME n # Len(file)
        PROVE  FALSE
    <3>1. Len(file) \in n + 1..Len(file)
      BY <1>t, <1>4, <2>1 DEF LastMark
    <3>2. file[Len(file)].type # "WAL_FLUSH"
      BY <1>4, <3>1 DEF LastMark, Unmarked
    <3>3. Len(file) # 0
      BY <3>1
    <3> QED
      BY <1>1, <3>2, <3>3
  <2> QED
    BY <2>1
<1>6. SyncedInv'
  BY <1>1, <1>3, <1>4, <1>5 DEF SyncedInv, LastMark
<1>7. LoggingInv' /\ SyncingInv'
  BY <1>1, <1>2 DEF LoggingInv, SyncingInv, Live
<1> QED
  BY <1>6, <1>7 DEF FileInv

LEMMA FileStep ==
  ASSUME TypeOK, LockInv, WriterInv, StatedInv, CreatedInv, FileInv, RecoveredInv, Next
  PROVE  FileInv'
<1>t. phase \in [Tx -> Live \cup {"idle", "ended"}]
  BY DEF TypeOK, MemoryTypeOK
<1>g. Good' => Good
  BY GoodBefore
<1>b. ASSUME ~Good'
      PROVE  FileInv'
  BY <1>b DEF FileInv, SyncedInv, LoggingInv, SyncingInv
<1>1. ASSUME NEW t \in Tx, BeginTransaction(t)
      PROVE  FileInv'
  <2>1. UNCHANGED <<mode, store, file, synced, visited, appends>>
    BY <1>1 DEF BeginTransaction, writer, log
  <2>2. /\ phase' = [phase EXCEPT ![t] = "running"] /\ UNCHANGED <<removed, undo>>
        /\ \A u \in Tx \ {t} : start'[u] = start[u] /\ view'[u] = view[u]
    BY <1>1, <1>t DEF BeginTransaction, TypeOK, MemoryTypeOK
  <2>3. \A u \in Tx : phase'[u] \in Ending =>
             /\ phase'[u] = phase[u] /\ start'[u] = start[u] /\ view'[u] = view[u]
             /\ removed'[u] = removed[u] /\ undo'[u] = undo[u]
    BY <2>2, <1>t DEF Ending
  <2> QED
    BY <2>1, <2>3, <1>g, FileQuiet
<1>2. ASSUME NEW t \in Tx, Stating(t)
      PROVE  FileInv'
  <2>1. /\ phase[t] = "running" /\ UNCHANGED <<mode, store, phase, file, synced, visited, appends>>
        /\ \A u \in Tx \ {t} : /\ view'[u] = view[u]
                               /\ undo'[u] = undo[u]
                               /\ removed'[u] = removed[u]
        /\ UNCHANGED start
    BY <1>2, StatingDoes DEF writer, log
  <2>2. \A u \in Tx : phase'[u] \in Ending =>
             /\ phase'[u] = phase[u] /\ start'[u] = start[u] /\ view'[u] = view[u]
             /\ removed'[u] = removed[u] /\ undo'[u] = undo[u]
    BY <2>1 DEF Ending
  <2> QED
    BY <2>1, <2>2, <1>g, FileQuiet
<1>3. ASSUME NEW t \in Tx, RollbackTransaction(t)
      PROVE  FileInv'
  <2>1. Leave(t) /\ UNCHANGED <<mode, store, file, synced, visited, appends>>
    BY <1>3 DEF RollbackTransaction, writer, log
  <2>2. \A u \in Tx : phase'[u] \in Ending =>
             /\ phase'[u] = phase[u] /\ start'[u] = start[u] /\ view'[u] = view[u]
             /\ removed'[u] = removed[u] /\ undo'[u] = undo[u]
    BY <2>1, LeaveDoes DEF Ending
  <2> QED
    BY <2>1, <2>2, <1>g, FileQuiet
<1>4. ASSUME NEW t \in Tx, CommitTransaction(t)
      PROVE  FileInv'
  BY <1>4, <1>b, <1>g, CommitFile
<1>5. ASSUME NEW t \in Tx, WriteEntry(t)
      PROVE  FileInv'
  BY <1>5, <1>b, <1>g, WriteEntryKeepsFile
<1>6. ASSUME NEW t \in Tx, WriteFlush(t)
      PROVE  FileInv'
  BY <1>6, <1>b, <1>g, WriteFlushKeepsFile
<1>7. ASSUME NEW t \in Tx, Flush(t)
      PROVE  FileInv'
  BY <1>7, <1>b, <1>g, FlushKeepsFile
<1>8. CASE Crash
  <2>1. mode' = "replaying" /\ \A t \in Tx : phase'[t] \notin Live
    BY <1>8, <1>t, CrashDoes DEF Crash, Live
  <2> QED
    BY <2>1 DEF FileInv, SyncedInv, LoggingInv, SyncingInv, Live
<1>9. CASE Replay
  <2>1. mode = "replaying" /\ mode' # "running" /\ phase' = phase
    BY <1>9 DEF Replay, ReplayEnd, ReplayTorn, ReplayFlush, StoreEntry, StopReplay
  <2>2. \A t \in Tx : phase[t] \notin Live
    BY <2>1 DEF LockInv
  <2> QED
    BY <2>1, <2>2 DEF FileInv, SyncedInv, LoggingInv, SyncingInv, Live
<1>10. CASE Initialize
  BY <1>10, <1>b, <1>g, InitializeKeepsFile
<1> QED
  BY <1>1, <1>2, <1>3, <1>4, <1>5, <1>6, <1>7, <1>8, <1>9, <1>10 DEF Next, Stating

-----------------------------------------------------------------------------
(* Crashes and replay. *)

LEMMA TornStep ==
  ASSUME TypeOK, LockInv, WriterInv, TornInv, Next
  PROVE  TornInv'
<1>t. /\ file \in Seq(LogEntry) /\ synced \in 0..Len(file) /\ Len(file) \in Nat
      /\ appends \in SUBSET Row
  BY DEF TypeOK, LogTypeOK
<1>s. ASSUME UNCHANGED <<mode, file, absorbed>>
      PROVE  TornInv'
  BY <1>s DEF TornInv
\* What a commit appends is not torn.
<1>a. ASSUME NEW s \in Seq(LogEntry), NEW e \in LogEntry, e.type # "TORN",
             s = file \/ Behind(s), file' = s \/ file' = Append(s, e),
             UNCHANGED <<mode, absorbed>>, mode = "running"
      PROVE  TornInv'
  <2>1. ASSUME ~absorbed
        PROVE  \A i \in 1..Len(file) : file[i].type # "TORN"
    BY <2>1, <1>a DEF TornInv
  <2>2. ASSUME ~absorbed
        PROVE  \A i \in 1..Len(s) : s[i].type # "TORN"
    <3>1. CASE s = file
      BY <3>1, <2>1, <2>2
    <3>2. CASE s = Append(file, InsertTuple(appends))
      <4>1. PICK r \in LogEntry : r = InsertTuple(appends) /\ r.type = "INSERT_TUPLE"
        BY <1>t, EntryTypes
      <4>2. Len(s) = Len(file) + 1 /\ s[Len(file) + 1] = r
            /\ \A i \in 1..Len(file) : s[i] = file[i]
        BY <1>t, <3>2, <4>1
      <4> QED
        BY <1>t, <2>1, <2>2, <4>1, <4>2
    <3> QED
      BY <3>1, <3>2, <1>a DEF Behind
  <2>3. ASSUME ~absorbed
        PROVE  \A i \in 1..Len(file') : file'[i].type # "TORN"
    <3>1. CASE file' = s
      BY <3>1, <2>2, <2>3
    <3>2. CASE file' = Append(s, e)
      <4>1. Len(file') = Len(s) + 1 /\ file'[Len(s) + 1] = e /\ Len(s) \in Nat
            /\ \A i \in 1..Len(s) : file'[i] = s[i]
        BY <3>2
      <4> QED
        BY <1>a, <2>2, <2>3, <4>1
    <3> QED
      BY <3>1, <3>2, <1>a
  <2> QED
    BY <2>3, <1>a DEF TornInv
<1>1. ASSUME NEW t \in Tx, BeginTransaction(t) \/ RollbackTransaction(t) \/ CommitTransaction(t)
                           \/ Flush(t)
      PROVE  TornInv'
  BY <1>1, <1>s DEF BeginTransaction, RollbackTransaction, CommitTransaction, Flush, log, history
<1>2. ASSUME NEW t \in Tx, Stating(t)
      PROVE  TornInv'
  BY <1>2, <1>s, StatingDoes DEF log
<1>3. ASSUME NEW t \in Tx, WriteEntry(t)
      PROVE  TornInv'
  <2>1. phase[t] = "logging" /\ UNCHANGED <<mode, absorbed>>
    BY <1>3 DEF WriteEntry
  <2>2. mode = "running"
    BY <2>1, OneCommits DEF Ending
  <2>3. PICK e \in UndoEntry, mid \in Seq(LogEntry) :
          /\ Behind(mid)
          /\ \/ file' = file
             \/ file' = mid
             \/ file' = Append(mid, e)
             \/ file' = Append(file, e)
    BY <1>3, WriteEntryDoes
  <2>4. e \in LogEntry /\ e.type # "TORN"
    BY EntryTypes DEF Doing
  <2>5. CASE file' = mid \/ file' = Append(mid, e)
    BY <2>1, <2>2, <2>3, <2>4, <2>5, <1>a
  <2>6. CASE file' = file \/ file' = Append(file, e)
    BY <2>1, <2>2, <2>4, <2>6, <1>t, <1>a
  <2> QED
    BY <2>3, <2>5, <2>6
<1>4. ASSUME NEW t \in Tx, WriteFlush(t)
      PROVE  TornInv'
  <2>1. phase[t] = "logging" /\ UNCHANGED <<mode, absorbed>>
    BY <1>4 DEF WriteFlush
  <2>2. mode = "running"
    BY <2>1, OneCommits DEF Ending
  <2>3. PICK mid \in Seq(LogEntry), mark \in LogEntry :
          Behind(mid) /\ file' = Append(mid, mark) /\ mark.type = "WAL_FLUSH"
    BY <1>4, WriteFlushDoes, EntryTypes
  <2> QED
    BY <2>1, <2>2, <2>3, <1>a
<1>5. CASE Crash
  <2>1. PICK kept \in synced..Len(file) :
          /\ Len(file') = kept \/ (Len(file') = kept + 1 /\ kept < Len(file))
          /\ \A i \in 1..kept : file'[i] = file[i]
    BY <1>5, KeptFile DEF TypeOK
  <2>2. mode' = "replaying" /\ absorbed' = absorbed
    BY <1>5 DEF Crash
  <2>3. ASSUME ~absorbed, NEW i \in 1..Len(file'), file'[i].type = "TORN"
        PROVE  i = Len(file')
    <3>1. CASE i \in 1..kept
      <4>1. i = Len(file) /\ mode # "running"
        BY <1>t, <2>1, <2>3, <3>1 DEF TornInv
      <4>2. kept = Len(file)
        BY <1>t, <2>1, <3>1, <4>1
      <4> QED
        BY <1>t, <2>1, <4>1, <4>2
    <3>2. CASE i \notin 1..kept
      BY <1>t, <2>1, <3>2
    <3> QED
      BY <3>1, <3>2
  <2> QED
    BY <2>2, <2>3 DEF TornInv
<1>6. CASE Replay
  <2>1. mode = "replaying" /\ mode' # "running" /\ UNCHANGED <<file, absorbed>>
    BY <1>6 DEF Replay, ReplayEnd, ReplayTorn, ReplayFlush, StoreEntry, StopReplay, log, history
  <2> QED
    BY <2>1 DEF TornInv
<1>7. CASE Initialize
  <2>1. UNCHANGED file
        /\ (~absorbed' => ~absorbed /\ (file = << >> \/ file[Len(file)].type = "WAL_FLUSH"))
    BY <1>7 DEF Initialize, log
  <2> QED
    BY <1>t, <2>1 DEF TornInv
<1> QED
  BY <1>1, <1>2, <1>3, <1>4, <1>5, <1>6, <1>7 DEF Next, Stating

\* What a crash leaves of a log that was flushed to its mark n before the cut.
LEMMA CutReads ==
  ASSUME LogTypeOK, Crash, NEW kept \in 0..Len(file),
         Len(file') = kept \/ (Len(file') = kept + 1 /\ file'[kept + 1] = Torn),
         \A i \in 1..kept : file'[i] = file[i],
         NEW n \in 0..kept, NEW T, Marked(file, n), Unmarked(file, n, kept),
         Leads(file, 0, n, NoTable, T)
  PROVE  LastMark(file', n) /\ Leads(file', 0, n, NoTable, T)
<1>t. Len(file) \in Nat /\ Torn.type = "TORN" /\ n \in Nat /\ kept \in Nat
  BY EntryTypes DEF LogTypeOK
<1>1. \A i \in 1..n : file'[i] = file[i]
  BY <1>t
<1>2. Leads(file', 0, n, NoTable, T)
  BY <1>t, <1>1, LeadsSame
<1>3. Marked(file', n)
  BY <1>t, <1>1 DEF Marked
<1>4. Unmarked(file', n, Len(file'))
  BY <1>t DEF Unmarked
<1> QED
  BY <1>t, <1>2, <1>3, <1>4 DEF LastMark

\* A crash leaves a log that leads to a table which it promises.
LEMMA CrashReads ==
  ASSUME TypeOK, LockInv, WriterInv, FileInv, ReplayingInv, RecoveredInv, Good, Crash
  PROVE  \E n \in Nat, T \in promised' :
            LastMark(file', n) /\ Leads(file', 0, n, NoTable, T)
<1>t. /\ file \in Seq(LogEntry) /\ synced \in 0..Len(file) /\ Len(file) \in Nat /\ synced \in Nat
      /\ mode \in {"running", "replaying", "recovered"} /\ LogTypeOK
  BY DEF TypeOK, MemoryTypeOK, LogTypeOK
<1>1. PICK kept \in synced..Len(file) :
        /\ Len(file') = kept \/ (Len(file') = kept + 1 /\ file'[kept + 1] = Torn)
        /\ \A i \in 1..kept : file'[i] = file[i]
  BY <1>t, KeptFile
<1>k. kept \in 0..Len(file) /\ kept \in Nat /\ synced \in 0..kept
  BY <1>t
<1>2. promised' = IF mode = "replaying" THEN promised
                  ELSE {store} \cup {After(t) : t \in {u \in Tx : phase[u] = "syncing"}}
  BY DEF Crash
<1>3. CASE mode = "running"
  <2>1. Marked(file, synced) /\ Leads(file, 0, synced, NoTable, store)
    BY <1>3 DEF FileInv, SyncedInv
  <2>2. CASE Unmarked(file, synced, kept)
    <3>1. LastMark(file', synced) /\ Leads(file', 0, synced, NoTable, store)
      BY <1>t, <1>1, <1>k, <2>1, <2>2, CutReads
    <3> QED
      BY <1>t, <1>2, <1>3, <3>1
  <2>3. CASE ~Unmarked(file, synced, kept)
    <3>1. \A t \in Tx : phase[t] # "logging"
      <4>1. Unmarked(file, synced, Len(file)) => Unmarked(file, synced, kept)
        BY <1>t DEF Unmarked
      <4> QED
        BY <2>3, <4>1 DEF FileInv, LoggingInv
    <3>2. synced # kept
      BY <2>3, <1>t DEF Unmarked
    <3>3. PICK t \in Tx : phase[t] = "syncing"
      <4>1. synced # Len(file)
        BY <1>t, <3>2
      <4> QED
        BY <3>1, <4>1 DEF WriterInv, Ending
    <3>4. /\ synced < Len(file) /\ Unmarked(file, synced, Len(file) - 1)
          /\ Marked(file, Len(file)) /\ Leads(file, synced, Len(file), store, After(t))
      BY <3>3 DEF FileInv, SyncingInv
    <3>5. kept = Len(file)
      <4>1. ASSUME kept <= Len(file) - 1
            PROVE  FALSE
        BY <4>1, <3>4, <2>3, <1>t DEF Unmarked
      <4> QED
        BY <4>1, <1>t
    <3>6. Leads(file, 0, Len(file), NoTable, After(t))
      BY <1>t, <2>1, <3>4, LeadsJoined
    <3>7. Unmarked(file, kept, kept)
      BY <1>k DEF Unmarked
    <3>8. LastMark(file', kept) /\ Leads(file', 0, kept, NoTable, After(t))
      BY <1>t, <1>1, <1>k, <3>4, <3>5, <3>6, <3>7, CutReads
    <3>9. After(t) \in promised'
      BY <1>2, <1>3, <3>3
    <3> QED
      BY <1>k, <3>8, <3>9
  <2> QED
    BY <2>2, <2>3
<1>4. CASE mode # "running"
  <2>1. \A t \in Tx : phase[t] \notin Ending
    BY <1>4 DEF LockInv, Live, Ending
  <2>2. kept = Len(file)
    BY <2>1, <1>t DEF WriterInv
  <2>3. PICK n \in Nat, T \in promised' : LastMark(file, n) /\ Leads(file, 0, n, NoTable, T)
    <3>1. CASE mode = "replaying"
      BY <3>1, <1>2 DEF ReplayingInv
    <3>2. CASE mode = "recovered"
      BY <3>2, <1>2 DEF RecoveredInv
    <3> QED
      BY <1>4, <1>t, <3>1, <3>2
  <2>4. LastMark(file', n) /\ Leads(file', 0, n, NoTable, T)
    BY <1>t, <1>1, <1>k, <2>2, <2>3, CutReads DEF LastMark
  <2> QED
    BY <2>3, <2>4
<1> QED
  BY <1>3, <1>4

\* Where nothing is flushed between what has been run and what has been read,
\* and what is left has no mark, the last mark is the one that has been run.
LEMMA ReplayIsThere ==
  ASSUME NEW n \in Nat, NEW k \in Nat, NEW p \in Nat, k <= n, n <= p,
         Marked(file, n), Unmarked(file, k, p)
  PROVE  n = k
<1>1. ASSUME n # k
      PROVE  FALSE
  BY <1>1 DEF Marked, Unmarked
<1> QED
  BY <1>1

\* Replay reads on: it ends where the log leads, or it is closer to its end.
LEMMA ReplayReads ==
  ASSUME TypeOK, WriterInv, TornInv, ReplayingInv, Good, Replay
  PROVE  /\ \/ mode' = "replaying"
            \/ mode' = "recovered" /\ RecoveredInv'
         /\ ReplayingInv'
<1>t. /\ file \in Seq(LogEntry) /\ Len(file) \in Nat /\ position \in 0..Len(file)
      /\ position \in Nat /\ stored_entries \in Seq(LogEntry)
  BY DEF TypeOK, LogTypeOK
<1>f. mode = "replaying" /\ UNCHANGED <<phase, file, synced, promised>>
      /\ (ReplayEnd \/ ReplayTorn \/ ReplayFlush \/ StoreEntry)
  BY DEF Replay, log, history
<1>1. PICK n \in Nat, k \in 0..position, T \in promised :
        /\ LastMark(file, n)
        /\ k <= n
        /\ Unmarked(file, k, position)
        /\ Len(stored_entries) = position - k
        /\ \A i \in 1..position - k : stored_entries[i] = file[k + i]
        /\ Leads(file, 0, n, NoTable, T)
        /\ Leads(file, k, n, store, T)
  BY <1>f DEF ReplayingInv
<1>2. n <= Len(file) /\ Marked(file, n) /\ Unmarked(file, n, Len(file)) /\ k \in Nat
  BY <1>t, <1>1 DEF LastMark
\* Replay stops when it has run all that there is.
<1>3. ASSUME StopReplay, n <= position
      PROVE  mode' = "recovered" /\ RecoveredInv' /\ ReplayingInv'
  <2>1. n = k
    BY <1>t, <1>1, <1>2, <1>3, ReplayIsThere
  <2>2. store = T
    BY <1>1, <1>2, <2>1, LeadsNowhereElse
  <2>3. mode' = "recovered" /\ store' = store
    BY <1>3 DEF StopReplay
  <2>4. RecoveredInv'
    <3>1. store' \in promised'
      BY <1>f, <2>2, <2>3
    <3>2. LastMark(file', n) /\ Leads(file', 0, n, NoTable, store')
      BY <1>f, <1>1, <2>2, <2>3
    <3> QED
      BY <3>1, <3>2 DEF RecoveredInv
  <2>5. ReplayingInv'
    BY <2>3 DEF ReplayingInv
  <2> QED
    BY <2>3, <2>4, <2>5
<1>4. CASE ReplayEnd
  BY <1>2, <1>3, <1>4 DEF ReplayEnd
<1>5. CASE ReplayTorn
  <2>1. position + 1 \in 1..Len(file) /\ file[position + 1].type = "TORN" /\ StopReplay
    BY <1>t, <1>5, EntryTypes DEF ReplayTorn
  <2>2. position + 1 = Len(file)
    BY <2>1 DEF TornInv, Good
  <2>3. n # Len(file)
    BY <1>2, <2>1, <2>2 DEF Marked
  <2> QED
    BY <1>t, <1>2, <1>3, <2>1, <2>2, <2>3
<1>6. CASE ReplayFlush
  <2>1. position + 1 \in 1..Len(file) /\ file[position + 1].type = "WAL_FLUSH"
    BY <1>t, <1>6 DEF ReplayFlush
  <2>2. position + 1 <= n
    BY <1>t, <1>2, <2>1 DEF Unmarked
  <2>3. PICK b \in Table : Leads(file, k, position, store, b) /\ Leads(file, position, n, b, T)
    BY <1>t, <1>1, <1>2, <2>2, LeadsSplit
  <2>4. PICK c \in Table : Leads(file, position, position + 1, b, c)
                           /\ Leads(file, position + 1, n, c, T)
    <3>1. position + 1 \in Nat /\ position <= position + 1
      BY <1>t
    <3>2. \E c \in Table : Leads(file, position, position + 1, b, c)
                          /\ Leads(file, position + 1, n, c, T)
      BY <1>t, <3>1, <2>2, <2>3, LeadsSplit, Zenon
    <3> QED
      BY <3>2
  <2>5. c = b
    <3>1. Step(b, file[position + 1], c)
      <4>1. PICK f \in [position..position + 1 -> Table] :
              /\ f[position] = b
              /\ f[position + 1] = c
              /\ \A i \in position + 1..position + 1 : Step(f[i - 1], file[i], f[i])
        BY <2>4 DEF Leads
      <4>2. position + 1 \in position + 1..position + 1 /\ (position + 1) - 1 = position
        BY <1>t
      <4>3. Step(f[(position + 1) - 1], file[position + 1], f[position + 1])
        BY <4>1, <4>2
      <4> QED
        BY <4>1, <4>2, <4>3
    <3> QED
      BY <3>1, <2>1 DEF Step
  <2>6. Leads(stored_entries, 0, Len(stored_entries), store, b)
    <3>1. \A i \in k + 1..position : stored_entries[i - k] = file[i]
      <4>1. ASSUME NEW i \in k + 1..position
            PROVE  stored_entries[i - k] = file[i]
        <5>1. i - k \in 1..position - k /\ k + (i - k) = i
          BY <1>t, <1>2
        <5>2. stored_entries[i - k] = file[k + (i - k)]
          BY <1>1, <5>1
        <5> QED
          BY <5>1, <5>2
      <4> QED
        BY <4>1
    <3>2. Leads(stored_entries, k - k, position - k, store, b)
      <4>1. k \in Nat /\ position \in Nat /\ k <= position /\ k <= k
        BY <1>t, <1>2
      <4> QED
        BY <4>1, <2>3, <3>1, LeadsMoved, Zenon
    <3> QED
      BY <1>1, <1>2, <3>2
  <2>7. ReplayedAll = {b}
    BY <1>t, <2>6, ReplayedAllLeads DEF WriterInv
  <2>8. store' = b /\ position' = position + 1 /\ stored_entries' = << >> /\ mode' = mode
    BY <1>6, <2>7 DEF ReplayFlush
  <2>9. ReplayingInv'
    <3>1. position + 1 \in 0..position' /\ position + 1 \in Nat
      BY <1>t, <2>8
    <3>2. LastMark(file', n) /\ T \in promised' /\ Leads(file', 0, n, NoTable, T)
      BY <1>f, <1>1
    <3>3. Unmarked(file', position + 1, position')
      BY <1>t, <2>8 DEF Unmarked
    <3>4. Len(stored_entries') = position' - (position + 1)
      BY <1>t, <2>8
    <3>5. \A i \in 1..position' - (position + 1) :
            stored_entries'[i] = file'[position + 1 + i]
      BY <1>t, <2>8
    <3>6. Leads(file', position + 1, n, store', T)
      BY <1>f, <2>4, <2>5, <2>8
    <3>7. PICK k2 \in 0..position' : k2 = position + 1
      BY <3>1
    <3> QED
      BY <2>2, <3>2, <3>3, <3>4, <3>5, <3>6, <3>7 DEF ReplayingInv
  <2> QED
    BY <1>f, <2>8, <2>9
<1>7. CASE StoreEntry
  <2>1. /\ position + 1 \in 1..Len(file) /\ file[position + 1].type # "WAL_FLUSH"
        /\ file[position + 1] \in LogEntry
        /\ position' = position + 1 /\ UNCHANGED <<mode, store>>
        /\ stored_entries' = Append(stored_entries, file[position + 1])
    BY <1>t, <1>7 DEF StoreEntry
  <2>2. /\ Len(stored_entries') = position' - k
        /\ \A i \in 1..position' - k : stored_entries'[i] = file[k + i]
    <3>1. PICK e \in LogEntry : e = file[position + 1]
      BY <2>1
    <3>2. Len(stored_entries') = Len(stored_entries) + 1
          /\ stored_entries'[Len(stored_entries) + 1] = e
          /\ \A i \in 1..Len(stored_entries) : stored_entries'[i] = stored_entries[i]
      BY <1>t, <2>1, <3>1
    <3>3. ASSUME NEW i \in 1..position' - k
          PROVE  stored_entries'[i] = file[k + i]
      <4>1. CASE i <= position - k
        BY <1>t, <1>1, <1>2, <3>2, <3>3, <4>1
      <4>2. CASE i = position - k + 1
        <5>1. k + i = position + 1 /\ i = Len(stored_entries) + 1
          BY <1>t, <1>1, <1>2, <4>2
        <5> QED
          BY <5>1, <3>1, <3>2
      <4>3. i <= position - k \/ i = position - k + 1
        BY <1>t, <1>2, <2>1, <3>3
      <4> QED
        BY <4>1, <4>2, <4>3
    <3> QED
      BY <1>t, <1>1, <1>2, <2>1, <3>2, <3>3
  <2>3. Unmarked(file, k, position')
    BY <1>t, <1>1, <1>2, <2>1 DEF Unmarked
  <2>4. k \in 0..position'
    BY <1>t, <1>1, <2>1
  <2>5. ReplayingInv'
    BY <1>f, <1>1, <2>1, <2>2, <2>3, <2>4 DEF ReplayingInv
  <2> QED
    BY <1>f, <2>1, <2>5
<1> QED
  BY <1>f, <1>3, <1>4, <1>5, <1>6, <1>7 DEF ReplayEnd, ReplayTorn

LEMMA RecoveryStep ==
  ASSUME TypeOK, LockInv, WriterInv, FileInv, TornInv, ReplayingInv, RecoveredInv, Next
  PROVE  ReplayingInv' /\ RecoveredInv'
<1>t. phase \in [Tx -> Live \cup {"idle", "ended"}]
  BY DEF TypeOK, MemoryTypeOK
<1>g. Good' => Good
  BY GoodBefore
<1>b. ASSUME ~Good' \/ mode' = "running"
      PROVE  ReplayingInv' /\ RecoveredInv'
  BY <1>b DEF ReplayingInv, RecoveredInv
<1>1. ASSUME NEW t \in Tx, \/ BeginTransaction(t) \/ RollbackTransaction(t)
                           \/ CommitTransaction(t) \/ WriteEntry(t) \/ WriteFlush(t) \/ Flush(t)
      PROVE  mode' = "running"
  <2>1. mode' = mode /\ (mode = "running" \/ phase[t] \in Live)
    BY <1>1 DEF BeginTransaction, RollbackTransaction, CommitTransaction, WriteEntry, WriteFlush,
                Flush, Live
  <2> QED
    BY <2>1 DEF LockInv
<1>2. ASSUME NEW t \in Tx, Stating(t)
      PROVE  mode' = "running"
  BY <1>2, StatingDoes DEF LockInv, Live
<1>3. CASE Crash
  <2>1. mode' = "replaying" /\ position' = 0 /\ stored_entries' = << >> /\ store' = NoTable
    BY <1>3 DEF Crash
  <2>2. RecoveredInv'
    BY <2>1 DEF RecoveredInv
  <2>3. ASSUME Good'
        PROVE  ReplayingInv'
    <3>1. PICK n \in Nat, T \in promised' :
            LastMark(file', n) /\ Leads(file', 0, n, NoTable, T)
      BY <1>3, <1>g, <2>3, CrashReads
    <3>2. Unmarked(file', 0, position') /\ Len(stored_entries') = position' - 0
          /\ \A i \in 1..position' - 0 : stored_entries'[i] = file'[0 + i]
      BY <2>1 DEF Unmarked
    <3>3. Leads(file', 0, n, store', T) /\ 0 \in 0..position' /\ 0 <= n
      BY <2>1, <3>1
    <3> QED
      BY <3>1, <3>2, <3>3 DEF ReplayingInv
  <2> QED
    BY <1>b, <2>2, <2>3
<1>4. CASE Replay
  <2>1. ASSUME Good'
        PROVE  ReplayingInv' /\ RecoveredInv'
    <3>1. /\ mode' = "replaying" \/ (mode' = "recovered" /\ RecoveredInv')
          /\ ReplayingInv'
      BY <1>4, <1>g, <2>1, ReplayReads
    <3>2. mode' = "replaying" => RecoveredInv'
      BY DEF RecoveredInv
    <3> QED
      BY <3>1, <3>2
  <2> QED
    BY <1>b, <2>1
<1>5. CASE Initialize
  BY <1>5, <1>b DEF Initialize
<1> QED
  BY <1>1, <1>2, <1>3, <1>4, <1>5, <1>b DEF Next, Stating

-----------------------------------------------------------------------------
(* The theorems. *)

IInv ==
    /\ TypeOK
    /\ LockInv
    /\ WriterInv
    /\ RowsInv
    /\ StatedInv
    /\ CreatedInv
    /\ FileInv
    /\ TornInv
    /\ ReplayingInv
    /\ RecoveredInv

LEMMA InitIInv ==
  ASSUME Init
  PROVE  IInv
<1>e. /\ IsFiniteSet({}) /\ Cardinality({}) = 0 /\ Cardinality({}) <= VectorSize
      /\ VectorSize \in Nat /\ NoTable \in Table /\ 0 \in 0..MaxCrashes
  BY FS_EmptySet, WALAssumption DEF Table
<1>m. mode = "running" /\ file = << >> /\ synced = 0 /\ store = NoTable /\ visited = 0
      /\ appends = {} /\ position = 0 /\ stored_entries = << >> /\ refused = {}
      /\ \A t \in Tx : phase[t] = "idle" /\ start[t] = NoTable /\ view[t] = NoTable
                       /\ removed[t] = {} /\ undo[t] = << >>
  BY DEF Init, Idle
<1>1. TypeOK
  <2>1. MemoryTypeOK
    BY <1>e DEF Init, Idle, MemoryTypeOK
  <2>2. LogTypeOK
    BY <1>e DEF Init, LogTypeOK
  <2>3. HistoryTypeOK
    BY DEF Init, HistoryTypeOK
  <2> QED
    BY <2>1, <2>2, <2>3 DEF TypeOK
<1>2. LockInv
  BY <1>m, WALAssumption DEF Init, LockInv, Ending, Live
<1>3. WriterInv
  BY <1>m, <1>e DEF WriterInv
<1>4. RowsInv
  BY <1>m DEF RowsInv, Within, TablesOf
<1>5. StatedInv /\ CreatedInv
  BY <1>m DEF StatedInv, CreatedInv, Live
<1>6. FileInv
  <2>1. Leads(file, 0, 0, NoTable, NoTable)
    BY <1>e, LeadsNowhere
  <2> QED
    BY <1>m, <2>1 DEF FileInv, SyncedInv, LoggingInv, SyncingInv, Marked
<1>7. TornInv /\ ReplayingInv /\ RecoveredInv
  BY <1>m DEF TornInv, ReplayingInv, RecoveredInv
<1> QED
  BY <1>1, <1>2, <1>3, <1>4, <1>5, <1>6, <1>7 DEF IInv

LEMMA StutterIInv ==
  ASSUME IInv, UNCHANGED vars
  PROVE  IInv'
<1> USE DEF vars, memory, writer, log, replay, history
<1>1. TypeOK'
  BY DEF IInv, TypeOK, MemoryTypeOK, LogTypeOK, HistoryTypeOK
<1>2. LockInv' /\ WriterInv' /\ RowsInv'
  BY DEF IInv, LockInv, WriterInv, RowsInv, Within
<1>3. \A t \in Tx : \A type : Changes(t, type)' <=> Changes(t, type)
  BY DEF Changes
<1>4. StatedInv' /\ CreatedInv'
  BY <1>3, StatedSame DEF IInv, StatedInv, CreatedInv, Others
<1>g. Good' <=> Good
  BY DEF Good
<1>5. FileInv'
  BY <1>g, FileQuiet DEF IInv
<1>6. TornInv' /\ ReplayingInv' /\ RecoveredInv'
  BY <1>g DEF IInv, TornInv, ReplayingInv, RecoveredInv
<1> QED
  BY <1>1, <1>2, <1>4, <1>5, <1>6 DEF IInv

LEMMA NextIInv ==
  ASSUME IInv, Next
  PROVE  IInv'
<1> USE DEF IInv
<1>1. TypeOK'
  BY MemoryTypeStep, LogTypeStep, HistoryTypeStep DEF TypeOK
<1>2. LockInv' /\ WriterInv' /\ RowsInv'
  BY LockStep, WriterStep, RowsStep
<1>3. StatedInv' /\ CreatedInv'
  BY StatedStep, CreatedStep
<1>4. FileInv' /\ TornInv'
  BY FileStep, TornStep
<1>5. ReplayingInv' /\ RecoveredInv'
  BY RecoveryStep
<1> QED
  BY <1>1, <1>2, <1>3, <1>4, <1>5

\* The inductive invariant of the log: who holds the commit lock, what a commit
\* has logged so far, what the file leads to and what a replay has run of it.
THEOREM InductiveInvariant == Spec => []IInv
<1>1. Init => IInv
  BY InitIInv
<1>2. IInv /\ [Next]_vars => IInv'
  BY NextIInv, StutterIInv
<1> QED
  BY <1>1, <1>2, PTL DEF Spec

\* Memory, log, replay and the commit's chunk of tuples keep their types: the
\* chunk that UndoBuffer::Commit collects is never over full, and what has been
\* synced is never more than the file.
THEOREM TypeCorrect == Spec => []TypeOK
<1>1. IInv => TypeOK
  BY DEF IInv
<1> QED
  BY <1>1, InductiveInvariant, PTL

\* Recovery from a log of none of the four kinds that the code gets wrong: what
\* WriteAheadLog::Replay comes up with is a table that the database promised,
\* the committed one or the one of the commit that was about to be acknowledged,
\* after any number of crashes, cuts and interrupted replays.
THEOREM RecoveryIsExact == Spec => []CleanLogRecovers
<1>1. IInv => CleanLogRecovers
  BY DEF IInv, RecoveredInv, CleanLogRecovers, Recovered, Good
<1> QED
  BY <1>1, InductiveInvariant, PTL
===============================================================================
