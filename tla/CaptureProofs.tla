---------------------------- MODULE CaptureProofs ----------------------------
(***************************************************************************)
(* Proofs about TestCapture: the rows the library leaves are the record of *)
(* what ran and stands, for any counts, any number of calls and any nest   *)
(* of exception blocks.                                                    *)
(***************************************************************************)
EXTENDS TestCapture, FiniteSetTheorems, FunctionTheorems, SequenceTheorems, TLAPS

(***************************************************************************)
(* The inductive invariant: what is said of the tables holds as well of    *)
(* every copy an exception block may bring back, as of the assertions that *)
(* had run when it was saved.                                              *)
(***************************************************************************)
Rows == [number : Nat, of : Nat, passed : BOOLEAN, directive : Nat \cup {None, Skipped}]
Notes == [after : Nat, written : Nat]
Todos == [reason : Nat \cup {None}, remaining : Nat \cup {None}]
Tables ==
    [assertions : Seq(Rows), notes : Seq(Notes), plan : Counts \cup {None},
     declared : BOOLEAN, todo : Todos, present : BOOLEAN]
Covers == Seq(Counts \cup {None})

\* The rows are of the assertions that stand of the first n, in their order.
RowsSound(rows, n, r, u) ==
    /\ \A i \in DOMAIN rows : rows[i].number = i
    /\ \A i \in DOMAIN rows : rows[i].of \in (1 .. n) \ u /\ rows[i].passed = r[rows[i].of]
    /\ \A i, j \in DOMAIN rows : i < j => rows[i].of < rows[j].of
    /\ \A k \in (1 .. n) \ u : \E i \in DOMAIN rows : rows[i].of = k

DirectivesSound(rows, c) ==
    \A i \in DOMAIN rows :
        /\ rows[i].directive \in {None, Skipped} \cup DOMAIN c
        /\ rows[i].passed \/ rows[i].directive \in {None} \cup DOMAIN c

Under(rows, t) == {i \in DOMAIN rows : rows[i].directive = t}

\* What a todo has covered and what it has yet to cover are no more than it
\* was declared for.
Leaves(rows, todo, t, most) ==
    todo.reason = t =>
        /\ todo.remaining \in Nat \ {0}
        /\ Cardinality(Under(rows, t)) + todo.remaining <= most

TodoSound(rows, todo, c) ==
    /\ todo.reason \in {None} \cup DOMAIN c
    /\ \A t \in DOMAIN c : c[t] \notin {None, 0} =>
          /\ Cardinality(Under(rows, t)) <= c[t]
          /\ Leaves(rows, todo, t, c[t])

Splits(rows, note) == \A k \in DOMAIN rows : k <= note.after <=> rows[k].of <= note.written

NotesSound(rows, notes, n) ==
    \A i \in DOMAIN notes :
        /\ notes[i].after \in 0 .. Len(rows)
        /\ notes[i].written \in 0 .. n
        /\ Splits(rows, notes[i])

PlanSound(tables, p) == tables.present => p = IF tables.declared THEN {tables.plan} ELSE {}

Sound(tables, n, p, r, u, c) ==
    /\ tables \in Tables
    /\ RowsSound(tables.assertions, n, r, u)
    /\ DirectivesSound(tables.assertions, c)
    /\ TodoSound(tables.assertions, tables.todo, c)
    /\ NotesSound(tables.assertions, tables.notes, n)
    /\ PlanSound(tables, p)

HistoryTyped ==
    /\ ran \in Seq(BOOLEAN)
    /\ undone \subseteq DOMAIN ran
    /\ covers \in Covers
    /\ plans \subseteq Counts \cup {None}

Blocks == [kind : Kinds, saved : Tables, from : Nat, plans : SUBSET (Counts \cup {None})]

BlocksSound ==
    /\ blocks \in Seq(Blocks)
    /\ \A i \in DOMAIN blocks :
          /\ blocks[i].from <= Len(ran)
          /\ Sound(blocks[i].saved, blocks[i].from, blocks[i].plans, ran, undone, covers)
    /\ \A i, j \in DOMAIN blocks : i <= j => blocks[i].from <= blocks[j].from

CaptureInv ==
    /\ HistoryTyped
    /\ Sound(db, Len(ran), plans, ran, undone, covers)
    /\ BlocksSound
    /\ verdict = "passed" => db.present /\ Passed(db)

(***************************************************************************)
(* Rows.                                                                   *)
(***************************************************************************)
LEMMA CountsAreNumbers == Counts \subseteq Nat /\ None \notin Nat /\ Skipped \notin Nat
BY CallsAssumption

LEMMA CoverIs ==
    ASSUME NEW c \in Covers, NEW t \in DOMAIN c
    PROVE  /\ t \in Nat /\ t # None /\ t # Skipped
           /\ c[t] # None => c[t] \in Nat
<1>1. c \in Seq(Counts \cup {None})
  BY DEF Covers
<1>2. t \in 1 .. Len(c) /\ c[t] \in Counts \cup {None}
  BY <1>1
<1>3. t \in Nat
  BY <1>1, <1>2
<1>. QED
  BY <1>2, <1>3, CountsAreNumbers

\* The highest number is the number of rows.
LEMMA HighestIsLast ==
    ASSUME NEW rows \in Seq(Rows), \A i \in DOMAIN rows : rows[i].number = i
    PROVE  Highest(rows) = Len(rows)
<1>1. Numbers(rows) = 1 .. Len(rows)
  BY DEF Numbers
<1> DEFINE Top(n) == n \in Numbers(rows) \cup {0} /\ \A k \in Numbers(rows) : k <= n
<1>2. Top(Len(rows))
  BY <1>1
<1>3. \A n : Top(n) => n = Len(rows)
  <2> SUFFICES ASSUME NEW n, Top(n) PROVE n = Len(rows)
    OBVIOUS
  <2>1. n \in 0 .. Len(rows) /\ Len(rows) \in Nat
    BY <1>1
  <2>2. n < Len(rows) => Len(rows) \in Numbers(rows)
    BY <1>1, <2>1
  <2>. QED
    BY <2>1, <2>2
<1>4. Highest(rows) = CHOOSE n : Top(n)
  BY DEF Highest
<1>5. Top(CHOOSE n : Top(n))
  <2> HIDE DEF Top
  <2>. QED BY <1>2
<1>. QED
  BY <1>3, <1>4, <1>5

LEMMA AssertionIs ==
    ASSUME NEW number, NEW of, NEW passed, NEW directive
    PROVE  /\ Assertion(number, of, passed, directive).number = number
           /\ Assertion(number, of, passed, directive).of = of
           /\ Assertion(number, of, passed, directive).passed = passed
           /\ Assertion(number, of, passed, directive).directive = directive
           /\ number \in Nat /\ of \in Nat /\ passed \in BOOLEAN
              /\ directive \in Nat \cup {None, Skipped}
              => Assertion(number, of, passed, directive) \in Rows
BY DEF Assertion, Rows

\* More rows, of the assertions that ran next.
Continue(more, rows, n, values) ==
    \A i \in DOMAIN more :
        /\ more[i].number = Len(rows) + i
        /\ more[i].of = n + i
        /\ more[i].passed = values[i]

LEMMA RowsContinue ==
    ASSUME NEW n \in Nat, NEW r \in Seq(BOOLEAN), Len(r) = n, NEW u \in SUBSET (1 .. n),
           NEW rows \in Seq(Rows), RowsSound(rows, n, r, u),
           NEW more \in Seq(Rows), NEW values \in Seq(BOOLEAN), Len(values) = Len(more),
           Continue(more, rows, n, values)
    PROVE  RowsSound(rows \o more, n + Len(more), r \o values, u)
<1> DEFINE all == rows \o more
           new == r \o values
<1>1. /\ all \in Seq(Rows) /\ Len(all) = Len(rows) + Len(more)
      /\ DOMAIN all = 1 .. Len(rows) + Len(more)
      /\ DOMAIN rows = 1 .. Len(rows) /\ DOMAIN more = 1 .. Len(more)
      /\ Len(rows) \in Nat /\ Len(more) \in Nat
      /\ \A i \in DOMAIN rows : i \in DOMAIN all /\ all[i] = rows[i]
      /\ \A i \in DOMAIN more : all[Len(rows) + i] = more[i]
  OBVIOUS
<1>2. /\ \A i \in 1 .. n : new[i] = r[i]
      /\ \A i \in 1 .. Len(more) : new[n + i] = values[i]
  OBVIOUS
<1>3. \A i \in DOMAIN all :
        \/ i \in DOMAIN rows /\ all[i] = rows[i]
        \/ \E j \in DOMAIN more : i = Len(rows) + j /\ all[i] = more[j]
  <2> SUFFICES ASSUME NEW i \in DOMAIN all, i \notin DOMAIN rows
               PROVE  \E j \in DOMAIN more : i = Len(rows) + j /\ all[i] = more[j]
    BY <1>1
  <2>1. i - Len(rows) \in DOMAIN more /\ i = Len(rows) + (i - Len(rows))
    BY <1>1
  <2> HIDE DEF all
  <2>2. all[i] = more[i - Len(rows)]
    BY <1>1, <2>1
  <2>. QED
    BY <2>1, <2>2
<1> HIDE DEF all, new
<1>4. \A i \in DOMAIN all : all[i].number = i
  BY <1>3 DEF RowsSound, Continue
<1>5. \A i \in DOMAIN all : all[i].of \in (1 .. n + Len(more)) \ u /\ all[i].passed = new[all[i].of]
  <2> TAKE i \in DOMAIN all
  <2>1. CASE i \in DOMAIN rows /\ all[i] = rows[i]
    <3>1. rows[i].of \in (1 .. n) \ u /\ rows[i].passed = r[rows[i].of]
      BY <2>1 DEF RowsSound
    <3>. QED
      BY <2>1, <3>1, <1>2
  <2>2. CASE \E j \in DOMAIN more : i = Len(rows) + j /\ all[i] = more[j]
    <3>1. PICK j \in 1 .. Len(more) : all[i] = more[j]
      BY <2>2
    <3>2. more[j].of = n + j /\ more[j].passed = values[j]
      BY DEF Continue
    <3>. QED
      BY <3>1, <3>2, <1>2
  <2>. QED
    BY <1>3, <2>1, <2>2
<1>6. \A i, j \in DOMAIN all : i < j => all[i].of < all[j].of
  <2> SUFFICES ASSUME NEW i \in DOMAIN all, NEW j \in DOMAIN all, i < j
               PROVE  all[i].of < all[j].of
    OBVIOUS
  <2>1. CASE j \in DOMAIN rows
    <3>1. i \in DOMAIN rows
      BY <1>1, <2>1
    <3>2. rows[i].of < rows[j].of
      BY <2>1, <3>1 DEF RowsSound
    <3>. QED
      BY <1>1, <2>1, <3>1, <3>2
  <2>2. CASE j \notin DOMAIN rows
    <3>1. PICK l \in DOMAIN more : j = Len(rows) + l /\ all[j].of = n + l
      BY <1>3, <2>2 DEF Continue
    <3>2. CASE i \in DOMAIN rows
      <4>1. all[i].of \in 1 .. n
        BY <1>1, <3>2 DEF RowsSound
      <4>. QED
        BY <3>1, <4>1
    <3>3. CASE i \notin DOMAIN rows
      <4>1. PICK k \in DOMAIN more : i = Len(rows) + k /\ all[i].of = n + k
        BY <1>3, <3>3 DEF Continue
      <4>. QED
        BY <3>1, <4>1
    <3>. QED
      BY <3>2, <3>3
  <2>. QED
    BY <2>1, <2>2
<1>7. \A k \in (1 .. n + Len(more)) \ u : \E i \in DOMAIN all : all[i].of = k
  <2> TAKE k \in (1 .. n + Len(more)) \ u
  <2>1. CASE k <= n
    <3>1. k \in (1 .. n) \ u
      BY <2>1
    <3>2. PICK i \in DOMAIN rows : rows[i].of = k
      BY <3>1 DEF RowsSound
    <3>3. i \in DOMAIN all /\ all[i] = rows[i]
      BY <1>1
    <3>. QED
      BY <3>2, <3>3
  <2>2. CASE k > n
    <3>1. k - n \in 1 .. Len(more)
      BY <2>2
    <3>2. all[Len(rows) + (k - n)] = more[k - n]
      BY <3>1, <1>1
    <3>4. more[k - n].of = n + (k - n)
      BY <3>1 DEF Continue
    <3>3. Len(rows) + (k - n) \in DOMAIN all
      BY <3>1, <1>1
    <3>. QED
      BY <3>2, <3>3, <3>4
  <2>. QED
    BY <2>1, <2>2
<1>. QED
  BY <1>4, <1>5, <1>6, <1>7 DEF RowsSound, all, new

(***************************************************************************)
(* What was sound stays so while more assertions run, more todos are       *)
(* declared and later assertions are undone.                               *)
(***************************************************************************)
LEMMA SoundStays ==
    ASSUME NEW tables, NEW n \in Nat, NEW m \in Nat, n <= m, NEW p,
           NEW r, NEW u, NEW c \in Covers, Sound(tables, n, p, r, u, c),
           NEW r2, NEW u2, NEW c2 \in Covers,
           \A k \in 1 .. n : r2[k] = r[k],
           (1 .. m) \ u2 = (1 .. n) \ u,
           \A t \in DOMAIN c : t \in DOMAIN c2 /\ c2[t] = c[t]
    PROVE  Sound(tables, m, p, r2, u2, c2)
<1> DEFINE rows == tables.assertions
<1>0. rows \in Seq(Rows) /\ DOMAIN rows \subseteq Nat /\ Len(rows) \in Nat
  BY DEF Sound, Tables
<1>1. RowsSound(rows, m, r2, u2)
  <2>1. RowsSound(rows, n, r, u)
    BY DEF Sound
  <2>2. \A i \in DOMAIN rows : rows[i].of \in (1 .. m) \ u2 /\ rows[i].passed = r2[rows[i].of]
    BY <2>1 DEF RowsSound
  <2>. QED
    BY <2>1, <2>2 DEF RowsSound
<1>2. DirectivesSound(rows, c2)
  BY DEF Sound, DirectivesSound
<1>3. TodoSound(rows, tables.todo, c2)
  <2>1. tables.todo.reason \in {None} \cup DOMAIN c
    BY DEF Sound, TodoSound
  <2> SUFFICES ASSUME NEW t \in DOMAIN c2, c2[t] \notin {None, 0}
               PROVE  /\ Cardinality(Under(rows, t)) <= c2[t]
                      /\ Leaves(rows, tables.todo, t, c2[t])
    BY <2>1 DEF TodoSound
  <2>2. CASE t \in DOMAIN c
    BY <2>2 DEF Sound, TodoSound
  <2>3. CASE t \notin DOMAIN c
    <3>1. t \in Nat /\ c2[t] \in Nat
      BY CoverIs
    <3>2. Under(rows, t) = {}
      BY <2>3, <3>1, CountsAreNumbers DEF Under, Sound, DirectivesSound
    <3>3. Cardinality(Under(rows, t)) = 0
      BY <3>2, FS_EmptySet
    <3>. QED
      BY <2>1, <2>3, <3>1, <3>3, CountsAreNumbers DEF Leaves
  <2>. QED
    BY <2>2, <2>3
<1>4. NotesSound(rows, tables.notes, m)
  <2>1. tables.notes \in Seq(Notes)
    BY DEF Sound, Tables
  <2>. QED
    BY <2>1 DEF Sound, NotesSound
<1>. QED
  BY <1>1, <1>2, <1>3, <1>4 DEF Sound

\* A note keeps its place among the rows when more are written.
LEMMA NotesContinue ==
    ASSUME NEW n \in Nat, NEW rows \in Seq(Rows), NEW more \in Seq(Rows), NEW values,
           NEW notes \in Seq(Notes), NotesSound(rows, notes, n), Continue(more, rows, n, values)
    PROVE  NotesSound(rows \o more, notes, n + Len(more))
<1> DEFINE all == rows \o more
<1>1. /\ Len(all) = Len(rows) + Len(more) /\ DOMAIN all = 1 .. Len(rows) + Len(more)
      /\ Len(rows) \in Nat /\ Len(more) \in Nat /\ DOMAIN rows = 1 .. Len(rows)
      /\ \A i \in DOMAIN rows : all[i] = rows[i]
      /\ \A i \in 1 .. Len(more) : all[Len(rows) + i] = more[i] /\ i \in DOMAIN more
  OBVIOUS
<1> HIDE DEF all
<1> SUFFICES ASSUME NEW i \in DOMAIN notes
             PROVE  /\ notes[i].after \in 0 .. Len(all)
                    /\ notes[i].written \in 0 .. n + Len(more)
                    /\ Splits(all, notes[i])
  BY DEF NotesSound, all
<1>2. /\ notes[i].after \in 0 .. Len(rows)
      /\ notes[i].written \in 0 .. n
      /\ Splits(rows, notes[i])
  BY DEF NotesSound
<1>3. ASSUME NEW k \in DOMAIN all, k \in DOMAIN rows
      PROVE  k <= notes[i].after <=> all[k].of <= notes[i].written
  BY <1>1, <1>2, <1>3 DEF Splits
<1>4. ASSUME NEW k \in DOMAIN all, k \notin DOMAIN rows
      PROVE  ~(k <= notes[i].after) /\ ~(all[k].of <= notes[i].written)
  <2>1. k - Len(rows) \in 1 .. Len(more) /\ k > Len(rows)
    BY <1>1, <1>4
  <2>2. all[Len(rows) + (k - Len(rows))] = more[k - Len(rows)] /\ k - Len(rows) \in DOMAIN more
    BY <1>1, <2>1
  <2>3. all[k] = more[k - Len(rows)]
    BY <1>1, <2>1, <2>2
  <2>4. all[k].of = n + (k - Len(rows))
    BY <2>2, <2>3 DEF Continue
  <2>. QED
    BY <1>1, <1>2, <2>1, <2>4
<1>. QED
  BY <1>1, <1>2, <1>3, <1>4 DEF Splits

LEMMA TablesContinue ==
    ASSUME NEW n \in Nat, NEW r \in Seq(BOOLEAN), Len(r) = n, NEW u \in SUBSET (1 .. n),
           NEW c \in Covers, NEW p, NEW tables, Sound(tables, n, p, r, u, c),
           NEW more \in Seq(Rows), NEW values \in Seq(BOOLEAN), Len(values) = Len(more),
           Continue(more, tables.assertions, n, values), DirectivesSound(more, c),
           NEW todo \in Todos, TodoSound(tables.assertions \o more, todo, c),
           NEW after,
           after = [tables EXCEPT !.assertions = tables.assertions \o more, !.todo = todo]
    PROVE  Sound(after, n + Len(more), p, r \o values, u, c)
<1> DEFINE rows == tables.assertions
<1>1. tables \in Tables /\ rows \in Seq(Rows) /\ tables.notes \in Seq(Notes)
  BY DEF Sound, Tables
<1>2. rows \o more \in Seq(Rows)
  BY <1>1
<1>3. /\ after.assertions = rows \o more /\ after.todo = todo /\ after.notes = tables.notes
      /\ after.plan = tables.plan /\ after.declared = tables.declared
      /\ after.present = tables.present
  BY <1>1 DEF Tables
<1>4. after \in Tables
  BY <1>1, <1>2 DEF Tables
<1>5. RowsSound(rows \o more, n + Len(more), r \o values, u)
  BY <1>1, RowsContinue DEF Sound
<1>6. DirectivesSound(rows \o more, c)
  <2> DEFINE all == rows \o more
  <2>1. \A i \in DOMAIN all :
          (\E j \in DOMAIN rows : all[i] = rows[j]) \/ (\E j \in DOMAIN more : all[i] = more[j])
    <3> TAKE i \in DOMAIN all
    <3>1. CASE i \in DOMAIN rows
      BY <1>1, <3>1
    <3>2. CASE i \notin DOMAIN rows
      <4>1. i - Len(rows) \in 1 .. Len(more) /\ Len(rows) \in Nat /\ i \in Nat
        BY <1>1, <3>2
      <4>2. all[Len(rows) + (i - Len(rows))] = more[i - Len(rows)]
        BY <1>1, <4>1
      <4>. QED
        BY <4>1, <4>2
    <3>. QED
      BY <3>1, <3>2
  <2> HIDE DEF all
  <2>2. DirectivesSound(rows, c)
    BY DEF Sound
  <2>3. DirectivesSound(all, c)
    BY <2>1, <2>2 DEF DirectivesSound
  <2>. QED
    BY <2>3 DEF all
<1>7. NotesSound(rows \o more, tables.notes, n + Len(more))
  BY <1>1, NotesContinue DEF Sound
<1>8. PlanSound(after, p)
  BY <1>3 DEF Sound, PlanSound
<1>. QED
  BY <1>3, <1>4, <1>5, <1>6, <1>7, <1>8 DEF Sound

LEMMA UnderIsFinite ==
    ASSUME NEW rows \in Seq(Rows), NEW t
    PROVE  IsFiniteSet(Under(rows, t)) /\ Cardinality(Under(rows, t)) \in Nat
<1>1. Under(rows, t) \subseteq 1 .. Len(rows) /\ IsFiniteSet(1 .. Len(rows))
  BY FS_Interval DEF Under
<1>. QED
  BY <1>1, FS_Subset, FS_CardinalityType

\* One more row is one more under its todo, and none more under another.
LEMMA UnderGrows ==
    ASSUME NEW rows \in Seq(Rows), NEW row \in Rows, NEW t
    PROVE  /\ row.directive = t =>
                Cardinality(Under(rows \o <<row>>, t)) = Cardinality(Under(rows, t)) + 1
           /\ row.directive # t => Under(rows \o <<row>>, t) = Under(rows, t)
<1> DEFINE all == rows \o <<row>>
<1>1. /\ DOMAIN all = 1 .. Len(rows) + 1 /\ DOMAIN rows = 1 .. Len(rows) /\ Len(rows) \in Nat
      /\ \A i \in DOMAIN rows : all[i] = rows[i]
      /\ all[Len(rows) + 1] = row
  OBVIOUS
<1> HIDE DEF all
<1>2. ASSUME row.directive = t
      PROVE  Cardinality(Under(all, t)) = Cardinality(Under(rows, t)) + 1
  <2>1. Under(all, t) = Under(rows, t) \cup {Len(rows) + 1}
    BY <1>1, <1>2 DEF Under
  <2>2. Len(rows) + 1 \notin Under(rows, t)
    BY <1>1 DEF Under
  <2>. QED
    BY <2>1, <2>2, UnderIsFinite, FS_AddElement
<1>3. row.directive # t => Under(all, t) = Under(rows, t)
  BY <1>1 DEF Under
<1>. QED
  BY <1>2, <1>3 DEF all

(***************************************************************************)
(* The library's operations, on any tables that are sound.                 *)
(***************************************************************************)
LEMMA RemainingIsTodo == ASSUME NEW todo \in Todos PROVE Remaining(todo) \in Todos
BY DEF Remaining, NoTodo, Todos

\* An assertion is under the todo in force, which then covers one less.
LEMMA TodoCovers ==
    ASSUME NEW c \in Covers, NEW rows \in Seq(Rows), NEW todo \in Todos, TodoSound(rows, todo, c),
           NEW row \in Rows, row.directive = todo.reason
    PROVE  TodoSound(rows \o <<row>>, Remaining(todo), c)
<1> DEFINE all == rows \o <<row>>
<1>1. Remaining(todo) = NoTodo \/ Remaining(todo).reason = todo.reason
  BY DEF Remaining, Todos
<1>2. Remaining(todo).reason \in {None} \cup DOMAIN c
  BY <1>1 DEF TodoSound, NoTodo
<1> SUFFICES ASSUME NEW t \in DOMAIN c, c[t] \notin {None, 0}
             PROVE  /\ Cardinality(Under(all, t)) <= c[t]
                    /\ Leaves(all, Remaining(todo), t, c[t])
  BY <1>2 DEF TodoSound
<1>3. /\ Cardinality(Under(rows, t)) <= c[t]
      /\ Leaves(rows, todo, t, c[t])
  BY DEF TodoSound
<1>4. t \in Nat /\ t # None /\ c[t] \in Nat
  BY CoverIs
<1>5. CASE todo.reason = t
  <2>1. /\ todo.remaining \in Nat \ {0}
        /\ Cardinality(Under(rows, t)) + todo.remaining <= c[t]
    BY <1>3, <1>5 DEF Leaves
  <2>2. Cardinality(Under(all, t)) = Cardinality(Under(rows, t)) + 1
    BY <1>5, UnderGrows
  <2>3. Cardinality(Under(rows, t)) \in Nat
    BY UnderIsFinite
  <2>4. Cardinality(Under(all, t)) <= c[t]
    BY <1>4, <2>1, <2>2, <2>3
  <2>5. CASE todo.remaining <= 1
    <3>1. Remaining(todo).reason = None
      BY <2>5, <2>1, <1>4, <1>5, CountsAreNumbers DEF Remaining, NoTodo
    <3>. QED
      BY <2>4, <3>1, <1>4 DEF Leaves
  <2>6. CASE todo.remaining > 1
    <3>1. Remaining(todo) = [todo EXCEPT !.remaining = @ - 1]
      BY <2>6, <2>1, <1>4, <1>5, CountsAreNumbers DEF Remaining
    <3>2. Remaining(todo).remaining = todo.remaining - 1
      BY <3>1 DEF Todos
    <3>. QED
      BY <2>1, <2>2, <2>3, <2>4, <2>6, <3>2, <1>4 DEF Leaves
  <2>. QED
    BY <2>1, <2>5, <2>6
<1>6. CASE todo.reason # t
  <2>1. Remaining(todo).reason # t
    BY <1>1, <1>4, <1>6 DEF NoTodo
  <2>2. Under(all, t) = Under(rows, t)
    BY <1>6, UnderGrows
  <2>. QED
    BY <1>3, <2>1, <2>2 DEF Leaves
<1>. QED
  BY <1>5, <1>6

LEMMA RecordsSoundly ==
    ASSUME NEW n \in Nat, NEW r \in Seq(BOOLEAN), Len(r) = n, NEW u \in SUBSET (1 .. n),
           NEW c \in Covers, NEW p, NEW tables, Sound(tables, n, p, r, u, c),
           NEW outcome, NEW after,
           after = [tables EXCEPT
                       !.assertions = Append(@, Assertion(NextNumber(@), n + 1, Holds(outcome),
                                                          tables.todo.reason)),
                       !.todo = Remaining(@)]
    PROVE  Sound(after, n + 1, p, Append(r, outcome = "true"), u, c)
<1> DEFINE rows == tables.assertions
           row == Assertion(NextNumber(rows), n + 1, Holds(outcome), tables.todo.reason)
           held == outcome = "true"
<1>1. tables \in Tables /\ rows \in Seq(Rows) /\ tables.todo \in Todos
  BY DEF Sound, Tables
<1>2. Len(rows) \in Nat /\ NextNumber(rows) = Len(rows) + 1
  <2>1. \A i \in DOMAIN rows : rows[i].number = i
    BY DEF Sound, RowsSound
  <2>2. Highest(rows) = Len(rows)
    BY <1>1, <2>1, HighestIsLast
  <2>. QED
    BY <1>1, <2>2 DEF NextNumber
<1>3. held \in BOOLEAN /\ Holds(outcome) = held
  BY DEF Holds
<1>4. tables.todo.reason \in {None} \cup DOMAIN c /\ DOMAIN c \subseteq Nat
  BY DEF Sound, TodoSound, Covers
<1>5. /\ row \in Rows /\ row.number = Len(rows) + 1 /\ row.of = n + 1 /\ row.passed = held
      /\ row.directive = tables.todo.reason
  <2>1. row = Assertion(Len(rows) + 1, n + 1, held, tables.todo.reason)
    BY <1>2, <1>3
  <2>2. Len(rows) + 1 \in Nat /\ n + 1 \in Nat
    BY <1>2
  <2>3. tables.todo.reason \in Nat \cup {None, Skipped}
    BY <1>4
  <2> HIDE DEF row, held
  <2>. QED
    BY <1>3, <2>1, <2>2, <2>3, AssertionIs
<1> HIDE DEF row, held
<1>6. /\ <<row>> \in Seq(Rows) /\ <<held>> \in Seq(BOOLEAN) /\ Len(<<row>>) = 1 /\ Len(<<held>>) = 1
      /\ DOMAIN <<row>> = 1 .. 1 /\ <<row>>[1] = row /\ <<held>>[1] = held
  BY <1>3, <1>5
<1>7. Continue(<<row>>, rows, n, <<held>>)
  BY <1>5, <1>6 DEF Continue
<1>8. DirectivesSound(<<row>>, c)
  BY <1>4, <1>5, <1>6 DEF DirectivesSound
<1>9. TodoSound(rows \o <<row>>, Remaining(tables.todo), c)
  BY <1>1, <1>5, TodoCovers DEF Sound
<1>10. after = [tables EXCEPT !.assertions = rows \o <<row>>, !.todo = Remaining(tables.todo)]
  <2>1. Append(rows, row) = rows \o <<row>>
    BY <1>1, <1>5
  <2>. QED
    BY <1>1, <2>1 DEF Tables, row
<1>11. Append(r, held) = r \o <<held>>
  BY <1>3
<1>12. Sound(after, n + Len(<<row>>), p, r \o <<held>>, u, c)
  <2>1. Remaining(tables.todo) \in Todos
    BY <1>1, RemainingIsTodo
  <2>2. <<row>> \in Seq(Rows) /\ <<held>> \in Seq(BOOLEAN) /\ Len(<<held>>) = Len(<<row>>)
    BY <1>6
  <2>3. Continue(<<row>>, tables.assertions, n, <<held>>)
    BY <1>7
  <2> HIDE DEF rows
  <2>. QED
    BY <1>8, <1>9, <1>10, <2>1, <2>2, <2>3, TablesContinue DEF rows
<1>. QED
  BY <1>6, <1>11, <1>12 DEF held

\* Assertions skipped hold, and are under no todo.
LEMMA SkipsSoundly ==
    ASSUME NEW n \in Nat, NEW r \in Seq(BOOLEAN), Len(r) = n, NEW u \in SUBSET (1 .. n),
           NEW c \in Covers, NEW p, NEW tables, Sound(tables, n, p, r, u, c),
           NEW howMany \in Nat, NEW after,
           after = [tables EXCEPT !.assertions =
               @ \o [i \in 1 .. howMany |-> Assertion(NextNumber(@) + i - 1, n + i, TRUE, Skipped)]]
    PROVE  Sound(after, n + howMany, p, r \o [i \in 1 .. howMany |-> TRUE], u, c)
<1> DEFINE rows == tables.assertions
           more == [i \in 1 .. howMany |-> Assertion(NextNumber(rows) + i - 1, n + i, TRUE, Skipped)]
           values == [i \in 1 .. howMany |-> TRUE]
<1>1. tables \in Tables /\ rows \in Seq(Rows) /\ tables.todo \in Todos
  BY DEF Sound, Tables
<1>2. Len(rows) \in Nat /\ NextNumber(rows) = Len(rows) + 1
  <2>1. \A i \in DOMAIN rows : rows[i].number = i
    BY DEF Sound, RowsSound
  <2>2. Highest(rows) = Len(rows)
    BY <1>1, <2>1, HighestIsLast
  <2>. QED
    BY <1>1, <2>2 DEF NextNumber
<1>3. \A i \in 1 .. howMany :
        /\ more[i] \in Rows /\ more[i].number = Len(rows) + i /\ more[i].of = n + i
        /\ more[i].passed = TRUE /\ more[i].directive = Skipped
  <2> TAKE i \in 1 .. howMany
  <2>1. NextNumber(rows) + i - 1 = Len(rows) + i /\ Len(rows) + i \in Nat /\ n + i \in Nat
    BY <1>2
  <2>2. more[i] = [number |-> Len(rows) + i, of |-> n + i, passed |-> TRUE, directive |-> Skipped]
    BY <2>1 DEF Assertion
  <2> HIDE DEF more
  <2>. QED
    BY <2>1, <2>2 DEF Rows
<1>4. DOMAIN more = 1 .. howMany /\ DOMAIN values = 1 .. howMany /\ \A i \in 1 .. howMany : values[i] = TRUE
  OBVIOUS
<1>5. more \in Seq(Rows) /\ values \in Seq(BOOLEAN) /\ Len(more) = howMany /\ Len(values) = howMany
  <2>1. more \in [1 .. howMany -> Rows] /\ values \in [1 .. howMany -> BOOLEAN]
    BY <1>3
  <2> HIDE DEF more, values
  <2>2. more \in Seq(Rows) /\ values \in Seq(BOOLEAN)
    BY <2>1, SeqDef
  <2>3. Len(more) = howMany /\ Len(values) = howMany
    BY <2>1, <2>2, LenProperties
  <2>. QED
    BY <2>2, <2>3
<1>9. after = [tables EXCEPT !.assertions = rows \o more, !.todo = tables.todo]
  BY <1>1 DEF Tables
<1> HIDE DEF more, values
<1>6. Continue(more, rows, n, values) /\ DirectivesSound(more, c)
  BY <1>3, <1>4 DEF Continue, DirectivesSound
<1>7. TodoSound(rows \o more, tables.todo, c)
  <2>1. TodoSound(rows, tables.todo, c)
    BY DEF Sound
  <2>2. ASSUME NEW t \in DOMAIN c
        PROVE  Under(rows \o more, t) = Under(rows, t)
    <3>1. t # Skipped
      BY CountsAreNumbers DEF Covers
    <3>2. /\ DOMAIN (rows \o more) = 1 .. Len(rows) + howMany /\ DOMAIN rows = 1 .. Len(rows)
          /\ \A i \in DOMAIN rows : (rows \o more)[i] = rows[i]
          /\ \A i \in 1 .. howMany : (rows \o more)[Len(rows) + i] = more[i]
      BY <1>1, <1>5
    <3>3. ASSUME NEW i \in 1 .. Len(rows) + howMany, i \notin DOMAIN rows
          PROVE  (rows \o more)[i].directive = Skipped
      <4>1. i - Len(rows) \in 1 .. howMany /\ Len(rows) + (i - Len(rows)) = i
        BY <1>2, <3>2, <3>3
      <4>. QED
        BY <1>3, <3>2, <4>1
    <3>. QED
      BY <1>2, <3>1, <3>2, <3>3 DEF Under
  <2>. QED
    BY <2>1, <2>2 DEF TodoSound, Leaves
<1>8. Sound(after, n + Len(more), p, r \o values, u, c)
  BY <1>1, <1>5, <1>6, <1>7, <1>9, TablesContinue
<1>. QED
  BY <1>5, <1>8 DEF values

(***************************************************************************)
(* The steps.                                                              *)
(***************************************************************************)
\* What ran is never rewritten.
RanOn == Len(ran) <= Len(ran') /\ \A k \in 1 .. Len(ran) : ran'[k] = ran[k]

CoversOn == \A t \in DOMAIN covers : t \in DOMAIN covers' /\ covers'[t] = covers[t]

\* The blocks still open keep what they saved, if nothing that had run before
\* they were entered is undone.
BlocksOn ==
    /\ blocks' \in Seq(Blocks)
    /\ \A i \in DOMAIN blocks' :
          /\ i \in DOMAIN blocks /\ blocks'[i] = blocks[i]
          /\ (1 .. blocks[i].from) \ undone' = (1 .. blocks[i].from) \ undone

LEMMA BlockIs ==
    ASSUME BlocksSound, NEW i \in DOMAIN blocks
    PROVE  /\ i \in 1 .. Len(blocks) /\ Len(blocks) \in DOMAIN blocks
           /\ blocks[i] \in Blocks /\ blocks[i].from \in Nat
           /\ blocks[i].plans \subseteq Counts \cup {None}
<1>1. blocks \in Seq(Blocks)
  BY DEF BlocksSound
<1>2. blocks[i] \in Blocks /\ i \in 1 .. Len(blocks) /\ Len(blocks) \in DOMAIN blocks
  BY <1>1
<1>. QED
  BY <1>2 DEF Blocks

LEMMA BlocksStay ==
    ASSUME HistoryTyped, HistoryTyped', BlocksSound, RanOn, CoversOn, BlocksOn
    PROVE  BlocksSound'
<1>1. \A i \in DOMAIN blocks' :
        /\ blocks'[i].from <= Len(ran')
        /\ Sound(blocks'[i].saved, blocks'[i].from, blocks'[i].plans, ran', undone', covers')
  <2> TAKE i \in DOMAIN blocks'
  <2>1. blocks'[i] = blocks[i] /\ i \in DOMAIN blocks
        /\ (1 .. blocks[i].from) \ undone' = (1 .. blocks[i].from) \ undone
    BY DEF BlocksOn
  <2>2. /\ blocks[i].from <= Len(ran)
        /\ Sound(blocks[i].saved, blocks[i].from, blocks[i].plans, ran, undone, covers)
    BY <2>1 DEF BlocksSound
  <2>6. blocks[i].from \in Nat
    BY <2>1, BlockIs
  <2>3. Len(ran) \in Nat /\ Len(ran') \in Nat /\ covers \in Covers /\ covers' \in Covers
    BY DEF HistoryTyped
  <2>4. \A k \in 1 .. blocks[i].from : ran'[k] = ran[k]
    BY <2>2, <2>3, <2>6 DEF RanOn
  <2>5. Sound(blocks[i].saved, blocks[i].from, blocks[i].plans, ran', undone', covers')
    BY <2>1, <2>2, <2>3, <2>4, <2>6, SoundStays DEF CoversOn
  <2>. QED
    BY <2>1, <2>2, <2>3, <2>5, <2>6 DEF RanOn
<1>2. \A i, j \in DOMAIN blocks' : i <= j => blocks'[i].from <= blocks'[j].from
  BY DEF BlocksOn, BlocksSound
<1>. QED
  BY <1>1, <1>2 DEF BlocksSound, BlocksOn

LEMMA SameBlocks ==
    ASSUME BlocksSound, UNCHANGED <<blocks, undone>>
    PROVE  BlocksOn
BY DEF BlocksSound, BlocksOn

LEMMA HistoryOn == UNCHANGED <<ran, covers>> /\ HistoryTyped => RanOn /\ CoversOn
BY DEF RanOn, CoversOn, HistoryTyped

\* While the file runs it is enough that the tables and the blocks are sound.
LEMMA Onward ==
    ASSUME CaptureInv, HistoryTyped', Sound(db, Len(ran), plans, ran, undone, covers)',
           RanOn, CoversOn, BlocksOn, verdict' # "passed"
    PROVE  CaptureInv'
BY BlocksStay DEF CaptureInv

LEMMA RecordKeeps ==
    ASSUME HistoryTyped, NEW tables, NEW p, NEW u \in SUBSET (1 .. Len(ran)),
           Sound(tables, Len(ran), p, ran, u, covers), NEW outcome, Record(tables, outcome)
    PROVE  /\ ran' \in Seq(BOOLEAN) /\ RanOn /\ Len(ran') = Len(ran) + 1
           /\ Sound(db', Len(ran'), p, ran', u, covers)
<1>1. ran \in Seq(BOOLEAN) /\ Len(ran) \in Nat /\ covers \in Covers
  BY DEF HistoryTyped
<1>2. ran' = Append(ran, outcome = "true")
  BY DEF Record
<1>3. ran' \in Seq(BOOLEAN) /\ RanOn /\ Len(ran') = Len(ran) + 1
  BY <1>1, <1>2 DEF RanOn
<1>4. Sound(db', Len(ran) + 1, p, Append(ran, outcome = "true"), u, covers)
  BY <1>1, RecordsSoundly DEF Record
<1>. QED
  BY <1>2, <1>3, <1>4

LEMMA CheckKeeps ==
    ASSUME CaptureInv, NEW outcome, Check(outcome)
    PROVE  CaptureInv'
<1>1. /\ HistoryTyped /\ BlocksSound /\ undone \subseteq 1 .. Len(ran)
      /\ Sound(db, Len(ran), plans, ran, undone, covers)
  BY DEF CaptureInv, HistoryTyped
<1>2. Record(db, outcome) /\ UNCHANGED <<blocks, verdict, undone, covers, plans>> /\ verdict = "running"
  BY DEF Check, Running
<1>3. /\ ran' \in Seq(BOOLEAN) /\ RanOn /\ Len(ran') = Len(ran) + 1
      /\ Sound(db', Len(ran'), plans, ran', undone, covers)
  BY <1>1, <1>2, RecordKeeps
<1>4. HistoryTyped'
  BY <1>1, <1>2, <1>3 DEF HistoryTyped
<1>5. CoversOn /\ BlocksOn
  BY <1>1, <1>2, SameBlocks DEF CoversOn
<1>. QED
  BY <1>2, <1>3, <1>4, <1>5, Onward

LEMMA SkipKeeps ==
    ASSUME CaptureInv, NEW howMany \in Counts, Skip(howMany)
    PROVE  CaptureInv'
<1> DEFINE values == [i \in 1 .. howMany |-> TRUE]
<1>1. /\ HistoryTyped /\ BlocksSound /\ undone \subseteq 1 .. Len(ran)
      /\ Sound(db, Len(ran), plans, ran, undone, covers)
      /\ ran \in Seq(BOOLEAN) /\ Len(ran) \in Nat /\ covers \in Covers
  BY DEF CaptureInv, HistoryTyped
<1>2. /\ db' = [db EXCEPT !.assertions =
               @ \o [i \in 1 .. howMany |-> Assertion(NextNumber(@) + i - 1, Len(ran) + i, TRUE, Skipped)]]
      /\ ran' = ran \o values
      /\ UNCHANGED <<blocks, verdict, undone, covers, plans>> /\ verdict = "running"
  BY DEF Skip, Running
<1>3. howMany \in Nat
  BY CountsAreNumbers
<1>4. values \in Seq(BOOLEAN) /\ Len(values) = howMany
  <2>1. values \in [1 .. howMany -> BOOLEAN]
    BY <1>3
  <2> HIDE DEF values
  <2>2. values \in Seq(BOOLEAN)
    BY <1>3, <2>1, SeqDef
  <2>. QED
    BY <1>3, <2>1, <2>2, LenProperties
<1>5. Sound(db', Len(ran) + howMany, plans, ran \o values, undone, covers)
  BY <1>1, <1>2, <1>3, SkipsSoundly
<1> HIDE DEF values
<1>6. ran' \in Seq(BOOLEAN) /\ RanOn /\ Len(ran') = Len(ran) + howMany
  <2>1. ran \o values \in Seq(BOOLEAN) /\ Len(ran \o values) = Len(ran) + Len(values)
    BY <1>1, <1>4, ConcatProperties
  <2>2. \A k \in 1 .. Len(ran) : (ran \o values)[k] = ran[k]
    BY <1>1, <1>4, ConcatProperties
  <2>. QED
    BY <1>1, <1>2, <1>3, <1>4, <2>1, <2>2 DEF RanOn
<1>7. HistoryTyped'
  BY <1>1, <1>2, <1>3, <1>6 DEF HistoryTyped
<1>8. CoversOn /\ BlocksOn
  BY <1>1, <1>2, SameBlocks DEF CoversOn
<1>9. Sound(db, Len(ran), plans, ran, undone, covers)'
  BY <1>2, <1>5, <1>6
<1>. QED
  BY <1>2, <1>6, <1>7, <1>8, <1>9, Onward

\* The tables of the file, when only the directives in force change.
LEMMA Redirected ==
    ASSUME NEW n \in Nat, NEW p, NEW q, NEW r, NEW u, NEW c \in Covers,
           NEW tables, Sound(tables, n, p, r, u, c), NEW after \in Tables,
           after.assertions = tables.assertions, after.notes = tables.notes,
           TodoSound(after.assertions, after.todo, c), PlanSound(after, q)
    PROVE  Sound(after, n, q, r, u, c)
BY DEF Sound

LEMMA NoTodoIsSound ==
    ASSUME NEW c \in Covers, NEW rows, NEW todo, TodoSound(rows, todo, c)
    PROVE  TodoSound(rows, NoTodo, c)
<1>1. NoTodo.reason = None
  BY DEF NoTodo
<1>. QED
  BY <1>1, CoverIs DEF TodoSound, Leaves

\* A todo just declared has covered nothing.
LEMMA TodoKeeps ==
    ASSUME CaptureInv, NEW howMany \in Counts \cup {None}, Todo(howMany)
    PROVE  CaptureInv'
<1>1. /\ HistoryTyped /\ BlocksSound /\ undone \subseteq 1 .. Len(ran)
      /\ Sound(db, Len(ran), plans, ran, undone, covers)
      /\ ran \in Seq(BOOLEAN) /\ Len(ran) \in Nat /\ covers \in Covers
  BY DEF CaptureInv, HistoryTyped
<1> DEFINE new == Len(covers) + 1
           todo == [reason |-> new, remaining |-> howMany]
<1>2. /\ covers' = Append(covers, howMany)
      /\ db' = [db EXCEPT !.todo = todo]
      /\ UNCHANGED <<blocks, verdict, ran, undone, plans>> /\ verdict = "running"
  BY DEF Todo, Running
<1>3. /\ covers' \in Covers /\ DOMAIN covers' = 1 .. Len(covers) + 1
      /\ DOMAIN covers = 1 .. Len(covers) /\ Len(covers) \in Nat
      /\ \A t \in DOMAIN covers : covers'[t] = covers[t]
      /\ covers'[new] = howMany
  <2>1. covers \in Seq(Counts \cup {None})
    BY <1>1 DEF Covers
  <2>. QED
    BY <1>2, <2>1 DEF Covers
<1>4. CoversOn /\ RanOn /\ BlocksOn /\ HistoryTyped'
  <2>1. CoversOn
    BY <1>3 DEF CoversOn
  <2>2. RanOn
    BY <1>1, <1>2 DEF RanOn
  <2>. QED
    BY <1>1, <1>2, <1>3, <2>1, <2>2, SameBlocks DEF HistoryTyped
<1>5. Sound(db, Len(ran), plans, ran, undone, covers')
  BY <1>1, <1>3, <1>4, SoundStays DEF CoversOn
<1>6. db \in Tables /\ db.assertions \in Seq(Rows)
  BY <1>1 DEF Sound, Tables
<1>7. todo \in Todos
  <2>1. howMany \in Nat \cup {None} /\ new \in Nat
    BY <1>3, CountsAreNumbers
  <2>. QED
    BY <2>1 DEF Todos
<1>8. todo.reason = new /\ todo.remaining = howMany
  OBVIOUS
<1> HIDE DEF todo
<1>9. /\ db' \in Tables /\ db'.assertions = db.assertions /\ db'.notes = db.notes /\ db'.todo = todo
      /\ db'.plan = db.plan /\ db'.declared = db.declared /\ db'.present = db.present
  BY <1>2, <1>6, <1>7 DEF Tables
<1>10. TodoSound(db.assertions, todo, covers')
  <2>1. ASSUME howMany \notin {None, 0}
        PROVE  Leaves(db.assertions, todo, new, howMany)
    <3>1. Under(db.assertions, new) = {}
      <4>1. \A i \in DOMAIN db.assertions : db.assertions[i].directive \in {None, Skipped} \cup DOMAIN covers
        BY <1>1 DEF Sound, DirectivesSound
      <4>2. new \notin {None, Skipped} \cup DOMAIN covers
        BY <1>3, CountsAreNumbers
      <4>. QED
        BY <4>1, <4>2 DEF Under
    <3>2. Cardinality(Under(db.assertions, new)) = 0
      BY <3>1, FS_EmptySet
    <3>3. howMany \in Nat \ {0}
      BY <2>1, CountsAreNumbers
    <3>. QED
      BY <1>8, <3>2, <3>3 DEF Leaves
  <2>2. \A t \in DOMAIN covers' : t # new => ~(todo.reason = t)
    BY <1>8
  <2>. QED
    BY <1>3, <1>5, <1>8, <2>1, <2>2 DEF Sound, TodoSound, Leaves
<1>11. PlanSound(db', plans)
  BY <1>1, <1>9 DEF Sound, PlanSound
<1>12. Sound(db', Len(ran), plans, ran, undone, covers')
  BY <1>1, <1>3, <1>5, <1>9, <1>10, <1>11, Redirected
<1>. QED
  BY <1>2, <1>4, <1>12, Onward

\* The end of a todo, and whatever the file does to the row of its run, leave
\* the rows of its assertions as they are.  A plan is made once.
LEMMA DirectivesKeep ==
    ASSUME CaptureInv, TodoEnd \/ Destroy \/ \E count \in Counts \cup {None} : Plan(count)
    PROVE  CaptureInv'
<1>1. /\ HistoryTyped /\ BlocksSound
      /\ Sound(db, Len(ran), plans, ran, undone, covers)
      /\ Len(ran) \in Nat /\ covers \in Covers
  BY DEF CaptureInv, HistoryTyped
<1>2. UNCHANGED <<blocks, verdict, ran, undone, covers>> /\ verdict = "running"
  BY DEF TodoEnd, Destroy, Plan, Running, history
<1>3. db \in Tables /\ db.todo \in Todos
  BY <1>1 DEF Sound, Tables
<1>4. NoTodo \in Todos
  BY DEF NoTodo, Todos
<1>5. db' \in Tables /\ db'.assertions = db.assertions /\ db'.notes = db.notes
  BY <1>3, <1>4 DEF TodoEnd, Destroy, Plan, Tables
<1>6. db'.todo = db.todo \/ db'.todo = NoTodo
  BY <1>3 DEF TodoEnd, Destroy, Plan, Tables
<1>7. TodoSound(db'.assertions, db'.todo, covers)
  BY <1>1, <1>5, <1>6, NoTodoIsSound DEF Sound
<1>8. PlanSound(db', plans')
  <2>1. PlanSound(db, plans)
    BY <1>1 DEF Sound
  <2>2. CASE TodoEnd
    BY <2>1, <2>2, <1>3 DEF TodoEnd, PlanSound, Tables, history
  <2>3. CASE Destroy
    BY <2>3, <1>3 DEF Destroy, PlanSound, Tables
  <2>4. CASE \E count \in Counts \cup {None} : Plan(count)
    <3>1. PICK count \in Counts \cup {None} : Plan(count)
      BY <2>4
    <3>2. plans = {} /\ plans' = plans \cup {count}
      BY <2>1, <3>1 DEF Plan, PlanSound
    <3>3. db'.declared /\ db'.plan = count
      BY <3>1, <1>3 DEF Plan, Tables
    <3>. QED
      BY <3>2, <3>3 DEF PlanSound
  <2>. QED
    BY <2>2, <2>3, <2>4
<1>9. Sound(db', Len(ran), plans', ran, undone, covers)
  BY <1>1, <1>5, <1>7, <1>8, Redirected
<1>10. HistoryTyped'
  <2>1. plans' \subseteq Counts \cup {None}
    <3>1. plans \subseteq Counts \cup {None}
      BY <1>1 DEF HistoryTyped
    <3>2. plans' = plans \/ \E count \in Counts \cup {None} : plans' = plans \cup {count}
      BY DEF TodoEnd, Destroy, Plan, history
    <3>. QED
      BY <3>1, <3>2
  <2>. QED
    BY <1>1, <1>2, <2>1 DEF HistoryTyped
<1>11. RanOn /\ CoversOn /\ BlocksOn
  BY <1>1, <1>2, SameBlocks, HistoryOn
<1>. QED
  BY <1>2, <1>9, <1>10, <1>11, Onward

\* A note stands after every row there is.
LEMMA DiagKeeps ==
    ASSUME CaptureInv, Diag
    PROVE  CaptureInv'
<1>1. /\ HistoryTyped /\ BlocksSound
      /\ Sound(db, Len(ran), plans, ran, undone, covers)
      /\ Len(ran) \in Nat /\ covers \in Covers
  BY DEF CaptureInv, HistoryTyped
<1>2. UNCHANGED <<blocks, verdict, ran, undone, covers, plans>> /\ verdict = "running"
  BY DEF Diag, Running, history
<1> DEFINE rows == db.assertions
           note == [after |-> Highest(rows), written |-> Len(ran)]
<1>3. db \in Tables /\ rows \in Seq(Rows) /\ Len(rows) \in Nat /\ db.notes \in Seq(Notes)
  BY <1>1 DEF Sound, Tables
<1>4. Highest(rows) = Len(rows)
  BY <1>1, <1>3, HighestIsLast DEF Sound, RowsSound
<1>5. note \in Notes /\ note.after = Len(rows) /\ note.written = Len(ran)
  BY <1>1, <1>3, <1>4 DEF Notes
<1>6. db' = [db EXCEPT !.notes = Append(db.notes, note)]
  BY <1>3 DEF Diag, Tables
<1> HIDE DEF note
<1>7. Append(db.notes, note) \in Seq(Notes)
  BY <1>3, <1>5
<1>8. /\ db' \in Tables /\ db'.assertions = rows /\ db'.notes = Append(db.notes, note)
      /\ db'.todo = db.todo /\ db'.plan = db.plan
      /\ db'.declared = db.declared /\ db'.present = db.present
  BY <1>3, <1>6, <1>7 DEF Tables
<1>9. NotesSound(rows, db'.notes, Len(ran))
  <2>1. Splits(rows, note)
    <3>1. \A k \in DOMAIN rows : k <= Len(rows) /\ rows[k].of <= Len(ran)
      BY <1>1, <1>3 DEF Sound, RowsSound
    <3>. QED
      BY <1>5, <3>1 DEF Splits
  <2>2. \A i \in DOMAIN db'.notes :
          (i \in DOMAIN db.notes /\ db'.notes[i] = db.notes[i]) \/ db'.notes[i] = note
    BY <1>3, <1>5, <1>8
  <2>3. NotesSound(rows, db.notes, Len(ran))
    BY <1>1 DEF Sound
  <2>4. note.after \in 0 .. Len(rows) /\ note.written \in 0 .. Len(ran)
    BY <1>1, <1>3, <1>5
  <2>. QED
    BY <2>1, <2>2, <2>3, <2>4 DEF NotesSound
<1>10. PlanSound(db', plans)
  BY <1>1, <1>8 DEF Sound, PlanSound
<1>11. Sound(db', Len(ran), plans, ran, undone, covers)
  BY <1>1, <1>8, <1>9, <1>10 DEF Sound
<1>12. HistoryTyped'
  BY <1>1, <1>2 DEF HistoryTyped
<1>13. RanOn /\ CoversOn /\ BlocksOn
  BY <1>1, <1>2, SameBlocks, HistoryOn
<1>. QED
  BY <1>2, <1>11, <1>12, <1>13, Onward

\* A block saves tables that are sound, as of what has run.
LEMMA EnterKeeps ==
    ASSUME CaptureInv, NEW kind \in Kinds, Enter(kind)
    PROVE  CaptureInv'
<1> DEFINE block == [kind |-> kind, saved |-> db, from |-> Len(ran), plans |-> plans]
<1>1. /\ HistoryTyped /\ BlocksSound
      /\ Sound(db, Len(ran), plans, ran, undone, covers)
      /\ Len(ran) \in Nat /\ db \in Tables /\ plans \in SUBSET (Counts \cup {None})
  BY DEF CaptureInv, HistoryTyped, Sound
<1>2. /\ UNCHANGED <<db, verdict, ran, undone, covers, plans>> /\ verdict = "running"
      /\ blocks' = Append(blocks, block)
  BY DEF Enter, Running, history
<1>3. block \in Blocks
  BY <1>1 DEF Blocks
<1>4. block.saved = db /\ block.from = Len(ran) /\ block.plans = plans
  OBVIOUS
<1> HIDE DEF block
<1>5. blocks \in Seq(Blocks)
  BY <1>1 DEF BlocksSound
<1>6. /\ blocks' \in Seq(Blocks) /\ Len(blocks) \in Nat
      /\ DOMAIN blocks' = 1 .. Len(blocks) + 1 /\ DOMAIN blocks = 1 .. Len(blocks)
      /\ \A i \in DOMAIN blocks : blocks'[i] = blocks[i]
      /\ blocks'[Len(blocks) + 1] = block
  BY <1>2, <1>3, <1>5
<1>7. \A i \in DOMAIN blocks' :
        /\ blocks'[i].from <= Len(ran)
        /\ Sound(blocks'[i].saved, blocks'[i].from, blocks'[i].plans, ran, undone, covers)
  <2> TAKE i \in DOMAIN blocks'
  <2>1. CASE i \in DOMAIN blocks
    BY <1>1, <1>6, <2>1 DEF BlocksSound
  <2>2. CASE i \notin DOMAIN blocks
    <3>1. blocks'[i] = block
      BY <1>6, <2>2
    <3>. QED
      BY <1>1, <1>4, <3>1
  <2>. QED
    BY <2>1, <2>2
<1>8. \A i, j \in DOMAIN blocks' : i <= j => blocks'[i].from <= blocks'[j].from
  <2> SUFFICES ASSUME NEW i \in DOMAIN blocks', NEW j \in DOMAIN blocks', i <= j
               PROVE  blocks'[i].from <= blocks'[j].from
    OBVIOUS
  <2>1. CASE j \in DOMAIN blocks
    <3>1. i \in DOMAIN blocks
      BY <1>6, <2>1
    <3>2. blocks[i].from <= blocks[j].from
      BY <1>1, <2>1, <3>1 DEF BlocksSound
    <3>. QED
      BY <1>6, <2>1, <3>1, <3>2
  <2>2. CASE j \notin DOMAIN blocks
    <3>1. blocks'[j] = block
      BY <1>6, <2>2
    <3>. QED
      BY <1>4, <1>7, <3>1
  <2>. QED
    BY <2>1, <2>2
<1>9. BlocksSound'
  BY <1>2, <1>6, <1>7, <1>8 DEF BlocksSound
<1>. QED
  BY <1>1, <1>2, <1>9 DEF CaptureInv, HistoryTyped

\* The last block ends; the others are as they were.
LEMMA LeaveKeeps ==
    ASSUME HistoryTyped, BlocksSound, blocks # <<>>,
           NEW tables, NEW p, NEW u \in SUBSET (1 .. Len(ran)),
           Sound(tables, Len(ran), p, ran, u, covers), NEW outcome, Leave(tables, outcome)
    PROVE  /\ ran' \in Seq(BOOLEAN) /\ RanOn /\ CoversOn
           /\ Sound(db', Len(ran'), p, ran', u, covers')
           /\ verdict' = "running" /\ covers' = covers
           /\ blocks' \in Seq(Blocks)
           /\ \A i \in DOMAIN blocks' : i \in DOMAIN blocks /\ blocks'[i] = blocks[i]
<1>1. ran \in Seq(BOOLEAN) /\ Len(ran) \in Nat /\ blocks \in Seq(Blocks)
  BY DEF HistoryTyped, BlocksSound
<1>2. /\ blocks' = SubSeq(blocks, 1, Len(blocks) - 1)
      /\ verdict = "running" /\ verdict' = verdict /\ covers' = covers
  BY DEF Leave
<1>3. /\ blocks' \in Seq(Blocks)
      /\ \A i \in DOMAIN blocks' : i \in DOMAIN blocks /\ blocks'[i] = blocks[i]
  <2>1. Len(blocks) \in Nat \ {0}
    BY <1>1
  <2>. QED
    BY <1>1, <1>2, <2>1, SubSeqProperties
<1>4. CoversOn
  BY <1>2 DEF CoversOn
<1>5. CASE Innermost.kind = "plain"
  <2>1. db' = tables /\ ran' = ran
    BY <1>5 DEF Leave
  <2>2. RanOn
    BY <1>1, <2>1 DEF RanOn
  <2>. QED
    BY <1>1, <1>2, <1>3, <1>4, <2>1, <2>2
<1>6. CASE Innermost.kind # "plain"
  <2>1. Record(tables, outcome)
    BY <1>6 DEF Leave
  <2>2. /\ ran' \in Seq(BOOLEAN) /\ RanOn
        /\ Sound(db', Len(ran'), p, ran', u, covers)
    BY <2>1, RecordKeeps
  <2>. QED
    BY <1>2, <1>3, <1>4, <2>2
<1>. QED
  BY <1>5, <1>6

LEMMA ReturnKeeps ==
    ASSUME CaptureInv, Return
    PROVE  CaptureInv'
<1>1. /\ HistoryTyped /\ BlocksSound /\ undone \subseteq 1 .. Len(ran)
      /\ Sound(db, Len(ran), plans, ran, undone, covers)
      /\ Len(ran) \in Nat
  BY DEF CaptureInv, HistoryTyped
<1>2. blocks # <<>> /\ UNCHANGED <<undone, plans>>
      /\ Leave(db, IF Innermost.kind = "lives_ok" THEN "true" ELSE "false")
  BY DEF Return
<1>3. /\ ran' \in Seq(BOOLEAN) /\ RanOn /\ CoversOn
      /\ Sound(db', Len(ran'), plans, ran', undone, covers')
      /\ verdict' = "running" /\ covers' = covers
      /\ blocks' \in Seq(Blocks)
      /\ \A i \in DOMAIN blocks' : i \in DOMAIN blocks /\ blocks'[i] = blocks[i]
  BY <1>1, <1>2, LeaveKeeps
<1>4. BlocksOn
  BY <1>2, <1>3 DEF BlocksOn
<1>5. HistoryTyped'
  BY <1>1, <1>2, <1>3 DEF HistoryTyped, RanOn
<1>. QED
  BY <1>2, <1>3, <1>4, <1>5, Onward

\* What the block saved is of exactly the assertions that stand when all that
\* ran in it is undone, and so are the tables of the blocks around it.
LEMMA RaiseKeeps ==
    ASSUME CaptureInv, Raise
    PROVE  CaptureInv'
<1> DEFINE block == blocks[Len(blocks)]
           gone == block.from + 1 .. Len(ran)
<1>1. /\ HistoryTyped /\ BlocksSound /\ undone \subseteq 1 .. Len(ran)
      /\ Len(ran) \in Nat /\ covers \in Covers /\ blocks \in Seq(Blocks)
  BY DEF CaptureInv, HistoryTyped, BlocksSound
<1>2. blocks # <<>> /\ undone' = undone \cup gone /\ plans' = block.plans
  BY DEF Raise, Innermost
<1>3. PICK outcome \in Outcomes : Leave(block.saved, outcome)
  BY DEF Raise, Innermost
<1>4. Len(blocks) \in DOMAIN blocks
  BY <1>1, <1>2
<1>5. /\ block.from \in Nat /\ block.from <= Len(ran)
      /\ Sound(block.saved, block.from, block.plans, ran, undone, covers)
      /\ block.plans \subseteq Counts \cup {None}
  <2>1. block.from \in Nat /\ block.plans \subseteq Counts \cup {None}
    BY <1>1, <1>4, BlockIs
  <2>. QED
    BY <1>1, <1>4, <2>1 DEF BlocksSound
<1>6. undone' \subseteq 1 .. Len(ran)
  <2>1. gone \subseteq 1 .. Len(ran)
    BY <1>1, <1>5
  <2> HIDE DEF gone
  <2>. QED
    BY <1>1, <1>2, <2>1
<1>7. \A n \in Nat : n <= block.from => (1 .. n) \ undone' = (1 .. n) \ undone
  BY <1>2, <1>5
<1>8. (1 .. Len(ran)) \ undone' = (1 .. block.from) \ undone
  BY <1>1, <1>2, <1>5
<1> HIDE DEF block, gone
<1>9. Sound(block.saved, Len(ran), block.plans, ran, undone', covers)
  BY <1>1, <1>5, <1>8, SoundStays
<1>10. /\ ran' \in Seq(BOOLEAN) /\ RanOn /\ CoversOn
       /\ Sound(db', Len(ran'), plans', ran', undone', covers')
       /\ verdict' = "running" /\ covers' = covers
       /\ blocks' \in Seq(Blocks)
       /\ \A i \in DOMAIN blocks' : i \in DOMAIN blocks /\ blocks'[i] = blocks[i]
  BY <1>1, <1>2, <1>3, <1>6, <1>9, LeaveKeeps
<1>11. BlocksOn
  <2>1. ASSUME NEW i \in DOMAIN blocks'
        PROVE  (1 .. blocks[i].from) \ undone' = (1 .. blocks[i].from) \ undone
    <3>1. i \in DOMAIN blocks /\ i <= Len(blocks)
      BY <1>1, <1>10, BlockIs
    <3>2. blocks[i].from <= block.from
      BY <1>1, <1>4, <3>1 DEF BlocksSound, block
    <3>3. blocks[i].from \in Nat
      BY <1>1, <3>1, BlockIs
    <3>. QED
      BY <1>7, <3>2, <3>3
  <2>. QED
    BY <1>10, <2>1 DEF BlocksOn
<1>12. HistoryTyped'
  BY <1>1, <1>2, <1>5, <1>6, <1>10 DEF HistoryTyped, RanOn
<1>. QED
  BY <1>10, <1>11, <1>12, Onward

\* The runner reads the rows, and changes none.
LEMMA EndKeeps ==
    ASSUME CaptureInv, Finish \/ Abort
    PROVE  CaptureInv'
<1>1. UNCHANGED <<db, blocks, ran, undone, covers, plans>>
  BY DEF Finish, Abort, history
<1>2. verdict' = "passed" => db.present /\ Passed(db)
  BY DEF Finish, Abort
<1>. QED
  BY <1>1, <1>2 DEF CaptureInv, HistoryTyped, BlocksSound

LEMMA StutterKeeps == CaptureInv /\ UNCHANGED vars => CaptureInv'
BY DEF CaptureInv, vars, capture, history, HistoryTyped, BlocksSound

LEMMA CaptureStarts == Init => CaptureInv
<1> SUFFICES ASSUME Init PROVE CaptureInv
  OBVIOUS
<1> USE DEF Init
<1>1. /\ db.assertions = <<>> /\ db.notes = <<>> /\ db.todo = NoTodo /\ ~db.declared
  OBVIOUS
<1>2. db \in Tables
  BY DEF Tables, Todos, NoTodo
<1>3. HistoryTyped /\ Len(ran) = 0
  BY DEF HistoryTyped, Covers
<1>4. Sound(db, Len(ran), plans, ran, undone, covers)
  BY <1>1, <1>2, <1>3
     DEF Sound, RowsSound, DirectivesSound, TodoSound, NotesSound, PlanSound, NoTodo
<1>5. BlocksSound
  BY DEF BlocksSound
<1>. QED
  BY <1>3, <1>4, <1>5 DEF CaptureInv

LEMMA CaptureHolds == Spec => []CaptureInv
<1>1. CaptureInv /\ [Next]_vars => CaptureInv'
  <2> SUFFICES ASSUME CaptureInv, Next PROVE CaptureInv'
    BY StutterKeeps
  <2>1. CASE \E outcome \in Outcomes : Check(outcome)
    BY <2>1, CheckKeeps
  <2>2. CASE \E howMany \in Counts : Todo(howMany) \/ Skip(howMany)
    BY <2>2, TodoKeeps, SkipKeeps
  <2>3. CASE \E count \in Counts \cup {None} : Plan(count)
    BY <2>3, DirectivesKeep
  <2>4. CASE Todo(None)
    BY <2>4, TodoKeeps
  <2>5. CASE TodoEnd \/ Destroy
    BY <2>5, DirectivesKeep
  <2>6. CASE Diag
    BY <2>6, DiagKeeps
  <2>7. CASE \E kind \in Kinds : Enter(kind)
    BY <2>7, EnterKeeps
  <2>8. CASE Return \/ Raise
    BY <2>8, ReturnKeeps, RaiseKeeps
  <2>9. CASE Finish \/ Abort
    BY <2>9, EndKeeps
  <2>. QED
    BY <2>1, <2>2, <2>3, <2>4, <2>5, <2>6, <2>7, <2>8, <2>9 DEF Next
<1>. QED
  BY <1>1, CaptureStarts, PTL DEF Spec

(***************************************************************************)
(* What the runner may rely on.                                            *)
(***************************************************************************)

Told(rows) == {rows[i].of : i \in DOMAIN rows}
Standing(n, u) == (1 .. n) \ u

\* There are as many rows as assertions that stand.
LEMMA RowsCount ==
    ASSUME NEW n \in Nat, NEW r, NEW u, NEW rows \in Seq(Rows), RowsSound(rows, n, r, u)
    PROVE  Told(rows) = Standing(n, u) /\ Len(rows) = Cardinality(Standing(n, u))
<1> DEFINE S == (1 .. n) \ u
           f == [i \in 1 .. Len(rows) |-> rows[i].of]
<1>1. DOMAIN rows = 1 .. Len(rows) /\ Len(rows) \in Nat
  OBVIOUS
<1>2. Told(rows) = S
  BY DEF RowsSound, Told
<1>3. f \in Bijection(1 .. Len(rows), S)
  <2>1. f \in [1 .. Len(rows) -> S]
    BY <1>1 DEF RowsSound
  <2>2. \A s \in S : \E i \in 1 .. Len(rows) : f[i] = s
    BY <1>1 DEF RowsSound
  <2>3. \A i, j \in 1 .. Len(rows) : f[i] = f[j] => i = j
    <3> SUFFICES ASSUME NEW i \in 1 .. Len(rows), NEW j \in 1 .. Len(rows), i # j
                 PROVE  rows[i].of # rows[j].of
      OBVIOUS
    <3>1. rows[i].of \in Nat /\ rows[j].of \in Nat
      BY <1>1 DEF RowsSound
    <3>2. i < j => rows[i].of < rows[j].of
      BY <1>1 DEF RowsSound
    <3>3. j < i => rows[j].of < rows[i].of
      BY <1>1 DEF RowsSound
    <3>. QED
      BY <1>1, <3>1, <3>2, <3>3
  <2> HIDE DEF f, S
  <2>. QED
    BY <2>1, <2>2, <2>3, Fun_IsBij
<1>4. Cardinality(S) = Len(rows)
  <2> HIDE DEF f, S
  <2>1. ExistsBijection(1 .. Len(rows), S)
    BY <1>3 DEF ExistsBijection
  <2>. QED
    BY <1>1, <2>1, FS_CountingElements
<1>. QED
  BY <1>2, <1>4 DEF Standing

LEMMA StandingRows ==
    ASSUME CaptureInv
    PROVE  /\ db.assertions \in Seq(Rows)
           /\ RowsSound(db.assertions, Len(ran), ran, undone)
           /\ {db.assertions[i].of : i \in DOMAIN db.assertions} = Kept
           /\ Len(db.assertions) = Cardinality(Kept)
<1>1. /\ db.assertions \in Seq(Rows) /\ Len(ran) \in Nat
      /\ RowsSound(db.assertions, Len(ran), ran, undone)
  BY DEF CaptureInv, HistoryTyped, Sound, Tables
<1>2. Kept = Standing(Len(ran), undone)
  BY DEF CaptureInv, HistoryTyped, Kept, Standing
<1>3. /\ Told(db.assertions) = Standing(Len(ran), undone)
      /\ Len(db.assertions) = Cardinality(Standing(Len(ran), undone))
  BY <1>1, RowsCount
<1>4. {db.assertions[i].of : i \in DOMAIN db.assertions} = Told(db.assertions)
  BY DEF Told
<1>. QED
  BY <1>1, <1>2, <1>3, <1>4

LEMMA WholeFollows == CaptureInv => PassedReportIsWhole
<1> SUFFICES ASSUME CaptureInv, verdict = "passed" PROVE
        /\ {db.assertions[i].of : i \in DOMAIN db.assertions} = Kept
        /\ Len(db.assertions) = Cardinality(Kept)
        /\ \A i \in DOMAIN db.assertions :
              /\ db.assertions[i].passed = ran[db.assertions[i].of]
              /\ db.assertions[i].passed \/ db.assertions[i].directive \in DOMAIN covers
  BY DEF PassedReportIsWhole
<1>1. \A i \in DOMAIN db.assertions : db.assertions[i].passed = ran[db.assertions[i].of]
  BY StandingRows DEF RowsSound
<1>2. \A i \in DOMAIN db.assertions :
        db.assertions[i].passed \/ db.assertions[i].directive \in DOMAIN covers
  <2>1. DirectivesSound(db.assertions, covers)
    BY DEF CaptureInv, Sound
  <2>2. \A i \in DOMAIN db.assertions : ~FailsTheRun(db.assertions[i])
    BY DEF CaptureInv, Passed
  <2>. QED
    BY <2>1, <2>2 DEF DirectivesSound, FailsTheRun
<1>. QED
  BY <1>1, <1>2, StandingRows

LEMMA RightFollows == CaptureInv => RecordsAreRight
<1> SUFFICES ASSUME CaptureInv PROVE RecordsAreRight
  OBVIOUS
<1>1. NumberingNeverJumps
  BY StandingRows DEF RowsSound, NumberingNeverJumps
<1>2. TodoIsBounded
  BY DEF CaptureInv, Sound, TodoSound, TodoIsBounded, Under
<1>3. PlanIsHonoured
  <2> SUFFICES ASSUME verdict = "passed", NEW count \in plans \ {None}
               PROVE  count = Cardinality(Kept)
    BY DEF PlanIsHonoured
  <2>1. db.present /\ (db.plan # None => db.plan = Len(db.assertions))
    BY DEF CaptureInv, Passed, Valid
  <2>2. plans = IF db.declared THEN {db.plan} ELSE {}
    BY <2>1 DEF CaptureInv, Sound, PlanSound
  <2>. QED
    BY <2>1, <2>2, StandingRows
<1>4. NotesFollowTheirAssertion
  <2> SUFFICES ASSUME NEW i \in DOMAIN db.notes
               PROVE  /\ db.notes[i].after \in Numbers(db.assertions) \cup {0}
                      /\ \A k \in DOMAIN db.assertions :
                            db.assertions[k].number <= db.notes[i].after
                                <=> db.assertions[k].of <= db.notes[i].written
    BY DEF NotesFollowTheirAssertion
  <2>1. \A k \in DOMAIN db.assertions : db.assertions[k].number = k
    BY StandingRows DEF RowsSound
  <2>2. db.notes[i].after \in 0 .. Len(db.assertions) /\ Splits(db.assertions, db.notes[i])
    BY DEF CaptureInv, Sound, NotesSound
  <2>3. Numbers(db.assertions) = 1 .. Len(db.assertions) /\ Len(db.assertions) \in Nat
    BY <2>1, StandingRows DEF Numbers
  <2>. QED
    BY <2>1, <2>2, <2>3 DEF Splits
<1>. QED
  BY <1>1, <1>2, <1>3, <1>4 DEF RecordsAreRight

\* A file that passed has in its report every assertion it ran outside blocks
\* that raised, as it turned out, and no failure a todo did not announce.
THEOREM PassedMeansWhole == Spec => []PassedReportIsWhole
BY CaptureHolds, WholeFollows, PTL

\* Whatever blocks were undone while they were written, the rows are numbered
\* without a gap, the todos cover no more than they were declared for, the plan
\* of a file that passed is what ran, and every note keeps its place.
THEOREM RecordsStayRight == Spec => []RecordsAreRight
BY CaptureHolds, RightFollows, PTL

===============================================================================
