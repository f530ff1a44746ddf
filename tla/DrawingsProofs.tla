--------------------------- MODULE DrawingsProofs ---------------------------
(***************************************************************************)
(* The rows of TaskYIndexAssigner for lists of tasks of every length: no   *)
(* two tasks of a row overlap, and no row is wasted.  The invariant adds   *)
(* that siblings get their rows in the order of their starts.  Then the    *)
(* bars of ComponentView: each lies within its parent's and apart from     *)
(* those of the siblings it overlaps in time.  Then the page buttons of    *)
(* the dashboard, for every number of components.  Last the call graph of  *)
(* a profile, whose times are sums over finite sets of functions: adding a *)
(* sample adds its time to the same terms on both sides.                   *)
(***************************************************************************)
EXTENDS Drawings, SequenceTheorems, FiniteSetTheorems, WellFoundedInduction, TLAPS

RowsTyped ==
    /\ tasks \in TaskLists
    /\ DOMAIN row \subseteq DOMAIN tasks
    /\ \A i \in DOMAIN row : row[i] \in 0..Len(tasks)

InOrder ==
    \A i \in DOMAIN row : \A j \in Siblings(i) \ DOMAIN row :
        tasks[i].start <= tasks[j].start

RowsInv == RowsTyped /\ InOrder /\ NoOverlap /\ RowsAreNeeded

\* What the assumption on the lists says of one task.
LEMMA TaskTyped ==
    ASSUME tasks \in TaskLists, NEW i \in DOMAIN tasks
    PROVE  /\ tasks[i].start \in Int /\ tasks[i].end \in Int
           /\ tasks[i].start <= tasks[i].end
<1> DEFINE Task == [start : Int, end : Int, parent : Nat]
<1>1. tasks \in Seq(Task)
  BY TaskBarsAssumption
<1> HIDE DEF Task
<1>2. i \in 1..Len(tasks)
  BY <1>1
<1>3. tasks[i] \in Task
  BY <1>1, <1>2, ElementOfSeq
<1>4. tasks[i].start <= tasks[i].end
  BY TaskBarsAssumption
<1> QED
  BY <1>3, <1>4 DEF Task

\* The four cases of _hasConflictWithAssignment cover every overlap.
LEMMA ConflictCoversOverlap ==
    ASSUME NEW t, NEW u,
           t.start \in Int, t.end \in Int, u.start \in Int, u.end \in Int,
           Overlap(t, u)
    PROVE  Conflict(t, u)
BY DEF Overlap, Conflict

\* A task that conflicts with one that starts no later has it in its way.
LEMMA ConflictIsInTheWay ==
    ASSUME NEW t, NEW u,
           t.start \in Int, t.end \in Int, u.start \in Int, u.end \in Int,
           t.start <= t.end, u.start <= u.end,
           u.start <= t.start, Conflict(t, u)
    PROVE  InTheWay(t, u)
BY DEF Conflict, InTheWay, TakesNoTime

LEMMA AssignRowKeepsInv ==
    ASSUME RowsInv, NEW i \in DOMAIN tasks, NEW r \in 0..Len(tasks),
           AssignRow(i, r)
    PROVE  RowsInv'
<1>1. /\ tasks' = tasks
      /\ DOMAIN row' = DOMAIN row \cup {i}
      /\ row'[i] = r
      /\ \A j \in DOMAIN row : row'[j] = row[j]
      /\ i \notin DOMAIN row
      /\ r \in Nat
  BY DEF AssignRow, Below
<1>2. \A j : Siblings(j)' = Siblings(j)
  BY <1>1 DEF Siblings
<1>3. RowsTyped'
  BY <1>1 DEF RowsInv, RowsTyped
<1>4. InOrder'
  <2> SUFFICES ASSUME NEW j \in DOMAIN row', NEW k \in Siblings(j) \ DOMAIN row'
               PROVE  tasks[j].start <= tasks[k].start
    BY <1>1, <1>2 DEF InOrder
  <2>1. CASE j \in DOMAIN row
    BY <2>1, <1>1 DEF RowsInv, InOrder
  <2>2. CASE j = i
    <3>1. IsNext(i)
      BY DEF AssignRow
    <3>2. k \in Siblings(i) \ DOMAIN row
      BY <2>2, <1>1
    <3>3. k \in DOMAIN tasks
      BY <3>2 DEF Siblings
    <3>4. tasks[i].start \in Int /\ tasks[k].start \in Int
      BY <3>3, TaskTyped DEF RowsInv, RowsTyped
    <3> QED
      BY <2>2, <3>1, <3>2, <3>4 DEF IsNext
  <2> QED
    BY <2>1, <2>2, <1>1
<1>5. \A j \in Siblings(i) \cap DOMAIN row : row[j] = r
        => ~Overlap(tasks[i], tasks[j])
  <2> SUFFICES ASSUME NEW j \in Siblings(i) \cap DOMAIN row, row[j] = r,
                      Overlap(tasks[i], tasks[j])
               PROVE  FALSE
    OBVIOUS
  <2>1. ~Conflict(tasks[i], tasks[j])
    BY DEF AssignRow, HasConflict
  <2>2. j \in DOMAIN tasks
    BY DEF Siblings
  <2>3. /\ tasks[i].start \in Int /\ tasks[i].end \in Int
        /\ tasks[j].start \in Int /\ tasks[j].end \in Int
    BY <2>2, TaskTyped DEF RowsInv, RowsTyped
  <2> QED
    BY <2>1, <2>3, ConflictCoversOverlap
<1>6. NoOverlap'
  <2> SUFFICES ASSUME NEW j \in DOMAIN row', NEW k \in DOMAIN row',
                      j # k, k \in Siblings(j), row'[j] = row'[k]
               PROVE  ~Overlap(tasks[j], tasks[k])
    BY <1>1, <1>2 DEF NoOverlap, Overlap
  <2>1. CASE j \in DOMAIN row /\ k \in DOMAIN row
    BY <2>1, <1>1 DEF RowsInv, NoOverlap
  <2>2. CASE j = i /\ k \in DOMAIN row
    BY <2>2, <1>1, <1>5
  <2>3. CASE k = i /\ j \in DOMAIN row
    <3>1. j \in Siblings(i) /\ row[j] = r
      BY <2>3, <1>1, j \in DOMAIN tasks DEF Siblings, RowsInv, RowsTyped
    <3>2. ~Overlap(tasks[i], tasks[j])
      BY <3>1, <2>3, <1>5
    <3> QED
      BY <3>2, <2>3 DEF Overlap
  <2> QED
    BY <2>1, <2>2, <2>3, <1>1
<1>7. \A q \in 0..(r - 1) : \E j \in Siblings(i) \cap DOMAIN row :
         j # i /\ row[j] = q /\ InTheWay(tasks[i], tasks[j])
  <2> SUFFICES ASSUME NEW q \in 0..(r - 1)
               PROVE  \E j \in Siblings(i) \cap DOMAIN row :
                         j # i /\ row[j] = q /\ InTheWay(tasks[i], tasks[j])
    OBVIOUS
  <2>1. PICK j \in Siblings(i) \cap DOMAIN row :
            row[j] = q /\ Conflict(tasks[i], tasks[j])
    BY DEF AssignRow, HasConflict
  <2>2. j \in DOMAIN tasks /\ j # i
    BY <1>1 DEF Siblings
  <2>3. i \in Siblings(j) \ DOMAIN row
    BY <2>1, <1>1 DEF Siblings
  <2>4. tasks[j].start <= tasks[i].start
    BY <2>1, <2>3 DEF RowsInv, InOrder
  <2>5. /\ tasks[i].start \in Int /\ tasks[i].end \in Int
        /\ tasks[i].start <= tasks[i].end
        /\ tasks[j].start \in Int /\ tasks[j].end \in Int
        /\ tasks[j].start <= tasks[j].end
    BY <2>2, TaskTyped DEF RowsInv, RowsTyped
  <2>6. InTheWay(tasks[i], tasks[j])
    BY <2>1, <2>4, <2>5, ConflictIsInTheWay
  <2> QED
    BY <2>1, <2>2, <2>6
<1>8. RowsAreNeeded'
  <2> SUFFICES ASSUME NEW j \in DOMAIN row', NEW q \in 0..(row'[j] - 1)
               PROVE  \E k \in Siblings(j) \cap DOMAIN row' :
                         k # j /\ row'[k] = q /\ InTheWay(tasks[j], tasks[k])
    BY <1>1, <1>2 DEF RowsAreNeeded
  <2>2. CASE j \in DOMAIN row
    <3>1. PICK k \in Siblings(j) \cap DOMAIN row :
             k # j /\ row[k] = q /\ InTheWay(tasks[j], tasks[k])
      BY <2>2, <1>1 DEF RowsInv, RowsAreNeeded
    <3> QED
      BY <3>1, <1>1
  <2>3. CASE j = i
    <3>1. PICK k \in Siblings(i) \cap DOMAIN row :
             k # i /\ row[k] = q /\ InTheWay(tasks[i], tasks[k])
      BY <2>3, <1>1, <1>7
    <3> QED
      BY <3>1, <2>3, <1>1
  <2> QED
    BY <2>2, <2>3, <1>1
<1> QED
  BY <1>3, <1>4, <1>6, <1>8 DEF RowsInv

LEMMA UnchangedKeepsInv ==
    ASSUME RowsInv, UNCHANGED <<tasks, row>>
    PROVE  RowsInv'
BY DEF RowsInv, RowsTyped, InOrder, NoOverlap, RowsAreNeeded, Siblings,
       InTheWay, TakesNoTime, Overlap

\* A rendering starts without rows.
LEMMA NoRowsInv ==
    ASSUME tasks \in TaskLists, row = NoRows
    PROVE  RowsInv
BY DEF RowsInv, RowsTyped, InOrder, NoOverlap, RowsAreNeeded, NoRows

LEMMA NoRowsInvNext ==
    ASSUME tasks' \in TaskLists, row' = NoRows
    PROVE  RowsInv'
BY DEF RowsInv, RowsTyped, InOrder, NoOverlap, RowsAreNeeded, NoRows

LEMMA RowsInvariant == BarsSpec => []RowsInv
<1>1. BarsInit => RowsInv
  BY NoRowsInv DEF BarsInit
<1>2. RowsInv /\ [BarsNext]_barVars => RowsInv'
  <2> SUFFICES ASSUME RowsInv, [BarsNext]_barVars PROVE RowsInv'
    OBVIOUS
  <2>1. ASSUME NEW i \in DOMAIN tasks, NEW r \in 0..Len(tasks), AssignRow(i, r)
        PROVE  RowsInv'
    BY <2>1, AssignRowKeepsInv
  <2>2. CASE AssignLevel
    BY <2>2, UnchangedKeepsInv DEF AssignLevel
  <2>3. CASE UNCHANGED barVars
    BY <2>3, UnchangedKeepsInv DEF barVars
  <2>4. ASSUME NEW h \in Heights, setCanvas(h)
        PROVE  RowsInv'
    BY <2>4, NoRowsInvNext DEF setCanvas, RowsInv, RowsTyped
  <2> QED
    BY <2>1, <2>2, <2>3, <2>4 DEF BarsNext
<1> QED
  BY <1>1, <1>2, PTL DEF BarsSpec

\* TaskYIndexAssigner never puts two tasks that overlap in the same row, for
\* every list of tasks.
THEOREM RowsNeverOverlap == BarsSpec => []NoOverlap
BY RowsInvariant, PTL DEF RowsInv

\* It never opens a row but for tasks in the way in all rows before it, for
\* every list of tasks.
THEOREM RowsNeverWasted == BarsSpec => []RowsAreNeeded
BY RowsInvariant, PTL DEF RowsInv

-----------------------------------------------------------------------------
(* The vertical dimensions *)

\* The bars placed so far have their parents and siblings among them, and
\* the level below is given the height of the bars it goes into.
LevelsInv ==
    /\ height \in Nat
    /\ root \in placed /\ placed \subseteq DOMAIN dim
    /\ \A b \in placed : dim[b].y \in Int /\ dim[b].height \in Nat
    /\ \A i \in placed \ {root} :
        /\ i \in DOMAIN row
        /\ tasks[i].parent \in placed
        /\ Siblings(i) \subseteq placed
    /\ \A i \in Below : dim[tasks[i].parent].height = height

BarsInv == RowsInv /\ LevelsInv /\ BarsNest

\* The largest of a set of numbers that has a bound.
LEMMA LargestExists ==
    ASSUME NEW n \in Nat, NEW T \in SUBSET (0..n), T # {}
    PROVE  \E m \in T : \A x \in T : x <= m
<1> DEFINE D == {n - x : x \in T}
<1>1. D \subseteq Nat /\ D # {}
  <2>1. \A x \in T : n - x \in Nat
    OBVIOUS
  <2>2. PICK x \in T : TRUE
    OBVIOUS
  <2> QED
    BY <2>1, <2>2, Zenon
<1>2. IsWellFoundedOn(OpToRel(<, Nat), Nat)
  BY NatLessThanWellFounded
<1>3. PICK d \in D : \A e \in D : ~ (<<e, d>> \in OpToRel(<, Nat))
  BY <1>1, <1>2, WFMin
<1>4. \A e \in D : d <= e
  <2>1. \A e \in D : ~(e < d)
    <3> HIDE DEF D
    <3> QED
      BY <1>1, <1>3 DEF OpToRel
  <2> QED
    BY <1>1, <2>1
<1>5. PICK m \in T : d = n - m
  OBVIOUS
<1>6. \A x \in T : n - x \in D
  OBVIOUS
<1>7. \A x \in T : x <= m
  BY <1>4, <1>5, <1>6
<1> QED
  BY <1>7

\* Rows of the same height fit: row a of at most m, in a bar of height h.
LEMMA RowFits ==
    ASSUME NEW h \in Nat, NEW m \in Nat, NEW a \in 0..m
    PROVE  /\ h \div (m + 1) \in Nat
           /\ (h \div (m + 1)) * a \in Nat
           /\ (h \div (m + 1)) * a + h \div (m + 1) <= h
<1>1. h \div (m + 1) \in Nat /\ (h \div (m + 1)) * (m + 1) <= h
  OBVIOUS
<1>2. ASSUME NEW t \in Nat, t * (m + 1) <= h
      PROVE  t * a \in Nat /\ t * a + t <= h
  <2>1. a + 1 <= m + 1 /\ a \in Nat
    OBVIOUS
  <2>2. t * (a + 1) <= t * (m + 1)
    BY <2>1
  <2> QED
    BY <1>2, <2>1, <2>2
<1> QED
  BY <1>1, <1>2

\* Two rows do not meet.
LEMMA RowsApart ==
    ASSUME NEW t \in Nat, NEW a \in Nat, NEW b \in Nat, a < b
    PROVE  t * a + t <= t * b
OBVIOUS

\* padTaskHeight leaves a margin, split above and below the bar.
LEMMA PaddedFits ==
    ASSUME NEW t \in Nat
    PROVE  /\ padTaskHeight(t) \in Nat
           /\ (t - padTaskHeight(t)) \div 2 \in Nat
           /\ (t - padTaskHeight(t)) \div 2 + padTaskHeight(t) <= t
<1>1. padTaskHeight(t) \in Nat /\ padTaskHeight(t) <= t
  BY TaskBarsAssumption DEF padTaskHeight
<1>2. ASSUME NEW p \in Nat, p <= t
      PROVE  (t - p) \div 2 \in Nat /\ (t - p) \div 2 + p <= t
  BY <1>2
<1> QED
  BY <1>1, <1>2

\* assignDimensionLevel places every bar of the level in its parent's.
LEMMA AssignLevelKeepsBars ==
    ASSUME BarsInv, AssignLevel
    PROVE  LevelsInv' /\ BarsNest'
<1> DEFINE globalMaxY == CHOOSE m \in {row[i] : i \in Below} :
                            \A i \in Below : row[i] <= m
           t == height \div (globalMaxY + 1)
           p == padTaskHeight(t)
           gap == (t - p) \div 2
<1>1. /\ Below # {} /\ Below \subseteq DOMAIN row
      /\ height' = p
      /\ dim' = [i \in DOMAIN dim \cup Below |->
                    IF i \notin Below THEN dim[i]
                    ELSE [y |-> t * row[i] + dim[tasks[i].parent].y + gap,
                          height |-> p]]
      /\ placed' = placed \cup Below
      /\ tasks' = tasks /\ row' = row
  BY DEF AssignLevel, GoesOn
<1>2. globalMaxY \in Nat /\ \A i \in Below : row[i] \in 0..globalMaxY
  <2>1. Len(tasks) \in Nat /\ \A i \in DOMAIN row : row[i] \in 0..Len(tasks)
    <3>1. tasks \in Seq([start : Int, end : Int, parent : Nat])
      BY TaskBarsAssumption DEF BarsInv, RowsInv, RowsTyped
    <3> QED
      BY <3>1, LenProperties DEF BarsInv, RowsInv, RowsTyped
  <2>2. /\ {row[i] : i \in Below} \in SUBSET (0..Len(tasks))
        /\ {row[i] : i \in Below} # {}
    BY <1>1, <2>1
  <2>3. \E m \in {row[i] : i \in Below} : \A x \in {row[i] : i \in Below} : x <= m
    BY <2>1, <2>2, LargestExists
  <2>4. \E m \in {row[i] : i \in Below} : \A i \in Below : row[i] <= m
    BY <2>3
  <2>5. /\ globalMaxY \in {row[i] : i \in Below}
        /\ \A i \in Below : row[i] <= globalMaxY
    BY <2>4
  <2> HIDE DEF globalMaxY
  <2> QED
    BY <1>1, <2>1, <2>5
<1> HIDE DEF globalMaxY
<1>3. height \in Nat
  BY DEF BarsInv, LevelsInv
<1>4. t \in Nat /\ \A i \in Below : t * row[i] \in Nat /\ t * row[i] + t <= height
  <2> SUFFICES ASSUME NEW i \in Below
               PROVE  t \in Nat /\ t * row[i] \in Nat /\ t * row[i] + t <= height
    BY <1>1
  <2>1. row[i] \in 0..globalMaxY
    BY <1>2
  <2> QED
    BY <1>2, <1>3, <2>1, RowFits
<1> HIDE DEF t
<1>5. p \in Nat /\ gap \in Nat /\ gap + p <= t
  BY <1>4, PaddedFits
<1> HIDE DEF p, gap
<1>6. /\ placed' = placed \cup Below
      /\ placed' \subseteq DOMAIN dim'
      /\ \A i \in placed : dim'[i] = dim[i]
      /\ \A i \in Below : /\ dim'[i].y = t * row[i] + dim[tasks[i].parent].y + gap
                          /\ dim'[i].height = p
  BY <1>1 DEF Below, BarsInv, LevelsInv
<1>7. \A i \in Below : /\ i \in DOMAIN tasks /\ i \notin placed
                       /\ tasks[i].parent \in placed
                       /\ dim[tasks[i].parent].y \in Int
                       /\ dim[tasks[i].parent].height = height
                       /\ row[i] \in Nat
  BY <1>2 DEF Below, BarsInv, LevelsInv
<1>8. \A i : Siblings(i)' = Siblings(i)
  BY <1>1 DEF Siblings
<1>9. \A i \in Below : Siblings(i) \subseteq Below
  <2> SUFFICES ASSUME NEW i \in Below, NEW j \in Siblings(i), j \in placed
               PROVE  FALSE
    BY <1>7 DEF Below, Siblings
  <2>1. j # root
    <3>1. tasks \in Seq([start : Int, end : Int, parent : Nat])
      BY TaskBarsAssumption DEF BarsInv, RowsInv, RowsTyped
    <3>2. j \in 1..Len(tasks)
      BY <3>1, LenProperties DEF Siblings
    <3> QED
      BY <3>2 DEF root
  <2>2. i \in Siblings(j)
    BY <1>7 DEF Siblings
  <2> QED
    BY <1>7, <2>1, <2>2 DEF BarsInv, LevelsInv
<1>10. LevelsInv'
  <2>1. height' \in Nat /\ root \in placed' /\ placed' \subseteq DOMAIN dim'
    BY <1>1, <1>5, <1>6 DEF BarsInv, LevelsInv
  <2>2. ASSUME NEW b \in placed'
        PROVE  dim'[b].y \in Int /\ dim'[b].height \in Nat
    <3>1. CASE b \in placed
      BY <3>1, <1>6 DEF BarsInv, LevelsInv
    <3>2. CASE b \in Below
      BY <3>2, <1>4, <1>5, <1>6, <1>7
    <3> QED
      BY <3>1, <3>2, <1>6
  <2>3. ASSUME NEW i \in placed' \ {root}
        PROVE  /\ i \in DOMAIN row'
               /\ tasks'[i].parent \in placed'
               /\ Siblings(i)' \subseteq placed'
    <3>1. CASE i \in placed
      BY <3>1, <1>1, <1>6, <1>8 DEF BarsInv, LevelsInv
    <3>2. CASE i \in Below
      BY <3>2, <1>1, <1>6, <1>7, <1>8, <1>9
    <3> QED
      BY <3>1, <3>2, <1>6
  <2>4. ASSUME NEW i \in Below'
        PROVE  dim'[tasks'[i].parent].height = height'
    <3>1. /\ i \in DOMAIN tasks /\ i \notin placed /\ i \notin Below
          /\ tasks[i].parent \in placed'
      BY <1>1, <1>6 DEF Below
    <3>2. tasks[i].parent \notin placed
      BY <3>1 DEF Below
    <3>3. tasks[i].parent \in Below
      BY <3>1, <3>2, <1>6
    <3> QED
      BY <3>3, <1>1, <1>6
  <2> QED
    BY <2>1, <2>2, <2>3, <2>4 DEF LevelsInv
<1>11. BarsNest'
  <2> SUFFICES ASSUME NEW i \in placed' \ {root}
               PROVE  /\ dim'[tasks[i].parent].y <= dim'[i].y
                      /\ dim'[i].y + dim'[i].height
                           <= dim'[tasks[i].parent].y + dim'[tasks[i].parent].height
                      /\ \A j \in (Siblings(i) \cap placed') \ {i} :
                            Overlap(tasks[i], tasks[j]) =>
                              \/ dim'[i].y + dim'[i].height <= dim'[j].y
                              \/ dim'[j].y + dim'[j].height <= dim'[i].y
    <3>1. tasks' = tasks
      BY <1>1
    <3> QED
      BY <3>1, <1>8 DEF BarsNest, Overlap
  <2>1. CASE i \in placed
    <3>1. tasks[i].parent \in placed /\ Siblings(i) \subseteq placed
      BY <2>1 DEF BarsInv, LevelsInv
    <3>2. /\ dim[tasks[i].parent].y <= dim[i].y
          /\ dim[i].y + dim[i].height
               <= dim[tasks[i].parent].y + dim[tasks[i].parent].height
          /\ \A j \in (Siblings(i) \cap placed) \ {i} :
                Overlap(tasks[i], tasks[j]) =>
                  \/ dim[i].y + dim[i].height <= dim[j].y
                  \/ dim[j].y + dim[j].height <= dim[i].y
      BY <2>1 DEF BarsInv, BarsNest
    <3> QED
      BY <2>1, <3>1, <3>2, <1>6
  <2>2. CASE i \in Below
    <3> DEFINE py == dim[tasks[i].parent].y
    <3>1. /\ py \in Int
          /\ dim'[tasks[i].parent].y = py
          /\ dim'[tasks[i].parent].height = height
          /\ \A j \in Siblings(i) : /\ j \in Below
                                    /\ dim'[j].y = t * row[j] + py + gap
                                    /\ dim'[j].height = p
          /\ i \in Siblings(i)
      <4>1. \A j \in Siblings(i) : j \in Below /\ tasks[j].parent = tasks[i].parent
        BY <2>2, <1>9 DEF Siblings
      <4>2. i \in Siblings(i)
        BY <2>2, <1>7 DEF Siblings
      <4> QED
        BY <2>2, <4>1, <4>2, <1>6, <1>7
    <3> HIDE DEF py
    <3>2. /\ py <= dim'[i].y
          /\ dim'[i].y + dim'[i].height <= py + height
      BY <2>2, <3>1, <1>3, <1>4, <1>5
    <3>3. ASSUME NEW j \in Siblings(i) \ {i}, Overlap(tasks[i], tasks[j])
          PROVE  \/ dim'[i].y + dim'[i].height <= dim'[j].y
                 \/ dim'[j].y + dim'[j].height <= dim'[i].y
      <4>1. row[i] # row[j]
        BY <1>1, <2>2, <3>1, <3>3 DEF BarsInv, RowsInv, NoOverlap
      <4>2. row[i] \in Nat /\ row[j] \in Nat
        BY <1>7, <2>2, <3>1
      <4>3. t * row[i] \in Nat /\ t * row[j] \in Nat
        BY <1>4, <2>2, <3>1
      <4>4. t * row[i] + t <= t * row[j] \/ t * row[j] + t <= t * row[i]
        <5>1. CASE row[i] < row[j]
          BY <5>1, <4>2, <1>4, <1>1, RowsApart
        <5>2. CASE row[j] < row[i]
          BY <5>2, <4>2, <1>4, <1>1, RowsApart
        <5> QED
          BY <4>1, <4>2, <5>1, <5>2
      <4>5. /\ dim'[i].y = t * row[i] + py + gap /\ dim'[i].height = p
            /\ dim'[j].y = t * row[j] + py + gap /\ dim'[j].height = p
            /\ py \in Int
        BY <3>1
      <4>6. t \in Nat
        BY <1>4
      <4> QED
        BY <4>3, <4>4, <4>5, <4>6, <1>5
    <3> QED
      BY <3>1, <3>2, <3>3
  <2> QED
    BY <2>1, <2>2, <1>6
<1> QED
  BY <1>10, <1>11

LEMMA AssignRowKeepsBars ==
    ASSUME BarsInv, DOMAIN row \subseteq DOMAIN row',
           UNCHANGED <<tasks, height, dim, placed>>
    PROVE  LevelsInv' /\ BarsNest'
<1>1. Below' = Below /\ \A i : Siblings(i)' = Siblings(i)
  BY DEF Below, Siblings
<1>2. LevelsInv'
  BY <1>1 DEF BarsInv, LevelsInv
<1>3. BarsNest'
  BY <1>1 DEF BarsInv, BarsNest, Overlap
<1> QED
  BY <1>2, <1>3

\* A rendering starts with the canvas, whatever dimensions are left.
LEMMA OnlyCanvasPlaced ==
    ASSUME NEW h \in Heights, height' = h * Unit, placed' = {root},
           root \in DOMAIN dim', dim'[root] = Canvas(h)
    PROVE  LevelsInv' /\ BarsNest'
<1>1. h * Unit \in Nat /\ marginTop * Unit \in Int
  BY TaskBarsAssumption DEF marginTop
<1>2. dim'[root].y \in Int /\ dim'[root].height = height'
  BY <1>1 DEF Canvas
<1>3. LevelsInv'
  BY <1>1, <1>2 DEF LevelsInv, Below
<1>4. BarsNest'
  BY DEF BarsNest
<1> QED
  BY <1>3, <1>4

LEMMA BarsInvariant == BarsSpec => []BarsInv
<1>1. BarsInit => BarsInv
  <2> SUFFICES ASSUME BarsInit PROVE BarsInv
    OBVIOUS
  <2>1. RowsInv
    BY NoRowsInv DEF BarsInit
  <2>2. PICK h \in Heights :
            height = h * Unit /\ dim = [b \in {root} |-> Canvas(h)] /\ placed = {root}
    BY DEF BarsInit
  <2>3. h \in Nat /\ Unit \in Nat
    BY TaskBarsAssumption
  <2>4. h * Unit \in Nat /\ marginTop * Unit \in Int
    BY <2>3 DEF marginTop
  <2>5. LevelsInv
    BY <2>2, <2>4 DEF LevelsInv, Below, Canvas
  <2>6. BarsNest
    BY <2>2 DEF BarsNest
  <2> QED
    BY <2>1, <2>5, <2>6 DEF BarsInv
<1>2. BarsInv /\ RowsInv' /\ [BarsNext]_barVars => BarsInv'
  <2> SUFFICES ASSUME BarsInv, RowsInv', [BarsNext]_barVars PROVE BarsInv'
    OBVIOUS
  <2>1. ASSUME NEW i \in DOMAIN tasks, NEW r \in 0..Len(tasks), AssignRow(i, r)
        PROVE  BarsInv'
    BY <2>1, AssignRowKeepsBars DEF AssignRow, BarsInv
  <2>2. CASE AssignLevel
    BY <2>2, AssignLevelKeepsBars DEF BarsInv
  <2>3. CASE UNCHANGED barVars
    BY <2>3, AssignRowKeepsBars DEF barVars, BarsInv
  <2>4. ASSUME NEW h \in Heights, setCanvas(h)
        PROVE  BarsInv'
    <3>1. root \in DOMAIN dim
      BY DEF BarsInv, LevelsInv
    <3>2. root \in DOMAIN dim' /\ dim'[root] = Canvas(h)
      BY <2>4, <3>1 DEF setCanvas
    <3> QED
      BY <2>4, <3>2, OnlyCanvasPlaced DEF setCanvas, BarsInv
  <2> QED
    BY <2>1, <2>2, <2>3, <2>4 DEF BarsNext
<1> QED
  BY <1>1, <1>2, RowsInvariant, PTL DEF BarsSpec

\* A rendering of ComponentView places every bar within its parent's and
\* apart from those of the siblings under way at the same time, for every
\* list of tasks and every sequence of heights of the canvas.
THEOREM BarsAlwaysNest == BarsSpec => []BarsNest
BY BarsInvariant, PTL DEF BarsInv

-----------------------------------------------------------------------------
(* The page buttons *)

PagerInv ==
    \/ pager.pages = NaN
    \/ pager.pages \in Nat \ {0} /\ pager.curr \in 0..(pager.pages - 1)

\* The grid of a filter with matches has a cell.
LEMMA GridHasCells ==
    ASSUME NEW n \in Nat \ {0}
    PROVE  Cells(n) \in Nat \ {0}
<1> DEFINE w == IF n > MaxWidgets THEN MaxWidgets ELSE n
<1>1. w \in 1..16
  BY PagesAssumption
<1>2. \A k \in 1..16 : rowColTable[k][1] * rowColTable[k][2] \in Nat \ {0}
  <2> SUFFICES ASSUME NEW k \in 1..16
               PROVE  rowColTable[k][1] \in 1..4 /\ rowColTable[k][2] \in 1..4
    OBVIOUS
  <2>1. \/ k = 1 \/ k = 2 \/ k = 3 \/ k = 4 \/ k = 5 \/ k = 6 \/ k = 7 \/ k = 8
        \/ k = 9 \/ k = 10 \/ k = 11 \/ k = 12 \/ k = 13 \/ k = 14 \/ k = 15 \/ k = 16
    OBVIOUS
  <2> QED
    BY <2>1 DEF rowColTable
<1>3. w # 0
  BY <1>1
<1>4. Cells(n) = rowColTable[w][1] * rowColTable[w][2]
  BY <1>3 DEF Cells
<1> HIDE DEF w
<1> QED
  BY <1>1, <1>2, <1>4

\* The buttons are five consecutive pages, or all of them when they are
\* fewer, and the current page is among them with its neighbours.
LEMMA ButtonsShowNeighbours ==
    ASSUME NEW pages \in Nat \ {0}, NEW curr \in 0..(pages - 1)
    PROVE  /\ PageButtons(curr, pages) \subseteq 0..(pages - 1)
           /\ Cardinality(PageButtons(curr, pages)) = IF pages < 5 THEN pages ELSE 5
           /\ {curr - 1, curr, curr + 1} \cap (0..(pages - 1))
                \subseteq PageButtons(curr, pages)
<1> DEFINE first == curr + Offset(curr, pages)
           lo == IF first < 0 THEN 0 ELSE first
           hi == IF first + 4 > pages - 1 THEN pages - 1 ELSE first + 4
<1>1. pages # NaN
  BY PagesAssumption
<1>2. /\ first \in Int
      /\ first <= curr - 1 \/ first <= 0
      /\ first + 4 >= curr + 1 \/ first + 4 >= pages - 1
      /\ first <= curr /\ curr <= first + 4
      /\ hi - lo + 1 = IF pages < 5 THEN pages ELSE 5
  <2>1. CASE curr = pages - 1
    <3>1. Offset(curr, pages) = -4
      BY <1>1, <2>1 DEF Offset
    <3> QED
      BY <2>1, <3>1
  <2>2. CASE curr = pages - 2
    <3>1. Offset(curr, pages) = -3
      BY <1>1, <2>2 DEF Offset
    <3> QED
      BY <2>2, <3>1
  <2>3. CASE curr # pages - 1 /\ curr # pages - 2
    <3>1. Offset(curr, pages) = IF curr <= 1 THEN -curr ELSE -2
      BY <1>1, <2>3 DEF Offset
    <3> QED
      BY <2>3, <3>1
  <2> QED
    BY <2>1, <2>2, <2>3
<1>3. PageButtons(curr, pages) = lo..hi
  <2>1. Offset(curr, pages) \in Int
    BY <1>1 DEF Offset
  <2>2. \A p \in Int : p \in PageButtons(curr, pages) <=> p \in lo..hi
    <3> SUFFICES ASSUME NEW p \in Int
                 PROVE  p \in PageButtons(curr, pages) <=> p \in lo..hi
      OBVIOUS
    <3>1. p \in lo..hi <=> /\ first <= p /\ p <= first + 4
                           /\ 0 <= p /\ p < pages
      BY <2>1
    <3>2. (\E i \in 0..4 : p = curr + i + Offset(curr, pages))
            <=> first <= p /\ p <= first + 4
      <4>1. ASSUME first <= p, p <= first + 4
            PROVE  \E i \in 0..4 : p = curr + i + Offset(curr, pages)
        <5>1. p - first \in 0..4 /\ p = curr + (p - first) + Offset(curr, pages)
          BY <2>1, <4>1
        <5> QED
          BY <5>1
      <4> QED
        BY <2>1, <4>1
    <3> QED
      BY <1>1, <3>1, <3>2 DEF PageButtons
  <2>3. PageButtons(curr, pages) \subseteq Int
    BY <2>1 DEF PageButtons
  <2>4. lo..hi \subseteq Int
    OBVIOUS
  <2> QED
    BY <2>2, <2>3, <2>4
<1>4. lo \in Int /\ hi \in Int
  BY <1>2
<1>5. Cardinality(lo..hi) = IF lo > hi THEN 0 ELSE hi - lo + 1
  BY <1>4, FS_Interval
<1>6. lo..hi \subseteq 0..(pages - 1)
  BY <1>2
<1>7. {curr - 1, curr, curr + 1} \cap (0..(pages - 1)) \subseteq lo..hi
  BY <1>2
<1>8. Cardinality(lo..hi) = IF pages < 5 THEN pages ELSE 5
  BY <1>2, <1>4, <1>5
<1> QED
  BY <1>3, <1>6, <1>7, <1>8

\* A button, Prev or Next leads to a page that exists.
LEMMA SwitchKeepsPager ==
    ASSUME PagerInv, NEW p \in 0..MaxMatches, switchPage(p)
    PROVE  PagerInv'
<1>1. /\ pager.pages \in Nat \ {0} /\ pager.curr \in 0..(pager.pages - 1)
      /\ p \in PageTargets(pager.curr, pager.pages)
      /\ pager' = [pager EXCEPT !.curr = p]
  BY DEF PagerInv, switchPage
<1>2. ASSUME NEW pages \in Nat \ {0}, NEW curr \in 0..(pages - 1),
             p \in PageTargets(curr, pages)
      PROVE  p \in 0..(pages - 1)
  <2>1. PageButtons(curr, pages) \subseteq 0..(pages - 1)
    BY ButtonsShowNeighbours
  <2> QED
    BY <1>2, <2>1 DEF PageTargets
<1>3. p \in 0..(pager.pages - 1)
  BY <1>1, <1>2
<1>4. pager'.pages = pager.pages /\ (pager'.curr = p \/ pager'.curr = pager.curr)
  BY <1>1
<1> QED
  BY <1>1, <1>3, <1>4 DEF PagerInv

LEMMA PagerInvariant == Spec => []PagerInv
<1>1. Init => PagerInv
  <2> SUFFICES ASSUME Init PROVE PagerInv
    OBVIOUS
  <2>1. CASE pager = NoPager
    BY <2>1 DEF NoPager, PagerInv
  <2>2. CASE PagerInit
    <3>1. PICK n \in 1..MaxMatches :
              pager = [curr |-> 0, pages |-> numPages(n, Cells(n))]
      BY <2>2 DEF PagerInit
    <3>2. n \in Nat \ {0}
      BY MatchesAssumption
    <3>3. Cells(n) \in Nat \ {0}
      BY <3>2, GridHasCells
    <3>4. ASSUME NEW c \in Nat \ {0}
          PROVE  (n + c - 1) \div c \in Nat \ {0}
      <4>1. n + c - 1 \in Nat /\ n + c - 1 >= c
        BY <3>2
      <4> QED
        BY <3>2, <4>1
    <3>5. numPages(n, Cells(n)) \in Nat \ {0}
      BY <3>3, <3>4 DEF numPages
    <3> QED
      BY <3>1, <3>5 DEF PagerInv
  <2> QED
    BY <2>1, <2>2 DEF Init
<1>2. PagerInv /\ [Next]_vars => PagerInv'
  <2> SUFFICES ASSUME PagerInv, [Next]_vars PROVE PagerInv'
    OBVIOUS
  <2>1. CASE UNCHANGED pager
    BY <2>1 DEF PagerInv
  <2>2. ASSUME NEW p \in 0..MaxMatches, switchPage(p)
        PROVE  PagerInv'
    BY <2>2, SwitchKeepsPager
  <2> QED
    BY <2>1, <2>2 DEF Next, vars
<1> QED
  BY <1>1, <1>2, PTL DEF Spec

\* The buttons of the dashboard lead only to pages that exist and always
\* show the current page and its neighbours, for every number of components
\* and of widgets on a page.
THEOREM PagerAlwaysShowsNeighbours == Spec => []PagerShowsNeighbours
<1>1. PagerInv => PagerShowsNeighbours
  <2> SUFFICES ASSUME PagerInv, pager.pages # NaN PROVE PagerShowsNeighbours
    BY DEF PagerShowsNeighbours
  <2>1. pager.pages \in Nat \ {0} /\ pager.curr \in 0..(pager.pages - 1)
    BY DEF PagerInv
  <2> QED
    BY <2>1, ButtonsShowNeighbours DEF PagerShowsNeighbours
<1> QED
  BY <1>1, PagerInvariant, PTL

-----------------------------------------------------------------------------
(* Sums over finite sets.  Induction is the least number principle, applied *)
(* to the set of the numbers, or of the subsets, that have the property.    *)

\* A set of numbers that is not empty has a least one.
LEMMA FirstNat ==
    ASSUME NEW T \in SUBSET Nat, T # {}
    PROVE  \E x \in T : \A y \in T : x <= y
<1>1. IsWellFoundedOn(OpToRel(<, Nat), Nat)
  BY NatLessThanWellFounded
<1>2. PICK x \in T : \A y \in T : ~ (<<y, x>> \in OpToRel(<, Nat))
  BY <1>1, WFMin
<1>3. \A y \in T : ~(y < x)
  BY <1>2 DEF OpToRel
<1> QED
  BY <1>3

\* Induction on 0..N, for the numbers of a set.
LEMMA UpTo ==
    ASSUME NEW N \in Nat, NEW G, 0 \in G,
           \A i \in 1..N : i - 1 \in G => i \in G
    PROVE  \A i \in 0..N : i \in G
<1> DEFINE Bad == {i \in 0..N : i \notin G}
<1>1. SUFFICES ASSUME Bad # {} PROVE FALSE
  OBVIOUS
<1>2. Bad \in SUBSET Nat
  OBVIOUS
<1>3. PICK n \in Bad : \A y \in Bad : n <= y
  <2> HIDE DEF Bad
  <2> QED
    BY <1>1, <1>2, FirstNat
<1>4. n \in 0..N /\ n \notin G
  OBVIOUS
<1>5. n \in 1..N /\ n - 1 \in 0..N /\ ~(n <= n - 1)
  BY <1>4
<1>6. n - 1 \in G
  BY <1>3, <1>5
<1> QED
  BY <1>4, <1>5, <1>6

\* Induction on the subsets of a finite set, for the members of a set.
LEMMA SetInduct ==
    ASSUME NEW S, IsFiniteSet(S), NEW G,
           \A T \in SUBSET S : (\A U \in SUBSET T : U # T => U \in G) => T \in G
    PROVE  \A T \in SUBSET S : T \in G
<1> DEFINE Bad == {T \in SUBSET S : T \notin G}
           Sizes == {Cardinality(T) : T \in Bad}
<1>1. SUFFICES ASSUME Bad # {} PROVE FALSE
  OBVIOUS
<1>2. \A T \in SUBSET S : IsFiniteSet(T) /\ Cardinality(T) \in Nat
  BY FS_Subset, FS_CardinalityType
<1>3. Sizes \in SUBSET Nat /\ Sizes # {}
  BY <1>1, <1>2
<1>4. PICK n \in Sizes : \A k \in Sizes : n <= k
  <2> HIDE DEF Sizes
  <2> QED
    BY <1>3, FirstNat
<1>5. PICK T \in Bad : n = Cardinality(T)
  OBVIOUS
<1>6. ASSUME NEW U \in SUBSET T, U # T PROVE U \in G
  <2>1. SUFFICES ASSUME U \in Bad PROVE FALSE
    OBVIOUS
  <2>2. n <= Cardinality(U)
    BY <1>4, <2>1
  <2>3. /\ Cardinality(U) <= Cardinality(T)
        /\ Cardinality(T) = Cardinality(U) => T = U
    BY <1>2, FS_Subset
  <2>4. Cardinality(U) \in Nat /\ Cardinality(T) \in Nat
    BY <1>2
  <2> QED
    BY <1>5, <1>6, <2>2, <2>3, <2>4
<1> QED
  BY <1>6

-----------------------------------------------------------------------------
\* The sum of g over a set, as MapThenSumSet computes it.
SumOf(g, S) == MapThenSumSet(LAMBDA x : g[x], S)

Any(s) == CHOOSE x \in s : TRUE

LEMMA AnyIn ==
    ASSUME NEW s, s # {}
    PROVE  Any(s) \in s
  BY DEF Any

\* it[s] is the sum over each subset s of S.
Sums(it, g, S) ==
    /\ it[{}] = 0
    /\ \A s \in SUBSET S : s # {} => it[s] = g[Any(s)] + it[s \ {Any(s)}]

\* The recursive function of the fold exists and is what its equations say.
LEMMA SumRecursion ==
    ASSUME NEW S, IsFiniteSet(S), NEW g
    PROVE  \E it : SumOf(g, S) = it[S] /\ Sums(it, g, S)
<1> DEFINE Rec(it, D) == it = [s \in D |-> IF s = {} THEN 0
                                           ELSE g[Any(s)] + it[s \ {Any(s)}]]
           UpToSize(n) == {s \in SUBSET S : Cardinality(s) <= n}
           G == {n \in Nat : \E it : Rec(it, UpToSize(n))}
           N == Cardinality(S)
<1>1. /\ N \in Nat
      /\ \A s \in SUBSET S : /\ IsFiniteSet(s) /\ Cardinality(s) \in Nat
                             /\ Cardinality(s) <= N
                             /\ Cardinality(s) = 0 <=> s = {}
  BY FS_Subset, FS_CardinalityType, FS_EmptySet
<1>2. \A s \in SUBSET S : s # {} => Cardinality(s \ {Any(s)}) = Cardinality(s) - 1
  BY <1>1, AnyIn, FS_RemoveElement
<1>3. 0 \in G
  <2>1. \A s \in UpToSize(0) : s = {}
    BY <1>1
  <2>2. Rec([s \in UpToSize(0) |-> 0], UpToSize(0))
    BY <2>1
  <2> QED
    BY <2>2
<1>4. ASSUME NEW n \in 1..N, n - 1 \in G PROVE n \in G
  <2>1. PICK it : Rec(it, UpToSize(n - 1))
    BY <1>4
  <2>2. n \in Nat /\ n - 1 \in Nat
    BY <1>1
  <2>3. UpToSize(n - 1) \subseteq UpToSize(n)
    BY <1>1, <2>2
  <2>4. ASSUME NEW s \in UpToSize(n), s # {} PROVE s \ {Any(s)} \in UpToSize(n - 1)
    <3>1. Cardinality(s) \in Nat /\ Cardinality(s) <= n
      BY <1>1
    <3>2. Cardinality(s \ {Any(s)}) = Cardinality(s) - 1
      BY <1>2, <2>4
    <3> QED
      BY <2>2, <3>1, <3>2
  <2>5. {} \in UpToSize(n - 1)
    BY <1>1, <2>2
  <2> DEFINE jt == [s \in UpToSize(n) |->
                      IF s \in UpToSize(n - 1) THEN it[s]
                      ELSE g[Any(s)] + it[s \ {Any(s)}]]
  <2> HIDE DEF UpToSize
  <2>6. \A s \in UpToSize(n - 1) : jt[s] = it[s]
    BY <2>3
  <2>7. \A s \in UpToSize(n - 1) : it[s] = IF s = {} THEN 0
                                           ELSE g[Any(s)] + it[s \ {Any(s)}]
    BY <2>1, Zenon
  <2>8. ASSUME NEW s \in UpToSize(n)
        PROVE  jt[s] = IF s = {} THEN 0 ELSE g[Any(s)] + jt[s \ {Any(s)}]
    <3>1. CASE s = {}
      BY <2>5, <2>6, <2>7, <3>1
    <3>2. CASE s # {}
      <4>1. jt[s \ {Any(s)}] = it[s \ {Any(s)}]
        BY <2>4, <2>6, <3>2
      <4>2. jt[s] = g[Any(s)] + it[s \ {Any(s)}]
        BY <2>7, <3>2
      <4> QED
        BY <3>2, <4>1, <4>2
    <3> QED
      BY <3>1, <3>2
  <2>9. Rec(jt, UpToSize(n))
    BY <2>8, Zenon
  <2> HIDE DEF jt
  <2>10. \E x : Rec(x, UpToSize(n))
    BY <2>9
  <2> QED
    BY <2>2, <2>10
<1>5. UpToSize(N) = SUBSET S
  BY <1>1
<1>6. \E it : Rec(it, SUBSET S)
  <2>1. N \in G
    <3> HIDE DEF G, N
    <3>1. \A i \in 0..N : i \in G
      BY <1>1, <1>3, <1>4, UpTo
    <3> QED
      BY <1>1, <3>1
  <2>2. \E it : Rec(it, UpToSize(N))
    BY <2>1
  <2> QED
    BY <1>5, <2>2
<1> DEFINE kt == CHOOSE it : Rec(it, SUBSET S)
<1>7. Rec(kt, SUBSET S)
  BY <1>6, Zenon
<1>8. SumOf(g, S) = kt[S]
  BY Zenon DEF SumOf, MapThenSumSet, MapThenFoldSet, Any
<1> HIDE DEF kt
<1>9. \A s \in SUBSET S : kt[s] = IF s = {} THEN 0 ELSE g[Any(s)] + kt[s \ {Any(s)}]
  BY <1>7, Zenon
<1>10. {} \in SUBSET S
  OBVIOUS
<1> QED
  BY <1>8, <1>9, <1>10, Zenon DEF Sums

LEMMA SumEmpty ==
    ASSUME NEW g
    PROVE  SumOf(g, {}) = 0
  BY SumRecursion, FS_EmptySet DEF Sums

LEMMA SumAny ==
    ASSUME NEW S, IsFiniteSet(S), S # {}, NEW g
    PROVE  SumOf(g, S) = g[Any(S)] + SumOf(g, S \ {Any(S)})
<1>1. PICK T : T = S \ {Any(S)}
  OBVIOUS
<1>2. IsFiniteSet(T) /\ T \subseteq S
  BY <1>1, FS_Subset
<1>3. PICK a : SumOf(g, S) = a[S] /\ Sums(a, g, S)
  BY SumRecursion
<1>4. PICK b : SumOf(g, T) = b[T] /\ Sums(b, g, T)
  BY <1>2, SumRecursion
<1> DEFINE G == {s \in SUBSET T : a[s] = b[s]}
<1>5. ASSUME NEW s \in SUBSET T, \A u \in SUBSET s : u # s => u \in G
      PROVE  s \in G
  <2>1. CASE s = {}
    BY <1>3, <1>4, <2>1 DEF Sums
  <2>2. CASE s # {}
    <3>1. s \ {Any(s)} \in SUBSET s /\ s \ {Any(s)} # s
      BY <2>2, AnyIn
    <3>2. a[s \ {Any(s)}] = b[s \ {Any(s)}]
      BY <1>5, <3>1
    <3>3. a[s] = b[s]
      BY <1>2, <1>3, <1>4, <2>2, <3>2 DEF Sums
    <3> QED
      BY <3>3
  <2> QED
    BY <2>1, <2>2
<1>6. \A s \in SUBSET T : s \in G
  <2> HIDE DEF G
  <2> QED
    BY <1>2, <1>5, SetInduct
<1>7. a[T] = b[T]
  BY <1>6
<1>8. a[S] = g[Any(S)] + a[T]
  BY <1>1, <1>3 DEF Sums
<1> QED
  BY <1>1, <1>3, <1>4, <1>7, <1>8, Zenon

LEMMA SumType ==
    ASSUME NEW S, IsFiniteSet(S), NEW g, \A x \in S : g[x] \in Nat
    PROVE  \A T \in SUBSET S : SumOf(g, T) \in Nat
<1> DEFINE G == {T \in SUBSET S : SumOf(g, T) \in Nat}
<1>1. ASSUME NEW T \in SUBSET S, \A U \in SUBSET T : U # T => U \in G
      PROVE  T \in G
  <2>1. CASE T = {}
    BY <2>1, SumEmpty
  <2>2. CASE T # {}
    <3>1. IsFiniteSet(T) /\ Any(T) \in T
      BY <2>2, AnyIn, FS_Subset
    <3>2. T \ {Any(T)} \in G
      BY <1>1, <3>1
    <3>3. SumOf(g, T \ {Any(T)}) \in Nat /\ g[Any(T)] \in Nat
      BY <3>1, <3>2
    <3>4. SumOf(g, T) = g[Any(T)] + SumOf(g, T \ {Any(T)})
      BY <2>2, <3>1, SumAny
    <3>5. SumOf(g, T) \in Nat
      BY <3>3, <3>4
    <3> QED
      BY <3>5
  <2> QED
    BY <2>1, <2>2
<1>2. \A T \in SUBSET S : T \in G
  <2> HIDE DEF G
  <2> QED
    BY <1>1, SetInduct
<1> QED
  BY <1>2

\* The order of the terms does not matter.
LEMMA SumRemove ==
    ASSUME NEW S, IsFiniteSet(S), NEW g, \A x \in S : g[x] \in Nat
    PROVE  \A T \in SUBSET S : \A x \in T : SumOf(g, T) = g[x] + SumOf(g, T \ {x})
<1> DEFINE G == {T \in SUBSET S : \A x \in T : SumOf(g, T) = g[x] + SumOf(g, T \ {x})}
<1>1. ASSUME NEW T \in SUBSET S, \A U \in SUBSET T : U # T => U \in G
      PROVE  T \in G
  <2>1. SUFFICES ASSUME NEW x \in T PROVE SumOf(g, T) = g[x] + SumOf(g, T \ {x})
    OBVIOUS
  <2>2. IsFiniteSet(T) /\ Any(T) \in T
    BY AnyIn, FS_Subset
  <2>3. PICK c \in T : c = Any(T)
    BY <2>2
  <2>4. SumOf(g, T) = g[c] + SumOf(g, T \ {c})
    BY <2>2, <2>3, SumAny
  <2>5. CASE x = c
    BY <2>4, <2>5
  <2>6. CASE x # c
    <3>1. T \ {c} \in G /\ T \ {x} \in G /\ x \in T \ {c} /\ c \in T \ {x}
      BY <1>1, <2>6
    <3>2. SumOf(g, T \ {c}) = g[x] + SumOf(g, (T \ {c}) \ {x})
      BY <3>1
    <3>3. SumOf(g, T \ {x}) = g[c] + SumOf(g, (T \ {x}) \ {c})
      BY <3>1
    <3>4. (T \ {x}) \ {c} = (T \ {c}) \ {x}
      OBVIOUS
    <3>5. g[c] \in Nat /\ g[x] \in Nat /\ SumOf(g, (T \ {c}) \ {x}) \in Nat
      BY SumType
    <3> QED
      BY <2>4, <3>2, <3>3, <3>4, <3>5
  <2> QED
    BY <2>5, <2>6
<1>2. \A T \in SUBSET S : T \in G
  <2> HIDE DEF G
  <2> QED
    BY <1>1, SetInduct
<1> QED
  BY <1>2

\* The sum depends only on the terms.
LEMMA SumSame ==
    ASSUME NEW S, IsFiniteSet(S), NEW g, NEW h, \A x \in S : g[x] = h[x]
    PROVE  SumOf(g, S) = SumOf(h, S)
<1> DEFINE G == {T \in SUBSET S : SumOf(g, T) = SumOf(h, T)}
<1>1. ASSUME NEW T \in SUBSET S, \A U \in SUBSET T : U # T => U \in G
      PROVE  T \in G
  <2>1. CASE T = {}
    BY <2>1, SumEmpty
  <2>2. CASE T # {}
    <3>1. IsFiniteSet(T) /\ Any(T) \in T
      BY <2>2, AnyIn, FS_Subset
    <3>2. SumOf(g, T \ {Any(T)}) = SumOf(h, T \ {Any(T)})
      BY <1>1, <3>1
    <3>3. /\ SumOf(g, T) = g[Any(T)] + SumOf(g, T \ {Any(T)})
          /\ SumOf(h, T) = h[Any(T)] + SumOf(h, T \ {Any(T)})
      BY <2>2, <3>1, SumAny
    <3>4. SumOf(g, T) = SumOf(h, T)
      BY <3>1, <3>2, <3>3
    <3> QED
      BY <3>4
  <2> QED
    BY <2>1, <2>2
<1>2. \A T \in SUBSET S : T \in G
  <2> HIDE DEF G
  <2> QED
    BY <1>1, SetInduct
<1> QED
  BY <1>2

\* Terms that are 0 may be left out.
LEMMA SumZeros ==
    ASSUME NEW S, IsFiniteSet(S), NEW R \in SUBSET S, NEW g,
           \A x \in S : g[x] \in Nat, \A x \in S \ R : g[x] = 0
    PROVE  SumOf(g, S) = SumOf(g, R)
<1> DEFINE G == {T \in SUBSET S : SumOf(g, T) = SumOf(g, T \cap R)}
<1>1. ASSUME NEW T \in SUBSET S, \A U \in SUBSET T : U # T => U \in G
      PROVE  T \in G
  <2>1. CASE T \subseteq R
    <3>1. T \cap R = T
      BY <2>1
    <3> QED
      BY <3>1
  <2>2. ASSUME NEW x \in T \ R PROVE T \in G
    <3>1. SumOf(g, T) = g[x] + SumOf(g, T \ {x})
      BY SumRemove
    <3>2. SumOf(g, T \ {x}) = SumOf(g, (T \ {x}) \cap R) /\ (T \ {x}) \cap R = T \cap R
      BY <1>1
    <3>3. g[x] = 0 /\ SumOf(g, T \ {x}) \in Nat
      BY SumType
    <3>4. SumOf(g, T) = SumOf(g, T \ {x})
      BY <3>1, <3>3
    <3>5. SumOf(g, T) = SumOf(g, T \cap R)
      BY <3>2, <3>4, Zenon
    <3> QED
      BY <3>5
  <2> QED
    BY <2>1, <2>2
<1>2. \A T \in SUBSET S : T \in G
  <2> HIDE DEF G
  <2> QED
    BY <1>1, SetInduct
<1>3. S \cap R = R
  OBVIOUS
<1> QED
  BY <1>2, <1>3

\* What is added to one term is added to the sum.
LEMMA SumBump ==
    ASSUME NEW S, IsFiniteSet(S), NEW g, NEW h, NEW y \in S, NEW v \in Nat,
           \A x \in S : g[x] \in Nat, h[y] = g[y] + v,
           \A x \in S \ {y} : h[x] = g[x]
    PROVE  SumOf(h, S) = SumOf(g, S) + v
<1>1. \A x \in S : h[x] \in Nat
  OBVIOUS
<1>2. /\ SumOf(g, S) = g[y] + SumOf(g, S \ {y})
      /\ SumOf(h, S) = h[y] + SumOf(h, S \ {y})
  BY <1>1, SumRemove
<1>3. IsFiniteSet(S \ {y})
  BY FS_Subset
<1>4. SumOf(g, S \ {y}) = SumOf(h, S \ {y})
  BY <1>3, SumSame
<1>5. g[y] \in Nat /\ SumOf(g, S \ {y}) \in Nat
  BY SumType
<1> QED
  BY <1>2, <1>4, <1>5

\* A set of positions is finite.
LEMMA PositionsFinite ==
    ASSUME NEW n \in Int, NEW A \in SUBSET (1..n)
    PROVE  IsFiniteSet(A) /\ Cardinality(A) \in Nat
<1>1. IsFiniteSet(1..n)
  BY FS_Interval
<1>2. IsFiniteSet(A)
  BY <1>1, FS_Subset
<1> QED
  BY <1>2, FS_CardinalityType

\* A set of positions and one position more.
LEMMA CountUp ==
    ASSUME NEW n \in Nat, NEW A \in SUBSET (1..n), NEW x, x \notin A
    PROVE  Cardinality(A) \in Nat /\ Cardinality(A \cup {x}) = Cardinality(A) + 1
<1>0. n \in Int
  OBVIOUS
<1>1. IsFiniteSet(A) /\ Cardinality(A) \in Nat
  BY <1>0, PositionsFinite
<1> QED
  BY <1>1, FS_AddElement

\* How often a call, and the function f, is among the first positions of s.
CallsUpTo(s, k, e) == {i \in 1..k : <<s[i + 1], s[i]>> = e}
UsesUpTo(s, k, fn) == {i \in 1..(k + 1) : s[i] = fn}

LEMMA CallsStep ==
    ASSUME NEW s, NEW k \in Nat \ {0}, NEW e
    PROVE  /\ Cardinality(CallsUpTo(s, k - 1, e)) \in Nat
           /\ Cardinality(CallsUpTo(s, k, e)) = Cardinality(CallsUpTo(s, k - 1, e))
                 + (IF <<s[k + 1], s[k]>> = e THEN 1 ELSE 0)
<1>1. PICK A \in SUBSET (1..(k - 1)) : A = CallsUpTo(s, k - 1, e)
  BY DEF CallsUpTo
<1>2. k - 1 \in Nat /\ k \notin A
  BY <1>1
<1>3. Cardinality(A) \in Nat /\ Cardinality(A \cup {k}) = Cardinality(A) + 1
  BY <1>2, CountUp
<1>4. CallsUpTo(s, k, e) = IF <<s[k + 1], s[k]>> = e THEN A \cup {k} ELSE A
  <2>1. \A i \in 1..k : i \in 1..(k - 1) \/ i = k
    OBVIOUS
  <2>2. \A i \in 1..(k - 1) : i \in 1..k
    OBVIOUS
  <2>3. k \in 1..k
    OBVIOUS
  <2> QED
    BY <1>1, <2>1, <2>2, <2>3, Zenon DEF CallsUpTo
<1> QED
  BY <1>1, <1>3, <1>4

LEMMA UsesStep ==
    ASSUME NEW s, NEW k \in Nat \ {0}, NEW fn
    PROVE  /\ Cardinality(UsesUpTo(s, k - 1, fn)) \in Nat
           /\ Cardinality(UsesUpTo(s, k, fn)) = Cardinality(UsesUpTo(s, k - 1, fn))
                 + (IF s[k + 1] = fn THEN 1 ELSE 0)
<1>1. UsesUpTo(s, k - 1, fn) = {i \in 1..k : s[i] = fn}
  BY DEF UsesUpTo
<1>2. PICK A \in SUBSET (1..k) : A = UsesUpTo(s, k - 1, fn)
  BY <1>1
<1>3. k + 1 \notin A
  BY <1>2
<1>4. Cardinality(A) \in Nat /\ Cardinality(A \cup {k + 1}) = Cardinality(A) + 1
  BY <1>3, CountUp
<1>5. UsesUpTo(s, k, fn) = IF s[k + 1] = fn THEN A \cup {k + 1} ELSE A
  <2>1. \A i \in 1..(k + 1) : i \in 1..k \/ i = k + 1
    OBVIOUS
  <2>2. \A i \in 1..k : i \in 1..(k + 1)
    OBVIOUS
  <2>3. k + 1 \in 1..(k + 1)
    OBVIOUS
  <2> QED
    BY <1>1, <1>2, <2>1, <2>2, <2>3, Zenon DEF UsesUpTo
<1> QED
  BY <1>2, <1>4, <1>5

\* The first position alone.
LEMMA StepsStart ==
    ASSUME NEW s, NEW e, NEW fn
    PROVE  /\ Cardinality(CallsUpTo(s, 0, e)) = 0
           /\ Cardinality(UsesUpTo(s, 0, fn)) = IF s[1] = fn THEN 1 ELSE 0
<1>1. CallsUpTo(s, 0, e) = {}
  BY DEF CallsUpTo
<1>2. UsesUpTo(s, 0, fn) = IF s[1] = fn THEN {1} ELSE {}
  BY DEF UsesUpTo
<1> QED
  BY <1>1, <1>2, FS_EmptySet, FS_Singleton

LEMMA AddBoth ==
    ASSUME NEW a \in Nat, NEW b \in Nat, NEW c \in Nat, NEW d \in Nat, NEW v \in Nat,
           a + b = c + d
    PROVE  (a + v) + b = c + (d + v)
  OBVIOUS

LEMMA OneCallMore ==
    ASSUME NEW a \in Nat, NEW v \in Nat, NEW c \in Nat
    PROVE  /\ a + v * c \in Nat
           /\ a + v * (c + 1) = (a + v * c) + v
           /\ a + v * (c + 0) = (a + v * c) + 0
<1>1. v * c \in Nat /\ v * (c + 1) = v * c + v /\ c + 0 = c
  OBVIOUS
<1>2. PICK w \in Nat : w = v * c
  BY <1>1
<1>3. a + w \in Nat /\ a + (w + v) = (a + w) + v /\ (a + w) + 0 = a + w
  OBVIOUS
<1> QED
  BY <1>1, <1>2, <1>3, Zenon

\* What one sample adds to the calls of a function, walking up the stack.
LEMMA StackTime ==
    ASSUME DOMAIN edges \subseteq Functions \X Functions,
           edges \in [DOMAIN edges -> Nat],
           NEW s \in Seq(Functions) \ {<<>>}, NEW v \in Nat, NEW fn \in Functions
    PROVE  \E x, y \in Nat :
              /\ x = SumOf(edges, {e \in DOMAIN edges : e[1] = fn})
              /\ y = SumOf(WithEdges(s, v), {e \in DOMAIN edges \cup Calls(s) : e[1] = fn})
              /\ y + (IF s[1] = fn THEN v ELSE 0) = x + v * Occurrences(s, fn)
<1> DEFINE R == {e \in DOMAIN edges : e[1] = fn}
           T == {e \in DOMAIN edges \cup Calls(s) : e[1] = fn}
           N == Len(s) - 1
           self == IF s[1] = fn THEN v ELSE 0
           G(k) == [e \in T |-> EdgeTime(e) + v * Cardinality(CallsUpTo(s, k, e))]
           U(k) == Cardinality(UsesUpTo(s, k, fn))
           Ok == {k \in 0..N : /\ U(k) \in Nat
                               /\ \A e \in T : Cardinality(CallsUpTo(s, k, e)) \in Nat
                               /\ SumOf(G(k), T) \in Nat
                               /\ SumOf(G(k), T) + self = SumOf(edges, R) + v * U(k)}
<1>1. N \in Nat /\ \A i \in 1..Len(s) : s[i] \in Functions
  OBVIOUS
<1>2. Calls(s) \subseteq Functions \X Functions
  BY <1>1 DEF Calls
<1>3. IsFiniteSet(T) /\ R \subseteq T /\ IsFiniteSet(R)
  <2>1. IsFiniteSet(Functions \X Functions)
    BY ProfileAssumption, FS_Product
  <2>2. T \subseteq Functions \X Functions /\ R \subseteq T
    BY <1>2
  <2> QED
    BY <2>1, <2>2, FS_Subset
<1>4. \A e \in T : EdgeTime(e) \in Nat
  BY DEF EdgeTime
<1>5. SumOf(edges, R) \in Nat
  BY <1>3, SumType
<1> HIDE DEF T, R, N
<1>6. 0 \in Ok
  <2>1. \A e \in T : Cardinality(CallsUpTo(s, 0, e)) = 0
    BY StepsStart
  <2>2. U(0) = IF s[1] = fn THEN 1 ELSE 0
    BY StepsStart
  <2>3. \A e \in T : G(0)[e] = EdgeTime(e)
    BY <1>4, <2>1
  <2>4. PICK h : h = G(0)
    OBVIOUS
  <2>5. \A e \in T : h[e] \in Nat
    BY <1>4, <2>3, <2>4, Zenon
  <2>6. (\A e \in T \ R : h[e] = 0) /\ (\A e \in R : h[e] = edges[e])
    BY <1>3, <2>3, <2>4 DEF EdgeTime, T, R
  <2>7. SumOf(h, T) = SumOf(h, R)
    BY <1>3, <2>5, <2>6, SumZeros
  <2>8. SumOf(h, R) = SumOf(edges, R)
    BY <1>3, <2>6, SumSame
  <2>9. self = v * U(0) /\ U(0) \in Nat
    BY <2>2
  <2>10. SumOf(G(0), T) = SumOf(edges, R)
    BY <2>4, <2>7, <2>8, Zenon
  <2>11. 0 \in 0..N
    BY <1>1
  <2> QED
    BY <1>5, <2>1, <2>9, <2>10, <2>11
<1>7. ASSUME NEW k \in 1..N, k - 1 \in Ok PROVE k \in Ok
  <2>1. k \in Nat \ {0} /\ k - 1 \in 0..N /\ k \in 0..N /\ k \in 1..(Len(s) - 1)
    BY <1>1 DEF N
  <2>2. /\ U(k - 1) \in Nat
        /\ \A e \in T : Cardinality(CallsUpTo(s, k - 1, e)) \in Nat
        /\ SumOf(G(k - 1), T) \in Nat
        /\ SumOf(G(k - 1), T) + self = SumOf(edges, R) + v * U(k - 1)
    BY <1>7
  <2>3. \A e \in T : Cardinality(CallsUpTo(s, k, e)) =
            Cardinality(CallsUpTo(s, k - 1, e))
               + (IF <<s[k + 1], s[k]>> = e THEN 1 ELSE 0)
    BY <2>1, CallsStep
  <2>4. U(k) = U(k - 1) + (IF s[k + 1] = fn THEN 1 ELSE 0)
    BY <2>1, UsesStep
  <2>5. ASSUME NEW e \in T PROVE Cardinality(CallsUpTo(s, k, e)) \in Nat
    <3>1. PICK c \in Nat : c = Cardinality(CallsUpTo(s, k - 1, e))
      BY <2>2
    <3>2. \/ Cardinality(CallsUpTo(s, k, e)) = c + 1
          \/ Cardinality(CallsUpTo(s, k, e)) = c + 0
      BY <2>3, <3>1, Zenon
    <3>3. c + 1 \in Nat /\ c + 0 \in Nat
      OBVIOUS
    <3> QED
      BY <3>2, <3>3, Zenon
  <2>6. PICK g : g = G(k - 1)
    OBVIOUS
  <2>7. PICK h : h = G(k)
    OBVIOUS
  <2>8. \A e \in T : g[e] \in Nat /\
           h[e] = g[e] + (IF <<s[k + 1], s[k]>> = e THEN v ELSE 0)
    <3> SUFFICES ASSUME NEW e \in T
                 PROVE  g[e] \in Nat /\
                        h[e] = g[e] + (IF <<s[k + 1], s[k]>> = e THEN v ELSE 0)
      OBVIOUS
    <3>1. PICK c \in Nat : c = Cardinality(CallsUpTo(s, k - 1, e))
      BY <2>2
    <3>2. g[e] = EdgeTime(e) + v * c
      BY <2>6, <3>1, Zenon
    <3>3. h[e] = EdgeTime(e) + v * (c + (IF <<s[k + 1], s[k]>> = e THEN 1 ELSE 0))
      BY <2>3, <2>7, <3>1, Zenon
    <3>4. PICK a \in Nat : a = EdgeTime(e)
      BY <1>4
    <3>5. /\ a + v * c \in Nat
          /\ a + v * (c + 1) = (a + v * c) + v
          /\ a + v * (c + 0) = (a + v * c) + 0
      BY OneCallMore
    <3> QED
      BY <3>2, <3>3, <3>4, <3>5, Zenon
  <2>9. SumOf(h, T) = SumOf(g, T) + (IF s[k + 1] = fn THEN v ELSE 0)
    <3>1. CASE s[k + 1] = fn
      <4>1. PICK y : y = <<s[k + 1], s[k]>>
        OBVIOUS
      <4>2. y \in T
        BY <2>1, <3>1, <4>1 DEF T, Calls
      <4>3. h[y] = g[y] + v /\ \A e \in T \ {y} : h[e] = g[e]
        BY <2>8, <4>1, <4>2
      <4>4. \A e \in T : g[e] \in Nat
        BY <2>8
      <4>5. SumOf(h, T) = SumOf(g, T) + v
        BY <1>3, <4>2, <4>3, <4>4, SumBump
      <4> QED
        BY <3>1, <4>5
    <3>2. CASE s[k + 1] # fn
      <4>1. \A e \in T : g[e] = h[e]
        BY <2>8, <3>2 DEF T
      <4>2. SumOf(g, T) = SumOf(h, T)
        BY <1>3, <4>1, SumSame
      <4> QED
        BY <2>2, <2>6, <3>2, <4>2
    <3> QED
      BY <3>1, <3>2
  <2>10. PICK x \in Nat : x = SumOf(G(k - 1), T)
    BY <2>2
  <2>11. PICK u \in Nat : u = U(k - 1)
    BY <2>2
  <2>12. v * (u + 1) = v * u + v /\ v * (u + 0) = v * u /\ v * u \in Nat
    OBVIOUS
  <2>13. SumOf(G(k), T) = x + (IF s[k + 1] = fn THEN v ELSE 0)
    BY <2>6, <2>7, <2>9, <2>10, Zenon
  <2>14. x + self = SumOf(edges, R) + v * u
    BY <2>2, <2>10, <2>11
  <2>15. U(k) = u + (IF s[k + 1] = fn THEN 1 ELSE 0)
    BY <2>4, <2>11
  <2> HIDE DEF G, U
  <2>16. self \in Nat
    OBVIOUS
  <2> HIDE DEF self
  <2>17. U(k) \in Nat /\ SumOf(G(k), T) \in Nat
    BY <2>13, <2>15
  <2>18. SumOf(G(k), T) + self = SumOf(edges, R) + v * U(k)
    <3>1. PICK z \in Nat : z = SumOf(edges, R)
      BY <1>5
    <3>2. PICK w \in Nat : w = v * u
      BY <2>12
    <3>3. CASE s[k + 1] = fn
      <4>1. SumOf(G(k), T) = x + v /\ v * U(k) = w + v
        BY <2>12, <2>13, <2>15, <3>2, <3>3
      <4>2. x + self = z + w
        BY <2>14, <3>1, <3>2, Zenon
      <4>3. (x + v) + self = z + (w + v)
        <5>1. PICK m \in Nat : m = self
          BY <2>16
        <5>2. x + m = z + w
          BY <4>2, <5>1, Zenon
        <5>3. (x + v) + m = z + (w + v)
          BY <5>2, AddBoth
        <5> QED
          BY <5>1, <5>3, Zenon
      <4> QED
        BY <3>1, <4>1, <4>3, Zenon
    <3>4. CASE s[k + 1] # fn
      <4>1. SumOf(G(k), T) = x /\ v * U(k) = w
        BY <2>12, <2>13, <2>15, <3>2, <3>4
      <4> QED
        BY <2>14, <3>1, <3>2, <4>1
    <3> QED
      BY <3>3, <3>4
  <2> QED
    BY <2>1, <2>5, <2>17, <2>18, Zenon
<1>8. N \in Ok
  <2> HIDE DEF Ok
  <2>1. \A k \in 0..N : k \in Ok
    BY <1>1, <1>6, <1>7, UpTo
  <2> QED
    BY <1>1, <2>1
<1>9. SumOf(G(N), T) = SumOf(WithEdges(s, v), T)
  <2>1. PICK g : g = G(N)
    OBVIOUS
  <2>2. PICK h : h = WithEdges(s, v)
    OBVIOUS
  <2>3. \A e \in T : CallsUpTo(s, N, e) = {i \in 1..(Len(s) - 1) : <<s[i + 1], s[i]>> = e}
    BY DEF CallsUpTo, N
  <2>4. \A e \in T : g[e] = h[e]
    BY <2>1, <2>2, <2>3, Zenon DEF WithEdges, CallsOf, T
  <2>5. SumOf(g, T) = SumOf(h, T)
    BY <1>3, <2>4, SumSame
  <2> QED
    BY <2>1, <2>2, <2>5, Zenon
<1>10. U(N) = Occurrences(s, fn)
  <2>1. DOMAIN s = 1..(N + 1)
    BY DEF N
  <2> QED
    BY <2>1, Zenon DEF Occurrences, UsesUpTo
<1>11. /\ SumOf(G(N), T) \in Nat
       /\ SumOf(G(N), T) + self = SumOf(edges, R) + v * U(N)
  BY <1>8
<1>12. PICK x \in Nat : x = SumOf(edges, R)
  BY <1>5
<1>13. PICK y \in Nat : y = SumOf(WithEdges(s, v), T)
  BY <1>9, <1>11, Zenon
<1>14. y + self = x + v * Occurrences(s, fn)
  BY <1>9, <1>10, <1>11, <1>12, <1>13, Zenon
<1> QED
  BY <1>12, <1>13, <1>14, Zenon DEF T, R

-----------------------------------------------------------------------------
(* The call graph of a profile *)

NetworkInv ==
    /\ samples \in Seq(Samples)
    /\ totalTime \in Nat
    /\ time \in [Functions -> Nat]
    /\ selfTime \in [Functions -> Nat]
    /\ DOMAIN edges \subseteq Functions \X Functions
    /\ edges \in [DOMAIN edges -> Nat]
    /\ TimeIsAccountedFor

\* The sums of TimeIsAccountedFor.
LEMMA AccountedMeans ==
    TimeIsAccountedFor <=>
        /\ \A fn \in Functions :
              time[fn] = selfTime[fn] + SumOf(edges, {e \in DOMAIN edges : e[1] = fn})
        /\ SumOf(selfTime, Functions) = totalTime
  BY Zenon DEF TimeIsAccountedFor, Spent, SumOf

LEMMA AccountedNext ==
    TimeIsAccountedFor' <=>
        /\ \A fn \in Functions :
              time'[fn] = selfTime'[fn] + SumOf(edges', {e \in DOMAIN edges' : e[1] = fn})
        /\ SumOf(selfTime', Functions) = totalTime'
  BY DEF TimeIsAccountedFor, Spent, SumOf, MapThenSumSet, MapThenFoldSet

LEMMA EmptyAccounted ==
    ASSUME EmptyNetwork
    PROVE  TimeIsAccountedFor
<1>1. {e \in DOMAIN edges : e[1] = 0} = {} /\ DOMAIN edges = {}
  BY DEF EmptyNetwork
<1>2. ASSUME NEW fn \in Functions
      PROVE  time[fn] = selfTime[fn] + SumOf(edges, {e \in DOMAIN edges : e[1] = fn})
  <2>1. {e \in DOMAIN edges : e[1] = fn} = {}
    BY <1>1
  <2>2. SumOf(edges, {}) = 0
    BY SumEmpty
  <2>3. time[fn] = 0 /\ selfTime[fn] = 0
    BY DEF EmptyNetwork
  <2> QED
    BY <2>1, <2>2, <2>3
<1>3. SumOf(selfTime, Functions) = totalTime
  <2>1. \A fn \in Functions : selfTime[fn] = 0 /\ selfTime[fn] \in Nat
    BY DEF EmptyNetwork
  <2>2. PICK none \in SUBSET Functions : none = {}
    OBVIOUS
  <2>3. SumOf(selfTime, Functions) = SumOf(selfTime, none)
    BY <2>1, <2>2, ProfileAssumption, SumZeros
  <2>4. SumOf(selfTime, none) = 0
    BY <2>2, SumEmpty
  <2> QED
    BY <2>3, <2>4 DEF EmptyNetwork
<1> QED
  BY <1>2, <1>3, AccountedMeans

LEMMA NetworkInvInit == Init => NetworkInv
<1> SUFFICES ASSUME Init PROVE NetworkInv
  OBVIOUS
<1>1. EmptyNetwork /\ samples \in Seq(Samples)
  <2>1. <<>> \in Seq(Samples)
    OBVIOUS
  <2> QED
    BY <2>1, ProfileAssumption DEF Init, NoSamples, NetworkInit
<1>2. TimeIsAccountedFor
  BY <1>1, EmptyAccounted
<1>3. /\ totalTime \in Nat /\ time \in [Functions -> Nat]
      /\ selfTime \in [Functions -> Nat]
      /\ DOMAIN edges = {} /\ edges \in [DOMAIN edges -> Nat]
  BY <1>1 DEF EmptyNetwork
<1> QED
  BY <1>1, <1>2, <1>3 DEF NetworkInv

LEMMA AddSampleKeeps ==
    ASSUME NetworkInv, AddSample
    PROVE  NetworkInv'
<1>1. PICK s, v : s = Head(samples).stack /\ v = Head(samples).value
  OBVIOUS
<1>2. samples # <<>> /\ samples \in Seq(Samples)
  BY DEF AddSample, NetworkInv
<1>3. Head(samples) \in Samples /\ Tail(samples) \in Seq(Samples)
  BY <1>2
<1>4. s \in Seq(Functions) \ {<<>>} /\ v \in Nat
  BY <1>1, <1>3 DEF Samples
<1>5. s[1] \in Functions /\ \A i \in 1..Len(s) : s[i] \in Functions
  BY <1>4
<1>6. /\ totalTime' = totalTime + v
      /\ time' = [fn \in Functions |-> time[fn] + v * Occurrences(s, fn)]
      /\ selfTime' = [selfTime EXCEPT ![s[1]] = @ + v]
      /\ edges' = WithEdges(s, v)
      /\ samples' = Tail(samples)
  BY <1>1, Zenon DEF AddSample
<1>7. /\ totalTime \in Nat /\ time \in [Functions -> Nat]
      /\ selfTime \in [Functions -> Nat]
      /\ DOMAIN edges \subseteq Functions \X Functions
      /\ edges \in [DOMAIN edges -> Nat]
      /\ \A fn \in Functions :
            time[fn] = selfTime[fn] + SumOf(edges, {e \in DOMAIN edges : e[1] = fn})
      /\ SumOf(selfTime, Functions) = totalTime
  BY AccountedMeans DEF NetworkInv
<1>8. /\ DOMAIN edges' = DOMAIN edges \cup Calls(s)
      /\ DOMAIN edges' \subseteq Functions \X Functions
  <2>1. Calls(s) \subseteq Functions \X Functions
    BY <1>4, <1>5 DEF Calls
  <2> QED
    BY <1>6, <1>7, <2>1 DEF WithEdges
<1>9. edges' \in [DOMAIN edges' -> Nat]
  <2>1. ASSUME NEW e PROVE CallsOf(s, e) \in Nat
    <3>1. Len(s) - 1 \in Int
      BY <1>4
    <3>2. {i \in 1..(Len(s) - 1) : <<s[i + 1], s[i]>> = e} \in SUBSET (1..(Len(s) - 1))
      OBVIOUS
    <3> QED
      BY <3>1, <3>2, PositionsFinite DEF CallsOf
  <2>2. \A e : EdgeTime(e) \in Nat
    BY <1>7 DEF EdgeTime
  <2>3. \A e : EdgeTime(e) + v * CallsOf(s, e) \in Nat
    BY <1>4, <2>1, <2>2
  <2> QED
    BY <1>6, <2>3 DEF WithEdges
<1>10. ASSUME NEW fn \in Functions
       PROVE  /\ time'[fn] \in Nat /\ selfTime'[fn] \in Nat
              /\ time'[fn] = selfTime'[fn]
                    + SumOf(edges', {e \in DOMAIN edges' : e[1] = fn})
  <2>1. PICK x \in Nat, y \in Nat :
           /\ x = SumOf(edges, {e \in DOMAIN edges : e[1] = fn})
           /\ y = SumOf(WithEdges(s, v), {e \in DOMAIN edges \cup Calls(s) : e[1] = fn})
           /\ y + (IF s[1] = fn THEN v ELSE 0) = x + v * Occurrences(s, fn)
    BY <1>4, <1>7, StackTime
  <2>2. y = SumOf(edges', {e \in DOMAIN edges' : e[1] = fn})
    BY <1>6, <1>8, <2>1, Zenon
  <2>3. PICK d \in Nat : d = IF s[1] = fn THEN v ELSE 0
    BY <1>4
  <2>4. time'[fn] = time[fn] + v * Occurrences(s, fn) /\ time[fn] = selfTime[fn] + x
    BY <1>6, <1>7, <2>1
  <2>5. selfTime'[fn] = selfTime[fn] + d
    BY <1>4, <1>6, <1>7, <2>3
  <2>6. selfTime[fn] \in Nat
    BY <1>7
  <2>7. PICK o : o = v * Occurrences(s, fn)
    OBVIOUS
  <2>8. o \in Nat
    <3>1. DOMAIN s = 1..Len(s) /\ Len(s) \in Int
      BY <1>4
    <3>2. {i \in DOMAIN s : s[i] = fn} \in SUBSET (1..Len(s))
      BY <3>1
    <3>3. Occurrences(s, fn) \in Nat
      BY <3>1, <3>2, PositionsFinite DEF Occurrences
    <3> QED
      BY <1>4, <2>7, <3>3
  <2>9. y + d = x + o
    BY <2>1, <2>3, <2>7, Zenon
  <2>10. time'[fn] = selfTime[fn] + x + o
    BY <2>4, <2>7
  <2> QED
    BY <2>2, <2>5, <2>6, <2>8, <2>9, <2>10
<1>11. SumOf(selfTime', Functions) = totalTime'
  <2>1. \A fn \in Functions : selfTime[fn] \in Nat
    BY <1>7
  <2>2. PICK h : h = selfTime'
    OBVIOUS
  <2>3. h[s[1]] = selfTime[s[1]] + v /\ \A fn \in Functions \ {s[1]} : h[fn] = selfTime[fn]
    BY <1>5, <1>6, <1>7, <2>2
  <2>4. SumOf(h, Functions) = SumOf(selfTime, Functions) + v
    BY <1>4, <1>5, <2>1, <2>3, ProfileAssumption, SumBump
  <2> QED
    BY <1>6, <1>7, <2>2, <2>4
<1>12. TimeIsAccountedFor'
  BY <1>10, <1>11, AccountedNext
<1>13. /\ totalTime' \in Nat /\ time' \in [Functions -> Nat]
       /\ selfTime' \in [Functions -> Nat] /\ samples' \in Seq(Samples)
  <2>1. totalTime' \in Nat /\ samples' \in Seq(Samples)
    BY <1>3, <1>4, <1>6, <1>7
  <2>2. DOMAIN time' = Functions /\ time' = [fn \in Functions |-> time'[fn]]
    BY <1>6
  <2>3. selfTime' = [fn \in Functions |-> selfTime'[fn]]
    BY <1>6, <1>7
  <2> QED
    BY <1>10, <2>1, <2>2, <2>3
<1> QED
  BY <1>8, <1>9, <1>12, <1>13 DEF NetworkInv

\* The call graph of every profile, however deep the stacks and however
\* recursive the calls, accounts for the time of its samples.
THEOREM TimeAlwaysAccountedFor == Spec => []TimeIsAccountedFor
<1>1. NetworkInv /\ [Next]_vars => NetworkInv'
  <2> SUFFICES ASSUME NetworkInv, [Next]_vars PROVE NetworkInv'
    OBVIOUS
  <2>1. CASE UNCHANGED networkVars
    <3>1. UNCHANGED <<samples, totalTime, time, selfTime, edges>>
      BY <2>1 DEF networkVars
    <3>2. TimeIsAccountedFor'
      BY <3>1, AccountedMeans, AccountedNext DEF NetworkInv
    <3> QED
      BY <3>1, <3>2 DEF NetworkInv
  <2>2. CASE AddSample
    BY <2>2, AddSampleKeeps
  <2> QED
    BY <2>1, <2>2 DEF Next, vars
<1>2. NetworkInv => TimeIsAccountedFor
  BY DEF NetworkInv
<1> QED
  BY <1>1, <1>2, NetworkInvInit, PTL DEF Spec
=============================================================================
