------------------------------ MODULE TaskBars ------------------------------
(***************************************************************************)
(* Where Daisen's component view draws the tasks of a component.  A task   *)
(* whose parent is in the same component is drawn inside its bar, so the   *)
(* tasks form a forest under a virtual root; going down level by level,    *)
(* TaskYIndexAssigner gives the tasks of one parent rows so that no two in *)
(* a row overlap, and the height of a level is that of its parents divided *)
(* by the largest number of rows.  Heights are in units of 1/Unit pixel.   *)
(* A canvas that changes its size has the same tasks drawn again, and a    *)
(* task that is not reached this time keeps the dimensions it had.         *)
(***************************************************************************)
EXTENDS Integers, Sequences

CONSTANTS
    TaskLists,  \* the lists of tasks the server may answer with
    Heights,    \* heights of the canvas less its margins, in pixels
    Unit

\* The parent is an index, or 0 when it is not in the list.
ASSUME TaskBarsAssumption ==
    /\ Heights \subseteq Nat /\ Unit \in Nat
    /\ \A ts \in TaskLists :
        /\ ts \in Seq([start : Int, end : Int, parent : Nat])
        /\ \A i \in DOMAIN ts : ts[i].start <= ts[i].end

VARIABLES
    tasks,      \* ComponentView._tasks
    height,     \* the height of the bars of the level reached
    row,        \* task -> its yIndex, for those this rendering has given one
    dim,        \* bar -> its y and height, for those that have them
    placed,     \* the bars that have them from this rendering
    tallest     \* history: the height of the tallest canvas of these tasks

barVars == <<tasks, height, row, dim, placed, tallest>>

root == 0
marginTop == 5

-----------------------------------------------------------------------------
(* TaskYIndexAssigner *)

\* Mutant: a task that ends within the new one is not in its way.
ConflictMutant(t, u) ==
    \/ u.start < t.end /\ u.end >= t.end
    \/ t.start <= u.start /\ t.end >= u.end
    \/ t.start >= u.start /\ t.end <= u.end

\* _hasConflictWithAssignment, for one task u of the row.
Conflict(t, u) ==
    \/ u.start <= t.start /\ u.end > t.start
    \/ u.start < t.end /\ u.end >= t.end
    \/ t.start <= u.start /\ t.end >= u.end
    \/ t.start >= u.start /\ t.end <= u.end

Siblings(i) == {j \in DOMAIN tasks : tasks[j].parent = tasks[i].parent}

HasConflict(i, r) ==
    \E j \in Siblings(i) \cap DOMAIN row :
        row[j] = r /\ Conflict(tasks[i], tasks[j])

\* Mutant: the tasks are taken in the order they came in.
IsNextMutant(i) == \A j \in Siblings(i) \ DOMAIN row : i <= j

\* The tasks are sorted by their start, ties in the order they came in.
IsNext(i) ==
    \A j \in Siblings(i) \ DOMAIN row :
        \/ tasks[i].start < tasks[j].start
        \/ tasks[i].start = tasks[j].start /\ i <= j

-----------------------------------------------------------------------------
(* ComponentView *)

\* Mutant: tasks that have dimensions already are passed over.
BelowMutant == {i \in DOMAIN tasks : tasks[i].parent \in placed /\ i \notin DOMAIN dim}

\* rearrangeAsTree, getTasksAtLevel: the subtasks of the level reached.
Below == {i \in DOMAIN tasks : tasks[i].parent \in placed /\ i \notin placed}

\* assignDimension goes on while the bars are two pixels high.
GoesOn == height >= 2 * Unit /\ Below # {}

\* assign, for one task of the level: the first row without a conflict.
AssignRow(i, r) ==
    /\ GoesOn
    /\ i \in Below \ DOMAIN row /\ IsNext(i)
    /\ ~HasConflict(i, r)
    /\ \A q \in 0..(r - 1) : HasConflict(i, q)
    /\ row' = [j \in DOMAIN row \cup {i} |-> IF j = i THEN r ELSE row[j]]
    /\ UNCHANGED <<tasks, height, dim, placed, tallest>>

padTaskHeight(h) == IF h > 10 * Unit THEN (h * 4) \div 5 ELSE (h * 3) \div 5

\* assignDimensionLevel: all bars of the level are as high as its busiest
\* parent requires.
AssignLevel ==
    LET globalMaxY == CHOOSE m \in {row[i] : i \in Below} :
                        \A i \in Below : row[i] <= m
        taskHeight == height \div (globalMaxY + 1)
        padded == padTaskHeight(taskHeight)
    IN  /\ GoesOn /\ Below \subseteq DOMAIN row
        /\ height' = padded
        /\ placed' = placed \cup Below
        /\ dim' = [i \in DOMAIN dim \cup Below |->
                    IF i \notin Below THEN dim[i]
                    ELSE [y |-> taskHeight * row[i] + dim[tasks[i].parent].y
                                  + (taskHeight - padded) \div 2,
                          height |-> padded]]
        /\ UNCHANGED <<tasks, row, tallest>>

Canvas(h) == [y |-> marginTop * Unit, height |-> h * Unit]
NoRows == [i \in {} |-> 0]

\* render: the tasks of an answer come without dimensions.
BarsInit ==
    /\ tasks \in TaskLists
    /\ \E h \in Heights :
        /\ height = h * Unit /\ tallest = h * Unit
        /\ dim = [b \in {root} |-> Canvas(h)]
    /\ row = NoRows
    /\ placed = {root}

\* setCanvas, once there are tasks and they are drawn: _renderData once
\* more, of the same tasks.
setCanvas(h) ==
    /\ placed # {} /\ ~GoesOn
    /\ height' = h * Unit
    /\ tallest' = IF h * Unit > tallest THEN h * Unit ELSE tallest
    /\ dim' = [dim EXCEPT ![root] = Canvas(h)]
    /\ row' = NoRows
    /\ placed' = {root}
    /\ UNCHANGED tasks

BarsNext ==
    \/ \E i \in DOMAIN tasks : \E r \in 0..Len(tasks) : AssignRow(i, r)
    \/ AssignLevel
    \/ \E h \in Heights : setCanvas(h)

BarsSpec == BarsInit /\ [][BarsNext]_barVars

-----------------------------------------------------------------------------
(* Properties *)

\* Two tasks that are under way at the same time are never in the same row
\* of their parent, whatever the order and the lengths of the tasks.
Overlap(t, u) == t.start < u.end /\ u.start < t.end
NoOverlap ==
    \A i \in DOMAIN row : \A j \in DOMAIN row :
        i # j /\ j \in Siblings(i) /\ row[i] = row[j]
          => ~Overlap(tasks[i], tasks[j])

\* No row is wasted: when a task is on row r, each of the r rows before it
\* has a sibling that is under way at the start of the task, or that ends
\* there, when one of the two takes no time.
TakesNoTime(t) == t.start = t.end
InTheWay(t, u) ==
    /\ u.start <= t.start
    /\ \/ t.start < u.end
       \/ t.start = u.end /\ (TakesNoTime(t) \/ TakesNoTime(u))
RowsAreNeeded ==
    \A i \in DOMAIN row : \A q \in 0..(row[i] - 1) :
        \E j \in Siblings(i) \cap DOMAIN row :
            j # i /\ row[j] = q /\ InTheWay(tasks[i], tasks[j])

\* A bar placed by the last rendering lies within the bar of its parent, and
\* bars of tasks under way at the same time in the same parent do not cover
\* each other, whatever was drawn on canvases of other sizes before.
BarsNest ==
    \A i \in placed \ {root} :
        LET p == dim[tasks[i].parent] IN
        /\ p.y <= dim[i].y /\ dim[i].y + dim[i].height <= p.y + p.height
        /\ \A j \in (Siblings(i) \cap placed) \ {i} :
            Overlap(tasks[i], tasks[j]) =>
                \/ dim[i].y + dim[i].height <= dim[j].y
                \/ dim[j].y + dim[j].height <= dim[i].y

\* Bars of a former rendering, which need not nest (_filterTasks lets them
\* pass), are left over only when the canvas has been taller than it is.
LeftoversNeedShrinking ==
    placed # {} /\ ~GoesOn /\ dim[root].height = tallest => DOMAIN dim = placed
=============================================================================
