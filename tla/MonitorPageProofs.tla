-------------------------- MODULE MonitorPageProofs --------------------------
(***************************************************************************)
(* The page of AkitaRTM, its frame and its panes.                          *)
(*                                                                         *)
(* The frame, for every window, every pointer, every number of charts and  *)
(* of progress bars: ChartsAgree rests on the list of widgets never naming *)
(* a chart twice and on charts being numbered in the order they are made;  *)
(* FrameFills on every element being of the current mode, so that a redraw *)
(* that skips the adjustment takes the same room.                          *)
(*                                                                         *)
(* The panes, for any components, fields, links and reports: the three     *)
(* invariants are inductive once the values are typed and a diagram in the *)
(* right pane is known to be of a view that was made.                      *)
(***************************************************************************)
EXTENDS MonitorLayout, InspectPanes, SequenceTheorems, FiniteSetTheorems,
        WellFoundedInduction, TLAPS

-----------------------------------------------------------------------------
(* The charts *)

Chart == [title : Titles, dom : BOOLEAN, timer : BOOLEAN]

\* widgets is a list of charts without repetitions.
Listed(ws, n) ==
    /\ ws \in Seq(1..n)
    /\ \A j \in 1..Len(ws) : \A k \in 1..Len(ws) : ws[j] = ws[k] => j = k

ChartsInv ==
    /\ \E n \in Nat : charts \in [1..n -> Chart] /\ Listed(widgets, n)
    /\ ChartsAgree

\* Range, for a sequence.
LEMMA InRangeOfSeq ==
    ASSUME NEW S, NEW s \in Seq(S), NEW x
    PROVE  x \in Range(s) <=> \E k \in 1..Len(s) : s[k] = x
<1>1. DOMAIN s = 1..Len(s)
  BY LenProperties
<1> QED
  BY <1>1 DEF Range

\* RemoveAt takes one element out of a list without repetitions.
LEMMA RemoveAtTakesOne ==
    ASSUME NEW n \in Nat, NEW s, Listed(s, n), NEW k \in 1..Len(s)
    PROVE  /\ Listed(RemoveAt(s, k), n)
           /\ \A x : x \in Range(RemoveAt(s, k)) <=> x \in Range(s) /\ x # s[k]
<1> DEFINE r == RemoveAt(s, k)
           at(i) == IF i < k THEN i ELSE i + 1
<1>1. PICK l \in Nat : l = Len(s) /\ k \in 1..l /\ s \in Seq(1..n)
  BY LenProperties DEF Listed
<1>2. /\ r \in Seq(1..n)
      /\ Len(r) = l - 1
      /\ \A i \in 1..(l - 1) : r[i] = s[at(i)]
  <2> DEFINE a == SubSeq(s, 1, k - 1)
             b == SubSeq(s, k + 1, l)
  <2>1. /\ a \in Seq(1..n) /\ Len(a) = k - 1
        /\ \A i \in 1..(k - 1) : a[i] = s[i]
    <3>1. \A i \in 1..(k - 1) : i \in 1..Len(s)
      BY <1>1
    <3> QED
      BY <1>1, <3>1
  <2>2. /\ b \in Seq(1..n) /\ Len(b) = l - k
        /\ \A i \in 1..(l - k) : b[i] = s[k + i]
    <3>1. \A i \in (k + 1)..l : i \in 1..Len(s)
      BY <1>1
    <3> QED
      BY <1>1, <3>1
  <2>3. r = a \o b
    BY <1>1 DEF RemoveAt
  <2> HIDE DEF a, b, r
  <2>4. /\ a \o b \in Seq(1..n) /\ Len(a \o b) = Len(a) + Len(b)
        /\ \A i \in 1..(Len(a) + Len(b)) :
             (a \o b)[i] = IF i <= Len(a) THEN a[i] ELSE b[i - Len(a)]
    BY <2>1, <2>2, ConcatProperties
  <2>5. Len(a) + Len(b) = l - 1
    BY <1>1, <2>1, <2>2
  <2>6. /\ r \in Seq(1..n) /\ Len(r) = l - 1
        /\ \A i \in 1..(l - 1) :
             r[i] = IF i <= k - 1 THEN a[i] ELSE b[i - (k - 1)]
    BY <2>1, <2>3, <2>4, <2>5
  <2>7. ASSUME NEW i \in 1..(l - 1)
        PROVE  r[i] = s[at(i)]
    <3>1. i \in Int /\ k \in Int
      BY <1>1
    <3>2. CASE i < k
      <4>1. i \in 1..(k - 1)
        BY <3>1, <3>2
      <4>2. r[i] = a[i]
        BY <4>1, <2>6
      <4> QED
        BY <3>2, <4>1, <4>2, <2>1
    <3>3. CASE ~(i < k)
      <4>1. i - (k - 1) \in 1..(l - k) /\ k + (i - (k - 1)) = i + 1
        BY <3>1, <3>3, <1>1
      <4>2. ~(i <= k - 1)
        BY <3>1, <3>3
      <4>3. r[i] = b[i - (k - 1)]
        BY <4>2, <2>6
      <4>4. b[i - (k - 1)] = s[i + 1]
        BY <4>1, <2>2
      <4> QED
        BY <3>3, <4>3, <4>4
    <3> QED
      BY <3>2, <3>3
  <2> QED
    BY <2>6, <2>7
<1> HIDE DEF r
<1>3. \A i \in 1..(l - 1) : at(i) \in 1..l /\ at(i) # k
  BY <1>1
<1>4. \A i \in 1..(l - 1) : \A j \in 1..(l - 1) : at(i) = at(j) => i = j
  BY <1>1
<1>5. \A j \in 1..l : j # k => \E i \in 1..(l - 1) : at(i) = j
  <2> SUFFICES ASSUME NEW j \in 1..l, j # k
               PROVE  \E i \in 1..(l - 1) : at(i) = j
    OBVIOUS
  <2>1. CASE j < k
    <3>1. j \in 1..(l - 1) /\ at(j) = j
      BY <2>1, <1>1
    <3> QED
      BY <3>1
  <2>2. CASE j > k
    <3>1. j - 1 \in 1..(l - 1) /\ at(j - 1) = j
      BY <2>2, <1>1
    <3> QED
      BY <3>1
  <2> QED
    BY <2>1, <2>2, <1>1
<1> HIDE DEF at
<1>6. \A i \in 1..l : \A j \in 1..l : s[i] = s[j] => i = j
  BY <1>1 DEF Listed
<1>7. Listed(r, n)
  <2>1. \A i \in 1..(l - 1) : \A j \in 1..(l - 1) : r[i] = r[j] => i = j
    BY <1>2, <1>3, <1>4, <1>6
  <2> QED
    BY <1>2, <2>1 DEF Listed
<1>8. ASSUME NEW x
      PROVE  x \in Range(r) <=> x \in Range(s) /\ x # s[k]
  <2>1. x \in Range(r) <=> \E i \in 1..(l - 1) : r[i] = x
    BY <1>2, InRangeOfSeq
  <2>2. x \in Range(s) <=> \E j \in 1..l : s[j] = x
    BY <1>1, InRangeOfSeq
  <2>3. \A j \in 1..l : s[j] = s[k] <=> j = k
    BY <1>1, <1>6
  <2>4. (\E i \in 1..(l - 1) : r[i] = x) <=> \E j \in 1..l : j # k /\ s[j] = x
    BY <1>2, <1>3, <1>5
  <2> QED
    BY <2>1, <2>2, <2>3, <2>4
<1> QED
  BY <1>7, <1>8 DEF r

\* getWidget finds a widget of the list, or nothing.
LEMMA GetWidgetFinds ==
    ASSUME NEW n \in Nat, Listed(widgets, n), NEW t
    PROVE  getWidget(t) = 0 \/ getWidget(t) \in 1..Len(widgets)
<1> DEFINE I == {i \in 1..Len(widgets) : charts[widgets[i]].title = t}
<1>1. getWidget(t) = IF I # {} THEN Min(I) ELSE 0
  BY DEF getWidget, SelectInSeq
<1>2. Len(widgets) \in Nat
  BY LenProperties DEF Listed
<1>3. I \subseteq 1..Len(widgets)
  OBVIOUS
<1>4. I \in SUBSET Nat
  BY <1>2, <1>3
<1> HIDE DEF I
<1>5. ASSUME I # {} PROVE Min(I) \in I
  <2>1. IsWellFoundedOn(OpToRel(<, Nat), Nat)
    BY NatLessThanWellFounded
  <2>2. PICK x \in I : \A y \in I : ~ (<<y, x>> \in OpToRel(<, Nat))
    BY <1>4, <1>5, <2>1, WFMin
  <2>3. \A y \in I : ~(y < x)
    BY <1>4, <2>2 DEF OpToRel
  <2>4. \A y \in I : x <= y
    BY <1>4, <2>3
  <2> QED
    BY <2>4 DEF Min
<1> QED
  BY <1>1, <1>3, <1>5

\* removeWidget takes the chart it found out of the page and of the list,
\* and stops its timer.
LEMMA RemoveWidgetKeepsCharts ==
    ASSUME ChartsInv, NEW t, removeWidget(t)
    PROVE  ChartsInv'
<1>1. PICK n \in Nat : charts \in [1..n -> Chart] /\ Listed(widgets, n)
  BY DEF ChartsInv
<1>2. CASE UNCHANGED <<widgets, charts>>
  BY <1>2 DEF ChartsInv, ChartsAgree
<1>3. CASE getWidget(t) # 0
  <2> DEFINE k == getWidget(t)
             id == widgets[k]
  <2>1. k \in 1..Len(widgets)
    BY <1>1, <1>3, GetWidgetFinds
  <2>2. /\ charts' = [charts EXCEPT ![id].dom = FALSE, ![id].timer = FALSE]
        /\ widgets' = RemoveAt(widgets, k)
    BY <1>3 DEF removeWidget
  <2> HIDE DEF k
  <2>3. id \in 1..n
    BY <1>1, <2>1, ElementOfSeq DEF Listed
  <2>4. /\ Listed(widgets', n)
        /\ \A x : x \in Range(widgets') <=> x \in Range(widgets) /\ x # id
    BY <1>1, <2>1, <2>2, RemoveAtTakesOne
  <2> HIDE DEF id
  <2>5. /\ charts' \in [1..n -> Chart]
        /\ charts'[id].dom = FALSE /\ charts'[id].timer = FALSE
        /\ \A i \in 1..n : i # id => charts'[i] = charts[i]
    BY <1>1, <2>2, <2>3 DEF Chart
  <2>6. ChartsAgree'
    <3> SUFFICES ASSUME NEW i \in 1..n
                 PROVE  /\ charts'[i].dom <=> i \in Range(widgets')
                        /\ charts'[i].timer <=> i \in Range(widgets')
      BY <2>5 DEF ChartsAgree
    <3>1. CASE i = id
      BY <3>1, <2>4, <2>5
    <3>2. CASE i # id
      <4>1. /\ charts[i].dom <=> i \in Range(widgets)
            /\ charts[i].timer <=> i \in Range(widgets)
        BY <1>1 DEF ChartsInv, ChartsAgree
      <4> QED
        BY <3>2, <4>1, <2>4, <2>5
    <3> QED
      BY <3>1, <3>2
  <2> QED
    BY <2>4, <2>5, <2>6 DEF ChartsInv
<1> QED
  BY <1>2, <1>3 DEF removeWidget

\* addWidget makes a chart with a number of its own.
LEMMA AddWidgetKeepsCharts ==
    ASSUME ChartsInv, NEW t \in Titles, addWidget(t)
    PROVE  ChartsInv'
<1>1. PICK n \in Nat : charts \in [1..n -> Chart] /\ Listed(widgets, n)
  BY DEF ChartsInv
<1>2. Cardinality(DOMAIN charts) = n
  <2>1. DOMAIN charts = 1..n
    BY <1>1
  <2>2. Cardinality(1..n) = IF 1 > n THEN 0 ELSE n - 1 + 1
    BY FS_Interval
  <2> QED
    BY <2>1, <2>2
<1> DEFINE id == n + 1
<1>3. /\ charts' = [i \in 1..n \cup {id} |->
                        IF i = id
                        THEN [title |-> t, dom |-> TRUE, timer |-> TRUE]
                        ELSE charts[i]]
      /\ widgets' = Append(widgets, id)
  BY <1>1, <1>2 DEF addWidget
<1>4. 1..n \cup {id} = 1..(n + 1)
  OBVIOUS
<1>5. /\ charts' \in [1..(n + 1) -> Chart]
      /\ charts'[id].dom = TRUE /\ charts'[id].timer = TRUE
      /\ \A i \in 1..n : charts'[i] = charts[i]
  BY <1>1, <1>3, <1>4 DEF Chart
<1>6. /\ widgets \in Seq(1..n) /\ Len(widgets) \in Nat
      /\ \A k \in 1..Len(widgets) : widgets[k] \in 1..n
  BY <1>1, LenProperties, ElementOfSeq DEF Listed
<1>7. widgets \in Seq(1..(n + 1))
  <2>1. 1..n \subseteq 1..(n + 1)
    OBVIOUS
  <2>2. \A k \in 1..Len(widgets) : widgets[k] \in 1..(n + 1)
    BY <2>1, <1>6
  <2>3. widgets \in [1..Len(widgets) -> 1..n]
    BY <1>6, LenProperties
  <2>4. widgets \in [1..Len(widgets) -> 1..(n + 1)]
    BY <2>1, <2>3
  <2> QED
    BY <1>6, <2>4, SeqDef
<1>8. /\ widgets' \in Seq(1..(n + 1)) /\ Len(widgets') = Len(widgets) + 1
      /\ \A k \in 1..Len(widgets) : widgets'[k] = widgets[k]
      /\ widgets'[Len(widgets) + 1] = id
  BY <1>3, <1>7, AppendProperties
<1> HIDE DEF id
<1>9. Listed(widgets', n + 1)
  <2> SUFFICES ASSUME NEW j \in 1..Len(widgets'), NEW k \in 1..Len(widgets'),
                      widgets'[j] = widgets'[k]
               PROVE  j = k
    BY <1>8 DEF Listed
  <2>1. id \notin 1..n
    BY DEF id
  <2>2. CASE j \in 1..Len(widgets) /\ k \in 1..Len(widgets)
    BY <2>2, <1>1, <1>8 DEF Listed
  <2>3. \A i \in 1..Len(widgets') : i \in 1..Len(widgets) \/ i = Len(widgets) + 1
    BY <1>6, <1>8
  <2>4. \A i \in 1..Len(widgets) : widgets'[i] # id
    BY <2>1, <1>6, <1>8
  <2> QED
    BY <2>2, <2>3, <2>4, <1>8
<1>10. \A x : x \in Range(widgets') <=> x \in Range(widgets) \/ x = id
  <2> SUFFICES ASSUME NEW x
               PROVE  x \in Range(widgets') <=> x \in Range(widgets) \/ x = id
    OBVIOUS
  <2>1. x \in Range(widgets') <=> \E k \in 1..Len(widgets') : widgets'[k] = x
    BY <1>8, InRangeOfSeq
  <2>2. x \in Range(widgets) <=> \E k \in 1..Len(widgets) : widgets[k] = x
    BY <1>6, InRangeOfSeq
  <2>3. /\ 1..Len(widgets') = 1..Len(widgets) \cup {Len(widgets) + 1}
    BY <1>6, <1>8
  <2> QED
    BY <2>1, <2>2, <2>3, <1>8
<1>11. ChartsAgree'
  <2> SUFFICES ASSUME NEW i \in 1..(n + 1)
               PROVE  /\ charts'[i].dom <=> i \in Range(widgets')
                      /\ charts'[i].timer <=> i \in Range(widgets')
    BY <1>5 DEF ChartsAgree
  <2>1. CASE i = id
    BY <2>1, <1>5, <1>10
  <2>2. CASE i \in 1..n
    <3>1. /\ charts[i].dom <=> i \in Range(widgets)
          /\ charts[i].timer <=> i \in Range(widgets)
      BY <2>2, <1>1 DEF ChartsInv, ChartsAgree
    <3>2. i # id
      BY <2>2 DEF id
    <3> QED
      BY <2>2, <3>1, <3>2, <1>5, <1>10
  <2> QED
    BY <2>1, <2>2, <1>4
<1> QED
  BY <1>5, <1>9, <1>11 DEF ChartsInv

LEMMA ChartsInvariant == FrameSpec => []ChartsInv
<1>1. FrameInit => ChartsInv
  <2> SUFFICES ASSUME FrameInit PROVE ChartsInv
    OBVIOUS
  <2>1. widgets = <<>> /\ charts = <<>>
    BY DEF FrameInit
  <2>2. charts \in [1..0 -> Chart] /\ Listed(widgets, 0)
    BY <2>1 DEF Listed
  <2>3. ChartsAgree
    BY <2>1 DEF ChartsAgree
  <2> QED
    BY <2>2, <2>3 DEF ChartsInv
<1>2. ChartsInv /\ [FrameNext]_frameVars => ChartsInv'
  <2> SUFFICES ASSUME ChartsInv, [FrameNext]_frameVars PROVE ChartsInv'
    OBVIOUS
  <2>1. CASE UNCHANGED <<widgets, charts>>
    BY <2>1 DEF ChartsInv, ChartsAgree
  <2>2. ASSUME NEW t \in Titles, toggleFlag(t) PROVE ChartsInv'
    BY <2>2, AddWidgetKeepsCharts, RemoveWidgetKeepsCharts DEF toggleFlag
  <2>3. ASSUME NEW id \in DOMAIN charts, CloseWidget(id) PROVE ChartsInv'
    BY <2>3, RemoveWidgetKeepsCharts DEF CloseWidget
  <2> QED
    BY <2>1, <2>2, <2>3
    DEF FrameNext, frameVars, widgetVars, MouseDown, MouseMove, MouseUp, WindowResize,
        showComponent, CreateProgressBar, CompleteProgressBar,
        refreshProgressBars, ProgressAnswered, Removed
<1> QED
  BY <1>1, <1>2, PTL DEF FrameSpec

\* The charts in the page, in the monitor's list and polling the simulation
\* are the same, however many charts of a field are opened and closed.
THEOREM ChartsAlwaysAgree == FrameSpec => []ChartsAgree
BY ChartsInvariant, PTL DEF ChartsInv

-----------------------------------------------------------------------------
(* The frame *)

Kinds == {"bar", "pie"}

\* The fields of UIManager.
FrameFields == [main : Int, monitor : Int, left : Int, right : Int,
                dragging : SUBSET Dividers]

\* Of the elements in the document, all are of the current mode.
FrameInv ==
    /\ win \in Int
    /\ ui \in FrameFields
    /\ IsFiniteSet(DOMAIN doms)
    /\ mode \in Kinds
    /\ \A i \in DOMAIN doms : doms[i] = mode
    /\ fading \in [Kinds -> Nat]

USE DEF FrameFields

OfKind(S, d, k) == {i \in S : d[i] = k}

\* The height of the progress bars is a function of two counts.
OffsetOf(b, p) == 11 + 24 * b + (IF p > 0 THEN 50 ELSE 0)

LEMMA OffsetCounts ==
    ASSUME NEW d, NEW f
    PROVE  OffsetHeight(d, f) =
             OffsetOf(Cardinality(OfKind(DOMAIN d, d, "bar")) + f["bar"],
                      Cardinality(OfKind(DOMAIN d, d, "pie")) + f["pie"])
BY DEF OffsetHeight, OffsetOf, OfKind

LEMMA OffsetTyped ==
    ASSUME NEW d, IsFiniteSet(DOMAIN d), NEW f \in [Kinds -> Nat]
    PROVE  OffsetHeight(d, f) \in Int
<1>1. ASSUME NEW k
      PROVE  Cardinality(OfKind(DOMAIN d, d, k)) \in Nat
  <2>1. OfKind(DOMAIN d, d, k) \in SUBSET (DOMAIN d)
    BY DEF OfKind
  <2>2. IsFiniteSet(OfKind(DOMAIN d, d, k))
    BY <2>1, FS_Subset
  <2> QED
    BY <2>2, FS_CardinalityType
<1>2. f["bar"] \in Nat /\ f["pie"] \in Nat
  BY DEF Kinds
<1>3. \A b \in Nat : \A p \in Nat : OffsetOf(b, p) \in Int
  BY DEF OffsetOf
<1>4. /\ Cardinality(OfKind(DOMAIN d, d, "bar")) + f["bar"] \in Nat
      /\ Cardinality(OfKind(DOMAIN d, d, "pie")) + f["pie"] \in Nat
  BY <1>1, <1>2
<1> QED
  BY <1>3, <1>4, OffsetCounts

\* renderProgress skips the adjustment only when every element of the list
\* is kept: what is removed then still takes its room.
LEMMA KeptTakesSameRoom ==
    ASSUME FrameInv, NEW list, renderProgress(list),
           NEW m \in Kinds, m = ModeFor(list),
           NEW kept, kept = IF m # mode THEN {} ELSE DOMAIN doms \cap list,
           list \subseteq kept
    PROVE  OffsetHeight(doms, fading)' = OffsetHeight(doms, fading)
<1>1. /\ doms' = [i \in list |-> m]
      /\ fading' = [k \in DOMAIN fading |-> fading[k]
             + [l \in Kinds |-> Cardinality({i \in DOMAIN doms \ kept : doms[i] = l})][k]]
  BY DEF renderProgress, Kinds
<1>2. DOMAIN fading = Kinds /\ fading["bar"] \in Nat /\ fading["pie"] \in Nat
  BY DEF FrameInv, Kinds
<1>3. \A k \in Kinds :
        fading'[k] = fading[k] + Cardinality(OfKind(DOMAIN doms \ kept, doms, k))
  BY <1>1, <1>2 DEF OfKind
<1>4. \A k : OfKind(DOMAIN doms', doms', k) = OfKind(kept, doms, k)
  <2>1. CASE m # mode
    BY <2>1, <1>1 DEF OfKind
  <2>2. CASE m = mode
    <3>1. kept = list /\ kept \subseteq DOMAIN doms
      BY <2>2
    <3>2. \A i \in kept : doms'[i] = doms[i]
      BY <2>2, <3>1, <1>1 DEF FrameInv
    <3>3. DOMAIN doms' = kept
      BY <3>1, <1>1
    <3> QED
      BY <3>2, <3>3 DEF OfKind
  <2> QED
    BY <2>1, <2>2
<1>5. ASSUME NEW k
      PROVE  /\ Cardinality(OfKind(DOMAIN doms, doms, k))
                  = Cardinality(OfKind(kept, doms, k))
                      + Cardinality(OfKind(DOMAIN doms \ kept, doms, k))
             /\ Cardinality(OfKind(kept, doms, k)) \in Nat
             /\ Cardinality(OfKind(DOMAIN doms \ kept, doms, k)) \in Nat
  <2> DEFINE A == OfKind(kept, doms, k)
             B == OfKind(DOMAIN doms \ kept, doms, k)
  <2>1. A \in SUBSET (DOMAIN doms) /\ B \in SUBSET (DOMAIN doms)
    BY DEF OfKind
  <2>2. A \cup B = OfKind(DOMAIN doms, doms, k) /\ A \cap B = {}
    BY DEF OfKind
  <2> HIDE DEF A, B
  <2>3. IsFiniteSet(A) /\ IsFiniteSet(B)
    <3>1. IsFiniteSet(DOMAIN doms)
      BY DEF FrameInv
    <3> QED
      BY <2>1, <3>1, FS_Subset
  <2>4. Cardinality(A) \in Nat /\ Cardinality(B) \in Nat
    BY <2>3, FS_CardinalityType
  <2>5. Cardinality(A \cup B) = Cardinality(A) + Cardinality(B) - Cardinality(A \cap B)
    BY <2>3, FS_Union
  <2>6. Cardinality(A \cap B) = 0
    BY <2>2, FS_EmptySet
  <2>7. Cardinality(A \cup B) = Cardinality(A) + Cardinality(B)
    BY <2>4, <2>5, <2>6
  <2> QED
    BY <2>2, <2>4, <2>7 DEF A, B
<1>6. ASSUME NEW k \in Kinds
      PROVE  Cardinality(OfKind(DOMAIN doms', doms', k)) + fading'[k]
               = Cardinality(OfKind(DOMAIN doms, doms, k)) + fading[k]
  <2>1. fading[k] \in Nat
    BY <1>2 DEF Kinds
  <2>2. fading'[k] = fading[k] + Cardinality(OfKind(DOMAIN doms \ kept, doms, k))
    BY <1>3
  <2>3. Cardinality(OfKind(DOMAIN doms', doms', k)) = Cardinality(OfKind(kept, doms, k))
    BY <1>4
  <2>4. /\ Cardinality(OfKind(DOMAIN doms, doms, k))
             = Cardinality(OfKind(kept, doms, k))
                 + Cardinality(OfKind(DOMAIN doms \ kept, doms, k))
        /\ Cardinality(OfKind(kept, doms, k)) \in Nat
        /\ Cardinality(OfKind(DOMAIN doms \ kept, doms, k)) \in Nat
    BY <1>5
  <2> QED
    BY <2>1, <2>2, <2>3, <2>4
<1>7. OffsetHeight(doms', fading') = OffsetHeight(doms, fading)
  BY <1>6, OffsetCounts DEF Kinds
<1> QED
  BY <1>7 DEF OffsetHeight

\* A handler that gives the main container what the others leave fills the
\* window.
LEMMA LayoutFills ==
    ASSUME NEW h \in Int, NEW off \in Int, NEW main \in Int, NEW monitor \in Int,
           main = MainHeight(h, monitor, off)
    PROVE  navBarHeight + main + horizontalDividerHeight + monitor + off = h
BY DEF MainHeight, navBarHeight, horizontalDividerHeight

\* What a resize leaves of fields that are not negative.
LEMMA SetLayoutShows ==
    ASSUME NEW u, u.main \in Int, u.monitor \in Int, u.main >= 0, u.monitor >= 0,
           SetLayout(u)
    PROVE  style'.main = u.main /\ style'.monitor = u.monitor
BY DEF SetLayout, Resized, Length

LEMMA DragTyped ==
    ASSUME FrameInv, NEW p \in Positions
    PROVE  DragHorizontal(DragVertical(ui, p[1]), p[2])
             \in FrameFields
<1>1. p[1] \in Int /\ p[2] \in Int /\ WindowWidth \in Int
  BY LayoutAssumption
<1>2. OffsetHeight(doms, fading) \in Int /\ win \in Int
  BY OffsetTyped DEF FrameInv
<1>3. DragVertical(ui, p[1])
        \in FrameFields
  <2>1. p[1] - verticalDividerWidth \div 2 \in Int
    BY <1>1 DEF verticalDividerWidth
  <2>2. WindowWidth - p[1] - verticalDividerWidth \div 2 \in Int
    BY <1>1 DEF verticalDividerWidth
  <2> QED
    BY <2>1, <2>2 DEF FrameInv, DragVertical
<1>4. MainHeight(win, 0, OffsetHeight(doms, fading)) \in Int
  BY <1>2 DEF MainHeight, navBarHeight, horizontalDividerHeight
<1>5. p[2] - navBarHeight - horizontalDividerHeight \div 2 \in Int
  BY <1>1 DEF navBarHeight, horizontalDividerHeight
<1>6. ASSUME NEW x \in Int, NEW y \in Int,
             NEW u \in FrameFields
      PROVE  [u EXCEPT !.monitor = x, !.main = y]
               \in FrameFields
  OBVIOUS
<1> DEFINE main == p[2] - navBarHeight - horizontalDividerHeight \div 2
           max == MainHeight(win, 0, OffsetHeight(doms, fading))
           new == IF main > max THEN max ELSE main
<1>7. max - main \in Int /\ new \in Int
  BY <1>4, <1>5
<1> HIDE DEF main, max, new
<1>8. [DragVertical(ui, p[1]) EXCEPT !.monitor = max - main, !.main = new]
        \in FrameFields
  BY <1>3, <1>6, <1>7
<1> QED
  BY <1>3, <1>8 DEF DragHorizontal, main, max, new

\* The height of the charts is what the pointer leaves them: together with
\* the main container they take what the rest does not.
LEMMA MouseMoveFills ==
    ASSUME FrameInv, NEW p \in Positions, MouseMove(p),
           Frame' # Frame, ui'.monitor >= 0, ui'.main >= 0
    PROVE  TotalHeight' = win
<1> DEFINE v == DragVertical(ui, p[1])
           off == OffsetHeight(doms, fading)
           main == p[2] - navBarHeight - horizontalDividerHeight \div 2
           max == MainHeight(win, 0, off)
<1>1. /\ ui' = DragHorizontal(v, p[2])
      /\ SetLayout(DragHorizontal(v, p[2]))
      /\ doms' = doms /\ fading' = fading
  BY DEF MouseMove, SetLayout, progressVars
<1>2. off \in Int /\ win \in Int /\ p[2] \in Int
  BY OffsetTyped, LayoutAssumption DEF FrameInv
<1>3. OffsetHeight(doms, fading)' = off
  BY <1>1
<1>4. v.main = ui.main /\ v.monitor = ui.monitor /\ v.dragging = ui.dragging
  BY DEF DragVertical, FrameInv
<1>5. ui' \in FrameFields
  BY <1>1, DragTyped
<1>6. "monitor" \in v.dragging
  <2> SUFFICES ASSUME "monitor" \notin v.dragging PROVE FALSE
    OBVIOUS
  <2>1. ui' = v
    BY <1>1 DEF DragHorizontal
  <2> QED
    BY <2>1, <1>3, <1>4 DEF Frame
<1>7. ui' = [v EXCEPT !.monitor = max - main,
                      !.main = IF main > max THEN max ELSE main]
  BY <1>1, <1>6 DEF DragHorizontal
<1>8. v \in FrameFields
  <2>1. p[1] - verticalDividerWidth \div 2 \in Int
    BY LayoutAssumption DEF verticalDividerWidth
  <2>2. WindowWidth - p[1] - verticalDividerWidth \div 2 \in Int
    BY LayoutAssumption DEF verticalDividerWidth
  <2> QED
    BY <2>1, <2>2 DEF FrameInv, DragVertical
<1>9. /\ ui'.monitor = max - main
      /\ ui'.main = IF main > max THEN max ELSE main
  BY <1>7, <1>8
<1>10. main \in Int /\ max \in Int /\ max = win - 62 - off
  BY <1>2 DEF MainHeight, navBarHeight, horizontalDividerHeight
<1> HIDE DEF main, max, v, off
<1>11. style'.main = ui'.main /\ style'.monitor = ui'.monitor
  BY <1>1, <1>5, SetLayoutShows
<1>12. ui'.main = main
  BY <1>9, <1>10
<1>13. 56 + style'.main + 6 + style'.monitor + off = win
  BY <1>2, <1>9, <1>10, <1>11, <1>12
<1> QED
  BY <1>3, <1>13 DEF TotalHeight, navBarHeight, horizontalDividerHeight

\* A handler that sets the height of the main container from the others'.
LEMMA AdjustFills ==
    ASSUME win \in Int, NEW u, u.main \in Int, u.monitor \in Int, SetLayout(u),
           NEW off \in Int, OffsetHeight(doms, fading)' = off,
           u.main = MainHeight(win, u.monitor, off),
           ui'.monitor >= 0, ui'.main >= 0
    PROVE  TotalHeight' = win
<1>1. ui' = u
  BY DEF SetLayout
<1>2. style'.main = u.main /\ style'.monitor = u.monitor
  BY <1>1, SetLayoutShows
<1>3. navBarHeight + u.main + horizontalDividerHeight + u.monitor + off = win
  BY LayoutFills
<1> QED
  BY <1>2, <1>3 DEF TotalHeight

\* The steps that can move a boundary, and what they leave of the invariant.
LEMMA AdjustKeepsFrame ==
    ASSUME FrameInv, NEW d, IsFiniteSet(DOMAIN d), NEW f \in [Kinds -> Nat],
           adjustProgressBarGroupHeight(d, f)
    PROVE  /\ ui' \in FrameFields
           /\ (doms' = d /\ fading' = f /\ ui'.monitor >= 0 /\ ui'.main >= 0)
                => TotalHeight' = win
<1> DEFINE off == OffsetHeight(d, f)
           m == MainHeight(win, ui.monitor, off)
           u == [ui EXCEPT !.main = m]
<1>1. off \in Int
  BY OffsetTyped
<1>2. win \in Int /\ ui.monitor \in Int
  BY DEF FrameInv
<1>3. m \in Int
  BY <1>1, <1>2 DEF MainHeight, navBarHeight, horizontalDividerHeight
<1>4. SetLayout(u)
  BY DEF adjustProgressBarGroupHeight
<1> HIDE DEF m
<1>5. /\ u \in FrameFields
      /\ u.main = m /\ u.monitor = ui.monitor
  BY <1>3 DEF FrameInv
<1>6. ui' = u
  BY <1>4 DEF SetLayout
<1> HIDE DEF u, off
<1>7. ASSUME doms' = d, fading' = f, ui'.monitor >= 0, ui'.main >= 0
      PROVE  TotalHeight' = win
  <2>1. OffsetHeight(doms, fading)' = off
    BY <1>7 DEF off
  <2>2. u.main = MainHeight(win, u.monitor, off)
    BY <1>5 DEF m
  <2> QED
    BY <1>1, <1>2, <1>3, <1>4, <1>5, <1>7, <2>1, <2>2, AdjustFills
<1> QED
  BY <1>5, <1>6, <1>7

\* Opening the first chart and closing the last one.
LEMMA PopUpFills ==
    ASSUME FrameInv, UNCHANGED <<win, doms, fading>>,
           NEW g \in Int,
           SetLayout([ui EXCEPT !.monitor = g,
                                !.main = MainHeight(win, g, OffsetHeight(doms, fading))])
    PROVE  /\ ui' \in FrameFields
           /\ (ui'.monitor >= 0 /\ ui'.main >= 0) => TotalHeight' = win
<1> DEFINE off == OffsetHeight(doms, fading)
           m == MainHeight(win, g, off)
           u == [ui EXCEPT !.monitor = g, !.main = m]
<1>1. off \in Int
  BY OffsetTyped DEF FrameInv
<1>2. win \in Int
  BY DEF FrameInv
<1>3. m \in Int
  BY <1>1, <1>2 DEF MainHeight, navBarHeight, horizontalDividerHeight
<1>4. SetLayout(u)
  OBVIOUS
<1> HIDE DEF m
<1>5. /\ u \in FrameFields
      /\ u.main = m /\ u.monitor = g
  BY <1>3 DEF FrameInv
<1>6. ui' = u
  BY <1>4 DEF SetLayout
<1>7. OffsetHeight(doms, fading)' = off
  OBVIOUS
<1> HIDE DEF u, off
<1>8. ASSUME ui'.monitor >= 0, ui'.main >= 0
      PROVE  TotalHeight' = win
  <2>1. u.main = MainHeight(win, u.monitor, off)
    BY <1>5 DEF m
  <2> QED
    BY <1>1, <1>2, <1>3, <1>4, <1>5, <1>7, <1>8, <2>1, AdjustFills
<1> QED
  BY <1>5, <1>6, <1>8

\* addWidget and removeWidget leave the frame as it is or give the charts
\* their height, or take it from them.
LEMMA WidgetsKeepFrame ==
    ASSUME FrameInv, UNCHANGED <<win, doms, fading, mode>>,
           \E t : addWidget(t) \/ removeWidget(t)
    PROVE  /\ FrameInv'
           /\ (Frame' # Frame /\ ui'.monitor >= 0 /\ ui'.main >= 0)
                => TotalHeight' = win
<1>1. \/ ui' = ui
      \/ SetLayout(popUpMonitorGroup)
      \/ SetLayout(collapseMonitorGroup)
  BY DEF addWidget, removeWidget, SetLayout
<1>2. CASE ui' = ui
  BY <1>2 DEF FrameInv, Frame
<1>3. CASE SetLayout(popUpMonitorGroup)
  <2>1. popUpHeight \in Int
    BY DEF popUpHeight
  <2>2. /\ ui' \in FrameFields
        /\ (ui'.monitor >= 0 /\ ui'.main >= 0) => TotalHeight' = win
    BY <1>3, <2>1, PopUpFills DEF popUpMonitorGroup
  <2> QED
    BY <2>2 DEF FrameInv
<1>4. CASE SetLayout(collapseMonitorGroup)
  <2>1. PICK g \in Int : g = 0
    OBVIOUS
  <2>2. SetLayout([ui EXCEPT !.monitor = g,
                             !.main = MainHeight(win, g, OffsetHeight(doms, fading))])
    BY <1>4, <2>1 DEF collapseMonitorGroup
  <2>3. /\ ui' \in FrameFields
        /\ (ui'.monitor >= 0 /\ ui'.main >= 0) => TotalHeight' = win
    BY <2>2, PopUpFills
  <2> QED
    BY <2>3 DEF FrameInv
<1> QED
  BY <1>1, <1>2, <1>3, <1>4

\* The answer of the server and the end of an animation.
LEMMA ProgressKeepsFrame ==
    ASSUME FrameInv, NEW list \in (SUBSET BarIDs) \cup {null},
           ProgressAnswered(list)
    PROVE  /\ FrameInv'
           /\ (Frame' # Frame /\ ui'.monitor >= 0 /\ ui'.main >= 0)
                => TotalHeight' = win
<1>1. win' = win
  BY DEF ProgressAnswered
<1>2. CASE list = null
  BY <1>1, <1>2 DEF ProgressAnswered, FrameInv, Frame
<1>3. CASE list # null
  <2> DEFINE m == ModeFor(list)
             kept == IF m # mode THEN {} ELSE DOMAIN doms \cap list
  <2>1. renderProgress(list)
    BY <1>3 DEF ProgressAnswered
  <2>2. m \in Kinds
    BY DEF ModeFor, Kinds
  <2>3. IsFiniteSet(list)
    <3>1. list \in SUBSET BarIDs /\ IsFiniteSet(BarIDs)
      BY <1>3, LayoutAssumption, FS_Interval DEF BarIDs
    <3> QED
      BY <3>1, FS_Subset
  <2>4. /\ mode' = m
        /\ doms' = [i \in list |-> m]
        /\ fading' = [k \in DOMAIN fading |-> fading[k]
               + [l \in Kinds |-> Cardinality({i \in DOMAIN doms \ kept : doms[i] = l})][k]]
        /\ \/ list \subseteq kept /\ ui' = ui
           \/ adjustProgressBarGroupHeight(doms', fading')
    BY <2>1 DEF renderProgress, Kinds
  <2> HIDE DEF m, kept
  <2>5. ASSUME NEW k \in Kinds
        PROVE  Cardinality({i \in DOMAIN doms \ kept : doms[i] = k}) \in Nat
    <3>1. {i \in DOMAIN doms \ kept : doms[i] = k} \in SUBSET (DOMAIN doms)
      OBVIOUS
    <3>2. IsFiniteSet(DOMAIN doms)
      BY DEF FrameInv
    <3>3. IsFiniteSet({i \in DOMAIN doms \ kept : doms[i] = k})
      BY <3>1, <3>2, FS_Subset
    <3> QED
      BY <3>3, FS_CardinalityType
  <2>6. fading' \in [Kinds -> Nat]
    <3>1. fading \in [Kinds -> Nat]
      BY DEF FrameInv
    <3> HIDE DEF Kinds
    <3>2. \A k \in Kinds : fading[k]
             + [l \in Kinds |-> Cardinality({i \in DOMAIN doms \ kept : doms[i] = l})][k]
               \in Nat
      BY <2>5, <3>1
    <3> QED
      BY <2>4, <3>1, <3>2
  <2>7. DOMAIN doms' = list /\ \A i \in DOMAIN doms' : doms'[i] = mode'
    BY <2>4
  <2>8. CASE list \subseteq kept /\ ui' = ui
    <3>1. OffsetHeight(doms, fading)' = OffsetHeight(doms, fading)
      BY <2>1, <2>2, <2>8, KeptTakesSameRoom DEF m, kept
    <3>2. Frame' = Frame
      BY <2>8, <3>1 DEF Frame
    <3> QED
      BY <1>1, <2>2, <2>3, <2>4, <2>6, <2>7, <2>8, <3>2 DEF FrameInv
  <2>9. CASE adjustProgressBarGroupHeight(doms', fading')
    <3>1. IsFiniteSet(DOMAIN doms')
      BY <2>3, <2>7
    <3>2. /\ ui' \in FrameFields
          /\ (ui'.monitor >= 0 /\ ui'.main >= 0) => TotalHeight' = win
      BY <2>6, <2>9, <3>1, AdjustKeepsFrame
    <3> QED
      BY <1>1, <2>2, <2>4, <2>6, <2>7, <3>1, <3>2 DEF FrameInv
  <2> QED
    BY <2>4, <2>8, <2>9
<1> QED
  BY <1>2, <1>3

LEMMA RemovedKeepsFrame ==
    ASSUME FrameInv, NEW k \in Kinds, Removed(k)
    PROVE  /\ FrameInv'
           /\ (ui'.monitor >= 0 /\ ui'.main >= 0) => TotalHeight' = win
<1>1. /\ fading[k] > 0
      /\ fading' = [fading EXCEPT ![k] = fading[k] - 1]
      /\ adjustProgressBarGroupHeight(doms, fading')
      /\ win' = win /\ mode' = mode /\ doms' = doms
  BY DEF Removed
<1>2. fading \in [Kinds -> Nat] /\ fading[k] \in Nat
  BY DEF FrameInv
<1>3. fading[k] - 1 \in Nat
  BY <1>1, <1>2
<1>4. fading' \in [Kinds -> Nat]
  BY <1>1, <1>2, <1>3
<1>5. IsFiniteSet(DOMAIN doms)
  BY DEF FrameInv
<1>6. /\ ui' \in FrameFields
      /\ (ui'.monitor >= 0 /\ ui'.main >= 0) => TotalHeight' = win
  BY <1>1, <1>4, <1>5, AdjustKeepsFrame
<1> QED
  BY <1>1, <1>4, <1>6 DEF FrameInv

LEMMA FrameStep ==
    ASSUME FrameInv, [FrameNext]_frameVars
    PROVE  /\ FrameInv'
           /\ (win' = win /\ Frame' # Frame /\ ui'.monitor >= 0 /\ ui'.main >= 0)
                => TotalHeight' = win
<1>1. CASE UNCHANGED <<win, ui, mode, doms, fading>>
  BY <1>1 DEF FrameInv, Frame
<1>2. ASSUME NEW d \in Dividers, MouseDown(d)
      PROVE  FrameInv' /\ Frame' = Frame
  <2>1. ui' = [ui EXCEPT !.dragging = ui.dragging \cup {d}]
    BY <1>2 DEF MouseDown
  <2>2. UNCHANGED <<win, mode, doms, fading>>
    BY <1>2 DEF MouseDown, progressVars
  <2> QED
    BY <2>1, <2>2 DEF FrameInv, Frame
<1>3. ASSUME NEW p \in Positions, MouseMove(p)
      PROVE  FrameInv'
  <2>1. UNCHANGED <<win, mode, doms, fading>>
    BY <1>3 DEF MouseMove, progressVars
  <2>2. ui' \in FrameFields
    BY <1>3, DragTyped DEF MouseMove, SetLayout
  <2> QED
    BY <2>1, <2>2 DEF FrameInv
<1>4. CASE MouseUp
  <2>1. ui' = [ui EXCEPT !.dragging = {}]
    BY <1>4 DEF MouseUp
  <2>2. UNCHANGED <<win, mode, doms, fading>>
    BY <1>4 DEF MouseUp, progressVars
  <2>3. FrameInv' /\ Frame' = Frame
    BY <2>1, <2>2 DEF FrameInv, Frame
  <2> QED
    BY <2>3
<1>5. ASSUME NEW h \in WindowHeights, WindowResize(h)
      PROVE  FrameInv' /\ win' # win
  <2>1. win' = h /\ h # win /\ UNCHANGED <<ui, mode, doms, fading>>
    BY <1>5 DEF WindowResize, SetLayout, progressVars
  <2>2. h \in Int
    BY LayoutAssumption
  <2> QED
    BY <2>1, <2>2 DEF FrameInv
<1>6. CASE (\E t \in Titles : toggleFlag(t)) \/ \E id \in DOMAIN charts : CloseWidget(id)
  <2>1. UNCHANGED <<win, doms, fading, mode>>
    BY <1>6 DEF toggleFlag, CloseWidget, progressVars
  <2>2. \E t : addWidget(t) \/ removeWidget(t)
    BY <1>6 DEF toggleFlag, CloseWidget
  <2> QED
    BY <2>1, <2>2, WidgetsKeepFrame
<1>7. ASSUME NEW list \in (SUBSET BarIDs) \cup {null}, ProgressAnswered(list)
      PROVE  /\ FrameInv'
             /\ (Frame' # Frame /\ ui'.monitor >= 0 /\ ui'.main >= 0)
                  => TotalHeight' = win
  BY <1>7, ProgressKeepsFrame
<1>8. ASSUME NEW k \in Kinds, Removed(k)
      PROVE  /\ FrameInv'
             /\ (ui'.monitor >= 0 /\ ui'.main >= 0) => TotalHeight' = win
  BY <1>8, RemovedKeepsFrame
<1>9. CASE showComponent \/ CreateProgressBar \/ refreshProgressBars
           \/ \E b \in BarIDs : CompleteProgressBar(b)
  BY <1>1, <1>9 DEF showComponent, CreateProgressBar, refreshProgressBars,
                    CompleteProgressBar, layoutVars, progressVars
<1>10. CASE UNCHANGED frameVars
  BY <1>1, <1>10 DEF frameVars, layoutVars, progressVars
<1> QED
  BY <1>2, <1>3, <1>4, <1>5, <1>6, <1>7, <1>8, <1>9, <1>10, MouseMoveFills
  DEF FrameNext, Kinds

LEMMA FrameInvariant == FrameSpec => []FrameInv
<1>1. FrameInit => FrameInv
  <2> SUFFICES ASSUME FrameInit PROVE FrameInv
    OBVIOUS
  <2>1. MainHeight(win, 0, 11) \in Int /\ win \in Int
    BY LayoutAssumption DEF FrameInit, MainHeight, navBarHeight, horizontalDividerHeight
  <2>2. ui \in FrameFields
    BY <2>1 DEF FrameInit
  <2>3. doms = <<>> /\ DOMAIN doms = {}
    BY DEF FrameInit
  <2>4. IsFiniteSet(DOMAIN doms)
    BY <2>3, FS_EmptySet
  <2> QED
    BY <2>1, <2>2, <2>3, <2>4 DEF FrameInit, FrameInv, Kinds
<1>2. FrameInv /\ [FrameNext]_frameVars => FrameInv'
  BY FrameStep
<1> QED
  BY <1>1, <1>2, PTL DEF FrameSpec

\* Whoever moves a boundary of the page, its five parts then fill the window
\* exactly, for every window, pointer, number of charts and of progress bars
\* and whatever animations are still running.
THEOREM FrameAlwaysFills == FrameSpec => FrameFills
<1>1. FrameInv /\ [FrameNext]_frameVars =>
        [(win' = win /\ Frame' # Frame /\ ui'.monitor >= 0 /\ ui'.main >= 0)
            => TotalHeight' = win]_frameVars
  BY FrameStep
<1> QED
  BY <1>1, FrameInvariant, PTL DEF FrameSpec, FrameFills

-----------------------------------------------------------------------------
(* The panes *)

Totals == UNION {[D -> Nat] : D \in SUBSET Links}
View == [comp : Comps, running : BOOLEAN, timers : Nat,
         unit : {"Byte", "Msg"}, accum : {"Last", "Cumulative"},
         totals : Totals]
Hang == [running : BOOLEAN, timers : Nat, sort : {"level", "percent"},
         table : {"empty", "level", "percent"}]
Pane == [kind : {"empty", "sankey", "hang", "profile"}, view : Nat,
         stop : BOOLEAN, primary : BOOLEAN]
Row == [shown : BOOLEAN, open : BOOLEAN, loaded : BOOLEAN]

\* The values of the panes, and that the diagram shown is of a view.
PanesTyped ==
    /\ views \in Seq(View)
    /\ fields \in [Fields -> Row]
    /\ right \in Pane
    /\ hang \in Hang
    /\ right.kind = "sankey" => Shown \in DOMAIN views

PanesInv == PanesTyped /\ RefreshIsTold /\ DiagramMatches /\ FieldsLoad

-----------------------------------------------------------------------------
(* The analyzers *)

\* An analyzer, one of the views or the HangAnalyzer.
Polls(a) == a.timers = IF a.running THEN 1 ELSE 0

\* Starting, stopping and toggling a view keep everything but its interval.
LEMMA ViewIntervals ==
    ASSUME NEW a \in View, Polls(a)
    PROVE  /\ Started(a) \in View /\ Polls(Started(a)) /\ Started(a).running
           /\ Toggled(a) \in View /\ Polls(Toggled(a))
           /\ Toggled(a).running = ~a.running
           /\ Started(a).comp = a.comp /\ Toggled(a).comp = a.comp
           /\ Started(a).unit = a.unit /\ Toggled(a).unit = a.unit
           /\ Started(a).accum = a.accum /\ Toggled(a).accum = a.accum
           /\ Started(a).totals = a.totals /\ Toggled(a).totals = a.totals
<1>0. a.running \in BOOLEAN
  BY DEF View
<1>1. CASE a.running = TRUE
  <2>1. Started(a) = a
    BY <1>1 DEF Started
  <2>2. Toggled(a) = [a EXCEPT !.running = FALSE, !.timers = @ - 1]
    BY <1>1 DEF Toggled, Stopped
  <2>3. a.timers = 1
    BY <1>1 DEF Polls
  <2>4. Toggled(a) = [a EXCEPT !.running = FALSE, !.timers = 0]
    BY <2>2, <2>3
  <2>5. Toggled(a) \in View
    <3>1. [a EXCEPT !.running = FALSE, !.timers = 0] \in View
      BY DEF View
    <3> QED
      BY <2>4, <3>1
  <2>6. Toggled(a).running = FALSE /\ Toggled(a).timers = 0
    BY <2>4 DEF View
  <2>7. /\ Toggled(a).comp = a.comp /\ Toggled(a).unit = a.unit
        /\ Toggled(a).accum = a.accum /\ Toggled(a).totals = a.totals
    BY <2>4 DEF View
  <2> QED
    BY <1>1, <2>1, <2>3, <2>5, <2>6, <2>7 DEF Polls
<1>2. CASE a.running = FALSE
  <2>1. Started(a) = [a EXCEPT !.running = TRUE, !.timers = @ + 1]
    BY <1>2 DEF Started
  <2>2. Toggled(a) = Started(a)
    BY <1>2 DEF Toggled
  <2>3. a.timers = 0
    BY <1>2 DEF Polls
  <2>4. Started(a) = [a EXCEPT !.running = TRUE, !.timers = 1]
    BY <2>1, <2>3
  <2>5. Started(a) \in View
    <3>1. [a EXCEPT !.running = TRUE, !.timers = 1] \in View
      BY DEF View
    <3> QED
      BY <2>4, <3>1
  <2>6. Started(a).running = TRUE /\ Started(a).timers = 1
    BY <2>4 DEF View
  <2>7. /\ Started(a).comp = a.comp /\ Started(a).unit = a.unit
        /\ Started(a).accum = a.accum /\ Started(a).totals = a.totals
    BY <2>4 DEF View
  <2> QED
    BY <1>2, <2>2, <2>5, <2>6, <2>7 DEF Polls
<1> QED
  BY <1>0, <1>1, <1>2

\* The same of the HangAnalyzer.
LEMMA HangIntervals ==
    ASSUME NEW a \in Hang, Polls(a)
    PROVE  /\ Started(a) \in Hang /\ Polls(Started(a)) /\ Started(a).running
           /\ Toggled(a) \in Hang /\ Polls(Toggled(a))
           /\ Toggled(a).running = ~a.running
<1>0. a.running \in BOOLEAN
  BY DEF Hang
<1>1. CASE a.running = TRUE
  <2>1. Started(a) = a
    BY <1>1 DEF Started
  <2>2. Toggled(a) = [a EXCEPT !.running = FALSE, !.timers = @ - 1]
    BY <1>1 DEF Toggled, Stopped
  <2>3. a.timers = 1
    BY <1>1 DEF Polls
  <2>4. Toggled(a) = [a EXCEPT !.running = FALSE, !.timers = 0]
    BY <2>2, <2>3
  <2>5. Toggled(a) \in Hang
    <3>1. [a EXCEPT !.running = FALSE, !.timers = 0] \in Hang
      BY DEF Hang
    <3> QED
      BY <2>4, <3>1
  <2>6. Toggled(a).running = FALSE /\ Toggled(a).timers = 0
    BY <2>4 DEF Hang
  <2> QED
    BY <1>1, <2>1, <2>3, <2>5, <2>6 DEF Polls
<1>2. CASE a.running = FALSE
  <2>1. Started(a) = [a EXCEPT !.running = TRUE, !.timers = @ + 1]
    BY <1>2 DEF Started
  <2>2. Toggled(a) = Started(a)
    BY <1>2 DEF Toggled
  <2>3. a.timers = 0
    BY <1>2 DEF Polls
  <2>4. Started(a) = [a EXCEPT !.running = TRUE, !.timers = 1]
    BY <2>1, <2>3
  <2>5. Started(a) \in Hang
    <3>1. [a EXCEPT !.running = TRUE, !.timers = 1] \in Hang
      BY DEF Hang
    <3> QED
      BY <2>4, <3>1
  <2>6. Started(a).running = TRUE /\ Started(a).timers = 1
    BY <2>4 DEF Hang
  <2> QED
    BY <1>2, <2>2, <2>5, <2>6 DEF Polls
<1> QED
  BY <1>0, <1>1, <1>2

\* The view at v becomes a: the other views stay, and all poll as they say.
LEMMA ViewChanges ==
    ASSUME PanesTyped, RefreshIsTold, NEW v \in DOMAIN views, NEW a \in View,
           Polls(a), views' = [views EXCEPT ![v] = a]
    PROVE  /\ views' \in Seq(View) /\ DOMAIN views' = DOMAIN views
           /\ \A w \in DOMAIN views : views'[w] = IF w = v THEN a ELSE views[w]
           /\ \A w \in DOMAIN views' : Polls(views'[w])
<1>1. views \in Seq(View)
  BY DEF PanesTyped
<1>2. views' \in Seq(View) /\ DOMAIN views' = DOMAIN views
  BY <1>1
<1>3. \A w \in DOMAIN views : views'[w] = IF w = v THEN a ELSE views[w]
  BY <1>1
<1>4. \A w \in DOMAIN views : Polls(views[w])
  BY DEF RefreshIsTold, Polls
<1> QED
  BY <1>2, <1>3, <1>4

\* A view that is typed and told, taken out of the list.
LEMMA ViewPolls ==
    ASSUME PanesTyped, RefreshIsTold, NEW v \in DOMAIN views
    PROVE  views[v] \in View /\ Polls(views[v])
  BY DEF PanesTyped, RefreshIsTold, Polls

\* The traffic accumulated is a number for each link.
LEMMA AccumulatedTyped ==
    ASSUME PanesTyped, RefreshIsTold, NEW v \in DOMAIN views, NEW r \in Reports
    PROVE  Accumulated(v, r) \in Totals
<1>1. PICK D \in SUBSET Links : views[v].totals \in [D -> Nat]
  <2>1. views[v].totals \in Totals
    BY ViewPolls DEF View
  <2> QED
    BY <2>1 DEF Totals
<1>2. DOMAIN r \subseteq Links /\ r \in [DOMAIN r -> Nat]
  BY PanesAssumption
<1>3. Accumulated(v, r) \in [D \cup DOMAIN r -> Nat]
  BY <1>1, <1>2 DEF Accumulated
<1>4. D \cup DOMAIN r \in SUBSET Links
  BY <1>1, <1>2
<1> QED
  BY <1>3, <1>4 DEF Totals

-----------------------------------------------------------------------------
(* What a step leaves alone *)

\* No row changes and no request of a field is lost.
LEMMA FieldsFrame ==
    ASSUME FieldsLoad, fields' = fields,
           \A f \in Fields : InFlight("field", f) => InFlight("field", f)'
    PROVE  FieldsLoad'
  BY DEF FieldsLoad

\* The panes stay, and so does all the diagram depends on.
LEMMA DiagramFrame ==
    ASSUME DiagramMatches, UNCHANGED <<right, central, diagram>>,
           right.kind = "sankey" =>
              /\ views'[Shown].comp = views[Shown].comp
              /\ views'[Shown].unit = views[Shown].unit
              /\ views'[Shown].accum = views[Shown].accum
              /\ views'[Shown].totals = views[Shown].totals
              /\ InFlight("traffic", Shown) => InFlight("traffic", Shown)'
    PROVE  DiagramMatches'
<1>1. Shown' = Shown
  BY DEF Shown
<1>2. CASE right.kind = "sankey" /\ diagram.drawn
  <2>1. Shown = central
    BY <1>2 DEF DiagramMatches
  <2>2. DrawnAsSelected(views[Shown]) => DrawnAsSelected(views[Shown])'
    BY <1>1, <1>2 DEF DrawnAsSelected, Wanted
  <2> QED
    BY <1>1, <1>2, <2>1, <2>2 DEF DiagramMatches, InFlight
<1>3. CASE ~(right.kind = "sankey" /\ diagram.drawn)
  BY <1>1, <1>3 DEF DiagramMatches
<1> QED
  BY <1>2, <1>3

\* Nothing changes but the tree, the clicks and the requests, of which none
\* of a field or of traffic is lost.
LEMMA RequestsFrame ==
    ASSUME PanesInv, UNCHANGED <<views, central, fields, right, diagram, hang>>,
           \A f \in Fields : InFlight("field", f) => InFlight("field", f)',
           \A v \in DOMAIN views : InFlight("traffic", v) => InFlight("traffic", v)'
    PROVE  PanesInv'
<1>1. PanesTyped'
  BY DEF PanesInv, PanesTyped, Shown
<1>2. RefreshIsTold'
  BY DEF PanesInv, RefreshIsTold, Shown
<1>3. DiagramMatches'
  <2>1. right.kind = "sankey" =>
            (InFlight("traffic", Shown) => InFlight("traffic", Shown)')
    BY DEF PanesInv, PanesTyped, InFlight, Shown
  <2> QED
    BY <2>1, DiagramFrame DEF PanesInv
<1>4. FieldsLoad'
  BY FieldsFrame DEF PanesInv
<1> QED
  BY <1>1, <1>2, <1>3, <1>4 DEF PanesInv

\* Only the view shown changes, not the component it is of, its modes and its
\* sums neither or its traffic is asked for.
LEMMA ShownChanges ==
    ASSUME PanesInv, right.kind = "sankey", NEW a \in View, Polls(a),
           views' = [views EXCEPT ![Shown] = a], a.comp = views[Shown].comp,
           right' \in Pane, right'.kind = "sankey", right'.view = right.view,
           right'.stop = a.running, UNCHANGED <<central, fields, diagram, hang>>,
           asked \subseteq asked',
           \/ Request("traffic", Shown) \in asked'
           \/ /\ a.unit = views[Shown].unit /\ a.accum = views[Shown].accum
              /\ a.totals = views[Shown].totals
    PROVE  PanesInv'
<1>1. Shown \in DOMAIN views
  BY DEF PanesInv, PanesTyped
<1>2. /\ views' \in Seq(View) /\ DOMAIN views' = DOMAIN views
      /\ views'[Shown] = a
      /\ \A w \in DOMAIN views' : Polls(views'[w])
  BY <1>1, ViewChanges DEF PanesInv
<1>3. PanesTyped'
  BY <1>1, <1>2 DEF PanesInv, PanesTyped, Shown
<1>4. RefreshIsTold'
  <2>1. \A w \in DOMAIN views' : views'[w].timers = IF views'[w].running THEN 1 ELSE 0
    BY <1>2 DEF Polls
  <2>2. hang'.timers = IF hang'.running THEN 1 ELSE 0
    BY DEF PanesInv, RefreshIsTold
  <2> QED
    BY <1>2, <2>1, <2>2 DEF RefreshIsTold, Shown
<1>5. DiagramMatches'
  <2>1. Shown' = Shown /\ Shown = central
    BY DEF PanesInv, DiagramMatches, Shown
  <2>2. CASE diagram.drawn
    <3>1. diagram'.comp = views'[central'].comp
      BY <1>2, <2>1, <2>2 DEF PanesInv, DiagramMatches
    <3>2. CASE Request("traffic", Shown) \in asked'
      BY <2>1, <3>1, <3>2 DEF DiagramMatches, InFlight, Request
    <3>3. CASE /\ a.unit = views[Shown].unit /\ a.accum = views[Shown].accum
               /\ a.totals = views[Shown].totals
      <4>1. DrawnAsSelected(views[Shown]) => DrawnAsSelected(views[Shown])'
        BY <1>2, <2>1, <3>3 DEF DrawnAsSelected, Wanted
      <4> QED
        BY <2>1, <2>2, <3>1, <4>1 DEF PanesInv, DiagramMatches, InFlight
    <3> QED
      BY <3>2, <3>3
  <2>3. CASE ~diagram.drawn
    BY <2>1, <2>3 DEF DiagramMatches
  <2> QED
    BY <2>2, <2>3
<1>6. FieldsLoad'
  BY FieldsFrame DEF PanesInv, InFlight
<1> QED
  BY <1>3, <1>4, <1>5, <1>6 DEF PanesInv

-----------------------------------------------------------------------------
(* The steps *)

\* Nothing is shown and nothing polls at first.
LEMMA PanesStart == PanesInit => PanesInv
<1> SUFFICES ASSUME PanesInit PROVE PanesInv
  OBVIOUS
<1>1. right.kind = "empty" /\ views = <<>>
  BY DEF PanesInit
<1>2. PanesTyped
  BY <1>1 DEF PanesInit, PanesTyped, Pane, Hang, Row, Hidden
<1>3. RefreshIsTold
  BY <1>1 DEF PanesInit, RefreshIsTold
<1>4. DiagramMatches
  BY <1>1 DEF DiagramMatches
<1>5. FieldsLoad
  BY DEF PanesInit, FieldsLoad, Hidden
<1> QED
  BY <1>2, <1>3, <1>4, <1>5 DEF PanesInv

\* A new view: the ones made before keep their place.
LEMMA PopulateStep ==
    ASSUME PanesInv, NEW c \in Comps, populate(c),
           UNCHANGED <<tree, central, fields, right, diagram, hang>>
    PROVE  PanesInv'
<1>1. views' = Append(views, NewView(c)) /\ asked \subseteq asked'
  BY DEF populate
<1>2. NewView(c) \in View /\ Polls(NewView(c))
  <2>1. <<>> \in Totals
    <3>1. <<>> \in [{} -> Nat]
      OBVIOUS
    <3> QED
      BY <3>1 DEF Totals
  <2> QED
    BY <2>1 DEF NewView, View, Polls
<1>3. /\ views' \in Seq(View) /\ DOMAIN views \subseteq DOMAIN views'
      /\ \A v \in DOMAIN views : views'[v] = views[v]
      /\ \A v \in DOMAIN views' : views'[v] = NewView(c) \/ v \in DOMAIN views
  BY <1>1, <1>2 DEF PanesInv, PanesTyped
<1>4. PanesTyped'
  BY <1>3 DEF PanesInv, PanesTyped, Shown
<1>5. RefreshIsTold'
  <2>1. \A v \in DOMAIN views' : Polls(views'[v])
    BY <1>2, <1>3, ViewPolls DEF PanesInv
  <2> QED
    BY <1>3, <2>1 DEF PanesInv, PanesTyped, RefreshIsTold, Polls, Shown
<1>6. DiagramMatches'
  <2>1. right.kind = "sankey" => views'[Shown] = views[Shown]
    BY <1>3 DEF PanesInv, PanesTyped
  <2>2. InFlight("traffic", Shown) => InFlight("traffic", Shown)'
    BY <1>1 DEF InFlight, Shown
  <2> QED
    BY <2>1, <2>2, DiagramFrame DEF PanesInv
<1>7. FieldsLoad'
  BY <1>1, FieldsFrame DEF PanesInv, InFlight
<1> QED
  BY <1>4, <1>5, <1>6, <1>7 DEF PanesInv

\* The answer to populate gives both panes to the view and starts it.
LEMMA ComponentAnsweredStep ==
    ASSUME PanesInv, NEW v \in DOMAIN views, ComponentAnswered(v)
    PROVE  PanesInv'
<1>1. /\ views' = [views EXCEPT ![v] = Started(views[v])]
      /\ right' = [kind |-> "sankey", view |-> v, stop |-> TRUE, primary |-> FALSE]
      /\ central' = v /\ diagram' = Blank
      /\ fields' = [f \in Fields |-> IF f \in TopFields THEN Collapsed ELSE Hidden]
  BY DEF ComponentAnswered
<1>2. Started(views[v]) \in View /\ Polls(Started(views[v])) /\ Started(views[v]).running
  BY ViewPolls, ViewIntervals DEF PanesInv
<1>3. /\ views' \in Seq(View) /\ DOMAIN views' = DOMAIN views
      /\ views'[v] = Started(views[v])
      /\ \A w \in DOMAIN views' : Polls(views'[w])
  BY <1>1, <1>2, ViewChanges DEF PanesInv
<1>4. hang' \in Hang /\ Polls(hang')
  BY HangIntervals DEF PanesInv, PanesTyped, RefreshIsTold, Polls,
                       ComponentAnswered, HangBeforeSankey
<1>5. v \in Nat
  BY DEF PanesInv, PanesTyped
<1>6. PanesTyped'
  BY <1>1, <1>3, <1>4, <1>5 DEF PanesTyped, Pane, Row, Collapsed, Hidden, Shown
<1>7. RefreshIsTold'
  <2>1. \A w \in DOMAIN views' : views'[w].timers = IF views'[w].running THEN 1 ELSE 0
    BY <1>3 DEF Polls
  <2>2. hang'.timers = IF hang'.running THEN 1 ELSE 0
    BY <1>4 DEF Polls
  <2>3. views'[v].running \in BOOLEAN
    BY <1>2, <1>3 DEF View
  <2>4. right'.stop = views'[v].running
    BY <1>1, <1>2, <1>3, <2>3
  <2> QED
    BY <1>1, <2>1, <2>2, <2>4 DEF RefreshIsTold, Shown
<1>8. DiagramMatches'
  BY <1>1 DEF DiagramMatches, Blank, Shown
<1>9. FieldsLoad'
  BY <1>1 DEF FieldsLoad, Collapsed, Hidden
<1> QED
  BY <1>6, <1>7, <1>8, <1>9 DEF PanesInv

\* A report is drawn with the modes of the moment, or clears the canvas.
LEMMA TrafficAnsweredStep ==
    ASSUME PanesInv, NEW v \in DOMAIN views, NEW r \in Reports, TrafficAnswered(v, r)
    PROVE  PanesInv'
<1> DEFINE fails == \A l \in DOMAIN r : r[l] = 0
           a == IF fails THEN views[v] ELSE [views[v] EXCEPT !.totals = Accumulated(v, r)]
<1>1. UNCHANGED <<central, fields, right, hang>>
  BY DEF TrafficAnswered
<1>2. a \in View /\ Polls(a)
  <2>1. views[v] \in View /\ Polls(views[v])
    BY ViewPolls DEF PanesInv
  <2>2. Accumulated(v, r) \in Totals
    BY AccumulatedTyped DEF PanesInv
  <2>3. /\ [views[v] EXCEPT !.totals = Accumulated(v, r)] \in View
        /\ Polls([views[v] EXCEPT !.totals = Accumulated(v, r)])
    BY <2>1, <2>2 DEF View, Polls
  <2> QED
    BY <2>1, <2>3
<1>3. a.comp = views[v].comp /\ a.unit = views[v].unit /\ a.accum = views[v].accum
      /\ a.running = views[v].running
  BY ViewPolls DEF PanesInv, View
<1>4. views' = [views EXCEPT ![v] = a]
  <2>1. CASE fails
    <3>1. views' = views
      BY <2>1 DEF TrafficAnswered, drawSankey
    <3>2. [views EXCEPT ![v] = views[v]] = views
      BY DEF PanesInv, PanesTyped
    <3> QED
      BY <2>1, <3>1, <3>2
  <2>2. CASE ~fails
    <3>1. views' = [views EXCEPT ![v].totals = Accumulated(v, r)]
      BY <2>2 DEF TrafficAnswered, drawSankey
    <3> QED
      BY <2>2, <3>1
  <2> QED
    BY <2>1, <2>2
<1> HIDE DEF a
<1>5. /\ views' \in Seq(View) /\ DOMAIN views' = DOMAIN views
      /\ \A w \in DOMAIN views : views'[w] = IF w = v THEN a ELSE views[w]
      /\ \A w \in DOMAIN views' : Polls(views'[w])
  BY <1>2, <1>4, ViewChanges DEF PanesInv
<1>6. PanesTyped'
  BY <1>1, <1>5 DEF PanesInv, PanesTyped, Shown
<1>7. RefreshIsTold'
  <2>1. \A w \in DOMAIN views' : views'[w].timers = IF views'[w].running THEN 1 ELSE 0
    BY <1>5 DEF Polls
  <2>2. right.kind = "sankey" => views'[Shown].running = views[Shown].running
    BY <1>3, <1>5 DEF PanesInv, PanesTyped
  <2> QED
    BY <1>1, <2>1, <2>2 DEF PanesInv, RefreshIsTold, Shown
<1>8. DiagramMatches'
  <2>1. CASE right.kind = "sankey" /\ Shown = v
    <3>1. CASE fails
      <4>1. diagram' = Blank
        BY <2>1, <3>1 DEF TrafficAnswered, drawSankey
      <4>2. Shown = central
        BY <2>1 DEF PanesInv, DiagramMatches
      <4> QED
        BY <1>1, <4>1, <4>2 DEF DiagramMatches, Blank, Shown
    <3>2. CASE ~fails
      <4>1. diagram' = [drawn |-> TRUE, comp |-> views[v].comp,
                        report |-> r, links |-> DrawnLinks(v, r)]
        BY <2>1, <3>2 DEF TrafficAnswered, drawSankey
      <4>2. views'[v] = a
        BY <1>5
      <4>3. Shown' = v /\ central' = v
        BY <1>1, <2>1 DEF PanesInv, DiagramMatches, Shown
      <4>4. a.totals = Accumulated(v, r)
        BY <3>2, ViewPolls DEF PanesInv, View, a
      <4>5. DrawnAsSelected(views[Shown])'
        BY <1>3, <4>1, <4>2, <4>3, <4>4 DEF DrawnAsSelected, Wanted, DrawnLinks
      <4> QED
        BY <1>3, <4>1, <4>2, <4>3, <4>5 DEF DiagramMatches
    <3> QED
      BY <3>1, <3>2
  <2>2. CASE right.kind # "sankey" \/ Shown # v
    <3>1. diagram' = diagram
      BY <2>2 DEF TrafficAnswered, drawSankey
    <3>2. right.kind = "sankey" => views'[Shown] = views[Shown]
      BY <1>5, <2>2 DEF PanesInv, PanesTyped
    <3>3. right.kind = "sankey" =>
              (InFlight("traffic", Shown) => InFlight("traffic", Shown)')
      BY <1>1, <2>2 DEF TrafficAnswered, InFlight, Request, Shown
    <3> QED
      BY <1>1, <3>1, <3>2, <3>3, DiagramFrame DEF PanesInv
  <2> QED
    BY <2>1, <2>2
<1>9. FieldsLoad'
  <2>1. \A f \in Fields : InFlight("field", f) => InFlight("field", f)'
    BY DEF TrafficAnswered, InFlight, Request
  <2> QED
    BY <1>1, <2>1, FieldsFrame DEF PanesInv
<1> QED
  BY <1>6, <1>7, <1>8, <1>9 DEF PanesInv

\* The central pane alone changes; the traffic asked for stays asked for.
LEMMA RowsChange ==
    ASSUME PanesInv, UNCHANGED <<views, central, right, diagram, hang>>,
           fields' \in [Fields -> Row], FieldsLoad',
           \A v \in DOMAIN views : InFlight("traffic", v) => InFlight("traffic", v)'
    PROVE  PanesInv'
<1>1. PanesTyped'
  BY DEF PanesInv, PanesTyped, Shown
<1>2. RefreshIsTold'
  BY DEF PanesInv, RefreshIsTold, Shown
<1>3. DiagramMatches'
  <2>1. right.kind = "sankey" =>
            (InFlight("traffic", Shown) => InFlight("traffic", Shown)')
    BY DEF PanesInv, PanesTyped, InFlight, Shown
  <2> QED
    BY <2>1, DiagramFrame DEF PanesInv
<1> QED
  BY <1>1, <1>2, <1>3 DEF PanesInv

\* A row opens with a request, or closes.
LEMMA FieldClickStep ==
    ASSUME PanesInv, NEW f \in Fields, FieldClick(f)
    PROVE  PanesInv'
<1>1. /\ fields' = [fields EXCEPT ![f].open = ~fields[f].open]
      /\ UNCHANGED <<views, central, right, diagram, hang>>
      /\ asked \subseteq asked'
      /\ fields[f].open \/ Request("field", f) \in asked'
  BY DEF FieldClick
<1>2. fields \in [Fields -> Row] /\ FieldsLoad
  BY DEF PanesInv, PanesTyped
<1>3. fields' \in [Fields -> Row]
  BY <1>1, <1>2 DEF Row
<1>4. \A g \in Fields : /\ fields'[g].loaded = fields[g].loaded
                        /\ fields'[g].shown = fields[g].shown
                        /\ g # f => fields'[g].open = fields[g].open
  BY <1>1, <1>2 DEF Row
<1>5. fields'[f].open => Request("field", f) \in asked'
  <2>1. fields'[f].open = ~fields[f].open
    BY <1>1, <1>2 DEF Row
  <2> QED
    BY <1>1, <2>1
<1>6. FieldsLoad'
  BY <1>1, <1>2, <1>4, <1>5, PanesAssumption DEF FieldsLoad, InFlight
<1> QED
  BY <1>1, <1>3, <1>6, RowsChange DEF InFlight

\* The content of a field replaces the rows inside it.
LEMMA FieldAnsweredStep ==
    ASSUME PanesInv, NEW f \in Fields, FieldAnswered(f)
    PROVE  PanesInv'
<1>1. /\ UNCHANGED <<views, central, right, diagram, hang>>
      /\ asked' = asked \ {Request("field", g) : g \in Inside(f) \cup {f}}
      /\ fields' = [g \in Fields |->
                      IF g \in Inside(f) THEN Collapsed
                      ELSE IF g = f THEN [fields[f] EXCEPT !.loaded = TRUE]
                      ELSE fields[g]]
  BY DEF FieldAnswered
<1>2. fields \in [Fields -> Row] /\ FieldsLoad
  BY DEF PanesInv, PanesTyped
<1>3. fields' \in [Fields -> Row]
  BY <1>1, <1>2 DEF Row, Collapsed, Hidden
<1>4. fields'[f].loaded = TRUE
  BY <1>1, <1>2 DEF Row, Inside
<1>5. FieldsLoad'
  <2> SUFFICES ASSUME NEW g \in Fields
               PROVE  /\ fields'[g].open => fields'[g].loaded \/ InFlight("field", g)'
                      /\ fields'[g].shown /\ g \notin TopFields => fields'[Parent[g]].loaded
    BY DEF FieldsLoad
  <2>1. CASE g \in Inside(f)
    <3>1. fields'[g] = Collapsed /\ Parent[g] = f
      BY <1>1, <2>1 DEF Inside
    <3> QED
      BY <1>4, <3>1 DEF Collapsed, Hidden
  <2>2. CASE g \notin Inside(f)
    <3>1. fields'[g].open => fields'[g].loaded \/ InFlight("field", g)'
      <4>1. CASE g = f
        BY <1>4, <4>1
      <4>2. CASE g # f
        <5>1. fields'[g] = fields[g]
          BY <1>1, <2>2, <4>2
        <5>2. InFlight("field", g) => InFlight("field", g)'
          BY <1>1, <2>2, <4>2 DEF InFlight, Request
        <5> QED
          BY <1>2, <5>1, <5>2 DEF FieldsLoad
      <4> QED
        BY <4>1, <4>2
    <3>2. fields'[g].shown /\ g \notin TopFields => fields'[Parent[g]].loaded
      <4>1. fields'[g].shown = fields[g].shown
        BY <1>1, <1>2, <2>2 DEF Row
      <4>2. Parent[g] \in Fields /\ Parent[g] \notin Inside(f)
        BY PanesAssumption DEF Inside
      <4>3. fields[Parent[g]].loaded => fields'[Parent[g]].loaded
        BY <1>1, <1>2, <1>4, <4>2 DEF Row
      <4> QED
        BY <1>2, <4>1, <4>3 DEF FieldsLoad
    <3> QED
      BY <3>1, <3>2
  <2> QED
    BY <2>1, <2>2
<1>6. \A v \in DOMAIN views : InFlight("traffic", v) => InFlight("traffic", v)'
  BY <1>1 DEF InFlight, Request
<1> QED
  BY <1>1, <1>3, <1>5, <1>6, RowsChange

\* The right pane has no diagram after the step, and the button says whether
\* the HangAnalyzer runs if its list is there.
LEMMA NoDiagram ==
    ASSUME PanesInv, UNCHANGED fields, right' \in Pane, right'.kind # "sankey",
           views' \in Seq(View), \A v \in DOMAIN views' : Polls(views'[v]),
           hang' \in Hang, Polls(hang'),
           right'.kind = "hang" => right'.stop = hang'.running,
           \A f \in Fields : InFlight("field", f) => InFlight("field", f)'
    PROVE  PanesInv'
<1>1. PanesTyped'
  BY DEF PanesInv, PanesTyped
<1>2. RefreshIsTold'
  BY DEF RefreshIsTold, Polls
<1>3. DiagramMatches'
  BY DEF DiagramMatches
<1>4. FieldsLoad'
  BY FieldsFrame DEF PanesInv
<1> QED
  BY <1>1, <1>2, <1>3, <1>4 DEF PanesInv

\* The list of buffers takes the right pane and polls.
LEMMA HangClickStep ==
    ASSUME PanesInv, HangClick
    PROVE  PanesInv'
<1>1. /\ right' = [kind |-> "hang", view |-> 0, stop |-> TRUE, primary |-> TRUE]
      /\ hang' = [Started(hang) EXCEPT !.table = "empty"]
      /\ UNCHANGED fields /\ asked \subseteq asked'
  BY DEF HangClick
<1>2. right' \in Pane /\ right'.kind = "hang" /\ right'.stop = TRUE
  BY <1>1 DEF Pane
<1>3. Started(hang) \in Hang /\ Polls(Started(hang)) /\ Started(hang).running
  BY HangIntervals DEF PanesInv, PanesTyped, RefreshIsTold, Polls
<1>4. hang' \in Hang /\ Polls(hang') /\ hang'.running = TRUE
  BY <1>1, <1>3 DEF Hang, Polls
<1>5. views' \in Seq(View) /\ \A v \in DOMAIN views' : Polls(views'[v])
  <2>1. CASE right.kind = "sankey" /\ right.primary
    <3>1. Shown \in DOMAIN views
      BY <2>1 DEF PanesInv, PanesTyped
    <3>2. views' = [views EXCEPT ![Shown] = Toggled(views[Shown])]
      BY <2>1 DEF HangClick
    <3>3. Toggled(views[Shown]) \in View /\ Polls(Toggled(views[Shown]))
      BY <3>1, ViewPolls, ViewIntervals DEF PanesInv
    <3> QED
      BY <3>1, <3>2, <3>3, ViewChanges DEF PanesInv
  <2>2. CASE ~(right.kind = "sankey" /\ right.primary)
    <3>1. views' = views
      BY <2>2 DEF HangClick
    <3> QED
      BY <3>1, ViewPolls DEF PanesInv, PanesTyped
  <2> QED
    BY <2>1, <2>2
<1>6. \A f \in Fields : InFlight("field", f) => InFlight("field", f)'
  BY <1>1 DEF InFlight
<1> QED
  BY <1>1, <1>2, <1>4, <1>5, <1>6, NoDiagram

\* The refresh button of the list of buffers.
LEMMA HangRefreshStep ==
    ASSUME PanesInv, HangRefreshClick
    PROVE  PanesInv'
<1>1. /\ right.kind = "hang" /\ hang' = Toggled(hang)
      /\ right' = [right EXCEPT !.stop = ~hang.running, !.primary = ~hang.running]
      /\ UNCHANGED <<views, fields>> /\ asked \subseteq asked'
  BY DEF HangRefreshClick, ToggledButton
<1>2. right \in Pane /\ hang \in Hang /\ hang.running \in BOOLEAN
  BY DEF PanesInv, PanesTyped, Hang
<1>3. right' \in Pane /\ right'.kind = "hang" /\ right'.stop = ~hang.running
  BY <1>1, <1>2 DEF Pane
<1>4. hang' \in Hang /\ Polls(hang') /\ hang'.running = ~hang.running
  BY <1>1, HangIntervals DEF PanesInv, PanesTyped, RefreshIsTold, Polls
<1>5. views' \in Seq(View) /\ \A v \in DOMAIN views' : Polls(views'[v])
  BY <1>1, ViewPolls DEF PanesInv, PanesTyped
<1>6. \A f \in Fields : InFlight("field", f) => InFlight("field", f)'
  BY <1>1 DEF InFlight
<1> QED
  BY <1>1, <1>3, <1>4, <1>5, <1>6, NoDiagram

\* The HangAnalyzer changes its order or its table, and the panes stay.
LEMMA TableChanges ==
    ASSUME PanesInv, UNCHANGED <<views, central, fields, right, diagram>>,
           hang' \in Hang, hang'.running = hang.running, hang'.timers = hang.timers,
           \A f \in Fields : InFlight("field", f) => InFlight("field", f)',
           \A v \in DOMAIN views : InFlight("traffic", v) => InFlight("traffic", v)'
    PROVE  PanesInv'
<1>1. PanesTyped'
  BY DEF PanesInv, PanesTyped, Shown
<1>2. RefreshIsTold'
  BY DEF PanesInv, RefreshIsTold, Shown
<1>3. DiagramMatches'
  <2>1. right.kind = "sankey" =>
            (InFlight("traffic", Shown) => InFlight("traffic", Shown)')
    BY DEF PanesInv, PanesTyped, InFlight, Shown
  <2> QED
    BY <2>1, DiagramFrame DEF PanesInv
<1>4. FieldsLoad'
  BY FieldsFrame DEF PanesInv
<1> QED
  BY <1>1, <1>2, <1>3, <1>4 DEF PanesInv

\* A click on a mode of the diagram shown, or on its refresh button.
LEMMA DiagramClickStep ==
    ASSUME PanesInv,
           \/ SankeyRefreshClick
           \/ \E u \in {"Byte", "Msg"} : MeasurementClick(u)
           \/ \E a \in {"Last", "Cumulative"} : AccumulationClick(a)
    PROVE  PanesInv'
<1> DEFINE old == views[Shown]
<1>0. right.kind = "sankey" /\ Shown \in DOMAIN views
  BY DEF PanesInv, PanesTyped, SankeyRefreshClick, MeasurementClick, AccumulationClick
<1>1. /\ right \in Pane /\ old \in View /\ Polls(old)
      /\ right.stop = old.running /\ old.running \in BOOLEAN
  BY <1>0, ViewPolls DEF PanesInv, PanesTyped, RefreshIsTold, View
<1>2. CASE SankeyRefreshClick
  <2>1. /\ Toggled(old) \in View /\ Polls(Toggled(old))
        /\ Toggled(old).running = ~old.running /\ Toggled(old).comp = old.comp
        /\ Toggled(old).unit = old.unit /\ Toggled(old).accum = old.accum
        /\ Toggled(old).totals = old.totals
    BY <1>1, ViewIntervals
  <2>2. /\ right' = [right EXCEPT !.stop = ~old.running, !.primary = ~old.running]
        /\ views' = [views EXCEPT ![Shown] = Toggled(old)]
        /\ UNCHANGED <<central, fields, diagram, hang>> /\ asked \subseteq asked'
    BY <1>2 DEF SankeyRefreshClick, ToggledButton
  <2>3. /\ right' \in Pane /\ right'.kind = right.kind /\ right'.view = right.view
        /\ right'.stop = ~old.running
    BY <1>1, <2>2 DEF Pane
  <2> QED
    BY <1>0, <2>1, <2>2, <2>3, ShownChanges
<1>3. ASSUME NEW u \in {"Byte", "Msg"}, MeasurementClick(u) PROVE PanesInv'
  <2>1. [old EXCEPT !.unit = u] \in View
    BY <1>1 DEF View
  <2>2. PICK b \in View : b = [old EXCEPT !.unit = u]
    BY <2>1
  <2>3. b.comp = old.comp /\ b.running = old.running /\ b.timers = old.timers
    BY <1>1, <2>2 DEF View
  <2>4. Polls(b)
    BY <1>1, <2>3 DEF Polls
  <2>5. views' = [views EXCEPT ![Shown] = b]
    BY <1>3, <2>2 DEF MeasurementClick
  <2>6. /\ UNCHANGED <<central, fields, right, diagram, hang>>
        /\ asked' = asked \cup {Request("traffic", Shown)}
    BY <1>3 DEF MeasurementClick
  <2>7. right' \in Pane /\ right'.kind = "sankey" /\ right'.view = right.view
        /\ right'.stop = b.running
    BY <1>0, <1>1, <2>3, <2>6
  <2> QED
    BY <1>0, <2>3, <2>4, <2>5, <2>6, <2>7, ShownChanges
<1>4. ASSUME NEW m \in {"Last", "Cumulative"}, AccumulationClick(m) PROVE PanesInv'
  <2>1. [old EXCEPT !.accum = m] \in View
    BY <1>1 DEF View
  <2>2. PICK b \in View : b = [old EXCEPT !.accum = m]
    BY <2>1
  <2>3. b.comp = old.comp /\ b.running = old.running /\ b.timers = old.timers
    BY <1>1, <2>2 DEF View
  <2>4. Polls(b)
    BY <1>1, <2>3 DEF Polls
  <2>5. views' = [views EXCEPT ![Shown] = b]
    BY <1>4, <2>2 DEF AccumulationClick
  <2>6. /\ UNCHANGED <<central, fields, right, diagram, hang>>
        /\ asked' = asked \cup {Request("traffic", Shown)}
    BY <1>4 DEF AccumulationClick
  <2>7. right' \in Pane /\ right'.kind = "sankey" /\ right'.view = right.view
        /\ right'.stop = b.running
    BY <1>0, <1>1, <2>3, <2>6
  <2> QED
    BY <1>0, <2>3, <2>4, <2>5, <2>6, <2>7, ShownChanges
<1> QED
  BY <1>2, <1>3, <1>4

\* Every step of the page keeps the panes consistent.
LEMMA PanesStep == PanesInv /\ [PanesNext]_panesVars => PanesInv'
<1> SUFFICES ASSUME PanesInv, [PanesNext]_panesVars PROVE PanesInv'
  OBVIOUS
<1> USE DEF InFlight, Request
<1>1. CASE listComponentsAnswered
  BY <1>1, RequestsFrame DEF listComponentsAnswered
<1>2. CASE DomainClick
  BY <1>2, RequestsFrame DEF DomainClick
<1>3. ASSUME NEW c \in Comps, ComponentClick(c) \/ PortClick(c) PROVE PanesInv'
  BY <1>3, PopulateStep DEF ComponentClick, PortClick
<1>4. ASSUME NEW v \in DOMAIN views, ComponentAnswered(v) PROVE PanesInv'
  BY <1>4, ComponentAnsweredStep
<1>5. ASSUME NEW v \in DOMAIN views, SankeyTimer(v) PROVE PanesInv'
  BY <1>5, RequestsFrame DEF SankeyTimer
<1>6. ASSUME NEW v \in DOMAIN views, NEW r \in Reports, TrafficAnswered(v, r)
      PROVE  PanesInv'
  BY <1>6, TrafficAnsweredStep
<1>7. CASE \/ SankeyRefreshClick
           \/ \E u \in {"Byte", "Msg"} : MeasurementClick(u)
           \/ \E a \in {"Last", "Cumulative"} : AccumulationClick(a)
  BY <1>7, DiagramClickStep
<1>8. ASSUME NEW f \in Fields, FieldClick(f) \/ FieldAnswered(f) PROVE PanesInv'
  BY <1>8, FieldClickStep, FieldAnsweredStep
<1>9. CASE HangClick \/ HangRefreshClick
  BY <1>9, HangClickStep, HangRefreshStep
<1>10. CASE HangTimer
  BY <1>10, RequestsFrame DEF HangTimer
<1>11. ASSUME NEW s \in {"level", "percent"}, SortClick(s) PROVE PanesInv'
  <2>1. hang' \in Hang /\ hang'.running = hang.running /\ hang'.timers = hang.timers
    BY <1>11 DEF SortClick, PanesInv, PanesTyped, Hang
  <2> QED
    BY <1>11, <2>1, TableChanges DEF SortClick
<1>12. ASSUME NEW s \in {"level", "percent"}, BuffersAnswered(s) PROVE PanesInv'
  <2>1. hang' \in Hang /\ hang'.running = hang.running /\ hang'.timers = hang.timers
    BY <1>12 DEF BuffersAnswered, PanesInv, PanesTyped, Hang
  <2> QED
    BY <1>12, <2>1, TableChanges DEF BuffersAnswered
<1>13. CASE getProfilingResult
  BY <1>13, RequestsFrame DEF getProfilingResult
<1>14. CASE visualizePProfNetwork
  <2>1. right' \in Pane /\ right'.kind = "profile"
    BY <1>14 DEF visualizePProfNetwork, Pane
  <2>2. hang' \in Hang /\ Polls(hang')
    BY <1>14 DEF visualizePProfNetwork, PanesInv, PanesTyped, RefreshIsTold, Polls
  <2>3. views' \in Seq(View) /\ \A v \in DOMAIN views' : Polls(views'[v])
    BY <1>14, ViewPolls DEF visualizePProfNetwork, PanesInv, PanesTyped
  <2>4. /\ UNCHANGED fields
        /\ \A f \in Fields : InFlight("field", f) => InFlight("field", f)'
    BY <1>14 DEF visualizePProfNetwork
  <2> QED
    BY <2>1, <2>2, <2>3, <2>4, NoDiagram
<1>15. CASE UNCHANGED panesVars
  BY <1>15, RequestsFrame DEF panesVars
<1> QED
  BY <1>1, <1>2, <1>3, <1>4, <1>5, <1>6, <1>7, <1>8, <1>9, <1>10, <1>11, <1>12,
     <1>13, <1>14, <1>15 DEF PanesNext

\* The inductive invariant of the panes.
LEMMA PanesConsistent == PanesSpec => []PanesInv
<1>1. PanesInit => PanesInv
  BY PanesStart
<1>2. PanesInv /\ [PanesNext]_panesVars => PanesInv'
  BY PanesStep
<1> QED
  BY <1>1, <1>2, PTL DEF PanesSpec

\* Whatever is clicked and in whichever order timers fire and answers come,
\* a diagram in the right pane is of the component in the central pane and,
\* with no request of it open, draws the links of the unit selected with the
\* values of the data selected.
THEOREM DiagramAlwaysMatches == PanesSpec => []DiagramMatches
<1>1. PanesInv => DiagramMatches
  BY DEF PanesInv
<1> QED
  BY <1>1, PanesConsistent, PTL

\* Each analyzer polls through at most one interval, none once stopped, and
\* the refresh button in the page tells which.
THEOREM RefreshAlwaysTold == PanesSpec => []RefreshIsTold
<1>1. PanesInv => RefreshIsTold
  BY DEF PanesInv
<1> QED
  BY <1>1, PanesConsistent, PTL

\* An open field has its content or has asked for it, and a row inside a
\* field is there only with the content of the field.
THEOREM FieldsAlwaysLoad == PanesSpec => []FieldsLoad
<1>1. PanesInv => FieldsLoad
  BY DEF PanesInv
<1> QED
  BY <1>1, PanesConsistent, PTL
=============================================================================
