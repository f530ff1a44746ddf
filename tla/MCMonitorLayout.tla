--------------------------- MODULE MCMonitorLayout ---------------------------
(* An instance of MonitorLayout for TLC: two progress bars, of which one is   *)
(* shown as a bar and two as pies, and one field that can be charted twice.  *)
EXTENDS MonitorLayout

TwoHeights == {600, 800}
\* Near the bottom of the smaller window: charts fit below when there is no
\* progress bar or one bar, not when there are pies.
Places == {<<500, 545>>}
OneTitle == {<<"L2", ".hits">>}
=============================================================================
