--------------------------- MODULE MCTaskManager ---------------------------
(* Instances of TaskManager for TLC. *)
EXTENDS TaskManager

\* "keep the level", every level below the top, and the top
AllWakeLevels == Levels \cup {-1}
=============================================================================
