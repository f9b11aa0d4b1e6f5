----------------------------- MODULE MCMemorySync -----------------------------
(* Instances of MemorySync for TLC.                                          *)
EXTENDS MemorySync

CONSTANTS a, b

Sessions(readOnly, mode, rejected, files, start, e, o, f) ==
  [readOnly : {readOnly}, mode : {mode}, rejected : {rejected}, files : {files}, start : start,
   edits : {e}, others : {o}, faults : {f}]
One == {{}, {1}}
Two == SUBSET {1, 2}
All == {{1, 2, 3}}

MCSetups ==
  Sessions(FALSE, "enabled", {}, 1, One, 3, 0, 1) \cup Sessions(FALSE, "enabled", {}, 1, One, 2, 1, 1)
  \cup Sessions(FALSE, "enabled", {}, 1, {{}}, 1, 2, 0)
  \cup Sessions(FALSE, "enabled", {b}, 1, {{1}}, 2, 1, 0) \cup Sessions(FALSE, "enabled", {b}, 1, {{1}}, 4, 0, 0)
  \cup Sessions(FALSE, "enabled", {}, 2, Two, 1, 1, 0) \cup Sessions(FALSE, "enabled", {}, 2, Two, 1, 0, 1)
  \cup Sessions(FALSE, "enabled", {}, 3, All, 2, 0, 0)
  \cup Sessions(TRUE, "enabled", {}, 2, Two, 1, 1, 0) \cup Sessions(FALSE, "log_only", {}, 2, Two, 1, 0, 0)
  \cup Sessions(FALSE, "disabled", {}, 2, Two, 1, 0, 0)
WipeSetups == Sessions(FALSE, "enabled", {}, 2, Two, 1, 1, 0)

===============================================================================
