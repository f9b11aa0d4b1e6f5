---------------------------- MODULE MCMessageThread ----------------------------
(* Instances of MessageThread for TLC.                                       *)
EXTENDS MessageThread

CONSTANTS brief, verbose

Thread(threaded, continues, streamed, t, s, e, f) ==
  [threaded : threaded, continues : continues, streamed : streamed,
   turns : {t}, says : {s}, edits : {e}, faults : {f}]

MCSetups == UNION {
  Thread({TRUE}, {TRUE}, BOOLEAN, 3, 2, 1, 1),     \* what a caller may do around and during three turns
  Thread({TRUE}, {TRUE}, {FALSE}, 2, 2, 2, 1),     \* two edits in a row
  Thread({TRUE}, {TRUE}, {FALSE}, 2, 1, 3, 0),     \* a reply that is said again twice
  Thread({TRUE}, BOOLEAN, {TRUE}, 3, 1, 1, 2),     \* a lost thread that is lost again
  Thread({FALSE}, {FALSE}, {TRUE}, 3, 1, 1, 1)}    \* a client without threads
===============================================================================
