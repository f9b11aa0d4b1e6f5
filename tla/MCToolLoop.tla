------------------------------ MODULE MCToolLoop ------------------------------
(* Instances of ToolLoop for TLC.                                            *)
EXTENDS ToolLoop

Replying(stop, blocks) == [blocks |-> blocks, stop |-> stop]
Calls == Replying("run_tools", <<"tool">>)
Done == Replying("stop", <<"text">>)
Paused == Replying("resume", <<"text">>)
Stopped == Replying("stop", <<"tool", "text">>)
CutOff == Replying("stop", <<"tool">>)

Plain == [mode |-> "whole", replies |-> {Calls, Done}, turns |-> 2, says |-> 0, takes |-> 0, holds |-> 0,
          compactions |-> 0, readers |-> {}, faults |-> 0]
Toolset == Replying("run_tools", <<"member", "tool", "member">>)
Refused == Replying("run_tools", <<"tool", "fallback", "tool">>)

MCSetups ==
  \* The loop: every way that a turn can go, with all that the caller may do to the history.
  {[Plain EXCEPT !.replies = {Calls, Done, Paused, CutOff}, !.turns = 3, !.says = 1, !.takes = 1,
                 !.compactions = 1, !.faults = 1],
   [Plain EXCEPT !.mode = "stream", !.replies = {Calls, Done}, !.says = 2, !.takes = 1, !.compactions = 1, !.faults = 1],
   [Plain EXCEPT !.mode = "eager", !.says = 1, !.takes = 2, !.holds = 1, !.readers = {1}],
  \* A slow reader of the last reply beside the final compaction.
   [Plain EXCEPT !.mode = "eager", !.replies = {Stopped}, !.turns = 1, !.says = 1, !.compactions = 1,
                 !.readers = {1}],
  \* One reply: its readers, its held calls, a toolset's calls among others.
   [Plain EXCEPT !.mode = "eager", !.replies = {Toolset}, !.turns = 1, !.takes = 1, !.holds = 1, !.readers = {1}],
   [Plain EXCEPT !.mode = "eager", !.replies = {Toolset}, !.turns = 1, !.holds = 1, !.readers = {1}, !.faults = 1],
   [Plain EXCEPT !.mode = "eager", !.replies = {Replying("run_tools", <<"member", "member">>)}, !.turns = 1,
                 !.holds = 1, !.readers = {1, 2}, !.faults = 1],
   [Plain EXCEPT !.mode = "eager", !.replies = {Refused, Replying("stop", <<"tool", "tool">>)}, !.turns = 1,
                 !.holds = 1, !.readers = {1, 2}]}

MCReplySetups == {[Plain EXCEPT !.mode = mode, !.replies = {Done}, !.takes = 1] : mode \in {"whole", "stream"}}
===============================================================================
