------------------------------ MODULE Subsequence ------------------------------
(***************************************************************************)
(* What is left of a sequence of messages when some of them are dropped:   *)
(* for MessageThread, which drops what it takes for a repetition, and for  *)
(* Conversation, which allows it.                                          *)
(***************************************************************************)
EXTENDS Integers, Sequences

\* The elements of s at the places in P, in their order.
Kept(s, P) ==
  LET upTo[k \in 0..Len(s)] ==
        IF k = 0 THEN <<>> ELSE IF k \in P THEN Append(upTo[k - 1], s[k]) ELSE upTo[k - 1]
  IN upTo[Len(s)]
===============================================================================
