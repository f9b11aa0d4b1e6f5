------------------------ MODULE MCSessionToolRunner ------------------------
(***************************************************************************)
(* Instances of SessionToolRunner for TLC: one call of each kind.          *)
(***************************************************************************)
EXTENDS SessionToolRunner

CONSTANTS
  plain,    \* runs without confirmation
  gated,    \* needs the user's confirmation
  denied,   \* denied by the server
  foreign   \* needs confirmation, and another client owns its tool

MCPermission ==
  [c \in Calls |-> IF c = plain THEN "allow" ELSE IF c = denied THEN "deny" ELSE "ask"]

MCOwned == Calls \ {foreign}

=============================================================================
