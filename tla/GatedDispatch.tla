---------------------------- MODULE GatedDispatch ----------------------------
(***************************************************************************)
(* What SessionToolRunner promises a session about its tool calls, without *)
(* streams, histories, retries or clocks: tools run one at a time, a gated *)
(* call only after it was approved, and never again once its result is     *)
(* known to have arrived.                                                  *)
(***************************************************************************)
EXTENDS Naturals

CONSTANTS
  Calls,
  None,     \* "no call"; not one of Calls
  Gated,    \* the calls that need the user's approval
  Refused   \* the calls nobody may approve

VARIABLES
  requested,  \* calls the agent has made
  approved,   \* gated calls the user allowed
  running,    \* the call whose tool runs or whose result is being posted
  settled     \* calls the runner knows to be answered or denied

vars == <<requested, approved, running, settled>>

Init == requested = {} /\ approved = {} /\ running = None /\ settled = {}

Request(c) ==
  /\ requested' = requested \cup {c}
  /\ UNCHANGED <<approved, running, settled>>

Approve(c) ==
  /\ c \in requested
  /\ approved' = approved \cup {c}
  /\ UNCHANGED <<requested, running, settled>>

Start(c) ==
  /\ running = None
  /\ c \in requested \ (settled \cup Refused)
  /\ c \in Gated => c \in approved
  /\ running' = c
  /\ UNCHANGED <<requested, approved, settled>>

\* The result arrived, or posting it was given up or cut short.
Finish(arrived) ==
  /\ running # None
  /\ running' = None
  /\ settled' = IF arrived THEN settled \cup {running} ELSE settled
  /\ UNCHANGED <<requested, approved>>

\* Calls answered by another client or denied.
SettleElsewhere(S) ==
  /\ running = None
  /\ S \subseteq requested
  /\ settled' = settled \cup S
  /\ UNCHANGED <<requested, approved, running>>

Next ==
  \/ \E c \in Calls : Request(c) \/ Approve(c) \/ Start(c)
  \/ \E arrived \in BOOLEAN : Finish(arrived)
  \/ \E S \in SUBSET Calls : SettleElsewhere(S)

Spec == Init /\ [][Next]_vars

=============================================================================
