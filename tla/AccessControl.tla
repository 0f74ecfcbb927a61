---------------------------- MODULE AccessControl ----------------------------
(***************************************************************************)
(* What the system promises, in two variables: agents have levels that     *)
(* their verifications raise and lower, and access at a tier is granted    *)
(* only to an agent that stands at that level when it is granted.          *)
(***************************************************************************)
EXTENDS Integers

CONSTANTS Agents, Tiers

VARIABLES
  level,   \* what each agent has earned
  granted  \* the grant of the last transaction: none or one

vars == <<level, granted>>

\* No tier asks for more than level 4, and none below 2 is ever granted.
Required(t) == IF t > 4 THEN 4 ELSE t

Init ==
  /\ level = [a \in Agents |-> 0]
  /\ granted = {}

\* Any transaction but a grant: levels move one agent at a time.
Move(a) ==
  /\ \E l \in 0 .. 4 : level' = [level EXCEPT ![a] = l]
  /\ granted' = {}

Grant(a, t) ==
  /\ t >= 2
  /\ level[a] >= Required(t)
  /\ granted' = {[agent |-> a, tier |-> t]}
  /\ UNCHANGED level

Quiet == granted' = {} /\ UNCHANGED level

Next ==
  \/ \E a \in Agents : Move(a)
  \/ \E a \in Agents, t \in Tiers : Grant(a, t)
  \/ Quiet

Spec == Init /\ [][Next]_vars
=============================================================================
