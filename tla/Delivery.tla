------------------------------ MODULE Delivery ------------------------------
(***************************************************************************)
(* What the event path promises, whatever carries the events: an item that *)
(* is accepted stays in somebody's custody until it has an outcome, and    *)
(* gets one in the end.  The outcome is a success of the handler or a dead *)
(* letter.  An item may be taken back into custody after that (delivery is *)
(* at least once), and a dead letter may be revoked, but never both lost   *)
(* and without an outcome.                                                 *)
(***************************************************************************)
CONSTANT Items

VARIABLES
  accepted,  \* items somebody has handed over
  custody,   \* items that some row or some stream entry still stands for
  outcome    \* items handled or in a dead letter

vars == <<accepted, custody, outcome>>

Init ==
  /\ accepted = {}
  /\ custody = {}
  /\ outcome = {}

\* An item arrives; a duplicate of a handled one has its outcome already.
Accept(x) ==
  /\ x \notin accepted
  /\ accepted' = accepted \cup {x}
  /\ custody' = custody \cup {x}
  /\ outcome' \in {outcome, outcome \cup {x}}

\* Items get their outcome, all copies of an event at once, and the one that
\* was worked on may be released in the same step.
Settle(S, x) ==
  /\ S \subseteq accepted
  /\ outcome' = outcome \cup S
  /\ custody' \in {custody, custody \ ({x} \cap outcome')}
  /\ UNCHANGED accepted

\* An item with an outcome is taken up again, with or without revoking it.
Retake(x) ==
  /\ x \in accepted
  /\ custody' = custody \cup {x}
  /\ outcome' \in {outcome, outcome \ {x}}
  /\ UNCHANGED accepted

Next ==
  \E x \in Items :
    \/ Accept(x)
    \/ \E S \in SUBSET Items : Settle(S, x)
    \/ Retake(x)

\* Nothing is lost.
Spec == Init /\ [][Next]_vars

\* Everything gets its outcome.
Settles == \A x \in Items : x \in accepted ~> x \in outcome
=============================================================================
