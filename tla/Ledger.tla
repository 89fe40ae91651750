------------------------------- MODULE Ledger -------------------------------
(***************************************************************************)
(* What a source of deltas (internal/agent/attrsource.go: AttrSource)      *)
(* promises about the items it counts: each is counted at most once, under *)
(* one label that stays the same from the moment it is counted until it is *)
(* reported, a report is final, and what is held does not stay for ever.   *)
(* Items may be lost, before they are counted or after, but never come     *)
(* back.                                                                   *)
(***************************************************************************)
CONSTANTS Items, Labels, Nowhere

VARIABLES
  stage,  \* how far each item has come
  label   \* under what it is held or was reported

ledger == <<stage, label>>

Stages == {"new", "held", "reported", "lost"}

Init ==
  /\ stage = [i \in Items |-> "new"]
  /\ label = [i \in Items |-> Nowhere]

\* How one item moves from stage s and label l to stage t and label m.
Counted(s, l, t, m) == s = "new" /\ t = "held" /\ m \in Labels
Reported(s, l, t, m) == s = "held" /\ t = "reported" /\ m = l
Lost(s, l, t, m) == s \in {"new", "held"} /\ t = "lost" /\ m = Nowhere
Kept(s, l, t, m) == t = s /\ m = l
Moves(s, l, t, m) == Counted(s, l, t, m) \/ Reported(s, l, t, m) \/ Lost(s, l, t, m) \/ Kept(s, l, t, m)

\* A step counts, reports and loses any number of items at once.
Next == \A i \in Items : Moves(stage[i], label[i], stage'[i], label'[i])

Safety == Init /\ [][Next]_ledger
Progress == \A i \in Items : stage[i] = "held" ~> stage[i] \in {"reported", "lost"}

Spec == Safety /\ Progress

=============================================================================
