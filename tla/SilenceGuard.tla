---------------------------- MODULE SilenceGuard ----------------------------
(* What the operator promises of the finalizer, without caches, calls,      *)
(* retries and crashes: a silence is in effect only for an object that is   *)
(* held, and an object that is held is let go only when it has none.        *)
CONSTANT Items       \* what is silenced

VARIABLES
  held,        \* whether the item is kept from going away
  silenced     \* whether a silence is in effect for it

guard == <<held, silenced>>

Init ==
  /\ held = [x \in Items |-> FALSE]
  /\ silenced = [x \in Items |-> FALSE]

Hold(x) ==
  /\ ~held[x]
  /\ held' = [held EXCEPT ![x] = TRUE]
  /\ UNCHANGED silenced

Release(x) ==
  /\ held[x] /\ ~silenced[x]
  /\ held' = [held EXCEPT ![x] = FALSE]
  /\ UNCHANGED silenced

\* Silences come for items that are held, and go: many at once, by the clock.
Change ==
  /\ silenced' \in [Items -> BOOLEAN]
  /\ \A x \in Items : silenced'[x] => held[x]
  /\ UNCHANGED held

Next == (\E x \in Items : Hold(x) \/ Release(x)) \/ Change

Spec == Init /\ [][Next]_guard
=============================================================================
