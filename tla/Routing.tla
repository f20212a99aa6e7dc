------------------------------- MODULE Routing -------------------------------
(***************************************************************************)
(* What a BGP speaker promises about one prefix, whatever tables, messages  *)
(* and filters it is made of: at any time it has chosen a route that no     *)
(* other one on offer beats, and every neighbor it is settled with holds    *)
(* what that neighbor is allowed to hold of the chosen route, and nothing   *)
(* else. Rib implements it.                                                 *)
(***************************************************************************)

CONSTANTS
  Neighbors,
  Sources,           \* who offers routes
  NoRoute, NoPath,
  Path(_, _),        \* the path of a source with a route
  Beats(_, _, _),    \* of two sources of an offer, the first one's route is preferred
  Allowed(_, _, _)   \* may, under this filter, this neighbor hold this path?

VARIABLES
  offered,   \* the route of each source
  best,      \* the path that is chosen
  filter,    \* what is kept from the neighbors
  settled,   \* the neighbors that are up, and were so since the filter changed
  holds      \* what each neighbor holds

vars == <<offered, best, filter, settled, holds>>

Chosen(o, b) ==
  \/ b = NoPath /\ \A s \in Sources : o[s] = NoRoute
  \/ \E s \in Sources :
       /\ o[s] # NoRoute /\ b = Path(s, o[s])
       /\ \A t \in Sources : o[t] # NoRoute => ~Beats(o, t, s)

Due(f, p, b) == IF b # NoPath /\ Allowed(f, p, b) THEN b ELSE NoPath

Init ==
  /\ \A s \in Sources : offered[s] = NoRoute
  /\ best = NoPath /\ settled = {}

\* One source offers another route, or none; all that are settled hear of it at once. (Of routes
\* that do not beat each other either may be chosen, at any time.)
Offer ==
  /\ \E s \in Sources : \A t \in Sources \ {s} : offered'[t] = offered[t]
  /\ Chosen(offered', best')
  /\ settled' \subseteq settled /\ filter' = filter
  /\ \A p \in settled' : holds'[p] = Due(filter, p, best')

\* A neighbor comes up.
Settle(p) ==
  /\ settled' = settled \cup {p}
  /\ holds'[p] = Due(filter, p, best)
  /\ \A q \in settled \ {p} : holds'[q] = holds[q]
  /\ UNCHANGED <<offered, best, filter>>

\* Neighbors go down, or are sent something while they are not settled.
Leave ==
  /\ settled' \subseteq settled
  /\ \A p \in settled' : holds'[p] = holds[p]
  /\ UNCHANGED <<offered, best, filter>>

\* A new filter applies to what is sent from now on.
SetFilter == settled' = {} /\ UNCHANGED <<offered, best, holds>>

Next == Offer \/ (\E p \in Neighbors : Settle(p)) \/ Leave \/ SetFilter

Spec == Init /\ [][Next]_vars
=============================================================================
