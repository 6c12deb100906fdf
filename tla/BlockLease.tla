------------------------------ MODULE BlockLease ------------------------------
(***************************************************************************)
(* What temporary firewall blocks promise, without files, processes or     *)
(* failures: a lease on a target is granted for a bounded term and only    *)
(* while the target is denied; the target stays denied until one of its    *)
(* leases is recalled or runs out.                                         *)
(***************************************************************************)
EXTENDS Integers

CONSTANTS Targets, MaxTerm

VARIABLES
  now,       \* the clock
  denied,    \* the targets traffic is denied from
  leases,    \* every lease granted so far
  recalled   \* the leases somebody asked to end early

leaseVars == <<now, denied, leases, recalled>>

\* The denial of target t may be lifted: one of its leases was recalled, or is over.
MayLift(t, asked) == \E l \in leases : /\ l.target = t
                                       /\ l \in asked \/ l.expires <= now

Init == now = 0 /\ denied = {} /\ leases = {} /\ recalled = {}

\* Traffic from t is denied, before or without a lease.
Deny(t) == denied' = denied \cup {t} /\ UNCHANGED <<now, leases, recalled>>

\* A lease on a denied target, for a term that is not over and not too long.
Grant(t, term) ==
  /\ t \in denied \/ MayLift(t, recalled)
  /\ leases' = leases \cup {[target |-> t, added |-> now, expires |-> now + term]}
  /\ UNCHANGED <<now, denied, recalled>>

\* Leases are recalled, and with them the denial of a target may end at once.
Recall(asked) ==
  /\ asked \subseteq leases
  /\ recalled' = recalled \cup asked
  /\ \/ UNCHANGED denied
     \/ \E t \in denied : /\ \/ MayLift(t, recalled')
                             \/ \A l \in leases : l.target # t
                          /\ denied' = denied \ {t}
  /\ UNCHANGED <<now, leases>>

Advance == now' = now + 1 /\ UNCHANGED <<denied, leases, recalled>>

Next ==
  \/ \E t \in Targets : Deny(t)
  \/ \E t \in Targets, term \in 1..MaxTerm : Grant(t, term)
  \/ \E asked \in SUBSET leases : Recall(asked)
  \/ Advance

Spec == Init /\ [][Next]_leaseVars
===============================================================================
