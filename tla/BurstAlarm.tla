------------------------------ MODULE BurstAlarm ------------------------------
(***************************************************************************)
(* What a threshold detector promises, from everything it ever saw: it     *)
(* keeps all contacts, trims nothing and remembers no flags.  One kind     *)
(* raises an alert when the contacts within the window reach the           *)
(* threshold, and again only after a contact found them below it.  The     *)
(* other raises one whenever they reach it, but never twice within its     *)
(* alert window.                                                           *)
(***************************************************************************)
EXTENDS Integers, Sequences, FiniteSets

CONSTANTS Rearming, Deduping, Keys, Marks, Threshold, Window, AlertWindow

VARIABLES
  now,      \* the clock
  seen,     \* every contact, per detector and key
  raised    \* the times of the alerts, per detector and key, oldest first

alarmVars == <<now, seen, raised>>

\* The weight of a set of contacts: how many different marks they bear.
Weight(S) == Cardinality({c.mark : c \in S})

\* The contacts of S within the window of d that ends at time t reach its threshold.
Reached(d, S, t) == Weight({c \in S : c.at >= t - Window[d]}) >= Threshold[d]

\* The last contact of S found the threshold reached.
Above(d, S) == \E c \in S : (\A e \in S : e.at <= c.at) /\ Reached(d, S, c.at)

Crosses(d, before, after) == ~Above(d, before) /\ Above(d, after)

Due(d, alerts, after) ==
  /\ Reached(d, after, now)
  /\ alerts # <<>> => now - alerts[Len(alerts)] >= AlertWindow[d]

Init == /\ now = 0
        /\ seen = [d \in Rearming \cup Deduping |-> [k \in Keys |-> {}]]
        /\ raised = [d \in Rearming \cup Deduping |-> [k \in Keys |-> <<>>]]

\* Detector d sees a contact of key k.
Contact(d, k, m) ==
  LET after == seen[d][k] \cup {[at |-> now, mark |-> m]}
      calls == IF d \in Rearming THEN Crosses(d, seen[d][k], after)
                                 ELSE Due(d, raised[d][k], after)
  IN  /\ seen' = [seen EXCEPT ![d][k] = after]
      /\ raised' = IF calls THEN [raised EXCEPT ![d][k] = Append(@, now)] ELSE raised
      /\ UNCHANGED now

Advance == now' = now + 1 /\ UNCHANGED <<seen, raised>>

Next == \/ \E d \in Rearming \cup Deduping, k \in Keys, m \in Marks : Contact(d, k, m)
        \/ Advance

Spec == Init /\ [][Next]_alarmVars
===============================================================================
