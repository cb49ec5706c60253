-------------------------- MODULE IndependentAudits --------------------------
(***************************************************************************)
(* What the audit machinery promises: a candidate is promoted only on the  *)
(* votes of as many different auditors as it requires, each asked for the  *)
(* same thing, and an audit assignment gives one vote.  Leases, retries,   *)
(* crashes and checkpoints cannot be seen.  AuditPipeline implements this  *)
(* module.                                                                 *)
(***************************************************************************)
EXTENDS Naturals, FiniteSets

CONSTANTS Candidates, Required(_), Bridged

VARIABLES
    votes,     \* votes[c]: the audit reports on candidate c
    standing   \* standing[c]: what became of it

vars == <<votes, standing>>

\* A vote of a new auditor, on an assignment nobody voted on before.
Vote(c) ==
    /\ \E v \in votes'[c] :
        /\ \A u \in votes[c] : u.auditor # v.auditor /\ u.assignment # v.assignment
        /\ votes' = [votes EXCEPT ![c] = @ \cup {v}]
    /\ UNCHANGED standing

\* Enough passes, for a bridged candidate under one authority.
Quorum(c) ==
    \E Q \in SUBSET {v \in votes[c] : v.verdict = "PASS"} :
        /\ Cardinality(Q) = Required(c)
        /\ c \in Bridged => \A u, v \in Q : u.authority = v.authority

Become(c, s) == standing' = [standing EXCEPT ![c] = s] /\ UNCHANGED votes

Next ==
    \E c \in Candidates :
        \/ Vote(c)
        \/ Quorum(c) /\ \E s \in {"promoted", "withheld"} : Become(c, s)
        \/ \E v \in votes[c] : v.verdict = "REJECT" /\ Become(c, "rejected")

Init ==
    /\ votes = [c \in Candidates |-> {}]
    /\ standing = [c \in Candidates |-> "none"]

Spec == Init /\ [][Next]_vars

=============================================================================
