--------------------------- MODULE CanonicalState ---------------------------
(***************************************************************************)
(* What CanonicalTransitionStore promises to the rest of the program: the  *)
(* canonical files change all at once, by transitions that start from the  *)
(* ClaimGraph and the trusted state the previous transition left, or one   *)
(* at a time, by somebody's edit.  Crashes and half-done installs cannot   *)
(* be seen.  CanonicalTransition implements this module.                   *)
(***************************************************************************)
EXTENDS Naturals, Sequences

CONSTANTS Files, Graph, Trusted, Premises, Values

VARIABLES
    state,    \* content of every canonical file
    history   \* the transitions made, oldest first

vars == <<state, history>>

Requests ==
    UNION {[T -> Values] : T \in {U \in SUBSET (Files \ (Premises \cup {Trusted})) :
                                    Graph \in U}}

\* A transition is made only on top of the one before it.
Untouched ==
    history # <<>> =>
        \A f \in {Graph, Trusted} : state[f] = history[Len(history)].after[f]

Transit(new) ==
    LET targets == DOMAIN new \cup {Trusted}
        after == [f \in targets |->
                    IF f = Trusted THEN Len(history) + 1 ELSE new[f]]
    IN  /\ Untouched
        /\ history' = Append(history, [before |-> [f \in targets |-> state[f]],
                                       after |-> after])
        /\ state' = [f \in Files |-> IF f \in targets THEN after[f] ELSE state[f]]

Edit(f, c) ==
    /\ state' = [state EXCEPT ![f] = c]
    /\ UNCHANGED history

Init ==
    /\ state \in {s \in [Files -> Values \cup {0}] :
                   \A f \in Files : IF f = Trusted THEN s[f] = 0 ELSE s[f] \in Values}
    /\ history = <<>>

Next ==
    \/ \E new \in Requests : Transit(new)
    \/ \E f \in Files : \E c \in Values \cup 0 .. Len(history) : Edit(f, c)

Spec == Init /\ [][Next]_vars

=============================================================================
