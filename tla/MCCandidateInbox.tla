---- MODULE MCCandidateInbox ----
EXTENDS CandidateInbox
Event(i, f, t, r, s) == [id |-> i, fp |-> f, task |-> t, root |-> r, form |-> s]
\* Task 1 submits a file that names task 2, a good candidate, and one that
\* does not validate; task 2 the good candidate again, and another.  The event ids differ.
MCEvents == {Event(1, "A", 2, 1, "good"), Event(2, "B", 1, 1, "good"),
             Event(3, "B", 2, 2, "good"), Event(4, "C", 1, 1, "broken"),
             Event(5, "D", 2, 2, "good")}
====
